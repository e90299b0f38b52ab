---------------------------- MODULE AppSlotsProofs ----------------------------
(***************************************************************************)
(* layer_app changes a slot between two rounds only, for any number of     *)
(* slots, of calls and of layers, as long as the slot's mutex is the one   *)
(* its threads share.  The argument is MutexInv: in such a slot the thread *)
(* that runs is one and holds the mutex, and the mutex is initialised when *)
(* the caller holds it or no thread of the slot lives.                     *)
(***************************************************************************)
EXTENDS AppSlots, TLAPS

\* What the caller knows of the slot it works on
CallerKnows ==
  /\ upc \in {"init", "spawn", "store", "layer"} => created < MaxThreads
  /\ upc \in {"store", "layer"} => open[a] < MaxOpen
  /\ upc \notin {"idle", "unlock", "undefined"} => open[a] > 0
  /\ upc = "unlock" => a \in disturbed

\* In a slot that is not disturbed the mutex excludes.
MutexExcludes(s) ==
  /\ \A t \in Threads : tpc[t] = "run" /\ tslot[t] = s =>
       /\ apps[s].stall
       /\ a = s => upc \notin {"store", "layer", "init"}
       /\ \A u \in Threads : tpc[u] = "run" /\ tslot[u] = s => u = t
  /\ a = s /\ upc \in {"store", "layer"} => apps[s].stall
  /\ a = s /\ upc = "init" => apps[s].stall \/ Living(s) = {}

MutexInv == \A s \in Slots \ disturbed : MutexExcludes(s)

IndInv == TypeOK /\ CallerKnows /\ MutexInv

\* Writing a field of a slot.
LEMMA WriteSlot ==
  ASSUME TypeOK, NEW s \in Slots
  PROVE  /\ \A b \in BOOLEAN :
              /\ [apps EXCEPT ![s].stall = b] \in [Slots -> AppState]
              /\ [apps EXCEPT ![s].closing = b] \in [Slots -> AppState]
              /\ [apps EXCEPT ![s].populated = b] \in [Slots -> AppState]
         /\ \A p \in Threads :
              /\ [apps EXCEPT ![s].program = p] \in [Slots -> AppState]
              /\ [apps EXCEPT ![s].shadowed = TRUE, ![s].program = p] \in [Slots -> AppState]
<1>1. apps \in [Slots -> AppState] /\ apps[s] \in AppState
  BY DEF TypeOK
<1>2. ASSUME NEW b \in BOOLEAN
      PROVE  /\ [apps[s] EXCEPT !.stall = b] \in AppState
             /\ [apps[s] EXCEPT !.closing = b] \in AppState
             /\ [apps[s] EXCEPT !.populated = b] \in AppState
  BY <1>1 DEF AppState
<1>3. ASSUME NEW p \in Threads
      PROVE  /\ [apps[s] EXCEPT !.program = p] \in AppState
             /\ [[apps[s] EXCEPT !.shadowed = TRUE] EXCEPT !.program = p] \in AppState
  BY <1>1 DEF AppState
<1>4. ASSUME NEW p \in Threads
      PROVE  [apps EXCEPT ![s].shadowed = TRUE, ![s].program = p] \in [Slots -> AppState]
  <2>1. [apps EXCEPT ![s].shadowed = TRUE, ![s].program = p]
          = [apps EXCEPT ![s] = [[apps[s] EXCEPT !.shadowed = TRUE] EXCEPT !.program = p]]
    BY <1>1
  <2>. QED BY <1>1, <1>3, <2>1
<1>. QED BY <1>1, <1>2, <1>3, <1>4

\* A number of open applications.
LEMMA Counted ==
  ASSUME TypeOK, NEW s \in Slots
  PROVE  /\ open[s] < MaxOpen => [open EXCEPT ![s] = @ + 1] \in [Slots -> 0 .. MaxOpen]
         /\ open[s] > 0 => [open EXCEPT ![s] = @ - 1] \in [Slots -> 0 .. MaxOpen]
<1>1. open \in [Slots -> 0 .. MaxOpen] /\ open[s] \in 0 .. MaxOpen /\ MaxOpen \in Nat
  BY AppSlotsAssumption DEF TypeOK
<1>2. open[s] < MaxOpen => open[s] + 1 \in 0 .. MaxOpen
  BY <1>1
<1>3. open[s] > 0 => open[s] - 1 \in 0 .. MaxOpen
  BY <1>1
<1>. QED BY <1>1, <1>2, <1>3

\* Each step keeps the types, however many applications are open or layered.
LEMMA TypesKept == TypeOK /\ CallerKnows /\ [Next]_vars => TypeOK'
<1>. SUFFICES ASSUME TypeOK, CallerKnows, [Next]_vars
              PROVE  TypeOK'
  OBVIOUS
<1>. USE AppSlotsAssumption DEF Goto, threadVars, callerVars, history
<1>0. /\ a \in Slots /\ \A t \in Threads : tslot[t] \in Slots
      /\ created \in Nat
      /\ apps \in [Slots -> AppState] /\ shadows \in [Slots -> AppState]
      /\ open \in [Slots -> 0 .. MaxOpen] /\ disturbed \subseteq Slots
  BY DEF TypeOK
<1>a. ASSUME created' = created
      PROVE  AppState' = AppState
  BY <1>a DEF AppState
<1>1. CASE UNCHANGED vars
  BY <1>1, <1>a DEF vars, TypeOK
<1>2. ASSUME NEW t \in Threads, Thread(t) \/ Woken(t)
      PROVE  TypeOK'
  <2>1. tpc' \in [Threads -> {"none", "check", "lock", "run", "stuck", "done", "joined"}]
    BY <1>2 DEF Thread, CheckClosing, LockStall, UnlockStall, Woken, At, TypeOK
  <2>2. \/ apps' = apps
        \/ \E b \in BOOLEAN : apps' = [apps EXCEPT ![tslot[t]].stall = b]
    BY <1>2 DEF Thread, CheckClosing, LockStall, UnlockStall, Woken
  <2>3. apps' \in [Slots -> AppState]
    <3>1. CASE apps' = apps
      BY <1>0, <3>1
    <3>2. ASSUME NEW b \in BOOLEAN, apps' = [apps EXCEPT ![tslot[t]].stall = b]
          PROVE  apps' \in [Slots -> AppState]
      BY <1>0, <3>2, WriteSlot
    <3>. QED BY <2>2, <3>1, <3>2
  <2>4. UNCHANGED <<shadows, created, tslot, callerVars, history>>
    BY <1>2 DEF Thread, CheckClosing, LockStall, UnlockStall, Woken
  <2>. QED
    BY <1>a, <2>1, <2>3, <2>4 DEF TypeOK
<1>3. CASE NewApp
  <2>1. created + 1 \in Threads
    BY <1>0, <1>3 DEF NewApp, Threads
  <2>2. PICK s \in Slots : /\ a' = s /\ open[s] < MaxOpen
                           /\ apps' = [apps EXCEPT ![s].program = created + 1]
                           /\ open' = [open EXCEPT ![s] = @ + 1]
                           /\ disturbed' \in {disturbed \ {s}, disturbed \cup {s}}
    BY <1>3 DEF NewApp
  <2>3. apps' \in [Slots -> AppState]
    BY <2>1, <2>2, WriteSlot
  <2>4. open' \in [Slots -> 0 .. MaxOpen] /\ disturbed' \subseteq Slots
    BY <1>0, <2>2, Counted
  <2>. QED BY <1>3, <1>a, <2>2, <2>3, <2>4 DEF NewApp, TypeOK
<1>4. CASE InitStall
  <2>1. apps' \in [Slots -> AppState]
    BY <1>0, <1>4, WriteSlot DEF InitStall
  <2>2. tpc' \in [Threads -> {"none", "check", "lock", "run", "stuck", "done", "joined"}]
    BY <1>4 DEF InitStall, TypeOK
  <2>. QED BY <1>4, <1>a, <2>1, <2>2 DEF InitStall, TypeOK
<1>5. CASE Spawn
  <2>1. created + 1 \in Threads /\ created' = created + 1
    BY <1>0, <1>5 DEF Spawn, CallerKnows, Threads
  <2>2. 0 .. created \subseteq 0 .. created' /\ created' \in 0 .. created'
    BY <1>0, <2>1
  <2>b. ASSUME NEW r \in AppState
        PROVE  r \in AppState' /\ [r EXCEPT !.thread = created'] \in AppState'
    BY <2>2 DEF AppState
  <2>3. apps' \in [Slots -> AppState'] /\ shadows' \in [Slots -> AppState']
    <3>1. apps' = [apps EXCEPT ![a] = [apps[a] EXCEPT !.thread = created']]
      BY <1>5, <2>1 DEF Spawn, TypeOK
    <3>2. shadows' = shadows
      BY <1>5 DEF Spawn
    <3>. QED BY <1>0, <2>b, <3>1, <3>2
  <2>. QED BY <1>0, <1>5, <2>1, <2>3 DEF Spawn, TypeOK, Threads
<1>6. CASE LayerLock
  <2>1. apps' \in [Slots -> AppState] /\ a' \in Slots
    BY <1>6, WriteSlot DEF LayerLock, Layering
  <2>. QED BY <1>6, <1>a, <2>1 DEF LayerLock, Layering, TypeOK
<1>7. CASE StoreShadow
  BY <1>7, <1>a DEF StoreShadow, TypeOK
<1>8. CASE SetLayer
  <2>1. created + 1 \in Threads /\ open[a] < MaxOpen
    BY <1>0, <1>8 DEF SetLayer, CallerKnows, Threads
  <2>2. apps' \in [Slots -> AppState]
    BY <1>0, <1>8, <2>1, WriteSlot DEF SetLayer
  <2>3. open' \in [Slots -> 0 .. MaxOpen]
    BY <1>0, <1>8, <2>1, Counted DEF SetLayer
  <2>. QED BY <1>8, <1>a, <2>2, <2>3 DEF SetLayer, TypeOK
<1>9. CASE SetClosing
  <2>1. apps' \in [Slots -> AppState] /\ a' \in Slots
    BY <1>9, WriteSlot DEF SetClosing
  <2>. QED BY <1>9, <1>a, <2>1 DEF SetClosing, TypeOK
<1>10. CASE Join
  <2>1. tpc' \in [Threads -> {"none", "check", "lock", "run", "stuck", "done", "joined"}]
    BY <1>10 DEF Join, TypeOK
  <2>2. upc' \in {"restore", "undefined"}
    BY <1>10 DEF Join
  <2>. QED BY <1>10, <1>a, <2>1, <2>2 DEF Join, TypeOK
<1>11. CASE UnlockParent
  <2>1. apps' \in [Slots -> AppState]
    BY <1>0, <1>11, WriteSlot DEF UnlockParent
  <2>. QED BY <1>11, <1>a, <2>1 DEF UnlockParent, TypeOK
<1>12. CASE Restore \/ Vacate
  <2>1. open' \in [Slots -> 0 .. MaxOpen]
    <3>1. open[a] > 0
      BY <1>12 DEF Restore, Vacate, CallerKnows
    <3>. QED BY <1>0, <1>12, <3>1, Counted DEF Restore, Vacate
  <2>2. CASE Restore
    BY <1>0, <1>a, <2>1, <2>2 DEF Restore, TypeOK
  <2>3. CASE Vacate
    <3>1. apps' \in [Slots -> AppState]
      BY <1>0, <2>3, WriteSlot DEF Vacate
    <3>. QED BY <1>a, <2>1, <2>3, <3>1 DEF Vacate, TypeOK
  <2>. QED BY <1>12, <2>2, <2>3
<1>. QED BY <1>1, <1>2, <1>3, <1>4, <1>5, <1>6, <1>7, <1>8, <1>9, <1>10, <1>11, <1>12 DEF Next, Caller

LEMMA CallerKeepsKnowing == TypeOK /\ CallerKnows /\ [Next]_vars => CallerKnows'
<1>. SUFFICES ASSUME TypeOK, CallerKnows, [Next]_vars PROVE CallerKnows'
  OBVIOUS
<1>. USE DEF Goto, threadVars, callerVars, history, CallerKnows
<1>0. a \in Slots /\ open \in [Slots -> 0 .. MaxOpen] /\ MaxOpen \in Nat
  BY AppSlotsAssumption DEF TypeOK
<1>1. CASE UNCHANGED vars
  BY <1>1 DEF vars
<1>2. ASSUME NEW t \in Threads, Thread(t) \/ Woken(t)
      PROVE  CallerKnows'
  BY <1>2 DEF Thread, CheckClosing, LockStall, UnlockStall, Woken
<1>3. CASE NewApp
  <2>1. PICK s \in Slots : a' = s /\ open' = [open EXCEPT ![s] = @ + 1]
    BY <1>3 DEF NewApp
  <2>2. open'[a'] = open[a'] + 1 /\ open[a'] \in 0 .. MaxOpen
    BY <1>0, <2>1
  <2>3. open'[a'] > 0
    BY <1>0, <2>2
  <2>. QED BY <1>3, <2>3 DEF NewApp
<1>4. CASE SetLayer
  <2>1. open'[a] = open[a] + 1 /\ open[a] \in 0 .. MaxOpen
    BY <1>0, <1>4 DEF SetLayer
  <2>2. open'[a] > 0
    BY <1>0, <2>1
  <2>. QED BY <1>4, <2>2 DEF SetLayer
<1>5. CASE InitStall \/ Spawn \/ StoreShadow \/ Join \/ Restore \/ Vacate \/ UnlockParent
  BY <1>5 DEF InitStall, Spawn, StoreShadow, Join, Restore, Vacate, UnlockParent
<1>6. CASE LayerLock \/ SetClosing
  <2>1. CASE LayerLock
    <3>1. PICK s \in Slots : a' = s /\ open[s] \in 1 .. MaxOpen - 1
      BY <2>1 DEF LayerLock, Layering
    <3>2. open[s] > 0 /\ open[s] < MaxOpen
      BY <1>0, <3>1
    <3>. QED BY <2>1, <3>1, <3>2 DEF LayerLock, Layering
  <2>2. CASE SetClosing
    BY <2>2 DEF SetClosing
  <2>. QED BY <1>6, <2>1, <2>2
<1>. QED BY <1>1, <1>2, <1>3, <1>4, <1>5, <1>6 DEF Next, Caller

\* When only the mutex of a slot was written, the others' are as before.
LEMMA StallWritten ==
  ASSUME TypeOK, NEW s \in Slots, NEW b \in BOOLEAN, apps' = [apps EXCEPT ![s].stall = b]
  PROVE  \A r \in Slots : apps'[r].stall = IF r = s THEN b ELSE apps[r].stall
<1>1. apps \in [Slots -> AppState] /\ \A r \in Slots : apps[r] \in AppState
  BY DEF TypeOK
<1>2. apps'[s] = [apps[s] EXCEPT !.stall = b] /\ \A r \in Slots \ {s} : apps'[r] = apps[r]
  BY <1>1
<1>3. apps'[s].stall = b
  BY <1>1, <1>2 DEF AppState
<1>. QED BY <1>2, <1>3

\* A thread takes the mutex only when it is free, and gives back its own.
LEMMA MutexKeptByThreads ==
  ASSUME TypeOK, MutexInv, NEW t \in Threads, Thread(t) \/ Woken(t)
  PROVE  MutexInv'
<1>1. /\ UNCHANGED <<upc, a, tslot, disturbed>> /\ tslot[t] \in Slots
      /\ tpc[t] \in {"check", "lock", "run", "stuck"}
      /\ \A u \in Threads \ {t} : tpc'[u] = tpc[u]
  BY DEF Thread, CheckClosing, LockStall, UnlockStall, Woken, At, callerVars, history, TypeOK
<1>a. \A s : Living(s) = {} => Living(s)' = {}
  <2>. SUFFICES ASSUME NEW s, Living(s) = {}  PROVE Living(s)' = {}
    OBVIOUS
  <2>1. tslot[t] # s
    BY <1>1 DEF Living
  <2>. QED BY <1>1, <2>1 DEF Living
<1>b. Living(tslot[t]) # {}
  BY <1>1 DEF Living
<1>2. CASE LockStall(t)
  <2>1. /\ ~apps[tslot[t]].stall /\ apps' = [apps EXCEPT ![tslot[t]].stall = TRUE]
    BY <1>2 DEF LockStall
  <2>2. \A r \in Slots : apps'[r].stall = IF r = tslot[t] THEN TRUE ELSE apps[r].stall
    BY <1>1, <2>1, StallWritten
  <2>3. \A u \in Threads : tpc[u] = "run" /\ tslot[u] = tslot[t] => tslot[t] \in disturbed
    BY <1>1, <2>1 DEF MutexInv, MutexExcludes
  <2>4. a = tslot[t] /\ tslot[t] \notin disturbed => upc \notin {"store", "layer", "init"}
    BY <1>1, <1>b, <2>1 DEF MutexInv, MutexExcludes
  <2>5. tslot[t] \notin disturbed => MutexExcludes(tslot[t])'
    BY <1>1, <2>1, <2>2, <2>3, <2>4 DEF MutexExcludes
  <2>6. \A s \in Slots \ disturbed : s # tslot[t] => MutexExcludes(s)'
    BY <1>1, <1>a, <2>2 DEF MutexInv, MutexExcludes
  <2>. QED BY <1>1, <2>5, <2>6 DEF MutexInv
<1>3. CASE UnlockStall(t)
  <2>1. /\ tpc[t] = "run" /\ tpc'[t] = "check" /\ apps' = [apps EXCEPT ![tslot[t]].stall = FALSE]
    BY <1>3 DEF UnlockStall, At, TypeOK
  <2>2. \A r \in Slots : apps'[r].stall = IF r = tslot[t] THEN FALSE ELSE apps[r].stall
    BY <1>1, <2>1, StallWritten
  <2>. QED BY <1>1, <1>a, <2>1, <2>2 DEF MutexInv, MutexExcludes
<1>4. CASE CheckClosing(t) \/ Woken(t)
  <2>1. apps' = apps /\ tpc'[t] # "run"
    BY <1>4 DEF CheckClosing, Woken, At, TypeOK
  <2>. QED BY <1>1, <1>a, <2>1 DEF MutexInv, MutexExcludes
<1>. QED BY <1>2, <1>3, <1>4 DEF Thread

\* The caller takes the mutex of a slot to change it, and initialises it when
\* it holds it or when no thread of the slot lives.
LEMMA MutexKeptByCaller ==
  ASSUME TypeOK, CallerKnows, MutexInv, Caller
  PROVE  MutexInv'
<1>. USE DEF Goto, history, threadVars
<1>1. CASE NewApp
  <2>1. PICK s \in Slots : /\ a' = s /\ apps' = [apps EXCEPT ![s].program = created + 1]
                           /\ disturbed' = IF Living(s) = {} THEN disturbed \ {s} ELSE disturbed \cup {s}
    BY <1>1 DEF NewApp
  <2>2. upc = "idle" /\ upc' = "init" /\ UNCHANGED <<tpc, tslot>>
    BY <1>1 DEF NewApp
  <2>3. \A r \in Slots : Living(r)' = Living(r) /\ apps'[r].stall = apps[r].stall
    <3>1. /\ apps'[s] = [apps[s] EXCEPT !.program = created + 1] /\ apps[s] \in AppState
          /\ \A r \in Slots \ {s} : apps'[r] = apps[r]
      BY <2>1 DEF TypeOK
    <3>. QED BY <2>2, <3>1 DEF AppState, Living
  <2>4. Living(s) = {} => MutexExcludes(s)'
    <3>. SUFFICES ASSUME Living(s) = {}  PROVE MutexExcludes(s)'
      OBVIOUS
    <3>1. \A t \in Threads : ~(tpc'[t] = "run" /\ tslot'[t] = s)
      BY <2>2 DEF Living
    <3>2. Living(s)' = {}
      BY <2>3
    <3>. QED BY <2>2, <3>1, <3>2 DEF MutexExcludes
  <2>5. \A r \in Slots \ disturbed : r # s => MutexExcludes(r)'
    BY <2>1, <2>2, <2>3 DEF MutexInv, MutexExcludes
  <2>. QED BY <2>1, <2>4, <2>5 DEF MutexInv
<1>2. CASE InitStall
  <2>1. /\ upc = "init" /\ upc' = "spawn" /\ a \in Slots
        /\ UNCHANGED <<tslot, a, disturbed>>
        /\ apps' = [apps EXCEPT ![a].stall = FALSE]
        /\ \A t \in Threads : tpc'[t] = "run" => tpc[t] = "run"
    BY <1>2 DEF InitStall, TypeOK
  <2>2. \A r \in Slots : apps'[r].stall = IF r = a THEN FALSE ELSE apps[r].stall
    BY <2>1, StallWritten
  <2>. QED BY <2>1, <2>2 DEF MutexInv, MutexExcludes
<1>3. CASE Spawn
  <2>1. /\ upc' = "idle" /\ UNCHANGED <<a, disturbed>> /\ a \in Slots
        /\ apps' = [apps EXCEPT ![a].thread = created + 1]
        /\ \A t \in Threads : tpc'[t] = "run" => tpc[t] = "run" /\ tslot'[t] = tslot[t]
    BY <1>3 DEF Spawn, TypeOK
  <2>2. \A r \in Slots : apps'[r].stall = apps[r].stall
    <3>1. /\ apps'[a] = [apps[a] EXCEPT !.thread = created + 1] /\ apps[a] \in AppState
          /\ \A r \in Slots \ {a} : apps'[r] = apps[r]
      BY <2>1 DEF TypeOK
    <3>. QED BY <3>1 DEF AppState
  <2>. QED BY <2>1, <2>2 DEF MutexInv, MutexExcludes
<1>4. CASE LayerLock
  <2>1. PICK s \in Slots : ~apps[s].stall /\ Layering(s)
    BY <1>4 DEF LayerLock
  <2>2. /\ apps' = [apps EXCEPT ![s].stall = TRUE] /\ a' = s
        /\ upc = "idle" /\ upc' = "store" /\ UNCHANGED <<tpc, tslot, disturbed>>
    BY <2>1 DEF Layering
  <2>3. \A r \in Slots : apps'[r].stall = IF r = s THEN TRUE ELSE apps[r].stall
    BY <2>2, StallWritten
  <2>4. \A t \in Threads : tpc[t] = "run" /\ tslot[t] = s => s \in disturbed
    BY <2>1, <2>2 DEF MutexInv, MutexExcludes
  <2>5. s \notin disturbed => MutexExcludes(s)'
    BY <2>2, <2>3, <2>4 DEF MutexExcludes
  <2>6. \A r \in Slots \ disturbed : r # s => MutexExcludes(r)'
    BY <2>2, <2>3 DEF MutexInv, MutexExcludes
  <2>. QED BY <2>2, <2>5, <2>6 DEF MutexInv
<1>5. CASE StoreShadow
  BY <1>5 DEF StoreShadow, MutexInv, MutexExcludes
<1>6. CASE SetLayer
  <2>1. /\ upc = "layer" /\ upc' = "init" /\ UNCHANGED <<a, tpc, tslot, disturbed>> /\ a \in Slots
        /\ apps' = [apps EXCEPT ![a].shadowed = TRUE, ![a].program = created + 1]
    BY <1>6 DEF SetLayer, TypeOK
  <2>2. \A r \in Slots : apps'[r].stall = apps[r].stall
    <3>1. /\ apps'[a] = [[apps[a] EXCEPT !.shadowed = TRUE] EXCEPT !.program = created + 1]
          /\ apps[a] \in AppState
          /\ \A r \in Slots \ {a} : apps'[r] = apps[r]
      BY <2>1 DEF TypeOK
    <3>. QED BY <3>1 DEF AppState
  <2>. QED BY <2>1, <2>2 DEF MutexInv, MutexExcludes
<1>7. CASE SetClosing
  <2>1. PICK s \in Slots : apps' = [apps EXCEPT ![s].closing = TRUE]
    BY <1>7 DEF SetClosing
  <2>2. upc' = "join" /\ UNCHANGED <<tpc, tslot, disturbed>>
    BY <1>7 DEF SetClosing
  <2>3. \A r \in Slots : apps'[r].stall = apps[r].stall
    <3>1. /\ apps'[s] = [apps[s] EXCEPT !.closing = TRUE] /\ apps[s] \in AppState
          /\ \A r \in Slots \ {s} : apps'[r] = apps[r]
      BY <2>1 DEF TypeOK
    <3>. QED BY <3>1 DEF AppState
  <2>. QED BY <2>2, <2>3 DEF MutexInv, MutexExcludes
<1>8. CASE Join
  <2>1. /\ upc' \in {"restore", "undefined"} /\ UNCHANGED <<apps, a, tslot, disturbed>>
        /\ \A t \in Threads : tpc'[t] = "run" => tpc[t] = "run"
    BY <1>8 DEF Join, TypeOK
  <2>. QED BY <2>1 DEF MutexInv, MutexExcludes
<1>9. CASE Restore
  <2>1. /\ upc' = "unlock" /\ UNCHANGED <<a, tpc, tslot>> /\ disturbed' = disturbed \cup {a}
        /\ a \in Slots /\ \A r \in Slots \ {a} : apps'[r] = apps[r]
    BY <1>9 DEF Restore, TypeOK
  <2>. QED BY <2>1 DEF MutexInv, MutexExcludes
<1>10. CASE UnlockParent
  <2>1. /\ upc = "unlock" /\ upc' = "idle" /\ UNCHANGED <<a, tpc, tslot, disturbed>>
        /\ a \in disturbed /\ \A r \in Slots \ {a} : apps'[r] = apps[r]
    BY <1>10 DEF UnlockParent, TypeOK, CallerKnows
  <2>. QED BY <2>1 DEF MutexInv, MutexExcludes
<1>11. CASE Vacate
  <2>1. /\ upc = "restore" /\ upc' = "idle" /\ UNCHANGED <<a, tpc, tslot, disturbed>>
        /\ a \in Slots /\ apps' = [apps EXCEPT ![a].populated = FALSE]
    BY <1>11 DEF Vacate, TypeOK
  <2>2. \A r \in Slots : apps'[r].stall = apps[r].stall
    <3>1. /\ apps'[a] = [apps[a] EXCEPT !.populated = FALSE] /\ apps[a] \in AppState
          /\ \A r \in Slots \ {a} : apps'[r] = apps[r]
      BY <2>1 DEF TypeOK
    <3>. QED BY <3>1 DEF AppState
  <2>. QED BY <2>1, <2>2 DEF MutexInv, MutexExcludes
<1>. QED BY <1>1, <1>2, <1>3, <1>4, <1>5, <1>6, <1>7, <1>8, <1>9, <1>10, <1>11 DEF Caller

LEMMA Initially == Init => IndInv
<1>. SUFFICES ASSUME Init PROVE IndInv
  OBVIOUS
<1>1. Slots # {} /\ 0 \in Slots
  BY AppSlotsAssumption DEF Slots
<1>2. TypeOK
  BY <1>1, AppSlotsAssumption DEF Init, TypeOK, AppState, Zeroed
<1>3. CallerKnows
  BY DEF Init, CallerKnows
<1>4. MutexInv
  BY DEF Init, MutexInv, MutexExcludes
<1>. QED BY <1>2, <1>3, <1>4 DEF IndInv

LEMMA Induction == Spec => []IndInv
<1>1. IndInv /\ [Next]_vars => IndInv'
  <2>. SUFFICES ASSUME IndInv, [Next]_vars PROVE IndInv'
    OBVIOUS
  <2>1. TypeOK' /\ CallerKnows'
    BY TypesKept, CallerKeepsKnowing DEF IndInv
  <2>2. CASE UNCHANGED vars
    BY <2>1, <2>2 DEF IndInv, MutexInv, MutexExcludes, Living, vars, threadVars, callerVars, history
  <2>3. MutexInv'
    BY <2>1, <2>2, MutexKeptByThreads, MutexKeptByCaller DEF IndInv, Next
  <2>. QED BY <2>1, <2>3 DEF IndInv
<1>. QED BY Initially, <1>1, PTL DEF Spec

\* The slots, the threads and the caller have their types, whatever the
\* caller opens (vm.c:26-67).
THEOREM TypeCorrect == Spec => []TypeOK
<1>1. IndInv => TypeOK
  BY DEF IndInv
<1>. QED BY Induction, <1>1, PTL

\* layer_app changes a slot whose mutex is the one its threads share only
\* between two of their rounds, however many layers there are (vm.c:43-47).
THEOREM LayersAlwaysBetweenRounds == Spec => []LayersBetweenRounds
<1>1. IndInv => LayersBetweenRounds
  BY DEF IndInv, TypeOK, MutexInv, MutexExcludes, LayersBetweenRounds
<1>. QED BY Induction, <1>1, PTL
=============================================================================
