------------------------------- MODULE AppSlots -------------------------------
(***************************************************************************)
(* The application slots of the client's virtual machine (client/vm.c).    *)
(*                                                                         *)
(* An application is a slot of state.vm.apps and a thread that executes    *)
(* the slot's program in rounds, each under the slot's mutex `stall`.      *)
(* layer_app copies the slot to state.vm.shadows, puts another program     *)
(* into it and starts a thread for that one too; close_app copies it back. *)
(* The parent's thread has the slot's address: once the mutex is           *)
(* initialised again it executes the layer's program beside the layer's    *)
(* own thread.  One thread, the caller, uses these functions, and closes   *)
(* what it has opened; each statement of theirs that other threads can see *)
(* is a step.  A program is named by the number of the thread that was     *)
(* started for it.                                                         *)
(*                                                                         *)
(* stall is a plain pthread mutex: a word that is held or not, whoever     *)
(* holds it.  Initialising it while threads sleep on it is undefined; such *)
(* a thread may sleep on ("stuck") or try again.  To destroy it and free   *)
(* the program while another thread uses them, and to join a thread twice, *)
(* is undefined too; there the model may end or must.                      *)
(***************************************************************************)
EXTENDS Naturals

CONSTANTS
  AppsMax,     \* state.config.apps_max
  MaxThreads,  \* bound: calls of new_app and layer_app
  MaxOpen      \* bound: applications and layers open at once in a slot

ASSUME AppSlotsAssumption ==
  AppsMax \in Nat \ {0} /\ MaxThreads \in Nat /\ MaxOpen \in Nat

Slots == 0 .. AppsMax - 1
Threads == 1 .. MaxThreads

VARIABLES
  apps, shadows,  \* application_state per slot
  created,        \* threads started so far
  tpc, tslot,     \* per thread: location in app_thread, its slot
  upc, a,         \* the caller: location, the slot it works on
  open,           \* per slot: applications and layers the caller has not closed
  disturbed       \* history: slots whose mutex was put back from a shadow, or
                  \* initialised by new_app while a thread of the slot lived

threadVars == <<created, tpc, tslot>>
callerVars == <<upc, a>>
history == <<open, disturbed>>
vars == <<apps, shadows, threadVars, callerVars, history>>

\* program and thread 0: none yet
Zeroed == [populated |-> FALSE, program |-> 0, thread |-> 0, shadowed |-> FALSE,
           stall |-> FALSE, closing |-> FALSE]

\* vm_init; the memory malloc returns is taken to be fresh from the kernel.
Init ==
  /\ apps = [s \in Slots |-> Zeroed] /\ shadows = [s \in Slots |-> Zeroed]
  /\ created = 0
  /\ tpc = [t \in Threads |-> "none"] /\ tslot = [t \in Threads |-> 0]
  /\ upc = "idle" /\ a = 0
  /\ open = [s \in Slots |-> 0] /\ disturbed = {}

-----------------------------------------------------------------------------
(* app_thread *)

At(t, here, there) == upc # "undefined" /\ tpc[t] = here /\ tpc' = [tpc EXCEPT ![t] = there]


\* while (a->closing == false)
CheckClosing(t) ==
  /\ At(t, "check", IF apps[tslot[t]].closing THEN "done" ELSE "lock")
  /\ UNCHANGED <<apps, shadows, created, tslot, callerVars, history>>

LockStall(t) ==
  /\ At(t, "lock", "run")
  /\ ~apps[tslot[t]].stall
  /\ apps' = [apps EXCEPT ![tslot[t]].stall = TRUE]
  /\ UNCHANGED <<shadows, created, tslot, callerVars, history>>

\* execute_main is over; unlock, whoever holds the mutex by now.
UnlockStall(t) ==
  /\ At(t, "run", "check")
  /\ apps' = [apps EXCEPT ![tslot[t]].stall = FALSE]
  /\ UNCHANGED <<shadows, created, tslot, callerVars, history>>

\* A thread that slept through an initialisation is woken after all.
Woken(t) ==
  /\ At(t, "stuck", "lock")
  /\ UNCHANGED <<apps, shadows, created, tslot, callerVars, history>>

Thread(t) == CheckClosing(t) \/ LockStall(t) \/ UnlockStall(t)

-----------------------------------------------------------------------------
(* The caller. *)

Goto(here, there) == upc = here /\ upc' = there

\* Threads of a slot that have not left app_thread
Living(s) == {t \in Threads : tslot[t] = s /\ tpc[t] \in {"check", "lock", "run", "stuck"}}

\* new_app: the first slot that is not populated; its program is set, and
\* nothing else of what the slot held before.
NewApp ==
  /\ Goto("idle", "init")
  /\ created < MaxThreads
  /\ \E s \in Slots :
       /\ ~apps[s].populated
       /\ \A r \in Slots : r < s => apps[r].populated
       /\ open[s] < MaxOpen
       /\ a' = s
       /\ apps' = [apps EXCEPT ![s].program = created + 1]
       /\ open' = [open EXCEPT ![s] = @ + 1]
       /\ disturbed' = IF Living(s) = {} THEN disturbed \ {s} ELSE disturbed \cup {s}
  /\ UNCHANGED <<shadows, threadVars>>

\* pthread_mutex_init, of new_app and of layer_app
InitStall ==
  /\ Goto("init", "spawn")
  /\ \E Z \in SUBSET {t \in Threads : tpc[t] = "lock" /\ tslot[t] = a /\ apps[a].stall} :
       tpc' = [t \in Threads |-> IF t \in Z THEN "stuck" ELSE tpc[t]]
  /\ apps' = [apps EXCEPT ![a].stall = FALSE]
  /\ UNCHANGED <<shadows, created, tslot, a, history>>

\* pthread_create
Spawn_Ahead ==
  /\ Goto("spawn", "idle")
  /\ LET t == created + 1 IN
       /\ apps' = [apps EXCEPT ![a].thread = t + 1]
       /\ tpc' = [tpc EXCEPT ![t] = "check"]
       /\ tslot' = [tslot EXCEPT ![t] = a]
       /\ created' = t
  /\ UNCHANGED <<shadows, a, history>>

Spawn ==
  /\ Goto("spawn", "idle")
  /\ LET t == created + 1 IN
       /\ apps' = [apps EXCEPT ![a].thread = t]
       /\ tpc' = [tpc EXCEPT ![t] = "check"]
       /\ tslot' = [tslot EXCEPT ![t] = a]
       /\ created' = t
  /\ UNCHANGED <<shadows, a, history>>

\* layer_app, on an open application
Layering(s) ==
  /\ Goto("idle", "store")
  /\ created < MaxThreads
  /\ open[s] \in 1 .. MaxOpen - 1
  /\ apps' = [apps EXCEPT ![s].stall = TRUE]
  /\ a' = s
  /\ UNCHANGED <<shadows, threadVars, history>>

LayerLock_Skipped == \E s \in Slots : Layering(s)

LayerLock == \E s \in Slots : ~apps[s].stall /\ Layering(s)

\* shadows[a] = apps[a]
StoreShadow ==
  /\ Goto("store", "layer")
  /\ shadows' = [shadows EXCEPT ![a] = apps[a]]
  /\ UNCHANGED <<apps, threadVars, a, history>>

\* shadowed = true, and the new program
SetLayer ==
  /\ Goto("layer", "init")
  /\ apps' = [apps EXCEPT ![a].shadowed = TRUE, ![a].program = created + 1]
  /\ open' = [open EXCEPT ![a] = @ + 1]
  /\ UNCHANGED <<shadows, threadVars, a, disturbed>>

\* close_app, on an open application
SetClosing ==
  /\ Goto("idle", "join")
  /\ \E s \in Slots :
       /\ open[s] > 0
       /\ a' = s
       /\ apps' = [apps EXCEPT ![s].closing = TRUE]
  /\ UNCHANGED <<shadows, threadVars, history>>

\* The mutex is held or waited for, or the program executed, by another thread
\* than the one that was joined: the parent's, or one of a second application.
InUse == \E t \in Threads : tslot[t] = a /\ tpc[t] \in {"lock", "run", "stuck"}

\* pthread_join returns; the mutex is destroyed and the program freed.
Join ==
  /\ upc = "join"
  /\ \/ /\ tpc[apps[a].thread] = "done"
        /\ tpc' = [tpc EXCEPT ![apps[a].thread] = "joined"]
        /\ upc' \in {"restore"} \cup (IF InUse THEN {"undefined"} ELSE {})
     \/ tpc[apps[a].thread] = "joined" /\ upc' = "undefined" /\ tpc' = tpc
  /\ UNCHANGED <<apps, shadows, created, tslot, a, history>>

\* apps[a] = shadows[a]
Restore ==
  /\ Goto("restore", "unlock")
  /\ apps[a].shadowed
  /\ apps' = [apps EXCEPT ![a] = shadows[a]]
  /\ open' = [open EXCEPT ![a] = @ - 1]
  /\ disturbed' = disturbed \cup {a}
  /\ UNCHANGED <<shadows, threadVars, a>>

UnlockParent ==
  /\ Goto("unlock", "idle")
  /\ apps' = [apps EXCEPT ![a].stall = FALSE]
  /\ UNCHANGED <<shadows, threadVars, a, history>>

\* populated = false
Vacate ==
  /\ Goto("restore", "idle")
  /\ ~apps[a].shadowed
  /\ apps' = [apps EXCEPT ![a].populated = FALSE]
  /\ open' = [open EXCEPT ![a] = @ - 1]
  /\ UNCHANGED <<shadows, threadVars, a, disturbed>>

Caller ==
  \/ NewApp \/ InitStall \/ Spawn
  \/ LayerLock \/ StoreShadow \/ SetLayer
  \/ SetClosing \/ Join \/ Restore \/ UnlockParent \/ Vacate

Next == Caller \/ \E t \in Threads : Thread(t) \/ Woken(t)

Spec == Init /\ [][Next]_vars

\* The kernel runs the threads and the caller; a mutex is not granted in turn.
FairSpec ==
  /\ Spec
  /\ \A t \in Threads : WF_vars(Thread(t))
  /\ WF_vars(upc # "idle" /\ Caller)

-----------------------------------------------------------------------------
(* Properties. *)

AppState == [populated : BOOLEAN, program : Threads \cup {0}, thread : 0 .. created,
             shadowed : BOOLEAN, stall : BOOLEAN, closing : BOOLEAN]

TypeOK ==
  /\ apps \in [Slots -> AppState] /\ shadows \in [Slots -> AppState]
  /\ created \in 0 .. MaxThreads
  /\ tpc \in [Threads -> {"none", "check", "lock", "run", "stuck", "done", "joined"}]
  /\ tslot \in [Threads -> Slots]
  /\ upc \in {"idle", "init", "spawn", "store", "layer", "join", "restore", "unlock", "undefined"}
  /\ a \in Slots
  /\ open \in [Slots -> 0 .. MaxOpen] /\ disturbed \subseteq Slots

\* layer_app copies and changes a slot between two rounds of execute_main, of
\* whatever thread of the slot, however many layers there are already, as long
\* as the mutex has stayed the one they share: close_app puts a copy of the
\* parent's back while the parent's thread may be in a round under the layer's,
\* and new_app initialises that of a slot it has given away before
\* (vm.c:28-31, 43-49, 62-63).
LayersBetweenRounds ==
  upc \in {"store", "layer"} /\ a \notin disturbed =>
    \A t \in Threads : tpc[t] = "run" => tslot[t] # a

=============================================================================
