---------------------------- MODULE SessionsProofs ----------------------------
(***************************************************************************)
(* Proofs about the session table and about the cipher of a session; the   *)
(* two have no state in common.                                            *)
(*                                                                         *)
(* Sessions, for any number of tokens and of threads: a thread never opens *)
(* a token twice; and a session is found under its token, unless a second  *)
(* thread allocated for it or its memory was used through a stale pointer. *)
(*                                                                         *)
(* The key schedule of Cipher, for keys of every length: the cursor leaves *)
(* the array by two rows and no more, and cmat is never more than the      *)
(* matrix in progress behind the key.                                      *)
(***************************************************************************)
EXTENDS Sessions, Cipher, SequenceTheorems, FiniteSetTheorems, TLAPS

-----------------------------------------------------------------------------
(* The session table. *)

\* The initial state is well typed.
LEMMA TypesHoldInitially == SessionsInit => SessionsTypeOK
  BY SessionsAssumption DEF SessionsInit, SessionsTypeOK, Session

\* Every operation keeps the types.
LEMMA TypesKept == SessionsTypeOK /\ [SessionsNext]_sessionVars => SessionsTypeOK'
<1>. SUFFICES ASSUME SessionsTypeOK, [SessionsNext]_sessionVars PROVE SessionsTypeOK'
  OBVIOUS
<1>1. CASE UNCHANGED sessionVars
  BY <1>1 DEF SessionsTypeOK, sessionVars, locals
<1>2. ASSUME NEW w \in Workers, BeginOpen(w) PROVE SessionsTypeOK'
  BY <1>2 DEF SessionsTypeOK, BeginOpen
<1>3. ASSUME NEW w \in Workers, Collide(w) PROVE SessionsTypeOK'
  BY <1>3 DEF SessionsTypeOK, Collide
<1>4. ASSUME NEW w \in Workers, NoCollision(w) PROVE SessionsTypeOK'
  BY <1>4 DEF SessionsTypeOK, NoCollision
<1>5. ASSUME NEW w \in Workers, Allocate(w) PROVE SessionsTypeOK'
  BY <1>5 DEF SessionsTypeOK, Allocate, Session
<1>6. ASSUME NEW w \in Workers, SetOrigin(w) PROVE SessionsTypeOK'
  <2>. DEFINE p == slot[tok[w]]
  <2>1. Live(p) => p \in Addresses /\ [heap[p] EXCEPT !.origin = w] \in Session
    BY DEF SessionsTypeOK, Live, Session
  <2>2. heap' = heap \/ (Live(p) /\ heap' = [heap EXCEPT ![p] = [@ EXCEPT !.origin = w]])
    BY <1>6 DEF SetOrigin
  <2>3. heap' \in [Addresses -> Session \cup {Null}]
    <3>. HIDE DEF p
    <3>. QED BY <2>1, <2>2 DEF SessionsTypeOK
  <2>4. gone' \subseteq Tokens
    BY <1>6 DEF SessionsTypeOK, SetOrigin, Reached
  <2>. QED BY <1>6, <2>3, <2>4 DEF SessionsTypeOK, SetOrigin
<1>7. ASSUME NEW w \in Workers, SetToken(w) PROVE SessionsTypeOK'
  <2>. DEFINE p == slot[tok[w]]
  <2>1. Live(p) => p \in Addresses /\ [heap[p] EXCEPT !.token = tok[w]] \in Session
    BY DEF SessionsTypeOK, Live, Session
  <2>2. heap' = heap \/ (Live(p) /\ heap' = [heap EXCEPT ![p] = [@ EXCEPT !.token = tok[w]]])
    BY <1>7 DEF SetToken
  <2>3. heap' \in [Addresses -> Session \cup {Null}]
    <3>. HIDE DEF p
    <3>. QED BY <2>1, <2>2 DEF SessionsTypeOK
  <2>4. gone' \subseteq Tokens
    BY <1>7 DEF SessionsTypeOK, SetToken, Reached
  <2>. QED BY <1>7, <2>3, <2>4 DEF SessionsTypeOK, SetToken
<1>8. ASSUME NEW w \in Workers, Close(w) PROVE SessionsTypeOK'
  <2>1. PICK s \in opened[w] : gone' = gone \cup {s} \cup Reached(s)
    BY <1>8 DEF Close
  <2>2. gone' \subseteq Tokens
    BY <2>1 DEF SessionsTypeOK, Reached
  <2>. QED BY <1>8, <2>2 DEF SessionsTypeOK, Close, Live, locals
<1>. QED BY <1>1, <1>2, <1>3, <1>4, <1>5, <1>6, <1>7, <1>8 DEF SessionsNext

\* The table, the heap and every worker keep their types (session.c).
THEOREM SessionsTypes == SessionsSpec => []SessionsTypeOK
  BY TypesHoldInitially, TypesKept, PTL DEF SessionsSpec

-----------------------------------------------------------------------------
\* A token somebody opened keeps a pointer in the table.
SpentInv ==
  /\ SessionsTypeOK
  /\ TokensAreSpent
  /\ \A t \in Tokens : allocators[t] # {} => slot[t] # Null

\* Nobody has opened a token at first.
LEMMA SpentInitially == SessionsInit => SpentInv
  BY TypesHoldInitially DEF SessionsInit, SpentInv, TokensAreSpent

\* Only Allocate adds an allocator, and it fills the slot it found empty.
LEMMA SpentKept == SpentInv /\ [SessionsNext]_sessionVars => SpentInv'
<1>. SUFFICES ASSUME SpentInv, [SessionsNext]_sessionVars PROVE SpentInv'
  OBVIOUS
<1>. USE DEF SpentInv, TokensAreSpent, SessionsTypeOK
<1>1. SessionsTypeOK'
  BY TypesKept
<1>2. CASE UNCHANGED sessionVars
  BY <1>1, <1>2 DEF sessionVars, locals
<1>3. ASSUME NEW w \in Workers, BeginOpen(w) PROVE SpentInv'
  BY <1>1, <1>3 DEF BeginOpen
<1>4. ASSUME NEW w \in Workers, Collide(w) PROVE SpentInv'
  BY <1>1, <1>4 DEF Collide
<1>5. ASSUME NEW w \in Workers, NoCollision(w) PROVE SpentInv'
  BY <1>1, <1>5 DEF NoCollision
<1>6. ASSUME NEW w \in Workers, Allocate(w) PROVE SpentInv'
  <2>1. \A v \in Workers : pc'[v] = "alloc" => v # w /\ pc[v] = "alloc"
    BY <1>6 DEF Allocate
  <2>2. \A t \in Tokens : allocators'[t] \subseteq allocators[t] \cup {w}
    BY <1>6 DEF Allocate
  <2>3. TokensAreSpent'
    BY <1>1, <1>6, <2>1, <2>2 DEF Allocate
  <2>4. \A t \in Tokens : allocators'[t] # {} => slot'[t] # Null
    BY <1>6, SessionsAssumption DEF Allocate
  <2>. QED BY <1>1, <2>3, <2>4
<1>7. ASSUME NEW w \in Workers, SetOrigin(w) PROVE SpentInv'
  BY <1>1, <1>7 DEF SetOrigin
<1>8. ASSUME NEW w \in Workers, SetToken(w) PROVE SpentInv'
  BY <1>1, <1>8 DEF SetToken
<1>9. ASSUME NEW w \in Workers, Close(w) PROVE SpentInv'
  BY <1>1, <1>9 DEF Close, locals
<1>. QED BY <1>2, <1>3, <1>4, <1>5, <1>6, <1>7, <1>8, <1>9 DEF SessionsNext

\* No thread allocates an object for the same token twice (session.c:17-20,
\* 34-36).
THEOREM TokensStaySpent == SessionsSpec => []TokensAreSpent
  BY SpentInitially, SpentKept, PTL DEF SessionsSpec, SpentInv

-----------------------------------------------------------------------------
\* Two tokens share a place only when one of them is gone, a token that is not
\* gone leads to an object, and whoever allocated last goes on to fill it.
OnePlace ==
  /\ \A t, u \in Tokens : t # u /\ slot[t] = slot[u] /\ slot[t] \in Addresses => t \in gone \/ u \in gone
  /\ \A t \in Tokens \ gone : slot[t] \in Addresses => heap[slot[t]] # Null
  /\ \A t \in Tokens : allocators[t] # {} => slot[t] \in Addresses

\* A worker that sets a session up allocated for its token, and has not opened
\* that token before.
SettingUp ==
  /\ \A w \in Workers : \A t \in opened[w] : slot[t] # Null
  /\ \A w \in Workers : pc[w] \in {"alloc", "origin", "token"} => tok[w] \notin opened[w]
  /\ \A w \in Workers : pc[w] \in {"origin", "token"} => w \in allocators[tok[w]]

\* What the only worker that allocated for a token has written so far.
Contents ==
  \A t \in Tokens \ gone, w \in Workers : allocators[t] = {w} =>
    /\ (tok[w] = t /\ pc[w] = "origin") \/ heap[slot[t]].origin = w
    /\ (tok[w] = t /\ pc[w] \in {"origin", "token"}) \/ heap[slot[t]].token = t

ReachableInv == SpentInv /\ OnePlace /\ SettingUp /\ Contents

\* The invariant gives the property: an object has the two fields.
LEMMA InvReaches == ReachableInv => SessionsReachable
<1>. SUFFICES ASSUME ReachableInv, NEW t \in Tokens \ gone, NEW w \in Workers,
                     allocators[t] = {w}, t \in opened[w]
              PROVE  Live(slot[t]) /\ heap[slot[t]] = [origin |-> w, token |-> t]
  BY DEF SessionsReachable
<1>. DEFINE o == heap[slot[t]]
<1>1. slot[t] \in Addresses /\ o # Null
  BY DEF ReachableInv, OnePlace
<1>2. o \in Session
  BY <1>1 DEF ReachableInv, SpentInv, SessionsTypeOK
<1>3. tok[w] = t => pc[w] \notin {"origin", "token"}
  BY DEF ReachableInv, SettingUp
<1>4. o.origin = w /\ o.token = t
  BY <1>3 DEF ReachableInv, Contents
<1>5. o = [origin |-> w, token |-> t]
  <2>. HIDE DEF o
  <2>. QED BY <1>2, <1>4 DEF Session
<1>. QED BY <1>1, <1>5 DEF Live

\* Allocate takes a free place: who still points to it is gone.
LEMMA AllocateReaches ==
  ASSUME ReachableInv, SpentInv', NEW w \in Workers, Allocate(w)
  PROVE  ReachableInv'
<1>. DEFINE s == tok[w]
<1>1. PICK a \in Addresses :
        /\ heap[a] = Null
        /\ heap' = [heap EXCEPT ![a] = [origin |-> Null, token |-> Null]]
        /\ slot' = [slot EXCEPT ![s] = a]
  BY DEF Allocate
<1>2. /\ allocators' = [allocators EXCEPT ![s] = @ \cup {w}]
      /\ pc' = [pc EXCEPT ![w] = "origin"] /\ pc[w] = "alloc"
      /\ UNCHANGED <<tok, opened, gone>>
  BY DEF Allocate
<1>3. /\ slot \in [Tokens -> Addresses \cup {Null, Junk}] /\ heap \in [Addresses -> Session \cup {Null}]
      /\ pc \in [Workers -> {"idle", "check", "alloc", "origin", "token"}]
      /\ tok \in [Workers -> Tokens] /\ allocators \in [Tokens -> SUBSET Workers] /\ s \in Tokens
      /\ opened \in [Workers -> SUBSET Tokens]
  BY DEF ReachableInv, SpentInv, SessionsTypeOK
<1>4. \A t \in Tokens : t # s => slot'[t] = slot[t] /\ allocators'[t] = allocators[t]
  BY <1>1, <1>2, <1>3
<1>5. slot'[s] = a /\ w \in allocators'[s] /\ a # Null
  BY <1>1, <1>2, <1>3, SessionsAssumption
<1>6. heap'[a] # Null
  <2>1. heap'[a] = [origin |-> Null, token |-> Null]
    BY <1>1, <1>3
  <2>2. heap'[a] \in Session
    BY <2>1 DEF Session
  <2>. QED BY <2>2, SessionsAssumption
<1>7. \A b \in Addresses : b # a => heap'[b] = heap[b]
  BY <1>1, <1>3
<1>8. \A t \in Tokens \ gone : slot[t] # a
  BY <1>1 DEF ReachableInv, OnePlace
<1>9. OnePlace'
  <2>1. ASSUME NEW t \in Tokens, NEW u \in Tokens, t # u, slot'[t] = slot'[u], slot'[t] \in Addresses
        PROVE  t \in gone' \/ u \in gone'
    BY <2>1, <1>2, <1>4, <1>5, <1>8 DEF ReachableInv, OnePlace
  <2>2. ASSUME NEW t \in Tokens \ gone', slot'[t] \in Addresses PROVE heap'[slot'[t]] # Null
    BY <2>2, <1>2, <1>4, <1>5, <1>6, <1>7 DEF ReachableInv, OnePlace
  <2>3. ASSUME NEW t \in Tokens, allocators'[t] # {} PROVE slot'[t] \in Addresses
    BY <2>3, <1>4, <1>5 DEF ReachableInv, OnePlace
  <2>. QED BY <2>1, <2>2, <2>3 DEF OnePlace
<1>10. SettingUp'
  <2>1. ASSUME NEW v \in Workers, NEW t \in opened'[v] PROVE slot'[t] # Null
    BY <2>1, <1>2, <1>3, <1>4, <1>5 DEF ReachableInv, SettingUp
  <2>2. ASSUME NEW v \in Workers, pc'[v] \in {"alloc", "origin", "token"} PROVE tok'[v] \notin opened'[v]
    BY <2>2, <1>2, <1>3 DEF ReachableInv, SettingUp
  <2>3. ASSUME NEW v \in Workers, pc'[v] \in {"origin", "token"} PROVE v \in allocators'[tok'[v]]
    BY <2>3, <1>2, <1>3 DEF ReachableInv, SettingUp
  <2>. QED BY <2>1, <2>2, <2>3 DEF SettingUp
<1>11. Contents'
  <2>. SUFFICES ASSUME NEW t \in Tokens \ gone', NEW v \in Workers, allocators'[t] = {v}
                PROVE  /\ (tok'[v] = t /\ pc'[v] = "origin") \/ heap'[slot'[t]].origin = v
                       /\ (tok'[v] = t /\ pc'[v] \in {"origin", "token"}) \/ heap'[slot'[t]].token = t
    BY DEF Contents
  <2>1. CASE t = s
    BY <2>1, <1>2, <1>3, <1>5
  <2>2. CASE t # s
    <3>1. slot'[t] = slot[t] /\ allocators[t] = {v} /\ slot[t] \in Addresses
      BY <2>2, <1>4 DEF ReachableInv, OnePlace
    <3>2. heap'[slot'[t]] = heap[slot[t]]
      BY <3>1, <1>2, <1>7, <1>8
    <3>3. tok[v] = t => pc'[v] = pc[v]
      BY <2>2, <1>2, <1>3
    <3>. QED BY <3>1, <3>2, <3>3, <1>2 DEF ReachableInv, Contents
  <2>. QED BY <2>1, <2>2
<1>. QED BY <1>9, <1>10, <1>11 DEF ReachableInv

\* A session that is not gone is written or freed through its own token only.
LEMMA OwnTokenOnly ==
  ASSUME ReachableInv, NEW s \in Tokens, NEW t \in Tokens \ gone, t \notin Reached(s), slot[t] = slot[s],
         slot[s] \in Addresses
  PROVE  t = s
  BY DEF ReachableInv, OnePlace, Reached

\* The statements that fill an object go through the table.
LEMMA SetOriginReaches ==
  ASSUME ReachableInv, SpentInv', NEW w \in Workers, SetOrigin(w)
  PROVE  ReachableInv'
<1>. DEFINE s == tok[w]
<1>. DEFINE p == slot[s]
<1>1. /\ pc' = [pc EXCEPT ![w] = "token"] /\ pc[w] = "origin" /\ gone' = gone \cup Reached(s)
      /\ UNCHANGED <<slot, tok, opened, allocators>>
  BY DEF SetOrigin
<1>2. /\ heap \in [Addresses -> Session \cup {Null}] /\ tok \in [Workers -> Tokens] /\ s \in Tokens
      /\ pc \in [Workers -> {"idle", "check", "alloc", "origin", "token"}]
      /\ allocators \in [Tokens -> SUBSET Workers] /\ opened \in [Workers -> SUBSET Tokens]
      /\ heap' \in [Addresses -> Session \cup {Null}]
  BY DEF ReachableInv, SpentInv, SessionsTypeOK
<1>3. p \in Addresses /\ w \in allocators[s] /\ s \notin opened[w]
  BY <1>1, <1>2 DEF ReachableInv, SettingUp, OnePlace
<1>4. \/ Live(p) /\ heap' = [heap EXCEPT ![p] = [@ EXCEPT !.origin = w]]
      \/ s \in gone /\ heap' = heap
  BY <1>2, <1>3 DEF SetOrigin, Live, ReachableInv, OnePlace
<1>5. \A b \in Addresses : b # p => heap'[b] = heap[b]
  <2>. HIDE DEF p
  <2>. QED BY <1>2, <1>4
<1>6. heap[p] # Null => heap'[p] \in Session /\ heap'[p] # Null
  <2>1. Live(p) => heap[p] \in Session
    BY <1>2 DEF Live
  <2>2. Live(p) => [heap[p] EXCEPT !.origin = w] \in Session
    BY <2>1, <1>2 DEF Session
  <2>3. heap[p] # Null => heap[p] \in Session
    BY <1>2, <1>3
  <2>4. heap' = heap \/ (Live(p) /\ heap'[p] = [heap[p] EXCEPT !.origin = w])
    BY <1>4, <1>2, <1>3
  <2>. HIDE DEF p
  <2>. QED BY <2>2, <2>3, <2>4, SessionsAssumption
<1>7. OnePlace'
  <2>1. ASSUME NEW t \in Tokens \ gone', slot'[t] \in Addresses PROVE heap'[slot'[t]] # Null
    <3>. HIDE DEF p
    <3>1. heap[slot[t]] # Null
      BY <2>1, <1>1 DEF ReachableInv, OnePlace
    <3>. QED BY <3>1, <2>1, <1>1, <1>5, <1>6
  <2>2. \A t, u \in Tokens : t # u /\ slot[t] = slot[u] /\ slot[t] \in Addresses => t \in gone' \/ u \in gone'
    BY <1>1 DEF ReachableInv, OnePlace
  <2>3. \A t \in Tokens : allocators[t] # {} => slot[t] \in Addresses
    BY DEF ReachableInv, OnePlace
  <2>. QED BY <2>1, <2>2, <2>3, <1>1 DEF OnePlace
<1>8. SettingUp'
  <2>1. ASSUME NEW v \in Workers, NEW t \in opened'[v] PROVE slot'[t] # Null
    BY <2>1, <1>1, <1>2, <1>3, SessionsAssumption DEF ReachableInv, SettingUp
  <2>2. ASSUME NEW v \in Workers, pc'[v] \in {"alloc", "origin", "token"} PROVE tok'[v] \notin opened'[v]
    BY <2>2, <1>1, <1>2 DEF ReachableInv, SettingUp
  <2>3. ASSUME NEW v \in Workers, pc'[v] \in {"origin", "token"} PROVE v \in allocators'[tok'[v]]
    BY <2>3, <1>1, <1>2 DEF ReachableInv, SettingUp
  <2>. QED BY <2>1, <2>2, <2>3 DEF SettingUp
<1>9. Contents'
  <2>. SUFFICES ASSUME NEW t \in Tokens \ gone', NEW v \in Workers, allocators[t] = {v}
                PROVE  /\ (tok[v] = t /\ pc'[v] = "origin") \/ heap'[slot[t]].origin = v
                       /\ (tok[v] = t /\ pc'[v] \in {"origin", "token"}) \/ heap'[slot[t]].token = t
    BY <1>1 DEF Contents
  <2>1. CASE t = s
    <3>1. v = w /\ Live(p) /\ heap[p] \in Session
      BY <2>1, <1>1, <1>2, <1>3, <1>4 DEF Live
    <3>2. heap'[p] = [heap[p] EXCEPT !.origin = w]
      BY <2>1, <1>1, <1>2, <1>3, <1>4
    <3>3. heap'[p].origin = w
      BY <3>1, <3>2 DEF Session
    <3>. QED BY <2>1, <3>1, <3>3, <1>1, <1>2
  <2>2. CASE t # s
    <3>1. slot[t] # p
      BY <2>2, <1>1, <1>2, <1>3, OwnTokenOnly
    <3>2. slot[t] \in Addresses /\ t \in Tokens \ gone
      BY <1>1 DEF ReachableInv, OnePlace
    <3>3. heap'[slot[t]] = heap[slot[t]]
      BY <3>1, <3>2, <1>5
    <3>4. tok[v] = t => pc'[v] = pc[v]
      BY <2>2, <1>1, <1>2
    <3>. QED BY <3>2, <3>3, <3>4 DEF ReachableInv, Contents
  <2>. QED BY <2>1, <2>2
<1>. QED BY <1>7, <1>8, <1>9 DEF ReachableInv

\* The last of them, with which the session is open.
LEMMA SetTokenReaches ==
  ASSUME ReachableInv, SpentInv', NEW w \in Workers, SetToken(w)
  PROVE  ReachableInv'
<1>. DEFINE s == tok[w]
<1>. DEFINE p == slot[s]
<1>1. /\ pc' = [pc EXCEPT ![w] = "idle"] /\ pc[w] = "token" /\ gone' = gone \cup Reached(s)
      /\ opened' = [opened EXCEPT ![w] = @ \cup {s}]
      /\ UNCHANGED <<slot, tok, allocators>>
  BY DEF SetToken
<1>2. /\ heap \in [Addresses -> Session \cup {Null}] /\ tok \in [Workers -> Tokens] /\ s \in Tokens
      /\ pc \in [Workers -> {"idle", "check", "alloc", "origin", "token"}]
      /\ allocators \in [Tokens -> SUBSET Workers] /\ opened \in [Workers -> SUBSET Tokens]
      /\ heap' \in [Addresses -> Session \cup {Null}]
  BY DEF ReachableInv, SpentInv, SessionsTypeOK
<1>3. p \in Addresses /\ w \in allocators[s] /\ s \notin opened[w]
  BY <1>1, <1>2 DEF ReachableInv, SettingUp, OnePlace
<1>4. \/ Live(p) /\ heap' = [heap EXCEPT ![p] = [@ EXCEPT !.token = s]]
      \/ s \in gone /\ heap' = heap
  BY <1>2, <1>3 DEF SetToken, Live, ReachableInv, OnePlace
<1>5. \A b \in Addresses : b # p => heap'[b] = heap[b]
  <2>. HIDE DEF p
  <2>. QED BY <1>2, <1>4
<1>6. heap[p] # Null => heap'[p] \in Session /\ heap'[p] # Null
  <2>1. Live(p) => heap[p] \in Session
    BY <1>2 DEF Live
  <2>2. Live(p) => [heap[p] EXCEPT !.token = s] \in Session
    BY <2>1, <1>2 DEF Session
  <2>3. heap[p] # Null => heap[p] \in Session
    BY <1>2, <1>3
  <2>4. heap' = heap \/ (Live(p) /\ heap'[p] = [heap[p] EXCEPT !.token = s])
    BY <1>4, <1>2, <1>3
  <2>. HIDE DEF p
  <2>. QED BY <2>2, <2>3, <2>4, SessionsAssumption
<1>7. OnePlace'
  <2>1. ASSUME NEW t \in Tokens \ gone', slot'[t] \in Addresses PROVE heap'[slot'[t]] # Null
    <3>. HIDE DEF p
    <3>1. heap[slot[t]] # Null
      BY <2>1, <1>1 DEF ReachableInv, OnePlace
    <3>. QED BY <3>1, <2>1, <1>1, <1>5, <1>6
  <2>2. \A t, u \in Tokens : t # u /\ slot[t] = slot[u] /\ slot[t] \in Addresses => t \in gone' \/ u \in gone'
    BY <1>1 DEF ReachableInv, OnePlace
  <2>3. \A t \in Tokens : allocators[t] # {} => slot[t] \in Addresses
    BY DEF ReachableInv, OnePlace
  <2>. QED BY <2>1, <2>2, <2>3, <1>1 DEF OnePlace
<1>8. SettingUp'
  <2>1. ASSUME NEW v \in Workers, NEW t \in opened'[v] PROVE slot'[t] # Null
    BY <2>1, <1>1, <1>2, <1>3, SessionsAssumption DEF ReachableInv, SettingUp
  <2>2. ASSUME NEW v \in Workers, pc'[v] \in {"alloc", "origin", "token"} PROVE tok'[v] \notin opened'[v]
    BY <2>2, <1>1, <1>2 DEF ReachableInv, SettingUp
  <2>3. ASSUME NEW v \in Workers, pc'[v] \in {"origin", "token"} PROVE v \in allocators'[tok'[v]]
    BY <2>3, <1>1, <1>2 DEF ReachableInv, SettingUp
  <2>. QED BY <2>1, <2>2, <2>3 DEF SettingUp
<1>9. Contents'
  <2>. SUFFICES ASSUME NEW t \in Tokens \ gone', NEW v \in Workers, allocators[t] = {v}
                PROVE  /\ (tok[v] = t /\ pc'[v] = "origin") \/ heap'[slot[t]].origin = v
                       /\ (tok[v] = t /\ pc'[v] \in {"origin", "token"}) \/ heap'[slot[t]].token = t
    BY <1>1 DEF Contents
  <2>1. CASE t = s
    <3>1. v = w /\ Live(p) /\ heap[p] \in Session
      BY <2>1, <1>1, <1>2, <1>3, <1>4 DEF Live
    <3>2. heap'[p] = [heap[p] EXCEPT !.token = s]
      BY <2>1, <1>1, <1>2, <1>3, <1>4
    <3>3. heap'[p].token = s /\ heap'[p].origin = heap[p].origin
      BY <3>1, <3>2, <1>2 DEF Session
    <3>4. heap[p].origin = w
      BY <2>1, <3>1, <1>1 DEF ReachableInv, Contents
    <3>. QED BY <2>1, <3>1, <3>3, <3>4, <1>1, <1>2
  <2>2. CASE t # s
    <3>1. slot[t] # p
      BY <2>2, <1>1, <1>2, <1>3, OwnTokenOnly
    <3>2. slot[t] \in Addresses /\ t \in Tokens \ gone
      BY <1>1 DEF ReachableInv, OnePlace
    <3>3. heap'[slot[t]] = heap[slot[t]]
      BY <3>1, <3>2, <1>5
    <3>4. tok[v] = t => pc'[v] = pc[v]
      BY <2>2, <1>1, <1>2
    <3>. QED BY <3>2, <3>3, <3>4 DEF ReachableInv, Contents
  <2>. QED BY <2>1, <2>2
<1>. QED BY <1>7, <1>8, <1>9 DEF ReachableInv

\* Closing frees what the token points to, and makes the token go.
LEMMA CloseReaches ==
  ASSUME ReachableInv, SpentInv', NEW w \in Workers, Close(w)
  PROVE  ReachableInv'
<1>1. PICK s \in opened[w] :
        /\ opened' = [opened EXCEPT ![w] = @ \ {s}]
        /\ gone' = gone \cup {s} \cup Reached(s)
        /\ \/ heap' = heap
           \/ Live(slot[s]) /\ heap' = [heap EXCEPT ![slot[s]] = Null]
  BY DEF Close
<1>2. UNCHANGED <<slot, pc, tok, allocators>>
  BY DEF Close, locals
<1>3. /\ opened \in [Workers -> SUBSET Tokens] /\ s \in Tokens
      /\ heap \in [Addresses -> Session \cup {Null}]
  BY DEF ReachableInv, SpentInv, SessionsTypeOK
<1>4. \A t \in Tokens \ gone' : slot[t] \in Addresses => heap'[slot[t]] = heap[slot[t]]
  <2>. SUFFICES ASSUME NEW t \in Tokens \ gone', slot[t] \in Addresses
                PROVE  heap'[slot[t]] = heap[slot[t]]
    OBVIOUS
  <2>1. t # s /\ t \in Tokens \ gone /\ t \notin Reached(s)
    BY <1>1
  <2>2. slot[t] # slot[s]
    BY <2>1, <1>3, OwnTokenOnly
  <2>. QED BY <2>2, <1>1, <1>3
<1>5. OnePlace'
  <2>1. ASSUME NEW t \in Tokens \ gone', slot'[t] \in Addresses PROVE heap'[slot'[t]] # Null
    BY <2>1, <1>1, <1>2, <1>4 DEF ReachableInv, OnePlace
  <2>. QED BY <2>1, <1>1, <1>2 DEF ReachableInv, OnePlace
<1>6. SettingUp'
  <2>1. \A v \in Workers : opened'[v] \subseteq opened[v]
    BY <1>1, <1>3
  <2>. QED BY <2>1, <1>2 DEF ReachableInv, SettingUp
<1>7. Contents'
  <2>. SUFFICES ASSUME NEW t \in Tokens \ gone', NEW v \in Workers, allocators[t] = {v}
                PROVE  /\ (tok[v] = t /\ pc[v] = "origin") \/ heap'[slot[t]].origin = v
                       /\ (tok[v] = t /\ pc[v] \in {"origin", "token"}) \/ heap'[slot[t]].token = t
    BY <1>2 DEF Contents
  <2>1. t \in Tokens \ gone /\ slot[t] \in Addresses
    BY <1>1 DEF ReachableInv, OnePlace
  <2>2. heap'[slot[t]] = heap[slot[t]]
    BY <2>1, <1>4
  <2>. QED BY <2>1, <2>2 DEF ReachableInv, Contents
<1>. QED BY <1>5, <1>6, <1>7 DEF ReachableInv

\* The statements before the allocation write nothing but local variables.
LEMMA LocalReaches ==
  ASSUME ReachableInv, SpentInv', NEW w \in Workers, BeginOpen(w) \/ Collide(w) \/ NoCollision(w)
  PROVE  ReachableInv'
<1>1. /\ UNCHANGED <<slot, heap, allocators, gone>>
      /\ pc[w] \in {"idle", "check"}
      /\ \A v \in Workers : v # w => pc'[v] = pc[v] /\ tok'[v] = tok[v] /\ opened'[v] = opened[v]
      /\ pc'[w] \in {"idle", "check"} \/ (pc'[w] = "alloc" /\ slot[tok[w]] = Null)
      /\ tok'[w] = tok[w] \/ pc'[w] # "alloc"
      /\ opened'[w] = opened[w] \/ (slot[tok[w]] # Null /\ opened'[w] = opened[w] \cup {tok[w]})
      /\ pc'[w] = "alloc" => opened'[w] = opened[w]
  BY DEF BeginOpen, Collide, NoCollision, ReachableInv, SpentInv, SessionsTypeOK
<1>2. OnePlace'
  BY <1>1 DEF ReachableInv, OnePlace
<1>3. SettingUp'
  <2>1. ASSUME NEW v \in Workers, NEW t \in opened'[v] PROVE slot'[t] # Null
    BY <2>1, <1>1 DEF ReachableInv, SettingUp
  <2>2. ASSUME NEW v \in Workers, pc'[v] \in {"alloc", "origin", "token"} PROVE tok'[v] \notin opened'[v]
    BY <2>2, <1>1 DEF ReachableInv, SettingUp
  <2>3. ASSUME NEW v \in Workers, pc'[v] \in {"origin", "token"} PROVE v \in allocators'[tok'[v]]
    BY <2>3, <1>1 DEF ReachableInv, SettingUp
  <2>. QED BY <2>1, <2>2, <2>3 DEF SettingUp
<1>4. Contents'
  BY <1>1 DEF ReachableInv, Contents
<1>. QED BY <1>2, <1>3, <1>4 DEF ReachableInv

\* A session that is set up is found under its token with its content until the
\* token is closed, unless two threads allocated for it or its memory was used
\* through a former token (session.c:17-24, 28-30, 34-39, 42-44).
THEOREM SessionsStayReachable == SessionsSpec => []SessionsReachable
<1>1. SessionsInit => ReachableInv
  BY SpentInitially, SessionsAssumption
  DEF SessionsInit, ReachableInv, OnePlace, SettingUp, Contents
<1>2. ReachableInv /\ [SessionsNext]_sessionVars => ReachableInv'
  <2>. SUFFICES ASSUME ReachableInv, [SessionsNext]_sessionVars PROVE ReachableInv'
    OBVIOUS
  <2>1. SpentInv'
    BY SpentKept DEF ReachableInv
  <2>2. CASE UNCHANGED sessionVars
    BY <2>1, <2>2 DEF sessionVars, locals, ReachableInv, OnePlace, SettingUp, Contents
  <2>3. CASE SessionsNext
    <3>1. PICK w \in Workers : BeginOpen(w) \/ Collide(w) \/ NoCollision(w) \/ Allocate(w) \/ SetOrigin(w)
                               \/ SetToken(w) \/ Close(w)
      BY <2>3 DEF SessionsNext
    <3>. QED BY <3>1, <2>1, AllocateReaches, SetOriginReaches, SetTokenReaches, CloseReaches, LocalReaches
  <2>. QED BY <2>2, <2>3
<1>. QED BY <1>1, <1>2, InvReaches, PTL DEF SessionsSpec

-----------------------------------------------------------------------------
(* The key schedule. *)

\* One node's key is well formed.
KeyOK(k) ==
  /\ k \in [rows : [Cursors -> RowValues], cur : Cursors, cmat : CmatValues]
  /\ (\E r \in Rows : k.cmat[r] \notin CmatStarts) =>
       \A r \in Rows : r \in 4 * (k.cur \div 4) .. k.cur - 1 \/ k.cmat[r] = k.rows[r]

\* The cursor stays at most two rows behind the last matrix.
LEMMA AdvanceInRange == \A c \in Cursors : Advance(c) \in Cursors
  BY CipherAssumption DEF Advance, Cursors

\* A cursor that does not reach a multiple of four stays in its matrix.
LEMMA SameQuarter == \A c \in Int : (c + 1) % 4 # 0 => (c + 1) \div 4 = c \div 4
<1>. SUFFICES ASSUME NEW c \in Int, (c + 1) % 4 # 0 PROVE (c + 1) \div 4 = c \div 4
  OBVIOUS
<1>. DEFINE q == c \div 4
            e == c % 4
<1>1. q \in Int /\ e \in 0 .. 3 /\ c = 4 * q + e
  OBVIOUS
<1>. HIDE DEF q, e
<1>2. CASE e = 3
  <2>1. c + 1 = 4 * (q + 1)
    BY <1>1, <1>2
  <2>. QED BY <1>1, <2>1
<1>3. CASE e # 3
  <2>1. c + 1 = 4 * q + (e + 1) /\ e + 1 \in 0 .. 3
    BY <1>1, <1>3
  <2>2. (c + 1) \div 4 = q
    BY <1>1, <2>1
  <2>. QED BY <2>2 DEF q
<1>. QED BY <1>2, <1>3

\* update_key keeps a key well formed, whatever the vector.
LEMMA UpdateKeepsKey ==
  ASSUME NEW k, KeyOK(k), NEW v \in RowValues
  PROVE  KeyOK(UpdateKey(k, v))
<1>. DEFINE u == [k EXCEPT !.rows = [@ EXCEPT ![k.cur] = v], !.cur = Advance(k.cur)]
<1>1. /\ u.rows = [k.rows EXCEPT ![k.cur] = v] /\ u.cur = Advance(k.cur) /\ u.cmat = k.cmat
      /\ u \in [rows : [Cursors -> RowValues], cur : Cursors, cmat : CmatValues]
  BY AdvanceInRange DEF KeyOK
<1>2. UpdateKey(k, v) = Regenerated(u)
  BY DEF UpdateKey
<1>3. Rows \subseteq Cursors /\ \A r \in Rows : r \in Int
  BY CipherAssumption DEF Rows, Cursors
<1>. HIDE DEF u
<1>4. CASE u.cur % 4 = 0
  <2>. DEFINE c == [r \in Rows |-> u.rows[r]]
  <2>1. Regenerated(u) = [u EXCEPT !.cmat = c]
    BY <1>4 DEF Regenerated
  <2>2. c \in CmatValues /\ \A r \in Rows : c[r] = u.rows[r]
    BY <1>1, <1>3 DEF CmatValues
  <2>. HIDE DEF c
  <2>. QED BY <1>1, <1>2, <2>1, <2>2 DEF KeyOK
<1>5. CASE u.cur % 4 # 0
  <2>1. Regenerated(u) = u
    BY <1>5 DEF Regenerated
  <2>2. k.cur \in 0 .. 4 * Mats /\ u.cur = k.cur + 1
    BY <1>1, <1>5, CipherAssumption DEF Advance, KeyOK, Cursors
  <2>a. k.cur \in Int /\ (k.cur + 1) % 4 # 0
    BY <1>5, <2>2, CipherAssumption
  <2>b. (k.cur + 1) \div 4 = k.cur \div 4
    BY <2>a, SameQuarter
  <2>3. \A r \in Rows : r \in 4 * (k.cur \div 4) .. k.cur - 1 => r \in 4 * (u.cur \div 4) .. u.cur - 1
    BY <1>3, <2>2, <2>a, <2>b
  <2>4. k.cur \in 4 * (u.cur \div 4) .. u.cur - 1
    BY <1>5, <2>2, CipherAssumption
  <2>5. \A r \in Rows : r # k.cur => u.rows[r] = k.rows[r]
    BY <1>1, <1>3 DEF KeyOK
  <2>6. ASSUME \E r \in Rows : u.cmat[r] \notin CmatStarts, NEW r \in Rows
        PROVE  r \in 4 * (u.cur \div 4) .. u.cur - 1 \/ u.cmat[r] = u.rows[r]
    <3>1. r \in 4 * (k.cur \div 4) .. k.cur - 1 \/ k.cmat[r] = k.rows[r]
      BY <1>1, <2>6 DEF KeyOK
    <3>. QED BY <1>1, <2>3, <2>4, <2>5, <3>1
  <2>. QED BY <1>1, <1>2, <2>1, <2>6 DEF KeyOK
<1>. QED BY <1>1, <1>4, <1>5, CipherAssumption DEF Cursors

-----------------------------------------------------------------------------
Keys == \A n \in Sides : KeyOK(Key(n))

\* Replacing the key of one node by a good key keeps all keys good.
LEMMA SetKeyKeeps ==
  ASSUME NEW n \in Sides, NEW k, KeyOK(k), Keys, SetKey(n, k),
         rows \in [Sides -> [Cursors -> RowValues]], cur \in [Sides -> Cursors], cmat \in [Sides -> CmatValues]
  PROVE  /\ Keys'
         /\ rows' \in [Sides -> [Cursors -> RowValues]]
         /\ cur' \in [Sides -> Cursors]
         /\ cmat' \in [Sides -> CmatValues]
<1>1. k.rows \in [Cursors -> RowValues] /\ k.cur \in Cursors /\ k.cmat \in CmatValues
  BY DEF KeyOK
<1>2. k = [rows |-> k.rows, cur |-> k.cur, cmat |-> k.cmat]
  BY DEF KeyOK
<1>3. \A m \in Sides : Key(m)' = IF m = n THEN k ELSE Key(m)
  BY <1>2 DEF SetKey, Key
<1>. QED BY <1>1, <1>3 DEF SetKey, Keys

\* prime_cipher leaves good keys.
LEMMA InitialKeys == CipherInit => Keys /\ CipherTypeOK
<1>. SUFFICES ASSUME CipherInit PROVE Keys /\ CipherTypeOK
  OBVIOUS
<1>1. rows \in [Sides -> [Cursors -> RowValues]]
  BY DEF CipherInit, RowValues
<1>2. cur \in [Sides -> Cursors]
  BY CipherAssumption DEF CipherInit, Cursors
<1>3. \A n \in Sides : \E s \in CmatStarts : cmat[n] = [r \in Rows |-> s]
  BY DEF CipherInit
<1>4. cmat \in [Sides -> CmatValues]
  <2>1. \A s \in CmatStarts : [r \in Rows |-> s] \in CmatValues
    BY DEF CmatValues
  <2>2. {[r \in Rows |-> s] : s \in CmatStarts} \subseteq CmatValues
    BY <2>1
  <2>. DEFINE starts == {[r \in Rows |-> s] : s \in CmatStarts}
  <2>3. cmat \in [Sides -> starts] /\ starts \subseteq CmatValues
    BY <2>2 DEF CipherInit
  <2>. HIDE DEF starts
  <2>. QED BY <2>3
<1>5. Keys
  BY <1>1, <1>2, <1>3, <1>4 DEF Keys, Key, KeyOK
<1>6. wire \in [Sides -> Seq([plain : Messages, under : CmatValues])]
  BY DEF CipherInit
<1>7. clear \in [Sides -> {<<>>} \cup Messages \X (Messages \cup {Garbage})]
  BY DEF CipherInit
<1>8. sent \in [Sides -> 0 .. MaxPackets] /\ rekeys \in [Sides -> 0 .. MaxRekeys]
  BY CipherAssumption DEF CipherInit
<1>. QED BY <1>1, <1>2, <1>4, <1>5, <1>6, <1>7, <1>8 DEF CipherTypeOK

\* Every packet and every rekey keeps the keys good.
LEMMA StepKeepsKeys == Keys /\ CipherTypeOK /\ [CipherNext]_cipherVars => Keys' /\ CipherTypeOK'
<1>. SUFFICES ASSUME Keys, CipherTypeOK, [CipherNext]_cipherVars PROVE Keys' /\ CipherTypeOK'
  OBVIOUS
<1>. USE DEF CipherTypeOK
<1>1. ASSUME NEW n \in Sides, NEW to \in Sides \ {n}, Encrypt(n, to) PROVE Keys' /\ CipherTypeOK'
  <2>0. PICK m \in Messages : \E v \in Sums(m) :
          LET k == UpdateKey(Key(n), v) IN
            SetKey(n, k) /\ wire' = [wire EXCEPT ![to] = Append(@, [plain |-> m, under |-> k.cmat])]
    BY <1>1 DEF Encrypt
  <2>1. PICK v \in Sums(m) :
          LET k == UpdateKey(Key(n), v) IN
            SetKey(n, k) /\ wire' = [wire EXCEPT ![to] = Append(@, [plain |-> m, under |-> k.cmat])]
    BY <2>0
  <2>. DEFINE k == UpdateKey(Key(n), v)
  <2>2. v \in RowValues
    BY DEF Sums, RowValues
  <2>3. KeyOK(k)
    BY <2>2, UpdateKeepsKey DEF Keys
  <2>. HIDE DEF k
  <2>4. SetKey(n, k) /\ wire' = [wire EXCEPT ![to] = Append(@, [plain |-> m, under |-> k.cmat])]
    BY <2>1 DEF k
  <2>5. /\ Keys'
        /\ rows' \in [Sides -> [Cursors -> RowValues]]
        /\ cur' \in [Sides -> Cursors]
        /\ cmat' \in [Sides -> CmatValues]
    BY <2>3, <2>4, SetKeyKeeps
  <2>6. [plain |-> m, under |-> k.cmat] \in [plain : Messages, under : CmatValues]
    BY <2>3 DEF KeyOK
  <2>7. wire' \in [Sides -> Seq([plain : Messages, under : CmatValues])]
    <3>. DEFINE Packets == [plain : Messages, under : CmatValues]
                e == [plain |-> m, under |-> k.cmat]
    <3>1. e \in Packets /\ wire \in [Sides -> Seq(Packets)]
      BY <2>6
    <3>2. wire' = [wire EXCEPT ![to] = Append(@, e)]
      BY <2>4
    <3>. HIDE DEF Packets, e
    <3>3. wire' \in [Sides -> Seq(Packets)]
      BY <3>1, <3>2
    <3>. QED BY <3>3 DEF Packets
  <2>8. UNCHANGED <<clear, rekeys>> /\ sent' \in [Sides -> 0 .. MaxPackets]
    BY <1>1, CipherAssumption DEF Encrypt
  <2>. QED BY <2>5, <2>7, <2>8
<1>2. ASSUME NEW n \in Sides, Decrypt(n) PROVE Keys' /\ CipherTypeOK'
  <2>. DEFINE p == Head(wire[n])
              d == IF p.under = cmat[n] THEN p.plain ELSE Garbage
  <2>1. p \in [plain : Messages, under : CmatValues] /\ Tail(wire[n]) \in Seq([plain : Messages, under : CmatValues])
    <3>. DEFINE Packets == [plain : Messages, under : CmatValues]
    <3>1. wire[n] \in Seq(Packets) /\ wire[n] # <<>>
      BY <1>2 DEF Decrypt
    <3>. HIDE DEF Packets
    <3>2. p \in Packets /\ Tail(wire[n]) \in Seq(Packets)
      BY <3>1, HeadTailProperties
    <3>. QED BY <3>2 DEF Packets
  <2>2. p.plain \in Messages /\ d \in Messages \cup {Garbage}
    BY <2>1
  <2>3. PICK v \in Sums(d) : SetKey(n, UpdateKey(Key(n), v))
    BY <1>2 DEF Decrypt
  <2>4. v \in RowValues
    BY <2>2 DEF Sums, RowValues
  <2>. DEFINE k == UpdateKey(Key(n), v)
  <2>5. KeyOK(k)
    BY <2>4, UpdateKeepsKey DEF Keys
  <2>6. SetKey(n, k)
    BY <2>3
  <2>. HIDE DEF k
  <2>7. /\ Keys'
        /\ rows' \in [Sides -> [Cursors -> RowValues]]
        /\ cur' \in [Sides -> Cursors]
        /\ cmat' \in [Sides -> CmatValues]
    BY <2>5, <2>6, SetKeyKeeps
  <2>8. clear' = [clear EXCEPT ![n] = <<p.plain, d>>] /\ wire' = [wire EXCEPT ![n] = Tail(@)]
        /\ UNCHANGED <<sent, rekeys>>
    BY <1>2 DEF Decrypt
  <2>. HIDE DEF p, d
  <2>9. wire' \in [Sides -> Seq([plain : Messages, under : CmatValues])]
    BY <2>1, <2>8
  <2>10. clear' \in [Sides -> {<<>>} \cup Messages \X (Messages \cup {Garbage})]
    BY <2>2, <2>8
  <2>. QED BY <2>7, <2>8, <2>9, <2>10
<1>3. ASSUME NEW n \in Sides, Rekey(n) PROVE Keys' /\ CipherTypeOK'
  <2>. DEFINE v == Drawn(n)
              k1 == UpdateKey(Key(n), v[1])
              k2 == UpdateKey(k1, v[2])
              k3 == UpdateKey(k2, v[3])
              k4 == UpdateKey(k3, v[4])
  <2>1. rekeys[n] \in 0 .. MaxRekeys - 1
    BY <1>3, CipherAssumption DEF Rekey
  <2>2. \A i \in 1 .. 4 : v[i] \in RowValues
    BY <2>1, CipherAssumption DEF Drawn, RowValues, Entropy
  <2>. HIDE DEF v
  <2>3. KeyOK(k1)
    BY <2>2, UpdateKeepsKey DEF Keys
  <2>. HIDE DEF k1
  <2>4. KeyOK(k2)
    BY <2>2, <2>3, UpdateKeepsKey
  <2>. HIDE DEF k2
  <2>5. KeyOK(k3)
    BY <2>2, <2>4, UpdateKeepsKey
  <2>. HIDE DEF k3
  <2>6. KeyOK(k4)
    BY <2>2, <2>5, UpdateKeepsKey
  <2>7. SetKey(n, k4)
    BY <1>3 DEF Rekey, Rekeyed, k1, k2, k3, v
  <2>. HIDE DEF k4
  <2>8. /\ Keys'
        /\ rows' \in [Sides -> [Cursors -> RowValues]]
        /\ cur' \in [Sides -> Cursors]
        /\ cmat' \in [Sides -> CmatValues]
    BY <2>6, <2>7, SetKeyKeeps
  <2>9. UNCHANGED <<wire, clear, sent>> /\ rekeys' \in [Sides -> 0 .. MaxRekeys]
    BY <1>3, <2>1, CipherAssumption DEF Rekey
  <2>. QED BY <2>8, <2>9
<1>4. CASE UNCHANGED cipherVars
  BY <1>4 DEF cipherVars, key, Keys, Key
<1>. QED BY <1>1, <1>2, <1>3, <1>4 DEF CipherNext

\* The cursor never passes the two rows behind the array, and rows, cmat and
\* packets keep their types (crypto.c:24-43, 115-143).
THEOREM CipherTypes == CipherSpec => []CipherTypeOK
  BY InitialKeys, StepKeepsKeys, PTL DEF CipherSpec

\* For every key length cmat lags at most the matrix in progress behind the
\* key (crypto.c:27-43).
THEOREM CmatAlwaysFollowsKey == CipherSpec => []CmatFollowsKey
<1>1. Keys => CmatFollowsKey
  BY DEF Keys, KeyOK, Key, CmatFollowsKey, Unfinished
<1>. QED BY InitialKeys, StepKeepsKeys, <1>1, PTL DEF CipherSpec
-----------------------------------------------------------------------------
(* The cursors of the two ends. *)

Period == 4 * Mats + 2

\* x and y are the same number of updates, a few rounds of the cursor aside.
Congruent(x, y) == \E q \in Int : x + Period * q = y

LEMMA CongruentShifts ==
  ASSUME NEW x \in Int, NEW y \in Int, NEW d \in Int, Congruent(x, y)
  PROVE  Congruent(x + d, y + d)
<1>1. PICK q \in Int : x + Period * q = y
  BY DEF Congruent
<1>2. Period * q \in Int
  BY CipherAssumption, Z3 DEF Period
<1>. DEFINE p == Period * q
<1>3. p \in Int /\ x + p = y
  BY <1>1, <1>2
<1>. HIDE DEF p
<1>4. (x + d) + p = y + d
  BY <1>3
<1>. QED BY <1>4 DEF Congruent, p

\* One more update, whether or not the cursor goes back to the first row.
LEMMA CongruentAdvances ==
  ASSUME NEW c \in Cursors, NEW w \in Int, NEW y \in Int, Congruent(c + w, y)
  PROVE  Congruent(Advance(c) + w, y + 1)
<1>0. c \in Int /\ Period \in Int
  BY CipherAssumption DEF Cursors, Period
<1>1. PICK q \in Int : (c + w) + Period * q = y
  BY DEF Congruent
<1>2. /\ Period * q \in Int /\ Period * (q + 1) = Period * q + Period
  BY <1>0, Z3
<1>. DEFINE p == Period * q
            p1 == Period * (q + 1)
<1>3. p \in Int /\ (c + w) + p = y /\ p1 = p + Period
  BY <1>1, <1>2
<1>. HIDE DEF p, p1
<1>4. CASE c > 4 * Mats
  <2>1. Advance(c) = 0 /\ c + 1 = Period
    BY <1>4, CipherAssumption DEF Advance, Cursors, Period
  <2>2. (Advance(c) + w) + p1 = y + 1
    BY <1>0, <1>3, <2>1
  <2>. QED BY <2>2 DEF Congruent, p1
<1>5. CASE ~(c > 4 * Mats)
  <2>1. Advance(c) = c + 1
    BY <1>5 DEF Advance
  <2>2. (Advance(c) + w) + p = y + 1
    BY <1>0, <1>3, <2>1
  <2>. QED BY <2>2 DEF Congruent, p
<1>. QED BY <1>4, <1>5

\* Two cursors that are congruent are the same.
LEMMA CongruentCursors ==
  ASSUME NEW c \in Cursors, NEW d \in Cursors, NEW y \in Int, Congruent(c, y), Congruent(d, y)
  PROVE  c = d
<1>1. c \in 0 .. Period - 1 /\ d \in 0 .. Period - 1 /\ Period \in Nat \ {0}
  BY CipherAssumption DEF Cursors, Period
<1>2. PICK q \in Int : c + Period * q = y
  BY DEF Congruent
<1>3. PICK r \in Int : d + Period * r = y
  BY DEF Congruent
<1>4. Period * (q - r) = d - c
  BY <1>1, <1>2, <1>3, Z3
<1>. DEFINE k == q - r
<1>5. k \in Int /\ Period * k = d - c
  BY <1>4
<1>. HIDE DEF k
<1>6. ~(k >= 1)
  <2>1. ASSUME k >= 1 PROVE Period * k >= Period
    BY <1>1, <1>5, <2>1, Z3
  <2>. QED BY <1>1, <1>5, <2>1
<1>7. ~(k <= -1)
  <2>1. ASSUME k <= -1 PROVE Period * k <= -Period
    BY <1>1, <1>5, <2>1, Z3
  <2>. QED BY <1>1, <1>5, <2>1
<1>8. k = 0
  BY <1>5, <1>6, <1>7
<1>. QED BY <1>1, <1>5, <1>8

LEMMA UpdateAdvances ==
  ASSUME NEW k, KeyOK(k), NEW v
  PROVE  UpdateKey(k, v).cur = Advance(k.cur)
<1>. DEFINE u == [k EXCEPT !.rows[k.cur] = v, !.cur = Advance(k.cur)]
<1>1. "cur" \in DOMAIN k
  BY DEF KeyOK
<1>2. u.cur = Advance(k.cur) /\ "cur" \in DOMAIN u
  BY <1>1
<1>3. UpdateKey(k, v) = Regenerated(u)
  BY DEF UpdateKey
<1>. HIDE DEF u
<1>4. Regenerated(u).cur = u.cur
  BY <1>2 DEF Regenerated
<1>. QED BY <1>2, <1>3, <1>4

\* A node's updates, done and still under way to it, are the packets of both
\* sides and four for each of its rekeys.
Updates(a, b, n) == (sent[a] + sent[b]) + 4 * rekeys[n]
Owed(a, b) == \A n \in Sides : Congruent(cur[n] + Len(wire[n]), Updates(a, b, n))

LEMMA OwedInitially ==
  ASSUME NEW a \in Sides, NEW b \in Sides
  PROVE  CipherInit => Owed(a, b)
<1>. SUFFICES ASSUME CipherInit, NEW n \in Sides PROVE Congruent(cur[n] + Len(wire[n]), Updates(a, b, n))
  BY DEF Owed
<1>1. cur[n] + Len(wire[n]) = 0 /\ Updates(a, b, n) = 0
  BY DEF CipherInit, Updates
<1>2. 0 + Period * 0 = 0
  BY CipherAssumption, Z3 DEF Period
<1>. QED BY <1>1, <1>2 DEF Congruent

LEMMA OwedKept ==
  ASSUME NEW a, NEW b, Sides = {a, b}, a # b
  PROVE  Keys /\ CipherTypeOK /\ Owed(a, b) /\ [CipherNext]_cipherVars => Owed(a, b)'
<1>. SUFFICES ASSUME Keys, CipherTypeOK, Owed(a, b), [CipherNext]_cipherVars PROVE Owed(a, b)'
  OBVIOUS
<1>0. /\ \A m \in Sides : sent[m] \in Int /\ rekeys[m] \in Int /\ cur[m] \in Cursors /\ cur[m] \in Int
      /\ \A m \in Sides : Len(wire[m]) \in Int
      /\ \A m \in Sides : Updates(a, b, m) \in Int
  <2>1. \A m \in Sides : sent[m] \in Int /\ rekeys[m] \in Int /\ cur[m] \in Cursors /\ cur[m] \in Int
    BY CipherAssumption DEF CipherTypeOK, Cursors
  <2>2. \A m \in Sides : Len(wire[m]) \in Int
    BY DEF CipherTypeOK
  <2>. QED BY <2>1, <2>2 DEF Updates
<1>t. /\ sent \in [Sides -> 0 .. MaxPackets] /\ rekeys \in [Sides -> 0 .. MaxRekeys] /\ cur \in [Sides -> Cursors]
      /\ wire \in [Sides -> Seq([plain : Messages, under : CmatValues])]
  BY DEF CipherTypeOK
<1>1. ASSUME NEW n \in Sides, NEW to \in Sides \ {n}, Encrypt(n, to) PROVE Owed(a, b)'
  <2>0. PICK m \in Messages : \E v \in Sums(m) :
          /\ SetKey(n, UpdateKey(Key(n), v))
          /\ wire' = [wire EXCEPT ![to] = Append(@, [plain |-> m, under |-> UpdateKey(Key(n), v).cmat])]
    BY <1>1 DEF Encrypt
  <2>1. PICK v \in Sums(m) :
          /\ SetKey(n, UpdateKey(Key(n), v))
          /\ wire' = [wire EXCEPT ![to] = Append(@, [plain |-> m, under |-> UpdateKey(Key(n), v).cmat])]
    BY <2>0
  <2>2. UpdateKey(Key(n), v).cur = Advance(cur[n])
    BY UpdateAdvances DEF Keys, Key
  <2>3. cur' = [cur EXCEPT ![n] = Advance(cur[n])]
    BY <2>1, <2>2 DEF SetKey
  <2>4. sent' = [sent EXCEPT ![n] = @ + 1] /\ rekeys' = rekeys
    BY <1>1 DEF Encrypt
  <2>5. Len(wire'[to]) = Len(wire[to]) + 1 /\ wire'[n] = wire[n]
    <3>. DEFINE e == [plain |-> m, under |-> UpdateKey(Key(n), v).cmat]
                Packets == [plain : Messages, under : CmatValues]
    <3>. HIDE DEF e, Packets
    <3>1. wire' = [wire EXCEPT ![to] = Append(@, e)] /\ wire \in [Sides -> Seq(Packets)]
      BY <1>t, <2>1 DEF e, Packets
    <3>. QED BY <3>1
  <2>6. \A x \in Sides : Updates(a, b, x)' = Updates(a, b, x) + 1
    BY <1>0, <1>t, <2>4 DEF Updates
  <2>7. Congruent(cur[n] + Len(wire[n]), Updates(a, b, n)) /\ Congruent(cur[to] + Len(wire[to]), Updates(a, b, to))
    BY DEF Owed
  <2>8. Congruent(Advance(cur[n]) + Len(wire[n]), Updates(a, b, n) + 1)
    BY <1>0, <2>7, CongruentAdvances
  <2>9. Congruent((cur[to] + Len(wire[to])) + 1, Updates(a, b, to) + 1)
    <3>. DEFINE x == cur[to] + Len(wire[to])
                y == Updates(a, b, to)
    <3>1. x \in Int /\ y \in Int /\ Congruent(x, y)
      BY <1>0, <2>7
    <3>. HIDE DEF x, y
    <3>2. Congruent(x + 1, y + 1)
      BY <3>1, CongruentShifts
    <3>. QED BY <3>2 DEF x, y
  <2>10. cur'[n] = Advance(cur[n]) /\ cur'[to] = cur[to]
    BY <1>t, <2>3
  <2>11. (cur[to] + Len(wire[to])) + 1 = cur'[to] + Len(wire'[to])
    BY <1>0, <2>5, <2>10
  <2>12. \A x \in Sides : x = n \/ x = to
    OBVIOUS
  <2>. HIDE DEF Updates
  <2>13. cur'[n] + Len(wire'[n]) = Advance(cur[n]) + Len(wire[n])
    BY <2>5, <2>10
  <2>14. \A x \in Sides : Congruent(cur'[x] + Len(wire'[x]), Updates(a, b, x) + 1)
    BY <2>8, <2>9, <2>11, <2>12, <2>13
  <2>. QED BY <2>6, <2>14 DEF Owed, Congruent
<1>2. ASSUME NEW n \in Sides, Decrypt(n) PROVE Owed(a, b)'
  <2>1. PICK v : SetKey(n, UpdateKey(Key(n), v))
    BY <1>2 DEF Decrypt
  <2>2. UpdateKey(Key(n), v).cur = Advance(cur[n])
    BY UpdateAdvances DEF Keys, Key
  <2>3. cur' = [cur EXCEPT ![n] = Advance(cur[n])]
    BY <2>1, <2>2 DEF SetKey
  <2>4. wire' = [wire EXCEPT ![n] = Tail(@)] /\ wire[n] # <<>> /\ UNCHANGED <<sent, rekeys>>
    BY <1>2 DEF Decrypt
  <2>5. Len(wire'[n]) = Len(wire[n]) - 1
    <3>. DEFINE Packets == [plain : Messages, under : CmatValues]
    <3>. HIDE DEF Packets
    <3>1. wire[n] \in Seq(Packets) /\ wire'[n] = Tail(wire[n])
      BY <1>t, <2>4 DEF Packets
    <3>. QED BY <2>4, <3>1, HeadTailProperties
  <2>6. \A x \in Sides : Updates(a, b, x)' = Updates(a, b, x)
    BY <2>4 DEF Updates
  <2>7. Congruent(Advance(cur[n]) + Len(wire[n]), Updates(a, b, n) + 1)
    BY <1>0, CongruentAdvances DEF Owed
  <2>8. Advance(cur[n]) \in Int
    BY <1>0, AdvanceInRange, CipherAssumption DEF Cursors
  <2>9. Congruent((Advance(cur[n]) + Len(wire[n])) + (-1), (Updates(a, b, n) + 1) + (-1))
    <3>. DEFINE x == Advance(cur[n]) + Len(wire[n])
                y == Updates(a, b, n) + 1
    <3>1. x \in Int /\ y \in Int /\ Congruent(x, y)
      BY <1>0, <2>7, <2>8
    <3>. HIDE DEF x, y
    <3>2. Congruent(x + (-1), y + (-1))
      BY <3>1, CongruentShifts
    <3>. QED BY <3>2 DEF x, y
  <2>10. /\ (Advance(cur[n]) + Len(wire[n])) + (-1) = cur'[n] + Len(wire'[n])
         /\ (Updates(a, b, n) + 1) + (-1) = Updates(a, b, n)
    BY <1>0, <1>t, <2>3, <2>5, <2>8
  <2>11. \A x \in Sides : x # n => cur'[x] = cur[x] /\ wire'[x] = wire[x]
    BY <1>t, <2>3, <2>4
  <2>. HIDE DEF Updates
  <2>12. \A x \in Sides : Congruent(cur'[x] + Len(wire'[x]), Updates(a, b, x))
    BY <2>9, <2>10, <2>11 DEF Owed
  <2>. QED BY <2>6, <2>12 DEF Owed, Congruent
<1>3. ASSUME NEW n \in Sides, Rekey(n) PROVE Owed(a, b)'
  <2>. DEFINE v == Drawn(n)
              k1 == UpdateKey(Key(n), v[1])
              k2 == UpdateKey(k1, v[2])
              k3 == UpdateKey(k2, v[3])
              k4 == UpdateKey(k3, v[4])
  <2>1. rekeys[n] \in 0 .. MaxRekeys - 1
    BY <1>3, <1>t, CipherAssumption DEF Rekey
  <2>2. \A i \in 1 .. 4 : v[i] \in RowValues
    BY <2>1, CipherAssumption DEF Drawn, RowValues, Entropy
  <2>3. SetKey(n, k4)
    BY <1>3 DEF Rekey, Rekeyed
  <2>. HIDE DEF v
  <2>4. KeyOK(Key(n)) /\ Key(n).cur = cur[n]
    BY DEF Keys, Key
  <2>5. KeyOK(k1) /\ k1.cur = Advance(cur[n])
    BY <2>2, <2>4, UpdateKeepsKey, UpdateAdvances
  <2>. HIDE DEF k1
  <2>6. KeyOK(k2) /\ k2.cur = Advance(k1.cur)
    BY <2>2, <2>5, UpdateKeepsKey, UpdateAdvances
  <2>. HIDE DEF k2
  <2>7. KeyOK(k3) /\ k3.cur = Advance(k2.cur)
    BY <2>2, <2>6, UpdateKeepsKey, UpdateAdvances
  <2>. HIDE DEF k3
  <2>8. k4.cur = Advance(k3.cur)
    BY <2>7, UpdateAdvances
  <2>. HIDE DEF k4
  <2>9. cur[n] \in Cursors /\ k1.cur \in Cursors /\ k2.cur \in Cursors /\ k3.cur \in Cursors
    BY <2>4, <2>5, <2>6, <2>7, <1>0 DEF KeyOK
  <2>. DEFINE w == Len(wire[n])
              y == Updates(a, b, n)
  <2>10. w \in Int /\ y \in Int /\ Congruent(cur[n] + w, y)
    BY <1>0 DEF Owed
  <2>. HIDE DEF w, y
  <2>11. Congruent(k1.cur + w, y + 1)
    BY <2>5, <2>9, <2>10, CongruentAdvances
  <2>12. Congruent(k2.cur + w, (y + 1) + 1)
    <3>1. y + 1 \in Int
      BY <2>10
    <3>. QED BY <2>6, <2>9, <2>10, <2>11, <3>1, CongruentAdvances
  <2>13. Congruent(k3.cur + w, ((y + 1) + 1) + 1)
    <3>1. (y + 1) + 1 \in Int
      BY <2>10
    <3>. QED BY <2>7, <2>9, <2>10, <2>12, <3>1, CongruentAdvances
  <2>14. Congruent(k4.cur + w, (((y + 1) + 1) + 1) + 1)
    <3>1. ((y + 1) + 1) + 1 \in Int
      BY <2>10
    <3>. QED BY <2>8, <2>9, <2>10, <2>13, <3>1, CongruentAdvances
  <2>15. UNCHANGED <<wire, sent>> /\ rekeys' = [rekeys EXCEPT ![n] = @ + 1] /\ cur' = [cur EXCEPT ![n] = k4.cur]
    BY <1>3, <2>3 DEF Rekey, SetKey
  <2>16. Updates(a, b, n)' = (((y + 1) + 1) + 1) + 1
    <3>1. rekeys'[n] = rekeys[n] + 1 /\ sent' = sent
      BY <1>t, <2>15
    <3>2. sent[a] \in Int /\ sent[b] \in Int /\ rekeys[n] \in Int
      BY <1>0
    <3>. QED BY <3>1, <3>2 DEF Updates, y
  <2>17. \A x \in Sides : x # n => cur'[x] = cur[x] /\ Updates(a, b, x)' = Updates(a, b, x)
    BY <1>t, <2>15 DEF Updates
  <2>18. Congruent(cur'[n] + Len(wire'[n]), Updates(a, b, n)')
    BY <1>t, <2>14, <2>15, <2>16 DEF w
  <2>19. \A x \in Sides : x # n => Congruent(cur'[x] + Len(wire'[x]), Updates(a, b, x)')
    BY <2>15, <2>17 DEF Owed
  <2>. QED BY <2>18, <2>19 DEF Owed, Congruent
<1>4. CASE UNCHANGED cipherVars
  BY <1>4 DEF cipherVars, key, Owed, Updates, Congruent
<1>. QED BY <1>1, <1>2, <1>3, <1>4 DEF CipherNext

\* The two ends of a session of any key length agree on the cursor whenever
\* nothing is under way and both rekeyed as often (crypto.c:32-35, 115-143).
THEOREM CursorsAlwaysAgreeWhenQuiet ==
  ASSUME NEW a, NEW b, Sides = {a, b}, a # b
  PROVE  CipherSpec => []CursorsAgreeWhenQuiet
<1>1. CipherInit => Owed(a, b)
  BY OwedInitially
<1>2. CipherTypeOK /\ Owed(a, b) => CursorsAgreeWhenQuiet
  <2>. SUFFICES ASSUME CipherTypeOK, Owed(a, b), NEW n \in Sides, NEW m \in Sides,
                       wire[n] = <<>>, wire[m] = <<>>, rekeys[n] = rekeys[m]
                PROVE  cur[n] = cur[m]
    BY DEF CursorsAgreeWhenQuiet
  <2>1. /\ cur[n] \in Cursors /\ cur[m] \in Cursors /\ sent[a] \in Int /\ sent[b] \in Int /\ rekeys[n] \in Int
        /\ cur[n] \in Int /\ cur[m] \in Int
    BY CipherAssumption DEF CipherTypeOK, Cursors
  <2>2. Updates(a, b, n) = Updates(a, b, m) /\ Updates(a, b, n) \in Int
    BY <2>1 DEF Updates
  <2>3. cur[n] + Len(wire[n]) = cur[n] /\ cur[m] + Len(wire[m]) = cur[m]
    BY <2>1
  <2>4. Congruent(cur[n], Updates(a, b, n)) /\ Congruent(cur[m], Updates(a, b, n))
    BY <2>2, <2>3 DEF Owed
  <2>. QED BY <2>1, <2>2, <2>4, CongruentCursors
<1>3. Keys /\ CipherTypeOK /\ Owed(a, b) /\ [CipherNext]_cipherVars => Keys' /\ CipherTypeOK' /\ Owed(a, b)'
  BY StepKeepsKeys, OwedKept
<1>. QED BY <1>1, <1>2, <1>3, InitialKeys, PTL DEF CipherSpec

-----------------------------------------------------------------------------
(* What a rekey leaves in the key. *)

\* update_key writes the vector at the cursor and no other row.
LEMMA UpdateWrites ==
  ASSUME NEW k, KeyOK(k), NEW v
  PROVE  /\ UpdateKey(k, v).rows[k.cur] = v
         /\ \A r \in Cursors \ {k.cur} : UpdateKey(k, v).rows[r] = k.rows[r]
<1>. DEFINE u == [k EXCEPT !.rows = [@ EXCEPT ![k.cur] = v], !.cur = Advance(k.cur)]
<1>1. u.rows = [k.rows EXCEPT ![k.cur] = v] /\ "rows" \in DOMAIN u
  BY DEF KeyOK
<1>2. UpdateKey(k, v) = Regenerated(u)
  BY DEF UpdateKey
<1>3. k.cur \in Cursors /\ DOMAIN k.rows = Cursors
  BY DEF KeyOK
<1>. HIDE DEF u
<1>4. Regenerated(u).rows = u.rows
  BY <1>1 DEF Regenerated
<1>. QED BY <1>1, <1>2, <1>3, <1>4

LEMMA TwoElements ==
  ASSUME NEW x, NEW y, x # y
  PROVE  Cardinality({x, y}) = 2
<1>1. Cardinality({x}) = 1 /\ IsFiniteSet({x})
  BY FS_Singleton
<1>2. {x, y} = {x} \cup {y}
  OBVIOUS
<1>. QED BY <1>1, <1>2, FS_AddElement

\* Four places in a row of the cursor are different, and two of them at least
\* are rows: only two are not, and the cursor passes them one after the other.
LEMMA FourPlaces ==
  ASSUME NEW c \in Cursors
  PROVE  LET d == Advance(c)
             e == Advance(d)
             f == Advance(e)
         IN  /\ c # d /\ c # e /\ c # f /\ d # e /\ d # f /\ e # f
             /\ \/ c \in Rows /\ d \in Rows
                \/ c \in Rows /\ f \in Rows
                \/ e \in Rows /\ f \in Rows
<1>1. Mats \in Nat /\ Mats >= 1
  BY CipherAssumption
<1>2. CASE c <= 4 * Mats - 2
  BY <1>1, <1>2 DEF Advance, Cursors, Rows
<1>3. CASE c = 4 * Mats - 1
  BY <1>1, <1>3 DEF Advance, Cursors, Rows
<1>4. CASE c = 4 * Mats
  BY <1>1, <1>4 DEF Advance, Cursors, Rows
<1>5. CASE c = 4 * Mats + 1
  BY <1>1, <1>5 DEF Advance, Cursors, Rows
<1>. QED BY <1>1, <1>2, <1>3, <1>4, <1>5 DEF Cursors

\* The rekey of a good key leaves two of its vectors in rows.
LEMMA RekeyedHoldsTwo ==
  ASSUME NEW k, KeyOK(k), NEW v, \A i \in 1 .. 4 : v[i] \in RowValues
  PROVE  \E I \in SUBSET (1 .. 4) :
           /\ Cardinality(I) = 2
           /\ \A i \in I : \E r \in Rows : Rekeyed(k, v).rows[r] = v[i]
<1>. DEFINE k1 == UpdateKey(k, v[1])
            k2 == UpdateKey(k1, v[2])
            k3 == UpdateKey(k2, v[3])
            k4 == UpdateKey(k3, v[4])
<1>0. v[1] \in RowValues /\ v[2] \in RowValues /\ v[3] \in RowValues
  OBVIOUS
<1>1. /\ KeyOK(k1) /\ k1.cur = Advance(k.cur) /\ k1.rows[k.cur] = v[1]
  BY <1>0, UpdateKeepsKey, UpdateAdvances, UpdateWrites
<1>. HIDE DEF k1
<1>2. /\ KeyOK(k2) /\ k2.cur = Advance(k1.cur) /\ k2.rows[k1.cur] = v[2]
      /\ \A r \in Cursors \ {k1.cur} : k2.rows[r] = k1.rows[r]
  <2>1. KeyOK(k2)
    BY <1>0, <1>1, UpdateKeepsKey
  <2>2. k2.cur = Advance(k1.cur)
    BY <1>1, UpdateAdvances
  <2>. QED BY <1>1, <2>1, <2>2, UpdateWrites
<1>. HIDE DEF k2
<1>3. /\ KeyOK(k3) /\ k3.cur = Advance(k2.cur) /\ k3.rows[k2.cur] = v[3]
      /\ \A r \in Cursors \ {k2.cur} : k3.rows[r] = k2.rows[r]
  <2>1. KeyOK(k3)
    BY <1>0, <1>2, UpdateKeepsKey
  <2>2. k3.cur = Advance(k2.cur)
    BY <1>2, UpdateAdvances
  <2>. QED BY <1>2, <2>1, <2>2, UpdateWrites
<1>. HIDE DEF k3
<1>4. /\ k4.rows[k3.cur] = v[4]
      /\ \A r \in Cursors \ {k3.cur} : k4.rows[r] = k3.rows[r]
  BY <1>3, UpdateWrites
<1>5. Rekeyed(k, v) = k4
  BY DEF Rekeyed, k1, k2, k3
<1>. HIDE DEF k4
<1>6. k.cur \in Cursors /\ k1.cur \in Cursors /\ k2.cur \in Cursors /\ k3.cur \in Cursors
  BY <1>1, <1>2, <1>3 DEF KeyOK
<1>7. /\ k.cur # k1.cur /\ k.cur # k2.cur /\ k.cur # k3.cur
      /\ k1.cur # k2.cur /\ k1.cur # k3.cur /\ k2.cur # k3.cur
      /\ \/ k.cur \in Rows /\ k1.cur \in Rows
         \/ k.cur \in Rows /\ k3.cur \in Rows
         \/ k2.cur \in Rows /\ k3.cur \in Rows
  BY <1>1, <1>2, <1>3, <1>6, FourPlaces
<1>8. k4.rows[k.cur] = v[1] /\ k4.rows[k1.cur] = v[2] /\ k4.rows[k2.cur] = v[3]
  BY <1>1, <1>2, <1>3, <1>4, <1>6, <1>7
<1>9. CASE k.cur \in Rows /\ k1.cur \in Rows
  <2>1. {1, 2} \in SUBSET (1 .. 4) /\ Cardinality({1, 2}) = 2
    <3>1. \A x, y \in 1 .. 4 : x # y => Cardinality({x, y}) = 2
      BY TwoElements
    <3>. QED BY <3>1
  <2>2. \A i \in {1, 2} : \E r \in Rows : Rekeyed(k, v).rows[r] = v[i]
    BY <1>4, <1>5, <1>8, <1>9
  <2>. QED BY <2>1, <2>2
<1>10. CASE k.cur \in Rows /\ k3.cur \in Rows
  <2>1. {1, 4} \in SUBSET (1 .. 4) /\ Cardinality({1, 4}) = 2
    <3>1. \A x, y \in 1 .. 4 : x # y => Cardinality({x, y}) = 2
      BY TwoElements
    <3>. QED BY <3>1
  <2>2. \A i \in {1, 4} : \E r \in Rows : Rekeyed(k, v).rows[r] = v[i]
    BY <1>4, <1>5, <1>8, <1>10
  <2>. QED BY <2>1, <2>2
<1>11. CASE k2.cur \in Rows /\ k3.cur \in Rows
  <2>1. {3, 4} \in SUBSET (1 .. 4) /\ Cardinality({3, 4}) = 2
    <3>1. \A x, y \in 1 .. 4 : x # y => Cardinality({x, y}) = 2
      BY TwoElements
    <3>. QED BY <3>1
  <2>2. \A i \in {3, 4} : \E r \in Rows : Rekeyed(k, v).rows[r] = v[i]
    BY <1>4, <1>5, <1>8, <1>11
  <2>. QED BY <2>1, <2>2
<1>. QED BY <1>7, <1>9, <1>10, <1>11

\* A rekey leaves at least two of its four vectors in the key, wherever the
\* cursor was and however long the key (crypto.c:131-143).
THEOREM RekeyAlwaysInjects == CipherSpec => RekeyInjects
<1>1. Keys /\ CipherTypeOK /\ [CipherNext]_cipherVars => [InjectsTwo]_cipherVars
  <2>. SUFFICES ASSUME Keys, CipherTypeOK, CipherNext, NEW n \in Sides, rekeys'[n] > rekeys[n]
                PROVE  \E I \in SUBSET (1 .. 4) :
                         /\ Cardinality(I) = 2
                         /\ \A i \in I : \E r \in Rows : rows'[n][r] = Drawn(n)[i]
    BY DEF InjectsTwo
  <2>1. Rekey(n)
    <3>1. \A m \in Sides : rekeys[m] \in Int
      BY CipherAssumption DEF CipherTypeOK
    <3>2. rekeys' # rekeys
      BY <3>1
    <3>3. PICK m \in Sides : Rekey(m)
      BY <3>2 DEF CipherNext, Encrypt, Decrypt
    <3>4. m = n
      BY <3>1, <3>3 DEF Rekey, CipherTypeOK
    <3>. QED BY <3>3, <3>4
  <2>2. rekeys[n] \in 0 .. MaxRekeys - 1
    BY <2>1, CipherAssumption DEF Rekey, CipherTypeOK
  <2>3. \A i \in 1 .. 4 : Drawn(n)[i] \in RowValues
    BY <2>2, CipherAssumption DEF Drawn, RowValues, Entropy
  <2>4. rows'[n] = Rekeyed(Key(n), Drawn(n)).rows
    BY <2>1 DEF Rekey, SetKey, CipherTypeOK
  <2>. QED BY <2>3, <2>4, RekeyedHoldsTwo DEF Keys
<1>. QED BY InitialKeys, StepKeepsKeys, <1>1, PTL DEF CipherSpec, RekeyInjects
=============================================================================
