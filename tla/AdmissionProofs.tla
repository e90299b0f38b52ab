--------------------------- MODULE AdmissionProofs ---------------------------
(***************************************************************************)
(* The two threads of Admission never lead each other outside the pending  *)
(* table or the pools, for tables and pools of every size.  The argument   *)
(* is IndInv: while the listener writes an entry nobody else can raise     *)
(* pending_count, and while pending_cycle handles one nobody else can      *)
(* lower it, so what a thread read of the count stays a bound, the updates *)
(* the other thread loses notwithstanding.  From it, Admission implements  *)
(* ConnectionPool for each of its pools.                                   *)
(***************************************************************************)
EXTENDS AdmissionPools, SequenceTheorems, TLAPS

\* Writing one field of an entry of a pool.
LEMMA WriteEntry ==
  ASSUME NEW s \in Seq(Entry), NEW n \in 1 .. Len(s)
  PROVE  /\ \A fd \in Fds \cup {BadFd, Unwritten} :
              /\ [s EXCEPT ![n].fd = fd] \in Seq(Entry)
              /\ Len([s EXCEPT ![n].fd = fd]) = Len(s)
              /\ [s EXCEPT ![n].fd = fd][n].fd = fd
              /\ [s EXCEPT ![n].fd = fd][n].addr = s[n].addr
              /\ \A j \in 1 .. Len(s) : j # n => [s EXCEPT ![n].fd = fd][j] = s[j]
         /\ \A a \in Peers \cup {Unwritten} :
              /\ [s EXCEPT ![n].addr = a] \in Seq(Entry)
              /\ Len([s EXCEPT ![n].addr = a]) = Len(s)
              /\ [s EXCEPT ![n].addr = a][n].addr = a
              /\ [s EXCEPT ![n].addr = a][n].fd = s[n].fd
              /\ \A j \in 1 .. Len(s) : j # n => [s EXCEPT ![n].addr = a][j] = s[j]
<1>1. s[n] \in Entry
  BY ElementOfSeq
<1>2. ASSUME NEW fd \in Fds \cup {BadFd, Unwritten}
      PROVE  /\ [s[n] EXCEPT !.fd = fd] \in Entry
             /\ [s[n] EXCEPT !.fd = fd].fd = fd
             /\ [s[n] EXCEPT !.fd = fd].addr = s[n].addr
  BY <1>1 DEF Entry
<1>3. ASSUME NEW a \in Peers \cup {Unwritten}
      PROVE  /\ [s[n] EXCEPT !.addr = a] \in Entry
             /\ [s[n] EXCEPT !.addr = a].addr = a
             /\ [s[n] EXCEPT !.addr = a].fd = s[n].fd
  BY <1>1 DEF Entry
<1>4. ASSUME NEW e \in Entry
      PROVE  /\ [s EXCEPT ![n] = e] \in Seq(Entry)
             /\ Len([s EXCEPT ![n] = e]) = Len(s)
             /\ \A j \in 1 .. Len(s) : [s EXCEPT ![n] = e][j] = IF j = n THEN e ELSE s[j]
  BY ExceptSeq
<1>5. ASSUME NEW fd \in Fds \cup {BadFd, Unwritten}
      PROVE  /\ [s EXCEPT ![n].fd = fd] \in Seq(Entry)
             /\ Len([s EXCEPT ![n].fd = fd]) = Len(s)
             /\ [s EXCEPT ![n].fd = fd][n].fd = fd
             /\ [s EXCEPT ![n].fd = fd][n].addr = s[n].addr
             /\ \A j \in 1 .. Len(s) : j # n => [s EXCEPT ![n].fd = fd][j] = s[j]
  <2>. DEFINE e == [s[n] EXCEPT !.fd = fd]
  <2>1. e \in Entry /\ e.fd = fd /\ e.addr = s[n].addr
    BY <1>2
  <2>2. [s EXCEPT ![n].fd = fd] = [s EXCEPT ![n] = e]
    OBVIOUS
  <2>. HIDE DEF e
  <2>. QED BY <2>1, <2>2, <1>4
<1>6. ASSUME NEW a \in Peers \cup {Unwritten}
      PROVE  /\ [s EXCEPT ![n].addr = a] \in Seq(Entry)
             /\ Len([s EXCEPT ![n].addr = a]) = Len(s)
             /\ [s EXCEPT ![n].addr = a][n].addr = a
             /\ [s EXCEPT ![n].addr = a][n].fd = s[n].fd
             /\ \A j \in 1 .. Len(s) : j # n => [s EXCEPT ![n].addr = a][j] = s[j]
  <2>. DEFINE e == [s[n] EXCEPT !.addr = a]
  <2>1. e \in Entry /\ e.addr = a /\ e.fd = s[n].fd
    BY <1>3
  <2>2. [s EXCEPT ![n].addr = a] = [s EXCEPT ![n] = e]
    OBVIOUS
  <2>. HIDE DEF e
  <2>. QED BY <2>1, <2>2, <1>4
<1>. QED BY <1>5, <1>6

\* Every role leads to one of the two pools.
LEMMA PoolOfPools == \A r \in Roles : PoolOf(r) \in Pools
  BY DEF PoolOf, Pools

\* The tables net_init leaves are empty and sound.
LEMMA InitEstablishes == Init => IndInv
<1>. SUFFICES ASSUME Init PROVE IndInv
  OBVIOUS
<1>. USE AdmissionAssumption DEF Init
<1>1. TypeOK
  BY EmptySeq DEF TypeOK, ListenerLocs, PendingLocs, Roles
<1>2. PendingTableSound
  BY DEF PendingTableSound
<1>3. ListenerKnows /\ PendingCycleKnows
  BY DEF ListenerKnows, PendingCycleKnows
<1>4. PoolsPrefixComplete
  BY DEF PoolsPrefixComplete, PoolLimit
<1>5. PoolWriteKnows
  BY DEF PoolWriteKnows
<1>. QED BY <1>1, <1>2, <1>3, <1>4, <1>5 DEF IndInv

-----------------------------------------------------------------------------
(* The listener's steps. *)

\* The listener keeps the invariant, whatever pending_cycle is at.
LEMMA ListenerKeeps == IndInv /\ Listener => IndInv'
<1>. SUFFICES ASSUME IndInv, Listener PROVE IndInv'
  OBVIOUS
<1>. USE AdmissionAssumption
<1>a. UNCHANGED <<registry, pendingVars>>
  BY DEF Listener, Accept, CheckLimit, StorePendingFd, StorePendingAddr, LoadForIncrement,
         StoreIncrement
<1>b. PoolsPrefixComplete' /\ PoolWriteKnows'
  BY <1>a DEF IndInv, PoolsPrefixComplete, PoolWriteKnows, registry, pendingVars
<1>. USE DEF registry, pendingVars, shared, Slots
<1>1. CASE Accept
  <2>1. TypeOK'
    BY <1>1 DEF IndInv, TypeOK, Accept, ListenerLocs
  <2>2. PendingTableSound' /\ ListenerKnows' /\ PendingCycleKnows'
    BY <1>1 DEF IndInv, Accept, PendingTableSound, Written, ListenerKnows, PendingCycleKnows
  <2>. QED BY <1>b, <2>1, <2>2 DEF IndInv
<1>2. CASE CheckLimit
  <2>1. TypeOK'
    BY <1>2 DEF IndInv, TypeOK, CheckLimit, Close, ListenerLocs
  <2>2. PendingTableSound' /\ PendingCycleKnows'
    BY <1>2 DEF IndInv, CheckLimit, PendingTableSound, Written, PendingCycleKnows
  <2>3. ListenerKnows'
    BY <1>2 DEF IndInv, CheckLimit, Close, ListenerKnows
  <2>. QED BY <1>b, <2>1, <2>2, <2>3 DEF IndInv
<1>3. CASE StorePendingFd
  <2>1. TypeOK'
    BY <1>3 DEF IndInv, TypeOK, StorePendingFd, ListenerLocs
  <2>2. pendCount \in 0 .. PendingLimit - 1 /\ lfd # Unwritten
    BY <1>3 DEF IndInv, TypeOK, StorePendingFd, PendingTableSound, ListenerKnows
  <2>3. PendingTableSound' /\ PendingCycleKnows'
    BY <1>3, <2>2 DEF IndInv, TypeOK, StorePendingFd, PendingTableSound, Written, PendingCycleKnows
  <2>4. ListenerKnows'
    BY <1>3, <2>2 DEF IndInv, TypeOK, StorePendingFd, ListenerKnows
  <2>. QED BY <1>b, <2>1, <2>3, <2>4 DEF IndInv
<1>4. CASE StorePendingAddr
  <2>1. TypeOK'
    BY <1>4 DEF IndInv, TypeOK, StorePendingAddr, ListenerLocs
  <2>2. pendCount \in 0 .. PendingLimit - 1 /\ laddr # Unwritten /\ pendFd[pendCount] # Unwritten
    BY <1>4 DEF IndInv, TypeOK, StorePendingAddr, PendingTableSound, ListenerKnows
  <2>3. PendingTableSound' /\ PendingCycleKnows'
    BY <1>4, <2>2 DEF IndInv, TypeOK, StorePendingAddr, PendingTableSound, Written, PendingCycleKnows
  <2>4. ListenerKnows'
    BY <1>4, <2>2 DEF IndInv, TypeOK, StorePendingAddr, ListenerKnows, Written
  <2>. QED BY <1>b, <2>1, <2>3, <2>4 DEF IndInv
<1>5. CASE LoadForIncrement
  <2>1. TypeOK'
    BY <1>5 DEF IndInv, TypeOK, LoadForIncrement, ListenerLocs
  <2>2. PendingTableSound' /\ PendingCycleKnows'
    BY <1>5 DEF IndInv, LoadForIncrement, PendingTableSound, Written, PendingCycleKnows
  <2>3. ListenerKnows'
    BY <1>5 DEF IndInv, TypeOK, LoadForIncrement, PendingTableSound, ListenerKnows, Written
  <2>. QED BY <1>b, <2>1, <2>2, <2>3 DEF IndInv
<1>6. CASE StoreIncrement
  <2>1. TypeOK'
    BY <1>6 DEF IndInv, TypeOK, StoreIncrement, ListenerLocs
  <2>2. PendingTableSound' /\ ListenerKnows'
    BY <1>6 DEF IndInv, TypeOK, StoreIncrement, PendingTableSound, ListenerKnows, Written
  <2>3. PendingCycleKnows'
    BY <1>6 DEF IndInv, TypeOK, StoreIncrement, ListenerKnows, PendingCycleKnows
  <2>. QED BY <1>b, <2>1, <2>2, <2>3 DEF IndInv
<1>. QED BY <1>1, <1>2, <1>3, <1>4, <1>5, <1>6 DEF Listener

-----------------------------------------------------------------------------
(* The steps of pending_cycle. *)

\* pending_cycle keeps it, whatever the listener is at.
LEMMA PendingCycleKeeps == IndInv /\ PendingCycle => IndInv'
<1>. SUFFICES ASSUME IndInv, PendingCycle PROVE IndInv'
  OBVIOUS
<1>. USE AdmissionAssumption DEF registry, shared, listenerVars, Slots
<1>1. CASE SizePollSet \/ ScanEnd \/ ScanSkip \/ ScanTake \/ ReceiveFirst
  <2>. USE DEF SizePollSet, ScanEnd, ScanSkip, ScanTake, ReceiveFirst
  <2>1. TypeOK'
    BY <1>1 DEF IndInv, TypeOK, PendingLocs, Roles
  <2>2. PendingTableSound' /\ ListenerKnows'
    BY <1>1 DEF IndInv, PendingTableSound, ListenerKnows, Written
  <2>3. PendingCycleKnows'
    BY <1>1 DEF IndInv, TypeOK, PendingCycleKnows, Roles
  <2>4. PoolsPrefixComplete'
    BY <1>1 DEF IndInv, PoolsPrefixComplete, Complete
  <2>5. PoolWriteKnows'
    BY <1>1 DEF PoolWriteKnows, Roles
  <2>. QED BY <2>1, <2>2, <2>3, <2>4, <2>5 DEF IndInv
<1>2. CASE PollPending
  <2>a. Polled(TRUE) \subseteq Slots
    BY DEF IndInv, PendingTableSound, Polled
  <2>b. /\ ready' \subseteq Slots
        /\ extent' \in {extent, pendCount, 0}
        /\ ppc' \in {"size", "scan", "smashed"}
        /\ size' = 0
    BY <1>2, <2>a DEF IndInv, TypeOK, PollPending
  <2>1. TypeOK'
    BY <1>2, <2>b DEF IndInv, TypeOK, PollPending, PendingLocs
  <2>2. PendingTableSound' /\ ListenerKnows' /\ PendingCycleKnows'
    BY <1>2 DEF IndInv, PendingTableSound, ListenerKnows, PendingCycleKnows, Written, PollPending
  <2>3. PoolsPrefixComplete' /\ PoolWriteKnows'
    BY <1>2 DEF IndInv, PoolsPrefixComplete, Complete, PoolWriteKnows, PollPending
  <2>. QED BY <2>1, <2>2, <2>3 DEF IndInv
<1>3. CASE CloseErrant
  <2>1. TypeOK'
    BY <1>3 DEF IndInv, TypeOK, CloseErrant, Close, PendingLocs
  <2>2. PendingTableSound' /\ ListenerKnows' /\ PendingCycleKnows'
    BY <1>3 DEF IndInv, PendingTableSound, ListenerKnows, PendingCycleKnows, Written, CloseErrant
  <2>3. PoolsPrefixComplete' /\ PoolWriteKnows'
    BY <1>3 DEF IndInv, PoolsPrefixComplete, Complete, PoolWriteKnows, CloseErrant
  <2>. QED BY <2>1, <2>2, <2>3 DEF IndInv
<1>4. CASE EnterPool
  <2>. DEFINE p == PoolOf(role)
              e == [fd |-> Unwritten, addr |-> Unwritten]
  <2>1. p \in Pools /\ pool[p] \in Seq(Entry) /\ e \in Entry /\ ~Complete(e)
    BY PoolOfPools DEF IndInv, TypeOK, Entry, Complete
  <2>2. PendingTableSound' /\ ListenerKnows' /\ PendingCycleKnows'
    BY <1>4 DEF IndInv, PendingTableSound, ListenerKnows, PendingCycleKnows, Written, EnterPool
  <2>3. CASE Len(pool[p]) >= PoolLimit(p)
    BY <1>4, <2>2, <2>3 DEF IndInv, TypeOK, PendingLocs, PoolsPrefixComplete, Complete,
                            PoolWriteKnows, EnterPool
  <2>4. CASE Len(pool[p]) < PoolLimit(p)
    <3>. HIDE DEF e
    <3>1. /\ pool' = [pool EXCEPT ![p] = Append(@, e)]
          /\ ppc' = "fd" /\ role' = role
      BY <1>4, <2>1, <2>4 DEF EnterPool, e, PoolLimit
    <3>2. /\ Append(pool[p], e) \in Seq(Entry)
          /\ Len(Append(pool[p], e)) = Len(pool[p]) + 1
          /\ Append(pool[p], e)[Len(pool[p]) + 1] = e
          /\ \A k \in 1 .. Len(pool[p]) : Append(pool[p], e)[k] = pool[p][k]
      BY <2>1
    <3>3. pool' \in [Pools -> Seq(Entry)] /\ pool'[p] = Append(pool[p], e)
          /\ \A q \in Pools \ {p} : pool'[q] = pool[q]
      BY <2>1, <3>1, <3>2 DEF IndInv, TypeOK
    <3>4. TypeOK'
      BY <1>4, <3>1, <3>3 DEF IndInv, TypeOK, PendingLocs, EnterPool
    <3>5. PoolsPrefixComplete'
      <4>1. ASSUME NEW q \in Pools \ {p} PROVE
              /\ Len(pool'[q]) <= PoolLimit(q)
              /\ \A k \in 1 .. Len(pool'[q]) : Complete(pool'[q][k])
        BY <1>4, <3>3 DEF IndInv, PoolsPrefixComplete, EnterPool
      <4>2. /\ Len(pool'[p]) <= PoolLimit(p)
            /\ \A k \in 1 .. Len(pool'[p]) : ~Complete(pool'[p][k]) => k = Len(pool'[p])
        BY <1>4, <2>1, <2>4, <3>2, <3>3 DEF IndInv, PoolsPrefixComplete, PoolLimit, EnterPool
      <4>. QED BY <3>1, <4>1, <4>2 DEF PoolsPrefixComplete, Complete
    <3>6. PoolWriteKnows'
      BY <2>1, <3>1, <3>2, <3>3 DEF PoolWriteKnows, e
    <3>. QED BY <2>2, <3>4, <3>5, <3>6 DEF IndInv
  <2>. QED BY <2>1, <2>3, <2>4 DEF PoolLimit
<1>5. CASE WritePoolFd
  <2>. DEFINE p == PoolOf(role)
              n == Len(pool[p])
  <2>1. p \in Pools /\ pool[p] \in Seq(Entry) /\ n \in 1 .. Len(pool[p])
    BY <1>5, PoolOfPools DEF IndInv, TypeOK, PoolWriteKnows, WritePoolFd
  <2>2. pendFd[i] \in Fds \cup {BadFd}
    BY <1>5 DEF IndInv, TypeOK, PendingTableSound, PendingCycleKnows, Written, WritePoolFd
  <2>3. PendingTableSound' /\ ListenerKnows' /\ PendingCycleKnows'
    BY <1>5 DEF IndInv, PendingTableSound, ListenerKnows, PendingCycleKnows, Written, WritePoolFd
  <2>4. pool' = [pool EXCEPT ![p] = [@ EXCEPT ![n].fd = pendFd[i]]] /\ ppc' = "addr" /\ role' = role
    BY <1>5 DEF WritePoolFd
  <2>5. /\ pool' \in [Pools -> Seq(Entry)]
        /\ Len(pool'[p]) = n
        /\ pool'[p][n].fd # Unwritten /\ pool'[p][n].addr = Unwritten
        /\ \A j \in 1 .. n - 1 : pool'[p][j] = pool[p][j]
        /\ \A q \in Pools \ {p} : pool'[q] = pool[q]
    <3>1. pool'[p] = [pool[p] EXCEPT ![n].fd = pendFd[i]]
          /\ \A q \in Pools \ {p} : pool'[q] = pool[q]
      BY <2>1, <2>4 DEF IndInv, TypeOK
    <3>2. pool[p][n].addr = Unwritten
      BY <1>5 DEF IndInv, PoolWriteKnows, WritePoolFd
    <3>. HIDE DEF n
    <3>3. /\ pool'[p] \in Seq(Entry) /\ Len(pool'[p]) = Len(pool[p])
          /\ pool'[p][n].fd = pendFd[i] /\ pool'[p][n].addr = pool[p][n].addr
          /\ \A j \in 1 .. Len(pool[p]) : j # n => pool'[p][j] = pool[p][j]
      BY <2>1, <2>2, <3>1, WriteEntry
    <3>. QED BY <2>1, <2>2, <2>4, <3>1, <3>2, <3>3 DEF IndInv, TypeOK, n
  <2>6. TypeOK'
    BY <1>5, <2>4, <2>5 DEF IndInv, TypeOK, PendingLocs, WritePoolFd
  <2>7. PoolsPrefixComplete' /\ PoolWriteKnows'
    BY <1>5, <2>1, <2>4, <2>5 DEF IndInv, PoolsPrefixComplete, PoolWriteKnows, Complete, WritePoolFd
  <2>. QED BY <2>3, <2>6, <2>7 DEF IndInv
<1>6. CASE WritePoolAddr
  <2>. DEFINE p == PoolOf(role)
              n == Len(pool[p])
  <2>1. p \in Pools /\ pool[p] \in Seq(Entry) /\ n \in 1 .. Len(pool[p])
    BY <1>6, PoolOfPools DEF IndInv, TypeOK, PoolWriteKnows, WritePoolAddr
  <2>2. pendAddr[i] \in Peers /\ pendAddr[i] # Unwritten
    BY <1>6 DEF IndInv, TypeOK, PendingTableSound, PendingCycleKnows, Written, WritePoolAddr
  <2>3. PendingTableSound' /\ ListenerKnows' /\ PendingCycleKnows'
    BY <1>6 DEF IndInv, PendingTableSound, ListenerKnows, PendingCycleKnows, Written, WritePoolAddr
  <2>4. pool' = [pool EXCEPT ![p] = [@ EXCEPT ![n].addr = pendAddr[i]]] /\ ppc' = "post" /\ role' = role
    BY <1>6 DEF WritePoolAddr
  <2>5. /\ pool' \in [Pools -> Seq(Entry)]
        /\ Len(pool'[p]) = n
        /\ Complete(pool'[p][n])
        /\ \A j \in 1 .. n - 1 : pool'[p][j] = pool[p][j]
        /\ \A q \in Pools \ {p} : pool'[q] = pool[q]
    <3>1. pool'[p] = [pool[p] EXCEPT ![n].addr = pendAddr[i]]
          /\ \A q \in Pools \ {p} : pool'[q] = pool[q]
      BY <2>1, <2>4 DEF IndInv, TypeOK
    <3>2. pool[p][n].fd # Unwritten
      BY <1>6 DEF IndInv, PoolWriteKnows, WritePoolAddr
    <3>. HIDE DEF n
    <3>3. /\ pool'[p] \in Seq(Entry) /\ Len(pool'[p]) = Len(pool[p])
          /\ pool'[p][n].addr = pendAddr[i] /\ pool'[p][n].fd = pool[p][n].fd
          /\ \A j \in 1 .. Len(pool[p]) : j # n => pool'[p][j] = pool[p][j]
      BY <2>1, <2>2, <3>1, WriteEntry
    <3>. QED BY <2>1, <2>2, <2>4, <3>1, <3>2, <3>3 DEF IndInv, TypeOK, Complete, n
  <2>6. TypeOK'
    BY <1>6, <2>4, <2>5 DEF IndInv, TypeOK, PendingLocs, WritePoolAddr
  <2>7. PoolsPrefixComplete' /\ PoolWriteKnows'
    <3>1. PoolsPrefixComplete'
      <4>1. ppc = "addr" /\ ppc' = "post" /\ role' = role
        BY <1>6 DEF WritePoolAddr
      <4>2. \A q \in Pools : /\ Len(pool'[q]) = Len(pool[q]) /\ Len(pool'[q]) <= PoolLimit(q)
                             /\ \A k \in 1 .. Len(pool[q]) : Complete(pool[q][k]) => Complete(pool'[q][k])
        <5>. SUFFICES ASSUME NEW q \in Pools
                      PROVE  /\ Len(pool'[q]) = Len(pool[q]) /\ Len(pool'[q]) <= PoolLimit(q)
                             /\ \A k \in 1 .. Len(pool[q]) : Complete(pool[q][k]) => Complete(pool'[q][k])
          OBVIOUS
        <5>1. Len(pool[q]) <= PoolLimit(q)
          BY DEF IndInv, PoolsPrefixComplete
        <5>2. CASE q # p
          <6>1. pool'[q] = pool[q]
            BY <2>5, <5>2
          <6>. QED BY <5>1, <6>1
        <5>3. CASE q = p
          <6>. HIDE DEF p
          <6>1. \A k \in 1 .. n : k = n \/ k \in 1 .. n - 1
            BY <2>1
          <6>. QED BY <2>1, <2>5, <5>1, <5>3, <6>1
        <5>. QED BY <5>2, <5>3
      <4>3. \A q \in Pools : \A k \in 1 .. Len(pool[q]) : Complete(pool'[q][k])
        BY <2>1, <2>4, <2>5, <4>1, <4>2 DEF IndInv, PoolsPrefixComplete
      <4>. QED BY <4>1, <4>2, <4>3 DEF PoolsPrefixComplete, Complete
    <3>2. PoolWriteKnows'
      BY <1>6 DEF PoolWriteKnows, WritePoolAddr
    <3>. QED BY <3>1, <3>2
  <2>. QED BY <2>3, <2>6, <2>7 DEF IndInv
<1>7. CASE PostFirst \/ LoadForDecrement
  <2>. USE DEF PostFirst, LoadForDecrement
  <2>a. posted' \in [Pools -> Nat]
    <3>1. PoolOf(role) \in Pools /\ posted \in [Pools -> Nat]
      BY PoolOfPools DEF IndInv, TypeOK
    <3>2. posted' = posted \/ posted' = [posted EXCEPT ![PoolOf(role)] = posted[PoolOf(role)] + 1]
      BY <1>7 DEF registry
    <3>. HIDE DEF Pools
    <3>. QED BY <3>1, <3>2
  <2>1. TypeOK'
    BY <1>7, <2>a DEF IndInv, TypeOK, PendingLocs
  <2>2. PendingTableSound' /\ ListenerKnows' /\ PendingCycleKnows'
    BY <1>7 DEF IndInv, TypeOK, PendingTableSound, ListenerKnows, PendingCycleKnows, Written
  <2>3. PoolsPrefixComplete' /\ PoolWriteKnows'
    BY <1>7 DEF IndInv, PoolsPrefixComplete, Complete, PoolWriteKnows
  <2>. QED BY <2>1, <2>2, <2>3 DEF IndInv
<1>8. CASE StoreDecrement
  <2>1. TypeOK'
    BY <1>8 DEF IndInv, TypeOK, StoreDecrement, PendingLocs, Roles
  <2>2. pendCount' \in Int /\ pendCount' >= 0 /\ pendCount' < pendCount
    BY <1>8 DEF IndInv, TypeOK, PendingCycleKnows, StoreDecrement
  <2>3. PendingTableSound' /\ ListenerKnows' /\ PendingCycleKnows'
    <3>1. PendingTableSound'
      BY <1>8, <2>2 DEF IndInv, PendingTableSound, Written, StoreDecrement
    <3>2. ListenerKnows'
      <4>1. lpc \in {"fd", "addr", "load"} => pendCount' < PendingLimit
        BY <1>8, <2>2 DEF IndInv, TypeOK, ListenerKnows, StoreDecrement
      <4>2. lpc = "addr" => pendFd[pendCount'] # Unwritten
        BY <1>8, <2>2 DEF IndInv, TypeOK, PendingTableSound, Written, StoreDecrement
      <4>3. lpc = "load" => Written(pendCount')
        BY <1>8, <2>2 DEF IndInv, TypeOK, PendingTableSound, StoreDecrement
      <4>4. lpc = "store" => /\ pendCount' <= lload /\ lload < PendingLimit
                             /\ \A k \in 0 .. lload : Written(k)
        BY <1>8, <2>2 DEF IndInv, TypeOK, ListenerKnows, StoreDecrement
      <4>. QED BY <1>8, <4>1, <4>2, <4>3, <4>4 DEF ListenerKnows, Written, StoreDecrement
    <3>3. PendingCycleKnows'
      BY <1>8 DEF PendingCycleKnows, StoreDecrement
    <3>. QED BY <3>1, <3>2, <3>3
  <2>4. PoolsPrefixComplete' /\ PoolWriteKnows'
    BY <1>8 DEF IndInv, PoolsPrefixComplete, Complete, PoolWriteKnows, StoreDecrement
  <2>. QED BY <2>1, <2>3, <2>4 DEF IndInv
<1>. QED BY <1>1, <1>2, <1>3, <1>4, <1>5, <1>6, <1>7, <1>8 DEF PendingCycle

-----------------------------------------------------------------------------
\* Every interleaving of the two threads keeps the inductive invariant
\* (network.c:117-150, 184-212).
THEOREM Induction == Spec => []IndInv
<1>1. IndInv /\ UNCHANGED vars => IndInv'
  BY DEF vars, shared, registry, listenerVars, pendingVars, IndInv, TypeOK, PendingTableSound,
         ListenerKnows, PendingCycleKnows, PoolsPrefixComplete, PoolWriteKnows, Written, Complete
<1>2. IndInv /\ [Next]_vars => IndInv'
  BY <1>1, ListenerKeeps, PendingCycleKeeps DEF Next
<1>. QED BY InitEstablishes, <1>2, PTL DEF Spec

\* Every variable keeps the type its declaration and use give it, in both
\* threads (network.c:82-215).
THEOREM AdmissionTypes == Spec => []TypeOK
  BY Induction, PTL DEF IndInv

\* pending_count never leaves 0..pending_limit and every entry below it is
\* written, in spite of the updates the two threads lose (network.c:145,
\* 203-210).
THEOREM PendingTableStaysSound == Spec => []PendingTableSound
  BY Induction, PTL DEF IndInv

\* A pool never outgrows its array, and only its last entry is ever half
\* written (network.c:82-115).
THEOREM PoolsStayPrefixComplete == Spec => []PoolsPrefixComplete
  BY Induction, PTL DEF IndInv

\* The listener never writes the entry pending_cycle is working on
\* (network.c:135-141, 208-209).
THEOREM LiveEntryStaysStable == Spec => LiveEntryStable
<1>1. IndInv /\ [Next]_vars => KeepsLiveEntry
  <2>. SUFFICES ASSUME IndInv, [Next]_vars PROVE KeepsLiveEntry
    OBVIOUS
  <2>1. CASE Listener
    <3>1. \/ UNCHANGED <<pendFd, pendAddr>>
          \/ \E x : pendFd' = [pendFd EXCEPT ![pendCount] = x] /\ UNCHANGED pendAddr
          \/ \E x : pendAddr' = [pendAddr EXCEPT ![pendCount] = x] /\ UNCHANGED pendFd
      BY <2>1 DEF Listener, Accept, CheckLimit, StorePendingFd, StorePendingAddr,
                  LoadForIncrement, StoreIncrement, shared
    <3>2. ppc \in {"recv", "enter", "fd", "addr", "close"} => i \in Slots /\ i # pendCount
      BY AdmissionAssumption DEF IndInv, TypeOK, PendingTableSound, PendingCycleKnows, Slots
    <3>. QED BY <3>1, <3>2 DEF KeepsLiveEntry, IndInv, TypeOK
  <2>2. CASE PendingCycle
    BY <2>2 DEF KeepsLiveEntry, PendingCycle, SizePollSet, PollPending, ScanEnd, ScanSkip, ScanTake,
         ReceiveFirst, CloseErrant, EnterPool, WritePoolFd, WritePoolAddr, PostFirst,
         LoadForDecrement, StoreDecrement, shared
  <2>3. CASE UNCHANGED vars
    BY <2>3 DEF KeepsLiveEntry, vars, shared
  <2>. QED BY <2>1, <2>2, <2>3 DEF Next
<1>. QED BY Induction, <1>1, PTL DEF Spec, LiveEntryStable

\* A pool entry that is complete is never moved, changed or removed
\* (network.c:82-115).
THEOREM PoolsStayAppendOnly == Spec => PoolsAppendOnly
<1>1. IndInv /\ [Next]_vars => KeepsComplete
  <2>. SUFFICES ASSUME IndInv, [Next]_vars PROVE KeepsComplete
    OBVIOUS
  <2>. SUFFICES ASSUME NEW q \in Pools, NEW k \in 1 .. Len(pool[q]), Complete(pool[q][k])
                PROVE  k <= Len(pool'[q]) /\ pool'[q][k] = pool[q][k]
    BY DEF KeepsComplete
  <2>. DEFINE p == PoolOf(role)
              n == Len(pool[p])
              e == [fd |-> Unwritten, addr |-> Unwritten]
  <2>b. p \in Pools /\ pool \in [Pools -> Seq(Entry)]
    BY PoolOfPools DEF IndInv, TypeOK
  <2>c. e \in Entry
    BY DEF Entry
  <2>d. \A r \in Pools : pool[r] \in Seq(Entry) /\ Len(pool[r]) \in Nat
    BY <2>b
  <2>a. /\ p \in Pools /\ pool \in [Pools -> Seq(Entry)] /\ e \in Entry
        /\ \A r \in Pools : pool[r] \in Seq(Entry) /\ Len(pool[r]) \in Nat
    <3>. HIDE DEF p, e
    <3>. QED BY <2>b, <2>c, <2>d
  <2>1. CASE EnterPool
    <3>. HIDE DEF e
    <3>1. /\ Len(Append(pool[p], e)) = Len(pool[p]) + 1
          /\ \A j \in 1 .. Len(pool[p]) : Append(pool[p], e)[j] = pool[p][j]
      BY <2>a
    <3>2. pool' = pool \/ pool' = [pool EXCEPT ![p] = Append(@, e)]
      BY <2>1 DEF EnterPool, e
    <3>. HIDE DEF n, p
    <3>3. pool'[q] = pool[q] \/ (q = p /\ pool'[p] = Append(pool[p], e))
      BY <2>a, <3>2
    <3>. QED BY <2>a, <3>1, <3>3
  <2>2. CASE WritePoolFd
    <3>1. n \in 1 .. Len(pool[p]) /\ ~Complete(pool[p][n])
      BY <2>2, <2>a DEF IndInv, PoolWriteKnows, Complete, WritePoolFd
    <3>2. pendFd[i] \in Fds \cup {BadFd, Unwritten}
      BY <2>2, AdmissionAssumption
         DEF IndInv, TypeOK, PendingTableSound, PendingCycleKnows, Slots, WritePoolFd
    <3>3. pool'[p] = [pool[p] EXCEPT ![n].fd = pendFd[i]] /\ \A r \in Pools \ {p} : pool'[r] = pool[r]
      BY <2>2, <2>a DEF WritePoolFd
    <3>. HIDE DEF n
    <3>4. Len(pool'[p]) = Len(pool[p]) /\ \A j \in 1 .. Len(pool[p]) : j # n => pool'[p][j] = pool[p][j]
      BY <2>a, <3>1, <3>2, <3>3, WriteEntry
    <3>. HIDE DEF p
    <3>5. CASE q = p
      BY <2>a, <3>1, <3>4, <3>5
    <3>6. CASE q # p
      BY <2>a, <3>3, <3>6
    <3>. QED BY <3>5, <3>6
  <2>3. CASE WritePoolAddr
    <3>1. n \in 1 .. Len(pool[p]) /\ ~Complete(pool[p][n])
      BY <2>3, <2>a DEF IndInv, PoolWriteKnows, Complete, WritePoolAddr
    <3>2. pendAddr[i] \in Peers \cup {Unwritten}
      BY <2>3, AdmissionAssumption
         DEF IndInv, TypeOK, PendingTableSound, PendingCycleKnows, Slots, WritePoolAddr
    <3>3. pool'[p] = [pool[p] EXCEPT ![n].addr = pendAddr[i]] /\ \A r \in Pools \ {p} : pool'[r] = pool[r]
      BY <2>3, <2>a DEF WritePoolAddr
    <3>. HIDE DEF n
    <3>4. Len(pool'[p]) = Len(pool[p]) /\ \A j \in 1 .. Len(pool[p]) : j # n => pool'[p][j] = pool[p][j]
      BY <2>a, <3>1, <3>2, <3>3, WriteEntry
    <3>. HIDE DEF p
    <3>5. CASE q = p
      BY <2>a, <3>1, <3>4, <3>5
    <3>6. CASE q # p
      BY <2>a, <3>3, <3>6
    <3>. QED BY <3>5, <3>6
  <2>4. CASE UNCHANGED pool
    BY <2>4, <2>a
  <2>. QED BY <2>1, <2>2, <2>3, <2>4 DEF Next, Listener, PendingCycle, Accept, CheckLimit,
         StorePendingFd, StorePendingAddr, LoadForIncrement, StoreIncrement, SizePollSet,
         PollPending, ScanEnd, ScanSkip, ScanTake, ReceiveFirst, CloseErrant, PostFirst,
         LoadForDecrement, StoreDecrement, registry, vars
<1>. QED BY Induction, <1>1, PTL DEF Spec, PoolsAppendOnly

-----------------------------------------------------------------------------
(* Each pool is a ConnectionPool. *)

\* net_init leaves both pools empty, as ConnectionPool starts.
LEMMA PoolsStartEmpty == Init => Neighbours!PoolInit /\ Clients!PoolInit
  BY DEF Init, Neighbours!PoolInit, Clients!PoolInit, Pools, Stage

\* What a step does to a pool p and to the writer's stage in it.
LEMMA PoolSteps ==
  ASSUME IndInv, Next, NEW p \in Pools
  PROVE  \/ pool'[p] = pool[p] /\ Stage(p)' = Stage(p)
         \/ /\ Stage(p) = "idle" /\ Stage(p)' = "fd"
            /\ Len(pool[p]) < PoolLimit(p)
            /\ pool'[p] = Append(pool[p], [fd |-> Unwritten, addr |-> Unwritten])
         \/ /\ Stage(p) = "fd" /\ Stage(p)' = "addr"
            /\ \E fd \in Fds \cup {BadFd} : pool'[p] = [pool[p] EXCEPT ![Len(pool[p])].fd = fd]
         \/ /\ Stage(p) = "addr" /\ Stage(p)' = "idle"
            /\ \E a \in Peers : pool'[p] = [pool[p] EXCEPT ![Len(pool[p])].addr = a]
<1>. USE DEF Stage
<1>0. PoolOf(role) \in Pools /\ pool \in [Pools -> Seq(Entry)]
  BY PoolOfPools DEF IndInv, TypeOK
<1>1. CASE EnterPool
  <2>1. CASE Len(pool[PoolOf(role)]) >= PoolLimit(PoolOf(role))
    BY <1>1, <2>1 DEF EnterPool
  <2>2. CASE ~(Len(pool[PoolOf(role)]) >= PoolLimit(PoolOf(role)))
    <3>1. CASE p = PoolOf(role)
      <4>1. Len(pool[p]) \in Nat /\ PoolLimit(p) \in Nat
        BY <1>0, AdmissionAssumption DEF PoolLimit
      <4>2. Len(pool[p]) < PoolLimit(p)
        BY <2>2, <3>1, <4>1
      <4>. QED BY <1>0, <1>1, <2>2, <3>1, <4>2 DEF EnterPool
    <3>2. CASE p # PoolOf(role)
      BY <1>0, <1>1, <2>2, <3>2 DEF EnterPool
    <3>. QED BY <3>1, <3>2
  <2>. QED BY <2>1, <2>2
<1>2. CASE WritePoolFd
  <2>1. pendFd[i] \in Fds \cup {BadFd}
    BY <1>2, AdmissionAssumption
       DEF IndInv, TypeOK, PendingTableSound, PendingCycleKnows, Written, Slots, WritePoolFd
  <2>2. CASE p = PoolOf(role)
    BY <1>0, <1>2, <2>1, <2>2 DEF WritePoolFd
  <2>3. CASE p # PoolOf(role)
    BY <1>0, <1>2, <2>3 DEF WritePoolFd
  <2>. QED BY <2>2, <2>3
<1>3. CASE WritePoolAddr
  <2>1. pendAddr[i] \in Peers
    BY <1>3, AdmissionAssumption
       DEF IndInv, TypeOK, PendingTableSound, PendingCycleKnows, Written, Slots, WritePoolAddr
  <2>2. CASE p = PoolOf(role)
    BY <1>0, <1>3, <2>1, <2>2 DEF WritePoolAddr
  <2>3. CASE p # PoolOf(role)
    BY <1>0, <1>3, <2>3 DEF WritePoolAddr
  <2>. QED BY <2>2, <2>3
<1>4. CASE Listener
  BY <1>4 DEF Listener, Accept, CheckLimit, StorePendingFd, StorePendingAddr, LoadForIncrement,
              StoreIncrement, registry, pendingVars
<1>5. CASE SizePollSet \/ PollPending \/ ScanEnd \/ ScanSkip \/ ScanTake \/ ReceiveFirst \/ CloseErrant
  BY <1>5 DEF SizePollSet, PollPending, ScanEnd, ScanSkip, ScanTake, ReceiveFirst, CloseErrant, registry, Roles
<1>6. CASE PostFirst \/ LoadForDecrement \/ StoreDecrement
  BY <1>6 DEF PostFirst, LoadForDecrement, StoreDecrement, registry
<1>. QED BY <1>1, <1>2, <1>3, <1>4, <1>5, <1>6 DEF Next, PendingCycle

\* new_neighbour fills the neighbour pool as ConnectionPool says
\* (network.c:82-91, 117-150).
THEOREM NeighbourPoolImplemented == Spec => Neighbours!PoolSpec
<1>1. IndInv /\ [Next]_vars => [Neighbours!PoolNext]_<<pool["neighbours"], Stage("neighbours")>>
  <2>. SUFFICES ASSUME IndInv, [Next]_vars
                PROVE  [Neighbours!PoolNext]_<<pool["neighbours"], Stage("neighbours")>>
    OBVIOUS
  <2>1. CASE Next
    <3>1. "neighbours" \in Pools /\ PoolLimit("neighbours") = NeighbourLimit
      BY DEF Pools, PoolLimit
    <3>. QED BY <2>1, <3>1, PoolSteps DEF Neighbours!PoolNext, Neighbours!Enter, Neighbours!NewEntry,
                Neighbours!WriteFd, Neighbours!WriteAddr
  <2>2. CASE UNCHANGED vars
    BY <2>2 DEF vars, registry, pendingVars, Stage
  <2>. QED BY <2>1, <2>2
<1>. QED BY PoolsStartEmpty, Induction, <1>1, PTL
     DEF Spec, Neighbours!PoolSpec

\* new_client fills the client pool as ConnectionPool says
\* (network.c:100-108, 117-150).
THEOREM ClientPoolImplemented == Spec => Clients!PoolSpec
<1>1. IndInv /\ [Next]_vars => [Clients!PoolNext]_<<pool["clients"], Stage("clients")>>
  <2>. SUFFICES ASSUME IndInv, [Next]_vars
                PROVE  [Clients!PoolNext]_<<pool["clients"], Stage("clients")>>
    OBVIOUS
  <2>1. CASE Next
    <3>1. "clients" \in Pools /\ PoolLimit("clients") = ClientLimit
      BY DEF Pools, PoolLimit
    <3>. QED BY <2>1, <3>1, PoolSteps DEF Clients!PoolNext, Clients!Enter, Clients!NewEntry,
                Clients!WriteFd, Clients!WriteAddr
  <2>2. CASE UNCHANGED vars
    BY <2>2 DEF vars, registry, pendingVars, Stage
  <2>. QED BY <2>1, <2>2
<1>. QED BY PoolsStartEmpty, Induction, <1>1, PTL DEF Spec, Clients!PoolSpec

\* Both pools that Admission fills are ConnectionPools, for every number of
\* connections and every limit (network.c:82-112).
THEOREM PoolsImplemented == Spec => PoolContracts
  BY NeighbourPoolImplemented, ClientPoolImplemented DEF PoolContracts
=============================================================================
