---------------------------- MODULE JobQueueProofs ----------------------------
(***************************************************************************)
(* What the mutex `interrupt` gives main, for any number of workers: the   *)
(* gate is shut from the moment main holds it, and only a worker already   *)
(* through has a turn left.                                                *)
(***************************************************************************)
EXTENDS JobQueue, TLAPS

\* A worker in the gate owns the mutex; one that has begun a turn since main
\* took it is in that turn or back at the gate.
GateInv ==
  /\ wpc \in [Workers -> {"gate", "release", "turn", "read"}]
  /\ turns \in [Workers -> Nat]
  /\ \A w \in Workers : wpc[w] = "release" => interrupt = w
  /\ interrupt = Main =>
       \A w \in Workers :
         /\ turns[w] <= 1
         /\ wpc[w] = "turn" => turns[w] = 0

\* All workers start at the gate and nobody holds the mutex.
LEMMA GateInvInitially == Init => GateInv
  BY JobQueueAssumption DEF Init, GateInv

\* The workers and main keep it; the schedulers and job_add do not touch it.
LEMMA GateInvKept == GateInv /\ [Next]_vars => GateInv'
<1>. SUFFICES ASSUME GateInv, [Next]_vars PROVE GateInv'
  OBVIOUS
<1>. USE JobQueueAssumption DEF GateInv, Goto
<1>1. ASSUME NEW w \in Workers, PassGate(w) PROVE GateInv'
  BY <1>1 DEF PassGate
<1>2. ASSUME NEW w \in Workers, ReleaseGate(w) PROVE GateInv'
  BY <1>2 DEF ReleaseGate
<1>3. ASSUME NEW w \in Workers, LockRead(w) PROVE GateInv'
  BY <1>3 DEF LockRead
<1>4. ASSUME NEW w \in Workers, UnlockRead(w) PROVE GateInv'
  BY <1>4 DEF UnlockRead
<1>5. CASE LockInterrupt
  BY <1>5 DEF LockInterrupt
<1>6. CASE UNCHANGED <<interrupt, wpc, turns>>
  BY <1>6
<1>7. ASSUME NEW s \in Schedulers, Scheduler(s) PROVE UNCHANGED <<interrupt, wpc, turns>>
  BY <1>7 DEF Scheduler, Schedule, SeekOn, SeekFound, StoreWhen, StoreJob, LoadCount, StoreCount,
              workerVars
<1>8. CASE JobAdd \/ Awake \/ ScanEnd \/ ScanNotDue \/ ScanDue \/ ClearSlot
  BY <1>6, <1>8 DEF JobAdd, Awake, ScanEnd, ScanNotDue, ScanDue, ClearSlot, workerVars
<1>9. CASE UNCHANGED vars
  BY <1>6, <1>9 DEF vars, workerVars
<1>. QED BY <1>1, <1>2, <1>3, <1>4, <1>5, <1>6, <1>7, <1>8, <1>9 DEF Next, Worker, MainLoop

\* Once main holds the mutex no worker begins more than the one turn it was
\* let into before (job.c:28-33, 95).
THEOREM InterruptAlwaysStopsTurns == Spec => []InterruptStopsTurns
<1>1. GateInv => InterruptStopsTurns
  BY DEF GateInv, InterruptStopsTurns
<1>. QED BY GateInvInitially, GateInvKept, <1>1, PTL DEF Spec
-----------------------------------------------------------------------------
(* Types. *)

\* Every step of main and of the schedulers keeps the types.
LEMMA TypesKept == TypeOK /\ [Next]_vars => TypeOK'
<1>. SUFFICES ASSUME TypeOK, [Next]_vars PROVE TypeOK'
  OBVIOUS
<1>. USE JobQueueAssumption DEF TypeOK, Goto, Move, Queued
<1>1. CASE UNCHANGED vars
  BY <1>1 DEF vars, workerVars, mainVars, tableVars, schedulerVars
<1>2. CASE JobAdd
  BY <1>2 DEF JobAdd, workerVars, mainVars, tableVars, schedulerVars
<1>3. ASSUME NEW w \in Workers, Worker(w) PROVE TypeOK'
  <2>1. CASE PassGate(w)
    BY <2>1 DEF PassGate, mainVars, tableVars, schedulerVars
  <2>2. CASE ReleaseGate(w)
    BY <2>2 DEF ReleaseGate, mainVars, tableVars, schedulerVars
  <2>3. CASE LockRead(w)
    BY <2>3 DEF LockRead, mainVars, tableVars, schedulerVars
  <2>4. CASE UnlockRead(w)
    BY <2>4 DEF UnlockRead, mainVars, tableVars, schedulerVars
  <2>. QED BY <1>3, <2>1, <2>2, <2>3, <2>4 DEF Worker
<1>4. CASE MainLoop
  <2>1. CASE Awake \/ ScanEnd \/ ScanNotDue
    BY <2>1 DEF Awake, ScanEnd, ScanNotDue, workerVars, tableVars, schedulerVars
  <2>2. CASE LockInterrupt
    BY <2>2 DEF LockInterrupt, tableVars, schedulerVars
  <2>3. CASE ScanDue
    BY <2>3 DEF ScanDue, workerVars, tableVars, schedulerVars
  <2>4. CASE ClearSlot
    BY <2>4 DEF ClearSlot, workerVars, schedulerVars
  <2>. QED BY <1>4, <2>1, <2>2, <2>3, <2>4 DEF MainLoop
<1>5. ASSUME NEW s \in Schedulers, Scheduler(s) PROVE TypeOK'
  <2>1. CASE Schedule(s)
    BY <2>1 DEF Schedule, workerVars, mainVars, tableVars
  <2>2. CASE SeekOn(s)
    <3>1. CASE k[s] \in Slots
      <4>1. k[s] + 1 \in 0 .. ScheduledMax
        BY <3>1 DEF Slots
      <4>2. k' = [k EXCEPT ![s] = k[s] + 1] /\ spc' = spc
        BY <2>2, <3>1 DEF SeekOn
      <4>3. k' \in [Schedulers -> 0 .. ScheduledMax]
        BY <4>1, <4>2
      <4>. QED BY <2>2, <4>2, <4>3 DEF SeekOn, workerVars, mainVars, tableVars
    <3>2. CASE k[s] \notin Slots
      BY <2>2, <3>2 DEF SeekOn, workerVars, mainVars, tableVars
    <3>. QED BY <3>1, <3>2
  <2>3. CASE SeekFound(s)
    BY <2>3 DEF SeekFound, workerVars, mainVars, tableVars
  <2>4. CASE StoreWhen(s)
    BY <2>4 DEF StoreWhen, workerVars, mainVars
  <2>5. CASE StoreJob(s)
    BY <2>5 DEF StoreJob, workerVars, mainVars
  <2>6. CASE LoadCount(s)
    BY <2>6 DEF LoadCount, workerVars, mainVars, tableVars
  <2>7. CASE StoreCount(s)
    BY <2>7 DEF StoreCount, workerVars, mainVars
  <2>. QED BY <1>5, <2>1, <2>2, <2>3, <2>4, <2>5, <2>6, <2>7 DEF Scheduler
<1>. QED BY <1>1, <1>2, <1>3, <1>4, <1>5 DEF Next

\* Every variable keeps its type, whatever the threads do to the table.
THEOREM TypeCorrect == Spec => []TypeOK
<1>1. Init => TypeOK
  BY JobQueueAssumption DEF Init, TypeOK
<1>. QED BY <1>1, TypesKept, PTL DEF Spec
=============================================================================
