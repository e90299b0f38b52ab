------------------------------- MODULE JobQueue -------------------------------
(***************************************************************************)
(* The job queue (server/job.c) and the main loop that interrupts it       *)
(* (server/main.c).                                                        *)
(*                                                                         *)
(* The workers take turns reading jobs from the queue's descriptor; before *)
(* each turn they pass the mutex `interrupt`.  main takes that mutex every *)
(* period and moves the scheduled jobs that are due to the queue.  Threads *)
(* that call job_schedule work on the table of scheduled jobs without a    *)
(* lock, so each of their accesses to it is a step.                        *)
(***************************************************************************)
EXTENDS Integers, FiniteSets

CONSTANTS
  Workers,       \* state.queue.threads
  Schedulers,    \* threads in job_schedule; each schedules a job of its own
  ScheduledMax,  \* state.queue.scheduled_max
  MaxQueued,     \* bound: jobs counted in the queue
  Main, Free,    \* as owners of a mutex: the main thread, and nobody
  Junk,          \* a job that is memory as malloc left it
  None           \* no job

ASSUME JobQueueAssumption ==
  /\ ScheduledMax \in Nat /\ MaxQueued \in Nat /\ IsFiniteSet(Schedulers)
  /\ Main \notin Workers /\ Free \notin Workers \cup {Main}
  /\ Junk \notin Schedulers /\ None \notin Schedulers \cup {Junk}

VARIABLES
  interrupt, readlock,  \* owners of the mutexes
  queued,     \* jobs in the queue
  wpc,        \* workers: location
  turns,      \* workers: turns begun since main took `interrupt`
  mpc, i,     \* main: location, index
  written,    \* the last scheduled job main moved to the queue
  due, jobs,  \* scheduled[k].when # 0, scheduled[k].j
  count,      \* scheduled_count
  spc, k, load   \* schedulers: location, index, register

workerVars == <<readlock, wpc, turns>>
mainVars == <<mpc, i, written>>
tableVars == <<due, jobs, count>>
schedulerVars == <<spc, k, load>>
vars == <<interrupt, queued, workerVars, mainVars, tableVars, schedulerVars>>

Slots == 0 .. ScheduledMax - 1

\* job_queue_init.  malloc leaves `when` and `j` of the slots as they are.
Init ==
  /\ interrupt = Free /\ readlock = Free
  /\ queued = 0
  /\ wpc = [w \in Workers |-> "gate"] /\ turns = [w \in Workers |-> 0]
  /\ mpc = "sleep" /\ i = 0 /\ written = None
  /\ due \in [Slots -> BOOLEAN] /\ jobs = [n \in Slots |-> Junk]
  /\ count = 0
  /\ spc = [s \in Schedulers |-> "idle"]
  /\ k = [s \in Schedulers |-> 0] /\ load = [s \in Schedulers |-> 0]

-----------------------------------------------------------------------------
(* job_add, called by the network threads.  The descriptor the queue writes *)
(* is the result of mkfifo, not an open fifo; it is taken to keep jobs.     *)

Queued == IF queued < MaxQueued THEN queued + 1 ELSE queued

JobAdd ==
  /\ queued' = Queued
  /\ UNCHANGED <<interrupt, workerVars, mainVars, tableVars, schedulerVars>>

-----------------------------------------------------------------------------
(* job_thread and job_read. *)

Goto(w, there) == wpc' = [wpc EXCEPT ![w] = there]

PassGate_Unlocked(w) ==
  /\ wpc[w] = "gate"
  /\ Goto(w, "turn")
  /\ UNCHANGED <<interrupt, queued, readlock, turns, mainVars, tableVars, schedulerVars>>

PassGate(w) ==
  /\ wpc[w] = "gate"
  /\ interrupt = Free
  /\ interrupt' = w
  /\ Goto(w, "release")
  /\ UNCHANGED <<queued, readlock, turns, mainVars, tableVars, schedulerVars>>

ReleaseGate(w) ==
  /\ wpc[w] = "release"
  /\ interrupt' = Free
  /\ Goto(w, "turn")
  /\ UNCHANGED <<queued, readlock, turns, mainVars, tableVars, schedulerVars>>

LockRead(w) ==
  /\ wpc[w] = "turn"
  /\ readlock = Free
  /\ readlock' = w
  /\ turns' = [turns EXCEPT ![w] = IF interrupt = Main THEN @ + 1 ELSE 0]
  /\ Goto(w, "read")
  /\ UNCHANGED <<interrupt, queued, mainVars, tableVars, schedulerVars>>

\* wait_read, and read(fifo, j, sizeof(job)) if it is ready.  j is the null
\* pointer: read fails with EFAULT and takes nothing, and with j still null
\* the worker has nothing to dispatch.
UnlockRead_Kept(w) ==
  /\ wpc[w] = "read"
  /\ Goto(w, "gate")
  /\ UNCHANGED <<readlock, interrupt, queued, turns, mainVars, tableVars, schedulerVars>>

UnlockRead(w) ==
  /\ wpc[w] = "read"
  /\ readlock' = Free
  /\ Goto(w, "gate")
  /\ UNCHANGED <<interrupt, queued, turns, mainVars, tableVars, schedulerVars>>

Worker(w) == PassGate(w) \/ ReleaseGate(w) \/ LockRead(w) \/ UnlockRead(w)

-----------------------------------------------------------------------------
(* job_interrupt, in the loop of main. *)

Awake ==
  /\ mpc = "sleep"
  /\ mpc' = "lock"
  /\ UNCHANGED <<interrupt, queued, workerVars, i, written, tableVars, schedulerVars>>

\* The mutex is never unlocked: the second time main waits for itself.
LockInterrupt ==
  /\ mpc = "lock"
  /\ interrupt = Free
  /\ interrupt' = Main
  /\ turns' = [w \in Workers |-> 0]
  /\ mpc' = "scan"
  /\ i' = 0
  /\ UNCHANGED <<queued, readlock, wpc, written, tableVars, schedulerVars>>

\* i < scheduled_count; when == 0; when > c.tv_sec, where c is uninitialised,
\* so a slot in use may or may not be due.  The count can exceed the table:
\* then the memory behind it decides.
ScanEnd ==
  /\ mpc = "scan"
  /\ i >= count
  /\ mpc' = "sleep"
  /\ UNCHANGED <<interrupt, queued, workerVars, i, written, tableVars, schedulerVars>>

ScanNotDue ==
  /\ mpc = "scan"
  /\ i < count
  /\ i' = i + 1
  /\ UNCHANGED <<interrupt, queued, workerVars, mpc, written, tableVars, schedulerVars>>

ScanDue ==
  /\ mpc = "scan"
  /\ i < count
  /\ i \in Slots => due[i]
  /\ written' = IF i \in Slots THEN jobs[i] ELSE Junk
  /\ queued' = Queued
  /\ mpc' = "clear"
  /\ UNCHANGED <<interrupt, workerVars, i, tableVars, schedulerVars>>

ClearSlot ==
  /\ mpc = "clear"
  /\ due' = [n \in Slots |-> due[n] /\ n # i]
  /\ i' = i + 1
  /\ mpc' = "scan"
  /\ UNCHANGED <<interrupt, queued, workerVars, written, jobs, count, schedulerVars>>

MainLoop == Awake \/ LockInterrupt \/ ScanEnd \/ ScanNotDue \/ ScanDue \/ ClearSlot

-----------------------------------------------------------------------------
(* job_schedule. *)

Move(s, there) == spc' = [spc EXCEPT ![s] = there]

\* scheduled_count >= scheduled_max: return.
Schedule_Unlimited(s) ==
  /\ spc[s] = "idle"
  /\ k' = [k EXCEPT ![s] = 0]
  /\ Move(s, "seek")
  /\ UNCHANGED <<interrupt, queued, workerVars, mainVars, tableVars, load>>

Schedule(s) ==
  /\ spc[s] = "idle"
  /\ count < ScheduledMax
  /\ k' = [k EXCEPT ![s] = 0]
  /\ Move(s, "seek")
  /\ UNCHANGED <<interrupt, queued, workerVars, mainVars, tableVars, load>>

\* The next slot, or none left: the job is dropped.
SeekOn(s) ==
  /\ spc[s] = "seek"
  /\ IF k[s] \in Slots
       THEN /\ due[k[s]]
            /\ k' = [k EXCEPT ![s] = @ + 1]
            /\ UNCHANGED spc
       ELSE Move(s, "idle") /\ UNCHANGED k
  /\ UNCHANGED <<interrupt, queued, workerVars, mainVars, tableVars, load>>

\* scheduled[i].when == 0
SeekFound(s) ==
  /\ spc[s] = "seek"
  /\ k[s] \in Slots
  /\ ~due[k[s]]
  /\ Move(s, "when")
  /\ UNCHANGED <<interrupt, queued, workerVars, mainVars, tableVars, k, load>>

\* when = c.tv_sec + delay, of an uninitialised c: it can come out as 0.
StoreWhen(s) ==
  /\ spc[s] = "when"
  /\ \E d \in BOOLEAN : due' = [due EXCEPT ![k[s]] = d]
  /\ Move(s, "job")
  /\ UNCHANGED <<interrupt, queued, workerVars, mainVars, jobs, count, k, load>>

StoreJob(s) ==
  /\ spc[s] = "job"
  /\ jobs' = [jobs EXCEPT ![k[s]] = s]
  /\ Move(s, "load")
  /\ UNCHANGED <<interrupt, queued, workerVars, mainVars, due, count, k, load>>

\* scheduled_count += 1
LoadCount(s) ==
  /\ spc[s] = "load"
  /\ load' = [load EXCEPT ![s] = count]
  /\ Move(s, "store")
  /\ UNCHANGED <<interrupt, queued, workerVars, mainVars, tableVars, k>>

StoreCount_Down(s) ==
  /\ spc[s] = "store"
  /\ count' = load[s] - 1
  /\ load' = [load EXCEPT ![s] = 0]
  /\ Move(s, "idle")
  /\ UNCHANGED <<interrupt, queued, workerVars, mainVars, due, jobs, k>>

StoreCount(s) ==
  /\ spc[s] = "store"
  /\ count' = load[s] + 1
  /\ load' = [load EXCEPT ![s] = 0]
  /\ Move(s, "idle")
  /\ UNCHANGED <<interrupt, queued, workerVars, mainVars, due, jobs, k>>

Scheduler(s) ==
  \/ Schedule(s) \/ SeekOn(s) \/ SeekFound(s) \/ StoreWhen(s) \/ StoreJob(s)
  \/ LoadCount(s) \/ StoreCount(s)

-----------------------------------------------------------------------------
Next ==
  \/ JobAdd
  \/ \E w \in Workers : Worker(w)
  \/ MainLoop
  \/ \E s \in Schedulers : Scheduler(s)

Spec == Init /\ [][Next]_vars

\* The kernel runs every worker and main.  Mutexes are not granted in turn:
\* a thread that waits gets one only when it stays free.
FairSpec ==
  /\ Spec
  /\ \A w \in Workers : WF_vars(Worker(w))
  /\ WF_vars(MainLoop)

\* For the statement the code does not keep: not even mutexes granted in
\* turn make it keep it.
FairMutexSpec ==
  /\ FairSpec
  /\ \A w \in Workers : SF_vars(PassGate(w)) /\ SF_vars(LockRead(w))
  /\ SF_vars(LockInterrupt)

-----------------------------------------------------------------------------
(* Properties. *)

TypeOK ==
  /\ interrupt \in Workers \cup {Main, Free}
  /\ readlock \in Workers \cup {Free}
  /\ queued \in 0 .. MaxQueued
  /\ wpc \in [Workers -> {"gate", "release", "turn", "read"}]
  /\ turns \in [Workers -> Nat]
  /\ mpc \in {"sleep", "lock", "scan", "clear"} /\ i \in Nat
  /\ written \in Schedulers \cup {Junk, None}
  /\ due \in [Slots -> BOOLEAN] /\ jobs \in [Slots -> Schedulers \cup {Junk}]
  /\ count \in Nat
  /\ spc \in [Schedulers -> {"idle", "seek", "when", "job", "load", "store"}]
  /\ k \in [Schedulers -> 0 .. ScheduledMax] /\ load \in [Schedulers -> Nat]

\* Once main holds `interrupt` each worker finishes at most the turn it was
\* let into before, and begins none after it (job.c:28-33, 95).
InterruptStopsTurns == interrupt = Main => \A w \in Workers : turns[w] <= 1

\* ... and that holds for all of them before long: the interrupt finds the
\* pool at rest, waiting at the gate (job.c:28-33, 95).
InterruptQuiesces == interrupt = Main ~> \A w \in Workers : wpc[w] = "gate"

\* The check of scheduled_count and its increment are apart, so two threads
\* that schedule together push it past the table, and job_interrupt with it,
\* by one and no more; the lost updates do not add up.  With three they do: a
\* thread that stores an old count lets the others in again (job.c:114, 126, 102).
ScheduledCountBounded ==
  Cardinality(Schedulers) <= 2 => count <= ScheduledMax + 1

-----------------------------------------------------------------------------
(* A statement of a comment that the code does not keep. *)

\* job.c:29 "block if interrupted": a worker blocks while there is an
\* interrupt, which ends when main sleeps again.
WorkersResume ==
  \A w \in Workers : wpc[w] = "gate" /\ mpc = "sleep" ~> wpc[w] = "turn"
=============================================================================
