---------------------------- MODULE NeighbourCycle ----------------------------
(***************************************************************************)
(* The neighbour_cycle thread (server/network.c): it builds a poll set     *)
(* from the neighbour pool, polls it, receives from each descriptor that   *)
(* is ready and hands the packet to the job queue under the address the    *)
(* pool files the descriptor under.                                        *)
(*                                                                         *)
(* The pool is a ConnectionPool that pending_cycle goes on filling without *)
(* a lock: connections_count is read again for the length of fds, for each *)
(* turn of the fill loop, for poll and for each turn of the scan.          *)
(*                                                                         *)
(* pending_cycle counts a handled entry away but leaves it in its place,   *)
(* so with two entries pending it handles the first one again and drops    *)
(* the second: it goes on receiving on a descriptor that is in the pool,   *)
(* and closes it at a message of role iface.  The kernel then gives the    *)
(* number to another connection, under the old entry of the pool.          *)
(***************************************************************************)
EXTENDS ConnectionPool

CONSTANTS
  NoFd,       \* -1
  MaxReuse    \* bound: how often a number is given to another connection

ASSUME NeighbourCycleAssumption ==
  /\ Limit \in Nat /\ MaxReuse \in Nat
  /\ NoFd \in Descriptors
  /\ Unwritten \notin Descriptors \cup Addresses

Fds == Descriptors \ {NoFd}

VARIABLES
  data,     \* descriptors with a message waiting
  hungUp,   \* descriptors whose peer has closed the connection
  closed,   \* descriptors this process has closed
  conn,     \* the connection behind a descriptor, counted from 0
  filed,    \* per entry, the connection its descriptor had when it was written
  npc,      \* location; "undefined" once memory outside fds has been used
  length,   \* length of the array fds
  fds,      \* fds[0..k-1].fd, as far as the fill loop came
  ready,    \* indices poll marked POLLIN
  turn,     \* index of the scan
  packet,   \* the connection packet_job.packet came from
  job       \* the packet_job last handed over in this turn of the loop

poolVars == <<entries, stage>>
kernel == <<data, hungUp, closed, conn>>
threadVars == <<npc, length, fds, ready, turn, packet>>
vars == <<poolVars, filed, kernel, threadVars, job>>

\* index and polled: the turn, and fds[i].fd; source: where the packet came from
NoJob == [index |-> -1, polled |-> NoFd, source |-> Unwritten, origin |-> Unwritten]

Init ==
  /\ PoolInit
  /\ filed = [k \in 1 .. Limit |-> 0]
  /\ data = {} /\ hungUp = {} /\ closed = {} /\ conn = [f \in Fds |-> 0]
  /\ npc = "size" /\ length = 0 /\ fds = <<>> /\ ready = {} /\ turn = 0 /\ packet = Unwritten
  /\ job = NoJob

-----------------------------------------------------------------------------
(* The other threads and the peers. *)

PoolGrows ==
  /\ PoolNext
  /\ LET f == entries'[Len(entries)].fd IN
       filed' = IF stage = "fd" /\ f \in Fds THEN [filed EXCEPT ![Len(entries)] = conn[f]] ELSE filed
  /\ UNCHANGED <<kernel, threadVars, job>>

\* A message arrives on a descriptor of the process.
Arrive ==
  /\ \E f \in Fds \ (data \cup hungUp \cup closed) : data' = data \cup {f}
  /\ UNCHANGED <<poolVars, filed, hungUp, closed, conn, threadVars, job>>

\* A peer closes its connection; what it sent before can still be read.
HangUp ==
  /\ \E f \in Fds \ (hungUp \cup closed) : hungUp' = hungUp \cup {f}
  /\ UNCHANGED <<poolVars, filed, data, closed, conn, threadVars, job>>

\* pending_cycle receives on a connection that has already entered the pool.
Steal ==
  /\ \E f \in data : data' = data \ {f}
  /\ UNCHANGED <<poolVars, filed, hungUp, closed, conn, threadVars, job>>

\* pending_cycle closes it, at a message of role iface.
Close ==
  /\ \E f \in Fds \ closed :
       /\ closed' = closed \cup {f}
       /\ data' = data \ {f}
       /\ hungUp' = hungUp \ {f}
  /\ UNCHANGED <<poolVars, filed, conn, threadVars, job>>

\* accept gives the listener a number that is free again.
Reuse ==
  /\ \E f \in closed :
       /\ conn[f] < MaxReuse
       /\ closed' = closed \ {f}
       /\ conn' = [conn EXCEPT ![f] = @ + 1]
  /\ UNCHANGED <<poolVars, filed, data, hungUp, threadVars, job>>

-----------------------------------------------------------------------------
(* The thread. *)

\* struct pollfd fds[connections_count]
Size ==
  /\ npc = "size"
  /\ length' = Len(entries)
  /\ npc' = "fill"
  /\ UNCHANGED <<poolVars, filed, kernel, fds, ready, turn, packet, job>>

\* fds goes out of scope at the end of the loop's body; packet_job stays.
Again ==
  /\ length' = 0 /\ fds' = <<>> /\ ready' = {} /\ turn' = 0 /\ job' = NoJob
  /\ npc' = "size"
  /\ UNCHANGED <<poolVars, filed, kernel, packet>>

\* fds[i].fd = connections[i].fd while i is below the count of that moment.
\* An entry past the length of fds overwrites the stack.
Fill_First ==
  /\ npc = "fill"
  /\ Len(fds) < Len(entries)
  /\ IF Len(fds) < length
       THEN fds' = Append(fds, entries[1].fd) /\ UNCHANGED npc
       ELSE npc' = "undefined" /\ UNCHANGED fds
  /\ UNCHANGED <<poolVars, filed, kernel, length, ready, turn, packet, job>>

Fill ==
  /\ npc = "fill"
  /\ Len(fds) < Len(entries)
  /\ IF Len(fds) < length
       THEN fds' = Append(fds, entries[Len(fds) + 1].fd) /\ UNCHANGED npc
       ELSE npc' = "undefined" /\ UNCHANGED fds
  /\ UNCHANGED <<poolVars, filed, kernel, length, ready, turn, packet, job>>

FillEnd ==
  /\ npc = "fill"
  /\ Len(fds) >= Len(entries)
  /\ npc' = "poll"
  /\ UNCHANGED <<poolVars, filed, kernel, length, fds, ready, turn, packet, job>>

\* poll reports every descriptor with a message or whose peer is gone, but not
\* as POLLIN one that is closed.  It is given the count of this moment: when
\* the pool has grown it uses memory behind fds.  An entry filled before its fd
\* was written holds an arbitrary number, for which any report is possible.
Reports(k) ==
  IF fds[k] = Unwritten THEN BOOLEAN ELSE {fds[k] \in data \cup hungUp}

Poll ==
  /\ npc = "poll"
  /\ Len(entries) <= length
  /\ \E R \in SUBSET (1 .. Len(fds)) :
       /\ \A k \in 1 .. Len(fds) : (k \in R) \in Reports(k)
       /\ R # {}
       /\ ready' = R
  /\ npc' = "scan"
  /\ UNCHANGED <<poolVars, filed, kernel, length, fds, turn, packet, job>>

PollNone ==
  /\ npc = "poll"
  /\ Len(entries) <= length
  /\ \A k \in 1 .. Len(fds) : FALSE \in Reports(k)
  /\ Again

PollPast ==
  /\ npc = "poll"
  /\ Len(entries) > length
  /\ npc' = "undefined"
  /\ UNCHANGED <<poolVars, filed, kernel, length, fds, ready, turn, packet, job>>

\* i < connections_count, then fds[i].revents.
ScanEnd_Early == npc = "scan" /\ turn + 1 >= Len(entries) /\ Again

ScanEnd == npc = "scan" /\ turn >= Len(entries) /\ Again

ScanSkip_Unbounded ==
  /\ npc = "scan"
  /\ turn < Len(entries)
  /\ turn + 1 \notin ready
  /\ turn' = turn + 1
  /\ UNCHANGED <<poolVars, filed, kernel, npc, length, fds, ready, packet, job>>

ScanSkip ==
  /\ npc = "scan"
  /\ turn < Len(entries)
  /\ turn < length
  /\ turn + 1 \notin ready
  /\ turn' = turn + 1
  /\ UNCHANGED <<poolVars, filed, kernel, npc, length, fds, ready, packet, job>>

ScanTake ==
  /\ npc = "scan"
  /\ turn < Len(entries)
  /\ turn + 1 \in ready \/ turn >= length
  /\ npc' = IF turn < length THEN "recv" ELSE "undefined"
  /\ UNCHANGED <<poolVars, filed, kernel, length, fds, ready, turn, packet, job>>

\* recv(fds[i].fd, ...) blocks on an open connection without a message.  Its
\* result is not tested: at the end of the stream, or on a number that is no
\* open descriptor, packet keeps the message of an earlier turn.  An unwritten
\* number may happen to be that of any open descriptor.
Recv ==
  /\ npc = "recv"
  /\ LET f == fds[turn + 1] IN
       \/ /\ f \in hungUp \ data \/ f \in closed \cup {Unwritten}
          /\ UNCHANGED <<packet, data>>
       \/ \E g \in data :
            /\ g = f \/ f = Unwritten
            /\ packet' = [fd |-> g, conn |-> conn[g]]
            /\ data' = data \ {g}
  /\ npc' = "post"
  /\ UNCHANGED <<poolVars, filed, hungUp, closed, conn, length, fds, ready, turn, job>>

\* packet_job.origin = connections[i].addr; job_add(packet_job)
Post_Previous ==
  /\ npc = "post"
  /\ job' = [index |-> turn + 1, polled |-> fds[turn + 1], source |-> packet,
             origin |-> entries[IF turn > 0 THEN turn ELSE 1].addr]
  /\ turn' = turn + 1
  /\ npc' = "scan"
  /\ UNCHANGED <<poolVars, filed, kernel, length, fds, ready, packet>>

Post ==
  /\ npc = "post"
  /\ job' = [index |-> turn + 1, polled |-> fds[turn + 1], source |-> packet,
             origin |-> entries[turn + 1].addr]
  /\ turn' = turn + 1
  /\ npc' = "scan"
  /\ UNCHANGED <<poolVars, filed, kernel, length, fds, ready, packet>>

Cycle == Size \/ Fill \/ FillEnd \/ Poll \/ PollNone \/ PollPast \/ ScanEnd \/ ScanSkip \/ ScanTake \/ Recv \/ Post

\* Undefined behaviour of this thread ends the process.
Next ==
  /\ npc # "undefined"
  /\ PoolGrows \/ Arrive \/ HangUp \/ Steal \/ Close \/ Reuse \/ Cycle

Spec == Init /\ [][Next]_vars

\* The kernel schedules the thread, and poll returns within 100 ms.
FairSpec == Spec /\ WF_vars(npc # "undefined" /\ Cycle)

-----------------------------------------------------------------------------
(* Properties. *)

Packets == [fd : Fds, conn : 0 .. MaxReuse]

TypeOK ==
  /\ entries \in Seq([fd : Descriptors \cup {Unwritten}, addr : Addresses \cup {Unwritten}])
  /\ stage \in {"idle", "fd", "addr"}
  /\ filed \in [1 .. Limit -> 0 .. MaxReuse]
  /\ data \subseteq Fds /\ hungUp \subseteq Fds /\ closed \subseteq Fds
  /\ conn \in [Fds -> 0 .. MaxReuse]
  /\ npc \in {"size", "fill", "poll", "scan", "recv", "post", "undefined"}
  /\ length \in 0 .. Limit
  /\ fds \in Seq(Descriptors \cup {Unwritten}) /\ Len(fds) <= length
  /\ ready \subseteq 1 .. Len(fds)
  /\ turn \in 0 .. length
  /\ packet \in Packets \cup {Unwritten}

\* The copy the thread polls never goes stale: a descriptor in it is the one
\* the pool still files under that index, although the pool grew and was
\* written since.  The table pending_cycle polls has no such property
\* (network.c:61-65, 88-91, 121-125).
SnapshotCurrent ==
  \A k \in 1 .. Len(fds) :
    k <= Len(entries) /\ (fds[k] # Unwritten => fds[k] = entries[k].fd)

\* The source of a packet is the connection entry k was written for, or number
\* f of the entry is at the end of its stream, or not that connection's any more.
Attributed(source, f, k) ==
  \/ source = [fd |-> f, conn |-> filed[k]]
  \/ f \in hungUp \cup closed
  \/ f \in Fds /\ conn[f] > filed[k]

\* A packet is handed over under the entry of the connection it was read from.
\* It goes wrong in four ways only: recv found the end of the stream, or the
\* descriptor closed, and hands an earlier packet over again; the number was
\* closed by pending_cycle and belongs to another connection now; the fd polled
\* had not been written; or new_neighbour is yet to write addr
\* (network.c:69-73, 90-91, 128-145).
JobsAttributed ==
  job # NoJob /\ job.polled # Unwritten =>
    /\ job.polled = entries[job.index].fd
    /\ Attributed(job.source, job.polled, job.index)
    /\ job.origin # Unwritten => job.origin = entries[job.index].addr

\* In recv with nothing to receive: the message was taken by another recv, or
\* the descriptor is not open, perhaps since it waits there.
Blocked == npc = "recv" /\ fds[turn + 1] \notin data \cup hungUp

\* A message on a connection of the pool is received, unless the thread comes
\* to a recv that need not return, or the pool grows under it and takes the
\* process down (network.c:57-77).
DataServed ==
  \A f \in Fds :
    f \in data /\ (\E k \in 1 .. Len(entries) : entries[k].fd = f)
      ~> f \notin data \/ Blocked \/ npc = "undefined"
=============================================================================
