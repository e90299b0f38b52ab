------------------------------ MODULE Admission ------------------------------
(***************************************************************************)
(* How the telluric server admits TCP connections (server/network.c).      *)
(*                                                                         *)
(* The listener thread accepts connections into the table                  *)
(* state.net.pending; the pending_cycle thread polls that table, reads the *)
(* first message of a connection and, by its role, moves the connection to *)
(* the neighbour pool, to the client pool, or closes it.  The two threads  *)
(* share pending and pending_count without a lock, so each access of one   *)
(* thread to a shared word is a step of its own, and `x += 1` is a load    *)
(* followed by a store.  A register or local whose value is dead is reset. *)
(***************************************************************************)
EXTENDS Integers, Sequences, FiniteSets

CONSTANTS
  Fds,             \* descriptors the kernel can hand out
  Peers,           \* remote addresses
  PendingLimit,    \* state.config.pending_limit
  NeighbourLimit,  \* state.config.neighbour_limit
  ClientLimit,     \* state.config.client_limit
  NoPeer,          \* the descriptor is closed
  BadFd,           \* -1, the result of a failed accept
  Unwritten        \* what malloc left in a field nobody has written

ASSUME AdmissionAssumption ==
  /\ PendingLimit \in Nat
  /\ NeighbourLimit \in Nat
  /\ ClientLimit \in Nat
  /\ NoPeer \notin Peers
  /\ BadFd \notin Fds
  /\ Unwritten \notin Fds \cup Peers \cup {BadFd}

Pools == {"neighbours", "clients"}
PoolLimit(p) == IF p = "neighbours" THEN NeighbourLimit ELSE ClientLimit

\* The two bits of proto.role: three named roles, and the value 3 that
\* no case of the switch takes.
Roles == {"client", "iface", "internode", "unknown"}

\* The pool a role leads to.
PoolOf(r) == IF r = "internode" THEN "neighbours" ELSE "clients"

VARIABLES
  conn,       \* the kernel's view: the peer behind each open descriptor
  pendFd,     \* pending[k].fd
  pendAddr,   \* pending[k].addr
  pendCount,  \* pending_count
  pool,       \* the two connection arrays, each up to its connections_count
  posted,     \* jobs handed to job_add, by the pool whose packet type they carry
  lpc, lfd, laddr, lenOk, lload,       \* listener: location, fd, incoming, incoming_len, register
  ppc, size, extent, ready, i, role, pload
              \* pending_cycle: location, length of fds, entries polled, those
              \* with POLLIN, loop index, role in `unknown`, register

shared     == <<conn, pendFd, pendAddr, pendCount>>
registry   == <<pool, posted>>
listenerVars == <<lpc, lfd, laddr, lenOk, lload>>
pendingVars  == <<ppc, size, extent, ready, i, role, pload>>
vars == <<shared, registry, listenerVars, pendingVars>>

ListenerLocs == {"accept", "check", "fd", "addr", "load", "store"}
PendingLocs  == {"size", "poll", "scan", "recv", "enter", "fd", "addr", "post",
                 "close", "load", "store", "smashed"}

Slots == 0 .. PendingLimit - 1

Init ==
  /\ conn = [fd \in Fds |-> NoPeer]
  /\ pendFd = [k \in Slots |-> Unwritten]
  /\ pendAddr = [k \in Slots |-> Unwritten]
  /\ pendCount = 0
  /\ pool = [p \in Pools |-> <<>>]
  /\ posted = [p \in Pools |-> 0]
  /\ lpc = "accept" /\ lfd = BadFd /\ lload = 0
  /\ laddr \in Peers /\ lenOk \in BOOLEAN   \* incoming and incoming_len start uninitialised
  /\ ppc = "size" /\ size = 0 /\ extent = 0 /\ ready = {} /\ i = 0 /\ pload = 0
  /\ role = "unknown"

-----------------------------------------------------------------------------
(* The listener thread. *)

\* accept: any free descriptor and any peer; or it fails and returns -1,
\* which nothing tests, leaving incoming and incoming_len as they were.
Accept ==
  /\ lpc = "accept"
  /\ lpc' = "check"
  /\ \/ \E fd \in Fds, p \in Peers :
          /\ conn[fd] = NoPeer
          /\ conn' = [conn EXCEPT ![fd] = p]
          /\ lfd' = fd
          /\ laddr' = p
          /\ lenOk' = TRUE
     \/ /\ lfd' = BadFd
        /\ UNCHANGED <<conn, laddr, lenOk>>
  /\ UNCHANGED <<pendFd, pendAddr, pendCount, registry, lload, pendingVars>>

\* close(fd), without effect on -1.
Close(fd) == conn' = [g \in Fds |-> IF g = fd THEN NoPeer ELSE conn[g]]

\* The length test, then the limit test; either one closes the connection.
CheckLimit ==
  /\ lpc = "check"
  /\ IF lenOk /\ pendCount < PendingLimit
       THEN lpc' = "fd" /\ UNCHANGED conn
       ELSE lpc' = "accept" /\ Close(lfd)
  /\ UNCHANGED <<pendFd, pendAddr, pendCount, registry, lfd, laddr, lenOk, lload, pendingVars>>

\* pending[pending_count].fd = fd.  The array is taken to have been allocated
\* with pending_limit entries, as net_init does for the other two pools;
\* nothing under src/ does so for this one.
StorePendingFd_Shifted ==
  /\ lpc = "fd"
  /\ pendFd' = [pendFd EXCEPT ![IF pendCount > 0 THEN pendCount - 1 ELSE 0] = lfd]
  /\ lpc' = "addr"
  /\ UNCHANGED <<conn, pendAddr, pendCount, registry, lfd, laddr, lenOk, lload, pendingVars>>

StorePendingFd ==
  /\ lpc = "fd"
  /\ pendFd' = [pendFd EXCEPT ![pendCount] = lfd]
  /\ lpc' = "addr"
  /\ UNCHANGED <<conn, pendAddr, pendCount, registry, lfd, laddr, lenOk, lload, pendingVars>>

\* pending[pending_count].addr = incoming.sin6_addr: the count is read again.
StorePendingAddr_Skipped ==
  /\ lpc = "addr"
  /\ lpc' = "load"
  /\ UNCHANGED <<shared, registry, lfd, laddr, lenOk, lload, pendingVars>>

StorePendingAddr ==
  /\ lpc = "addr"
  /\ pendAddr' = [pendAddr EXCEPT ![pendCount] = laddr]
  /\ lpc' = "load"
  /\ UNCHANGED <<conn, pendFd, pendCount, registry, lfd, laddr, lenOk, lload, pendingVars>>

\* pending_count += 1
LoadForIncrement ==
  /\ lpc = "load"
  /\ lload' = pendCount
  /\ lpc' = "store"
  /\ UNCHANGED <<shared, registry, lfd, laddr, lenOk, pendingVars>>

StoreIncrement ==
  /\ lpc = "store"
  /\ pendCount' = lload + 1
  /\ lpc' = "accept"
  /\ lfd' = BadFd /\ lload' = 0
  /\ UNCHANGED <<conn, pendFd, pendAddr, registry, laddr, lenOk, pendingVars>>

Listener ==
  Accept \/ CheckLimit \/ StorePendingFd \/ StorePendingAddr \/ LoadForIncrement \/ StoreIncrement

-----------------------------------------------------------------------------
(* The pending_cycle thread. *)

\* struct pollfd fds[pending_count]
SizePollSet ==
  /\ ppc = "size"
  /\ size' = pendCount
  /\ ppc' = "poll"
  /\ UNCHANGED <<shared, registry, listenerVars, extent, ready, i, role, pload>>

\* The entries poll can report POLLIN for, and those it reports POLLNVAL for:
\* a descriptor that is open, and one that is not.  It passes over -1.
Polled(open) ==
  {k \in 0 .. pendCount - 1 : pendFd[k] \in Fds /\ (conn[pendFd[k]] # NoPeer) = open}

\* Fill fds and poll, in one step: what the listener does between the two
\* reads of the count is as if it came before or after them, but for entries
\* it adds while the array is filled, of which poll reads what lay there.
\* When the count has grown past the array's length the stores run over the
\* thread's stack, which ends the process ("smashed") or falls into padding.
\* With nothing to report poll times out and the cycle starts over; a poll
\* that fails, after which the scan reads what lay there, is left out.
PollPending ==
  /\ ppc = "poll"
  /\ \/ \E R \in SUBSET Polled(TRUE) :
          /\ ready' = R
          /\ ppc' = IF R \cup Polled(FALSE) = {} THEN "size" ELSE "scan"
          /\ extent' = IF ppc' = "scan" THEN pendCount ELSE 0
     \/ /\ pendCount > size
        /\ ppc' = "smashed"
        /\ UNCHANGED <<ready, extent>>
  /\ size' = 0
  /\ UNCHANGED <<shared, registry, listenerVars, i, role, pload>>

\* i < state.net.pending_count, read again at each turn; then fds[i].revents.
\* An index the poll did not cover reads whatever lies behind fds.
ScanEnd ==
  /\ ppc = "scan"
  /\ i >= pendCount
  /\ ppc' = "size"
  /\ i' = 0 /\ extent' = 0 /\ ready' = {}
  /\ UNCHANGED <<shared, registry, listenerVars, size, role, pload>>

ScanSkip ==
  /\ ppc = "scan"
  /\ i < pendCount
  /\ i \notin ready
  /\ i' = i + 1
  /\ UNCHANGED <<shared, registry, listenerVars, ppc, size, extent, ready, role, pload>>

ScanTake ==
  /\ ppc = "scan"
  /\ i < pendCount
  /\ i \in ready \/ i >= extent
  /\ ppc' = "recv"
  /\ UNCHANGED <<shared, registry, listenerVars, size, extent, ready, i, role, pload>>

\* recv(fds[i].fd, &unknown, ...) and the switch.  The result of recv is not
\* tested: at end of stream or on an error `unknown` keeps its last content.
ReceiveFirst ==
  /\ ppc = "recv"
  /\ role' \in Roles
  /\ ppc' = CASE role' \in {"internode", "client"} -> "enter"
              [] role' = "iface"                   -> "close"
              [] role' = "unknown"                 -> "load"
  /\ UNCHANGED <<shared, registry, listenerVars, size, extent, ready, i, pload>>

\* close(pending[i].fd)
CloseErrant ==
  /\ ppc = "close"
  /\ Close(pendFd[i])
  /\ ppc' = "load"
  /\ UNCHANGED <<pendFd, pendAddr, pendCount, registry, listenerVars, size, extent, ready, i, role, pload>>

\* new_neighbour and new_client have the same control.  A full pool returns
\* at once, the descriptor neither kept nor closed; otherwise
\* connections_count grows first and the entry's fields are written after.
EnterPool_Overfull ==
  /\ ppc = "enter"
  /\ LET p == PoolOf(role) IN
     IF Len(pool[p]) > PoolLimit(p)
       THEN ppc' = "load" /\ UNCHANGED pool
       ELSE /\ ppc' = "fd"
            /\ pool' = [pool EXCEPT ![p] = Append(@, [fd |-> Unwritten, addr |-> Unwritten])]
  /\ UNCHANGED <<shared, posted, listenerVars, size, extent, ready, i, role, pload>>

EnterPool ==
  /\ ppc = "enter"
  /\ LET p == PoolOf(role) IN
     IF Len(pool[p]) >= PoolLimit(p)
       THEN ppc' = "load" /\ UNCHANGED pool
       ELSE /\ ppc' = "fd"
            /\ pool' = [pool EXCEPT ![p] = Append(@, [fd |-> Unwritten, addr |-> Unwritten])]
  /\ UNCHANGED <<shared, posted, listenerVars, size, extent, ready, i, role, pload>>

\* conn->fd = fd; the argument was pending[i].fd at the call, the same value
\* as now by LiveEntryStable.
WritePoolFd_First ==
  /\ ppc = "fd"
  /\ pool' = [pool EXCEPT ![PoolOf(role)][1].fd = pendFd[i]]
  /\ ppc' = "addr"
  /\ UNCHANGED <<shared, posted, listenerVars, size, extent, ready, i, role, pload>>

WritePoolFd ==
  /\ ppc = "fd"
  /\ LET p == PoolOf(role) IN pool' = [pool EXCEPT ![p][Len(pool[p])].fd = pendFd[i]]
  /\ ppc' = "addr"
  /\ UNCHANGED <<shared, posted, listenerVars, size, extent, ready, i, role, pload>>

\* conn->addr = incoming
WritePoolAddr ==
  /\ ppc = "addr"
  /\ LET p == PoolOf(role) IN pool' = [pool EXCEPT ![p][Len(pool[p])].addr = pendAddr[i]]
  /\ ppc' = "post"
  /\ UNCHANGED <<shared, posted, listenerVars, size, extent, ready, i, role, pload>>

\* job_add of the connection's first message.
PostFirst ==
  /\ ppc = "post"
  /\ posted' = [posted EXCEPT ![PoolOf(role)] = @ + 1]
  /\ ppc' = "load"
  /\ UNCHANGED <<shared, pool, listenerVars, size, extent, ready, i, role, pload>>

\* pending_count -= 1, and the loop's i++.  Entry i stays where it is.
LoadForDecrement ==
  /\ ppc = "load"
  /\ pload' = pendCount
  /\ ppc' = "store"
  /\ UNCHANGED <<shared, registry, listenerVars, size, extent, ready, i, role>>

StoreDecrement_StepBack ==
  /\ ppc = "store"
  /\ pendCount' = pload - 1
  /\ i' = i - 1
  /\ ppc' = "scan"
  /\ role' = "unknown" /\ pload' = 0
  /\ UNCHANGED <<conn, pendFd, pendAddr, registry, listenerVars, size, extent, ready>>

StoreDecrement ==
  /\ ppc = "store"
  /\ pendCount' = pload - 1
  /\ i' = i + 1
  /\ ppc' = "scan"
  /\ role' = "unknown" /\ pload' = 0
  /\ UNCHANGED <<conn, pendFd, pendAddr, registry, listenerVars, size, extent, ready>>

PendingCycle ==
  \/ SizePollSet \/ PollPending \/ ScanEnd \/ ScanSkip \/ ScanTake \/ ReceiveFirst \/ CloseErrant
  \/ EnterPool \/ WritePoolFd \/ WritePoolAddr \/ PostFirst \/ LoadForDecrement \/ StoreDecrement

\* A memory fault of one thread stops both.
Next ==
  /\ ppc # "smashed"
  /\ Listener \/ PendingCycle

Spec == Init /\ [][Next]_vars

-----------------------------------------------------------------------------
(* Properties. *)

Entry == [fd : Fds \cup {BadFd, Unwritten}, addr : Peers \cup {Unwritten}]

TypeOK ==
  /\ conn \in [Fds -> Peers \cup {NoPeer}]
  /\ pendFd \in [Slots -> Fds \cup {BadFd, Unwritten}]
  /\ pendAddr \in [Slots -> Peers \cup {Unwritten}]
  /\ pendCount \in Int
  /\ pool \in [Pools -> Seq(Entry)]
  /\ posted \in [Pools -> Nat]
  /\ lpc \in ListenerLocs /\ lfd \in Fds \cup {BadFd} /\ laddr \in Peers
  /\ lenOk \in BOOLEAN /\ lload \in Int
  /\ ppc \in PendingLocs /\ size \in Int /\ extent \in Int /\ ready \subseteq Slots
  /\ i \in Nat /\ role \in Roles /\ pload \in Int

\* The races on pending_count lose updates, yet never take it out of
\* 0..pending_limit: neither an index below the table nor one past its end
\* can be formed from it, and no entry below it is memory as malloc left it
\* (network.c:121-125, 145, 203-210).
Written(k) == pendFd[k] # Unwritten /\ pendAddr[k] # Unwritten

PendingTableSound ==
  /\ pendCount \in 0 .. PendingLimit
  /\ \A k \in 0 .. pendCount - 1 : Written(k)

\* Why that holds: what each thread still knows of pending_count at each of
\* its locations, whatever the other thread does meanwhile.
ListenerKnows ==
  /\ lpc \in {"fd", "addr", "load"} => pendCount < PendingLimit
  /\ lpc = "addr" => pendFd[pendCount] # Unwritten
  /\ lpc = "load" => Written(pendCount)
  /\ lpc = "store" => /\ pendCount <= lload /\ lload < PendingLimit
                      /\ \A k \in 0 .. lload : Written(k)

PendingCycleKnows ==
  /\ ppc \in {"recv", "enter", "fd", "addr", "post", "close", "load"} => i < pendCount
  /\ ppc = "store" => i < pload /\ pload <= pendCount

\* While pending_cycle works on entry i the listener writes elsewhere: the
\* arguments it read at the call are those of the entry it took
\* (network.c:135-141 against 208-209).
KeepsLiveEntry ==
  ppc \in {"recv", "enter", "fd", "addr", "close"} =>
    pendFd'[i] = pendFd[i] /\ pendAddr'[i] = pendAddr[i]

LiveEntryStable == [][KeepsLiveEntry]_vars

\* A pool never outgrows its array, only its last entry can be half written,
\* and only while pending_cycle is inside new_neighbour or new_client: what
\* another thread that reads the pool can meet (network.c:82-115).
Complete(e) == e.fd # Unwritten /\ e.addr # Unwritten

PoolsPrefixComplete ==
  \A p \in Pools :
    /\ Len(pool[p]) <= PoolLimit(p)
    /\ \A k \in 1 .. Len(pool[p]) :
         ~Complete(pool[p][k]) =>
           k = Len(pool[p]) /\ p = PoolOf(role) /\ ppc \in {"fd", "addr"}

\* Why: the entry new_neighbour or new_client is at, field by field.
PoolWriteKnows ==
  ppc \in {"fd", "addr"} =>
    LET q == pool[PoolOf(role)]
    IN  /\ Len(q) > 0
        /\ ppc = "fd" <=> q[Len(q)].fd = Unwritten
        /\ q[Len(q)].addr = Unwritten

IndInv ==
  /\ TypeOK
  /\ PendingTableSound
  /\ ListenerKnows
  /\ PendingCycleKnows
  /\ PoolsPrefixComplete
  /\ PoolWriteKnows

\* Pools only grow: a complete entry is never moved, changed or removed, so
\* a neighbour_connection_ref stays good for ever (network.c:82-115).
KeepsComplete ==
  \A p \in Pools : \A k \in 1 .. Len(pool[p]) :
    Complete(pool[p][k]) => k <= Len(pool'[p]) /\ pool'[p][k] = pool[p][k]

PoolsAppendOnly == [][KeepsComplete]_vars

=============================================================================
