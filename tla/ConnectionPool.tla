---------------------------- MODULE ConnectionPool ----------------------------
(***************************************************************************)
(* What new_neighbour and new_client (server/network.c) promise a reader   *)
(* of their pool: it only grows, up to its limit; the count grows before   *)
(* the new entry is written, then fd is written, then addr; and one entry  *)
(* is written at a time.  Which descriptor and address are written is left *)
(* open.  Admission implements this for each of its pools (see             *)
(* AdmissionPools); NeighbourCycle reads such a pool.                      *)
(***************************************************************************)
EXTENDS Integers, Sequences

CONSTANTS
  Descriptors,  \* what connections[k].fd can be given, -1 included
  Addresses,    \* what connections[k].addr can be given
  Limit,        \* the length the array was allocated with
  Unwritten     \* what malloc left in a field nobody has written

VARIABLES
  entries,      \* connections, up to connections_count
  stage         \* what the writer does next with the last entry

NewEntry == [fd |-> Unwritten, addr |-> Unwritten]

PoolInit == entries = <<>> /\ stage = "idle"

\* connections_count += 1, below the limit
Enter ==
  /\ stage = "idle"
  /\ Len(entries) < Limit
  /\ entries' = Append(entries, NewEntry)
  /\ stage' = "fd"

\* conn->fd = fd
WriteFd ==
  /\ stage = "fd"
  /\ \E fd \in Descriptors : entries' = [entries EXCEPT ![Len(entries)].fd = fd]
  /\ stage' = "addr"

\* conn->addr = incoming
WriteAddr ==
  /\ stage = "addr"
  /\ \E a \in Addresses : entries' = [entries EXCEPT ![Len(entries)].addr = a]
  /\ stage' = "idle"

PoolNext == Enter \/ WriteFd \/ WriteAddr

PoolSpec == PoolInit /\ [][PoolNext]_<<entries, stage>>
=============================================================================
