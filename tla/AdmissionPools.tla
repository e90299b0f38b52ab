---------------------------- MODULE AdmissionPools ----------------------------
\* Each of the two pools Admission fills is a ConnectionPool.
EXTENDS Admission

Stage(p) == IF p = PoolOf(role) /\ ppc \in {"fd", "addr"} THEN ppc ELSE "idle"

Neighbours == INSTANCE ConnectionPool WITH
  Descriptors <- Fds \cup {BadFd},
  Addresses <- Peers,
  Limit <- NeighbourLimit,
  entries <- pool["neighbours"],
  stage <- Stage("neighbours")

Clients == INSTANCE ConnectionPool WITH
  Descriptors <- Fds \cup {BadFd},
  Addresses <- Peers,
  Limit <- ClientLimit,
  entries <- pool["clients"],
  stage <- Stage("clients")

\* new_neighbour and new_client keep the order count, fd, addr, and nothing
\* else touches the two pools (network.c:82-91, 100-108).
PoolContracts == Neighbours!PoolSpec /\ Clients!PoolSpec
=============================================================================
