------------------------------ MODULE WorkerCalls ------------------------------
(***************************************************************************)
(* Three groups of functions that are meant for the dispatch of jobs by    *)
(* the worker threads and that share nothing with each other: the session  *)
(* table, the stream cipher of one session, and route_nodes.               *)
(*                                                                         *)
(* A behaviour is one of the three, the other two staying where they       *)
(* started; with no shared variable their product would show nothing more. *)
(***************************************************************************)
EXTENDS Sessions, Cipher, NodeSort

VARIABLE called    \* the group of a behaviour

callVars == <<sessionVars, cipherVars, sortVars, called>>

\* One initial state of each group, for the behaviours of the other two.
NoSessions == slot = [t \in Tokens |-> Null] /\ tok = (CHOOSE f \in [Workers -> Tokens] : TRUE) /\ SessionsInit
NoPackets == cmat = (CHOOSE f \in [Sides -> {[r \in Rows |-> s] : s \in CmatStarts}] : TRUE) /\ CipherInit
NoRoute ==
  /\ norm = [x \in Places |-> IF x \in Nodes THEN CHOOSE v \in Norms : TRUE ELSE CHOOSE v \in Outside : TRUE]
  /\ known = FALSE /\ n = 0 /\ SortInit

CallsInit ==
  \/ called = "session" /\ SessionsInit /\ NoPackets /\ NoRoute
  \/ called = "packet" /\ CipherInit /\ NoSessions /\ NoRoute
  \/ called = "route" /\ SortInit /\ NoSessions /\ NoPackets

OfSessions == called = "session" /\ SessionsNext /\ UNCHANGED <<cipherVars, sortVars, called>>
OfPackets == called = "packet" /\ CipherNext /\ UNCHANGED <<sessionVars, sortVars, called>>
OfRoutes == called = "route" /\ SortNext /\ UNCHANGED <<sessionVars, cipherVars, called>>

CallsNext == OfSessions \/ OfPackets \/ OfRoutes

\* The sort runs in one thread and waits for nothing.
CallsSpec == CallsInit /\ [][CallsNext]_callVars /\ WF_callVars(OfRoutes)

-----------------------------------------------------------------------------
(* Properties. *)

\* No group leaves the types of its own variables.
CallsTypeOK == SessionsTypeOK /\ CipherTypeOK /\ SortTypeOK

\* Returns, for the behaviours that are calls of route_nodes: the partition
\* and with it the sort ends (route.c:10-31).
RoutesReturn == called = "route" => Returns
=============================================================================
