------------------------------- MODULE Database -------------------------------
(***************************************************************************)
(* The server's database: the tables of the routing knowledge and that of  *)
(* the broadcasts, of one process that crashes and starts again.  The      *)
(* parts share the process only, so a behaviour fills the tables of one:   *)
(* with both filled there are more states and no other behaviour of a part.*)
(***************************************************************************)
EXTENDS Knowledge, Broadcasts

NoKnowledge == memory = <<<<>>, <<>>, <<>>>> /\ \A t \in DOMAIN db : db[t] = <<>>

DatabaseInit == Init /\ BroadcastsInit

DatabaseNext ==
  \/ (ReadState \/ Train \/ BeginWrite \/ InsertRow \/ EndTable) /\ UNCHANGED broadcastVars
  \/ phase = "up" /\ NoKnowledge /\ BroadcastsNext /\ UNCHANGED vars
  \/ Crash /\ BroadcastsCrash

DatabaseSpec == DatabaseInit /\ [][DatabaseNext]_<<vars, broadcastVars>>
=============================================================================
