------------------------------- MODULE Knowledge -------------------------------
(***************************************************************************)
(* The routing knowledge (server/train.c train_routes, server/state.c      *)
(* read_state and write_state): trained in memory, saved to a database row *)
(* by row, and read back when the node starts again.                       *)
(*                                                                         *)
(* What routes and nodes a database begins with is left open: no code      *)
(* learns them, nor calls train_routes or write_state.  One thread is      *)
(* taken to call them, one after the other; a crash may come at any time.  *)
(* Heat counts the trainings until cooling_threshold is reached; which     *)
(* embeddings are near each other is left open.                            *)
(*                                                                         *)
(* An embedding is saved and read back byte for byte.  That keeps numbers  *)
(* and addresses, but a host_address is an ident and a char* to the name:  *)
(* what is saved is the pointer of a process that ends before the row is   *)
(* read.                                                                   *)
(***************************************************************************)
EXTENDS Integers, Sequences, SequencesExt

CONSTANTS
  Hosts,       \* idents of hosts
  Addrs,       \* addresses of neighbours
  MaxPrepared, \* bound: rows a table has at first
  MaxHeat,     \* bound: trainings an embedding lives through
  MaxRows      \* bound: rows in a table

ASSUME KnowledgeAssumption ==
  /\ Hosts # {} /\ Addrs # {} /\ Hosts \cap Addrs = {}
  /\ MaxHeat \in Nat \ {0} /\ MaxRows \in Nat /\ MaxPrepared \in 0 .. MaxRows

\* The name is a pointer into the process that wrote it, or one into a process
\* that has ended.
HostAddresses == [name : {"pointer", "dangling"}, id : Hosts]

Routes == [host : HostAddresses, heat : 1 .. MaxHeat]
Nodes == [addr : Addrs, heat : 1 .. MaxHeat]
Associations == [host : HostAddresses, neighbour : Addrs]

\* What lies behind the array of associations
Junk == [junk |-> TRUE]

\* write_state's order
Tables == <<"routes", "neighbours", "associations">>

VARIABLES
  phase,         \* what the node does
  db,            \* rows of each table, in the order they were inserted
  routes, nodes, associations,  \* state.routes
  table, i,      \* write_state: the table it is at, its counter
  durable        \* history: what the last complete write_state has saved

memory == <<routes, nodes, associations>>
cursor == <<table, i>>
vars == <<phase, db, memory, cursor, durable>>

Prepared(contents) ==
  {[n \in DOMAIN s |-> [index |-> n - 1, content |-> s[n]]] : s \in contents}

Few(S) == UNION {[1 .. n -> S] : n \in 0 .. MaxPrepared}

Init ==
  /\ phase = "down"
  /\ \E r \in Prepared(Few({c \in Routes : c.host.name = "pointer"})), n \in Prepared(Few(Nodes)) :
       db = [routes |-> r, neighbours |-> n, associations |-> <<>>]
  /\ routes = <<>> /\ nodes = <<>> /\ associations = <<>>
  /\ table = 0 /\ i = 0
  /\ durable = {}

-----------------------------------------------------------------------------
(* read_state *)

\* order by index asc: all rows, those with the same index in any order
InOrder(p, t) ==
  /\ p \in [DOMAIN db[t] -> DOMAIN db[t]]
  /\ \A r \in DOMAIN db[t] : \E n \in DOMAIN db[t] : p[n] = r
  /\ \A m, n \in DOMAIN db[t] : m < n => db[t][p[m]].index <= db[t][p[n]].index

\* The blob of a row is copied into memory, the pointer to a name with it.
Restored(c) == IF "host" \in DOMAIN c THEN [c EXCEPT !.host.name = "dangling"] ELSE c

\* select * from t
Selected(t) ==
  {[n \in DOMAIN db[t] |-> Restored(db[t][p[n]].content)] :
     p \in {q \in Permutations(DOMAIN db[t]) : InOrder(q, t)}}

ReadState ==
  /\ phase = "down"
  /\ routes' \in Selected("routes")
  /\ nodes' \in Selected("neighbours")
  /\ associations' \in Selected("associations")
  /\ phase' = "up"
  /\ UNCHANGED <<db, cursor, durable>>

-----------------------------------------------------------------------------
(* train_routes *)

\* The embeddings that are warmer than least, in their order
Warmer(s, least) ==
  LET kept[n \in 0 .. Len(s)] ==
        IF n = 0 THEN <<>>
        ELSE IF s[n].heat > least THEN Append(kept[n - 1], s[n]) ELSE kept[n - 1]
  IN  kept[Len(s)]

\* The embeddings are cooled, and culled when they are cold.
Cooled_Kept(s) == Warmer([n \in DOMAIN s |-> [s[n] EXCEPT !.heat = @ - 1]], -1)

Cooled(s) == Warmer([n \in DOMAIN s |-> [s[n] EXCEPT !.heat = @ - 1]], 0)

\* The loops that gravitate take the counter of the nodes for the routes and
\* that of the routes for the nodes.
GravityInBounds(rs, ns) == rs = <<>> \/ ns = <<>> \/ Len(rs) = Len(ns)

\* The inner loop of the associations steps the counter of the outer one: the
\* first node's embedding is compared with each route, and the node of the
\* route's position is associated.
Associated(rs, ns, near) ==
  [n \in DOMAIN near |-> [host |-> rs[near[n]].host, neighbour |-> ns[near[n]].addr]]

Increasing(s) == \A m, n \in DOMAIN s : m < n => s[m] < s[n]
Positions(m) == {s \in UNION {[1 .. n -> 1 .. m] : n \in 0 .. m} : Increasing(s)}

\* ns is the nodes that are left for the associations.
TrainWith(ns) ==
  /\ phase = "up"
  /\ LET rs == Cooled(routes) IN
       IF GravityInBounds(rs, nodes)
         THEN /\ routes' = rs
              /\ nodes' = Cooled(nodes)
              /\ LET m == IF rs = <<>> THEN 0 ELSE Len(ns) IN
                   \E near \in Positions(m) : associations' = Associated(rs, ns, near)
              /\ phase' = "up"
         ELSE phase' = "undefined" /\ UNCHANGED memory
  /\ UNCHANGED <<db, cursor, durable>>

Train_Before == TrainWith(nodes)

Train == TrainWith(Cooled(nodes))

-----------------------------------------------------------------------------
(* write_state *)

\* The associations are counted by the nodes.
CountOf(t) == IF t = "routes" THEN Len(routes) ELSE Len(nodes)

\* The bytes of the element, pointers included
RowOf(t) ==
  CASE t = "routes" -> routes[i + 1]
    [] t = "neighbours" -> nodes[i + 1]
    [] t = "associations" -> IF i < Len(associations) THEN associations[i + 1] ELSE Junk

BeginWrite ==
  /\ phase = "up"
  /\ phase' = "writing" /\ table' = 1 /\ i' = 0
  /\ UNCHANGED <<db, memory, durable>>

\* What lies behind an array that train_routes has left empty may not be read.
AfterInsert ==
  IF Tables[table] = "associations" /\ associations = <<>> THEN {"writing", "undefined"} ELSE {"writing"}

\* insert or replace: no column is a key, so nothing is ever replaced.
Inserted_Replacing(t) ==
  Append(SelectSeq(db[t], LAMBDA r : r.index # i), [index |-> i, content |-> RowOf(t)])

Inserted(t) == Append(db[t], [index |-> i, content |-> RowOf(t)])

InsertRow ==
  /\ phase = "writing"
  /\ i < CountOf(Tables[table])
  /\ Len(db[Tables[table]]) < MaxRows
  /\ db' = [db EXCEPT ![Tables[table]] = Inserted(Tables[table])]
  /\ i' = i + 1
  /\ phase' \in AfterInsert
  /\ UNCHANGED <<memory, table, durable>>

\* The loop over a table ends, and with the last one write_state.
EndTable ==
  /\ phase = "writing"
  /\ i = CountOf(Tables[table])
  /\ i' = 0
  /\ IF table < Len(Tables)
       THEN table' = table + 1 /\ UNCHANGED <<phase, durable>>
       ELSE /\ table' = 0
            /\ phase' = "up"
            /\ durable' = ToSet(routes) \cup ToSet(nodes) \cup ToSet(associations)
  /\ UNCHANGED <<db, memory>>

\* The process ends: what is in memory is lost.
Crash ==
  /\ phase \in {"up", "writing"}
  /\ phase' = "down"
  /\ routes' = <<>> /\ nodes' = <<>> /\ associations' = <<>>
  /\ table' = 0 /\ i' = 0
  /\ UNCHANGED <<db, durable>>

Next == ReadState \/ Train \/ BeginWrite \/ InsertRow \/ EndTable \/ Crash

Spec == Init /\ [][Next]_vars

-----------------------------------------------------------------------------
(* Properties. *)

TypeOK ==
  /\ phase \in {"down", "up", "writing", "undefined"}
  /\ routes \in Seq(Routes) /\ nodes \in Seq(Nodes)
  /\ ToSet(associations) \subseteq Associations \cup {Junk}
  /\ table \in 0 .. Len(Tables) /\ i \in 0 .. MaxRows
  /\ \A t \in DOMAIN db : Len(db[t]) <= MaxRows

\* Whatever was trained, saved in part and read back: an association that is
\* not junk is one of a host that has a route with an address that has a node
\* (train.c:127-139; state.c:85-121, 128-152).
AssociationsRefer ==
  \A n \in DOMAIN associations : associations[n] # Junk =>
    /\ \E m \in DOMAIN routes : routes[m].host = associations[n].host
    /\ \E m \in DOMAIN nodes : nodes[m].addr = associations[n].neighbour

\* What a complete write_state has saved is in memory after each later start,
\* the names of the hosts excepted, which dangle: also when later saves were cut
\* off by a crash, and although the nodes count the associations that are saved
\* (state.c:81-123, 147).
KnowledgeSurvives ==
  [][ReadState =>
       {Restored(c) : c \in durable} \subseteq ToSet(routes') \cup ToSet(nodes') \cup ToSet(associations')]_vars
=============================================================================
