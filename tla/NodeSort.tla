------------------------------- MODULE NodeSort -------------------------------
(***************************************************************************)
(* route_nodes (server/route.c): the n neighbours whose embeddings have    *)
(* the smallest norm, by a quicksort of a copy of the neighbour table.     *)
(*                                                                         *)
(* sort_nodes is called with r = count, one past the last node, and part   *)
(* starts its two indices one before l and one after r: it reads, and may  *)
(* swap, the memory before the copy and the two places behind it.  That    *)
(* memory is part of the model; what norm makes of it is Outside.          *)
(***************************************************************************)
EXTENDS Integers, Sequences, FiniteSets

CONSTANTS
  Count,      \* state.routes.nodes_count
  Norms,      \* norms of the embeddings
  Outside,    \* norms the memory around the copy can give
  MaxAsked    \* bound: the argument n

ASSUME NodeSortAssumption ==
  /\ Count \in Nat /\ MaxAsked \in Nat
  /\ Norms \subseteq Nat /\ Outside \subseteq Nat

Places == -1 .. Count + 1
Nodes == 0 .. Count - 1     \* the places of the copy; also the names of the nodes

VARIABLES
  norm,     \* of what each place held at first
  mem,      \* sort[x], by the place it was at first
  known,    \* is there a route to the host?
  n,        \* how many nodes are wanted
  calls,    \* the calls of sort_nodes to come, the next one first
  at, i, j,
  answer

inputs == <<norm, known>>
sortVars == <<inputs, mem, n, calls, at, i, j, answer>>

SortInit ==
  /\ norm \in {f \in [Places -> Norms \cup Outside] :
                \A x \in Places : f[x] \in (IF x \in Nodes THEN Norms ELSE Outside)}
  /\ mem = [x \in Places |-> x]
  /\ known \in BOOLEAN /\ n \in 0 .. MaxAsked
  /\ calls = <<>> /\ at = "lookup" /\ i = 0 /\ j = 0
  /\ answer = <<>>

Norm(x) == norm[mem[x]]

\* A call with l >= r returns at once.
Call(l, r) == IF l < r THEN <<[l |-> l, r |-> r]>> ELSE <<>>

\* No route to the host: NULL.  Otherwise n is cut down to the table's size.
Lookup ==
  /\ at = "lookup"
  /\ IF known
       THEN /\ n' = IF n > Count THEN Count ELSE n
            /\ calls' = Call(0, Count)
            /\ at' = "call"
       ELSE at' = "done" /\ UNCHANGED <<n, calls>>
  /\ UNCHANGED <<inputs, mem, i, j, answer>>

\* part: the pivot is sort[l], which the loops may move; its norm is kept.
Begin ==
  /\ at = "call"
  /\ calls # <<>>
  /\ calls' = <<[l |-> Head(calls).l, r |-> Head(calls).r, pivot |-> Norm(Head(calls).l)]>> \o Tail(calls)
  /\ i' = Head(calls).l - 1
  /\ j' = Head(calls).r + 1
  /\ at' = "up"
  /\ UNCHANGED <<inputs, mem, n, answer>>

StepUp_Loose ==
  /\ at = "up"
  /\ IF Norm(i) <= Head(calls).pivot THEN i' = i + 1 /\ UNCHANGED at
                                     ELSE at' = "down" /\ UNCHANGED i
  /\ UNCHANGED <<inputs, mem, n, calls, j, answer>>

StepUp ==
  /\ at = "up"
  /\ IF Norm(i) < Head(calls).pivot THEN i' = i + 1 /\ UNCHANGED at
                                    ELSE at' = "down" /\ UNCHANGED i
  /\ UNCHANGED <<inputs, mem, n, calls, j, answer>>

StepDown ==
  /\ at = "down"
  /\ IF Norm(j) > Head(calls).pivot THEN j' = j - 1 /\ UNCHANGED at
                                    ELSE at' = "meet" /\ UNCHANGED j
  /\ UNCHANGED <<inputs, mem, n, calls, i, answer>>

\* i >= j: part returns j, and sort_nodes goes on with the two sides of it.
Part_Overlap ==
  /\ at = "meet"
  /\ i >= j
  /\ LET c == Head(calls) IN calls' = Call(c.l, j) \o Call(j, c.r) \o Tail(calls)
  /\ at' = "call"
  /\ UNCHANGED <<inputs, mem, n, i, j, answer>>

Part_Dropped ==
  /\ at = "meet"
  /\ i >= j
  /\ LET c == Head(calls) IN calls' = Call(c.l, j - 1) \o Tail(calls)
  /\ at' = "call"
  /\ UNCHANGED <<inputs, mem, n, i, j, answer>>

Part ==
  /\ at = "meet"
  /\ i >= j
  /\ LET c == Head(calls) IN calls' = Call(c.l, j - 1) \o Call(j + 1, c.r) \o Tail(calls)
  /\ at' = "call"
  /\ UNCHANGED <<inputs, mem, n, i, j, answer>>

\* The two pointers are swapped by value, in the copies part holds.
Swap_Lost ==
  /\ at = "meet"
  /\ i < j
  /\ at' = "up"
  /\ UNCHANGED <<inputs, mem, n, calls, i, j, answer>>

\* The indices are not moved past what was swapped.
Swap ==
  /\ at = "meet"
  /\ i < j
  /\ mem' = [mem EXCEPT ![i] = mem[j], ![j] = mem[i]]
  /\ at' = "up"
  /\ UNCHANGED <<inputs, n, calls, i, j, answer>>

\* The first n places are returned.
Return ==
  /\ at = "call"
  /\ calls = <<>>
  /\ answer' = [x \in 1 .. n |-> mem[x - 1]]
  /\ at' = "done"
  /\ UNCHANGED <<inputs, mem, n, calls, i, j>>

SortNext == Lookup \/ Begin \/ StepUp \/ StepDown \/ Part \/ Swap \/ Return

SortSpec == SortInit /\ [][SortNext]_sortVars

-----------------------------------------------------------------------------
(* Properties. *)

SortTypeOK ==
  /\ norm \in [Places -> Nat] /\ mem \in [Places -> Places]
  /\ known \in BOOLEAN /\ n \in 0 .. MaxAsked
  /\ at \in {"lookup", "call", "up", "down", "meet", "done"}
  /\ i \in Places /\ j \in Places
  /\ answer \in Seq(Places)

\* However the memory around the copy reads, and whether or not two nodes
\* have the same norm, the two indices of part stop each other: they never
\* get further out than one place before l and one after r (route.c:10-22).
Bounded ==
  at \in {"up", "down", "meet"} =>
    /\ i \in Head(calls).l - 1 .. Head(calls).r + 1
    /\ j \in Head(calls).l - 1 .. Head(calls).r + 1

\* When route_nodes returns, whatever the memory around its copy holds, its
\* answer is as long as it should be and in order; and a node that is not in it
\* is no nearer than those that are, unless it was swapped to the place before
\* the copy or to the one behind the last (route.c:10-31, 51).  The route that
\* was looked up plays no part in it (route.c:41-45).
AnswerInOrder ==
  at = "done" /\ known =>
    /\ Len(answer) = n
    /\ \A x, y \in 1 .. n : x < y => answer[x] # answer[y] /\ norm[answer[x]] <= norm[answer[y]]
    /\ \A z \in Nodes :
         \/ \E x \in 1 .. n : answer[x] = z
         \/ z \in {mem[-1], mem[Count + 1]}
         \/ \A x \in 1 .. n : norm[answer[x]] <= norm[z]

\* The partition ends and with it the sort, however often an index leaves the
\* array, as long as no two norms are the same.  With two that are it may swap
\* them for ever: both indices stop, and neither is moved on (route.c:13-22).
AllDistinct == \A x, y \in Places : norm[x] = norm[y] => x = y

Returns == AllDistinct ~> at = "done"

\* The ranges l..r of the calls to come have no place in common: none is sorted
\* twice.  part also looks at, and may swap, the places beside its range
\* (route.c:10-15, 26-30).
CallsApart ==
  \A x, y \in DOMAIN calls : x < y => calls[x].r < calls[y].l
=============================================================================
