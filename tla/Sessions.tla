------------------------------- MODULE Sessions -------------------------------
(***************************************************************************)
(* The session table (server/session.c): an array indexed by the 24-bit    *)
(* token, of pointers to session objects on the heap.  The functions are   *)
(* meant for the worker threads of the job queue; they take no lock, so    *)
(* each statement that reads or writes the table is a step.                *)
(*                                                                         *)
(* Callers are well behaved: they close a session only after opening it,   *)
(* and once.  They cannot see whether open_neighbour_session did anything, *)
(* for it returns nothing.                                                 *)
(***************************************************************************)
EXTENDS Naturals, FiniteSets

CONSTANTS
  Workers,       \* threads that dispatch jobs
  Tokens,        \* values of session_token.b
  Addresses,     \* places malloc can hand out
  JunkTable,     \* is the memory of the table not zeroed when it is used first?
  Null,          \* the null pointer, a freed place, an unwritten field
  Junk           \* a pointer malloc left in the table

\* A session object, of which the model keeps who opened it and its token.
Session == [origin : Workers \cup {Null}, token : Tokens \cup {Null}]

ASSUME SessionsAssumption ==
  /\ IsFiniteSet(Workers)
  /\ JunkTable \in BOOLEAN
  /\ Null \notin Addresses \cup Tokens \cup Workers \cup Session
  /\ Junk \notin Addresses \cup {Null}

VARIABLES
  slot,     \* state.net.sessions
  heap,     \* the object at each place: who opened it, its token; Null when free
  pc, tok, namespace,  \* per worker: location, t, which open function
  opened,   \* per worker, the tokens it takes to be open
  allocators, \* the workers that ever allocated an object for each token
  gone,     \* tokens whose session was closed, or whose place was freed or
            \* written through a token that was gone itself
  crashed   \* a pointer to no live object was freed or stored through: what
            \* follows is undefined, and not modelled

locals == <<pc, tok, namespace>>
sessionVars == <<slot, heap, locals, opened, allocators, gone, crashed>>

\* sessions_init, which zeroes a table of its own, is called by nothing; the
\* table net_init allocates has session_limit places of the size of a session
\* and is not zeroed (JunkTable).  Tokens stands for those that lie in it.
SessionsInit ==
  /\ slot \in [Tokens -> IF JunkTable THEN {Null, Junk} ELSE {Null}]
  /\ heap = [a \in Addresses |-> Null]
  /\ pc = [w \in Workers |-> "idle"]
  /\ tok \in [Workers -> Tokens]
  /\ namespace = [w \in Workers |-> "client"]
  /\ opened = [w \in Workers |-> {}]
  /\ allocators = [t \in Tokens |-> {}]
  /\ gone = {}
  /\ crashed = FALSE

Live(p) == p \in Addresses /\ heap[p] # Null

\* The tokens whose place is used through t, once t's own session is gone.
Reached(t) == {u \in Tokens : t \in gone /\ slot[u] = slot[t]}

\* open_client_session draws a token; open_neighbour_session is given one.
BeginOpen(w) ==
  /\ pc[w] = "idle"
  /\ \E t \in Tokens, n \in {"client", "node"} :
       /\ tok' = [tok EXCEPT ![w] = t]
       /\ namespace' = [namespace EXCEPT ![w] = n]
  /\ pc' = [pc EXCEPT ![w] = "check"]
  /\ UNCHANGED <<slot, heap, opened, allocators, gone, crashed>>

\* sessions[t.b] != NULL: draw again, or return.
Collide_GoesOn(w) ==
  /\ pc[w] = "check"
  /\ slot[tok[w]] # Null
  /\ pc' = [pc EXCEPT ![w] = "origin"]
  /\ UNCHANGED <<slot, heap, tok, namespace, opened, allocators, gone, crashed>>

Collide(w) ==
  /\ pc[w] = "check"
  /\ slot[tok[w]] # Null
  /\ IF namespace[w] = "client"
       THEN /\ \E t \in Tokens : tok' = [tok EXCEPT ![w] = t]
            /\ UNCHANGED <<pc, opened>>
       ELSE /\ pc' = [pc EXCEPT ![w] = "idle"]
            /\ opened' = [opened EXCEPT ![w] = @ \cup {tok[w]}]
            /\ UNCHANGED tok
  /\ UNCHANGED <<slot, heap, namespace, allocators, gone, crashed>>

NoCollision_Unchecked(w) ==
  /\ pc[w] = "check"
  /\ pc' = [pc EXCEPT ![w] = "alloc"]
  /\ UNCHANGED <<slot, heap, tok, namespace, opened, allocators, gone, crashed>>

NoCollision(w) ==
  /\ pc[w] = "check"
  /\ slot[tok[w]] = Null
  /\ pc' = [pc EXCEPT ![w] = "alloc"]
  /\ UNCHANGED <<slot, heap, tok, namespace, opened, allocators, gone, crashed>>

\* sessions[t.b] = malloc(sizeof(session))
Allocate(w) ==
  /\ pc[w] = "alloc"
  /\ \E a \in Addresses :
       /\ heap[a] = Null
       /\ heap' = [heap EXCEPT ![a] = [origin |-> Null, token |-> Null]]
       /\ slot' = [slot EXCEPT ![tok[w]] = a]
  /\ allocators' = [allocators EXCEPT ![tok[w]] = @ \cup {w}]
  /\ pc' = [pc EXCEPT ![w] = "origin"]
  /\ UNCHANGED <<tok, namespace, opened, gone, crashed>>

\* sessions[t.b]->origin = from, and the fields after it up to the token:
\* each goes through the table again.
SetOrigin_Token(w) ==
  /\ pc[w] = "origin"
  /\ LET p == slot[tok[w]] IN
       IF Live(p) THEN heap' = [heap EXCEPT ![p].origin = tok[w]] /\ UNCHANGED crashed
                  ELSE crashed' = TRUE /\ UNCHANGED heap
  /\ gone' = gone \cup Reached(tok[w])
  /\ pc' = [pc EXCEPT ![w] = "token"]
  /\ UNCHANGED <<slot, tok, namespace, opened, allocators>>

SetOrigin(w) ==
  /\ pc[w] = "origin"
  /\ LET p == slot[tok[w]] IN
       IF Live(p) THEN heap' = [heap EXCEPT ![p].origin = w] /\ UNCHANGED crashed
                  ELSE crashed' = TRUE /\ UNCHANGED heap
  /\ gone' = gone \cup Reached(tok[w])
  /\ pc' = [pc EXCEPT ![w] = "token"]
  /\ UNCHANGED <<slot, tok, namespace, opened, allocators>>

\* sessions[t.b]->token = t, and return.  open_client_session has no return
\* statement; the caller is taken to learn the token all the same.
SetToken(w) ==
  /\ pc[w] = "token"
  /\ LET p == slot[tok[w]] IN
       IF Live(p) THEN heap' = [heap EXCEPT ![p].token = tok[w]] /\ UNCHANGED crashed
                  ELSE crashed' = TRUE /\ UNCHANGED heap
  /\ opened' = [opened EXCEPT ![w] = @ \cup {tok[w]}]
  /\ gone' = gone \cup Reached(tok[w])
  /\ pc' = [pc EXCEPT ![w] = "idle"]
  /\ UNCHANGED <<slot, tok, namespace, allocators>>

\* close_client_session and close_neighbour_session: free(sessions[s.b]).
\* The table keeps the pointer.  free(NULL) does nothing.
Close(w) ==
  /\ pc[w] = "idle"
  /\ \E t \in opened[w] :
       /\ opened' = [opened EXCEPT ![w] = @ \ {t}]
       /\ gone' = gone \cup {t} \cup Reached(t)
       /\ \/ slot[t] = Null /\ UNCHANGED <<heap, crashed>>
          \/ Live(slot[t]) /\ heap' = [heap EXCEPT ![slot[t]] = Null] /\ UNCHANGED crashed
          \/ ~Live(slot[t]) /\ slot[t] # Null /\ crashed' = TRUE /\ UNCHANGED heap
  /\ UNCHANGED <<slot, locals, allocators>>

SessionsNext ==
  /\ ~crashed
  /\ \E w \in Workers :
       BeginOpen(w) \/ Collide(w) \/ NoCollision(w) \/ Allocate(w) \/ SetOrigin(w) \/ SetToken(w) \/ Close(w)

SessionsSpec == SessionsInit /\ [][SessionsNext]_sessionVars

-----------------------------------------------------------------------------
(* Properties. *)

SessionsTypeOK ==
  /\ slot \in [Tokens -> Addresses \cup {Null, Junk}]
  /\ heap \in [Addresses -> Session \cup {Null}]
  /\ pc \in [Workers -> {"idle", "check", "alloc", "origin", "token"}]
  /\ tok \in [Workers -> Tokens]
  /\ namespace \in [Workers -> {"client", "node"}]
  /\ opened \in [Workers -> SUBSET Tokens]
  /\ allocators \in [Tokens -> SUBSET Workers]
  /\ gone \subseteq Tokens
  /\ crashed \in BOOLEAN

\* A token is good for one session per thread, ever: a thread that allocates
\* for it never did before.  Closing does not free the token, so the table
\* fills up (session.c:17-20, 28-30, 34-36).
TokensAreSpent ==
  \A w \in Workers : pc[w] = "alloc" => w \notin allocators[tok[w]]

\* A session a worker has set up is found under its token, with what that
\* worker wrote into it, until somebody closes the token; with two exceptions.
\* A second worker was between the collision test and its store, and hid the
\* session (session.c:17-20, 34-36).  Or its memory had belonged to another
\* session, and was used once more through that one's token, which still points
\* to it: freed by a second close, or written while it was set up
\* (session.c:20-24, 28-30, 42-44); such tokens are in "gone".
SessionsReachable ==
  \A t \in Tokens \ gone, w \in Workers :
    allocators[t] = {w} /\ t \in opened[w] =>
      Live(slot[t]) /\ heap[slot[t]] = [origin |-> w, token |-> t]
=============================================================================
