---------------------------- MODULE NodeSortProofs ----------------------------
(***************************************************************************)
(* Proofs about the quicksort of route_nodes, for tables of any size and   *)
(* whatever the memory around the copy holds.                              *)
(***************************************************************************)
EXTENDS NodeSort, TLAPS

Ends == [l : 0 .. Count, r : 0 .. Count]
Pivoted == [l : 0 .. Count, r : 0 .. Count, pivot : Nat]

\* Calls lie in the table, its end included, and there is one while part runs.
CallsInv ==
  /\ calls \in Seq(Ends \cup Pivoted)
  /\ \A x \in DOMAIN calls : calls[x].l < calls[x].r
  /\ at \in {"up", "down", "meet"} => calls # <<>> /\ calls[1] \in Pivoted

AskedInv == at \in {"call", "up", "down", "meet"} => n <= Count

\* What will stop each index: a place on its way, no further out than one past
\* the ends, whose norm is on the other side of the pivot.
UpStop == \E k \in Places : i <= k /\ k <= calls[1].r + 1 /\ Norm(k) >= calls[1].pivot
DownStop == \E k \in Places : calls[1].l - 1 <= k /\ k <= j /\ Norm(k) <= calls[1].pivot

PartInv ==
  /\ at \in {"up", "down", "meet"} => i >= calls[1].l - 1 /\ j <= calls[1].r + 1 /\ UpStop /\ DownStop
  /\ at \in {"down", "meet"} => Norm(i) >= calls[1].pivot
  /\ at = "meet" => Norm(j) <= calls[1].pivot

Inv == SortTypeOK /\ CallsInv /\ AskedInv /\ PartInv /\ CallsApart

-----------------------------------------------------------------------------
(* Sequences and places. *)

LEMMA Pushed ==
  ASSUME NEW S, NEW s \in Seq(S), NEW e \in S
  PROVE  /\ <<e>> \o s \in Seq(S) /\ Len(<<e>> \o s) = Len(s) + 1 /\ (<<e>> \o s)[1] = e
         /\ \A k \in 1 .. Len(s) : (<<e>> \o s)[k + 1] = s[k]
         /\ \A k \in 2 .. Len(s) + 1 : (<<e>> \o s)[k] = s[k - 1]
OBVIOUS

LEMMA Popped ==
  ASSUME NEW S, NEW s \in Seq(S), s # <<>>
  PROVE  /\ Head(s) = s[1] /\ s[1] \in S /\ Tail(s) \in Seq(S) /\ Len(Tail(s)) = Len(s) - 1
         /\ Len(s) \in Nat \ {0}
         /\ \A k \in 1 .. Len(Tail(s)) : Tail(s)[k] = s[k + 1] /\ k + 1 \in 1 .. Len(s)
OBVIOUS

LEMMA NormType ==
  ASSUME SortTypeOK, NEW k \in Places
  PROVE  Norm(k) \in Nat
BY DEF SortTypeOK, Norm

\* Both indices of part are places from one before l to one after r.
LEMMA IndicesBounded ==
  ASSUME SortTypeOK, CallsInv, PartInv, at \in {"up", "down", "meet"}
  PROVE  /\ calls # <<>> /\ Head(calls) = calls[1] /\ calls[1] \in Pivoted /\ calls[1].l < calls[1].r
         /\ i \in calls[1].l - 1 .. calls[1].r + 1 /\ j \in calls[1].l - 1 .. calls[1].r + 1
<1>1. calls # <<>> /\ calls[1] \in Pivoted
  BY DEF CallsInv
<1>2. Head(calls) = calls[1] /\ calls[1].l < calls[1].r
  BY <1>1, Popped DEF CallsInv
<1>3. calls[1].l \in 0 .. Count /\ calls[1].r \in 0 .. Count /\ Count \in Nat
  BY <1>1, NodeSortAssumption DEF Pivoted
<1>4. PICK a \in Places : i <= a /\ a <= calls[1].r + 1
  BY DEF PartInv, UpStop
<1>5. PICK b \in Places : calls[1].l - 1 <= b /\ b <= j
  BY DEF PartInv, DownStop
<1>6. i >= calls[1].l - 1 /\ j <= calls[1].r + 1 /\ i \in Int /\ j \in Int
  BY NodeSortAssumption DEF PartInv, SortTypeOK, Places
<1>7. i \in calls[1].l - 1 .. calls[1].r + 1
  BY <1>3, <1>4, <1>6 DEF Places
<1>8. j \in calls[1].l - 1 .. calls[1].r + 1
  BY <1>3, <1>5, <1>6 DEF Places
<1> QED BY <1>1, <1>2, <1>7, <1>8

\* A call that returns at once leaves the others, any other comes before them.
LEMMA CallPushed ==
  ASSUME NEW l \in Int, NEW r \in Int, l >= 0, r <= Count,
         NEW s \in Seq(Ends \cup Pivoted),
         \A x \in DOMAIN s : s[x].l < s[x].r,
         \A x, y \in DOMAIN s : x < y => s[x].r < s[y].l,
         \A x \in DOMAIN s : r < s[x].l
  PROVE  /\ Call(l, r) \o s \in Seq(Ends \cup Pivoted)
         /\ \A x \in DOMAIN (Call(l, r) \o s) : (Call(l, r) \o s)[x].l < (Call(l, r) \o s)[x].r
         /\ \A x, y \in DOMAIN (Call(l, r) \o s) : x < y => (Call(l, r) \o s)[x].r < (Call(l, r) \o s)[y].l
         /\ \A x \in DOMAIN (Call(l, r) \o s) :
              \/ (Call(l, r) \o s)[x].l = l
              \/ \E y \in DOMAIN s : (Call(l, r) \o s)[x].l = s[y].l
<1>1. CASE ~(l < r)
  <2>1. Call(l, r) \o s = s
    BY <1>1 DEF Call
  <2> QED BY <2>1
<1>2. CASE l < r
  <2> DEFINE e == [l |-> l, r |-> r]
             z == <<e>> \o s
  <2>1. e \in Ends /\ e.l = l /\ e.r = r
    BY <1>2, NodeSortAssumption DEF Ends
  <2>2. Call(l, r) \o s = z
    BY <1>2 DEF Call
  <2> HIDE DEF e
  <2>3. /\ z \in Seq(Ends \cup Pivoted) /\ Len(z) = Len(s) + 1 /\ z[1] = e
        /\ \A k \in 2 .. Len(s) + 1 : z[k] = s[k - 1]
    BY <2>1, Pushed
  <2>4. DOMAIN z = 1 .. Len(s) + 1 /\ DOMAIN s = 1 .. Len(s) /\ Len(s) \in Nat
    BY <2>3
  <2> HIDE DEF z
  <2>5. \A k \in DOMAIN z : k = 1 \/ (k - 1 \in DOMAIN s /\ z[k] = s[k - 1])
    BY <2>3, <2>4
  <2>6. \A x \in DOMAIN z : z[x].l < z[x].r
    BY <1>2, <2>1, <2>3, <2>5
  <2>7. \A x \in DOMAIN z : z[x].l = l \/ \E y \in DOMAIN s : z[x].l = s[y].l
    BY <2>1, <2>3, <2>5
  <2>8. ASSUME NEW x \in DOMAIN z, NEW y \in DOMAIN z, x < y
        PROVE  z[x].r < z[y].l
    <3>1. y - 1 \in DOMAIN s /\ z[y] = s[y - 1]
      BY <2>4, <2>5, <2>8
    <3>2. CASE x = 1
      BY <2>1, <2>3, <3>1, <3>2
    <3>3. CASE x # 1
      BY <2>4, <2>5, <2>8, <3>1, <3>3
    <3> QED BY <3>2, <3>3
  <2> QED BY <2>2, <2>3, <2>6, <2>7, <2>8
<1> QED BY <1>1, <1>2

-----------------------------------------------------------------------------
(* The invariant. *)

LEMMA InitInv == SortInit => Inv
<1> SUFFICES ASSUME SortInit PROVE Inv
  OBVIOUS
<1>1. 0 \in Places
  BY NodeSortAssumption DEF Places
<1>2. \A x \in Places : norm[x] \in Nat
  BY NodeSortAssumption DEF SortInit
<1>3. norm \in [Places -> Nat] /\ mem \in [Places -> Places]
  BY <1>2 DEF SortInit
<1>4. calls = <<>> /\ at = "lookup"
  BY DEF SortInit
<1>5. SortTypeOK
  BY <1>1, <1>3 DEF SortInit, SortTypeOK
<1> QED BY <1>4, <1>5 DEF Inv, CallsInv, AskedInv, PartInv, CallsApart

LEMMA LookupInv ==
  ASSUME Inv, Lookup
  PROVE  Inv'
<1>1. UNCHANGED <<norm, known, mem, i, j, answer>> /\ at = "lookup" /\ at' \in {"call", "done"}
  BY DEF Lookup, inputs
<1>2. CASE known
  <2>1. n' = (IF n > Count THEN Count ELSE n) /\ calls' = Call(0, Count) /\ at' = "call"
    BY <1>2 DEF Lookup
  <2>2. n' \in 0 .. MaxAsked /\ n' <= Count
    BY <2>1, NodeSortAssumption DEF Inv, SortTypeOK
  <2>4. /\ calls' \in Seq(Ends \cup Pivoted)
        /\ \A x \in DOMAIN calls' : calls'[x].l < calls'[x].r
        /\ \A x, y \in DOMAIN calls' : x < y => calls'[x].r < calls'[y].l
    <3>1. CASE 0 < Count
      <4>1. calls' = <<[l |-> 0, r |-> Count]>> /\ [l |-> 0, r |-> Count] \in Ends
        BY <2>1, <3>1, NodeSortAssumption DEF Call, Ends
      <4> QED BY <3>1, <4>1
    <3>2. CASE ~(0 < Count)
      <4>1. calls' = <<>>
        BY <2>1, <3>2 DEF Call
      <4> QED BY <4>1
    <3> QED BY <3>1, <3>2
  <2>5. SortTypeOK'
    BY <1>1, <2>2 DEF Inv, SortTypeOK
  <2> QED BY <2>1, <2>2, <2>4, <2>5 DEF Inv, CallsInv, AskedInv, PartInv, CallsApart
<1>3. CASE ~known
  <2>1. UNCHANGED <<n, calls>> /\ at' = "done"
    BY <1>3 DEF Lookup
  <2> QED BY <1>1, <2>1 DEF Inv, SortTypeOK, CallsInv, AskedInv, PartInv, CallsApart
<1> QED BY <1>2, <1>3

LEMMA BeginInv ==
  ASSUME Inv, Begin
  PROVE  Inv'
<1> DEFINE c == Head(calls)
           e == [l |-> c.l, r |-> c.r, pivot |-> Norm(c.l)]
<1>1. /\ UNCHANGED <<norm, known, mem, n, answer>> /\ at = "call" /\ at' = "up" /\ calls # <<>>
      /\ calls' = <<e>> \o Tail(calls) /\ i' = c.l - 1 /\ j' = c.r + 1
  BY DEF Begin, inputs
<1>2. /\ calls \in Seq(Ends \cup Pivoted)
      /\ \A x \in DOMAIN calls : calls[x].l < calls[x].r
      /\ \A x, y \in DOMAIN calls : x < y => calls[x].r < calls[y].l
  BY DEF Inv, CallsInv, CallsApart
<1>3. /\ c = calls[1] /\ c \in Ends \cup Pivoted /\ Tail(calls) \in Seq(Ends \cup Pivoted)
      /\ Len(Tail(calls)) = Len(calls) - 1 /\ Len(calls) \in Nat \ {0}
      /\ \A k \in 1 .. Len(Tail(calls)) : Tail(calls)[k] = calls[k + 1] /\ k + 1 \in 1 .. Len(calls)
  BY <1>1, <1>2, Popped
<1>4. /\ c.l \in 0 .. Count /\ c.r \in 0 .. Count /\ Count \in Nat /\ c.l \in Places
      /\ c.l - 1 \in Places /\ c.r + 1 \in Places
  BY <1>3, NodeSortAssumption DEF Ends, Pivoted, Places
<1>5. e \in Pivoted /\ e.l = c.l /\ e.r = c.r /\ e.pivot = Norm(c.l) /\ Norm(c.l) \in Nat
  BY <1>4, NormType DEF Inv, Pivoted
<1> HIDE DEF e
<1>6. /\ calls' \in Seq(Ends \cup Pivoted) /\ Len(calls') = Len(calls) /\ calls'[1] = e
      /\ \A k \in 2 .. Len(calls) : calls'[k] = calls[k]
  <2>1. /\ calls' \in Seq(Ends \cup Pivoted) /\ Len(calls') = Len(Tail(calls)) + 1 /\ calls'[1] = e
        /\ \A k \in 1 .. Len(Tail(calls)) : calls'[k + 1] = Tail(calls)[k]
    BY <1>1, <1>3, <1>5, Pushed
  <2>2. ASSUME NEW k \in 2 .. Len(calls)  PROVE calls'[k] = calls[k]
    <3>1. k - 1 \in 1 .. Len(Tail(calls)) /\ (k - 1) + 1 = k
      BY <1>3
    <3> QED BY <1>3, <2>1, <3>1
  <2> QED BY <1>3, <2>1, <2>2
<1>7. DOMAIN calls' = 1 .. Len(calls) /\ DOMAIN calls = 1 .. Len(calls) /\ calls' # <<>>
  BY <1>2, <1>3, <1>6
<1>8. \A k \in DOMAIN calls' : k \in DOMAIN calls /\ calls'[k].l = calls[k].l /\ calls'[k].r = calls[k].r
  BY <1>3, <1>5, <1>6, <1>7
<1>9. CallsInv' /\ CallsApart'
  BY <1>1, <1>2, <1>5, <1>6, <1>7, <1>8 DEF CallsInv, CallsApart
<1>10. SortTypeOK' /\ AskedInv'
  BY <1>1, <1>4 DEF Inv, SortTypeOK, AskedInv
<1>11. PartInv'
  <2>2. norm'[mem'[c.l]] = e.pivot
    BY <1>1, <1>5 DEF Norm
  <2>3. UpStop' /\ DownStop'
    BY <1>1, <1>2, <1>3, <1>4, <1>5, <1>6, <2>2 DEF UpStop, DownStop, Norm
  <2> QED BY <1>1, <1>4, <1>5, <1>6, <2>3 DEF PartInv
<1> QED BY <1>9, <1>10, <1>11 DEF Inv

LEMMA StepUpInv ==
  ASSUME Inv, StepUp
  PROVE  Inv'
<1>1. UNCHANGED <<norm, known, mem, n, calls, j, answer>> /\ at = "up" /\ at' \in {"up", "down"}
  BY DEF StepUp, inputs
<1>2. /\ calls # <<>> /\ Head(calls) = calls[1] /\ calls[1] \in Pivoted
      /\ i \in calls[1].l - 1 .. calls[1].r + 1
  BY <1>1, IndicesBounded DEF Inv
<1>3. /\ calls[1].l \in 0 .. Count /\ calls[1].r \in 0 .. Count /\ calls[1].pivot \in Nat /\ Count \in Nat
      /\ i \in Places /\ Norm(i) \in Nat /\ i \in Int
  <2>1. /\ calls[1].l \in 0 .. Count /\ calls[1].r \in 0 .. Count /\ calls[1].pivot \in Nat /\ Count \in Nat
    BY <1>2, NodeSortAssumption DEF Pivoted
  <2>2. i \in Places
    BY DEF Inv, SortTypeOK
  <2>3. i \in Int
    BY <2>1, <2>2 DEF Places
  <2>4. Norm(i) \in Nat
    BY <2>2, NormType DEF Inv
  <2> QED BY <2>1, <2>2, <2>3, <2>4
<1>4. PICK k \in Places : i <= k /\ k <= calls[1].r + 1 /\ Norm(k) >= calls[1].pivot
  BY <1>1 DEF Inv, PartInv, UpStop
<1>5. DownStop' /\ CallsInv' /\ AskedInv' /\ CallsApart'
  BY <1>1 DEF Inv, PartInv, DownStop, Norm, CallsInv, AskedInv, CallsApart
<1>6. CASE Norm(i) < calls[1].pivot
  <2>1. i' = i + 1 /\ at' = "up"
    BY <1>1, <1>2, <1>6 DEF StepUp
  <2>2. i # k
    BY <1>3, <1>4, <1>6
  <2>3. i' <= k /\ i' \in Places
    BY <1>3, <1>4, <2>1, <2>2 DEF Places
  <2>4. UpStop'
    BY <1>1, <1>4, <2>3 DEF UpStop, Norm
  <2>5. SortTypeOK'
    BY <1>1, <2>1, <2>3 DEF Inv, SortTypeOK
  <2>6. PartInv'
    BY <1>1, <1>3, <1>5, <2>1, <2>4 DEF Inv, PartInv
  <2> QED BY <1>5, <2>5, <2>6 DEF Inv
<1>7. CASE ~(Norm(i) < calls[1].pivot)
  <2>1. i' = i /\ at' = "down"
    BY <1>1, <1>2, <1>7 DEF StepUp
  <2>2. Norm(i)' = Norm(i) /\ Norm(i) >= calls[1].pivot
    BY <1>1, <1>3, <1>7, <2>1 DEF Norm
  <2>3. UpStop' /\ SortTypeOK'
    BY <1>1, <2>1 DEF Inv, PartInv, UpStop, Norm, SortTypeOK
  <2>4. PartInv'
    BY <1>1, <1>5, <2>1, <2>2, <2>3 DEF Inv, PartInv
  <2> QED BY <1>5, <2>3, <2>4 DEF Inv
<1> QED BY <1>6, <1>7

LEMMA StepDownInv ==
  ASSUME Inv, StepDown
  PROVE  Inv'
<1>1. UNCHANGED <<norm, known, mem, n, calls, i, answer>> /\ at = "down" /\ at' \in {"down", "meet"}
  BY DEF StepDown, inputs
<1>2. /\ calls # <<>> /\ Head(calls) = calls[1] /\ calls[1] \in Pivoted
      /\ j \in calls[1].l - 1 .. calls[1].r + 1
  BY <1>1, IndicesBounded DEF Inv
<1>3. /\ calls[1].l \in 0 .. Count /\ calls[1].r \in 0 .. Count /\ calls[1].pivot \in Nat /\ Count \in Nat
      /\ j \in Places /\ Norm(j) \in Nat /\ j \in Int
  <2>1. /\ calls[1].l \in 0 .. Count /\ calls[1].r \in 0 .. Count /\ calls[1].pivot \in Nat /\ Count \in Nat
    BY <1>2, NodeSortAssumption DEF Pivoted
  <2>2. j \in Places
    BY DEF Inv, SortTypeOK
  <2>3. j \in Int
    BY <2>1, <2>2 DEF Places
  <2>4. Norm(j) \in Nat
    BY <2>2, NormType DEF Inv
  <2> QED BY <2>1, <2>2, <2>3, <2>4
<1>4. PICK k \in Places : calls[1].l - 1 <= k /\ k <= j /\ Norm(k) <= calls[1].pivot
  BY <1>1 DEF Inv, PartInv, DownStop
<1>5. UpStop' /\ CallsInv' /\ AskedInv' /\ CallsApart' /\ Norm(i)' = Norm(i) /\ Norm(i) >= calls[1].pivot
  BY <1>1 DEF Inv, PartInv, UpStop, Norm, CallsInv, AskedInv, CallsApart
<1>6. CASE Norm(j) > calls[1].pivot
  <2>1. j' = j - 1 /\ at' = "down"
    BY <1>1, <1>2, <1>6 DEF StepDown
  <2>2. j # k
    BY <1>3, <1>4, <1>6
  <2>3. k <= j' /\ j' \in Places
    BY <1>3, <1>4, <2>1, <2>2 DEF Places
  <2>4. DownStop'
    BY <1>1, <1>4, <2>3 DEF DownStop, Norm
  <2>5. SortTypeOK'
    BY <1>1, <2>1, <2>3 DEF Inv, SortTypeOK
  <2>6. PartInv'
    BY <1>1, <1>3, <1>5, <2>1, <2>4 DEF Inv, PartInv
  <2> QED BY <1>5, <2>5, <2>6 DEF Inv
<1>7. CASE ~(Norm(j) > calls[1].pivot)
  <2>1. j' = j /\ at' = "meet"
    BY <1>1, <1>2, <1>7 DEF StepDown
  <2>2. Norm(j)' = Norm(j) /\ Norm(j) <= calls[1].pivot
    BY <1>1, <1>3, <1>7, <2>1 DEF Norm
  <2>3. DownStop' /\ SortTypeOK'
    BY <1>1, <2>1 DEF Inv, PartInv, DownStop, Norm, SortTypeOK
  <2>4. PartInv'
    BY <1>1, <1>5, <2>1, <2>2, <2>3 DEF Inv, PartInv
  <2> QED BY <1>5, <2>3, <2>4 DEF Inv
<1> QED BY <1>6, <1>7

\* After a swap each index stands on what will stop the other one.
LEMMA SwapInv ==
  ASSUME Inv, Swap
  PROVE  Inv'
<1>1. /\ UNCHANGED <<norm, known, n, calls, i, j, answer>> /\ at = "meet" /\ at' = "up" /\ i < j
      /\ mem' = [mem EXCEPT ![i] = mem[j], ![j] = mem[i]]
  BY DEF Swap, inputs
<1>2. /\ calls[1] \in Pivoted
      /\ i \in calls[1].l - 1 .. calls[1].r + 1 /\ j \in calls[1].l - 1 .. calls[1].r + 1
  BY <1>1, IndicesBounded DEF Inv
<1>3. i \in Places /\ j \in Places /\ mem \in [Places -> Places] /\ i # j
  <2>1. i \in Places /\ j \in Places /\ mem \in [Places -> Places]
    BY DEF Inv, SortTypeOK
  <2>2. i \in Int
    BY <2>1, NodeSortAssumption DEF Places
  <2> QED BY <1>1, <2>1, <2>2
<1>4. mem' \in [Places -> Places] /\ mem'[i] = mem[j] /\ mem'[j] = mem[i]
  BY <1>1, <1>3
<1>5. norm'[mem'[i]] <= calls[1].pivot /\ norm'[mem'[j]] >= calls[1].pivot
  BY <1>1, <1>4 DEF Inv, PartInv, Norm
<1>6. calls[1].l \in Int /\ calls[1].r \in Int /\ i \in Int /\ j \in Int
  BY <1>2, <1>3, NodeSortAssumption DEF Pivoted, Places
<1>7. UpStop' /\ DownStop'
  BY <1>1, <1>2, <1>3, <1>5, <1>6 DEF UpStop, DownStop, Norm
<1>8. PartInv'
  BY <1>1, <1>2, <1>6, <1>7 DEF PartInv
<1>9. SortTypeOK' /\ CallsInv' /\ AskedInv' /\ CallsApart'
  BY <1>1, <1>4 DEF Inv, SortTypeOK, CallsInv, AskedInv, CallsApart
<1> QED BY <1>8, <1>9 DEF Inv

\* The two sides of the index part returns lie in the call and apart.
LEMMA PartCallsInv ==
  ASSUME Inv, Part
  PROVE  Inv'
<1> DEFINE c == Head(calls)
           s == Tail(calls)
           right == Call(j + 1, c.r) \o s
           both == Call(c.l, j - 1) \o right
<1>1. UNCHANGED <<norm, known, mem, n, i, j, answer>> /\ at = "meet" /\ at' = "call"
  BY DEF Part, inputs
<1>2. /\ calls # <<>> /\ c = calls[1] /\ calls[1] \in Pivoted /\ calls[1].l < calls[1].r
      /\ j \in calls[1].l - 1 .. calls[1].r + 1
  BY <1>1, IndicesBounded DEF Inv
<1>3. c.l \in 0 .. Count /\ c.r \in 0 .. Count /\ Count \in Nat /\ j \in c.l - 1 .. c.r + 1 /\ j \in Int
  BY <1>2, NodeSortAssumption DEF Pivoted
<1>4. /\ calls \in Seq(Ends \cup Pivoted)
      /\ \A x \in DOMAIN calls : calls[x].l < calls[x].r
      /\ \A x, y \in DOMAIN calls : x < y => calls[x].r < calls[y].l
  BY DEF Inv, CallsInv, CallsApart
<1>5. /\ s \in Seq(Ends \cup Pivoted) /\ Len(s) = Len(calls) - 1 /\ Len(calls) \in Nat \ {0}
      /\ \A k \in 1 .. Len(s) : s[k] = calls[k + 1] /\ k + 1 \in 1 .. Len(calls)
  BY <1>2, <1>4, Popped
<1>6. DOMAIN s = 1 .. Len(s) /\ DOMAIN calls = 1 .. Len(calls) /\ Len(s) \in Nat
  BY <1>4, <1>5
<1>7. calls' = both
  <2>1. Call(c.l, j - 1) \in Seq(Ends) /\ Call(j + 1, c.r) \in Seq(Ends)
    <3>1. [l |-> c.l, r |-> j - 1] \in Ends \/ ~(c.l < j - 1)
      BY <1>3 DEF Ends
    <3>2. [l |-> j + 1, r |-> c.r] \in Ends \/ ~(j + 1 < c.r)
      BY <1>3 DEF Ends
    <3> QED BY <3>1, <3>2 DEF Call
  <2>2. calls' = (Call(c.l, j - 1) \o Call(j + 1, c.r)) \o s
    BY DEF Part
  <2>3. \A a, b, d \in Seq(Ends \cup Pivoted) : (a \o b) \o d = a \o (b \o d)
    OBVIOUS
  <2> QED BY <1>5, <2>1, <2>2, <2>3
<1> HIDE DEF s
<1>8. /\ \A x \in DOMAIN s : s[x].l < s[x].r
      /\ \A x, y \in DOMAIN s : x < y => s[x].r < s[y].l
      /\ \A x \in DOMAIN s : c.r < s[x].l
  <2>1. \A x \in DOMAIN s : x + 1 \in DOMAIN calls /\ s[x] = calls[x + 1] /\ x \in Nat \ {0}
    BY <1>5, <1>6
  <2>2. 1 \in DOMAIN calls /\ c = calls[1]
    BY <1>2, <1>5, <1>6
  <2>3. \A x \in DOMAIN s : s[x].l < s[x].r
    BY <1>4, <2>1
  <2>4. ASSUME NEW x \in DOMAIN s, NEW y \in DOMAIN s, x < y  PROVE s[x].r < s[y].l
    <3>1. x + 1 < y + 1
      BY <2>1, <2>4
    <3> QED BY <1>4, <2>1, <3>1
  <2>5. ASSUME NEW x \in DOMAIN s  PROVE c.r < s[x].l
    <3>1. 1 < x + 1
      BY <2>1
    <3> QED BY <1>4, <2>1, <2>2, <3>1
  <2> QED BY <2>3, <2>4, <2>5
<1>9. /\ right \in Seq(Ends \cup Pivoted)
      /\ \A x \in DOMAIN right : right[x].l < right[x].r
      /\ \A x, y \in DOMAIN right : x < y => right[x].r < right[y].l
      /\ \A x \in DOMAIN right : right[x].l = j + 1 \/ \E y \in DOMAIN s : right[x].l = s[y].l
  <2>1. j + 1 \in Int /\ c.r \in Int /\ j + 1 >= 0 /\ c.r <= Count
    BY <1>3
  <2> HIDE DEF c
  <2> QED BY <1>5, <1>8, <2>1, CallPushed
<1>10. \A x \in DOMAIN s : s[x].l \in Int
  BY <1>5, <1>6, NodeSortAssumption DEF Ends, Pivoted
<1>11. \A x \in DOMAIN right : j - 1 < right[x].l
  BY <1>3, <1>8, <1>9, <1>10
<1> HIDE DEF right
<1>12. /\ both \in Seq(Ends \cup Pivoted)
       /\ \A x \in DOMAIN both : both[x].l < both[x].r
       /\ \A x, y \in DOMAIN both : x < y => both[x].r < both[y].l
  <2>1. c.l \in Int /\ j - 1 \in Int /\ c.l >= 0 /\ j - 1 <= Count
    BY <1>3
  <2> HIDE DEF c
  <2> QED BY <1>9, <1>11, <2>1, CallPushed
<1> HIDE DEF both
<1>13. SortTypeOK' /\ AskedInv'
  BY <1>1 DEF Inv, SortTypeOK, AskedInv
<1> QED BY <1>1, <1>7, <1>12, <1>13 DEF Inv, CallsInv, CallsApart, PartInv

LEMMA ReturnInv ==
  ASSUME Inv, Return
  PROVE  Inv'
<1>1. /\ UNCHANGED <<norm, known, mem, n, calls, i, j>> /\ at = "call" /\ at' = "done"
      /\ answer' = [x \in 1 .. n |-> mem[x - 1]]
  BY DEF Return, inputs
<1>2. n \in Nat /\ n <= Count /\ mem \in [Places -> Places]
  BY <1>1, NodeSortAssumption DEF Inv, SortTypeOK, AskedInv
<1>3. \A x \in 1 .. n : mem[x - 1] \in Places
  BY <1>2, NodeSortAssumption DEF Places
<1>4. answer' \in Seq(Places)
  BY <1>1, <1>2, <1>3
<1> QED BY <1>1, <1>4 DEF Inv, SortTypeOK, CallsInv, AskedInv, PartInv, CallsApart

LEMMA StepInv == Inv /\ [SortNext]_sortVars => Inv'
<1> SUFFICES ASSUME Inv, [SortNext]_sortVars PROVE Inv'
  OBVIOUS
<1>1. CASE UNCHANGED sortVars
  BY <1>1 DEF sortVars, inputs, Inv, SortTypeOK, CallsInv, AskedInv, PartInv, UpStop, DownStop, Norm, CallsApart
<1>2. CASE SortNext
  BY <1>2, LookupInv, BeginInv, StepUpInv, StepDownInv, PartCallsInv, SwapInv, ReturnInv DEF SortNext
<1> QED BY <1>1, <1>2

LEMMA InvAlways == SortSpec => []Inv
BY InitInv, StepInv, PTL DEF SortSpec

-----------------------------------------------------------------------------
(* The properties. *)

\* Every variable keeps its type.
THEOREM TypeCorrect == SortSpec => []SortTypeOK
<1>1. Inv => SortTypeOK
  BY DEF Inv
<1> QED BY <1>1, InvAlways, PTL

\* The indices of part stay within one place of the ends of every call, for
\* tables of any size and any norms, in the table and around it.
THEOREM IndicesStayBounded == SortSpec => []Bounded
<1>1. Inv => Bounded
  BY IndicesBounded DEF Inv, Bounded
<1> QED BY <1>1, InvAlways, PTL

\* The calls to come never share a place.
THEOREM CallsStayApart == SortSpec => []CallsApart
<1>1. Inv => CallsApart
  BY DEF Inv
<1> QED BY <1>1, InvAlways, PTL

-----------------------------------------------------------------------------
(* The sort. *)

Running == at \in {"up", "down", "meet"}

\* Nothing is lost or doubled.
Permuted ==
  /\ \A x, y \in Places : mem[x] = mem[y] => x = y
  /\ \A z \in Places : \E x \in Places : mem[x] = z

\* The places a call may bring into order: its own, and with them the place
\* before the copy or the one behind the last, when it reaches that far.
Covers(c, p) ==
  \/ c.l <= p /\ p <= c.r
  \/ p = -1 /\ c.l = 0
  \/ p = Count + 1 /\ c.r = Count

Held(p) == p \in 0 .. Count \/ \E x \in DOMAIN calls : Covers(calls[x], p)

Together(p, q) == \E x \in DOMAIN calls : Covers(calls[x], p) /\ Covers(calls[x], q)

\* Two places that are out of order are in one call to come.
Ordered ==
  \A p, q \in Places : p < q /\ Held(p) /\ Held(q) => Norm(p) <= Norm(q) \/ Together(p, q)

\* Outside of the indices the call is on the right side of the pivot, and
\* something with the pivot's norm is between them.
Parted ==
  /\ \E k \in Places : i <= k /\ k <= j /\ Norm(k) = calls[1].pivot
  /\ \A p \in Places : Covers(calls[1], p) /\ p < i => Norm(p) <= calls[1].pivot
  /\ \A p \in Places : Covers(calls[1], p) /\ j < p => Norm(p) >= calls[1].pivot

SortInv ==
  /\ Permuted
  /\ at = "call" \/ Running => Ordered
  /\ Running => Parted

-----------------------------------------------------------------------------
(* The places of the calls. *)

LEMMA PlacesAreInts ==
  /\ Places \subseteq Int /\ Count \in Nat /\ -1 \in Places /\ Count + 1 \in Places
  /\ 0 .. Count \subseteq Places
  /\ \A p \in Places : p = -1 \/ p = Count + 1 \/ p \in 0 .. Count
BY NodeSortAssumption DEF Places

\* The ends of a call to come are in the table.
LEMMA CallEnds ==
  ASSUME CallsInv, NEW x \in DOMAIN calls
  PROVE  /\ calls[x].l \in 0 .. Count /\ calls[x].r \in 0 .. Count /\ calls[x].l < calls[x].r
         /\ calls[x].l \in Int /\ calls[x].r \in Int
         /\ x \in Int /\ DOMAIN calls = 1 .. Len(calls) /\ Len(calls) \in Nat
<1>1. calls \in Seq(Ends \cup Pivoted) /\ calls[x].l < calls[x].r
  BY DEF CallsInv
<1>2. calls[x] \in Ends \cup Pivoted /\ x \in Int /\ DOMAIN calls = 1 .. Len(calls) /\ Len(calls) \in Nat
  BY <1>1
<1>3. calls[x].l \in 0 .. Count /\ calls[x].r \in 0 .. Count
  BY <1>2 DEF Ends, Pivoted
<1> QED BY <1>1, <1>2, <1>3, NodeSortAssumption

\* The places of a call have no gap.
LEMMA InBetween ==
  ASSUME NEW c, c.l \in 0 .. Count, c.r \in 0 .. Count,
         NEW p \in Places, NEW q \in Places, NEW y \in Places,
         Covers(c, p), Covers(c, y), p <= q, q <= y
  PROVE  Covers(c, q)
<1>1. Count \in Nat /\ p \in Int /\ q \in Int /\ y \in Int /\ c.l \in Int /\ c.r \in Int
  BY PlacesAreInts
<1> QED BY <1>1 DEF Covers, Places

\* No place is in two calls to come.
LEMMA InApart ==
  ASSUME CallsInv, CallsApart, NEW x \in DOMAIN calls, NEW y \in DOMAIN calls, x # y,
         NEW p \in Places, Covers(calls[x], p)
  PROVE  ~Covers(calls[y], p)
<1>1. /\ calls[x].l \in 0 .. Count /\ calls[x].r \in 0 .. Count /\ calls[x].l < calls[x].r /\ x \in Int
      /\ calls[x].l \in Int /\ calls[x].r \in Int
  BY CallEnds
<1>2. /\ calls[y].l \in 0 .. Count /\ calls[y].r \in 0 .. Count /\ calls[y].l < calls[y].r /\ y \in Int
      /\ calls[y].l \in Int /\ calls[y].r \in Int
  BY CallEnds
<1>3. calls[x].r < calls[y].l \/ calls[y].r < calls[x].l
  <2>1. x < y \/ y < x
    BY <1>1, <1>2
  <2> QED BY <2>1 DEF CallsApart
<1>4. p \in Int /\ Count \in Int
  BY PlacesAreInts
<1> QED BY <1>1, <1>2, <1>3, <1>4 DEF Covers

\* Of two places, only one of which is in the call at hand, the lower one has
\* the lower norm.
LEMMA EndsOrdered ==
  ASSUME CallsInv, CallsApart, Ordered, 1 \in DOMAIN calls,
         NEW p \in Places, NEW q \in Places, p < q, Held(p), Held(q),
         (Covers(calls[1], p) /\ ~Covers(calls[1], q)) \/ (~Covers(calls[1], p) /\ Covers(calls[1], q))
  PROVE  Norm(p) <= Norm(q)
<1>1. SUFFICES ASSUME NEW x \in DOMAIN calls, Covers(calls[x], p), Covers(calls[x], q)
               PROVE  FALSE
  BY DEF Ordered, Together
<1>2. x # 1
  BY <1>1
<1>3. ~Covers(calls[1], p) /\ ~Covers(calls[1], q)
  BY <1>1, <1>2, InApart
<1> QED BY <1>3

-----------------------------------------------------------------------------
(* Each step keeps it. *)

LEMMA InitSort == SortInit => SortInv
<1> SUFFICES ASSUME SortInit PROVE SortInv
  OBVIOUS
<1>1. mem = [x \in Places |-> x] /\ at = "lookup"
  BY DEF SortInit
<1>2. Permuted
  BY <1>1 DEF Permuted
<1> QED BY <1>1, <1>2 DEF SortInv, Running

\* The first call holds all places, so no two of them need be in order yet.
LEMMA LookupSort ==
  ASSUME SortInv, Lookup
  PROVE  SortInv'
<1>1. UNCHANGED <<norm, known, mem>> /\ at' \in {"call", "done"}
  BY DEF Lookup, inputs
<1>2. Permuted'
  BY <1>1 DEF SortInv, Permuted
<1>3. ~Running'
  BY <1>1 DEF Running
<1>4. ASSUME at' = "call"  PROVE Ordered'
  <2> SUFFICES ASSUME NEW p \in Places, NEW q \in Places, p < q, Held(p)', Held(q)'
               PROVE  Together(p, q)'
    BY DEF Ordered
  <2>1. calls' = Call(0, Count)
    BY <1>4 DEF Lookup
  <2>2. p \in Int /\ q \in Int /\ Count \in Nat
    BY PlacesAreInts
  <2>3. CASE 0 < Count
    <3>1. calls' = <<[l |-> 0, r |-> Count]>>
      BY <2>1, <2>3 DEF Call
    <3>2. 1 \in DOMAIN calls' /\ calls'[1].l = 0 /\ calls'[1].r = Count
      BY <3>1
    <3>3. \A z \in Places : z = -1 \/ z = Count + 1 \/ (0 <= z /\ z <= Count)
      BY PlacesAreInts
    <3>4. Covers(calls'[1], p) /\ Covers(calls'[1], q)
      BY <3>2, <3>3 DEF Covers
    <3> QED BY <3>2, <3>4 DEF Together
  <2>4. CASE ~(0 < Count)
    <3>1. calls' = <<>>
      BY <2>1, <2>4 DEF Call
    <3>2. p \in 0 .. Count /\ q \in 0 .. Count
      BY <3>1 DEF Held
    <3> QED BY <2>2, <2>4, <3>2
  <2> QED BY <2>3, <2>4
<1> QED BY <1>2, <1>3, <1>4 DEF SortInv

\* The pivot of a call is written beside its ends.
LEMMA BeginCalls ==
  ASSUME Inv, Begin
  PROVE  /\ DOMAIN calls' = DOMAIN calls /\ 1 \in DOMAIN calls
         /\ \A k \in DOMAIN calls : calls'[k].l = calls[k].l /\ calls'[k].r = calls[k].r
         /\ calls'[1].pivot = Norm(calls[1].l)
         /\ i' = calls[1].l - 1 /\ j' = calls[1].r + 1
         /\ calls[1].l \in Nodes /\ calls[1].r \in 0 .. Count
<1> DEFINE c == Head(calls)
           e == [l |-> c.l, r |-> c.r, pivot |-> Norm(c.l)]
           s == Tail(calls)
<1>1. calls # <<>> /\ calls' = <<e>> \o s /\ i' = c.l - 1 /\ j' = c.r + 1
  BY DEF Begin
<1>2. calls \in Seq(Ends \cup Pivoted) /\ \A x \in DOMAIN calls : calls[x].l < calls[x].r
  BY DEF Inv, CallsInv
<1>3. /\ c = calls[1] /\ c \in Ends \cup Pivoted /\ s \in Seq(Ends \cup Pivoted)
      /\ Len(s) = Len(calls) - 1 /\ Len(calls) \in Nat \ {0}
      /\ \A k \in 1 .. Len(s) : s[k] = calls[k + 1] /\ k + 1 \in 1 .. Len(calls)
  BY <1>1, <1>2, Popped
<1>4. DOMAIN calls = 1 .. Len(calls) /\ 1 \in DOMAIN calls
  BY <1>2, <1>3
<1>5. c.l \in 0 .. Count /\ c.r \in 0 .. Count /\ c.l < c.r
  BY <1>2, <1>3, <1>4 DEF Ends, Pivoted
<1>6. c.l \in Nodes /\ c.l \in Places
  BY <1>5, NodeSortAssumption DEF Nodes, Places
<1>7. e \in Pivoted /\ e.l = c.l /\ e.r = c.r /\ e.pivot = Norm(c.l)
  BY <1>5, <1>6, NormType DEF Inv, Pivoted
<1> HIDE DEF e, s
<1>8. /\ calls' \in Seq(Ends \cup Pivoted) /\ Len(calls') = Len(s) + 1 /\ calls'[1] = e
      /\ \A k \in 1 .. Len(s) : calls'[k + 1] = s[k]
  BY <1>1, <1>3, <1>7, Pushed
<1>9. DOMAIN calls' = DOMAIN calls
  BY <1>3, <1>4, <1>8
<1>10. ASSUME NEW k \in DOMAIN calls  PROVE calls'[k].l = calls[k].l /\ calls'[k].r = calls[k].r
  <2>1. CASE k = 1
    BY <1>3, <1>7, <1>8, <2>1
  <2>2. CASE k # 1
    <3>1. k - 1 \in 1 .. Len(s) /\ (k - 1) + 1 = k
      BY <1>3, <1>4, <2>2
    <3> QED BY <1>3, <1>8, <3>1
  <2> QED BY <2>1, <2>2
<1> QED BY <1>1, <1>3, <1>4, <1>5, <1>6, <1>7, <1>8, <1>9, <1>10

\* Calls with the same ends have the same places.
LEMMA SameEndsIn ==
  ASSUME NEW c, NEW d, c.l = d.l, c.r = d.r, NEW p
  PROVE  Covers(c, p) <=> Covers(d, p)
BY DEF Covers

LEMMA BeginSort ==
  ASSUME Inv, SortInv, Begin
  PROVE  SortInv'
<1>1. UNCHANGED <<norm, mem>> /\ at = "call" /\ at' = "up"
  BY DEF Begin, inputs
<1>2. Permuted /\ Ordered
  BY <1>1 DEF SortInv
<1>3. Permuted'
  BY <1>1, <1>2 DEF Permuted
<1>4. /\ DOMAIN calls' = DOMAIN calls
      /\ \A x \in DOMAIN calls : \A p : Covers(calls'[x], p) <=> Covers(calls[x], p)
  BY BeginCalls, SameEndsIn
<1>5. Ordered'
  <2> SUFFICES ASSUME NEW p \in Places, NEW q \in Places, p < q, Held(p)', Held(q)'
               PROVE  (Norm(p) <= Norm(q) \/ Together(p, q))'
    BY DEF Ordered
  <2>1. Held(p) /\ Held(q)
    BY <1>4 DEF Held
  <2>2. Norm(p) <= Norm(q) \/ Together(p, q)
    BY <1>2, <2>1 DEF Ordered
  <2>3. Together(p, q) => Together(p, q)'
    BY <1>4 DEF Together
  <2> QED BY <1>1, <2>2, <2>3 DEF Norm
<1>6. Parted'
  <2> DEFINE l == calls[1].l
  <2>1. /\ l \in Nodes /\ calls'[1].l = l /\ calls'[1].r = calls[1].r /\ calls'[1].pivot = Norm(l)
        /\ i' = l - 1 /\ j' = calls[1].r + 1 /\ l < calls[1].r /\ calls[1].r \in 0 .. Count
    BY BeginCalls DEF Inv, CallsInv
  <2>2. l \in Int /\ calls[1].r \in Int /\ l \in Places /\ Count \in Nat
    BY <2>1, NodeSortAssumption DEF Nodes, Places
  <2>3. \A p \in Places : p \in Int /\ -1 <= p /\ p <= Count + 1
    BY NodeSortAssumption DEF Places
  <2>4. norm'[mem'[l]] = calls'[1].pivot
    BY <1>1, <2>1 DEF Norm
  <2>5. i' <= l /\ l <= j'
    BY <2>1, <2>2
  <2> HIDE DEF l
  <2>6. ASSUME NEW p \in Places, Covers(calls'[1], p)  PROVE ~(p < i') /\ ~(j' < p)
    <3>1. (l <= p /\ p <= calls[1].r) \/ (p = -1 /\ l = 0) \/ (p = Count + 1 /\ calls[1].r = Count)
      BY <2>1, <2>6 DEF Covers
    <3>2. l >= 0 /\ l <= calls[1].r
      BY <2>1, <2>2, NodeSortAssumption DEF Nodes
    <3>3. p \in Int /\ -1 <= p /\ p <= Count + 1
      BY <2>3
    <3>4. i' = l - 1 /\ j' = calls[1].r + 1
      BY <2>1
    <3>5. ~(p < l - 1) /\ ~(calls[1].r + 1 < p)
      BY <2>2, <3>1, <3>2, <3>3
    <3> QED BY <3>4, <3>5
  <2> QED BY <2>2, <2>4, <2>5, <2>6 DEF Parted, Norm
<1> QED BY <1>1, <1>3, <1>5, <1>6 DEF SortInv

LEMMA StepUpSort ==
  ASSUME Inv, SortInv, StepUp
  PROVE  SortInv'
<1>1. UNCHANGED <<norm, mem, calls, j>> /\ at = "up" /\ at' \in {"up", "down"}
  BY DEF StepUp, inputs
<1>2. Permuted /\ Ordered /\ Parted
  BY <1>1 DEF SortInv, Running
<1>3. Permuted' /\ Ordered'
  BY <1>1, <1>2 DEF Permuted, Ordered, Norm, Together, Held
<1>4. /\ Head(calls) = calls[1] /\ calls[1].pivot \in Nat /\ i \in Int /\ Norm(i) \in Nat
  <2>1. Head(calls) = calls[1] /\ calls[1] \in Pivoted /\ i \in Places
    BY <1>1, IndicesBounded DEF Inv, SortTypeOK
  <2> QED BY <2>1, NormType, NodeSortAssumption DEF Pivoted, Places, Inv
<1>5. PICK k \in Places : i <= k /\ k <= j /\ Norm(k) = calls[1].pivot
  BY <1>2 DEF Parted
<1>6. CASE Norm(i) < calls[1].pivot
  <2>1. i' = i + 1 /\ i # k
    BY <1>1, <1>4, <1>5, <1>6 DEF StepUp
  <2>2. k \in Int /\ \A p \in Places : p \in Int
    BY NodeSortAssumption DEF Places
  <2>3. i' <= k
    BY <1>4, <1>5, <2>1, <2>2
  <2>4. ASSUME NEW p \in Places, Covers(calls[1], p), p < i'  PROVE Norm(p) <= calls[1].pivot
    <3>1. CASE p = i
      BY <1>4, <1>6, <3>1
    <3>2. CASE p # i
      <4>0. p \in Int /\ i \in Int /\ p # i /\ p < i + 1
        BY <1>4, <2>1, <2>2, <2>4, <3>2, Zenon
      <4>1. p < i
        BY <4>0
      <4> QED BY <1>2, <2>4, <4>1 DEF Parted
    <3> QED BY <3>1, <3>2
  <2>5. Parted'
    BY <1>1, <1>2, <1>5, <2>3, <2>4 DEF Parted, Norm
  <2> QED BY <1>3, <2>5 DEF SortInv
<1>7. CASE ~(Norm(i) < calls[1].pivot)
  <2>1. i' = i
    BY <1>1, <1>4, <1>7 DEF StepUp
  <2>2. Parted'
    BY <1>1, <1>2, <2>1 DEF Parted, Norm
  <2> QED BY <1>3, <2>2 DEF SortInv
<1> QED BY <1>6, <1>7

LEMMA StepDownSort ==
  ASSUME Inv, SortInv, StepDown
  PROVE  SortInv'
<1>1. UNCHANGED <<norm, mem, calls, i>> /\ at = "down" /\ at' \in {"down", "meet"}
  BY DEF StepDown, inputs
<1>2. Permuted /\ Ordered /\ Parted
  BY <1>1 DEF SortInv, Running
<1>3. Permuted' /\ Ordered'
  BY <1>1, <1>2 DEF Permuted, Ordered, Norm, Together, Held
<1>4. /\ Head(calls) = calls[1] /\ calls[1].pivot \in Nat /\ j \in Int /\ Norm(j) \in Nat
  <2>1. Head(calls) = calls[1] /\ calls[1] \in Pivoted /\ j \in Places
    BY <1>1, IndicesBounded DEF Inv, SortTypeOK
  <2> QED BY <2>1, NormType, NodeSortAssumption DEF Pivoted, Places, Inv
<1>5. PICK k \in Places : i <= k /\ k <= j /\ Norm(k) = calls[1].pivot
  BY <1>2 DEF Parted
<1>6. CASE Norm(j) > calls[1].pivot
  <2>1. j' = j - 1 /\ j # k
    BY <1>1, <1>4, <1>5, <1>6 DEF StepDown
  <2>2. k \in Int /\ \A p \in Places : p \in Int
    BY NodeSortAssumption DEF Places
  <2>3. k <= j'
    BY <1>4, <1>5, <2>1, <2>2
  <2>4. ASSUME NEW p \in Places, Covers(calls[1], p), j' < p  PROVE Norm(p) >= calls[1].pivot
    <3>1. CASE p = j
      BY <1>4, <1>6, <3>1
    <3>2. CASE p # j
      <4>0. p \in Int /\ j \in Int /\ p # j /\ j - 1 < p
        BY <1>4, <2>1, <2>2, <2>4, <3>2, Zenon
      <4>1. j < p
        BY <4>0
      <4> QED BY <1>2, <2>4, <4>1 DEF Parted
    <3> QED BY <3>1, <3>2
  <2>5. Parted'
    BY <1>1, <1>2, <1>5, <2>3, <2>4 DEF Parted, Norm
  <2> QED BY <1>3, <2>5 DEF SortInv
<1>7. CASE ~(Norm(j) > calls[1].pivot)
  <2>1. j' = j
    BY <1>1, <1>4, <1>7 DEF StepDown
  <2>2. Parted'
    BY <1>1, <1>2, <2>1 DEF Parted, Norm
  <2> QED BY <1>3, <2>2 DEF SortInv
<1> QED BY <1>6, <1>7

\* Both indices stand in the call, or the two norms are the same: a place next
\* to the call is in order with all that is in it.
LEMMA SwapSort ==
  ASSUME Inv, SortInv, Swap
  PROVE  SortInv'
<1>1. /\ UNCHANGED <<norm, calls, i, j>> /\ at = "meet" /\ at' = "up" /\ i < j
      /\ mem' = [mem EXCEPT ![i] = mem[j], ![j] = mem[i]]
  BY DEF Swap, inputs
<1>2. Permuted /\ Ordered /\ Parted /\ CallsInv /\ CallsApart
  BY <1>1 DEF SortInv, Running, Inv
<1> DEFINE c == calls[1]
           l == calls[1].l
           r == calls[1].r
           v == calls[1].pivot
<1>3. /\ 1 \in DOMAIN calls /\ l \in 0 .. Count /\ r \in 0 .. Count /\ l < r /\ v \in Int
      /\ i \in l - 1 .. r + 1 /\ j \in l - 1 .. r + 1
  <2>1. calls # <<>> /\ calls \in Seq(Ends \cup Pivoted)
    BY <1>1 DEF Inv, CallsInv
  <2>2. calls[1] \in Pivoted /\ l < r /\ i \in l - 1 .. r + 1 /\ j \in l - 1 .. r + 1
    BY <1>1, IndicesBounded DEF Inv
  <2>3. 1 \in DOMAIN calls
    BY <2>1
  <2> QED BY <2>2, <2>3, NodeSortAssumption DEF Pivoted
<1>4. /\ i \in Places /\ j \in Places /\ mem \in [Places -> Places] /\ i # j
      /\ Places \subseteq Int /\ i \in Int /\ j \in Int
      /\ \A x \in Places : Norm(x) \in Int
  <2>1. i \in Places /\ j \in Places /\ mem \in [Places -> Places]
    BY DEF Inv, SortTypeOK
  <2>2. Places \subseteq Int
    BY PlacesAreInts
  <2>3. \A x \in Places : Norm(x) \in Int
    BY NormType DEF Inv
  <2> QED BY <1>1, <2>1, <2>2, <2>3
<1>5. Norm(i) >= v /\ Norm(j) <= v
  BY <1>1 DEF Inv, PartInv
<1>6. \A x \in Places : mem'[x] = IF x = i THEN mem[j] ELSE IF x = j THEN mem[i] ELSE mem[x]
  BY <1>1, <1>4
<1>7. /\ norm'[mem'[i]] = Norm(j) /\ norm'[mem'[j]] = Norm(i)
      /\ \A x \in Places : x # i /\ x # j => norm'[mem'[x]] = Norm(x)
  BY <1>1, <1>4, <1>6 DEF Norm
<1>8. Permuted'
  <2>1. \A x, y \in Places : mem'[x] = mem'[y] => x = y
    BY <1>2, <1>4, <1>6 DEF Permuted
  <2>2. ASSUME NEW z \in Places  PROVE \E x \in Places : mem'[x] = z
    <3>1. PICK x \in Places : mem[x] = z
      BY <1>2 DEF Permuted
    <3>2. mem'[IF x = i THEN j ELSE IF x = j THEN i ELSE x] = z
      BY <1>4, <1>6, <3>1
    <3> QED BY <1>4, <3>2
  <2> QED BY <2>1, <2>2 DEF Permuted
<1>9. ASSUME NEW p \in l - 1 .. r + 1, ~Covers(c, p)
      PROVE  Held(p) /\ ((p = l - 1 /\ ~(p > l)) \/ p = r + 1)
  <2>1. Count \in Nat /\ l \in Int /\ r \in Int /\ p \in Int
    BY <1>3, PlacesAreInts
  <2>2. ~(l <= p /\ p <= r) /\ ~(p = -1 /\ l = 0) /\ ~(p = Count + 1 /\ r = Count)
    BY <1>9 DEF Covers
  <2>3. p = l - 1 \/ p = r + 1
    BY <2>1, <2>2
  <2>4. p \in 0 .. Count
    BY <1>3, <2>1, <2>2, <2>3
  <2> QED BY <2>1, <2>3, <2>4 DEF Held
<1>10. \A p \in Places : Covers(c, p) => Held(p)
  BY <1>3 DEF Held
<1>11. l \in Places /\ Covers(c, l) /\ l \in Int /\ r \in Int
  BY <1>3, PlacesAreInts DEF Covers
<1>12. (Covers(c, i) /\ Covers(c, j)) \/ Norm(i) = Norm(j)
  <2>1. ASSUME ~(Covers(c, i) /\ Covers(c, j))  PROVE Norm(i) <= Norm(j)
    <3>1. Held(i) /\ Held(j)
      BY <1>3, <1>4, <1>9, <1>10
    <3>2. CASE Covers(c, i) \/ Covers(c, j)
      BY <1>1, <1>2, <1>3, <1>4, <2>1, <3>1, <3>2, EndsOrdered
    <3>3. CASE ~Covers(c, i) /\ ~Covers(c, j)
      <4>1. i = l - 1 /\ j = r + 1
        BY <1>1, <1>3, <1>4, <1>9, <1>11, <3>3
      <4>2. i < l /\ l < j
        BY <1>3, <1>11, <4>1
      <4>3. Norm(i) <= Norm(l)
        BY <1>2, <1>3, <1>4, <1>10, <1>11, <3>1, <3>3, <4>2, EndsOrdered
      <4>4. Norm(l) <= Norm(j)
        BY <1>2, <1>3, <1>4, <1>10, <1>11, <3>1, <3>3, <4>2, EndsOrdered
      <4> QED BY <1>4, <1>11, <4>3, <4>4
    <3> QED BY <3>2, <3>3
  <2> QED BY <1>3, <1>4, <1>5, <2>1
<1>13. Ordered'
  <2> SUFFICES ASSUME NEW p \in Places, NEW q \in Places, p < q, Held(p), Held(q)
               PROVE  norm'[mem'[p]] <= norm'[mem'[q]] \/ Together(p, q)
    BY <1>1 DEF Ordered, Norm, Together, Held
  <2>1. Norm(p) <= Norm(q) \/ Together(p, q)
    BY <1>2 DEF Ordered
  <2>2. p \in Int /\ q \in Int
    BY <1>4
  <2>3. CASE Norm(i) = Norm(j)
    <3>1. norm'[mem'[p]] = Norm(p) /\ norm'[mem'[q]] = Norm(q)
      BY <1>7, <2>3
    <3> QED BY <2>1, <3>1
  <2>4. CASE Covers(c, i) /\ Covers(c, j)
    <3>1. CASE Covers(c, p) /\ Covers(c, q)
      BY <1>3, <3>1 DEF Together
    <3>2. CASE ~Covers(c, p) /\ ~Covers(c, q)
      BY <1>7, <2>1, <2>4, <3>2
    <3>3. CASE Covers(c, p) /\ ~Covers(c, q)
      <4>1. i < q /\ j < q /\ i # q /\ j # q
        <5>1. q # i /\ q # j
          BY <2>4, <3>3
        <5>2. ~(q <= i) /\ ~(q <= j)
          BY <1>3, <1>4, <2>2, <2>4, <3>3, InBetween
        <5> QED BY <1>4, <2>2, <5>1, <5>2
      <4>2. Norm(i) <= Norm(q) /\ Norm(j) <= Norm(q) /\ Norm(p) <= Norm(q)
        BY <1>2, <1>3, <1>4, <1>10, <2>4, <3>3, <4>1, EndsOrdered
      <4>3. norm'[mem'[q]] = Norm(q)
        BY <1>7, <4>1
      <4>4. norm'[mem'[p]] \in {Norm(i), Norm(j), Norm(p)}
        BY <1>7
      <4> QED BY <4>2, <4>3, <4>4
    <3>4. CASE ~Covers(c, p) /\ Covers(c, q)
      <4>1. p < i /\ p < j /\ i # p /\ j # p
        <5>1. p # i /\ p # j
          BY <2>4, <3>4
        <5>2. ~(i <= p) /\ ~(j <= p)
          BY <1>3, <1>4, <2>2, <2>4, <3>4, InBetween
        <5> QED BY <1>4, <2>2, <5>1, <5>2
      <4>2. Norm(p) <= Norm(i) /\ Norm(p) <= Norm(j) /\ Norm(p) <= Norm(q)
        BY <1>2, <1>3, <1>4, <1>10, <2>4, <3>4, <4>1, EndsOrdered
      <4>3. norm'[mem'[p]] = Norm(p)
        BY <1>7, <4>1
      <4>4. norm'[mem'[q]] \in {Norm(i), Norm(j), Norm(q)}
        BY <1>7
      <4> QED BY <4>2, <4>3, <4>4
    <3> QED BY <3>1, <3>2, <3>3, <3>4
  <2> QED BY <1>12, <2>3, <2>4
<1>14. Parted'
  <2>1. PICK k \in Places : i <= k /\ k <= j /\ Norm(k) = v
    BY <1>2 DEF Parted
  <2>2. \E x \in Places : i <= x /\ x <= j /\ norm'[mem'[x]] = v
    <3>1. CASE k = i
      BY <1>1, <1>4, <1>7, <2>1, <3>1
    <3>2. CASE k = j
      BY <1>1, <1>4, <1>7, <2>1, <3>2
    <3>3. CASE k # i /\ k # j
      BY <1>7, <2>1, <3>3
    <3> QED BY <3>1, <3>2, <3>3
  <2>3. ASSUME NEW p \in Places, p < i \/ j < p  PROVE norm'[mem'[p]] = Norm(p)
    <3>1. p # i /\ p # j
      BY <1>1, <1>4, <2>3
    <3> QED BY <1>7, <3>1
  <2>4. \A p \in Places : Covers(c, p) /\ p < i => norm'[mem'[p]] <= v
    BY <1>2, <2>3 DEF Parted
  <2>5. \A p \in Places : Covers(c, p) /\ j < p => norm'[mem'[p]] >= v
    BY <1>2, <2>3 DEF Parted
  <2> QED BY <1>1, <2>2, <2>4, <2>5 DEF Parted, Norm
<1> QED BY <1>1, <1>8, <1>13, <1>14 DEF SortInv

\* z holds a call with these ends; it holds all calls of s.
Holds(z, l, r) == \E x \in DOMAIN z : z[x].l = l /\ z[x].r = r
Keeps(z, s) == \A y \in DOMAIN s : \E x \in DOMAIN z : z[x] = s[y]

\* Each call of z is of s, or the one with these ends.
From(z, l, r, s) ==
  \A x \in DOMAIN z : (l < r /\ z[x].l = l /\ z[x].r = r) \/ \E y \in DOMAIN s : z[x] = s[y]

\* A call that does not return at once is pushed, and the others stay.
LEMMA CallIsPushed ==
  ASSUME NEW l \in Int, NEW r \in Int, l >= 0, r <= Count, NEW s \in Seq(Ends \cup Pivoted),
         NEW z, z = Call(l, r) \o s
  PROVE  z \in Seq(Ends \cup Pivoted) /\ (l < r => Holds(z, l, r)) /\ Keeps(z, s) /\ From(z, l, r, s)
<1> USE DEF Holds, Keeps, From
<1>1. CASE ~(l < r)
  <2>1. z = s
    BY <1>1 DEF Call
  <2> QED BY <1>1, <2>1
<1>2. CASE l < r
  <2> DEFINE e == [l |-> l, r |-> r]
  <2>1. e \in Ends /\ e.l = l /\ e.r = r
    BY <1>2, NodeSortAssumption DEF Ends
  <2>2. z = <<e>> \o s
    BY <1>2 DEF Call
  <2> HIDE DEF e
  <2>3. /\ z \in Seq(Ends \cup Pivoted) /\ Len(z) = Len(s) + 1 /\ z[1] = e
        /\ \A k \in 1 .. Len(s) : z[k + 1] = s[k]
    BY <2>1, <2>2, Pushed
  <2>4. DOMAIN z = 1 .. Len(s) + 1 /\ DOMAIN s = 1 .. Len(s) /\ Len(s) \in Nat
    BY <2>3
  <2>5. 1 \in DOMAIN z /\ \A y \in DOMAIN s : y + 1 \in DOMAIN z /\ z[y + 1] = s[y]
    BY <2>3, <2>4
  <2>6. \A x \in DOMAIN z : x = 1 \/ (x - 1 \in DOMAIN s /\ z[x] = s[x - 1])
    BY <2>3, <2>4
  <2> QED BY <1>2, <2>1, <2>3, <2>5, <2>6
<1> QED BY <1>1, <1>2
\* The indices met on a place with the pivot's norm: what is not in order any
\* more is on one side of it.
LEMMA PartSort ==
  ASSUME Inv, SortInv, Part
  PROVE  SortInv'
<1> DEFINE c == Head(calls)
           s == Tail(calls)
           right == Call(j + 1, c.r) \o s
           both == Call(c.l, j - 1) \o right
<1>1. UNCHANGED <<norm, mem, i, j>> /\ at = "meet" /\ at' = "call" /\ i >= j
  BY DEF Part, inputs
<1>2. Permuted /\ Ordered /\ Parted
  BY <1>1 DEF SortInv, Running
<1>3. Permuted'
  BY <1>1, <1>2 DEF Permuted
<1>4. /\ calls # <<>> /\ c = calls[1] /\ c \in Pivoted /\ j \in c.l - 1 .. c.r + 1 /\ c.l < c.r
  BY <1>1, IndicesBounded DEF Inv
<1>5. /\ c.l \in 0 .. Count /\ c.r \in 0 .. Count /\ c.pivot \in Nat /\ Count \in Nat
  BY <1>4, NodeSortAssumption DEF Pivoted
<1>6. /\ i \in Int /\ j \in Int /\ \A x \in Places : x \in Int /\ Norm(x) \in Int
  <2>1. i \in Places /\ j \in Places /\ Places \subseteq Int
    BY PlacesAreInts DEF Inv, SortTypeOK
  <2>2. \A x \in Places : Norm(x) \in Int
    BY NormType DEF Inv
  <2> QED BY <2>1, <2>2
<1>7. Norm(j) = c.pivot /\ i = j
  <2>1. PICK k \in Places : i <= k /\ k <= j /\ Norm(k) = c.pivot
    BY <1>2, <1>4 DEF Parted
  <2>2. k \in Int
    BY <1>6
  <2>3. k = j /\ i = j
    BY <1>1, <1>6, <2>1, <2>2
  <2> QED BY <2>1, <2>3
<1>8. calls \in Seq(Ends \cup Pivoted)
  BY DEF Inv, CallsInv
<1>9. /\ s \in Seq(Ends \cup Pivoted) /\ Len(s) = Len(calls) - 1 /\ Len(calls) \in Nat \ {0}
      /\ \A k \in 1 .. Len(s) : s[k] = calls[k + 1] /\ k + 1 \in 1 .. Len(calls)
  BY <1>4, <1>8, Popped
<1>10. calls' = both
  <2>1. Call(c.l, j - 1) \in Seq(Ends) /\ Call(j + 1, c.r) \in Seq(Ends)
    <3>1. [l |-> c.l, r |-> j - 1] \in Ends \/ ~(c.l < j - 1)
      BY <1>4, <1>5, <1>6 DEF Ends
    <3>2. [l |-> j + 1, r |-> c.r] \in Ends \/ ~(j + 1 < c.r)
      BY <1>4, <1>5, <1>6 DEF Ends
    <3> QED BY <3>1, <3>2 DEF Call
  <2>2. calls' = (Call(c.l, j - 1) \o Call(j + 1, c.r)) \o s
    BY DEF Part
  <2>3. \A a, b, d \in Seq(Ends \cup Pivoted) : (a \o b) \o d = a \o (b \o d)
    OBVIOUS
  <2> QED BY <1>9, <2>1, <2>2, <2>3
<1>11. /\ right \in Seq(Ends \cup Pivoted) /\ (j + 1 < c.r => Holds(right, j + 1, c.r)) /\ Keeps(right, s)
       /\ From(right, j + 1, c.r, s)
  <2>1. j + 1 \in Int /\ c.r \in Int /\ j + 1 >= 0 /\ c.r <= Count
    BY <1>4, <1>5, <1>6
  <2>2. right = Call(j + 1, c.r) \o s
    OBVIOUS
  <2> HIDE DEF c, s, right
  <2> QED BY <1>9, <2>1, <2>2, CallIsPushed
<1>12. (c.l < j - 1 => Holds(both, c.l, j - 1)) /\ Keeps(both, right) /\ From(both, c.l, j - 1, right)
  <2>1. c.l \in Int /\ j - 1 \in Int /\ c.l >= 0 /\ j - 1 <= Count
    BY <1>4, <1>5, <1>6
  <2>2. both = Call(c.l, j - 1) \o right
    OBVIOUS
  <2> HIDE DEF c, right, both
  <2> QED BY <1>11, <2>1, <2>2, CallIsPushed
<1> HIDE DEF both, right
<1>13. \A x \in DOMAIN s : x + 1 \in DOMAIN calls /\ x + 1 # 1 /\ s[x] = calls[x + 1]
  BY <1>8, <1>9
<1>14. \A x \in DOMAIN calls : x # 1 => \E y \in DOMAIN both : both[y] = calls[x]
  <2> SUFFICES ASSUME NEW x \in DOMAIN calls, x # 1  PROVE \E y \in DOMAIN both : both[y] = calls[x]
    OBVIOUS
  <2>1. x - 1 \in DOMAIN s /\ s[x - 1] = calls[x]
    <3>1. x - 1 \in 1 .. Len(s) /\ (x - 1) + 1 = x
      BY <1>8, <1>9
    <3> QED BY <1>9, <3>1
  <2> QED BY <1>11, <1>12, <2>1 DEF Keeps
<1>15. ASSUME NEW x \in DOMAIN both
       PROVE  \/ c.l < j - 1 /\ both[x].l = c.l /\ both[x].r = j - 1
              \/ j + 1 < c.r /\ both[x].l = j + 1 /\ both[x].r = c.r
              \/ \E y \in DOMAIN calls : y # 1 /\ both[x] = calls[y]
  BY <1>11, <1>12, <1>13 DEF From
<1>16. CallsInv /\ CallsApart /\ 1 \in DOMAIN calls
  BY <1>8, <1>9 DEF Inv
<1>17. Ordered'
  <2> SUFFICES ASSUME NEW p \in Places, NEW q \in Places, p < q, Held(p)', Held(q)'
               PROVE  Norm(p) <= Norm(q) \/ \E x \in DOMAIN both : Covers(both[x], p) /\ Covers(both[x], q)
    BY <1>1, <1>10 DEF Ordered, Norm, Together
  <2>1. ASSUME NEW z \in Places, Held(z)'
        PROVE  z \in 0 .. Count \/ \E x \in DOMAIN both : Covers(both[x], z)
    BY <1>10, <2>1 DEF Held
  <2>2. ASSUME NEW z \in Places, Held(z)'  PROVE Held(z)
    <3>1. CASE z \in 0 .. Count
      BY <3>1 DEF Held
    <3>2. CASE ~(z \in 0 .. Count)
      <4>1. PICK x \in DOMAIN both : Covers(both[x], z)
        BY <2>1, <2>2, <3>2
      <4>2. z = -1 \/ z = Count + 1
        BY <3>2, PlacesAreInts
      <4>3. CASE both[x].l = c.l /\ both[x].r = j - 1
        BY <1>4, <1>5, <1>6, <1>16, <4>1, <4>2, <4>3 DEF Covers, Held
      <4>4. CASE both[x].l = j + 1 /\ both[x].r = c.r
        BY <1>4, <1>5, <1>6, <1>16, <4>1, <4>2, <4>4 DEF Covers, Held
      <4>5. CASE \E y \in DOMAIN calls : both[x] = calls[y]
        BY <4>1, <4>5 DEF Held
      <4> QED BY <1>15, <4>3, <4>4, <4>5
    <3> QED BY <3>1, <3>2
  <2>3. Norm(p) <= Norm(q) \/ Together(p, q)
    BY <1>2, <2>2 DEF Ordered
  <2>4. CASE \E x \in DOMAIN calls : x # 1 /\ Covers(calls[x], p) /\ Covers(calls[x], q)
    BY <1>14, <2>4
  <2>5. CASE Covers(c, p) /\ Covers(c, q)
    <3>1. p \in Int /\ q \in Int
      BY <1>6
    <3>2. CASE p <= j /\ j <= q
      <4>1. Norm(p) <= c.pivot
        BY <1>2, <1>4, <1>5, <1>6, <1>7, <2>5, <3>1, <3>2 DEF Parted
      <4>2. c.pivot <= Norm(q)
        BY <1>2, <1>4, <1>5, <1>6, <1>7, <2>5, <3>1, <3>2 DEF Parted
      <4> QED BY <1>5, <1>6, <4>1, <4>2
    <3>3. CASE q <= j - 1
      <4>1. c.l <= p \/ (p = -1 /\ c.l = 0)
        BY <1>4, <1>5, <1>6, <2>5, <3>1, <3>3 DEF Covers
      <4>2. c.l < j - 1
        <5>1. CASE c.l <= p
          BY <1>5, <1>6, <3>1, <3>3, <5>1
        <5>2. CASE p = -1 /\ c.l = 0
          <6>1. PICK x \in DOMAIN both : Covers(both[x], p)
            BY <2>1, <5>2
          <6>2. CASE c.l < j - 1
            BY <6>2
          <6>3. CASE both[x].l = j + 1 /\ both[x].r = c.r
            <7>1. j + 1 = 0 \/ j + 1 <= -1
              BY <1>5, <1>6, <5>2, <6>1, <6>3 DEF Covers
            <7> QED BY <1>6, <3>1, <3>3, <5>2, <7>1
          <6>4. ASSUME NEW y \in DOMAIN calls, y # 1, both[x] = calls[y]  PROVE FALSE
            <7>1. p \in Places /\ Covers(calls[1], p) /\ Covers(calls[y], p)
              BY <1>4, <2>5, <6>1, <6>4
            <7> QED BY <1>16, <6>4, <7>1, InApart
          <6> QED BY <1>15, <6>2, <6>3, <6>4
        <5> QED BY <4>1, <5>1, <5>2
      <4>3. PICK x \in DOMAIN both : both[x].l = c.l /\ both[x].r = j - 1
        BY <1>12, <4>2 DEF Holds
      <4>4. Covers(both[x], p)
        BY <1>5, <1>6, <3>1, <3>3, <4>1, <4>3 DEF Covers
      <4>5. Covers(both[x], q)
        BY <1>5, <1>6, <3>1, <3>3, <4>1, <4>3 DEF Covers
      <4> QED BY <4>4, <4>5
    <3>4. CASE j + 1 <= p
      <4>1. q <= c.r \/ (q = Count + 1 /\ c.r = Count)
        BY <1>4, <1>5, <1>6, <2>5, <3>1, <3>4 DEF Covers
      <4>2. j + 1 < c.r
        <5>1. CASE q <= c.r
          BY <1>5, <1>6, <3>1, <3>4, <5>1
        <5>2. CASE q = Count + 1 /\ c.r = Count
          <6>0. q \notin 0 .. Count
            BY <1>5, <5>2
          <6>1. PICK x \in DOMAIN both : Covers(both[x], q)
            BY <2>1, <6>0
          <6>2. CASE j + 1 < c.r
            BY <6>2
          <6>3. CASE both[x].l = c.l /\ both[x].r = j - 1
            <7>1. j - 1 = Count \/ Count + 1 <= j - 1
              BY <1>5, <1>6, <5>2, <6>1, <6>3 DEF Covers
            <7> QED BY <1>5, <1>6, <3>1, <3>4, <5>2, <7>1
          <6>4. ASSUME NEW y \in DOMAIN calls, y # 1, both[x] = calls[y]  PROVE FALSE
            <7>1. q \in Places /\ Covers(calls[1], q) /\ Covers(calls[y], q)
              BY <1>4, <2>5, <6>1, <6>4
            <7> QED BY <1>16, <6>4, <7>1, InApart
          <6> QED BY <1>15, <6>2, <6>3, <6>4
        <5> QED BY <4>1, <5>1, <5>2
      <4>3. PICK y \in DOMAIN right : right[y].l = j + 1 /\ right[y].r = c.r
        BY <1>11, <4>2 DEF Holds
      <4>4. PICK x \in DOMAIN both : both[x] = right[y]
        BY <1>12 DEF Keeps
      <4>5. Covers(both[x], p)
        BY <1>5, <1>6, <3>1, <3>4, <4>1, <4>3, <4>4 DEF Covers
      <4>6. Covers(both[x], q)
        BY <1>5, <1>6, <3>1, <3>4, <4>1, <4>3, <4>4 DEF Covers
      <4> QED BY <4>5, <4>6
    <3>5. q <= j - 1 \/ j + 1 <= p \/ (p <= j /\ j <= q)
      BY <1>6, <3>1
    <3> QED BY <3>2, <3>3, <3>4, <3>5
  <2> QED BY <1>4, <2>3, <2>4, <2>5 DEF Together
<1> QED BY <1>1, <1>3, <1>17 DEF SortInv, Running

\* With no call to come the places of the table are in order, the one behind
\* the last node among them.
LEMMA ReturnSort ==
  ASSUME Inv, SortInv, Return
  PROVE  SortInv' /\ AnswerInOrder'
<1>1. /\ UNCHANGED <<norm, known, mem, n, calls>> /\ at = "call" /\ at' = "done" /\ calls = <<>>
      /\ answer' = [x \in 1 .. n |-> mem[x - 1]]
  BY DEF Return, inputs
<1>2. SortInv'
  BY <1>1 DEF SortInv, Permuted, Running
<1>3. Permuted /\ Ordered
  BY <1>1 DEF SortInv
<1>4. n \in Nat /\ n <= Count /\ mem \in [Places -> Places]
  BY <1>1, NodeSortAssumption DEF Inv, SortTypeOK, AskedInv
<1>5. \A p, q \in 0 .. Count : p < q => norm[mem[p]] <= norm[mem[q]]
  <2>1. \A p \in 0 .. Count : p \in Places /\ Held(p)
    BY PlacesAreInts DEF Held
  <2>2. \A p, q : ~Together(p, q)
    BY <1>1 DEF Together
  <2> QED BY <1>3, <2>1, <2>2 DEF Ordered, Norm
<1>6. \A x \in 1 .. n : x - 1 \in 0 .. Count /\ x - 1 \in Places /\ x \in Int /\ answer'[x] = mem[x - 1]
  BY <1>1, <1>4, NodeSortAssumption DEF Places
<1>7. Len(answer') = n
  <2>1. answer' \in Seq(Places)
    BY <1>1, <1>4, <1>6
  <2> QED BY <1>1, <1>4, <2>1
<1>8. ASSUME NEW x \in 1 .. n, NEW y \in 1 .. n, x < y
      PROVE  answer'[x] # answer'[y] /\ norm[answer'[x]] <= norm[answer'[y]]
  <2>1. x - 1 < y - 1 /\ x - 1 # y - 1
    BY <1>6, <1>8
  <2> QED BY <1>3, <1>5, <1>6, <2>1 DEF Permuted
<1>9. ASSUME NEW z \in Nodes
      PROVE  \/ \E x \in 1 .. n : answer'[x] = z
             \/ z \in {mem[-1], mem[Count + 1]}
             \/ \A x \in 1 .. n : norm[answer'[x]] <= norm[z]
  <2>1. z \in Places
    BY NodeSortAssumption DEF Nodes, Places
  <2>2. PICK w \in Places : mem[w] = z
    BY <1>3, <2>1 DEF Permuted
  <2>3. CASE w \notin 0 .. Count
    BY <2>2, <2>3, PlacesAreInts
  <2>4. CASE w \in 0 .. Count /\ w < n
    <3>1. w + 1 \in 1 .. n /\ (w + 1) - 1 = w
      BY <1>4, <2>4, NodeSortAssumption
    <3> QED BY <1>6, <2>2, <3>1
  <2>5. CASE w \in 0 .. Count /\ ~(w < n)
    <3>1. ASSUME NEW x \in 1 .. n  PROVE norm[answer'[x]] <= norm[z]
      <4>1. x - 1 \in 0 .. Count /\ x - 1 < w
        BY <1>4, <1>6, <2>5, NodeSortAssumption
      <4> QED BY <1>5, <1>6, <2>2, <2>5, <4>1
    <3> QED BY <3>1
  <2> QED BY <2>3, <2>4, <2>5
<1>10. AnswerInOrder'
  BY <1>1, <1>7, <1>8, <1>9 DEF AnswerInOrder
<1> QED BY <1>2, <1>10

LEMMA SortInvAlways == SortSpec => [](SortInv /\ AnswerInOrder)
<1>1. SortInit => SortInv /\ AnswerInOrder
  BY InitSort DEF SortInit, AnswerInOrder
<1>2. Inv /\ SortInv /\ AnswerInOrder /\ [SortNext]_sortVars => (SortInv /\ AnswerInOrder)'
  <2> SUFFICES ASSUME Inv, SortInv, AnswerInOrder, [SortNext]_sortVars
               PROVE  SortInv' /\ AnswerInOrder'
    OBVIOUS
  <2>1. CASE UNCHANGED sortVars
    BY <2>1 DEF sortVars, inputs, SortInv, AnswerInOrder, Permuted, Running, Ordered, Parted, Norm, Together, Held
  <2>2. CASE Lookup
    <3>1. at' = "done" => ~known'
      BY <2>2 DEF Lookup, inputs
    <3> QED BY <2>2, <3>1, LookupSort DEF AnswerInOrder
  <2>3. CASE Begin
    BY <2>3, BeginSort DEF Begin, AnswerInOrder
  <2>4. CASE StepUp
    BY <2>4, StepUpSort DEF StepUp, AnswerInOrder
  <2>5. CASE StepDown
    BY <2>5, StepDownSort DEF StepDown, AnswerInOrder
  <2>6. CASE Part
    BY <2>6, PartSort DEF Part, AnswerInOrder
  <2>7. CASE Swap
    BY <2>7, SwapSort DEF Swap, AnswerInOrder
  <2>8. CASE Return
    BY <2>8, ReturnSort
  <2> QED BY <2>1, <2>2, <2>3, <2>4, <2>5, <2>6, <2>7, <2>8 DEF SortNext
<1> QED BY <1>1, <1>2, InvAlways, PTL DEF SortSpec

\* For tables of any size and whatever the memory around the copy holds, the
\* answer is in order, and a node that is not in it is no nearer than those
\* that are, unless part swapped it out of the copy (route.c:10-53).
THEOREM AnswerAlwaysInOrder == SortSpec => []AnswerInOrder
BY SortInvAlways, PTL
=============================================================================
