---------------------------- MODULE AssemblerProofs ----------------------------
(***************************************************************************)
(* Proofs about the assembler, for source files of any length.             *)
(*                                                                         *)
(* First, what the operators on sequences do; then where the parsers of a  *)
(* line get to, and what each pass makes of any file: that is the          *)
(* inductive invariant.  Then the layout of the image, how it is read      *)
(* through its indices, and which lines of the source are in it.  Last,    *)
(* what the parsers read from a tidy line.                                 *)
(***************************************************************************)
EXTENDS Assembler, SequenceTheorems, FiniteSetTheorems, WellFoundedInduction, TLAPS

-----------------------------------------------------------------------------
(* Induction.  The library states it for predicates; here it is for sets,  *)
(* from the theorem that < is well-founded.                                *)

Less == {p \in Nat \X Nat : p[1] < p[2]}

LEMMA SetInduction ==
  ASSUME NEW T \in SUBSET Nat, 0 \in T, \A n \in T : n + 1 \in T
  PROVE  T = Nat
<1>1. IsWellFoundedOn(Less, Nat)
  BY NatLessThanWellFounded, Zenon DEF OpToRel, Less
<1> SUFFICES ASSUME Nat \ T # {} PROVE FALSE
  OBVIOUS
<1>2. PICK x \in Nat \ T : \A y \in Nat \ T : <<y, x>> \notin Less
  BY <1>1, WFMin
<1>3. x # 0 /\ x - 1 \in Nat /\ <<x - 1, x>> \in Less /\ (x - 1) + 1 = x
  BY <1>2 DEF Less
<1>4. x - 1 \in T
  BY <1>2, <1>3
<1> QED BY <1>2, <1>3, <1>4

\* Induction on the length of a sequence
LEMMA SeqInduction ==
  ASSUME NEW S, NEW P \in SUBSET Seq(S), <<>> \in P, \A s \in P, e \in S : Append(s, e) \in P
  PROVE  P = Seq(S)
<1> DEFINE T == {n \in Nat : \A s \in Seq(S) : Len(s) = n => s \in P}
<1>1. 0 \in T
  <2>1. ASSUME NEW s \in Seq(S), Len(s) = 0  PROVE s = <<>>
    BY <2>1, EmptySeq
  <2> QED BY <2>1
<1>2. ASSUME NEW n \in T  PROVE n + 1 \in T
  <2>1. ASSUME NEW s \in Seq(S), Len(s) = n + 1  PROVE s \in P
    <3>1. s # <<>>
      BY <2>1
    <3>2. PICK r \in Seq(S), e \in S : s = Append(r, e)
      BY <3>1, SequenceEmptyOrAppend
    <3>3. Len(r) = n
      BY <2>1, <3>2
    <3> QED BY <1>2, <3>2, <3>3
  <2> QED BY <2>1
<1>3. T = Nat
  <2>1. T \in SUBSET Nat
    OBVIOUS
  <2> HIDE DEF T
  <2> QED BY <1>1, <1>2, <2>1, SetInduction
<1>4. ASSUME NEW s \in Seq(S)  PROVE s \in P
  <2>1. Len(s) \in T
    BY <1>3
  <2> QED BY <2>1
<1> QED BY <1>4

-----------------------------------------------------------------------------
(* FlattenSeq *)

FlatStep(f, ss, n) == IF n = 1 THEN ss[n] ELSE f[n - 1] \o ss[n]
Flat(ss) == CHOOSE f : f = [n \in 1 .. Len(ss) |-> FlatStep(f, ss, n)]

\* The recursive function of FlattenSeq exists.
LEMMA FlatIsStep ==
  ASSUME NEW S, NEW ss \in Seq(S)
  PROVE  \A n \in 1 .. Len(ss) : Flat(ss)[n] = FlatStep(Flat(ss), ss, n)
<1> DEFINE Upto(m) == \E f : f = [n \in 1 .. m |-> FlatStep(f, ss, n)]
           T == {m \in Nat : Upto(m)}
<1>1. 0 \in T
  <2> DEFINE f == [n \in 1 .. 0 |-> <<>>]
  <2>1. f = [n \in 1 .. 0 |-> FlatStep(f, ss, n)]
    OBVIOUS
  <2> QED BY <2>1
<1>2. ASSUME NEW m \in T  PROVE m + 1 \in T
  <2>1. PICK f : f = [n \in 1 .. m |-> FlatStep(f, ss, n)]
    BY <1>2
  <2> DEFINE g == [n \in 1 .. m + 1 |-> IF n = m + 1 THEN FlatStep(f, ss, n) ELSE f[n]]
  <2>2. ASSUME NEW n \in 1 .. m + 1  PROVE g[n] = FlatStep(g, ss, n)
    <3>1. m \in Nat
      BY <1>2
    <3>2. n # 1 => n - 1 \in 1 .. m /\ g[n - 1] = f[n - 1]
      BY <3>1
    <3>3. FlatStep(g, ss, n) = FlatStep(f, ss, n)
      BY <3>2 DEF FlatStep
    <3>4. g[n] = IF n = m + 1 THEN FlatStep(f, ss, n) ELSE f[n]
      OBVIOUS
    <3>5. n # m + 1 => f[n] = FlatStep(f, ss, n)
      <4>1. n # m + 1 => n \in 1 .. m
        BY <3>1
      <4> QED BY <2>1, <4>1
    <3> QED BY <3>3, <3>4, <3>5
  <2>3. g = [n \in 1 .. m + 1 |-> FlatStep(g, ss, n)]
    BY <2>2
  <2>4. m + 1 \in Nat
    BY <1>2
  <2> HIDE DEF g
  <2>5. Upto(m + 1)
    BY <2>3
  <2> QED BY <2>4, <2>5
<1> HIDE DEF Upto
<1>3. T = Nat
  <2>1. T \in SUBSET Nat
    OBVIOUS
  <2> HIDE DEF T
  <2> QED BY <1>1, <1>2, <2>1, SetInduction
<1>4. Upto(Len(ss))
  BY <1>3
<1>5. Flat(ss) = [n \in 1 .. Len(ss) |-> FlatStep(Flat(ss), ss, n)]
  BY <1>4 DEF Upto, Flat
<1> QED BY <1>5

LEMMA FlattenEmpty == FlattenSeq(<<>>) = <<>>
  BY DEF FlattenSeq

LEMMA FlattenIsFlat ==
  ASSUME NEW S, NEW ss \in Seq(S), Len(ss) # 0
  PROVE  FlattenSeq(ss) = Flat(ss)[Len(ss)]
  BY DEF FlattenSeq, Flat, FlatStep

\* A sequence at the end is what the flattened sequence ends with.
LEMMA FlattenAppend ==
  ASSUME NEW S, NEW ss \in Seq(Seq(S)), NEW t \in Seq(S)
  PROVE  FlattenSeq(Append(ss, t)) = FlattenSeq(ss) \o t
<1> DEFINE uu == Append(ss, t)
           f == Flat(ss)
           g == Flat(uu)
           T == {n \in Nat : n + 1 <= Len(ss) => f[n + 1] = g[n + 1]}
<1>1. uu \in Seq(Seq(S)) /\ Len(uu) = Len(ss) + 1 /\ uu[Len(ss) + 1] = t /\ \A n \in 1 .. Len(ss) : uu[n] = ss[n]
  BY AppendProperties
<1>2. \A n \in 1 .. Len(ss) : f[n] = FlatStep(f, ss, n)
  BY FlatIsStep
<1>3. \A n \in 1 .. Len(ss) + 1 : g[n] = FlatStep(g, uu, n)
  BY <1>1, FlatIsStep
<1>4. FlattenSeq(uu) = g[Len(ss) + 1] /\ (Len(ss) # 0 => FlattenSeq(ss) = f[Len(ss)])
  <2>1. Len(uu) # 0
    BY <1>1
  <2>2. FlattenSeq(uu) = g[Len(uu)]
    BY <1>1, <2>1, FlattenIsFlat
  <2>3. Len(ss) # 0 => FlattenSeq(ss) = f[Len(ss)]
    BY FlattenIsFlat
  <2> QED BY <1>1, <2>2, <2>3
<1> HIDE DEF f, g, uu
<1>5. 0 \in T
  BY <1>1, <1>2, <1>3 DEF FlatStep
<1>6. ASSUME NEW n \in T  PROVE n + 1 \in T
  <2> SUFFICES ASSUME n + 2 <= Len(ss)  PROVE f[n + 2] = g[n + 2]
    BY <1>6
  <2>1. n \in Nat /\ n + 2 \in 1 .. Len(ss) /\ n + 2 # 1 /\ (n + 2) - 1 = n + 1
    BY <1>6
  <2>2. f[n + 1] = g[n + 1]
    BY <1>6, <2>1
  <2>3. f[n + 2] = f[n + 1] \o ss[n + 2]
    BY <1>2, <2>1 DEF FlatStep
  <2>4. g[n + 2] = g[n + 1] \o uu[n + 2]
    <3>1. n + 2 \in 1 .. Len(ss) + 1
      BY <2>1
    <3> QED BY <1>3, <2>1, <3>1 DEF FlatStep
  <2> QED BY <1>1, <2>1, <2>2, <2>3, <2>4
<1>7. T = Nat
  <2>1. T \in SUBSET Nat
    OBVIOUS
  <2> HIDE DEF T
  <2> QED BY <1>5, <1>6, <2>1, SetInduction
<1>8. CASE Len(ss) = 0
  <2>1. ss = <<>>
    BY <1>8, EmptySeq
  <2>2. FlattenSeq(uu) = t
    BY <1>1, <1>3, <1>4, <1>8 DEF FlatStep
  <2> QED BY <2>1, <2>2, FlattenEmpty, ConcatEmptySeq DEF uu
<1>9. CASE Len(ss) # 0
  <2>1. Len(ss) \in Nat
    OBVIOUS
  <2>2. Len(ss) - 1 \in Nat /\ (Len(ss) - 1) + 1 = Len(ss)
    BY <1>9, <2>1
  <2>3. f[Len(ss)] = g[Len(ss)]
    <3>1. ASSUME NEW n \in Nat, n + 1 <= Len(ss)  PROVE f[n + 1] = g[n + 1]
      <4>1. n \in T
        BY <1>7
      <4> QED BY <3>1, <4>1
    <3>2. (Len(ss) - 1) + 1 <= Len(ss)
      BY <2>1
    <3>3. f[(Len(ss) - 1) + 1] = g[(Len(ss) - 1) + 1]
      BY <2>2, <3>1, <3>2
    <3> QED BY <2>2, <3>3
  <2>4. g[Len(ss) + 1] = g[Len(ss)] \o t
    <3>1. Len(ss) + 1 \in 1 .. Len(ss) + 1 /\ Len(ss) + 1 # 1 /\ (Len(ss) + 1) - 1 = Len(ss)
      BY <1>9, <2>1
    <3>2. g[Len(ss) + 1] = FlatStep(g, uu, Len(ss) + 1)
      BY <1>3, <3>1
    <3> QED BY <1>1, <3>1, <3>2 DEF FlatStep
  <2> QED BY <1>4, <1>9, <2>3, <2>4 DEF uu
<1> QED BY <1>8, <1>9

LEMMA FlattenType ==
  ASSUME NEW S, NEW ss \in Seq(Seq(S))
  PROVE  FlattenSeq(ss) \in Seq(S)
<1> DEFINE P == {s \in Seq(Seq(S)) : FlattenSeq(s) \in Seq(S)}
<1>1. <<>> \in P
  BY FlattenEmpty, EmptySeq
<1>2. ASSUME NEW s \in P, NEW e \in Seq(S)  PROVE Append(s, e) \in P
  <2>1. FlattenSeq(Append(s, e)) = FlattenSeq(s) \o e
    BY <1>2, FlattenAppend
  <2> QED BY <1>2, <2>1, ConcatProperties, AppendProperties
<1>3. P = Seq(Seq(S))
  <2>1. P \in SUBSET Seq(Seq(S))
    OBVIOUS
  <2> HIDE DEF P
  <2> QED BY <1>1, <1>2, <2>1, SeqInduction
<1> QED BY <1>3
-----------------------------------------------------------------------------
(* Where *)

Single(s, S) == [n \in 1 .. Len(s) |-> IF s[n] \in S THEN <<s[n]>> ELSE <<>>]

LEMMA WhereEmpty == \A S : Where(<<>>, S) = <<>>
<1> SUFFICES ASSUME NEW S  PROVE Where(<<>>, S) = <<>>
  OBVIOUS
<1>1. [n \in 1 .. Len(<<>>) |-> IF <<>>[n] \in S THEN <<<<>>[n]>> ELSE <<>>] = <<>>
  OBVIOUS
<1> QED BY <1>1, FlattenEmpty DEF Where

LEMMA WhereAppend ==
  ASSUME NEW X, NEW s \in Seq(X), NEW e \in X, NEW S
  PROVE  Where(Append(s, e), S) = IF e \in S THEN Append(Where(s, S), e) ELSE Where(s, S)
<1> DEFINE t == Append(s, e)
           last == IF e \in S THEN <<e>> ELSE <<>>
<1>1. t \in Seq(X) /\ Len(t) = Len(s) + 1 /\ t[Len(s) + 1] = e /\ \A n \in 1 .. Len(s) : t[n] = s[n]
  BY AppendProperties
<1>2. Single(s, S) \in Seq(Seq(X)) /\ Len(Single(s, S)) = Len(s) /\ last \in Seq(X)
  BY DEF Single
<1> HIDE DEF t, last
<1>3. Single(t, S) \in Seq(Seq(X)) /\ Len(Single(t, S)) = Len(s) + 1
  BY <1>1 DEF Single
<1>4. ASSUME NEW n \in 1 .. Len(s) + 1  PROVE Single(t, S)[n] = Append(Single(s, S), last)[n]
  <2>1. CASE n = Len(s) + 1
    BY <1>1, <1>2, <2>1 DEF Single, last
  <2>2. CASE n \in 1 .. Len(s)
    BY <1>1, <1>2, <2>2 DEF Single
  <2>3. n = Len(s) + 1 \/ n \in 1 .. Len(s)
    OBVIOUS
  <2> QED BY <2>1, <2>2, <2>3, Zenon
<1>5. Append(Single(s, S), last) \in Seq(Seq(X)) /\ Len(Append(Single(s, S), last)) = Len(s) + 1
  BY <1>2, AppendProperties
<1>6. Single(t, S) = Append(Single(s, S), last)
  BY <1>3, <1>4, <1>5, SeqEqual
<1>7. Where(t, S) = Where(s, S) \o last
  BY <1>2, <1>6, FlattenAppend DEF Where, Single
<1>8. Where(s, S) \in Seq(X)
  BY <1>2, FlattenType DEF Where, Single
<1> QED BY <1>7, <1>8, ConcatEmptySeq, AppendIsConcat DEF t, last

LEMMA WhereType ==
  ASSUME NEW X, NEW s \in Seq(X), NEW S
  PROVE  Where(s, S) \in Seq(X \cap S)
<1> DEFINE P == {t \in Seq(X) : Where(t, S) \in Seq(X \cap S)}
<1>1. <<>> \in P
  BY WhereEmpty, EmptySeq
<1>2. ASSUME NEW t \in P, NEW e \in X  PROVE Append(t, e) \in P
  <2>1. Where(Append(t, e), S) = IF e \in S THEN Append(Where(t, S), e) ELSE Where(t, S)
    BY <1>2, WhereAppend
  <2>2. e \in S => e \in X \cap S
    OBVIOUS
  <2>3. Where(Append(t, e), S) \in Seq(X \cap S)
    BY <1>2, <2>1, <2>2, AppendProperties
  <2> QED BY <1>2, <2>3, AppendProperties
<1>3. P = Seq(X)
  <2>1. P \in SUBSET Seq(X)
    OBVIOUS
  <2> HIDE DEF P
  <2> QED BY <1>1, <1>2, <2>1, SeqInduction
<1> QED BY <1>3

LEMMA WhereConcat ==
  ASSUME NEW X, NEW s \in Seq(X), NEW t \in Seq(X), NEW S
  PROVE  Where(s \o t, S) = Where(s, S) \o Where(t, S)
<1> DEFINE P == {u \in Seq(X) : Where(s \o u, S) = Where(s, S) \o Where(u, S)}
<1>1. Where(s, S) \in Seq(X) /\ \A u \in Seq(X) : Where(u, S) \in Seq(X)
  <2>1. X \cap S \subseteq X
    OBVIOUS
  <2> QED BY <2>1, WhereType, SeqMonotonic
<1>2. <<>> \in P
  BY <1>1, WhereEmpty, ConcatEmptySeq, EmptySeq
<1>3. ASSUME NEW u \in P, NEW e \in X  PROVE Append(u, e) \in P
  <2>1. u \in Seq(X) /\ s \o u \in Seq(X) /\ <<e>> \in Seq(X) /\ Append(u, e) \in Seq(X)
    BY <1>3, ConcatProperties, AppendProperties
  <2>2. s \o Append(u, e) = Append(s \o u, e)
    BY <2>1, AppendIsConcat, ConcatAssociative
  <2>3. Where(s \o u, S) = Where(s, S) \o Where(u, S)
    BY <1>3
  <2>4. Where(Append(s \o u, e), S) = IF e \in S THEN Append(Where(s \o u, S), e) ELSE Where(s \o u, S)
    <3> DEFINE v == s \o u
    <3>1. v \in Seq(X)
      BY <2>1
    <3> HIDE DEF v
    <3>2. Where(Append(v, e), S) = IF e \in S THEN Append(Where(v, S), e) ELSE Where(v, S)
      BY <3>1, WhereAppend
    <3> QED BY <3>2 DEF v
  <2>5. Where(Append(u, e), S) = IF e \in S THEN Append(Where(u, S), e) ELSE Where(u, S)
    <3>1. u \in Seq(X)
      BY <2>1
    <3> QED BY <3>1, WhereAppend
  <2>6. Append(Where(s, S) \o Where(u, S), e) = Where(s, S) \o Append(Where(u, S), e)
    <3> DEFINE a == Where(s, S)
               b == Where(u, S)
    <3>1. a \in Seq(X) /\ b \in Seq(X) /\ a \o b \in Seq(X)
      BY <1>1, <2>1, ConcatProperties
    <3> HIDE DEF a, b
    <3>2. Append(a \o b, e) = (a \o b) \o <<e>> /\ Append(b, e) = b \o <<e>>
      BY <3>1, AppendIsConcat
    <3>3. (a \o b) \o <<e>> = a \o (b \o <<e>>)
      BY <2>1, <3>1, ConcatAssociative
    <3>4. Append(a \o b, e) = a \o Append(b, e)
      BY <3>2, <3>3
    <3> QED BY <3>4 DEF a, b
  <2> QED BY <2>1, <2>2, <2>3, <2>4, <2>5, <2>6
<1>4. P = Seq(X)
  <2>1. P \in SUBSET Seq(X)
    OBVIOUS
  <2> HIDE DEF P
  <2> QED BY <1>2, <1>3, <2>1, SeqInduction
<1> QED BY <1>4

\* What is nowhere in S leaves nothing, what is all in S stays.
LEMMA WhereNone ==
  ASSUME NEW X, NEW s \in Seq(X), NEW S, \A n \in 1 .. Len(s) : s[n] \notin S
  PROVE  Where(s, S) = <<>>
<1> DEFINE P == {t \in Seq(X) : (\A n \in 1 .. Len(t) : t[n] \notin S) => Where(t, S) = <<>>}
<1>1. <<>> \in P
  BY WhereEmpty, EmptySeq
<1>2. ASSUME NEW t \in P, NEW e \in X  PROVE Append(t, e) \in P
  <2> SUFFICES ASSUME \A n \in 1 .. Len(Append(t, e)) : Append(t, e)[n] \notin S
               PROVE  Where(Append(t, e), S) = <<>>
    BY <1>2, AppendProperties
  <2>1. t \in Seq(X)
    BY <1>2
  <2>2. \A n \in 1 .. Len(t) : t[n] \notin S
    BY <2>1, AppendProperties
  <2>3. e \notin S
    <3>1. Len(t) + 1 \in 1 .. Len(Append(t, e)) /\ Append(t, e)[Len(t) + 1] = e
      BY <2>1, AppendProperties
    <3> QED BY <3>1
  <2> QED BY <1>2, <2>1, <2>2, <2>3, WhereAppend
<1>3. P = Seq(X)
  <2>1. P \in SUBSET Seq(X)
    OBVIOUS
  <2> HIDE DEF P
  <2> QED BY <1>1, <1>2, <2>1, SeqInduction
<1> QED BY <1>3

LEMMA WhereAll ==
  ASSUME NEW X, NEW s \in Seq(X), NEW S, \A n \in 1 .. Len(s) : s[n] \in S
  PROVE  Where(s, S) = s
<1> DEFINE P == {t \in Seq(X) : (\A n \in 1 .. Len(t) : t[n] \in S) => Where(t, S) = t}
<1>1. <<>> \in P
  BY WhereEmpty, EmptySeq
<1>2. ASSUME NEW t \in P, NEW e \in X  PROVE Append(t, e) \in P
  <2> SUFFICES ASSUME \A n \in 1 .. Len(Append(t, e)) : Append(t, e)[n] \in S
               PROVE  Where(Append(t, e), S) = Append(t, e)
    BY <1>2, AppendProperties
  <2>1. t \in Seq(X)
    BY <1>2
  <2>2. \A n \in 1 .. Len(t) : t[n] \in S
    BY <2>1, AppendProperties
  <2>3. e \in S
    <3>1. Len(t) + 1 \in 1 .. Len(Append(t, e)) /\ Append(t, e)[Len(t) + 1] = e
      BY <2>1, AppendProperties
    <3> QED BY <3>1
  <2> QED BY <1>2, <2>1, <2>2, <2>3, WhereAppend
<1>3. P = Seq(X)
  <2>1. P \in SUBSET Seq(X)
    OBVIOUS
  <2> HIDE DEF P
  <2> QED BY <1>1, <1>2, <2>1, SeqInduction
<1> QED BY <1>3

\* Whatever is in S is kept.
LEMMA WhereHas ==
  ASSUME NEW X, NEW s \in Seq(X), NEW S, NEW n \in 1 .. Len(s), s[n] \in S
  PROVE  \E m \in 1 .. Len(Where(s, S)) : Where(s, S)[m] = s[n]
<1> DEFINE Kept(t) == \A k \in 1 .. Len(t) : t[k] \in S => \E m \in 1 .. Len(Where(t, S)) : Where(t, S)[m] = t[k]
           P == {t \in Seq(X) : Kept(t)}
<1>1. <<>> \in P
  BY EmptySeq
<1>2. ASSUME NEW t \in P, NEW e \in X  PROVE Append(t, e) \in P
  <2> DEFINE w == Where(t, S)
             u == Append(t, e)
             v == Where(u, S)
  <2>1. t \in Seq(X) /\ u \in Seq(X) /\ Len(u) = Len(t) + 1 /\ u[Len(t) + 1] = e /\ \A k \in 1 .. Len(t) : u[k] = t[k]
    BY <1>2, AppendProperties
  <2>2. w \in Seq(X \cap S)
    BY <2>1, WhereType
  <2>3. v = IF e \in S THEN Append(w, e) ELSE w
    BY <2>1, WhereAppend
  <2>4. Kept(t)
    BY <1>2
  <2> HIDE DEF u, v
  <2>5. ASSUME NEW k \in 1 .. Len(u), u[k] \in S  PROVE \E m \in 1 .. Len(v) : v[m] = u[k]
    <3>1. CASE k = Len(t) + 1
      <4>1. e \in S
        BY <2>1, <2>5, <3>1
      <4>2. Len(v) = Len(w) + 1 /\ v[Len(w) + 1] = e /\ Len(w) \in Nat
        BY <2>2, <2>3, <4>1, AppendProperties
      <4> QED BY <2>1, <3>1, <4>2
    <3>2. CASE k \in 1 .. Len(t)
      <4>1. PICK m \in 1 .. Len(w) : w[m] = t[k]
        BY <2>1, <2>4, <2>5, <3>2
      <4>2. m \in 1 .. Len(v) /\ v[m] = w[m]
        BY <2>2, <2>3, <4>1, AppendProperties
      <4> QED BY <2>1, <3>2, <4>1, <4>2
    <3> QED BY <2>1, <3>1, <3>2
  <2>6. Kept(u)
    BY <2>5 DEF v
  <2> QED BY <2>1, <2>6 DEF u
<1>3. P = Seq(X)
  <2>1. P \in SUBSET Seq(X)
    OBVIOUS
  <2> HIDE DEF P
  <2> QED BY <1>1, <1>2, <2>1, SeqInduction
<1>4. Kept(s)
  BY <1>3
<1> QED BY <1>4
-----------------------------------------------------------------------------
(* Total *)

SumStep(f, s, n) == IF n = 0 THEN 0 ELSE f[n - 1] + s[n]
Sum(s) == CHOOSE f : f = [n \in 0 .. Len(s) |-> SumStep(f, s, n)]

\* The recursive function of Total exists.
LEMMA SumIsStep ==
  ASSUME NEW S, NEW s \in Seq(S)
  PROVE  \A n \in 0 .. Len(s) : Sum(s)[n] = SumStep(Sum(s), s, n)
<1> DEFINE Upto(m) == \E f : f = [n \in 0 .. m |-> SumStep(f, s, n)]
           T == {m \in Nat : Upto(m)}
<1>1. 0 \in T
  <2> DEFINE f == [n \in 0 .. 0 |-> 0]
  <2>1. f = [n \in 0 .. 0 |-> SumStep(f, s, n)]
    BY DEF SumStep
  <2> QED BY <2>1
<1>2. ASSUME NEW m \in T  PROVE m + 1 \in T
  <2>1. PICK f : f = [n \in 0 .. m |-> SumStep(f, s, n)]
    BY <1>2
  <2> DEFINE g == [n \in 0 .. m + 1 |-> IF n = m + 1 THEN SumStep(f, s, n) ELSE f[n]]
  <2>2. ASSUME NEW n \in 0 .. m + 1  PROVE g[n] = SumStep(g, s, n)
    <3>1. m \in Nat
      BY <1>2
    <3>2. n # 0 => n - 1 \in 0 .. m /\ g[n - 1] = f[n - 1]
      BY <3>1
    <3>3. SumStep(g, s, n) = SumStep(f, s, n)
      BY <3>2 DEF SumStep
    <3>4. g[n] = IF n = m + 1 THEN SumStep(f, s, n) ELSE f[n]
      OBVIOUS
    <3>5. n # m + 1 => f[n] = SumStep(f, s, n)
      <4>1. n # m + 1 => n \in 0 .. m
        BY <3>1
      <4> QED BY <2>1, <4>1
    <3> QED BY <3>3, <3>4, <3>5
  <2>3. g = [n \in 0 .. m + 1 |-> SumStep(g, s, n)]
    BY <2>2
  <2>4. m + 1 \in Nat
    BY <1>2
  <2> HIDE DEF g
  <2>5. Upto(m + 1)
    BY <2>3
  <2> QED BY <2>4, <2>5
<1> HIDE DEF Upto
<1>3. T = Nat
  <2>1. T \in SUBSET Nat
    OBVIOUS
  <2> HIDE DEF T
  <2> QED BY <1>1, <1>2, <2>1, SetInduction
<1>4. Upto(Len(s))
  BY <1>3
<1>5. Sum(s) = [n \in 0 .. Len(s) |-> SumStep(Sum(s), s, n)]
  BY <1>4 DEF Upto, Sum
<1> QED BY <1>5

LEMMA TotalIsSum ==
  ASSUME NEW S, NEW s \in Seq(S)
  PROVE  Total(s) = Sum(s)[Len(s)]
  BY DEF Total, Sum, SumStep

LEMMA TotalEmpty == Total(<<>>) = 0
<1>1. <<>> \in Seq(Nat) /\ Len(<<>>) = 0
  BY EmptySeq
<1>2. Sum(<<>>)[0] = SumStep(Sum(<<>>), <<>>, 0)
  <2>1. \A n \in 0 .. Len(<<>>) : Sum(<<>>)[n] = SumStep(Sum(<<>>), <<>>, n)
    BY <1>1, SumIsStep
  <2>2. 0 \in 0 .. Len(<<>>)
    BY <1>1
  <2> QED BY <2>1, <2>2
<1>3. Total(<<>>) = Sum(<<>>)[0]
  BY <1>1, TotalIsSum
<1> QED BY <1>2, <1>3 DEF SumStep

LEMMA TotalAppend ==
  ASSUME NEW S, NEW s \in Seq(S), NEW e \in S
  PROVE  Total(Append(s, e)) = Total(s) + e
<1> DEFINE u == Append(s, e)
           f == Sum(s)
           g == Sum(u)
           T == {n \in Nat : n <= Len(s) => f[n] = g[n]}
<1>1. u \in Seq(S) /\ Len(u) = Len(s) + 1 /\ u[Len(s) + 1] = e /\ \A n \in 1 .. Len(s) : u[n] = s[n]
  BY AppendProperties
<1>2. \A n \in 0 .. Len(s) : f[n] = SumStep(f, s, n)
  BY SumIsStep
<1>3. \A n \in 0 .. Len(s) + 1 : g[n] = SumStep(g, u, n)
  <2>1. \A n \in 0 .. Len(u) : g[n] = SumStep(g, u, n)
    BY <1>1, SumIsStep
  <2> QED BY <1>1, <2>1
<1>4. Total(u) = g[Len(s) + 1] /\ Total(s) = f[Len(s)]
  <2>1. Total(u) = g[Len(u)]
    BY <1>1, TotalIsSum
  <2>2. Total(s) = f[Len(s)]
    BY TotalIsSum
  <2> QED BY <1>1, <2>1, <2>2
<1>5. Len(s) \in Nat
  OBVIOUS
<1> HIDE DEF f, g, u
<1>6. 0 \in T
  BY <1>2, <1>3, <1>5 DEF SumStep
<1>7. ASSUME NEW n \in T  PROVE n + 1 \in T
  <2> SUFFICES ASSUME n + 1 <= Len(s)  PROVE f[n + 1] = g[n + 1]
    BY <1>7
  <2>1. n \in Nat /\ n + 1 \in 1 .. Len(s) /\ (n + 1) - 1 = n /\ n + 1 # 0
    BY <1>5, <1>7
  <2>2. f[n] = g[n]
    BY <1>5, <1>7, <2>1
  <2>3. f[n + 1] = f[n] + s[n + 1]
    BY <1>2, <2>1 DEF SumStep
  <2>4. g[n + 1] = g[n] + u[n + 1]
    <3>1. n + 1 \in 0 .. Len(s) + 1
      BY <2>1
    <3> QED BY <1>3, <2>1, <3>1 DEF SumStep
  <2> QED BY <1>1, <2>1, <2>2, <2>3, <2>4
<1>8. T = Nat
  <2>1. T \in SUBSET Nat
    OBVIOUS
  <2> HIDE DEF T
  <2> QED BY <1>6, <1>7, <2>1, SetInduction
<1>9. f[Len(s)] = g[Len(s)]
  BY <1>5, <1>8
<1>10. g[Len(s) + 1] = g[Len(s)] + e
  <2>1. Len(s) + 1 \in 0 .. Len(s) + 1 /\ Len(s) + 1 # 0 /\ (Len(s) + 1) - 1 = Len(s)
    BY <1>5
  <2>2. g[Len(s) + 1] = SumStep(g, u, Len(s) + 1)
    BY <1>3, <2>1
  <2> QED BY <1>1, <2>1, <2>2 DEF SumStep
<1> QED BY <1>4, <1>9, <1>10 DEF u

LEMMA TotalType ==
  ASSUME NEW s \in Seq(Nat)
  PROVE  Total(s) \in Nat
<1> DEFINE P == {t \in Seq(Nat) : Total(t) \in Nat}
<1>1. <<>> \in P
  BY TotalEmpty, EmptySeq
<1>2. ASSUME NEW t \in P, NEW e \in Nat  PROVE Append(t, e) \in P
  <2>1. Total(Append(t, e)) = Total(t) + e
    BY <1>2, TotalAppend
  <2> QED BY <1>2, <2>1, AppendProperties
<1>3. P = Seq(Nat)
  <2>1. P \in SUBSET Seq(Nat)
    OBVIOUS
  <2> HIDE DEF P
  <2> QED BY <1>1, <1>2, <2>1, SeqInduction
<1> QED BY <1>3
Failing == {"refused", "undefined"}

LoopStep(f, lits, stops, n) ==
  IF n \in stops THEN Ended("ok", <<>>, <<>>, 0, n)
  ELSE IF lits[n].type \in {"refused", "undefined"} THEN Ended(lits[n].type, <<>>, <<>>, 0, n)
  ELSE IF lits[n].next <= n THEN Ended("loops", <<>>, <<>>, 0, n)
  ELSE Ended(f[lits[n].next].end, lits[n].reads \o f[lits[n].next].reads,
             Stored(lits[n]) \o f[lits[n].next].stored,
             SizeOf(lits[n].type) + f[lits[n].next].length, f[lits[n].next].pos)

\* Is there a literal at n, with which the loop goes on?
GoesOn(lits, stops, n) == n \notin stops /\ lits[n].type \notin Failing /\ ~(lits[n].next <= n)

\* Each place refers to later ones.
Onward(N, lits, stops) ==
  /\ DOMAIN lits = 1 .. N
  /\ \A n \in 1 .. N : GoesOn(lits, stops, n) => lits[n].next \in n + 1 .. N

\* The recursive function of Loop exists.
LEMMA LoopIsStep ==
  ASSUME NEW N \in Nat, NEW lits, NEW stops, Onward(N, lits, stops)
  PROVE  \A n \in 1 .. N : Loop(lits, stops)[n] = LoopStep(Loop(lits, stops), lits, stops, n)
<1>0. DOMAIN lits = 1 .. N /\ \A n \in 1 .. N : GoesOn(lits, stops, n) => lits[n].next \in n + 1 .. N
  BY DEF Onward
<1> DEFINE Down(m) == N - m + 1 .. N
           From(m) == \E f : f = [n \in Down(m) |-> LoopStep(f, lits, stops, n)]
           T == {m \in Nat : m <= N => From(m)}
<1>1. 0 \in T
  <2> DEFINE f == [n \in Down(0) |-> 0]
  <2>1. f = [n \in Down(0) |-> LoopStep(f, lits, stops, n)]
    OBVIOUS
  <2>2. From(0)
    BY <2>1
  <2> QED BY <2>2
<1>2. ASSUME NEW m \in T  PROVE m + 1 \in T
  <2> SUFFICES ASSUME m + 1 <= N  PROVE From(m + 1)
    BY <1>2
  <2>1. m \in Nat /\ m <= N
    BY <1>2
  <2>2. PICK f : f = [n \in Down(m) |-> LoopStep(f, lits, stops, n)]
    BY <1>2, <2>1
  <2> DEFINE g == [n \in Down(m + 1) |-> IF n = N - m THEN LoopStep(f, lits, stops, n) ELSE f[n]]
  <2>3. ASSUME NEW n \in Down(m + 1)  PROVE g[n] = LoopStep(g, lits, stops, n)
    <3>1. n \in 1 .. N /\ (n = N - m \/ n \in Down(m)) /\ n >= N - m
      BY <2>1
    <3>2. GoesOn(lits, stops, n) => g[lits[n].next] = f[lits[n].next]
      <4> SUFFICES ASSUME GoesOn(lits, stops, n)  PROVE g[lits[n].next] = f[lits[n].next]
        OBVIOUS
      <4>1. lits[n].next \in n + 1 .. N
        BY <1>0, <3>1
      <4>2. lits[n].next \in Down(m + 1) /\ lits[n].next # N - m
        BY <2>1, <3>1, <4>1
      <4> QED BY <4>2
    <3> HIDE DEF g
    <3>3. LoopStep(g, lits, stops, n) = LoopStep(f, lits, stops, n)
      BY <3>2 DEF LoopStep, GoesOn, Failing
    <3>4. g[n] = IF n = N - m THEN LoopStep(f, lits, stops, n) ELSE f[n]
      BY DEF g
    <3>5. n # N - m => f[n] = LoopStep(f, lits, stops, n)
      <4>1. n # N - m => n \in Down(m)
        BY <3>1
      <4> QED BY <2>2, <4>1
    <3> QED BY <3>3, <3>4, <3>5
  <2>4. g = [n \in Down(m + 1) |-> LoopStep(g, lits, stops, n)]
    BY <2>3
  <2> HIDE DEF g
  <2> QED BY <2>4
<1> HIDE DEF From
<1>3. T = Nat
  <2>1. T \in SUBSET Nat
    OBVIOUS
  <2> HIDE DEF T
  <2> QED BY <1>1, <1>2, <2>1, SetInduction
<1>4. From(N)
  BY <1>3
<1>5. \E f : f = [n \in 1 .. N |-> LoopStep(f, lits, stops, n)]
  <2>1. Down(N) = 1 .. N
    OBVIOUS
  <2> QED BY <1>4, <2>1 DEF From
<1> DEFINE h == CHOOSE f : f = [n \in 1 .. N |-> LoopStep(f, lits, stops, n)]
<1>6. Loop(lits, stops) = h
  BY <1>0 DEF Loop, LoopStep
<1>7. h = [n \in 1 .. N |-> LoopStep(h, lits, stops, n)]
  BY <1>5
<1> HIDE DEF h
<1> QED BY <1>6, <1>7
\* Two forms of it: a loop that does not go on, and one that does
LEMMA LoopStops ==
  ASSUME NEW N \in Nat, NEW lits, NEW stops, Onward(N, lits, stops)
  PROVE  \A n \in 1 .. N : ~GoesOn(lits, stops, n) =>
           /\ Loop(lits, stops)[n].pos = n /\ Loop(lits, stops)[n].reads = <<>> /\ Loop(lits, stops)[n].length = 0
           /\ Loop(lits, stops)[n].end = IF n \in stops THEN "ok"
                                        ELSE IF lits[n].type \in Failing THEN lits[n].type ELSE "loops"
<1> SUFFICES ASSUME NEW n \in 1 .. N, ~GoesOn(lits, stops, n)
             PROVE  /\ Loop(lits, stops)[n].pos = n /\ Loop(lits, stops)[n].reads = <<>>
                    /\ Loop(lits, stops)[n].length = 0
                    /\ Loop(lits, stops)[n].end = IF n \in stops THEN "ok"
                                        ELSE IF lits[n].type \in Failing THEN lits[n].type ELSE "loops"
  OBVIOUS
<1>1. Loop(lits, stops)[n] = LoopStep(Loop(lits, stops), lits, stops, n)
  BY LoopIsStep
<1> QED BY <1>1 DEF LoopStep, GoesOn, Failing, Ended

LEMMA LoopGoesOn ==
  ASSUME NEW N \in Nat, NEW lits, NEW stops, Onward(N, lits, stops), NEW n \in 1 .. N, GoesOn(lits, stops, n)
  PROVE  /\ lits[n].next \in n + 1 .. N
         /\ Loop(lits, stops)[n] =
              Ended(Loop(lits, stops)[lits[n].next].end,
                    lits[n].reads \o Loop(lits, stops)[lits[n].next].reads,
                    Stored(lits[n]) \o Loop(lits, stops)[lits[n].next].stored,
                    SizeOf(lits[n].type) + Loop(lits, stops)[lits[n].next].length,
                    Loop(lits, stops)[lits[n].next].pos)
<1>1. Loop(lits, stops)[n] = LoopStep(Loop(lits, stops), lits, stops, n)
  BY LoopIsStep
<1> DEFINE f == Loop(lits, stops)
<1>2. f[n] = LoopStep(f, lits, stops, n)
  BY <1>1
<1> HIDE DEF f
<1>3. f[n] = Ended(f[lits[n].next].end, lits[n].reads \o f[lits[n].next].reads,
                   Stored(lits[n]) \o f[lits[n].next].stored,
                   SizeOf(lits[n].type) + f[lits[n].next].length, f[lits[n].next].pos)
  BY <1>2 DEF LoopStep, GoesOn, Failing
<1> QED BY <1>3 DEF f, Onward

LEMMA EndedIs ==
  \A e, r, s, l, p : Ended(e, r, s, l, p).end = e /\ Ended(e, r, s, l, p).reads = r
                    /\ Ended(e, r, s, l, p).length = l /\ Ended(e, r, s, l, p).pos = p
  BY DEF Ended

LEMMA LoopNext ==
  ASSUME NEW N \in Nat, NEW lits, NEW stops, Onward(N, lits, stops), NEW n \in 1 .. N, GoesOn(lits, stops, n)
  PROVE  /\ Loop(lits, stops)[n].pos = Loop(lits, stops)[lits[n].next].pos
         /\ Loop(lits, stops)[n].end = Loop(lits, stops)[lits[n].next].end
<1> DEFINE f == Loop(lits, stops)
           o == f[lits[n].next]
           r == lits[n].reads \o o.reads
           s == Stored(lits[n]) \o o.stored
           l == SizeOf(lits[n].type) + o.length
<1>1. f[n] = Ended(o.end, r, s, l, o.pos)
  BY LoopGoesOn
<1> HIDE DEF f, r, s, l
<1>2. f[n].pos = o.pos /\ f[n].end = o.end
  BY <1>1, EndedIs
<1> QED BY <1>2 DEF f

LEMMA LoopAdds ==
  ASSUME NEW N \in Nat, NEW lits, NEW stops, Onward(N, lits, stops), NEW n \in 1 .. N, GoesOn(lits, stops, n)
  PROVE  /\ Loop(lits, stops)[n].reads = lits[n].reads \o Loop(lits, stops)[lits[n].next].reads
         /\ Loop(lits, stops)[n].length = SizeOf(lits[n].type) + Loop(lits, stops)[lits[n].next].length
<1> DEFINE f == Loop(lits, stops)
           o == f[lits[n].next]
           r == lits[n].reads \o o.reads
           s == Stored(lits[n]) \o o.stored
           l == SizeOf(lits[n].type) + o.length
<1>1. f[n] = Ended(o.end, r, s, l, o.pos)
  BY LoopGoesOn
<1> HIDE DEF f, r, s, l
<1>2. f[n].reads = r /\ f[n].length = l
  BY <1>1, EndedIs
<1> QED BY <1>2 DEF f, r, l

\* What holds where a loop does not go on, and at a place if at the next one,
\* holds at each place of G, to which the loop keeps.
Keeps(G, lits, stops) == \A n \in G : GoesOn(lits, stops, n) => lits[n].next \in G

LEMMA LoopInduction ==
  ASSUME NEW N \in Nat, NEW lits, NEW stops, Onward(N, lits, stops),
         NEW G \in SUBSET (1 .. N), Keeps(G, lits, stops), NEW P,
         \A n \in G : ~GoesOn(lits, stops, n) => n \in P,
         \A n \in G : GoesOn(lits, stops, n) /\ lits[n].next \in P => n \in P
  PROVE  G \subseteq P
<1> DEFINE T == {m \in Nat : \A n \in G : N - n <= m => n \in P}
<1>1. 0 \in T
  <2>1. ASSUME NEW n \in G, N - n <= 0  PROVE n \in P
    <3>1. n = N
      BY <2>1
    <3>2. ~GoesOn(lits, stops, n)
      BY <3>1 DEF Onward
    <3> QED BY <3>2
  <2> QED BY <2>1
<1>2. ASSUME NEW m \in T  PROVE m + 1 \in T
  <2>1. ASSUME NEW n \in G, N - n <= m + 1, GoesOn(lits, stops, n)  PROVE n \in P
    <3>1. lits[n].next \in n + 1 .. N /\ lits[n].next \in G /\ n \in 1 .. N /\ m \in Nat
      BY <1>2, <2>1 DEF Onward, Keeps
    <3>2. N - lits[n].next <= m
      BY <2>1, <3>1
    <3>3. lits[n].next \in P
      BY <1>2, <3>1, <3>2
    <3> QED BY <2>1, <3>3
  <2>2. \A n \in G : N - n <= m + 1 => n \in P
    BY <2>1
  <2> QED BY <1>2, <2>2
<1>3. T = Nat
  <2>1. T \in SUBSET Nat
    OBVIOUS
  <2> HIDE DEF T
  <2> QED BY <1>1, <1>2, <2>1, SetInduction
<1>4. ASSUME NEW n \in G  PROVE n \in P
  <2>1. N \in T
    BY <1>3
  <2>2. N - n <= N
    OBVIOUS
  <2> QED BY <2>1, <2>2
<1> QED BY <1>4

\* A loop ends at a place where it does not go on.
LEMMA LoopEnds ==
  ASSUME NEW N \in Nat, NEW lits, NEW stops, Onward(N, lits, stops),
         NEW G \in SUBSET (1 .. N), Keeps(G, lits, stops), NEW n \in G
  PROVE  /\ Loop(lits, stops)[n].pos \in G
         /\ n <= Loop(lits, stops)[n].pos
         /\ ~GoesOn(lits, stops, Loop(lits, stops)[n].pos)
         /\ Loop(lits, stops)[n].end =
              IF Loop(lits, stops)[n].pos \in stops THEN "ok"
              ELSE IF lits[Loop(lits, stops)[n].pos].type \in Failing
                     THEN lits[Loop(lits, stops)[n].pos].type ELSE "loops"
<1> DEFINE L == Loop(lits, stops)
           Claim(k) == /\ L[k].pos \in G /\ k <= L[k].pos /\ ~GoesOn(lits, stops, L[k].pos)
                       /\ L[k].end = IF L[k].pos \in stops THEN "ok"
                                     ELSE IF lits[L[k].pos].type \in Failing THEN lits[L[k].pos].type ELSE "loops"
           P == {k \in G : Claim(k)}
<1>1. ASSUME NEW k \in G, ~GoesOn(lits, stops, k)  PROVE k \in P
  <2>1. k \in 1 .. N
    OBVIOUS
  <2> QED BY <1>1, <2>1, LoopStops
<1>2. ASSUME NEW k \in G, GoesOn(lits, stops, k), lits[k].next \in P  PROVE k \in P
  <2>1. k \in 1 .. N /\ lits[k].next \in k + 1 .. N
    BY <1>2 DEF Onward
  <2>2. L[k].pos = L[lits[k].next].pos /\ L[k].end = L[lits[k].next].end
    BY <1>2, <2>1, LoopNext
  <2>3. k <= L[k].pos
    <3>1. L[lits[k].next].pos \in 1 .. N /\ lits[k].next <= L[lits[k].next].pos
      BY <1>2
    <3> QED BY <2>1, <2>2, <3>1
  <2> QED BY <1>2, <2>2, <2>3
<1>3. G \subseteq P
  <2> HIDE DEF L, Claim, P
  <2>1. \A k \in G : ~GoesOn(lits, stops, k) => k \in P
    BY <1>1
  <2>2. \A k \in G : GoesOn(lits, stops, k) /\ lits[k].next \in P => k \in P
    BY <1>2
  <2>3. N \in Nat /\ Onward(N, lits, stops) /\ G \in SUBSET (1 .. N) /\ Keeps(G, lits, stops)
    OBVIOUS
  <2> QED BY <2>1, <2>2, <2>3, LoopInduction
<1>4. n \in P
  BY <1>3
<1> QED BY <1>4

LEMMA SizeIs == \A type : SizeOf(type) \in Nat
  BY DEF SizeOf

LEMMA LoopLength ==
  ASSUME NEW N \in Nat, NEW lits, NEW stops, Onward(N, lits, stops), NEW n \in 1 .. N
  PROVE  Loop(lits, stops)[n].length \in Nat
<1> DEFINE L == Loop(lits, stops)
           P == {k \in 1 .. N : L[k].length \in Nat}
<1>1. ASSUME NEW k \in 1 .. N, ~GoesOn(lits, stops, k)  PROVE k \in P
  <2>1. L[k].length = 0
    BY <1>1, LoopStops
  <2> QED BY <2>1
<1>2. ASSUME NEW k \in 1 .. N, GoesOn(lits, stops, k), lits[k].next \in P  PROVE k \in P
  <2>1. L[k].length = SizeOf(lits[k].type) + L[lits[k].next].length
    <3>1. Onward(N, lits, stops) /\ N \in Nat /\ k \in 1 .. N /\ GoesOn(lits, stops, k)
      BY <1>2
    <3> QED BY <3>1, LoopAdds, Zenon
  <2>2. SizeOf(lits[k].type) \in Nat
    BY SizeIs
  <2> QED BY <1>2, <2>1, <2>2
<1>3. Keeps(1 .. N, lits, stops)
  BY DEF Keeps, Onward
<1>4. n \in P
  <2> HIDE DEF P
  <2>1. 1 .. N \subseteq P
    BY <1>1, <1>2, <1>3, LoopInduction
  <2> QED BY <2>1
<1> QED BY <1>4

-----------------------------------------------------------------------------
(* The numbers of a part of a line *)

Part(a, b) == [k \in 1 .. b - a |-> a + k - 1]
NumbersIn(c, a, b) == Where(Part(a, b), Numbers(c))

LEMMA PartIs ==
  ASSUME NEW a \in Nat, NEW b \in Nat, a <= b
  PROVE  Part(a, b) \in Seq(Nat) /\ Len(Part(a, b)) = b - a /\ \A k \in 1 .. b - a : Part(a, b)[k] = a + k - 1
  BY DEF Part

LEMMA PartsJoin ==
  ASSUME NEW a \in Nat, NEW b \in Nat, NEW d \in Nat, a <= b, b <= d
  PROVE  Part(a, b) \o Part(b, d) = Part(a, d)
<1>1. Part(a, b) \in Seq(Nat) /\ Len(Part(a, b)) = b - a /\ \A k \in 1 .. b - a : Part(a, b)[k] = a + k - 1
  BY PartIs
<1>2. Part(b, d) \in Seq(Nat) /\ Len(Part(b, d)) = d - b /\ \A k \in 1 .. d - b : Part(b, d)[k] = b + k - 1
  BY PartIs
<1>3. Part(a, d) \in Seq(Nat) /\ Len(Part(a, d)) = d - a /\ \A k \in 1 .. d - a : Part(a, d)[k] = a + k - 1
  BY PartIs
<1>4. /\ Part(a, b) \o Part(b, d) \in Seq(Nat) /\ Len(Part(a, b) \o Part(b, d)) = d - a
      /\ \A k \in 1 .. d - a : (Part(a, b) \o Part(b, d))[k] =
                               IF k <= b - a THEN Part(a, b)[k] ELSE Part(b, d)[k - (b - a)]
  BY <1>1, <1>2, ConcatProperties
<1>5. ASSUME NEW k \in 1 .. d - a  PROVE (Part(a, b) \o Part(b, d))[k] = Part(a, d)[k]
  <2>1. CASE k <= b - a
    BY <1>1, <1>3, <1>4, <2>1
  <2>2. CASE ~(k <= b - a)
    <3>1. k - (b - a) \in 1 .. d - b /\ b + (k - (b - a)) - 1 = a + k - 1
      BY <2>2
    <3> QED BY <1>2, <1>3, <1>4, <2>2, <3>1
  <2> QED BY <2>1, <2>2
<1> QED BY <1>3, <1>4, <1>5, SeqEqual

LEMMA NumbersJoin ==
  ASSUME NEW c, NEW a \in Nat, NEW b \in Nat, NEW d \in Nat, a <= b, b <= d
  PROVE  /\ NumbersIn(c, a, b) \o NumbersIn(c, b, d) = NumbersIn(c, a, d)
         /\ NumbersIn(c, a, b) \in Seq(Nat) /\ Len(NumbersIn(c, a, b)) \in Nat
<1>1. Part(a, b) \in Seq(Nat) /\ Part(b, d) \in Seq(Nat) /\ Part(a, b) \o Part(b, d) = Part(a, d)
  BY PartIs, PartsJoin
<1>2. Where(Part(a, b) \o Part(b, d), Numbers(c)) = NumbersIn(c, a, b) \o NumbersIn(c, b, d)
  <2> DEFINE s == Part(a, b)
             t == Part(b, d)
             S == Numbers(c)
  <2>1. s \in Seq(Nat) /\ t \in Seq(Nat)
    BY <1>1
  <2> HIDE DEF s, t, S
  <2>2. Where(s \o t, S) = Where(s, S) \o Where(t, S)
    BY <2>1, WhereConcat
  <2> QED BY <2>2 DEF s, t, S, NumbersIn
<1>3. NumbersIn(c, a, b) \in Seq(Nat \cap Numbers(c))
  BY <1>1, WhereType DEF NumbersIn
<1>4. NumbersIn(c, a, b) \in Seq(Nat)
  <2>1. Nat \cap Numbers(c) \subseteq Nat
    OBVIOUS
  <2> QED BY <1>3, <2>1, SeqMonotonic
<1> QED BY <1>1, <1>2, <1>4 DEF NumbersIn

\* A part without a number, and one with its only number in front
LEMMA NoNumbers ==
  ASSUME NEW c, NEW a \in Nat, NEW b \in Nat, a <= b, \A k \in a .. b - 1 : k \notin Numbers(c)
  PROVE  NumbersIn(c, a, b) = <<>>
<1>1. Part(a, b) \in Seq(Nat) /\ Len(Part(a, b)) = b - a /\ \A k \in 1 .. b - a : Part(a, b)[k] = a + k - 1
  BY PartIs
<1>2. \A k \in 1 .. Len(Part(a, b)) : Part(a, b)[k] \notin Numbers(c)
  <2>1. ASSUME NEW k \in 1 .. b - a  PROVE a + k - 1 \in a .. b - 1
    OBVIOUS
  <2> QED BY <1>1, <2>1
<1> QED BY <1>1, <1>2, WhereNone DEF NumbersIn

LEMMA OneNumber ==
  ASSUME NEW c, NEW a \in Nat, NEW b \in Nat, a < b, a \in Numbers(c), \A k \in a + 1 .. b - 1 : k \notin Numbers(c)
  PROVE  NumbersIn(c, a, b) = <<a>>
<1>1. NumbersIn(c, a, a + 1) \o NumbersIn(c, a + 1, b) = NumbersIn(c, a, b)
  <2>1. a + 1 \in Nat /\ a <= a + 1 /\ a + 1 <= b
    OBVIOUS
  <2> QED BY <2>1, NumbersJoin, Zenon
<1>2. NumbersIn(c, a + 1, b) = <<>>
  BY NoNumbers
<1>3. Part(a, a + 1) = <<a>>
  <2>1. (a + 1) - a = 1
    OBVIOUS
  <2>2. Part(a, a + 1) = [k \in 1 .. 1 |-> a + k - 1]
    BY <2>1 DEF Part
  <2> DEFINE p == Part(a, a + 1)
  <2> HIDE DEF p
  <2>3. p \in Seq(Nat) /\ Len(p) = 1 /\ p[1] = a
    <3>1. p = [k \in 1 .. 1 |-> a + k - 1]
      BY <2>2 DEF p
    <3> QED BY <3>1
  <2>4. <<a>> \in Seq(Nat) /\ Len(<<a>>) = 1 /\ <<a>>[1] = a
    OBVIOUS
  <2> QED BY <2>3, <2>4, SeqEqual DEF p
<1>4. Where(<<a>>, Numbers(c)) = <<a>>
  <2>1. <<a>> \in Seq(Nat) /\ \A n \in 1 .. Len(<<a>>) : <<a>>[n] \in Numbers(c)
    OBVIOUS
  <2> QED BY <2>1, WhereAll
<1>5. NumbersIn(c, a, a + 1) = <<a>>
  BY <1>3, <1>4 DEF NumbersIn
<1>6. <<a>> \o <<>> = <<a>>
  BY ConcatEmptySeq
<1> QED BY <1>1, <1>2, <1>5, <1>6

-----------------------------------------------------------------------------
(* How far a literal reaches.  A line c has the places of Places(c).       *)

LEMMA Least ==
  ASSUME NEW S \in SUBSET Nat, S # {}
  PROVE  \E x \in S : \A y \in S : x <= y
<1>1. IsWellFoundedOn(Less, Nat)
  BY NatLessThanWellFounded, Zenon DEF OpToRel, Less
<1>2. PICK x \in S : \A y \in S : <<y, x>> \notin Less
  BY <1>1, WFMin
<1>3. ASSUME NEW y \in S  PROVE x <= y
  <2>1. <<y, x>> \notin Less
    BY <1>2
  <2>2. <<y, x>> \in Nat \X Nat
    OBVIOUS
  <2>3. ~(y < x)
    BY <2>1, <2>2 DEF Less
  <2> QED BY <2>3
<1> QED BY <1>3

LEMMA FirstIs ==
  ASSUME NEW c, Len(c) \in Nat, NEW n \in 1 .. Len(c) + 1, NEW S
  PROVE  /\ First(c, n, S) \in n .. Len(c) + 1
         /\ First(c, n, S) = Len(c) + 1 \/ c[First(c, n, S)] \in S
         /\ \A k \in n .. First(c, n, S) - 1 : c[k] \notin S
<1> DEFINE T == {m \in n .. Len(c) + 1 : m = Len(c) + 1 \/ c[m] \in S}
<1>1. T \in SUBSET Nat /\ T # {}
  <2>1. Len(c) + 1 \in T
    OBVIOUS
  <2> QED BY <2>1
<1>2. PICK x \in T : \A y \in T : x <= y
  <2> HIDE DEF T
  <2> QED BY <1>1, Least
<1>3. ASSUME NEW k \in n .. x - 1  PROVE c[k] \notin S
  <2>1. k \notin T /\ k \in n .. Len(c) + 1
    BY <1>2
  <2> QED BY <2>1
<1>4. \E m \in n .. Len(c) + 1 :
        /\ m = Len(c) + 1 \/ c[m] \in S
        /\ \A k \in n .. m - 1 : c[k] \notin S
  BY <1>2, <1>3
<1> QED BY <1>4 DEF First

\* What First returns is the only place of this kind.
LEMMA FirstOnly ==
  ASSUME NEW c, Len(c) \in Nat, NEW n \in 1 .. Len(c) + 1, NEW S, NEW m \in n .. Len(c) + 1,
         m = Len(c) + 1 \/ c[m] \in S, \A k \in n .. m - 1 : c[k] \notin S
  PROVE  First(c, n, S) = m
<1> DEFINE f == First(c, n, S)
<1>1. f \in n .. Len(c) + 1 /\ (f = Len(c) + 1 \/ c[f] \in S) /\ \A k \in n .. f - 1 : c[k] \notin S
  BY FirstIs
<1> HIDE DEF f
<1>2. f = m
  <2>1. CASE f < m
    <3>1. f \in n .. m - 1
      BY <1>1, <2>1
    <3> QED BY <1>1, <2>1, <3>1
  <2>2. CASE m < f
    <3>1. m \in n .. f - 1
      BY <1>1, <2>2
    <3> QED BY <1>1, <2>2, <3>1
  <2> QED BY <1>1, <2>1, <2>2
<1> QED BY <1>2 DEF f

LEMMA SkippedIs ==
  ASSUME NEW c, Len(c) \in Nat, NEW n \in 1 .. Len(c) + 2
  PROVE  /\ Skipped(c, n) \in n .. Len(c) + 2
         /\ n <= Len(c) + 1 => Skipped(c, n) \in n .. Len(c) + 1
<1>1. n <= Len(c) => First(c, n, Symbols \ {",", " "}) \in n .. Len(c) + 1
  <2> DEFINE S == Symbols \ {",", " "}
  <2> HIDE DEF S
  <2>1. n <= Len(c) => First(c, n, S) \in n .. Len(c) + 1
    BY FirstIs
  <2> QED BY <2>1 DEF S
<1> DEFINE f == First(c, n, Symbols \ {",", " "})
<1> HIDE DEF f
<1>2. n <= Len(c) => f \in n .. Len(c) + 1
  BY <1>1 DEF f
<1>3. Skipped(c, n) = IF n > Len(c) THEN n ELSE f
  BY DEF Skipped, f
<1> QED BY <1>2, <1>3

LEMMA SimpleIs ==
  ASSUME NEW c, Len(c) \in Nat, NEW n \in 1 .. Len(c)
  PROVE  /\ parse_simple(c, n).type \in {"fractional", "integral"}
         /\ parse_simple(c, n).reads = <<First(c, n, Symbols \ {" "})>>
         /\ parse_simple(c, n).next = Skipped(c, First(c, n, {" ", "]"}))
         /\ parse_simple(c, n).next \in n .. Len(c) + 1
<1> DEFINE f == First(c, n, {" ", "]"})
<1>1. f \in n .. Len(c) + 1
  <2> DEFINE S == {" ", "]"}
  <2> HIDE DEF S
  <2>1. First(c, n, S) \in n .. Len(c) + 1
    BY FirstIs
  <2> QED BY <2>1 DEF S
<1> HIDE DEF f
<1>2. Skipped(c, f) \in f .. Len(c) + 1
  BY <1>1, SkippedIs
<1>3. Skipped(c, f) \in n .. Len(c) + 1
  BY <1>1, <1>2
<1>4. parse_simple(c, n) = Simple(c, n, f)
  BY DEF parse_simple, f
<1>5. /\ Simple(c, n, f).type \in {"fractional", "integral"}
      /\ Simple(c, n, f).reads = <<First(c, n, Symbols \ {" "})>>
      /\ Simple(c, n, f).next = Skipped(c, f)
  BY DEF Simple, Literal
<1> QED BY <1>3, <1>4, <1>5 DEF f

-----------------------------------------------------------------------------
(* The three loops go onward.                                              *)

ElementLits(c) == [n \in Places(c) |-> parse_simple(c, n)]
ElementStops(c) == Closing(c) \cup Behind(c)

LEMMA ElementsOnward ==
  ASSUME NEW c, Len(c) \in Nat
  PROVE  /\ Onward(Len(c) + 2, ElementLits(c), ElementStops(c))
         /\ Keeps(1 .. Len(c) + 1, ElementLits(c), ElementStops(c))
         /\ Elements(c) = Loop(ElementLits(c), ElementStops(c))
         /\ \A n \in 1 .. Len(c) : ElementLits(c)[n] = parse_simple(c, n)
<1>1. ASSUME NEW n \in 1 .. Len(c) + 2, GoesOn(ElementLits(c), ElementStops(c), n)
      PROVE  ElementLits(c)[n].next \in n + 1 .. Len(c) + 1
  <2>1. n \in 1 .. Len(c)
    BY <1>1 DEF GoesOn, ElementStops, Behind
  <2>2. ElementLits(c)[n] = parse_simple(c, n)
    BY DEF ElementLits, Places
  <2>3. parse_simple(c, n).next \in n .. Len(c) + 1
    BY <2>1, SimpleIs
  <2> DEFINE m == parse_simple(c, n).next
  <2> HIDE DEF m
  <2>4. ~(m <= n)
    BY <1>1, <2>2 DEF GoesOn, m
  <2>5. m \in n + 1 .. Len(c) + 1
    BY <2>3, <2>4 DEF m
  <2> QED BY <2>2, <2>5 DEF m
<1>2. DOMAIN ElementLits(c) = 1 .. Len(c) + 2
  BY DEF ElementLits, Places
<1>3. Onward(Len(c) + 2, ElementLits(c), ElementStops(c))
  BY <1>1, <1>2 DEF Onward
<1>4. Keeps(1 .. Len(c) + 1, ElementLits(c), ElementStops(c))
  BY <1>1 DEF Keeps
<1>5. Elements(c) = Loop(ElementLits(c), ElementStops(c))
  BY DEF Elements, ElementLits, ElementStops
<1>6. \A n \in 1 .. Len(c) : ElementLits(c)[n] = parse_simple(c, n)
  BY DEF ElementLits, Places
<1> QED BY <1>3, <1>4, <1>5, <1>6

\* A vector has a bracket and something behind it.
LEMMA VectorIs ==
  ASSUME NEW c, Len(c) \in Nat, NEW p \in 1 .. Len(c), parse_vector(c, p).type \notin Failing
  PROVE  /\ parse_vector(c, p).type = "vector"
         /\ ~(Len(Elements(c)[p + 1].reads) < 4) /\ ~(Len(Elements(c)[p + 1].reads) > 4)
         /\ parse_vector(c, p).reads = Elements(c)[p + 1].reads
         /\ Elements(c)[p + 1].pos \in p + 1 .. Len(c) + 1
         /\ parse_vector(c, p).next = Skipped(c, Elements(c)[p + 1].pos + 1)
         /\ parse_vector(c, p).next \in p + 2 .. Len(c) + 2
<1> DEFINE all == Elements(c)[p + 1]
<1>1. all.pos \in p + 1 .. Len(c) + 1
  <2>1. p + 1 \in 1 .. Len(c) + 1 /\ Len(c) + 2 \in Nat /\ 1 .. Len(c) + 1 \subseteq 1 .. Len(c) + 2
    OBVIOUS
  <2>2. /\ Onward(Len(c) + 2, ElementLits(c), ElementStops(c))
        /\ Keeps(1 .. Len(c) + 1, ElementLits(c), ElementStops(c))
        /\ Elements(c) = Loop(ElementLits(c), ElementStops(c))
    BY ElementsOnward
  <2> DEFINE G == 1 .. Len(c) + 1
             N == Len(c) + 2
             q == p + 1
             lits == ElementLits(c)
             stops == ElementStops(c)
  <2>3. /\ N \in Nat /\ Onward(N, lits, stops) /\ G \in SUBSET (1 .. N) /\ Keeps(G, lits, stops) /\ q \in G
        /\ Elements(c) = Loop(lits, stops)
    BY <2>1, <2>2
  <2> HIDE DEF G, N, q, lits, stops
  <2>4. Loop(lits, stops)[q].pos \in G /\ q <= Loop(lits, stops)[q].pos
    BY <2>3, LoopEnds
  <2> QED BY <2>3, <2>4 DEF G, q
<1> HIDE DEF all
<1>2. parse_vector(c, p) = Vector(c, all)
  BY DEF parse_vector, all
<1>3. ~(Len(all.reads) < 4) /\ ~(Len(all.reads) > 4)
  BY <1>2 DEF Vector, Refused, Undefined, Failing, Literal
<1>4. Vector(c, all) = Literal("vector", all.reads, Skipped(c, all.pos + 1))
  BY <1>3 DEF Vector
<1>5. Skipped(c, all.pos + 1) \in p + 2 .. Len(c) + 2
  <2> DEFINE q == all.pos + 1
  <2>1. q \in p + 2 .. Len(c) + 2 /\ q \in 1 .. Len(c) + 2
    BY <1>1
  <2> HIDE DEF q
  <2>2. Skipped(c, q) \in q .. Len(c) + 2
    BY <2>1, SkippedIs
  <2>3. Skipped(c, q) \in p + 2 .. Len(c) + 2
    BY <2>1, <2>2
  <2> QED BY <2>3 DEF q
<1> DEFINE next == Skipped(c, all.pos + 1)
<1> HIDE DEF next
<1>6. /\ Literal("vector", all.reads, next).type = "vector"
      /\ Literal("vector", all.reads, next).reads = all.reads
      /\ Literal("vector", all.reads, next).next = next
  BY DEF Literal
<1> QED BY <1>1, <1>2, <1>3, <1>4, <1>5, <1>6 DEF next, all

VectorLits(c) == [n \in Places(c) |-> IF n > Len(c) + 1 THEN Undefined ELSE parse_vector(c, n)]

LEMMA VectorsOnward ==
  ASSUME NEW c, Len(c) \in Nat
  PROVE  /\ Onward(Len(c) + 2, VectorLits(c), Closing(c))
         /\ Vectors(c) = Loop(VectorLits(c), Closing(c))
         /\ \A n \in 1 .. Len(c) : VectorLits(c)[n] = parse_vector(c, n)
         /\ \A n \in 1 .. Len(c) + 2 : VectorLits(c)[n].type \in Failing \/ n \in 1 .. Len(c)
<1>1. \A n \in 1 .. Len(c) : VectorLits(c)[n] = parse_vector(c, n)
  BY DEF VectorLits, Places
<1>2. VectorLits(c)[Len(c) + 2].type \in Failing
  BY DEF VectorLits, Places, Undefined, Failing, Literal
<1>3. VectorLits(c)[Len(c) + 1].type \in Failing
  <2> DEFINE N == Len(c) + 2
             lits == ElementLits(c)
             stops == ElementStops(c)
             L == Loop(lits, stops)
  <2>1. N \in Nat /\ Onward(N, lits, stops) /\ Elements(c) = L /\ N \in 1 .. N
    BY ElementsOnward
  <2>2. N \in stops
    BY DEF ElementStops, Behind
  <2> HIDE DEF lits, stops, N
  <2>3. ~GoesOn(lits, stops, N)
    BY <2>2 DEF GoesOn
  <2>4. L[N].reads = <<>>
    BY <2>1, <2>3, LoopStops
  <2>5. Vector(c, Elements(c)[N]) = Refused
    <3>1. Len(Elements(c)[N].reads) < 4
      BY <2>1, <2>4, EmptySeq
    <3> QED BY <3>1 DEF Vector
  <2>6. VectorLits(c)[Len(c) + 1] = Refused
    <3>1. VectorLits(c)[Len(c) + 1] = parse_vector(c, Len(c) + 1)
      BY DEF VectorLits, Places
    <3>2. parse_vector(c, Len(c) + 1) = Vector(c, Elements(c)[N])
      <4>1. (Len(c) + 1) + 1 = N
        BY DEF N
      <4> QED BY <4>1 DEF parse_vector
    <3> QED BY <2>5, <3>1, <3>2
  <2> QED BY <2>6 DEF Refused, Literal, Failing
<1>4. \A n \in 1 .. Len(c) + 2 : VectorLits(c)[n].type \in Failing \/ n \in 1 .. Len(c)
  <2>1. ASSUME NEW n \in 1 .. Len(c) + 2  PROVE n \in 1 .. Len(c) \/ n = Len(c) + 1 \/ n = Len(c) + 2
    OBVIOUS
  <2> QED BY <1>2, <1>3, <2>1
<1>5. ASSUME NEW n \in 1 .. Len(c) + 2, GoesOn(VectorLits(c), Closing(c), n)
      PROVE  VectorLits(c)[n].next \in n + 1 .. Len(c) + 2
  <2>1. n \in 1 .. Len(c) /\ VectorLits(c)[n].type \notin Failing
    BY <1>4, <1>5 DEF GoesOn
  <2>2. VectorLits(c)[n] = parse_vector(c, n)
    BY <1>1, <2>1
  <2>3. parse_vector(c, n).next \in n + 2 .. Len(c) + 2
    BY <2>1, <2>2, VectorIs
  <2> QED BY <2>2, <2>3
<1>6. DOMAIN VectorLits(c) = 1 .. Len(c) + 2
  BY DEF VectorLits, Places
<1>7. Onward(Len(c) + 2, VectorLits(c), Closing(c))
  BY <1>5, <1>6 DEF Onward
<1>8. Vectors(c) = Loop(VectorLits(c), Closing(c))
  BY DEF Vectors, VectorLits
<1> QED BY <1>1, <1>4, <1>7, <1>8

\* The vectors of a matrix end at a bracket.
LEMMA VectorsEnd ==
  ASSUME NEW c, Len(c) \in Nat, NEW n \in 1 .. Len(c) + 1
  PROVE  /\ Vectors(c)[n].end \in {"ok", "refused", "undefined"}
         /\ Vectors(c)[n].end = "ok" => Vectors(c)[n].pos \in n .. Len(c) /\ c[Vectors(c)[n].pos] = "]"
<1> DEFINE G == 1 .. Len(c) + 2
           N == Len(c) + 2
           lits == VectorLits(c)
           stops == Closing(c)
           all == Vectors(c)[n]
<1>1. /\ N \in Nat /\ Onward(N, lits, stops) /\ G \in SUBSET (1 .. N) /\ n \in G
      /\ Vectors(c) = Loop(lits, stops)
  BY VectorsOnward
<1>2. Keeps(G, lits, stops)
  BY <1>1 DEF Keeps, Onward
<1> HIDE DEF G, N, lits, stops
<1>3. /\ Loop(lits, stops)[n].pos \in G
      /\ n <= Loop(lits, stops)[n].pos
      /\ ~GoesOn(lits, stops, Loop(lits, stops)[n].pos)
      /\ Loop(lits, stops)[n].end =
           IF Loop(lits, stops)[n].pos \in stops THEN "ok"
           ELSE IF lits[Loop(lits, stops)[n].pos].type \in Failing
                  THEN lits[Loop(lits, stops)[n].pos].type ELSE "loops"
  BY <1>1, <1>2, LoopEnds
<1>4. /\ all.pos \in G /\ n <= all.pos /\ ~GoesOn(lits, stops, all.pos)
      /\ all.end = IF all.pos \in stops THEN "ok"
                   ELSE IF lits[all.pos].type \in Failing THEN lits[all.pos].type ELSE "loops"
  BY <1>1, <1>3
<1> HIDE DEF all
<1>5. all.pos \notin stops => lits[all.pos].type \in Failing
  <2> SUFFICES ASSUME all.pos \notin stops, lits[all.pos].type \notin Failing  PROVE FALSE
    OBVIOUS
  <2>1. all.pos \in 1 .. Len(c)
    BY <1>4, VectorsOnward DEF G, lits
  <2> DEFINE p == all.pos
  <2> HIDE DEF p
  <2>2. lits[p] = parse_vector(c, p)
    BY <2>1, VectorsOnward DEF lits, p
  <2>3. parse_vector(c, p).next \in p + 2 .. Len(c) + 2
    BY <2>1, <2>2, VectorIs DEF p
  <2>4. ~(lits[p].next <= p)
    BY <2>1, <2>2, <2>3 DEF p
  <2> QED BY <1>4, <2>4 DEF GoesOn, p
<1>6. all.end \in {"ok", "refused", "undefined"}
  BY <1>4, <1>5 DEF Failing
<1>7. all.end = "ok" => all.pos \in stops
  BY <1>4, <1>5 DEF Failing
<1>8. all.pos \in stops => all.pos \in n .. Len(c) /\ c[all.pos] = "]"
  BY <1>4 DEF stops, Closing, G
<1> QED BY <1>6, <1>7, <1>8 DEF all

LEMMA MatrixIs ==
  ASSUME NEW c, Len(c) \in Nat, NEW n \in 1 .. Len(c), Matrix(c, Vectors(c)[n]).type \notin Failing
  PROVE  LET all == Vectors(c)[n] IN
         /\ ~(Len(all.reads) < 16) /\ ~(Len(all.reads) > 16) /\ all.end = "ok"
         /\ all.pos \in n .. Len(c) /\ c[all.pos] = "]"
         /\ Matrix(c, all) = Literal("matrix", all.reads, Skipped(c, all.pos + 1))
         /\ Skipped(c, all.pos + 1) \in n + 1 .. Len(c) + 1
<1> DEFINE all == Vectors(c)[n]
<1>1. /\ all.end \in {"ok", "refused", "undefined"}
      /\ all.end = "ok" => all.pos \in n .. Len(c) /\ c[all.pos] = "]"
  BY VectorsEnd
<1> HIDE DEF all
<1>2. ~(Len(all.reads) > 16 \/ all.end = "undefined") /\ ~(Len(all.reads) < 16 \/ all.end = "refused")
  <2>1. Undefined.type \in Failing /\ Refused.type \in Failing
    BY DEF Undefined, Refused, Failing, Literal
  <2>2. Matrix(c, all).type \notin Failing
    BY DEF all
  <2> QED BY <2>1, <2>2, Zenon DEF Matrix
<1>3. Matrix(c, all) = Literal("matrix", all.reads, Skipped(c, all.pos + 1))
  BY <1>2 DEF Matrix
<1>4. all.end = "ok"
  BY <1>1, <1>2
<1>5. Skipped(c, all.pos + 1) \in n + 1 .. Len(c) + 1
  <2> DEFINE q == all.pos + 1
  <2>1. q \in n + 1 .. Len(c) + 1 /\ q \in 1 .. Len(c) + 2
    BY <1>1, <1>4
  <2> HIDE DEF q
  <2>2. Skipped(c, q) \in q .. Len(c) + 1
    BY <2>1, SkippedIs
  <2>3. Skipped(c, q) \in n + 1 .. Len(c) + 1
    BY <2>1, <2>2
  <2> QED BY <2>3 DEF q
<1> QED BY <1>1, <1>2, <1>3, <1>4, <1>5 DEF all

\* Where the contents of the bracket at p begin
Content(c, p) == First(c, p + 1, Symbols \ {" "})

LEMMA ContentIs ==
  ASSUME NEW c, Len(c) \in Nat, NEW p \in 1 .. Len(c)
  PROVE  /\ Content(c, p) \in p + 1 .. Len(c) + 1
         /\ Content(c, p) = Len(c) + 1 \/ c[Content(c, p)] \in Symbols \ {" "}
         /\ \A k \in p + 1 .. Content(c, p) - 1 : c[k] \notin Symbols \ {" "}
         /\ parse_composite(c, p) =
              IF Content(c, p) <= Len(c) /\ c[Content(c, p)] = "["
                THEN Matrix(c, Vectors(c)[Content(c, p)]) ELSE parse_vector(c, p)
<1> DEFINE S == Symbols \ {" "}
           q == p + 1
<1>1. q \in 1 .. Len(c) + 1
  OBVIOUS
<1> HIDE DEF S, q
<1>2. /\ First(c, q, S) \in q .. Len(c) + 1
      /\ First(c, q, S) = Len(c) + 1 \/ c[First(c, q, S)] \in S
      /\ \A k \in q .. First(c, q, S) - 1 : c[k] \notin S
  BY <1>1, FirstIs
<1>3. Content(c, p) = First(c, q, S)
  BY DEF Content, q, S
<1>4. parse_composite(c, p) =
        IF Content(c, p) <= Len(c) /\ c[Content(c, p)] = "["
          THEN Matrix(c, Vectors(c)[Content(c, p)]) ELSE parse_vector(c, p)
  BY DEF parse_composite, Content
<1> QED BY <1>2, <1>3, <1>4 DEF q, S

LEMMA CompositeNext ==
  ASSUME NEW c, Len(c) \in Nat, NEW p \in 1 .. Len(c), parse_composite(c, p).type \notin Failing
  PROVE  parse_composite(c, p).next \in p + 1 .. Len(c) + 2
<1> DEFINE n == Content(c, p)
<1>1. n \in p + 1 .. Len(c) + 1
  BY ContentIs
<1> HIDE DEF n
<1>2. CASE n <= Len(c) /\ c[n] = "["
  <2>1. parse_composite(c, p) = Matrix(c, Vectors(c)[n])
    BY <1>2, ContentIs DEF n
  <2>2. n \in 1 .. Len(c) /\ Matrix(c, Vectors(c)[n]).type \notin Failing
    BY <1>1, <1>2, <2>1
  <2> DEFINE next == Skipped(c, Vectors(c)[n].pos + 1)
             reads == Vectors(c)[n].reads
  <2>3. next \in n + 1 .. Len(c) + 1 /\ Matrix(c, Vectors(c)[n]) = Literal("matrix", reads, next)
    BY <2>2, MatrixIs
  <2> HIDE DEF next, reads
  <2>4. Literal("matrix", reads, next).next = next
    BY DEF Literal
  <2>5. next \in p + 1 .. Len(c) + 2
    BY <1>1, <2>3
  <2> QED BY <2>1, <2>3, <2>4, <2>5
<1>3. CASE ~(n <= Len(c) /\ c[n] = "[")
  <2>1. parse_composite(c, p) = parse_vector(c, p)
    BY <1>3, ContentIs DEF n
  <2>2. parse_vector(c, p).next \in p + 2 .. Len(c) + 2
    BY <2>1, VectorIs
  <2> QED BY <2>1, <2>2
<1> QED BY <1>2, <1>3

LineLits(c) == [n \in Places(c) |-> consume_lit(c, n)]

LEMMA LineOnward ==
  ASSUME NEW c, Len(c) \in Nat
  PROVE  /\ Onward(Len(c) + 2, LineLits(c), Behind(c))
         /\ Compiled(c) = Loop(LineLits(c), Behind(c))[1]
         /\ \A n \in 1 .. Len(c) : LineLits(c)[n] = consume_lit(c, n)
<1>1. \A n \in 1 .. Len(c) : LineLits(c)[n] = consume_lit(c, n)
  BY DEF LineLits, Places
<1>2. ASSUME NEW n \in 1 .. Len(c) + 2, GoesOn(LineLits(c), Behind(c), n)
      PROVE  LineLits(c)[n].next \in n + 1 .. Len(c) + 2
  <2>1. n \in 1 .. Len(c)
    BY <1>2 DEF GoesOn, Behind
  <2>2. consume_lit(c, n).type \notin Failing /\ ~(consume_lit(c, n).next <= n)
    BY <1>1, <1>2, <2>1 DEF GoesOn
  <2>3. CASE c[1] = "["
    <3>1. consume_lit(c, n) = parse_composite(c, n)
      BY <2>3 DEF consume_lit
    <3>2. parse_composite(c, n).next \in n + 1 .. Len(c) + 2
      BY <2>1, <2>2, <3>1, CompositeNext
    <3> QED BY <1>1, <2>1, <3>1, <3>2
  <2>4. CASE c[1] = "1"
    <3>1. consume_lit(c, n) = parse_simple(c, n)
      BY <2>4 DEF consume_lit
    <3>2. parse_simple(c, n).next \in n .. Len(c) + 1
      BY <2>1, SimpleIs
    <3>3. ~(parse_simple(c, n).next <= n)
      BY <2>2, <3>1
    <3>4. parse_simple(c, n).next \in n + 1 .. Len(c) + 2
      BY <3>2, <3>3
    <3> QED BY <1>1, <2>1, <3>1, <3>4
  <2>5. CASE c[1] # "[" /\ c[1] # "1"
    <3>1. consume_lit(c, n) = Refused
      BY <2>5 DEF consume_lit
    <3>2. Refused.type \in Failing
      BY DEF Refused, Failing, Literal
    <3> QED BY <2>2, <3>1, <3>2
  <2> QED BY <2>3, <2>4, <2>5
<1>3. DOMAIN LineLits(c) = 1 .. Len(c) + 2
  BY DEF LineLits, Places
<1>4. Onward(Len(c) + 2, LineLits(c), Behind(c))
  BY <1>2, <1>3 DEF Onward
<1>5. Compiled(c) = Loop(LineLits(c), Behind(c))[1]
  BY DEF Compiled, LineLits
<1> QED BY <1>1, <1>4, <1>5

LEMMA CompiledEnd ==
  ASSUME NEW c, Len(c) \in Nat
  PROVE  Compiled(c).end \in {"ok", "loops", "refused", "undefined"}
<1> DEFINE N == Len(c) + 2
           lits == LineLits(c)
           stops == Behind(c)
           G == 1 .. N
<1>1. N \in Nat /\ Onward(N, lits, stops) /\ 1 \in G /\ Compiled(c) = Loop(lits, stops)[1] /\ G \in SUBSET (1 .. N)
  BY LineOnward
<1>2. Keeps(G, lits, stops)
  BY <1>1 DEF Keeps, Onward
<1> HIDE DEF N, lits, stops, G
<1>3. Loop(lits, stops)[1].end =
        IF Loop(lits, stops)[1].pos \in stops THEN "ok"
        ELSE IF lits[Loop(lits, stops)[1].pos].type \in Failing
               THEN lits[Loop(lits, stops)[1].pos].type ELSE "loops"
  BY <1>1, <1>2, LoopEnds
<1> QED BY <1>1, <1>3 DEF Failing

LEMMA CompiledLength ==
  ASSUME NEW c, Len(c) \in Nat
  PROVE  Compiled(c).length \in Nat
<1> DEFINE N == Len(c) + 2
           lits == LineLits(c)
           stops == Behind(c)
<1>1. N \in Nat /\ Onward(N, lits, stops) /\ 1 \in 1 .. N /\ Compiled(c) = Loop(lits, stops)[1]
  BY LineOnward
<1> HIDE DEF N, lits, stops
<1>2. Loop(lits, stops)[1].length \in Nat
  BY <1>1, LoopLength
<1> QED BY <1>1, <1>2

\* A line that does not begin with a bracket or a digit is refused.
LEMMA OthersRefused ==
  ASSUME NEW c, Len(c) \in Nat, Len(c) # 0, c[1] \notin {"[", "1"}
  PROVE  Compiled(c).end = "refused"
<1> DEFINE N == Len(c) + 2
           lits == LineLits(c)
           stops == Behind(c)
<1>1. /\ N \in Nat /\ Onward(N, lits, stops) /\ 1 \in 1 .. N /\ Compiled(c) = Loop(lits, stops)[1]
      /\ lits[1] = consume_lit(c, 1)
  BY LineOnward
<1>2. lits[1] = Refused
  BY <1>1 DEF consume_lit
<1>3. 1 \notin stops
  BY DEF Behind
<1> HIDE DEF N, lits, stops
<1>4. lits[1].type = "refused"
  BY <1>2 DEF Refused, Literal
<1>5. ~GoesOn(lits, stops, 1) /\ lits[1].type \in Failing
  BY <1>4 DEF GoesOn, Failing
<1>6. Loop(lits, stops)[1].end = IF 1 \in stops THEN "ok" ELSE IF lits[1].type \in Failing THEN lits[1].type ELSE "loops"
  BY <1>1, <1>5, LoopStops
<1> QED BY <1>1, <1>3, <1>4, <1>5, <1>6

-----------------------------------------------------------------------------
(* Sequences of sequences: what is done to each of them, is done to the    *)
(* flattened sequence.                                                     *)

Each(s, h) == [n \in 1 .. Len(s) |-> h[s[n]]]

LEMMA EachEmpty == \A h : Each(<<>>, h) = <<>>
<1> SUFFICES ASSUME NEW h  PROVE Each(<<>>, h) = <<>>
  OBVIOUS
<1>1. Len(<<>>) = 0
  OBVIOUS
<1> QED BY <1>1 DEF Each

LEMMA EachIs ==
  ASSUME NEW h, NEW s
  PROVE  \A n \in 1 .. Len(s) : Each(s, h)[n] = h[s[n]]
  BY DEF Each

LEMMA EachLen ==
  ASSUME NEW X, NEW h, NEW s \in Seq(X)
  PROVE  Len(Each(s, h)) = Len(s)
  BY DEF Each

LEMMA EachType ==
  ASSUME NEW X, NEW Y, NEW h \in [X -> Y], NEW s \in Seq(X)
  PROVE  Each(s, h) \in Seq(Y)
<1>1. \A n \in 1 .. Len(s) : h[s[n]] \in Y
  OBVIOUS
<1> QED BY <1>1 DEF Each

LEMMA EachAppend ==
  ASSUME NEW X, NEW Y, NEW h \in [X -> Y], NEW s \in Seq(X), NEW e \in X
  PROVE  Each(Append(s, e), h) = Append(Each(s, h), h[e])
<1> DEFINE t == Append(s, e)
           u == Append(Each(s, h), h[e])
<1>1. t \in Seq(X) /\ Len(t) = Len(s) + 1 /\ t[Len(s) + 1] = e /\ \A n \in 1 .. Len(s) : t[n] = s[n]
  BY AppendProperties
<1>2. Each(s, h) \in Seq(Y) /\ Len(Each(s, h)) = Len(s) /\ \A n \in 1 .. Len(s) : Each(s, h)[n] = h[s[n]]
  <2>1. Each(s, h) \in Seq(Y) /\ Len(Each(s, h)) = Len(s)
    BY EachType, EachLen
  <2>2. \A n \in 1 .. Len(s) : Each(s, h)[n] = h[s[n]]
    BY EachIs
  <2> QED BY <2>1, <2>2
<1>3. /\ u \in Seq(Y) /\ Len(u) = Len(s) + 1 /\ u[Len(s) + 1] = h[e]
      /\ \A n \in 1 .. Len(s) : u[n] = h[s[n]]
  BY <1>2, AppendProperties
<1> HIDE DEF t, u
<1>4. Each(t, h) \in Seq(Y) /\ Len(Each(t, h)) = Len(s) + 1 /\ \A n \in 1 .. Len(s) + 1 : Each(t, h)[n] = h[t[n]]
  <2>1. Each(t, h) \in Seq(Y) /\ Len(Each(t, h)) = Len(t)
    BY <1>1, EachType, EachLen
  <2>2. \A n \in 1 .. Len(t) : Each(t, h)[n] = h[t[n]]
    BY EachIs
  <2> QED BY <1>1, <2>1, <2>2
<1>5. ASSUME NEW n \in 1 .. Len(s) + 1  PROVE Each(t, h)[n] = u[n]
  <2>1. CASE n = Len(s) + 1
    BY <1>1, <1>3, <1>4, <2>1
  <2>2. CASE n \in 1 .. Len(s)
    BY <1>1, <1>3, <1>4, <2>2
  <2> QED BY <2>1, <2>2
<1>6. Each(t, h) = u
  BY <1>3, <1>4, <1>5, SeqEqual
<1> QED BY <1>6 DEF t, u

LEMMA EachConcat ==
  ASSUME NEW X, NEW Y, NEW h \in [X -> Y], NEW s \in Seq(X), NEW t \in Seq(X)
  PROVE  Each(s \o t, h) = Each(s, h) \o Each(t, h)
<1> DEFINE P == {u \in Seq(X) : Each(s \o u, h) = Each(s, h) \o Each(u, h)}
<1>1. Each(s, h) \in Seq(Y) /\ \A u \in Seq(X) : Each(u, h) \in Seq(Y)
  BY EachType
<1>2. <<>> \in P
  BY <1>1, EachEmpty, ConcatEmptySeq, EmptySeq
<1>3. ASSUME NEW u \in P, NEW e \in X  PROVE Append(u, e) \in P
  <2>1. u \in Seq(X) /\ s \o u \in Seq(X) /\ <<e>> \in Seq(X) /\ Append(u, e) \in Seq(X) /\ h[e] \in Y
    BY <1>3, ConcatProperties, AppendProperties
  <2>2. s \o Append(u, e) = Append(s \o u, e)
    BY <2>1, AppendIsConcat, ConcatAssociative
  <2>3. Each(s \o u, h) = Each(s, h) \o Each(u, h)
    BY <1>3
  <2>4. Each(Append(s \o u, e), h) = Append(Each(s \o u, h), h[e])
    <3> DEFINE v == s \o u
    <3>1. v \in Seq(X)
      BY <2>1
    <3> HIDE DEF v
    <3>2. Each(Append(v, e), h) = Append(Each(v, h), h[e])
      BY <3>1, EachAppend
    <3> QED BY <3>2 DEF v
  <2>5. Each(Append(u, e), h) = Append(Each(u, h), h[e])
    <3>1. u \in Seq(X)
      BY <2>1
    <3> QED BY <3>1, EachAppend
  <2>6. Append(Each(s, h) \o Each(u, h), h[e]) = Each(s, h) \o Append(Each(u, h), h[e])
    <3> DEFINE a == Each(s, h)
               b == Each(u, h)
               d == h[e]
    <3>1. a \in Seq(Y) /\ b \in Seq(Y) /\ a \o b \in Seq(Y) /\ d \in Y /\ <<d>> \in Seq(Y)
      BY <1>1, <2>1, ConcatProperties
    <3> HIDE DEF a, b, d
    <3>2. Append(a \o b, d) = (a \o b) \o <<d>> /\ Append(b, d) = b \o <<d>>
      BY <3>1, AppendIsConcat
    <3>3. (a \o b) \o <<d>> = a \o (b \o <<d>>)
      BY <3>1, ConcatAssociative
    <3>4. Append(a \o b, d) = a \o Append(b, d)
      BY <3>2, <3>3
    <3> QED BY <3>4 DEF a, b, d
  <2> QED BY <2>1, <2>2, <2>3, <2>4, <2>5, <2>6
<1>4. P = Seq(X)
  <2>1. P \in SUBSET Seq(X)
    OBVIOUS
  <2> HIDE DEF P
  <2> QED BY <1>2, <1>3, <2>1, SeqInduction
<1> QED BY <1>4

Maps(hh, h, X) == hh = [t \in Seq(X) |-> Each(t, h)]

MapsAll(ss, h, hh) == Each(FlattenSeq(ss), h) = FlattenSeq(Each(ss, hh))

LEMMA EachFlatten ==
  ASSUME NEW X, NEW Y, NEW h \in [X -> Y], NEW ss \in Seq(Seq(X)), NEW hh, Maps(hh, h, X)
  PROVE  MapsAll(ss, h, hh)
<1> DEFINE P == {uu \in Seq(Seq(X)) : Each(FlattenSeq(uu), h) = FlattenSeq(Each(uu, hh))}
<1>0. hh = [t \in Seq(X) |-> Each(t, h)]
  BY DEF Maps
<1>1. hh \in [Seq(X) -> Seq(Y)]
  BY <1>0, EachType
<1>2. <<>> \in P
  BY FlattenEmpty, EachEmpty, EmptySeq
<1>3. ASSUME NEW uu \in P, NEW t \in Seq(X)  PROVE Append(uu, t) \in P
  <2>1. uu \in Seq(Seq(X)) /\ Append(uu, t) \in Seq(Seq(X)) /\ FlattenSeq(uu) \in Seq(X) /\ hh[t] = Each(t, h)
    BY <1>0, <1>3, AppendProperties, FlattenType
  <2>2. Each(FlattenSeq(uu), h) = FlattenSeq(Each(uu, hh))
    BY <1>3
  <2>3. FlattenSeq(Append(uu, t)) = FlattenSeq(uu) \o t
    BY <2>1, FlattenAppend
  <2>4. Each(FlattenSeq(uu) \o t, h) = Each(FlattenSeq(uu), h) \o Each(t, h)
    BY <2>1, EachConcat
  <2>5. FlattenSeq(Each(Append(uu, t), hh)) = FlattenSeq(Each(uu, hh)) \o hh[t]
    <3>1. Each(Append(uu, t), hh) = Append(Each(uu, hh), hh[t])
      BY <1>1, <2>1, EachAppend
    <3>2. Each(uu, hh) \in Seq(Seq(Y)) /\ hh[t] \in Seq(Y)
      BY <1>1, <2>1, EachType
    <3> QED BY <3>1, <3>2, FlattenAppend
  <2> QED BY <2>1, <2>2, <2>3, <2>4, <2>5
<1>4. P = Seq(Seq(X))
  <2>1. P \in SUBSET Seq(Seq(X))
    OBVIOUS
  <2> HIDE DEF P
  <2> QED BY <1>2, <1>3, <2>1, SeqInduction
<1> QED BY <1>4 DEF MapsAll

Filters(hh, K, X) == hh = [t \in Seq(X) |-> Where(t, K)]

FiltersAll(ss, K, hh) == Where(FlattenSeq(ss), K) = FlattenSeq(Each(ss, hh))

LEMMA WhereFlatten ==
  ASSUME NEW X, NEW ss \in Seq(Seq(X)), NEW K, NEW hh, Filters(hh, K, X)
  PROVE  FiltersAll(ss, K, hh)
<1> DEFINE P == {uu \in Seq(Seq(X)) : Where(FlattenSeq(uu), K) = FlattenSeq(Each(uu, hh))}
<1>0. hh = [t \in Seq(X) |-> Where(t, K)]
  BY DEF Filters
<1>1. hh \in [Seq(X) -> Seq(X)]
  <2>1. X \cap K \subseteq X
    OBVIOUS
  <2>2. \A t \in Seq(X) : Where(t, K) \in Seq(X)
    BY <2>1, WhereType, SeqMonotonic
  <2> QED BY <1>0, <2>2
<1>2. <<>> \in P
  BY FlattenEmpty, EachEmpty, WhereEmpty, EmptySeq
<1>3. ASSUME NEW uu \in P, NEW t \in Seq(X)  PROVE Append(uu, t) \in P
  <2>1. uu \in Seq(Seq(X)) /\ Append(uu, t) \in Seq(Seq(X)) /\ FlattenSeq(uu) \in Seq(X) /\ hh[t] = Where(t, K)
    BY <1>0, <1>3, AppendProperties, FlattenType
  <2>2. Where(FlattenSeq(uu), K) = FlattenSeq(Each(uu, hh))
    BY <1>3
  <2>3. FlattenSeq(Append(uu, t)) = FlattenSeq(uu) \o t
    BY <2>1, FlattenAppend
  <2>4. Where(FlattenSeq(uu) \o t, K) = Where(FlattenSeq(uu), K) \o Where(t, K)
    <3> DEFINE v == FlattenSeq(uu)
    <3>1. v \in Seq(X)
      BY <2>1
    <3> HIDE DEF v
    <3>2. Where(v \o t, K) = Where(v, K) \o Where(t, K)
      BY <3>1, WhereConcat
    <3> QED BY <3>2 DEF v
  <2>5. FlattenSeq(Each(Append(uu, t), hh)) = FlattenSeq(Each(uu, hh)) \o hh[t]
    <3>1. Each(Append(uu, t), hh) = Append(Each(uu, hh), hh[t])
      BY <1>1, <2>1, EachAppend
    <3>2. Each(uu, hh) \in Seq(Seq(X)) /\ hh[t] \in Seq(X)
      BY <1>1, <2>1, EachType
    <3> QED BY <3>1, <3>2, FlattenAppend
  <2> QED BY <2>1, <2>2, <2>3, <2>4, <2>5
<1>4. P = Seq(Seq(X))
  <2>1. P \in SUBSET Seq(Seq(X))
    OBVIOUS
  <2> HIDE DEF P
  <2> QED BY <1>2, <1>3, <2>1, SeqInduction
<1> QED BY <1>4 DEF FiltersAll

\* Those that are not in S contribute nothing.
Masks(g, h, S, X) == \A x \in X : g[x] = IF x \in S THEN h[x] ELSE <<>>

Agree(s, S, h, g) == FlattenSeq(Each(Where(s, S), h)) = FlattenSeq(Each(s, g))

LEMMA FlattenWhere ==
  ASSUME NEW X, NEW Y, NEW h \in [X -> Seq(Y)], NEW s \in Seq(X), NEW S, NEW g \in [X -> Seq(Y)],
         Masks(g, h, S, X)
  PROVE  Agree(s, S, h, g)
<1> DEFINE P == {u \in Seq(X) : FlattenSeq(Each(Where(u, S), h)) = FlattenSeq(Each(u, g))}
<1>1. g \in [X -> Seq(Y)] /\ \A x \in X : g[x] = IF x \in S THEN h[x] ELSE <<>>
  BY DEF Masks
<1>2. <<>> \in P
  BY EachEmpty, WhereEmpty, EmptySeq
<1>3. ASSUME NEW u \in P, NEW e \in X  PROVE Append(u, e) \in P
  <2>1. u \in Seq(X) /\ Append(u, e) \in Seq(X) /\ FlattenSeq(Each(Where(u, S), h)) = FlattenSeq(Each(u, g))
    BY <1>3, AppendProperties
  <2>2. Where(u, S) \in Seq(X)
    <3>1. X \cap S \subseteq X
      OBVIOUS
    <3> QED BY <2>1, <3>1, WhereType, SeqMonotonic
  <2> DEFINE w == Where(u, S)
             a == Each(w, h)
             b == Each(u, g)
  <2>3. a \in Seq(Seq(Y)) /\ b \in Seq(Seq(Y)) /\ h[e] \in Seq(Y) /\ g[e] \in Seq(Y)
    BY <1>1, <2>1, <2>2, EachType
  <2>4. Each(Append(u, e), g) = Append(b, g[e])
    <3>1. g \in [X -> Seq(Y)] /\ u \in Seq(X)
      BY <1>1, <2>1
    <3> QED BY <3>1, EachAppend
  <2>5. FlattenSeq(Append(b, g[e])) = FlattenSeq(b) \o g[e]
    BY <2>3, FlattenAppend
  <2>6. Where(Append(u, e), S) = IF e \in S THEN Append(w, e) ELSE w
    BY <2>1, WhereAppend
  <2>7. Each(Append(w, e), h) = Append(a, h[e])
    BY <2>2, EachAppend
  <2>8. FlattenSeq(Append(a, h[e])) = FlattenSeq(a) \o h[e]
    BY <2>3, FlattenAppend
  <2>9. FlattenSeq(a) = FlattenSeq(b) /\ FlattenSeq(b) \in Seq(Y)
    BY <2>1, <2>3, FlattenType
  <2> HIDE DEF w, a, b
  <2>10. CASE e \in S
    <3>1. FlattenSeq(Each(Where(Append(u, e), S), h)) = FlattenSeq(a) \o h[e]
      BY <2>6, <2>7, <2>8, <2>10
    <3>2. FlattenSeq(Each(Append(u, e), g)) = FlattenSeq(b) \o h[e]
      BY <1>1, <2>4, <2>5, <2>10
    <3> QED BY <2>1, <2>9, <3>1, <3>2
  <2>11. CASE e \notin S
    <3>1. FlattenSeq(Each(Where(Append(u, e), S), h)) = FlattenSeq(a)
      BY <2>6, <2>11 DEF a
    <3>2. FlattenSeq(Each(Append(u, e), g)) = FlattenSeq(b) \o <<>>
      BY <1>1, <2>4, <2>5, <2>11
    <3>3. FlattenSeq(b) \o <<>> = FlattenSeq(b)
      BY <2>9, ConcatEmptySeq
    <3> QED BY <2>1, <2>9, <3>1, <3>2, <3>3
  <2> QED BY <2>10, <2>11
<1>4. P = Seq(X)
  <2>1. P \in SUBSET Seq(X)
    OBVIOUS
  <2> HIDE DEF P
  <2> QED BY <1>2, <1>3, <2>1, SeqInduction
<1> QED BY <1>4 DEF Agree

LEMMA SeqIn ==
  ASSUME NEW X, NEW Y, NEW s \in Seq(X), \A n \in 1 .. Len(s) : s[n] \in Y
  PROVE  s \in Seq(Y)
<1> DEFINE m == Len(s)
<1>1. m \in Nat /\ s \in [1 .. m -> X] /\ \A n \in 1 .. m : s[n] \in Y
  OBVIOUS
<1> HIDE DEF m
<1>2. s \in [1 .. m -> Y]
  BY <1>1
<1> QED BY <1>1, <1>2

LEMMA WhereSame ==
  ASSUME NEW s, NEW S, NEW T, \A n \in 1 .. Len(s) : s[n] \in S <=> s[n] \in T
  PROVE  Where(s, S) = Where(s, T)
<1>1. [n \in 1 .. Len(s) |-> IF s[n] \in S THEN <<s[n]>> ELSE <<>>]
        = [n \in 1 .. Len(s) |-> IF s[n] \in T THEN <<s[n]>> ELSE <<>>]
  OBVIOUS
<1> QED BY <1>1 DEF Where

-----------------------------------------------------------------------------
(* Cut: a line begins a piece, or goes to the end of the last one.         *)

Upto(n) == [k \in 1 .. n |-> k]

LEMMA UptoAppend ==
  ASSUME NEW n \in Nat
  PROVE  Upto(n) \in Seq(1 .. n) /\ Len(Upto(n)) = n /\ Upto(n + 1) = Append(Upto(n), n + 1)
<1>1. Upto(n) \in Seq(Nat) /\ Len(Upto(n)) = n /\ Upto(n) \in Seq(1 .. n)
  BY DEF Upto
<1>2. Upto(n + 1) \in Seq(Nat) /\ Len(Upto(n + 1)) = n + 1 /\ \A k \in 1 .. n + 1 : Upto(n + 1)[k] = k
  BY DEF Upto
<1>3. \A k \in 1 .. n : Upto(n)[k] = k
  BY DEF Upto
<1> DEFINE u == Append(Upto(n), n + 1)
<1>4. u \in Seq(Nat) /\ Len(u) = n + 1 /\ u[n + 1] = n + 1 /\ \A k \in 1 .. n : u[k] = Upto(n)[k]
  BY <1>1, AppendProperties
<1> HIDE DEF u
<1>5. ASSUME NEW k \in 1 .. n + 1  PROVE Upto(n + 1)[k] = u[k]
  <2>1. k \in 1 .. n \/ k = n + 1
    OBVIOUS
  <2> QED BY <1>2, <1>3, <1>4, <2>1
<1>6. Upto(n + 1) = u
  BY <1>2, <1>4, <1>5, SeqEqual
<1> QED BY <1>1, <1>6 DEF u

Begins(ls, mark) == {k \in DOMAIN ls : k = 1 \/ ls[k].first = mark}

LEMMA StartsAre ==
  ASSUME NEW X, NEW ls \in Seq(X), NEW mark
  PROVE  /\ Starts(ls, mark) = Where(Upto(Len(ls)), Begins(ls, mark))
         /\ Starts(ls, mark) \in Seq(1 .. Len(ls))
         /\ ls # <<>> => Len(Starts(ls, mark)) # 0
<1>1. Starts(ls, mark) = Where(Upto(Len(ls)), Begins(ls, mark))
  BY DEF Starts, Upto, Begins
<1>2. Upto(Len(ls)) \in Seq(1 .. Len(ls)) /\ Len(Upto(Len(ls))) = Len(ls)
  BY UptoAppend
<1>3. Where(Upto(Len(ls)), Begins(ls, mark)) \in Seq(1 .. Len(ls))
  <2>1. (1 .. Len(ls)) \cap Begins(ls, mark) \subseteq 1 .. Len(ls)
    OBVIOUS
  <2> QED BY <1>2, <2>1, WhereType, SeqMonotonic
<1>4. ASSUME ls # <<>>  PROVE Len(Starts(ls, mark)) # 0
  <2> DEFINE u == Upto(Len(ls))
             S == Begins(ls, mark)
  <2>1. Len(ls) # 0
    BY <1>4, EmptySeq
  <2>2. 1 \in 1 .. Len(u) /\ u[1] = 1 /\ 1 \in S
    BY <1>2, <2>1 DEF Upto, Begins
  <2>3. u \in Seq(1 .. Len(ls))
    BY <1>2
  <2> HIDE DEF u, S
  <2>4. \E m \in 1 .. Len(Where(u, S)) : Where(u, S)[m] = u[1]
    BY <2>2, <2>3, WhereHas
  <2>5. Where(u, S) \in Seq(1 .. Len(ls))
    BY <1>3 DEF u, S
  <2>6. Len(Where(u, S)) # 0
    BY <2>4, <2>5
  <2> QED BY <1>1, <2>6 DEF u, S
<1> QED BY <1>1, <1>3, <1>4

\* A line that begins a piece
IsNew(ls, e, mark) == ls = <<>> \/ e.first = mark

LEMMA StartsAppend ==
  ASSUME NEW X, NEW ls \in Seq(X), NEW e \in X, NEW mark
  PROVE  Starts(Append(ls, e), mark) =
           IF IsNew(ls, e, mark) THEN Append(Starts(ls, mark), Len(ls) + 1) ELSE Starts(ls, mark)
<1> DEFINE t == Append(ls, e)
           n == Len(ls)
           S == Begins(ls, mark)
           T == Begins(t, mark)
           u == Upto(n)
<1>1. t \in Seq(X) /\ Len(t) = n + 1 /\ t[n + 1] = e /\ \A k \in 1 .. n : t[k] = ls[k]
  BY AppendProperties
<1>2. u \in Seq(1 .. n) /\ Len(u) = n /\ Upto(n + 1) = Append(u, n + 1) /\ n \in Nat
  <2>1. n \in Nat
    OBVIOUS
  <2> HIDE DEF n
  <2> QED BY <2>1, UptoAppend
<1>3. ls = <<>> <=> n = 0
  BY EmptySeq
<1>4. n + 1 \in T <=> IsNew(ls, e, mark)
  <2> HIDE DEF t
  <2> QED BY <1>1, <1>2, <1>3 DEF Begins, IsNew
<1>5. \A k \in 1 .. n : k \in S <=> k \in T
  <2> HIDE DEF t
  <2> QED BY <1>1, <1>2 DEF Begins
<1>6. Where(u, S) = Where(u, T)
  <2>1. \A k \in 1 .. Len(u) : u[k] \in 1 .. n
    BY <1>2
  <2>2. \A k \in 1 .. Len(u) : u[k] \in S <=> u[k] \in T
    BY <1>5, <2>1
  <2> HIDE DEF u, S, T
  <2> QED BY <2>2, WhereSame
<1>7. Starts(ls, mark) = Where(u, S) /\ Starts(t, mark) = Where(Append(u, n + 1), T)
  <2>1. Starts(t, mark) = Where(Upto(Len(t)), T)
    BY <1>1, StartsAre
  <2> QED BY <1>1, <1>2, <2>1, StartsAre
<1>8. Where(Append(u, n + 1), T) = IF n + 1 \in T THEN Append(Where(u, T), n + 1) ELSE Where(u, T)
  <2>1. u \in Seq(Nat) /\ n + 1 \in Nat
    BY <1>2
  <2> DEFINE m == n + 1
  <2> HIDE DEF u, T, m
  <2>2. Where(Append(u, m), T) = IF m \in T THEN Append(Where(u, T), m) ELSE Where(u, T)
    <3>1. m \in Nat
      BY <2>1 DEF m
    <3>2. u \in Seq(Nat)
      BY <2>1
    <3> QED BY <3>1, <3>2, WhereAppend
  <2> QED BY <2>2 DEF m
<1> QED BY <1>4, <1>6, <1>7, <1>8

LEMMA CutIs ==
  ASSUME NEW X, NEW ls \in Seq(X), NEW mark
  PROVE  LET at == Starts(ls, mark)
             n == Len(at)
         IN  /\ Cut(ls, mark) \in Seq(Seq(X)) /\ Len(Cut(ls, mark)) = n
             /\ \A k \in 1 .. n : Cut(ls, mark)[k] =
                  SubSeq(ls, at[k], (IF k = n THEN Len(ls) + 1 ELSE at[k + 1]) - 1)
<1> DEFINE at == Starts(ls, mark)
           n == Len(at)
           all == at \o <<Len(ls) + 1>>
<1>1. at \in Seq(1 .. Len(ls))
  BY StartsAre
<1>2. at \in Seq(Nat) /\ <<Len(ls) + 1>> \in Seq(Nat) /\ Len(<<Len(ls) + 1>>) = 1 /\ n \in Nat
  BY <1>1
<1> HIDE DEF at
<1>3. /\ all \in Seq(Nat) /\ Len(all) = n + 1 /\ all[n + 1] = Len(ls) + 1
      /\ \A k \in 1 .. n : all[k] = at[k]
  BY <1>2, ConcatProperties
<1> HIDE DEF all, n
<1>4. Cut(ls, mark) = [k \in 1 .. n |-> SubSeq(ls, all[k], all[k + 1] - 1)]
  <2>1. Cut(ls, mark) = [k \in 1 .. Len(all) - 1 |-> SubSeq(ls, all[k], all[k + 1] - 1)]
    BY DEF Cut, all, at
  <2>2. Len(all) - 1 = n
    BY <1>2, <1>3
  <2> QED BY <2>1, <2>2
<1>5. ASSUME NEW k \in 1 .. n
      PROVE  all[k] = at[k] /\ all[k + 1] = IF k = n THEN Len(ls) + 1 ELSE at[k + 1]
  <2>1. k # n => k + 1 \in 1 .. n
    BY <1>2
  <2> QED BY <1>2, <1>3, <2>1
<1>6. ASSUME NEW k \in 1 .. n  PROVE SubSeq(ls, all[k], all[k + 1] - 1) \in Seq(X)
  <2> DEFINE a == all[k]
             b == all[k + 1] - 1
  <2>1. a \in 1 .. Len(ls) /\ b \in 0 .. Len(ls)
    <3>1. at[k] \in 1 .. Len(ls)
      BY <1>1, <1>2 DEF n
    <3>2. k # n => at[k + 1] \in 1 .. Len(ls)
      <4>1. k # n => k + 1 \in 1 .. n
        BY <1>2
      <4> QED BY <1>1, <4>1 DEF n
    <3> QED BY <1>5, <3>1, <3>2
  <2> HIDE DEF a, b
  <2>2. \A i \in a .. b : ls[i] \in X
    BY <2>1
  <2>3. a \in Int /\ b \in Int
    BY <2>1
  <2>4. SubSeq(ls, a, b) \in Seq(X)
    BY <2>2, <2>3, SubSeqProperties
  <2> QED BY <2>4 DEF a, b
<1>7. Cut(ls, mark) \in Seq(Seq(X)) /\ Len(Cut(ls, mark)) = n
  <2> DEFINE f == [k \in 1 .. n |-> SubSeq(ls, all[k], all[k + 1] - 1)]
  <2>1. f \in [1 .. n -> Seq(X)]
    BY <1>6
  <2> HIDE DEF f
  <2>2. f \in Seq(Seq(X)) /\ Len(f) = n
    BY <1>2, <2>1
  <2> QED BY <1>4, <2>2 DEF f
<1>8. \A k \in 1 .. n : Cut(ls, mark)[k] = SubSeq(ls, at[k], (IF k = n THEN Len(ls) + 1 ELSE at[k + 1]) - 1)
  BY <1>4, <1>5
<1> QED BY <1>7, <1>8 DEF at, n

\* A part of a line that was there before, and the part that takes in the new one
LEMMA SubSeqAppend ==
  ASSUME NEW X, NEW ls \in Seq(X), NEW e \in X, NEW a \in 1 .. Len(ls), NEW b \in 0 .. Len(ls)
  PROVE  /\ SubSeq(Append(ls, e), a, b) = SubSeq(ls, a, b)
         /\ SubSeq(Append(ls, e), a, Len(ls) + 1) = Append(SubSeq(ls, a, Len(ls)), e)
<1> DEFINE t == Append(ls, e)
           n == Len(ls)
<1>1. t \in Seq(X) /\ Len(t) = n + 1 /\ t[n + 1] = e /\ \A k \in 1 .. n : t[k] = ls[k]
  BY AppendProperties
<1> HIDE DEF t
<1>2. SubSeq(t, a, b) = SubSeq(ls, a, b)
  <2>1. /\ \A i \in a .. b : t[i] \in X
        /\ \A i \in a .. b : ls[i] \in X
    BY <1>1
  <2>2. /\ SubSeq(t, a, b) \in Seq(X) /\ Len(SubSeq(t, a, b)) = IF a <= b THEN b - a + 1 ELSE 0
        /\ \A i \in 1 .. b - a + 1 : SubSeq(t, a, b)[i] = t[a + i - 1]
    BY <2>1, SubSeqProperties
  <2>3. /\ SubSeq(ls, a, b) \in Seq(X) /\ Len(SubSeq(ls, a, b)) = IF a <= b THEN b - a + 1 ELSE 0
        /\ \A i \in 1 .. b - a + 1 : SubSeq(ls, a, b)[i] = ls[a + i - 1]
    BY <2>1, SubSeqProperties
  <2>4. \A i \in 1 .. Len(SubSeq(t, a, b)) : SubSeq(t, a, b)[i] = SubSeq(ls, a, b)[i]
    <3>1. ASSUME NEW i \in 1 .. Len(SubSeq(t, a, b))  PROVE i \in 1 .. b - a + 1 /\ a + i - 1 \in 1 .. n
      BY <2>2
    <3> QED BY <1>1, <2>2, <2>3, <3>1
  <2> QED BY <2>2, <2>3, <2>4, SeqEqual
<1>3. SubSeq(t, a, n + 1) = Append(SubSeq(ls, a, n), e)
  <2>1. a \in 1 .. Len(t) /\ n + 1 \in a .. Len(t) /\ (n + 1) - 1 = n
    BY <1>1
  <2>2. SubSeq(t, a, n + 1) = SubSeq(t, a, (n + 1) - 1) \o <<t[n + 1]>>
    BY <1>1, <2>1, SubSeqRecursiveSecond
  <2>3. SubSeq(t, a, n) = SubSeq(ls, a, n) /\ SubSeq(ls, a, n) \in Seq(X)
    <3>1. /\ \A i \in a .. n : t[i] \in X
          /\ \A i \in a .. n : ls[i] \in X
      BY <1>1
    <3>2. /\ SubSeq(t, a, n) \in Seq(X) /\ Len(SubSeq(t, a, n)) = IF a <= n THEN n - a + 1 ELSE 0
          /\ \A i \in 1 .. n - a + 1 : SubSeq(t, a, n)[i] = t[a + i - 1]
      BY <3>1, SubSeqProperties
    <3>3. /\ SubSeq(ls, a, n) \in Seq(X) /\ Len(SubSeq(ls, a, n)) = IF a <= n THEN n - a + 1 ELSE 0
          /\ \A i \in 1 .. n - a + 1 : SubSeq(ls, a, n)[i] = ls[a + i - 1]
      BY <3>1, SubSeqProperties
    <3>4. \A i \in 1 .. Len(SubSeq(t, a, n)) : SubSeq(t, a, n)[i] = SubSeq(ls, a, n)[i]
      <4>1. ASSUME NEW i \in 1 .. Len(SubSeq(t, a, n))  PROVE i \in 1 .. n - a + 1 /\ a + i - 1 \in 1 .. n
        BY <3>2
      <4> QED BY <1>1, <3>2, <3>3, <4>1
    <3>5. SubSeq(t, a, n) = SubSeq(ls, a, n)
      BY <3>2, <3>3, <3>4, SeqEqual
    <3> QED BY <3>3, <3>5
  <2> DEFINE p == SubSeq(ls, a, n)
  <2>4. p \in Seq(X) /\ SubSeq(t, a, n + 1) = p \o <<e>>
    BY <1>1, <2>1, <2>2, <2>3
  <2> HIDE DEF p
  <2>5. Append(p, e) = p \o <<e>>
    BY <2>4, AppendIsConcat
  <2> QED BY <2>4, <2>5 DEF p
<1> QED BY <1>2, <1>3 DEF t

\* d is c with e at the end of the last piece.
Grows(X, c, d, e) ==
  \E b \in Seq(Seq(X)), p \in Seq(X) : c = Append(b, p) /\ d = Append(b, Append(p, e))

LEMMA CutAppend ==
  ASSUME NEW X, NEW ls \in Seq(X), NEW e \in X, NEW mark
  PROVE  /\ Cut(ls, mark) \in Seq(Seq(X))
         /\ IsNew(ls, e, mark) => Cut(Append(ls, e), mark) = Append(Cut(ls, mark), <<e>>)
         /\ ~IsNew(ls, e, mark) => Grows(X, Cut(ls, mark), Cut(Append(ls, e), mark), e)
<1> DEFINE t == Append(ls, e)
           c == Cut(ls, mark)
           d == Cut(t, mark)
           at == Starts(ls, mark)
           bt == Starts(t, mark)
           n == Len(at)
           m == Len(bt)
           L == Len(ls)
<1>1. t \in Seq(X) /\ Len(t) = L + 1 /\ t[L + 1] = e /\ L \in Nat /\ \A k \in 1 .. L : t[k] = ls[k]
  BY AppendProperties
<1>2. /\ c \in Seq(Seq(X)) /\ Len(c) = n
      /\ \A k \in 1 .. n : c[k] = SubSeq(ls, at[k], (IF k = n THEN L + 1 ELSE at[k + 1]) - 1)
  BY CutIs
<1>3. /\ d \in Seq(Seq(X)) /\ Len(d) = m
      /\ \A k \in 1 .. m : d[k] = SubSeq(t, bt[k], (IF k = m THEN (L + 1) + 1 ELSE bt[k + 1]) - 1)
  <2> HIDE DEF t
  <2>1. /\ d \in Seq(Seq(X)) /\ Len(d) = m
        /\ \A k \in 1 .. m : d[k] = SubSeq(t, bt[k], (IF k = m THEN Len(t) + 1 ELSE bt[k + 1]) - 1)
    BY <1>1, CutIs
  <2> QED BY <1>1, <2>1
<1>4. at \in Seq(1 .. L) /\ n \in Nat /\ (ls # <<>> => n # 0)
  BY StartsAre
<1>5. bt = IF IsNew(ls, e, mark) THEN Append(at, L + 1) ELSE at
  BY StartsAppend
<1>6. \A a \in 1 .. L, b \in 0 .. L :
        /\ SubSeq(t, a, b) = SubSeq(ls, a, b)
        /\ SubSeq(t, a, L + 1) = Append(SubSeq(ls, a, L), e)
  BY SubSeqAppend
<1>7. ASSUME NEW k \in 1 .. n
      PROVE  at[k] \in 1 .. L /\ (IF k = n THEN L + 1 ELSE at[k + 1]) - 1 \in 0 .. L
  <2>1. k # n => k + 1 \in 1 .. n
    BY <1>4
  <2> QED BY <1>1, <1>4, <2>1
<1>8. SubSeq(t, L + 1, L + 1) = <<e>>
  <2>1. \A i \in L + 1 .. L + 1 : t[i] \in X
    BY <1>1
  <2> HIDE DEF t, L
  <2>2. /\ SubSeq(t, L + 1, L + 1) \in Seq(X)
        /\ Len(SubSeq(t, L + 1, L + 1)) = IF L + 1 <= L + 1 THEN (L + 1) - (L + 1) + 1 ELSE 0
        /\ \A i \in 1 .. (L + 1) - (L + 1) + 1 : SubSeq(t, L + 1, L + 1)[i] = t[(L + 1) + i - 1]
    <3> DEFINE q == L + 1
    <3>1. q \in Int /\ \A i \in q .. q : t[i] \in X
      BY <1>1, <2>1
    <3> HIDE DEF q
    <3>2. /\ SubSeq(t, q, q) \in Seq(X)
          /\ Len(SubSeq(t, q, q)) = IF q <= q THEN q - q + 1 ELSE 0
          /\ \A i \in 1 .. q - q + 1 : SubSeq(t, q, q)[i] = t[q + i - 1]
      BY <3>1, SubSeqProperties
    <3> QED BY <3>2 DEF q
  <2> DEFINE r == SubSeq(t, L + 1, L + 1)
  <2> HIDE DEF r
  <2>3. r \in Seq(X) /\ Len(r) = 1 /\ r[1] = e
    <3>1. (L + 1) - (L + 1) + 1 = 1 /\ (L + 1) + 1 - 1 = L + 1 /\ L + 1 <= L + 1
      BY <1>1
    <3> QED BY <1>1, <2>2, <3>1 DEF r
  <2>4. <<e>> \in Seq(X) /\ Len(<<e>>) = 1 /\ <<e>>[1] = e
    OBVIOUS
  <2>5. r = <<e>>
    <3>1. \A i \in 1 .. Len(r) : r[i] = <<e>>[i]
      BY <2>3, <2>4
    <3> QED BY <2>3, <2>4, <3>1, SeqEqual
  <2> QED BY <2>5 DEF r
<1> HIDE DEF t, c, d, at, bt, n, m, L
<1>9. ASSUME IsNew(ls, e, mark)  PROVE d = Append(c, <<e>>)
  <2>1. m = n + 1 /\ bt[n + 1] = L + 1 /\ \A k \in 1 .. n : bt[k] = at[k]
    <3>1. at \in Seq(Nat) /\ L + 1 \in Nat /\ bt = Append(at, L + 1)
      BY <1>1, <1>4, <1>5, <1>9
    <3>2. /\ Len(Append(at, L + 1)) = Len(at) + 1 /\ Append(at, L + 1)[Len(at) + 1] = L + 1
          /\ \A k \in 1 .. Len(at) : Append(at, L + 1)[k] = at[k]
      BY <3>1, AppendProperties
    <3> QED BY <3>1, <3>2 DEF m, n
  <2> DEFINE f == Append(c, <<e>>)
  <2>2. /\ f \in Seq(Seq(X)) /\ Len(f) = n + 1 /\ f[n + 1] = <<e>>
        /\ \A k \in 1 .. n : f[k] = c[k]
    <3>1. <<e>> \in Seq(X)
      OBVIOUS
    <3> QED BY <1>2, <3>1, AppendProperties
  <2> HIDE DEF f
  <2>3. ASSUME NEW k \in 1 .. n  PROVE d[k] = f[k]
    <3>1. k \in 1 .. m /\ k # m /\ (k # n => k + 1 \in 1 .. n)
      BY <1>4, <2>1
    <3>2. d[k] = SubSeq(t, bt[k], bt[k + 1] - 1)
      BY <1>3, <3>1
    <3>3. bt[k] = at[k] /\ bt[k + 1] = IF k = n THEN L + 1 ELSE at[k + 1]
      BY <2>1, <3>1
    <3> DEFINE a == at[k]
               b == (IF k = n THEN L + 1 ELSE at[k + 1]) - 1
    <3>4. d[k] = SubSeq(t, a, b) /\ c[k] = SubSeq(ls, a, b) /\ a \in 1 .. L /\ b \in 0 .. L
      BY <1>2, <1>7, <3>2, <3>3
    <3> HIDE DEF a, b
    <3> QED BY <1>6, <2>2, <3>4
  <2>4. d[n + 1] = f[n + 1]
    <3>1. d[n + 1] = SubSeq(t, bt[n + 1], ((L + 1) + 1) - 1)
      <4>1. n + 1 \in 1 .. m /\ n + 1 = m
        BY <1>4, <2>1
      <4> QED BY <1>3, <4>1
    <3>2. ((L + 1) + 1) - 1 = L + 1
      BY <1>1
    <3> QED BY <1>8, <2>1, <2>2, <3>1, <3>2
  <2>5. \A k \in 1 .. Len(d) : d[k] = f[k]
    <3>1. ASSUME NEW k \in 1 .. n + 1  PROVE k \in 1 .. n \/ k = n + 1
      BY <1>4
    <3> QED BY <1>3, <2>1, <2>3, <2>4, <3>1
  <2>6. d = f
    BY <1>3, <2>1, <2>2, <2>5, SeqEqual
  <2> QED BY <2>6 DEF f
<1>10. ASSUME ~IsNew(ls, e, mark)
       PROVE  \E b \in Seq(Seq(X)), p \in Seq(X) : c = Append(b, p) /\ d = Append(b, Append(p, e))
  <2>1. bt = at /\ m = n /\ n # 0
    BY <1>4, <1>5, <1>10 DEF IsNew, m, n
  <2>2. PICK b \in Seq(Seq(X)), p \in Seq(X) : c = Append(b, p)
    <3>1. c # <<>>
      BY <1>2, <2>1, EmptySeq
    <3> QED BY <1>2, <3>1, SequenceEmptyOrAppend
  <2>3. n = Len(b) + 1 /\ c[n] = p /\ Len(b) \in Nat /\ \A k \in 1 .. Len(b) : c[k] = b[k]
    BY <1>2, <2>2, AppendProperties
  <2> DEFINE q == Append(p, e)
             f == Append(b, q)
  <2>4. q \in Seq(X)
    BY AppendProperties
  <2> HIDE DEF q
  <2>5. f \in Seq(Seq(X)) /\ Len(f) = n /\ f[n] = q /\ \A k \in 1 .. Len(b) : f[k] = c[k]
    BY <2>3, <2>4, AppendProperties
  <2> HIDE DEF f
  <2>6. ASSUME NEW k \in 1 .. Len(b)  PROVE d[k] = f[k]
    <3>1. k \in 1 .. n /\ k # n /\ k + 1 \in 1 .. n
      BY <2>3
    <3> DEFINE a == at[k]
               z == at[k + 1] - 1
    <3>2. d[k] = SubSeq(t, a, z)
      BY <1>3, <2>1, <3>1
    <3>3. c[k] = SubSeq(ls, a, z)
      BY <1>2, <3>1
    <3>4. a \in 1 .. L /\ z \in 0 .. L
      BY <1>7, <3>1
    <3> HIDE DEF a, z
    <3> QED BY <1>6, <2>5, <3>2, <3>3, <3>4
  <2>7. d[n] = f[n]
    <3> DEFINE a == at[n]
    <3>1. n \in 1 .. n
      BY <1>4, <2>1
    <3>2. d[n] = SubSeq(t, a, ((L + 1) + 1) - 1)
      BY <1>3, <2>1, <3>1
    <3>3. c[n] = SubSeq(ls, a, (L + 1) - 1) /\ a \in 1 .. L
      BY <1>2, <1>7, <3>1
    <3>4. ((L + 1) + 1) - 1 = L + 1 /\ (L + 1) - 1 = L /\ 0 \in 0 .. L
      BY <1>1
    <3> HIDE DEF a
    <3>5. d[n] = Append(c[n], e)
      <4>1. SubSeq(t, a, L + 1) = Append(SubSeq(ls, a, L), e)
        BY <1>6, <3>3, <3>4
      <4> QED BY <3>2, <3>3, <3>4, <4>1
    <3> QED BY <2>3, <2>5, <3>5 DEF q
  <2>8. \A k \in 1 .. Len(d) : d[k] = f[k]
    <3>1. ASSUME NEW k \in 1 .. n  PROVE k \in 1 .. Len(b) \/ k = n
      BY <2>3
    <3> QED BY <1>3, <2>1, <2>6, <2>7, <3>1
  <2>9. d = f
    BY <1>3, <2>1, <2>5, <2>8, SeqEqual
  <2> QED BY <2>2, <2>9 DEF f, q
<1>11. ~IsNew(ls, e, mark) => Grows(X, c, d, e)
  BY <1>10 DEF Grows
<1> QED BY <1>2, <1>9, <1>11 DEF c, d, t

LEMMA CutEmpty == \A mark : Cut(<<>>, mark) = <<>>
<1> SUFFICES ASSUME NEW mark  PROVE Cut(<<>>, mark) = <<>>
  OBVIOUS
<1>1. <<>> \in Seq(Nat) /\ Len(<<>>) = 0
  OBVIOUS
<1>2. Starts(<<>>, mark) \in Seq(1 .. 0) /\ Starts(<<>>, mark) = Where(Upto(0), Begins(<<>>, mark))
  BY <1>1, StartsAre
<1>3. Upto(0) = <<>>
  BY DEF Upto
<1>4. Starts(<<>>, mark) = <<>>
  BY <1>2, <1>3, WhereEmpty
<1>5. Cut(<<>>, mark) \in Seq(Seq(Nat)) /\ Len(Cut(<<>>, mark)) = 0
  BY <1>1, <1>4, CutIs
<1> QED BY <1>5, EmptySeq

\* Every piece has a line, and behind it none that would begin another.
PieceOf(X, mark) == {p \in Seq(X) : p # <<>> /\ Tail(p) \in Seq({x \in X : x.first # mark})}

LEMMA CutPieces ==
  ASSUME NEW X, NEW ls \in Seq(X), NEW mark
  PROVE  Cut(ls, mark) \in Seq(PieceOf(X, mark))
<1> DEFINE G == PieceOf(X, mark)
           P == {u \in Seq(X) : Cut(u, mark) \in Seq(G)}
<1>1. <<>> \in P
  BY CutEmpty, EmptySeq
<1>2. ASSUME NEW u \in P, NEW e \in X  PROVE Append(u, e) \in P
  <2>1. u \in Seq(X) /\ Append(u, e) \in Seq(X) /\ Cut(u, mark) \in Seq(G)
    BY <1>2, AppendProperties
  <2>2. CASE IsNew(u, e, mark)
    <3>1. Cut(Append(u, e), mark) = Append(Cut(u, mark), <<e>>)
      BY <2>1, <2>2, CutAppend
    <3>2. <<e>> \in G
      <4>1. <<e>> \in Seq(X) /\ <<e>> # <<>> /\ Tail(<<e>>) = <<>>
        OBVIOUS
      <4> QED BY <4>1, EmptySeq DEF PieceOf
    <3>3. Append(Cut(u, mark), <<e>>) \in Seq(G)
      <4> HIDE DEF G
      <4> QED BY <2>1, <3>2, AppendProperties
    <3> QED BY <2>1, <3>1, <3>3
  <2>3. CASE ~IsNew(u, e, mark)
    <3>1. PICK b \in Seq(Seq(X)), p \in Seq(X) :
            Cut(u, mark) = Append(b, p) /\ Cut(Append(u, e), mark) = Append(b, Append(p, e))
      <4>1. u \in Seq(X) /\ ~IsNew(u, e, mark)
        BY <2>1, <2>3
      <4>2. Grows(X, Cut(u, mark), Cut(Append(u, e), mark), e)
        BY <4>1, CutAppend
      <4> QED BY <4>2 DEF Grows
    <3>2. \A k \in 1 .. Len(b) + 1 : Append(b, p)[k] \in G
      BY <2>1, <3>1, AppendProperties
    <3>3. p \in G /\ b \in Seq(G)
      <4>1. Append(b, p)[Len(b) + 1] = p /\ Len(b) \in Nat /\ \A k \in 1 .. Len(b) : Append(b, p)[k] = b[k]
        BY AppendProperties
      <4>2. \A k \in 1 .. Len(b) : b[k] \in G
        BY <3>2, <4>1
      <4>3. p \in G
        BY <3>2, <4>1
      <4>4. b \in Seq(G)
        <5> HIDE DEF G
        <5>1. b \in [1 .. Len(b) -> Seq(X)]
          OBVIOUS
        <5>2. b \in [1 .. Len(b) -> G]
          BY <4>2, <5>1
        <5> DEFINE n == Len(b)
        <5>3. n \in Nat /\ b \in [1 .. n -> G]
          BY <4>1, <5>2
        <5> HIDE DEF n
        <5> QED BY <5>3
      <4> QED BY <4>3, <4>4
    <3>4. Append(p, e) \in G
      <4>1. p # <<>> /\ Tail(p) \in Seq({x \in X : x.first # mark})
        BY <3>3 DEF PieceOf
      <4>2. Tail(Append(p, e)) = Append(Tail(p), e)
        BY <4>1, HeadTailAppend
      <4>3. e \in {x \in X : x.first # mark}
        BY <2>3 DEF IsNew
      <4>4. Append(Tail(p), e) \in Seq({x \in X : x.first # mark})
        BY <4>1, <4>3, AppendProperties
      <4>5. Append(p, e) \in Seq(X) /\ Append(p, e) # <<>>
        BY AppendProperties
      <4> QED BY <4>2, <4>4, <4>5 DEF PieceOf
    <3>5. Append(b, Append(p, e)) \in Seq(G)
      <4> DEFINE q == Append(p, e)
      <4> HIDE DEF G, q
      <4>1. q \in G
        BY <3>4 DEF q
      <4>2. Append(b, q) \in Seq(G)
        BY <3>3, <4>1, AppendProperties
      <4> QED BY <4>2 DEF q
    <3> QED BY <2>1, <3>1, <3>5
  <2> QED BY <2>2, <2>3
<1>3. P = Seq(X)
  <2>1. P \in SUBSET Seq(X)
    OBVIOUS
  <2> HIDE DEF P
  <2> QED BY <1>1, <1>2, <2>1, SeqInduction
<1> QED BY <1>3

-----------------------------------------------------------------------------
(* The passes, as functions of what they are given: what a variable has    *)
(* once its pass is over.                                                  *)

SourceLine ==
  {l \in Line :
     IF l.first \in {"[", "1", " "}
       THEN l.text \in Seq(Symbols) /\ l.text # <<>> /\ l.text[1] = l.first
       ELSE l.first = "t" => l.text # <<>> /\ l.text[1] \notin {"[", "1"}}

SectionOfPiece(p) == [name |-> SectionOf(Head(p)), body |-> Tail(p)]
KnownPieces(pieces) == Where(Seen(pieces), {p \in ToSet(Seen(pieces)) : SectionOf(Head(p)) # "null"})
SectionsOf(ls) ==
  LET known == KnownPieces(Cut(ls, "."))
  IN  [n \in 1 .. Len(known) |-> SectionOfPiece(known[n])]

DataSections(secs) == Where(secs, {s \in ToSet(secs) : s.name = "data"})
CodeOf(secs) == Where(secs, {s \in ToSet(secs) : s.name \notin {"meta", "data"}})
DefsOf(secs) == IF DataSections(secs) = <<>> THEN <<>> ELSE ReduceData(Last(DataSections(secs)).body)

NamesOf(ds) == [n \in 1 .. Len(ds) |-> ds[n].name]

IdIn(names, name) ==
  IF \E k \in DOMAIN names : names[k] = name THEN (CHOOSE k \in DOMAIN names : names[k] = name) - 1 ELSE -1
Accepted(l) == Parses(l) /\ Fits(l)
ObjectOf(s) == [ev |-> s.name, instrs |-> [k \in 1 .. Len(s.body) |-> EncodeInstr(s.body[k])]]
ObjectsOf(secs) == [n \in 1 .. Len(secs) |-> ObjectOf(secs[n])]
AllParse(secs) == \A n \in 1 .. Len(secs) : \A k \in 1 .. Len(secs[n].body) : Accepted(secs[n].body[k])

CompiledLine(d, k) == Compiled(d.content[k].text)
DataOf(names, d) ==
  [id |-> IdIn(names, d.name),
   length |-> Total([k \in DOMAIN d.content |-> CompiledLine(d, k).length]),
   reads |-> [k \in DOMAIN d.content |-> CompiledLine(d, k).reads],
   stored |-> [k \in DOMAIN d.content |-> CompiledLine(d, k).stored]]
DatasOf(names, ds) == [n \in 1 .. Len(ds) |-> DataOf(names, ds[n])]
AllCompiled(ds) == \A n \in 1 .. Len(ds) : \A k \in DOMAIN ds[n].content : CompiledLine(ds[n], k).end = "ok"

CodeLengthOf(o) == Total([k \in DOMAIN o.instrs |-> o.instrs[k].length + 1])
StorageOffsetOf(dats, n) == Total([k \in 1 .. n - 1 |-> 4 + 1 + dats[k].length])
CodeOffsetOf(objs, n) == Total([k \in 1 .. n - 1 |-> 4 + CodeLengthOf(objs[k])])
StorageIndices(dats) ==
  Indices("storage", Len(dats), [n \in 1 .. Len(dats) |-> [id |-> dats[n].id, offset |-> StorageOffsetOf(dats, n)]])
CodeIndices(dats, objs) ==
  Indices("event", Len(dats), [n \in 1 .. Len(objs) |-> [id |-> objs[n].ev, offset |-> CodeOffsetOf(objs, n)]])
StorageBlock(d, name) == <<Piece("flags", 1, 0), Piece("length", 4, d.length), Piece("data", d.length, name)>>
StorageOf(ds, dats) == FlattenSeq([n \in 1 .. Len(dats) |-> StorageBlock(dats[n], ds[n].name)])
InstrPiece(i) == Piece("instr", i.length + 1, i)
InstrPieces(o) == [k \in 1 .. Len(o.instrs) |-> InstrPiece(o.instrs[k])]
CodeBlock(o) == <<Piece("length", 4, CodeLengthOf(o))>> \o InstrPieces(o)
CodeBlocks(objs) == FlattenSeq([n \in 1 .. Len(objs) |-> CodeBlock(objs[n])])
ImageOf(ds, dats, objs) ==
  <<Piece("magic", 8 + 1, 0)>> \o StorageIndices(dats) \o StorageOf(ds, dats)
    \o CodeIndices(dats, objs) \o CodeBlocks(objs)

-----------------------------------------------------------------------------
(* The inductive invariant: at each place of the program, what has been    *)
(* done is what the passes make of it, and what they refuse is not there.  *)

AfterData == {"file", "done"}
AfterCode == {"data"} \cup AfterData
AfterIdentify == {"code"} \cup AfterCode
AfterReduce == {"identify"} \cup AfterIdentify
AfterParse == {"reduce"} \cup AfterReduce

Inv ==
  /\ TypeOK
  /\ lines \in Seq(SourceLine)
  /\ pc \in AfterParse => sections = SectionsOf(lines)
  /\ pc \in AfterReduce => code = CodeOf(sections) /\ defs = DefsOf(sections)
  /\ pc \in AfterIdentify => labels = NamesOf(defs) /\ Unique(labels) /\ Len(labels) <= MaxDefs
  /\ pc \in AfterCode => AllParse(code) /\ objects = ObjectsOf(code)
  /\ pc \in AfterData => AllCompiled(defs) /\ datas = DatasOf(labels, defs)
  /\ pc = "done" => image = ImageOf(defs, datas, objects)

LEMMA MaxDefsIs == MaxDefs \in Nat
  <1>1. 0 .. 255 \subseteq Nat
  OBVIOUS
<1> QED BY <1>1, AssemblerAssumption, Zenon

LEMMA InvInit == Init => Inv
<1> SUFFICES ASSUME Init  PROVE Inv
  OBVIOUS
<1>1. lines \in Seq(SourceLine)
  <2>1. lines \in SourceFiles /\ lines \in Seq(Line)
    BY AssemblerAssumption DEF Init
  <2>2. \A n \in 1 .. Len(lines) : lines[n] \in SourceLine
    <3>1. ASSUME NEW n \in 1 .. Len(lines)  PROVE lines[n] \in SourceLine
      <4>1. n \in DOMAIN lines /\ lines[n] \in Line
        BY <2>1
      <4>2. IF lines[n].first \in {"[", "1", " "}
              THEN lines[n].text \in Seq(Symbols) /\ lines[n].text # <<>> /\ lines[n].text[1] = lines[n].first
              ELSE lines[n].first = "t" => lines[n].text # <<>> /\ lines[n].text[1] \notin {"[", "1"}
        BY <2>1, <4>1, AssemblerAssumption
      <4> QED BY <4>1, <4>2 DEF SourceLine
    <3> QED BY <3>1
  <2> QED BY <2>1, <2>2
<1>2. TypeOK
  <2>1. labels = <<>> /\ Len(<<>>) = 0 /\ DOMAIN <<>> = {} /\ pc = "strip" /\ datas = <<>>
    BY DEF Init
  <2> QED BY <2>1, MaxDefsIs DEF TypeOK
<1>3. pc = "strip"
  BY DEF Init
<1> QED BY <1>1, <1>2, <1>3 DEF Inv, AfterParse, AfterReduce, AfterIdentify, AfterCode, AfterData

LEMMA InvStrip == Inv /\ Strip => Inv'
<1> SUFFICES ASSUME Inv, Strip  PROVE Inv'
  OBVIOUS
<1> DEFINE S == {l \in ToSet(lines) : l.first # ";"}
<1>1. lines \in Seq(SourceLine) /\ lines' = Where(lines, S)
  BY DEF Inv, Strip
<1>2. lines' \in Seq(SourceLine \cap S)
  <2> HIDE DEF S
  <2> QED BY <1>1, WhereType
<1>3. lines' \in Seq(SourceLine)
  <2>1. SourceLine \cap S \subseteq SourceLine
    OBVIOUS
  <2> QED BY <1>2, <2>1, SeqMonotonic
<1>4. \A n \in DOMAIN lines' : lines'[n].first # ";"
  <2> DEFINE T == SourceLine \cap S
  <2>1. \A l \in T : l.first # ";"
    OBVIOUS
  <2>2. lines' \in Seq(T)
    BY <1>2
  <2> HIDE DEF T
  <2>3. \A n \in DOMAIN lines' : lines'[n] \in T
    BY <2>2
  <2> QED BY <2>1, <2>3
<1>5. TypeOK'
  BY <1>4 DEF Inv, Strip, TypeOK
<1> QED BY <1>3, <1>5 DEF Inv, Strip, AfterParse, AfterReduce, AfterIdentify, AfterCode, AfterData

LEMMA InvParse == Inv /\ ParseSections => Inv'
<1> SUFFICES ASSUME Inv, ParseSections  PROVE Inv'
  OBVIOUS
<1>1. pc' = "reduce" => sections' = SectionsOf(lines)
  BY DEF ParseSections, SectionsOf, SectionOfPiece, KnownPieces
<1>2. lines' = lines /\ pc' \in {"reduce", "undefined"} /\ pc = "parse"
  BY DEF ParseSections
<1>3. TypeOK'
  BY <1>2 DEF Inv, ParseSections, TypeOK
<1> QED BY <1>1, <1>2, <1>3 DEF Inv, AfterParse, AfterReduce, AfterIdentify, AfterCode, AfterData

LEMMA InvReduce == Inv /\ Reduce => Inv'
<1> SUFFICES ASSUME Inv, Reduce  PROVE Inv'
  OBVIOUS
<1>1. code' = CodeOf(sections) /\ defs' = DefsOf(sections)
  BY DEF Reduce, CodeOf, DefsOf, DataSections, Named
<1>2. lines' = lines /\ sections' = sections /\ pc' \in {"identify", "undefined"} /\ pc = "reduce"
  BY DEF Reduce
<1>3. TypeOK'
  BY <1>2 DEF Inv, Reduce, TypeOK
<1> QED BY <1>1, <1>2, <1>3 DEF Inv, AfterParse, AfterReduce, AfterIdentify, AfterCode, AfterData

LEMMA InvIdentify == Inv /\ Identify => Inv'
<1> SUFFICES ASSUME Inv, Identify  PROVE Inv'
  OBVIOUS
<1>1. lines' = lines /\ sections' = sections /\ code' = code /\ defs' = defs /\ pc' \in {"code", "refused"} /\ pc = "identify"
  BY DEF Identify
<1>2. pc' = "code" => labels' = NamesOf(defs) /\ Unique(labels') /\ Len(NamesOf(defs)) <= MaxDefs
  BY DEF Identify, NamesOf
<1>3. pc' # "code" => labels' = labels
  BY DEF Identify
<1>4. TypeOK'
  BY <1>1, <1>2, <1>3 DEF Inv, Identify, TypeOK
<1> QED BY <1>1, <1>2, <1>4 DEF Inv, Unique, AfterParse, AfterReduce, AfterIdentify, AfterCode, AfterData

LEMMA LabelIdIs == \A name : LabelId(name) = IdIn(labels, name)
  BY DEF LabelId, IdIn

-----------------------------------------------------------------------------
(* What kinds of lines there are in the definitions.                       *)

KeptLine == {l \in SourceLine : l.first # ";"}
BodyLine == {l \in KeptLine : l.first # "."}
ContentLine == {l \in BodyLine : l.first # ":"}
SectionNames == {SectionOf(l) : l \in SourceLine}
Section == [name : SectionNames, body : Seq(BodyLine)]
Names == {RestOf(l) : l \in BodyLine}
Def == [name : Names, content : Seq(ContentLine)]

LEMMA SeenTyped ==
  ASSUME NEW X, NEW pieces \in Seq(X)
  PROVE  Seen(pieces) \in Seq(X)
<1>1. CASE pieces # <<>>
  <2>1. Len(pieces) \in Nat /\ Len(pieces) # 0
    BY <1>1, EmptySeq
  <2>2. 1 \in Int /\ Len(pieces) - 1 \in Int /\ \A i \in 1 .. Len(pieces) - 1 : pieces[i] \in X
    BY <2>1
  <2>3. SubSeq(pieces, 1, Len(pieces) - 1) \in Seq(X)
    BY <2>2, SubSeqProperties
  <2> QED BY <2>3 DEF Seen, Front
<1> QED BY <1>1 DEF Seen

LEMMA KnownTyped ==
  ASSUME NEW ls \in Seq(KeptLine)
  PROVE  KnownPieces(Cut(ls, ".")) \in Seq(PieceOf(KeptLine, "."))
<1> DEFINE G == PieceOf(KeptLine, ".")
           seen == Seen(Cut(ls, "."))
           K == {p \in ToSet(seen) : SectionOf(Head(p)) # "null"}
<1>1. Cut(ls, ".") \in Seq(G)
  BY CutPieces
<1>2. G \cap K \subseteq G
  OBVIOUS
<1>3. seen \in Seq(G)
  <2> HIDE DEF G
  <2> QED BY <1>1, SeenTyped
<1>4. KnownPieces(Cut(ls, ".")) = Where(seen, K)
  BY DEF KnownPieces
<1> HIDE DEF G, K, seen
<1>5. Where(seen, K) \in Seq(G \cap K)
  BY <1>3, WhereType
<1>6. Where(seen, K) \in Seq(G)
  BY <1>2, <1>5, SeqMonotonic
<1> QED BY <1>4, <1>6 DEF G

LEMMA PieceSection ==
  ASSUME NEW p \in PieceOf(KeptLine, ".")
  PROVE  SectionOfPiece(p) \in Section
<1>1. p \in Seq(KeptLine) /\ p # <<>> /\ Tail(p) \in Seq({x \in KeptLine : x.first # "."})
  BY DEF PieceOf
<1>2. Tail(p) \in Seq(BodyLine)
  BY <1>1 DEF BodyLine
<1>3. Head(p) \in SourceLine
  <2>1. Head(p) \in KeptLine
    BY <1>1, HeadTailProperties
  <2> QED BY <2>1 DEF KeptLine
<1>4. SectionOf(Head(p)) \in SectionNames
  BY <1>3 DEF SectionNames
<1> QED BY <1>2, <1>4 DEF SectionOfPiece, Section

LEMMA SectionsTyped ==
  ASSUME NEW ls \in Seq(KeptLine)
  PROVE  SectionsOf(ls) \in Seq(Section)
<1> DEFINE known == KnownPieces(Cut(ls, "."))
<1>1. known \in Seq(PieceOf(KeptLine, "."))
  BY KnownTyped
<1>2. SectionsOf(ls) = [n \in 1 .. Len(known) |-> SectionOfPiece(known[n])]
  BY DEF SectionsOf
<1> HIDE DEF known
<1>3. \A n \in 1 .. Len(known) : known[n] \in PieceOf(KeptLine, ".")
  BY <1>1
<1>4. \A n \in 1 .. Len(known) : SectionOfPiece(known[n]) \in Section
  BY <1>3, PieceSection
<1> DEFINE f == [n \in 1 .. Len(known) |-> SectionOfPiece(known[n])]
           m == Len(known)
<1>5. f \in [1 .. m -> Section] /\ m \in Nat
  BY <1>1, <1>4
<1> HIDE DEF f, m
<1>6. f \in Seq(Section)
  BY <1>5
<1> QED BY <1>2, <1>6 DEF f

LEMMA PartTyped ==
  ASSUME NEW secs \in Seq(Section), NEW S
  PROVE  Where(secs, S) \in Seq(Section)
<1>1. Section \cap S \subseteq Section
  OBVIOUS
<1> QED BY <1>1, WhereType, SeqMonotonic

LEMMA DefinitionTyped ==
  ASSUME NEW p \in PieceOf(BodyLine, ":")
  PROVE  Definition(p) \in Def
<1> DEFINE rest == SelectInSeq(Tail(p), LAMBDA l : l.first # "[")
           C == {x \in BodyLine : x.first # ":"}
<1>1. p \in Seq(BodyLine) /\ p # <<>> /\ Tail(p) \in Seq(C)
  BY DEF PieceOf
<1>2. C = ContentLine
  BY DEF ContentLine
<1>3. Head(p) \in BodyLine /\ Len(Tail(p)) = Len(p) - 1 /\ \A n \in 1 .. Len(Tail(p)) : Tail(p)[n] = p[n + 1]
  BY <1>1, HeadTailProperties
<1>4. \A n \in 2 .. Len(p) : p[n] \in C
  <2>1. ASSUME NEW n \in 2 .. Len(p)  PROVE p[n] \in C
    <3>1. n - 1 \in 1 .. Len(Tail(p)) /\ (n - 1) + 1 = n
      BY <1>1, <1>3
    <3>2. Tail(p)[n - 1] \in C
      <4> HIDE DEF C
      <4> QED BY <1>1, <3>1, ElementOfSeq
    <3> QED BY <1>3, <3>1, <3>2
  <2> QED BY <2>1
<1>5. rest = 0 \/ rest \in 1 .. Len(Tail(p))
  <2> DEFINE I == {i \in 1 .. Len(Tail(p)) : Tail(p)[i].first # "["}
  <2>1. rest = IF I # {} THEN CHOOSE x \in I : \A y \in I : x <= y ELSE 0
    BY DEF SelectInSeq, Min
  <2>2. I \in SUBSET Nat
    OBVIOUS
  <2>3. I # {} => \E x \in I : \A y \in I : x <= y
    <3> HIDE DEF I
    <3> QED BY <2>2, Least
  <2>4. I # {} => (CHOOSE x \in I : \A y \in I : x <= y) \in I
    BY <2>3
  <2>5. I # {} => rest \in I
    BY <2>1, <2>4
  <2>6. I \subseteq 1 .. Len(Tail(p))
    OBVIOUS
  <2> HIDE DEF I, rest
  <2> QED BY <2>1, <2>5, <2>6
<1>6. Definition(p) = [name |-> RestOf(Head(p)), content |-> IF rest = 0 THEN <<>> ELSE SubSeq(p, rest + 1, Len(p))]
  BY DEF Definition
<1> HIDE DEF rest, C
<1>7. rest # 0 => SubSeq(p, rest + 1, Len(p)) \in Seq(C)
  <2> SUFFICES ASSUME rest # 0  PROVE SubSeq(p, rest + 1, Len(p)) \in Seq(C)
    OBVIOUS
  <2> DEFINE a == rest + 1
             b == Len(p)
  <2>1. a \in Int /\ b \in Int /\ a >= 2
    BY <1>1, <1>3, <1>5
  <2> HIDE DEF a
  <2>2. \A i \in a .. b : p[i] \in C
    BY <1>4, <2>1
  <2> HIDE DEF b
  <2>3. SubSeq(p, a, b) \in Seq(C)
    BY <2>1, <2>2, SubSeqProperties
  <2> QED BY <2>3 DEF a, b
<1>8. (IF rest = 0 THEN <<>> ELSE SubSeq(p, rest + 1, Len(p))) \in Seq(C)
  BY <1>7, EmptySeq
<1> DEFINE content == IF rest = 0 THEN <<>> ELSE SubSeq(p, rest + 1, Len(p))
<1>9. Definition(p) = [name |-> RestOf(Head(p)), content |-> content] /\ content \in Seq(ContentLine)
  BY <1>2, <1>6, <1>8
<1> HIDE DEF content
<1>10. RestOf(Head(p)) \in Names
  BY <1>3 DEF Names
<1> QED BY <1>9, <1>10 DEF Def

LEMMA DefsTyped ==
  ASSUME NEW secs \in Seq(Section)
  PROVE  DefsOf(secs) \in Seq(Def)
<1>1. CASE DataSections(secs) = <<>>
  BY <1>1, EmptySeq DEF DefsOf
<1>2. CASE DataSections(secs) # <<>>
  <2> DEFINE ds == DataSections(secs)
             body == Last(ds).body
             pieces == Cut(body, ":")
  <2>1. ds \in Seq(Section)
    BY PartTyped DEF DataSections
  <2>2. Last(ds) \in Section
    <3>1. Len(ds) \in 1 .. Len(ds)
      BY <1>2, <2>1, EmptySeq
    <3> HIDE DEF ds
    <3> QED BY <2>1, <3>1 DEF Last
  <2>3. body \in Seq(BodyLine)
    BY <2>2 DEF Section
  <2> HIDE DEF body
  <2>4. pieces \in Seq(PieceOf(BodyLine, ":"))
    BY <2>3, CutPieces
  <2>5. DefsOf(secs) = [n \in 1 .. Len(pieces) |-> Definition(pieces[n])]
    BY <1>2 DEF DefsOf, ReduceData, body
  <2> HIDE DEF pieces
  <2> DEFINE f == [n \in 1 .. Len(pieces) |-> Definition(pieces[n])]
             m == Len(pieces)
  <2>6. \A n \in 1 .. Len(pieces) : pieces[n] \in PieceOf(BodyLine, ":")
    BY <2>4
  <2>7. f \in [1 .. m -> Def] /\ m \in Nat
    BY <2>4, <2>6, DefinitionTyped
  <2> HIDE DEF f, m
  <2>8. f \in Seq(Def)
    BY <2>7
  <2> QED BY <2>5, <2>8 DEF f
<1> QED BY <1>1, <1>2

\* Behind the first pass, the passes work on such lines.
LEMMA InvTyped ==
  ASSUME Inv, pc # "strip"
  PROVE  /\ lines \in Seq(KeptLine)
         /\ pc \in AfterReduce => sections \in Seq(Section) /\ code \in Seq(Section) /\ defs \in Seq(Def)
<1>1. lines \in Seq(KeptLine)
  <2>1. lines \in Seq(SourceLine) /\ \A n \in DOMAIN lines : lines[n].first # ";"
    BY DEF Inv, TypeOK
  <2>2. ASSUME NEW n \in 1 .. Len(lines)  PROVE lines[n] \in KeptLine
    <3>1. lines[n] \in SourceLine
      BY <2>1, ElementOfSeq
    <3>2. n \in DOMAIN lines
      BY <2>1, LenProperties
    <3>3. lines[n].first # ";"
      BY <2>1, <3>2
    <3> QED BY <3>1, <3>3 DEF KeptLine
  <2> QED BY <2>1, <2>2, SeqIn
<1>2. ASSUME pc \in AfterReduce
      PROVE  sections \in Seq(Section) /\ code \in Seq(Section) /\ defs \in Seq(Def)
  <2>1. sections = SectionsOf(lines) /\ code = CodeOf(sections) /\ defs = DefsOf(sections)
    BY <1>2 DEF Inv, AfterParse
  <2>2. sections \in Seq(Section)
    BY <1>1, <2>1, SectionsTyped
  <2> QED BY <2>1, <2>2, PartTyped, DefsTyped DEF CodeOf
<1> QED BY <1>1, <1>2

-----------------------------------------------------------------------------
(* compile_data *)

\* What is in a sequence, is in the flattened sequence.
LEMMA FlattenHas ==
  ASSUME NEW X, NEW ss \in Seq(Seq(X)), NEW n \in 1 .. Len(ss), NEW k \in 1 .. Len(ss[n])
  PROVE  \E m \in 1 .. Len(FlattenSeq(ss)) : FlattenSeq(ss)[m] = ss[n][k]
<1> DEFINE Has(uu) == \A a \in 1 .. Len(uu) : \A b \in 1 .. Len(uu[a]) :
                        \E m \in 1 .. Len(FlattenSeq(uu)) : FlattenSeq(uu)[m] = uu[a][b]
           P == {uu \in Seq(Seq(X)) : Has(uu)}
<1>1. <<>> \in P
  BY EmptySeq
<1>2. ASSUME NEW uu \in P, NEW t \in Seq(X)  PROVE Append(uu, t) \in P
  <2> DEFINE vv == Append(uu, t)
             u == FlattenSeq(uu)
  <2>1. /\ uu \in Seq(Seq(X)) /\ vv \in Seq(Seq(X)) /\ Len(vv) = Len(uu) + 1 /\ vv[Len(uu) + 1] = t
        /\ \A a \in 1 .. Len(uu) : vv[a] = uu[a]
    BY <1>2, AppendProperties
  <2>2. u \in Seq(X) /\ FlattenSeq(vv) = u \o t
    BY <2>1, FlattenAppend, FlattenType
  <2>3. Has(uu)
    BY <1>2
  <2>4. \A a \in 1 .. Len(uu) : \A b \in 1 .. Len(uu[a]) : \E m \in 1 .. Len(u) : u[m] = uu[a][b]
    BY <2>3
  <2> HIDE DEF u
  <2>5. /\ Len(u \o t) = Len(u) + Len(t) /\ Len(u) \in Nat /\ Len(t) \in Nat
        /\ \A m \in 1 .. Len(u) + Len(t) : (u \o t)[m] = IF m <= Len(u) THEN u[m] ELSE t[m - Len(u)]
    BY <2>2, ConcatProperties
  <2> DEFINE w == u \o t
  <2>6. /\ Len(w) = Len(u) + Len(t) /\ Len(u) \in Nat /\ Len(t) \in Nat
        /\ \A m \in 1 .. Len(u) + Len(t) : w[m] = IF m <= Len(u) THEN u[m] ELSE t[m - Len(u)]
    BY <2>5
  <2> HIDE DEF vv, w
  <2>7. ASSUME NEW a \in 1 .. Len(vv), NEW b \in 1 .. Len(vv[a])  PROVE \E m \in 1 .. Len(w) : w[m] = vv[a][b]
    <3>1. CASE a \in 1 .. Len(uu)
      <4>1. PICK m \in 1 .. Len(u) : u[m] = vv[a][b]
        BY <2>1, <2>4, <3>1
      <4>2. m \in 1 .. Len(w) /\ w[m] = u[m]
        BY <2>6
      <4> QED BY <4>1, <4>2
    <3>2. CASE a = Len(uu) + 1
      <4>1. b \in 1 .. Len(t) /\ vv[a][b] = t[b]
        BY <2>1, <3>2
      <4>2. Len(u) + b \in 1 .. Len(w) /\ ~(Len(u) + b <= Len(u)) /\ (Len(u) + b) - Len(u) = b
        BY <2>6, <4>1
      <4>3. w[Len(u) + b] = t[b]
        BY <2>6, <4>2
      <4> QED BY <4>1, <4>2, <4>3
    <3>3. a \in 1 .. Len(uu) \/ a = Len(uu) + 1
      BY <2>1
    <3> QED BY <3>1, <3>2, <3>3
  <2>8. Has(vv)
    <3>1. FlattenSeq(vv) = w
      BY <2>2 DEF w
    <3> QED BY <2>7, <3>1
  <2> QED BY <2>1, <2>8 DEF vv
<1>3. P = Seq(Seq(X))
  <2>1. P \in SUBSET Seq(Seq(X))
    OBVIOUS
  <2> HIDE DEF P
  <2> QED BY <1>1, <1>2, <2>1, SeqInduction
<1>4. Has(ss)
  BY <1>3
<1> QED BY <1>4

\* The id of a definition is its place.
LEMMA IdIs ==
  ASSUME NEW names, Unique(names), NEW n \in DOMAIN names
  PROVE  IdIn(names, names[n]) = n - 1
<1>1. \A k \in DOMAIN names : names[k] = names[n] => k = n
  BY DEF Unique
<1>2. (CHOOSE k \in DOMAIN names : names[k] = names[n]) = n
  BY <1>1
<1> QED BY <1>2 DEF IdIn

LEMMA NamesAre ==
  ASSUME NEW ds \in Seq(Def)
  PROVE  NamesOf(ds) \in Seq(Names) /\ Len(NamesOf(ds)) = Len(ds) /\ \A n \in 1 .. Len(ds) : NamesOf(ds)[n] = ds[n].name
<1>1. ASSUME NEW n \in 1 .. Len(ds)  PROVE ds[n].name \in Names
  <2>1. ds[n] \in Def
    OBVIOUS
  <2> QED BY <2>1 DEF Def
<1> QED BY <1>1 DEF NamesOf

Results == {Compiled(l.text) : l \in ContentLine}

LEMMA ResultEnds == \A r \in Results : r.end \in {"ok", "loops", "refused", "undefined"}
<1>1. ASSUME NEW l \in ContentLine  PROVE Compiled(l.text).end \in {"ok", "loops", "refused", "undefined"}
  <2>1. l.text \in Seq(STRING)
    BY DEF ContentLine, BodyLine, KeptLine, SourceLine, Line
  <2>2. Len(l.text) \in Nat
    BY <2>1
  <2> QED BY <2>2, CompiledEnd
<1> QED BY <1>1 DEF Results

LEMMA ContentIsSeq ==
  ASSUME NEW ds \in Seq(Def), NEW n \in 1 .. Len(ds)
  PROVE  /\ ds[n].content \in Seq(ContentLine) /\ Len(ds[n].content) \in Nat
         /\ DOMAIN ds[n].content = 1 .. Len(ds[n].content)
<1>1. ds[n] \in Def
  OBVIOUS
<1>2. ds[n].content \in Seq(ContentLine)
  BY <1>1 DEF Def
<1> QED BY <1>2

LEMMA CompiledLinesAre ==
  ASSUME defs \in Seq(Def)
  PROVE  /\ CompiledLines \in Seq(Seq(Results)) /\ Len(CompiledLines) = Len(defs)
         /\ \A n \in 1 .. Len(defs) : DOMAIN CompiledLines[n] = DOMAIN defs[n].content
         /\ \A n \in 1 .. Len(defs) : \A k \in DOMAIN defs[n].content : CompiledLines[n][k] = CompiledLine(defs[n], k)
<1>1. \A n \in 1 .. Len(defs) : CompiledLines[n] = [k \in Lines(n) |-> Compiled(defs[n].content[k].text)]
  BY DEF CompiledLines
<1>2. ASSUME NEW n \in 1 .. Len(defs)  PROVE CompiledLines[n] \in Seq(Results)
  <2> DEFINE f == CompiledLines[n]
             m == Len(defs[n].content)
  <2>1. m \in Nat /\ Lines(n) = 1 .. m /\ defs[n].content \in Seq(ContentLine)
    BY ContentIsSeq DEF Lines
  <2>2. ASSUME NEW k \in 1 .. m  PROVE Compiled(defs[n].content[k].text) \in Results
    <3>1. defs[n].content[k] \in ContentLine
      BY <2>1
    <3> QED BY <3>1 DEF Results
  <2>3. f \in [1 .. m -> Results]
    BY <1>1, <2>1, <2>2
  <2> HIDE DEF f, m
  <2>4. f \in Seq(Results)
    BY <2>1, <2>3
  <2> QED BY <2>4 DEF f
<1> DEFINE m == Len(defs)
           g == CompiledLines
<1>3. m \in Nat /\ g \in [1 .. m -> Seq(Results)]
  BY <1>2 DEF CompiledLines
<1> HIDE DEF m, g
<1>4. g \in Seq(Seq(Results)) /\ Len(g) = m
  BY <1>3
<1>5. \A n \in 1 .. Len(defs) : DOMAIN CompiledLines[n] = DOMAIN defs[n].content
  BY <1>1 DEF Lines
<1>6. \A n \in 1 .. Len(defs) : \A k \in DOMAIN defs[n].content : CompiledLines[n][k] = CompiledLine(defs[n], k)
  BY <1>1 DEF Lines, CompiledLine
<1> QED BY <1>4, <1>5, <1>6 DEF g, m

LEMMA InvData == Inv /\ CompileData => Inv'
<1> SUFFICES ASSUME Inv, CompileData  PROVE Inv'
  OBVIOUS
<1>1. /\ lines' = lines /\ sections' = sections /\ code' = code /\ defs' = defs /\ labels' = labels
      /\ objects' = objects /\ pc = "data"
  BY DEF CompileData
<1>2. defs \in Seq(Def)
  BY <1>1, InvTyped DEF AfterReduce, AfterIdentify, AfterCode
<1> DEFINE compiled == CompiledLines
           all == FlattenSeq(compiled)
           B == {l \in ToSet(all) : l.end # "ok"}
           bad == Where(all, B)
<1>3. /\ compiled \in Seq(Seq(Results)) /\ Len(compiled) = Len(defs)
      /\ \A n \in 1 .. Len(defs) : DOMAIN compiled[n] = DOMAIN defs[n].content
      /\ \A n \in 1 .. Len(defs) : \A k \in DOMAIN defs[n].content : compiled[n][k] = CompiledLine(defs[n], k)
  BY <1>2, CompiledLinesAre
<1>4. /\ bad = <<>> =>
           /\ pc' = "file"
           /\ datas' = [n \in 1 .. Len(defs) |->
                [id |-> LabelId(defs[n].name),
                 length |-> Total([k \in Lines(n) |-> compiled[n][k].length]),
                 reads |-> [k \in Lines(n) |-> compiled[n][k].reads],
                 stored |-> [k \in Lines(n) |-> compiled[n][k].stored]]]
      /\ bad # <<>> => datas' = datas /\ pc' \in {bad[1].end, "refused"}
  BY DEF CompileData
<1> HIDE DEF compiled
<1>5. all \in Seq(Results)
  BY <1>3, FlattenType
<1>6. ASSUME bad = <<>>  PROVE AllCompiled(defs)
  <2>1. ASSUME NEW n \in 1 .. Len(defs), NEW k \in DOMAIN defs[n].content, CompiledLine(defs[n], k).end # "ok"
        PROVE  FALSE
    <3>1. n \in 1 .. Len(compiled) /\ compiled[n] \in Seq(Results) /\ k \in DOMAIN compiled[n]
      BY <1>3
    <3>2. k \in 1 .. Len(compiled[n])
      BY <3>1
    <3>3. PICK m \in 1 .. Len(all) : all[m] = compiled[n][k]
      BY <1>3, <3>1, <3>2, FlattenHas
    <3>4. all[m] \in B
      <4>1. all[m] \in ToSet(all)
        <5> HIDE DEF all
        <5> QED BY <1>5 DEF ToSet
      <4>2. all[m].end # "ok"
        BY <1>3, <2>1, <3>3
      <4> QED BY <4>1, <4>2
    <3> HIDE DEF B, all
    <3>5. \E j \in 1 .. Len(bad) : bad[j] = all[m]
      BY <1>5, <3>4, WhereHas
    <3>6. Len(bad) = 0
      <4>1. Len(<<>>) = 0
        OBVIOUS
      <4> HIDE DEF bad
      <4> QED BY <1>6, <4>1
    <3> HIDE DEF bad
    <3> QED BY <3>5, <3>6
  <2> QED BY <2>1 DEF AllCompiled
<1>7. ASSUME bad = <<>>  PROVE datas' = DatasOf(labels, defs) /\ pc' = "file"
  <2>1. ASSUME NEW n \in 1 .. Len(defs)
        PROVE  DataOf(labels, defs[n]) =
                 [id |-> LabelId(defs[n].name),
                  length |-> Total([k \in Lines(n) |-> compiled[n][k].length]),
                  reads |-> [k \in Lines(n) |-> compiled[n][k].reads],
                  stored |-> [k \in Lines(n) |-> compiled[n][k].stored]]
    <3>1. [k \in Lines(n) |-> compiled[n][k].length] = [k \in DOMAIN defs[n].content |-> CompiledLine(defs[n], k).length]
      BY <1>3 DEF Lines
    <3>2. [k \in Lines(n) |-> compiled[n][k].reads] = [k \in DOMAIN defs[n].content |-> CompiledLine(defs[n], k).reads]
      BY <1>3 DEF Lines
    <3>3. [k \in Lines(n) |-> compiled[n][k].stored] = [k \in DOMAIN defs[n].content |-> CompiledLine(defs[n], k).stored]
      BY <1>3 DEF Lines
    <3> QED BY <3>1, <3>2, <3>3, LabelIdIs DEF DataOf
  <2> HIDE DEF bad
  <2> QED BY <1>4, <1>7, <2>1 DEF DatasOf
<1>8. ASSUME bad # <<>>  PROVE pc' \in {"refused", "loops", "undefined"} /\ datas' = datas
  <2>1. bad \in Seq(Results \cap B)
    <3> HIDE DEF B, all
    <3> QED BY <1>5, WhereType
  <2>2. bad[1] \in Results \cap B
    <3> DEFINE S == Results \cap B
    <3> HIDE DEF bad, S
    <3>1. bad \in Seq(S)
      BY <2>1 DEF S
    <3>2. 1 \in 1 .. Len(bad)
      BY <1>8, <3>1, EmptySeq
    <3>3. bad[1] \in S
      BY <3>1, <3>2
    <3> QED BY <3>3 DEF S
  <2>3. bad[1].end # "ok"
    BY <2>2
  <2>4. bad[1].end \in {"ok", "loops", "refused", "undefined"}
    BY <2>2, ResultEnds
  <2> HIDE DEF bad
  <2> QED BY <1>4, <1>8, <2>3, <2>4
<1> HIDE DEF bad
<1>9. TypeOK'
  <2>1. CASE bad = <<>>
    <3>1. labels = NamesOf(defs) /\ Unique(labels) /\ Len(labels) <= MaxDefs /\ MaxDefs \in Nat
      BY <1>1, MaxDefsIs DEF Inv, AfterIdentify, AfterCode
    <3>2. ASSUME NEW n \in DOMAIN datas'  PROVE datas'[n].id \in 0 .. MaxDefs - 1
      <4>1. datas' = DatasOf(labels, defs)
        BY <1>7, <2>1
      <4>2. n \in 1 .. Len(defs) /\ datas'[n] = DataOf(labels, defs[n])
        BY <3>2, <4>1 DEF DatasOf
      <4>3. /\ n \in DOMAIN labels /\ labels[n] = defs[n].name /\ Len(labels) = Len(defs) /\ Len(defs) \in Nat
        <5>1. /\ NamesOf(defs) \in Seq(Names) /\ Len(NamesOf(defs)) = Len(defs)
              /\ \A k \in 1 .. Len(defs) : NamesOf(defs)[k] = defs[k].name
          BY <1>2, NamesAre
        <5> QED BY <1>2, <3>1, <4>2, <5>1
      <4>4. IdIn(labels, defs[n].name) = n - 1
        BY <3>1, <4>3, IdIs
      <4>5. datas'[n].id = n - 1
        BY <4>2, <4>4 DEF DataOf
      <4> QED BY <3>1, <4>2, <4>3, <4>5
    <3> QED BY <1>1, <1>7, <2>1, <3>2 DEF Inv, TypeOK
  <2>2. CASE bad # <<>>
    BY <1>1, <1>8, <2>2 DEF Inv, TypeOK
  <2> QED BY <2>1, <2>2
<1>10. CASE bad = <<>>
  BY <1>1, <1>6, <1>7, <1>9, <1>10 DEF Inv, Unique, AfterParse, AfterReduce, AfterIdentify, AfterCode, AfterData
<1>11. CASE bad # <<>>
  BY <1>1, <1>8, <1>9, <1>11 DEF Inv, Unique, AfterParse, AfterReduce, AfterIdentify, AfterCode, AfterData
<1> QED BY <1>10, <1>11

\* Either all lines of the code are compiled, or nothing is.
LEMMA InvCode == Inv /\ CompileCode => Inv'
<1> SUFFICES ASSUME Inv, CompileCode  PROVE Inv'
  OBVIOUS
<1>1. /\ lines' = lines /\ sections' = sections /\ code' = code /\ defs' = defs /\ labels' = labels
      /\ datas' = datas /\ pc = "code"
  BY DEF CompileCode
<1>2. code \in Seq(Section)
  BY <1>1, InvTyped DEF AfterReduce, AfterIdentify
<1> DEFINE bodies == [n \in 1 .. Len(code) |-> code[n].body]
           all == FlattenSeq(bodies)
           B == {l \in ToSet(all) : ~(Parses(l) /\ Fits(l))}
           bad == Where(all, B)
<1>3. /\ bad = <<>> => pc' = "data" /\ objects' = ObjectsOf(code)
      /\ bad # <<>> => pc' \in {"undefined", "refused"}
  BY DEF CompileCode, ObjectsOf, ObjectOf
<1>4. bodies \in Seq(Seq(BodyLine)) /\ Len(bodies) = Len(code) /\ \A n \in 1 .. Len(code) : bodies[n] = code[n].body
  <2>1. ASSUME NEW n \in 1 .. Len(code)  PROVE code[n].body \in Seq(BodyLine)
    <3>1. code[n] \in Section
      BY <1>2
    <3> QED BY <3>1 DEF Section
  <2> DEFINE m == Len(code)
  <2>2. m \in Nat /\ bodies \in [1 .. m -> Seq(BodyLine)]
    BY <1>2, <2>1
  <2>3. \A n \in 1 .. m : bodies[n] = code[n].body
    OBVIOUS
  <2> HIDE DEF m, bodies
  <2>4. bodies \in Seq(Seq(BodyLine)) /\ Len(bodies) = m
    BY <2>2
  <2> QED BY <2>3, <2>4 DEF m
<1> HIDE DEF bodies
<1>5. all \in Seq(BodyLine)
  BY <1>4, FlattenType
<1>6. ASSUME bad = <<>>  PROVE AllParse(code)
  <2>1. ASSUME NEW n \in 1 .. Len(code), NEW k \in 1 .. Len(code[n].body), ~(Parses(code[n].body[k]) /\ Fits(code[n].body[k]))
        PROVE  FALSE
    <3>1. n \in 1 .. Len(bodies) /\ k \in 1 .. Len(bodies[n]) /\ bodies[n][k] = code[n].body[k]
      BY <1>4
    <3>2. PICK m \in 1 .. Len(all) : all[m] = bodies[n][k]
      BY <1>4, <3>1, FlattenHas
    <3>3. all[m] \in B
      <4>1. all[m] \in ToSet(all)
        <5> HIDE DEF all
        <5> QED BY <1>5 DEF ToSet
      <4>2. ~(Parses(all[m]) /\ Fits(all[m]))
        BY <2>1, <3>1, <3>2
      <4> QED BY <4>1, <4>2
    <3> HIDE DEF B, all
    <3>4. \E j \in 1 .. Len(bad) : bad[j] = all[m]
      BY <1>5, <3>3, WhereHas
    <3>5. Len(bad) = 0
      <4>1. Len(<<>>) = 0
        OBVIOUS
      <4> HIDE DEF bad
      <4> QED BY <1>6, <4>1
    <3> HIDE DEF bad
    <3> QED BY <3>4, <3>5
  <2> QED BY <2>1 DEF AllParse, Accepted
<1> HIDE DEF bad
<1>7. TypeOK'
  BY <1>1, <1>3 DEF Inv, TypeOK
<1>8. CASE bad = <<>>
  BY <1>1, <1>3, <1>6, <1>7, <1>8 DEF Inv, Unique, AfterParse, AfterReduce, AfterIdentify, AfterCode, AfterData
<1>9. CASE bad # <<>>
  BY <1>1, <1>3, <1>7, <1>9 DEF Inv, Unique, AfterParse, AfterReduce, AfterIdentify, AfterCode, AfterData
<1> QED BY <1>8, <1>9

LEMMA InvFile == Inv /\ CollapseFile => Inv'
<1> SUFFICES ASSUME Inv, CollapseFile  PROVE Inv'
  OBVIOUS
<1>1. /\ lines' = lines /\ sections' = sections /\ code' = code /\ defs' = defs /\ labels' = labels
      /\ objects' = objects /\ datas' = datas /\ pc' \in {"done", "undefined"} /\ pc = "file"
  BY DEF CollapseFile
<1>2. image' = ImageOf(defs, datas, objects)
  <2>1. \A o : CodeLength(o) = CodeLengthOf(o)
    BY DEF CodeLength, CodeLengthOf
  <2>2. \A n : StorageOffset(n) = StorageOffsetOf(datas, n)
    BY DEF StorageOffset, StorageOffsetOf
  <2>3. \A n : CodeOffset(n) = CodeOffsetOf(objects, n)
    BY <2>1 DEF CodeOffset, CodeOffsetOf
  <2>4. StorageHeader = StorageIndices(datas)
    BY <2>2 DEF StorageHeader, StorageIndices
  <2>5. CodeHeader = CodeIndices(datas, objects)
    BY <2>3 DEF CodeHeader, CodeIndices
  <2>6. StorageBlob = StorageOf(defs, datas)
    BY DEF StorageBlob, StorageOf, StorageBlock
  <2>7. CodeBlob = CodeBlocks(objects)
    BY <2>1 DEF CodeBlob, CodeBlocks, CodeBlock, InstrPieces, InstrPiece
  <2> QED BY <2>4, <2>5, <2>6, <2>7 DEF CollapseFile, ImageOf
<1>3. TypeOK'
  BY <1>1 DEF Inv, CollapseFile, TypeOK
<1> QED BY <1>1, <1>2, <1>3 DEF Inv, Unique, AfterParse, AfterReduce, AfterIdentify, AfterCode, AfterData

\* Nothing is ever done, but by a pass.
THEOREM AssemblerInv == Spec => []Inv
<1>1. Init => Inv
  BY InvInit
<1>2. Inv /\ [Next]_vars => Inv'
  <2> SUFFICES ASSUME Inv, [Next]_vars  PROVE Inv'
    OBVIOUS
  <2>1. CASE Strip
    BY <2>1, InvStrip
  <2>2. CASE ParseSections
    BY <2>2, InvParse
  <2>3. CASE Reduce
    BY <2>3, InvReduce
  <2>4. CASE Identify
    BY <2>4, InvIdentify
  <2>5. CASE CompileCode
    BY <2>5, InvCode
  <2>6. CASE CompileData
    BY <2>6, InvData
  <2>7. CASE CollapseFile
    BY <2>7, InvFile
  <2>8. CASE UNCHANGED vars
    BY <2>8 DEF Inv, TypeOK, Unique, vars, AfterParse, AfterReduce, AfterIdentify, AfterCode, AfterData
  <2> QED BY <2>1, <2>2, <2>3, <2>4, <2>5, <2>6, <2>7, <2>8 DEF Next
<1> QED BY <1>1, <1>2, PTL DEF Spec

THEOREM TypeOKHolds == Spec => []TypeOK
<1>1. Inv => TypeOK
  BY DEF Inv
<1> QED BY <1>1, AssemblerInv, PTL

-----------------------------------------------------------------------------
(* Bytes of a sequence of pieces, and reading in the middle of one.        *)

Bytes(s) == Total([k \in 1 .. Len(s) |-> s[k].len])
Lens(X) == [x \in X |-> x.len]

LEMMA LensAre ==
  ASSUME NEW X, \A x \in X : x.len \in Nat, NEW s \in Seq(X)
  PROVE  Lens(X) \in [X -> Nat] /\ Bytes(s) = Total(Each(s, Lens(X)))
<1>1. Lens(X) \in [X -> Nat]
  BY DEF Lens
<1>2. \A k \in 1 .. Len(s) : Lens(X)[s[k]] = s[k].len
  BY DEF Lens
<1>3. Each(s, Lens(X)) = [k \in 1 .. Len(s) |-> s[k].len]
  BY <1>2 DEF Each
<1> QED BY <1>1, <1>3 DEF Bytes

LEMMA BytesAppend ==
  ASSUME NEW X, \A x \in X : x.len \in Nat, NEW s \in Seq(X), NEW e \in X
  PROVE  Bytes(Append(s, e)) = Bytes(s) + e.len
<1> DEFINE h == Lens(X)
           t == Append(s, e)
<1>1. t \in Seq(X)
  BY AppendProperties
<1>2. h \in [X -> Nat] /\ Bytes(s) = Total(Each(s, h)) /\ Bytes(t) = Total(Each(t, h))
  BY <1>1, LensAre
<1>3. h[e] = e.len
  BY DEF Lens
<1> HIDE DEF h
<1>4. Each(t, h) = Append(Each(s, h), h[e])
  BY <1>2, EachAppend
<1>5. Each(s, h) \in Seq(Nat) /\ h[e] \in Nat
  BY <1>2, EachType
<1>6. Total(Append(Each(s, h), h[e])) = Total(Each(s, h)) + h[e]
  BY <1>5, TotalAppend
<1> QED BY <1>2, <1>3, <1>4, <1>6

LEMMA BytesEmpty == Bytes(<<>>) = 0
<1>1. [k \in 1 .. Len(<<>>) |-> <<>>[k].len] = <<>>
  OBVIOUS
<1> QED BY <1>1, TotalEmpty DEF Bytes

LEMMA BytesType ==
  ASSUME NEW X, \A x \in X : x.len \in Nat, NEW s \in Seq(X)
  PROVE  Bytes(s) \in Nat
<1>1. Lens(X) \in [X -> Nat] /\ Bytes(s) = Total(Each(s, Lens(X)))
  BY LensAre
<1>2. Each(s, Lens(X)) \in Seq(Nat)
  BY <1>1, EachType
<1> QED BY <1>1, <1>2, TotalType

LEMMA BytesConcat ==
  ASSUME NEW X, \A x \in X : x.len \in Nat, NEW s \in Seq(X), NEW t \in Seq(X)
  PROVE  Bytes(s \o t) = Bytes(s) + Bytes(t)
<1> DEFINE P == {u \in Seq(X) : Bytes(s \o u) = Bytes(s) + Bytes(u)}
<1>1. Bytes(s) \in Nat
  BY BytesType
<1>2. <<>> \in P
  <2>1. s \o <<>> = s /\ <<>> \in Seq(X)
    BY ConcatEmptySeq, EmptySeq
  <2> QED BY <1>1, <2>1, BytesEmpty
<1>3. ASSUME NEW u \in P, NEW e \in X  PROVE Append(u, e) \in P
  <2>1. u \in Seq(X) /\ s \o u \in Seq(X) /\ <<e>> \in Seq(X) /\ Append(u, e) \in Seq(X) /\ e.len \in Nat
    BY <1>3, ConcatProperties, AppendProperties
  <2>2. s \o Append(u, e) = Append(s \o u, e)
    BY <2>1, AppendIsConcat, ConcatAssociative
  <2>3. Bytes(s \o u) = Bytes(s) + Bytes(u)
    BY <1>3
  <2>4. Bytes(Append(s \o u, e)) = Bytes(s \o u) + e.len
    <3> DEFINE v == s \o u
    <3>1. v \in Seq(X)
      BY <2>1
    <3> HIDE DEF v
    <3>2. Bytes(Append(v, e)) = Bytes(v) + e.len
      BY <3>1, BytesAppend
    <3> QED BY <3>2 DEF v
  <2>5. Bytes(Append(u, e)) = Bytes(u) + e.len /\ Bytes(u) \in Nat
    <3>1. u \in Seq(X)
      BY <2>1
    <3> QED BY <3>1, BytesAppend, BytesType
  <2>6. Bytes(s \o Append(u, e)) = Bytes(s) + Bytes(Append(u, e))
    <3> DEFINE a == Bytes(s)
               b == Bytes(u)
               d == e.len
    <3>1. a \in Nat /\ b \in Nat /\ d \in Nat
      BY <1>1, <2>1, <2>5
    <3>2. Bytes(s \o Append(u, e)) = (a + b) + d /\ Bytes(Append(u, e)) = b + d
      BY <2>2, <2>3, <2>4, <2>5
    <3> HIDE DEF a, b, d
    <3>3. Bytes(s \o Append(u, e)) = a + Bytes(Append(u, e))
      BY <3>1, <3>2
    <3> QED BY <3>3 DEF a
  <2> QED BY <2>1, <2>6
<1>4. P = Seq(X)
  <2>1. P \in SUBSET Seq(X)
    OBVIOUS
  <2> HIDE DEF P
  <2> QED BY <1>2, <1>3, <2>1, SeqInduction
<1> QED BY <1>4

LEMMA BytesOne ==
  ASSUME NEW X, \A x \in X : x.len \in Nat, NEW e \in X
  PROVE  Bytes(<<e>>) = e.len
<1>1. <<>> \in Seq(X) /\ Append(<<>>, e) = <<e>> /\ e.len \in Nat
  OBVIOUS
<1>2. Bytes(Append(<<>>, e)) = Bytes(<<>>) + e.len
  BY <1>1, BytesAppend
<1> QED BY <1>1, <1>2, BytesEmpty

BytesIn(X) == [s \in Seq(X) |-> Bytes(s)]

LEMMA BytesFlatten ==
  ASSUME NEW X, \A x \in X : x.len \in Nat, NEW ss \in Seq(Seq(X))
  PROVE  Bytes(FlattenSeq(ss)) = Total(Each(ss, BytesIn(X)))
<1> DEFINE h == BytesIn(X)
           P == {uu \in Seq(Seq(X)) : Bytes(FlattenSeq(uu)) = Total(Each(uu, h))}
<1>1. h \in [Seq(X) -> Nat] /\ \A t \in Seq(X) : h[t] = Bytes(t)
  BY BytesType DEF BytesIn
<1> HIDE DEF h
<1>2. <<>> \in P
  BY FlattenEmpty, EachEmpty, BytesEmpty, TotalEmpty, EmptySeq
<1>3. ASSUME NEW uu \in P, NEW t \in Seq(X)  PROVE Append(uu, t) \in P
  <2>1. uu \in Seq(Seq(X)) /\ Append(uu, t) \in Seq(Seq(X)) /\ FlattenSeq(uu) \in Seq(X)
    BY <1>3, AppendProperties, FlattenType
  <2>2. Bytes(FlattenSeq(uu)) = Total(Each(uu, h))
    BY <1>3
  <2>3. FlattenSeq(Append(uu, t)) = FlattenSeq(uu) \o t
    BY <2>1, FlattenAppend
  <2>4. Bytes(FlattenSeq(uu) \o t) = Bytes(FlattenSeq(uu)) + Bytes(t)
    <3> DEFINE v == FlattenSeq(uu)
    <3>1. v \in Seq(X)
      BY <2>1
    <3> HIDE DEF v
    <3>2. Bytes(v \o t) = Bytes(v) + Bytes(t)
      BY <3>1, BytesConcat
    <3> QED BY <3>2 DEF v
  <2>5. Each(Append(uu, t), h) = Append(Each(uu, h), h[t])
    BY <1>1, <2>1, EachAppend
  <2>6. Each(uu, h) \in Seq(Nat) /\ h[t] \in Nat
    BY <1>1, <2>1, EachType
  <2>7. Total(Append(Each(uu, h), h[t])) = Total(Each(uu, h)) + h[t]
    BY <2>6, TotalAppend
  <2> QED BY <1>1, <2>1, <2>2, <2>3, <2>4, <2>5, <2>7
<1>4. P = Seq(Seq(X))
  <2>1. P \in SUBSET Seq(Seq(X))
    OBVIOUS
  <2> HIDE DEF P
  <2> QED BY <1>2, <1>3, <2>1, SeqInduction
<1> QED BY <1>4 DEF h

\* The two parts of a concatenation
LEMMA ConcatLen ==
  ASSUME NEW X, NEW a \in Seq(X), NEW b \in Seq(X)
  PROVE  /\ a \o b \in Seq(X) /\ Len(a \o b) = Len(a) + Len(b) /\ Len(a) \in Nat /\ Len(b) \in Nat
         /\ DOMAIN (a \o b) = 1 .. Len(a) + Len(b)
  OBVIOUS

LEMMA ConcatLeft ==
  ASSUME NEW X, NEW a \in Seq(X), NEW b \in Seq(X)
  PROVE  \A i \in 1 .. Len(a) : (a \o b)[i] = a[i]
  OBVIOUS

LEMMA ConcatRight ==
  ASSUME NEW X, NEW a \in Seq(X), NEW b \in Seq(X)
  PROVE  \A j \in 1 .. Len(b) : (a \o b)[Len(a) + j] = b[j]
  OBVIOUS

\* Reading behind a in a \o b \o d
LEMMA Reading ==
  ASSUME NEW X, NEW a \in Seq(X), NEW b \in Seq(X), NEW d \in Seq(X)
  PROVE  \A j \in 1 .. Len(b) : Len(a) + j \in DOMAIN ((a \o b) \o d) /\ ((a \o b) \o d)[Len(a) + j] = b[j]
<1> DEFINE u == a \o b
           v == u \o d
<1>1. u \in Seq(X) /\ Len(u) = Len(a) + Len(b) /\ Len(a) \in Nat /\ Len(b) \in Nat
  BY ConcatLen
<1>2. \A j \in 1 .. Len(b) : u[Len(a) + j] = b[j]
  BY ConcatRight
<1> HIDE DEF u
<1>3. DOMAIN v = 1 .. Len(u) + Len(d) /\ Len(d) \in Nat /\ Len(u) \in Nat
  BY <1>1, ConcatLen
<1>4. \A i \in 1 .. Len(u) : v[i] = u[i]
  BY <1>1, ConcatLeft
<1> HIDE DEF v
<1>5. ASSUME NEW j \in 1 .. Len(b)  PROVE Len(a) + j \in DOMAIN v /\ v[Len(a) + j] = b[j]
  <2>1. Len(a) + j \in 1 .. Len(u) /\ Len(a) + j \in 1 .. Len(u) + Len(d)
    BY <1>1, <1>3
  <2> QED BY <1>2, <1>3, <1>4, <2>1
<1> QED BY <1>5 DEF u, v

\* The byte behind a in a \o b
AtIn(img, k) == Total([m \in 1 .. k - 1 |-> img[m].len])

LEMMA AtIs ==
  ASSUME NEW X, \A x \in X : x.len \in Nat, NEW a \in Seq(X), NEW b \in Seq(X)
  PROVE  AtIn(a \o b, Len(a) + 1) = Bytes(a)
<1> DEFINE v == a \o b
<1>1. Len(a) \in Nat /\ \A i \in 1 .. Len(a) : v[i] = a[i]
  <2>1. \A i \in 1 .. Len(a) + Len(b) : v[i] = IF i <= Len(a) THEN a[i] ELSE b[i - Len(a)]
    BY ConcatProperties
  <2>2. Len(a) \in Nat /\ Len(b) \in Nat
    OBVIOUS
  <2> HIDE DEF v
  <2> QED BY <2>1, <2>2
<1> HIDE DEF v
<1>2. (Len(a) + 1) - 1 = Len(a)
  BY <1>1
<1>3. [m \in 1 .. (Len(a) + 1) - 1 |-> v[m].len] = [k \in 1 .. Len(a) |-> a[k].len]
  BY <1>1, <1>2
<1> QED BY <1>3 DEF AtIn, Bytes, v

\* Flattening splits anywhere.
LEMMA FlattenConcat ==
  ASSUME NEW X, NEW ss \in Seq(Seq(X)), NEW tt \in Seq(Seq(X))
  PROVE  FlattenSeq(ss \o tt) = FlattenSeq(ss) \o FlattenSeq(tt)
<1> DEFINE P == {uu \in Seq(Seq(X)) : FlattenSeq(ss \o uu) = FlattenSeq(ss) \o FlattenSeq(uu)}
           f == FlattenSeq(ss)
<1>1. f \in Seq(X) /\ f \o <<>> = f
  BY FlattenType, ConcatEmptySeq
<1> HIDE DEF f
<1>2. <<>> \in P
  BY <1>1, FlattenEmpty, ConcatEmptySeq, EmptySeq DEF f
<1>3. ASSUME NEW uu \in P, NEW e \in Seq(X)  PROVE Append(uu, e) \in P
  <2> DEFINE g == FlattenSeq(uu)
             v == ss \o uu
  <2>1. /\ uu \in Seq(Seq(X)) /\ v \in Seq(Seq(X)) /\ <<e>> \in Seq(Seq(X)) /\ Append(uu, e) \in Seq(Seq(X))
        /\ g \in Seq(X) /\ FlattenSeq(v) = f \o g
    BY <1>3, ConcatProperties, AppendProperties, FlattenType DEF f
  <2>2. ss \o Append(uu, e) = Append(v, e)
    BY <2>1, AppendIsConcat, ConcatAssociative
  <2>3. FlattenSeq(Append(uu, e)) = g \o e
    BY <2>1, FlattenAppend
  <2> HIDE DEF g, v
  <2>4. FlattenSeq(Append(v, e)) = FlattenSeq(v) \o e
    BY <2>1, FlattenAppend
  <2>5. (f \o g) \o e = f \o (g \o e)
    BY <1>1, <2>1, ConcatAssociative
  <2> QED BY <2>1, <2>2, <2>3, <2>4, <2>5 DEF f
<1>4. P = Seq(Seq(X))
  <2>1. P \in SUBSET Seq(Seq(X))
    OBVIOUS
  <2> HIDE DEF P
  <2> QED BY <1>2, <1>3, <2>1, SeqInduction
<1> QED BY <1>4

LEMMA FlattenOne ==
  ASSUME NEW X, NEW t \in Seq(X)
  PROVE  FlattenSeq(<<t>>) = t
<1>1. <<>> \in Seq(Seq(X)) /\ Append(<<>>, t) = <<t>>
  OBVIOUS
<1>2. FlattenSeq(Append(<<>>, t)) = FlattenSeq(<<>>) \o t
  BY <1>1, FlattenAppend
<1> QED BY <1>1, <1>2, FlattenEmpty, ConcatEmptySeq

\* The part before the n-th sequence
Front1(ss, n) == [k \in 1 .. n - 1 |-> ss[k]]

LEMMA FlattenSplit ==
  ASSUME NEW X, NEW ss \in Seq(Seq(X)), NEW n \in 1 .. Len(ss)
  PROVE  /\ Front1(ss, n) \in Seq(Seq(X))
         /\ \E w \in Seq(X) : FlattenSeq(ss) = (FlattenSeq(Front1(ss, n)) \o ss[n]) \o w
<1> DEFINE uu == Front1(ss, n)
           vv == [k \in 1 .. Len(ss) - n |-> ss[n + k]]
           t == ss[n]
           one == <<t>>
<1>1. /\ Len(ss) \in Nat /\ t \in Seq(X)
      /\ uu \in Seq(Seq(X)) /\ Len(uu) = n - 1 /\ \A k \in 1 .. n - 1 : uu[k] = ss[k]
      /\ vv \in Seq(Seq(X)) /\ Len(vv) = Len(ss) - n /\ \A k \in 1 .. Len(ss) - n : vv[k] = ss[n + k]
  BY DEF Front1
<1> HIDE DEF uu, vv, t
<1>2. one \in Seq(Seq(X)) /\ Len(one) = 1 /\ one[1] = t
  BY <1>1
<1> HIDE DEF one
<1> DEFINE a == uu \o one
           b == a \o vv
<1>3. a \in Seq(Seq(X)) /\ Len(a) = n
  <2>1. a \in Seq(Seq(X)) /\ Len(a) = Len(uu) + Len(one)
    BY <1>1, <1>2, ConcatLen
  <2> HIDE DEF a
  <2> QED BY <1>1, <1>2, <2>1
<1>4. \A i \in 1 .. n : a[i] = ss[i]
  <2>1. \A i \in 1 .. n - 1 : a[i] = uu[i]
    <3>1. \A i \in 1 .. Len(uu) : a[i] = uu[i]
      BY <1>1, <1>2, ConcatLeft
    <3> QED BY <1>1, <3>1
  <2>2. a[n] = t
    <3>1. \A j \in 1 .. Len(one) : a[Len(uu) + j] = one[j]
      BY <1>1, <1>2, ConcatRight
    <3>2. 1 \in 1 .. Len(one) /\ (n - 1) + 1 = n
      BY <1>2
    <3>3. a[Len(uu) + 1] = one[1]
      BY <3>1, <3>2
    <3> QED BY <1>1, <1>2, <3>2, <3>3
  <2> HIDE DEF a
  <2>3. \A i \in 1 .. n : i \in 1 .. n - 1 \/ i = n
    OBVIOUS
  <2> QED BY <1>1, <2>1, <2>2, <2>3 DEF t
<1> HIDE DEF a
<1>5. b \in Seq(Seq(X)) /\ Len(b) = n + (Len(ss) - n) /\ \A i \in 1 .. n : b[i] = a[i]
  <2>1. b \in Seq(Seq(X)) /\ Len(b) = Len(a) + Len(vv)
    BY <1>1, <1>3, ConcatLen
  <2>2. \A i \in 1 .. n : b[i] = a[i]
    BY <1>1, <1>3, ConcatLeft
  <2> HIDE DEF b
  <2> QED BY <1>1, <1>3, <2>1, <2>2
<1>6. b = ss
  <2>1. n + (Len(ss) - n) = Len(ss)
    BY <1>1
  <2>2. \A j \in 1 .. Len(ss) - n : b[n + j] = vv[j]
    <3>1. \A j \in 1 .. Len(vv) : b[Len(a) + j] = vv[j]
      <4>1. a \in Seq(Seq(X)) /\ vv \in Seq(Seq(X))
        BY <1>1, <1>3
      <4> QED BY <4>1, ConcatRight
    <3> HIDE DEF b
    <3> QED BY <1>1, <1>3, <3>1
  <2> HIDE DEF b
  <2>3. ASSUME NEW i \in 1 .. Len(b)  PROVE b[i] = ss[i]
    <3>1. CASE i \in 1 .. n
      BY <1>4, <1>5, <3>1
    <3>2. CASE ~(i \in 1 .. n)
      <4>1. i - n \in 1 .. Len(ss) - n /\ n + (i - n) = i
        BY <1>1, <1>5, <3>2
      <4> QED BY <1>1, <2>2, <4>1
    <3> QED BY <3>1, <3>2
  <2> QED BY <1>5, <2>1, <2>3, SeqEqual
<1>7. FlattenSeq(b) = FlattenSeq(a) \o FlattenSeq(vv) /\ FlattenSeq(a) = FlattenSeq(uu) \o FlattenSeq(one)
  BY <1>1, <1>2, <1>3, FlattenConcat DEF a, b
<1>8. FlattenSeq(one) = t /\ FlattenSeq(vv) \in Seq(X)
  BY <1>1, FlattenOne, FlattenType DEF one
<1> QED BY <1>1, <1>6, <1>7, <1>8 DEF uu, t

\* Concatenation, as an operator of which only what these lemmas say is used
Cat(a, b) == a \o b

LEMMA CatAssociative ==
  ASSUME NEW X, NEW a \in Seq(X), NEW b \in Seq(X), NEW c \in Seq(X)
  PROVE  Cat(Cat(a, b), c) = Cat(a, Cat(b, c))
  BY ConcatAssociative DEF Cat

LEMMA CatLen ==
  ASSUME NEW X, NEW a \in Seq(X), NEW b \in Seq(X)
  PROVE  Cat(a, b) \in Seq(X) /\ Len(Cat(a, b)) = Len(a) + Len(b)
  BY ConcatLen DEF Cat

LEMMA CatBytes ==
  ASSUME NEW X, \A x \in X : x.len \in Nat, NEW a \in Seq(X), NEW b \in Seq(X)
  PROVE  Bytes(Cat(a, b)) = Bytes(a) + Bytes(b)
  BY BytesConcat DEF Cat

LEMMA CatAt ==
  ASSUME NEW X, \A x \in X : x.len \in Nat, NEW a \in Seq(X), NEW b \in Seq(X)
  PROVE  AtIn(Cat(a, b), Len(a) + 1) = Bytes(a)
  BY AtIs DEF Cat

\* What follows a place in an image
ReadsAs(img, at, b) == \A j \in 1 .. Len(b) : at + j \in DOMAIN img /\ img[at + j] = b[j]

LEMMA CatReading ==
  ASSUME NEW X, NEW a \in Seq(X), NEW b \in Seq(X), NEW d \in Seq(X)
  PROVE  ReadsAs(Cat(Cat(a, b), d), Len(a), b)
  BY Reading DEF Cat, ReadsAs

LEMMA CatSplit ==
  ASSUME NEW X, NEW ss \in Seq(Seq(X)), NEW n \in 1 .. Len(ss)
  PROVE  \E w \in Seq(X) : FlattenSeq(ss) = Cat(Cat(FlattenSeq(Front1(ss, n)), ss[n]), w)
  BY FlattenSplit DEF Cat

\* The n-th of some blocks in an image
Place(P, ss, n) == Len(P) + Len(FlattenSeq(Front1(ss, n)))

LEMMA BlockAt ==
  ASSUME NEW X, \A x \in X : x.len \in Nat, NEW P \in Seq(X), NEW Q \in Seq(X), NEW ss \in Seq(Seq(X)),
         NEW n \in 1 .. Len(ss), NEW img, img = Cat(Cat(P, FlattenSeq(ss)), Q)
  PROVE  /\ Place(P, ss, n) \in Nat
         /\ ReadsAs(img, Place(P, ss, n), ss[n])
         /\ AtIn(img, Place(P, ss, n) + 1) = Bytes(P) + Bytes(FlattenSeq(Front1(ss, n)))
         /\ AtIn(img, Place(P, ss, n) + Len(ss[n]) + 1)
              = Bytes(P) + Bytes(FlattenSeq(Front1(ss, n))) + Bytes(ss[n])
<1> DEFINE uu == Front1(ss, n)
           U == FlattenSeq(uu)
           b == ss[n]
           f == FlattenSeq(ss)
<1>1. uu \in Seq(Seq(X))
  BY FlattenSplit
<1>2. PICK w \in Seq(X) : f = Cat(Cat(U, b), w)
  BY CatSplit
<1>3. U \in Seq(X) /\ b \in Seq(X)
  BY <1>1, FlattenType
<1>4. Place(P, ss, n) = Len(P) + Len(U)
  BY DEF Place
<1>5. img = Cat(Cat(P, f), Q)
  OBVIOUS
<1> HIDE DEF uu, U, b, f
<1> DEFINE a == Cat(P, U)
           d == Cat(w, Q)
           ab == Cat(a, b)
           bd == Cat(b, d)
           ub == Cat(U, b)
<1>6. a \in Seq(X) /\ Len(a) = Len(P) + Len(U)
  BY <1>3, CatLen
<1>7. d \in Seq(X)
  BY CatLen
<1>8. ub \in Seq(X)
  BY <1>3, CatLen
<1>9. Cat(P, ub) = ab
  BY <1>3, CatAssociative
<1> HIDE DEF a, ub
<1>10. ab \in Seq(X) /\ Len(ab) = Len(a) + Len(b)
  BY <1>3, <1>6, CatLen
<1> HIDE DEF ab
<1>11. Cat(P, f) = Cat(ab, w)
  <2>1. Cat(P, Cat(ub, w)) = Cat(Cat(P, ub), w)
    BY <1>8, CatAssociative
  <2> QED BY <1>2, <1>9, <2>1 DEF ub
<1>12. img = Cat(ab, d)
  BY <1>5, <1>10, <1>11, CatAssociative
<1> HIDE DEF d
<1>13. bd \in Seq(X) /\ Cat(ab, d) = Cat(a, bd)
  <2>1. bd \in Seq(X)
    BY <1>3, <1>7, CatLen
  <2>2. Cat(Cat(a, b), d) = Cat(a, bd)
    BY <1>3, <1>6, <1>7, CatAssociative
  <2> QED BY <2>1, <2>2 DEF ab
<1> HIDE DEF bd
<1>14. ReadsAs(img, Len(a), b)
  <2>1. ReadsAs(Cat(Cat(a, b), d), Len(a), b)
    BY <1>3, <1>6, <1>7, CatReading
  <2> QED BY <1>12, <2>1 DEF ab
<1>15. AtIn(img, Len(a) + 1) = Bytes(a)
  <2>1. AtIn(Cat(a, bd), Len(a) + 1) = Bytes(a)
    BY <1>6, <1>13, CatAt
  <2> QED BY <1>12, <1>13, <2>1
<1>16. AtIn(img, Len(ab) + 1) = Bytes(ab)
  <2>1. AtIn(Cat(ab, d), Len(ab) + 1) = Bytes(ab)
    BY <1>7, <1>10, CatAt
  <2> QED BY <1>12, <2>1
<1>17. Bytes(a) = Bytes(P) + Bytes(U)
  BY <1>3, CatBytes DEF a
<1>18. Bytes(ab) = Bytes(a) + Bytes(b)
  BY <1>3, <1>6, CatBytes DEF ab
<1>19. Len(P) \in Nat /\ Len(U) \in Nat /\ Len(b) \in Nat
  BY <1>3
<1>20. Place(P, ss, n) = Len(a) /\ Len(a) \in Nat
  BY <1>4, <1>6, <1>19
<1>21. Len(a) + Len(b) + 1 = Len(ab) + 1
  BY <1>10
<1>22. AtIn(img, Place(P, ss, n) + Len(b) + 1) = Bytes(P) + Bytes(U) + Bytes(b)
  BY <1>16, <1>17, <1>18, <1>20, <1>21
<1>23. AtIn(img, Place(P, ss, n) + 1) = Bytes(P) + Bytes(U)
  BY <1>15, <1>17, <1>20
<1>24. ReadsAs(img, Place(P, ss, n), b)
  BY <1>14, <1>20
<1> QED BY <1>20, <1>22, <1>23, <1>24 DEF U, uu, b

\* The same, in a form that is easy to cite
IsAt(img, P, ss, n) ==
  /\ Place(P, ss, n) \in Nat
  /\ ReadsAs(img, Place(P, ss, n), ss[n])
  /\ AtIn(img, Place(P, ss, n) + 1) = Bytes(P) + Bytes(FlattenSeq(Front1(ss, n)))
  /\ AtIn(img, Place(P, ss, n) + Len(ss[n]) + 1) = Bytes(P) + Bytes(FlattenSeq(Front1(ss, n))) + Bytes(ss[n])

LEMMA BlockIsAt ==
  ASSUME NEW X, \A x \in X : x.len \in Nat, NEW P \in Seq(X), NEW ss \in Seq(Seq(X)), NEW n \in 1 .. Len(ss),
         NEW Q \in Seq(X)
  PROVE  IsAt(Cat(Cat(P, FlattenSeq(ss)), Q), P, ss, n)
  BY BlockAt DEF IsAt

\* The bytes before the n-th block
LEMMA BlocksBytes ==
  ASSUME NEW X, \A x \in X : x.len \in Nat, NEW ss \in Seq(Seq(X)), NEW n \in 1 .. Len(ss)
  PROVE  Bytes(FlattenSeq(Front1(ss, n))) = Total([k \in 1 .. n - 1 |-> Bytes(ss[k])])
<1> DEFINE uu == Front1(ss, n)
           h == BytesIn(X)
<1>1. uu \in Seq(Seq(X))
  BY FlattenSplit
<1>2. Bytes(FlattenSeq(uu)) = Total(Each(uu, h))
  BY <1>1, BytesFlatten
<1>3. Len(uu) = n - 1 /\ \A k \in 1 .. n - 1 : uu[k] = ss[k] /\ ss[k] \in Seq(X)
  BY DEF Front1
<1>4. \A t \in Seq(X) : h[t] = Bytes(t)
  BY DEF BytesIn
<1> HIDE DEF uu, h
<1>5. Each(uu, h) = [k \in 1 .. n - 1 |-> Bytes(ss[k])]
  BY <1>3, <1>4 DEF Each
<1> QED BY <1>2, <1>5 DEF uu

-----------------------------------------------------------------------------
(* Where the two lots of zeros are.                                        *)

NoZeros(s) == \A k \in 1 .. Len(s) : s[k].kind # "zeros"

LEMMA NoZerosConcat ==
  ASSUME NEW X, NEW a \in Seq(X), NEW b \in Seq(X), NoZeros(a), NoZeros(b)
  PROVE  NoZeros(a \o b)
<1> DEFINE v == a \o b
<1>1. Len(v) = Len(a) + Len(b) /\ Len(a) \in Nat /\ Len(b) \in Nat
  BY ConcatLen
<1>2. \A i \in 1 .. Len(a) : v[i] = a[i]
  BY ConcatLeft
<1>3. \A j \in 1 .. Len(b) : v[Len(a) + j] = b[j]
  BY ConcatRight
<1> HIDE DEF v
<1>4. ASSUME NEW i \in 1 .. Len(v)  PROVE v[i].kind # "zeros"
  <2>1. CASE i \in 1 .. Len(a)
    BY <1>2, <2>1 DEF NoZeros
  <2>2. CASE ~(i \in 1 .. Len(a))
    <3>1. i - Len(a) \in 1 .. Len(b) /\ Len(a) + (i - Len(a)) = i
      BY <1>1, <2>2
    <3> QED BY <1>3, <3>1 DEF NoZeros
  <2> QED BY <2>1, <2>2
<1> QED BY <1>4 DEF NoZeros, v

ZerosIn(img) == {k \in DOMAIN img : img[k].kind = "zeros"}

\* A lot of zeros at the end of the first part
LEMMA ZerosMore ==
  ASSUME NEW X, NEW a \in Seq(X), NEW z \in X, NEW b \in Seq(X), z.kind = "zeros", NoZeros(b)
  PROVE  ZerosIn((a \o <<z>>) \o b) = ZerosIn(a) \cup {Len(a) + 1}
<1> DEFINE one == <<z>>
           u == a \o one
           v == u \o b
<1>1. one \in Seq(X) /\ Len(one) = 1 /\ one[1] = z
  OBVIOUS
<1> HIDE DEF one
<1>2. u \in Seq(X) /\ Len(u) = Len(a) + 1 /\ Len(a) \in Nat
  <2>1. u \in Seq(X) /\ Len(u) = Len(a) + Len(one) /\ Len(a) \in Nat
    BY <1>1, ConcatLen
  <2> HIDE DEF u
  <2> QED BY <1>1, <2>1
<1>3. \A i \in 1 .. Len(a) : u[i] = a[i]
  BY <1>1, ConcatLeft
<1>4. u[Len(a) + 1] = z
  <2>1. \A j \in 1 .. Len(one) : u[Len(a) + j] = one[j]
    BY <1>1, ConcatRight
  <2> HIDE DEF u
  <2> QED BY <1>1, <2>1
<1> HIDE DEF u
<1>5. DOMAIN v = 1 .. Len(u) + Len(b) /\ Len(b) \in Nat
  BY <1>2, ConcatLen
<1>6. \A i \in 1 .. Len(u) : v[i] = u[i]
  BY <1>2, ConcatLeft
<1>7. \A j \in 1 .. Len(b) : v[Len(u) + j] = b[j]
  BY <1>2, ConcatRight
<1> HIDE DEF v
<1>8. DOMAIN a = 1 .. Len(a)
  BY LenProperties
<1>9. ASSUME NEW k  PROVE k \in ZerosIn(v) <=> k \in ZerosIn(a) \cup {Len(a) + 1}
  <2>1. CASE k \in 1 .. Len(a)
    <3>1. k \in DOMAIN v /\ k \in DOMAIN a /\ v[k] = a[k] /\ k # Len(a) + 1
      BY <1>2, <1>3, <1>5, <1>6, <1>8, <2>1
    <3> QED BY <3>1 DEF ZerosIn
  <2>2. CASE k = Len(a) + 1
    <3>1. k \in DOMAIN v /\ v[k] = z
      BY <1>2, <1>4, <1>5, <1>6, <2>2
    <3> QED BY <2>2, <3>1 DEF ZerosIn
  <2>3. CASE ~(k \in 1 .. Len(a)) /\ k # Len(a) + 1
    <3>1. k \notin ZerosIn(a)
      BY <1>8, <2>3 DEF ZerosIn
    <3>2. ASSUME k \in DOMAIN v  PROVE v[k].kind # "zeros"
      <4>1. k - Len(u) \in 1 .. Len(b) /\ Len(u) + (k - Len(u)) = k
        BY <1>2, <1>5, <2>3, <3>2
      <4> QED BY <1>7, <4>1 DEF NoZeros
    <3> QED BY <2>3, <3>1, <3>2 DEF ZerosIn
  <2> QED BY <2>1, <2>2, <2>3
<1> QED BY <1>9 DEF u, v, one

LEMMA ZerosNone ==
  ASSUME NEW X, NEW a \in Seq(X), NoZeros(a)
  PROVE  ZerosIn(a) = {}
<1>1. DOMAIN a = 1 .. Len(a)
  BY LenProperties
<1> QED BY <1>1 DEF ZerosIn, NoZeros

FirstZeros(img) == CHOOSE k \in ZerosIn(img) : \A m \in ZerosIn(img) : k <= m
LastZeros(img) == CHOOSE k \in ZerosIn(img) : \A m \in ZerosIn(img) : k >= m
After(a, y, b) == (a \o <<y>>) \o b
Between(img, a, y, b, z, c) == img = (After(a, y, b) \o <<z>>) \o c

LEMMA TwoZeros ==
  ASSUME NEW X, NEW img, NEW a \in Seq(X), NEW y \in X, NEW b \in Seq(X), NEW z \in X, NEW c \in Seq(X),
         NoZeros(a), NoZeros(b), NoZeros(c), y.kind = "zeros", z.kind = "zeros", Between(img, a, y, b, z, c)
  PROVE  FirstZeros(img) = Len(a) + 1 /\ LastZeros(img) = Len(After(a, y, b)) + 1
<1> DEFINE ay == a \o <<y>>
           v == ay \o b
           Z == ZerosIn(img)
<1>1. <<y>> \in Seq(X) /\ Len(<<y>>) = 1
  OBVIOUS
<1>2. ay \in Seq(X) /\ Len(ay) = Len(a) + Len(<<y>>) /\ Len(a) \in Nat
  BY <1>1, ConcatLen
<1>3. Len(ay) = Len(a) + 1
  <2> HIDE DEF ay
  <2> QED BY <1>1, <1>2
<1>4. ZerosIn(v) = ZerosIn(a) \cup {Len(a) + 1}
  BY ZerosMore
<1>5. ZerosIn(a) = {}
  BY ZerosNone
<1> HIDE DEF ay
<1>6. v \in Seq(X) /\ Len(v) = Len(ay) + Len(b) /\ Len(b) \in Nat
  BY <1>2, ConcatLen
<1>7. img = (v \o <<z>>) \o c
  BY DEF ay, Between, After
<1> HIDE DEF v
<1>8. ZerosIn((v \o <<z>>) \o c) = ZerosIn(v) \cup {Len(v) + 1}
  BY <1>6, ZerosMore
<1>9. Z = {Len(a) + 1, Len(v) + 1} /\ Len(a) + 1 \in Nat /\ Len(v) + 1 \in Nat /\ Len(a) + 1 <= Len(v) + 1
  <2>1. Z = {Len(a) + 1, Len(v) + 1}
    BY <1>4, <1>5, <1>7, <1>8
  <2>2. Len(v) = Len(a) + 1 + Len(b) /\ Len(a) + 1 \in Nat
    BY <1>2, <1>3, <1>6
  <2> HIDE DEF Z
  <2> QED BY <1>2, <1>6, <2>1, <2>2
<1> DEFINE p == Len(a) + 1
           q == Len(v) + 1
<1>10. Z = {p, q} /\ p \in Nat /\ q \in Nat /\ p <= q
  BY <1>9
<1> HIDE DEF p, q, Z
<1>11. \A k \in Z : (\A m \in Z : k <= m) <=> k = p
  BY <1>10
<1>12. \A k \in Z : (\A m \in Z : k >= m) <=> k = q
  BY <1>10
<1>13. (CHOOSE k \in Z : \A m \in Z : k <= m) = p
  BY <1>10, <1>11
<1>14. (CHOOSE k \in Z : \A m \in Z : k >= m) = q
  BY <1>10, <1>12
<1> QED BY <1>13, <1>14 DEF Z, p, q, v, ay, FirstZeros, LastZeros, After

-----------------------------------------------------------------------------
(* What the pieces of an image are.                                        *)

Kinds == {"magic", "count", "storage", "event", "zeros", "flags", "length", "data", "instr"}
ParsedLine == {l \in BodyLine : Accepted(l)}
InstrVals == {EncodeInstr(l) : l \in ParsedLine}
Entries == [id : Int \cup SectionNames, offset : Nat]
Vals == Int \cup Entries \cup Names \cup InstrVals
PieceSet ==
  {p \in [kind : Kinds, len : Nat, val : Vals] : p.kind = "instr" => p.val \in InstrVals /\ p.len = p.val.length + 1}

LEMMA PieceFields ==
  \A kind, len, val : /\ Piece(kind, len, val).kind = kind /\ Piece(kind, len, val).len = len
                      /\ Piece(kind, len, val).val = val
  BY DEF Piece

LEMMA PieceTyped ==
  ASSUME NEW kind \in Kinds, NEW len \in Nat, NEW val \in Vals,
         kind = "instr" => val \in InstrVals /\ len = val.length + 1
  PROVE  Piece(kind, len, val) \in PieceSet
<1> DEFINE V == Vals
<1>1. val \in V
  OBVIOUS
<1> HIDE DEF V
<1>2. [kind |-> kind, len |-> len, val |-> val] \in [kind : Kinds, len : Nat, val : V]
  BY <1>1
<1> QED BY <1>2 DEF PieceSet, Piece, V

LEMMA PiecesLen ==
  \A p \in PieceSet : p.len \in Nat
<1> DEFINE V == Vals
<1> HIDE DEF V
<1>1. \A p \in [kind : Kinds, len : Nat, val : V] : p.len \in Nat
  OBVIOUS
<1> QED BY <1>1 DEF PieceSet, V

LEMMA WhereShort ==
  ASSUME NEW X, NEW s \in Seq(X), NEW S
  PROVE  Len(Where(s, S)) \in 0 .. Len(s)
<1> DEFINE P == {t \in Seq(X) : Len(Where(t, S)) \in 0 .. Len(t)}
<1>1. <<>> \in P
  BY WhereEmpty, EmptySeq
<1>2. ASSUME NEW t \in P, NEW e \in X  PROVE Append(t, e) \in P
  <2> DEFINE w == Where(t, S)
             u == Append(t, e)
             v == Append(w, e)
  <2>1. u \in Seq(X) /\ Len(u) = Len(t) + 1 /\ Len(t) \in Nat /\ t \in Seq(X)
    BY <1>2, AppendProperties
  <2>2. Where(u, S) = IF e \in S THEN v ELSE w
    BY <1>2, WhereAppend
  <2>3. w \in Seq(X)
    <3>1. X \cap S \subseteq X
      OBVIOUS
    <3>2. w \in Seq(X \cap S)
      BY <2>1, WhereType
    <3> HIDE DEF w
    <3> QED BY <3>1, <3>2, SeqMonotonic
  <2>4. Len(w) \in 0 .. Len(t)
    BY <1>2
  <2> HIDE DEF w, u
  <2>5. Len(v) = Len(w) + 1
    BY <2>3, AppendProperties
  <2> HIDE DEF v
  <2>6. Len(w) \in 0 .. Len(t) + 1 /\ Len(v) \in 0 .. Len(t) + 1
    BY <2>1, <2>4, <2>5
  <2>7. Len(Where(u, S)) \in 0 .. Len(u)
    BY <2>1, <2>2, <2>6
  <2> QED BY <2>1, <2>7 DEF u
<1>3. P = Seq(X)
  <2>1. P \in SUBSET Seq(X)
    OBVIOUS
  <2> HIDE DEF P
  <2> QED BY <1>1, <1>2, <2>1, SeqInduction
<1> QED BY <1>3

\* The bytes of an instruction fit the 7 bits of its header.
LEMMA BytesAre ==
  ASSUME NEW l \in ParsedLine
  PROVE  BytesOf(l) \in 0 .. 127
<1> DEFINE text == l.text
           ops == Tail(text)
           imm == Where(ops, Immediates)
           m == Len(text)
           i == Len(imm)
<1>1. Parses(l) /\ Fits(l) /\ l \in SourceLine /\ l \in Line
  BY DEF ParsedLine, BodyLine, KeptLine, SourceLine, Accepted
<1>2. text \in Seq(STRING) /\ text # <<>>
  <2>1. text \in Seq(STRING)
    BY <1>1 DEF Line
  <2>2. l.first = "t"
    BY <1>1 DEF Parses
  <2> QED BY <1>1, <2>1, <2>2 DEF SourceLine
<1>3. BytesOf(l) = 1 + 2 * (m - 1) + 7 * i
  BY DEF BytesOf
<1>4. m <= MaxOperands + 1 /\ MaxOperands \in 0 .. 14
  <2>1. m <= MaxOperands + 1
    BY <1>1 DEF Fits
  <2>2. MaxOperands \in 0 .. 14
    BY AssemblerAssumption, Zenon
  <2> QED BY <2>1, <2>2
<1> HIDE DEF text
<1>5. ops \in Seq(STRING) /\ Len(ops) = m - 1 /\ m \in Nat /\ m # 0
  BY <1>2, HeadTailProperties, EmptySeq
<1> HIDE DEF ops, m
<1>6. i \in 0 .. m - 1
  BY <1>5, WhereShort
<1> HIDE DEF i
<1> QED BY <1>3, <1>4, <1>5, <1>6

LEMMA InstrLen ==
  ASSUME NEW i \in InstrVals
  PROVE  i.length \in Nat
<1>1. PICK l \in ParsedLine : i = EncodeInstr(l)
  BY DEF InstrVals
<1>2. i.length = BytesOf(l) % 128
  BY <1>1 DEF EncodeInstr
<1>3. BytesOf(l) \in 0 .. 127
  BY BytesAre
<1> QED BY <1>2, <1>3

LEMMA EncodedLen ==
  ASSUME NEW l \in ParsedLine
  PROVE  EncodeInstr(l).length = BytesOf(l) /\ EncodeInstr(l).line = l
<1> DEFINE n == BytesOf(l)
<1>1. n \in 0 .. 127
  BY BytesAre
<1>2. EncodeInstr(l).length = n % 128 /\ EncodeInstr(l).line = l
  BY DEF EncodeInstr
<1> HIDE DEF n
<1>3. n % 128 = n
  BY <1>1
<1> QED BY <1>2, <1>3 DEF n

-----------------------------------------------------------------------------
(* The indices                                                             *)

IndexFront(kind, count, entries) ==
  <<Piece("count", 1, count)>> \o [n \in 1 .. Len(entries) |-> Piece(kind, 5, entries[n])]
Zeros(entries) == Piece("zeros", 3 * Len(entries), 0)

LEMMA IndicesSplit ==
  ASSUME NEW kind, NEW count, NEW entries
  PROVE  Indices(kind, count, entries) = Cat(IndexFront(kind, count, entries), <<Zeros(entries)>>)
  BY DEF Indices, IndexFront, Zeros, Cat

LEMMA IndexFrontIs ==
  ASSUME NEW kind \in {"storage", "event"}, NEW count \in Nat, NEW entries \in Seq(Entries)
  PROVE  /\ IndexFront(kind, count, entries) \in Seq(PieceSet)
         /\ Len(IndexFront(kind, count, entries)) = 1 + Len(entries)
         /\ NoZeros(IndexFront(kind, count, entries))
         /\ \A n \in 1 .. Len(entries) : IndexFront(kind, count, entries)[1 + n] = Piece(kind, 5, entries[n])
<1> DEFINE X == PieceSet
           head == <<Piece("count", 1, count)>>
           idx == [n \in 1 .. Len(entries) |-> Piece(kind, 5, entries[n])]
           m == Len(entries)
<1>1. Piece("count", 1, count) \in X
  <2>1. count \in Vals /\ "count" \in Kinds /\ "count" # "instr" /\ 1 \in Nat
    BY DEF Kinds, Vals
  <2> QED BY <2>1, PieceTyped
<1>2. \A n \in 1 .. m : Piece(kind, 5, entries[n]) \in X
  <2>1. ASSUME NEW n \in 1 .. m  PROVE Piece(kind, 5, entries[n]) \in X
    <3>1. entries[n] \in Vals
      BY DEF Vals
    <3> QED BY <3>1, PieceTyped DEF Kinds
  <2> QED BY <2>1
<1> HIDE DEF X
<1>3. head \in Seq(X) /\ Len(head) = 1 /\ head[1] = Piece("count", 1, count)
  BY <1>1
<1>4. m \in Nat /\ idx \in [1 .. m -> X]
  BY <1>2
<1>5. idx \in Seq(X) /\ Len(idx) = m /\ \A n \in 1 .. m : idx[n] = Piece(kind, 5, entries[n])
  <2>1. \A n \in 1 .. m : idx[n] = Piece(kind, 5, entries[n])
    OBVIOUS
  <2> HIDE DEF idx, m
  <2>2. idx \in Seq(X) /\ Len(idx) = m
    BY <1>4
  <2> QED BY <2>1, <2>2
<1> HIDE DEF head, idx
<1> DEFINE v == head \o idx
<1>6. v \in Seq(X) /\ Len(v) = Len(head) + Len(idx)
  BY <1>3, <1>5, ConcatLen
<1>7. \A n \in 1 .. Len(idx) : v[Len(head) + n] = idx[n]
  BY <1>3, <1>5, ConcatRight
<1>8. NoZeros(head)
  BY <1>3, PieceFields DEF NoZeros
<1>9. NoZeros(idx)
  BY <1>5, PieceFields DEF NoZeros
<1>10. NoZeros(v)
  BY <1>3, <1>5, <1>8, <1>9, NoZerosConcat
<1> HIDE DEF v
<1>11. Len(v) = 1 + m
  BY <1>3, <1>5, <1>6
<1>12. \A n \in 1 .. m : v[1 + n] = Piece(kind, 5, entries[n])
  BY <1>3, <1>5, <1>7
<1> QED BY <1>6, <1>10, <1>11, <1>12 DEF X, v, head, idx, IndexFront

LEMMA IndexKinds ==
  ASSUME NEW kind \in {"storage", "event"}, NEW count \in Nat, NEW entries \in Seq(Entries)
  PROVE  \A k \in 1 .. Len(IndexFront(kind, count, entries)) : IndexFront(kind, count, entries)[k].kind # "instr"
<1> DEFINE v == IndexFront(kind, count, entries)
           head == <<Piece("count", 1, count)>>
           idx == [n \in 1 .. Len(entries) |-> Piece(kind, 5, entries[n])]
<1>1. /\ v \in Seq(PieceSet) /\ Len(v) = 1 + Len(entries) /\ Len(entries) \in Nat
      /\ \A n \in 1 .. Len(entries) : v[1 + n] = Piece(kind, 5, entries[n])
  BY IndexFrontIs
<1>2. v[1].kind = "count"
  <2>1. head \in Seq({Piece("count", 1, count)} \cup {Piece(kind, 5, entries[n]) : n \in 1 .. Len(entries)})
    OBVIOUS
  <2>2. idx \in Seq({Piece("count", 1, count)} \cup {Piece(kind, 5, entries[n]) : n \in 1 .. Len(entries)})
    OBVIOUS
  <2>3. Len(head) = 1 /\ head[1] = Piece("count", 1, count)
    OBVIOUS
  <2>4. v = head \o idx
    BY DEF IndexFront
  <2> DEFINE S == {Piece("count", 1, count)} \cup {Piece(kind, 5, entries[n]) : n \in 1 .. Len(entries)}
  <2> HIDE DEF head, idx, S, v
  <2> DEFINE w == head \o idx
  <2>5. \A i \in 1 .. Len(head) : w[i] = head[i]
    BY <2>1, <2>2, ConcatLeft DEF S
  <2> HIDE DEF w
  <2>6. v[1] = Piece("count", 1, count)
    <3>1. v = w
      BY <2>4 DEF w
    <3>2. 1 \in 1 .. Len(head)
      BY <2>3
    <3>3. w[1] = head[1]
      BY <2>5, <3>2
    <3> QED BY <2>3, <3>1, <3>3
  <2> QED BY <2>6, PieceFields
<1> HIDE DEF v
<1>3. ASSUME NEW k \in 1 .. Len(v)  PROVE v[k].kind # "instr"
  <2>1. CASE k = 1
    BY <1>2, <2>1
  <2>2. CASE k # 1
    <3>1. k - 1 \in 1 .. Len(entries) /\ 1 + (k - 1) = k
      BY <1>1, <2>2
    <3>2. v[k] = Piece(kind, 5, entries[k - 1])
      BY <1>1, <3>1
    <3> QED BY <3>2, PieceFields
  <2> QED BY <2>1, <2>2
<1> QED BY <1>3 DEF v

LEMMA ZerosTyped ==
  ASSUME NEW entries \in Seq(Entries)
  PROVE  Zeros(entries) \in PieceSet /\ Zeros(entries).kind = "zeros"
<1>1. 3 * Len(entries) \in Nat
  OBVIOUS
<1>2. 0 \in Vals
  BY DEF Vals
<1>3. Piece("zeros", 3 * Len(entries), 0) \in PieceSet
  BY <1>1, <1>2, PieceTyped DEF Kinds
<1> QED BY <1>3, PieceFields DEF Zeros

-----------------------------------------------------------------------------
(* The blocks                                                              *)

Data(dats, N) == N \in Nat /\ Len(dats) = N /\ \A n \in 1 .. N : dats[n].id \in Int /\ dats[n].length \in Nat
Object == [ev : SectionNames, instrs : Seq(InstrVals)]

LEMMA StorageBlockIs ==
  ASSUME NEW d, d.length \in Nat, NEW name \in Names
  PROVE  /\ StorageBlock(d, name) \in Seq(PieceSet) /\ Len(StorageBlock(d, name)) = 3
         /\ Bytes(StorageBlock(d, name)) = 4 + 1 + d.length
         /\ \A k \in 1 .. 3 : StorageBlock(d, name)[k].kind \in {"flags", "length", "data"}
<1> DEFINE X == PieceSet
           a == Piece("flags", 1, 0)
           b == Piece("length", 4, d.length)
           c == Piece("data", d.length, name)
<1>1. a \in X
  BY PieceTyped DEF Kinds, Vals
<1>2. b \in X
  BY PieceTyped DEF Kinds, Vals
<1>3. c \in X
  BY PieceTyped DEF Kinds, Vals
<1>4. a.len = 1 /\ b.len = 4 /\ c.len = d.length /\ a.kind = "flags" /\ b.kind = "length" /\ c.kind = "data"
  BY PieceFields
<1>5. \A x \in X : x.len \in Nat
  BY PiecesLen
<1> HIDE DEF X, a, b, c
<1> DEFINE s == <<a, b, c>>
<1>6. s \in Seq(X) /\ Len(s) = 3 /\ s[1] = a /\ s[2] = b /\ s[3] = c
  BY <1>1, <1>2, <1>3
<1>7. Bytes(s) = 4 + 1 + d.length
  <2> DEFINE p == <<a>>
             q == Append(p, b)
  <2>1. p \in Seq(X) /\ q \in Seq(X) /\ s = Append(q, c)
    BY <1>1, <1>2, <1>3
  <2>2. Bytes(p) = a.len
    BY <1>1, <1>5, BytesOne
  <2> HIDE DEF p, s
  <2>3. Bytes(q) = Bytes(p) + b.len
    BY <1>2, <1>5, <2>1, BytesAppend
  <2> HIDE DEF q
  <2>4. Bytes(Append(q, c)) = Bytes(q) + c.len
    BY <1>3, <1>5, <2>1, BytesAppend
  <2> QED BY <1>4, <2>1, <2>2, <2>3, <2>4
<1> HIDE DEF s
<1>8. \A k \in 1 .. 3 : s[k].kind \in {"flags", "length", "data"}
  BY <1>4, <1>6
<1> QED BY <1>6, <1>7, <1>8 DEF s, a, b, c, X, StorageBlock

LEMMA InstrPiecesAre ==
  ASSUME NEW o \in Object
  PROVE  /\ InstrPieces(o) \in Seq(PieceSet) /\ Len(InstrPieces(o)) = Len(o.instrs) /\ Len(o.instrs) \in Nat
         /\ \A k \in 1 .. Len(o.instrs) : InstrPieces(o)[k] = InstrPiece(o.instrs[k])
         /\ Bytes(InstrPieces(o)) = CodeLengthOf(o) /\ CodeLengthOf(o) \in Nat
<1> DEFINE X == PieceSet
           is == o.instrs
           m == Len(is)
           v == InstrPieces(o)
<1>1. is \in Seq(InstrVals)
  BY DEF Object
<1> HIDE DEF is
<1>2. m \in Nat /\ \A k \in 1 .. m : is[k] \in InstrVals
  BY <1>1
<1>3. ASSUME NEW k \in 1 .. m  PROVE InstrPiece(is[k]) \in X /\ is[k].length + 1 \in Nat
  <2>1. is[k].length + 1 \in Nat
    BY <1>2, InstrLen
  <2>2. is[k] \in Vals
    BY <1>2 DEF Vals
  <2> QED BY <1>2, <2>1, <2>2, PieceTyped DEF InstrPiece, Kinds
<1>4. v = [k \in 1 .. m |-> InstrPiece(is[k])]
  BY DEF InstrPieces, is
<1> HIDE DEF X, v
<1>5. v \in [1 .. m -> X] /\ \A k \in 1 .. m : v[k] = InstrPiece(is[k])
  BY <1>3, <1>4
<1>6. DOMAIN is = 1 .. m
  BY <1>1, LenProperties
<1> HIDE DEF m
<1>7. v \in Seq(X) /\ Len(v) = m
  BY <1>2, <1>5
<1>8. \A k \in 1 .. m : v[k].len = is[k].length + 1
  BY <1>5, PieceFields DEF InstrPiece
<1>9. Bytes(v) = Total([k \in 1 .. m |-> is[k].length + 1])
  <2>1. [k \in 1 .. Len(v) |-> v[k].len] = [k \in 1 .. m |-> is[k].length + 1]
    BY <1>7, <1>8
  <2> QED BY <2>1 DEF Bytes
<1>10. CodeLengthOf(o) = Total([k \in 1 .. m |-> is[k].length + 1])
  BY <1>6 DEF CodeLengthOf, is
<1>11. CodeLengthOf(o) \in Nat
  <2>1. \A x \in X : x.len \in Nat
    BY PiecesLen DEF X
  <2>2. Bytes(v) \in Nat
    BY <1>7, <2>1, BytesType
  <2> QED BY <1>9, <1>10, <2>2
<1> QED BY <1>2, <1>5, <1>7, <1>9, <1>10, <1>11 DEF v, X, m, is

LEMMA CodeBlockIs ==
  ASSUME NEW o \in Object
  PROVE  /\ CodeBlock(o) \in Seq(PieceSet) /\ Len(CodeBlock(o)) = 1 + Len(o.instrs)
         /\ CodeBlock(o)[1] = Piece("length", 4, CodeLengthOf(o))
         /\ \A k \in 1 .. Len(o.instrs) : CodeBlock(o)[1 + k] = InstrPiece(o.instrs[k])
         /\ Bytes(CodeBlock(o)) = 4 + CodeLengthOf(o)
<1> DEFINE X == PieceSet
           p == Piece("length", 4, CodeLengthOf(o))
           one == <<p>>
           v == InstrPieces(o)
           w == one \o v
<1>1. /\ v \in Seq(X) /\ Len(v) = Len(o.instrs) /\ Len(o.instrs) \in Nat
      /\ \A k \in 1 .. Len(o.instrs) : v[k] = InstrPiece(o.instrs[k])
      /\ Bytes(v) = CodeLengthOf(o) /\ CodeLengthOf(o) \in Nat
  BY InstrPiecesAre
<1>2. p \in X /\ p.len = 4
  <2>1. CodeLengthOf(o) \in Vals /\ "length" \in Kinds /\ "length" # "instr" /\ 4 \in Nat
    BY <1>1 DEF Vals, Kinds
  <2>2. p \in X
    BY <2>1, PieceTyped
  <2> QED BY <2>2, PieceFields
<1>3. \A x \in X : x.len \in Nat
  BY PiecesLen
<1> HIDE DEF X, v, p
<1>4. one \in Seq(X) /\ Len(one) = 1 /\ one[1] = p
  BY <1>2
<1>5. Bytes(one) = p.len
  BY <1>2, <1>3, BytesOne
<1> HIDE DEF one
<1>6. w \in Seq(X) /\ Len(w) = Len(one) + Len(v)
  BY <1>1, <1>4, ConcatLen
<1>7. \A i \in 1 .. Len(one) : w[i] = one[i]
  BY <1>1, <1>4, ConcatLeft
<1>8. \A j \in 1 .. Len(v) : w[Len(one) + j] = v[j]
  BY <1>1, <1>4, ConcatRight
<1>9. Bytes(w) = Bytes(one) + Bytes(v)
  BY <1>1, <1>3, <1>4, BytesConcat
<1> HIDE DEF w
<1>10. Len(w) = 1 + Len(o.instrs) /\ w[1] = p
  BY <1>1, <1>4, <1>6, <1>7
<1>11. \A k \in 1 .. Len(o.instrs) : w[1 + k] = InstrPiece(o.instrs[k])
  BY <1>1, <1>4, <1>8
<1>12. Bytes(w) = 4 + CodeLengthOf(o)
  BY <1>1, <1>2, <1>5, <1>9
<1> QED BY <1>6, <1>10, <1>11, <1>12 DEF w, one, v, p, X, CodeBlock

LEMMA FlattenNoZeros ==
  ASSUME NEW X, NEW ss \in Seq(Seq(X)), \A n \in 1 .. Len(ss) : NoZeros(ss[n])
  PROVE  NoZeros(FlattenSeq(ss))
<1> DEFINE Y == {x \in X : x.kind # "zeros"}
<1>1. ASSUME NEW n \in 1 .. Len(ss)  PROVE ss[n] \in Seq(Y)
  <2>1. ss[n] \in Seq(X)
    OBVIOUS
  <2>2. \A k \in 1 .. Len(ss[n]) : ss[n][k] \in Y
    <3>1. \A k \in 1 .. Len(ss[n]) : ss[n][k] \in X
      BY <2>1
    <3> QED BY <3>1 DEF NoZeros
  <2> HIDE DEF Y
  <2> QED BY <2>1, <2>2, SeqIn
<1> HIDE DEF Y
<1>2. ss \in Seq(Seq(Y))
  BY <1>1, SeqIn
<1>3. FlattenSeq(ss) \in Seq(Y)
  BY <1>2, FlattenType
<1>4. \A k \in 1 .. Len(FlattenSeq(ss)) : FlattenSeq(ss)[k] \in Y
  BY <1>3, ElementOfSeq
<1> QED BY <1>4 DEF NoZeros, Y

-----------------------------------------------------------------------------
(* The parts of the image, each with those before it.                      *)

StorageEntries(dats) == [n \in 1 .. Len(dats) |-> [id |-> dats[n].id, offset |-> StorageOffsetOf(dats, n)]]
CodeEntries(objs) == [n \in 1 .. Len(objs) |-> [id |-> objs[n].ev, offset |-> CodeOffsetOf(objs, n)]]
StorageBlocks(ds, dats) == [n \in 1 .. Len(dats) |-> StorageBlock(dats[n], ds[n].name)]
ObjectBlocks(objs) == [n \in 1 .. Len(objs) |-> CodeBlock(objs[n])]

Magic == <<Piece("magic", 8 + 1, 0)>>
StorageFront(dats) == IndexFront("storage", Len(dats), StorageEntries(dats))
CodeFront(dats, objs) == IndexFront("event", Len(dats), CodeEntries(objs))
ToStorageFront(dats) == Cat(Magic, StorageFront(dats))
ToStorageIndices(dats) == Cat(ToStorageFront(dats), <<Zeros(StorageEntries(dats))>>)
ToStorage(ds, dats) == Cat(ToStorageIndices(dats), FlattenSeq(StorageBlocks(ds, dats)))
ToCodeFront(ds, dats, objs) == Cat(ToStorage(ds, dats), CodeFront(dats, objs))
ToCodeIndices(ds, dats, objs) == Cat(ToCodeFront(ds, dats, objs), <<Zeros(CodeEntries(objs))>>)

LEMMA StorageBlocksAre ==
  ASSUME NEW ds \in Seq(Def), NEW dats, Data(dats, Len(ds))
  PROVE  /\ StorageBlocks(ds, dats) \in Seq(Seq(PieceSet)) /\ Len(StorageBlocks(ds, dats)) = Len(ds)
         /\ \A n \in 1 .. Len(ds) : StorageBlocks(ds, dats)[n] = StorageBlock(dats[n], ds[n].name)
         /\ \A n \in 1 .. Len(ds) :
              /\ Bytes(FlattenSeq(Front1(StorageBlocks(ds, dats), n))) = StorageOffsetOf(dats, n)
              /\ StorageOffsetOf(dats, n) \in Nat
         /\ NoZeros(FlattenSeq(StorageBlocks(ds, dats)))
<1> DEFINE X == PieceSet
           N == Len(ds)
           ss == StorageBlocks(ds, dats)
<1>1. N \in Nat /\ Len(dats) = N /\ \A n \in 1 .. N : dats[n].id \in Int /\ dats[n].length \in Nat
  BY DEF Data
<1>2. ASSUME NEW n \in 1 .. N  PROVE ds[n].name \in Names
  <2>1. ds[n] \in Def
    BY ElementOfSeq
  <2> QED BY <2>1 DEF Def
<1>3. \A n \in 1 .. N : /\ StorageBlock(dats[n], ds[n].name) \in Seq(X)
                        /\ Bytes(StorageBlock(dats[n], ds[n].name)) = 4 + 1 + dats[n].length
                        /\ NoZeros(StorageBlock(dats[n], ds[n].name))
  <2>1. ASSUME NEW n \in 1 .. N
        PROVE  /\ StorageBlock(dats[n], ds[n].name) \in Seq(X)
               /\ Bytes(StorageBlock(dats[n], ds[n].name)) = 4 + 1 + dats[n].length
               /\ NoZeros(StorageBlock(dats[n], ds[n].name))
    <3> DEFINE b == StorageBlock(dats[n], ds[n].name)
    <3>1. /\ b \in Seq(X) /\ Len(b) = 3 /\ Bytes(b) = 4 + 1 + dats[n].length
          /\ \A k \in 1 .. 3 : b[k].kind \in {"flags", "length", "data"}
      BY <1>1, <1>2, StorageBlockIs
    <3> HIDE DEF b
    <3>2. NoZeros(b)
      BY <3>1 DEF NoZeros
    <3> QED BY <3>1, <3>2 DEF b
  <2> QED BY <2>1
<1>4. ss = [n \in 1 .. N |-> StorageBlock(dats[n], ds[n].name)]
  BY <1>1 DEF StorageBlocks
<1>5. \A x \in X : x.len \in Nat
  BY PiecesLen
<1> HIDE DEF ss, N, X
<1>6. ss \in [1 .. N -> Seq(X)] /\ \A n \in 1 .. N : ss[n] = StorageBlock(dats[n], ds[n].name)
  BY <1>3, <1>4
<1>7. ss \in Seq(Seq(X)) /\ Len(ss) = N
  BY <1>1, <1>6
<1>8. ASSUME NEW n \in 1 .. N
      PROVE  Bytes(FlattenSeq(Front1(ss, n))) = StorageOffsetOf(dats, n) /\ StorageOffsetOf(dats, n) \in Nat
  <2>1. Bytes(FlattenSeq(Front1(ss, n))) = Total([k \in 1 .. n - 1 |-> Bytes(ss[k])])
    BY <1>5, <1>7, BlocksBytes
  <2>2. \A k \in 1 .. n - 1 : k \in 1 .. N
    BY <1>1
  <2>3. [k \in 1 .. n - 1 |-> Bytes(ss[k])] = [k \in 1 .. n - 1 |-> 4 + 1 + dats[k].length]
    BY <1>3, <1>6, <2>2
  <2>4. Bytes(FlattenSeq(Front1(ss, n))) = StorageOffsetOf(dats, n)
    BY <2>1, <2>3 DEF StorageOffsetOf
  <2>5. Front1(ss, n) \in Seq(Seq(X))
    BY <1>7, FlattenSplit
  <2>6. FlattenSeq(Front1(ss, n)) \in Seq(X)
    BY <2>5, FlattenType
  <2>7. Bytes(FlattenSeq(Front1(ss, n))) \in Nat
    BY <1>5, <2>6, BytesType
  <2> QED BY <2>4, <2>7
<1>9. NoZeros(FlattenSeq(ss))
  BY <1>3, <1>6, <1>7, FlattenNoZeros
<1> QED BY <1>6, <1>7, <1>8, <1>9 DEF ss, N, X

LEMMA ObjectBlocksAre ==
  ASSUME NEW objs \in Seq(Object)
  PROVE  /\ ObjectBlocks(objs) \in Seq(Seq(PieceSet)) /\ Len(ObjectBlocks(objs)) = Len(objs)
         /\ \A n \in 1 .. Len(objs) : ObjectBlocks(objs)[n] = CodeBlock(objs[n])
         /\ \A n \in 1 .. Len(objs) :
              /\ Bytes(FlattenSeq(Front1(ObjectBlocks(objs), n))) = CodeOffsetOf(objs, n)
              /\ CodeOffsetOf(objs, n) \in Nat
         /\ NoZeros(FlattenSeq(ObjectBlocks(objs)))
<1> DEFINE X == PieceSet
           N == Len(objs)
           ss == ObjectBlocks(objs)
<1>1. N \in Nat /\ \A n \in 1 .. N : objs[n] \in Object
  BY ElementOfSeq
<1>3. \A n \in 1 .. N : /\ CodeBlock(objs[n]) \in Seq(X)
                        /\ Bytes(CodeBlock(objs[n])) = 4 + CodeLengthOf(objs[n])
                        /\ NoZeros(CodeBlock(objs[n]))
  <2>1. ASSUME NEW n \in 1 .. N
        PROVE  /\ CodeBlock(objs[n]) \in Seq(X) /\ Bytes(CodeBlock(objs[n])) = 4 + CodeLengthOf(objs[n])
               /\ NoZeros(CodeBlock(objs[n]))
    <3> DEFINE b == CodeBlock(objs[n])
               is == objs[n].instrs
    <3>1. /\ b \in Seq(X) /\ Len(b) = 1 + Len(is) /\ b[1] = Piece("length", 4, CodeLengthOf(objs[n]))
          /\ \A k \in 1 .. Len(is) : b[1 + k] = InstrPiece(is[k])
          /\ Bytes(b) = 4 + CodeLengthOf(objs[n])
      BY <1>1, CodeBlockIs
    <3>2. Len(is) \in Nat
      BY <1>1, InstrPiecesAre
    <3> HIDE DEF b, is
    <3>3. ASSUME NEW k \in 1 .. Len(b)  PROVE b[k].kind # "zeros"
      <4>1. CASE k = 1
        BY <3>1, <4>1, PieceFields
      <4>2. CASE k # 1
        <5>1. k - 1 \in 1 .. Len(is) /\ 1 + (k - 1) = k
          BY <3>1, <3>2, <4>2
        <5>2. b[k] = InstrPiece(is[k - 1])
          BY <3>1, <5>1
        <5> QED BY <5>2, PieceFields DEF InstrPiece
      <4> QED BY <4>1, <4>2
    <3>4. NoZeros(b)
      BY <3>3 DEF NoZeros
    <3> QED BY <3>1, <3>4 DEF b
  <2> QED BY <2>1
<1>4. ss = [n \in 1 .. N |-> CodeBlock(objs[n])]
  BY DEF ObjectBlocks
<1>5. \A x \in X : x.len \in Nat
  BY PiecesLen
<1> HIDE DEF ss, N, X
<1>6. ss \in [1 .. N -> Seq(X)] /\ \A n \in 1 .. N : ss[n] = CodeBlock(objs[n])
  BY <1>3, <1>4
<1>7. ss \in Seq(Seq(X)) /\ Len(ss) = N
  BY <1>1, <1>6
<1>8. ASSUME NEW n \in 1 .. N
      PROVE  Bytes(FlattenSeq(Front1(ss, n))) = CodeOffsetOf(objs, n) /\ CodeOffsetOf(objs, n) \in Nat
  <2>1. Bytes(FlattenSeq(Front1(ss, n))) = Total([k \in 1 .. n - 1 |-> Bytes(ss[k])])
    BY <1>5, <1>7, BlocksBytes
  <2>2. \A k \in 1 .. n - 1 : k \in 1 .. N
    BY <1>1
  <2>3. [k \in 1 .. n - 1 |-> Bytes(ss[k])] = [k \in 1 .. n - 1 |-> 4 + CodeLengthOf(objs[k])]
    BY <1>3, <1>6, <2>2
  <2>4. Bytes(FlattenSeq(Front1(ss, n))) = CodeOffsetOf(objs, n)
    BY <2>1, <2>3 DEF CodeOffsetOf
  <2>5. Front1(ss, n) \in Seq(Seq(X))
    BY <1>7, FlattenSplit
  <2>6. FlattenSeq(Front1(ss, n)) \in Seq(X)
    BY <2>5, FlattenType
  <2>7. Bytes(FlattenSeq(Front1(ss, n))) \in Nat
    BY <1>5, <2>6, BytesType
  <2> QED BY <2>4, <2>7
<1>9. NoZeros(FlattenSeq(ss))
  BY <1>3, <1>6, <1>7, FlattenNoZeros
<1> QED BY <1>6, <1>7, <1>8, <1>9 DEF ss, N, X

LEMMA EntriesAre ==
  ASSUME NEW ds \in Seq(Def), NEW dats, Data(dats, Len(ds)), NEW objs \in Seq(Object)
  PROVE  /\ StorageEntries(dats) \in Seq(Entries) /\ Len(StorageEntries(dats)) = Len(ds)
         /\ CodeEntries(objs) \in Seq(Entries) /\ Len(CodeEntries(objs)) = Len(objs)
<1> DEFINE N == Len(ds)
           M == Len(objs)
           e == StorageEntries(dats)
           f == CodeEntries(objs)
<1>1. N \in Nat /\ Len(dats) = N /\ \A n \in 1 .. N : dats[n].id \in Int
  BY DEF Data
<1>2. M \in Nat /\ \A n \in 1 .. M : objs[n].ev \in SectionNames
  <2>1. \A n \in 1 .. M : objs[n] \in Object
    BY ElementOfSeq
  <2>2. \A o \in Object : o.ev \in SectionNames
    BY DEF Object
  <2> QED BY <2>1, <2>2
<1>3. \A n \in 1 .. N : StorageOffsetOf(dats, n) \in Nat
  BY StorageBlocksAre
<1>4. \A n \in 1 .. M : CodeOffsetOf(objs, n) \in Nat
  BY ObjectBlocksAre
<1>5. \A n \in 1 .. N : [id |-> dats[n].id, offset |-> StorageOffsetOf(dats, n)] \in Entries
  BY <1>1, <1>3 DEF Entries
<1>6. \A n \in 1 .. M : [id |-> objs[n].ev, offset |-> CodeOffsetOf(objs, n)] \in Entries
  BY <1>2, <1>4 DEF Entries
<1>7. e = [n \in 1 .. N |-> [id |-> dats[n].id, offset |-> StorageOffsetOf(dats, n)]]
  BY <1>1 DEF StorageEntries
<1>8. f = [n \in 1 .. M |-> [id |-> objs[n].ev, offset |-> CodeOffsetOf(objs, n)]]
  BY DEF CodeEntries
<1> HIDE DEF e, f, N, M
<1>9. e \in [1 .. N -> Entries] /\ f \in [1 .. M -> Entries]
  BY <1>5, <1>6, <1>7, <1>8
<1>10. e \in Seq(Entries) /\ Len(e) = N
  BY <1>1, <1>9
<1>11. f \in Seq(Entries) /\ Len(f) = M
  BY <1>2, <1>9
<1> QED BY <1>10, <1>11 DEF e, f, N, M

\* What the parts are made of
LEMMA PartsTyped ==
  ASSUME NEW ds \in Seq(Def), NEW dats, Data(dats, Len(ds)), NEW objs \in Seq(Object)
  PROVE  /\ Magic \in Seq(PieceSet) /\ Len(Magic) = 1 /\ NoZeros(Magic)
         /\ StorageFront(dats) \in Seq(PieceSet) /\ NoZeros(StorageFront(dats))
         /\ CodeFront(dats, objs) \in Seq(PieceSet) /\ NoZeros(CodeFront(dats, objs))
         /\ Zeros(StorageEntries(dats)) \in PieceSet /\ Zeros(StorageEntries(dats)).kind = "zeros"
         /\ Zeros(CodeEntries(objs)) \in PieceSet /\ Zeros(CodeEntries(objs)).kind = "zeros"
         /\ FlattenSeq(StorageBlocks(ds, dats)) \in Seq(PieceSet)
         /\ FlattenSeq(ObjectBlocks(objs)) \in Seq(PieceSet)
<1>1. Magic \in Seq(PieceSet) /\ Len(Magic) = 1 /\ NoZeros(Magic)
  <2> DEFINE X == PieceSet
             p == Piece("magic", 8 + 1, 0)
             one == <<p>>
  <2>1. p \in X
    <3>1. 8 + 1 \in Nat
      OBVIOUS
    <3>2. 0 \in Vals
      BY DEF Vals
    <3> QED BY <3>1, <3>2, PieceTyped DEF Kinds
  <2>2. p.kind = "magic"
    BY PieceFields
  <2> HIDE DEF X, p
  <2>3. one \in Seq(X) /\ Len(one) = 1 /\ one[1] = p
    BY <2>1
  <2> HIDE DEF one
  <2>4. NoZeros(one)
    BY <2>2, <2>3 DEF NoZeros
  <2> QED BY <2>3, <2>4 DEF one, p, X, Magic
<1>2. /\ StorageEntries(dats) \in Seq(Entries) /\ CodeEntries(objs) \in Seq(Entries)
      /\ Len(dats) \in Nat
  BY EntriesAre DEF Data
<1>3. StorageFront(dats) \in Seq(PieceSet) /\ NoZeros(StorageFront(dats))
  BY <1>2, IndexFrontIs DEF StorageFront
<1>4. CodeFront(dats, objs) \in Seq(PieceSet) /\ NoZeros(CodeFront(dats, objs))
  BY <1>2, IndexFrontIs DEF CodeFront
<1>5. /\ Zeros(StorageEntries(dats)) \in PieceSet /\ Zeros(StorageEntries(dats)).kind = "zeros"
      /\ Zeros(CodeEntries(objs)) \in PieceSet /\ Zeros(CodeEntries(objs)).kind = "zeros"
  BY <1>2, ZerosTyped
<1>6. FlattenSeq(StorageBlocks(ds, dats)) \in Seq(PieceSet)
  BY StorageBlocksAre, FlattenType
<1>7. FlattenSeq(ObjectBlocks(objs)) \in Seq(PieceSet)
  BY ObjectBlocksAre, FlattenType
<1> QED BY <1>1, <1>3, <1>4, <1>5, <1>6, <1>7

LEMMA OneTyped ==
  ASSUME NEW X, NEW x \in X
  PROVE  <<x>> \in Seq(X)
  OBVIOUS

\* The image, divided behind each part
LEMMA ImageIs ==
  ASSUME NEW ds \in Seq(Def), NEW dats, Data(dats, Len(ds)), NEW objs \in Seq(Object),
         NEW img, img = ImageOf(ds, dats, objs)
  PROVE  /\ img \in Seq(PieceSet)
         /\ img = Cat(ToCodeIndices(ds, dats, objs), FlattenSeq(ObjectBlocks(objs)))
         /\ \E rest \in Seq(PieceSet) :
              img = Cat(Cat(ToStorageIndices(dats), FlattenSeq(StorageBlocks(ds, dats))), rest)
         /\ \E rest \in Seq(PieceSet) : img = Cat(Cat(Magic, StorageFront(dats)), rest)
         /\ \E rest \in Seq(PieceSet) : img = Cat(Cat(ToStorage(ds, dats), CodeFront(dats, objs)), rest)
         /\ ToStorageIndices(dats) \in Seq(PieceSet) /\ ToStorage(ds, dats) \in Seq(PieceSet)
         /\ ToCodeIndices(ds, dats, objs) \in Seq(PieceSet)
         /\ FirstZeros(img) = Len(ToStorageIndices(dats))
         /\ LastZeros(img) = Len(ToCodeIndices(ds, dats, objs))
<1> DEFINE X == PieceSet
           M == Magic
           i1 == StorageFront(dats)
           y == Zeros(StorageEntries(dats))
           z1 == <<y>>
           st == FlattenSeq(StorageBlocks(ds, dats))
           i2 == CodeFront(dats, objs)
           z == Zeros(CodeEntries(objs))
           z2 == <<z>>
           cb == FlattenSeq(ObjectBlocks(objs))
           a == ToStorageFront(dats)
           p1 == ToStorageIndices(dats)
           p2 == ToStorage(ds, dats)
           c == ToCodeFront(ds, dats, objs)
           p3 == ToCodeIndices(ds, dats, objs)
<1>1. /\ M \in Seq(X) /\ i1 \in Seq(X) /\ y \in X /\ st \in Seq(X) /\ i2 \in Seq(X) /\ z \in X /\ cb \in Seq(X)
      /\ NoZeros(M) /\ NoZeros(i1) /\ NoZeros(i2) /\ NoZeros(st) /\ NoZeros(cb)
      /\ y.kind = "zeros" /\ z.kind = "zeros"
  BY PartsTyped, StorageBlocksAre, ObjectBlocksAre
<1>2. z1 \in Seq(X) /\ z2 \in Seq(X)
  <2> HIDE DEF X, y, z
  <2> QED BY <1>1, OneTyped
<1>3. a = Cat(M, i1) /\ p1 = Cat(a, z1) /\ p2 = Cat(p1, st) /\ c = Cat(p2, i2) /\ p3 = Cat(c, z2)
  BY DEF ToStorageFront, ToStorageIndices, ToStorage, ToCodeFront, ToCodeIndices
<1>4. img = Cat(Cat(Cat(Cat(M, Cat(i1, z1)), st), Cat(i2, z2)), cb)
  <2>1. StorageIndices(dats) = Cat(i1, z1)
    BY IndicesSplit DEF StorageIndices, StorageFront, StorageEntries
  <2>2. CodeIndices(dats, objs) = Cat(i2, z2)
    BY IndicesSplit DEF CodeIndices, CodeFront, CodeEntries
  <2>3. StorageOf(ds, dats) = st
    BY DEF StorageOf, StorageBlocks
  <2>4. CodeBlocks(objs) = cb
    BY DEF CodeBlocks, ObjectBlocks
  <2>5. img = Cat(Cat(Cat(Cat(M, StorageIndices(dats)), StorageOf(ds, dats)), CodeIndices(dats, objs)), CodeBlocks(objs))
    BY DEF ImageOf, Cat, Magic
  <2> QED BY <2>1, <2>2, <2>3, <2>4, <2>5
<1> HIDE DEF X, M, i1, z1, st, i2, z2, cb, a, p1, p2, c, p3, y, z
<1>5. a \in Seq(X)
  BY <1>1, <1>3, CatLen
<1>6. p1 \in Seq(X)
  BY <1>2, <1>3, <1>5, CatLen
<1>7. p2 \in Seq(X)
  BY <1>1, <1>3, <1>6, CatLen
<1>8. c \in Seq(X)
  BY <1>1, <1>3, <1>7, CatLen
<1>9. p3 \in Seq(X)
  BY <1>2, <1>3, <1>8, CatLen
<1>10. Cat(M, Cat(i1, z1)) = p1
  BY <1>1, <1>2, <1>3, CatAssociative
<1>11. Cat(p2, Cat(i2, z2)) = p3
  BY <1>1, <1>2, <1>3, <1>7, CatAssociative
<1>12. img = Cat(p3, cb)
  BY <1>3, <1>4, <1>10, <1>11
<1>13. img \in Seq(X)
  BY <1>1, <1>9, <1>12, CatLen
<1> DEFINE r3 == Cat(z2, cb)
           r2 == Cat(i2, r3)
           r1 == Cat(st, r2)
           r0 == Cat(z1, r1)
<1>14. r3 \in Seq(X)
  BY <1>1, <1>2, CatLen
<1>15. img = Cat(c, r3)
  BY <1>1, <1>2, <1>3, <1>8, <1>12, CatAssociative
<1> HIDE DEF r3
<1>16. r2 \in Seq(X)
  BY <1>1, <1>14, CatLen
<1>17. img = Cat(p2, r2)
  BY <1>1, <1>3, <1>7, <1>14, <1>15, CatAssociative
<1> HIDE DEF r2
<1>18. r1 \in Seq(X)
  BY <1>1, <1>16, CatLen
<1>19. img = Cat(p1, r1)
  BY <1>1, <1>3, <1>6, <1>16, <1>17, CatAssociative
<1> HIDE DEF r1
<1>20. r0 \in Seq(X)
  BY <1>2, <1>18, CatLen
<1>21. img = Cat(a, r0)
  BY <1>2, <1>3, <1>5, <1>18, <1>19, CatAssociative
<1> HIDE DEF r0
<1>22. \E rest \in Seq(X) : img = Cat(Cat(p1, st), rest)
  BY <1>3, <1>16, <1>17
<1>23. \E rest \in Seq(X) : img = Cat(Cat(M, i1), rest)
  BY <1>3, <1>20, <1>21
<1>24. \E rest \in Seq(X) : img = Cat(Cat(p2, i2), rest)
  BY <1>3, <1>14, <1>15
<1> DEFINE b == Cat(st, i2)
<1>25. b \in Seq(X) /\ NoZeros(b) /\ NoZeros(a)
  <2>1. b \in Seq(X)
    BY <1>1, CatLen
  <2>2. NoZeros(b)
    BY <1>1, NoZerosConcat DEF Cat
  <2>3. NoZeros(a)
    BY <1>1, <1>3, NoZerosConcat DEF Cat
  <2> QED BY <2>1, <2>2, <2>3
<1>26. c = Cat(p1, b)
  BY <1>1, <1>3, <1>6, CatAssociative
<1> HIDE DEF b
<1>27. img = ((((a \o <<y>>) \o b) \o <<z>>) \o cb)
  BY <1>3, <1>12, <1>26 DEF Cat, z1, z2
<1>28. FirstZeros(img) = Len(a) + 1 /\ LastZeros(img) = Len(After(a, y, b)) + 1
  <2>1. y \in X /\ z \in X /\ cb \in Seq(X) /\ y.kind = "zeros" /\ z.kind = "zeros" /\ NoZeros(cb)
    BY <1>1
  <2>2. Between(img, a, y, b, z, cb)
    BY <1>27 DEF Between, After
  <2> QED BY <1>5, <1>25, <2>1, <2>2, TwoZeros
<1>29. After(a, y, b) = c
  BY <1>3, <1>26 DEF Cat, z1, After
<1>30. Len(z1) = 1 /\ Len(z2) = 1
  BY DEF z1, z2
<1>31. Len(p1) = Len(a) + 1
  BY <1>2, <1>3, <1>5, <1>30, CatLen
<1>32. Len(p3) = Len(c) + 1
  <2>1. Len(Cat(c, z2)) = Len(c) + Len(z2)
    BY <1>2, <1>8, CatLen
  <2> QED BY <1>3, <1>30, <2>1
<1>33. FirstZeros(img) = Len(p1)
  BY <1>28, <1>31
<1>34. LastZeros(img) = Len(p3)
  BY <1>28, <1>29, <1>32
<1> QED BY <1>6, <1>7, <1>9, <1>12, <1>13, <1>22, <1>23, <1>24, <1>33, <1>34 DEF X, M, i1, st, i2, cb, p1, p2, p3

-----------------------------------------------------------------------------
(* What there is when the image is.                                        *)

LEMMA DoneIs ==
  ASSUME Inv, pc = "done"
  PROVE  /\ lines \in Seq(KeptLine) /\ sections = SectionsOf(lines) /\ sections \in Seq(Section)
         /\ code = CodeOf(sections) /\ code \in Seq(Section) /\ defs = DefsOf(sections) /\ defs \in Seq(Def)
         /\ labels = NamesOf(defs) /\ Unique(labels) /\ AllParse(code) /\ objects = ObjectsOf(code)
         /\ AllCompiled(defs) /\ datas = DatasOf(labels, defs) /\ image = ImageOf(defs, datas, objects)
<1>1. pc # "strip" /\ pc \in AfterParse /\ pc \in AfterReduce /\ pc \in AfterIdentify /\ pc \in AfterCode /\ pc \in AfterData
  BY DEF AfterParse, AfterReduce, AfterIdentify, AfterCode, AfterData
<1>2. lines \in Seq(KeptLine) /\ sections \in Seq(Section) /\ code \in Seq(Section) /\ defs \in Seq(Def)
  BY <1>1, InvTyped
<1> QED BY <1>1, <1>2 DEF Inv

LEMMA LengthsTyped ==
  ASSUME NEW names, NEW d \in Def
  PROVE  DataOf(names, d).length \in Nat
<1> DEFINE m == Len(d.content)
           f == [k \in DOMAIN d.content |-> CompiledLine(d, k).length]
<1>1. d.content \in Seq(ContentLine)
  BY DEF Def
<1>2. m \in Nat /\ DOMAIN d.content = 1 .. m
  BY <1>1, LenProperties
<1>3. ASSUME NEW k \in 1 .. m  PROVE CompiledLine(d, k).length \in Nat
  <2>1. d.content[k] \in ContentLine
    BY <1>1, ElementOfSeq
  <2>2. d.content[k].text \in Seq(STRING)
    BY <2>1 DEF ContentLine, BodyLine, KeptLine, SourceLine, Line
  <2>3. Len(d.content[k].text) \in Nat
    BY <2>2
  <2> QED BY <2>3, CompiledLength DEF CompiledLine
<1>4. f \in [1 .. m -> Nat]
  BY <1>2, <1>3
<1>5. DataOf(names, d).length = Total(f)
  BY DEF DataOf
<1> HIDE DEF f, m
<1>6. f \in Seq(Nat)
  BY <1>2, <1>4
<1> QED BY <1>5, <1>6, TotalType

LEMMA DoneData ==
  ASSUME Inv, pc = "done"
  PROVE  /\ Data(datas, Len(defs)) /\ \A n \in 1 .. Len(defs) : datas[n].id = n - 1
         /\ \A n \in 1 .. Len(defs) : n \in DOMAIN labels /\ labels[n] = defs[n].name
         /\ DOMAIN labels = 1 .. Len(defs)
<1>1. /\ defs \in Seq(Def) /\ labels = NamesOf(defs) /\ Unique(labels) /\ datas = DatasOf(labels, defs)
      /\ Len(defs) \in Nat
  BY DoneIs
<1>2. /\ NamesOf(defs) \in Seq(Names) /\ Len(NamesOf(defs)) = Len(defs)
      /\ \A k \in 1 .. Len(defs) : NamesOf(defs)[k] = defs[k].name
  BY <1>1, NamesAre
<1>3. DOMAIN labels = 1 .. Len(defs)
  BY <1>1, <1>2, LenProperties
<1>4. \A n \in 1 .. Len(defs) : n \in DOMAIN labels /\ labels[n] = defs[n].name
  BY <1>1, <1>2, <1>3
<1>5. ASSUME NEW n \in 1 .. Len(defs)  PROVE datas[n].id = n - 1 /\ datas[n].length \in Nat /\ n - 1 \in Int
  <2>1. datas[n] = DataOf(labels, defs[n])
    BY <1>1 DEF DatasOf
  <2>2. defs[n] \in Def
    BY <1>1, ElementOfSeq
  <2>3. datas[n].length \in Nat
    BY <2>1, <2>2, LengthsTyped
  <2>4. IdIn(labels, labels[n]) = n - 1
    BY <1>1, <1>4, IdIs
  <2>5. datas[n].id = n - 1
    BY <1>4, <2>1, <2>4 DEF DataOf
  <2> QED BY <2>3, <2>5
<1>6. Len(datas) = Len(defs)
  BY <1>1 DEF DatasOf
<1> QED BY <1>1, <1>3, <1>4, <1>5, <1>6 DEF Data

LEMMA DoneObjects ==
  ASSUME Inv, pc = "done"
  PROVE  objects \in Seq(Object) /\ Len(objects) = Len(code)
<1>1. code \in Seq(Section) /\ AllParse(code) /\ objects = ObjectsOf(code)
  BY DoneIs
<1> DEFINE N == Len(code)
<1>2. N \in Nat /\ DOMAIN code = 1 .. N
  BY <1>1, LenProperties
<1>3. ASSUME NEW n \in 1 .. N  PROVE ObjectOf(code[n]) \in Object
  <2> DEFINE s == code[n]
             m == Len(s.body)
             is == [k \in 1 .. m |-> EncodeInstr(s.body[k])]
  <2>1. s \in Section
    BY <1>1, ElementOfSeq
  <2>2. \A k \in 1 .. Len(s.body) : Accepted(s.body[k])
    BY <1>1, <1>2 DEF AllParse
  <2>3. ObjectOf(s) = [ev |-> s.name, instrs |-> is]
    BY DEF ObjectOf
  <2> HIDE DEF s
  <2>4. s.name \in SectionNames /\ s.body \in Seq(BodyLine)
    BY <2>1 DEF Section
  <2>5. m \in Nat /\ DOMAIN s.body = 1 .. m
    BY <2>4, LenProperties
  <2>6. ASSUME NEW k \in 1 .. m  PROVE EncodeInstr(s.body[k]) \in InstrVals
    <3>1. s.body[k] \in BodyLine
      BY <2>4, ElementOfSeq
    <3>2. s.body[k] \in ParsedLine
      BY <2>2, <2>5, <3>1 DEF ParsedLine
    <3> QED BY <3>2 DEF InstrVals
  <2> DEFINE I == InstrVals
  <2>7. is \in [1 .. m -> I]
    BY <2>6
  <2> HIDE DEF is, m, I
  <2>8. is \in Seq(I)
    BY <2>5, <2>7
  <2>9. [ev |-> s.name, instrs |-> is] \in Object
    BY <2>4, <2>8 DEF Object, I
  <2> QED BY <2>3, <2>9 DEF s
<1>4. objects = [n \in 1 .. N |-> ObjectOf(code[n])]
  BY <1>1 DEF ObjectsOf
<1> DEFINE O == Object
<1>5. objects \in [1 .. N -> O]
  BY <1>3, <1>4
<1> HIDE DEF N, O
<1>6. objects \in Seq(O) /\ Len(objects) = N
  BY <1>2, <1>5
<1> QED BY <1>6 DEF N, O

-----------------------------------------------------------------------------
(* IdsLeadToData, EventsLeadToCode                                         *)

LEMMA BasesAre ==
  ASSUME Inv, pc = "done"
  PROVE  /\ StorageBase = Bytes(ToStorageIndices(datas))
         /\ CodeBase = Bytes(ToCodeIndices(defs, datas, objects))
<1> DEFINE X == PieceSet
           p1 == ToStorageIndices(datas)
           p3 == ToCodeIndices(defs, datas, objects)
           st == FlattenSeq(StorageBlocks(defs, datas))
           cb == FlattenSeq(ObjectBlocks(objects))
<1>1. defs \in Seq(Def) /\ image = ImageOf(defs, datas, objects)
  BY DoneIs
<1>2. Data(datas, Len(defs)) /\ objects \in Seq(Object)
  BY DoneData, DoneObjects
<1>3. /\ image = Cat(p3, cb)
      /\ \E rest \in Seq(X) : image = Cat(Cat(p1, st), rest)
      /\ p1 \in Seq(X) /\ p3 \in Seq(X)
      /\ FirstZeros(image) = Len(p1) /\ LastZeros(image) = Len(p3)
  BY <1>1, <1>2, ImageIs
<1>4. st \in Seq(X) /\ cb \in Seq(X)
  BY <1>1, <1>2, PartsTyped
<1>5. \A x \in X : x.len \in Nat
  BY PiecesLen
<1>6. Are("zeros") = ZerosIn(image)
  BY DEF Are, ZerosIn
<1>7. \A k : At(k) = AtIn(image, k)
  BY DEF At, AtIn
<1>8. StorageBase = AtIn(image, FirstZeros(image) + 1) /\ CodeBase = AtIn(image, LastZeros(image) + 1)
  BY <1>6, <1>7 DEF StorageBase, CodeBase, FirstZeros, LastZeros
<1> HIDE DEF X, p1, p3, st, cb
<1>9. AtIn(image, Len(p3) + 1) = Bytes(p3)
  <2>1. AtIn(Cat(p3, cb), Len(p3) + 1) = Bytes(p3)
    BY <1>3, <1>4, <1>5, CatAt
  <2> QED BY <1>3, <2>1
<1>10. AtIn(image, Len(p1) + 1) = Bytes(p1)
  <2>1. PICK rest \in Seq(X) : image = Cat(Cat(p1, st), rest)
    BY <1>3
  <2> DEFINE r == Cat(st, rest)
  <2>2. r \in Seq(X)
    BY <1>4, CatLen
  <2>3. Cat(Cat(p1, st), rest) = Cat(p1, r)
    BY <1>3, <1>4, CatAssociative
  <2> HIDE DEF r
  <2>4. AtIn(Cat(p1, r), Len(p1) + 1) = Bytes(p1)
    BY <1>3, <1>5, <2>2, CatAt
  <2> QED BY <2>1, <2>3, <2>4
<1> QED BY <1>3, <1>8, <1>9, <1>10 DEF p1, p3

\* The index of the n-th definition, and its block
LEMMA StorageIndexIs ==
  ASSUME Inv, pc = "done", NEW n \in 1 .. Len(defs)
  PROVE  \E x \in Are("storage") : image[x].val = [id |-> n - 1, offset |-> StorageOffsetOf(datas, n)]
<1> DEFINE X == PieceSet
           F == StorageFront(datas)
           E == StorageEntries(datas)
<1>1. /\ defs \in Seq(Def) /\ image = ImageOf(defs, datas, objects) /\ Data(datas, Len(defs))
      /\ objects \in Seq(Object) /\ datas[n].id = n - 1
  BY DoneIs, DoneData, DoneObjects
<1>2. PICK rest \in Seq(X) : image = Cat(Cat(Magic, F), rest)
  BY <1>1, ImageIs
<1>3. Magic \in Seq(X) /\ Len(Magic) = 1 /\ F \in Seq(X)
  BY <1>1, PartsTyped
<1>4. E \in Seq(Entries) /\ Len(E) = Len(defs) /\ Len(datas) = Len(defs) /\ Len(datas) \in Nat
  BY <1>1, EntriesAre DEF Data
<1>5. Len(F) = 1 + Len(E) /\ \A k \in 1 .. Len(E) : F[1 + k] = Piece("storage", 5, E[k])
  BY <1>4, IndexFrontIs DEF StorageFront
<1>6. E[n] = [id |-> n - 1, offset |-> StorageOffsetOf(datas, n)]
  BY <1>1, <1>4 DEF StorageEntries
<1> HIDE DEF X, F, E
<1>7. ReadsAs(image, 1, F)
  <2>1. ReadsAs(Cat(Cat(Magic, F), rest), Len(Magic), F)
    BY <1>3, CatReading
  <2> QED BY <1>2, <1>3, <2>1
<1>8. 1 + n \in 1 .. Len(F)
  BY <1>4, <1>5
<1>9. 1 + (1 + n) \in DOMAIN image /\ image[1 + (1 + n)] = Piece("storage", 5, E[n])
  BY <1>4, <1>5, <1>7, <1>8 DEF ReadsAs
<1> DEFINE x == 1 + (1 + n)
<1>10. x \in DOMAIN image /\ image[x] = Piece("storage", 5, E[n])
  BY <1>9
<1> HIDE DEF x
<1>11. x \in Are("storage") /\ image[x].val = E[n]
  BY <1>10, PieceFields DEF Are
<1> QED BY <1>6, <1>11

LEMMA StorageBlockAt ==
  ASSUME Inv, pc = "done", NEW n \in 1 .. Len(defs)
  PROVE  \E at \in Nat : /\ ReadsAs(image, at, StorageBlock(datas[n], defs[n].name))
                         /\ At(at + 1) = StorageBase + StorageOffsetOf(datas, n)
<1> DEFINE X == PieceSet
           P == ToStorageIndices(datas)
           ss == StorageBlocks(defs, datas)
           at == Place(P, ss, n)
<1>1. /\ defs \in Seq(Def) /\ image = ImageOf(defs, datas, objects) /\ Data(datas, Len(defs))
      /\ objects \in Seq(Object)
  BY DoneIs, DoneData, DoneObjects
<1>2. P \in Seq(X) /\ \E rest \in Seq(X) : image = Cat(Cat(P, FlattenSeq(ss)), rest)
  BY <1>1, ImageIs
<1>3. PICK rest \in Seq(X) : image = Cat(Cat(P, FlattenSeq(ss)), rest)
  BY <1>2
<1>4. /\ ss \in Seq(Seq(X)) /\ n \in 1 .. Len(ss) /\ ss[n] = StorageBlock(datas[n], defs[n].name)
      /\ Bytes(FlattenSeq(Front1(ss, n))) = StorageOffsetOf(datas, n)
  BY <1>1, StorageBlocksAre
<1>5. \A x \in X : x.len \in Nat
  BY PiecesLen
<1>6. StorageBase = Bytes(P)
  BY BasesAre
<1> HIDE DEF X, P, ss
<1>7. at \in Nat /\ ReadsAs(image, at, ss[n]) /\ AtIn(image, at + 1) = Bytes(P) + Bytes(FlattenSeq(Front1(ss, n)))
  <2>1. IsAt(Cat(Cat(P, FlattenSeq(ss)), rest), P, ss, n)
    BY <1>2, <1>4, <1>5, BlockIsAt
  <2> QED BY <1>3, <2>1 DEF IsAt
<1> HIDE DEF at
<1>8. At(at + 1) = AtIn(image, at + 1)
  BY DEF At, AtIn
<1> QED BY <1>4, <1>6, <1>7, <1>8

LEMMA IdsLead ==
  ASSUME Inv
  PROVE  IdsLeadToData
<1> SUFFICES ASSUME pc = "done", NEW n \in DOMAIN defs
             PROVE  \E x \in Are("storage"), k \in Are("flags") :
                      /\ image[x].val = [id |-> n - 1, offset |-> At(k) - StorageBase]
                      /\ image[k + 1].val = image[k + 2].len
                      /\ image[k + 2].kind = "data" /\ image[k + 2].val = defs[n].name
  BY DEF IdsLeadToData
<1>1. defs \in Seq(Def) /\ image = ImageOf(defs, datas, objects) /\ Data(datas, Len(defs)) /\ objects \in Seq(Object)
  BY DoneIs, DoneData, DoneObjects
<1>9. n \in 1 .. Len(defs)
  BY <1>1, LenProperties
<1>10. PICK x \in Are("storage") : image[x].val = [id |-> n - 1, offset |-> StorageOffsetOf(datas, n)]
  BY <1>9, StorageIndexIs
<1>11. PICK at \in Nat : /\ ReadsAs(image, at, StorageBlock(datas[n], defs[n].name))
                        /\ At(at + 1) = StorageBase + StorageOffsetOf(datas, n)
  BY <1>9, StorageBlockAt
<1> DEFINE b == StorageBlock(datas[n], defs[n].name)
<1>12. /\ Len(b) = 3 /\ b[1] = Piece("flags", 1, 0) /\ b[2] = Piece("length", 4, datas[n].length)
       /\ b[3] = Piece("data", datas[n].length, defs[n].name)
  BY DEF StorageBlock
<1> HIDE DEF b
<1>13. ReadsAs(image, at, b)
  BY <1>11 DEF b
<1>14. /\ at + 1 \in DOMAIN image /\ image[at + 1] = b[1]
       /\ image[at + 2] = b[2] /\ image[at + 3] = b[3]
  <2>1. 1 \in 1 .. Len(b) /\ 2 \in 1 .. Len(b) /\ 3 \in 1 .. Len(b)
    BY <1>12
  <2> QED BY <1>13, <2>1 DEF ReadsAs
<1> DEFINE k == at + 1
<1>15. k + 1 = at + 2 /\ k + 2 = at + 3
  BY <1>11
<1>16. k \in DOMAIN image /\ image[k] = b[1] /\ image[k + 1] = b[2] /\ image[k + 2] = b[3] /\ At(k) = StorageBase + StorageOffsetOf(datas, n)
  BY <1>11, <1>14, <1>15
<1> HIDE DEF k
<1>17. /\ image[k].kind = "flags" /\ image[k + 1].val = datas[n].length /\ image[k + 2].len = datas[n].length
       /\ image[k + 2].kind = "data" /\ image[k + 2].val = defs[n].name
  BY <1>12, <1>16, PieceFields
<1>18. k \in Are("flags")
  BY <1>16, <1>17 DEF Are
<1>19. StorageOffsetOf(datas, n) \in Nat
  BY <1>1, <1>9, StorageBlocksAre
<1>20. StorageBase \in Nat
  <2>1. StorageBase = Bytes(ToStorageIndices(datas)) /\ ToStorageIndices(datas) \in Seq(PieceSet)
    BY <1>1, BasesAre, ImageIs
  <2> QED BY <2>1, PiecesLen, BytesType
<1>21. At(k) - StorageBase = StorageOffsetOf(datas, n)
  BY <1>16, <1>19, <1>20
<1> QED BY <1>10, <1>17, <1>18, <1>21

LEMMA EventIndexIs ==
  ASSUME Inv, pc = "done", NEW n \in 1 .. Len(objects)
  PROVE  \E x \in Are("event") : image[x].val = [id |-> objects[n].ev, offset |-> CodeOffsetOf(objects, n)]
<1> DEFINE X == PieceSet
           B == ToStorage(defs, datas)
           F == CodeFront(datas, objects)
           E == CodeEntries(objects)
<1>1. /\ defs \in Seq(Def) /\ image = ImageOf(defs, datas, objects) /\ Data(datas, Len(defs))
      /\ objects \in Seq(Object) /\ Len(objects) \in Nat
  BY DoneIs, DoneData, DoneObjects
<1>2. PICK rest \in Seq(X) : image = Cat(Cat(B, F), rest)
  BY <1>1, ImageIs
<1>3. B \in Seq(X) /\ F \in Seq(X)
  BY <1>1, ImageIs, PartsTyped
<1>4. E \in Seq(Entries) /\ Len(E) = Len(objects) /\ Len(datas) \in Nat
  BY <1>1, EntriesAre DEF Data
<1>5. Len(F) = 1 + Len(E) /\ \A k \in 1 .. Len(E) : F[1 + k] = Piece("event", 5, E[k])
  BY <1>4, IndexFrontIs DEF CodeFront
<1>6. E[n] = [id |-> objects[n].ev, offset |-> CodeOffsetOf(objects, n)]
  BY DEF CodeEntries
<1> HIDE DEF X, F, E, B
<1>7. ReadsAs(image, Len(B), F) /\ Len(B) \in Nat
  <2>1. ReadsAs(Cat(Cat(B, F), rest), Len(B), F)
    BY <1>3, CatReading
  <2>2. Len(B) \in Nat
    BY <1>3
  <2> QED BY <1>2, <2>1, <2>2
<1>8. 1 + n \in 1 .. Len(F)
  BY <1>1, <1>4, <1>5
<1> DEFINE x == Len(B) + (1 + n)
<1>9. x \in DOMAIN image /\ image[x] = Piece("event", 5, E[n])
  BY <1>4, <1>5, <1>7, <1>8 DEF ReadsAs
<1> HIDE DEF x
<1>10. x \in Are("event") /\ image[x].val = E[n]
  BY <1>9, PieceFields DEF Are
<1> QED BY <1>6, <1>10

LEMMA CodeBlockAt ==
  ASSUME Inv, pc = "done", NEW n \in 1 .. Len(objects)
  PROVE  \E at \in Nat : /\ ReadsAs(image, at, CodeBlock(objects[n]))
                         /\ At(at + 1) = CodeBase + CodeOffsetOf(objects, n)
                         /\ At(at + Len(CodeBlock(objects[n])) + 1)
                              = CodeBase + CodeOffsetOf(objects, n) + Bytes(CodeBlock(objects[n]))
<1> DEFINE X == PieceSet
           P == ToCodeIndices(defs, datas, objects)
           ss == ObjectBlocks(objects)
           f == FlattenSeq(ss)
           at == Place(P, ss, n)
<1>1. /\ defs \in Seq(Def) /\ image = ImageOf(defs, datas, objects) /\ Data(datas, Len(defs))
      /\ objects \in Seq(Object)
  BY DoneIs, DoneData, DoneObjects
<1>2. P \in Seq(X) /\ image = Cat(P, f)
  BY <1>1, ImageIs
<1>3. f \in Seq(X)
  BY <1>1, PartsTyped
<1>4. /\ ss \in Seq(Seq(X)) /\ n \in 1 .. Len(ss) /\ ss[n] = CodeBlock(objects[n])
      /\ Bytes(FlattenSeq(Front1(ss, n))) = CodeOffsetOf(objects, n)
  BY <1>1, ObjectBlocksAre
<1>5. \A x \in X : x.len \in Nat
  BY PiecesLen
<1>6. CodeBase = Bytes(P)
  BY BasesAre
<1> HIDE DEF X, P, ss
<1>7. IsAt(image, P, ss, n)
  <2>1. <<>> \in Seq(X)
    BY EmptySeq
  <2>2. IsAt(Cat(Cat(P, FlattenSeq(ss)), <<>>), P, ss, n)
    BY <1>2, <1>4, <1>5, <2>1, BlockIsAt
  <2>3. Cat(P, f) \in Seq(X)
    BY <1>2, <1>3, CatLen
  <2> DEFINE w == Cat(P, f)
  <2> HIDE DEF w
  <2>4. Cat(w, <<>>) = w
    BY <2>3, ConcatEmptySeq DEF Cat, w
  <2> QED BY <1>2, <2>2, <2>4 DEF w
<1>8. /\ at \in Nat /\ ReadsAs(image, at, ss[n]) /\ AtIn(image, at + 1) = Bytes(P) + Bytes(FlattenSeq(Front1(ss, n)))
      /\ AtIn(image, at + Len(ss[n]) + 1) = Bytes(P) + Bytes(FlattenSeq(Front1(ss, n))) + Bytes(ss[n])
  BY <1>7 DEF IsAt
<1> HIDE DEF at, f
<1>9. \A k : At(k) = AtIn(image, k)
  BY DEF At, AtIn
<1> QED BY <1>4, <1>6, <1>8, <1>9

LEMMA EventsLead ==
  ASSUME Inv
  PROVE  EventsLeadToCode
<1> SUFFICES ASSUME pc = "done", NEW n \in DOMAIN objects
             PROVE  \E x \in Are("event"), k \in Are("length") :
                      /\ image[x].val = [id |-> objects[n].ev, offset |-> At(k) - CodeBase]
                      /\ At(k) + 4 + image[k].val = At(k + 1 + Len(objects[n].instrs))
                      /\ \A m \in DOMAIN objects[n].instrs : image[k + m].val = objects[n].instrs[m]
  BY DEF EventsLeadToCode
<1>1. /\ objects \in Seq(Object) /\ n \in 1 .. Len(objects) /\ defs \in Seq(Def) /\ Data(datas, Len(defs))
      /\ image = ImageOf(defs, datas, objects)
  <2>1. objects \in Seq(Object)
    BY DoneObjects
  <2> QED BY <2>1, LenProperties, DoneIs, DoneData
<1> DEFINE o == objects[n]
           b == CodeBlock(o)
           is == o.instrs
           c == CodeOffsetOf(objects, n)
           len == CodeLengthOf(o)
<1>2. o \in Object
  BY <1>1, ElementOfSeq
<1>3. /\ Len(b) = 1 + Len(is) /\ b[1] = Piece("length", 4, len) /\ Bytes(b) = 4 + len
      /\ \A k \in 1 .. Len(is) : b[1 + k] = InstrPiece(is[k])
  BY <1>2, CodeBlockIs
<1>4. Len(is) \in Nat /\ len \in Nat
  BY <1>2, InstrPiecesAre
<1>5. DOMAIN is = 1 .. Len(is)
  <2>1. is \in Seq(InstrVals)
    BY <1>2 DEF Object
  <2> QED BY <2>1, LenProperties
<1>6. PICK x \in Are("event") : image[x].val = [id |-> o.ev, offset |-> c]
  BY <1>1, EventIndexIs
<1>7. PICK at \in Nat : /\ ReadsAs(image, at, b)
                       /\ At(at + 1) = CodeBase + c
                       /\ At(at + Len(b) + 1) = CodeBase + c + Bytes(b)
  BY <1>1, CodeBlockAt
<1>8. c \in Nat /\ CodeBase \in Nat
  <2>1. c \in Nat
    BY <1>1, ObjectBlocksAre
  <2>2. CodeBase = Bytes(ToCodeIndices(defs, datas, objects))
    BY BasesAre
  <2>3. ToCodeIndices(defs, datas, objects) \in Seq(PieceSet)
    BY <1>1, ImageIs
  <2>4. Bytes(ToCodeIndices(defs, datas, objects)) \in Nat
    BY <2>3, PiecesLen, BytesType
  <2> QED BY <2>1, <2>2, <2>4
<1> HIDE DEF b, is, c, len
<1> DEFINE k == at + 1
<1>9. k \in DOMAIN image /\ image[k] = b[1] /\ \A m \in 1 .. Len(is) : image[k + m] = b[1 + m]
  <2>1. 1 \in 1 .. Len(b) /\ \A m \in 1 .. Len(is) : 1 + m \in 1 .. Len(b) /\ k + m = at + (1 + m)
    BY <1>3, <1>4, <1>7
  <2> QED BY <1>7, <2>1 DEF ReadsAs
<1>10. At(k) = CodeBase + c /\ At(k + 1 + Len(is)) = CodeBase + c + (4 + len)
  <2>1. k + 1 + Len(is) = at + Len(b) + 1
    BY <1>3, <1>4, <1>7
  <2> QED BY <1>3, <1>7, <2>1
<1> HIDE DEF k
<1>11. image[k].kind = "length" /\ image[k].val = len
  BY <1>3, <1>9, PieceFields
<1>12. k \in Are("length")
  BY <1>9, <1>11 DEF Are
<1>13. \A m \in 1 .. Len(is) : image[k + m].val = is[m]
  BY <1>3, <1>9, PieceFields DEF InstrPiece
<1>14. At(k) - CodeBase = c /\ At(k) + 4 + image[k].val = At(k + 1 + Len(is))
  BY <1>4, <1>8, <1>10, <1>11
<1>15. image[x].val = [id |-> o.ev, offset |-> At(k) - CodeBase]
  BY <1>6, <1>14
<1> QED BY <1>5, <1>6, <1>12, <1>13, <1>14, <1>15 DEF is

-----------------------------------------------------------------------------
(* The lines of a file that hold instructions, and the pieces they are in. *)

HasCode(l) == SectionOf(l) \notin {"null", "meta", "data"}

IsHeader(ls, k, h) ==
  h \in 1 .. k /\ (h = 1 \/ ls[h].first = ".") /\ \A m \in h + 1 .. k : ls[m].first # "."
HeaderIn(ls, k) == CHOOSE h : IsHeader(ls, k, h)
InCode(ls) == {k \in 1 .. Len(ls) : HeaderIn(ls, k) # k /\ HasCode(ls[HeaderIn(ls, k)])}
CodePlaces(ls) == Where(Upto(Len(ls)), InCode(ls))

CodeTail(p) == IF p # <<>> /\ HasCode(Head(p)) THEN Tail(p) ELSE <<>>
CodeTails(X) == [p \in Seq(X) |-> CodeTail(p)]
LinesOfCode(X, ls) == FlattenSeq(Each(Cut(ls, "."), CodeTails(X)))

LEMMA HeaderIs ==
  ASSUME NEW ls, NEW k \in Nat, NEW h, IsHeader(ls, k, h)
  PROVE  HeaderIn(ls, k) = h
<1>1. ASSUME NEW g, IsHeader(ls, k, g)  PROVE g = h
  <2>1. g \in 1 .. k /\ h \in 1 .. k
    BY <1>1 DEF IsHeader
  <2>2. CASE g < h
    <3>1. h \in g + 1 .. k /\ h # 1
      BY <2>1, <2>2
    <3> QED BY <1>1, <3>1 DEF IsHeader
  <2>3. CASE h < g
    <3>1. g \in h + 1 .. k /\ g # 1
      BY <2>1, <2>3
    <3> QED BY <1>1, <3>1 DEF IsHeader
  <2> QED BY <2>1, <2>2, <2>3
<1> QED BY <1>1 DEF HeaderIn

LEMMA HeaderThere ==
  ASSUME NEW ls, NEW k \in Nat, k >= 1
  PROVE  \E h : IsHeader(ls, k, h)
<1> DEFINE D == {d \in 0 .. k - 1 : k - d = 1 \/ ls[k - d].first = "."}
<1>1. D \in SUBSET Nat
  OBVIOUS
<1>2. k - 1 \in D
  OBVIOUS
<1> HIDE DEF D
<1>3. D # {}
  BY <1>2
<1>4. \E d \in D : \A c \in D : d <= c
  BY <1>1, <1>3, Least
<1>5. PICK d \in D : \A c \in D : d <= c
  BY <1>4
<1>6. d \in 0 .. k - 1 /\ (k - d = 1 \/ ls[k - d].first = ".")
  BY DEF D
<1>7. ASSUME NEW m \in (k - d) + 1 .. k, ls[m].first = "."  PROVE FALSE
  <2>1. k - m \in 0 .. k - 1 /\ k - (k - m) = m /\ k - m < d
    BY <1>6
  <2>2. k - m \in D
    BY <1>7, <2>1 DEF D
  <2> QED BY <1>5, <1>6, <2>1, <2>2
<1>8. IsHeader(ls, k, k - d)
  BY <1>6, <1>7 DEF IsHeader
<1> QED BY <1>8

LEMMA HeaderSame ==
  ASSUME NEW X, NEW ls \in Seq(X), NEW e \in X, NEW k \in 1 .. Len(ls)
  PROVE  HeaderIn(Append(ls, e), k) = HeaderIn(ls, k)
<1> DEFINE t == Append(ls, e)
<1>1. Len(ls) \in Nat /\ \A m \in 1 .. Len(ls) : t[m] = ls[m]
  BY AppendProperties
<1> HIDE DEF t
<1>2. ASSUME NEW h  PROVE IsHeader(t, k, h) <=> IsHeader(ls, k, h)
  <2>1. CASE h \in 1 .. k
    <3>1. h \in 1 .. Len(ls) /\ \A m \in h + 1 .. k : m \in 1 .. Len(ls)
      BY <1>1, <2>1
    <3>2. t[h] = ls[h] /\ \A m \in h + 1 .. k : t[m] = ls[m]
      BY <1>1, <3>1
    <3> QED BY <3>2 DEF IsHeader
  <2>2. CASE h \notin 1 .. k
    BY <2>2 DEF IsHeader
  <2> QED BY <2>1, <2>2
<1>3. (CHOOSE h : IsHeader(t, k, h)) = (CHOOSE h : IsHeader(ls, k, h))
  BY <1>2
<1> QED BY <1>3 DEF HeaderIn, t

LEMMA CodeTailTyped ==
  ASSUME NEW X
  PROVE  CodeTails(X) \in [Seq(X) -> Seq(X)] /\ \A p \in Seq(X) : CodeTails(X)[p] = CodeTail(p)
<1>1. \A p \in Seq(X) : CodeTail(p) \in Seq(X)
  BY HeadTailProperties, EmptySeq DEF CodeTail
<1> QED BY <1>1 DEF CodeTails

LEMMA CodeTailAppend ==
  ASSUME NEW X, NEW p \in Seq(X), p # <<>>, NEW e \in X
  PROVE  CodeTail(Append(p, e)) = IF HasCode(Head(p)) THEN Append(CodeTail(p), e) ELSE CodeTail(p)
<1> DEFINE q == Append(p, e)
<1>1. /\ q \in Seq(X) /\ Len(q) = Len(p) + 1 /\ Len(p) \in Nat /\ Len(p) # 0 /\ q[Len(p) + 1] = e
      /\ \A k \in 1 .. Len(p) : q[k] = p[k]
  BY AppendProperties
<1> HIDE DEF q
<1>2. q # <<>> /\ Head(q) = Head(p)
  BY <1>1
<1>3. /\ Tail(q) \in Seq(X) /\ Len(Tail(q)) = Len(p) /\ \A k \in 1 .. Len(p) : Tail(q)[k] = q[k + 1]
  BY <1>1, <1>2
<1>4. /\ Tail(p) \in Seq(X) /\ Len(Tail(p)) = Len(p) - 1 /\ \A k \in 1 .. Len(p) - 1 : Tail(p)[k] = p[k + 1]
  BY <1>1
<1> DEFINE a == Tail(p)
           b == Tail(q)
           c == Append(a, e)
<1>5. Tail(q) = Append(Tail(p), e)
  <2> HIDE DEF a, b
  <2>1. /\ a \in Seq(X) /\ Len(a) = Len(p) - 1 /\ \A k \in 1 .. Len(p) - 1 : a[k] = p[k + 1]
        /\ b \in Seq(X) /\ Len(b) = Len(p) /\ \A k \in 1 .. Len(p) : b[k] = q[k + 1]
    BY <1>3, <1>4 DEF a, b
  <2>2. c \in Seq(X) /\ Len(c) = Len(a) + 1 /\ c[Len(a) + 1] = e /\ \A k \in 1 .. Len(a) : c[k] = a[k]
    BY <2>1, AppendProperties
  <2> HIDE DEF c
  <2>3. Len(c) = Len(b)
    BY <1>1, <2>1, <2>2
  <2>4. ASSUME NEW k \in 1 .. Len(c)  PROVE c[k] = b[k]
    <3>1. CASE k \in 1 .. Len(p) - 1
      <4>1. k + 1 \in 1 .. Len(p) /\ k \in 1 .. Len(a) /\ k \in 1 .. Len(p)
        BY <1>1, <2>1, <3>1
      <4> QED BY <1>1, <2>1, <2>2, <3>1, <4>1
    <3>2. CASE ~(k \in 1 .. Len(p) - 1)
      <4>1. k = Len(a) + 1 /\ k = Len(p) /\ k \in 1 .. Len(p)
        BY <1>1, <2>1, <2>2, <3>2
      <4> QED BY <1>1, <2>1, <2>2, <4>1
    <3> QED BY <3>1, <3>2
  <2>5. c = b
    BY <2>1, <2>2, <2>3, <2>4, SeqEqual
  <2> QED BY <2>5 DEF a, b, c
<1> QED BY <1>2, <1>5 DEF CodeTail, q

\* One line more
LEMMA InCodeAppend ==
  ASSUME NEW X, NEW ls \in Seq(X), NEW e \in X
  PROVE  /\ CodePlaces(ls) \in Seq(1 .. Len(ls))
         /\ CodePlaces(Append(ls, e)) =
              IF Len(ls) + 1 \in InCode(Append(ls, e)) THEN Append(CodePlaces(ls), Len(ls) + 1) ELSE CodePlaces(ls)
<1> DEFINE t == Append(ls, e)
           N == Len(ls)
           K == InCode(t)
           u == Upto(N)
<1>1. N \in Nat /\ Len(t) = N + 1 /\ \A m \in 1 .. N : t[m] = ls[m]
  BY AppendProperties
<1>2. \A k \in 1 .. N : HeaderIn(t, k) = HeaderIn(ls, k)
  BY HeaderSame
<1>2a. DOMAIN ls = 1 .. N
  BY LenProperties
<1>3. u \in Seq(1 .. N) /\ Upto(N + 1) = Append(u, N + 1) /\ Len(u) = N /\ \A k \in 1 .. N : u[k] = k
  <2>1. \A k \in 1 .. N : u[k] = k
    BY DEF Upto
  <2> HIDE DEF u, N
  <2>2. u \in Seq(1 .. N) /\ Upto(N + 1) = Append(u, N + 1) /\ Len(u) = N
    BY <1>1, UptoAppend DEF u
  <2> QED BY <2>1, <2>2
<1>4. CodePlaces(ls) = Where(u, InCode(ls)) /\ CodePlaces(t) = Where(Upto(N + 1), K)
  <2> HIDE DEF t, K
  <2>1. CodePlaces(t) = Where(Upto(Len(t)), K)
    BY DEF CodePlaces, K
  <2> QED BY <1>1, <2>1 DEF CodePlaces
<1>5. ASSUME NEW k \in 1 .. N  PROVE k \in InCode(ls) <=> k \in K
  <2>1. HeaderIn(t, k) = HeaderIn(ls, k)
    BY <1>2
  <2> DEFINE h == HeaderIn(ls, k)
  <2>2. k \in 1 .. Len(t)
    BY <1>1
  <2>3. CASE h \in 1 .. N
    <3>1. t[h] = ls[h]
      BY <1>1, <2>3
    <3> HIDE DEF t, h
    <3>2. k \in InCode(ls) <=> (h # k /\ HasCode(ls[h]))
      BY DEF InCode, h
    <3>3. k \in K <=> (h # k /\ HasCode(t[h]))
      BY <2>1, <2>2 DEF InCode, h, K
    <3> QED BY <3>1, <3>2, <3>3
  <2>4. CASE h \notin 1 .. N
    <3>1. IsHeader(ls, k, h) => FALSE
      <4>1. \A i : i \in 1 .. k => i \in 1 .. N
        BY <1>1
      <4> QED BY <2>4, <4>1 DEF IsHeader
    <3>2. \E g : IsHeader(ls, k, g)
      <4>1. k \in Nat /\ k >= 1
        BY <1>1
      <4> QED BY <4>1, HeaderThere
    <3>3. IsHeader(ls, k, h)
      BY <3>2 DEF HeaderIn
    <3> QED BY <3>1, <3>3
  <2> QED BY <2>3, <2>4
<1> HIDE DEF t, K, u
<1>6. Where(u, K) = CodePlaces(ls)
  <2>1. \A k \in 1 .. Len(u) : u[k] \in K <=> u[k] \in InCode(ls)
    BY <1>3, <1>5
  <2>2. Where(u, K) = Where(u, InCode(ls))
    BY <2>1, WhereSame
  <2> QED BY <1>4, <2>2
<1>7. Where(Append(u, N + 1), K) = IF N + 1 \in K THEN Append(Where(u, K), N + 1) ELSE Where(u, K)
  <2>1. u \in Seq(Nat) /\ N + 1 \in Nat
    <3>1. 1 .. N \subseteq Nat
      OBVIOUS
    <3> QED BY <1>1, <1>3, <3>1, SeqMonotonic
  <2> DEFINE n1 == N + 1
  <2> HIDE DEF n1
  <2>2. Where(Append(u, n1), K) = IF n1 \in K THEN Append(Where(u, K), n1) ELSE Where(u, K)
    <3>1. n1 \in Nat
      BY <2>1 DEF n1
    <3>2. u \in Seq(Nat)
      BY <2>1
    <3> QED BY <3>1, <3>2, WhereAppend
  <2> QED BY <2>2 DEF n1
<1>8. CodePlaces(ls) \in Seq(1 .. N)
  <2>1. Where(u, K) \in Seq((1 .. N) \cap K)
    <3> DEFINE D == 1 .. N
    <3> HIDE DEF D
    <3> QED BY <1>3, WhereType DEF D
  <2>2. (1 .. N) \cap K \subseteq 1 .. N
    OBVIOUS
  <2>3. Where(u, K) \in Seq(1 .. N)
    <3> DEFINE D == 1 .. N
    <3> HIDE DEF D
    <3>1. Where(u, K) \in Seq(D \cap K) /\ D \cap K \subseteq D
      BY <2>1 DEF D
    <3> QED BY <3>1, SeqMonotonic DEF D
  <2> QED BY <1>6, <2>3
<1> QED BY <1>3, <1>4, <1>6, <1>7, <1>8 DEF t, N, K

LEMMA AppendOut ==
  ASSUME NEW X, NEW f \in Seq(X), NEW a \in Seq(X), NEW e \in X
  PROVE  f \o Append(a, e) = Append(f \o a, e)
  BY AppendIsConcat, ConcatAssociative

LEMMA HeadAppend ==
  ASSUME NEW X, NEW p \in Seq(X), p # <<>>, NEW e \in X
  PROVE  Head(Append(p, e)) = Head(p)
<1> DEFINE q == Append(p, e)
<1>1. q \in Seq(X) /\ Len(q) = Len(p) + 1 /\ Len(p) \in Nat /\ Len(p) # 0 /\ \A k \in 1 .. Len(p) : q[k] = p[k]
  BY AppendProperties
<1> HIDE DEF q
<1> QED BY <1>1 DEF q

\* The header of the last line heads the last piece.
LastHeads(ls) ==
  ls # <<>> => /\ IsHeader(ls, Len(ls), HeaderIn(ls, Len(ls)))
               /\ Head(Cut(ls, ".")[Len(Cut(ls, "."))]) = ls[HeaderIn(ls, Len(ls))]
PiecesHoldCode(X, ls) == LinesOfCode(X, ls) = Each(CodePlaces(ls), ls)

LEMMA NewPiece ==
  ASSUME NEW X, NEW ls \in Seq(X), NEW e \in X, IsNew(ls, e, "."), PiecesHoldCode(X, ls)
  PROVE  LastHeads(Append(ls, e)) /\ LinesOfCode(X, Append(ls, e)) = Each(CodePlaces(ls), ls)
         /\ ~(Len(ls) + 1 \in InCode(Append(ls, e)))
<1> DEFINE t == Append(ls, e)
           N == Len(ls)
           c == Cut(ls, ".")
           d == Cut(t, ".")
           h == CodeTails(X)
           one == <<e>>
<1>1. /\ t \in Seq(X) /\ N \in Nat /\ Len(t) = N + 1 /\ t[N + 1] = e
  BY AppendProperties
<1>2. c \in Seq(Seq(X)) /\ d = Append(c, one)
  BY CutAppend
<1>3. one \in Seq(X) /\ Head(one) = e /\ Tail(one) = <<>>
  OBVIOUS
<1>4. h \in [Seq(X) -> Seq(X)] /\ h[one] = <<>>
  <2>1. CodeTail(one) = <<>>
    BY <1>3 DEF CodeTail
  <2> QED BY <1>3, <2>1, CodeTailTyped
<1> HIDE DEF c, h, one, d
<1>5. Each(Append(c, one), h) = Append(Each(c, h), h[one])
  BY <1>2, <1>3, <1>4, EachAppend
<1>6. Each(c, h) \in Seq(Seq(X))
  BY <1>2, <1>4, EachType
<1>7. FlattenSeq(Append(Each(c, h), <<>>)) = FlattenSeq(Each(c, h)) \o <<>>
  BY <1>6, EmptySeq, FlattenAppend
<1>8. FlattenSeq(Each(c, h)) \o <<>> = FlattenSeq(Each(c, h))
  <2> DEFINE f == FlattenSeq(Each(c, h))
  <2>1. f \in Seq(X)
    BY <1>6, FlattenType
  <2> HIDE DEF f
  <2> QED BY <2>1, ConcatEmptySeq DEF f
<1>9. LinesOfCode(X, t) = Each(CodePlaces(ls), ls)
  BY <1>2, <1>4, <1>5, <1>7, <1>8 DEF LinesOfCode, PiecesHoldCode, c, d, h
<1>10. Len(d) = Len(c) + 1 /\ d[Len(d)] = one
  BY <1>2, <1>3, AppendProperties
<1>11. IsHeader(t, N + 1, N + 1)
  <2>1. N + 1 = 1 \/ t[N + 1].first = "."
    BY <1>1 DEF IsNew
  <2> HIDE DEF t
  <2>2. N + 1 \in 1 .. N + 1 /\ \A m \in (N + 1) + 1 .. N + 1 : FALSE
    BY <1>1
  <2> QED BY <2>1, <2>2 DEF IsHeader
<1>12. HeaderIn(t, N + 1) = N + 1
  BY <1>1, <1>11, HeaderIs
<1> HIDE DEF t
<1>13. LastHeads(t)
  BY <1>1, <1>3, <1>10, <1>11, <1>12 DEF LastHeads, d
<1>14. ~(N + 1 \in InCode(t))
  BY <1>12 DEF InCode
<1> QED BY <1>9, <1>13, <1>14 DEF t

LEMMA SamePiece ==
  ASSUME NEW X, NEW ls \in Seq(X), NEW e \in X, ~IsNew(ls, e, "."), PiecesHoldCode(X, ls), LastHeads(ls)
  PROVE  /\ LastHeads(Append(ls, e))
         /\ LinesOfCode(X, Append(ls, e)) =
              IF Len(ls) + 1 \in InCode(Append(ls, e)) THEN Append(Each(CodePlaces(ls), ls), e)
                                                      ELSE Each(CodePlaces(ls), ls)
<1> DEFINE t == Append(ls, e)
           N == Len(ls)
           c == Cut(ls, ".")
           d == Cut(t, ".")
           h == CodeTails(X)
           g == HeaderIn(ls, N)
<1>1. /\ t \in Seq(X) /\ N \in Nat /\ Len(t) = N + 1 /\ t[N + 1] = e /\ \A m \in 1 .. N : t[m] = ls[m]
      /\ ls # <<>> /\ e.first # "." /\ N # 0
  <2>1. ls # <<>> /\ e.first # "."
    BY DEF IsNew
  <2> QED BY <2>1, AppendProperties, EmptySeq
<1>2. c \in Seq(Seq(X)) /\ Grows(X, c, d, e)
  BY CutAppend
<1>3. PICK b \in Seq(Seq(X)), p \in Seq(X) : c = Append(b, p) /\ d = Append(b, Append(p, e))
  BY <1>2 DEF Grows
<1> DEFINE q == Append(p, e)
<1>4. q \in Seq(X)
  BY AppendProperties
<1>5. p # <<>>
  <2> DEFINE G == PieceOf(X, ".")
  <2>1. c \in Seq(G)
    BY CutPieces
  <2>2. Len(c) = Len(b) + 1 /\ c[Len(b) + 1] = p /\ Len(b) \in Nat
    BY <1>3, AppendProperties
  <2> HIDE DEF c, G
  <2>3. Len(b) + 1 \in 1 .. Len(c)
    BY <2>2
  <2>4. p \in G
    BY <2>1, <2>2, <2>3, ElementOfSeq
  <2> QED BY <2>4 DEF G, PieceOf
<1> HIDE DEF t, c, d, h
<1>6. Len(c) = Len(b) + 1 /\ c[Len(c)] = p /\ Len(d) = Len(b) + 1
  BY <1>3, <1>4, AppendProperties
<1>7. d[Len(d)] = q
  <2> HIDE DEF q
  <2>1. d = Append(b, q)
    BY <1>3 DEF q
  <2> QED BY <1>4, <2>1, AppendProperties
<1>8. IsHeader(ls, N, g) /\ Head(p) = ls[g]
  BY <1>1, <1>6 DEF LastHeads, c
<1> HIDE DEF g
<1>9. g \in 1 .. N /\ t[g] = ls[g]
  BY <1>1, <1>8 DEF IsHeader
<1>10. IsHeader(t, N + 1, g)
  <2>1. g = 1 \/ t[g].first = "."
    BY <1>8, <1>9 DEF IsHeader
  <2>2. ASSUME NEW m \in g + 1 .. N + 1  PROVE t[m].first # "."
    <3>1. CASE m = N + 1
      BY <1>1, <3>1
    <3>2. CASE m # N + 1
      <4>1. m \in g + 1 .. N /\ m \in 1 .. N
        <5>1. g \in 1 .. N /\ N \in Nat
          BY <1>1, <1>9
        <5> HIDE DEF N
        <5> QED BY <3>2, <5>1
      <4> QED BY <1>1, <1>8, <4>1 DEF IsHeader
    <3> QED BY <3>1, <3>2
  <2>3. g \in 1 .. N + 1
    BY <1>1, <1>9
  <2> QED BY <2>1, <2>2, <2>3 DEF IsHeader
<1>11. HeaderIn(t, N + 1) = g
  BY <1>1, <1>10, HeaderIs
<1>12. Head(q) = Head(p)
  BY <1>5, HeadAppend
<1>13. LastHeads(t)
  BY <1>1, <1>7, <1>8, <1>9, <1>10, <1>11, <1>12 DEF LastHeads, d
<1>14. N + 1 \in InCode(t) <=> HasCode(Head(p))
  <2>1. g # N + 1 /\ N + 1 \in 1 .. Len(t)
    BY <1>1, <1>9
  <2> QED BY <1>8, <1>9, <1>11, <2>1 DEF InCode
<1>15. h \in [Seq(X) -> Seq(X)] /\ h[p] = CodeTail(p) /\ h[q] = CodeTail(q)
  BY <1>4, CodeTailTyped DEF h
<1>16. CodeTail(q) = IF HasCode(Head(p)) THEN Append(CodeTail(p), e) ELSE CodeTail(p)
  BY <1>5, CodeTailAppend
<1> HIDE DEF q
<1> DEFINE f == FlattenSeq(Each(b, h))
           a == CodeTail(p)
<1>17. Each(b, h) \in Seq(Seq(X)) /\ a \in Seq(X) /\ CodeTail(q) \in Seq(X)
  BY <1>4, <1>15, EachType
<1>18. LinesOfCode(X, ls) = f \o a
  <2>1. Each(Append(b, p), h) = Append(Each(b, h), h[p])
    BY <1>15, EachAppend
  <2>2. FlattenSeq(Append(Each(b, h), CodeTail(p))) = f \o a
    BY <1>17, FlattenAppend
  <2> QED BY <1>3, <1>15, <2>1, <2>2 DEF LinesOfCode, c, h
<1>19. LinesOfCode(X, t) = f \o CodeTail(q)
  <2>1. Each(Append(b, q), h) = Append(Each(b, h), h[q])
    BY <1>4, <1>15, EachAppend
  <2>2. FlattenSeq(Append(Each(b, h), CodeTail(q))) = f \o CodeTail(q)
    BY <1>17, FlattenAppend
  <2>3. d = Append(b, q)
    BY <1>3 DEF q
  <2> QED BY <1>15, <2>1, <2>2, <2>3 DEF LinesOfCode, d, h
<1>20. f \in Seq(X)
  BY <1>17, FlattenType
<1> HIDE DEF f, a
<1>21. f \o Append(a, e) = Append(f \o a, e)
  BY <1>17, <1>20, AppendOut
<1>22. LinesOfCode(X, ls) = Each(CodePlaces(ls), ls)
  BY DEF PiecesHoldCode
<1>23. CASE HasCode(Head(p))
  BY <1>13, <1>14, <1>16, <1>18, <1>19, <1>21, <1>22, <1>23 DEF t, N, a
<1>24. CASE ~HasCode(Head(p))
  BY <1>13, <1>14, <1>16, <1>18, <1>19, <1>22, <1>24 DEF t, N, a
<1> QED BY <1>23, <1>24

\* The instructions of a file are the lines below the headers of events.
LEMMA CodeOfFile ==
  ASSUME NEW X, NEW ls \in Seq(X)
  PROVE  PiecesHoldCode(X, ls) /\ CodePlaces(ls) \in Seq(1 .. Len(ls))
<1> DEFINE P == {u \in Seq(X) : PiecesHoldCode(X, u) /\ LastHeads(u) /\ CodePlaces(u) \in Seq(1 .. Len(u))}
<1>1. <<>> \in P
  <2>1. CodePlaces(<<>>) = <<>>
    <3>1. Upto(Len(<<>>)) = <<>>
      BY DEF Upto
    <3> QED BY <3>1, WhereEmpty DEF CodePlaces
  <2>2. LinesOfCode(X, <<>>) = <<>>
    BY CutEmpty, EachEmpty, FlattenEmpty DEF LinesOfCode
  <2>3. PiecesHoldCode(X, <<>>)
    BY <2>1, <2>2, EachEmpty DEF PiecesHoldCode
  <2>4. LastHeads(<<>>)
    BY DEF LastHeads
  <2> QED BY <2>1, <2>3, <2>4, EmptySeq
<1>2. ASSUME NEW u \in P, NEW e \in X  PROVE Append(u, e) \in P
  <2> DEFINE t == Append(u, e)
             N == Len(u)
             cp == CodePlaces(u)
             dp == CodePlaces(t)
             K == InCode(t)
  <2>1. u \in Seq(X) /\ PiecesHoldCode(X, u) /\ LastHeads(u) /\ cp \in Seq(1 .. N)
    BY <1>2
  <2>2. t \in Seq(X) /\ Len(t) = N + 1 /\ N \in Nat /\ t[N + 1] = e /\ \A m \in 1 .. N : t[m] = u[m]
    BY <2>1, AppendProperties
  <2>3. dp = IF N + 1 \in K THEN Append(cp, N + 1) ELSE cp
    BY <2>1, InCodeAppend
  <2>4. LastHeads(t) /\ LinesOfCode(X, t) = IF N + 1 \in K THEN Append(Each(cp, u), e) ELSE Each(cp, u)
    <3>1. CASE IsNew(u, e, ".")
      <4>1. LastHeads(t) /\ LinesOfCode(X, t) = Each(cp, u) /\ ~(N + 1 \in K)
        BY <2>1, <3>1, NewPiece
      <4> HIDE DEF t, N, cp, K
      <4> QED BY <4>1
    <3>2. CASE ~IsNew(u, e, ".")
      BY <2>1, <3>2, SamePiece
    <3> QED BY <3>1, <3>2
  <2> HIDE DEF t, cp, dp, K
  <2>5. u \in [1 .. N -> X] /\ t \in [1 .. N + 1 -> X]
    BY <2>1, <2>2
  <2> HIDE DEF N
  <2>6. Each(cp, t) = Each(cp, u)
    <3>1. \A k \in 1 .. Len(cp) : cp[k] \in 1 .. N
      <4> DEFINE D == 1 .. N
      <4> HIDE DEF D
      <4> QED BY <2>1, ElementOfSeq DEF D
    <3>2. \A k \in 1 .. Len(cp) : t[cp[k]] = u[cp[k]]
      BY <2>2, <3>1
    <3> QED BY <3>2 DEF Each
  <2>7. cp \in Seq(1 .. N + 1)
    <3> DEFINE D == 1 .. N
               C == 1 .. N + 1
    <3>1. D \subseteq C
      BY <2>2
    <3> HIDE DEF D, C
    <3>2. cp \in Seq(C)
      BY <2>1, <3>1, SeqMonotonic DEF D
    <3> QED BY <3>2 DEF C
  <2>8. N + 1 \in 1 .. N + 1
    BY <2>2
  <2>9. Each(Append(cp, N + 1), t) = Append(Each(cp, t), e)
    <3> DEFINE C == 1 .. N + 1
               n1 == N + 1
    <3>1. t \in [C -> X] /\ cp \in Seq(C) /\ n1 \in C /\ t[n1] = e
      BY <2>2, <2>5, <2>7, <2>8
    <3> HIDE DEF C, n1
    <3>2. Each(Append(cp, n1), t) = Append(Each(cp, t), t[n1])
      BY <3>1, EachAppend
    <3> QED BY <3>1, <3>2 DEF n1
  <2>10. Append(cp, N + 1) \in Seq(1 .. N + 1)
    <3> DEFINE C == 1 .. N + 1
               n1 == N + 1
    <3>1. cp \in Seq(C) /\ n1 \in C
      BY <2>7, <2>8
    <3> HIDE DEF C, n1
    <3>2. Append(cp, n1) \in Seq(C)
      BY <3>1, AppendProperties
    <3> QED BY <3>2 DEF C, n1
  <2>11. PiecesHoldCode(X, t)
    <3>1. CASE N + 1 \in K
      BY <2>3, <2>4, <2>6, <2>9, <3>1 DEF PiecesHoldCode, dp
    <3>2. CASE ~(N + 1 \in K)
      BY <2>3, <2>4, <2>6, <3>2 DEF PiecesHoldCode, dp
    <3> QED BY <3>1, <3>2
  <2>12. dp \in Seq(1 .. Len(t))
    BY <2>2, <2>3, <2>7, <2>10
  <2> QED BY <2>2, <2>4, <2>11, <2>12 DEF dp, t
<1>3. P = Seq(X)
  <2>1. P \in SUBSET Seq(X)
    OBVIOUS
  <2> HIDE DEF P
  <2> QED BY <1>1, <1>2, <2>1, SeqInduction
<1> QED BY <1>3

-----------------------------------------------------------------------------
(* CodeComplete: from the lines to the pieces of the image.                *)

Bodies == [s \in Section |-> s.body]

LEMMA BodiesTyped == Bodies \in [Section -> Seq(KeptLine)]
<1>1. ASSUME NEW s \in Section  PROVE s.body \in Seq(KeptLine)
  <2>1. s.body \in Seq(BodyLine)
    BY DEF Section
  <2>2. BodyLine \subseteq KeptLine
    BY DEF BodyLine
  <2> QED BY <2>1, <2>2, SeqMonotonic
<1> QED BY <1>1 DEF Bodies

LEMMA FrontAndLast ==
  ASSUME NEW Y, NEW s \in Seq(Y), s # <<>>
  PROVE  Front(s) \in Seq(Y) /\ Last(s) \in Y /\ s = Append(Front(s), Last(s))
<1> DEFINE b == Front(s)
           e == Last(s)
           n == Len(s)
           t == Append(b, e)
<1>1. n \in Nat /\ n # 0 /\ \A i \in 1 .. n : s[i] \in Y
  BY EmptySeq
<1>2. e = s[n] /\ b = SubSeq(s, 1, n - 1)
  BY DEF Front, Last
<1>3. e \in Y
  BY <1>1, <1>2
<1>4. b \in Seq(Y) /\ Len(b) = n - 1 /\ \A i \in 1 .. n - 1 : b[i] = s[i]
  <2>1. \A i \in 1 .. n - 1 : s[i] \in Y
    BY <1>1
  <2> HIDE DEF n, b
  <2>2. 1 \in Int /\ n - 1 \in Int
    BY <1>1
  <2> QED BY <1>1, <1>2, <2>1, <2>2, SubSeqProperties
<1> HIDE DEF b, e
<1>5. t \in Seq(Y) /\ Len(t) = Len(b) + 1 /\ t[Len(b) + 1] = e /\ \A i \in 1 .. Len(b) : t[i] = b[i]
  BY <1>3, <1>4, AppendProperties
<1> HIDE DEF t
<1>6. Len(t) = n
  BY <1>1, <1>4, <1>5
<1>7. ASSUME NEW i \in 1 .. n  PROVE t[i] = s[i]
  <2>1. CASE i = n
    BY <1>1, <1>2, <1>4, <1>5, <2>1
  <2>2. CASE i # n
    <3>1. i \in 1 .. n - 1
      BY <1>1, <2>2
    <3> QED BY <1>4, <1>5, <3>1
  <2> QED BY <2>1, <2>2
<1>8. s = t
  BY <1>5, <1>6, <1>7, SeqEqual
<1> QED BY <1>3, <1>4, <1>8 DEF b, e, t

\* The piece that is not looked at has no line but its header.
LEMMA SeenHoldsAll ==
  ASSUME NEW X, NEW pieces \in Seq(Seq(X))
  PROVE  FlattenSeq(Each(Seen(pieces), CodeTails(X))) = FlattenSeq(Each(pieces, CodeTails(X)))
<1> DEFINE ct == CodeTails(X)
           p == Last(pieces)
           b == Front(pieces)
<1>1. CASE pieces # <<>> /\ Len(p) = 1
  <2>1. Seen(pieces) = b
    BY <1>1 DEF Seen
  <2>2. b \in Seq(Seq(X)) /\ p \in Seq(X) /\ pieces = Append(b, p)
    BY <1>1, FrontAndLast
  <2>3. ct \in [Seq(X) -> Seq(X)] /\ ct[p] = CodeTail(p)
    BY <2>2, CodeTailTyped
  <2> HIDE DEF b, p
  <2>4. CodeTail(p) = <<>>
    <3>1. Tail(p) = <<>>
      <4>1. Len(p) = 1 /\ p \in Seq(X)
        BY <1>1, <2>2
      <4>2. Tail(p) \in Seq(X) /\ Len(Tail(p)) = 0
        <5>1. p # <<>>
          <6>1. Len(p) # Len(<<>>)
            BY <4>1, EmptySeq
          <6> QED BY <6>1
        <5>2. Tail(p) \in Seq(X) /\ Len(Tail(p)) = Len(p) - 1
          BY <4>1, <5>1, HeadTailProperties
        <5> QED BY <4>1, <5>2
      <4> QED BY <4>2, EmptySeq
    <3> QED BY <3>1 DEF CodeTail
  <2> HIDE DEF ct
  <2> DEFINE e == Each(b, ct)
  <2>5. Each(Append(b, p), ct) = Append(e, ct[p])
    BY <2>2, <2>3, EachAppend
  <2>6. e \in Seq(Seq(X))
    BY <2>2, <2>3, EachType
  <2> HIDE DEF e
  <2>7. FlattenSeq(Append(e, <<>>)) = FlattenSeq(e) \o <<>>
    BY <2>6, EmptySeq, FlattenAppend
  <2>8. FlattenSeq(e) \in Seq(X)
    BY <2>6, FlattenType
  <2> DEFINE f == FlattenSeq(e)
  <2>9. f \o <<>> = f
    <3>1. f \in Seq(X)
      BY <2>8
    <3> HIDE DEF f
    <3> QED BY <3>1, ConcatEmptySeq
  <2> QED BY <2>1, <2>2, <2>3, <2>4, <2>5, <2>7, <2>9 DEF e, ct
<1>2. CASE ~(pieces # <<>> /\ Len(p) = 1)
  BY <1>2 DEF Seen
<1> QED BY <1>1, <1>2

LEMMA SectionsHoldCode ==
  ASSUME NEW ls \in Seq(KeptLine)
  PROVE  FlattenSeq(Each(CodeOf(SectionsOf(ls)), Bodies)) = LinesOfCode(KeptLine, ls)
<1> DEFINE secs == SectionsOf(ls)
           S == {s \in ToSet(secs) : s.name \notin {"meta", "data"}}
           g == [s \in Section |-> IF s \in S THEN Bodies[s] ELSE <<>>]
           pieces == Cut(ls, ".")
           G == PieceOf(KeptLine, ".")
           seen == Seen(pieces)
           K == {p \in ToSet(seen) : SectionOf(Head(p)) # "null"}
           known == Where(seen, K)
           Y == Seq(KeptLine)
           ct == CodeTails(KeptLine)
           kt == [p \in Y |-> IF p \in K THEN ct[p] ELSE <<>>]
<1>1. secs \in Seq(Section) /\ Bodies \in [Section -> Y]
  BY SectionsTyped, BodiesTyped
<1>2. secs = [n \in 1 .. Len(known) |-> SectionOfPiece(known[n])]
  BY DEF SectionsOf, KnownPieces
<1>3. CodeOf(secs) = Where(secs, S)
  BY DEF CodeOf
<1>4. pieces \in Seq(G) /\ known \in Seq(G) /\ seen \in Seq(G)
  <2>1. pieces \in Seq(G)
    BY CutPieces
  <2>2. known \in Seq(G)
    BY KnownTyped DEF KnownPieces
  <2> HIDE DEF pieces, known, G
  <2> QED BY <2>1, <2>2, SeenTyped
<1>5. G \subseteq Y /\ \A p \in G : p # <<>>
  BY DEF PieceOf
<1>6. ct \in [Y -> Y] /\ \A p \in Y : ct[p] = CodeTail(p)
  BY CodeTailTyped
<1>7. \A p : p \in K <=> p \in ToSet(seen) /\ SectionOf(Head(p)) # "null"
  OBVIOUS
<1>8. \A s : s \in S <=> s \in ToSet(secs) /\ s.name \notin {"meta", "data"}
  OBVIOUS
<1>9. /\ \A s \in Section : g[s] = IF s \in S THEN Bodies[s] ELSE <<>>
      /\ \A s \in Section : Bodies[s] = s.body
  BY DEF Bodies
<1>10. kt \in [Y -> Y] /\ \A p \in Y : kt[p] = IF p \in K THEN ct[p] ELSE <<>>
  BY <1>6, EmptySeq
<1>11. FlattenSeq(Each(Where(secs, S), Bodies)) = FlattenSeq(Each(secs, g))
  <2>1. g \in [Section -> Y]
    BY <1>1, EmptySeq
  <2>2. Masks(g, Bodies, S, Section)
    BY <1>9 DEF Masks
  <2> HIDE DEF secs, S, g
  <2>3. Agree(secs, S, Bodies, g)
    BY <1>1, <2>1, <2>2, FlattenWhere
  <2> QED BY <2>3 DEF Agree
<1>12. pieces \in Seq(Y) /\ known \in Seq(Y) /\ seen \in Seq(Y)
  <2> HIDE DEF pieces, known, seen, G, Y
  <2> QED BY <1>4, <1>5, SeqMonotonic
<1>13. FlattenSeq(Each(known, ct)) = FlattenSeq(Each(seen, kt))
  <2> HIDE DEF seen, K, ct, kt
  <2>1. ct \in [Y -> Seq(KeptLine)] /\ kt \in [Y -> Seq(KeptLine)]
    BY <1>6, <1>10
  <2>2. Masks(kt, ct, K, Y)
    BY <1>10 DEF Masks
  <2> HIDE DEF Y
  <2>3. Agree(seen, K, ct, kt)
    BY <1>12, <2>1, <2>2, FlattenWhere
  <2> QED BY <2>3 DEF Agree
<1>14. \A n \in 1 .. Len(known) : known[n] \in K
  <2> HIDE DEF K, seen, G
  <2>1. known \in Seq(G \cap K)
    BY <1>4, WhereType
  <2> HIDE DEF known
  <2>2. \A n \in 1 .. Len(known) : known[n] \in G \cap K
    BY <2>1, ElementOfSeq
  <2> QED BY <2>2
<1> HIDE DEF secs, S, g, pieces, seen, K, known, G, Y, ct, kt
<1>15. ASSUME NEW n \in 1 .. Len(known)  PROVE g[secs[n]] = ct[known[n]]
  <2> DEFINE p == known[n]
             s == secs[n]
  <2>1. p \in G /\ p \in Y /\ p # <<>> /\ SectionOf(Head(p)) # "null"
    <3>1. p \in G
      BY <1>4, ElementOfSeq
    <3> QED BY <1>5, <1>7, <1>14, <3>1
  <2>2. s = SectionOfPiece(p) /\ Len(secs) = Len(known)
    <3>1. Len(known) \in Nat
      BY <1>4
    <3> QED BY <1>2, <3>1
  <2>3. s \in Section /\ s \in ToSet(secs)
    <3>1. n \in 1 .. Len(secs)
      BY <2>2
    <3>2. s \in Section
      BY <1>1, <3>1, ElementOfSeq
    <3>3. s \in ToSet(secs)
      BY <1>1, <3>1 DEF ToSet
    <3> QED BY <3>2, <3>3
  <2>4. s.name = SectionOf(Head(p)) /\ s.body = Tail(p)
    BY <2>2 DEF SectionOfPiece
  <2> HIDE DEF p, s
  <2>5. g[s] = IF s.name \notin {"meta", "data"} THEN s.body ELSE <<>>
    BY <1>8, <1>9, <2>3
  <2>6. ct[p] = IF SectionOf(Head(p)) \notin {"meta", "data"} THEN Tail(p) ELSE <<>>
    BY <1>6, <2>1 DEF CodeTail, HasCode
  <2> QED BY <2>4, <2>5, <2>6 DEF p, s
<1>16. Each(secs, g) = Each(known, ct)
  <2>1. Len(secs) = Len(known)
    <3>1. Len(known) \in Nat
      BY <1>4
    <3> QED BY <1>2, <3>1
  <2> QED BY <1>15, <2>1 DEF Each
<1>17. ASSUME NEW n \in 1 .. Len(seen)  PROVE kt[seen[n]] = ct[seen[n]]
  <2> DEFINE p == seen[n]
  <2>1. p \in Y /\ p \in ToSet(seen)
    <3>1. p \in G
      BY <1>4, ElementOfSeq
    <3>2. p \in ToSet(seen)
      BY <1>4 DEF ToSet
    <3> QED BY <1>5, <3>1, <3>2
  <2> HIDE DEF p
  <2>2. CASE p \in K
    BY <1>10, <2>1, <2>2 DEF p
  <2>3. CASE p \notin K
    <3>1. SectionOf(Head(p)) = "null"
      BY <1>7, <2>1, <2>3
    <3>2. CodeTail(p) = <<>>
      BY <3>1 DEF CodeTail, HasCode
    <3> QED BY <1>6, <1>10, <2>1, <2>3, <3>2 DEF p
  <2> QED BY <2>2, <2>3
<1>18. Each(seen, kt) = Each(seen, ct)
  BY <1>17 DEF Each
<1>19. FlattenSeq(Each(seen, ct)) = FlattenSeq(Each(pieces, ct))
  BY <1>6, <1>12, SeenHoldsAll DEF seen, ct, Y
<1> QED BY <1>3, <1>11, <1>13, <1>16, <1>18, <1>19 DEF LinesOfCode, secs, pieces, ct

-----------------------------------------------------------------------------
(* The pieces with instructions, and their lines                           *)

InstrPieceSet == {p \in PieceSet : p.kind = "instr"}
Others == {p \in PieceSet : p.kind # "instr"}

LEMMA BlockKeeps ==
  ASSUME NEW o \in Object
  PROVE  /\ Where(CodeBlock(o), InstrPieceSet) = InstrPieces(o)
         /\ InstrPieces(o) \in Seq(InstrPieceSet)
<1> DEFINE X == PieceSet
           I == InstrPieceSet
           p == Piece("length", 4, CodeLengthOf(o))
           one == <<p>>
           v == InstrPieces(o)
<1>1. /\ v \in Seq(X) /\ Len(v) = Len(o.instrs)
      /\ \A k \in 1 .. Len(o.instrs) : v[k] = InstrPiece(o.instrs[k])
      /\ CodeLengthOf(o) \in Nat
  BY InstrPiecesAre
<1>2. p \in X /\ p \notin I
  <2>1. CodeLengthOf(o) \in Vals
    BY <1>1 DEF Vals
  <2>2. p \in X
    BY <1>1, <2>1, PieceTyped DEF Kinds
  <2>3. p.kind = "length"
    BY PieceFields
  <2> QED BY <2>2, <2>3 DEF InstrPieceSet
<1>3. \A k \in 1 .. Len(v) : v[k] \in I
  <2>1. \A k \in 1 .. Len(v) : v[k] \in X
    BY <1>1, ElementOfSeq
  <2>2. \A k \in 1 .. Len(v) : v[k].kind = "instr"
    BY <1>1, PieceFields DEF InstrPiece
  <2> QED BY <2>1, <2>2 DEF InstrPieceSet
<1>4. CodeBlock(o) = one \o v
  BY DEF CodeBlock
<1> HIDE DEF X, I, p, v
<1>5. one \in Seq(X) /\ Len(one) = 1 /\ one[1] = p
  BY <1>2
<1> HIDE DEF one
<1>6. Where(one, I) = <<>>
  <2>1. \A k \in 1 .. Len(one) : one[k] \notin I
    BY <1>2, <1>5
  <2> QED BY <1>5, <2>1, WhereNone
<1>7. Where(v, I) = v
  BY <1>1, <1>3, WhereAll
<1>8. Where(one \o v, I) = Where(one, I) \o Where(v, I)
  BY <1>1, <1>5, WhereConcat
<1>9. <<>> \o v = v
  BY <1>1, ConcatEmptySeq
<1>10. v \in Seq(I)
  BY <1>1, <1>3, SeqIn
<1> QED BY <1>4, <1>6, <1>7, <1>8, <1>9, <1>10 DEF v, I

\* Nothing but the blocks holds instructions.
LEMMA FrontHasNone ==
  ASSUME NEW ds \in Seq(Def), NEW dats, Data(dats, Len(ds)), NEW objs \in Seq(Object)
  PROVE  ToCodeIndices(ds, dats, objs) \in Seq(Others)
<1> DEFINE X == PieceSet
           O == Others
           M == Magic
           i1 == StorageFront(dats)
           y == Zeros(StorageEntries(dats))
           z1 == <<y>>
           st == FlattenSeq(StorageBlocks(ds, dats))
           i2 == CodeFront(dats, objs)
           z == Zeros(CodeEntries(objs))
           z2 == <<z>>
           a == ToStorageFront(dats)
           p1 == ToStorageIndices(dats)
           p2 == ToStorage(ds, dats)
           c == ToCodeFront(ds, dats, objs)
           p3 == ToCodeIndices(ds, dats, objs)
<1>1. M \in Seq(X) /\ i1 \in Seq(X) /\ y \in X /\ z \in X /\ i2 \in Seq(X) /\ y.kind = "zeros" /\ z.kind = "zeros"
  BY PartsTyped
<1>2. \A x \in X : x.kind # "instr" => x \in O
  BY DEF Others
<1>3. y \in O /\ z \in O
  BY <1>1, <1>2
<1>4. a = Cat(M, i1) /\ p1 = Cat(a, z1) /\ p2 = Cat(p1, st) /\ c = Cat(p2, i2) /\ p3 = Cat(c, z2)
  BY DEF ToStorageFront, ToStorageIndices, ToStorage, ToCodeFront, ToCodeIndices
<1>5. M \in Seq(O)
  <2>1. Len(M) = 1 /\ M[1] = Piece("magic", 8 + 1, 0)
    BY DEF Magic
  <2> HIDE DEF M, X, O
  <2>2. M[1].kind = "magic"
    BY <2>1, PieceFields
  <2>3. M[1] \in X
    <3>1. 1 \in 1 .. Len(M)
      BY <2>1
    <3> QED BY <1>1, <3>1, ElementOfSeq
  <2>4. \A k \in 1 .. Len(M) : M[k] \in O
    BY <1>2, <2>1, <2>2, <2>3
  <2> QED BY <1>1, <2>4, SeqIn
<1>6. i1 \in Seq(O) /\ i2 \in Seq(O)
  <2>1. StorageEntries(dats) \in Seq(Entries) /\ CodeEntries(objs) \in Seq(Entries) /\ Len(dats) \in Nat
    BY EntriesAre DEF Data
  <2>2. \A k \in 1 .. Len(i1) : i1[k].kind # "instr"
    BY <2>1, IndexKinds DEF StorageFront
  <2>3. \A k \in 1 .. Len(i2) : i2[k].kind # "instr"
    BY <2>1, IndexKinds DEF CodeFront
  <2> HIDE DEF X, O, i1, i2
  <2>4. \A k \in 1 .. Len(i1) : i1[k] \in O
    BY <1>1, <1>2, <2>2, ElementOfSeq
  <2>5. \A k \in 1 .. Len(i2) : i2[k] \in O
    BY <1>1, <1>2, <2>3, ElementOfSeq
  <2> QED BY <1>1, <2>4, <2>5, SeqIn
<1>7. st \in Seq(O)
  <2> DEFINE ss == StorageBlocks(ds, dats)
  <2>1. /\ ss \in Seq(Seq(X)) /\ Len(ss) = Len(ds)
        /\ \A n \in 1 .. Len(ds) : ss[n] = StorageBlock(dats[n], ds[n].name)
    BY StorageBlocksAre
  <2>2. ASSUME NEW n \in 1 .. Len(ss)  PROVE ss[n] \in Seq(O)
    <3>1. ss[n] \in Seq(X)
      BY <2>1, ElementOfSeq
    <3>2. /\ Len(ss[n]) = 3 /\ \A k \in 1 .. 3 : ss[n][k].kind \in {"flags", "length", "data"}
      <4>1. n \in 1 .. Len(ds) /\ dats[n].length \in Nat
        BY <2>1 DEF Data
      <4>2. ds[n].name \in Names
        <5>1. ds[n] \in Def
          BY <4>1, ElementOfSeq
        <5> QED BY <5>1 DEF Def
      <4> QED BY <2>1, <4>1, <4>2, StorageBlockIs
    <3> DEFINE b == ss[n]
    <3> HIDE DEF b, ss, X, O
    <3>3. \A k \in 1 .. Len(b) : b[k] \in O
      <4>1. \A k \in 1 .. Len(b) : b[k] \in X
        BY <3>1, ElementOfSeq DEF b
      <4>2. \A k \in 1 .. Len(b) : b[k].kind # "instr"
        BY <3>2 DEF b
      <4> QED BY <1>2, <4>1, <4>2
    <3> QED BY <3>1, <3>3, SeqIn DEF b
  <2> HIDE DEF ss, X, O
  <2>3. ss \in Seq(Seq(O))
    BY <2>1, <2>2, SeqIn
  <2> QED BY <2>3, FlattenType DEF ss
<1> HIDE DEF X, O, M, i1, y, z1, st, i2, z, z2, a, p1, p2, c, p3
<1>8. z1 \in Seq(O) /\ z2 \in Seq(O)
  BY <1>3, OneTyped DEF z1, z2
<1>9. a \in Seq(O)
  BY <1>4, <1>5, <1>6, CatLen
<1>10. p1 \in Seq(O)
  BY <1>4, <1>8, <1>9, CatLen
<1>11. p2 \in Seq(O)
  BY <1>4, <1>7, <1>10, CatLen
<1>12. c \in Seq(O)
  BY <1>4, <1>6, <1>11, CatLen
<1>13. p3 \in Seq(O)
  BY <1>4, <1>8, <1>12, CatLen
<1> QED BY <1>13 DEF p3, O

\* The instructions of the image are those of the objects, one after the other.
LEMMA ImageKeeps ==
  ASSUME NEW ds \in Seq(Def), NEW dats, Data(dats, Len(ds)), NEW objs \in Seq(Object),
         NEW img, img = ImageOf(ds, dats, objs)
  PROVE  /\ img \in Seq(PieceSet)
         /\ Where(img, InstrPieceSet) = FlattenSeq([n \in 1 .. Len(objs) |-> InstrPieces(objs[n])])
<1> DEFINE X == PieceSet
           I == InstrPieceSet
           front == ToCodeIndices(ds, dats, objs)
           bs == ObjectBlocks(objs)
           blob == FlattenSeq(bs)
           hh == [t \in Seq(X) |-> Where(t, I)]
           is == [n \in 1 .. Len(objs) |-> InstrPieces(objs[n])]
<1>1. img \in Seq(X) /\ img = Cat(front, blob)
  BY ImageIs
<1>2. front \in Seq(Others)
  BY FrontHasNone
<1>3. /\ bs \in Seq(Seq(X)) /\ Len(bs) = Len(objs) /\ Len(objs) \in Nat
      /\ \A n \in 1 .. Len(objs) : bs[n] = CodeBlock(objs[n])
  BY ObjectBlocksAre
<1>4. blob \in Seq(X)
  BY <1>3, FlattenType
<1>5. front \in Seq(X) /\ \A n \in 1 .. Len(front) : front[n] \notin I
  <2>1. Others \subseteq X /\ \A p \in Others : p \notin I
    BY DEF Others, InstrPieceSet
  <2> HIDE DEF front, X, I
  <2>2. \A n \in 1 .. Len(front) : front[n] \in Others
    BY <1>2, ElementOfSeq
  <2> QED BY <1>2, <2>1, <2>2, SeqMonotonic
<1>6. Filters(hh, I, X)
  BY DEF Filters
<1>7. \A t \in Seq(X) : hh[t] = Where(t, I)
  OBVIOUS
<1>8. \A n \in 1 .. Len(objs) : is[n] = InstrPieces(objs[n])
  OBVIOUS
<1>9. Each(bs, hh) = is
  <2>1. ASSUME NEW n \in 1 .. Len(objs)  PROVE hh[bs[n]] = InstrPieces(objs[n])
    <3>1. bs[n] \in Seq(X) /\ bs[n] = CodeBlock(objs[n]) /\ objs[n] \in Object
      BY <1>3, ElementOfSeq
    <3>2. Where(CodeBlock(objs[n]), I) = InstrPieces(objs[n])
      BY <3>1, BlockKeeps
    <3> HIDE DEF hh, I, X, bs
    <3> QED BY <1>7, <3>1, <3>2
  <2> HIDE DEF hh, bs
  <2> QED BY <1>3, <2>1 DEF Each
<1> HIDE DEF X, I, front, bs, blob, hh, is
<1>10. Where(front \o blob, I) = Where(front, I) \o Where(blob, I)
  BY <1>4, <1>5, WhereConcat
<1>11. Where(front, I) = <<>>
  BY <1>5, WhereNone
<1>12. Where(blob, I) = FlattenSeq(is)
  <2>1. FiltersAll(bs, I, hh)
    BY <1>3, <1>6, WhereFlatten
  <2> QED BY <1>9, <2>1 DEF FiltersAll, blob
<1>13. <<>> \o Where(blob, I) = Where(blob, I)
  <2>1. X \cap I \subseteq X
    OBVIOUS
  <2>2. Where(blob, I) \in Seq(X)
    BY <1>4, <2>1, WhereType, SeqMonotonic
  <2> QED BY <2>2, ConcatEmptySeq
<1>14. Where(img, I) = FlattenSeq(is)
  BY <1>1, <1>10, <1>11, <1>12, <1>13 DEF Cat
<1> QED BY <1>1, <1>14 DEF X, I, is

\* Their lines are the bodies of the sections they come from.
LinesIn == [p \in InstrPieceSet |-> p.val.line]

LEMMA LinesInTyped ==
  LinesIn \in [InstrPieceSet -> KeptLine]
<1>1. ASSUME NEW p \in InstrPieceSet  PROVE p.val.line \in KeptLine
  <2>1. p.val \in InstrVals
    BY DEF InstrPieceSet, PieceSet
  <2>2. PICK l \in ParsedLine : p.val = EncodeInstr(l)
    BY <2>1 DEF InstrVals
  <2>3. l \in KeptLine
    BY DEF ParsedLine, BodyLine
  <2> QED BY <2>2, <2>3 DEF EncodeInstr
<1> QED BY <1>1 DEF LinesIn

LEMMA InstrPieceLen ==
  ASSUME NEW p \in InstrPieceSet
  PROVE  p.len = 1 + BytesOf(p.val.line)
<1>1. p.val \in InstrVals /\ p.len = p.val.length + 1
  BY DEF InstrPieceSet, PieceSet
<1>2. PICK l \in ParsedLine : p.val = EncodeInstr(l)
  BY <1>1 DEF InstrVals
<1>3. EncodeInstr(l).length = BytesOf(l) /\ EncodeInstr(l).line = l /\ BytesOf(l) \in 0 .. 127
  BY EncodedLen, BytesAre
<1>4. p.len = BytesOf(p.val.line) + 1 /\ BytesOf(p.val.line) \in Int
  BY <1>1, <1>2, <1>3
<1> QED BY <1>4

LEMMA ObjectLines ==
  ASSUME NEW s \in Section, ObjectOf(s) \in Object
  PROVE  Each(InstrPieces(ObjectOf(s)), LinesIn) = s.body
<1> DEFINE o == ObjectOf(s)
           v == InstrPieces(o)
           f == LinesIn
           m == Len(s.body)
<1>1. s.body \in Seq(BodyLine)
  BY DEF Section
<1>2. m \in Nat
  BY <1>1
<1>3. o.instrs = [k \in 1 .. m |-> EncodeInstr(s.body[k])]
  BY DEF ObjectOf
<1>4. Len(o.instrs) = m /\ \A k \in 1 .. m : o.instrs[k] = EncodeInstr(s.body[k])
  BY <1>2, <1>3
<1>5. v \in Seq(InstrPieceSet)
  BY BlockKeeps
<1>6. Len(v) = m /\ \A k \in 1 .. m : v[k] = InstrPiece(EncodeInstr(s.body[k]))
  <2>1. Len(v) = Len(o.instrs) /\ \A k \in 1 .. Len(o.instrs) : v[k] = InstrPiece(o.instrs[k])
    BY InstrPiecesAre
  <2> HIDE DEF v, o, m
  <2> QED BY <1>4, <2>1
<1>7. \A p \in InstrPieceSet : f[p] = p.val.line
  BY DEF LinesIn
<1> HIDE DEF v, o, f
<1>8. ASSUME NEW k \in 1 .. m  PROVE f[v[k]] = s.body[k]
  <2>1. v[k] \in InstrPieceSet
    BY <1>5, <1>6, ElementOfSeq
  <2>2. v[k].val = EncodeInstr(s.body[k])
    BY <1>6, PieceFields DEF InstrPiece
  <2>3. v[k].val.line = s.body[k]
    BY <2>2 DEF EncodeInstr
  <2> QED BY <1>7, <2>1, <2>3
<1>9. Each(v, f) = [k \in 1 .. m |-> s.body[k]]
  BY <1>6, <1>8 DEF Each
<1>10. s.body = [k \in 1 .. m |-> s.body[k]]
  BY <1>1
<1> QED BY <1>9, <1>10 DEF v, o, f

LEMMA ImageLines ==
  ASSUME NEW secs \in Seq(Section), ObjectsOf(secs) \in Seq(Object)
  PROVE  Each(FlattenSeq([n \in 1 .. Len(ObjectsOf(secs)) |-> InstrPieces(ObjectsOf(secs)[n])]),
              LinesIn)
           = FlattenSeq(Each(secs, Bodies))
<1> DEFINE objs == ObjectsOf(secs)
           N == Len(secs)
           I == InstrPieceSet
           f == LinesIn
           is == [n \in 1 .. Len(objs) |-> InstrPieces(objs[n])]
           hh == [t \in Seq(I) |-> Each(t, f)]
<1>1. N \in Nat
  OBVIOUS
<1>2. Len(objs) = N /\ \A n \in 1 .. N : objs[n] = ObjectOf(secs[n])
  BY <1>1 DEF ObjectsOf
<1>3. \A n \in 1 .. N : secs[n] \in Section /\ objs[n] \in Object
  <2> HIDE DEF objs, N
  <2> QED BY <1>2, ElementOfSeq DEF objs, N
<1> HIDE DEF objs
<1>4. is \in Seq(Seq(I))
  <2>1. \A n \in 1 .. N : InstrPieces(objs[n]) \in Seq(I)
    BY <1>3, BlockKeeps
  <2> HIDE DEF I
  <2> QED BY <1>1, <1>2, <2>1
<1>5. Maps(hh, f, I) /\ \A t \in Seq(I) : hh[t] = Each(t, f)
  BY DEF Maps
<1>6. \A n \in 1 .. N : is[n] = InstrPieces(objs[n])
  BY <1>2
<1>7. Len(is) = N
  BY <1>1, <1>2
<1> HIDE DEF is, hh, I, f, N
<1>8. ASSUME NEW n \in 1 .. N  PROVE hh[is[n]] = Bodies[secs[n]]
  <2>1. is[n] \in Seq(I)
    BY <1>4, <1>7, ElementOfSeq
  <2>2. Each(InstrPieces(ObjectOf(secs[n])), f) = secs[n].body
    <3>1. secs[n] \in Section /\ ObjectOf(secs[n]) \in Object
      BY <1>2, <1>3
    <3> QED BY <3>1, ObjectLines DEF f
  <2>3. Bodies[secs[n]] = secs[n].body
    BY <1>3 DEF Bodies
  <2> QED BY <1>2, <1>5, <1>6, <2>1, <2>2, <2>3
<1>9. Each(is, hh) = Each(secs, Bodies)
  BY <1>7, <1>8 DEF Each, N
<1>10. MapsAll(is, f, hh)
  <2>1. f \in [I -> KeptLine]
    BY LinesInTyped DEF f, I
  <2> QED BY <1>4, <1>5, <2>1, EachFlatten
<1> QED BY <1>9, <1>10 DEF MapsAll, is, f, objs

LEMMA CodeLinesAre == lines \in Seq(KeptLine) => CodeLines = CodePlaces(lines)
<1> SUFFICES ASSUME lines \in Seq(KeptLine)  PROVE CodeLines = CodePlaces(lines)
  OBVIOUS
<1>1. Len(lines) \in Nat /\ DOMAIN lines = 1 .. Len(lines)
  BY LenProperties
<1>2. ASSUME NEW k \in 1 .. Len(lines)  PROVE HeaderOf(k) = HeaderIn(lines, k)
  <2>1. k \in Nat /\ k >= 1
    BY <1>1
  <2>2. PICK h : IsHeader(lines, k, h)
    BY <2>1, HeaderThere
  <2>3. \A g : IsHeader(lines, k, g) => g = h
    BY <2>1, <2>2, HeaderIs
  <2>4. HeaderIn(lines, k) = h
    BY <2>1, <2>2, HeaderIs
  <2>5. \A g : IsHeader(lines, k, g) <=>
          g \in 1 .. k /\ ((g = 1 \/ lines[g].first = ".") /\ \A m \in g + 1 .. k : lines[m].first # ".")
    BY DEF IsHeader
  <2>6. HeaderOf(k) = h
    BY <2>2, <2>3, <2>5 DEF HeaderOf
  <2> QED BY <2>4, <2>6
<1>3. {k \in DOMAIN lines : HeaderOf(k) # k /\ SectionOf(lines[HeaderOf(k)]) \notin {"null", "meta", "data"}}
        = InCode(lines)
  BY <1>1, <1>2 DEF InCode, HasCode
<1> QED BY <1>3 DEF CodeLines, CodePlaces, Upto

LEMMA CodeIsComplete == Inv => CodeComplete
<1> SUFFICES ASSUME Inv, pc = "done"
             PROVE  LET kept == Where(image, {p \in ToSet(image) : p.kind = "instr"}) IN
                      /\ Len(kept) = Len(CodeLines)
                      /\ \A k \in DOMAIN kept :
                           kept[k].val.line = lines[CodeLines[k]] /\ kept[k].len = 1 + BytesOf(lines[CodeLines[k]])
  BY DEF CodeComplete
<1> DEFINE I == InstrPieceSet
           K == {p \in ToSet(image) : p.kind = "instr"}
           kept == Where(image, K)
           f == LinesIn
           places == CodePlaces(lines)
<1>1. /\ lines \in Seq(KeptLine) /\ sections = SectionsOf(lines) /\ code = CodeOf(sections) /\ code \in Seq(Section)
      /\ defs \in Seq(Def) /\ objects = ObjectsOf(code) /\ image = ImageOf(defs, datas, objects)
  BY DoneIs
<1>2. Data(datas, Len(defs))
  BY DoneData
<1>3. objects \in Seq(Object)
  BY DoneObjects
<1>4. /\ image \in Seq(PieceSet)
      /\ Where(image, I) = FlattenSeq([n \in 1 .. Len(objects) |-> InstrPieces(objects[n])])
  BY <1>1, <1>2, <1>3, ImageKeeps
<1>5. kept = Where(image, I)
  <2>1. ASSUME NEW n \in 1 .. Len(image)  PROVE image[n] \in K <=> image[n] \in I
    <3>1. image[n] \in PieceSet
      BY <1>4, ElementOfSeq
    <3>2. image[n] \in ToSet(image)
      BY <1>4 DEF ToSet
    <3> QED BY <3>1, <3>2 DEF InstrPieceSet
  <2> HIDE DEF K, I
  <2> QED BY <2>1, WhereSame
<1>6. Each(kept, f) = FlattenSeq(Each(code, Bodies))
  <2>1. ObjectsOf(code) \in Seq(Object)
    BY <1>1, <1>3
  <2>2. Each(FlattenSeq([n \in 1 .. Len(ObjectsOf(code)) |-> InstrPieces(ObjectsOf(code)[n])]), f)
          = FlattenSeq(Each(code, Bodies))
    BY <1>1, <2>1, ImageLines
  <2> HIDE DEF kept, f, I
  <2> QED BY <1>1, <1>4, <1>5, <2>2
<1>7. FlattenSeq(Each(code, Bodies)) = LinesOfCode(KeptLine, lines)
  BY <1>1, SectionsHoldCode
<1>8. LinesOfCode(KeptLine, lines) = Each(places, lines) /\ places \in Seq(1 .. Len(lines))
  BY <1>1, CodeOfFile DEF PiecesHoldCode
<1>9. CodeLines = places
  BY <1>1, CodeLinesAre
<1>10. kept \in Seq(I) /\ \A p \in I : f[p] = p.val.line
  <2>1. PieceSet \cap I \subseteq I
    OBVIOUS
  <2>2. Where(image, I) \in Seq(I)
    <3> HIDE DEF I
    <3> QED BY <1>4, <2>1, WhereType, SeqMonotonic
  <2> QED BY <1>5, <2>2 DEF LinesIn
<1> HIDE DEF I, K, kept, f, places
<1>11. Each(kept, f) = Each(places, lines)
  BY <1>6, <1>7, <1>8
<1>12. Len(kept) = Len(places)
  <2>1. Len(Each(kept, f)) = Len(kept) /\ Len(Each(places, lines)) = Len(places)
    <3>1. Len(kept) \in Nat /\ Len(places) \in Nat
      BY <1>8, <1>10
    <3> QED BY <3>1 DEF Each
  <2> QED BY <1>11, <2>1
<1>13. ASSUME NEW k \in DOMAIN kept  PROVE kept[k].val.line = lines[places[k]]
  <2>1. k \in 1 .. Len(kept)
    BY <1>10
  <2>2. kept[k] \in I
    BY <1>10, <2>1, ElementOfSeq
  <2>3. Each(kept, f)[k] = f[kept[k]]
    BY <2>1 DEF Each
  <2>4. Each(places, lines)[k] = lines[places[k]]
    BY <1>12, <2>1 DEF Each
  <2> QED BY <1>10, <1>11, <2>2, <2>3, <2>4
<1>14. ASSUME NEW k \in DOMAIN kept  PROVE kept[k].len = 1 + BytesOf(kept[k].val.line)
  <2>1. k \in 1 .. Len(kept)
    BY <1>10
  <2>2. kept[k] \in I
    BY <1>10, <2>1, ElementOfSeq
  <2> QED BY <2>2, InstrPieceLen DEF I
<1> QED BY <1>9, <1>12, <1>13, <1>14 DEF kept, K

-----------------------------------------------------------------------------
(* Tidy lines.                                                             *)

Blanks == {",", " "}
Digits == {"1", "."}

LEMMA SymbolsAre ==
  /\ \A x \in Symbols : x \in Blanks \/ x \in Digits \/ x \in Brackets
  /\ \A x : ~(x \in Blanks /\ x \in Digits) /\ ~(x \in Blanks /\ x \in Brackets) /\ ~(x \in Digits /\ x \in Brackets)
  /\ \A x : x \in Symbols \ Blanks <=> x \in Digits \/ x \in Brackets
  /\ \A x : x \in Brackets <=> x = "[" \/ x = "]"
  /\ \A x : x \in Blanks <=> x = "," \/ x = " "
  BY DEF Symbols, Blanks, Digits, Brackets

LEMMA NumbersAre ==
  ASSUME NEW c \in Seq(Symbols), NEW k
  PROVE  k \in Numbers(c) <=> k \in 1 .. Len(c) /\ c[k] \in Digits /\ (k = 1 \/ c[k - 1] \notin Digits)
  BY DEF Numbers, InNumber, Digits

\* What is skipped is blank, what is not is not.
LEMMA SkippedBlanks ==
  ASSUME NEW c \in Seq(Symbols), NEW n \in 1 .. Len(c) + 2
  PROVE  /\ \A k \in n .. Skipped(c, n) - 1 : k \in 1 .. Len(c) /\ c[k] \in Blanks
         /\ Skipped(c, n) <= Len(c) => c[Skipped(c, n)] \in Digits \/ c[Skipped(c, n)] \in Brackets
<1> DEFINE S == Symbols \ Blanks
           L == Len(c)
           f == First(c, n, S)
<1>1. L \in Nat /\ \A k \in 1 .. L : c[k] \in Symbols
  BY ElementOfSeq
<1>2. Skipped(c, n) = IF n > L THEN n ELSE f
  BY DEF Skipped, Blanks
<1>3. \A x : x \in S <=> x \in Digits \/ x \in Brackets
  BY SymbolsAre
<1>4. \A x \in Symbols : x \notin S => x \in Blanks
  OBVIOUS
<1> HIDE DEF S
<1>5. CASE n > L
  BY <1>1, <1>2, <1>5
<1>6. CASE n <= L
  <2>1. n \in 1 .. L + 1
    BY <1>1, <1>6
  <2>2. f \in n .. L + 1 /\ (f = L + 1 \/ c[f] \in S) /\ \A k \in n .. f - 1 : c[k] \notin S
    BY <1>1, <2>1, FirstIs
  <2> HIDE DEF f, L
  <2>3. \A k \in n .. f - 1 : k \in 1 .. L
    BY <1>1, <2>1, <2>2
  <2>4. \A k \in n .. f - 1 : c[k] \in Blanks
    BY <1>1, <1>4, <2>2, <2>3
  <2>5. f <= L => c[f] \in Digits \/ c[f] \in Brackets
    BY <1>1, <1>3, <2>2
  <2>6. Skipped(c, n) = f
    BY <1>1, <1>2, <1>6
  <2> QED BY <2>3, <2>4, <2>5, <2>6 DEF L
<1> QED BY <1>1, <1>5, <1>6

LEMMA PreviousIs ==
  ASSUME NEW c, NEW k \in Nat, k >= 1, NEW S
  PROVE  /\ Previous(c, k, S) \in 0 .. k - 1
         /\ Previous(c, k, S) = 0 \/ c[Previous(c, k, S)] \in S
         /\ \A j \in Previous(c, k, S) + 1 .. k - 1 : c[j] \notin S
<1> DEFINE D == {d \in 1 .. k : d = k \/ c[k - d] \in S}
<1>1. D \in SUBSET Nat /\ k \in D
  OBVIOUS
<1>2. \A d \in 1 .. k : d \in D <=> d = k \/ c[k - d] \in S
  OBVIOUS
<1>3. D \subseteq 1 .. k
  OBVIOUS
<1> HIDE DEF D
<1>4. PICK x \in D : \A y \in D : x <= y
  BY <1>1, Least
<1> DEFINE m == k - x
<1>5. x \in 1 .. k /\ m \in 0 .. k - 1 /\ k - m = x
  BY <1>3, <1>4
<1>6. m = 0 \/ c[m] \in S
  BY <1>2, <1>4, <1>5
<1>7. ASSUME NEW j \in m + 1 .. k - 1  PROVE c[j] \notin S
  <2>1. k - j \in 1 .. k /\ k - j < x /\ k - (k - j) = j
    BY <1>5
  <2>2. k - j \notin D
    BY <1>4, <1>5, <2>1
  <2> DEFINE d == k - j
  <2>3. d \in 1 .. k /\ d \notin D /\ k - d = j
    BY <2>1, <2>2
  <2> HIDE DEF d
  <2> QED BY <1>2, <2>3
<1> HIDE DEF m
<1>8. \E i \in 0 .. k - 1 : (i = 0 \/ c[i] \in S) /\ \A j \in i + 1 .. k - 1 : c[j] \notin S
  BY <1>5, <1>6, <1>7
<1> QED BY <1>8 DEF Previous

\* Where there is one, what is before it is passed over.
LEMMA PreviousAt ==
  ASSUME NEW c, NEW k \in Nat, NEW j \in 1 .. k - 1, NEW S, c[j] \in S
  PROVE  Previous(c, k, S) \in j .. k - 1 /\ c[Previous(c, k, S)] \in S
<1> DEFINE m == Previous(c, k, S)
<1>1. k >= 1
  OBVIOUS
<1>2. m \in 0 .. k - 1 /\ (m = 0 \/ c[m] \in S) /\ \A i \in m + 1 .. k - 1 : c[i] \notin S
  BY <1>1, PreviousIs
<1> HIDE DEF m
<1>3. ~(m < j)
  <2>1. m < j => j \in m + 1 .. k - 1
    BY <1>2
  <2> QED BY <1>2, <2>1
<1> QED BY <1>2, <1>3 DEF m

\* How many brackets are open
LEMMA DepthStep ==
  ASSUME NEW c \in Seq(Symbols), NEW k \in 1 .. Len(c)
  PROVE  /\ Depth(c, k - 1) \in Int /\ Depth(c, k) \in Int
         /\ c[k] = "[" => Depth(c, k) = Depth(c, k - 1) + 1
         /\ c[k] = "]" => Depth(c, k) = Depth(c, k - 1) - 1
         /\ c[k] \notin Brackets => Depth(c, k) = Depth(c, k - 1)
<1> DEFINE Upward(j, x) == {m \in 1 .. j : c[m] = x}
<1>1. k \in Nat /\ k - 1 \in Nat /\ 1 .. k = (1 .. k - 1) \cup {k} /\ k \notin 1 .. k - 1
  OBVIOUS
<1>2. ASSUME NEW x
      PROVE  /\ Cardinality(Upward(k - 1, x)) \in Nat
             /\ Cardinality(Upward(k, x)) = Cardinality(Upward(k - 1, x)) + IF c[k] = x THEN 1 ELSE 0
  <2>1. IsFiniteSet(1 .. k - 1)
    BY <1>1, FS_Interval
  <2>2. IsFiniteSet(Upward(k - 1, x))
    <3>1. Upward(k - 1, x) \subseteq 1 .. k - 1
      OBVIOUS
    <3> QED BY <2>1, <3>1, FS_Subset
  <2>3. Cardinality(Upward(k - 1, x)) \in Nat
    BY <2>2, FS_CardinalityType
  <2>4. CASE c[k] = x
    <3>1. Upward(k, x) = Upward(k - 1, x) \cup {k}
      BY <1>1, <2>4
    <3>2. k \notin Upward(k - 1, x)
      BY <1>1
    <3> QED BY <2>2, <2>3, <2>4, <3>1, <3>2, FS_AddElement
  <2>5. CASE c[k] # x
    <3>1. Upward(k, x) = Upward(k - 1, x)
      BY <1>1, <2>5
    <3> HIDE DEF Upward
    <3>2. Cardinality(Upward(k, x)) = Cardinality(Upward(k - 1, x)) + 0
      BY <2>3, <3>1
    <3> QED BY <2>3, <2>5, <3>2
  <2> QED BY <2>3, <2>4, <2>5
<1>3. /\ Depth(c, k) = Cardinality(Upward(k, "[")) - Cardinality(Upward(k, "]"))
      /\ Depth(c, k - 1) = Cardinality(Upward(k - 1, "[")) - Cardinality(Upward(k - 1, "]"))
  BY DEF Depth
<1> HIDE DEF Upward
<1>4. /\ Cardinality(Upward(k - 1, "[")) \in Nat
      /\ Cardinality(Upward(k, "[")) = Cardinality(Upward(k - 1, "[")) + IF c[k] = "[" THEN 1 ELSE 0
  BY <1>2
<1>5. /\ Cardinality(Upward(k - 1, "]")) \in Nat
      /\ Cardinality(Upward(k, "]")) = Cardinality(Upward(k - 1, "]")) + IF c[k] = "]" THEN 1 ELSE 0
  BY <1>2
<1> DEFINE a == Cardinality(Upward(k - 1, "["))
           b == Cardinality(Upward(k - 1, "]"))
<1>6. a \in Nat /\ b \in Nat /\ Depth(c, k - 1) = a - b
      /\ Depth(c, k) = (a + IF c[k] = "[" THEN 1 ELSE 0) - (b + IF c[k] = "]" THEN 1 ELSE 0)
  BY <1>3, <1>4, <1>5
<1> HIDE DEF a, b
<1>7. /\ c[k] = "[" => Depth(c, k) = Depth(c, k - 1) + 1
      /\ c[k] = "]" => Depth(c, k) = Depth(c, k - 1) - 1
      /\ c[k] # "[" /\ c[k] # "]" => Depth(c, k) = Depth(c, k - 1)
  BY <1>6
<1>8. Depth(c, k - 1) \in Int /\ Depth(c, k) \in Int
  BY <1>6
<1> QED BY <1>7, <1>8 DEF Brackets

LEMMA DepthZero == \A c : Depth(c, 0) = 0
<1>1. ASSUME NEW c  PROVE {m \in 1 .. 0 : c[m] = "["} = {} /\ {m \in 1 .. 0 : c[m] = "]"} = {}
  OBVIOUS
<1>2. Cardinality({}) = 0
  BY FS_EmptySet
<1> QED BY <1>1, <1>2 DEF Depth

\* Without a bracket on the way the depth stays.
LEMMA DepthSame ==
  ASSUME NEW c \in Seq(Symbols), NEW a \in 0 .. Len(c), NEW b \in a .. Len(c),
         \A k \in a + 1 .. b : c[k] \notin Brackets
  PROVE  Depth(c, b) = Depth(c, a)
<1> DEFINE T == {d \in Nat : a + d <= b => Depth(c, a + d) = Depth(c, a)}
<1>1. 0 \in T
  OBVIOUS
<1>2. ASSUME NEW d \in T  PROVE d + 1 \in T
  <2> SUFFICES ASSUME a + (d + 1) <= b  PROVE Depth(c, a + (d + 1)) = Depth(c, a)
    BY <1>2
  <2> DEFINE k == a + (d + 1)
  <2>1. d \in Nat /\ k \in 1 .. Len(c) /\ k \in a + 1 .. b /\ k - 1 = a + d /\ a + d <= b
    BY <1>2
  <2>2. Depth(c, a + d) = Depth(c, a)
    BY <1>2, <2>1
  <2> HIDE DEF k
  <2>3. Depth(c, k) = Depth(c, k - 1)
    BY <2>1, DepthStep
  <2> QED BY <2>1, <2>2, <2>3 DEF k
<1>3. T = Nat
  <2>1. T \in SUBSET Nat
    OBVIOUS
  <2> HIDE DEF T
  <2> QED BY <1>1, <1>2, <2>1, SetInduction
<1>4. b - a \in Nat /\ a + (b - a) = b
  OBVIOUS
<1>5. b - a \in T
  BY <1>3, <1>4
<1> QED BY <1>4, <1>5

\* What makes a line tidy, a condition at a time
LEMMA TidyDepth ==
  ASSUME NEW c \in Seq(Symbols), Tidy(c), NEW k \in 1 .. Len(c)
  PROVE  Depth(c, k) \in 0 .. 2
<1>1. k \in DOMAIN c
  OBVIOUS
<1> QED BY <1>1 DEF Tidy

LEMMA TidySet ==
  ASSUME NEW c \in Seq(Symbols), Tidy(c), NEW k \in 1 .. Len(c), k \in Numbers(c) \/ c[k] = "["
  PROVE  k = 1 \/ c[k - 1] = " " \/ c[k - 1] = "["
<1>1. k \in DOMAIN c
  OBVIOUS
<1>2. k = 1 \/ c[k - 1] \in {" ", "["}
  BY <1>1 DEF Tidy
<1> QED BY <1>2

LEMMA TidyOpens ==
  ASSUME NEW c \in Seq(Symbols), Tidy(c), NEW k \in 1 .. Len(c), c[k] = "["
  PROVE  k < Len(c) /\ c[k + 1] \notin Blanks
<1>1. k \in DOMAIN c
  OBVIOUS
<1>2. k < Len(c) /\ c[k + 1] \notin {" ", ","}
  BY <1>1 DEF Tidy
<1> QED BY <1>2 DEF Blanks

LEMMA TidyBefore ==
  ASSUME NEW c \in Seq(Symbols), Tidy(c), NEW k \in 1 .. Len(c), c[k] = "[", k # 1
  PROVE  c[Previous(c, k, Symbols \ Blanks)] \in Brackets
<1>1. k \in DOMAIN c
  OBVIOUS
<1>2. Symbols \ Blanks = Symbols \ {" ", ","}
  BY DEF Blanks
<1>3. c[Previous(c, k, Symbols \ {" ", ","})] \in Brackets
  BY <1>1 DEF Tidy
<1> QED BY <1>2, <1>3

LEMMA TidyNumber ==
  ASSUME NEW c \in Seq(Symbols), Tidy(c), NEW k \in Numbers(c)
  PROVE  IF c[1] = "[" THEN c[Previous(c, k, Brackets)] = "[" ELSE Previous(c, k, Brackets) = 0
<1>1. k \in DOMAIN c
  BY DEF Numbers
<1> QED BY <1>1 DEF Tidy

-----------------------------------------------------------------------------
(* A loop whose literals read the numbers from their place to the next     *)
(* reads the numbers from its place to where it ends.                      *)

ReadsNumbers(c, lit, n) ==
  lit.reads = NumbersIn(c, n, lit.next) /\ SizeOf(lit.type) = 8 * Len(lit.reads)
HasRead(c, all, n) == all.reads = NumbersIn(c, n, all.pos) /\ all.length = 8 * Len(all.reads)

LEMMA LoopReads ==
  ASSUME NEW N \in Nat, NEW lits, NEW stops, Onward(N, lits, stops),
         NEW G \in SUBSET (1 .. N), Keeps(G, lits, stops), NEW c,
         \A n \in G : GoesOn(lits, stops, n) => ReadsNumbers(c, lits[n], n), NEW n \in G
  PROVE  HasRead(c, Loop(lits, stops)[n], n)
<1> DEFINE L == Loop(lits, stops)
           P == {k \in G : HasRead(c, L[k], k) /\ L[k].pos \in k .. N}
<1> HIDE DEF L
<1>1. ASSUME NEW k \in G, ~GoesOn(lits, stops, k)  PROVE k \in P
  <2>1. k \in 1 .. N
    OBVIOUS
  <2>2. L[k].pos = k /\ L[k].reads = <<>> /\ L[k].length = 0
    BY <1>1, <2>1, LoopStops DEF L
  <2>3. NumbersIn(c, k, k) = <<>>
    <3>1. \A j \in k .. k - 1 : j \notin Numbers(c)
      BY <2>1
    <3> QED BY <2>1, <3>1, NoNumbers
  <2>4. Len(<<>>) = 0
    OBVIOUS
  <2>5. HasRead(c, L[k], k)
    BY <2>2, <2>3, <2>4 DEF HasRead
  <2> QED BY <2>1, <2>2, <2>5
<1>2. ASSUME NEW k \in G, GoesOn(lits, stops, k), lits[k].next \in P  PROVE k \in P
  <2> DEFINE m == lits[k].next
             e == L[m].pos
  <2>1. k \in 1 .. N /\ m \in k + 1 .. N
    BY <1>2 DEF Onward
  <2>2. HasRead(c, L[m], m) /\ e \in m .. N
    BY <1>2
  <2>3. L[k].pos = e
    BY <1>2, <2>1, LoopNext DEF L
  <2>4. L[k].reads = lits[k].reads \o L[m].reads /\ L[k].length = SizeOf(lits[k].type) + L[m].length
    <3>1. Onward(N, lits, stops) /\ N \in Nat /\ k \in 1 .. N /\ GoesOn(lits, stops, k)
      BY <1>2, <2>1
    <3> QED BY <3>1, LoopAdds, Zenon DEF L
  <2>5. ReadsNumbers(c, lits[k], k)
    BY <1>2
  <2> DEFINE a == NumbersIn(c, k, m)
             b == NumbersIn(c, m, e)
  <2>6. lits[k].reads = a /\ SizeOf(lits[k].type) = 8 * Len(a) /\ L[m].reads = b /\ L[m].length = 8 * Len(b)
    BY <2>2, <2>5 DEF ReadsNumbers, HasRead
  <2> HIDE DEF m, e
  <2>7. k \in Nat /\ m \in Nat /\ e \in Nat /\ k <= m /\ m <= e
    BY <2>1, <2>2
  <2>8. a \o b = NumbersIn(c, k, e)
    BY <2>7, NumbersJoin
  <2>9. a \in Seq(Nat) /\ b \in Seq(Nat)
    <3>1. a \in Seq(Nat)
      BY <2>7, NumbersJoin
    <3>2. b \in Seq(Nat)
      <4>1. e <= e
        BY <2>7
      <4> QED BY <2>7, <4>1, NumbersJoin
    <3> QED BY <3>1, <3>2
  <2> HIDE DEF a, b
  <2>10. Len(a \o b) = Len(a) + Len(b) /\ Len(a) \in Nat /\ Len(b) \in Nat
    BY <2>9, ConcatProperties
  <2>11. L[k].reads = NumbersIn(c, k, e) /\ L[k].length = 8 * Len(L[k].reads)
    <3>1. L[k].reads = a \o b /\ L[k].length = 8 * Len(a) + 8 * Len(b)
      BY <2>4, <2>6 DEF m
    <3>2. 8 * Len(a) + 8 * Len(b) = 8 * (Len(a) + Len(b))
      BY <2>10
    <3> QED BY <2>8, <2>10, <3>1, <3>2
  <2>12. HasRead(c, L[k], k)
    BY <2>3, <2>11 DEF HasRead
  <2>13. L[k].pos \in k .. N
    BY <2>1, <2>2, <2>3 DEF e, m
  <2> QED BY <2>12, <2>13
<1>3. G \subseteq P
  <2> HIDE DEF P
  <2>1. \A k \in G : ~GoesOn(lits, stops, k) => k \in P
    BY <1>1
  <2>2. \A k \in G : GoesOn(lits, stops, k) /\ lits[k].next \in P => k \in P
    BY <1>2
  <2> QED BY <2>1, <2>2, LoopInduction
<1>4. n \in P
  BY <1>3
<1> QED BY <1>4 DEF L

-----------------------------------------------------------------------------
(* What each parser reads of a tidy line                                   *)

\* No bracket from a on, before b
Plain(c, a, b) == \A k \in a .. b - 1 : c[k] \notin Brackets

LEMMA SimpleReads ==
  ASSUME NEW c \in Seq(Symbols), Tidy(c), NEW n \in Numbers(c)
  PROVE  /\ parse_simple(c, n).next \in n + 1 .. Len(c) + 1
         /\ ReadsNumbers(c, parse_simple(c, n), n)
         /\ Plain(c, n, parse_simple(c, n).next)
         /\ parse_simple(c, n).next <= Len(c) =>
              c[parse_simple(c, n).next] \in Brackets \/ parse_simple(c, n).next \in Numbers(c)
<1> DEFINE L == Len(c)
           E == {" ", "]"}
           f == First(c, n, E)
           m == Skipped(c, f)
<1>1. /\ L \in Nat /\ n \in 1 .. L /\ c[n] \in Digits /\ \A k \in 1 .. L : c[k] \in Symbols
  BY NumbersAre, ElementOfSeq
<1>2. f \in n .. L + 1 /\ (f = L + 1 \/ c[f] \in E) /\ \A k \in n .. f - 1 : c[k] \notin E
  <2> HIDE DEF E
  <2>1. n \in 1 .. Len(c) + 1 /\ Len(c) \in Nat
    BY <1>1
  <2> QED BY <2>1, FirstIs
<1>3. c[n] \notin E
  BY <1>1 DEF Digits
<1>4. parse_simple(c, n).type \in {"fractional", "integral"} /\ parse_simple(c, n).next = m
  BY <1>1, SimpleIs
<1>5. parse_simple(c, n).reads = <<First(c, n, Symbols \ {" "})>>
  BY <1>1, SimpleIs
<1>6. First(c, n, Symbols \ {" "}) = n
  <2> DEFINE S == Symbols \ {" "}
  <2>1. c[n] \in S
    BY <1>1 DEF Digits
  <2> HIDE DEF S
  <2>2. n \in n .. Len(c) + 1 /\ n \in 1 .. Len(c) + 1 /\ \A k : k \notin n .. n - 1
    BY <1>1
  <2>3. First(c, n, S) = n
    BY <1>1, <2>1, <2>2, FirstOnly
  <2> QED BY <2>3 DEF S
<1> HIDE DEF f
<1>7. f \in n + 1 .. L + 1
  <2>1. f # n
    <3>1. n # L + 1
      BY <1>1
    <3> QED BY <1>2, <1>3, <3>1
  <2>2. f \in n .. L + 1
    BY <1>2
  <2>3. n \in Nat /\ L \in Nat
    BY <1>1
  <2> HIDE DEF L, E
  <2> QED BY <2>1, <2>2, <2>3
<1>n. n \in Nat /\ f \in Nat /\ L \in Nat /\ 1 <= n /\ n < f /\ f - 1 <= L
  BY <1>1, <1>7
<1> DEFINE Ok(k) == c[k] # "[" /\ (k # n => k \notin Numbers(c))
<1>8. \A k \in n .. f - 1 : Ok(k)
  <2> DEFINE T == {d \in Nat : n + d <= f - 1 => Ok(n + d)}
  <2>1. 0 \in T
    <3>1. c[n] # "["
      BY <1>1 DEF Digits
    <3> QED BY <1>1, <3>1
  <2>2. ASSUME NEW d \in T  PROVE d + 1 \in T
    <3> SUFFICES ASSUME n + (d + 1) <= f - 1  PROVE Ok(n + (d + 1))
      BY <2>2
    <3> DEFINE k == n + (d + 1)
    <3>1. d \in Nat /\ k \in 1 .. Len(c) /\ k # 1 /\ k - 1 = n + d /\ k - 1 \in n .. f - 1 /\ n + d <= f - 1
      <4>1. d \in Nat
        BY <2>2
      <4> HIDE DEF T, Ok
      <4> QED BY <1>n, <4>1
    <3>2. c[n + d] # "["
      BY <2>2, <3>1
    <3> HIDE DEF k
    <3>3. c[k - 1] # " " /\ c[k - 1] # "["
      BY <1>2, <3>1, <3>2
    <3>4. ~(k \in Numbers(c) \/ c[k] = "[")
      BY <3>1, <3>3, TidySet
    <3> QED BY <3>4 DEF k
  <2>3. T = Nat
    <3>1. T \in SUBSET Nat
      OBVIOUS
    <3> HIDE DEF T
    <3> QED BY <2>1, <2>2, <3>1, SetInduction
  <2>4. ASSUME NEW k \in n .. f - 1  PROVE Ok(k)
    <3>1. k - n \in Nat /\ n + (k - n) = k /\ k <= f - 1
      <4> HIDE DEF Ok, T
      <4> QED BY <1>n
    <3>2. k - n \in T
      BY <2>3, <3>1
    <3>3. n + (k - n) <= f - 1 => Ok(n + (k - n))
      BY <3>2
    <3> HIDE DEF Ok, T
    <3> QED BY <3>1, <3>3
  <2> QED BY <2>4
<1>9. /\ m \in f .. L + 1
      /\ \A k \in f .. m - 1 : k \in 1 .. L /\ c[k] \in Blanks
      /\ m <= L => c[m] \in Digits \/ c[m] \in Brackets
  <2>1. f \in 1 .. Len(c) + 2 /\ f <= Len(c) + 1 /\ Len(c) \in Nat
    BY <1>1, <1>7
  <2>2. m \in f .. L + 1
    BY <2>1, SkippedIs
  <2>3. /\ \A k \in f .. m - 1 : k \in 1 .. L /\ c[k] \in Blanks
        /\ m <= L => c[m] \in Digits \/ c[m] \in Brackets
    BY <2>1, SkippedBlanks
  <2> QED BY <2>2, <2>3
<1> HIDE DEF m
<1>10. m \in n + 1 .. L + 1
  BY <1>1, <1>7, <1>9
<1>11. ASSUME NEW k \in n .. m - 1  PROVE c[k] \notin Brackets /\ (k # n => k \notin Numbers(c))
  <2>1. k \in n .. f - 1 \/ k \in f .. m - 1
    BY <1>7, <1>9
  <2>2. CASE k \in n .. f - 1
    <3>1. c[k] # "]"
      BY <1>2, <2>2
    <3>2. c[k] # "["
      BY <1>8, <2>2
    <3>3. k # n => k \notin Numbers(c)
      BY <1>8, <2>2
    <3> QED BY <3>1, <3>2, <3>3 DEF Brackets
  <2>3. CASE k \in f .. m - 1
    <3>1. c[k] \in Blanks
      BY <1>9, <2>3
    <3>2. c[k] \notin Brackets /\ c[k] \notin Digits
      BY <3>1, SymbolsAre
    <3> QED BY <3>2, NumbersAre
  <2> QED BY <2>1, <2>2, <2>3
<1>12. NumbersIn(c, n, m) = <<n>>
  <2>1. n \in Nat /\ m \in Nat /\ n < m /\ n \in Numbers(c)
    BY <1>1, <1>10
  <2>2. \A k \in n + 1 .. m - 1 : k \notin Numbers(c)
    BY <1>1, <1>10, <1>11
  <2> QED BY <2>1, <2>2, OneNumber
<1>13. ReadsNumbers(c, parse_simple(c, n), n)
  <2>1. SizeOf(parse_simple(c, n).type) = 8
    BY <1>4 DEF SizeOf
  <2>2. Len(<<n>>) = 1
    OBVIOUS
  <2> DEFINE lit == parse_simple(c, n)
             one == <<n>>
  <2>3. lit.reads = one /\ lit.next = m /\ SizeOf(lit.type) = 8 /\ Len(one) = 1 /\ NumbersIn(c, n, m) = one
    BY <1>4, <1>5, <1>6, <1>12, <2>1, <2>2
  <2> HIDE DEF lit, one
  <2>4. ReadsNumbers(c, lit, n)
    BY <2>3 DEF ReadsNumbers
  <2> QED BY <2>4 DEF lit
<1>14. ASSUME m <= L, c[m] \notin Brackets  PROVE m \in Numbers(c)
  <2>1. c[m] \in Digits
    BY <1>9, <1>14
  <2>2. m # f
    <3>1. f <= L => c[f] \notin Digits
      <4>1. f <= L => c[f] \in E
        <5>1. f = L + 1 \/ c[f] \in E
          BY <1>2
        <5> HIDE DEF L, E
        <5> QED BY <1>n, <5>1
      <4>2. \A x \in E : x \notin Digits
        BY DEF Digits
      <4> QED BY <4>1, <4>2
    <3> QED BY <1>14, <2>1, <3>1
  <2>3. m - 1 \in f .. m - 1
    BY <1>7, <1>9, <2>2
  <2>4. c[m - 1] \notin Digits
    BY <1>9, <2>3, SymbolsAre
  <2>5. m \in 1 .. Len(c)
    BY <1>1, <1>10, <1>14
  <2> QED BY <2>1, <2>4, <2>5, NumbersAre
<1> QED BY <1>4, <1>10, <1>11, <1>13, <1>14 DEF Plain

LEMMA NumbersWiden ==
  ASSUME NEW c, NEW p \in Nat, NEW q \in Nat, NEW e \in Nat, NEW n \in Nat, p <= q, q <= e, e <= n,
         \A k \in p .. q - 1 : k \notin Numbers(c), \A k \in e .. n - 1 : k \notin Numbers(c)
  PROVE  NumbersIn(c, q, e) = NumbersIn(c, p, n)
<1> DEFINE a == NumbersIn(c, q, e)
           b == NumbersIn(c, q, n)
<1>1. NumbersIn(c, p, q) = <<>> /\ NumbersIn(c, e, n) = <<>>
  BY NoNumbers
<1>2. a \o <<>> = b /\ a \in Seq(Nat)
  <2>1. NumbersIn(c, q, e) \o NumbersIn(c, e, n) = NumbersIn(c, q, n)
    BY NumbersJoin
  <2>2. NumbersIn(c, q, e) \in Seq(Nat)
    BY NumbersJoin
  <2> QED BY <1>1, <2>1, <2>2
<1>3. <<>> \o b = NumbersIn(c, p, n) /\ b \in Seq(Nat)
  <2>1. q <= n
    OBVIOUS
  <2>2. NumbersIn(c, p, q) \o NumbersIn(c, q, n) = NumbersIn(c, p, n)
    BY <2>1, NumbersJoin
  <2>3. n <= n
    OBVIOUS
  <2>4. NumbersIn(c, q, n) \in Seq(Nat)
    BY <2>1, <2>3, NumbersJoin
  <2> QED BY <1>1, <2>2, <2>4
<1> HIDE DEF a, b
<1>4. a \o <<>> = a /\ <<>> \o b = b
  BY <1>2, <1>3, ConcatEmptySeq
<1>5. a = NumbersIn(c, p, n)
  BY <1>2, <1>3, <1>4
<1> QED BY <1>5 DEF a

\* Behind a bracket that is closed there is another bracket, or nothing.
LEMMA AfterBracket ==
  ASSUME NEW c \in Seq(Symbols), Tidy(c), c[1] = "[", NEW e \in 1 .. Len(c), c[e] = "]"
  PROVE  /\ Skipped(c, e + 1) \in e + 1 .. Len(c) + 1
         /\ \A k \in e + 1 .. Skipped(c, e + 1) - 1 : c[k] \in Blanks
         /\ Skipped(c, e + 1) <= Len(c) => c[Skipped(c, e + 1)] \in Brackets
<1> DEFINE q == e + 1
           m == Skipped(c, q)
           L == Len(c)
<1>1. L \in Nat /\ q \in 1 .. L + 2 /\ q <= L + 1 /\ e \in Nat
  OBVIOUS
<1> HIDE DEF q
<1>2. m \in q .. L + 1
  BY <1>1, SkippedIs
<1>3. \A k \in q .. m - 1 : c[k] \in Blanks
  BY <1>1, SkippedBlanks
<1>4. m <= L => c[m] \in Digits \/ c[m] \in Brackets
  BY <1>1, SkippedBlanks
<1> HIDE DEF m
<1>5. ASSUME m <= L, c[m] \notin Brackets  PROVE FALSE
  <2>1. m \in 1 .. Len(c) /\ m # 1 /\ m \in Nat /\ e \in 1 .. m - 1 /\ m - 1 \in e .. m - 1
    <3>1. q = e + 1
      BY DEF q
    <3> HIDE DEF L
    <3>2. m \in 1 .. L /\ m # 1 /\ m \in Nat /\ e \in 1 .. m - 1 /\ m - 1 \in e .. m - 1
      BY <1>1, <1>2, <1>5, <3>1
    <3> QED BY <3>2 DEF L
  <2>2. \A k \in e .. m - 1 : k = e \/ c[k] \in Blanks
    <3>1. q = e + 1
      BY DEF q
    <3>2. ASSUME NEW k \in e .. m - 1, k # e  PROVE k \in q .. m - 1
      BY <1>1, <3>1, <3>2
    <3> QED BY <1>3, <3>2
  <2>3. c[e] \in Brackets
    BY DEF Brackets
  <2>4. c[m - 1] \notin Digits
    <3>1. c[e] \notin Digits
      BY <2>3, SymbolsAre
    <3> QED BY <2>1, <2>2, <3>1, SymbolsAre
  <2>5. m \in Numbers(c)
    BY <1>4, <1>5, <2>1, <2>4, NumbersAre
  <2> DEFINE i == Previous(c, m, Brackets)
  <2>6. c[i] = "["
    BY <2>5, TidyNumber
  <2>7. i \in e .. m - 1
    BY <2>1, <2>3, PreviousAt
  <2> HIDE DEF i
  <2>8. c[i] \notin Blanks
    BY <2>6 DEF Blanks
  <2>9. i = e
    BY <2>2, <2>7, <2>8
  <2> QED BY <2>6, <2>9
<1> QED BY <1>2, <1>3, <1>4, <1>5 DEF m, q

\* The places a vector that begins before q goes on at
ElementPlaces(c, q) ==
  {n \in q .. Len(c) + 1 : Plain(c, q, n) /\ (n <= Len(c) => c[n] = "]" \/ n \in Numbers(c))}

LEMMA ElementGoesOn ==
  ASSUME NEW c \in Seq(Symbols), Tidy(c), NEW q \in 1 .. Len(c), NEW n \in ElementPlaces(c, q)
  PROVE  /\ GoesOn(ElementLits(c), ElementStops(c), n) <=> n \in Numbers(c)
         /\ n \notin Numbers(c) => n = Len(c) + 1 \/ c[n] = "]"
         /\ n \in Numbers(c) => /\ ElementLits(c)[n].next \in ElementPlaces(c, q)
                                /\ ReadsNumbers(c, ElementLits(c)[n], n)
<1> DEFINE L == Len(c)
<1>1. /\ L \in Nat /\ n \in 1 .. L + 1 /\ n \in q .. L + 1 /\ Plain(c, q, n)
      /\ n <= L => c[n] = "]" \/ n \in Numbers(c)
  BY DEF ElementPlaces
<1>2. ASSUME n \notin Numbers(c)
      PROVE  (n = L + 1 \/ c[n] = "]") /\ ~GoesOn(ElementLits(c), ElementStops(c), n)
  <2>1. n = L + 1 \/ (n \in 1 .. L /\ c[n] = "]")
    <3>1. n <= L => c[n] = "]"
      BY <1>1, <1>2
    <3> HIDE DEF L
    <3> QED BY <1>1, <3>1
  <2>2. n \in ElementStops(c)
    BY <2>1 DEF ElementStops, Behind, Closing
  <2> QED BY <2>1, <2>2 DEF GoesOn
<1>3. ASSUME n \in Numbers(c)
      PROVE  /\ GoesOn(ElementLits(c), ElementStops(c), n)
             /\ ElementLits(c)[n].next \in ElementPlaces(c, q)
             /\ ReadsNumbers(c, ElementLits(c)[n], n)
  <2>1. n \in 1 .. Len(c) /\ c[n] \in Digits
    BY <1>3, NumbersAre
  <2>2. ElementLits(c)[n] = parse_simple(c, n)
    BY <2>1, ElementsOnward
  <2> DEFINE m == parse_simple(c, n).next
  <2>3. m \in n + 1 .. L + 1
    BY <1>3, SimpleReads
  <2>4. ReadsNumbers(c, parse_simple(c, n), n) /\ Plain(c, n, m)
    BY <1>3, SimpleReads
  <2>5. m <= L => c[m] \in Brackets \/ m \in Numbers(c)
    BY <1>3, SimpleReads
  <2>6. parse_simple(c, n).type \in {"fractional", "integral"}
    BY <1>1, <2>1, SimpleIs
  <2> HIDE DEF m
  <2>7. n \notin ElementStops(c)
    <3>1. c[n] # "]"
      BY <2>1 DEF Digits
    <3> QED BY <2>1, <3>1 DEF ElementStops, Behind, Closing
  <2>8. GoesOn(ElementLits(c), ElementStops(c), n)
    <3>1. ~(m <= n)
      BY <2>1, <2>3
    <3> QED BY <2>2, <2>6, <2>7, <3>1 DEF GoesOn, Failing, m
  <2>9. m \in q .. L + 1 /\ Plain(c, q, m)
    <3>1. m \in q .. L + 1
      <4>1. n \in q .. L + 1
        BY <1>1
      <4> HIDE DEF L
      <4> QED BY <2>3, <4>1
    <3>2. \A k \in q .. m - 1 : k \in q .. n - 1 \/ k \in n .. m - 1
      <4>1. n \in q .. L + 1 /\ L \in Nat
        BY <1>1
      <4> HIDE DEF L
      <4> QED BY <2>3, <4>1
    <3> QED BY <1>1, <2>4, <3>1, <3>2 DEF Plain
  <2>10. ASSUME m <= L  PROVE c[m] # "["
    <3> SUFFICES ASSUME c[m] = "["  PROVE FALSE
      OBVIOUS
    <3>1. m \in 1 .. Len(c) /\ m # 1 /\ m \in Nat /\ n \in 1 .. m - 1
      <4>1. n \in 1 .. L /\ L \in Nat /\ m \in n + 1 .. L + 1 /\ m <= L
        BY <2>1, <2>3, <2>10
      <4> HIDE DEF L
      <4>2. m \in 1 .. L /\ m # 1 /\ m \in Nat /\ n \in 1 .. m - 1
        BY <4>1
      <4> QED BY <4>2 DEF L
    <3> DEFINE S == Symbols \ Blanks
               i == Previous(c, m, S)
    <3>2. c[i] \in Brackets
      BY <3>1, TidyBefore
    <3>3. c[n] \in S
      BY <2>1, SymbolsAre
    <3> HIDE DEF S
    <3>4. i \in n .. m - 1
      BY <3>1, <3>3, PreviousAt
    <3> QED BY <2>4, <3>2, <3>4 DEF Plain
  <2>11. m <= L => c[m] = "]" \/ m \in Numbers(c)
    BY <2>5, <2>10, SymbolsAre
  <2>12. m \in ElementPlaces(c, q)
    BY <2>9, <2>11 DEF ElementPlaces
  <2> QED BY <2>2, <2>4, <2>8, <2>12 DEF m
<1> QED BY <1>2, <1>3

LEMMA ElementsRead ==
  ASSUME NEW c \in Seq(Symbols), Tidy(c), NEW q \in 1 .. Len(c), q \in ElementPlaces(c, q)
  PROVE  /\ HasRead(c, Elements(c)[q], q)
         /\ Elements(c)[q].pos \in q .. Len(c) + 1
         /\ Plain(c, q, Elements(c)[q].pos)
         /\ Elements(c)[q].pos = Len(c) + 1 \/ c[Elements(c)[q].pos] = "]"
<1> DEFINE N == Len(c) + 2
           lits == ElementLits(c)
           stops == ElementStops(c)
           G == ElementPlaces(c, q)
           e == Loop(lits, stops)[q].pos
<1>1. Len(c) \in Nat /\ N \in Nat
  OBVIOUS
<1>2. Onward(N, lits, stops) /\ Elements(c) = Loop(lits, stops)
  BY ElementsOnward
<1>3. G \in SUBSET (1 .. N)
  BY <1>1 DEF ElementPlaces
<1>4. \A n \in G : /\ GoesOn(lits, stops, n) <=> n \in Numbers(c)
                   /\ n \notin Numbers(c) => n = Len(c) + 1 \/ c[n] = "]"
                   /\ n \in Numbers(c) => lits[n].next \in G /\ ReadsNumbers(c, lits[n], n)
  BY ElementGoesOn
<1>5. q \in G
  OBVIOUS
<1>6. \A n \in G : n \in q .. Len(c) + 1 /\ Plain(c, q, n)
  BY DEF ElementPlaces
<1> HIDE DEF N, lits, stops, G
<1>7. Keeps(G, lits, stops)
  BY <1>4 DEF Keeps
<1>8. \A n \in G : GoesOn(lits, stops, n) => ReadsNumbers(c, lits[n], n)
  BY <1>4
<1>9. HasRead(c, Loop(lits, stops)[q], q)
  BY <1>1, <1>2, <1>3, <1>5, <1>7, <1>8, LoopReads
<1>10. e \in G /\ ~GoesOn(lits, stops, e)
  BY <1>1, <1>2, <1>3, <1>5, <1>7, LoopEnds
<1> HIDE DEF e
<1>11. e = Len(c) + 1 \/ c[e] = "]"
  BY <1>4, <1>10
<1> QED BY <1>2, <1>6, <1>9, <1>10, <1>11 DEF e

\* A vector at p goes on at n, in no bracket that it has opened.
LeadsOut(c, p, n) ==
  n <= Len(c) => n >= 1 /\ c[n] \in Brackets /\ Depth(c, n - 1) = Depth(c, p) - 1

LEMMA VectorReads ==
  ASSUME NEW c \in Seq(Symbols), Tidy(c), c[1] = "[", NEW p \in 1 .. Len(c), c[p] = "[", c[p + 1] # "[",
         parse_vector(c, p).type \notin Failing
  PROVE  /\ ReadsNumbers(c, parse_vector(c, p), p)
         /\ LeadsOut(c, p, parse_vector(c, p).next)
<1> DEFINE L == Len(c)
           q == p + 1
           all == Elements(c)[q]
           e == all.pos
           n == Skipped(c, e + 1)
<1>1. L \in Nat /\ \A k \in 1 .. L : c[k] \in Symbols
  BY ElementOfSeq
<1>2. p < L /\ c[q] \notin Blanks
  BY TidyOpens
<1>3. q \in 1 .. L /\ q # 1 /\ q - 1 = p /\ p \in Nat
  BY <1>1, <1>2
<1>4. q \in ElementPlaces(c, q)
  <2>1. c[q] \in Symbols
    BY <1>1, <1>3
  <2>2. c[q] \in Digits \/ c[q] = "]"
    BY <1>2, <2>1, SymbolsAre
  <2>3. c[p] \notin Digits
    BY DEF Digits
  <2>4. c[q] = "]" \/ q \in Numbers(c)
    <3>1. c[q] \in Digits => q \in Numbers(c)
      BY <1>3, <2>3, NumbersAre
    <3> QED BY <2>2, <3>1
  <2>5. Plain(c, q, q) /\ q \in q .. Len(c) + 1
    BY <1>1, <1>3 DEF Plain
  <2> QED BY <2>4, <2>5 DEF ElementPlaces
<1>5. /\ HasRead(c, all, q) /\ e \in q .. L + 1 /\ Plain(c, q, e)
      /\ e = L + 1 \/ c[e] = "]"
  BY <1>3, <1>4, ElementsRead
<1>6. /\ parse_vector(c, p).type = "vector"
      /\ parse_vector(c, p).reads = all.reads
      /\ parse_vector(c, p).next = n
      /\ ~(Len(all.reads) < 4) /\ ~(Len(all.reads) > 4)
  BY <1>1, VectorIs
<1>7. n \in p + 2 .. L + 2
  <2>1. parse_vector(c, p).next \in p + 2 .. Len(c) + 2
    BY <1>1, VectorIs
  <2> QED BY <1>6, <2>1
<1> HIDE DEF all
<1>8. e + 1 \in 1 .. L + 2 /\ e \in Nat /\ e >= q
  <2>1. e \in q .. L + 1
    BY <1>5
  <2> HIDE DEF L, e
  <2> QED BY <1>1, <1>3, <2>1
<1>9. n \in e + 1 .. L + 2 /\ \A k \in e + 1 .. n - 1 : k \in 1 .. L /\ c[k] \in Blanks
  BY <1>1, <1>8, SkippedIs, SkippedBlanks
<1> HIDE DEF n, e
<1>10. NumbersIn(c, q, e) = NumbersIn(c, p, n)
  <2>1. \A k \in p .. q - 1 : k \notin Numbers(c)
    <3>1. c[p] \notin Digits
      BY DEF Digits
    <3>2. p \notin Numbers(c)
      BY <3>1, NumbersAre
    <3>3. \A k \in p .. q - 1 : k = p
      BY <1>3
    <3> QED BY <3>2, <3>3
  <2>2. ASSUME NEW k \in e .. n - 1  PROVE k \notin Numbers(c)
    <3>1. k = e \/ k \in e + 1 .. n - 1
      BY <1>8, <1>9
    <3>2. e \notin Numbers(c)
      <4>1. e \in 1 .. L => c[e] = "]"
        <5>1. e \in 1 .. L => e # L + 1
          BY <1>1
        <5> QED BY <1>5, <5>1
      <4>2. "]" \notin Digits
        BY DEF Digits
      <4> QED BY <4>1, <4>2, NumbersAre
    <3>3. k \in e + 1 .. n - 1 => c[k] \notin Digits
      BY <1>9, SymbolsAre
    <3> QED BY <3>1, <3>2, <3>3, NumbersAre
  <2>3. p \in Nat /\ q \in Nat /\ e \in Nat /\ n \in Nat /\ p <= q /\ q <= e /\ e <= n
    BY <1>3, <1>8, <1>9
  <2> HIDE DEF q
  <2> QED BY <2>1, <2>2, <2>3, NumbersWiden
<1>11. ReadsNumbers(c, parse_vector(c, p), p)
  <2> DEFINE lit == parse_vector(c, p)
             r == all.reads
  <2>1. r = NumbersIn(c, q, e)
    BY <1>5 DEF HasRead, e
  <2>2. Len(r) \in Nat
    <3>1. q \in Nat /\ e \in Nat /\ q <= e /\ e <= e
      BY <1>3, <1>8
    <3> HIDE DEF q
    <3>2. Len(NumbersIn(c, q, e)) \in Nat
      BY <3>1, NumbersJoin
    <3> QED BY <2>1, <3>2
  <2>3. lit.reads = r /\ lit.next = n /\ lit.type = "vector" /\ ~(Len(r) < 4) /\ ~(Len(r) > 4)
    BY <1>6
  <2>a. ~(Len(r) < 4) /\ ~(Len(r) > 4)
    BY <1>6
  <2> HIDE DEF lit, r
  <2>4. Len(r) = 4
    <3> DEFINE x == Len(r)
    <3>1. x \in Nat /\ ~(x < 4) /\ ~(x > 4)
      BY <2>2, <2>a
    <3> HIDE DEF x
    <3>2. x = 4
      BY <3>1
    <3> QED BY <3>2 DEF x
  <2>5. SizeOf(lit.type) = 32
    BY <2>3 DEF SizeOf
  <2>6. ReadsNumbers(c, lit, p)
    BY <1>10, <2>1, <2>3, <2>4, <2>5 DEF ReadsNumbers
  <2> QED BY <2>6 DEF lit
<1>12. LeadsOut(c, p, n)
  <2> SUFFICES ASSUME n <= L  PROVE n >= 1 /\ c[n] \in Brackets /\ Depth(c, n - 1) = Depth(c, p) - 1
    BY DEF LeadsOut
  <2>1. e \in 1 .. L /\ e # L + 1 /\ p \in 0 .. L /\ e - 1 \in p .. L /\ e \in 0 .. L /\ n - 1 \in e .. L /\ n >= 1
    <3> HIDE DEF L, q
    <3>1. q = p + 1
      BY DEF q
    <3> QED BY <1>1, <1>3, <1>8, <1>9, <3>1
  <2>2. c[e] = "]"
    BY <1>5, <2>1
  <2>3. c[n] \in Brackets
    BY <2>1, <2>2, AfterBracket DEF n
  <2>4. Depth(c, e - 1) = Depth(c, p)
    <3>1. \A k \in p + 1 .. e - 1 : c[k] \notin Brackets
      BY <1>5 DEF Plain
    <3> QED BY <2>1, <3>1, DepthSame
  <2>5. Depth(c, e) = Depth(c, e - 1) - 1
    BY <2>1, <2>2, DepthStep
  <2>6. Depth(c, n - 1) = Depth(c, e)
    <3>1. \A k \in e + 1 .. n - 1 : c[k] \notin Brackets
      BY <1>9, SymbolsAre
    <3> QED BY <2>1, <3>1, DepthSame
  <2> QED BY <2>1, <2>3, <2>4, <2>5, <2>6
<1> QED BY <1>6, <1>11, <1>12

\* Where the vectors of a matrix are, and what closes it
VectorPlaces(c) == {n \in 1 .. Len(c) + 2 : n <= Len(c) => c[n] \in Brackets /\ Depth(c, n - 1) = 1}

LEMMA VectorGoesOn ==
  ASSUME NEW c \in Seq(Symbols), Tidy(c), c[1] = "[", NEW n \in VectorPlaces(c),
         GoesOn(VectorLits(c), Closing(c), n)
  PROVE  ReadsNumbers(c, VectorLits(c)[n], n) /\ VectorLits(c)[n].next \in VectorPlaces(c)
<1> DEFINE L == Len(c)
           v == parse_vector(c, n)
<1>1. L \in Nat /\ n \in 1 .. L + 2
  BY DEF VectorPlaces
<1>2. n \in 1 .. L /\ VectorLits(c)[n] = v /\ v.type \notin Failing
  <2>1. VectorLits(c)[n].type \notin Failing
    BY DEF GoesOn
  <2>2. n \in 1 .. L
    BY <1>1, <2>1, VectorsOnward
  <2>3. VectorLits(c)[n] = v
    BY <1>1, <2>2, VectorsOnward
  <2> QED BY <2>1, <2>2, <2>3
<1>3. c[n] = "[" /\ Depth(c, n - 1) = 1
  <2>1. n \notin Closing(c)
    BY DEF GoesOn
  <2>2. c[n] # "]"
    BY <1>2, <2>1 DEF Closing
  <2>3. c[n] \in Brackets /\ Depth(c, n - 1) = 1
    BY <1>2 DEF VectorPlaces
  <2> QED BY <2>2, <2>3 DEF Brackets
<1>4. Depth(c, n) = 2
  BY <1>2, <1>3, DepthStep
<1>5. c[n + 1] # "["
  <2> SUFFICES ASSUME c[n + 1] = "["  PROVE FALSE
    OBVIOUS
  <2>1. n < L
    BY <1>2, <1>3, TidyOpens
  <2> DEFINE k == n + 1
  <2>2. k \in 1 .. L /\ k - 1 = n /\ c[k] = "["
    BY <1>1, <1>2, <2>1
  <2> HIDE DEF k
  <2>3. Depth(c, k) = Depth(c, k - 1) + 1
    BY <2>2, DepthStep
  <2>4. Depth(c, k) \in 0 .. 2
    BY <2>2, TidyDepth
  <2> QED BY <1>4, <2>2, <2>3, <2>4
<1>6. ReadsNumbers(c, v, n) /\ LeadsOut(c, n, v.next)
  BY <1>2, <1>3, <1>5, VectorReads
<1>7. v.next \in n + 2 .. L + 2
  BY <1>1, <1>2, VectorIs
<1> HIDE DEF v
<1>8. v.next \in VectorPlaces(c)
  <2>1. v.next \in 1 .. L + 2
    <3> HIDE DEF L
    <3> QED BY <1>1, <1>7
  <2>2. v.next <= L => c[v.next] \in Brackets /\ Depth(c, v.next - 1) = 1
    <3>1. 2 - 1 = 1
      OBVIOUS
    <3> QED BY <1>4, <1>6, <3>1 DEF LeadsOut
  <2> QED BY <2>1, <2>2 DEF VectorPlaces
<1> QED BY <1>2, <1>6, <1>8

LEMMA VectorsRead ==
  ASSUME NEW c \in Seq(Symbols), Tidy(c), c[1] = "[", NEW n \in VectorPlaces(c)
  PROVE  HasRead(c, Vectors(c)[n], n) /\ Vectors(c)[n].pos \in VectorPlaces(c)
<1> DEFINE N == Len(c) + 2
           lits == VectorLits(c)
           stops == Closing(c)
           G == VectorPlaces(c)
<1>1. Len(c) \in Nat /\ N \in Nat
  OBVIOUS
<1>2. Onward(N, lits, stops) /\ Vectors(c) = Loop(lits, stops)
  BY VectorsOnward
<1>3. G \in SUBSET (1 .. N)
  BY DEF VectorPlaces
<1>4. \A k \in G : GoesOn(lits, stops, k) => ReadsNumbers(c, lits[k], k) /\ lits[k].next \in G
  BY VectorGoesOn
<1>5. n \in G
  OBVIOUS
<1> HIDE DEF N, lits, stops, G
<1>6. Keeps(G, lits, stops)
  BY <1>4 DEF Keeps
<1>7. \A k \in G : GoesOn(lits, stops, k) => ReadsNumbers(c, lits[k], k)
  BY <1>4
<1>8. HasRead(c, Loop(lits, stops)[n], n)
  BY <1>1, <1>2, <1>3, <1>5, <1>6, <1>7, LoopReads
<1>9. Loop(lits, stops)[n].pos \in G
  BY <1>1, <1>2, <1>3, <1>5, <1>6, LoopEnds
<1> QED BY <1>2, <1>8, <1>9 DEF G

\* Behind a literal of a line with brackets another one begins, or nothing is.
Opens(c, n) == n <= Len(c) => n >= 1 /\ c[n] = "[" /\ Depth(c, n - 1) = 0

LEMMA OutsideOpens ==
  ASSUME NEW c \in Seq(Symbols), Tidy(c), NEW n \in 1 .. Len(c), c[n] \in Brackets, Depth(c, n - 1) = 0
  PROVE  c[n] = "["
<1>1. c[n] = "]" => Depth(c, n) = 0 - 1
  BY DepthStep
<1>2. Depth(c, n) \in 0 .. 2
  BY TidyDepth
<1>3. c[n] # "]"
  BY <1>1, <1>2
<1> QED BY <1>3 DEF Brackets

LEMMA MatrixReads ==
  ASSUME NEW c \in Seq(Symbols), Tidy(c), c[1] = "[", NEW p \in 1 .. Len(c) - 1, c[p] = "[", Depth(c, p - 1) = 0,
         c[p + 1] = "[", Matrix(c, Vectors(c)[p + 1]).type \notin Failing
  PROVE  /\ ReadsNumbers(c, Matrix(c, Vectors(c)[p + 1]), p)
         /\ Opens(c, Matrix(c, Vectors(c)[p + 1]).next)
         /\ Matrix(c, Vectors(c)[p + 1]).next \in p + 1 .. Len(c) + 2
<1> DEFINE L == Len(c)
           q == p + 1
           all == Vectors(c)[q]
           e == all.pos
           n == Skipped(c, e + 1)
           lit == Matrix(c, all)
           r == all.reads
<1>1. L \in Nat /\ p \in 1 .. L /\ q \in 1 .. L /\ q - 1 = p /\ p \in Nat
  OBVIOUS
<1>2. Depth(c, p) = 1
  BY <1>1, DepthStep
<1>3. q \in VectorPlaces(c)
  BY <1>1, <1>2 DEF VectorPlaces, Brackets
<1>4. /\ HasRead(c, all, q) /\ e \in VectorPlaces(c)
  BY <1>3, VectorsRead
<1>5. /\ ~(Len(r) < 16) /\ ~(Len(r) > 16) /\ e \in q .. L /\ c[e] = "]"
      /\ lit = Literal("matrix", r, n)
  BY <1>1, MatrixIs
<1>6. lit.type = "matrix" /\ lit.reads = r /\ lit.next = n
  <2> HIDE DEF lit, r, n
  <2> QED BY <1>5 DEF Literal
<1> HIDE DEF all, lit, r
<1>7. r = NumbersIn(c, q, e)
  BY <1>4 DEF HasRead, r, e
<1> HIDE DEF e
<1>8. e \in 1 .. L /\ e \in Nat /\ q <= e
  <2>1. e \in q .. L
    BY <1>5
  <2> HIDE DEF L, q
  <2> QED BY <1>1, <2>1
<1>9. n \in e + 1 .. L + 1 /\ (\A k \in e + 1 .. n - 1 : c[k] \in Blanks) /\ (n <= L => c[n] \in Brackets)
  BY <1>5, <1>8, AfterBracket
<1> HIDE DEF n
<1>10. NumbersIn(c, q, e) = NumbersIn(c, p, n)
  <2>1. \A k \in p .. q - 1 : k \notin Numbers(c)
    <3>1. c[p] \notin Digits
      BY DEF Digits
    <3>2. p \notin Numbers(c)
      BY <3>1, NumbersAre
    <3>3. \A k \in p .. q - 1 : k = p
      BY <1>1
    <3> QED BY <3>2, <3>3
  <2>2. ASSUME NEW k \in e .. n - 1  PROVE k \notin Numbers(c)
    <3>1. k = e \/ k \in e + 1 .. n - 1
      BY <1>8, <1>9
    <3>2. c[e] \notin Digits
      BY <1>5 DEF Digits
    <3>3. k \in e + 1 .. n - 1 => c[k] \notin Digits
      BY <1>9, SymbolsAre
    <3> QED BY <3>1, <3>2, <3>3, NumbersAre
  <2>3. p \in Nat /\ q \in Nat /\ e \in Nat /\ n \in Nat /\ p <= q /\ q <= e /\ e <= n
    BY <1>1, <1>8, <1>9
  <2> HIDE DEF q
  <2> QED BY <2>1, <2>2, <2>3, NumbersWiden
<1>11. Len(r) \in Nat
  <2>1. q \in Nat /\ e \in Nat /\ q <= e /\ e <= e
    BY <1>1, <1>8
  <2> HIDE DEF q
  <2>2. Len(NumbersIn(c, q, e)) \in Nat
    BY <2>1, NumbersJoin
  <2> QED BY <1>7, <2>2
<1>12. Len(r) = 16
  <2> DEFINE x == Len(r)
  <2>1. x \in Nat /\ ~(x < 16) /\ ~(x > 16)
    BY <1>5, <1>11
  <2> HIDE DEF x
  <2>2. x = 16
    BY <2>1
  <2> QED BY <2>2 DEF x
<1>13. SizeOf(lit.type) = 128
  BY <1>6 DEF SizeOf
<1>14. ReadsNumbers(c, lit, p)
  <2>1. lit.reads = NumbersIn(c, p, lit.next)
    BY <1>6, <1>7, <1>10
  <2>2. SizeOf(lit.type) = 8 * Len(lit.reads)
    <3>1. 8 * 16 = 128
      OBVIOUS
    <3> QED BY <1>6, <1>12, <1>13, <3>1
  <2> QED BY <2>1, <2>2 DEF ReadsNumbers
<1>15. Opens(c, n)
  <2> SUFFICES ASSUME n <= L  PROVE n >= 1 /\ c[n] = "[" /\ Depth(c, n - 1) = 0
    BY DEF Opens
  <2>1. n \in 1 .. L /\ n >= 1 /\ e \in 0 .. L /\ n - 1 \in e .. L
    <3> HIDE DEF L
    <3> QED BY <1>1, <1>8, <1>9
  <2>2. Depth(c, e - 1) = 1
    BY <1>4, <1>8 DEF VectorPlaces
  <2>3. Depth(c, e) = 0
    <3>1. Depth(c, e) = Depth(c, e - 1) - 1
      BY <1>5, <1>8, DepthStep
    <3> QED BY <2>2, <3>1
  <2>4. Depth(c, n - 1) = Depth(c, e)
    <3>1. \A k \in e + 1 .. n - 1 : c[k] \notin Brackets
      BY <1>9, SymbolsAre
    <3> QED BY <2>1, <3>1, DepthSame
  <2>5. c[n] = "["
    BY <1>9, <2>1, <2>3, <2>4, OutsideOpens
  <2> QED BY <2>1, <2>3, <2>4, <2>5
<1>16. n \in p + 1 .. L + 2
  <2>1. q = p + 1
    OBVIOUS
  <2> HIDE DEF L, q
  <2> QED BY <1>1, <1>8, <1>9, <2>1
<1> QED BY <1>6, <1>14, <1>15, <1>16 DEF lit, all

LEMMA CompositeReads ==
  ASSUME NEW c \in Seq(Symbols), Tidy(c), c[1] = "[", NEW p \in 1 .. Len(c), c[p] = "[", Depth(c, p - 1) = 0,
         parse_composite(c, p).type \notin Failing
  PROVE  /\ ReadsNumbers(c, parse_composite(c, p), p)
         /\ Opens(c, parse_composite(c, p).next)
         /\ parse_composite(c, p).next \in p + 1 .. Len(c) + 2
<1> DEFINE L == Len(c)
           q == p + 1
<1>1. L \in Nat /\ \A k \in 1 .. L : c[k] \in Symbols
  BY ElementOfSeq
<1>2. p < L /\ c[q] \notin Blanks
  BY TidyOpens
<1>3. q \in 1 .. L /\ q <= L /\ p \in 1 .. L - 1
  BY <1>1, <1>2
<1>4. Content(c, p) = q
  <2> DEFINE S == Symbols \ {" "}
             d == Content(c, p)
  <2>1. c[q] \in S
    <3>1. c[q] \in Symbols
      BY <1>1, <1>3
    <3>2. c[q] # " "
      BY <1>2 DEF Blanks
    <3> QED BY <3>1, <3>2
  <2>2. d \in q .. L + 1 /\ \A k \in q .. d - 1 : c[k] \notin S
    BY <1>1, ContentIs
  <2> HIDE DEF d, S
  <2>3. ~(d > q)
    <3>1. d > q => q \in q .. d - 1
      BY <1>3, <2>2
    <3> QED BY <2>1, <2>2, <3>1
  <2>4. d = q
    BY <1>3, <2>2, <2>3
  <2> QED BY <2>4 DEF d
<1>5. parse_composite(c, p) = IF q <= L /\ c[q] = "[" THEN Matrix(c, Vectors(c)[q]) ELSE parse_vector(c, p)
  BY <1>1, <1>4, ContentIs
<1>6. CASE c[q] = "["
  <2>1. parse_composite(c, p) = Matrix(c, Vectors(c)[q])
    BY <1>3, <1>5, <1>6
  <2>2. Matrix(c, Vectors(c)[q]).type \notin Failing
    BY <2>1
  <2>3. /\ ReadsNumbers(c, Matrix(c, Vectors(c)[q]), p)
        /\ Opens(c, Matrix(c, Vectors(c)[q]).next)
        /\ Matrix(c, Vectors(c)[q]).next \in p + 1 .. Len(c) + 2
    BY <1>3, <1>6, <2>2, MatrixReads
  <2> QED BY <2>1, <2>3
<1>7. CASE c[q] # "["
  <2> DEFINE v == parse_vector(c, p)
             n == v.next
  <2>1. parse_composite(c, p) = v
    BY <1>5, <1>7
  <2>2. ReadsNumbers(c, v, p) /\ LeadsOut(c, p, n)
    BY <1>7, <2>1, VectorReads
  <2>3. n \in p + 2 .. L + 2
    BY <1>1, <2>1, VectorIs
  <2> HIDE DEF v, n
  <2>4. n \in p + 1 .. L + 2 /\ n \in Nat
    <3> HIDE DEF L, q
    <3> QED BY <1>1, <2>3
  <2>5. Depth(c, p) = 1
    BY DepthStep
  <2>6. ASSUME n <= L  PROVE n >= 1 /\ c[n] = "[" /\ Depth(c, n - 1) = 0
    <3>1. n >= 1 /\ c[n] \in Brackets /\ Depth(c, n - 1) = 0
      BY <2>2, <2>5, <2>6 DEF LeadsOut
    <3>2. n \in 1 .. L
      <4> HIDE DEF L
      <4> QED BY <1>1, <2>4, <2>6, <3>1
    <3> QED BY <3>1, <3>2, OutsideOpens
  <2>7. Opens(c, n)
    BY <2>6 DEF Opens
  <2> QED BY <2>1, <2>2, <2>4, <2>7 DEF n
<1> QED BY <1>6, <1>7

-----------------------------------------------------------------------------
(* A line *)

\* No brackets, where the line begins with a number
LEMMA NoBrackets ==
  ASSUME NEW c \in Seq(Symbols), Tidy(c), c[1] = "1"
  PROVE  \A k \in 1 .. Len(c) : c[k] \notin Brackets
<1> DEFINE T == {d \in Nat : d <= Len(c) => \A k \in 1 .. d : c[k] \notin Brackets}
<1>1. 0 \in T
  OBVIOUS
<1>2. ASSUME NEW d \in T  PROVE d + 1 \in T
  <2> SUFFICES ASSUME d + 1 <= Len(c)  PROVE \A k \in 1 .. d + 1 : c[k] \notin Brackets
    BY <1>2
  <2>1. d \in Nat /\ d <= Len(c) /\ Len(c) \in Nat
    BY <1>2
  <2>2. \A k \in 1 .. d : c[k] \notin Brackets
    BY <1>2, <2>1
  <2> DEFINE m == d + 1
  <2>3. m \in 1 .. Len(c) /\ m - 1 = d /\ m \in Nat /\ 0 \in 0 .. Len(c) /\ d \in 0 .. Len(c)
    BY <2>1
  <2>4. c[m] # "]"
    <3>1. \A k \in 0 + 1 .. d : c[k] \notin Brackets
      BY <2>2
    <3>2. Depth(c, d) = Depth(c, 0)
      BY <2>3, <3>1, DepthSame
    <3>3. Depth(c, d) = 0
      BY <3>2, DepthZero
    <3> HIDE DEF m
    <3>4. c[m] = "]" => Depth(c, m) = 0 - 1
      BY <2>3, <3>3, DepthStep
    <3>5. Depth(c, m) \in 0 .. 2
      BY <2>3, TidyDepth
    <3> QED BY <3>4, <3>5
  <2>5. c[m] # "["
    <3> SUFFICES ASSUME c[m] = "["  PROVE FALSE
      OBVIOUS
    <3>1. m # 1
      OBVIOUS
    <3> DEFINE S == Symbols \ Blanks
               i == Previous(c, m, S)
    <3> HIDE DEF m
    <3>2. c[i] \in Brackets
      BY <2>3, <3>1, TidyBefore
    <3>3. c[1] \in S
      <4>1. c[1] \in Digits
        BY DEF Digits
      <4> QED BY <4>1, SymbolsAre
    <3>4. 1 \in 1 .. m - 1
      BY <2>3, <3>1
    <3> HIDE DEF S
    <3>5. i \in 1 .. m - 1
      BY <2>3, <3>3, <3>4, PreviousAt
    <3> QED BY <2>2, <2>3, <3>2, <3>5
  <2>6. c[m] \notin Brackets
    BY <2>4, <2>5 DEF Brackets
  <2>7. \A k \in 1 .. d + 1 : k = m \/ k \in 1 .. d
    BY <2>1
  <2> QED BY <2>2, <2>6, <2>7
<1>3. T = Nat
  <2>1. T \in SUBSET Nat
    OBVIOUS
  <2> HIDE DEF T
  <2> QED BY <1>1, <1>2, <2>1, SetInduction
<1>4. Len(c) \in T
  BY <1>3
<1> QED BY <1>4

\* The places the loop over a line goes on at
LinePlaces(c) ==
  {n \in 1 .. Len(c) + 2 : IF c[1] = "[" THEN Opens(c, n) ELSE n <= Len(c) => n \in Numbers(c)}

LEMMA LineGoesOn ==
  ASSUME NEW c \in Seq(Symbols), Tidy(c), c[1] \in {"[", "1"}, NEW n \in LinePlaces(c),
         GoesOn(LineLits(c), Behind(c), n)
  PROVE  ReadsNumbers(c, LineLits(c)[n], n) /\ LineLits(c)[n].next \in LinePlaces(c)
<1> DEFINE L == Len(c)
<1>1. L \in Nat /\ n \in 1 .. L + 2
  BY DEF LinePlaces
<1>2. n \in 1 .. L
  <2>1. n # L + 1 /\ n # L + 2
    BY DEF GoesOn, Behind
  <2> HIDE DEF L
  <2> QED BY <1>1, <2>1
<1>3. LineLits(c)[n] = consume_lit(c, n) /\ LineLits(c)[n].type \notin Failing
  BY <1>1, <1>2, LineOnward DEF GoesOn
<1>4. CASE c[1] = "["
  <2> DEFINE lit == parse_composite(c, n)
  <2>1. LineLits(c)[n] = lit /\ lit.type \notin Failing
    BY <1>3, <1>4 DEF consume_lit
  <2>2. Opens(c, n)
    BY <1>4 DEF LinePlaces
  <2>3. c[n] = "[" /\ Depth(c, n - 1) = 0
    BY <1>2, <2>2 DEF Opens
  <2>4. ReadsNumbers(c, lit, n) /\ Opens(c, lit.next) /\ lit.next \in n + 1 .. L + 2
    BY <1>2, <1>4, <2>1, <2>3, CompositeReads
  <2> HIDE DEF lit
  <2>5. lit.next \in 1 .. L + 2
    <3> HIDE DEF L
    <3> QED BY <1>1, <1>2, <2>4
  <2>6. lit.next \in LinePlaces(c)
    BY <1>4, <2>4, <2>5 DEF LinePlaces
  <2> QED BY <2>1, <2>4, <2>6
<1>5. CASE c[1] = "1"
  <2> DEFINE lit == parse_simple(c, n)
  <2>1. LineLits(c)[n] = lit
    BY <1>3, <1>5 DEF consume_lit
  <2>2. n \in Numbers(c)
    BY <1>2, <1>5 DEF LinePlaces
  <2>3. lit.next \in n + 1 .. Len(c) + 1
    BY <2>2, SimpleReads
  <2>4. ReadsNumbers(c, lit, n)
    BY <2>2, SimpleReads
  <2>5. lit.next <= Len(c) => c[lit.next] \in Brackets \/ lit.next \in Numbers(c)
    BY <2>2, SimpleReads
  <2> HIDE DEF lit
  <2> DEFINE m == lit.next
  <2>6. m \in n + 1 .. L + 1 /\ (m <= L => c[m] \in Brackets \/ m \in Numbers(c))
    BY <2>3, <2>5
  <2> HIDE DEF m
  <2>7. m \in 1 .. L + 2 /\ (m <= L => m \in 1 .. L)
    <3> HIDE DEF L
    <3> QED BY <1>1, <1>2, <2>6
  <2>8. m <= L => m \in Numbers(c)
    BY <1>5, <2>6, <2>7, NoBrackets
  <2>9. m \in LinePlaces(c)
    BY <1>5, <2>7, <2>8 DEF LinePlaces
  <2> QED BY <2>1, <2>4, <2>9 DEF m
<1> QED BY <1>4, <1>5

LEMMA InOrderIs ==
  ASSUME NEW c \in Seq(Symbols)
  PROVE  InOrder(c) = NumbersIn(c, 1, Len(c) + 1)
<1>1. Len(c) \in Nat
  OBVIOUS
<1> DEFINE m == Len(c)
<1> HIDE DEF m
<1>2. m \in Nat
  BY <1>1 DEF m
<1>3. Part(1, m + 1) = [k \in 1 .. m |-> k]
  <2>1. (m + 1) - 1 = m /\ \A k \in 1 .. m : 1 + k - 1 = k
    BY <1>2
  <2> QED BY <2>1 DEF Part
<1> QED BY <1>3 DEF InOrder, NumbersIn, m

\* A tidy line that is compiled is compiled to its numbers, in their order.
LEMMA LineReads ==
  ASSUME NEW c \in Seq(Symbols), c # <<>>, Tidy(c), c[1] \in {"[", "1"}, Compiled(c).end = "ok"
  PROVE  Compiled(c).reads = InOrder(c) /\ Compiled(c).length = 8 * Len(InOrder(c)) /\ InOrder(c) \in Seq(Nat)
<1> DEFINE N == Len(c) + 2
           lits == LineLits(c)
           stops == Behind(c)
           G == LinePlaces(c)
           L == Len(c)
           all == Compiled(c)
           e == all.pos
<1>1. L \in Nat /\ L # 0 /\ N \in Nat /\ L >= 1
  BY EmptySeq
<1>2. Onward(N, lits, stops) /\ all = Loop(lits, stops)[1]
  BY LineOnward
<1>3. G \in SUBSET (1 .. N)
  BY DEF LinePlaces
<1>4. \A k \in G : GoesOn(lits, stops, k) => ReadsNumbers(c, lits[k], k) /\ lits[k].next \in G
  BY LineGoesOn
<1>5. 1 \in G
  <2>1. 1 \in 1 .. Len(c) + 2 /\ 1 \in 1 .. Len(c)
    BY <1>1
  <2>2. c[1] = "[" => Opens(c, 1)
    <3>1. Depth(c, 1 - 1) = 0
      BY DepthZero
    <3> QED BY <3>1 DEF Opens
  <2>3. c[1] = "1" => 1 \in Numbers(c)
    BY <2>1, NumbersAre DEF Digits
  <2> QED BY <2>1, <2>2, <2>3 DEF LinePlaces
<1>6. L + 1 \in stops /\ L + 2 \in stops /\ \A x \in stops : x = L + 1 \/ x = L + 2
  BY DEF Behind
<1> HIDE DEF N, lits, stops, G, all
<1>7. Keeps(G, lits, stops)
  BY <1>4 DEF Keeps
<1>8. \A k \in G : GoesOn(lits, stops, k) => ReadsNumbers(c, lits[k], k)
  BY <1>4
<1>9. HasRead(c, all, 1)
  BY <1>1, <1>2, <1>3, <1>5, <1>7, <1>8, LoopReads
<1>10. all.end = IF e \in stops THEN "ok"
                 ELSE IF lits[e].type \in Failing THEN lits[e].type ELSE "loops"
  BY <1>1, <1>2, <1>3, <1>5, <1>7, LoopEnds
<1>11. all.end = "ok"
  BY DEF all
<1>12. e \in stops
  BY <1>10, <1>11 DEF Failing
<1> HIDE DEF e, L
<1>13. NumbersIn(c, 1, L + 1) = NumbersIn(c, 1, e)
  <2>1. e = L + 1 \/ e = L + 2
    BY <1>6, <1>12
  <2>2. ASSUME NEW k \in L + 1 .. e - 1  PROVE k \notin Numbers(c)
    <3>1. k \notin 1 .. L
      BY <1>1, <2>1
    <3> QED BY <3>1, NumbersAre DEF L
  <2>3. \A k \in 1 .. 1 - 1 : k \notin Numbers(c)
    OBVIOUS
  <2> DEFINE m == L + 1
  <2>4. 1 \in Nat /\ m \in Nat /\ e \in Nat /\ 1 <= 1 /\ 1 <= m /\ m <= e
    BY <1>1, <2>1
  <2>5. \A k \in m .. e - 1 : k \notin Numbers(c)
    BY <2>2
  <2> HIDE DEF m
  <2>6. NumbersIn(c, 1, m) = NumbersIn(c, 1, e)
    BY <2>3, <2>4, <2>5, NumbersWiden
  <2> QED BY <2>6 DEF m
<1>14. InOrder(c) = NumbersIn(c, 1, L + 1)
  BY InOrderIs DEF L
<1>15. all.reads = InOrder(c) /\ all.length = 8 * Len(InOrder(c))
  BY <1>9, <1>13, <1>14 DEF HasRead, e
<1>16. NumbersIn(c, 1, L + 1) \in Seq(Nat)
  <2> DEFINE m == L + 1
  <2>1. 1 \in Nat /\ m \in Nat /\ 1 <= m /\ m <= m
    BY <1>1
  <2> HIDE DEF m
  <2>2. NumbersIn(c, 1, m) \in Seq(Nat)
    BY <2>1, NumbersJoin
  <2> QED BY <2>2 DEF m
<1> QED BY <1>14, <1>15, <1>16 DEF all

-----------------------------------------------------------------------------
(* A data definition whose lines are tidy, and the theorems.               *)

\* A tidy line of a definition: what it is compiled to
ReadWhole(c) ==
  Compiled(c).reads = InOrder(c) /\ Compiled(c).length = 8 * Len(InOrder(c)) /\ InOrder(c) \in Seq(Nat)

LEMMA ContentReads ==
  ASSUME NEW l \in ContentLine, Compiled(l.text).end = "ok", Tidy(l.text)
  PROVE  ReadWhole(l.text)
<1>1. l \in SourceLine /\ l.first \in {"[", "1", " ", "t"} /\ l.text \in Seq(STRING)
  BY DEF ContentLine, BodyLine, KeptLine, SourceLine, Line
<1>2. CASE l.first \in {"[", "1"}
  <2>1. l.text \in Seq(Symbols) /\ l.text # <<>> /\ l.text[1] = l.first
    BY <1>1, <1>2 DEF SourceLine
  <2>2. l.text[1] \in {"[", "1"}
    BY <1>2, <2>1
  <2> QED BY <2>1, <2>2, LineReads DEF ReadWhole
<1>3. CASE l.first \in {" ", "t"}
  <2>1. l.text # <<>> /\ l.text[1] \notin {"[", "1"}
    BY <1>1, <1>3 DEF SourceLine
  <2>2. l.text \in Seq(STRING)
    BY <1>1
  <2>3. Len(l.text) \in Nat
    BY <2>2
  <2>4. Len(l.text) = 0
    BY <2>1, <2>3, OthersRefused
  <2> QED BY <2>1, <2>2, <2>4, EmptySeq
<1> QED BY <1>1, <1>2, <1>3

\* Eight bytes for each number, line by line or all at once
Widths == [s \in Seq(Nat) |-> 8 * Len(s)]

LEMMA WidthOf ==
  ASSUME NEW ss \in Seq(Seq(Nat))
  PROVE  Total(Each(ss, Widths)) = 8 * Len(FlattenSeq(ss))
<1> DEFINE h == Widths
           P == {uu \in Seq(Seq(Nat)) : Total(Each(uu, h)) = 8 * Len(FlattenSeq(uu))}
<1>1. h \in [Seq(Nat) -> Nat] /\ \A t \in Seq(Nat) : h[t] = 8 * Len(t)
  BY DEF Widths
<1> HIDE DEF h
<1>2. <<>> \in P
  <2>1. Each(<<>>, h) = <<>> /\ Total(<<>>) = 0 /\ FlattenSeq(<<>>) = <<>>
    BY EachEmpty, TotalEmpty, FlattenEmpty
  <2>2. Len(<<>>) = 0 /\ <<>> \in Seq(Seq(Nat)) /\ 8 * 0 = 0
    OBVIOUS
  <2> QED BY <2>1, <2>2
<1>3. ASSUME NEW uu \in P, NEW t \in Seq(Nat)  PROVE Append(uu, t) \in P
  <2> DEFINE f == FlattenSeq(uu)
             e == Each(uu, h)
             a == Len(f)
             b == Len(t)
  <2>1. /\ uu \in Seq(Seq(Nat)) /\ Append(uu, t) \in Seq(Seq(Nat)) /\ f \in Seq(Nat)
        /\ Total(e) = 8 * a
    BY <1>3, AppendProperties, FlattenType
  <2>2. e \in Seq(Nat) /\ h[t] \in Nat /\ h[t] = 8 * b
    BY <1>1, <2>1, EachType
  <2>3. Each(Append(uu, t), h) = Append(e, h[t])
    BY <1>1, <2>1, EachAppend
  <2> HIDE DEF e
  <2>4. Total(Append(e, h[t])) = Total(e) + h[t]
    BY <2>2, TotalAppend
  <2>5. FlattenSeq(Append(uu, t)) = f \o t
    BY <2>1, FlattenAppend
  <2> HIDE DEF f
  <2>6. Len(f \o t) = a + b /\ a \in Nat /\ b \in Nat
    BY <2>1, ConcatLen
  <2> HIDE DEF a, b
  <2>7. 8 * a + 8 * b = 8 * (a + b)
    BY <2>6
  <2>8. Total(Each(Append(uu, t), h)) = 8 * Len(FlattenSeq(Append(uu, t)))
    BY <2>1, <2>2, <2>3, <2>4, <2>5, <2>6, <2>7
  <2> QED BY <2>1, <2>8
<1>4. P = Seq(Seq(Nat))
  <2>1. P \in SUBSET Seq(Seq(Nat))
    OBVIOUS
  <2> HIDE DEF P
  <2> QED BY <1>2, <1>3, <2>1, SeqInduction
<1> QED BY <1>4 DEF h

\* A definition whose lines are tidy
TidyDef(d) == \A k \in DOMAIN d.content : Tidy(d.content[k].text)
NumbersOf(d) == [k \in DOMAIN d.content |-> InOrder(d.content[k].text)]

LEMMA DefinitionReads ==
  ASSUME NEW names, NEW d \in Def, TidyDef(d), \A k \in DOMAIN d.content : CompiledLine(d, k).end = "ok"
  PROVE  DataOf(names, d).reads = NumbersOf(d) /\ DataOf(names, d).length = 8 * Len(FlattenSeq(NumbersOf(d)))
<1> DEFINE m == Len(d.content)
           numbers == NumbersOf(d)
<1>1. d.content \in Seq(ContentLine)
  BY DEF Def
<1>2. m \in Nat /\ DOMAIN d.content = 1 .. m
  BY <1>1, LenProperties
<1>3. ASSUME NEW k \in DOMAIN d.content  PROVE ReadWhole(d.content[k].text)
  <2>1. d.content[k] \in ContentLine
    BY <1>1, <1>2, ElementOfSeq
  <2>2. Tidy(d.content[k].text) /\ Compiled(d.content[k].text).end = "ok"
    BY DEF TidyDef, CompiledLine
  <2> QED BY <2>1, <2>2, ContentReads
<1>4. \A k \in DOMAIN d.content :
        /\ CompiledLine(d, k).reads = InOrder(d.content[k].text)
        /\ CompiledLine(d, k).length = 8 * Len(InOrder(d.content[k].text))
        /\ InOrder(d.content[k].text) \in Seq(Nat)
  BY <1>3 DEF ReadWhole, CompiledLine
<1>5. DataOf(names, d).reads = numbers
  BY <1>4 DEF DataOf, NumbersOf
<1>6. numbers \in [1 .. m -> Seq(Nat)] /\ \A k \in 1 .. m : CompiledLine(d, k).length = 8 * Len(numbers[k])
  BY <1>2, <1>4 DEF NumbersOf
<1>7. DataOf(names, d).length = Total([k \in 1 .. m |-> 8 * Len(numbers[k])])
  <2>1. [k \in DOMAIN d.content |-> CompiledLine(d, k).length] = [k \in 1 .. m |-> 8 * Len(numbers[k])]
    BY <1>2, <1>6
  <2> QED BY <2>1 DEF DataOf
<1> HIDE DEF m, numbers
<1>8. numbers \in Seq(Seq(Nat)) /\ Len(numbers) = m
  BY <1>2, <1>6
<1>9. Each(numbers, Widths) = [k \in 1 .. m |-> 8 * Len(numbers[k])]
  <2>1. \A k \in 1 .. m : Widths[numbers[k]] = 8 * Len(numbers[k])
    BY <1>6 DEF Widths
  <2> QED BY <1>8, <2>1 DEF Each
<1>10. Total(Each(numbers, Widths)) = 8 * Len(FlattenSeq(numbers))
  BY <1>8, WidthOf
<1> QED BY <1>5, <1>7, <1>9, <1>10 DEF numbers

LEMMA NumbersAreInPlace == Inv => NumbersInPlace
<1> SUFFICES ASSUME Inv, pc = "done", NEW n \in DOMAIN defs, \A k \in Lines(n) : Tidy(defs[n].content[k].text)
             PROVE  LET numbers == [k \in Lines(n) |-> InOrder(defs[n].content[k].text)]
                    IN  /\ datas[n].reads = numbers
                        /\ datas[n].length = 8 * Len(FlattenSeq(numbers))
  BY DEF NumbersInPlace
<1>1. defs \in Seq(Def) /\ AllCompiled(defs) /\ datas = DatasOf(labels, defs)
  BY DoneIs
<1>2. n \in 1 .. Len(defs)
  BY <1>1, LenProperties
<1>3. defs[n] \in Def
  BY <1>1, <1>2, ElementOfSeq
<1>4. datas[n] = DataOf(labels, defs[n])
  BY <1>1, <1>2 DEF DatasOf
<1>5. TidyDef(defs[n])
  BY DEF TidyDef, Lines
<1>6. \A k \in DOMAIN defs[n].content : CompiledLine(defs[n], k).end = "ok"
  BY <1>1, <1>2 DEF AllCompiled
<1>7. /\ DataOf(labels, defs[n]).reads = NumbersOf(defs[n])
      /\ DataOf(labels, defs[n]).length = 8 * Len(FlattenSeq(NumbersOf(defs[n])))
  BY <1>3, <1>5, <1>6, DefinitionReads
<1>8. NumbersOf(defs[n]) = [k \in Lines(n) |-> InOrder(defs[n].content[k].text)]
  BY DEF NumbersOf, Lines
<1> QED BY <1>4, <1>7, <1>8

-----------------------------------------------------------------------------
(* What holds of every image. *)

\* Whatever definitions come before it, the id of a definition is its own and
\* leads through an offset of the storage indices to its flags, its length and
\* its data: what set_storage sums up is where collapse_file puts them
\* (identify.c:42-56; file.c:31-39, 103-121).
THEOREM IdsLeadToDataHolds == Spec => []IdsLeadToData
<1>1. Inv => IdsLeadToData
  BY IdsLead
<1> QED BY <1>1, AssemblerInv, PTL

\* The offset of every event's index leads to the length of its instructions,
\* and its instructions are what follows (file.c:54-74, 128-143), as long as
\* there are no more sections than parse_sections has room for: behind that
\* nothing is said.
THEOREM EventsLeadToCodeHolds == Spec => []EventsLeadToCode
<1>1. Inv => EventsLeadToCode
  BY EventsLead
<1> QED BY <1>1, AssemblerInv, PTL

\* The instructions of the image are the lines below the headers of events,
\* each once, to its last operand and in the order of the source
\* (parse.c:109-134; reduce.c:124-136; compile.c:13-37; file.c:54-74), for as
\* many lines as there are, in no more sections than there is room for.
THEOREM CodeCompleteHolds == Spec => []CodeComplete
<1>1. Inv => CodeComplete
  BY CodeIsComplete
<1> QED BY <1>1, AssemblerInv, PTL

\* A definition whose lines are tidy has a place of eight bytes in its data for
\* each of its numbers, in their order, whatever vectors and matrices they are
\* in: what consume_lit and its parsers read from a line of any length, when
\* they get to its end, is its numbers (literal.c:9-112; data.c:42-73).  What
\* compile_lit copies to these places is less, and not what this is about.
THEOREM NumbersInPlaceHolds == Spec => []NumbersInPlace
<1>1. Inv => NumbersInPlace
  BY NumbersAreInPlace
<1> QED BY <1>1, AssemblerInv, PTL
=============================================================================
