---------------------------- MODULE DatabaseProofs -----------------------------
(***************************************************************************)
(* Proofs about the two parts of the database, for tables of any size: the *)
(* broadcasts and range_timestamp, for fields of any width and a year of   *)
(* any length that fits; then the routing knowledge.                       *)
(***************************************************************************)
EXTENDS Database, WellFoundedInduction, TLAPS

-----------------------------------------------------------------------------
(* Arithmetic of the fields. *)

\* A sum of two residues, one carry aside, wraps at most once.
LEMMA Wrap ==
  ASSUME NEW n \in Nat \ {0}, NEW x \in Int, -n <= x, x < 2 * n
  PROVE  x % n = IF x < 0 THEN x + n ELSE IF x < n THEN x ELSE x - n
<1>1. CASE x < 0
  BY <1>1, Z3
<1>2. CASE 0 <= x /\ x < n
  BY <1>2, Z3
<1>3. CASE n <= x
  BY <1>3, Z3
<1> QED BY <1>1, <1>2, <1>3

\* The two lower fields count up to Half, in their lexicographic order.
LEMMA OffsetBounds ==
  ASSUME NEW t \in Timestamp \cup Interval
  PROVE  Offset(t) \in 0 .. Half - 1
<1> USE TimestampsAssumption
<1>1. t.seconds \in 0 .. Seconds - 1 /\ t.subseconds \in 0 .. Subseconds - 1
  BY DEF Timestamp, Interval
<1>2. t.seconds * Subseconds <= (Seconds - 1) * Subseconds
  BY <1>1, Z3
<1>3. t.seconds * Subseconds \in Nat
  BY <1>1, Z3
<1>4. (Seconds - 1) * Subseconds = Seconds * Subseconds - Subseconds
  BY Z3
<1> QED BY <1>1, <1>2, <1>3, <1>4 DEF Offset, Half

LEMMA OrderOfOffsets ==
  ASSUME NEW t \in Timestamp \cup Interval, NEW u \in Timestamp \cup Interval
  PROVE  /\ Before(t, u) <=> Offset(t) < Offset(u)
         /\ Offset(t) = Offset(u) <=> t.seconds = u.seconds /\ t.subseconds = u.subseconds
<1> USE TimestampsAssumption
<1>1. /\ t.seconds \in 0 .. Seconds - 1 /\ t.subseconds \in 0 .. Subseconds - 1
      /\ u.seconds \in 0 .. Seconds - 1 /\ u.subseconds \in 0 .. Subseconds - 1
  BY DEF Timestamp, Interval
<1> DEFINE a == t.seconds * Subseconds
           b == u.seconds * Subseconds
<1>2. a \in Nat /\ b \in Nat
  BY <1>1, Z3
<1>3. t.seconds < u.seconds => a + Subseconds <= b
  <2>1. ASSUME t.seconds + 1 <= u.seconds  PROVE (t.seconds + 1) * Subseconds <= u.seconds * Subseconds
    BY <1>1, <2>1, Z3
  <2>2. (t.seconds + 1) * Subseconds = a + Subseconds
    BY <1>1, Z3
  <2> QED BY <1>1, <2>1, <2>2
<1>4. u.seconds < t.seconds => b + Subseconds <= a
  <2>1. ASSUME u.seconds + 1 <= t.seconds  PROVE (u.seconds + 1) * Subseconds <= t.seconds * Subseconds
    BY <1>1, <2>1, Z3
  <2>2. (u.seconds + 1) * Subseconds = b + Subseconds
    BY <1>1, Z3
  <2> QED BY <1>1, <2>1, <2>2
<1>5. t.seconds = u.seconds => a = b
  OBVIOUS
<1>6. Offset(t) = a + t.subseconds /\ Offset(u) = b + u.subseconds
  BY DEF Offset
<1> HIDE DEF a, b
<1> QED BY <1>1, <1>2, <1>3, <1>4, <1>5, <1>6 DEF Before

\* Of an interval of at most half a turn the seconds leave room for a carry.
LEMMA RoomForCarry ==
  ASSUME NEW delta \in Interval, AtMostHalf(delta)
  PROVE  delta.seconds < Seconds - 1 \/ delta.subseconds = 0
<1> USE TimestampsAssumption
<1>1. delta.seconds \in 0 .. Seconds - 1 /\ delta.subseconds \in 0 .. Subseconds - 1
  BY DEF Interval
<1>2. SUFFICES ASSUME delta.seconds = Seconds - 1, delta.subseconds > 0
               PROVE  FALSE
  BY <1>1
<1>3. Offset(delta) = Half - Subseconds + delta.subseconds
  BY <1>2, Z3 DEF Offset, Half
<1>4. Half >= 2 * Subseconds /\ Half \in Int
  BY Z3 DEF Half
<1>5. 2 * Offset(delta) <= Half
  BY DEF AtMostHalf
<1> QED BY <1>1, <1>2, <1>3, <1>4, <1>5

-----------------------------------------------------------------------------
(* The two ends of the window. *)

LEMMA LaterIsSum ==
  ASSUME NEW c \in Timestamp, NEW delta \in Interval, AtMostHalf(delta)
  PROVE  /\ Later(c, delta) \in Timestamp
         /\ IF Offset(c) + Offset(delta) < Half
              THEN /\ Later(c, delta).yearity = c.yearity
                   /\ Offset(Later(c, delta)) = Offset(c) + Offset(delta)
              ELSE /\ Later(c, delta).yearity = Other(c.yearity)
                   /\ Offset(Later(c, delta)) = (Offset(c) + Offset(delta)) - Half
<1> USE TimestampsAssumption
<1>1. /\ c.seconds \in 0 .. Seconds - 1 /\ c.subseconds \in 0 .. Subseconds - 1 /\ c.yearity \in 0 .. 1
      /\ delta.seconds \in 0 .. Seconds - 1 /\ delta.subseconds \in 0 .. Subseconds - 1
  BY DEF Timestamp, Interval
<1> DEFINE u == c.subseconds + delta.subseconds
           sub == u % Subseconds
           carry == IF sub < c.subseconds THEN 1 ELSE 0
           s == c.seconds + delta.seconds + carry
           sec == s % Seconds
           max == Later(c, delta)
<1>6. max = [yearity |-> IF sec < c.seconds THEN Other(c.yearity) ELSE c.yearity, seconds |-> sec, subseconds |-> sub]
  BY DEF Later
<1>a. u \in Int /\ -Subseconds <= u /\ u < 2 * Subseconds /\ 0 <= u
  BY <1>1
<1>b. u = c.subseconds + delta.subseconds
  OBVIOUS
<1> HIDE DEF u
<1>c. sub = IF u < Subseconds THEN u ELSE u - Subseconds
  <2>1. u % Subseconds = IF u < 0 THEN u + Subseconds ELSE IF u < Subseconds THEN u ELSE u - Subseconds
    BY <1>a, Wrap
  <2> QED BY <1>a, <2>1
<1>d. carry = IF u < Subseconds THEN 0 ELSE 1
  BY <1>1, <1>a, <1>b, <1>c
<1> HIDE DEF sub, carry
<1>e. /\ s \in Int /\ -Seconds <= s /\ s < 2 * Seconds /\ 0 <= s
      /\ s = c.seconds + delta.seconds + carry
  BY <1>1, <1>d
<1> HIDE DEF s
<1>3. sec = IF s < Seconds THEN s ELSE s - Seconds
  <2>1. s % Seconds = IF s < 0 THEN s + Seconds ELSE IF s < Seconds THEN s ELSE s - Seconds
    BY <1>e, Wrap
  <2> QED BY <1>e, <2>1
<1> HIDE DEF sec, max
<1>4. s >= Seconds => sec < c.seconds
  <2>1. CASE delta.seconds < Seconds - 1
    BY <1>1, <1>d, <1>e, <1>3, <2>1
  <2>2. CASE delta.subseconds = 0
    BY <1>1, <1>a, <1>b, <1>d, <1>e, <1>3, <2>2
  <2> QED BY <2>1, <2>2, RoomForCarry
<1>5. s < Seconds => sec >= c.seconds
  BY <1>1, <1>d, <1>e, <1>3
<1>f. sec \in 0 .. Seconds - 1 /\ sub \in 0 .. Subseconds - 1
  BY <1>a, <1>c, <1>e, <1>3
<1>g. max.yearity = (IF s < Seconds THEN c.yearity ELSE Other(c.yearity)) /\ max.seconds = sec /\ max.subseconds = sub
  BY <1>1, <1>4, <1>5, <1>6, <1>e, <1>f
<1>7. max \in Timestamp
  <2>1. (IF sec < c.seconds THEN Other(c.yearity) ELSE c.yearity) \in 0 .. 1
    BY <1>1 DEF Other
  <2> QED BY <1>6, <1>f, <2>1 DEF Timestamp
<1>8. sec * Subseconds = s * Subseconds - (IF s < Seconds THEN 0 ELSE Half)
  <2>1. (s - Seconds) * Subseconds = s * Subseconds - Half
    BY <1>e, Z3 DEF Half
  <2>2. s * Subseconds \in Int
    BY <1>e, Z3
  <2> QED BY <1>3, <2>1, <2>2
<1>9. s * Subseconds = c.seconds * Subseconds + delta.seconds * Subseconds + carry * Subseconds
  BY <1>1, <1>d, <1>e, Z3
<1>10. carry * Subseconds + sub = u
  BY <1>a, <1>c, <1>d
<1>11. Offset(max) = (Offset(c) + Offset(delta)) - (IF s < Seconds THEN 0 ELSE Half)
  <2>1. /\ c.seconds * Subseconds \in Int /\ delta.seconds * Subseconds \in Int /\ carry * Subseconds \in Int
        /\ Half \in Int
    BY <1>1, <1>d, Z3 DEF Half
  <2>2. Offset(max) = sec * Subseconds + sub
    BY <1>g DEF Offset
  <2> DEFINE p == c.seconds * Subseconds
             q == delta.seconds * Subseconds
             r == carry * Subseconds
  <2>3. Offset(c) = p + c.subseconds /\ Offset(delta) = q + delta.subseconds
    BY DEF Offset
  <2> DEFINE x == s * Subseconds
             y == sec * Subseconds
  <2>4. x = p + q + r /\ y = x - (IF s < Seconds THEN 0 ELSE Half)
    BY <1>8, <1>9
  <2>5. r + sub = u /\ p \in Int /\ q \in Int /\ r \in Int
    BY <1>10, <2>1
  <2>6. Offset(max) = y + sub
    BY <2>2
  <2> HIDE DEF p, q, r, x, y
  <2>7. Offset(c) + Offset(delta) = p + q + u
    BY <1>1, <1>a, <1>b, <2>3, <2>5
  <2>8. p + q + u = x + sub
    BY <1>a, <1>f, <2>4, <2>5
  <2>9. y + sub = (x + sub) - (IF s < Seconds THEN 0 ELSE Half)
    BY <1>f, <2>1, <2>4, <2>5
  <2>10. x + sub = Offset(c) + Offset(delta)
    BY <2>7, <2>8
  <2> QED BY <2>6, <2>9, <2>10
<1>12. Offset(max) \in 0 .. Half - 1 /\ Offset(c) \in 0 .. Half - 1 /\ Offset(delta) \in 0 .. Half - 1
  BY <1>7, OffsetBounds
<1>13. Half \in Int
  BY Z3 DEF Half
<1>14. s < Seconds <=> Offset(c) + Offset(delta) < Half
  BY <1>11, <1>12, <1>13
<1> QED BY <1>7, <1>11, <1>12, <1>13, <1>14, <1>g DEF max
LEMMA EarlierIsDifference ==
  ASSUME NEW c \in Timestamp, NEW delta \in Interval, AtMostHalf(delta)
  PROVE  /\ Earlier(c, delta) \in Timestamp
         /\ IF Offset(delta) <= Offset(c)
              THEN /\ Earlier(c, delta).yearity = c.yearity
                   /\ Offset(Earlier(c, delta)) = Offset(c) - Offset(delta)
              ELSE /\ Earlier(c, delta).yearity = Other(c.yearity)
                   /\ Offset(Earlier(c, delta)) = (Offset(c) - Offset(delta)) + Half
<1> USE TimestampsAssumption
<1>1. /\ c.seconds \in 0 .. Seconds - 1 /\ c.subseconds \in 0 .. Subseconds - 1 /\ c.yearity \in 0 .. 1
      /\ delta.seconds \in 0 .. Seconds - 1 /\ delta.subseconds \in 0 .. Subseconds - 1
  BY DEF Timestamp, Interval
<1> DEFINE u == c.subseconds - delta.subseconds
           sub == u % Subseconds
           borrow == IF sub > c.subseconds THEN 1 ELSE 0
           s == c.seconds - delta.seconds - borrow
           sec == s % Seconds
           min == Earlier(c, delta)
<1>2. min = [yearity |-> IF sec > c.seconds THEN Other(c.yearity) ELSE c.yearity, seconds |-> sec, subseconds |-> sub]
  BY DEF Earlier
<1>3. /\ u \in Int /\ -Subseconds <= u /\ u < 2 * Subseconds /\ u < Subseconds
      /\ u = c.subseconds - delta.subseconds
  BY <1>1
<1> HIDE DEF u
<1>4. sub = IF u < 0 THEN u + Subseconds ELSE u
  <2>1. u % Subseconds = IF u < 0 THEN u + Subseconds ELSE IF u < Subseconds THEN u ELSE u - Subseconds
    BY <1>3, Wrap
  <2> QED BY <1>3, <2>1
<1>5. borrow = IF u < 0 THEN 1 ELSE 0
  BY <1>1, <1>3, <1>4
<1> HIDE DEF sub, borrow
<1>6. /\ s \in Int /\ -Seconds <= s /\ s < 2 * Seconds /\ s < Seconds
      /\ s = c.seconds - delta.seconds - borrow
  BY <1>1, <1>5
<1> HIDE DEF s
<1>7. sec = IF s < 0 THEN s + Seconds ELSE s
  <2>1. s % Seconds = IF s < 0 THEN s + Seconds ELSE IF s < Seconds THEN s ELSE s - Seconds
    BY <1>6, Wrap
  <2> QED BY <1>6, <2>1
<1> HIDE DEF sec, min
<1>8. s < 0 => sec > c.seconds
  <2>1. CASE delta.seconds < Seconds - 1
    BY <1>1, <1>5, <1>6, <1>7, <2>1
  <2>2. CASE delta.subseconds = 0
    BY <1>1, <1>3, <1>5, <1>6, <1>7, <2>2
  <2> QED BY <2>1, <2>2, RoomForCarry
<1>9. s >= 0 => sec <= c.seconds
  BY <1>1, <1>5, <1>6, <1>7
<1>10. sec \in 0 .. Seconds - 1 /\ sub \in 0 .. Subseconds - 1
  BY <1>3, <1>4, <1>6, <1>7
<1>11. min.yearity = (IF s < 0 THEN Other(c.yearity) ELSE c.yearity) /\ min.seconds = sec /\ min.subseconds = sub
  BY <1>1, <1>2, <1>6, <1>8, <1>9, <1>10
<1>12. min \in Timestamp
  <2>1. (IF sec > c.seconds THEN Other(c.yearity) ELSE c.yearity) \in 0 .. 1
    BY <1>1 DEF Other
  <2> QED BY <1>2, <1>10, <2>1 DEF Timestamp
<1> DEFINE p == c.seconds * Subseconds
           q == delta.seconds * Subseconds
           r == borrow * Subseconds
           x == s * Subseconds
           y == sec * Subseconds
<1>13. Half \in Int /\ p \in Int /\ q \in Int /\ x \in Int
  BY <1>1, <1>6, Z3 DEF Half
<1>14. r = IF u < 0 THEN Subseconds ELSE 0
  BY <1>3, <1>5
<1>15. x = p - q - r
  BY <1>1, <1>5, <1>6, Z3
<1>16. y = x + (IF s < 0 THEN Half ELSE 0)
  <2>1. (s + Seconds) * Subseconds = s * Subseconds + Half
    BY <1>6, Z3 DEF Half
  <2> QED BY <1>7, <1>13, <2>1
<1>17. Offset(c) = p + c.subseconds /\ Offset(delta) = q + delta.subseconds /\ Offset(min) = y + sub
  BY <1>11 DEF Offset
<1> HIDE DEF p, q, r, x, y
<1>18. Offset(min) = (Offset(c) - Offset(delta)) + (IF s < 0 THEN Half ELSE 0)
  <2>1. Offset(c) - Offset(delta) = (p - q) + u
    BY <1>1, <1>3, <1>13, <1>17
  <2>2. (p - q) + u = x + sub
    BY <1>3, <1>4, <1>13, <1>14, <1>15
  <2>3. y + sub = (x + sub) + (IF s < 0 THEN Half ELSE 0)
    BY <1>10, <1>13, <1>16
  <2> QED BY <1>17, <2>1, <2>2, <2>3
<1>19. Offset(min) \in 0 .. Half - 1 /\ Offset(c) \in 0 .. Half - 1 /\ Offset(delta) \in 0 .. Half - 1
  BY <1>12, OffsetBounds
<1>20. s < 0 <=> ~(Offset(delta) <= Offset(c))
  BY <1>6, <1>13, <1>18, <1>19
<1> QED BY <1>6, <1>11, <1>12, <1>13, <1>18, <1>19, <1>20 DEF min

-----------------------------------------------------------------------------
(* The words compare as their offsets when the parity is the same. *)

LEMMA OrderOfBits ==
  ASSUME NEW t \in Timestamp, NEW u \in Timestamp, t.yearity = u.yearity
  PROVE  /\ Bits(t) < Bits(u) <=> Offset(t) < Offset(u)
         /\ Bits(t) = Bits(u) <=> Offset(t) = Offset(u)
<1> USE TimestampsAssumption
<1> DEFINE a == t.yearity * Half
<1>1. a \in Int /\ Half \in Int
  BY Z3 DEF Half, Timestamp
<1>2. Offset(t) \in Int /\ Offset(u) \in Int
  BY <1>1, OffsetBounds
<1>3. Bits(t) = a + Offset(t) /\ Bits(u) = a + Offset(u)
  BY DEF Bits
<1> HIDE DEF a
<1>4. Bits(t) < Bits(u) <=> Offset(t) < Offset(u)
  BY <1>1, <1>2, <1>3
<1>5. Bits(t) = Bits(u) <=> Offset(t) = Offset(u)
  BY <1>1, <1>2, <1>3
<1> QED BY <1>4, <1>5

\* What range_timestamp computes: the fields count on to the end of theirs, as
\* if each year had as many seconds.
FieldSeconds(t, c, delta) ==
  IF t.yearity = c.yearity
    THEN \/ Offset(t) = Offset(c)
         \/ Elapsed(t, c) < Offset(delta) /\ Elapsed(c, t) < Offset(delta)
    ELSE \/ (Half - Offset(t)) + Offset(c) < Offset(delta)
         \/ (Half - Offset(c)) + Offset(t) < Offset(delta)

\* That is all it computes, for intervals of at most half the fields.
LEMMA RangeIsWithinFields ==
  ASSUME NEW t \in Timestamp, NEW c \in Readings, NEW delta \in Interval, AtMostHalf(delta)
  PROVE  range_timestamp(t, c, delta) <=> FieldSeconds(t, c, delta)
<1> USE TimestampsAssumption
<1> DEFINE max == Later(c, delta)
           min == Earlier(c, delta)
           T == Offset(t)
           C == Offset(c)
           D == Offset(delta)
<1>1. c \in Timestamp
  BY DEF Readings
<1>2. max \in Timestamp /\ min \in Timestamp
  BY <1>1, LaterIsSum, EarlierIsDifference
<1>3. T \in 0 .. Half - 1 /\ C \in 0 .. Half - 1 /\ D \in 0 .. Half - 1 /\ Half \in Int
  <2>1. Half \in Int
    BY Z3 DEF Half
  <2> QED BY <1>1, <2>1, OffsetBounds
<1>4. 2 * D <= Half
  BY DEF AtMostHalf
<1>5. IF C + D < Half THEN max.yearity = c.yearity /\ Offset(max) = C + D
                      ELSE max.yearity = Other(c.yearity) /\ Offset(max) = (C + D) - Half
  BY <1>1, LaterIsSum
<1>6. IF D <= C THEN min.yearity = c.yearity /\ Offset(min) = C - D
                ELSE min.yearity = Other(c.yearity) /\ Offset(min) = (C - D) + Half
  BY <1>1, EarlierIsDifference
<1>7. Before(t, max) <=> T < Offset(max)
  BY <1>2, OrderOfOffsets
<1>8. Before(min, t) <=> Offset(min) < T
  BY <1>2, OrderOfOffsets
<1>9. c.yearity \in 0 .. 1 /\ t.yearity \in 0 .. 1
  BY <1>1 DEF Timestamp
<1>10. CASE t.yearity = c.yearity
  <2>1. /\ Bits(t) > Bits(c) <=> T > C
        /\ Bits(t) < Bits(c) <=> T < C
        /\ Bits(t) = Bits(c) <=> T = C
    <3>1. /\ Bits(t) < Bits(c) <=> T < C
          /\ Bits(t) = Bits(c) <=> T = C
      BY <1>1, <1>10, OrderOfBits
    <3>2. Bits(c) < Bits(t) <=> C < T
      BY <1>1, <1>10, OrderOfBits
    <3> QED BY <3>1, <3>2
  <2>2. range_timestamp(t, c, delta) <=>
          \/ T > C /\ (max.yearity # t.yearity \/ Before(t, max))
          \/ T < C /\ (min.yearity # t.yearity \/ Before(min, t))
          \/ T = C
    BY <1>10, <2>1 DEF range_timestamp
  <2>3. FieldSeconds(t, c, delta) <=> T = C \/ (C - T < D /\ T - C < D)
    BY <1>10 DEF FieldSeconds, Elapsed
  <2>4. Other(c.yearity) # c.yearity
    BY <1>9 DEF Other
  <2> HIDE DEF max, min, T, C, D
  <2>5. CASE T > C
    BY <1>3, <1>4, <1>5, <1>7, <1>10, <2>2, <2>3, <2>4, <2>5
  <2>6. CASE T < C
    BY <1>3, <1>4, <1>6, <1>8, <1>10, <2>2, <2>3, <2>4, <2>6
  <2> QED BY <1>3, <2>2, <2>3, <2>5, <2>6
<1>11. CASE t.yearity # c.yearity
  <2>1. t.yearity = Other(c.yearity) /\ Other(c.yearity) # c.yearity
    BY <1>9, <1>11 DEF Other
  <2>2. range_timestamp(t, c, delta) <=>
          IF min.yearity = t.yearity THEN Before(min, t)
                                     ELSE max.yearity = t.yearity /\ Before(t, max)
    BY <1>11 DEF range_timestamp
  <2>4. FieldSeconds(t, c, delta) <=> (Half - T) + C < D \/ (Half - C) + T < D
    BY <1>11 DEF FieldSeconds
  <2> HIDE DEF max, min, T, C, D
  <2>5. CASE D <= C
    BY <1>3, <1>4, <1>5, <1>6, <1>7, <2>1, <2>2, <2>4, <2>5
  <2>6. CASE ~(D <= C)
    BY <1>3, <1>4, <1>6, <1>8, <2>1, <2>2, <2>4, <2>6
  <2> QED BY <2>5, <2>6
<1> QED BY <1>10, <1>11

\* A year is no longer than the field of its seconds: range_timestamp errs on
\* one side only, and over a new year only.
LEMMA RangeIsWithin ==
  ASSUME NEW t \in Timestamp, NEW c \in Readings, NEW delta \in Interval, AtMostHalf(delta)
  PROVE  /\ range_timestamp(t, c, delta) => Within(t, c, delta)
         /\ t.yearity = c.yearity /\ Within(t, c, delta) => range_timestamp(t, c, delta)
<1> USE TimestampsAssumption
<1> DEFINE y == YearSeconds * Subseconds
           T == Offset(t)
           C == Offset(c)
           D == Offset(delta)
<1>1. c \in Timestamp
  BY DEF Readings
<1>2. Half \in Int /\ y \in Int /\ y <= Half
  BY Z3 DEF Half
<1>3. T \in Int /\ C \in Int /\ D \in Int
  BY <1>1, <1>2, OffsetBounds
<1>4. ElapsedOverNewYear(t, c) = y - T + C /\ ElapsedOverNewYear(c, t) = y - C + T
  BY DEF ElapsedOverNewYear
<1>5. range_timestamp(t, c, delta) <=> FieldSeconds(t, c, delta)
  BY RangeIsWithinFields
<1>6. CASE t.yearity = c.yearity
  BY <1>5, <1>6 DEF FieldSeconds, Within
<1>7. CASE t.yearity # c.yearity
  <2>1. FieldSeconds(t, c, delta) <=> (Half - T) + C < D \/ (Half - C) + T < D
    BY <1>7 DEF FieldSeconds
  <2>2. Within(t, c, delta) <=> y - T + C < D \/ y - C + T < D
    BY <1>4, <1>7 DEF Within
  <2> HIDE DEF y, T, C, D
  <2>3. /\ (Half - T) + C < D => y - T + C < D
        /\ (Half - C) + T < D => y - C + T < D
    BY <1>2, <1>3
  <2> QED BY <1>5, <1>7, <2>1, <2>2, <2>3
<1> QED BY <1>6, <1>7

-----------------------------------------------------------------------------
(* The broadcasts. *)

\* What bind_int makes of a date: its offset in an even year, negative in an odd one.
LEMMA BoundValue ==
  ASSUME NEW t \in Timestamp
  PROVE  /\ Bound(t) \in Int /\ Half \in Int /\ Offset(t) \in Int
         /\ t.yearity \in 0 .. 1
         /\ Bound(t) < Half
         /\ t.yearity = 0 => Bound(t) = Offset(t) /\ Bound(t) >= 0
         /\ t.yearity = 1 => Bound(t) < 0
<1> USE TimestampsAssumption
<1>1. t.yearity \in 0 .. 1
  BY DEF Timestamp
<1>2. Half \in Nat
  BY Z3 DEF Half
<1>3. Offset(t) \in 0 .. Half - 1
  BY OffsetBounds
<1>4. CASE t.yearity = 0
  <2>1. Bits(t) = Offset(t) /\ Bound(t) = Bits(t)
    BY <1>2, <1>3, <1>4 DEF Bits, Bound
  <2> QED BY <1>2, <1>3, <1>4, <2>1
<1>5. CASE t.yearity = 1
  <2>1. Bits(t) = Half + Offset(t) /\ Bound(t) = Bits(t) - 2 * Half
    BY <1>2, <1>3, <1>5 DEF Bits, Bound
  <2> QED BY <1>2, <1>3, <1>5, <2>1
<1> QED BY <1>1, <1>4, <1>5

Dated == \A n \in DOMAIN broadcasts : \E d \in Timestamp : broadcasts[n].timestamp = Bound(d)

LEMMA DateOfRow ==
  ASSUME Dated, NEW n \in DOMAIN broadcasts
  PROVE  DateOf(n) \in Timestamp /\ broadcasts[n].timestamp = Bound(DateOf(n))
BY DEF Dated, DateOf

\* The rows a query selects are those of even years, from a time on; a query
\* for an odd year selects none.
LEMMA Selects ==
  ASSUME Dated, NEW y \in 0 .. 1, NEW least \in Int
  PROVE  /\ y = 1 => Matching(y, least) = {}
         /\ y = 0 => Matching(y, least) = {n \in DOMAIN broadcasts : broadcasts[n].timestamp >= least}
<1>1. \A n \in DOMAIN broadcasts : broadcasts[n].timestamp \in Int /\ Half \in Int /\ broadcasts[n].timestamp < Half
  BY DateOfRow, BoundValue
<1>2. \A n \in DOMAIN broadcasts : ~(broadcasts[n].timestamp >= Half)
  BY <1>1
<1>3. y = 1 => Matching(y, least) = {}
  BY <1>2 DEF Matching
<1>4. ASSUME y = 0
      PROVE  Matching(y, least) = {n \in DOMAIN broadcasts : broadcasts[n].timestamp >= least}
  BY <1>1, <1>4 DEF Matching
<1> QED BY <1>3, <1>4

\* The rows, the arguments, and what is in bs at each location.
BroadcastsInv ==
  /\ bpc \in {"idle", "first", "second", "done", "undefined"}
  /\ asked \in Timestamp /\ now \in Readings
  /\ broadcasts \in Seq([timestamp : Int, ident : 0 .. Idents - 1])
  /\ Dated
  /\ stored \in 0 .. Len(broadcasts)
  /\ bpc \in {"idle", "first"} => bs = {}
  /\ bpc = "second" => now.yearity # asked.yearity
  /\ \A b \in bs : b.message \in DOMAIN broadcasts /\ Since(b.message) /\ DateOf(b.message).yearity = 0
  /\ bpc \in {"second", "done"} /\ asked.yearity = 0 =>
       \A n \in 1 .. stored : broadcasts[n].timestamp >= Bound(asked) => \E b \in bs : b.message = n
  /\ bpc = "done" /\ asked.yearity = 1 /\ now.yearity = 0 =>
       \A n \in 1 .. stored : broadcasts[n].timestamp >= 0 => \E b \in bs : b.message = n

LEMMA NeverIsReading == Never \in Timestamp /\ Never \in Readings
BY TimestampsAssumption DEF Never, Timestamp, Readings

LEMMA InitInv == BroadcastsInit => BroadcastsInv
<1> SUFFICES ASSUME BroadcastsInit PROVE BroadcastsInv
  OBVIOUS
<1>1. <<>> \in Seq([timestamp : Int, ident : 0 .. Idents - 1])
  OBVIOUS
<1>2. Never \in Timestamp /\ Never \in Readings
  BY NeverIsReading
<1> QED BY <1>1, <1>2 DEF BroadcastsInit, AtRest, BroadcastsInv, Dated

LEMMA AtRestInv ==
  ASSUME BroadcastsInv, AtRest', UNCHANGED broadcasts
  PROVE  BroadcastsInv'
<1>1. Never \in Timestamp /\ Never \in Readings
  BY NeverIsReading
<1>2. Dated'
  BY DEF BroadcastsInv, Dated
<1>3. 0 \in 0 .. Len(broadcasts)
  BY DEF BroadcastsInv
<1>4. /\ bpc' = "idle" /\ asked' = Never /\ now' = Never /\ bs' = {} /\ stored' = 0
  BY DEF AtRest, Never
<1> QED BY <1>1, <1>2, <1>3, <1>4 DEF BroadcastsInv

LEMMA StoreInv ==
  ASSUME BroadcastsInv, StoreBroadcast
  PROVE  BroadcastsInv'
<1> DEFINE Row == [timestamp : Int, ident : 0 .. Idents - 1]
<1>1. PICK date \in Timestamp, ident \in 0 .. Idents - 1 :
        broadcasts' = Append(broadcasts, [timestamp |-> Bound(date), ident |-> ident])
  BY DEF StoreBroadcast
<1> DEFINE row == [timestamp |-> Bound(date), ident |-> ident]
<1>2. row \in Row
  BY BoundValue
<1>3. broadcasts \in Seq(Row) /\ UNCHANGED call
  BY DEF BroadcastsInv, StoreBroadcast
<1> HIDE DEF row
<1>4. /\ broadcasts' \in Seq(Row) /\ Len(broadcasts') = Len(broadcasts) + 1
      /\ \A n \in 1 .. Len(broadcasts) : broadcasts'[n] = broadcasts[n]
      /\ broadcasts'[Len(broadcasts) + 1] = row
      /\ DOMAIN broadcasts' = 1 .. Len(broadcasts) + 1 /\ DOMAIN broadcasts = 1 .. Len(broadcasts)
  <2> HIDE DEF Row
  <2> QED BY <1>1, <1>2, <1>3 DEF row
<1>5. Dated'
  <2> SUFFICES ASSUME NEW n \in DOMAIN broadcasts'
               PROVE  \E d \in Timestamp : broadcasts'[n].timestamp = Bound(d)
    BY DEF Dated, Bound, Bits, Offset, Half
  <2>1. CASE n \in DOMAIN broadcasts
    BY <1>4, <2>1 DEF BroadcastsInv, Dated
  <2>2. CASE n = Len(broadcasts) + 1
    BY <1>4, <2>2 DEF row
  <2> QED BY <1>3, <1>4, <2>1, <2>2
<1>6. \A n \in DOMAIN broadcasts : DateOf(n)' = DateOf(n) /\ Since(n)' = Since(n)
  BY <1>3, <1>4 DEF DateOf, Since, call, Bound, Bits, Offset, Half
<1>7. stored' = stored /\ stored \in 0 .. Len(broadcasts)
  BY <1>3 DEF call, BroadcastsInv
<1>8. \A n \in 1 .. stored : broadcasts'[n] = broadcasts[n]
  BY <1>3, <1>4, <1>7
<1>9. /\ bpc' = bpc /\ asked' = asked /\ now' = now /\ bs' = bs /\ Bound(asked)' = Bound(asked)
  BY <1>3 DEF call, Bound
<1>10. \A b \in bs' : b.message \in DOMAIN broadcasts' /\ Since(b.message)' /\ DateOf(b.message)'.yearity = 0
  <2> TAKE b \in bs'
  <2>1. b.message \in DOMAIN broadcasts /\ Since(b.message) /\ DateOf(b.message).yearity = 0
    BY <1>9 DEF BroadcastsInv
  <2>2. b.message \in DOMAIN broadcasts'
    BY <1>3, <1>4, <2>1
  <2>3. DateOf(b.message)' = DateOf(b.message) /\ Since(b.message)' = Since(b.message)
    BY <1>6, <2>1
  <2>4. Since(b.message)'
    BY <2>1, <2>3, Zenon
  <2>5. DateOf(b.message)'.yearity = 0
    BY <2>1, <2>3, Zenon
  <2> QED BY <2>2, <2>4, <2>5
<1>11. bpc' \in {"second", "done"} /\ asked'.yearity = 0 =>
         \A n \in 1 .. stored' : broadcasts'[n].timestamp >= Bound(asked)' => \E b \in bs' : b.message = n
  BY <1>7, <1>8, <1>9 DEF BroadcastsInv
<1>12. bpc' = "done" /\ asked'.yearity = 1 /\ now'.yearity = 0 =>
         \A n \in 1 .. stored' : broadcasts'[n].timestamp >= 0 => \E b \in bs' : b.message = n
  BY <1>7, <1>8, <1>9 DEF BroadcastsInv
<1>13. /\ bpc' \in {"idle", "first", "second", "done", "undefined"}
       /\ asked' \in Timestamp /\ now' \in Readings
       /\ bpc' \in {"idle", "first"} => bs' = {}
       /\ bpc' = "second" => now'.yearity # asked'.yearity
  BY <1>9 DEF BroadcastsInv
<1>14. stored' \in 0 .. Len(broadcasts') /\ broadcasts' \in Seq(Row)
  BY <1>3, <1>4, <1>7
<1> QED BY <1>5, <1>10, <1>11, <1>12, <1>13, <1>14 DEF BroadcastsInv

LEMMA CallInv ==
  ASSUME BroadcastsInv, CallSince
  PROVE  BroadcastsInv'
<1>1. /\ asked' \in Timestamp /\ now' \in Readings /\ bpc' = "first" /\ stored' = Len(broadcasts)
      /\ broadcasts' = broadcasts /\ bs' = bs /\ bs = {}
  BY DEF CallSince, BroadcastsInv
<1>2. Dated'
  BY <1>1 DEF BroadcastsInv, Dated
<1>3. Len(broadcasts) \in Nat
  BY DEF BroadcastsInv
<1> QED BY <1>1, <1>2, <1>3 DEF BroadcastsInv

\* What both queries leave alone, and the messages they add.
LEMMA FetchAdds ==
  ASSUME BroadcastsInv, NEW rows \in SUBSET DOMAIN broadcasts, NEW next, Fetch(rows, next)
  PROVE  /\ UNCHANGED <<broadcasts, asked, now, stored>> /\ Dated'
         /\ bpc' \in {next, "undefined"}
         /\ \A b \in bs' : b \in bs \/ b.message \in rows
         /\ \A b \in bs : b \in bs'
         /\ \A n \in rows : \E b \in bs' : b.message = n
         /\ \A n \in DOMAIN broadcasts : DateOf(n)' = DateOf(n) /\ Since(n)' = Since(n)
<1>1. /\ UNCHANGED <<broadcasts, asked, now, stored>>
      /\ bs' = bs \cup {RowToBroadcast(n) : n \in rows}
      /\ bpc' \in {next, "undefined"}
  BY DEF Fetch
<1>2. \A n : RowToBroadcast(n).message = n
  BY DEF RowToBroadcast
<1>3. Dated'
  BY <1>1 DEF BroadcastsInv, Dated
<1>4. \A n \in DOMAIN broadcasts : DateOf(n)' = DateOf(n) /\ Since(n)' = Since(n)
  BY <1>1 DEF DateOf, Since
<1> QED BY <1>1, <1>2, <1>3, <1>4

LEMMA FirstQueryInv ==
  ASSUME BroadcastsInv, FirstQuery
  PROVE  BroadcastsInv'
<1> DEFINE rows == Matching(asked.yearity, Bound(asked))
           next == IF now.yearity # asked.yearity THEN "second" ELSE "done"
<1>1. bpc = "first" /\ bs = {} /\ Dated /\ asked \in Timestamp /\ now \in Timestamp /\ Fetch(rows, next)
  BY DEF FirstQuery, BroadcastsInv, Readings
<1>2. /\ asked.yearity \in 0 .. 1 /\ now.yearity \in 0 .. 1 /\ Bound(asked) \in Int
      /\ asked.yearity = 0 => Bound(asked) = Offset(asked) /\ Bound(asked) >= 0 /\ Offset(asked) \in Int
  BY <1>1, BoundValue
<1>3. /\ asked.yearity = 1 => rows = {}
      /\ asked.yearity = 0 => rows = {n \in DOMAIN broadcasts : broadcasts[n].timestamp >= Bound(asked)}
  BY <1>1, <1>2, Selects
<1>4. rows \in SUBSET DOMAIN broadcasts
  BY DEF Matching
<1> HIDE DEF rows, next
<1>5. /\ UNCHANGED <<broadcasts, asked, now, stored>> /\ Dated'
      /\ bpc' \in {next, "undefined"}
      /\ \A b \in bs' : b.message \in rows
      /\ \A n \in rows : \E b \in bs' : b.message = n
      /\ \A n \in DOMAIN broadcasts : DateOf(n)' = DateOf(n) /\ Since(n)' = Since(n)
  BY <1>1, <1>4, FetchAdds
<1>6. \A n \in rows : DateOf(n).yearity = 0 /\ Since(n)
  <2> TAKE n \in rows
  <2>1. asked.yearity = 0 /\ n \in DOMAIN broadcasts /\ broadcasts[n].timestamp >= Bound(asked)
    BY <1>2, <1>3
  <2>2. DateOf(n) \in Timestamp /\ broadcasts[n].timestamp = Bound(DateOf(n))
    BY <1>1, <2>1, DateOfRow
  <2>3. DateOf(n).yearity = 0 /\ Offset(DateOf(n)) = Bound(DateOf(n))
    BY <1>2, <2>1, <2>2, BoundValue
  <2> QED BY <1>2, <2>1, <2>2, <2>3 DEF Since
<1>7. \A b \in bs' : b.message \in DOMAIN broadcasts' /\ Since(b.message)' /\ DateOf(b.message)'.yearity = 0
  BY <1>4, <1>5, <1>6
<1>8. asked'.yearity = 0 =>
        \A n \in 1 .. stored' : broadcasts'[n].timestamp >= Bound(asked)' => \E b \in bs' : b.message = n
  <2> SUFFICES ASSUME asked.yearity = 0, NEW n \in 1 .. stored, broadcasts[n].timestamp >= Bound(asked)
               PROVE  \E b \in bs' : b.message = n
    BY <1>5 DEF Bound
  <2>1. n \in DOMAIN broadcasts
    BY DEF BroadcastsInv
  <2> QED BY <1>3, <1>5, <2>1
<1>9. bpc' \in {"second", "done", "undefined"} /\ (bpc' = "second" => now'.yearity # asked'.yearity)
      /\ (bpc' = "done" => now'.yearity = asked'.yearity)
  BY <1>5 DEF next
<1> QED BY <1>5, <1>7, <1>8, <1>9 DEF BroadcastsInv

LEMMA SecondQueryInv ==
  ASSUME BroadcastsInv, SecondQuery
  PROVE  BroadcastsInv'
<1> DEFINE least == -Half * now.yearity
           rows == Matching(now.yearity, least)
<1>1. /\ bpc = "second" /\ Dated /\ asked \in Timestamp /\ now \in Timestamp /\ Fetch(rows, "done")
      /\ now.yearity # asked.yearity
  BY DEF SecondQuery, BroadcastsInv, Readings
<1>2. asked.yearity \in 0 .. 1 /\ now.yearity \in 0 .. 1 /\ Half \in Int
  BY <1>1, BoundValue
<1>3. least \in Int /\ (now.yearity = 0 => least = 0)
  BY <1>2, Z3
<1> HIDE DEF least
<1>4. /\ now.yearity = 1 => rows = {}
      /\ now.yearity = 0 => rows = {n \in DOMAIN broadcasts : broadcasts[n].timestamp >= least}
  BY <1>1, <1>2, <1>3, Selects
<1>5. rows \in SUBSET DOMAIN broadcasts
  BY DEF Matching
<1> HIDE DEF rows
<1>6. /\ UNCHANGED <<broadcasts, asked, now, stored>> /\ Dated'
      /\ bpc' \in {"done", "undefined"}
      /\ \A b \in bs' : b \in bs \/ b.message \in rows
      /\ \A b \in bs : b \in bs'
      /\ \A n \in rows : \E b \in bs' : b.message = n
      /\ \A n \in DOMAIN broadcasts : DateOf(n)' = DateOf(n) /\ Since(n)' = Since(n)
  BY <1>1, <1>5, FetchAdds
<1>7. \A n \in rows : DateOf(n).yearity = 0 /\ Since(n)
  <2> TAKE n \in rows
  <2>1. now.yearity = 0 /\ n \in DOMAIN broadcasts /\ broadcasts[n].timestamp >= 0
    BY <1>2, <1>3, <1>4
  <2>2. DateOf(n) \in Timestamp /\ broadcasts[n].timestamp = Bound(DateOf(n))
    BY <1>1, <2>1, DateOfRow
  <2>3. DateOf(n).yearity = 0
    BY <2>1, <2>2, BoundValue
  <2> QED BY <1>1, <2>1, <2>3 DEF Since
<1>8. \A b \in bs' : b.message \in DOMAIN broadcasts' /\ Since(b.message)' /\ DateOf(b.message)'.yearity = 0
  BY <1>5, <1>6, <1>7 DEF BroadcastsInv
<1>9. asked'.yearity = 0 =>
        \A n \in 1 .. stored' : broadcasts'[n].timestamp >= Bound(asked)' => \E b \in bs' : b.message = n
  <2> SUFFICES ASSUME asked.yearity = 0, NEW n \in 1 .. stored, broadcasts[n].timestamp >= Bound(asked)
               PROVE  \E b \in bs' : b.message = n
    BY <1>6 DEF Bound
  <2>1. \E b \in bs : b.message = n
    BY <1>1 DEF BroadcastsInv
  <2> QED BY <1>6, <2>1
<1>10. now'.yearity = 0 =>
         \A n \in 1 .. stored' : broadcasts'[n].timestamp >= 0 => \E b \in bs' : b.message = n
  <2> SUFFICES ASSUME now.yearity = 0, NEW n \in 1 .. stored, broadcasts[n].timestamp >= 0
               PROVE  \E b \in bs' : b.message = n
    BY <1>6
  <2>1. n \in DOMAIN broadcasts
    BY DEF BroadcastsInv
  <2> QED BY <1>3, <1>4, <1>6, <2>1
<1> QED BY <1>6, <1>8, <1>9, <1>10 DEF BroadcastsInv

LEMMA StepInv == BroadcastsInv /\ [BroadcastsNext \/ BroadcastsCrash]_broadcastVars => BroadcastsInv'
<1> SUFFICES ASSUME BroadcastsInv, [BroadcastsNext \/ BroadcastsCrash]_broadcastVars
             PROVE  BroadcastsInv'
  OBVIOUS
<1>1. CASE StoreBroadcast
  BY <1>1, StoreInv
<1>2. CASE CallSince
  BY <1>2, CallInv
<1>3. CASE FirstQuery
  BY <1>3, FirstQueryInv
<1>4. CASE SecondQuery
  BY <1>4, SecondQueryInv
<1>5. CASE ReturnBroadcasts \/ BroadcastsCrash
  <2>1. AtRest' /\ UNCHANGED broadcasts
    BY <1>5 DEF ReturnBroadcasts, BroadcastsCrash, AtRest, Never
  <2> QED BY <2>1, AtRestInv
<1>6. CASE UNCHANGED broadcastVars
  <2>1. \A n : DateOf(n)' = DateOf(n) /\ Since(n)' = Since(n)
    BY <1>6 DEF broadcastVars, call, DateOf, Since
  <2>2. Dated' = Dated
    BY <1>6 DEF broadcastVars, Dated
  <2> QED BY <1>6, <2>1, <2>2 DEF broadcastVars, call, BroadcastsInv
<1> QED BY <1>1, <1>2, <1>3, <1>4, <1>5, <1>6 DEF BroadcastsNext

\* Every step of the database is a step of the broadcasts or leaves them alone.
LEMMA DatabaseHasBroadcasts == DatabaseSpec => BroadcastsSpec
<1>1. DatabaseInit => BroadcastsInit
  BY DEF DatabaseInit
<1>2. [DatabaseNext]_<<vars, broadcastVars>> => [BroadcastsNext \/ BroadcastsCrash]_broadcastVars
  BY DEF DatabaseNext
<1> QED BY <1>1, <1>2, PTL DEF DatabaseSpec, BroadcastsSpec

LEMMA BroadcastsInductive == DatabaseSpec => []BroadcastsInv
BY DatabaseHasBroadcasts, InitInv, StepInv, PTL DEF BroadcastsSpec

\* Whatever arrives while broadcasts_since is between its two queries, and with
\* fields of any width, what it has fetched is from the time asked for on.
THEOREM ReplayNotOlderAlways == DatabaseSpec => []ReplayNotOlder
<1>1. BroadcastsInv => ReplayNotOlder
  BY DEF BroadcastsInv, ReplayNotOlder
<1> QED BY <1>1, BroadcastsInductive, PTL

\* broadcasts_since leaves out nothing of even years that was stored when it
\* was called.
THEOREM ReplayCompleteAlways == DatabaseSpec => []ReplayComplete
<1>1. BroadcastsInv => ReplayComplete
  <2> SUFFICES ASSUME BroadcastsInv, bpc = "done", NEW n \in 1 .. stored, DateOf(n).yearity = 0, Since(n)
               PROVE  \E b \in bs : b.message = n
    BY DEF ReplayComplete
  <2>1. n \in DOMAIN broadcasts
    BY DEF BroadcastsInv
  <2>2. DateOf(n) \in Timestamp /\ broadcasts[n].timestamp = Bound(DateOf(n))
    BY <2>1, DateOfRow DEF BroadcastsInv
  <2>3. asked \in Timestamp /\ now \in Timestamp
    BY DEF BroadcastsInv, Readings
  <2>4. Bound(DateOf(n)) = Offset(DateOf(n)) /\ Bound(DateOf(n)) >= 0
    BY <2>2, BoundValue
  <2>5. CASE asked.yearity = 0
    <3>1. Bound(asked) = Offset(asked) /\ Offset(asked) \in Int
      BY <2>3, <2>5, BoundValue
    <3>2. CASE Offset(DateOf(n)) >= Offset(asked)
      BY <2>2, <2>4, <2>5, <3>1, <3>2 DEF BroadcastsInv
    <3>3. CASE now.yearity # asked.yearity /\ DateOf(n).yearity = now.yearity
      BY <2>5, <3>3
    <3> QED BY <3>2, <3>3 DEF Since
  <2>6. CASE asked.yearity = 1
    <3>1. now.yearity = 0
      BY <2>6 DEF Since
    <3> QED BY <2>2, <2>4, <2>6, <3>1 DEF BroadcastsInv
  <2> QED BY <2>3, <2>5, <2>6, BoundValue
<1> QED BY <1>1, BroadcastsInductive, PTL

\* For any clock and any interval of at most half the fields, range_timestamp
\* accepts only what is within the interval, and within a year all of it.
THEOREM RangeExactAlways == DatabaseSpec => []RangeExact
<1>1. BroadcastsInv => RangeExact
  BY RangeIsWithin DEF BroadcastsInv, RangeExact
<1> QED BY <1>1, BroadcastsInductive, PTL

-----------------------------------------------------------------------------
(* Induction.  The library states it for predicates; here it is for sets,  *)
(* from the theorem that < is well-founded.                                *)

Less == {p \in Nat \X Nat : p[1] < p[2]}

LEMMA SetInduction ==
  ASSUME NEW T \in SUBSET Nat, 0 \in T, \A n \in T : n + 1 \in T
  PROVE  T = Nat
<1>1. IsWellFoundedOn(Less, Nat)
  BY NatLessThanWellFounded, Zenon DEF OpToRel, Less
<1> SUFFICES ASSUME Nat \ T # {} PROVE FALSE
  OBVIOUS
<1>2. PICK x \in Nat \ T : \A y \in Nat \ T : <<y, x>> \notin Less
  BY <1>1, WFMin
<1>3. x # 0 /\ x - 1 \in Nat /\ <<x - 1, x>> \in Less /\ (x - 1) + 1 = x
  BY <1>2 DEF Less
<1>4. x - 1 \in T
  BY <1>2, <1>3
<1> QED BY <1>2, <1>3, <1>4

-----------------------------------------------------------------------------
(* What train_routes keeps of a table. *)

KeptStep(f, s, least, n) ==
  IF n = 0 THEN <<>> ELSE IF s[n].heat > least THEN Append(f[n - 1], s[n]) ELSE f[n - 1]

Kept(s, least) == CHOOSE f : f = [n \in 0 .. Len(s) |-> KeptStep(f, s, least, n)]

\* The recursive function of Warmer exists.
LEMMA KeptIsStep ==
  ASSUME NEW S, NEW s \in Seq(S), NEW least
  PROVE  \A n \in 0 .. Len(s) : Kept(s, least)[n] = KeptStep(Kept(s, least), s, least, n)
<1> DEFINE Upto(m) == \E f : f = [n \in 0 .. m |-> KeptStep(f, s, least, n)]
           T == {m \in Nat : Upto(m)}
<1>1. 0 \in T
  <2> DEFINE f == [n \in 0 .. 0 |-> <<>>]
  <2>1. f = [n \in 0 .. 0 |-> KeptStep(f, s, least, n)]
    BY DEF KeptStep
  <2> QED BY <2>1
<1>2. ASSUME NEW m \in T  PROVE m + 1 \in T
  <2>1. PICK f : f = [n \in 0 .. m |-> KeptStep(f, s, least, n)]
    BY <1>2
  <2> DEFINE g == [n \in 0 .. m + 1 |-> IF n = m + 1 THEN KeptStep(f, s, least, n) ELSE f[n]]
  <2>2. ASSUME NEW n \in 0 .. m + 1  PROVE g[n] = KeptStep(g, s, least, n)
    <3>1. m \in Nat
      BY <1>2
    <3>2. n # 0 => n - 1 \in 0 .. m /\ g[n - 1] = f[n - 1]
      BY <3>1
    <3>3. KeptStep(g, s, least, n) = KeptStep(f, s, least, n)
      BY <3>2 DEF KeptStep
    <3>4. g[n] = IF n = m + 1 THEN KeptStep(f, s, least, n) ELSE f[n]
      OBVIOUS
    <3>5. n # m + 1 => f[n] = KeptStep(f, s, least, n)
      <4>1. n # m + 1 => n \in 0 .. m
        BY <3>1
      <4> QED BY <2>1, <4>1
    <3> QED BY <3>3, <3>4, <3>5
  <2>3. g = [n \in 0 .. m + 1 |-> KeptStep(g, s, least, n)]
    BY <2>2
  <2> QED BY <1>2, <2>3
<1> HIDE DEF Upto
<1>3. T \in SUBSET Nat
  OBVIOUS
<1>4. T = Nat
  <2> HIDE DEF T
  <2> QED BY <1>1, <1>2, <1>3, SetInduction
<1>5. Upto(Len(s))
  BY <1>4
<1>6. Kept(s, least) = [n \in 0 .. Len(s) |-> KeptStep(Kept(s, least), s, least, n)]
  BY <1>5 DEF Upto, Kept
<1> QED BY <1>6

\* What is warmer than least is kept, and no more than there was.
LEMMA WarmerKeeps ==
  ASSUME NEW S, NEW s \in Seq(S), NEW least
  PROVE  /\ Warmer(s, least) \in Seq({e \in S : e.heat > least})
         /\ Len(Warmer(s, least)) <= Len(s)
<1> DEFINE f == Kept(s, least)
           W == {e \in S : e.heat > least}
           T == {n \in Nat : n <= Len(s) => f[n] \in Seq(W) /\ Len(f[n]) <= n}
<1>1. Warmer(s, least) = f[Len(s)]
  BY DEF Warmer, Kept, KeptStep
<1>2. \A n \in 0 .. Len(s) : f[n] = KeptStep(f, s, least, n)
  BY KeptIsStep
<1> HIDE DEF f
<1>3. 0 \in T
  <2>1. f[0] = <<>>
    BY <1>2 DEF KeptStep
  <2> HIDE DEF W
  <2>2. <<>> \in Seq(W) /\ Len(<<>>) = 0
    OBVIOUS
  <2>3. f[0] \in Seq(W) /\ Len(f[0]) <= 0
    BY <2>1, <2>2
  <2> QED BY <2>3
<1>4. ASSUME NEW n \in T  PROVE n + 1 \in T
  <2> SUFFICES ASSUME n + 1 <= Len(s)  PROVE f[n + 1] \in Seq(W) /\ Len(f[n + 1]) <= n + 1
    OBVIOUS
  <2>1. n + 1 \in 1 .. Len(s) /\ f[n] \in Seq(W) /\ Len(f[n]) <= n /\ Len(f[n]) \in Nat /\ s[n + 1] \in S
    OBVIOUS
  <2>2. f[n + 1] = IF s[n + 1].heat > least THEN Append(f[n], s[n + 1]) ELSE f[n]
    BY <1>2, <2>1 DEF KeptStep
  <2>3. CASE s[n + 1].heat > least
    <3>1. s[n + 1] \in W
      BY <2>1, <2>3
    <3> HIDE DEF W
    <3> QED BY <2>1, <2>2, <2>3, <3>1
  <2>4. CASE ~(s[n + 1].heat > least)
    BY <2>1, <2>2, <2>4
  <2> QED BY <2>3, <2>4
<1>5. T = Nat
  <2>1. T \in SUBSET Nat
    OBVIOUS
  <2> HIDE DEF T
  <2> QED BY <1>3, <1>4, <2>1, SetInduction
<1>6. Len(s) \in T
  BY <1>5
<1> QED BY <1>1, <1>6

\* Cooling makes embeddings of embeddings, and no more of them.
LEMMA CooledRoutes ==
  ASSUME NEW s \in Seq(Routes)
  PROVE  Cooled(s) \in Seq(Routes) /\ Len(Cooled(s)) <= Len(s)
<1> DEFINE c == [n \in DOMAIN s |-> [s[n] EXCEPT !.heat = @ - 1]]
           S == [host : HostAddresses, heat : 0 .. MaxHeat - 1]
<1>1. c \in Seq(S) /\ Len(c) = Len(s)
  <2>1. ASSUME NEW n \in DOMAIN s  PROVE [s[n] EXCEPT !.heat = @ - 1] \in S
    <3>1. s[n] \in Routes
      OBVIOUS
    <3>2. s[n] = [host |-> s[n].host, heat |-> s[n].heat] /\ s[n].host \in HostAddresses /\ s[n].heat \in 1 .. MaxHeat
      BY <3>1 DEF Routes
    <3>3. [s[n] EXCEPT !.heat = @ - 1] = [host |-> s[n].host, heat |-> s[n].heat - 1]
      BY <3>2
    <3>4. s[n].heat - 1 \in 0 .. MaxHeat - 1
      BY <3>2, KnowledgeAssumption
    <3> QED BY <3>2, <3>3, <3>4
  <2> HIDE DEF S
  <2> QED BY <2>1
<1> HIDE DEF c
<1>2. Warmer(c, 0) \in Seq({e \in S : e.heat > 0}) /\ Len(Warmer(c, 0)) <= Len(c)
  BY <1>1, WarmerKeeps
<1>3. {e \in S : e.heat > 0} \subseteq Routes
  BY KnowledgeAssumption DEF Routes
<1>4. Cooled(s) = Warmer(c, 0)
  BY DEF Cooled, c
<1> HIDE DEF S
<1> QED BY <1>1, <1>2, <1>3, <1>4

LEMMA CooledNodes ==
  ASSUME NEW s \in Seq(Nodes)
  PROVE  Cooled(s) \in Seq(Nodes) /\ Len(Cooled(s)) <= Len(s)
<1> DEFINE c == [n \in DOMAIN s |-> [s[n] EXCEPT !.heat = @ - 1]]
           S == [addr : Addrs, heat : 0 .. MaxHeat - 1]
<1>1. c \in Seq(S) /\ Len(c) = Len(s)
  <2>1. ASSUME NEW n \in DOMAIN s  PROVE [s[n] EXCEPT !.heat = @ - 1] \in S
    <3>1. s[n] \in Nodes
      OBVIOUS
    <3>2. s[n] = [addr |-> s[n].addr, heat |-> s[n].heat] /\ s[n].addr \in Addrs /\ s[n].heat \in 1 .. MaxHeat
      BY <3>1 DEF Nodes
    <3>3. [s[n] EXCEPT !.heat = @ - 1] = [addr |-> s[n].addr, heat |-> s[n].heat - 1]
      BY <3>2
    <3>4. s[n].heat - 1 \in 0 .. MaxHeat - 1
      BY <3>2, KnowledgeAssumption
    <3> QED BY <3>2, <3>3, <3>4
  <2> HIDE DEF S
  <2> QED BY <2>1
<1> HIDE DEF c
<1>2. Warmer(c, 0) \in Seq({e \in S : e.heat > 0}) /\ Len(Warmer(c, 0)) <= Len(c)
  BY <1>1, WarmerKeeps
<1>3. {e \in S : e.heat > 0} \subseteq Nodes
  BY KnowledgeAssumption DEF Nodes
<1>4. Cooled(s) = Warmer(c, 0)
  BY DEF Cooled, c
<1> HIDE DEF S
<1> QED BY <1>1, <1>2, <1>3, <1>4

-----------------------------------------------------------------------------
(* The invariant of the routing knowledge. *)

Rows(S) == Seq([index : Nat, content : S])
Contents(t) == {db[t][n].content : n \in DOMAIN db[t]}

RowsInv ==
  /\ db \in [routes : Rows(Routes), neighbours : Rows(Nodes), associations : Rows(Associations \cup {Junk})]
  /\ \A t \in DOMAIN db : Len(db[t]) <= MaxRows

MemoryInv ==
  /\ routes \in Seq(Routes) /\ nodes \in Seq(Nodes) /\ associations \in Seq(Associations \cup {Junk})
  /\ Len(associations) <= Len(nodes)
  /\ AssociationsRefer

\* What AssociationsRefer says of the memory holds for the database too.
RowsRefer ==
  \A a \in Contents("associations") : a # Junk =>
    /\ \E r \in Contents("routes") : r.host = a.host
    /\ \E m \in Contents("neighbours") : m.addr = a.neighbour

Saved == durable \subseteq Contents("routes") \cup Contents("neighbours") \cup Contents("associations")

\* Rows of associations that write_state has yet to insert for the rows of
\* neighbours it has inserted
Rest ==
  IF phase = "writing" /\ table = 2 THEN i
  ELSE IF phase = "writing" /\ table = 3 THEN Len(nodes) - i ELSE 0

CursorInv ==
  /\ phase \in {"down", "up", "writing", "undefined"}
  /\ table \in 0 .. 3 /\ i \in 0 .. MaxRows
  /\ phase = "writing" => table # 0 /\ i <= CountOf(Tables[table]) /\ i <= Len(db[Tables[table]])
  /\ Len(db.associations) + Rest <= Len(db.neighbours)

\* What write_state has gone past is in the database.
Written ==
  phase = "writing" =>
    /\ \A n \in DOMAIN routes : table > 1 \/ n <= i => routes[n] \in Contents("routes")
    /\ \A n \in DOMAIN nodes : table > 2 \/ (table = 2 /\ n <= i) => nodes[n] \in Contents("neighbours")
    /\ \A n \in DOMAIN associations : table = 3 /\ n <= i => associations[n] \in Contents("associations")

KnowledgeInv == RowsInv /\ MemoryInv /\ RowsRefer /\ Saved /\ CursorInv /\ Written

LEMMA RowsOfTables ==
  ASSUME RowsInv
  PROVE  /\ db.routes \in Rows(Routes) /\ db.neighbours \in Rows(Nodes)
         /\ db.associations \in Rows(Associations \cup {Junk})
         /\ db["routes"] = db.routes /\ db["neighbours"] = db.neighbours /\ db["associations"] = db.associations
         /\ DOMAIN db = {"routes", "neighbours", "associations"}
         /\ \A t \in DOMAIN db : Len(db[t]) \in Nat
<1>1. /\ db.routes \in Rows(Routes) /\ db.neighbours \in Rows(Nodes)
      /\ db.associations \in Rows(Associations \cup {Junk})
      /\ DOMAIN db = {"routes", "neighbours", "associations"}
  BY DEF RowsInv
<1>2. \A t \in DOMAIN db : Len(db[t]) \in Nat
  BY <1>1 DEF Rows
<1> QED BY <1>1, <1>2

LEMMA ContentsOfTables ==
  ASSUME RowsInv
  PROVE  /\ \A c \in Contents("routes") : c \in Routes
         /\ \A c \in Contents("neighbours") : c \in Nodes
<1>1. ASSUME NEW R, NEW s \in Seq(R), NEW n \in DOMAIN s  PROVE s[n] \in R
  BY <1>1
<1>2. db["routes"] \in Seq([index : Nat, content : Routes]) /\ db["neighbours"] \in Seq([index : Nat, content : Nodes])
  BY RowsOfTables DEF Rows
<1>3. ASSUME NEW n \in DOMAIN db["routes"]  PROVE db["routes"][n].content \in Routes
  <2>1. db["routes"][n] \in [index : Nat, content : Routes]
    BY <1>1, <1>2
  <2> QED BY <2>1
<1>4. ASSUME NEW n \in DOMAIN db["neighbours"]  PROVE db["neighbours"][n].content \in Nodes
  <2>1. db["neighbours"][n] \in [index : Nat, content : Nodes]
    BY <1>1, <1>2
  <2> QED BY <2>1
<1> QED BY <1>3, <1>4 DEF Contents

LEMMA PreparedRows ==
  ASSUME NEW S, NEW r \in Prepared(Few(S))
  PROVE  r \in Rows(S) /\ Len(r) <= MaxPrepared
<1>1. PICK s \in Few(S) : r = [n \in DOMAIN s |-> [index |-> n - 1, content |-> s[n]]]
  BY DEF Prepared
<1>2. PICK m \in 0 .. MaxPrepared : s \in [1 .. m -> S]
  BY DEF Few
<1>3. m \in Nat /\ m <= MaxPrepared
  BY KnowledgeAssumption
<1>4. ASSUME NEW n \in 1 .. m  PROVE [index |-> n - 1, content |-> s[n]] \in [index : Nat, content : S]
  <2>1. n - 1 \in Nat /\ s[n] \in S
    BY <1>2, <1>3
  <2> QED BY <2>1
<1> QED BY <1>1, <1>2, <1>3, <1>4 DEF Rows

\* Only the pointer of a host address is not what it was.
LEMMA RestoredContents ==
  /\ \A c \in Routes : Restored(c) \in Routes /\ Restored(c).host = [c.host EXCEPT !.name = "dangling"]
  /\ \A c \in Nodes : Restored(c) = c
  /\ \A c \in Associations : /\ Restored(c) \in Associations
                             /\ Restored(c).host = [c.host EXCEPT !.name = "dangling"]
                             /\ Restored(c).neighbour = c.neighbour
  /\ Restored(Junk) = Junk
<1>1. \A h \in HostAddresses : [h EXCEPT !.name = "dangling"] \in HostAddresses
  BY DEF HostAddresses
<1>2. ASSUME NEW c \in Routes
      PROVE  Restored(c) \in Routes /\ Restored(c).host = [c.host EXCEPT !.name = "dangling"]
  <2>1. DOMAIN c = {"host", "heat"} /\ c.host \in HostAddresses /\ c.heat \in 1 .. MaxHeat
    BY DEF Routes
  <2>2. Restored(c) = [c EXCEPT !.host.name = "dangling"]
    BY <2>1 DEF Restored
  <2> QED BY <1>1, <2>1, <2>2 DEF Routes
<1>3. ASSUME NEW c \in Nodes  PROVE Restored(c) = c
  BY DEF Nodes, Restored
<1>4. ASSUME NEW c \in Associations
      PROVE  /\ Restored(c) \in Associations /\ Restored(c).host = [c.host EXCEPT !.name = "dangling"]
             /\ Restored(c).neighbour = c.neighbour
  <2>1. DOMAIN c = {"host", "neighbour"} /\ c.host \in HostAddresses /\ c.neighbour \in Addrs
    BY DEF Associations
  <2>2. Restored(c) = [c EXCEPT !.host.name = "dangling"]
    BY <2>1 DEF Restored
  <2> QED BY <1>1, <2>1, <2>2 DEF Associations
<1>5. Restored(Junk) = Junk
  BY DEF Junk, Restored
<1> QED BY <1>2, <1>3, <1>4, <1>5

LEMMA InitKnowledge == Init => KnowledgeInv
<1> SUFFICES ASSUME Init PROVE KnowledgeInv
  OBVIOUS
<1>1. PICK r \in Prepared(Few({c \in Routes : c.host.name = "pointer"})), n \in Prepared(Few(Nodes)) :
        db = [routes |-> r, neighbours |-> n, associations |-> <<>>]
  BY DEF Init
<1>2. r \in Rows(Routes) /\ Len(r) <= MaxPrepared /\ n \in Rows(Nodes) /\ Len(n) <= MaxPrepared
  <2> DEFINE W == {c \in Routes : c.host.name = "pointer"}
  <2>1. W \subseteq Routes
    OBVIOUS
  <2> HIDE DEF W
  <2>2. r \in Rows(W) /\ Len(r) <= MaxPrepared /\ n \in Rows(Nodes) /\ Len(n) <= MaxPrepared
    BY <1>1, PreparedRows DEF W
  <2>3. [index : Nat, content : W] \subseteq [index : Nat, content : Routes]
    BY <2>1
  <2>4. ASSUME NEW A, NEW B, A \subseteq B, NEW q \in Seq(A)  PROVE q \in Seq(B)
    BY <2>4
  <2> QED BY <2>2, <2>3, <2>4 DEF Rows
<1>3. Len(r) \in Nat /\ Len(n) \in Nat /\ MaxPrepared <= MaxRows /\ MaxRows \in Nat /\ MaxPrepared \in Int
  BY <1>2, KnowledgeAssumption DEF Rows
<1>4. /\ phase = "down" /\ routes = <<>> /\ nodes = <<>> /\ associations = <<>>
      /\ table = 0 /\ i = 0 /\ durable = {}
  BY DEF Init
<1>5. <<>> \in Rows(Associations \cup {Junk}) /\ Len(<<>>) = 0
  BY DEF Rows
<1>6. RowsInv
  BY <1>1, <1>2, <1>3, <1>5 DEF RowsInv
<1>7. MemoryInv
  BY <1>4 DEF MemoryInv, AssociationsRefer
<1>8. RowsRefer /\ Saved
  BY <1>1, <1>4 DEF RowsRefer, Contents, Saved
<1>9. CursorInv
  BY <1>1, <1>3, <1>4, <1>5 DEF CursorInv, Rest
<1> QED BY <1>4, <1>6, <1>7, <1>8, <1>9 DEF KnowledgeInv, Written

\* read_state reads each row once.
LEMMA SelectedRows ==
  ASSUME NEW t \in DOMAIN db, NEW S, db[t] \in Rows(S), NEW s \in Selected(t),
         \A c \in S : Restored(c) \in S
  PROVE  /\ s \in Seq(S) /\ Len(s) = Len(db[t])
         /\ \A n \in DOMAIN s : \E c \in Contents(t) : c \in S /\ s[n] = Restored(c)
         /\ \A c \in Contents(t) : \E n \in DOMAIN s : s[n] = Restored(c)
<1>1. PICK p : InOrder(p, t) /\ s = [n \in DOMAIN db[t] |-> Restored(db[t][p[n]].content)]
  BY DEF Selected
<1>2. p \in [DOMAIN db[t] -> DOMAIN db[t]] /\ \A r \in DOMAIN db[t] : \E n \in DOMAIN db[t] : p[n] = r
  BY <1>1 DEF InOrder
<1>3. DOMAIN db[t] = 1 .. Len(db[t]) /\ Len(db[t]) \in Nat /\ \A n \in DOMAIN db[t] : db[t][n].content \in S
  <2> DEFINE rows == db[t]
             R == [index : Nat, content : S]
  <2>1. rows \in Seq(R)
    BY DEF Rows
  <2> HIDE DEF rows, R
  <2>2. DOMAIN rows = 1 .. Len(rows) /\ Len(rows) \in Nat /\ \A n \in DOMAIN rows : rows[n] \in R
    BY <2>1
  <2>3. \A x \in R : x.content \in S
    BY DEF R
  <2> QED BY <2>2, <2>3 DEF rows
<1>4. s \in Seq(S) /\ Len(s) = Len(db[t]) /\ DOMAIN s = DOMAIN db[t]
  BY <1>1, <1>2, <1>3
<1>5. ASSUME NEW n \in DOMAIN s  PROVE \E c \in Contents(t) : c \in S /\ s[n] = Restored(c)
  <2>1. p[n] \in DOMAIN db[t]
    BY <1>2, <1>4
  <2>2. db[t][p[n]].content \in Contents(t) /\ db[t][p[n]].content \in S
    BY <1>3, <2>1 DEF Contents
  <2> QED BY <1>1, <1>4, <2>2
<1>6. ASSUME NEW c \in Contents(t)  PROVE \E n \in DOMAIN s : s[n] = Restored(c)
  <2>1. PICK r \in DOMAIN db[t] : c = db[t][r].content
    BY DEF Contents
  <2>2. PICK n \in DOMAIN db[t] : p[n] = r
    BY <1>2
  <2> QED BY <1>1, <1>4, <2>1, <2>2
<1> QED BY <1>4, <1>5, <1>6

LEMMA ReadStateInv ==
  ASSUME KnowledgeInv, ReadState
  PROVE  /\ KnowledgeInv'
         /\ {Restored(c) : c \in durable} \subseteq ToSet(routes') \cup ToSet(nodes') \cup ToSet(associations')
<1> DEFINE A == Associations \cup {Junk}
<1>1. /\ routes' \in Selected("routes") /\ nodes' \in Selected("neighbours")
      /\ associations' \in Selected("associations")
      /\ phase = "down" /\ phase' = "up" /\ UNCHANGED <<db, table, i, durable>>
  BY DEF ReadState, cursor
<1>2. RowsInv /\ RowsRefer /\ Saved /\ CursorInv
  BY DEF KnowledgeInv
<1>0. \A c \in A : Restored(c) \in A
  BY RestoredContents
<1> HIDE DEF A
<1>3. /\ routes' \in Seq(Routes) /\ Len(routes') = Len(db.routes)
      /\ \A c \in Contents("routes") : \E n \in DOMAIN routes' : routes'[n] = Restored(c)
  <2>1. \A c \in Routes : Restored(c) \in Routes
    BY RestoredContents
  <2> QED BY <1>1, <1>2, <2>1, RowsOfTables, SelectedRows
<1>4. /\ nodes' \in Seq(Nodes) /\ Len(nodes') = Len(db.neighbours)
      /\ \A c \in Contents("neighbours") : \E n \in DOMAIN nodes' : nodes'[n] = Restored(c)
  <2>1. \A c \in Nodes : Restored(c) \in Nodes
    BY RestoredContents
  <2> QED BY <1>1, <1>2, <2>1, RowsOfTables, SelectedRows
<1>5. /\ associations' \in Seq(A) /\ Len(associations') = Len(db.associations)
      /\ \A n \in DOMAIN associations' : \E c \in Contents("associations") : c \in A /\ associations'[n] = Restored(c)
      /\ \A c \in Contents("associations") : \E n \in DOMAIN associations' : associations'[n] = Restored(c)
  <2>1. db["associations"] \in Rows(A)
    BY <1>2, RowsOfTables DEF A
  <2> QED BY <1>0, <1>1, <1>2, <2>1, RowsOfTables, SelectedRows
<1>6. Rest = 0 /\ Rest' = 0
  BY <1>1 DEF Rest
<1>7. Len(db.associations) <= Len(db.neighbours)
  <2>1. Len(db.associations) \in Nat
    BY <1>2, RowsOfTables DEF Rows
  <2> QED BY <1>2, <1>6, <2>1 DEF CursorInv
<1>8. AssociationsRefer'
  <2> SUFFICES ASSUME NEW n \in DOMAIN associations', associations'[n] # Junk
               PROVE  /\ \E m \in DOMAIN routes' : routes'[m].host = associations'[n].host
                      /\ \E m \in DOMAIN nodes' : nodes'[m].addr = associations'[n].neighbour
    BY DEF AssociationsRefer
  <2>1. PICK a \in Contents("associations") : a \in A /\ associations'[n] = Restored(a)
    BY <1>5
  <2>2. a # Junk /\ a \in Associations
    BY <2>1, RestoredContents DEF A
  <2>3. PICK r \in Contents("routes"), m \in Contents("neighbours") : r.host = a.host /\ m.addr = a.neighbour
    BY <1>2, <2>2 DEF RowsRefer
  <2>4. r \in Routes /\ m \in Nodes
    BY <1>2, ContentsOfTables
  <2>5. Restored(r).host = associations'[n].host
    BY <2>1, <2>2, <2>3, <2>4, RestoredContents
  <2>6. Restored(m).addr = associations'[n].neighbour
    <3>1. associations'[n].neighbour = a.neighbour
      BY <2>1, <2>2, RestoredContents
    <3>2. Restored(m) = m
      BY <2>4, RestoredContents
    <3> QED BY <2>3, <3>1, <3>2
  <2> QED BY <1>3, <1>4, <2>3, <2>5, <2>6
<1>9. MemoryInv'
  BY <1>3, <1>4, <1>5, <1>7, <1>8 DEF MemoryInv, A
<1>10. RowsInv' /\ RowsRefer' /\ Saved' /\ CursorInv' /\ Written'
  BY <1>1, <1>2, <1>6 DEF RowsInv, RowsRefer, Contents, Saved, CursorInv, Written
<1>11. {Restored(c) : c \in durable} \subseteq ToSet(routes') \cup ToSet(nodes') \cup ToSet(associations')
  BY <1>2, <1>3, <1>4, <1>5 DEF Saved, ToSet
<1> QED BY <1>9, <1>10, <1>11 DEF KnowledgeInv

LEMMA TrainInv ==
  ASSUME KnowledgeInv, Train
  PROVE  KnowledgeInv'
<1> DEFINE rs == Cooled(routes)
           ns == Cooled(nodes)
           m == IF rs = <<>> THEN 0 ELSE Len(ns)
<1>1. phase = "up" /\ UNCHANGED <<db, table, i, durable>> /\ phase' \in {"up", "undefined"}
  BY DEF Train, TrainWith, cursor
<1>2. RowsInv /\ RowsRefer /\ Saved /\ CursorInv /\ MemoryInv
  BY DEF KnowledgeInv
<1>3. RowsInv' /\ RowsRefer' /\ Saved' /\ CursorInv' /\ Written'
  BY <1>1, <1>2 DEF RowsInv, RowsRefer, Contents, Saved, CursorInv, Written, Rest
<1>4. CASE ~GravityInBounds(rs, nodes)
  <2>1. UNCHANGED <<routes, nodes, associations>>
    BY <1>4 DEF Train, TrainWith, memory
  <2> QED BY <1>2, <1>3, <2>1 DEF KnowledgeInv, MemoryInv, AssociationsRefer
<1>5. CASE GravityInBounds(rs, nodes)
  <2>1. routes' = rs /\ nodes' = ns /\ \E near \in Positions(m) : associations' = Associated(rs, ns, near)
    BY <1>5 DEF Train, TrainWith
  <2>2. PICK near \in Positions(m) : associations' = Associated(rs, ns, near)
    BY <2>1
  <2>3. routes \in Seq(Routes) /\ nodes \in Seq(Nodes)
    BY <1>2 DEF MemoryInv
  <2>4. rs \in Seq(Routes) /\ ns \in Seq(Nodes) /\ Len(ns) <= Len(nodes)
    BY <2>3, CooledRoutes, CooledNodes
  <2>5. Len(ns) \in Nat /\ Len(rs) \in Nat /\ Len(nodes) \in Nat /\ (nodes = <<>> => Len(nodes) = 0)
    BY <2>3, <2>4
  <2>6. m \in Nat /\ m <= Len(ns) /\ m <= Len(rs)
    BY <1>5, <2>4, <2>5 DEF GravityInBounds
  <2> HIDE DEF rs, ns, m
  <2>7. PICK k \in 0 .. m : near \in [1 .. k -> 1 .. m]
    BY <2>2 DEF Positions
  <2>8. \A n \in 1 .. k : near[n] \in DOMAIN rs /\ near[n] \in DOMAIN ns
    BY <2>4, <2>5, <2>6, <2>7
  <2>9. associations' = [n \in 1 .. k |-> [host |-> rs[near[n]].host, neighbour |-> ns[near[n]].addr]]
    BY <2>2, <2>7 DEF Associated
  <2>10. \A n \in 1 .. k : [host |-> rs[near[n]].host, neighbour |-> ns[near[n]].addr] \in Associations
    <3> TAKE n \in 1 .. k
    <3>1. rs[near[n]] \in Routes /\ ns[near[n]] \in Nodes
      BY <2>4, <2>8
    <3> QED BY <3>1 DEF Routes, Nodes, Associations
  <2>11. associations' \in Seq(Associations \cup {Junk}) /\ Len(associations') = k /\ DOMAIN associations' = 1 .. k
    BY <2>6, <2>7, <2>9, <2>10
  <2>12. Len(associations') <= Len(nodes')
    BY <2>1, <2>5, <2>6, <2>7, <2>11
  <2>13. AssociationsRefer'
    <3> SUFFICES ASSUME NEW n \in 1 .. k
                 PROVE  /\ \E x \in DOMAIN rs : rs[x].host = associations'[n].host
                        /\ \E x \in DOMAIN ns : ns[x].addr = associations'[n].neighbour
      BY <2>1, <2>11 DEF AssociationsRefer
    <3> QED BY <2>8, <2>9
  <2>14. MemoryInv'
    BY <2>1, <2>4, <2>11, <2>12, <2>13 DEF MemoryInv
  <2> QED BY <1>3, <2>14 DEF KnowledgeInv
<1> QED BY <1>4, <1>5

LEMMA BeginWriteInv ==
  ASSUME KnowledgeInv, BeginWrite
  PROVE  KnowledgeInv'
<1>1. /\ phase = "up" /\ phase' = "writing" /\ table' = 1 /\ i' = 0
      /\ UNCHANGED <<db, routes, nodes, associations, durable>>
  BY DEF BeginWrite, memory
<1>2. RowsInv /\ RowsRefer /\ Saved /\ CursorInv /\ MemoryInv
  BY DEF KnowledgeInv
<1>3. RowsInv' /\ RowsRefer' /\ Saved' /\ MemoryInv'
  BY <1>1, <1>2 DEF RowsInv, RowsRefer, Contents, Saved, MemoryInv, AssociationsRefer
<1>4. Tables[1] = "routes" /\ CountOf("routes")' = Len(routes) /\ Len(routes) \in Nat
  BY <1>1, <1>2 DEF Tables, CountOf, MemoryInv
<1>5. Rest = 0 /\ Rest' = 0 /\ Len(db["routes"]) \in Nat /\ MaxRows \in Nat
  BY <1>1, <1>2, RowsOfTables, KnowledgeAssumption DEF Rest
<1>6. CursorInv'
  <2>1. i' <= CountOf(Tables[table])'
    BY <1>1, <1>4 DEF CountOf
  <2>2. i' <= Len(db'[Tables[table']])
    BY <1>1, <1>4, <1>5
  <2>3. Len(db'.associations) + Rest' <= Len(db'.neighbours)
    BY <1>1, <1>2, <1>5 DEF CursorInv
  <2> QED BY <1>1, <1>5, <2>1, <2>2, <2>3 DEF CursorInv
<1>7. Written'
  <2>1. \A n \in DOMAIN routes : ~(n <= 0)
    BY <1>2 DEF MemoryInv
  <2> QED BY <1>1, <2>1 DEF Written
<1> QED BY <1>3, <1>6, <1>7 DEF KnowledgeInv

LEMMA ThreeTables ==
  ASSUME NEW d, d = [u \in DOMAIN d |-> d[u]], DOMAIN d = {"routes", "neighbours", "associations"},
         NEW A, NEW B, NEW C, d["routes"] \in A, d["neighbours"] \in B, d["associations"] \in C
  PROVE  d \in [routes : A, neighbours : B, associations : C]
OBVIOUS

\* A row is added to one table.
LEMMA RowInserted ==
  ASSUME KnowledgeInv, InsertRow, NEW t \in DOMAIN db, t = Tables[table],
         NEW S, db[t] \in Rows(S), RowOf(t) \in S
  PROVE  /\ DOMAIN db' = DOMAIN db /\ db' = [u \in DOMAIN db' |-> db'[u]] /\ db'[t] \in Rows(S)
         /\ Len(db'[t]) = Len(db[t]) + 1 /\ Len(db'[t]) <= MaxRows /\ Len(db[t]) \in Nat
         /\ \A u \in DOMAIN db : u # t => db'[u] = db[u]
         /\ {db'[t][n].content : n \in DOMAIN db'[t]} = Contents(t) \cup {RowOf(t)}
         /\ phase = "writing" /\ i < CountOf(t) /\ i \in Nat /\ i' = i + 1
         /\ UNCHANGED <<routes, nodes, associations, table, durable>>
<1> DEFINE rows == db[t]
           row == [index |-> i, content |-> RowOf(t)]
           R == [index : Nat, content : S]
<1>1. /\ Len(rows) < MaxRows /\ db' = [db EXCEPT ![t] = Append(rows, row)] /\ phase = "writing"
      /\ i < CountOf(t) /\ i' = i + 1 /\ UNCHANGED <<routes, nodes, associations, table, durable>>
  BY DEF InsertRow, Inserted, memory
<1>2. i \in Nat
  BY KnowledgeAssumption DEF KnowledgeInv, CursorInv
<1>3. rows \in Seq(R) /\ row \in R /\ row.content = RowOf(t)
  BY <1>2 DEF Rows
<1>4. db' = [u \in DOMAIN db' |-> db'[u]]
  BY <1>1
<1>5. DOMAIN db' = DOMAIN db /\ db'[t] = Append(rows, row) /\ \A u \in DOMAIN db : u # t => db'[u] = db[u]
  BY <1>1 DEF KnowledgeInv, RowsInv
<1>6. Contents(t) = {rows[n].content : n \in DOMAIN rows}
  BY DEF Contents
<1>7. db'[t] \in Rows(S)
  <2> HIDE DEF row, rows
  <2>1. Append(rows, row) \in Seq(R)
    BY <1>3
  <2> QED BY <1>5, <2>1 DEF Rows
<1> HIDE DEF rows, row, R
<1>8. /\ Len(db'[t]) = Len(rows) + 1 /\ Len(rows) \in Nat /\ DOMAIN rows = 1 .. Len(rows)
      /\ DOMAIN db'[t] = 1 .. Len(rows) + 1
      /\ \A n \in 1 .. Len(rows) : db'[t][n] = rows[n]
      /\ db'[t][Len(rows) + 1] = row
  BY <1>3, <1>5
<1>9. {db'[t][n].content : n \in DOMAIN db'[t]} = Contents(t) \cup {RowOf(t)}
  <2>1. ASSUME NEW n \in DOMAIN db'[t]  PROVE db'[t][n].content \in Contents(t) \cup {RowOf(t)}
    <3>1. CASE n \in 1 .. Len(rows)
      BY <1>6, <1>8, <3>1
    <3>2. CASE n = Len(rows) + 1
      BY <1>3, <1>8, <3>2
    <3> QED BY <1>8, <2>1, <3>1, <3>2
  <2>2. ASSUME NEW n \in DOMAIN rows  PROVE n \in DOMAIN db'[t] /\ db'[t][n].content = rows[n].content
    BY <1>8
  <2>3. Len(rows) + 1 \in DOMAIN db'[t] /\ db'[t][Len(rows) + 1].content = RowOf(t)
    BY <1>3, <1>8
  <2> QED BY <1>6, <2>1, <2>2, <2>3
<1>10. Len(db'[t]) <= MaxRows
  BY <1>1, <1>8, KnowledgeAssumption
<1> QED BY <1>1, <1>2, <1>5, <1>7, <1>8, <1>9, <1>10, <1>4 DEF rows

LEMMA InsertRouteInv ==
  ASSUME KnowledgeInv, InsertRow, table = 1
  PROVE  KnowledgeInv'
<1>1. RowsInv /\ RowsRefer /\ Saved /\ CursorInv /\ MemoryInv /\ Written
  BY DEF KnowledgeInv
<1>2. Tables[table] = "routes" /\ "routes" \in DOMAIN db /\ CountOf("routes") = Len(routes) /\ RowOf("routes") = routes[i + 1]
  BY <1>1, RowsOfTables DEF Tables, CountOf, RowOf
<1>3. phase = "writing" /\ phase' = "writing" /\ i \in Nat /\ i < Len(routes) /\ routes \in Seq(Routes)
  <2>1. phase = "writing" /\ i < CountOf(Tables[table]) /\ phase' \in AfterInsert
    BY DEF InsertRow
  <2>2. AfterInsert = {"writing"}
    BY <1>2 DEF AfterInsert
  <2>3. i \in Nat
    BY <1>1, KnowledgeAssumption DEF CursorInv
  <2> QED BY <1>1, <1>2, <2>1, <2>2, <2>3 DEF MemoryInv
<1>4. routes[i + 1] \in Routes /\ DOMAIN routes = 1 .. Len(routes) /\ Len(routes) \in Nat
  BY <1>3
<1>5. /\ DOMAIN db' = DOMAIN db /\ db' = [u \in DOMAIN db' |-> db'[u]]
      /\ db'["routes"] \in Rows(Routes)
      /\ Len(db'["routes"]) = Len(db["routes"]) + 1 /\ Len(db'["routes"]) <= MaxRows /\ Len(db["routes"]) \in Nat
      /\ \A u \in DOMAIN db : u # "routes" => db'[u] = db[u]
      /\ {db'["routes"][n].content : n \in DOMAIN db'["routes"]} = Contents("routes") \cup {routes[i + 1]}
      /\ i' = i + 1 /\ UNCHANGED <<routes, nodes, associations, table, durable>>
  <2>1. db["routes"] \in Rows(Routes)
    BY <1>1, RowsOfTables
  <2>2. RowOf("routes") \in Routes
    BY <1>2, <1>4
  <2> QED BY <1>2, <2>1, <2>2, RowInserted
<1>6. db'["neighbours"] = db["neighbours"] /\ db'["associations"] = db["associations"]
  BY <1>1, <1>5, RowsOfTables
<1>7. /\ Contents("routes")' = Contents("routes") \cup {routes[i + 1]}
      /\ Contents("neighbours")' = Contents("neighbours") /\ Contents("associations")' = Contents("associations")
  BY <1>5, <1>6 DEF Contents
<1>8. RowsInv'
  <2>1. DOMAIN db = {"routes", "neighbours", "associations"}
    BY <1>1, RowsOfTables
  <2>2. \A t \in DOMAIN db' : Len(db'[t]) <= MaxRows
    BY <1>1, <1>5, <1>6, <2>1 DEF RowsInv
  <2>3. db' \in [routes : Rows(Routes), neighbours : Rows(Nodes), associations : Rows(Associations \cup {Junk})]
    BY <1>1, <1>5, <1>6, <2>1, RowsOfTables, ThreeTables
  <2> QED BY <2>2, <2>3 DEF RowsInv
<1>9. MemoryInv'
  BY <1>1, <1>5 DEF MemoryInv, AssociationsRefer
<1>10. RowsRefer' /\ Saved'
  BY <1>1, <1>5, <1>7 DEF RowsRefer, Saved
<1>11. CursorInv'
  <2>1. Rest = 0 /\ Rest' = 0
    BY <1>5 DEF Rest
  <2>2. Len(db'.associations) + Rest' <= Len(db'.neighbours)
    BY <1>1, <1>6, <2>1 DEF CursorInv
  <2>3. i <= Len(db["routes"])
    BY <1>1, <1>2, <1>3 DEF CursorInv
  <2>4. i' <= CountOf(Tables[table])'
    BY <1>2, <1>3, <1>4, <1>5 DEF CountOf
  <2>5. i' \in 0 .. MaxRows /\ i' <= Len(db'["routes"])
    BY <1>3, <1>5, <2>3, KnowledgeAssumption
  <2> QED BY <1>1, <1>2, <1>3, <1>5, <2>2, <2>4, <2>5 DEF CursorInv
<1>12. Written'
  <2>1. \A n \in DOMAIN routes : n <= i + 1 => n <= i \/ n = i + 1
    BY <1>3, <1>4
  <2>2. \A n \in DOMAIN routes : n <= i + 1 => routes[n] \in Contents("routes")'
    BY <1>1, <1>3, <1>7, <2>1 DEF Written
  <2> QED BY <1>5, <2>2 DEF Written
<1> QED BY <1>8, <1>9, <1>10, <1>11, <1>12 DEF KnowledgeInv

LEMMA InsertNodeInv ==
  ASSUME KnowledgeInv, InsertRow, table = 2
  PROVE  KnowledgeInv'
<1>1. RowsInv /\ RowsRefer /\ Saved /\ CursorInv /\ MemoryInv /\ Written
  BY DEF KnowledgeInv
<1>2. /\ Tables[table] = "neighbours" /\ "neighbours" \in DOMAIN db
      /\ CountOf("neighbours") = Len(nodes) /\ RowOf("neighbours") = nodes[i + 1]
  BY <1>1, RowsOfTables DEF Tables, CountOf, RowOf
<1>3. phase = "writing" /\ phase' = "writing" /\ i \in Nat /\ i < Len(nodes) /\ nodes \in Seq(Nodes)
  <2>1. phase = "writing" /\ i < CountOf(Tables[table]) /\ phase' \in AfterInsert
    BY DEF InsertRow
  <2>2. AfterInsert = {"writing"}
    BY <1>2 DEF AfterInsert
  <2>3. i \in Nat
    BY <1>1, KnowledgeAssumption DEF CursorInv
  <2> QED BY <1>1, <1>2, <2>1, <2>2, <2>3 DEF MemoryInv
<1>4. nodes[i + 1] \in Nodes /\ DOMAIN nodes = 1 .. Len(nodes) /\ Len(nodes) \in Nat
  BY <1>3
<1>5. /\ DOMAIN db' = DOMAIN db /\ db' = [u \in DOMAIN db' |-> db'[u]]
      /\ db'["neighbours"] \in Rows(Nodes)
      /\ Len(db'["neighbours"]) = Len(db["neighbours"]) + 1 /\ Len(db'["neighbours"]) <= MaxRows
      /\ Len(db["neighbours"]) \in Nat
      /\ \A u \in DOMAIN db : u # "neighbours" => db'[u] = db[u]
      /\ {db'["neighbours"][n].content : n \in DOMAIN db'["neighbours"]} = Contents("neighbours") \cup {nodes[i + 1]}
      /\ i' = i + 1 /\ UNCHANGED <<routes, nodes, associations, table, durable>>
  <2>1. db["neighbours"] \in Rows(Nodes)
    BY <1>1, RowsOfTables
  <2>2. RowOf("neighbours") \in Nodes
    BY <1>2, <1>4
  <2> QED BY <1>2, <2>1, <2>2, RowInserted
<1>6. db'["routes"] = db["routes"] /\ db'["associations"] = db["associations"]
  BY <1>1, <1>5, RowsOfTables
<1>7. /\ Contents("neighbours")' = Contents("neighbours") \cup {nodes[i + 1]}
      /\ Contents("routes")' = Contents("routes") /\ Contents("associations")' = Contents("associations")
  BY <1>5, <1>6 DEF Contents
<1>8. RowsInv'
  <2>1. DOMAIN db = {"routes", "neighbours", "associations"}
    BY <1>1, RowsOfTables
  <2>2. \A t \in DOMAIN db' : Len(db'[t]) <= MaxRows
    BY <1>1, <1>5, <1>6, <2>1 DEF RowsInv
  <2>3. db' \in [routes : Rows(Routes), neighbours : Rows(Nodes), associations : Rows(Associations \cup {Junk})]
    BY <1>1, <1>5, <1>6, <2>1, RowsOfTables, ThreeTables
  <2> QED BY <2>2, <2>3 DEF RowsInv
<1>9. MemoryInv'
  BY <1>1, <1>5 DEF MemoryInv, AssociationsRefer
<1>10. RowsRefer' /\ Saved'
  BY <1>1, <1>5, <1>7 DEF RowsRefer, Saved
<1>11. CursorInv'
  <2>1. Rest = i /\ Rest' = i + 1
    BY <1>3, <1>5 DEF Rest
  <2>2. Len(db'.associations) + Rest' <= Len(db'.neighbours)
    <3>1. Len(db["associations"]) \in Nat
      BY <1>1, RowsOfTables
    <3>2. Len(db["associations"]) + i <= Len(db["neighbours"])
      BY <1>1, <2>1 DEF CursorInv
    <3>3. Len(db["associations"]) + (i + 1) <= Len(db["neighbours"]) + 1
      BY <1>3, <1>5, <3>1, <3>2
    <3> QED BY <1>5, <1>6, <2>1, <3>3
  <2>3. i <= Len(db["neighbours"])
    BY <1>1, <1>2, <1>3 DEF CursorInv
  <2>4. i' <= CountOf(Tables[table])'
    BY <1>2, <1>3, <1>4, <1>5 DEF CountOf
  <2>5. i' \in 0 .. MaxRows /\ i' <= Len(db'["neighbours"])
    BY <1>3, <1>5, <2>3, KnowledgeAssumption
  <2> QED BY <1>1, <1>2, <1>3, <1>5, <2>2, <2>4, <2>5 DEF CursorInv
<1>12. Written'
  <2>1. \A n \in DOMAIN nodes : n <= i + 1 => n <= i \/ n = i + 1
    BY <1>3, <1>4
  <2>2. \A n \in DOMAIN nodes : n <= i + 1 => nodes[n] \in Contents("neighbours")'
    BY <1>1, <1>3, <1>7, <2>1 DEF Written
  <2>3. \A n \in DOMAIN routes : routes[n] \in Contents("routes")'
    BY <1>1, <1>3, <1>7 DEF Written
  <2> QED BY <1>5, <2>2, <2>3 DEF Written
<1> QED BY <1>8, <1>9, <1>10, <1>11, <1>12 DEF KnowledgeInv

\* What an association refers to has been written before it.
LEMMA InsertAssociationInv ==
  ASSUME KnowledgeInv, InsertRow, table = 3
  PROVE  KnowledgeInv'
<1> DEFINE S == Associations \cup {Junk}
           row == RowOf("associations")
<1>1. RowsInv /\ RowsRefer /\ Saved /\ CursorInv /\ MemoryInv /\ Written
  BY DEF KnowledgeInv
<1>2. /\ Tables[table] = "associations" /\ "associations" \in DOMAIN db
      /\ CountOf("associations") = Len(nodes)
      /\ row = IF i < Len(associations) THEN associations[i + 1] ELSE Junk
  BY <1>1, RowsOfTables DEF Tables, CountOf, RowOf
<1>3. /\ phase = "writing" /\ phase' \in {"writing", "undefined"} /\ i \in Nat /\ i < Len(nodes)
      /\ associations \in Seq(S) /\ nodes \in Seq(Nodes)
  <2>1. phase = "writing" /\ i < CountOf(Tables[table]) /\ phase' \in AfterInsert
    BY DEF InsertRow
  <2>2. AfterInsert \subseteq {"writing", "undefined"}
    BY DEF AfterInsert
  <2>3. i \in Nat
    BY <1>1, KnowledgeAssumption DEF CursorInv
  <2> QED BY <1>1, <1>2, <2>1, <2>2, <2>3 DEF MemoryInv
<1>4. /\ DOMAIN associations = 1 .. Len(associations) /\ Len(associations) \in Nat /\ Len(nodes) \in Nat
      /\ i < Len(associations) => i + 1 \in DOMAIN associations /\ associations[i + 1] \in S
  BY <1>3
<1>5. row \in S
  BY <1>2, <1>4
<1> HIDE DEF row, S
<1>6. /\ DOMAIN db' = DOMAIN db /\ db' = [u \in DOMAIN db' |-> db'[u]]
      /\ db'["associations"] \in Rows(S)
      /\ Len(db'["associations"]) = Len(db["associations"]) + 1 /\ Len(db'["associations"]) <= MaxRows
      /\ Len(db["associations"]) \in Nat
      /\ \A u \in DOMAIN db : u # "associations" => db'[u] = db[u]
      /\ {db'["associations"][n].content : n \in DOMAIN db'["associations"]} = Contents("associations") \cup {row}
      /\ i' = i + 1 /\ UNCHANGED <<routes, nodes, associations, table, durable>>
  <2>1. db["associations"] \in Rows(S)
    BY <1>1, RowsOfTables DEF S
  <2>2. RowOf("associations") \in S
    BY <1>5 DEF row
  <2> QED BY <1>2, <2>1, <2>2, RowInserted DEF row
<1>7. db'["routes"] = db["routes"] /\ db'["neighbours"] = db["neighbours"]
  BY <1>1, <1>6, RowsOfTables
<1>8. /\ Contents("associations")' = Contents("associations") \cup {row}
      /\ Contents("routes")' = Contents("routes") /\ Contents("neighbours")' = Contents("neighbours")
  BY <1>6, <1>7 DEF Contents
<1>9. RowsInv'
  <2>1. DOMAIN db = {"routes", "neighbours", "associations"}
    BY <1>1, RowsOfTables
  <2>2. \A t \in DOMAIN db' : Len(db'[t]) <= MaxRows
    BY <1>1, <1>6, <1>7, <2>1 DEF RowsInv
  <2>3. db' \in [routes : Rows(Routes), neighbours : Rows(Nodes), associations : Rows(S)]
    BY <1>1, <1>6, <1>7, <2>1, RowsOfTables, ThreeTables
  <2> QED BY <2>2, <2>3 DEF RowsInv, S
<1>10. MemoryInv'
  BY <1>1, <1>6 DEF MemoryInv, AssociationsRefer
<1>11. RowsRefer' /\ Saved'
  <2>1. row # Junk => /\ \E r \in Contents("routes") : r.host = row.host
                      /\ \E m \in Contents("neighbours") : m.addr = row.neighbour
    <3> SUFFICES ASSUME row # Junk  PROVE /\ \E r \in Contents("routes") : r.host = row.host
                                          /\ \E m \in Contents("neighbours") : m.addr = row.neighbour
      OBVIOUS
    <3>1. i + 1 \in DOMAIN associations /\ row = associations[i + 1]
      BY <1>2, <1>4
    <3>2. /\ \E m \in DOMAIN routes : routes[m].host = row.host
          /\ \E m \in DOMAIN nodes : nodes[m].addr = row.neighbour
      BY <1>1, <3>1 DEF MemoryInv, AssociationsRefer
    <3>3. /\ \A n \in DOMAIN routes : routes[n] \in Contents("routes")
          /\ \A n \in DOMAIN nodes : nodes[n] \in Contents("neighbours")
      BY <1>1, <1>3 DEF Written
    <3> QED BY <3>2, <3>3
  <2> QED BY <1>1, <1>6, <1>8, <2>1 DEF RowsRefer, Saved
<1>12. CursorInv'
  <2>1. Rest = Len(nodes) - i /\ Rest' \in Int /\ Rest' <= Len(nodes) - (i + 1)
    <3>1. Rest = Len(nodes) - i /\ (Rest' = 0 \/ Rest' = Len(nodes) - (i + 1))
      BY <1>3, <1>6 DEF Rest
    <3> QED BY <1>3, <1>4, <3>1
  <2>2. Len(db'.associations) + Rest' <= Len(db'.neighbours)
    <3>1. Len(db["neighbours"]) \in Nat
      BY <1>1, RowsOfTables
    <3> QED BY <1>1, <1>3, <1>4, <1>6, <1>7, <2>1, <3>1 DEF CursorInv
  <2>3. i <= Len(db["associations"])
    BY <1>1, <1>2, <1>3 DEF CursorInv
  <2>4. i' <= CountOf(Tables[table])'
    BY <1>2, <1>3, <1>4, <1>6 DEF CountOf
  <2>5. i' \in 0 .. MaxRows /\ i' <= Len(db'["associations"])
    BY <1>3, <1>6, <2>3, KnowledgeAssumption
  <2> QED BY <1>1, <1>2, <1>3, <1>6, <2>2, <2>4, <2>5 DEF CursorInv
<1>13. Written'
  <2>1. \A n \in DOMAIN associations : n <= i + 1 => n <= i \/ (n = i + 1 /\ row = associations[n])
    BY <1>2, <1>3, <1>4
  <2>2. \A n \in DOMAIN associations : n <= i + 1 => associations[n] \in Contents("associations")'
    BY <1>1, <1>3, <1>8, <2>1 DEF Written
  <2>3. /\ \A n \in DOMAIN routes : routes[n] \in Contents("routes")'
        /\ \A n \in DOMAIN nodes : nodes[n] \in Contents("neighbours")'
    BY <1>1, <1>3, <1>8 DEF Written
  <2> QED BY <1>6, <2>2, <2>3 DEF Written
<1> QED BY <1>9, <1>10, <1>11, <1>12, <1>13 DEF KnowledgeInv

LEMMA EndTableInv ==
  ASSUME KnowledgeInv, EndTable
  PROVE  KnowledgeInv'
<1>1. RowsInv /\ RowsRefer /\ Saved /\ CursorInv /\ MemoryInv /\ Written
  BY DEF KnowledgeInv
<1>2. /\ phase = "writing" /\ i = CountOf(Tables[table]) /\ i' = 0
      /\ UNCHANGED <<db, routes, nodes, associations>>
  BY DEF EndTable, memory
<1>3. /\ table \in 1 .. 3 /\ Len(Tables) = 3
      /\ Tables[1] = "routes" /\ Tables[2] = "neighbours" /\ Tables[3] = "associations"
  BY <1>1, <1>2 DEF CursorInv, Tables
<1>4. /\ Len(routes) \in Nat /\ Len(nodes) \in Nat /\ Len(associations) \in Nat
      /\ DOMAIN routes = 1 .. Len(routes) /\ DOMAIN nodes = 1 .. Len(nodes)
      /\ DOMAIN associations = 1 .. Len(associations) /\ Len(associations) <= Len(nodes)
  BY <1>1 DEF MemoryInv
<1>5. RowsInv' /\ RowsRefer' /\ MemoryInv'
  BY <1>1, <1>2 DEF RowsInv, RowsRefer, Contents, MemoryInv, AssociationsRefer
<1>6. \A t \in DOMAIN db : Len(db[t]) \in Nat
  BY <1>1, RowsOfTables
<1>7. \A t : CountOf(t)' = CountOf(t) /\ CountOf(t) \in Nat
  BY <1>2, <1>4 DEF CountOf
<1>8. CASE table # 3
  <2>1. table' = table + 1 /\ UNCHANGED <<phase, durable>>
    BY <1>3, <1>8 DEF EndTable
  <2>2. Rest' = Rest
    <3>1. CASE table = 1
      <4>1. Rest = 0 /\ Rest' = 0
        BY <1>2, <2>1, <3>1 DEF Rest
      <4> QED BY <4>1
    <3>2. CASE table = 2
      <4>1. i = Len(nodes)
        BY <1>2, <1>3, <3>2 DEF CountOf
      <4>2. Rest = Len(nodes) /\ Rest' = Len(nodes) - 0
        BY <1>2, <2>1, <3>2, <4>1 DEF Rest
      <4> QED BY <1>4, <4>2
    <3> QED BY <1>3, <1>8, <3>1, <3>2
  <2>3. Tables[table'] \in DOMAIN db
    BY <1>1, <1>3, <1>8, <2>1, RowsOfTables
  <2>4. CursorInv'
    <3>1. i' <= CountOf(Tables[table])'
      BY <1>2, <1>4, <2>1 DEF CountOf
    <3>2. i' <= Len(db'[Tables[table']])
      BY <1>2, <1>6, <2>3
    <3> QED BY <1>1, <1>2, <1>3, <1>8, <2>1, <2>2, <3>1, <3>2, KnowledgeAssumption DEF CursorInv
  <2>5. Saved'
    BY <1>1, <1>2, <2>1 DEF Saved, Contents
  <2>6. Written'
    <3>1. table = 1 => i = Len(routes)
      BY <1>2, <1>3 DEF CountOf
    <3>2. table = 2 => i = Len(nodes)
      BY <1>2, <1>3 DEF CountOf
    <3>3. \A n \in DOMAIN routes : routes[n] \in Contents("routes")
      <4>1. \A n \in DOMAIN routes : table > 1 \/ n <= i
        BY <1>3, <1>4, <3>1
      <4> QED BY <1>1, <1>2, <4>1 DEF Written
    <3>4. ASSUME table' > 2  PROVE \A n \in DOMAIN nodes : nodes[n] \in Contents("neighbours")
      <4>1. table = 2
        BY <1>3, <1>8, <2>1, <3>4
      <4>2. \A n \in DOMAIN nodes : n <= i
        BY <1>4, <3>2, <4>1
      <4> QED BY <1>1, <1>2, <4>1, <4>2 DEF Written
    <3>5. \A n \in 1 .. Len(nodes) : ~(n <= 0)
      BY <1>4
    <3>6. \A n \in 1 .. Len(associations) : ~(n <= 0)
      BY <1>4
    <3> QED BY <1>2, <1>4, <3>3, <3>4, <3>5, <3>6 DEF Written, Contents
  <2> QED BY <1>5, <2>4, <2>5, <2>6 DEF KnowledgeInv
<1>9. CASE table = 3
  <2>1. table' = 0 /\ phase' = "up" /\ durable' = ToSet(routes) \cup ToSet(nodes) \cup ToSet(associations)
    BY <1>3, <1>9 DEF EndTable
  <2>2. i = Len(nodes)
    BY <1>2, <1>3, <1>9 DEF CountOf
  <2>3. /\ \A n \in DOMAIN routes : routes[n] \in Contents("routes")
        /\ \A n \in DOMAIN nodes : nodes[n] \in Contents("neighbours")
        /\ \A n \in DOMAIN associations : associations[n] \in Contents("associations")
    <3>1. \A n \in DOMAIN associations : n <= i
      BY <1>4, <2>2
    <3> QED BY <1>1, <1>2, <1>9, <3>1 DEF Written
  <2>4. Saved'
    BY <1>2, <2>1, <2>3 DEF Saved, Contents, ToSet
  <2>5. CursorInv'
    <3>1. Rest = Len(nodes) - Len(nodes) /\ Rest' = 0
      BY <1>2, <1>9, <2>1, <2>2 DEF Rest
    <3>2. Rest = 0
      BY <1>4, <3>1
    <3> QED BY <1>1, <1>2, <2>1, <3>1, <3>2, KnowledgeAssumption DEF CursorInv
  <2>6. Written'
    BY <2>1 DEF Written
  <2> QED BY <1>5, <2>4, <2>5, <2>6 DEF KnowledgeInv
<1> QED BY <1>8, <1>9

LEMMA CrashInv ==
  ASSUME KnowledgeInv, Crash
  PROVE  KnowledgeInv'
<1>1. /\ phase' = "down" /\ routes' = <<>> /\ nodes' = <<>> /\ associations' = <<>>
      /\ table' = 0 /\ i' = 0 /\ UNCHANGED <<db, durable>>
  BY DEF Crash
<1>2. RowsInv /\ RowsRefer /\ Saved /\ CursorInv /\ MemoryInv
  BY DEF KnowledgeInv
<1>3. RowsInv' /\ RowsRefer' /\ Saved' /\ MemoryInv' /\ Written'
  BY <1>1, <1>2 DEF RowsInv, RowsRefer, Contents, Saved, MemoryInv, AssociationsRefer, Written
<1>4. Rest' = 0 /\ Rest \in Nat
  <2>1. Rest' = 0
    BY <1>1 DEF Rest
  <2>2. i \in Nat /\ Len(nodes) \in Nat
    BY <1>2, KnowledgeAssumption DEF CursorInv, MemoryInv
  <2>3. phase = "writing" /\ table = 3 => i <= Len(nodes)
    BY <1>2 DEF CursorInv, CountOf, Tables
  <2> QED BY <2>1, <2>2, <2>3 DEF Rest
<1>5. Len(db["associations"]) \in Nat /\ Len(db["neighbours"]) \in Nat
  BY <1>2, RowsOfTables
<1>6. CursorInv'
  BY <1>1, <1>2, <1>4, <1>5, KnowledgeAssumption DEF CursorInv
<1> QED BY <1>3, <1>6 DEF KnowledgeInv

LEMMA KnowledgeStep == KnowledgeInv /\ [DatabaseNext]_<<vars, broadcastVars>> => KnowledgeInv'
<1> SUFFICES ASSUME KnowledgeInv, [DatabaseNext]_<<vars, broadcastVars>>
             PROVE  KnowledgeInv'
  OBVIOUS
<1>1. CASE ReadState
  BY <1>1, ReadStateInv
<1>2. CASE Train
  BY <1>2, TrainInv
<1>3. CASE BeginWrite
  BY <1>3, BeginWriteInv
<1>4. CASE InsertRow
  <2>1. table \in 1 .. 3
    BY <1>4 DEF InsertRow, KnowledgeInv, CursorInv
  <2> QED BY <1>4, <2>1, InsertRouteInv, InsertNodeInv, InsertAssociationInv
<1>5. CASE EndTable
  BY <1>5, EndTableInv
<1>6. CASE Crash
  BY <1>6, CrashInv
<1>7. CASE UNCHANGED vars
  BY <1>7 DEF vars, memory, cursor, KnowledgeInv, RowsInv, MemoryInv, AssociationsRefer, RowsRefer, Contents,
              Saved, CursorInv, Rest, CountOf, Written
<1> QED BY <1>1, <1>2, <1>3, <1>4, <1>5, <1>6, <1>7 DEF DatabaseNext

LEMMA KnowledgeAlways == DatabaseSpec => []KnowledgeInv
<1>1. DatabaseInit => KnowledgeInv
  BY InitKnowledge DEF DatabaseInit
<1> QED BY <1>1, KnowledgeStep, PTL DEF DatabaseSpec

\* Tables of any size: what is trained, written in part and read back keeps
\* its type, and no table outgrows its bound.
THEOREM KnowledgeTypeCorrect == DatabaseSpec => []TypeOK
<1>1. KnowledgeInv => TypeOK
  <2> SUFFICES ASSUME KnowledgeInv PROVE TypeOK
    OBVIOUS
  <2>1. ToSet(associations) \subseteq Associations \cup {Junk}
    BY DEF KnowledgeInv, MemoryInv, ToSet
  <2> QED BY <2>1 DEF KnowledgeInv, RowsInv, MemoryInv, CursorInv, TypeOK, Tables
<1> QED BY <1>1, KnowledgeAlways, PTL

\* Wherever write_state was cut off, what read_state and train_routes leave in
\* memory associates hosts that have a route with addresses that have a node.
THEOREM AssociationsAlwaysRefer == DatabaseSpec => []AssociationsRefer
<1>1. KnowledgeInv => AssociationsRefer
  BY DEF KnowledgeInv, MemoryInv
<1> QED BY <1>1, KnowledgeAlways, PTL

\* All of a complete save but the names of hosts is there after every later
\* start, although the nodes count the associations that are written: there are
\* never more of these.
THEOREM KnowledgeAlwaysSurvives == DatabaseSpec => KnowledgeSurvives
<1>1. KnowledgeInv /\ [DatabaseNext]_<<vars, broadcastVars>> =>
        [ReadState => {Restored(c) : c \in durable} \subseteq
                        ToSet(routes') \cup ToSet(nodes') \cup ToSet(associations')]_vars
  BY ReadStateInv
<1> QED BY <1>1, KnowledgeAlways, PTL DEF DatabaseSpec, KnowledgeSurvives
=============================================================================
