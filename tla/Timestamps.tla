------------------------------ MODULE Timestamps ------------------------------
(***************************************************************************)
(* The timestamps of the server (server/time.h, server/time.c): a word of  *)
(* three bit fields, the parity of the year above the seconds of the year  *)
(* above fractions of a second; and range_timestamp, the test whether a    *)
(* timestamp is near the clock.  The fields have 1, 25 and 6 bits.  A year *)
(* is shorter than the field of its seconds, which never wraps by itself.  *)
(***************************************************************************)
EXTENDS Integers

CONSTANTS
  Seconds,      \* values of the field seconds, 2^25
  Subseconds,   \* values of the field subseconds, 2^6
  YearSeconds   \* seconds of a year, some 31.6 million

ASSUME TimestampsAssumption ==
  /\ Seconds \in Nat \ {0, 1} /\ Subseconds \in Nat \ {0}
  /\ YearSeconds \in 1 .. Seconds

Timestamp == [yearity : 0 .. 1, seconds : 0 .. Seconds - 1, subseconds : 0 .. Subseconds - 1]
Interval == [seconds : 0 .. Seconds - 1, subseconds : 0 .. Subseconds - 1]

\* The value of the two lower fields, and the weight of the bit above them.
Offset(t) == t.seconds * Subseconds + t.subseconds
Half == Seconds * Subseconds

\* t.i
Bits(t) == t.yearity * Half + Offset(t)

\* What the clock can read.  get_timestamp ands three masks without a common
\* bit into one word, which leaves 0 whatever the word held; the other
\* readings are those of a clock that works.
Readings == {c \in Timestamp : c.seconds < YearSeconds}

-----------------------------------------------------------------------------
(* range_timestamp: the fields are cut to their width as they are assigned. *)

Other(yearity) == 1 - yearity

Later_NoCarry(c, delta) ==
  LET sub == (c.subseconds + delta.subseconds) % Subseconds
      sec == (c.seconds + delta.seconds) % Seconds
  IN  [yearity |-> IF sec < c.seconds THEN Other(c.yearity) ELSE c.yearity,
       seconds |-> sec, subseconds |-> sub]

\* max
Later(c, delta) ==
  LET sub == (c.subseconds + delta.subseconds) % Subseconds
      sec == (c.seconds + delta.seconds + (IF sub < c.subseconds THEN 1 ELSE 0)) % Seconds
  IN  [yearity |-> IF sec < c.seconds THEN Other(c.yearity) ELSE c.yearity,
       seconds |-> sec, subseconds |-> sub]

\* min
Earlier(c, delta) ==
  LET sub == (c.subseconds - delta.subseconds) % Subseconds
      sec == (c.seconds - delta.seconds - (IF sub > c.subseconds THEN 1 ELSE 0)) % Seconds
  IN  [yearity |-> IF sec > c.seconds THEN Other(c.yearity) ELSE c.yearity,
       seconds |-> sec, subseconds |-> sub]

\* The comparisons of seconds, then of subseconds
Before(t, u) ==
  \/ t.seconds < u.seconds
  \/ t.seconds = u.seconds /\ t.subseconds < u.subseconds

range_timestamp(t, c, delta) ==
  LET max == Later(c, delta)
      min == Earlier(c, delta)
  IN  IF t.yearity = c.yearity
        THEN \/ Bits(t) > Bits(c) /\ (max.yearity # t.yearity \/ Before(t, max))
             \/ Bits(t) < Bits(c) /\ (min.yearity # t.yearity \/ Before(min, t))
             \/ Bits(t) = Bits(c)
        ELSE IF min.yearity = t.yearity
               THEN Before(min, t)
               ELSE max.yearity = t.yearity /\ Before(t, max)

-----------------------------------------------------------------------------
(* What it computes. *)

\* From t to u, when no new year lies between them, and when one does.
Elapsed(t, u) == Offset(u) - Offset(t)
ElapsedOverNewYear(t, u) == YearSeconds * Subseconds - Offset(t) + Offset(u)

\* t is less than delta away from the clock, in either direction.
Within(t, c, delta) ==
  IF t.yearity = c.yearity
    THEN \/ Offset(t) = Offset(c)
         \/ Elapsed(t, c) < Offset(delta) /\ Elapsed(c, t) < Offset(delta)
    ELSE \/ ElapsedOverNewYear(t, c) < Offset(delta)
         \/ ElapsedOverNewYear(c, t) < Offset(delta)

\* Of a longer interval both ends can lie in the other year, and the second is
\* not looked at.
AtMostHalf(delta) == 2 * Offset(delta) <= Half
=============================================================================
