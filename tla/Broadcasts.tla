------------------------------ MODULE Broadcasts ------------------------------
(***************************************************************************)
(* The broadcasts table of the server's database (server/broadcast.c):     *)
(* store_broadcast inserts, broadcasts_since selects what was sent since a *)
(* time, in one query for each parity of the year.  Workers call both, so  *)
(* a broadcast may be stored between the two queries.  SQL has no unsigned *)
(* 32-bit column: bind_int takes a date of an odd year for a negative one. *)
(***************************************************************************)
EXTENDS Timestamps, Sequences, FiniteSets

CONSTANTS
  Idents,      \* values of an ident, 2^24
  MaxStored,   \* bound: rows of the table
  MaxLength    \* bound: the maximum a caller asks for

ASSUME BroadcastsAssumption ==
  Idents \in Nat \ {0} /\ MaxStored \in Nat /\ MaxLength \in Nat

VARIABLES
  broadcasts,  \* the table; row n has the message n
  bpc,         \* broadcasts_since: location, "undefined" once memory behind bs was written
  asked, now,  \* its argument t, and the clock
  room,        \* elements of bs
  bs,          \* its elements; the queries state no order
  stored       \* history: rows in the table when it was called

call == <<bpc, asked, now, room, bs, stored>>
broadcastVars == <<broadcasts, call>>

Never == [yearity |-> 0, seconds |-> 0, subseconds |-> 0]

AtRest == bpc = "idle" /\ asked = Never /\ now = Never /\ room = 0 /\ bs = {} /\ stored = 0

BroadcastsInit == broadcasts = <<>> /\ AtRest

\* sqlite3_bind_int(s, n, t.i)
Bound(t) == Bits(t) - 2 * Half * t.yearity

StoreBroadcast ==
  /\ Len(broadcasts) < MaxStored
  /\ \E date \in Timestamp, ident \in 0 .. Idents - 1 :
       broadcasts' = Append(broadcasts, [timestamp |-> Bound(date), ident |-> ident])
  /\ UNCHANGED call

\* The columns are read in another order than they were written in.
RowToBroadcast(n) ==
  [ident |-> broadcasts[n].timestamp % Idents, date |-> broadcasts[n].ident, message |-> n]

\* (%s) and timestamp >= ?; 1 << 31 is a positive number to SQL.
Matching_All(yearity, least) ==
  {n \in DOMAIN broadcasts : IF yearity = 1 THEN broadcasts[n].timestamp >= Half
                                            ELSE broadcasts[n].timestamp < Half}

Matching_Swapped(yearity, least) ==
  {n \in DOMAIN broadcasts :
     /\ IF yearity = 0 THEN broadcasts[n].timestamp >= Half ELSE broadcasts[n].timestamp < Half
     /\ broadcasts[n].timestamp >= least}

Matching(yearity, least) ==
  {n \in DOMAIN broadcasts :
     /\ IF yearity = 1 THEN broadcasts[n].timestamp >= Half ELSE broadcasts[n].timestamp < Half
     /\ broadcasts[n].timestamp >= least}

CallSince ==
  /\ bpc = "idle"
  /\ asked' \in Timestamp /\ now' \in Readings /\ room' \in 0 .. MaxLength
  /\ bpc' = "first"
  /\ stored' = Len(broadcasts)
  /\ UNCHANGED <<broadcasts, bs>>

\* The rows of a query are appended; nothing compares their number with what
\* the caller made room for.
Fetch(rows, next) ==
  /\ bs' = bs \cup {RowToBroadcast(n) : n \in rows}
  /\ bpc' \in {next} \cup (IF Cardinality(bs') > room THEN {"undefined"} ELSE {})
  /\ UNCHANGED <<broadcasts, asked, now, room, stored>>

FirstQuery ==
  /\ bpc = "first"
  /\ Fetch(Matching(asked.yearity, Bound(asked)), IF now.yearity # asked.yearity THEN "second" ELSE "done")

\* now.yearity << 31
SecondQuery ==
  /\ bpc = "second"
  /\ Fetch(Matching(now.yearity, -Half * now.yearity), "done")

ReturnBroadcasts ==
  /\ bpc = "done"
  /\ bpc' = "idle" /\ asked' = Never /\ now' = Never /\ room' = 0 /\ bs' = {} /\ stored' = 0
  /\ UNCHANGED broadcasts

BroadcastsNext ==
  /\ bpc # "undefined"
  /\ StoreBroadcast \/ CallSince \/ FirstQuery \/ SecondQuery \/ ReturnBroadcasts

\* The process ends, in a call or not; the table stays.
BroadcastsCrash ==
  /\ bpc' = "idle" /\ asked' = Never /\ now' = Never /\ room' = 0 /\ bs' = {} /\ stored' = 0
  /\ UNCHANGED broadcasts

BroadcastsSpec == BroadcastsInit /\ [][BroadcastsNext \/ BroadcastsCrash]_broadcastVars

-----------------------------------------------------------------------------
(* Properties. *)

\* The date of a row as it was stored
DateOf(n) == CHOOSE d \in Timestamp : Bound(d) = broadcasts[n].timestamp

\* In the year of t from t on, or in the year of the clock when that is another.
Since(n) ==
  \/ DateOf(n).yearity = asked.yearity /\ Offset(DateOf(n)) >= Offset(asked)
  \/ now.yearity # asked.yearity /\ DateOf(n).yearity = now.yearity

\* The rows broadcasts_since returns are from t on, whatever was stored
\* meanwhile and over a new year too (broadcast.c:36-60).  This is said of the
\* row; the date handed out with it is another column (broadcast.c:12-13).
ReplayNotOlder == \A b \in bs : Since(b.message)

\* Of the broadcasts of even years it leaves none out that was stored when it
\* was called (broadcast.c:36-60).
ReplayComplete ==
  bpc = "done" =>
    \A n \in 1 .. stored : DateOf(n).yearity = 0 /\ Since(n) => \E b \in bs : b.message = n

\* "get all with matching yearity", "get all with mistmatched yearity"
\* (broadcast.c:33, 47): it leaves none out, of whatever year.
ReplayLeavesNoneOut ==
  bpc = "done" => \A n \in 1 .. stored : Since(n) => \E b \in bs : b.message = n

\* range_timestamp accepts only a timestamp that is less than delta away from
\* the clock, and within a year every such timestamp (time.c:31-83).
RangeExact ==
  bpc = "first" =>
    \A delta \in Interval : AtMostHalf(delta) =>
      /\ range_timestamp(asked, now, delta) => Within(asked, now, delta)
      /\ asked.yearity = now.yearity /\ Within(asked, now, delta) => range_timestamp(asked, now, delta)

\* "check timestamp is within delta, in either direction" (time.c:31): a date
\* less than delta away is accepted, over a new year too.
RangeInEitherDirection ==
  bpc = "first" /\ asked \in Readings =>
    \A delta \in Interval : AtMostHalf(delta) =>
      (Within(asked, now, delta) => range_timestamp(asked, now, delta))
=============================================================================
