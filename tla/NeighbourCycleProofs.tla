------------------------- MODULE NeighbourCycleProofs -------------------------
(***************************************************************************)
(* Proofs about the receive cycle of the neighbours, for pools of any size *)
(* and any number of descriptors and addresses.                            *)
(***************************************************************************)
EXTENDS NeighbourCycle, TLAPS

Entry == [fd : Descriptors \cup {Unwritten}, addr : Addresses \cup {Unwritten}]

\* The writer of the pool is at its last entry, and has not written the field
\* it is about to write.
WriterInv ==
  /\ Len(entries) <= Limit
  /\ stage = "fd" => Len(entries) > 0 /\ entries[Len(entries)].fd = Unwritten
  /\ stage \in {"fd", "addr"} => Len(entries) > 0 /\ entries[Len(entries)].addr = Unwritten

\* A written entry was filed under a connection its number had then.
FiledInv == \A k \in 1 .. Len(entries) : entries[k].fd \in Fds => filed[k] <= conn[entries[k].fd]

\* What recv left in packet, for the descriptor it was called with.
Received == Attributed(packet, fds[turn + 1], turn + 1)

\* The snapshot is as long as the pool was, once it is filled.
CycleInv ==
  /\ length <= Len(entries)
  /\ npc = "size" => fds = <<>> /\ ready = {} /\ turn = 0
  /\ npc \in {"poll", "scan", "recv", "post"} => Len(fds) = length
  /\ npc \in {"recv", "post"} => turn < length
  /\ npc = "post" /\ fds[turn + 1] # Unwritten => Received

JobInv == job # NoJob => job.index \in 1 .. Len(entries)

Inv == TypeOK /\ WriterInv /\ FiledInv /\ CycleInv /\ SnapshotCurrent /\ JobInv /\ JobsAttributed

-----------------------------------------------------------------------------
(* The pool as a reader sees it. *)

\* No entry is lost, and what is written in one stays.
LEMMA PoolKeeps ==
  ASSUME entries \in Seq(Entry), WriterInv, PoolNext
  PROVE  /\ entries' \in Seq(Entry) /\ stage' \in {"idle", "fd", "addr"} /\ WriterInv'
         /\ Len(entries) <= Len(entries')
         /\ \A k \in 1 .. Len(entries) :
              /\ entries[k].fd # Unwritten => entries'[k].fd = entries[k].fd
              /\ entries[k].addr # Unwritten => entries'[k].addr = entries[k].addr
<1> DEFINE last == Len(entries)
<1>1. CASE Enter
  <2>1. NewEntry \in Entry /\ NewEntry.fd = Unwritten /\ NewEntry.addr = Unwritten
    BY DEF NewEntry, Entry
  <2>2. /\ entries' = Append(entries, NewEntry) /\ stage' = "fd" /\ last < Limit /\ last \in Nat
    BY <1>1 DEF Enter
  <2>3. /\ entries' \in Seq(Entry) /\ Len(entries') = last + 1 /\ entries'[last + 1] = NewEntry
        /\ \A k \in 1 .. last : entries'[k] = entries[k]
    BY <2>1, <2>2
  <2>4. WriterInv'
    BY <2>1, <2>2, <2>3, NeighbourCycleAssumption DEF WriterInv
  <2> QED BY <2>2, <2>3, <2>4
<1>2. CASE WriteFd
  <2>1. PICK fd \in Descriptors : entries' = [entries EXCEPT ![last].fd = fd]
    BY <1>2 DEF WriteFd
  <2>2. stage = "fd" /\ stage' = "addr" /\ last \in 1 .. Len(entries) /\ entries[last] \in Entry
    BY <1>2 DEF WriteFd, WriterInv
  <2>3. [entries[last] EXCEPT !.fd = fd] \in Entry
    BY <2>2 DEF Entry
  <2>4. /\ entries' \in Seq(Entry) /\ Len(entries') = last
        /\ entries'[last] = [entries[last] EXCEPT !.fd = fd]
        /\ \A k \in 1 .. last : k # last => entries'[k] = entries[k]
    BY <2>1, <2>2, <2>3
  <2>5. entries'[last].addr = entries[last].addr
    BY <2>2, <2>4 DEF Entry
  <2> QED BY <2>2, <2>4, <2>5 DEF WriterInv
<1>3. CASE WriteAddr
  <2>1. PICK a \in Addresses : entries' = [entries EXCEPT ![last].addr = a]
    BY <1>3 DEF WriteAddr
  <2>2. stage = "addr" /\ stage' = "idle" /\ last \in 1 .. Len(entries) /\ entries[last] \in Entry
    BY <1>3 DEF WriteAddr, WriterInv
  <2>3. [entries[last] EXCEPT !.addr = a] \in Entry
    BY <2>2 DEF Entry
  <2>4. /\ entries' \in Seq(Entry) /\ Len(entries') = last
        /\ entries'[last] = [entries[last] EXCEPT !.addr = a]
        /\ \A k \in 1 .. last : k # last => entries'[k] = entries[k]
    BY <2>1, <2>2, <2>3
  <2>5. entries'[last].fd = entries[last].fd /\ entries[last].addr = Unwritten
    BY <2>2, <2>4 DEF Entry, WriterInv
  <2>6. WriterInv'
    BY <2>2, <2>4 DEF WriterInv
  <2>7. ASSUME NEW k \in 1 .. last
        PROVE  /\ entries[k].fd # Unwritten => entries'[k].fd = entries[k].fd
               /\ entries[k].addr # Unwritten => entries'[k].addr = entries[k].addr
    <3>1. CASE k = last
      BY <2>5, <3>1
    <3>2. CASE k # last
      BY <2>4, <3>2
    <3> QED BY <3>1, <3>2
  <2> QED BY <2>2, <2>4, <2>6, <2>7
<1> QED BY <1>1, <1>2, <1>3 DEF PoolNext

\* The connection an entry is filed under is written with its descriptor.
LEMMA FiledGrows ==
  ASSUME TypeOK, WriterInv, FiledInv, PoolGrows
  PROVE  /\ FiledInv' /\ filed' \in [1 .. Limit -> 0 .. MaxReuse]
         /\ \A k \in 1 .. Len(entries) : entries[k].fd # Unwritten => filed'[k] = filed[k]
<1> DEFINE last == Len(entries)
           f == entries'[last].fd
<1>1. /\ PoolNext /\ UNCHANGED conn
      /\ filed' = IF stage = "fd" /\ f \in Fds THEN [filed EXCEPT ![last] = conn[f]] ELSE filed
  BY DEF PoolGrows, kernel
<1>2. /\ entries \in Seq(Entry) /\ last \in Nat /\ last <= Limit /\ Limit \in Nat /\ Unwritten \notin Fds
      /\ filed \in [1 .. Limit -> 0 .. MaxReuse] /\ conn \in [Fds -> 0 .. MaxReuse] /\ MaxReuse \in Nat
  BY NeighbourCycleAssumption DEF TypeOK, WriterInv, Entry, Fds
<1>3. CASE stage = "fd"
  <2>1. last \in 1 .. Limit /\ entries[last].fd = Unwritten
    BY <1>2, <1>3 DEF WriterInv
  <2>2. filed' \in [1 .. Limit -> 0 .. MaxReuse] /\ \A k \in 1 .. Limit : k # last => filed'[k] = filed[k]
    <3>1. CASE f \in Fds
      <4>1. filed' = [filed EXCEPT ![last] = conn[f]] /\ conn[f] \in 0 .. MaxReuse
        BY <1>1, <1>2, <1>3, <3>1
      <4> HIDE DEF f
      <4> QED BY <1>2, <2>1, <4>1
    <3>2. CASE f \notin Fds
      BY <1>1, <1>2, <3>2
    <3> QED BY <3>1, <3>2
  <2>3. f \in Fds => filed'[last] = conn[f]
    BY <1>1, <1>2, <1>3, <2>1
  <2>4. PICK fd \in Descriptors : entries' = [entries EXCEPT ![last].fd = fd]
    BY <1>1, <1>3 DEF PoolNext, Enter, WriteFd, WriteAddr
  <2>5. Len(entries') = last /\ \A k \in 1 .. last : k # last => entries'[k] = entries[k]
    BY <1>2, <2>4
  <2>6. ASSUME NEW k \in 1 .. last, entries'[k].fd \in Fds  PROVE filed'[k] <= conn[entries'[k].fd]
    <3>1. CASE k = last
      <4>1. filed'[last] = conn[f] /\ conn[f] \in 0 .. MaxReuse
        BY <1>2, <2>3, <2>6, <3>1
      <4> QED BY <1>2, <3>1, <4>1
    <3>2. CASE k # last
      <4>1. entries'[k] = entries[k] /\ filed'[k] = filed[k]
        BY <1>2, <2>2, <2>5, <3>2
      <4> QED BY <2>6, <4>1 DEF FiledInv
    <3> QED BY <3>1, <3>2
  <2>7. FiledInv'
    BY <1>1, <2>5, <2>6 DEF FiledInv
  <2>8. \A k \in 1 .. last : entries[k].fd # Unwritten => filed'[k] = filed[k]
    BY <1>2, <2>1, <2>2
  <2> QED BY <2>2, <2>7, <2>8
<1>4. CASE stage # "fd"
  <2>1. filed' = filed
    BY <1>1, <1>4
  <2>2. Enter \/ WriteAddr
    BY <1>1, <1>4 DEF PoolNext, WriteFd
  <2>3. \A k \in 1 .. Len(entries') :
           entries'[k].fd = Unwritten \/ (k \in 1 .. last /\ entries'[k].fd = entries[k].fd)
    <3>1. CASE Enter
      <4>1. NewEntry.fd = Unwritten /\ entries' = Append(entries, NewEntry)
        BY <3>1 DEF Enter, NewEntry
      <4> QED BY <1>2, <4>1
    <3>2. CASE WriteAddr
      <4>1. PICK a \in Addresses : entries' = [entries EXCEPT ![last].addr = a]
        BY <3>2 DEF WriteAddr
      <4>2. \A k \in 1 .. last : entries[k] \in Entry
        BY <1>2
      <4>3. Len(entries') = last /\ \A k \in 1 .. last : entries'[k] = entries[k] \/ entries'[k] = [entries[k] EXCEPT !.addr = a]
        BY <1>2, <4>1
      <4>4. \A k \in 1 .. last : entries'[k].fd = entries[k].fd
        BY <4>2, <4>3 DEF Entry
      <4> QED BY <4>3, <4>4
    <3> QED BY <2>2, <3>1, <3>2
  <2>4. FiledInv'
    BY <1>1, <1>2, <2>1, <2>3 DEF FiledInv
  <2> QED BY <1>2, <2>1, <2>4
<1> QED BY <1>3, <1>4

\* What is attributed to a written entry stays so, whatever the pool and the
\* kernel do: a number that is closed and given away has a later connection.
LEMMA StaysAttributed ==
  ASSUME TypeOK, WriterInv, FiledInv, PoolGrows \/ Arrive \/ HangUp \/ Steal \/ Close \/ Reuse,
         NEW source, NEW k \in 1 .. Len(entries), NEW f, f = entries[k].fd, f # Unwritten,
         Attributed(source, f, k)
  PROVE  Attributed(source, f, k)'
<1>1. CASE PoolGrows
  BY <1>1, FiledGrows DEF PoolGrows, kernel, Attributed
<1>2. CASE Arrive \/ HangUp \/ Steal
  BY <1>2 DEF Arrive, HangUp, Steal, Attributed
<1>3. CASE Close
  BY <1>3 DEF Close, Attributed
<1>4. CASE Reuse
  <2>1. PICK g \in closed : closed' = closed \ {g} /\ conn' = [conn EXCEPT ![g] = @ + 1]
    BY <1>4 DEF Reuse
  <2>2. UNCHANGED <<filed, hungUp>>
    BY <1>4 DEF Reuse
  <2>3. /\ g \in Fds /\ conn \in [Fds -> 0 .. MaxReuse] /\ MaxReuse \in Nat
        /\ k \in 1 .. Limit /\ filed[k] \in 0 .. MaxReuse
    <3>1. Len(entries) \in Nat /\ Limit \in Nat /\ Len(entries) <= Limit
      BY NeighbourCycleAssumption DEF TypeOK, WriterInv
    <3>2. k \in 1 .. Limit
      BY <3>1
    <3> QED BY <3>2, NeighbourCycleAssumption DEF TypeOK
  <2>4. CASE f = g
    <3>1. conn'[f] = conn[f] + 1 /\ conn[f] \in 0 .. MaxReuse /\ filed[k] <= conn[f]
      BY <2>1, <2>3, <2>4 DEF FiledInv
    <3>2. conn'[f] > filed[k]
      BY <2>3, <3>1
    <3> QED BY <2>2, <2>3, <2>4, <3>2 DEF Attributed
  <2>5. CASE f # g
    <3>1. f \in Fds => conn'[f] = conn[f]
      BY <2>1, <2>3, <2>5
    <3> QED BY <2>1, <2>2, <2>5, <3>1 DEF Attributed
  <2> QED BY <2>4, <2>5
<1> QED BY <1>1, <1>2, <1>3, <1>4

-----------------------------------------------------------------------------
(* The invariant. *)

\* The packet about to be handed over was received on the entry of its index.
LEMMA PostsWritten ==
  ASSUME Inv, npc = "post", fds[turn + 1] # Unwritten
  PROVE  /\ turn + 1 \in 1 .. Len(entries) /\ fds[turn + 1] = entries[turn + 1].fd
         /\ Attributed(packet, fds[turn + 1], turn + 1)
<1>1. /\ turn \in Nat /\ turn < length /\ length \in Nat /\ length <= Len(entries) /\ Len(fds) = length
      /\ Len(entries) \in Nat
  BY DEF Inv, CycleInv, TypeOK
<1>2. turn + 1 \in 1 .. Len(fds) /\ turn + 1 \in 1 .. Len(entries)
  BY <1>1
<1> QED BY <1>2 DEF Inv, CycleInv, Received, SnapshotCurrent

LEMMA InitInv == Init => Inv
<1> SUFFICES ASSUME Init PROVE Inv
  OBVIOUS
<1>1. /\ entries = <<>> /\ stage = "idle" /\ data = {} /\ hungUp = {} /\ closed = {} /\ npc = "size" /\ length = 0
      /\ fds = <<>> /\ ready = {} /\ turn = 0 /\ packet = Unwritten /\ job = NoJob
  BY DEF Init, PoolInit
<1>2. filed \in [1 .. Limit -> 0 .. MaxReuse] /\ conn \in [Fds -> 0 .. MaxReuse]
  BY NeighbourCycleAssumption DEF Init
<1>3. TypeOK
  BY <1>1, <1>2, NeighbourCycleAssumption DEF TypeOK
<1> QED BY <1>1, <1>3, NeighbourCycleAssumption DEF Inv, WriterInv, FiledInv, CycleInv, SnapshotCurrent, JobInv, JobsAttributed

LEMMA PoolGrowsInv ==
  ASSUME Inv, PoolGrows
  PROVE  Inv'
<1>1. /\ UNCHANGED <<data, hungUp, closed, conn, npc, length, fds, ready, turn, packet, job>>
      /\ entries \in Seq(Entry) /\ WriterInv /\ PoolNext
  BY DEF Inv, PoolGrows, kernel, threadVars, TypeOK, Entry
<1>2. /\ entries' \in Seq(Entry) /\ stage' \in {"idle", "fd", "addr"} /\ WriterInv'
      /\ Len(entries) <= Len(entries')
      /\ \A k \in 1 .. Len(entries) :
           /\ entries[k].fd # Unwritten => entries'[k].fd = entries[k].fd
           /\ entries[k].addr # Unwritten => entries'[k].addr = entries[k].addr
  BY <1>1, PoolKeeps
<1>3. Len(entries) \in Nat /\ Len(entries') \in Nat
  BY <1>1, <1>2
<1>4. FiledInv' /\ filed' \in [1 .. Limit -> 0 .. MaxReuse]
  BY FiledGrows DEF Inv
<1>5. TypeOK'
  BY <1>1, <1>2, <1>4 DEF Inv, TypeOK, Entry
<1>6. SnapshotCurrent'
  <2> SUFFICES ASSUME NEW k \in 1 .. Len(fds)
               PROVE  k <= Len(entries') /\ (fds[k] # Unwritten => fds[k] = entries'[k].fd)
    BY <1>1 DEF SnapshotCurrent
  <2>1. k <= Len(entries) /\ (fds[k] # Unwritten => fds[k] = entries[k].fd)
    BY DEF Inv, SnapshotCurrent
  <2> QED BY <1>2, <1>3, <2>1
<1>7. CycleInv'
  <2>1. ASSUME npc = "post", fds[turn + 1] # Unwritten  PROVE Received'
    BY <1>1, <2>1, PostsWritten, StaysAttributed DEF Inv, Received, Attributed
  <2> QED BY <1>1, <1>2, <1>3, <2>1 DEF Inv, CycleInv, TypeOK
<1>8. JobInv'
  BY <1>1, <1>2, <1>3 DEF Inv, JobInv
<1>9. JobsAttributed'
  BY <1>1, <1>2, StaysAttributed DEF Inv, JobInv, JobsAttributed, Attributed
<1> QED BY <1>2, <1>4, <1>5, <1>6, <1>7, <1>8, <1>9 DEF Inv

\* Messages come and go, peers hang up, numbers are closed and given away.
LEMMA KernelInv ==
  ASSUME Inv, Arrive \/ HangUp \/ Steal \/ Close \/ Reuse
  PROVE  Inv'
<1>1. /\ UNCHANGED <<entries, stage, filed, npc, length, fds, ready, turn, packet, job>>
      /\ data' \subseteq Fds /\ hungUp' \subseteq Fds /\ closed' \subseteq Fds
  BY DEF Inv, TypeOK, Arrive, HangUp, Steal, Close, Reuse, poolVars, threadVars
<1>2. conn' \in [Fds -> 0 .. MaxReuse] /\ \A f \in Fds : conn[f] \in Int /\ conn'[f] \in Int /\ conn[f] <= conn'[f]
  <2>1. conn \in [Fds -> 0 .. MaxReuse] /\ MaxReuse \in Nat
    BY NeighbourCycleAssumption DEF Inv, TypeOK
  <2>2. CASE conn' = conn
    BY <2>1, <2>2
  <2>3. CASE Reuse
    <3>1. PICK g \in closed : conn[g] < MaxReuse /\ conn' = [conn EXCEPT ![g] = @ + 1]
      BY <2>3 DEF Reuse
    <3>2. g \in Fds /\ conn[g] + 1 \in 0 .. MaxReuse
      BY <2>1, <3>1 DEF Inv, TypeOK
    <3> QED BY <2>1, <3>1, <3>2
  <2> QED BY <2>2, <2>3 DEF Arrive, HangUp, Steal, Close
<1>3. TypeOK'
  BY <1>1, <1>2 DEF Inv, TypeOK
<1>4. FiledInv'
  <2> SUFFICES ASSUME NEW k \in 1 .. Len(entries), entries[k].fd \in Fds
               PROVE  filed[k] <= conn'[entries[k].fd]
    BY <1>1 DEF FiledInv
  <2>1. Len(entries) \in Nat /\ Limit \in Nat /\ Len(entries) <= Limit /\ MaxReuse \in Nat
    BY NeighbourCycleAssumption DEF Inv, TypeOK, WriterInv
  <2>2. k \in 1 .. Limit
    BY <2>1
  <2>3. filed[k] \in 0 .. MaxReuse /\ filed[k] <= conn[entries[k].fd]
    BY <2>2 DEF Inv, TypeOK, FiledInv
  <2> QED BY <1>2, <2>1, <2>3
<1>5. CycleInv'
  <2>1. ASSUME npc = "post", fds[turn + 1] # Unwritten  PROVE Received'
    BY <1>1, <2>1, PostsWritten, StaysAttributed DEF Inv, Received, Attributed
  <2> QED BY <1>1, <2>1 DEF Inv, CycleInv
<1>6. JobsAttributed'
  BY <1>1, StaysAttributed DEF Inv, JobInv, JobsAttributed, Attributed
<1>7. WriterInv' /\ SnapshotCurrent' /\ JobInv'
  BY <1>1 DEF Inv, WriterInv, SnapshotCurrent, JobInv
<1> QED BY <1>3, <1>4, <1>5, <1>6, <1>7 DEF Inv

LEMMA SizeInv ==
  ASSUME Inv, Size
  PROVE  Inv'
<1>1. /\ UNCHANGED <<entries, stage, filed, data, hungUp, closed, conn, fds, ready, turn, packet, job>>
      /\ length' = Len(entries) /\ npc = "size" /\ npc' = "fill"
  BY DEF Size, poolVars, kernel
<1>2. Len(entries) \in 0 .. Limit /\ fds = <<>> /\ ready = {} /\ turn = 0
  BY <1>1 DEF Inv, TypeOK, WriterInv, CycleInv
<1>3. TypeOK'
  BY <1>1, <1>2 DEF Inv, TypeOK
<1>4. CycleInv' /\ SnapshotCurrent'
  BY <1>1, <1>2 DEF CycleInv, SnapshotCurrent
<1>5. WriterInv' /\ FiledInv' /\ JobInv' /\ JobsAttributed'
  BY <1>1 DEF Inv, WriterInv, FiledInv, JobInv, JobsAttributed, Attributed
<1> QED BY <1>3, <1>4, <1>5 DEF Inv

\* What goes out of scope at the end of the loop's body.
LEMMA AgainInv ==
  ASSUME Inv, Again
  PROVE  Inv'
<1>1. /\ UNCHANGED <<entries, stage, filed, data, hungUp, closed, conn, packet>>
      /\ length' = 0 /\ fds' = <<>> /\ ready' = {} /\ turn' = 0 /\ npc' = "size" /\ job' = NoJob
  BY DEF Again, poolVars, kernel
<1>2. Len(entries) \in 0 .. Limit
  BY DEF Inv, TypeOK, WriterInv
<1>3. fds' \in Seq(Descriptors \cup {Unwritten}) /\ Len(fds') = 0 /\ 0 \in 0 .. Limit /\ 0 <= Len(entries)
  BY <1>1, <1>2, NeighbourCycleAssumption
<1>4. TypeOK'
  BY <1>1, <1>3 DEF Inv, TypeOK
<1>5. CycleInv' /\ SnapshotCurrent'
  BY <1>1, <1>3 DEF CycleInv, SnapshotCurrent
<1>6. WriterInv' /\ FiledInv' /\ JobInv' /\ JobsAttributed'
  BY <1>1 DEF Inv, WriterInv, FiledInv, JobInv, JobsAttributed
<1> QED BY <1>4, <1>5, <1>6 DEF Inv

LEMMA FillInv ==
  ASSUME Inv, Fill
  PROVE  Inv'
<1> DEFINE k == Len(fds) + 1
<1>1. /\ UNCHANGED <<entries, stage, filed, data, hungUp, closed, conn, length, ready, turn, packet, job>> /\ npc = "fill"
  BY DEF Fill, poolVars, kernel
<1>2. /\ fds \in Seq(Descriptors \cup {Unwritten}) /\ entries \in Seq(Entry)
      /\ Len(fds) < Len(entries) /\ Len(fds) \in Nat /\ Len(entries) \in Nat
  BY DEF Inv, TypeOK, Fill, Entry
<1>3. WriterInv' /\ FiledInv' /\ JobInv' /\ JobsAttributed'
  BY <1>1 DEF Inv, WriterInv, FiledInv, JobInv, JobsAttributed, Attributed
<1>4. CASE Len(fds) < length
  <2>1. entries[k].fd \in Descriptors \cup {Unwritten}
    <3>1. k \in 1 .. Len(entries)
      BY <1>2
    <3>2. entries[k] \in Entry
      BY <1>2, <3>1
    <3> QED BY <3>2 DEF Entry
  <2>2. fds' = Append(fds, entries[k].fd) /\ npc' = npc
    BY <1>4 DEF Fill
  <2>3. /\ fds' \in Seq(Descriptors \cup {Unwritten}) /\ Len(fds') = k
        /\ fds'[k] = entries[k].fd /\ \A m \in 1 .. Len(fds) : fds'[m] = fds[m]
    BY <1>2, <2>1, <2>2
  <2>4. TypeOK'
    <3>1. Len(fds') <= length /\ ready \subseteq 1 .. Len(fds')
      BY <1>2, <1>4, <2>3 DEF Inv, TypeOK
    <3> QED BY <1>1, <2>2, <2>3, <3>1 DEF Inv, TypeOK
  <2>5. CycleInv'
    BY <1>1, <2>2 DEF Inv, CycleInv
  <2>6. SnapshotCurrent'
    BY <1>1, <1>2, <2>3 DEF Inv, SnapshotCurrent
  <2> QED BY <1>3, <2>4, <2>5, <2>6 DEF Inv
<1>5. CASE ~(Len(fds) < length)
  <2>1. npc' = "undefined" /\ UNCHANGED fds
    BY <1>5 DEF Fill
  <2> QED BY <1>1, <1>3, <2>1 DEF Inv, TypeOK, CycleInv, SnapshotCurrent
<1> QED BY <1>4, <1>5

\* The pool never shrinks, so a filled snapshot has the length it was given.
LEMMA FillEndInv ==
  ASSUME Inv, FillEnd
  PROVE  Inv'
<1>1. /\ UNCHANGED <<entries, stage, filed, data, hungUp, closed, conn, length, fds, ready, turn, packet, job>>
      /\ npc' = "poll" /\ Len(fds) >= Len(entries)
  BY DEF FillEnd, poolVars, kernel
<1>2. Len(fds) \in Nat /\ Len(entries) \in Nat /\ Len(fds) <= length /\ length <= Len(entries) /\ length \in Nat
  BY DEF Inv, TypeOK, CycleInv
<1>3. Len(fds) = length
  BY <1>1, <1>2
<1>4. TypeOK' /\ CycleInv'
  BY <1>1, <1>3 DEF Inv, TypeOK, CycleInv
<1>5. WriterInv' /\ FiledInv' /\ SnapshotCurrent' /\ JobInv' /\ JobsAttributed'
  BY <1>1 DEF Inv, WriterInv, FiledInv, SnapshotCurrent, JobInv, JobsAttributed, Attributed
<1> QED BY <1>4, <1>5 DEF Inv

LEMMA PollInv ==
  ASSUME Inv, Poll \/ PollPast
  PROVE  Inv'
<1>1. /\ UNCHANGED <<entries, stage, filed, data, hungUp, closed, conn, length, fds, turn, packet, job>>
      /\ npc = "poll" /\ npc' \in {"undefined", "scan"}
      /\ ready' = ready \/ ready' \subseteq 1 .. Len(fds)
  BY DEF Poll, PollPast, poolVars, kernel
<1>2. TypeOK' /\ CycleInv'
  BY <1>1 DEF Inv, TypeOK, CycleInv
<1>3. WriterInv' /\ FiledInv' /\ SnapshotCurrent' /\ JobInv' /\ JobsAttributed'
  BY <1>1 DEF Inv, WriterInv, FiledInv, SnapshotCurrent, JobInv, JobsAttributed, Attributed
<1> QED BY <1>2, <1>3 DEF Inv

LEMMA ScanInv ==
  ASSUME Inv, ScanSkip \/ ScanTake
  PROVE  Inv'
<1>1. /\ UNCHANGED <<entries, stage, filed, data, hungUp, closed, conn, length, fds, ready, packet, job>>
      /\ npc = "scan"
  BY DEF ScanSkip, ScanTake, poolVars, kernel
<1>2. /\ turn \in Nat /\ length \in Nat
      /\ \/ npc' = "scan" /\ turn' = turn + 1 /\ turn < length
         \/ npc' = "recv" /\ turn' = turn /\ turn < length
         \/ npc' = "undefined" /\ turn' = turn
  BY DEF ScanSkip, ScanTake, Inv, TypeOK
<1>3. TypeOK' /\ CycleInv'
  BY <1>1, <1>2 DEF Inv, TypeOK, CycleInv
<1>4. WriterInv' /\ FiledInv' /\ SnapshotCurrent' /\ JobInv' /\ JobsAttributed'
  BY <1>1 DEF Inv, WriterInv, FiledInv, SnapshotCurrent, JobInv, JobsAttributed, Attributed
<1> QED BY <1>3, <1>4 DEF Inv

\* recv leaves the message of the connection its number has now.
LEMMA RecvInv ==
  ASSUME Inv, Recv
  PROVE  Inv'
<1> DEFINE k == turn + 1
           f == fds[turn + 1]
<1>1. /\ UNCHANGED <<entries, stage, filed, hungUp, closed, conn, length, fds, ready, turn, job>>
      /\ npc = "recv" /\ npc' = "post"
      /\ \/ (f \in hungUp \/ f \in closed \/ f = Unwritten) /\ UNCHANGED <<packet, data>>
         \/ \E g \in data : (g = f \/ f = Unwritten) /\ packet' = [fd |-> g, conn |-> conn[g]] /\ data' = data \ {g}
  BY DEF Recv, poolVars
<1>2. data \subseteq Fds /\ conn \in [Fds -> 0 .. MaxReuse] /\ packet \in Packets \cup {Unwritten}
  BY DEF Inv, TypeOK
<1>3. data' \subseteq Fds /\ packet' \in Packets \cup {Unwritten}
  BY <1>1, <1>2 DEF Packets
<1>4. TypeOK'
  BY <1>1, <1>3 DEF Inv, TypeOK
<1>5. ASSUME f # Unwritten  PROVE Received'
  <2>1. CASE f \in hungUp \cup closed
    BY <1>1, <2>1 DEF Received, Attributed
  <2>2. CASE f \in data /\ packet' = [fd |-> f, conn |-> conn[f]]
    <3>1. /\ turn \in Nat /\ turn < length /\ length \in Nat /\ length <= Len(entries) /\ Len(fds) = length
          /\ Len(entries) \in Nat /\ Len(entries) <= Limit /\ Limit \in Nat /\ MaxReuse \in Nat
      BY <1>1, NeighbourCycleAssumption DEF Inv, CycleInv, TypeOK, WriterInv
    <3>2. k \in 1 .. Len(fds) /\ k \in 1 .. Len(entries) /\ k \in 1 .. Limit
      BY <3>1
    <3>3. f = entries[k].fd /\ f \in Fds
      BY <1>2, <1>5, <2>2, <3>2 DEF Inv, SnapshotCurrent
    <3>4. filed[k] \in 0 .. MaxReuse /\ conn[f] \in 0 .. MaxReuse /\ filed[k] <= conn[f]
      BY <1>2, <3>2, <3>3 DEF Inv, TypeOK, FiledInv
    <3>5. filed[k] = conn[f] \/ conn[f] > filed[k]
      BY <3>1, <3>4
    <3> QED BY <1>1, <2>2, <3>3, <3>5 DEF Received, Attributed
  <2> QED BY <1>1, <1>5, <2>1, <2>2
<1>6. CycleInv'
  BY <1>1, <1>5 DEF Inv, CycleInv
<1>7. WriterInv' /\ FiledInv' /\ SnapshotCurrent' /\ JobInv' /\ JobsAttributed'
  BY <1>1 DEF Inv, WriterInv, FiledInv, SnapshotCurrent, JobInv, JobsAttributed, Attributed
<1> QED BY <1>4, <1>6, <1>7 DEF Inv

LEMMA PostInv ==
  ASSUME Inv, Post
  PROVE  Inv'
<1> DEFINE k == turn + 1
<1>1. /\ UNCHANGED <<entries, stage, filed, data, hungUp, closed, conn, length, fds, ready, packet>>
      /\ npc = "post" /\ npc' = "scan" /\ turn' = k
      /\ job' = [index |-> k, polled |-> fds[k], source |-> packet, origin |-> entries[k].addr]
  BY DEF Post, poolVars, kernel
<1>2. /\ turn \in Nat /\ length \in Nat /\ turn < length /\ length <= Len(entries) /\ Len(fds) = length
      /\ Len(entries) \in Nat
  BY <1>1 DEF Inv, TypeOK, CycleInv
<1>3. k \in 1 .. Len(entries)
  BY <1>2
<1>4. TypeOK' /\ CycleInv'
  BY <1>1, <1>2 DEF Inv, TypeOK, CycleInv
<1>5. WriterInv' /\ FiledInv' /\ SnapshotCurrent'
  BY <1>1 DEF Inv, WriterInv, FiledInv, SnapshotCurrent
<1>6. JobInv'
  BY <1>1, <1>3 DEF JobInv
<1>7. JobsAttributed'
  BY <1>1, PostsWritten DEF JobsAttributed, Attributed
<1> QED BY <1>4, <1>5, <1>6, <1>7 DEF Inv

LEMMA StepInv == Inv /\ [Next]_vars => Inv'
<1> SUFFICES ASSUME Inv, [Next]_vars PROVE Inv'
  OBVIOUS
<1>1. CASE UNCHANGED vars
  <2>1. UNCHANGED <<entries, stage, filed, data, hungUp, closed, conn, npc, length, fds, ready, turn, packet, job>>
    BY <1>1 DEF vars, poolVars, kernel, threadVars
  <2> QED BY <2>1 DEF Inv, TypeOK, WriterInv, FiledInv, CycleInv, Received, SnapshotCurrent, JobInv, JobsAttributed, Attributed
<1>2. CASE PoolGrows
  BY <1>2, PoolGrowsInv
<1>3. CASE Arrive \/ HangUp \/ Steal \/ Close \/ Reuse
  BY <1>3, KernelInv
<1>4. CASE Cycle
  <2>1. CASE ScanEnd \/ PollNone
    BY <2>1, AgainInv DEF ScanEnd, PollNone
  <2> QED BY <1>4, <2>1, SizeInv, FillInv, FillEndInv, PollInv, ScanInv, RecvInv, PostInv DEF Cycle
<1> QED BY <1>1, <1>2, <1>3, <1>4 DEF Next

LEMMA InvAlways == Spec => []Inv
BY InitInv, StepInv, PTL DEF Spec

-----------------------------------------------------------------------------
(* The properties. *)

\* Every variable keeps its type; the indices of the cycle stay in the snapshot.
THEOREM TypeCorrect == Spec => []TypeOK
<1>1. Inv => TypeOK
  BY DEF Inv
<1> QED BY <1>1, InvAlways, PTL

\* What the thread copied from the pool stays true of it, for a writer that
\* fills its entries in the order of new_neighbour.
THEOREM SnapshotStaysCurrent == Spec => []SnapshotCurrent
<1>1. Inv => SnapshotCurrent
  BY DEF Inv
<1> QED BY <1>1, InvAlways, PTL

\* A packet is attributed to the neighbour it was read from, but in the four
\* ways the property names.
THEOREM JobsAreAttributed == Spec => []JobsAttributed
<1>1. Inv => JobsAttributed
  BY DEF Inv
<1> QED BY <1>1, InvAlways, PTL
=============================================================================
