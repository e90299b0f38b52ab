-------------------------------- MODULE Cipher --------------------------------
(***************************************************************************)
(* The key schedule of the stream cipher (server/crypto.c) and two nodes   *)
(* that use it on the two directions of one session.                       *)
(*                                                                         *)
(* A key is mats_count matrices of four rows; update_key overwrites the    *)
(* row at the cursor and advances it, and at times multiplies the matrices *)
(* out into cmat, the matrix packets are transformed by.  Rows are opaque  *)
(* here, and a product stands for the rows it was made from: decryption    *)
(* gives the plaintext exactly when it uses the cmat of the encryption.    *)
(*                                                                         *)
(* update_key takes no lock, so two workers on one session could come      *)
(* between each other's statements.  Assumed here: each end of a session   *)
(* is served by one worker at a time, which makes a call of encrypt_packet,*)
(* decrypt_packet or rekey_cipher one step.                                *)
(***************************************************************************)
EXTENDS Integers, Sequences, FiniteSets

CONSTANTS
  Sides,       \* the two ends of the session
  Mats,        \* cipher_key.mats_count
  Messages,    \* plaintexts, also the key vector sumvec makes of each
  CmatStarts,  \* what the memory of cmat can hold when the session starts
  CleanSum,    \* does sumvec start from zero?  Its v is not initialised.
  Primed, Behind, Garbage, Noise,
               \* rows: as prime_cipher left them, behind the array, made from a packet
               \* that decrypted to something else, made from an uninitialised v
  MaxPackets,  \* bound: packets a node sends
  MaxRekeys,   \* bound: calls of rekey_cipher by a node
  MaxInFlight  \* bound: packets under way in a direction

ASSUME CipherAssumption ==
  /\ Mats \in Nat \ {0}
  /\ CleanSum \in BOOLEAN
  /\ \A m \in Messages \cup {Primed, Behind, Garbage, Noise} : m \notin CmatStarts
  /\ MaxPackets \in Nat /\ MaxRekeys \in Nat /\ MaxInFlight \in Nat

VARIABLES
  rows,     \* mats[i / 4].m[i % 4]: per node the rows of the key, and the two behind it
  cur,      \* mats_cur
  cmat,     \* the rows cmat was multiplied out from
  wire,     \* packets under way to a node: plaintext and the cmat it was encrypted with
  clear,    \* the last packet a node received: what was sent and what came out
  sent, rekeys

key == <<rows, cur, cmat>>
cipherVars == <<key, wire, clear, sent, rekeys>>

Rows == 0 .. 4 * Mats - 1    \* the rows alloc_cipher asked memory for
Cursors == 0 .. 4 * Mats + 1

Entropy == [entropy : 1 .. 4 * MaxRekeys]   \* the vectors drawn after priming

CipherInit ==
  /\ rows = [n \in Sides |-> [r \in Cursors |-> IF r \in Rows THEN Primed ELSE Behind]]
  /\ cur = [n \in Sides |-> 0]
  /\ cmat \in [Sides -> {[r \in Rows |-> s] : s \in CmatStarts}]
  /\ wire = [n \in Sides |-> <<>>]
  /\ clear = [n \in Sides |-> <<>>]
  /\ sent = [n \in Sides |-> 0]
  /\ rekeys = [n \in Sides |-> 0]

-----------------------------------------------------------------------------
(* update_key, on a record of one node's key. *)

Key(n) == [rows |-> rows[n], cur |-> cur[n], cmat |-> cmat[n]]

Advance_Far(c) == IF c > 4 * Mats + 1 THEN 0 ELSE c + 1

Advance(c) == IF c > 4 * Mats THEN 0 ELSE c + 1

Regenerated_Odd(k) ==
  IF k.cur % 4 = 1 THEN [k EXCEPT !.cmat = [r \in Rows |-> k.rows[r]]] ELSE k

Regenerated(k) ==
  IF k.cur % 4 = 0 THEN [k EXCEPT !.cmat = [r \in Rows |-> k.rows[r]]] ELSE k

UpdateKey(k, v) ==
  Regenerated([k EXCEPT !.rows[k.cur] = v, !.cur = Advance(k.cur)])

SetKey(n, k) ==
  /\ rows' = [rows EXCEPT ![n] = k.rows]
  /\ cur' = [cur EXCEPT ![n] = k.cur]
  /\ cmat' = [cmat EXCEPT ![n] = k.cmat]

\* sumvec: what the key vector made of a message can be.
Sums(m) == {m} \cup (IF CleanSum THEN {} ELSE {Noise})

\* encrypt_packet: the key is updated first, then used.
Encrypt(n, to) ==
  /\ sent[n] < MaxPackets
  /\ Len(wire[to]) < MaxInFlight
  /\ \E m \in Messages : \E v \in Sums(m) :
       LET k == UpdateKey(Key(n), v) IN
         /\ SetKey(n, k)
         /\ wire' = [wire EXCEPT ![to] = Append(@, [plain |-> m, under |-> k.cmat])]
  /\ sent' = [sent EXCEPT ![n] = @ + 1]
  /\ UNCHANGED <<clear, rekeys>>

\* decrypt_packet: the key is used, then updated with what came out.
Decrypt_NoUpdate(n) ==
  /\ wire[n] # <<>>
  /\ LET p == Head(wire[n])
         d == IF p.under = cmat[n] THEN p.plain ELSE Garbage
     IN  clear' = [clear EXCEPT ![n] = <<p.plain, d>>]
  /\ wire' = [wire EXCEPT ![n] = Tail(@)]
  /\ UNCHANGED <<key, sent, rekeys>>

Decrypt(n) ==
  /\ wire[n] # <<>>
  /\ LET p == Head(wire[n])
         d == IF p.under = cmat[n] THEN p.plain ELSE Garbage
     IN  /\ \E v \in Sums(d) : SetKey(n, UpdateKey(Key(n), v))
         /\ clear' = [clear EXCEPT ![n] = <<p.plain, d>>]
  /\ wire' = [wire EXCEPT ![n] = Tail(@)]
  /\ UNCHANGED <<sent, rekeys>>

\* rekey_cipher: four vectors of the pool, the same on both sides.
Drawn(n) == [i \in 1 .. 4 |-> [entropy |-> 4 * rekeys[n] + i]]

Rekeyed_Once(k, v) == UpdateKey(k, v[1])

Rekeyed(k, v) == UpdateKey(UpdateKey(UpdateKey(UpdateKey(k, v[1]), v[2]), v[3]), v[4])

Rekey(n) ==
  /\ rekeys[n] < MaxRekeys
  /\ SetKey(n, Rekeyed(Key(n), Drawn(n)))
  /\ rekeys' = [rekeys EXCEPT ![n] = @ + 1]
  /\ UNCHANGED <<wire, clear, sent>>

CipherNext ==
  \E n \in Sides :
    \/ \E to \in Sides \ {n} : Encrypt(n, to)
    \/ Decrypt(n)
    \/ Rekey(n)

CipherSpec == CipherInit /\ [][CipherNext]_cipherVars

-----------------------------------------------------------------------------
(* Properties. *)

RowValues == Messages \cup Entropy \cup {Primed, Behind, Garbage, Noise}
CmatValues == [Rows -> RowValues \cup CmatStarts]

CipherTypeOK ==
  /\ rows \in [Sides -> [Cursors -> RowValues]]
  /\ cur \in [Sides -> Cursors]
  /\ cmat \in [Sides -> CmatValues]
  /\ wire \in [Sides -> Seq([plain : Messages, under : CmatValues])]
  /\ clear \in [Sides -> {<<>>} \cup Messages \X (Messages \cup {Garbage})]
  /\ sent \in [Sides -> 0 .. MaxPackets]
  /\ rekeys \in [Sides -> 0 .. MaxRekeys]

\* The rows of the matrix the cursor is in the middle of.
Unfinished(n) == 4 * (cur[n] \div 4) .. cur[n] - 1

\* Once multiplied out for the first time, cmat never lags behind the key by
\* more than the matrix being filled, the cursor's excursion behind the last
\* matrix included (crypto.c:27-43).
CmatFollowsKey ==
  \A n \in Sides :
    (\E r \in Rows : cmat[n][r] \notin CmatStarts) =>
      \A r \in Rows : r \in Unfinished(n) \/ cmat[n][r] = rows[n][r]

\* The number of updates a packet under way still owes its receiver is known
\* to the sender: once nothing is under way and both sides rekeyed equally
\* often the cursors agree, whatever the interleaving of the two directions
\* and whether or not the packets decrypted (crypto.c:32-35, 115-143).
CursorsAgreeWhenQuiet ==
  \A n, m \in Sides :
    wire[n] = <<>> /\ wire[m] = <<>> /\ rekeys[n] = rekeys[m] => cur[n] = cur[m]

\* Of the four vectors of a rekey at least two are in the key when it
\* returns, wherever the cursor was (crypto.c:131-143).  Not all of them, as
\* the comment above the function has it: see RekeyAddsFour.
InjectsTwo ==
  \A n \in Sides :
    rekeys'[n] > rekeys[n] =>
      \E I \in SUBSET (1 .. 4) :
        /\ Cardinality(I) = 2
        /\ \A i \in I : \E r \in Rows : rows'[n][r] = Drawn(n)[i]

RekeyInjects == [][InjectsTwo]_cipherVars

-----------------------------------------------------------------------------
(* Statements of comments that the code does not keep. *)

\* crypto.c:130 "add 4 keyvecs from entropy pool": all four vectors of a rekey
\* are rows of the key when it returns.
AddsFour ==
  \A n \in Sides :
    rekeys'[n] > rekeys[n] => \A i \in 1 .. 4 : \E r \in Rows : rows'[n][r] = Drawn(n)[i]


\* crypto.h:28 "encrypt/decrypt and update state": what decrypt_packet
\* returns is what encrypt_packet was given.
PacketsDecrypt == \A n \in Sides : clear[n] # <<>> => clear[n][1] = clear[n][2]
=============================================================================
