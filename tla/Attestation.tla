----------------------------- MODULE Attestation -----------------------------
(***************************************************************************)
(* The pure part of attestation.py: how a record is built, signed, hashed  *)
(* and verified, and how a whole log is verified.                          *)
(*                                                                         *)
(* A record keeps the fields the chain and the signature are about; every  *)
(* other field of AttestationRecord (operator, nodes, steps, summary...)   *)
(* is folded into `content`.  Cryptography is symbolic: a digest is an     *)
(* injective term over the hashed record and a signature a term over the   *)
(* key and the signed payload, so equality of terms is exactly "same key,  *)
(* same bytes".  The empty string of an unset field is the empty sequence. *)
(***************************************************************************)
EXTENDS Naturals, Sequences, FiniteSets

Unset == << >>

build_record(id, seq, content, prev_hash) ==
  [id |-> id, seq |-> seq, content |-> content, prev_hash |-> prev_hash,
   public_key |-> Unset, signature |-> Unset]

\* _canonical_bytes: every field but the signature.
canonical_bytes(r) ==
  << r.id, r.seq, r.content, r.prev_hash, r.public_key >>

\* record_content_hash_unsigned: a digest that leaves the signature out.
record_content_hash_unsigned(r) == << canonical_bytes(r) >>

\* The digest of the whole record, signature and public key included.
record_content_hash(r) == << r >>

\* The public key is set first, so the signature covers it.
sign_record(r, key) ==
  LET keyed == [r EXCEPT !.public_key = << key >>]
  IN  [keyed EXCEPT !.signature = << key, canonical_bytes(keyed) >>]

\* verify_record without a trusted key; the outcome is named for the
\* exception the code raises.
verify_record(r) ==
  IF r.signature = Unset \/ r.public_key = Unset
  THEN "AttestationError"
  ELSE IF r.signature = << r.public_key[1], canonical_bytes(r) >>
       THEN "valid"
       ELSE "SignatureVerificationError"

\* Mutants of chain_state: the digest leaves the signature out; numbering
\* starts at 0.
chain_state_unsigned(last) ==
  IF last = Unset THEN [seq |-> 1, prev_hash |-> Unset]
  ELSE [seq       |-> last[1].seq + 1,
        prev_hash |-> record_content_hash_unsigned(last[1])]

chain_state_from_zero(last) ==
  IF last = Unset THEN [seq |-> 0, prev_hash |-> Unset]
  ELSE [seq       |-> last[1].seq + 1,
        prev_hash |-> record_content_hash(last[1])]

\* AttestationLog.chain_state: the number and digest the next record carries,
\* given the last record of the log, if any.
chain_state(last) ==
  IF last = Unset THEN [seq |-> 1, prev_hash |-> Unset]
  ELSE [seq       |-> last[1].seq + 1,
        prev_hash |-> record_content_hash(last[1])]

-----------------------------------------------------------------------------
(* verify_chain *)

\* The place of record i of s under Python's stable sort by seq.
Rank(s, i) ==
  Cardinality({j \in DOMAIN s : \/ s[j].seq < s[i].seq
                                \/ s[j].seq = s[i].seq /\ j <= i})

sorted_by_seq(s) ==
  [k \in DOMAIN s |-> s[CHOOSE i \in DOMAIN s : Rank(s, i) = k]]

SequenceGap(o, i) == o[i + 1].seq # o[i].seq + 1

LinkBroken(o, i) == o[i + 1].prev_hash # record_content_hash(o[i])

\* Mutant of LinksVerdict: only the newest link is checked.
LinksVerdictOfLastPair(o) ==
  LET i == Len(o) - 1
  IN  IF i = 0 THEN "intact"
      ELSE IF SequenceGap(o, i) THEN "sequence gap"
      ELSE IF LinkBroken(o, i) THEN "prev_hash" ELSE "intact"

\* The verdict on the links of an ordered, non-empty log: the first break, in
\* log order, decides; at one pair a gap is reported before a broken link.
LinksVerdict(o) ==
  LET pairs  == 1 .. Len(o) - 1
      breaks == {i \in pairs : SequenceGap(o, i) \/ LinkBroken(o, i)}
  IN  IF breaks = {} THEN "intact"
      ELSE IF SequenceGap(o, CHOOSE i \in breaks : \A j \in breaks : i <= j)
           THEN "sequence gap" ELSE "prev_hash"

\* Mutant of verify_chain: the records' own signatures are not verified.
verify_chain_unsigned(records) ==
  LET o == sorted_by_seq(records)
  IN  IF records = << >> THEN "intact"
      ELSE IF o[1].prev_hash # Unset THEN "first record"
      ELSE LinksVerdict(o)

verify_chain(records) ==
  LET o == sorted_by_seq(records)
  IN  IF records = << >> THEN "intact"
      ELSE IF \E i \in DOMAIN o : verify_record(o[i]) # "valid"
      THEN "signature invalid"
      ELSE IF o[1].prev_hash # Unset THEN "first record"
      ELSE LinksVerdict(o)
=============================================================================
