------------------------------ MODULE HashChain ------------------------------
(***************************************************************************)
(* What the attestation log promises its readers: a chain of records that  *)
(* only grows at its end, whose acknowledged prefix survives a power loss. *)
(* Each record carries the next sequence number and the digest of the      *)
(* record before it (AttestationLog.chain_state and append, seen as one    *)
(* step).  AttestationLog is shown to implement this specification when    *)
(* halts do not overlap.                                                   *)
(***************************************************************************)
EXTENDS Attestation, SequencesExt

CONSTANTS Ids,   \* the uuids records may carry
          Key    \* the operator's signing key

VARIABLES chain, \* the readable records, in file order
          acked  \* how many of them an append has returned for

chainVars == << chain, acked >>

\* The (seq, prev_hash) of the next record of chain s.
Successor(s) ==
  IF s = << >> THEN [seq |-> 1, prev_hash |-> Unset]
  ELSE [seq       |-> Last(s).seq + 1,
        prev_hash |-> record_content_hash(Last(s))]

Init ==
  /\ chain = << >>
  /\ acked = 0

\* A halt adds its record, signed or (--no-sign) unsigned.
Extend(id) ==
  LET next == Successor(chain)
      bare == build_record(id, next.seq, "halt", next.prev_hash)
  IN  /\ \/ chain' = Append(chain, sign_record(bare, Key))
         \/ chain' = Append(chain, bare)
      /\ acked' = acked

\* An append returns: everything written so far is on disk.
Acknowledge ==
  /\ acked' = Len(chain)
  /\ chain' = chain

\* A power loss may drop records no append has returned for.
Lose ==
  /\ \E k \in acked .. Len(chain) : chain' = SubSeq(chain, 1, k)
  /\ acked' = acked

Next == (\E id \in Ids : Extend(id)) \/ Acknowledge \/ Lose

Spec == Init /\ [][Next]_chainVars
=============================================================================
