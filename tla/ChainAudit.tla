------------------------------ MODULE ChainAudit ------------------------------
(***************************************************************************)
(* What `haltproof verify --chain` and `haltproof verify <ref>` can tell   *)
(* about logs whose files were changed between halts.                      *)
(*                                                                         *)
(* Halts append to several log files (one per host, say), one at a time;   *)
(* concurrency and crashes are the subject of AttestationLog.  In between, *)
(* lines are deleted, altered, moved, copied, or brought over from another *)
(* log.  The history variable `lineage` records, from the course of events *)
(* and not from digests, which records each written record stands on; the  *)
(* properties compare the code's verdicts with it.                         *)
(***************************************************************************)
EXTENDS Attestation, SequencesExt

CONSTANTS
  Logs,      \* the log files
  Key,       \* the operator's signing key
  MaxHalts,  \* bound on the halts of a behaviour
  MaxEdits   \* bound on the changes made to the files

ASSUME AuditAssumption == MaxHalts \in Nat /\ MaxEdits \in Nat

VARIABLES
  file,     \* the records of each log, in file order
  lineage,  \* history: every record a halt wrote |-> the chain it ends
  edits     \* how many changes the files have seen

vars == << file, lineage, edits >>

Intact(s) == verify_chain(s) = "intact"
Written   == DOMAIN lineage

Init ==
  /\ file = [l \in Logs |-> << >>]
  /\ lineage = << >>
  /\ edits = 0

-----------------------------------------------------------------------------
(* Halts *)

\* chain_state, build_record and, unless --no-sign, sign_record, on log s.
NextRecord(s, id, signed) ==
  LET head == chain_state(IF s = << >> THEN Unset ELSE << Last(s) >>)
      bare == build_record(id, head.seq, "halt", head.prev_hash)
  IN  IF signed THEN sign_record(bare, Key) ELSE bare

\* The chain a record appended to s ends: its parent's chain and itself.
LineageOn(s, r) ==
  IF s = << >> THEN << r >>
  ELSE IF Last(s) \in Written THEN Append(lineage[Last(s)], r)
  ELSE << Last(s), r >>

Halt(l) ==
  /\ Cardinality(Written) < MaxHalts
  /\ \E signed \in BOOLEAN :
       LET r == NextRecord(file[l], Cardinality(Written) + 1, signed)
       IN  /\ file' = [file EXCEPT ![l] = Append(@, r)]
           /\ lineage' = [x \in Written \union {r} |->
                            IF x = r THEN LineageOn(file[l], r) ELSE lineage[x]]
  /\ edits' = edits

-----------------------------------------------------------------------------
(* Changes made to the files by other means *)

\* What a record can become without being signed again.
Alterations(r) ==
  { [r EXCEPT !.content = "edited"], [r EXCEPT !.seq = @ + 1],
    [r EXCEPT !.prev_hash = Unset], [r EXCEPT !.signature = Unset] }

Edit(changed) ==
  /\ edits < MaxEdits
  /\ edits' = edits + 1
  /\ file' = changed
  /\ lineage' = lineage

Delete(l, i) == Edit([file EXCEPT ![l] = RemoveAt(@, i)])

Alter(l, i) ==
  \E r \in Alterations(file[l][i]) : Edit([file EXCEPT ![l][i] = r])

\* Line i of log l also becomes line j of log m.
Copy(l, i, m, j) == Edit([file EXCEPT ![m] = InsertAt(@, j, file[l][i])])

\* Lines i and j of log l change places.
Exchange(l, i, j) ==
  Edit([file EXCEPT ![l] = [@ EXCEPT ![i] = file[l][j], ![j] = file[l][i]]])

Next ==
  \E l \in Logs :
    \/ Halt(l)
    \/ \E i \in DOMAIN file[l] :
         \/ Delete(l, i)
         \/ Alter(l, i)
         \/ \E m \in Logs : \E j \in 1 .. Len(file[m]) + 1 : Copy(l, i, m, j)
         \/ \E j \in i + 1 .. Len(file[l]) : Exchange(l, i, j)

Spec == Init /\ [][Next]_vars

-----------------------------------------------------------------------------
(* Looking records up: run_verify *)

\* Mutant of find: a sequence number is taken for a line number.
find_line(s, ref) ==
  LET hits == {i \in DOMAIN s : s[i].id = ref.id \/ i = ref.seq}
  IN  IF hits = {} THEN Unset
      ELSE << s[CHOOSE i \in hits : \A j \in hits : i <= j] >>

\* AttestationLog.find: the first record with this id or sequence number.
find(s, ref) ==
  LET hits == {i \in DOMAIN s : s[i].id = ref.id \/ s[i].seq = ref.seq}
  IN  IF hits = {} THEN Unset
      ELSE << s[CHOOSE i \in hits : \A j \in hits : i <= j] >>

\* A reference is an id or a sequence number; the other field matches nothing.
ById(r)  == [id |-> r.id, seq |-> 0]
BySeq(r) == [id |-> 0, seq |-> r.seq]

-----------------------------------------------------------------------------
(* Properties *)

\* Halts are numbered; every record of a log is a halt's or an altered one.
TypeOK ==
  /\ Cardinality(Written) \in 0 .. MaxHalts
  /\ edits \in 0 .. MaxEdits
  /\ \A r \in Written : r.id \in 1 .. MaxHalts /\ r.seq \in Nat \ {0}
  /\ \A l \in Logs : \A i \in DOMAIN file[l] :
       file[l][i].id \in {r.id : r \in Written}

IsPermutation(s, t) == ToBag(s) = ToBag(t)

AllSigned(s) == \A i \in DOMAIN s : verify_record(s[i]) = "valid"

\* What verify_chain proves, exactly: it accepts a log if and only if the log
\* holds, in some order, the full chain some halt's record stands on, all
\* signed - nothing deleted from it, altered, repeated or brought in.
IntactIffLineage ==
  \A l \in Logs :
    Intact(file[l]) <=>
      \/ file[l] = << >>
      \/ \E r \in Written : /\ AllSigned(lineage[r])
                            /\ IsPermutation(file[l], lineage[r])

\* A further halt never makes a broken log pass, and leaves a good log good
\* if and only if it signs and the last line is the newest record (the one
\* chain_state continues).
HaltKeepsVerdict ==
  [][\A l \in Logs :
       lineage' # lineage /\ file'[l] # file[l] =>
         (Intact(file'[l]) <=>
            /\ Intact(file[l])
            /\ verify_record(Last(file'[l])) = "valid"
            /\ file[l] # << >> => Last(file[l]).seq = Len(file[l]))]_vars

\* In a log that verifies, every record is what looking up its id, and
\* looking up its number, finds: no line hides another from `verify`.
IntactFindable ==
  \A l \in Logs :
    Intact(file[l]) =>
      \A i \in DOMAIN file[l] :
        /\ find(file[l], ById(file[l][i])) = << file[l][i] >>
        /\ find(file[l], BySeq(file[l][i])) = << file[l][i] >>
=============================================================================
