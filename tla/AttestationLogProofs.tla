------------------------- MODULE AttestationLogProofs -------------------------
(***************************************************************************)
(* Proofs about AttestationLog, for any number of halts and auditors, with *)
(* kills, failing writes and power losses in any number and at any moment. *)
(*                                                                         *)
(* The argument is built in five layers, each inductive given those below: *)
(*   FileInv     types, who holds the flock and what state the file's last *)
(*               line is in;                                               *)
(*   TailsInv    as long as no write was cut, an unfinished last line is   *)
(*               being written by the lock holder;                         *)
(*   OwnInv      whose record each line holds, and where a record whose    *)
(*               append is under way or over stands;                       *)
(*   ParentsInv  every record, logged or still held by its halt, follows a *)
(*               record that is already in the file;                       *)
(*   AuditInv    the same when writes are cut, unless a line is lost: what *)
(*               an auditor between its two reads relies on.               *)
(* Each layer has one lemma per action.  Raise and Kill are both Leave.    *)
(* A second part is about halts that run one at a time.                    *)
(***************************************************************************)
EXTENDS AttestationLog, AttestationProofs

-----------------------------------------------------------------------------
\* sign_record touches neither the uuid nor the links of a record.
LEMMA RecordFields ==
  ASSUME NEW id, NEW seq, NEW prev_hash
  PROVE  LET bare   == build_record(id, seq, "halt", prev_hash)
             signed == sign_record(bare, Key)
         IN  /\ bare.id = id /\ bare.seq = seq /\ bare.prev_hash = prev_hash
             /\ signed.id = id /\ signed.seq = seq
             /\ signed.prev_hash = prev_hash
BY DEF build_record, sign_record

\* run_halt gives its own record, and no other, the number and digest that
\* chain_state returned.
LEMMA BuiltRecord ==
  ASSUME NEW p \in Halts, BuildRecord(p), DOMAIN rec = Halts
  PROVE  LET head == chain_state(last_record(lines))
         IN  /\ DOMAIN rec' = Halts
             /\ \A q \in Halts \ {p} : rec'[q] = rec[q]
             /\ rec'[p].id = p
             /\ rec'[p].seq = head.seq
             /\ rec'[p].prev_hash = head.prev_hash
<1> DEFINE head == chain_state(last_record(lines))
           bare == build_record(p, head.seq, "halt", head.prev_hash)
<1>1. \/ rec' = [rec EXCEPT ![p] = sign_record(bare, Key)]
      \/ rec' = [rec EXCEPT ![p] = bare]
  BY DEF BuildRecord
<1>2. /\ bare.id = p /\ bare.seq = head.seq /\ bare.prev_hash = head.prev_hash
      /\ sign_record(bare, Key).id = p
      /\ sign_record(bare, Key).seq = head.seq
      /\ sign_record(bare, Key).prev_hash = head.prev_hash
  <2> HIDE DEF head
  <2> QED  BY RecordFields
<1> HIDE DEF head, bare
<1> QED  BY <1>1, <1>2 DEF head

-----------------------------------------------------------------------------
\* Every record in the file is numbered from 1.
SeqsInv ==
  \A i \in DOMAIN lines :
    lines[i] # Garbled => lines[i][1].seq \in Nat \ {0}

\* A halt holds the flock exactly from its Lock to the end of append.
LockInv == \A p \in Halts : pc[p] \in Holding <=> lock = p

\* The file lacks its last newline while a halt writes, and not after.
WriterInv ==
  \A p \in Halts : /\ pc[p] \in Mid => unterminated
                   /\ pc[p] = "written" => ~unterminated

\* fsync never covers a line without its newline.
SyncInv == unterminated => synced < Len(lines)

\* The first layer; it is inductive on its own.
FileInv == TypeOK /\ SeqsInv /\ LockInv /\ WriterInv /\ SyncInv

\* An empty log with every halt still at its backend steps.
LEMMA InitFile == Init => FileInv
<1> SUFFICES ASSUME Init PROVE FileInv
  OBVIOUS
<1> USE LogAssumption DEF Init
<1>1. lines \in Seq(ToSet(lines)) /\ Len(lines) = 0 /\ DOMAIN lines = {}
  BY EmptySeq
<1>2. TypeOK
  <2>1. pc \in [Halts -> Places] /\ DOMAIN rec = Halts
    BY DEF Places, Active
  <2>2. \A p \in Halts : pc[p] \notin Appending
    BY DEF Appending
  <2>3. /\ apc \in [Auditors -> {"idle", "counted", "done", "raised", "killed"}]
        /\ count \in [Auditors -> Nat]
        /\ DOMAIN verdict = Auditors
    OBVIOUS
  <2>4. unterminated \in BOOLEAN /\ torn \in BOOLEAN
    OBVIOUS
  <2>5. synced \in 0 .. Len(lines) /\ lock \in Halts \union {Nobody}
    BY <1>1
  <2> HIDE DEF Init
  <2> QED  BY <1>1, <2>1, <2>2, <2>3, <2>4, <2>5 DEF TypeOK
<1>3. SeqsInv /\ LockInv /\ WriterInv /\ SyncInv
  BY <1>1 DEF SeqsInv, LockInv, WriterInv, SyncInv, Holding, Mid
<1> QED  BY <1>2, <1>3 DEF FileInv

\* A step that leaves the file alone.
LEMMA SameFile ==
  ASSUME TypeOK, SeqsInv, UNCHANGED << lines, unterminated, synced >>
  PROVE  /\ lines' \in Seq(ToSet(lines'))
         /\ unterminated' \in BOOLEAN
         /\ synced' \in 0 .. Len(lines')
         /\ SeqsInv'
BY DEF TypeOK, SeqsInv

\* A halt that moves to a place it may be in keeps the type of pc.
LEMMA HaltTypes ==
  ASSUME TypeOK, NEW p \in Halts, NEW place \in Places, Goto(p, place),
         UNCHANGED auditVars
  PROVE  /\ pc' \in [Halts -> Places]
         /\ pc'[p] = place
         /\ \A q \in Halts \ {p} : pc'[q] = pc[q]
         /\ apc' \in [Auditors -> {"idle", "counted", "done", "raised", "killed"}]
         /\ count' \in [Auditors -> Nat]
         /\ DOMAIN verdict' = Auditors
BY DEF TypeOK, Goto, auditVars

\* chain_state numbers from 1 or from a record in the file, so what it builds
\* has a number.
LEMMA BuildRecordFile ==
  ASSUME FileInv, NEW p \in Halts, BuildRecord(p)
  PROVE  FileInv'
<1> USE DEF FileInv
<1>1. UNCHANGED << lines, unterminated, synced, lock, torn, auditVars >>
  BY DEF BuildRecord
<1>2. Goto(p, "built") /\ pc[p] = "running" /\ (lines # << >> => Last(lines) # Garbled)
  BY DEF BuildRecord
<1>3. "built" \in Places
  BY DEF Places, Active, Appending
<1>4. DOMAIN rec' = Halts /\ \A q \in Halts \ {p} : rec'[q] = rec[q]
  BY BuiltRecord DEF TypeOK
<1>5. rec'[p].seq \in Nat \ {0}
  <2>1. rec'[p].seq = chain_state(last_record(lines)).seq
    BY BuiltRecord DEF TypeOK
  <2>2. CASE lines = << >>
    BY <2>1, <2>2 DEF chain_state, last_record
  <2>3. CASE lines # << >>
    <3>1. Len(lines) \in DOMAIN lines /\ Last(lines) = lines[Len(lines)]
      BY <2>3, EmptySeq DEF TypeOK, Last
    <3>2. Last(lines)[1].seq \in Nat
      BY <1>2, <2>3, <3>1 DEF SeqsInv
    <3> QED  BY <1>2, <2>1, <2>3, <3>2 DEF chain_state, last_record, Garbled, Unset
  <2> QED  BY <2>2, <2>3
<1>6. TypeOK'
  <2>1. \A q \in Halts : pc'[q] \in Appending => rec'[q].seq \in Nat \ {0}
    <3>1. \A q \in Halts \ {p} : pc'[q] = pc[q]
      BY <1>1, <1>2, <1>3, HaltTypes
    <3> QED  BY <1>4, <1>5, <3>1 DEF TypeOK
  <2>2. lock' \in Halts \union {Nobody}
    BY <1>1 DEF TypeOK
  <2> QED  BY <1>1, <1>2, <1>3, <1>4, <2>1, <2>2, SameFile, HaltTypes DEF TypeOK
<1>7. LockInv' /\ WriterInv' /\ SyncInv'
  BY <1>1, <1>2, <1>3, HaltTypes DEF LockInv, WriterInv, SyncInv, Holding, Mid
<1> QED  BY <1>1, <1>6, <1>7, SameFile

\* A halt that moves on with the record it has.
LEMMA SameRecord ==
  ASSUME TypeOK, NEW p \in Halts, NEW place \in Places, Goto(p, place),
         place \in Appending => pc[p] \in Appending,
         UNCHANGED << rec, auditVars >>,
         lines' \in Seq(ToSet(lines')), unterminated' \in BOOLEAN,
         synced' \in 0 .. Len(lines'), lock' \in Halts \union {Nobody},
         torn' \in BOOLEAN
  PROVE  TypeOK'
<1>1. pc'[p] = place /\ \A q \in Halts \ {p} : pc'[q] = pc[q]
  BY HaltTypes
<1>2. \A q \in Halts : pc'[q] \in Appending => pc[q] \in Appending
  BY <1>1
<1>3. \A q \in Halts : pc'[q] \in Appending => rec'[q].seq \in Nat \ {0}
  BY <1>2 DEF TypeOK
<1> QED  BY <1>3, HaltTypes DEF TypeOK

\* The names of the places are distinct.
LEMMA PlacesOfHalts ==
  /\ Appending \subseteq Places /\ Holding \subseteq Appending
  /\ Mid \subseteq Holding
  /\ {"running", "returned", "raised", "killed"} \subseteq Places \ Appending
BY DEF Places, Active, Appending, Holding, Mid

\* json.loads raising in chain_state leaves the file layer alone.
LEMMA ChainStateRaisesFile ==
  ASSUME FileInv, NEW p \in Halts, ChainStateRaises(p)
  PROVE  FileInv'
<1> USE DEF FileInv
<1>1. /\ UNCHANGED << lines, unterminated, synced, lock, rec, torn, auditVars >>
      /\ Goto(p, "raised") /\ pc[p] = "running"
  BY DEF ChainStateRaises
<1>2. "raised" \in Places \ Appending
  BY PlacesOfHalts
<1>3. TypeOK'
  BY <1>1, <1>2, SameFile, SameRecord DEF TypeOK
<1>4. LockInv' /\ WriterInv' /\ SyncInv'
  BY <1>1, <1>2, HaltTypes DEF LockInv, WriterInv, SyncInv, Holding, Mid
<1> QED  BY <1>1, <1>3, <1>4, SameFile

\* flock is taken only when free, so it has one holder.
LEMMA LockFile ==
  ASSUME FileInv, NEW p \in Halts, Lock(p)
  PROVE  FileInv'
<1> USE DEF FileInv
<1>1. /\ UNCHANGED << lines, unterminated, synced, rec, torn, auditVars >>
      /\ Goto(p, "locked") /\ pc[p] = "built" /\ lock = Nobody /\ lock' = p
  BY DEF Lock
<1>2. "locked" \in Places /\ pc[p] \in Appending
  BY <1>1, PlacesOfHalts DEF Appending
<1>3. TypeOK'
  BY <1>1, <1>2, SameFile, SameRecord DEF TypeOK
<1>4. LockInv' /\ WriterInv' /\ SyncInv'
  BY <1>1, <1>2, HaltTypes, LogAssumption
     DEF LockInv, WriterInv, SyncInv, Holding, Mid
<1> QED  BY <1>1, <1>3, <1>4, SameFile

\* The file after the first bytes of a line are written.
LEMMA WriteLineLines ==
  ASSUME FileInv, NEW p \in Halts, WriteLine(p)
  PROVE  /\ lines' \in Seq(ToSet(lines')) /\ Len(lines') = Len(lines) + 1
         /\ Len(lines) \in Nat
         /\ DOMAIN lines = 1 .. Len(lines) /\ DOMAIN lines' = 1 .. Len(lines) + 1
         /\ \A i \in 1 .. Len(lines) : lines'[i] = lines[i]
         /\ lines'[Len(lines) + 1] \in {<< rec[p] >>, Garbled}
<1>1. PICK x \in {<< rec[p] >>, Garbled} : lines' = Append(lines, x)
  BY DEF WriteLine
<1>2. /\ lines' \in Seq(ToSet(lines')) /\ Len(lines') = Len(lines) + 1
      /\ \A i \in 1 .. Len(lines) : lines'[i] = lines[i]
      /\ lines'[Len(lines) + 1] = x
  BY <1>1, AppendLine DEF FileInv, TypeOK
<1>3. /\ Len(lines) \in Nat /\ DOMAIN lines = 1 .. Len(lines)
      /\ DOMAIN lines' = 1 .. Len(lines')
  BY <1>2, SequenceOf DEF FileInv, TypeOK
<1> QED  BY <1>2, <1>3

\* The first bytes of a line keep the file layer.
LEMMA WriteLineFile ==
  ASSUME FileInv, NEW p \in Halts, WriteLine(p)
  PROVE  FileInv'
<1>1. /\ UNCHANGED << synced, lock, rec, torn, auditVars >>
      /\ Goto(p, "writing") /\ pc[p] = "locked"
      /\ ~unterminated /\ unterminated' = TRUE
  BY DEF WriteLine
<1>2. /\ lines' \in Seq(ToSet(lines')) /\ Len(lines') = Len(lines) + 1
      /\ Len(lines) \in Nat
      /\ DOMAIN lines = 1 .. Len(lines) /\ DOMAIN lines' = 1 .. Len(lines) + 1
      /\ \A i \in 1 .. Len(lines) : lines'[i] = lines[i]
      /\ lines'[Len(lines) + 1] \in {<< rec[p] >>, Garbled}
  BY WriteLineLines
<1>3. "writing" \in Places /\ pc[p] \in Appending /\ "writing" \in Holding
  BY <1>1, PlacesOfHalts DEF Appending, Holding
<1> USE DEF FileInv
<1>4. TypeOK'
  <2>1. synced' \in 0 .. Len(lines')
    BY <1>1, <1>2 DEF TypeOK
  <2> QED  BY <1>1, <1>2, <1>3, <2>1, SameRecord DEF TypeOK
<1>5. SeqsInv'
  <2>1. rec[p].seq \in Nat \ {0}
    BY <1>3 DEF TypeOK
  <2> QED  BY <1>2, <2>1 DEF SeqsInv
<1>6. LockInv' /\ WriterInv'
  BY <1>1, <1>3, HaltTypes DEF LockInv, WriterInv, Holding, Mid
<1>7. SyncInv'
  BY <1>1, <1>2 DEF SyncInv, TypeOK
<1> QED  BY <1>4, <1>5, <1>6, <1>7

\* The last line is written over by one that parses to a known record or not
\* at all: Flush and WriteOnTornLine.
LEMMA LastLineFile ==
  ASSUME FileInv, lines # << >>, NEW x,
         x # Garbled => x[1].seq \in Nat \ {0},
         lines' = [lines EXCEPT ![Len(lines)] = x]
  PROVE  /\ lines' \in Seq(ToSet(lines')) /\ Len(lines') = Len(lines)
         /\ Len(lines) \in Nat \ {0}
         /\ DOMAIN lines = 1 .. Len(lines) /\ DOMAIN lines' = 1 .. Len(lines)
         /\ \A i \in 1 .. Len(lines) - 1 : lines'[i] = lines[i]
         /\ lines'[Len(lines)] = x
         /\ SeqsInv'
<1> USE DEF FileInv
<1>1. /\ lines' \in Seq(ToSet(lines')) /\ Len(lines') = Len(lines)
      /\ \A i \in 1 .. Len(lines) - 1 : lines'[i] = lines[i]
      /\ lines'[Len(lines)] = x
  <2>1. lines \in Seq(ToSet(lines))
    BY DEF TypeOK
  <2> DEFINE t == [lines EXCEPT ![Len(lines)] = x]
  <2>2. /\ t \in Seq(ToSet(t)) /\ Len(t) = Len(lines)
        /\ \A i \in 1 .. Len(lines) - 1 : t[i] = lines[i]
        /\ t[Len(lines)] = x
    BY <2>1, ReplaceLastLine
  <2> HIDE DEF t
  <2>3. lines' = t
    BY DEF t
  <2> QED  BY <2>2, <2>3
<1>2. /\ Len(lines) \in Nat /\ DOMAIN lines = 1 .. Len(lines)
      /\ DOMAIN lines' = 1 .. Len(lines)
  BY <1>1, SequenceOf DEF TypeOK
<1>3. Len(lines) # 0
  BY EmptySeq DEF TypeOK
<1>4. SeqsInv'
  BY <1>1, <1>2, <1>3 DEF SeqsInv
<1> QED  BY <1>1, <1>2, <1>3, <1>4

\* A file without its last newline has a last line, which is not synced.
LEMMA UnterminatedIsNotEmpty ==
  ASSUME FileInv, unterminated
  PROVE  lines # << >>
BY EmptySeq DEF FileInv, TypeOK, SyncInv

\* A line glued to a torn one keeps the file layer.
LEMMA WriteOnTornLineFile ==
  ASSUME FileInv, NEW p \in Halts, WriteOnTornLine(p)
  PROVE  FileInv'
<1>1. /\ UNCHANGED << unterminated, synced, lock, rec, torn, auditVars >>
      /\ Goto(p, "gluing") /\ pc[p] = "locked" /\ unterminated
      /\ lines' = [lines EXCEPT ![Len(lines)] = Garbled]
  BY DEF WriteOnTornLine
<1>2. /\ lines' \in Seq(ToSet(lines')) /\ Len(lines') = Len(lines) /\ SeqsInv'
  BY <1>1, UnterminatedIsNotEmpty, LastLineFile
<1>3. "gluing" \in Places /\ pc[p] \in Appending
  BY <1>1, PlacesOfHalts DEF Appending
<1> USE DEF FileInv
<1>4. TypeOK'
  BY <1>1, <1>2, <1>3, SameRecord DEF TypeOK
<1>5. LockInv' /\ WriterInv' /\ SyncInv'
  BY <1>1, <1>2, <1>3, HaltTypes DEF LockInv, WriterInv, SyncInv, Holding, Mid
<1> QED  BY <1>2, <1>4, <1>5

\* The file after the flush.
LEMMA FlushLines ==
  ASSUME FileInv, NEW p \in Halts, Flush(p)
  PROVE  /\ lines' \in Seq(ToSet(lines')) /\ Len(lines') = Len(lines)
         /\ Len(lines) \in Nat \ {0}
         /\ DOMAIN lines = 1 .. Len(lines) /\ DOMAIN lines' = 1 .. Len(lines)
         /\ \A i \in 1 .. Len(lines) - 1 : lines'[i] = lines[i]
         /\ lines'[Len(lines)] = IF pc[p] = "writing" THEN << rec[p] >> ELSE Garbled
         /\ SeqsInv'
<1> DEFINE x == IF pc[p] = "writing" THEN << rec[p] >> ELSE Garbled
<1>1. lines' = [lines EXCEPT ![Len(lines)] = x] /\ pc[p] \in Mid
  BY DEF Flush
<1>2. pc[p] \in Appending
  BY <1>1, PlacesOfHalts
<1>3. lines # << >>
  BY <1>1, UnterminatedIsNotEmpty DEF FileInv, WriterInv
<1>4. x # Garbled => x[1].seq \in Nat \ {0}
  BY <1>2 DEF FileInv, TypeOK
<1> HIDE DEF x
<1>5. /\ lines' \in Seq(ToSet(lines')) /\ Len(lines') = Len(lines)
      /\ Len(lines) \in Nat \ {0}
      /\ DOMAIN lines = 1 .. Len(lines) /\ DOMAIN lines' = 1 .. Len(lines)
      /\ \A i \in 1 .. Len(lines) - 1 : lines'[i] = lines[i]
      /\ lines'[Len(lines)] = x
      /\ SeqsInv'
  BY <1>1, <1>3, <1>4, LastLineFile
<1> QED  BY <1>5 DEF x

\* The flush keeps the file layer.
LEMMA FlushFile ==
  ASSUME FileInv, NEW p \in Halts, Flush(p)
  PROVE  FileInv'
<1>1. /\ UNCHANGED << synced, lock, rec, torn, auditVars >>
      /\ Goto(p, "written") /\ pc[p] \in Mid /\ unterminated' = FALSE
  BY DEF Flush
<1>2. "written" \in Places /\ pc[p] \in Appending /\ pc[p] \in Holding
  BY <1>1, PlacesOfHalts DEF Appending
<1>3. /\ lines' \in Seq(ToSet(lines')) /\ Len(lines') = Len(lines) /\ SeqsInv'
  BY FlushLines
<1> USE DEF FileInv
<1>4. TypeOK'
  BY <1>1, <1>2, <1>3, SameRecord DEF TypeOK
<1>5. LockInv' /\ WriterInv' /\ SyncInv'
  BY <1>1, <1>2, HaltTypes DEF LockInv, WriterInv, SyncInv, Holding, Mid
<1> QED  BY <1>3, <1>4, <1>5

\* fsync and the release of the lock keep the file layer.
LEMMA FsyncFile ==
  ASSUME FileInv, NEW p \in Halts, Fsync(p)
  PROVE  FileInv'
<1> USE DEF FileInv
<1>1. /\ UNCHANGED << lines, unterminated, rec, torn, auditVars >>
      /\ Goto(p, "returned") /\ pc[p] = "written"
      /\ synced' = Len(lines) /\ lock' = Nobody
  BY DEF Fsync
<1>2. "returned" \in Places \ Appending
  BY PlacesOfHalts
<1>3. Len(lines) \in Nat
  BY SequenceOf DEF TypeOK
<1>4. lock = p /\ ~unterminated
  BY <1>1 DEF LockInv, WriterInv, Holding
<1>5. TypeOK'
  BY <1>1, <1>2, <1>3, SameRecord DEF TypeOK
<1>6. LockInv' /\ WriterInv' /\ SyncInv'
  BY <1>1, <1>2, <1>4, HaltTypes, LogAssumption
     DEF LockInv, WriterInv, SyncInv, Holding, Mid
<1>7. SeqsInv'
  BY <1>1 DEF SeqsInv
<1> QED  BY <1>5, <1>6, <1>7

\* Raise and Kill.
LEMMA LeaveFile ==
  ASSUME FileInv, NEW p \in Halts, NEW how \in {"raised", "killed"},
         Leave(p, how)
  PROVE  FileInv'
<1> USE DEF FileInv
<1>1. /\ UNCHANGED << lines, unterminated, synced, rec, auditVars >>
      /\ Goto(p, how) /\ lock' = (IF lock = p THEN Nobody ELSE lock)
      /\ torn' = (torn \/ pc[p] \in Mid)
  BY DEF Leave
<1>2. how \in Places \ Appending
  BY PlacesOfHalts
<1>3. lock' \in Halts \union {Nobody} /\ torn' \in BOOLEAN
  BY <1>1 DEF TypeOK
<1>4. TypeOK'
  BY <1>1, <1>2, <1>3, SameFile, SameRecord DEF TypeOK
<1>5. LockInv' /\ WriterInv' /\ SyncInv'
  BY <1>1, <1>2, HaltTypes, LogAssumption
     DEF LockInv, WriterInv, SyncInv, Holding, Mid
<1> QED  BY <1>1, <1>4, <1>5, SameFile

\* run_verify_chain only reads.
LEMMA AuditFile ==
  ASSUME FileInv, NEW a \in Auditors, CountRecords(a) \/ JudgeChain(a)
  PROVE  FileInv'
<1> USE DEF FileInv
<1>1. UNCHANGED haltVars
  BY DEF CountRecords, JudgeChain
<1>2. Len(lines) \in Nat
  BY SequenceOf DEF TypeOK
<1>3. /\ apc' \in [Auditors -> {"idle", "counted", "done", "raised", "killed"}]
      /\ count' \in [Auditors -> Nat]
      /\ DOMAIN verdict' = Auditors
  BY <1>2 DEF TypeOK, CountRecords, JudgeChain
<1>4. TypeOK'
  BY <1>1, <1>3 DEF TypeOK, haltVars
<1>5. SeqsInv' /\ LockInv' /\ WriterInv' /\ SyncInv'
  BY <1>1 DEF SeqsInv, LockInv, WriterInv, SyncInv, haltVars
<1> QED  BY <1>4, <1>5

\* What a power loss leaves: the first n lines, all whole but maybe the last,
\* and nothing that was synced is lost.
LEMMA PowerLossLines ==
  ASSUME FileInv, PowerLoss
  PROVE  /\ lines' \in Seq(ToSet(lines'))
         /\ DOMAIN lines = 1 .. Len(lines) /\ DOMAIN lines' = 1 .. Len(lines')
         /\ Len(lines) \in Nat /\ Len(lines') \in synced .. Len(lines)
         /\ \A i \in 1 .. Len(lines') :
              lines'[i] = lines[i] \/ (i > synced /\ lines'[i] = Garbled)
         /\ ~torn' => /\ \A i \in 1 .. Len(lines') : lines'[i] = lines[i]
                      /\ ~unterminated'
                      /\ unterminated => Len(lines') < Len(lines)
         /\ unterminated' \in BOOLEAN /\ torn' \in BOOLEAN
         /\ unterminated' => synced < Len(lines')
<1> DEFINE Kept(k) == SubSeq(lines, 1, k)
           Whole(k) == /\ lines' = Kept(k)
                       /\ unterminated' = (unterminated /\ k = Len(lines))
                       /\ torn' = (torn \/ unterminated')
           Cut(k) == /\ k > synced
                     /\ \E t \in Tears :
                          lines' = Append(Kept(k - 1),
                                     IF t = "whole" THEN lines[k] ELSE Garbled)
                     /\ unterminated' = TRUE
                     /\ torn' = TRUE
<1>1. /\ lines \in Seq(ToSet(lines)) /\ synced \in Nat /\ synced <= Len(lines)
      /\ Len(lines) \in Nat /\ DOMAIN lines = 1 .. Len(lines)
  BY SequenceOf DEF FileInv, TypeOK
<1>2. PICK k \in synced .. Len(lines) : Whole(k) \/ Cut(k)
  BY DEF PowerLoss
<1> HIDE DEF Whole, Cut
<1>3. k \in Nat /\ synced <= k /\ k <= Len(lines) /\ k \in 0 .. Len(lines)
  BY <1>1, <1>2
<1>4. ASSUME NEW n \in 0 .. Len(lines)
      PROVE  /\ Kept(n) \in Seq(ToSet(Kept(n))) /\ Len(Kept(n)) = n
             /\ \A i \in 1 .. n : Kept(n)[i] = lines[i]
  BY <1>1, KeepLines
<1> HIDE DEF Kept
<1>5. CASE Whole(k)
  <2>1. /\ lines' \in Seq(ToSet(lines')) /\ Len(lines') = k
        /\ \A i \in 1 .. k : lines'[i] = lines[i]
    BY <1>3, <1>4, <1>5 DEF Whole
  <2>2. DOMAIN lines' = 1 .. k
    BY <2>1, SequenceOf
  <2>3. /\ unterminated' = (unterminated /\ k = Len(lines))
        /\ torn' = (torn \/ unterminated')
    BY <1>5 DEF Whole
  <2>4. /\ unterminated \in BOOLEAN /\ torn \in BOOLEAN
        /\ unterminated => synced < Len(lines)
    BY DEF FileInv, TypeOK, SyncInv
  <2>5. /\ unterminated' \in BOOLEAN /\ torn' \in BOOLEAN
        /\ unterminated' => unterminated /\ k = Len(lines)
        /\ ~torn' => ~unterminated' /\ ~(unterminated /\ k = Len(lines))
    BY <2>3, <2>4
  <2>6. Len(lines') \in synced .. Len(lines) /\ DOMAIN lines' = 1 .. Len(lines')
    BY <1>1, <1>3, <2>1, <2>2
  <2>7. unterminated /\ ~torn' => Len(lines') < Len(lines)
    <3>1. k # Len(lines) => k < Len(lines)
      <4>1. k \in Nat /\ k <= Len(lines) /\ Len(lines) \in Nat
        BY <1>1, <1>3
      <4> QED  BY <4>1
    <3>2. unterminated /\ ~torn' => k # Len(lines)
      BY <2>5
    <3>3. Len(lines') = k
      BY <2>1
    <3> QED  BY <3>1, <3>2, <3>3
  <2>8. unterminated' => synced < Len(lines')
    BY <1>3, <2>1, <2>4, <2>5
  <2> QED  BY <1>1, <2>1, <2>5, <2>6, <2>7, <2>8
<1>6. CASE Cut(k)
  <2>1. PICK x \in {lines[k], Garbled} : lines' = Append(Kept(k - 1), x)
    BY <1>6 DEF Cut
  <2>2. k - 1 \in 0 .. Len(lines) /\ k \in 1 .. Len(lines) /\ k > synced
    BY <1>1, <1>3, <1>6 DEF Cut
  <2>3. /\ Kept(k - 1) \in Seq(ToSet(Kept(k - 1))) /\ Len(Kept(k - 1)) = k - 1
        /\ \A i \in 1 .. k - 1 : Kept(k - 1)[i] = lines[i]
    BY <1>4, <2>2
  <2>4. /\ lines' \in Seq(ToSet(lines')) /\ Len(lines') = (k - 1) + 1
        /\ \A i \in 1 .. k - 1 : lines'[i] = Kept(k - 1)[i]
        /\ lines'[(k - 1) + 1] = x
    BY <2>1, <2>3, AppendLine
  <2>5. /\ Len(lines') = k /\ lines'[k] = x
        /\ \A i \in 1 .. k - 1 : lines'[i] = lines[i]
    BY <1>3, <2>3, <2>4
  <2>6. DOMAIN lines' = 1 .. k
    BY <2>4, <2>5, SequenceOf
  <2>7. unterminated' = TRUE /\ torn' = TRUE
    BY <1>6 DEF Cut
  <2>8. \A i \in 1 .. k : lines'[i] = lines[i] \/ (i > synced /\ lines'[i] = Garbled)
    BY <1>1, <1>3, <2>1, <2>2, <2>5
  <2> QED  BY <1>1, <1>3, <2>2, <2>4, <2>5, <2>6, <2>7, <2>8
<1> QED  BY <1>2, <1>5, <1>6

\* A power loss keeps the file layer: no process is left, so no lock.
LEMMA PowerLossFile ==
  ASSUME FileInv, PowerLoss
  PROVE  FileInv'
<1> USE DEF FileInv
<1>1. /\ UNCHANGED << synced, rec, count, verdict >> /\ lock' = Nobody
      /\ pc' = [p \in Halts |-> IF pc[p] \in Appending THEN "killed" ELSE pc[p]]
      /\ apc' = [a \in Auditors |-> IF apc[a] = "counted" THEN "killed" ELSE apc[a]]
  BY DEF PowerLoss
<1>2. pc' \in [Halts -> Places] /\ \A p \in Halts : pc'[p] \notin Appending
  BY <1>1, PlacesOfHalts DEF TypeOK
<1>3. apc' \in [Auditors -> {"idle", "counted", "done", "raised", "killed"}]
  BY <1>1 DEF TypeOK
<1>4. synced' \in 0 .. Len(lines')
  BY <1>1, PowerLossLines DEF TypeOK
<1>5. TypeOK'
  BY <1>1, <1>2, <1>3, <1>4, PowerLossLines DEF TypeOK
<1>6. SeqsInv'
  BY PowerLossLines DEF SeqsInv
<1>7. LockInv' /\ WriterInv'
  BY <1>1, <1>2, PlacesOfHalts, LogAssumption
     DEF LockInv, WriterInv, Appending, Holding, Mid
<1>8. SyncInv'
  BY <1>1, PowerLossLines DEF SyncInv
<1> QED  BY <1>5, <1>6, <1>7, <1>8

\* In every reachable state the variables are of their types, records are
\* numbered from 1, the flock has at most one holder, and what is synced ends
\* in a newline.
THEOREM FileInvariant == Spec => []FileInv
<1>1. ASSUME FileInv, [Next]_vars PROVE FileInv'
  <2>1. CASE UNCHANGED vars
    BY <1>1, <2>1
       DEF vars, haltVars, auditVars, FileInv, TypeOK, SeqsInv, LockInv,
           WriterInv, SyncInv
  <2>2. ASSUME NEW p \in Halts, Step(p) PROVE FileInv'
    BY <1>1, <2>2, BuildRecordFile, ChainStateRaisesFile, LockFile,
       WriteLineFile, WriteOnTornLineFile, FlushFile, FsyncFile DEF Step
  <2>3. ASSUME NEW p \in Halts, Raise(p) \/ Kill(p) PROVE FileInv'
    BY <1>1, <2>3, LeaveFile DEF Raise, Kill
  <2>4. ASSUME NEW a \in Auditors, CountRecords(a) \/ JudgeChain(a) PROVE FileInv'
    BY <1>1, <2>4, AuditFile
  <2>5. CASE PowerLoss
    BY <1>1, <2>5, PowerLossFile
  <2> QED  BY <1>1, <2>1, <2>2, <2>3, <2>4, <2>5 DEF Next
<1> QED  BY InitFile, <1>1, PTL DEF Spec

\* The types of the log, its halts and its auditors.
THEOREM TypeCorrect == Spec => []TypeOK
<1>1. FileInv => TypeOK
  BY DEF FileInv
<1> QED  BY <1>1, FileInvariant, PTL

-----------------------------------------------------------------------------
\* As long as no write was cut, the only unfinished line is that of a halt in
\* the middle of its write, and nothing is ever glued.
TailInv ==
  ~torn => /\ \A p \in Halts : pc[p] # "gluing"
           /\ unterminated => \E p \in Halts : pc[p] = "writing"

\* The second layer.
TailsInv == FileInv /\ TailInv /\ LinesIntact

\* The halt in the middle of its write holds the flock.
LEMMA WriterHoldsLock ==
  ASSUME FileInv, NEW p \in Halts, pc[p] = "writing"
  PROVE  lock = p
BY DEF FileInv, LockInv, Holding

\* A step of p outside its write.
LEMMA QuietTail ==
  ASSUME TailsInv, FileInv', NEW p \in Halts,
         UNCHANGED << lines, unterminated, torn >>,
         pc[p] \notin Mid, pc'[p] \notin Mid,
         \A q \in Halts \ {p} : pc'[q] = pc[q]
  PROVE  TailInv' /\ LinesIntact'
<1>1. \A q \in Halts : pc'[q] \in Mid <=> pc[q] \in Mid
  OBVIOUS
<1>2. \A q \in Halts : (pc'[q] = "writing" <=> pc[q] = "writing")
                       /\ (pc'[q] = "gluing" <=> pc[q] = "gluing")
  BY <1>1 DEF Mid
<1>3. TailInv'
  BY <1>2 DEF TailsInv, TailInv
<1>4. \A q \in Halts : pc[q] = "writing" => lock' = q /\ pc'[q] = "writing"
  BY <1>2, WriterHoldsLock DEF FileInv, LockInv, Holding
<1>5. LinesIntact'
  BY <1>4 DEF TailsInv, LinesIntact
<1> QED  BY <1>3, <1>5

\* Goto moves one halt.
LEMMA HaltMoves ==
  ASSUME FileInv, NEW p \in Halts, NEW place \in Places, Goto(p, place)
  PROVE  pc'[p] = place /\ \A q \in Halts \ {p} : pc'[q] = pc[q]
BY DEF FileInv, TypeOK, Goto

\* The steps of a halt that leave the file alone keep the second layer.
LEMMA QuietStepTail ==
  ASSUME TailsInv, FileInv', NEW p \in Halts,
         BuildRecord(p) \/ ChainStateRaises(p) \/ Lock(p) \/ Fsync(p)
  PROVE  TailInv' /\ LinesIntact'
<1>1. /\ UNCHANGED << lines, unterminated, torn >>
      /\ pc[p] \in {"running", "built", "written"}
      /\ \E place \in {"built", "raised", "locked", "returned"} : Goto(p, place)
  BY DEF BuildRecord, ChainStateRaises, Lock, Fsync
<1>2. pc[p] \notin Mid
  BY <1>1 DEF Mid
<1>3. PICK place \in {"built", "raised", "locked", "returned"} : Goto(p, place)
  BY <1>1
<1>4. place \in Places /\ place \notin Mid
  BY DEF Places, Active, Appending, Mid
<1>5. pc'[p] \notin Mid /\ \A q \in Halts \ {p} : pc'[q] = pc[q]
  BY <1>3, <1>4, HaltMoves DEF TailsInv
<1> QED  BY <1>1, <1>2, <1>5, QuietTail

\* An exception or a kill in the middle of a write is what cuts one.
LEMMA LeaveTail ==
  ASSUME TailsInv, FileInv', NEW p \in Halts, NEW how \in {"raised", "killed"},
         Leave(p, how)
  PROVE  TailInv' /\ LinesIntact'
<1>1. /\ UNCHANGED << lines, unterminated >> /\ Goto(p, how)
      /\ torn' = (torn \/ pc[p] \in Mid)
  BY DEF Leave
<1>2. how \in Places /\ how \notin Mid
  BY DEF Places, Mid
<1>3. pc'[p] \notin Mid /\ \A q \in Halts \ {p} : pc'[q] = pc[q]
  BY <1>1, <1>2, HaltMoves DEF TailsInv
<1>4. CASE pc[p] \in Mid
  BY <1>1, <1>4 DEF TailInv, LinesIntact
<1>5. CASE pc[p] \notin Mid
  <2>1. torn' = torn
    BY <1>1, <1>5 DEF TailsInv, FileInv, TypeOK
  <2> QED  BY <1>1, <1>3, <1>5, <2>1, QuietTail
<1> QED  BY <1>4, <1>5

\* A halt starts its line on a file whose last line is whole.
LEMMA WriteLineTail ==
  ASSUME TailsInv, FileInv', NEW p \in Halts, WriteLine(p)
  PROVE  TailInv' /\ LinesIntact'
<1>1. /\ UNCHANGED << lock, torn >> /\ Goto(p, "writing") /\ pc[p] = "locked"
      /\ ~unterminated /\ unterminated' = TRUE
  BY DEF WriteLine
<1>2. "writing" \in Places
  BY PlacesOfHalts DEF Appending
<1>3. pc'[p] = "writing" /\ \A q \in Halts \ {p} : pc'[q] = pc[q]
  BY <1>1, <1>2, HaltMoves DEF TailsInv
<1>4. lock' = p
  BY <1>3 DEF FileInv, LockInv, Holding
<1>5. TailInv'
  BY <1>1, <1>3 DEF TailsInv, TailInv
<1>6. ASSUME ~torn', NEW i \in DOMAIN lines', lines'[i] = Garbled
      PROVE  i = Len(lines')
  <2>1. ~torn
    BY <1>1, <1>6
  <2>2. \A j \in DOMAIN lines : lines[j] # Garbled
    BY <1>1, <2>1 DEF TailsInv, LinesIntact
  <2>3. /\ Len(lines) \in Nat /\ Len(lines') = Len(lines) + 1
        /\ DOMAIN lines = 1 .. Len(lines) /\ DOMAIN lines' = 1 .. Len(lines) + 1
        /\ \A j \in 1 .. Len(lines) : lines'[j] = lines[j]
    BY WriteLineLines DEF TailsInv
  <2>4. i \notin 1 .. Len(lines)
    BY <1>6, <2>2, <2>3
  <2> QED  BY <2>3, <2>4
<1>7. LinesIntact'
  BY <1>1, <1>3, <1>4, <1>6 DEF LinesIntact
<1> QED  BY <1>5, <1>7

\* A halt finds the file without its last newline only after a cut write.
LEMMA TornWhenGlued ==
  ASSUME TailsInv, NEW p \in Halts, WriteOnTornLine(p)
  PROVE  torn'
<1>1. torn' = torn /\ pc[p] = "locked" /\ unterminated
  BY DEF WriteOnTornLine
<1>2. lock = p
  BY <1>1 DEF TailsInv, FileInv, LockInv, Holding
<1>3. \A q \in Halts : pc[q] # "writing"
  BY <1>1, <1>2, WriterHoldsLock DEF TailsInv
<1> QED  BY <1>1, <1>3 DEF TailsInv, TailInv

\* A glued line is a cut write.
LEMMA WriteOnTornLineTail ==
  ASSUME TailsInv, NEW p \in Halts, WriteOnTornLine(p)
  PROVE  TailInv' /\ LinesIntact'
BY TornWhenGlued DEF TailInv, LinesIntact

\* The flush makes the last line whole.
LEMMA FlushTail ==
  ASSUME TailsInv, FileInv', NEW p \in Halts, Flush(p)
  PROVE  TailInv' /\ LinesIntact'
<1>1. /\ torn' = torn /\ Goto(p, "written") /\ pc[p] \in Mid
      /\ unterminated' = FALSE
  BY DEF Flush
<1>2. "written" \in Places
  BY PlacesOfHalts DEF Appending
<1>3. pc'[p] = "written" /\ \A q \in Halts \ {p} : pc'[q] = pc[q]
  BY <1>1, <1>2, HaltMoves DEF TailsInv
<1>4. TailInv'
  <2>1. \A q \in Halts : pc'[q] = "gluing" => pc[q] = "gluing"
    BY <1>3
  <2> QED  BY <1>1, <2>1 DEF TailsInv, TailInv
<1>5. ASSUME ~torn', NEW i \in DOMAIN lines' PROVE lines'[i] # Garbled
  <2>1. ~torn /\ pc[p] = "writing"
    BY <1>1, <1>5 DEF TailsInv, TailInv, Mid
  <2>2. /\ Len(lines) \in Nat \ {0}
        /\ DOMAIN lines = 1 .. Len(lines) /\ DOMAIN lines' = 1 .. Len(lines)
        /\ \A j \in 1 .. Len(lines) - 1 : lines'[j] = lines[j]
        /\ lines'[Len(lines)] = << rec[p] >>
    BY <2>1, FlushLines DEF TailsInv
  <2>3. \A j \in 1 .. Len(lines) - 1 : lines[j] # Garbled
    BY <2>1, <2>2 DEF TailsInv, LinesIntact
  <2>4. << rec[p] >> # Garbled
    BY DEF Garbled
  <2>5. i \in 1 .. Len(lines) - 1 \/ i = Len(lines)
    BY <2>2
  <2> QED  BY <2>2, <2>3, <2>4, <2>5
<1>6. LinesIntact'
  BY <1>5 DEF LinesIntact
<1> QED  BY <1>4, <1>6

\* A power loss cuts a line or leaves whole lines only.
LEMMA PowerLossTail ==
  ASSUME TailsInv, FileInv', PowerLoss
  PROVE  TailInv' /\ LinesIntact'
<1>1. pc' = [q \in Halts |-> IF pc[q] \in Appending THEN "killed" ELSE pc[q]]
  BY DEF PowerLoss
<1>2. \A q \in Halts : pc'[q] # "gluing"
  BY <1>1, PlacesOfHalts DEF Appending
<1>3. ~torn' => ~torn
  BY DEF PowerLoss
<1>4. /\ DOMAIN lines = 1 .. Len(lines) /\ DOMAIN lines' = 1 .. Len(lines')
      /\ Len(lines) \in Nat /\ Len(lines') \in synced .. Len(lines)
      /\ ~torn' => /\ \A i \in 1 .. Len(lines') : lines'[i] = lines[i]
                   /\ ~unterminated'
                   /\ unterminated => Len(lines') < Len(lines)
  BY PowerLossLines DEF TailsInv
<1>5. TailInv'
  BY <1>2, <1>4 DEF TailInv
<1>6. ASSUME ~torn', NEW i \in 1 .. Len(lines') PROVE lines'[i] # Garbled
  <2>1. lines'[i] = lines[i] /\ i \in DOMAIN lines
    BY <1>4, <1>6 DEF FileInv, TypeOK
  <2>2. lines[i] # Garbled \/ (i = Len(lines) /\ unterminated)
    BY <1>3, <1>6, <2>1 DEF TailsInv, LinesIntact
  <2>3. ~(i = Len(lines) /\ unterminated)
    <3>1. unterminated => Len(lines') < Len(lines)
      BY <1>4, <1>6
    <3>2. Len(lines') < Len(lines) => i # Len(lines)
      <4>1. Len(lines') \in Nat
        BY SequenceOf DEF FileInv, TypeOK
      <4>2. Len(lines) \in Nat
        BY <1>4
      <4> QED  BY <4>1, <4>2
    <3> QED  BY <3>1, <3>2
  <2> QED  BY <2>1, <2>2, <2>3
<1>7. LinesIntact'
  BY <1>4, <1>6 DEF LinesIntact
<1> QED  BY <1>5, <1>7

\* The empty log has no line.
LEMMA InitTails == Init => TailsInv
<1> SUFFICES ASSUME Init PROVE TailsInv
  OBVIOUS
<1>1. DOMAIN lines = {}
  BY DEF Init
<1> QED  BY <1>1, InitFile DEF Init, TailsInv, TailInv, LinesIntact

\* The second layer holds in every reachable state.
THEOREM TailsInvariant == Spec => []TailsInv
<1>1. ASSUME TailsInv, FileInv', [Next]_vars PROVE TailsInv'
  <2>1. CASE UNCHANGED haltVars
    BY <1>1, <2>1 DEF haltVars, TailsInv, TailInv, LinesIntact
  <2>2. ASSUME NEW p \in Halts, Step(p) PROVE TailsInv'
    BY <1>1, <2>2, QuietStepTail, WriteLineTail, WriteOnTornLineTail, FlushTail
       DEF Step, TailsInv
  <2>3. ASSUME NEW p \in Halts, Raise(p) \/ Kill(p) PROVE TailsInv'
    BY <1>1, <2>3, LeaveTail DEF Raise, Kill, TailsInv
  <2>4. CASE PowerLoss
    BY <1>1, <2>4, PowerLossTail DEF TailsInv
  <2>5. ASSUME NEW a \in Auditors, CountRecords(a) \/ JudgeChain(a) PROVE UNCHANGED haltVars
    BY <2>5 DEF CountRecords, JudgeChain
  <2> QED  BY <1>1, <2>1, <2>2, <2>3, <2>4, <2>5 DEF Next, vars
<1>2. TailsInv => FileInv
  BY DEF TailsInv
<1> QED  BY FileInvariant, InitTails, <1>1, PTL DEF Spec

\* Concurrent halts do not interleave partial lines (attestation.py:254): unless
\* a write was cut, only the lock holder's line can fail to parse.
THEOREM LinesStayIntact == Spec => []LinesIntact
<1>1. TailsInv => LinesIntact
  BY DEF TailsInv
<1> QED  BY <1>1, TailsInvariant, PTL

-----------------------------------------------------------------------------
\* The log is append-only on disk: no step of a halt, no crash and no power loss
\* changes or removes a line that append had fsynced.
THEOREM SyncedStays == Spec => SyncedPrefixKept
<1> DEFINE Kept == /\ synced <= synced'
                   /\ synced <= Len(lines')
                   /\ \A i \in 1 .. synced : lines'[i] = lines[i]
<1>1. ASSUME FileInv, FileInv', [Next]_vars PROVE Kept \/ UNCHANGED vars
  <2>1. /\ synced \in Nat /\ synced <= Len(lines) /\ Len(lines) \in Nat
        /\ synced' \in Nat /\ synced' <= Len(lines') /\ Len(lines') \in Nat
    <3>1. Len(lines) \in Nat /\ Len(lines') \in Nat
      BY <1>1, SequenceOf DEF FileInv, TypeOK
    <3> QED  BY <1>1, <3>1 DEF FileInv, TypeOK
  <2>2. ASSUME UNCHANGED << lines, synced >> PROVE Kept
    BY <2>1, <2>2
  <2>3. ASSUME NEW p \in Halts, WriteLine(p) PROVE Kept
    <3>1. synced' = synced
      BY <2>3 DEF WriteLine
    <3> QED  BY <1>1, <2>1, <2>3, <3>1, WriteLineLines
  <2>4. ASSUME NEW p \in Halts, WriteOnTornLine(p) PROVE Kept
    <3>1. /\ synced' = synced /\ unterminated
          /\ lines' = [lines EXCEPT ![Len(lines)] = Garbled]
      BY <2>4 DEF WriteOnTornLine
    <3>2. synced < Len(lines)
      BY <1>1, <3>1 DEF FileInv, SyncInv
    <3>3. \A i \in 1 .. Len(lines) - 1 : lines'[i] = lines[i]
      BY <1>1, <3>1, UnterminatedIsNotEmpty, LastLineFile
    <3> QED  BY <2>1, <3>1, <3>2, <3>3
  <2>5. ASSUME NEW p \in Halts, Flush(p) PROVE Kept
    <3>1. synced' = synced /\ unterminated
      BY <1>1, <2>5 DEF Flush, FileInv, WriterInv
    <3>2. synced < Len(lines)
      BY <1>1, <3>1 DEF FileInv, SyncInv
    <3>3. \A i \in 1 .. Len(lines) - 1 : lines'[i] = lines[i]
      BY <1>1, <2>5, FlushLines
    <3> QED  BY <2>1, <3>1, <3>2, <3>3
  <2>6. ASSUME NEW p \in Halts, Fsync(p) PROVE Kept
    <3>1. synced' = Len(lines) /\ lines' = lines
      BY <2>6 DEF Fsync
    <3> QED  BY <2>1, <3>1
  <2>7. CASE PowerLoss
    <3>1. synced' = synced
      BY <2>7 DEF PowerLoss
    <3>2. \A i \in 1 .. Len(lines') :
            lines'[i] = lines[i] \/ (i > synced /\ lines'[i] = Garbled)
      BY <1>1, <2>7, PowerLossLines
    <3>3. \A i \in 1 .. synced : lines'[i] = lines[i]
      BY <2>1, <3>1, <3>2
    <3> QED  BY <2>1, <3>1, <3>3
  <2>8. ASSUME NEW p \in Halts, \/ BuildRecord(p) \/ ChainStateRaises(p)
                                \/ Lock(p) \/ Raise(p) \/ Kill(p)
        PROVE  UNCHANGED << lines, synced >>
    BY <2>8 DEF BuildRecord, ChainStateRaises, Lock, Raise, Kill, Leave
  <2>9. ASSUME NEW a \in Auditors, CountRecords(a) \/ JudgeChain(a)
        PROVE  UNCHANGED << lines, synced >>
    BY <2>9 DEF CountRecords, JudgeChain, haltVars
  <2> HIDE DEF Kept
  <2> QED  BY <1>1, <2>2, <2>3, <2>4, <2>5, <2>6, <2>7, <2>8, <2>9 DEF Next, Step
<1>2. ASSUME FileInv, FileInv', [Next]_vars PROVE [Kept]_vars
  BY <1>1, <1>2
<1> QED  BY <1>2, FileInvariant, PTL DEF Spec, SyncedPrefixKept

-----------------------------------------------------------------------------
\* The places where a halt has not written yet.
Early == {"running", "built", "locked"}

\* A record in the file is that of a halt that has begun its write.
OriginInv ==
  \A i \in DOMAIN lines :
    lines[i] # Garbled =>
      \E p \in Halts : /\ pc[p] \notin Early
                       /\ lines[i] = << rec[p] >>
                       /\ rec[p].id = p

\* No record stands in the file twice.
DistinctInv ==
  \A i, j \in DOMAIN lines : lines[i] # Garbled /\ lines[i] = lines[j] => i = j

\* A halt holds its own record.
BuiltInv == \A p \in Halts : pc[p] \in Appending => rec[p].id = p

\* Whose line the last line is while a halt writes it.
WritingInv ==
  \A p \in Halts :
    pc[p] = "writing" =>
      /\ lines[Len(lines)] \in {<< rec[p] >>, Garbled}
      /\ \A i \in 1 .. Len(lines) - 1 : lines[i] # << rec[p] >>

\* After its flush a halt's record is the last line, until it lets go of the
\* lock.
WrittenInv ==
  ~torn => \A p \in Halts :
             pc[p] = "written" => /\ Len(lines) # 0
                                  /\ lines[Len(lines)] = << rec[p] >>

\* A halt whose append has returned has its record among the synced lines.
ReturnedInv ==
  ~torn => \A p \in Halts :
             pc[p] = "returned" => \E i \in 1 .. synced : lines[i] = << rec[p] >>

\* The third layer.
OwnInv == /\ OriginInv /\ DistinctInv /\ BuiltInv
          /\ WritingInv /\ WrittenInv /\ ReturnedInv

\* A step of p that leaves the file's lines and the records alone.
LEMMA QuietOwn ==
  ASSUME OwnInv, NEW p \in Halts, UNCHANGED << lines, rec >>,
         torn => torn', synced' = synced,
         pc[p] \notin Early => pc'[p] \notin Early,
         pc'[p] \in Appending => pc[p] \in Appending,
         pc'[p] \notin {"writing", "written", "returned"},
         \A q \in Halts \ {p} : pc'[q] = pc[q]
  PROVE  OwnInv'
<1>1. OriginInv'
  <2>1. \A q \in Halts : pc[q] \notin Early => pc'[q] \notin Early
    OBVIOUS
  <2> QED  BY <2>1 DEF OwnInv, OriginInv
<1>2. DistinctInv'
  BY DEF OwnInv, DistinctInv
<1>3. BuiltInv'
  <2>1. \A q \in Halts : pc'[q] \in Appending => pc[q] \in Appending
    OBVIOUS
  <2> QED  BY <2>1 DEF OwnInv, BuiltInv
<1>4. \A q \in Halts : pc'[q] \in {"writing", "written", "returned"} => pc'[q] = pc[q]
  OBVIOUS
<1>5. WritingInv' /\ WrittenInv' /\ ReturnedInv'
  BY <1>4 DEF OwnInv, WritingInv, WrittenInv, ReturnedInv
<1> QED  BY <1>1, <1>2, <1>3, <1>5 DEF OwnInv

\* A halt builds its record before any line is its own.
LEMMA BuildRecordOwn ==
  ASSUME FileInv, OwnInv, NEW p \in Halts, BuildRecord(p)
  PROVE  OwnInv'
<1>1. /\ UNCHANGED << lines, torn, synced >> /\ Goto(p, "built")
      /\ pc[p] = "running"
  BY DEF BuildRecord
<1>2. pc'[p] = "built" /\ \A q \in Halts \ {p} : pc'[q] = pc[q]
  BY <1>1, HaltMoves, PlacesOfHalts DEF Appending
<1>3. rec'[p].id = p /\ \A q \in Halts \ {p} : rec'[q] = rec[q]
  BY BuiltRecord DEF FileInv, TypeOK
<1>4. OriginInv'
  <2>1. \A q \in Halts : pc[q] \notin Early => q # p
    BY <1>1 DEF Early
  <2> QED  BY <1>1, <1>2, <1>3, <2>1 DEF OwnInv, OriginInv
<1>5. DistinctInv'
  BY <1>1 DEF OwnInv, DistinctInv
<1>6. BuiltInv'
  BY <1>2, <1>3 DEF OwnInv, BuiltInv
<1>7. \A q \in Halts : pc'[q] \in {"writing", "written", "returned"}
                         => pc'[q] = pc[q] /\ rec'[q] = rec[q]
  BY <1>2, <1>3
<1>8. WritingInv' /\ WrittenInv' /\ ReturnedInv'
  BY <1>1, <1>7 DEF OwnInv, WritingInv, WrittenInv, ReturnedInv
<1> QED  BY <1>4, <1>5, <1>6, <1>8 DEF OwnInv

\* The steps of a halt that leave the file and the records alone.
LEMMA QuietStepOwn ==
  ASSUME FileInv, OwnInv, NEW p \in Halts,
         ChainStateRaises(p) \/ Lock(p) \/ Raise(p) \/ Kill(p)
  PROVE  OwnInv'
<1>1. UNCHANGED << lines, rec, synced >> /\ (torn => torn')
  <2>1. UNCHANGED << lines, rec, synced >>
    BY DEF ChainStateRaises, Lock, Raise, Kill, Leave
  <2>2. CASE torn' = torn
    BY <2>1, <2>2
  <2>3. CASE torn' = (torn \/ pc[p] \in Mid)
    BY <2>1, <2>3
  <2> QED  BY <2>2, <2>3 DEF ChainStateRaises, Lock, Raise, Kill, Leave
<1>2. \/ Lock(p) /\ pc[p] = "built" /\ Goto(p, "locked")
      \/ \E how \in {"raised", "killed"} : Goto(p, how)
  BY DEF ChainStateRaises, Lock, Raise, Kill, Leave
<1>3. CASE pc[p] = "built" /\ Goto(p, "locked")
  <2>1. pc'[p] = "locked" /\ \A q \in Halts \ {p} : pc'[q] = pc[q]
    BY <1>3, HaltMoves, PlacesOfHalts DEF Appending
  <2> QED  BY <1>1, <1>3, <2>1, QuietOwn DEF Early, Appending
<1>4. ASSUME NEW how \in {"raised", "killed"}, Goto(p, how) PROVE OwnInv'
  <2>1. pc'[p] = how /\ \A q \in Halts \ {p} : pc'[q] = pc[q]
    BY <1>4, HaltMoves, PlacesOfHalts
  <2>2. how \notin Early /\ how \notin Appending
    BY PlacesOfHalts DEF Early
  <2> QED  BY <1>1, <2>1, <2>2, QuietOwn
<1> QED  BY <1>2, <1>3, <1>4

\* fsync syncs the last line, which is the halt's own.
LEMMA FsyncOwn ==
  ASSUME FileInv, OwnInv, NEW p \in Halts, Fsync(p)
  PROVE  OwnInv'
<1>1. /\ UNCHANGED << lines, rec, torn >> /\ Goto(p, "returned")
      /\ pc[p] = "written" /\ synced' = Len(lines)
  BY DEF Fsync
<1>2. pc'[p] = "returned" /\ \A q \in Halts \ {p} : pc'[q] = pc[q]
  BY <1>1, HaltMoves, PlacesOfHalts
<1>3. OriginInv'
  <2>1. \A q \in Halts : pc[q] \notin Early => pc'[q] \notin Early
    BY <1>2 DEF Early
  <2> QED  BY <1>1, <2>1 DEF OwnInv, OriginInv
<1>4. DistinctInv'
  BY <1>1 DEF OwnInv, DistinctInv
<1>5. BuiltInv'
  <2>1. \A q \in Halts : pc'[q] \in Appending => pc[q] \in Appending
    BY <1>2, PlacesOfHalts
  <2> QED  BY <1>1, <2>1 DEF OwnInv, BuiltInv
<1>6. WritingInv' /\ WrittenInv'
  <2>1. \A q \in Halts : pc'[q] \in {"writing", "written"} => pc'[q] = pc[q]
    BY <1>2
  <2> QED  BY <1>1, <2>1 DEF OwnInv, WritingInv, WrittenInv
<1>7. ReturnedInv'
  <2>1. Len(lines) \in Nat /\ synced \in Nat /\ synced <= Len(lines)
    <3>1. Len(lines) \in Nat
      BY SequenceOf DEF FileInv, TypeOK
    <3> QED  BY <3>1 DEF FileInv, TypeOK
  <2>2. ASSUME ~torn' PROVE \E i \in 1 .. synced' : lines'[i] = << rec'[p] >>
    <3>1. Len(lines) # 0 /\ lines[Len(lines)] = << rec[p] >>
      BY <1>1, <2>2 DEF OwnInv, WrittenInv
    <3> QED  BY <1>1, <2>1, <3>1
  <2>3. ASSUME ~torn', NEW q \in Halts \ {p}, pc'[q] = "returned"
        PROVE  \E i \in 1 .. synced' : lines'[i] = << rec'[q] >>
    <3>1. PICK i \in 1 .. synced : lines[i] = << rec[q] >>
      BY <1>1, <1>2, <2>3 DEF OwnInv, ReturnedInv
    <3>2. i \in 1 .. synced'
      BY <1>1, <2>1
    <3> QED  BY <1>1, <3>1, <3>2
  <2> QED  BY <2>2, <2>3 DEF ReturnedInv
<1> QED  BY <1>3, <1>4, <1>5, <1>6, <1>7 DEF OwnInv

\* The flock keeps all others out of their writes.
LEMMA OthersDoNotWrite ==
  ASSUME FileInv, NEW p \in Halts, pc[p] \in Holding,
         NEW q \in Halts \ {p}
  PROVE  pc[q] \notin Holding
BY DEF FileInv, LockInv

\* The line a halt starts is the first to hold its record.
LEMMA WriteLineOwn ==
  ASSUME FileInv, OwnInv, NEW p \in Halts, WriteLine(p)
  PROVE  OwnInv'
<1>1. /\ UNCHANGED << rec, torn, synced >> /\ Goto(p, "writing")
      /\ pc[p] = "locked"
  BY DEF WriteLine
<1>2. pc'[p] = "writing" /\ \A q \in Halts \ {p} : pc'[q] = pc[q]
  BY <1>1, HaltMoves, PlacesOfHalts DEF Appending
<1>3. \A q \in Halts \ {p} : pc'[q] \notin {"writing", "written"}
  BY <1>1, <1>2, OthersDoNotWrite DEF Holding
<1>4. /\ Len(lines) \in Nat /\ Len(lines') = Len(lines) + 1
      /\ DOMAIN lines = 1 .. Len(lines) /\ DOMAIN lines' = 1 .. Len(lines) + 1
      /\ \A i \in 1 .. Len(lines) : lines'[i] = lines[i]
      /\ lines'[Len(lines) + 1] \in {<< rec[p] >>, Garbled}
  BY WriteLineLines
<1>5. rec[p].id = p
  BY <1>1 DEF OwnInv, BuiltInv, Appending
<1>6. \A i \in DOMAIN lines : lines[i] # << rec[p] >>
  <2>1. SUFFICES ASSUME NEW i \in DOMAIN lines, lines[i] = << rec[p] >>
                 PROVE  FALSE
    OBVIOUS
  <2>2. PICK q \in Halts : /\ pc[q] \notin Early /\ lines[i] = << rec[q] >>
                           /\ rec[q].id = q
    BY <2>1 DEF OwnInv, OriginInv, Garbled
  <2>3. rec[q] = rec[p]
    BY <2>1, <2>2
  <2> QED  BY <1>1, <1>5, <2>2, <2>3 DEF Early
<1>7. OriginInv'
  <2>1. ASSUME NEW i \in 1 .. Len(lines), lines'[i] # Garbled
        PROVE  \E q \in Halts : /\ pc'[q] \notin Early
                                /\ lines'[i] = << rec'[q] >> /\ rec'[q].id = q
    <3>1. PICK q \in Halts : /\ pc[q] \notin Early /\ lines[i] = << rec[q] >>
                             /\ rec[q].id = q
      BY <1>4, <2>1 DEF OwnInv, OriginInv
    <3>2. q # p
      BY <1>1, <3>1 DEF Early
    <3> QED  BY <1>1, <1>2, <1>4, <3>1, <3>2
  <2>2. pc'[p] \notin Early
    BY <1>2 DEF Early
  <2>3. \A i \in DOMAIN lines' : i \in 1 .. Len(lines) \/ i = Len(lines) + 1
    BY <1>4
  <2> QED  BY <1>1, <1>4, <1>5, <2>1, <2>2, <2>3 DEF OriginInv
<1>8. DistinctInv'
  BY <1>4, <1>6 DEF OwnInv, DistinctInv
<1>9. BuiltInv'
  BY <1>1, <1>2, <1>5 DEF OwnInv, BuiltInv
<1>10. WritingInv'
  <2>1. /\ lines'[Len(lines')] \in {<< rec'[p] >>, Garbled}
        /\ \A i \in 1 .. Len(lines') - 1 : lines'[i] # << rec'[p] >>
    BY <1>1, <1>4, <1>6
  <2> QED  BY <1>3, <2>1 DEF WritingInv
<1>11. WrittenInv'
  BY <1>2, <1>3 DEF WrittenInv
<1>12. ReturnedInv'
  <2>1. synced \in Nat /\ synced <= Len(lines)
    BY <1>4 DEF FileInv, TypeOK
  <2>2. ASSUME ~torn', NEW q \in Halts, pc'[q] = "returned"
        PROVE  \E i \in 1 .. synced' : lines'[i] = << rec'[q] >>
    <3>1. PICK i \in 1 .. synced : lines[i] = << rec[q] >>
      BY <1>1, <1>2, <2>2 DEF OwnInv, ReturnedInv
    <3>2. i \in 1 .. Len(lines)
      BY <1>4, <2>1
    <3> QED  BY <1>1, <1>4, <3>1, <3>2
  <2> QED  BY <2>2 DEF ReturnedInv
<1> QED  BY <1>7, <1>8, <1>9, <1>10, <1>11, <1>12 DEF OwnInv

\* A step that keeps the synced lines and the halts that returned.
LEMMA ReturnedKept ==
  ASSUME FileInv, OwnInv, torn => torn', synced' = synced,
         \A i \in 1 .. synced : lines'[i] = lines[i],
         \A q \in Halts : pc'[q] = "returned" => pc[q] = "returned",
         UNCHANGED rec
  PROVE  ReturnedInv'
<1>1. ASSUME ~torn', NEW q \in Halts, pc'[q] = "returned"
      PROVE  \E i \in 1 .. synced' : lines'[i] = << rec'[q] >>
  <2>1. ~torn /\ pc[q] = "returned"
    BY <1>1
  <2>2. PICK i \in 1 .. synced : lines[i] = << rec[q] >>
    BY <2>1 DEF OwnInv, ReturnedInv
  <2> QED  BY <2>2
<1> QED  BY <1>1 DEF ReturnedInv

\* A line without its newline is not synced.
LEMMA SyncedIsBeforeLast ==
  ASSUME FileInv, unterminated
  PROVE  1 .. synced \subseteq 1 .. Len(lines) - 1
<1>1. Len(lines) \in Nat
  BY SequenceOf DEF FileInv, TypeOK
<1> QED  BY <1>1 DEF FileInv, TypeOK, SyncInv

\* A glued line parses to no record.
LEMMA WriteOnTornLineOwn ==
  ASSUME FileInv, OwnInv, NEW p \in Halts, WriteOnTornLine(p)
  PROVE  OwnInv'
<1>1. /\ UNCHANGED << rec, torn, synced >> /\ Goto(p, "gluing")
      /\ pc[p] = "locked" /\ unterminated
      /\ lines' = [lines EXCEPT ![Len(lines)] = Garbled]
  BY DEF WriteOnTornLine
<1>2. pc'[p] = "gluing" /\ \A q \in Halts \ {p} : pc'[q] = pc[q]
  BY <1>1, HaltMoves, PlacesOfHalts DEF Appending
<1>3. \A q \in Halts \ {p} : pc'[q] \notin {"writing", "written"}
  BY <1>1, <1>2, OthersDoNotWrite DEF Holding
<1>4. /\ Len(lines) \in Nat \ {0}
      /\ DOMAIN lines = 1 .. Len(lines) /\ DOMAIN lines' = 1 .. Len(lines)
      /\ \A i \in 1 .. Len(lines) - 1 : lines'[i] = lines[i]
      /\ lines'[Len(lines)] = Garbled
  BY <1>1, UnterminatedIsNotEmpty, LastLineFile
<1>5. \A i \in DOMAIN lines' :
        lines'[i] # Garbled => i \in DOMAIN lines /\ lines'[i] = lines[i]
  <2>1. \A i \in DOMAIN lines' : i \in 1 .. Len(lines) - 1 \/ i = Len(lines)
    BY <1>4
  <2> QED  BY <1>4, <2>1
<1>6. OriginInv'
  <2>1. \A q \in Halts : pc[q] \notin Early => pc'[q] \notin Early
    BY <1>2 DEF Early
  <2> QED  BY <1>1, <1>5, <2>1 DEF OwnInv, OriginInv
<1>7. DistinctInv'
  BY <1>5 DEF OwnInv, DistinctInv
<1>8. BuiltInv'
  BY <1>1, <1>2 DEF OwnInv, BuiltInv, Appending
<1>9. WritingInv' /\ WrittenInv'
  BY <1>2, <1>3 DEF WritingInv, WrittenInv
<1>10. ReturnedInv'
  <2>1. \A i \in 1 .. synced : lines'[i] = lines[i]
    BY <1>1, <1>4, SyncedIsBeforeLast
  <2> QED  BY <1>1, <1>2, <2>1, ReturnedKept
<1> QED  BY <1>6, <1>7, <1>8, <1>9, <1>10 DEF OwnInv

\* The flush leaves the halt's own record as the last line.
LEMMA FlushOwn ==
  ASSUME TailsInv, OwnInv, NEW p \in Halts, Flush(p)
  PROVE  OwnInv'
<1>0. FileInv
  BY DEF TailsInv
<1>1. /\ UNCHANGED << rec, torn, synced >> /\ Goto(p, "written")
      /\ pc[p] \in Mid
  BY DEF Flush
<1>2. pc'[p] = "written" /\ \A q \in Halts \ {p} : pc'[q] = pc[q]
  BY <1>0, <1>1, HaltMoves, PlacesOfHalts DEF Appending
<1>3. \A q \in Halts \ {p} : pc'[q] \notin {"writing", "written"}
  BY <1>0, <1>1, <1>2, OthersDoNotWrite, PlacesOfHalts DEF Holding
<1>4. /\ Len(lines) \in Nat \ {0} /\ Len(lines') = Len(lines)
      /\ DOMAIN lines = 1 .. Len(lines) /\ DOMAIN lines' = 1 .. Len(lines)
      /\ \A i \in 1 .. Len(lines) - 1 : lines'[i] = lines[i]
      /\ lines'[Len(lines)] =
           IF pc[p] = "writing" THEN << rec[p] >> ELSE Garbled
  BY <1>0, FlushLines
<1>5. rec[p].id = p
  BY <1>1, PlacesOfHalts DEF OwnInv, BuiltInv
<1>6. \A i \in DOMAIN lines' :
        lines'[i] # Garbled => \/ i \in 1 .. Len(lines) - 1 /\ lines'[i] = lines[i]
                               \/ /\ i = Len(lines) /\ pc[p] = "writing"
                                  /\ lines'[i] = << rec[p] >>
  <2>1. \A i \in DOMAIN lines' : i \in 1 .. Len(lines) - 1 \/ i = Len(lines)
    BY <1>4
  <2> QED  BY <1>4, <2>1
<1>7. 1 .. Len(lines) - 1 \subseteq DOMAIN lines
  BY <1>4
<1>8. OriginInv'
  <2>1. \A q \in Halts : pc[q] \notin Early => pc'[q] \notin Early
    BY <1>2 DEF Early
  <2>2. pc'[p] \notin Early
    BY <1>2 DEF Early
  <2> QED  BY <1>1, <1>5, <1>6, <1>7, <2>1, <2>2 DEF OwnInv, OriginInv
<1>9. DistinctInv'
  <2>1. pc[p] = "writing" => \A i \in 1 .. Len(lines) - 1 : lines[i] # << rec[p] >>
    BY DEF OwnInv, WritingInv
  <2> QED  BY <1>6, <1>7, <2>1 DEF OwnInv, DistinctInv
<1>10. BuiltInv'
  BY <1>1, <1>2, <1>5 DEF OwnInv, BuiltInv
<1>11. WritingInv'
  BY <1>2, <1>3 DEF WritingInv
<1>12. WrittenInv'
  <2>1. ~torn => pc[p] = "writing"
    BY <1>1 DEF TailsInv, TailInv, Mid
  <2> QED  BY <1>1, <1>3, <1>4, <2>1 DEF WrittenInv
<1>13. ReturnedInv'
  <2>1. unterminated
    BY <1>0, <1>1 DEF FileInv, WriterInv
  <2>2. \A i \in 1 .. synced : lines'[i] = lines[i]
    BY <1>0, <1>4, <2>1, SyncedIsBeforeLast
  <2> QED  BY <1>0, <1>1, <1>2, <2>2, ReturnedKept
<1> QED  BY <1>8, <1>9, <1>10, <1>11, <1>12, <1>13 DEF OwnInv

\* A power loss takes lines away, never synced ones.
LEMMA PowerLossOwn ==
  ASSUME FileInv, OwnInv, PowerLoss
  PROVE  OwnInv'
<1>1. /\ UNCHANGED << rec, synced >>
      /\ pc' = [q \in Halts |-> IF pc[q] \in Appending THEN "killed" ELSE pc[q]]
  BY DEF PowerLoss
<1>2. torn => torn'
  BY DEF PowerLoss
<1>3. /\ DOMAIN lines = 1 .. Len(lines) /\ DOMAIN lines' = 1 .. Len(lines')
      /\ Len(lines) \in Nat /\ Len(lines') \in synced .. Len(lines)
      /\ \A i \in 1 .. Len(lines') :
           lines'[i] = lines[i] \/ (i > synced /\ lines'[i] = Garbled)
  BY PowerLossLines
<1>4. synced \in Nat /\ Len(lines') \in Nat /\ DOMAIN lines' \subseteq DOMAIN lines
      /\ 1 .. synced \subseteq 1 .. Len(lines')
  BY <1>3 DEF FileInv, TypeOK
<1>5. \A i \in DOMAIN lines' :
        lines'[i] # Garbled => i \in DOMAIN lines /\ lines'[i] = lines[i]
  BY <1>3, <1>4
<1>6. OriginInv'
  <2>1. \A q \in Halts : pc[q] \notin Early => pc'[q] \notin Early
    BY <1>1 DEF Early
  <2> QED  BY <1>1, <1>5, <2>1 DEF OwnInv, OriginInv
<1>7. DistinctInv'
  BY <1>5 DEF OwnInv, DistinctInv
<1>8. \A q \in Halts : pc'[q] \notin Appending
  BY <1>1, PlacesOfHalts
<1>9. BuiltInv' /\ WritingInv' /\ WrittenInv'
  BY <1>8 DEF BuiltInv, WritingInv, WrittenInv, Appending
<1>10. ReturnedInv'
  <2>1. \A i \in 1 .. synced : lines'[i] = lines[i]
    BY <1>3, <1>4
  <2>2. \A q \in Halts : pc'[q] = "returned" => pc[q] = "returned"
    BY <1>1
  <2> QED  BY <1>1, <1>2, <2>1, <2>2, ReturnedKept
<1> QED  BY <1>6, <1>7, <1>9, <1>10 DEF OwnInv

\* The empty log holds no record.
LEMMA InitOwn == Init => OwnInv
<1> SUFFICES ASSUME Init PROVE OwnInv
  OBVIOUS
<1>1. DOMAIN lines = {} /\ \A q \in Halts : pc[q] = "running"
  BY DEF Init
<1> QED  BY <1>1 DEF OwnInv, OriginInv, DistinctInv, BuiltInv, WritingInv,
                     WrittenInv, ReturnedInv, Appending

\* The third layer holds in every reachable state.
THEOREM OwnInvariant == Spec => []OwnInv
<1>1. ASSUME TailsInv, OwnInv, [Next]_vars PROVE OwnInv'
  <2>0. FileInv
    BY <1>1 DEF TailsInv
  <2>1. CASE UNCHANGED haltVars
    BY <1>1, <2>1 DEF haltVars, OwnInv, OriginInv, DistinctInv, BuiltInv,
                      WritingInv, WrittenInv, ReturnedInv
  <2>2. ASSUME NEW p \in Halts, Step(p) \/ Raise(p) \/ Kill(p) PROVE OwnInv'
    BY <1>1, <2>0, <2>2, BuildRecordOwn, QuietStepOwn, FsyncOwn, WriteLineOwn,
       WriteOnTornLineOwn, FlushOwn DEF Step
  <2>3. CASE PowerLoss
    BY <1>1, <2>0, <2>3, PowerLossOwn
  <2>4. ASSUME NEW a \in Auditors, CountRecords(a) \/ JudgeChain(a) PROVE UNCHANGED haltVars
    BY <2>4 DEF CountRecords, JudgeChain
  <2> QED  BY <1>1, <2>1, <2>2, <2>3, <2>4 DEF Next, vars
<1> QED  BY TailsInvariant, InitOwn, <1>1, PTL DEF Spec

\* Once append has returned, the record is on disk and stands in the file
\* exactly once, whatever later happens to other halts or the host, as long as
\* no write was cut.
THEOREM ReturnedStaysLogged == Spec => []ReturnedIsLogged
<1>1. ASSUME FileInv, OwnInv PROVE ReturnedIsLogged
  <2>1. SUFFICES ASSUME ~torn, NEW p \in Halts, pc[p] = "returned"
                 PROVE  LoggedOnce(p)
    BY DEF ReturnedIsLogged
  <2>2. \E i \in 1 .. synced : lines[i] = << rec[p] >>
    BY <1>1, <2>1 DEF OwnInv, ReturnedInv
  <2>3. << rec[p] >> # Garbled
    BY DEF Garbled
  <2> QED  BY <1>1, <2>2, <2>3 DEF LoggedOnce, OwnInv, DistinctInv
<1> QED  BY FileInvariant, OwnInvariant, <1>1, PTL

-----------------------------------------------------------------------------
\* How many lines may hold the record p's record follows: all, but the one it
\* is writing itself.
Before(p) == IF pc[p] = "writing" THEN Len(lines) - 1 ELSE Len(lines)

\* Between chain_state and the end of the write.
Unwritten == {"built", "locked", "writing"}

\* The record a halt holds follows a line that is already in the file: what
\* chain_state read before the lock is still there.
HeldInv ==
  ~torn => \A p \in Halts :
             pc[p] \in Appending => FollowsOneOf(lines, rec[p], Before(p))

\* The fourth layer.
ParentsInv == HeldInv /\ ParentPrecedes

\* Lines that parse stay: what a record follows, it goes on following.
LEMMA FollowsKept ==
  ASSUME NEW s, NEW t, NEW r, NEW n \in Nat, NEW m \in Nat, n <= m,
         \A j \in 1 .. n : s[j] # Garbled => t[j] = s[j],
         FollowsOneOf(s, r, n)
  PROVE  FollowsOneOf(t, r, m)
<1>1. 1 .. n \subseteq 1 .. m
  OBVIOUS
<1> QED  BY <1>1 DEF FollowsOneOf

\* A step that leaves the lines alone.
LEMMA QuietParents ==
  ASSUME ParentsInv, torn => torn', UNCHANGED lines,
         \A q \in Halts : pc'[q] \in Appending =>
           \/ /\ pc[q] \in Appending /\ rec'[q] = rec[q]
              /\ pc[q] = "writing" <=> pc'[q] = "writing"
           \/ /\ FollowsOneOf(lines, rec'[q], Len(lines))
              /\ pc'[q] # "writing"
  PROVE  ParentsInv'
<1>1. ASSUME ~torn', NEW q \in Halts, pc'[q] \in Appending
      PROVE  FollowsOneOf(lines', rec'[q], Before(q)')
  <2>1. CASE /\ pc[q] \in Appending /\ rec'[q] = rec[q]
             /\ pc[q] = "writing" <=> pc'[q] = "writing"
    <3>1. Before(q)' = Before(q)
      BY <2>1 DEF Before
    <3>2. FollowsOneOf(lines, rec[q], Before(q))
      BY <1>1, <2>1 DEF ParentsInv, HeldInv
    <3> QED  BY <2>1, <3>1, <3>2
  <2>2. CASE FollowsOneOf(lines, rec'[q], Len(lines)) /\ pc'[q] # "writing"
    BY <2>2 DEF Before
  <2> QED  BY <1>1, <2>1, <2>2
<1>2. HeldInv'
  BY <1>1 DEF HeldInv
<1>3. ParentPrecedes'
  BY DEF ParentsInv, ParentPrecedes
<1> QED  BY <1>2, <1>3 DEF ParentsInv

\* A record built from the last line of the file follows that line.
LEMMA BuiltFollows ==
  ASSUME FileInv, NEW p \in Halts, BuildRecord(p)
  PROVE  FollowsOneOf(lines, rec'[p], Len(lines))
<1>1. lines # << >> => Last(lines) # Garbled
  BY DEF BuildRecord
<1>2. /\ rec'[p].seq = chain_state(last_record(lines)).seq
      /\ rec'[p].prev_hash = chain_state(last_record(lines)).prev_hash
  BY BuiltRecord DEF FileInv, TypeOK
<1>3. CASE lines = << >>
  BY <1>2, <1>3 DEF chain_state, last_record, FollowsOneOf
<1>4. CASE lines # << >>
  <2>1. Len(lines) \in 1 .. Len(lines) /\ Last(lines) = lines[Len(lines)]
    BY <1>4, EmptySeq DEF FileInv, TypeOK, Last
  <2>2. /\ rec'[p].seq = Last(lines)[1].seq + 1
        /\ rec'[p].prev_hash = record_content_hash(Last(lines)[1])
    BY <1>1, <1>2, <1>4 DEF chain_state, last_record, Garbled, Unset
  <2> QED  BY <1>1, <1>4, <2>1, <2>2 DEF FollowsOneOf
<1> QED  BY <1>3, <1>4

\* So does the record BuildRecord leaves its halt with.
LEMMA BuildRecordParents ==
  ASSUME FileInv, ParentsInv, NEW p \in Halts, BuildRecord(p)
  PROVE  ParentsInv'
<1>1. /\ UNCHANGED << lines, torn >> /\ Goto(p, "built")
      /\ lines # << >> => Last(lines) # Garbled
  BY DEF BuildRecord
<1>2. pc'[p] = "built" /\ \A q \in Halts \ {p} : pc'[q] = pc[q]
  BY <1>1, HaltMoves, PlacesOfHalts DEF Appending
<1>3. /\ rec'[p].seq = chain_state(last_record(lines)).seq
      /\ rec'[p].prev_hash = chain_state(last_record(lines)).prev_hash
      /\ \A q \in Halts \ {p} : rec'[q] = rec[q]
  BY BuiltRecord DEF FileInv, TypeOK
<1>4. FollowsOneOf(lines, rec'[p], Len(lines))
  BY BuiltFollows
<1>5. \A q \in Halts : pc'[q] \in Appending =>
           \/ /\ pc[q] \in Appending /\ rec'[q] = rec[q]
              /\ pc[q] = "writing" <=> pc'[q] = "writing"
           \/ /\ FollowsOneOf(lines, rec'[q], Len(lines))
              /\ pc'[q] # "writing"
  BY <1>2, <1>3, <1>4
<1> QED  BY <1>1, <1>5, QuietParents

\* The steps of a halt that leave the file and the records alone.
LEMMA QuietStepParents ==
  ASSUME FileInv, ParentsInv, NEW p \in Halts,
         ChainStateRaises(p) \/ Lock(p) \/ Fsync(p) \/ Raise(p) \/ Kill(p)
  PROVE  ParentsInv'
<1>1. UNCHANGED << lines, rec >>
  BY DEF ChainStateRaises, Lock, Fsync, Raise, Kill, Leave
<1>2. torn => torn'
  BY DEF ChainStateRaises, Lock, Fsync, Raise, Kill, Leave
<1>3. \/ pc[p] = "built" /\ Goto(p, "locked")
      \/ \E how \in {"returned", "raised", "killed"} : Goto(p, how)
  BY DEF ChainStateRaises, Lock, Fsync, Raise, Kill, Leave
<1>4. CASE pc[p] = "built" /\ Goto(p, "locked")
  <2>1. pc'[p] = "locked" /\ \A q \in Halts \ {p} : pc'[q] = pc[q]
    BY <1>4, HaltMoves, PlacesOfHalts DEF Appending
  <2> QED  BY <1>1, <1>2, <1>4, <2>1, QuietParents DEF Appending
<1>5. ASSUME NEW how \in {"returned", "raised", "killed"}, Goto(p, how)
      PROVE  ParentsInv'
  <2>1. pc'[p] = how /\ \A q \in Halts \ {p} : pc'[q] = pc[q]
    BY <1>5, HaltMoves, PlacesOfHalts
  <2>2. how \notin Appending
    BY PlacesOfHalts
  <2> QED  BY <1>1, <1>2, <2>1, <2>2, QuietParents
<1> QED  BY <1>3, <1>4, <1>5

\* A halt's record follows one of the lines in the file.
LEMMA HeldFollows ==
  ASSUME FileInv, ParentsInv, ~torn, NEW q \in Halts, pc[q] \in Appending
  PROVE  \E n \in 0 .. Len(lines) : /\ n = Before(q) \/ Len(lines) = 0
                                    /\ FollowsOneOf(lines, rec[q], n)
<1>1. Len(lines) \in Nat
  BY SequenceOf DEF FileInv, TypeOK
<1>2. FollowsOneOf(lines, rec[q], Before(q))
  BY DEF ParentsInv, HeldInv
<1>3. CASE Len(lines) = 0
  <2>1. FollowsOneOf(lines, rec[q], 0)
    BY <1>2, <1>3 DEF FollowsOneOf, Before
  <2> QED  BY <1>3, <2>1
<1>4. CASE Len(lines) # 0
  <2>1. Before(q) \in 0 .. Len(lines)
    BY <1>1, <1>4 DEF Before
  <2> QED  BY <1>2, <2>1
<1> QED  BY <1>3, <1>4

\* A line appended after what its record follows.
LEMMA WriteLineParents ==
  ASSUME FileInv, ParentsInv, NEW p \in Halts, WriteLine(p)
  PROVE  ParentsInv'
<1>1. /\ UNCHANGED << rec, torn >> /\ Goto(p, "writing") /\ pc[p] = "locked"
  BY DEF WriteLine
<1>2. pc'[p] = "writing" /\ \A q \in Halts \ {p} : pc'[q] = pc[q]
  BY <1>1, HaltMoves, PlacesOfHalts DEF Appending
<1>3. /\ Len(lines) \in Nat /\ Len(lines') = Len(lines) + 1
      /\ DOMAIN lines = 1 .. Len(lines) /\ DOMAIN lines' = 1 .. Len(lines) + 1
      /\ \A i \in 1 .. Len(lines) : lines'[i] = lines[i]
      /\ lines'[Len(lines) + 1] \in {<< rec[p] >>, Garbled}
  BY WriteLineLines
<1>4. pc[p] \in Appending /\ Before(p) = Len(lines) /\ Before(p)' = Len(lines)
  BY <1>1, <1>2, <1>3 DEF Appending, Before
<1>5. ASSUME ~torn, NEW q \in Halts, pc'[q] \in Appending
      PROVE  FollowsOneOf(lines', rec[q], Len(lines))
  <2>1. pc[q] \in Appending
    BY <1>2, <1>4, <1>5
  <2>2. PICK n \in 0 .. Len(lines) : FollowsOneOf(lines, rec[q], n)
    BY <1>5, <2>1, HeldFollows
  <2>3. n \in Nat /\ n <= Len(lines) /\ \A j \in 1 .. n : lines'[j] = lines[j]
    BY <1>3
  <2> QED  BY <1>3, <2>2, <2>3, FollowsKept
<1>6. HeldInv'
  <2>1. ASSUME ~torn', NEW q \in Halts, pc'[q] \in Appending
        PROVE  FollowsOneOf(lines', rec'[q], Before(q)')
    <3>1. FollowsOneOf(lines', rec[q], Len(lines))
      BY <1>1, <1>5, <2>1
    <3>2. Before(q)' \in {Len(lines), Len(lines) + 1}
      BY <1>3 DEF Before
    <3>3. FollowsOneOf(lines', rec[q], Len(lines) + 1)
      BY <1>3, <3>1, FollowsKept
    <3> QED  BY <1>1, <3>1, <3>2, <3>3
  <2> QED  BY <2>1 DEF HeldInv
<1>7. ParentPrecedes'
  <2>1. ASSUME ~torn', NEW i \in DOMAIN lines', lines'[i] # Garbled
        PROVE  FollowsOneOf(lines', lines'[i][1], i - 1)
    <3>1. CASE i \in 1 .. Len(lines)
      <4>1. FollowsOneOf(lines, lines[i][1], i - 1)
        BY <1>1, <1>3, <2>1, <3>1 DEF ParentsInv, ParentPrecedes
      <4>2. i - 1 \in Nat /\ \A j \in 1 .. i - 1 : lines'[j] = lines[j]
        BY <1>3, <3>1
      <4> QED  BY <1>3, <3>1, <4>1, <4>2, FollowsKept
    <3>2. CASE i = Len(lines) + 1
      <4>1. FollowsOneOf(lines', rec[p], Len(lines))
        BY <1>1, <1>2, <1>5, <2>1 DEF Appending
      <4> QED  BY <1>3, <2>1, <3>2, <4>1
    <3> QED  BY <1>3, <3>1, <3>2
  <2> QED  BY <2>1 DEF ParentPrecedes
<1> QED  BY <1>6, <1>7 DEF ParentsInv

\* The flush puts the record where its unfinished line was.
LEMMA FlushParents ==
  ASSUME TailsInv, OwnInv, ParentsInv, NEW p \in Halts, Flush(p)
  PROVE  ParentsInv'
<1>0. FileInv
  BY DEF TailsInv
<1>1. /\ UNCHANGED << rec, torn >> /\ Goto(p, "written") /\ pc[p] \in Mid
  BY DEF Flush
<1>2. pc'[p] = "written" /\ \A q \in Halts \ {p} : pc'[q] = pc[q]
  BY <1>0, <1>1, HaltMoves, PlacesOfHalts DEF Appending
<1>3. SUFFICES ASSUME ~torn' PROVE ParentsInv'
  BY DEF ParentsInv, HeldInv, ParentPrecedes
<1>4. ~torn /\ pc[p] = "writing" /\ pc[p] \in Appending
  BY <1>1, <1>3 DEF TailsInv, TailInv, Mid, Appending
<1>5. /\ Len(lines) \in Nat \ {0} /\ Len(lines') = Len(lines)
      /\ DOMAIN lines = 1 .. Len(lines) /\ DOMAIN lines' = 1 .. Len(lines)
      /\ \A i \in 1 .. Len(lines) - 1 : lines'[i] = lines[i]
      /\ lines'[Len(lines)] = << rec[p] >>
  BY <1>0, <1>4, FlushLines
<1>6. lines[Len(lines)] \in {<< rec[p] >>, Garbled}
  BY <1>4 DEF OwnInv, WritingInv
<1>7. \A i \in 1 .. Len(lines) : lines[i] # Garbled => lines'[i] = lines[i]
  <2>1. Len(lines) \in Nat \ {0}
    BY <1>5
  <2>2. \A i \in 1 .. Len(lines) : i \in 1 .. Len(lines) - 1 \/ i = Len(lines)
    BY <2>1
  <2> QED  BY <1>5, <1>6, <2>2
<1>8. ASSUME NEW q \in Halts, pc'[q] \in Appending
      PROVE  FollowsOneOf(lines', rec'[q], Before(q)')
  <2>1. pc[q] \in Appending
    BY <1>2, <1>4, <1>8
  <2>2. PICK n \in 0 .. Len(lines) : /\ n = Before(q)
                                     /\ FollowsOneOf(lines, rec[q], n)
    BY <1>0, <1>4, <1>5, <2>1, HeldFollows
  <2>3. Before(q)' \in Nat /\ n <= Before(q)'
    <3>1. Len(lines) \in Nat \ {0} /\ Len(lines') = Len(lines)
      BY <1>5
    <3>2. Before(q) \in {Len(lines), Len(lines) - 1}
      BY DEF Before
    <3>3. CASE q = p
      <4>1. Before(q)' = Len(lines)
        BY <1>2, <3>1, <3>3 DEF Before
      <4> QED  BY <3>1, <4>1
    <3>4. CASE q # p
      <4>1. Before(q)' = Before(q)
        BY <1>2, <3>1, <3>4 DEF Before
      <4>2. Before(q) \in Nat
        BY <3>1, <3>2
      <4> QED  BY <2>2, <4>1, <4>2
    <3> QED  BY <3>3, <3>4
  <2>4. n \in Nat /\ \A j \in 1 .. n : lines[j] # Garbled => lines'[j] = lines[j]
    BY <1>5, <1>7
  <2> QED  BY <1>1, <2>2, <2>3, <2>4, FollowsKept
<1>9. ASSUME NEW i \in DOMAIN lines', lines'[i] # Garbled
      PROVE  FollowsOneOf(lines', lines'[i][1], i - 1)
  <2>1. i - 1 \in Nat
        /\ \A j \in 1 .. i - 1 : lines[j] # Garbled => lines'[j] = lines[j]
    BY <1>5, <1>7
  <2>2. CASE i \in 1 .. Len(lines) - 1
    <3>1. FollowsOneOf(lines, lines[i][1], i - 1)
      BY <1>4, <1>5, <1>9, <2>2 DEF ParentsInv, ParentPrecedes
    <3>2. i - 1 <= i - 1
      BY <2>1
    <3>3. FollowsOneOf(lines', lines[i][1], i - 1)
      BY <2>1, <3>1, <3>2, FollowsKept
    <3>4. lines'[i] = lines[i]
      BY <1>5, <2>2
    <3> QED  BY <3>3, <3>4
  <2>3. CASE i = Len(lines)
    <3>1. FollowsOneOf(lines, rec[p], i - 1)
      BY <1>4, <2>3 DEF ParentsInv, HeldInv, Before
    <3>2. i - 1 <= i - 1
      BY <2>1
    <3>3. FollowsOneOf(lines', rec[p], i - 1)
      BY <2>1, <3>1, <3>2, FollowsKept
    <3>4. lines'[i] = << rec[p] >>
      BY <1>5, <2>3
    <3>5. lines'[i][1] = rec[p]
      BY <3>4
    <3> QED  BY <3>3, <3>5
  <2> QED  BY <1>5, <2>2, <2>3
<1> QED  BY <1>8, <1>9 DEF ParentsInv, HeldInv, ParentPrecedes

\* A power loss keeps a prefix, and what a kept record follows stands before it.
LEMMA PowerLossParents ==
  ASSUME FileInv, ParentsInv, PowerLoss
  PROVE  ParentsInv'
<1>1. pc' = [q \in Halts |-> IF pc[q] \in Appending THEN "killed" ELSE pc[q]]
  BY DEF PowerLoss
<1>2. \A q \in Halts : pc'[q] \notin Appending
  BY <1>1, PlacesOfHalts
<1>3. HeldInv'
  BY <1>2 DEF HeldInv
<1>4. ASSUME ~torn', NEW i \in DOMAIN lines', lines'[i] # Garbled
      PROVE  FollowsOneOf(lines', lines'[i][1], i - 1)
  <2>1. ~torn
    BY <1>4 DEF PowerLoss
  <2>2. /\ DOMAIN lines = 1 .. Len(lines) /\ DOMAIN lines' = 1 .. Len(lines')
        /\ Len(lines) \in Nat /\ Len(lines') \in synced .. Len(lines)
        /\ \A j \in 1 .. Len(lines') : lines'[j] = lines[j]
    BY <1>4, PowerLossLines
  <2>3. synced \in Nat
    BY <2>2 DEF FileInv, TypeOK
  <2>4. i \in DOMAIN lines /\ lines'[i] = lines[i] /\ i - 1 \in Nat
        /\ \A j \in 1 .. i - 1 : lines'[j] = lines[j]
    BY <2>2, <2>3
  <2>5. FollowsOneOf(lines, lines[i][1], i - 1)
    BY <1>4, <2>1, <2>4 DEF ParentsInv, ParentPrecedes
  <2> QED  BY <2>4, <2>5, FollowsKept
<1>5. ParentPrecedes'
  BY <1>4 DEF ParentPrecedes
<1> QED  BY <1>3, <1>5 DEF ParentsInv

\* The empty log holds no record.
LEMMA InitParents == Init => ParentsInv
<1> SUFFICES ASSUME Init PROVE ParentsInv
  OBVIOUS
<1>1. DOMAIN lines = {} /\ \A q \in Halts : pc[q] = "running"
  BY DEF Init
<1> QED  BY <1>1 DEF ParentsInv, HeldInv, ParentPrecedes, Appending

\* However halts overlap, every record of an uncut log names, by digest and
\* number, a record that stands earlier in the file, or starts a chain.
THEOREM ParentsPrecede == Spec => []ParentPrecedes
<1>1. ASSUME TailsInv, OwnInv, TailsInv', ParentsInv, [Next]_vars
      PROVE  ParentsInv'
  <2>0. FileInv
    BY <1>1 DEF TailsInv
  <2>1. CASE UNCHANGED haltVars
    <3>1. /\ torn => torn'
          /\ UNCHANGED << lines, rec, pc >>
      BY <2>1 DEF haltVars
    <3> QED  BY <1>1, <3>1, QuietParents
  <2>2. ASSUME NEW p \in Halts, WriteOnTornLine(p) PROVE ParentsInv'
    <3>1. torn'
      BY <1>1, <2>0, <2>2, TornWhenGlued
    <3> QED  BY <3>1 DEF ParentsInv, HeldInv, ParentPrecedes
  <2>3. ASSUME NEW p \in Halts, Step(p) \/ Raise(p) \/ Kill(p) PROVE ParentsInv'
    BY <1>1, <2>0, <2>2, <2>3, BuildRecordParents, QuietStepParents,
       WriteLineParents, FlushParents DEF Step
  <2>4. CASE PowerLoss
    BY <1>1, <2>0, <2>4, PowerLossParents
  <2>5. ASSUME NEW a \in Auditors, CountRecords(a) \/ JudgeChain(a) PROVE UNCHANGED haltVars
    BY <2>5 DEF CountRecords, JudgeChain
  <2> QED  BY <1>1, <2>1, <2>3, <2>4, <2>5 DEF Next, vars
<1>2. ParentsInv => ParentPrecedes
  BY DEF ParentsInv
<1> QED  BY TailsInvariant, OwnInvariant, InitParents, <1>1, <1>2, PTL DEF Spec

-----------------------------------------------------------------------------
(* What verify_chain says of the log *)

\* A file that parses, as verify_chain reads it.
LEMMA ReadLog ==
  ASSUME NEW ls, ls \in Seq(ToSet(ls)), Readable(ls),
         \A i \in DOMAIN ls : ls[i][1].seq \in Nat
  PROVE  /\ IsLog(Records(ls)) /\ DOMAIN Records(ls) = DOMAIN ls
         /\ \A i \in DOMAIN ls : Records(ls)[i] = ls[i][1]
<1>1. Len(ls) \in Nat /\ DOMAIN ls = 1 .. Len(ls)
  BY SequenceOf
<1>2. /\ DOMAIN Records(ls) = 1 .. Len(ls)
      /\ \A i \in 1 .. Len(ls) : Records(ls)[i] = ls[i][1]
      /\ Records(ls) = [i \in 1 .. Len(ls) |-> Records(ls)[i]]
  BY <1>1, Zenon DEF Records
<1>3. Records(ls) \in Seq(ToSet(Records(ls)))
  BY <1>1, <1>2, SequenceFrom
<1> QED  BY <1>1, <1>2, <1>3 DEF IsLog

\* verify_chain on lines each of which follows an earlier one.
LEMMA VerdictOfTree ==
  ASSUME NEW ls, ls \in Seq(ToSet(ls)), Readable(ls),
         \A i \in DOMAIN ls : /\ ls[i][1].seq \in Nat \ {0}
                              /\ FollowsOneOf(ls, ls[i][1], i - 1)
  PROVE  verify_chain(Records(ls)) = "intact"
           <=> /\ AllSigned(ls)
               /\ \A i, j \in DOMAIN ls : ls[i][1].seq = ls[j][1].seq => i = j
<1> DEFINE s == Records(ls)
<1>1. /\ IsLog(s) /\ DOMAIN s = DOMAIN ls
      /\ \A i \in DOMAIN ls : s[i] = ls[i][1]
  BY ReadLog
<1>2. Len(ls) \in Nat /\ DOMAIN ls = 1 .. Len(ls)
  BY SequenceOf
<1> HIDE DEF s
<1>3. ASSUME NEW i \in DOMAIN s PROVE s[i].seq # 0 /\ HasParent(s, i)
  <2>1. FollowsOneOf(ls, s[i], i - 1) /\ s[i].seq \in Nat \ {0}
    BY <1>1, <1>3
  <2>2. \A j \in 1 .. i - 1 : j \in DOMAIN s /\ s[j] = ls[j][1]
    BY <1>1, <1>2, <1>3
  <2> QED  BY <2>1, <2>2 DEF FollowsOneOf, HasParent
<1>4. verify_chain(s) = "intact"
        <=> Signed(s) /\ \A i, j \in DOMAIN s : s[i].seq = s[j].seq => i = j
  BY <1>1, <1>3, IntactTree
<1>5. Signed(s) <=> AllSigned(ls)
  BY <1>1 DEF Signed, AllSigned
<1> QED  BY <1>1, <1>4, <1>5 DEF s

\* As long as no write was cut, verify_chain accepts what halts write exactly
\* if every record is signed and no two halts forked the chain.
THEOREM VerdictIsExact == Spec => []VerdictExact
<1>1. ASSUME FileInv, ParentPrecedes PROVE VerdictExact
  <2>1. SUFFICES ASSUME ~torn, Readable(lines)
                 PROVE  verify_chain(Records(lines)) = "intact"
                          <=> /\ AllSigned(lines)
                              /\ \A i, j \in DOMAIN lines :
                                   lines[i][1].seq = lines[j][1].seq => i = j
    BY DEF VerdictExact
  <2>2. \A i \in DOMAIN lines : /\ lines[i][1].seq \in Nat \ {0}
                                /\ FollowsOneOf(lines, lines[i][1], i - 1)
    BY <1>1, <2>1 DEF FileInv, SeqsInv, ParentPrecedes, Readable
  <2> QED  BY <1>1, <2>1, <2>2, VerdictOfTree DEF FileInv, TypeOK
<1> QED  BY FileInvariant, ParentsPrecede, <1>1, PTL

-----------------------------------------------------------------------------
(* The fifth layer: what an audit may rely on when writes are cut, too     *)

\* Line j parses no more, and will not: no halt is writing it.
Dead(j) ==
  /\ lines[j] = Garbled
  /\ j = Len(lines) => \A q \in Halts : pc[q] # "writing"

\* Every line follows an earlier one, or stands behind a cut one.
StandsInv ==
  \A i \in DOMAIN lines :
    lines[i] # Garbled => \/ FollowsOneOf(lines, lines[i][1], i - 1)
                          \/ \E j \in 1 .. i - 1 : lines[j] = Garbled

\* So will every record that is to be written.
HeldStands ==
  \A q \in Halts :
    pc[q] \in Unwritten => \/ FollowsOneOf(lines, rec[q], Before(q))
                           \/ \E j \in 1 .. Before(q) : Dead(j)

\* While an auditor is between its two reads the file only grows.
CountInv ==
  \A a \in Auditors : apc[a] = "counted" => count[a] <= Len(lines)

AuditInv == StandsInv /\ HeldStands /\ CountInv

\* What a record follows stays, or dies.
LEMMA StandsKept ==
  ASSUME NEW r, NEW n \in Nat, NEW m \in Nat, n <= m,
         FollowsOneOf(lines, r, n) \/ \E j \in 1 .. n : Dead(j),
         \A j \in 1 .. n : Dead(j) => Dead(j)',
         \A j \in 1 .. n : lines[j] # Garbled => lines'[j] = lines[j] \/ Dead(j)'
  PROVE  FollowsOneOf(lines', r, m) \/ \E j \in 1 .. m : Dead(j)'
<1>1. 1 .. n \subseteq 1 .. m
  OBVIOUS
<1>2. CASE \E j \in 1 .. n : Dead(j)
  BY <1>1, <1>2
<1>3. CASE r.seq = 1 /\ r.prev_hash = Unset
  BY <1>3 DEF FollowsOneOf
<1>4. ASSUME NEW j \in 1 .. n, lines[j] # Garbled, r.seq = lines[j][1].seq + 1,
             r.prev_hash = record_content_hash(lines[j][1])
      PROVE  FollowsOneOf(lines', r, m) \/ \E k \in 1 .. m : Dead(k)'
  <2>1. CASE Dead(j)'
    BY <1>1, <2>1
  <2>2. CASE lines'[j] = lines[j]
    BY <1>1, <1>4, <2>2 DEF FollowsOneOf
  <2> QED  BY <1>4, <2>1, <2>2
<1> QED  BY <1>2, <1>3, <1>4 DEF FollowsOneOf

\* A step that leaves the lines alone.
LEMMA QuietStands ==
  ASSUME StandsInv, HeldStands, UNCHANGED lines,
         \A q \in Halts : pc'[q] = "writing" => pc[q] = "writing",
         \A q \in Halts : pc'[q] \in Unwritten =>
           \/ /\ pc[q] \in Unwritten /\ rec'[q] = rec[q]
              /\ pc[q] = "writing" <=> pc'[q] = "writing"
           \/ /\ FollowsOneOf(lines, rec'[q], Len(lines))
              /\ pc'[q] # "writing"
  PROVE  StandsInv' /\ HeldStands'
<1>1. \A j : Dead(j) => Dead(j)'
  BY DEF Dead
<1>2. ASSUME NEW q \in Halts, pc'[q] \in Unwritten
      PROVE  \/ FollowsOneOf(lines', rec'[q], Before(q)')
             \/ \E j \in 1 .. Before(q)' : Dead(j)'
  <2>1. CASE /\ pc[q] \in Unwritten /\ rec'[q] = rec[q]
             /\ pc[q] = "writing" <=> pc'[q] = "writing"
    <3>1. Before(q)' = Before(q)
      BY <2>1 DEF Before
    <3> QED  BY <1>1, <2>1, <3>1 DEF HeldStands
  <2>2. CASE FollowsOneOf(lines, rec'[q], Len(lines)) /\ pc'[q] # "writing"
    BY <2>2 DEF Before
  <2> QED  BY <1>2, <2>1, <2>2
<1>3. StandsInv'
  BY DEF StandsInv
<1> QED  BY <1>2, <1>3 DEF HeldStands

\* A built record follows the last line, which parsed.
LEMMA BuildRecordStands ==
  ASSUME FileInv, StandsInv, HeldStands, NEW p \in Halts, BuildRecord(p)
  PROVE  StandsInv' /\ HeldStands'
<1>1. UNCHANGED lines /\ Goto(p, "built")
  BY DEF BuildRecord
<1>2. pc'[p] = "built" /\ \A q \in Halts \ {p} : pc'[q] = pc[q]
  BY <1>1, HaltMoves, PlacesOfHalts DEF Appending
<1>3. \A q \in Halts \ {p} : rec'[q] = rec[q]
  BY BuiltRecord DEF FileInv, TypeOK
<1>4. \A q \in Halts : pc'[q] \in Unwritten =>
           \/ /\ pc[q] \in Unwritten /\ rec'[q] = rec[q]
              /\ pc[q] = "writing" <=> pc'[q] = "writing"
           \/ /\ FollowsOneOf(lines, rec'[q], Len(lines))
              /\ pc'[q] # "writing"
  BY <1>2, <1>3, BuiltFollows
<1> QED  BY <1>1, <1>2, <1>4, QuietStands

\* The steps of a halt that leave the file and the records alone.
LEMMA QuietStepStands ==
  ASSUME FileInv, StandsInv, HeldStands, NEW p \in Halts,
         ChainStateRaises(p) \/ Lock(p) \/ Fsync(p) \/ Raise(p) \/ Kill(p)
  PROVE  StandsInv' /\ HeldStands'
<1>1. UNCHANGED << lines, rec >>
  BY DEF ChainStateRaises, Lock, Fsync, Raise, Kill, Leave
<1>2. \/ pc[p] = "built" /\ Goto(p, "locked")
      \/ \E how \in {"returned", "raised", "killed"} : Goto(p, how)
  BY DEF ChainStateRaises, Lock, Fsync, Raise, Kill, Leave
<1>3. PICK place \in {"locked", "returned", "raised", "killed"} :
        /\ pc'[p] = place
        /\ place = "locked" => pc[p] = "built"
        /\ \A q \in Halts \ {p} : pc'[q] = pc[q]
  BY <1>2, HaltMoves, PlacesOfHalts DEF Appending
<1> QED  BY <1>1, <1>3, QuietStands DEF Unwritten

\* Lines that keep standing when the lines before them are kept.
LEMMA EarlierStand ==
  ASSUME StandsInv, NEW i \in DOMAIN lines, i \in Nat \ {0}, lines[i] # Garbled,
         \A j \in 1 .. i : lines'[j] = lines[j]
  PROVE  \/ FollowsOneOf(lines', lines'[i][1], i - 1)
         \/ \E j \in 1 .. i - 1 : lines'[j] = Garbled
<1>1. i - 1 \in Nat /\ i - 1 <= i - 1 /\ lines'[i] = lines[i]
      /\ \A j \in 1 .. i - 1 : lines'[j] = lines[j]
  OBVIOUS
<1>2. CASE FollowsOneOf(lines, lines[i][1], i - 1)
  BY <1>1, <1>2, FollowsKept
<1>3. CASE \E j \in 1 .. i - 1 : lines[j] = Garbled
  BY <1>1, <1>3
<1> QED  BY <1>2, <1>3 DEF StandsInv

\* A line appended behind what its record follows.
LEMMA WriteLineStands ==
  ASSUME FileInv, StandsInv, HeldStands, NEW p \in Halts, WriteLine(p)
  PROVE  StandsInv' /\ HeldStands'
<1> DEFINE n == Len(lines)
<1>1. /\ UNCHANGED rec /\ Goto(p, "writing") /\ pc[p] = "locked"
  BY DEF WriteLine
<1>2. pc'[p] = "writing" /\ \A q \in Halts \ {p} : pc'[q] = pc[q] /\ pc[q] # "writing"
  BY <1>1, HaltMoves, PlacesOfHalts, OthersDoNotWrite DEF Appending, Holding
<1>3. /\ n \in Nat /\ Len(lines') = n + 1
      /\ DOMAIN lines = 1 .. n /\ DOMAIN lines' = 1 .. n + 1
      /\ \A i \in 1 .. n : lines'[i] = lines[i]
      /\ lines'[n + 1] \in {<< rec[p] >>, Garbled}
  BY WriteLineLines
<1> HIDE DEF n
<1>4. \A j \in 1 .. n : Dead(j) => Dead(j)'
  BY <1>3 DEF Dead
<1>5. ASSUME NEW q \in Halts, pc[q] \in Unwritten, pc[q] # "writing",
             NEW m \in Nat, n <= m
      PROVE  FollowsOneOf(lines', rec[q], m) \/ \E j \in 1 .. m : Dead(j)'
  <2>1. FollowsOneOf(lines, rec[q], n) \/ \E j \in 1 .. n : Dead(j)
    BY <1>5 DEF HeldStands, Before, n
  <2> QED  BY <1>3, <1>4, <1>5, <2>1, StandsKept
<1>6. HeldStands'
  <2>1. ASSUME NEW q \in Halts, pc'[q] \in Unwritten
        PROVE  \/ FollowsOneOf(lines', rec'[q], Before(q)')
               \/ \E j \in 1 .. Before(q)' : Dead(j)'
    <3>1. pc[q] \in Unwritten /\ pc[q] # "writing" /\ rec'[q] = rec[q]
      BY <1>1, <1>2, <2>1 DEF Unwritten
    <3>2. Before(q)' \in Nat /\ n <= Before(q)'
      BY <1>3 DEF Before
    <3> QED  BY <1>5, <3>1, <3>2
  <2> QED  BY <2>1 DEF HeldStands
<1>7. StandsInv'
  <2>1. ASSUME NEW i \in DOMAIN lines', lines'[i] # Garbled
        PROVE  \/ FollowsOneOf(lines', lines'[i][1], i - 1)
               \/ \E j \in 1 .. i - 1 : lines'[j] = Garbled
    <3>1. CASE i \in 1 .. n
      <4>1. /\ i \in DOMAIN lines /\ i \in Nat \ {0} /\ lines[i] # Garbled
            /\ \A j \in 1 .. i : lines'[j] = lines[j]
        BY <1>3, <2>1, <3>1
      <4> QED  BY <4>1, EarlierStand
    <3>2. CASE i = n + 1
      <4>1. FollowsOneOf(lines', rec[p], n) \/ \E j \in 1 .. n : Dead(j)'
        BY <1>1, <1>3, <1>5 DEF Unwritten
      <4>2. i - 1 = n
        BY <1>3, <3>2
      <4>4. lines'[i] = << rec[p] >>
        BY <1>3, <2>1, <3>2
      <4>5. lines'[i][1] = rec[p]
        BY <4>4
      <4>3. ASSUME NEW j \in 1 .. n, Dead(j)' PROVE lines'[j] = Garbled
        BY <4>3 DEF Dead
      <4> QED  BY <4>1, <4>2, <4>3, <4>5
    <3> QED  BY <1>3, <3>1, <3>2
  <2> QED  BY <2>1 DEF StandsInv
<1> QED  BY <1>6, <1>7

\* A line glued to a torn one takes the torn one's record out of the file,
\* and what followed that record with it.
LEMMA WriteOnTornLineStands ==
  ASSUME FileInv, StandsInv, HeldStands, NEW p \in Halts, WriteOnTornLine(p)
  PROVE  StandsInv' /\ HeldStands'
<1> DEFINE n == Len(lines)
<1>1. /\ UNCHANGED rec /\ Goto(p, "gluing") /\ pc[p] = "locked" /\ unterminated
      /\ lines' = [lines EXCEPT ![Len(lines)] = Garbled]
  BY DEF WriteOnTornLine
<1>2. pc'[p] = "gluing" /\ \A q \in Halts \ {p} : pc'[q] = pc[q] /\ pc[q] # "writing"
  BY <1>1, HaltMoves, PlacesOfHalts, OthersDoNotWrite DEF Appending, Holding
<1>3. /\ n \in Nat \ {0} /\ Len(lines') = n
      /\ DOMAIN lines = 1 .. n /\ DOMAIN lines' = 1 .. n
      /\ \A i \in 1 .. n - 1 : lines'[i] = lines[i]
      /\ lines'[n] = Garbled
  BY <1>1, UnterminatedIsNotEmpty, LastLineFile
<1> HIDE DEF n
<1>4. \A q \in Halts : pc'[q] # "writing"
  BY <1>2
<1>5. /\ \A j \in 1 .. n : Dead(j) => Dead(j)'
      /\ \A j \in 1 .. n : lines[j] # Garbled => lines'[j] = lines[j] \/ Dead(j)'
  BY <1>3, <1>4 DEF Dead
<1>6. ASSUME NEW q \in Halts, pc'[q] \in Unwritten
      PROVE  \/ FollowsOneOf(lines', rec'[q], Before(q)')
             \/ \E j \in 1 .. Before(q)' : Dead(j)'
  <2>1. pc[q] \in Unwritten /\ Before(q) = n /\ Before(q)' = n /\ rec'[q] = rec[q]
    BY <1>1, <1>2, <1>3, <1>6 DEF Unwritten, Before, n
  <2>2. FollowsOneOf(lines, rec[q], n) \/ \E j \in 1 .. n : Dead(j)
    BY <2>1 DEF HeldStands
  <2>3. n \in Nat /\ n <= n
    BY <1>3
  <2> QED  BY <1>5, <2>1, <2>2, <2>3, StandsKept
<1>7. StandsInv'
  <2>1. ASSUME NEW i \in DOMAIN lines', lines'[i] # Garbled
        PROVE  \/ FollowsOneOf(lines', lines'[i][1], i - 1)
               \/ \E j \in 1 .. i - 1 : lines'[j] = Garbled
    <3>1. /\ i \in DOMAIN lines /\ i \in Nat \ {0} /\ lines[i] # Garbled
          /\ \A j \in 1 .. i : lines'[j] = lines[j]
      BY <1>3, <2>1
    <3> QED  BY <3>1, EarlierStand
  <2> QED  BY <2>1 DEF StandsInv
<1> QED  BY <1>6, <1>7 DEF HeldStands

\* The flush completes the line its halt has begun.
LEMMA FlushStands ==
  ASSUME FileInv, OwnInv, StandsInv, HeldStands, NEW p \in Halts, Flush(p)
  PROVE  StandsInv' /\ HeldStands'
<1> DEFINE n == Len(lines)
<1>1. UNCHANGED rec /\ Goto(p, "written") /\ pc[p] \in Mid
  BY DEF Flush
<1>2. pc'[p] = "written" /\ \A q \in Halts \ {p} : pc'[q] = pc[q] /\ pc[q] # "writing"
  BY <1>1, HaltMoves, PlacesOfHalts, OthersDoNotWrite DEF Mid, Appending, Holding
<1>3. /\ n \in Nat \ {0} /\ Len(lines') = n
      /\ DOMAIN lines = 1 .. n /\ DOMAIN lines' = 1 .. n
      /\ \A i \in 1 .. n - 1 : lines'[i] = lines[i]
      /\ lines'[n] = IF pc[p] = "writing" THEN << rec[p] >> ELSE Garbled
  BY FlushLines
<1>4. pc[p] = "writing" => lines[n] \in {<< rec[p] >>, Garbled}
  BY DEF OwnInv, WritingInv
<1> HIDE DEF n
<1>5. \A q \in Halts : pc'[q] # "writing"
  BY <1>2
<1>6. /\ \A j \in 1 .. n : Dead(j) => Dead(j)'
      /\ \A j \in 1 .. n : lines[j] # Garbled => lines'[j] = lines[j] \/ Dead(j)'
  <2>1. \A j \in 1 .. n : j \in 1 .. n - 1 \/ j = n
    BY <1>3
  <2>2. pc[p] = "writing" => ~Dead(n)
    BY DEF Dead, n
  <2> QED  BY <1>3, <1>4, <1>5, <2>1, <2>2 DEF Dead
<1>7. ASSUME NEW q \in Halts, pc'[q] \in Unwritten
      PROVE  \/ FollowsOneOf(lines', rec'[q], Before(q)')
             \/ \E j \in 1 .. Before(q)' : Dead(j)'
  <2>1. pc[q] \in Unwritten /\ Before(q) = n /\ Before(q)' = n /\ rec'[q] = rec[q]
    BY <1>1, <1>2, <1>3, <1>7 DEF Unwritten, Before, n
  <2>2. FollowsOneOf(lines, rec[q], n) \/ \E j \in 1 .. n : Dead(j)
    BY <2>1 DEF HeldStands
  <2>3. n \in Nat /\ n <= n
    BY <1>3
  <2> QED  BY <1>6, <2>1, <2>2, <2>3, StandsKept
<1>8. StandsInv'
  <2>1. ASSUME NEW i \in DOMAIN lines', lines'[i] # Garbled
        PROVE  \/ FollowsOneOf(lines', lines'[i][1], i - 1)
               \/ \E j \in 1 .. i - 1 : lines'[j] = Garbled
    <3>1. CASE i \in 1 .. n - 1
      <4>1. /\ i \in DOMAIN lines /\ i \in Nat \ {0} /\ lines[i] # Garbled
            /\ \A j \in 1 .. i : lines'[j] = lines[j]
        BY <1>3, <2>1, <3>1
      <4> QED  BY <4>1, EarlierStand
    <3>2. CASE i = n
      <4>1. pc[p] = "writing" /\ lines'[i][1] = rec[p]
        BY <1>3, <2>1, <3>2
      <4>2. \/ FollowsOneOf(lines, rec[p], n - 1)
            \/ \E j \in 1 .. n - 1 : lines[j] = Garbled
        BY <4>1 DEF HeldStands, Before, Unwritten, Dead, n
      <4>3. n - 1 \in Nat /\ n - 1 <= n - 1
        BY <1>3
      <4>4. CASE FollowsOneOf(lines, rec[p], n - 1)
        BY <1>3, <3>2, <4>1, <4>3, <4>4, FollowsKept
      <4> QED  BY <1>3, <3>2, <4>2, <4>4
    <3> QED  BY <1>3, <2>1, <3>1, <3>2
  <2> QED  BY <2>1 DEF StandsInv
<1> QED  BY <1>7, <1>8 DEF HeldStands

\* A power loss leaves a prefix, and no halt to write after it.
LEMMA PowerLossStands ==
  ASSUME FileInv, StandsInv, PowerLoss
  PROVE  StandsInv' /\ HeldStands'
<1>1. pc' = [q \in Halts |-> IF pc[q] \in Appending THEN "killed" ELSE pc[q]]
  BY DEF PowerLoss
<1>2. HeldStands'
  BY <1>1 DEF HeldStands, Appending, Unwritten
<1>3. /\ DOMAIN lines = 1 .. Len(lines) /\ DOMAIN lines' = 1 .. Len(lines')
      /\ Len(lines) \in Nat /\ Len(lines') \in Nat /\ Len(lines') <= Len(lines)
      /\ \A i \in 1 .. Len(lines') : lines'[i] = lines[i] \/ lines'[i] = Garbled
  <2>1. synced \in Nat
    BY SequenceOf DEF FileInv, TypeOK
  <2> QED  BY <2>1, PowerLossLines
<1>4. ASSUME NEW i \in DOMAIN lines', lines'[i] # Garbled
      PROVE  \/ FollowsOneOf(lines', lines'[i][1], i - 1)
             \/ \E j \in 1 .. i - 1 : lines'[j] = Garbled
  <2>1. i \in DOMAIN lines /\ i \in Nat \ {0} /\ lines[i] # Garbled /\ lines'[i] = lines[i]
    BY <1>3, <1>4
  <2>2. CASE \A j \in 1 .. i : lines'[j] = lines[j]
    BY <2>1, <2>2, EarlierStand
  <2>3. ASSUME NEW j \in 1 .. i, lines'[j] # lines[j]
        PROVE  j \in 1 .. i - 1 /\ lines'[j] = Garbled
    BY <1>3, <1>4, <2>1, <2>3
  <2> QED  BY <2>2, <2>3
<1> QED  BY <1>2, <1>4 DEF StandsInv

\* An auditor counts the lines there are; until its second read no halt takes
\* a line away, and a power loss ends the auditor.
LEMMA CountKept ==
  ASSUME FileInv, CountInv, [Next]_vars
  PROVE  CountInv'
<1>1. Len(lines) \in Nat /\ \A a \in Auditors : count[a] \in Nat
  BY SequenceOf DEF FileInv, TypeOK
<1>2. ASSUME NEW p \in Halts, Step(p) \/ Raise(p) \/ Kill(p) PROVE CountInv'
  <2>1. UNCHANGED auditVars
    BY <1>2 DEF Step, BuildRecord, ChainStateRaises, Lock, WriteLine,
                WriteOnTornLine, Flush, Fsync, Raise, Kill, Leave
  <2>2. Len(lines') \in Nat /\ Len(lines) <= Len(lines')
    <3>1. CASE UNCHANGED lines
      BY <1>1, <3>1
    <3>2. CASE WriteLine(p)
      BY <1>1, <3>2, WriteLineLines
    <3>3. CASE Flush(p)
      <4>1. Len(lines') = Len(lines)
        BY <3>3, FlushLines
      <4> QED  BY <1>1, <4>1
    <3>4. CASE WriteOnTornLine(p)
      <4>1. lines' = [lines EXCEPT ![Len(lines)] = Garbled] /\ unterminated
        BY <3>4 DEF WriteOnTornLine
      <4>2. Len(lines') = Len(lines)
        BY <4>1, UnterminatedIsNotEmpty, LastLineFile
      <4> QED  BY <1>1, <4>2
    <3>5. ASSUME \/ BuildRecord(p) \/ ChainStateRaises(p) \/ Lock(p) \/ Fsync(p)
                 \/ Raise(p) \/ Kill(p)
          PROVE  UNCHANGED lines
      BY <3>5 DEF BuildRecord, ChainStateRaises, Lock, Fsync, Raise, Kill, Leave
    <3> QED  BY <1>2, <3>1, <3>2, <3>3, <3>4, <3>5 DEF Step
  <2> QED  BY <1>1, <2>1, <2>2 DEF CountInv, auditVars
<1>3. ASSUME NEW a \in Auditors, CountRecords(a) \/ JudgeChain(a) PROVE CountInv'
  <2>1. UNCHANGED lines
    BY <1>3 DEF CountRecords, JudgeChain, haltVars
  <2>2. \A b \in Auditors : apc'[b] = "counted" =>
          \/ apc[b] = "counted" /\ count'[b] = count[b]
          \/ count'[b] = Len(lines)
    BY <1>3 DEF CountRecords, JudgeChain, FileInv, TypeOK
  <2> QED  BY <1>1, <2>1, <2>2 DEF CountInv
<1>4. CASE PowerLoss
  BY <1>4 DEF PowerLoss, CountInv
<1>5. CASE UNCHANGED vars
  BY <1>5 DEF vars, haltVars, auditVars, CountInv
<1> QED  BY <1>2, <1>3, <1>4, <1>5 DEF Next

\* The empty log stands.
LEMMA InitAudit == Init => AuditInv
<1> SUFFICES ASSUME Init PROVE AuditInv
  OBVIOUS
<1>1. DOMAIN lines = {} /\ \A q \in Halts : pc[q] = "running"
  BY DEF Init
<1>2. \A a \in Auditors : apc[a] = "idle"
  BY DEF Init
<1> QED  BY <1>1, <1>2 DEF AuditInv, StandsInv, HeldStands, CountInv, Unwritten

\* The fifth layer is invariant.
THEOREM AuditInvariant == Spec => []AuditInv
<1>1. ASSUME FileInv, OwnInv, AuditInv, [Next]_vars PROVE AuditInv'
  <2> USE DEF AuditInv
  <2>1. CASE UNCHANGED haltVars
    <3>1. UNCHANGED << lines, rec, pc >>
      BY <2>1 DEF haltVars
    <3>2. StandsInv' /\ HeldStands'
      BY <1>1, <3>1, QuietStands
    <3> QED  BY <1>1, <3>2, CountKept
  <2>2. ASSUME NEW p \in Halts, Step(p) \/ Raise(p) \/ Kill(p) PROVE AuditInv'
    <3>1. StandsInv' /\ HeldStands'
      BY <1>1, <2>2, BuildRecordStands, QuietStepStands, WriteLineStands,
         WriteOnTornLineStands, FlushStands DEF Step
    <3> QED  BY <1>1, <3>1, CountKept
  <2>3. CASE PowerLoss
    BY <1>1, <2>3, PowerLossStands, CountKept
  <2>4. ASSUME NEW a \in Auditors, CountRecords(a) \/ JudgeChain(a) PROVE UNCHANGED haltVars
    BY <2>4 DEF CountRecords, JudgeChain
  <2> QED  BY <1>1, <2>1, <2>2, <2>3, <2>4 DEF Next, vars
<1> QED  BY FileInvariant, OwnInvariant, InitAudit, <1>1, PTL DEF Spec

\* What verify_chain accepts it accepts the first lines of.
LEMMA IntactPrefix ==
  ASSUME NEW ls, ls \in Seq(ToSet(ls)), Readable(ls),
         \A i \in DOMAIN ls : /\ ls[i][1].seq \in Nat \ {0}
                              /\ FollowsOneOf(ls, ls[i][1], i - 1),
         verify_chain(Records(ls)) = "intact", NEW n \in Nat, n <= Len(ls)
  PROVE  verify_chain(Records(SubSeq(ls, 1, n))) = "intact"
<1> DEFINE t == SubSeq(ls, 1, n)
<1>1. Len(ls) \in Nat /\ DOMAIN ls = 1 .. Len(ls) /\ n \in 0 .. Len(ls)
  BY SequenceOf
<1>2. /\ t \in Seq(ToSet(t)) /\ Len(t) = n
      /\ \A i \in 1 .. n : t[i] = ls[i]
  BY <1>1, KeepLines
<1>3. DOMAIN t = 1 .. n
  BY <1>2, SequenceOf
<1>4. /\ AllSigned(ls)
      /\ \A i, j \in DOMAIN ls : ls[i][1].seq = ls[j][1].seq => i = j
  BY VerdictOfTree
<1> HIDE DEF t
<1>5. \A i \in DOMAIN t : i \in DOMAIN ls /\ i - 1 \in Nat /\ t[i] = ls[i]
                          /\ \A j \in 1 .. i - 1 : t[j] = ls[j]
  BY <1>1, <1>2, <1>3
<1>6. Readable(t)
  BY <1>5 DEF Readable
<1>7. \A i \in DOMAIN t : /\ t[i][1].seq \in Nat \ {0}
                          /\ FollowsOneOf(t, t[i][1], i - 1)
  <2>1. SUFFICES ASSUME NEW i \in DOMAIN t PROVE FollowsOneOf(t, t[i][1], i - 1)
    BY <1>5
  <2>2. i - 1 \in Nat /\ i - 1 <= i - 1 /\ FollowsOneOf(ls, t[i][1], i - 1)
    BY <1>5
  <2> QED  BY <1>5, <2>2, FollowsKept
<1>8. AllSigned(t) /\ \A i, j \in DOMAIN t : t[i][1].seq = t[j][1].seq => i = j
  BY <1>4, <1>5 DEF AllSigned
<1>9. verify_chain(Records(t)) = "intact"
  BY <1>2, <1>6, <1>7, <1>8, VerdictOfTree
<1> QED  BY <1>9 DEF t

\* An auditor that reports an intact chain with a count it read earlier is
\* right about the records it counted, whatever halts, faults and power
\* losses did between its two reads.
THEOREM AuditsCoverTheirCount == Spec => AuditCoversCount
<1>1. ASSUME FileInv, AuditInv, [Next]_vars
      PROVE  [\A a \in Auditors :
                apc[a] = "counted" /\ apc'[a] = "done" /\ verdict'[a] = "intact"
                  => /\ count[a] <= Len(lines)
                     /\ verify_chain(Records(SubSeq(lines, 1, count[a]))) = "intact"]_vars
  <2>1. SUFFICES ASSUME NEW a \in Auditors, Next,
                        apc[a] = "counted", apc'[a] = "done", verdict'[a] = "intact"
                 PROVE  /\ count[a] <= Len(lines)
                        /\ verify_chain(Records(SubSeq(lines, 1, count[a]))) = "intact"
    BY <1>1
  <2>2. JudgeChain(a)
    <3>1. UNCHANGED auditVars => FALSE
      BY <2>1 DEF auditVars
    <3>2. ~PowerLoss
      BY <2>1 DEF PowerLoss
    <3>3. ~\E p \in Halts : Step(p) \/ Raise(p) \/ Kill(p)
      BY <3>1 DEF Step, BuildRecord, ChainStateRaises, Lock, WriteLine,
                  WriteOnTornLine, Flush, Fsync, Raise, Kill, Leave
    <3>4. PICK b \in Auditors : CountRecords(b) \/ JudgeChain(b)
      BY <2>1, <3>2, <3>3 DEF Next
    <3> QED  BY <1>1, <2>1, <3>4 DEF CountRecords, JudgeChain, FileInv, TypeOK
  <2>3. Readable(lines) /\ verify_chain(Records(lines)) = "intact"
    BY <1>1, <2>1, <2>2 DEF JudgeChain, FileInv, TypeOK
  <2>4. count[a] \in Nat /\ count[a] <= Len(lines) /\ lines \in Seq(ToSet(lines))
    BY <1>1, <2>1 DEF FileInv, TypeOK, AuditInv, CountInv
  <2>5. \A i \in DOMAIN lines : /\ lines[i][1].seq \in Nat \ {0}
                                /\ FollowsOneOf(lines, lines[i][1], i - 1)
    <3>1. DOMAIN lines = 1 .. Len(lines) /\ Len(lines) \in Nat
      BY <2>4, SequenceOf
    <3> QED  BY <1>1, <2>3, <3>1 DEF FileInv, SeqsInv, AuditInv, StandsInv, Readable
  <2> QED  BY <2>3, <2>4, <2>5, IntactPrefix
<1> QED  BY FileInvariant, AuditInvariant, <1>1, PTL DEF Spec, AuditCoversCount

-----------------------------------------------------------------------------
(***************************************************************************)
(* One halt at a time                                                      *)
(*                                                                         *)
(* While at most one halt at a time is between the read of the chain state *)
(* and the end of append, the log is one chain in file order.              *)
(*                                                                         *)
(* ChainInv adds to OneChain that a record whose append is under way is    *)
(* the next of the chain.  It is kept by every step that leaves at most    *)
(* one halt appending, whatever the reason: Serialized here, halts that do *)
(* not overlap in HaltSystemProofs.                                        *)
(*                                                                         *)
(* Second, halts run one at a time implement HashChain, where the part of  *)
(* a line that a cut write leaves does not parse: every step of            *)
(* AttestationLog is a step of the abstract chain or leaves it as it is.   *)
(* Unlike SerialChain this holds after cut writes too, since a log whose   *)
(* last line does not parse takes no more records.                         *)
(***************************************************************************)

\* At most one halt is appending.
Alone == \A p, q \in Halts : pc[p] \in Appending /\ pc[q] \in Appending => p = q

\* Record r is the one to stand after line n of the chain ls.
Successive(ls, r, n) ==
  /\ r.seq = n + 1
  /\ r.prev_hash = IF n = 0 THEN Unset ELSE record_content_hash(ls[n][1])

\* A record not yet written is the next of the chain.
NextInv ==
  \A p \in Halts : pc[p] \in Unwritten => Successive(lines, rec[p], Before(p))

ChainInv == ~torn => OneChain /\ NextInv

InOrder ==
  \A i \in DOMAIN lines :
    lines[i] # Garbled => Successive(lines, lines[i][1], i - 1)

\* OneChain, in terms of Successive.
LEMMA ChainIsInOrder == TypeOK => (OneChain <=> InOrder)
<1> SUFFICES ASSUME TypeOK PROVE OneChain <=> InOrder
  OBVIOUS
<1>1. DOMAIN lines = 1 .. Len(lines) /\ Len(lines) \in Nat
  BY SequenceOf DEF TypeOK
<1>2. ASSUME NEW i \in 1 .. Len(lines)
      PROVE  (i = 1 <=> i - 1 = 0) /\ i - 1 + 1 = i
  BY <1>1
<1> QED  BY <1>1, <1>2 DEF OneChain, InOrder, Successive

\* What a record follows is a line it does not change.
LEMMA SuccessiveKept ==
  ASSUME NEW s, NEW t, NEW r, NEW n, n # 0 => t[n] = s[n], Successive(s, r, n)
  PROVE  Successive(t, r, n)
BY DEF Successive

\* A step that leaves the lines alone and lets no halt read the chain state.
LEMMA QuietChain ==
  ASSUME ChainInv, torn => torn', UNCHANGED lines,
         \A q \in Halts : pc'[q] \in Unwritten =>
           /\ pc[q] \in Unwritten /\ rec'[q] = rec[q]
           /\ pc[q] = "writing" <=> pc'[q] = "writing"
  PROVE  ChainInv'
<1>1. OneChain => OneChain'
  BY DEF OneChain
<1>2. ASSUME NextInv, NEW q \in Halts, pc'[q] \in Unwritten
      PROVE  Successive(lines', rec'[q], Before(q)')
  <2>1. Before(q)' = Before(q)
    BY <1>2 DEF Before
  <2> QED  BY <1>2, <2>1 DEF NextInv
<1> QED  BY <1>1, <1>2 DEF ChainInv, NextInv

\* A halt that reads the chain state alone builds the next record.
LEMMA BuildRecordChain ==
  ASSUME FileInv, ChainInv, Alone', NEW p \in Halts, BuildRecord(p)
  PROVE  ChainInv'
<1>1. /\ UNCHANGED << lines, torn >> /\ Goto(p, "built")
      /\ lines # << >> => Last(lines) # Garbled
  BY DEF BuildRecord
<1>2. pc'[p] = "built" /\ \A q \in Halts \ {p} : pc'[q] = pc[q]
  BY <1>1, HaltMoves, PlacesOfHalts DEF Appending
<1>3. /\ rec'[p].seq = chain_state(last_record(lines)).seq
      /\ rec'[p].prev_hash = chain_state(last_record(lines)).prev_hash
  BY BuiltRecord DEF FileInv, TypeOK
<1>4. SUFFICES ASSUME ~torn PROVE OneChain' /\ NextInv'
  BY <1>1 DEF ChainInv
<1>5. OneChain /\ OneChain'
  BY <1>1, <1>4 DEF ChainInv, OneChain
<1>6. Successive(lines, rec'[p], Len(lines))
  <2>1. CASE lines = << >>
    BY <1>3, <2>1 DEF chain_state, last_record, Successive
  <2>2. CASE lines # << >>
    <3>1. /\ Len(lines) \in 1 .. Len(lines) /\ Last(lines) = lines[Len(lines)]
          /\ Len(lines) \in Nat \ {0} /\ DOMAIN lines = 1 .. Len(lines)
      BY <2>2, EmptySeq DEF FileInv, TypeOK, Last
    <3>2. /\ rec'[p].seq = Last(lines)[1].seq + 1
          /\ rec'[p].prev_hash = record_content_hash(Last(lines)[1])
      BY <1>1, <1>3, <2>2 DEF chain_state, last_record, Garbled, Unset
    <3>3. Last(lines)[1].seq = Len(lines)
      BY <1>1, <1>5, <2>2, <3>1 DEF OneChain
    <3> QED  BY <3>1, <3>2, <3>3 DEF Successive
  <2> QED  BY <2>1, <2>2
<1>7. \A q \in Halts : pc'[q] \in Unwritten => q = p
  BY <1>2 DEF Alone, Unwritten, Appending
<1>8. Before(p)' = Len(lines)
  BY <1>1, <1>2 DEF Before
<1> QED  BY <1>1, <1>5, <1>6, <1>7, <1>8 DEF NextInv

\* The halt's record stands where it belongs.
LEMMA WriteLineChain ==
  ASSUME FileInv, ChainInv, Alone', NEW p \in Halts, WriteLine(p)
  PROVE  ChainInv'
<1>1. /\ UNCHANGED << rec, torn >> /\ Goto(p, "writing") /\ pc[p] = "locked"
  BY DEF WriteLine
<1>2. pc'[p] = "writing" /\ \A q \in Halts \ {p} : pc'[q] = pc[q]
  BY <1>1, HaltMoves, PlacesOfHalts DEF Appending
<1>3. /\ Len(lines) \in Nat /\ Len(lines') = Len(lines) + 1
      /\ DOMAIN lines = 1 .. Len(lines) /\ DOMAIN lines' = 1 .. Len(lines) + 1
      /\ \A i \in 1 .. Len(lines) : lines'[i] = lines[i]
      /\ lines'[Len(lines) + 1] \in {<< rec[p] >>, Garbled}
  BY WriteLineLines
<1>4. SUFFICES ASSUME ~torn PROVE OneChain' /\ NextInv'
  BY <1>1 DEF ChainInv
<1>5. Successive(lines, rec[p], Len(lines))
  BY <1>1, <1>4 DEF ChainInv, NextInv, Unwritten, Before
<1>6. Successive(lines', rec[p], Len(lines))
  <2>1. Len(lines) # 0 => lines'[Len(lines)] = lines[Len(lines)]
    BY <1>3
  <2> QED  BY <1>5, <2>1, SuccessiveKept
<1>7. NextInv'
  <2>1. \A q \in Halts : pc'[q] \in Unwritten => q = p
    BY <1>2 DEF Alone, Unwritten, Appending
  <2>2. Before(p)' = Len(lines)
    BY <1>2, <1>3 DEF Before
  <2> QED  BY <1>1, <1>6, <2>1, <2>2 DEF NextInv
<1>8. ASSUME NEW i \in DOMAIN lines', lines'[i] # Garbled
      PROVE  Successive(lines', lines'[i][1], i - 1)
  <2>1. CASE i = Len(lines) + 1
    <3>1. lines'[i][1] = rec[p] /\ i - 1 = Len(lines)
      BY <1>3, <1>8, <2>1
    <3> QED  BY <1>6, <3>1
  <2>2. CASE i \in 1 .. Len(lines)
    <3>1. Successive(lines, lines[i][1], i - 1)
      BY <1>3, <1>4, <1>8, <2>2, ChainIsInOrder DEF ChainInv, FileInv, InOrder
    <3>2. lines'[i] = lines[i] /\ (i - 1 # 0 => lines'[i - 1] = lines[i - 1])
      BY <1>3, <2>2
    <3> QED  BY <3>1, <3>2, SuccessiveKept
  <2> QED  BY <1>3, <2>1, <2>2
<1>9. OneChain'
  <2>1. TypeOK'
    BY WriteLineFile DEF FileInv
  <2>2. InOrder'
    BY <1>8 DEF InOrder
  <2> QED  BY <2>1, <2>2, ChainIsInOrder, PTL
<1> QED  BY <1>7, <1>9

\* The flush completes the line that its halt has begun.
LEMMA FlushChain ==
  ASSUME TailsInv, OwnInv, ChainInv, Alone, NEW p \in Halts, Flush(p)
  PROVE  ChainInv'
<1>0. FileInv
  BY DEF TailsInv
<1>1. /\ UNCHANGED << rec, torn >> /\ Goto(p, "written") /\ pc[p] \in Mid
  BY DEF Flush
<1>2. pc'[p] = "written" /\ \A q \in Halts \ {p} : pc'[q] = pc[q]
  BY <1>0, <1>1, HaltMoves, PlacesOfHalts DEF Appending
<1>3. SUFFICES ASSUME ~torn PROVE OneChain' /\ NextInv'
  BY <1>1 DEF ChainInv
<1>4. pc[p] = "writing"
  BY <1>1, <1>3 DEF TailsInv, TailInv, Mid
<1>5. /\ Len(lines) \in Nat \ {0} /\ Len(lines') = Len(lines)
      /\ DOMAIN lines = 1 .. Len(lines) /\ DOMAIN lines' = 1 .. Len(lines)
      /\ \A i \in 1 .. Len(lines) - 1 : lines'[i] = lines[i]
      /\ lines'[Len(lines)] = << rec[p] >>
  BY <1>0, <1>4, FlushLines
<1>6. NextInv'
  <2>1. \A q \in Halts : pc'[q] \notin Unwritten
    BY <1>2, <1>4 DEF Alone, Unwritten, Appending
  <2> QED  BY <2>1 DEF NextInv
<1>7. ASSUME NEW i \in DOMAIN lines', lines'[i] # Garbled
      PROVE  Successive(lines', lines'[i][1], i - 1)
  <2>1. i - 1 # 0 => lines'[i - 1] = lines[i - 1]
    BY <1>5
  <2>2. CASE i \in 1 .. Len(lines) - 1
    <3>1. lines'[i] = lines[i] /\ i \in DOMAIN lines
      BY <1>5, <2>2
    <3>2. Successive(lines, lines[i][1], i - 1)
      BY <1>0, <1>3, <1>7, <3>1, ChainIsInOrder DEF ChainInv, FileInv, InOrder
    <3> QED  BY <2>1, <3>1, <3>2, SuccessiveKept
  <2>3. CASE i = Len(lines)
    <3>1. Successive(lines, rec[p], i - 1)
      BY <1>3, <1>4, <2>3 DEF ChainInv, NextInv, Unwritten, Before
    <3>2. lines'[i][1] = rec[p]
      BY <1>5, <2>3
    <3> QED  BY <2>1, <3>1, <3>2, SuccessiveKept
  <2> QED  BY <1>5, <2>2, <2>3
<1>8. OneChain'
  <2>1. TypeOK'
    BY <1>0, FlushFile DEF FileInv
  <2>2. InOrder'
    BY <1>7 DEF InOrder
  <2> QED  BY <2>1, <2>2, ChainIsInOrder, PTL
<1> QED  BY <1>6, <1>8

\* A power loss keeps the first records of the chain.
LEMMA PowerLossChain ==
  ASSUME FileInv, FileInv', ChainInv, PowerLoss
  PROVE  ChainInv'
<1>1. pc' = [q \in Halts |-> IF pc[q] \in Appending THEN "killed" ELSE pc[q]]
  BY DEF PowerLoss
<1>2. \A q \in Halts : pc'[q] \notin Unwritten
  BY <1>1, PlacesOfHalts DEF Unwritten, Appending
<1>3. SUFFICES ASSUME ~torn' PROVE OneChain'
  BY <1>2 DEF ChainInv, NextInv
<1>4. ~torn
  BY <1>3 DEF PowerLoss
<1>5. /\ DOMAIN lines = 1 .. Len(lines) /\ DOMAIN lines' = 1 .. Len(lines')
      /\ Len(lines) \in Nat /\ Len(lines') \in synced .. Len(lines)
      /\ \A j \in 1 .. Len(lines') : lines'[j] = lines[j]
  BY <1>3, PowerLossLines
<1>6. synced \in Nat
  BY <1>5 DEF FileInv, TypeOK
<1>7. InOrder'
  <2>1. ASSUME NEW i \in DOMAIN lines', lines'[i] # Garbled
        PROVE  Successive(lines', lines'[i][1], i - 1)
    <3>1. /\ i \in DOMAIN lines /\ lines'[i] = lines[i]
          /\ i - 1 # 0 => lines'[i - 1] = lines[i - 1]
      BY <1>5, <1>6
    <3>2. Successive(lines, lines[i][1], i - 1)
      BY <1>4, <2>1, <3>1, ChainIsInOrder DEF ChainInv, FileInv, InOrder
    <3> QED  BY <3>1, <3>2, SuccessiveKept
  <2> QED  BY <2>1 DEF InOrder
<1>8. TypeOK'
  BY DEF FileInv
<1> QED  BY <1>7, <1>8, ChainIsInOrder, PTL

LEMMA InitChain == Init => ChainInv
<1> SUFFICES ASSUME Init PROVE ChainInv
  OBVIOUS
<1>1. DOMAIN lines = {} /\ \A q \in Halts : pc[q] = "running"
  BY DEF Init
<1> QED BY <1>1 DEF ChainInv, OneChain, NextInv, Unwritten

\* One step, before and after which at most one halt is appending.
LEMMA ChainStep ==
  ASSUME TailsInv, OwnInv, TailsInv', ChainInv, Alone, Alone', [Next]_vars
  PROVE  ChainInv'
<1>1. FileInv /\ FileInv'
  BY DEF TailsInv
<1>2. CASE UNCHANGED haltVars
  BY <1>2, QuietChain DEF haltVars
<1>3. ASSUME NEW p \in Halts, WriteOnTornLine(p) PROVE ChainInv'
  <2>1. torn'
    BY <1>1, <1>3, TornWhenGlued
  <2> QED  BY <2>1 DEF ChainInv
<1>4. ASSUME NEW p \in Halts,
             ChainStateRaises(p) \/ Lock(p) \/ Fsync(p) \/ Raise(p) \/ Kill(p)
      PROVE  ChainInv'
  <2>1. UNCHANGED << lines, rec >>
    BY <1>4 DEF ChainStateRaises, Lock, Fsync, Raise, Kill, Leave
  <2>5. torn => torn'
    BY <1>4 DEF ChainStateRaises, Lock, Fsync, Raise, Kill, Leave
  <2>2. \/ pc[p] = "built" /\ Goto(p, "locked")
        \/ \E how \in {"returned", "raised", "killed"} : Goto(p, how)
    BY <1>4 DEF ChainStateRaises, Lock, Fsync, Raise, Kill, Leave
  <2>3. \A q \in Halts \ {p} : pc'[q] = pc[q]
    BY <1>1, <2>2, HaltMoves, PlacesOfHalts DEF Appending
  <2>4. \/ pc[p] = "built" /\ pc'[p] = "locked"
        \/ pc'[p] \notin Unwritten
    BY <1>1, <2>2, HaltMoves, PlacesOfHalts DEF Appending, Unwritten
  <2> QED  BY <2>1, <2>3, <2>4, <2>5, QuietChain DEF Unwritten
<1>5. ASSUME NEW p \in Halts, BuildRecord(p) \/ WriteLine(p) \/ Flush(p)
      PROVE  ChainInv'
  BY <1>1, <1>5, BuildRecordChain, WriteLineChain, FlushChain
<1>6. CASE PowerLoss
  BY <1>1, <1>6, PowerLossChain
<1>7. ASSUME NEW a \in Auditors, CountRecords(a) \/ JudgeChain(a)
      PROVE  UNCHANGED haltVars
  BY <1>7 DEF CountRecords, JudgeChain
<1> QED  BY <1>2, <1>3, <1>4, <1>5, <1>6, <1>7 DEF Next, Step, vars

-----------------------------------------------------------------------------
\* Operators who run one halt at a time keep all others from appending.
LEMMA SerializedStep ==
  ASSUME TailsInv, Serialized, Alone, [Next]_vars
  PROVE  Alone'
<1>1. ASSUME NEW p \in Halts, \A q \in Halts \ {p} : pc'[q] = pc[q],
             \/ pc[p] \in Appending
             \/ pc'[p] \notin Appending
             \/ \A q \in Halts \ {p} : pc[q] \notin Appending
      PROVE  Alone'
  BY <1>1 DEF Alone
<1>2. ASSUME NEW p \in Halts, NEW place \in Places, Goto(p, place)
      PROVE  pc'[p] = place /\ \A q \in Halts \ {p} : pc'[q] = pc[q]
  BY <1>2, HaltMoves DEF TailsInv
<1>3. ASSUME NEW p \in Halts, BuildRecord(p) PROVE Alone'
  <2>1. \A q \in Halts \ {p} : pc[q] \notin Appending
    BY <1>3 DEF BuildRecord, MayStart
  <2>2. \A q \in Halts \ {p} : pc'[q] = pc[q]
    BY <1>2, <1>3, PlacesOfHalts DEF BuildRecord, Appending
  <2> QED  BY <1>1, <2>1, <2>2
<1>4. ASSUME NEW p \in Halts, ChainStateRaises(p) \/ Raise(p) \/ Kill(p)
      PROVE  Alone'
  <2>1. PICK how \in {"raised", "killed"} : Goto(p, how)
    BY <1>4 DEF ChainStateRaises, Raise, Kill, Leave
  <2>2. how \in Places /\ how \notin Appending
    BY PlacesOfHalts
  <2> QED  BY <1>1, <1>2, <2>1, <2>2
<1>5. ASSUME NEW p \in Halts,
             Lock(p) \/ WriteLine(p) \/ WriteOnTornLine(p) \/ Flush(p) \/ Fsync(p)
      PROVE  Alone'
  <2>1. pc[p] \in {"built", "locked", "writing", "gluing", "written"}
    BY <1>5 DEF Lock, WriteLine, WriteOnTornLine, Flush, Fsync, Mid
  <2>2. \E place \in {"locked", "writing", "gluing", "written", "returned"} :
          Goto(p, place)
    BY <1>5 DEF Lock, WriteLine, WriteOnTornLine, Flush, Fsync
  <2>3. pc[p] \in Appending /\ \A q \in Halts \ {p} : pc'[q] = pc[q]
    BY <1>2, <2>1, <2>2, PlacesOfHalts DEF Appending
  <2> QED  BY <1>1, <2>3
<1>6. CASE PowerLoss
  <2>1. pc' = [q \in Halts |-> IF pc[q] \in Appending THEN "killed" ELSE pc[q]]
    BY <1>6 DEF PowerLoss
  <2> QED  BY <2>1, PlacesOfHalts DEF Alone
<1>7. CASE UNCHANGED pc
  BY <1>7 DEF Alone
<1>8. ASSUME NEW a \in Auditors, CountRecords(a) \/ JudgeChain(a)
      PROVE  UNCHANGED pc
  BY <1>8 DEF CountRecords, JudgeChain, haltVars
<1> QED  BY <1>3, <1>4, <1>5, <1>6, <1>7, <1>8 DEF Next, Step, vars, haltVars

\* Halts run one at a time keep one chain in file order, whatever killed or
\* failed some of them, as long as no write was cut.
THEOREM SerialHaltsKeepOneChain == Spec => []SerialChain
<1>1. Init => Alone
  BY DEF Init, Alone, Appending
<1>2. TailsInv /\ (Serialized => Alone) /\ [Next]_vars => (Serialized => Alone)'
  BY SerializedStep
<1>3. /\ TailsInv /\ TailsInv' /\ OwnInv /\ (Serialized => Alone) /\ (Serialized => Alone)'
      /\ (Serialized => ChainInv) /\ [Next]_vars
      => (Serialized => ChainInv)'
  BY ChainStep
<1>4. (Serialized => ChainInv) => SerialChain
  BY DEF ChainInv, SerialChain
<1> QED  BY <1>1, <1>2, <1>3, <1>4, InitChain, TailsInvariant, OwnInvariant, PTL
         DEF Spec

-----------------------------------------------------------------------------
(* The refinement of HashChain *)


\* The readable records, and how many there are.
Read == Records(ReadablePrefix)
Whole == IF unterminated THEN Len(lines) - 1 ELSE Len(lines)

\* A line does not parse exactly as long as it lacks its newline.
CutInv ==
  \A i \in DOMAIN lines : lines[i] = Garbled <=> i = Len(lines) /\ unterminated

\* On a file without its last newline nobody appends but who is writing it.
GlueInv ==
  unterminated => \A p \in Halts : pc[p] \in Appending => pc[p] = "writing"

\* A record not yet written is one that extends the chain.
Extends(id, r) ==
  LET next == Chain!Successor(Read)
      bare == build_record(id, next.seq, "halt", next.prev_hash)
  IN  r = sign_record(bare, Key) \/ r = bare

HeldExtends == \A p \in Halts : pc[p] \in Unwritten => Extends(p, rec[p])

RefInv == CutInv /\ GlueInv /\ HeldExtends

\* The readable records are those of the lines with a newline.
ReadsWhole ==
  /\ Len(lines) \in Nat /\ DOMAIN lines = 1 .. Len(lines)
  /\ Whole \in Nat /\ synced \in 0 .. Whole
  /\ Read = [i \in 1 .. Whole |-> lines[i][1]]

-----------------------------------------------------------------------------
\* As long as the layers hold.
LEMMA ReadableLines == FileInv /\ CutInv => ReadsWhole
<1> SUFFICES ASSUME FileInv, CutInv PROVE ReadsWhole
  OBVIOUS
<1>1. Len(lines) \in Nat /\ DOMAIN lines = 1 .. Len(lines)
  BY SequenceOf DEF FileInv, TypeOK
<1>2. Whole \in Nat /\ synced \in 0 .. Whole
  BY <1>1 DEF FileInv, TypeOK, SyncInv, Whole
<1>3. lines # << >> /\ Last(lines) = Garbled <=> unterminated
  <2>1. CASE lines = << >>
    BY <1>1, <1>2, <2>1 DEF Whole
  <2>2. CASE lines # << >>
    <3>1. Len(lines) \in DOMAIN lines /\ Last(lines) = lines[Len(lines)]
      BY <1>1, <2>2, EmptySeq DEF FileInv, TypeOK, Last
    <3> QED  BY <2>2, <3>1 DEF CutInv
  <2> QED  BY <2>1, <2>2
<1>4. /\ Len(ReadablePrefix) = Whole /\ DOMAIN ReadablePrefix = 1 .. Whole
      /\ \A i \in 1 .. Whole : ReadablePrefix[i] = lines[i]
  <2>1. CASE unterminated
    <3>1. Len(lines) - 1 \in 0 .. Len(lines) /\ ReadablePrefix = SubSeq(lines, 1, Whole)
      BY <1>1, <1>2, <1>3, <2>1 DEF Whole, ReadablePrefix
    <3>2. /\ ReadablePrefix \in Seq(ToSet(ReadablePrefix)) /\ Len(ReadablePrefix) = Whole
          /\ \A i \in 1 .. Whole : ReadablePrefix[i] = lines[i]
      BY <2>1, <3>1, KeepLines DEF FileInv, TypeOK, Whole
    <3> QED  BY <3>2
  <2>2. CASE ~unterminated
    BY <1>1, <1>3, <2>2 DEF Whole, ReadablePrefix
  <2> QED  BY <2>1, <2>2
<1>5. Read = [i \in 1 .. Whole |-> lines[i][1]]
  BY <1>4 DEF Read, Records
<1> QED  BY <1>1, <1>2, <1>5 DEF ReadsWhole

\* And after a step.
LEMMA ReadableLinesNext == FileInv' /\ CutInv' => ReadsWhole'
BY ReadableLines, PTL

\* Sequences given by their members.
LEMMA SequenceBy ==
  ASSUME NEW n \in Nat, NEW f
  PROVE  LET s == [i \in 1 .. n |-> f[i][1]]
         IN  s \in Seq(ToSet(s)) /\ Len(s) = n /\ DOMAIN s = 1 .. n
<1> DEFINE s == [i \in 1 .. n |-> f[i][1]]
           S == {f[i][1] : i \in 1 .. n}
<1>1. s \in [1 .. n -> S]
  OBVIOUS
<1>2. s \in Seq(S)
  BY <1>1, SeqDef
<1>3. DOMAIN s = 1 .. n
  OBVIOUS
<1> HIDE DEF s, S
<1>4. s \in Seq(ToSet(s)) /\ Len(s) \in Nat /\ DOMAIN s = 1 .. Len(s)
  BY <1>2, SequenceOf
<1>5. Len(s) = n
  BY <1>3, <1>4
<1> QED  BY <1>3, <1>4, <1>5 DEF s

\* A place in a sequence is its last or one before it.
LEMMA LastOrBefore ==
  ASSUME NEW n \in Nat, NEW i \in 1 .. n
  PROVE  i = n \/ i \in 1 .. n - 1
OBVIOUS

\* The next number and digest are those chain_state gives.
LEMMA SuccessorIsChainState ==
  ASSUME FileInv, CutInv, ~unterminated
  PROVE  Chain!Successor(Read) = chain_state(last_record(lines))
<1>1. /\ Len(lines) \in Nat /\ DOMAIN lines = 1 .. Len(lines)
      /\ Read = [i \in 1 .. Len(lines) |-> lines[i][1]]
  BY ReadableLines DEF ReadsWhole, Whole
<1>2. Len(Read) = Len(lines) /\ Read \in Seq(ToSet(Read))
  BY <1>1, SequenceBy
<1>3. CASE lines = << >>
  <2>1. Read = << >>
    BY <1>2, <1>3, EmptySeq
  <2> QED
    BY <1>3, <2>1 DEF Chain!Successor, chain_state, last_record, Unset, Chain!Unset
<1>4. CASE lines # << >>
  <2>1. /\ Len(lines) \in 1 .. Len(lines) /\ Last(lines) = lines[Len(lines)]
        /\ Read # << >> /\ Last(Read) = Read[Len(lines)]
    BY <1>1, <1>2, <1>4, EmptySeq DEF FileInv, TypeOK, Last
  <2>2. Last(Read) = Last(lines)[1] /\ Last(lines) # Garbled
    BY <1>1, <2>1 DEF CutInv
  <2> QED
    BY <1>4, <2>1, <2>2 DEF Chain!Successor, chain_state, last_record, Garbled, Unset,
                            Chain!Unset, Chain!record_content_hash, record_content_hash,
                            Chain!Last, Last
<1> QED  BY <1>3, <1>4

\* A step that leaves the lines alone and lets no halt read the chain state.
LEMMA QuietRef ==
  ASSUME RefInv, UNCHANGED << lines, unterminated >>,
         \A q \in Halts :
           /\ pc'[q] \in Appending => pc[q] \in Appending /\ rec'[q] = rec[q]
           /\ pc'[q] \in Unwritten => pc[q] \in Unwritten
           /\ pc'[q] \in Appending /\ pc[q] = "writing" => pc'[q] = "writing"
  PROVE  RefInv' /\ Read' = Read
<1>1. Read' = Read
  BY DEF Read, ReadablePrefix, Records
<1>2. CutInv' /\ GlueInv'
  BY DEF RefInv, CutInv, GlueInv
<1>3. ASSUME NEW q \in Halts, pc'[q] \in Unwritten
      PROVE  Extends(q, rec[q])' /\ rec'[q] = rec[q]
  <2>1. Extends(q, rec[q]) /\ rec'[q] = rec[q]
    BY <1>3 DEF RefInv, HeldExtends, Unwritten, Appending
  <2> QED  BY <1>1, <2>1 DEF Extends
<1> QED  BY <1>1, <1>2, <1>3 DEF RefInv, HeldExtends, Extends

\* A halt that reads the chain state alone builds a record that extends it.
LEMMA BuildRecordRef ==
  ASSUME FileInv, RefInv, Alone', NEW p \in Halts, BuildRecord(p)
  PROVE  RefInv' /\ Read' = Read
<1>1. /\ UNCHANGED << lines, unterminated >> /\ Goto(p, "built")
      /\ lines # << >> => Last(lines) # Garbled
  BY DEF BuildRecord
<1>2. pc'[p] = "built" /\ \A q \in Halts \ {p} : pc'[q] = pc[q]
  BY <1>1, HaltMoves, PlacesOfHalts DEF Appending
<1>3. Read' = Read
  BY <1>1 DEF Read, ReadablePrefix, Records
<1>4. ~unterminated
  <2>1. unterminated => lines # << >> /\ Last(lines) = lines[Len(lines)] /\ Len(lines) \in DOMAIN lines
    BY UnterminatedIsNotEmpty, EmptySeq, SequenceOf DEF FileInv, TypeOK, Last
  <2> QED  BY <1>1, <2>1 DEF RefInv, CutInv
<1>5. CutInv' /\ GlueInv'
  BY <1>1, <1>4 DEF RefInv, CutInv, GlueInv
<1>6. Extends(p, rec'[p])
  <2>1. Chain!Successor(Read) = chain_state(last_record(lines))
    BY <1>4, SuccessorIsChainState DEF RefInv
  <2> QED  BY <2>1 DEF BuildRecord, FileInv, TypeOK, Extends
<1>7. \A q \in Halts : pc'[q] \in Unwritten => q = p
  BY <1>2 DEF Alone, Unwritten, Appending
<1>8. Extends(p, rec[p])'
  BY <1>3, <1>6 DEF Extends
<1> QED  BY <1>3, <1>5, <1>7, <1>8 DEF RefInv, HeldExtends

\* The first bytes of a line are not a record yet.
LEMMA WriteLineRef ==
  ASSUME FileInv, FileInv', RefInv, Alone', Tears = {"part"},
         NEW p \in Halts, WriteLine(p)
  PROVE  RefInv' /\ Read' = Read
<1>1. /\ UNCHANGED rec /\ Goto(p, "writing") /\ pc[p] = "locked"
      /\ ~unterminated /\ unterminated' /\ lines' = Append(lines, Garbled)
  BY DEF WriteLine
<1>2. pc'[p] = "writing" /\ \A q \in Halts \ {p} : pc'[q] = pc[q]
  BY <1>1, HaltMoves, PlacesOfHalts DEF Appending
<1>3. /\ Len(lines) \in Nat /\ Len(lines') = Len(lines) + 1
      /\ DOMAIN lines = 1 .. Len(lines) /\ DOMAIN lines' = 1 .. Len(lines) + 1
      /\ \A i \in 1 .. Len(lines) : lines'[i] = lines[i]
      /\ lines'[Len(lines) + 1] = Garbled
  BY <1>1, AppendLine, WriteLineLines DEF FileInv, TypeOK
<1>4. CutInv'
  BY <1>1, <1>3 DEF RefInv, CutInv
<1>5. Read = [i \in 1 .. Len(lines) |-> lines[i][1]]
  BY <1>1, ReadableLines DEF RefInv, ReadsWhole, Whole
<1>6. Whole' = Len(lines)
  BY <1>1, <1>3 DEF Whole
<1>7. Read' = [i \in 1 .. Whole' |-> lines'[i][1]]
  BY <1>4, ReadableLinesNext DEF ReadsWhole
<1>8. Read' = Read
  BY <1>3, <1>5, <1>6, <1>7
<1>9. \A q \in Halts : pc'[q] \in Appending => q = p
  BY <1>2 DEF Alone, Appending
<1>10. Extends(p, rec[p])'
  BY <1>1, <1>8 DEF RefInv, HeldExtends, Extends, Unwritten
<1>11. GlueInv' /\ HeldExtends'
  BY <1>2, <1>9, <1>10, PlacesOfHalts DEF GlueInv, HeldExtends, Unwritten, Appending
<1> QED  BY <1>4, <1>8, <1>11 DEF RefInv

\* The flush adds the halt's record to the chain.
LEMMA FlushRef ==
  ASSUME FileInv, FileInv', RefInv, Alone, NEW p \in Halts, Flush(p)
  PROVE  RefInv' /\ Chain!Extend(p)
<1>1. /\ UNCHANGED << synced, rec >> /\ Goto(p, "written") /\ pc[p] \in Mid
      /\ ~unterminated'
  BY DEF Flush
<1>2. pc'[p] = "written" /\ \A q \in Halts \ {p} : pc'[q] = pc[q]
  BY <1>1, HaltMoves, PlacesOfHalts DEF Appending
<1>3. unterminated /\ pc[p] = "writing"
  BY <1>1, PlacesOfHalts DEF FileInv, WriterInv, RefInv, GlueInv
<1>4. /\ Len(lines) \in Nat \ {0} /\ Len(lines') = Len(lines)
      /\ DOMAIN lines = 1 .. Len(lines) /\ DOMAIN lines' = 1 .. Len(lines)
      /\ \A i \in 1 .. Len(lines) - 1 : lines'[i] = lines[i]
      /\ lines'[Len(lines)] = << rec[p] >>
  BY <1>3, FlushLines
<1>5. CutInv'
  <2>1. \A i \in 1 .. Len(lines) - 1 : lines'[i] # Garbled
    BY <1>4 DEF RefInv, CutInv
  <2>2. lines'[Len(lines)] # Garbled
    BY <1>4 DEF Garbled
  <2>3. \A i \in 1 .. Len(lines) : i \in 1 .. Len(lines) - 1 \/ i = Len(lines)
    BY <1>4, LastOrBefore
  <2> QED  BY <1>1, <1>4, <2>1, <2>2, <2>3 DEF CutInv
<1>6. Read = [i \in 1 .. Len(lines) - 1 |-> lines[i][1]]
  BY <1>3, ReadableLines DEF RefInv, ReadsWhole, Whole
<1>7. Read' = [i \in 1 .. Len(lines) |-> lines'[i][1]]
  BY <1>1, <1>4, <1>5, ReadableLinesNext DEF ReadsWhole, Whole
<1>8. Read' = Append(Read, rec[p])
  <2>1. /\ Read \in Seq(ToSet(Read)) /\ Len(Read) = Len(lines) - 1
        /\ DOMAIN Read = 1 .. Len(lines) - 1
    <3>1. Len(lines) - 1 \in Nat
      BY <1>4
    <3> QED  BY <1>6, <3>1, SequenceBy
  <2>2. /\ Append(Read, rec[p]) \in Seq(ToSet(Append(Read, rec[p])))
        /\ Len(Append(Read, rec[p])) = Len(lines)
        /\ \A i \in 1 .. Len(lines) - 1 : Append(Read, rec[p])[i] = Read[i]
        /\ Append(Read, rec[p])[Len(lines)] = rec[p]
    <3>1. Len(Read) + 1 = Len(lines)
      BY <1>4, <2>1
    <3> QED  BY <2>1, <3>1, AppendLine
  <2>3. DOMAIN Append(Read, rec[p]) = 1 .. Len(lines)
    BY <2>2, SequenceOf
  <2>4. \A i \in 1 .. Len(lines) : Read'[i] = Append(Read, rec[p])[i]
    <3>1. \A i \in 1 .. Len(lines) - 1 : Read'[i] = Append(Read, rec[p])[i]
      <4> SUFFICES ASSUME NEW i \in 1 .. Len(lines) - 1
                   PROVE  Read'[i] = Append(Read, rec[p])[i]
        OBVIOUS
      <4>1. i \in 1 .. Len(lines) /\ lines'[i] = lines[i]
        BY <1>4
      <4>2. Read[i] = lines[i][1] /\ Read'[i] = lines'[i][1]
        BY <1>6, <1>7, <4>1
      <4> QED  BY <2>2, <4>1, <4>2
    <3>2. Read'[Len(lines)] = Append(Read, rec[p])[Len(lines)]
      BY <1>4, <1>7, <2>2
    <3> QED  BY <1>4, <3>1, <3>2, LastOrBefore
  <2>5. Append(Read, rec[p]) = [i \in 1 .. Len(lines) |-> Append(Read, rec[p])[i]]
    BY <2>2, <2>3
  <2> QED  BY <1>7, <2>4, <2>5
<1>9. Chain!Extend(p)
  <2>1. Extends(p, rec[p])
    BY <1>3 DEF RefInv, HeldExtends, Unwritten
  <2> QED
    BY <1>1, <1>8, <2>1 DEF Extends, Chain!Extend, Read, sign_record, build_record,
       Chain!sign_record, Chain!build_record, canonical_bytes, Chain!canonical_bytes,
       Unset, Chain!Unset
<1>10. GlueInv' /\ HeldExtends'
  <2>1. \A q \in Halts : pc'[q] \notin Unwritten
    BY <1>2, <1>3 DEF Alone, Unwritten, Appending
  <2> QED  BY <1>1, <2>1 DEF GlueInv, HeldExtends
<1> QED  BY <1>5, <1>9, <1>10 DEF RefInv

\* When append returns, every record of the chain is on disk.
LEMMA FsyncRef ==
  ASSUME FileInv, RefInv, NEW p \in Halts, Fsync(p)
  PROVE  RefInv' /\ Chain!Acknowledge
<1>1. /\ UNCHANGED << lines, unterminated, rec >> /\ Goto(p, "returned")
      /\ pc[p] = "written" /\ synced' = Len(lines)
  BY DEF Fsync
<1>2. pc'[p] = "returned" /\ \A q \in Halts \ {p} : pc'[q] = pc[q]
  BY <1>1, HaltMoves, PlacesOfHalts
<1>3. RefInv' /\ Read' = Read
  BY <1>1, <1>2, QuietRef DEF Appending, Unwritten
<1>4. ~unterminated
  BY <1>1 DEF FileInv, WriterInv
<1>5. Len(Read) = Len(lines)
  BY <1>4, ReadableLines, SequenceBy DEF RefInv, ReadsWhole, Whole
<1> QED  BY <1>1, <1>3, <1>5 DEF Chain!Acknowledge, Read

\* Fewer readable lines are a chain that lost its last records.
LEMMA FewerLines ==
  ASSUME FileInv, FileInv', CutInv, CutInv', synced' = synced, Whole' <= Whole,
         \A i \in 1 .. Whole' : lines'[i] = lines[i]
  PROVE  Chain!Lose
<1>1. /\ Read = [i \in 1 .. Whole |-> lines[i][1]] /\ Whole \in Nat
      /\ Read' = [i \in 1 .. Whole' |-> lines'[i][1]]
      /\ Whole' \in Nat /\ synced \in 0 .. Whole'
  BY ReadableLines, ReadableLinesNext DEF ReadsWhole
<1>2. Read \in Seq(ToSet(Read)) /\ Len(Read) = Whole
  BY <1>1, SequenceBy
<1>3. Whole' \in 0 .. Len(Read) /\ Whole' \in synced .. Len(Read)
  BY <1>1, <1>2
<1>4. /\ SubSeq(Read, 1, Whole') \in Seq(ToSet(SubSeq(Read, 1, Whole')))
      /\ Len(SubSeq(Read, 1, Whole')) = Whole'
      /\ \A i \in 1 .. Whole' : SubSeq(Read, 1, Whole')[i] = Read[i]
  BY <1>2, <1>3, KeepLines
<1>5. DOMAIN SubSeq(Read, 1, Whole') = 1 .. Whole'
  BY <1>4, SequenceOf
<1>6. \A i \in 1 .. Whole' : Read'[i] = SubSeq(Read, 1, Whole')[i]
  <2> SUFFICES ASSUME NEW i \in 1 .. Whole'
               PROVE  Read'[i] = SubSeq(Read, 1, Whole')[i]
    OBVIOUS
  <2>1. i \in 1 .. Whole
    BY <1>1
  <2>2. Read[i] = lines[i][1] /\ Read'[i] = lines'[i][1]
    BY <1>1, <2>1
  <2> QED  BY <1>4, <2>2
<1>7. SubSeq(Read, 1, Whole') = [i \in 1 .. Whole' |-> SubSeq(Read, 1, Whole')[i]]
  BY <1>4, <1>5
<1>8. Read' = SubSeq(Read, 1, Whole')
  BY <1>1, <1>6, <1>7
<1> QED  BY <1>3, <1>8 DEF Chain!Lose, Read

\* A power loss drops records no append has returned for.
LEMMA PowerLossRef ==
  ASSUME FileInv, FileInv', RefInv, Tears = {"part"}, PowerLoss
  PROVE  RefInv' /\ Chain!Lose
<1>1. /\ pc' = [q \in Halts |-> IF pc[q] \in Appending THEN "killed" ELSE pc[q]]
      /\ synced' = synced
  BY DEF PowerLoss
<1>2. \A q \in Halts : pc'[q] \notin Appending /\ pc'[q] \notin Unwritten
  BY <1>1, PlacesOfHalts DEF Unwritten, Appending
<1>3. GlueInv' /\ HeldExtends'
  BY <1>2 DEF GlueInv, HeldExtends
<1>4. /\ Len(lines) \in Nat /\ DOMAIN lines = 1 .. Len(lines)
      /\ lines \in Seq(ToSet(lines)) /\ synced \in 0 .. Len(lines)
      /\ unterminated \in BOOLEAN
  BY SequenceOf DEF FileInv, TypeOK
<1>5. PICK k \in synced .. Len(lines) :
        \/ /\ lines' = SubSeq(lines, 1, k)
           /\ unterminated' = (unterminated /\ k = Len(lines))
        \/ /\ k > synced
           /\ lines' = Append(SubSeq(lines, 1, k - 1), Garbled)
           /\ unterminated' = TRUE
  BY DEF PowerLoss
<1>6. CASE /\ lines' = SubSeq(lines, 1, k)
           /\ unterminated' = (unterminated /\ k = Len(lines))
  <2>1. k \in 0 .. Len(lines) /\ k \in Nat /\ k <= Len(lines) /\ Len(lines) \in Nat
    BY <1>4
  <2>2. /\ lines' \in Seq(ToSet(lines')) /\ Len(lines') = k
        /\ \A i \in 1 .. k : lines'[i] = lines[i]
    BY <1>4, <1>6, <2>1, KeepLines
  <2>3. DOMAIN lines' = 1 .. k
    BY <2>2, SequenceOf
  <2>4. CutInv'
    <3> SUFFICES ASSUME NEW i \in 1 .. k
                 PROVE  lines'[i] = Garbled <=> i = k /\ unterminated'
      BY <2>2, <2>3 DEF CutInv
    <3>1. lines'[i] = Garbled <=> i = Len(lines) /\ unterminated
      <4>1. i \in DOMAIN lines
        BY <1>4, <2>1
      <4> QED  BY <2>2, <4>1 DEF RefInv, CutInv
    <3>2. i = Len(lines) => i = k
      BY <2>1
    <3> QED  BY <1>6, <3>1, <3>2
  <2>5. CASE unterminated'
    <3>1. unterminated /\ k = Len(lines)
      BY <1>6, <2>5
    <3>2. Whole' = Len(lines) - 1 /\ Whole = Len(lines) - 1
      BY <2>2, <2>5, <3>1 DEF Whole
    <3>3. Whole' <= Whole /\ \A i \in 1 .. Whole' : i \in 1 .. k
      BY <1>4, <3>1, <3>2
    <3> QED  BY <1>1, <1>3, <2>2, <2>4, <3>3, FewerLines DEF RefInv
  <2>6. CASE ~unterminated'
    <3>1. Whole' = k
      BY <2>2, <2>6 DEF Whole
    <3>2. k <= Whole
      <4>1. unterminated => k # Len(lines)
        BY <1>6, <2>6
      <4> QED  BY <2>1, <4>1 DEF Whole
    <3> QED  BY <1>1, <1>3, <2>2, <2>4, <3>1, <3>2, FewerLines DEF RefInv
  <2> QED  BY <2>5, <2>6
<1>7. CASE /\ k > synced
           /\ lines' = Append(SubSeq(lines, 1, k - 1), Garbled)
           /\ unterminated' = TRUE
  <2> DEFINE kept == SubSeq(lines, 1, k - 1)
  <2>1. k - 1 \in 0 .. Len(lines) /\ k \in Nat /\ k <= Len(lines)
    BY <1>4, <1>7
  <2>2. /\ kept \in Seq(ToSet(kept)) /\ Len(kept) = k - 1
        /\ \A i \in 1 .. k - 1 : kept[i] = lines[i]
    BY <1>4, <2>1, KeepLines
  <2> HIDE DEF kept
  <2>3. /\ lines' \in Seq(ToSet(lines')) /\ Len(lines') = Len(kept) + 1
        /\ \A i \in 1 .. Len(kept) : lines'[i] = kept[i]
        /\ lines'[Len(kept) + 1] = Garbled
    <3>1. lines' = Append(kept, Garbled)
      BY <1>7 DEF kept
    <3> QED  BY <2>2, <3>1, AppendLine
  <2>4. /\ DOMAIN lines' = 1 .. k /\ Len(lines') = k
        /\ \A i \in 1 .. k - 1 : lines'[i] = lines[i]
        /\ lines'[k] = Garbled
    <3>1. Len(kept) + 1 = k
      BY <2>1, <2>2
    <3> QED  BY <2>2, <2>3, <3>1, SequenceOf
  <2>5. \A i \in 1 .. k - 1 : lines[i] # Garbled /\ i # k
    BY <1>4, <2>1 DEF RefInv, CutInv
  <2>6. CutInv'
    <3>1. \A i \in 1 .. k : i = k \/ i \in 1 .. k - 1
      BY <2>1, LastOrBefore
    <3> QED  BY <1>7, <2>4, <2>5, <3>1 DEF CutInv
  <2>7. Whole' = k - 1
    BY <1>7, <2>4 DEF Whole
  <2>8. k - 1 <= Whole
    BY <1>4, <2>1 DEF Whole
  <2> QED  BY <1>1, <1>3, <2>4, <2>6, <2>7, <2>8, FewerLines DEF RefInv
<1> QED  BY <1>5, <1>6, <1>7

-----------------------------------------------------------------------------
\* Nothing is written, and nothing held.
LEMMA InitRef == Init => RefInv /\ Chain!Init
<1> SUFFICES ASSUME Init PROVE RefInv /\ Chain!Init
  OBVIOUS
<1>1. /\ lines = << >> /\ DOMAIN lines = {} /\ ~unterminated /\ synced = 0
      /\ \A q \in Halts : pc[q] = "running"
  BY DEF Init
<1>2. RefInv
  BY <1>1 DEF RefInv, CutInv, GlueInv, HeldExtends, Unwritten
<1>3. Records(ReadablePrefix) = << >>
  BY <1>1 DEF Records, ReadablePrefix
<1> QED  BY <1>1, <1>2, <1>3 DEF Chain!Init

\* One step, before and after which at most one halt is appending.
LEMMA RefStep ==
  ASSUME FileInv, FileInv', RefInv, Alone, Alone', Tears = {"part"}, [Next]_vars
  PROVE  RefInv' /\ [Chain!Next]_(Chain!chainVars)
<1>1. ASSUME RefInv' /\ Read' = Read /\ synced' = synced
      PROVE  RefInv' /\ [Chain!Next]_(Chain!chainVars)
  BY <1>1 DEF Chain!chainVars, Read
<1>2. CASE UNCHANGED haltVars
  BY <1>1, <1>2, QuietRef DEF haltVars
<1>3. ASSUME NEW p \in Halts, WriteOnTornLine(p) PROVE FALSE
  BY <1>3 DEF WriteOnTornLine, RefInv, GlueInv, Appending
<1>4. ASSUME NEW p \in Halts, ChainStateRaises(p) \/ Lock(p) \/ Raise(p) \/ Kill(p)
      PROVE  RefInv' /\ Read' = Read /\ synced' = synced
  <2>1. UNCHANGED << lines, unterminated, synced, rec >>
    BY <1>4 DEF ChainStateRaises, Lock, Raise, Kill, Leave
  <2>2. \/ pc[p] = "built" /\ Goto(p, "locked")
        \/ \E how \in {"raised", "killed"} : Goto(p, how)
    BY <1>4 DEF ChainStateRaises, Lock, Raise, Kill, Leave
  <2>3. \A q \in Halts \ {p} : pc'[q] = pc[q]
    BY <2>2, HaltMoves, PlacesOfHalts DEF Appending
  <2>4. \/ pc[p] = "built" /\ pc'[p] = "locked"
        \/ pc'[p] \notin Appending /\ pc'[p] \notin Unwritten
    BY <2>2, HaltMoves, PlacesOfHalts DEF Appending, Unwritten
  <2> QED  BY <2>1, <2>3, <2>4, QuietRef DEF Unwritten, Appending
<1>5. ASSUME NEW p \in Halts, BuildRecord(p) \/ WriteLine(p)
      PROVE  RefInv' /\ Read' = Read /\ synced' = synced
  BY <1>5, BuildRecordRef, WriteLineRef DEF BuildRecord, WriteLine
<1>6. ASSUME NEW p \in Halts, Flush(p)
      PROVE  RefInv' /\ [Chain!Next]_(Chain!chainVars)
  BY <1>6, FlushRef DEF Chain!Next
<1>7. ASSUME NEW p \in Halts, Fsync(p)
      PROVE  RefInv' /\ [Chain!Next]_(Chain!chainVars)
  BY <1>7, FsyncRef DEF Chain!Next
<1>8. CASE PowerLoss
  BY <1>8, PowerLossRef DEF Chain!Next
<1>9. ASSUME NEW a \in Auditors, CountRecords(a) \/ JudgeChain(a)
      PROVE  UNCHANGED haltVars
  BY <1>9 DEF CountRecords, JudgeChain
<1> QED  BY <1>1, <1>2, <1>3, <1>4, <1>5, <1>6, <1>7, <1>8, <1>9 DEF Next, Step, vars

\* Halts run one at a time implement the abstract hash chain, through kills,
\* failures, cut writes and power losses: what a reader can parse grows one
\* record at a time, each with the number and digest of the one before, and a
\* power loss takes back no record whose append has returned.
THEOREM SerialHaltsImplementHashChain ==
  Serialized /\ Tears = {"part"} => (Spec => ImplementsHashChain)
<1> SUFFICES ASSUME Serialized, Tears = {"part"} PROVE Spec => ImplementsHashChain
  OBVIOUS
<1>1. Init => Alone
  BY DEF Init, Alone, Appending
<1>2. TailsInv /\ Alone /\ [Next]_vars => Alone'
  BY SerializedStep
<1>3. FileInv /\ FileInv' /\ RefInv /\ Alone /\ Alone' /\ [Next]_vars
      => RefInv' /\ [Chain!Next]_(Chain!chainVars)
  BY RefStep
<1> QED  BY <1>1, <1>2, <1>3, InitRef, FileInvariant, TailsInvariant, PTL
         DEF Spec, ImplementsHashChain, Chain!Spec
=============================================================================
