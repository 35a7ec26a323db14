---------------------------- MODULE AttestationLog ----------------------------
(***************************************************************************)
(* One attestation log file shared by concurrent halts and auditors.       *)
(*                                                                         *)
(* A halt (core.run_halt) is modelled from the moment its backend steps    *)
(* are over: it reads the chain state, builds and signs its record, and    *)
(* appends it under an exclusive flock.  An auditor is one                 *)
(* run_verify_chain, which reads the file twice.  Halts may be killed, any *)
(* write may fail half way, and the host may lose power.                   *)
(*                                                                         *)
(* The file is a sequence of lines; a line is << r >> when it parses to    *)
(* record r and the empty sequence when it does not parse.  Only the last  *)
(* line can lack its newline (`unterminated`).  A reader takes no lock and *)
(* sees the file as it is when it reaches end of file: what lies before    *)
(* that point no longer changes, so a read is one step.                    *)
(***************************************************************************)
EXTENDS Attestation, SequencesExt

CONSTANTS
  Halts,       \* the halt commands, each run once; also the uuid of its record
  Auditors,    \* the verify --chain commands
  Key,         \* the signing key all halts use
  Nobody,      \* no lock holder
  Tears,       \* what a cut or unfinished write leaves of its line
  Serialized   \* halts on this log run one at a time (README, FAQ: separate logs)

ASSUME LogAssumption ==
  /\ Nobody \notin Halts
  /\ Tears # {} /\ Tears \subseteq {"part", "whole"}
  /\ Serialized \in BOOLEAN

VARIABLES
  lines,        \* the file
  unterminated, \* its last line has no newline yet
  synced,       \* how many lines the last fsync put on disk
  lock,         \* the holder of the flock
  pc,           \* where each halt is
  rec,          \* the record each halt has built
  torn,         \* history: a write has ever been cut
  apc,          \* where each auditor is
  count,        \* the record_count each auditor read first
  verdict       \* and the verdict it read second

haltVars  == << lines, unterminated, synced, lock, pc, rec, torn >>
auditVars == << apc, count, verdict >>
vars      == << haltVars, auditVars >>

Garbled == << >>

\* Between the read of the chain state and the end of append.
Appending == {"built", "locked", "writing", "gluing", "written"}
\* In the middle of its write.
Mid    == {"writing", "gluing"}
Active == Appending \union {"running"}

Readable(ls) == \A i \in DOMAIN ls : ls[i] # Garbled
Records(ls)  == [i \in DOMAIN ls |-> ls[i][1]]

Init ==
  /\ lines = << >>
  /\ unterminated = FALSE
  /\ synced = 0
  /\ lock = Nobody
  /\ pc = [p \in Halts |-> "running"]
  /\ rec = [p \in Halts |-> Unset]
  /\ torn = FALSE
  /\ apc = [a \in Auditors |-> "idle"]
  /\ count = [a \in Auditors |-> 0]
  /\ verdict = [a \in Auditors |-> "none"]

-----------------------------------------------------------------------------
(* Halts *)

Goto(p, place) == pc' = [pc EXCEPT ![p] = place]

MayStart(p) ==
  Serialized => \A q \in Halts \ {p} : pc[q] \notin Appending

\* Mutant of last_record: the first line is read instead of the last.
first_record(ls) == IF ls = << >> THEN Unset ELSE Head(ls)

\* AttestationLog._last_record, on a file whose last line parses.
last_record(ls) == IF ls = << >> THEN Unset ELSE Last(ls)

\* chain_state, build_record and, unless --no-sign, sign_record.
BuildRecord(p) ==
  /\ pc[p] = "running" /\ MayStart(p)
  /\ lines # << >> => Last(lines) # Garbled
  /\ LET head == chain_state(last_record(lines))
         bare == build_record(p, head.seq, "halt", head.prev_hash)
     IN  \/ rec' = [rec EXCEPT ![p] = sign_record(bare, Key)]
         \/ rec' = [rec EXCEPT ![p] = bare]
  /\ Goto(p, "built")
  /\ UNCHANGED << lines, unterminated, synced, lock, torn, auditVars >>

\* json.loads raises on a last line that does not parse.
ChainStateRaises(p) ==
  /\ pc[p] = "running" /\ MayStart(p)
  /\ lines # << >> /\ Last(lines) = Garbled
  /\ Goto(p, "raised")
  /\ UNCHANGED << lines, unterminated, synced, lock, rec, torn, auditVars >>

\* Mutant of Lock: no flock, as where fcntl is missing.
LockWithoutFlock(p) ==
  /\ pc[p] = "built"
  /\ lock' = p
  /\ Goto(p, "locked")
  /\ UNCHANGED << lines, unterminated, synced, rec, torn, auditVars >>

\* append: the file is opened in append mode and flocked.
Lock(p) ==
  /\ pc[p] = "built" /\ lock = Nobody
  /\ lock' = p
  /\ Goto(p, "locked")
  /\ UNCHANGED << lines, unterminated, synced, rec, torn, auditVars >>

\* Mutant of WriteLine: the file is opened with "w" instead of "a".
WriteLineTruncating(p) ==
  /\ pc[p] = "locked" /\ ~unterminated
  /\ \E t \in Tears :
       lines' = << IF t = "whole" THEN << rec[p] >> ELSE Garbled >>
  /\ unterminated' = TRUE
  /\ Goto(p, "writing")
  /\ UNCHANGED << synced, lock, rec, torn, auditVars >>

\* The first bytes of the line reach the file, on a line of their own.
WriteLine(p) ==
  /\ pc[p] = "locked" /\ ~unterminated
  /\ \E t \in Tears :
       lines' = Append(lines, IF t = "whole" THEN << rec[p] >> ELSE Garbled)
  /\ unterminated' = TRUE
  /\ Goto(p, "writing")
  /\ UNCHANGED << synced, lock, rec, torn, auditVars >>

\* The file ends without a newline: the bytes continue that line.
WriteOnTornLine(p) ==
  /\ pc[p] = "locked" /\ unterminated
  /\ lines' = [lines EXCEPT ![Len(lines)] = Garbled]
  /\ Goto(p, "gluing")
  /\ UNCHANGED << unterminated, synced, lock, rec, torn, auditVars >>

\* fh.flush: the rest of the line and its newline are in the file.
Flush(p) ==
  /\ pc[p] \in Mid
  /\ lines' = [lines EXCEPT ![Len(lines)] =
                 IF pc[p] = "writing" THEN << rec[p] >> ELSE Garbled]
  /\ unterminated' = FALSE
  /\ Goto(p, "written")
  /\ UNCHANGED << synced, lock, rec, torn, auditVars >>

\* Mutant of Fsync: append returns after the flush.
FsyncSkipped(p) ==
  /\ pc[p] = "written"
  /\ lock' = Nobody
  /\ Goto(p, "returned")
  /\ UNCHANGED << lines, unterminated, synced, rec, torn, auditVars >>

\* os.fsync, and the lock goes with the closed file.
Fsync(p) ==
  /\ pc[p] = "written"
  /\ synced' = Len(lines)
  /\ lock' = Nobody
  /\ Goto(p, "returned")
  /\ UNCHANGED << lines, unterminated, rec, torn, auditVars >>

\* Mutant of Leave: the lock is not tied to the open file.
LeaveHoldingLock(p, how) ==
  /\ torn' = (torn \/ pc[p] \in Mid)
  /\ Goto(p, how)
  /\ UNCHANGED << lines, unterminated, synced, lock, rec, auditVars >>

\* The halt ends early.  Closing the file frees the lock; what was written
\* stays in the file.
Leave(p, how) ==
  /\ lock' = IF lock = p THEN Nobody ELSE lock
  /\ torn' = (torn \/ pc[p] \in Mid)
  /\ Goto(p, how)
  /\ UNCHANGED << lines, unterminated, synced, rec, auditVars >>

\* An exception leaves run_halt: the key is missing or does not load, or
\* mkdir, open, write, flush or fsync fails (a full disk, an I/O error).
Raise(p) == pc[p] \in Active /\ Leave(p, "raised")

\* The process is killed.
Kill(p) == pc[p] \in Active /\ Leave(p, "killed")

-----------------------------------------------------------------------------
(* Auditors: run_verify_chain *)

\* records = read_all(); json.loads raises on a line that does not parse.
CountRecords(a) ==
  /\ apc[a] = "idle"
  /\ IF Readable(lines)
     THEN /\ apc' = [apc EXCEPT ![a] = "counted"]
          /\ count' = [count EXCEPT ![a] = Len(lines)]
     ELSE /\ apc' = [apc EXCEPT ![a] = "raised"]
          /\ count' = count
  /\ UNCHANGED << haltVars, verdict >>

\* verify_chain() reads the file again.
JudgeChain(a) ==
  /\ apc[a] = "counted"
  /\ IF Readable(lines)
     THEN /\ apc' = [apc EXCEPT ![a] = "done"]
          /\ verdict' = [verdict EXCEPT ![a] = verify_chain(Records(lines))]
     ELSE /\ apc' = [apc EXCEPT ![a] = "raised"]
          /\ verdict' = verdict
  /\ UNCHANGED << haltVars, count >>

-----------------------------------------------------------------------------
(* The host loses power: every process dies.  Synced lines are on disk; of *)
(* the others a prefix is, whose last line may be cut.                     *)

PowerLoss ==
  /\ \E k \in synced .. Len(lines) :
       \/ /\ lines' = SubSeq(lines, 1, k)
          /\ unterminated' = (unterminated /\ k = Len(lines))
          /\ torn' = (torn \/ unterminated')
       \/ /\ k > synced
          /\ \E t \in Tears :
               lines' = Append(SubSeq(lines, 1, k - 1),
                               IF t = "whole" THEN lines[k] ELSE Garbled)
          /\ unterminated' = TRUE
          /\ torn' = TRUE
  /\ lock' = Nobody
  /\ pc' = [p \in Halts |-> IF pc[p] \in Appending THEN "killed" ELSE pc[p]]
  /\ apc' = [a \in Auditors |-> IF apc[a] = "counted" THEN "killed" ELSE apc[a]]
  /\ UNCHANGED << synced, rec, count, verdict >>

-----------------------------------------------------------------------------
Step(p) ==
  \/ BuildRecord(p) \/ ChainStateRaises(p)
  \/ Lock(p) \/ WriteLine(p) \/ WriteOnTornLine(p) \/ Flush(p) \/ Fsync(p)

Next ==
  \/ \E p \in Halts : Step(p) \/ Raise(p) \/ Kill(p)
  \/ \E a \in Auditors : CountRecords(a) \/ JudgeChain(a)
  \/ PowerLoss

Spec == Init /\ [][Next]_vars

-----------------------------------------------------------------------------
(* Properties *)

Places == Active \union {"returned", "raised", "killed"}
Holding == {"locked", "writing", "gluing", "written"}

\* The types of the variables; synced counts lines of the file.
TypeOK ==
  /\ lines \in Seq(ToSet(lines))
  /\ unterminated \in BOOLEAN
  /\ synced \in 0 .. Len(lines)
  /\ lock \in Halts \union {Nobody}
  /\ pc \in [Halts -> Places]
  /\ DOMAIN rec = Halts
  /\ \A p \in Halts : pc[p] \in Appending => rec[p].seq \in Nat \ {0}
  /\ torn \in BOOLEAN
  /\ apc \in [Auditors -> {"idle", "counted", "done", "raised", "killed"}]
  /\ count \in [Auditors -> Nat]
  /\ DOMAIN verdict = Auditors

\* Concurrent appends never mix their bytes (attestation.py:254, "so
\* concurrent halts ... don't interleave partial lines"): unless a write was
\* cut, every line parses but the one the lock holder is writing.
LinesIntact ==
  ~torn => \A i \in DOMAIN lines :
             \/ lines[i] # Garbled
             \/ /\ i = Len(lines) /\ unterminated
                /\ \E p \in Halts : lock = p /\ pc[p] = "writing"

\* Record r follows a record among the first n lines of ls, or starts the log.
FollowsOneOf(ls, r, n) ==
  \/ r.seq = 1 /\ r.prev_hash = Unset
  \/ \E j \in 1 .. n :
       /\ ls[j] # Garbled
       /\ r.seq = ls[j][1].seq + 1
       /\ r.prev_hash = record_content_hash(ls[j][1])

\* However halts overlap, the log is a tree of digests: unless a write was
\* cut, every record names, by digest and number, a record that stands
\* earlier in the file (what chain_state read can no longer go away).
ParentPrecedes ==
  ~torn => \A i \in DOMAIN lines :
             lines[i] # Garbled => FollowsOneOf(lines, lines[i][1], i - 1)

\* Every halt, dry-run or executed, appends one record (README, Features):
\* when append has returned, the record is one line of the file, and on disk
\* - kills, failures and power losses of others notwithstanding, as long as
\* none cut a line.
LoggedOnce(p) ==
  /\ \E i \in 1 .. synced : lines[i] = << rec[p] >>
  /\ \A i, j \in DOMAIN lines :
       lines[i] = << rec[p] >> /\ lines[j] = << rec[p] >> => i = j

ReturnedIsLogged ==
  ~torn => \A p \in Halts : pc[p] = "returned" => LoggedOnce(p)

\* The log is append-only: a line on disk is never changed or removed, by a
\* halt, a crash or a power loss.
SyncedPrefixKept ==
  [][/\ synced <= synced'
     /\ synced <= Len(lines')
     /\ \A i \in 1 .. synced : lines'[i] = lines[i]]_vars

AllSigned(ls) == \A i \in DOMAIN ls : verify_record(ls[i][1]) = "valid"

\* verify_chain is exact on logs halts write: it accepts a log if and only
\* if every record is signed and no two halts forked the chain.
VerdictExact ==
  ~torn /\ Readable(lines) =>
    (verify_chain(Records(lines)) = "intact"
       <=> /\ AllSigned(lines)
           /\ \A i, j \in DOMAIN lines :
                lines[i][1].seq = lines[j][1].seq => i = j)

\* One chain in file order: record i has sequence number i and the digest of
\* record i - 1.
OneChain ==
  \A i \in DOMAIN lines :
    lines[i] # Garbled =>
      /\ lines[i][1].seq = i
      /\ lines[i][1].prev_hash =
           IF i = 1 THEN Unset ELSE record_content_hash(lines[i - 1][1])

\* Halts that do not overlap between the read of the chain state and the end
\* of append keep one chain, however many of them were killed or failed in
\* between.
SerialChain == Serialized /\ ~torn => OneChain

\* run_verify_chain reports the count of one read with the verdict of a
\* later one: when it says intact, the records it counted are intact too.
AuditCoversCount ==
  [][\A a \in Auditors :
       apc[a] = "counted" /\ apc'[a] = "done" /\ verdict'[a] = "intact"
         => /\ count[a] <= Len(lines)
            /\ verify_chain(Records(SubSeq(lines, 1, count[a]))) = "intact"]_vars

\* README, Features: every halt "appends one signed record to a local
\* append-only NDJSON log" - of a halt that returned, without exception.
OneRecordPerHalt == \A p \in Halts : pc[p] = "returned" => LoggedOnce(p)

-----------------------------------------------------------------------------
(* Halts that do not overlap implement the abstract chain. *)

\* The records a reader can parse: all lines but a cut last one.
ReadablePrefix ==
  IF lines # << >> /\ Last(lines) = Garbled
  THEN SubSeq(lines, 1, Len(lines) - 1) ELSE lines

Chain == INSTANCE HashChain
           WITH Ids <- Halts, chain <- Records(ReadablePrefix), acked <- synced

ImplementsHashChain == Chain!Spec
=============================================================================
