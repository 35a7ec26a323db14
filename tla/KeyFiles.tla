------------------------------- MODULE KeyFiles -------------------------------
(***************************************************************************)
(* The two files of one signing key, <path> and <path>.pub, as the keygen  *)
(* commands that write them, the halts that sign with the first and the    *)
(* verifications that trust the second see them.                           *)
(*                                                                         *)
(* A file is Absent, Broken (empty or cut, it does not load) or holds a    *)
(* half of the key of one keygen, named after it.  All keys have the same  *)
(* length, so of two writers of one file the later one leaves its key.     *)
(* Nothing locks the files and nothing syncs them.                         *)
(***************************************************************************)
CONSTANTS
  Keygens,  \* the keygen commands; also the keys they generate
  Halts,    \* the halts that sign
  Absent, Broken,
  Nobody    \* no keygen

ASSUME KeyAssumption ==
  /\ Absent # Broken
  /\ {Absent, Broken, Nobody} \intersect Keygens = {}

VARIABLES
  private, public, \* the files
  pc,       \* where each keygen is
  forced,   \* the keygens given --force
  hpc,      \* where each halt, and then the verification of its record, is
  signed,   \* the key each halt has signed with
  latest,   \* history: the last keygen that went past its check
  alone     \* history: the keygens that no other one, and no power loss, met

keygenVars == << private, public, pc, forced, latest, alone >>
haltVars   == << hpc, signed >>
vars       == << keygenVars, haltVars >>

Mid  == {"checked", "opened", "written", "publishing"}
Busy == {p \in Keygens : pc[p] \in Mid}

Init ==
  /\ private = Absent /\ public = Absent
  /\ pc = [p \in Keygens |-> "ready"]
  /\ forced = {}
  /\ hpc = [h \in Halts |-> "running"]
  /\ signed = [h \in Halts |-> Nobody]
  /\ latest = Nobody /\ alone = {}

-----------------------------------------------------------------------------
(* Keygen *)

Goto(p, place) == pc' = [pc EXCEPT ![p] = place]

\* What the histories say of a keygen that goes past its check.
Enter(p) ==
  /\ latest' = p
  /\ alone' = IF Busy = {} THEN alone \union {p} ELSE alone \ Busy

\* Mutant of Check: the test looks at the public file.
CheckPublicFile(p) ==
  /\ pc[p] = "ready"
  /\ \/ forced' = forced /\ public = Absent
     \/ forced' = forced \union {p}
  /\ Goto(p, "checked") /\ Enter(p)
  /\ UNCHANGED << private, public, haltVars >>

\* run_keygen: refused when the private file exists, unless forced.
Check(p) ==
  /\ pc[p] = "ready"
  /\ \/ forced' = forced /\ private = Absent
     \/ forced' = forced \union {p}
  /\ Goto(p, "checked") /\ Enter(p)
  /\ UNCHANGED << private, public, haltVars >>

Refuse(p) ==
  /\ pc[p] = "ready" /\ private # Absent
  /\ Goto(p, "refused")
  /\ UNCHANGED << private, public, forced, latest, alone, haltVars >>

\* os.open with O_CREAT and O_TRUNC.
OpenPrivate(p) ==
  /\ pc[p] = "checked"
  /\ private' = Broken
  /\ Goto(p, "opened")
  /\ UNCHANGED << public, forced, latest, alone, haltVars >>

\* Mutant of WritePrivate: the file object is not closed, so not flushed.
WritePrivateUnflushed(p) ==
  /\ pc[p] = "opened"
  /\ Goto(p, "written")
  /\ UNCHANGED << private, public, forced, latest, alone, haltVars >>

\* fh.write and close, then chmod.
WritePrivate(p) ==
  /\ pc[p] = "opened"
  /\ private' = p
  /\ Goto(p, "written")
  /\ UNCHANGED << public, forced, latest, alone, haltVars >>

\* Mutant of OpenPublic: an existing public file is left as it is.
OpenPublicIfAbsent(p) ==
  /\ pc[p] = "written"
  /\ public' = IF public = Absent THEN Broken ELSE public
  /\ Goto(p, IF public = Absent THEN "publishing" ELSE "returned")
  /\ UNCHANGED << private, forced, latest, alone, haltVars >>

\* Path.write_bytes opens the public file with truncation,
OpenPublic(p) ==
  /\ pc[p] = "written"
  /\ public' = Broken
  /\ Goto(p, "publishing")
  /\ UNCHANGED << private, forced, latest, alone, haltVars >>

\* and writes it; then chmod, and run_keygen returns.
WritePublic(p) ==
  /\ pc[p] = "publishing"
  /\ public' = p
  /\ Goto(p, "returned")
  /\ UNCHANGED << private, forced, latest, alone, haltVars >>

\* An exception (a full disk, no permission) or a signal ends a keygen; the
\* write it was in has not begun, is cut, or is done.
Cut(p) ==
  /\ pc[p] \in Mid
  /\ private' \in IF pc[p] = "opened" THEN {private, Broken, p} ELSE {private}
  /\ public' \in IF pc[p] = "publishing" THEN {public, Broken, p} ELSE {public}
  /\ Goto(p, "cut")
  /\ UNCHANGED << forced, latest, alone, haltVars >>

-----------------------------------------------------------------------------
(* Halts and verifications *)

HaltGoto(h, place) == hpc' = [hpc EXCEPT ![h] = place]

\* run_halt: key_path.exists(), after the commands have run.
FindKey(h) ==
  /\ hpc[h] = "running"
  /\ HaltGoto(h, IF private = Absent THEN "raised" ELSE "found")
  /\ UNCHANGED << keygenVars, signed >>

\* Mutant of LoadKey: what is in the file is taken for a key.
LoadKeyUnchecked(h) ==
  /\ hpc[h] = "found"
  /\ HaltGoto(h, "signed") /\ signed' = [signed EXCEPT ![h] = private]
  /\ UNCHANGED keygenVars

\* load_private_key, sign_record.
LoadKey(h) ==
  /\ hpc[h] = "found"
  /\ IF private \in Keygens
     THEN HaltGoto(h, "signed") /\ signed' = [signed EXCEPT ![h] = private]
     ELSE HaltGoto(h, "raised") /\ signed' = signed
  /\ UNCHANGED keygenVars

\* run_verify of the record with --trusted-key <path>.pub: an exception when
\* load_public_key fails.
Verify(h) ==
  /\ hpc[h] = "signed"
  /\ HaltGoto(h, IF public \notin Keygens THEN "raised"
                 ELSE IF public = signed[h] THEN "accepted" ELSE "rejected")
  /\ UNCHANGED << keygenVars, signed >>

\* The host loses power: every process ends, and a file whose content was
\* not yet on disk is empty or gone.
PowerLoss ==
  /\ private' \in {private, Broken, Absent}
  /\ public' \in {public, Broken, Absent}
  /\ pc' = [p \in Keygens |-> IF pc[p] \in Mid THEN "cut" ELSE pc[p]]
  /\ hpc' = [h \in Halts |-> IF hpc[h] = "found" THEN "killed" ELSE hpc[h]]
  /\ alone' = {}
  /\ UNCHANGED << forced, signed, latest >>

-----------------------------------------------------------------------------
Next ==
  \/ \E p \in Keygens : \/ Check(p) \/ Refuse(p) \/ OpenPrivate(p)
                        \/ WritePrivate(p) \/ OpenPublic(p) \/ WritePublic(p)
                        \/ Cut(p)
  \/ \E h \in Halts : FindKey(h) \/ LoadKey(h) \/ Verify(h)
  \/ PowerLoss

Spec == Init /\ [][Next]_vars

-----------------------------------------------------------------------------
(* Properties *)

\* The types of the variables.
TypeOK ==
  /\ private \in Keygens \union {Absent, Broken}
  /\ public \in Keygens \union {Absent, Broken}
  /\ pc \in [Keygens -> Mid \union {"ready", "refused", "returned", "cut"}]
  /\ forced \in SUBSET Keygens
  /\ hpc \in [Halts -> {"running", "found", "signed", "raised", "accepted",
                        "rejected", "killed"}]
  /\ signed \in [Halts -> Keygens \union {Nobody}]
  /\ latest \in Keygens \union {Nobody}
  /\ alone \in SUBSET Keygens

\* The last keygen that started to write met no other one and returned.
Settled == latest \in alone /\ pc[latest] = "returned"

\* A keygen that ran with the files to itself owns the pair when it has
\* returned, and keeps it until another one goes past its check - whatever
\* races, cut writes and power losses left in the files before.
LoneKeygenOwnsPair == Settled => private = latest /\ public = latest

\* "already exists; pass force=True to overwrite" (core.py:245): a keygen
\* changes another one's private key only if it was forced or did not run
\* alone.  (The check and the open are two steps: unforced keygens that
\* overlap do overwrite each other's keys.)
KeptUnlessForced ==
  [][\A p \in Keygens :
       /\ private \in Keygens \ {p} /\ private' # private
       /\ pc[p] \in Mid /\ pc'[p] # pc[p]
       => p \in forced \/ p \notin alone]_vars

\* While the key is settled, no halt fails for want of its key and no record
\* signed with that key is rejected: these are left to keygens that overlap
\* the halt, or overlapped each other, or were cut short between the files.
SettledKeyWorks ==
  [][\A h \in Halts :
       Settled /\ hpc'[h] # hpc[h] =>
         /\ hpc'[h] # "raised"
         /\ signed[h] = latest => hpc'[h] # "rejected"]_vars
=============================================================================
