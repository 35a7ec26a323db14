---------------------------- MODULE KeyFilesProofs ----------------------------
(* Theorems about KeyFiles, for any number of keygens and halts. *)
EXTENDS KeyFiles, TLAPS

\* A keygen that still has the files to itself is the last one to have passed
\* its check, and no other one is at work.
AloneInv ==
  /\ \A p \in alone : pc[p] # "ready" /\ (pc[p] \in Mid => p = latest)
  /\ latest \in alone => \A q \in Keygens : pc[q] \in Mid => q = latest

\* What the files hold while such a keygen is at work and after it returned.
FilesInv ==
  latest \in alone =>
    /\ pc[latest] = "checked" /\ latest \notin forced => private = Absent
    /\ pc[latest] = "opened" => private = Broken
    /\ pc[latest] \in {"written", "publishing", "returned"} => private = latest
    /\ pc[latest] = "returned" => public = latest

KeyInv == TypeOK /\ AloneInv /\ FilesInv

-----------------------------------------------------------------------------
LEMMA KeyInit == Init => KeyInv
BY KeyAssumption DEF Init, KeyInv, TypeOK, AloneInv, FilesInv, Mid

LEMMA CheckKeeps ==
  ASSUME KeyInv, NEW p \in Keygens, Check(p)
  PROVE  KeyInv'
<1> USE KeyAssumption DEF Mid
<1>1. TypeOK'
  BY DEF KeyInv, TypeOK, Check, Goto, Enter, haltVars
<1>2. /\ pc' = [pc EXCEPT ![p] = "checked"] /\ pc \in [Keygens -> Mid \union {"ready", "refused", "returned", "cut"}]
      /\ latest' = p /\ alone \subseteq Keygens /\ p \notin alone
  BY DEF KeyInv, TypeOK, AloneInv, Check, Goto, Enter
<1>3. CASE Busy = {}
  <2>1. alone' = alone \union {p} /\ \A q \in Keygens : pc[q] \notin Mid
    BY <1>3 DEF Check, Enter, Busy
  <2>2. AloneInv'
    BY <1>2, <2>1 DEF KeyInv, AloneInv
  <2>3. FilesInv'
    BY <1>2 DEF Check, FilesInv, Goto
  <2> QED BY <1>1, <2>2, <2>3 DEF KeyInv
<1>4. CASE Busy # {}
  <2>1. alone' = alone \ Busy /\ p \notin alone'
    BY <1>2, <1>4 DEF Check, Enter
  <2>2. AloneInv'
    BY <1>2, <2>1 DEF KeyInv, AloneInv, Busy
  <2>3. FilesInv'
    BY <1>2, <2>1 DEF FilesInv
  <2> QED BY <1>1, <2>2, <2>3 DEF KeyInv
<1> QED BY <1>3, <1>4

LEMMA WriterKeeps ==
  ASSUME KeyInv, NEW p \in Keygens,
         \/ Refuse(p) \/ OpenPrivate(p) \/ WritePrivate(p) \/ OpenPublic(p)
         \/ WritePublic(p) \/ Cut(p)
  PROVE  KeyInv'
<1> USE KeyAssumption DEF Mid
<1>1. TypeOK'
  BY DEF KeyInv, TypeOK, Refuse, OpenPrivate, WritePrivate, OpenPublic, WritePublic,
         Cut, Goto, haltVars
<1>2. latest' = latest /\ alone' = alone /\ forced' = forced
  BY DEF Refuse, OpenPrivate, WritePrivate, OpenPublic, WritePublic, Cut
<1>3. AloneInv'
  BY <1>2 DEF KeyInv, AloneInv, TypeOK, Refuse, OpenPrivate, WritePrivate, OpenPublic,
         WritePublic, Cut, Goto
<1>4. FilesInv'
  <2> SUFFICES ASSUME latest \in alone PROVE FilesInv'
    BY <1>2 DEF FilesInv
  <2>1. CASE pc[p] = "ready"
    BY <1>2, <2>1 DEF KeyInv, FilesInv, TypeOK, AloneInv, Refuse, OpenPrivate, WritePrivate,
           OpenPublic, WritePublic, Cut, Goto
  <2>2. CASE pc[p] \in Mid /\ p = latest
    BY <1>2, <2>2 DEF KeyInv, FilesInv, TypeOK, Refuse, OpenPrivate, WritePrivate,
           OpenPublic, WritePublic, Cut, Goto
  <2>3. pc[p] = "ready" \/ (pc[p] \in Mid /\ p = latest)
    BY DEF KeyInv, AloneInv, Refuse, OpenPrivate, WritePrivate, OpenPublic, WritePublic, Cut
  <2> QED BY <2>1, <2>2, <2>3
<1> QED BY <1>1, <1>3, <1>4 DEF KeyInv

LEMMA PowerLossKeeps == KeyInv /\ PowerLoss => KeyInv'
BY KeyAssumption DEF KeyInv, TypeOK, AloneInv, FilesInv, PowerLoss, Mid

LEMMA HaltKeeps ==
  ASSUME KeyInv, NEW h \in Halts, FindKey(h) \/ LoadKey(h) \/ Verify(h)
  PROVE  KeyInv'
<1>1. UNCHANGED keygenVars
  BY DEF FindKey, LoadKey, Verify
<1>2. TypeOK'
  BY <1>1 DEF KeyInv, TypeOK, keygenVars, FindKey, LoadKey, Verify, HaltGoto
<1>3. AloneInv' /\ FilesInv'
  BY <1>1 DEF KeyInv, AloneInv, FilesInv, keygenVars
<1> QED BY <1>2, <1>3 DEF KeyInv

LEMMA KeyStep == KeyInv /\ [Next]_vars => KeyInv'
<1> SUFFICES ASSUME KeyInv, [Next]_vars PROVE KeyInv'
  OBVIOUS
<1>1. CASE UNCHANGED vars
  BY <1>1 DEF vars, keygenVars, haltVars, KeyInv, TypeOK, AloneInv, FilesInv
<1>2. CASE Next
  BY <1>2, CheckKeeps, WriterKeeps, HaltKeeps, PowerLossKeeps DEF Next
<1> QED BY <1>1, <1>2

\* The invariant of the key files and their writers.
THEOREM KeyInvariant == Spec => []KeyInv
BY KeyInit, KeyStep, PTL DEF Spec

\* The types of KeyFiles.
THEOREM KeyTypes == Spec => []TypeOK
BY KeyInvariant, PTL DEF KeyInv

-----------------------------------------------------------------------------
\* However many keygens raced or were cut short before, one that has the files
\* to itself leaves them a pair.
THEOREM LoneKeygenOwns == Spec => []LoneKeygenOwnsPair
<1>1. KeyInv => LoneKeygenOwnsPair
  BY DEF KeyInv, FilesInv, LoneKeygenOwnsPair, Settled
<1> QED BY <1>1, KeyInvariant, PTL

\* An unforced keygen that runs alone changes nobody's private key.
THEOREM KeyIsKept == Spec => KeptUnlessForced
<1> DEFINE Kept ==
      \A p \in Keygens :
        /\ private \in Keygens \ {p} /\ private' # private
        /\ pc[p] \in Mid /\ pc'[p] # pc[p]
        => p \in forced \/ p \notin alone
<1>1. KeyInv /\ [Next]_vars => [Kept]_vars
  <2> SUFFICES ASSUME KeyInv, Next, NEW p \in Keygens, private \in Keygens \ {p},
                      private' # private, pc[p] \in Mid, pc'[p] # pc[p],
                      p \notin forced, p \in alone
               PROVE  FALSE
    OBVIOUS
  <2>1. p = latest
    BY DEF KeyInv, AloneInv
  <2>2. pc[p] = "publishing" \/ pc[p] = "written"
    BY <2>1, KeyAssumption DEF KeyInv, FilesInv, Mid
  <2> QED BY <2>1, <2>2 DEF KeyInv, FilesInv
<1> QED BY <1>1, KeyInvariant, PTL DEF Spec, KeptUnlessForced

\* While the key is settled halts find it, and their records verify with it.
THEOREM SettledWorks == Spec => SettledKeyWorks
<1> DEFINE Works ==
      \A h \in Halts :
        Settled /\ hpc'[h] # hpc[h] =>
          /\ hpc'[h] # "raised"
          /\ signed[h] = latest => hpc'[h] # "rejected"
<1>1. KeyInv /\ [Next]_vars => [Works]_vars
  <2> SUFFICES ASSUME KeyInv, Next, NEW h \in Halts, Settled, hpc'[h] # hpc[h]
               PROVE  /\ hpc'[h] # "raised"
                      /\ signed[h] = latest => hpc'[h] # "rejected"
    OBVIOUS
  <2>1. private = latest /\ public = latest /\ latest \in Keygens
    BY DEF KeyInv, FilesInv, TypeOK, Settled
  <2>2. CASE PowerLoss
    BY <2>2 DEF PowerLoss, KeyInv, TypeOK
  <2>3. CASE \E g \in Halts : FindKey(g) \/ LoadKey(g) \/ Verify(g)
    BY <2>1, <2>3, KeyAssumption DEF FindKey, LoadKey, Verify, HaltGoto, KeyInv, TypeOK
  <2>4. CASE \E p \in Keygens : \/ Check(p) \/ Refuse(p) \/ OpenPrivate(p)
                                \/ WritePrivate(p) \/ OpenPublic(p) \/ WritePublic(p)
                                \/ Cut(p)
    BY <2>4 DEF Check, Refuse, OpenPrivate, WritePrivate, OpenPublic, WritePublic, Cut,
                haltVars
  <2> QED BY <2>2, <2>3, <2>4 DEF Next
<1> QED BY <1>1, KeyInvariant, PTL DEF Spec, SettledKeyWorks
=============================================================================
