--------------------------- MODULE HaltSystemProofs ---------------------------
(***************************************************************************)
(* Theorems about HaltSystem, for any halts, jobs and number of faults:    *)
(* it implements AttestationLog, whose theorems therefore hold of it; what *)
(* halts do to the cluster is on record; halts that do not overlap stand   *)
(* in order in the log; and a status shows what they did.                  *)
(***************************************************************************)
EXTENDS HaltSystem, AttestationLogProofs, BackendsProofs

LEMMA LogSimulated == [SystemNext]_systemVars => [Next]_vars
<1> SUFFICES ASSUME [SystemNext]_systemVars PROVE [Next]_vars
  OBVIOUS
<1>1. CASE UNCHANGED systemVars
  BY <1>1 DEF systemVars
<1>2. CASE \E p \in Halts : LogStep(p) \/ EndAtLog(p)
  BY <1>2 DEF LogStep, EndAtLog, Next
<1>3. CASE HostLosesPower
  BY <1>3 DEF HostLosesPower, Next
<1>4. CASE \/ \E p \in Halts : \/ Begin(p) \/ WithoutCommand(p) \/ Command(p)
                               \/ KillEarly(p)
           \/ TakeEffect \/ BeginStatus \/ Query \/ OthersAct
  BY <1>4 DEF Begin, WithoutCommand, Command, KillEarly, EndEarly, TakeEffect,
              BeginStatus, Query, OthersAct
<1> QED BY <1>1, <1>2, <1>3, <1>4 DEF SystemNext, Proceed

\* The system as a whole does to the log only what AttestationLog allows.
THEOREM SystemImplementsLog == SystemSpec => Spec
<1>1. SystemInit => Init
  BY DEF SystemInit
<1> QED BY <1>1, LogSimulated, PTL DEF SystemSpec, Spec

\* So a halt that returned has its record on disk once, whatever the others do.
THEOREM SystemReturnedIsLogged == SystemSpec => []ReturnedIsLogged
BY SystemImplementsLog, ReturnedStaysLogged, PTL

-----------------------------------------------------------------------------
WorkInv ==
  /\ DOMAIN stage = Halts /\ DOMAIN steps = Halts
  /\ DOMAIN job = Halts /\ DOMAIN todo = Halts
  /\ \A p \in Halts : steps[p] \in Seq(ToSet(steps[p]))
  /\ \A p \in Halts : stage[p] # "idle" => job[p] \in Jobs

LEMMA WorkInit == SystemInit => WorkInv
BY DEF SystemInit, WorkInv, ToSet

LEMMA Concatenation ==
  ASSUME NEW s, s \in Seq(ToSet(s)), NEW t, t \in Seq(ToSet(t))
  PROVE  /\ s \o t \in Seq(ToSet(s \o t))
         /\ DOMAIN s \subseteq DOMAIN (s \o t)
         /\ \A i \in DOMAIN s : (s \o t)[i] = s[i]
         /\ \A i \in 1 .. Len(t) : /\ Len(s) + i \in DOMAIN (s \o t)
                                   /\ (s \o t)[Len(s) + i] = t[i]
<1> DEFINE S == ToSet(s) \union ToSet(t)
<1>1. s \in Seq(S) /\ t \in Seq(S)
  BY DEF ToSet
<1> HIDE DEF S
<1>2. s \o t \in Seq(S)
  BY <1>1
<1>3. s \o t \in Seq(ToSet(s \o t))
  BY <1>2, SequenceOf
<1>4. /\ DOMAIN s = 1 .. Len(s) /\ Len(s) \in Nat /\ Len(t) \in Nat
      /\ Len(s \o t) = Len(s) + Len(t) /\ DOMAIN (s \o t) = 1 .. Len(s) + Len(t)
  BY <1>1, <1>2
<1>5. \A i \in DOMAIN s : (s \o t)[i] = s[i]
  BY <1>1, <1>4
<1>6. \A i \in 1 .. Len(t) : (s \o t)[Len(s) + i] = t[i]
  BY <1>1, <1>4
<1> QED BY <1>3, <1>4, <1>5, <1>6

\* Results extends the steps of p alone.
LEMMA ResultsExtend ==
  ASSUME WorkInv, NEW p \in Halts, NEW new, new \in Seq(ToSet(new)),
         Results(p, new)
  PROVE  /\ \A q \in Halts \ {p} : steps'[q] = steps[q]
         /\ DOMAIN steps' = Halts /\ DOMAIN todo' = Halts
         /\ steps'[p] \in Seq(ToSet(steps'[p]))
         /\ \A i \in DOMAIN steps[p] : /\ i \in DOMAIN steps'[p]
                                       /\ steps'[p][i] = steps[p][i]
         /\ \A i \in 1 .. Len(new) : \E k \in DOMAIN steps'[p] :
              steps'[p][k] = new[i]
<1>1. steps' = [steps EXCEPT ![p] = @ \o new] /\ DOMAIN todo' = Halts
  BY DEF Results, WorkInv
<1>2. steps[p] \in Seq(ToSet(steps[p])) /\ DOMAIN steps = Halts
  BY DEF WorkInv
<1>3. steps'[p] = steps[p] \o new
  BY <1>1, <1>2
<1>4. DOMAIN steps' = Halts /\ \A q \in Halts \ {p} : steps'[q] = steps[q]
  BY <1>1, <1>2
<1>5. /\ steps[p] \o new \in Seq(ToSet(steps[p] \o new))
      /\ \A i \in DOMAIN steps[p] : /\ i \in DOMAIN (steps[p] \o new)
                                    /\ (steps[p] \o new)[i] = steps[p][i]
      /\ \A i \in 1 .. Len(new) :
           /\ Len(steps[p]) + i \in DOMAIN (steps[p] \o new)
           /\ (steps[p] \o new)[Len(steps[p]) + i] = new[i]
  BY <1>2, Concatenation
<1> QED BY <1>1, <1>3, <1>4, <1>5

LEMMA WorkUnchanged ==
  ASSUME WorkInv, UNCHANGED << job, todo, steps >>, DOMAIN stage' = Halts,
         \A p \in Halts : stage'[p] # "idle" => stage[p] # "idle"
  PROVE  WorkInv'
BY DEF WorkInv

LEMMA WorkStep ==
  ASSUME WorkInv, [SystemNext]_systemVars
  PROVE  WorkInv'
<1>1. CASE UNCHANGED << stage, job, todo, steps >>
  BY <1>1, WorkUnchanged DEF WorkInv
<1>2. ASSUME NEW p \in Halts, Begin(p) PROVE WorkInv'
  BY <1>2 DEF Begin, WorkInv
<1>3. ASSUME NEW p \in Halts, NEW new, new \in Seq(ToSet(new)), Results(p, new),
             UNCHANGED << stage, job >>
      PROVE  WorkInv'
  BY <1>3, ResultsExtend DEF WorkInv
<1>4. ASSUME NEW p \in Halts, WithoutCommand(p) PROVE WorkInv'
  <2>1. PICK n \in 1 .. Len(todo[p]) :
          Results(p, [i \in 1 .. n |->
                        StepResult(todo[p][i],
                                   IF todo[p][i].via = "skipped" THEN "skipped"
                                   ELSE "planned")])
    BY <1>4 DEF WithoutCommand
  <2>2. PICK new : new = [i \in 1 .. n |->
                            StepResult(todo[p][i],
                                       IF todo[p][i].via = "skipped" THEN "skipped"
                                       ELSE "planned")]
    OBVIOUS
  <2>3. new \in Seq(ToSet(new)) /\ Results(p, new)
    BY <2>1, <2>2 DEF ToSet
  <2>4. UNCHANGED << stage, job >>
    BY <1>4 DEF WithoutCommand
  <2> QED  BY <1>3, <2>3, <2>4
<1>5. ASSUME NEW p \in Halts, NEW how \in {"raised", "killed"}, EndEarly(p, how),
             stage[p] # "idle"
      PROVE  WorkInv'
  BY <1>5, WorkUnchanged DEF EndEarly, WorkInv
<1>6. ASSUME NEW p \in Halts, Command(p) PROVE WorkInv'
  <2>1. PICK o \in Outcomes :
          IF o[1] = "raises" THEN EndEarly(p, "raised")
          ELSE /\ AllServed(p, o[1])
               /\ UNCHANGED << vars, stage, job, before, watch, others >>
    BY <1>6 DEF Command
  <2>2. stage[p] # "idle"
    BY <1>6 DEF Command, Commands, InSteps
  <2>3. CASE o[1] = "raises"
    BY <1>5, <2>1, <2>2, <2>3
  <2>4. CASE o[1] # "raises"
    <3>1. PICK new : new = [i \in 1 .. Served(p) |-> StepResult(todo[p][i], o[1])]
      OBVIOUS
    <3>2. Served(p) \in Nat
      BY <2>2, JobsAssumption DEF WorkInv, Served
    <3>3. new \in Seq(ToSet(new)) /\ Results(p, new)
      BY <2>1, <2>4, <3>1, <3>2 DEF AllServed, ToSet
    <3> QED  BY <1>3, <2>1, <2>4, <3>3
  <2> QED  BY <2>3, <2>4
<1>7. ASSUME NEW p \in Halts, KillEarly(p) PROVE WorkInv'
  BY <1>5, <1>7 DEF KillEarly, InSteps
<1>8. CASE HostLosesPower
  <2>1. /\ stage' = [p \in Halts |-> IF stage[p] = "working" /\ pc[p] = "running"
                                     THEN "killed" ELSE stage[p]]
        /\ UNCHANGED << job, todo, steps >>
    BY <1>8 DEF HostLosesPower
  <2> QED  BY <2>1, WorkUnchanged
<1>9. CASE \/ UNCHANGED systemVars \/ TakeEffect \/ BeginStatus \/ Query \/ OthersAct
           \/ \E p \in Halts : LogStep(p) \/ EndAtLog(p)
  BY <1>1, <1>9 DEF systemVars, workVars, TakeEffect, BeginStatus, Query, OthersAct,
                    LogStep, EndAtLog
<1> QED BY <1>2, <1>4, <1>6, <1>7, <1>8, <1>9 DEF SystemNext, Proceed

LEMMA WorkInvariant == SystemSpec => []WorkInv
BY WorkInit, WorkStep, PTL DEF SystemSpec

-----------------------------------------------------------------------------
(* Who begins before whom *)

Wrote == {"writing", "gluing", "written", "returned"}

\* What a step of the log may do to halt r.
Moves(r) ==
  /\ torn => torn'
  /\ pc[r] # "running" => rec'[r] = rec[r]
  /\ pc'[r] # pc[r] =>
       /\ pc[r] \in Active /\ pc'[r] # "running"
       /\ pc'[r] \in Wrote => pc[r] \in {"locked"} \union Wrote
       /\ pc'[r] = "returned" => pc[r] = "written"

\* What a step of halt p may do, for Moves to hold of all.
LEMMA OneMoves ==
  ASSUME FileInv, NEW p \in Halts, NEW place \in Places \ {"running"},
         Goto(p, place), pc[p] \in Active, torn => torn',
         place \in Wrote => pc[p] \in {"locked"} \union Wrote,
         place = "returned" => pc[p] = "written",
         \A q \in Halts : q # p \/ pc[p] # "running" => rec'[q] = rec[q]
  PROVE  \A r \in Halts : Moves(r)
<1>1. pc'[p] = place /\ \A q \in Halts \ {p} : pc'[q] = pc[q]
  BY HaltMoves
<1> QED BY <1>1 DEF Moves

LEMMA LogMoves ==
  ASSUME FileInv, [Next]_vars
  PROVE  \A r \in Halts : Moves(r)
<1>1. CASE UNCHANGED haltVars
  BY <1>1 DEF haltVars, Moves
<1>2. /\ Appending \union {"returned", "raised", "killed"} = Places \ {"running"}
      /\ Appending \subseteq Active /\ "running" \in Active
  BY DEF Places, Active, Appending
<1>3. ASSUME NEW p \in Halts, BuildRecord(p) PROVE \A r \in Halts : Moves(r)
  <2>1. \A q \in Halts \ {p} : rec'[q] = rec[q]
    BY <1>3, BuiltRecord DEF FileInv, TypeOK
  <2>2. pc[p] = "running" /\ Goto(p, "built") /\ (torn => torn')
    BY <1>3 DEF BuildRecord
  <2>3. "built" \in Places \ {"running"} /\ "built" \notin Wrote
    BY <1>2 DEF Appending, Wrote
  <2> QED  BY <1>2, <2>1, <2>2, <2>3, OneMoves
<1>4. ASSUME NEW p \in Halts, ChainStateRaises(p) \/ Raise(p) \/ Kill(p)
      PROVE  \A r \in Halts : Moves(r)
  <2>1. rec' = rec
    BY <1>4 DEF ChainStateRaises, Raise, Kill, Leave
  <2>2. torn => torn'
    BY <1>4 DEF ChainStateRaises, Raise, Kill, Leave
  <2>3. PICK how \in {"raised", "killed"} : Goto(p, how)
    BY <1>4 DEF ChainStateRaises, Raise, Kill, Leave
  <2>4. pc[p] \in Active
    BY <1>2, <1>4 DEF ChainStateRaises, Raise, Kill
  <2>5. how \in Places \ {"running"} /\ how \notin Wrote /\ how # "returned"
    BY <1>2 DEF Wrote
  <2> QED  BY <2>1, <2>2, <2>3, <2>4, <2>5, OneMoves
<1>5. ASSUME NEW p \in Halts,
             Lock(p) \/ WriteLine(p) \/ WriteOnTornLine(p) \/ Flush(p) \/ Fsync(p)
      PROVE  \A r \in Halts : Moves(r)
  <2>1. rec' = rec /\ torn' = torn
    BY <1>5 DEF Lock, WriteLine, WriteOnTornLine, Flush, Fsync
  <2>2. \/ pc[p] = "built" /\ Goto(p, "locked")
        \/ pc[p] = "locked" /\ (Goto(p, "writing") \/ Goto(p, "gluing"))
        \/ pc[p] \in Mid /\ Goto(p, "written")
        \/ pc[p] = "written" /\ Goto(p, "returned")
    BY <1>5 DEF Lock, WriteLine, WriteOnTornLine, Flush, Fsync
  <2>3. PICK place \in {"locked", "writing", "gluing", "written", "returned"} :
          /\ Goto(p, place)
          /\ place \in Wrote => pc[p] \in {"locked"} \union Wrote
          /\ place = "returned" => pc[p] = "written"
          /\ pc[p] \in Appending
    BY <2>2 DEF Wrote, Mid, Appending
  <2>4. place \in Places \ {"running"} /\ pc[p] \in Active
    BY <1>2, <2>3 DEF Appending
  <2> QED  BY <2>1, <2>3, <2>4, OneMoves
<1>6. CASE PowerLoss
  <2>1. pc' = [q \in Halts |-> IF pc[q] \in Appending THEN "killed" ELSE pc[q]]
    BY <1>6 DEF PowerLoss
  <2>2. rec' = rec /\ (torn => torn')
    BY <1>6 DEF PowerLoss
  <2>3. "killed" \notin Wrote
    BY DEF Wrote
  <2> QED  BY <1>2, <2>1, <2>2, <2>3 DEF Moves
<1>7. ASSUME NEW a \in Auditors, CountRecords(a) \/ JudgeChain(a)
      PROVE  UNCHANGED haltVars
  BY <1>7 DEF CountRecords, JudgeChain
<1> QED BY <1>1, <1>3, <1>4, <1>5, <1>6, <1>7 DEF Next, Step, vars

\* A halt comes to the log when its steps are done, and only halts that were
\* over are listed in `before`.
BeginInv ==
  /\ DOMAIN stage = Halts /\ DOMAIN todo = Halts /\ DOMAIN before = Halts
  /\ stage \in [Halts -> {"idle", "working", "raised", "killed"}]
  /\ \A p \in Halts : pc[p] # "running" => AtLog(p)
  /\ \A p \in Halts : \A q \in before[p] : q \in Halts /\ Over(q)

\* A halt ends among its steps or at the log, and is over from then on.
StaysOver ==
  /\ \A q \in Halts : Over(q) => Over(q)'
  /\ \A q \in Halts : stage[q] # "idle" => stage'[q] # "idle" /\ before'[q] = before[q]

\* One halt moves at a time, but in a power loss.
LEMMA OthersStay ==
  ASSUME FileInv, NEW p \in Halts, Step(p) \/ Raise(p) \/ Kill(p)
  PROVE  \A q \in Halts \ {p} : pc'[q] = pc[q]
<1>1. \E place : pc' = [pc EXCEPT ![p] = place]
  <2>1. CASE Step(p)
    BY <2>1 DEF Step, BuildRecord, ChainStateRaises, Lock, WriteLine,
                WriteOnTornLine, Flush, Fsync, Goto
  <2>2. CASE Raise(p) \/ Kill(p)
    BY <2>2 DEF Raise, Kill, Leave, Goto
  <2> QED  BY <2>1, <2>2
<1> QED BY <1>1 DEF FileInv, TypeOK

\* Halt p does some of its operations, or ends among them.
LEMMA WorkBegin ==
  ASSUME BeginInv, NEW p \in Halts, pc[p] = "running", UNCHANGED << pc, before >>,
         stage[p] # "idle",
         \/ stage' = stage \/ \E how \in {"raised", "killed"} :
                                stage' = [stage EXCEPT ![p] = how],
         stage[p] \notin {"raised", "killed"},
         todo' = todo \/ \E rest : todo' = [todo EXCEPT ![p] = rest]
  PROVE  BeginInv' /\ StaysOver
<1>1. \A q \in Halts \ {p} : stage'[q] = stage[q] /\ todo'[q] = todo[q]
  BY DEF BeginInv
<1>2. \A q \in Halts : AtLog(q) /\ pc[q] # "running" => AtLog(q)'
  BY <1>1 DEF AtLog
<1>3. \A q \in Halts : Over(q) => Over(q)'
  BY <1>1 DEF Over, Ended
<1> QED BY <1>1, <1>2, <1>3 DEF BeginInv, StaysOver

LEMMA BeginStep ==
  ASSUME FileInv, BeginInv, [SystemNext]_systemVars
  PROVE  BeginInv' /\ StaysOver
<1>1. \A r \in Halts : Moves(r)
  BY LogSimulated, LogMoves
<1>2. \A q \in Halts : pc[q] \in {"returned", "raised", "killed"} => pc'[q] = pc[q]
  BY <1>1 DEF Moves, Active, Appending
<1>3. CASE UNCHANGED << workVars, pc >>
  BY <1>3 DEF workVars, BeginInv, StaysOver, Over, Ended, AtLog
<1>4. ASSUME NEW p \in Halts, Begin(p) PROVE BeginInv' /\ StaysOver
  <2>1. /\ stage[p] = "idle" /\ stage' = [stage EXCEPT ![p] = "working"]
        /\ before' = [before EXCEPT ![p] = OverNow]
        /\ UNCHANGED pc
    BY <1>4 DEF Begin, vars, haltVars
  <2>2. PICK rest : todo' = [todo EXCEPT ![p] = rest]
    BY <1>4 DEF Begin
  <2>3. \A q \in Halts \ {p} : /\ stage'[q] = stage[q] /\ todo'[q] = todo[q]
                               /\ before'[q] = before[q]
    BY <2>1, <2>2 DEF BeginInv
  <2>4. pc[p] = "running" /\ before'[p] = OverNow /\ stage'[p] = "working"
    BY <2>1 DEF BeginInv, AtLog
  <2>5. \A q \in Halts : Over(q) => Over(q)'
    BY <2>1, <2>3 DEF Over, Ended
  <2>6. \A q \in Halts : pc'[q] # "running" => AtLog(q)'
    BY <2>1, <2>3, <2>4 DEF BeginInv, AtLog
  <2>7. \A q \in Halts : \A r \in before'[q] : r \in Halts /\ Over(r)
    BY <2>3, <2>4 DEF BeginInv, OverNow
  <2> QED  BY <2>1, <2>2, <2>3, <2>4, <2>5, <2>6, <2>7 DEF BeginInv, StaysOver
<1>5. ASSUME NEW p \in Halts, WithoutCommand(p) \/ Command(p) \/ KillEarly(p)
      PROVE  BeginInv' /\ StaysOver
  <2>1. stage[p] = "working" /\ todo[p] # << >>
    BY <1>5 DEF WithoutCommand, Command, KillEarly, Commands, InSteps
  <2>2. pc[p] = "running"
    BY <2>1 DEF BeginInv, AtLog
  <2>3. UNCHANGED << pc, before >>
    BY <1>5 DEF WithoutCommand, Command, KillEarly, EndEarly, vars, haltVars
  <2>4. \/ stage' = stage
        \/ \E how \in {"raised", "killed"} : stage' = [stage EXCEPT ![p] = how]
    BY <1>5 DEF WithoutCommand, Command, KillEarly, EndEarly
  <2>5. todo' = todo \/ \E rest : todo' = [todo EXCEPT ![p] = rest]
    BY <1>5 DEF WithoutCommand, Command, KillEarly, EndEarly, AllServed, Results
  <2> QED  BY <2>1, <2>2, <2>3, <2>4, <2>5, WorkBegin
<1>6. ASSUME NEW p \in Halts, LogStep(p) \/ EndAtLog(p) PROVE BeginInv' /\ StaysOver
  <2>1. /\ AtLog(p) /\ UNCHANGED workVars
        /\ \A q \in Halts \ {p} : pc'[q] = pc[q]
    BY <1>6, OthersStay DEF LogStep, EndAtLog
  <2>2. \A q \in Halts : pc'[q] # "running" => AtLog(q)
    BY <2>1 DEF BeginInv
  <2>3. \A q \in Halts : Over(q) => Over(q)'
    BY <1>2, <2>1 DEF Over, Ended, workVars
  <2> QED  BY <2>1, <2>2, <2>3 DEF BeginInv, StaysOver, AtLog, workVars
<1>7. CASE TakeEffect \/ BeginStatus \/ Query \/ OthersAct
  <2>1. UNCHANGED << stage, todo, before, pc >>
    BY <1>7 DEF TakeEffect, BeginStatus, Query, OthersAct, workVars, vars, haltVars
  <2> QED  BY <2>1 DEF BeginInv, StaysOver, Over, Ended, AtLog
<1>8. CASE HostLosesPower
  <2>1. /\ stage' = [p \in Halts |-> IF stage[p] = "working" /\ pc[p] = "running"
                                     THEN "killed" ELSE stage[p]]
        /\ UNCHANGED << todo, before >>
    BY <1>8 DEF HostLosesPower
  <2>2. pc' = [q \in Halts |-> IF pc[q] \in Appending THEN "killed" ELSE pc[q]]
    BY <1>8 DEF HostLosesPower, PowerLoss
  <2>3. \A q \in Halts : pc'[q] # "running" => pc[q] # "running"
    BY <2>2, PlacesOfHalts
  <2>4. \A q \in Halts : pc'[q] # "running" => AtLog(q)'
    BY <2>1, <2>3 DEF BeginInv, AtLog
  <2>5. \A q \in Halts : Over(q) => Over(q)'
    BY <1>2, <2>1 DEF Over, Ended
  <2> QED  BY <2>1, <2>4, <2>5 DEF BeginInv, StaysOver
<1>9. CASE UNCHANGED systemVars
  BY <1>3, <1>9 DEF systemVars, vars, haltVars
<1> QED BY <1>4, <1>5, <1>6, <1>7, <1>8, <1>9 DEF SystemNext, Proceed

LEMMA BeginInit == SystemInit => BeginInv
<1> SUFFICES ASSUME SystemInit PROVE BeginInv
  OBVIOUS
<1>1. \A p \in Halts : pc[p] = "running" /\ before[p] = {}
  BY DEF SystemInit, Init
<1> QED BY <1>1 DEF SystemInit, BeginInv

THEOREM BeginInvariant == SystemSpec => []BeginInv
BY BeginInit, BeginStep, SystemImplementsLog, FileInvariant, PTL DEF SystemSpec

\* Once two halts have overlapped they have, for ever; as long as none have,
\* at most one is appending.
LEMMA OverlapStays ==
  ASSUME FileInv, BeginInv, [SystemNext]_systemVars, Overlap
  PROVE  Overlap'
<1>1. PICK p, q \in Halts :
        /\ p # q /\ stage[p] # "idle" /\ stage[q] # "idle"
        /\ p \notin before[q] /\ q \notin before[p]
  BY DEF Overlap
<1>2. \A r \in Halts : stage[r] # "idle" => stage'[r] # "idle" /\ before'[r] = before[r]
  BY BeginStep DEF StaysOver
<1> QED BY <1>1, <1>2 DEF Overlap

LEMMA AloneUnlessOverlap == BeginInv => (~Overlap => Alone)
<1> SUFFICES ASSUME BeginInv, ~Overlap,
                    NEW p \in Halts, NEW q \in Halts, p # q,
                    pc[p] \in Appending, pc[q] \in Appending
             PROVE  FALSE
  BY DEF Alone
<1>1. stage[p] = "working" /\ stage[q] = "working"
  BY PlacesOfHalts DEF BeginInv, AtLog
<1>2. p \in before[q] \/ q \in before[p]
  BY <1>1 DEF Overlap
<1>3. Over(p) \/ Over(q)
  BY <1>2 DEF BeginInv
<1> QED BY <1>1, <1>3, PlacesOfHalts DEF Over, Ended

\* As long as no two halts overlap, from their first command to their end, the
\* log is one chain in file order.
THEOREM OneHaltAtATime == SystemSpec => []OneAtATime
<1>1. /\ TailsInv /\ TailsInv' /\ OwnInv /\ BeginInv /\ BeginInv'
      /\ (~Overlap => ChainInv) /\ [SystemNext]_systemVars
      => (~Overlap => ChainInv)'
  <2> SUFFICES ASSUME TailsInv, TailsInv', OwnInv, BeginInv, BeginInv',
                      ~Overlap => ChainInv, [SystemNext]_systemVars, ~Overlap'
               PROVE  ChainInv'
    OBVIOUS
  <2>1. ~Overlap
    BY OverlapStays DEF TailsInv
  <2>2. Alone
    BY <2>1, AloneUnlessOverlap
  <2>3. Alone'
    BY AloneUnlessOverlap, PTL
  <2> QED  BY <2>1, <2>2, <2>3, LogSimulated, ChainStep
<1>2. (~Overlap => ChainInv) => OneAtATime
  BY DEF ChainInv, OneAtATime
<1>3. SystemInit => ChainInv
  BY InitChain DEF SystemInit
<1> QED BY <1>1, <1>2, <1>3, BeginInvariant, SystemImplementsLog, TailsInvariant,
           OwnInvariant, PTL DEF SystemSpec

-----------------------------------------------------------------------------
(* The order of the log *)

SyncedKept ==
  /\ synced <= synced'
  /\ synced <= Len(lines')
  /\ \A i \in 1 .. synced : lines'[i] = lines[i]

\* Line i holds the record of q, and no line up to it the record of p.
First(q, p, i) ==
  /\ lines[i] = << rec[q] >>
  /\ pc[p] \in Wrote => \A j \in 1 .. i : lines[j] # << rec[p] >>

\* The record of a halt that was over before p began is synced, and stands
\* before that of p.
OrderInv ==
  ~torn => \A p \in Halts : \A q \in before[p] :
             pc[q] = "returned" => \E i \in 1 .. synced : First(q, p, i)

\* A record that has not been written is none of those in the file.
LEMMA UnwrittenIsNew ==
  ASSUME FileInv, OwnInv, NEW p \in Halts, pc[p] = "locked",
         NEW j \in DOMAIN lines
  PROVE  lines[j] # << rec[p] >>
<1> SUFFICES ASSUME lines[j] = << rec[p] >> PROVE FALSE
  OBVIOUS
<1>1. lines[j] # Garbled
  BY DEF Garbled
<1>2. PICK r \in Halts : /\ pc[r] \notin Early /\ lines[j] = << rec[r] >>
                         /\ rec[r].id = r
  BY <1>1 DEF OwnInv, OriginInv
<1>3. rec[p].id = p
  BY DEF OwnInv, BuiltInv, Appending
<1>4. r = p
  BY <1>2, <1>3
<1> QED BY <1>2, <1>4 DEF Early

LEMMA OrderKept ==
  ASSUME FileInv, FileInv', OwnInv, BeginInv, OrderInv, SyncedKept,
         \A r \in Halts : Moves(r), StaysOver,
         NEW p \in Halts, before'[p] = before[p]
  PROVE  ~torn' => \A q \in before[p] :
                     pc'[q] = "returned" => \E i \in 1 .. synced' : First(q, p, i)'
<1> SUFFICES ASSUME ~torn', NEW q \in before[p], pc'[q] = "returned"
             PROVE  \E i \in 1 .. synced' : First(q, p, i)'
  OBVIOUS
<1>1. q \in Halts /\ Over(q)
  BY DEF BeginInv
<1>2. pc[q] = "returned" /\ ~torn /\ rec'[q] = rec[q]
  <2>1. pc[q] # "written" \/ stage[q] \in {"raised", "killed"}
    BY <1>1 DEF Over, Ended
  <2>2. pc[q] = "written" => stage[q] = "working"
    BY <1>1 DEF BeginInv, AtLog
  <2>3. pc[q] = "returned"
    BY <1>1, <2>1, <2>2 DEF Moves
  <2> QED  BY <1>1, <2>3 DEF Moves
<1>3. PICK i \in 1 .. synced : First(q, p, i)
  BY <1>2 DEF OrderInv
<1>4. /\ i \in 1 .. synced' /\ 1 .. i \subseteq 1 .. synced
      /\ 1 .. synced \subseteq DOMAIN lines
  <2>1. synced \in Nat /\ synced <= Len(lines) /\ DOMAIN lines = 1 .. Len(lines)
        /\ Len(lines) \in Nat
    BY SequenceOf DEF FileInv, TypeOK
  <2>2. synced' \in Nat
    <3>1. lines' \in Seq(ToSet(lines')) /\ synced' \in 0 .. Len(lines')
      BY DEF FileInv, TypeOK
    <3> QED  BY <3>1, SequenceOf
  <2> QED  BY <2>1, <2>2 DEF SyncedKept
<1>5. \A j \in 1 .. i : lines'[j] = lines[j]
  BY <1>4 DEF SyncedKept
<1>6. ASSUME pc'[p] \in Wrote
      PROVE  rec'[p] = rec[p] /\ \A j \in 1 .. i : lines[j] # << rec[p] >>
  <2>1. pc[p] \in Wrote \/ pc[p] = "locked"
    BY <1>6 DEF Moves
  <2>2. rec'[p] = rec[p]
    BY <2>1 DEF Moves, Wrote
  <2>3. CASE pc[p] \in Wrote
    BY <1>3, <2>2, <2>3 DEF First
  <2>4. CASE pc[p] = "locked"
    BY <1>4, <2>2, <2>4, UnwrittenIsNew
  <2> QED  BY <2>1, <2>3, <2>4
<1>7. lines'[i] = << rec'[q] >>
  BY <1>2, <1>3, <1>5 DEF First
<1> QED BY <1>4, <1>5, <1>6, <1>7 DEF First

LEMMA OrderStep ==
  ASSUME FileInv, FileInv', OwnInv, BeginInv, OrderInv, [SystemNext]_systemVars,
         [SyncedKept]_vars
  PROVE  OrderInv'
<1>1. /\ \A r \in Halts : Moves(r)
      /\ StaysOver
  BY LogSimulated, LogMoves, BeginStep
<1>2. SyncedKept
  <2>1. CASE UNCHANGED vars
    <3>1. synced \in Nat /\ synced <= Len(lines) /\ UNCHANGED << lines, synced >>
      BY <2>1, SequenceOf DEF FileInv, TypeOK, vars, haltVars
    <3> QED  BY <3>1 DEF SyncedKept
  <2> QED  BY <2>1
<1>3. ASSUME NEW p \in Halts, stage[p] # "idle"
      PROVE  before'[p] = before[p]
  BY <1>1, <1>3 DEF StaysOver
<1>4. ASSUME NEW p \in Halts, before'[p] # before[p]
      PROVE  /\ before'[p] = OverNow /\ pc'[p] = "running"
             /\ UNCHANGED << lines, synced, torn, rec, pc >>
  <2>1. Begin(p)
    <3>1. CASE \E r \in Halts \ {p} : Begin(r)
      BY <1>4, <3>1 DEF Begin, BeginInv
    <3>2. CASE \E r \in Halts : Proceed(r) \/ KillEarly(r) \/ EndAtLog(r)
      BY <1>4, <3>2 DEF Proceed, WithoutCommand, Command, LogStep, KillEarly,
                        EndEarly, EndAtLog, workVars
    <3>3. CASE \/ TakeEffect \/ BeginStatus \/ Query \/ HostLosesPower
               \/ OthersAct
      BY <1>4, <3>3 DEF TakeEffect, BeginStatus, Query, HostLosesPower, OthersAct,
                        workVars
    <3>4. ~UNCHANGED systemVars
      BY <1>4 DEF systemVars, workVars
    <3> QED  BY <3>1, <3>2, <3>3, <3>4 DEF SystemNext
  <2>2. before'[p] = OverNow /\ stage[p] = "idle" /\ UNCHANGED vars
    BY <2>1 DEF Begin, BeginInv
  <2>3. pc[p] = "running"
    BY <2>2 DEF BeginInv, AtLog
  <2> QED  BY <2>2, <2>3 DEF vars, haltVars
<1>5. ASSUME ~torn', NEW p \in Halts, NEW q \in before'[p], pc'[q] = "returned"
      PROVE  \E i \in 1 .. synced' : First(q, p, i)'
  <2>1. CASE before'[p] = before[p]
    BY <1>1, <1>2, <1>5, <2>1, OrderKept
  <2>2. CASE before'[p] # before[p]
    <3>1. q \in Halts /\ pc[q] = "returned" /\ ~torn
      BY <1>4, <1>5, <2>2 DEF OverNow
    <3>2. PICK i \in 1 .. synced : lines[i] = << rec[q] >>
      BY <3>1 DEF OwnInv, ReturnedInv
    <3>3. pc'[p] \notin Wrote
      BY <1>4, <2>2 DEF Wrote
    <3> QED  BY <1>4, <2>2, <3>2, <3>3 DEF First
  <2> QED  BY <2>1, <2>2
<1> QED BY <1>5 DEF OrderInv

\* The log tells the order of halts that did not overlap each other, whatever
\* others ran beside them.
THEOREM LogTellsOrder == SystemSpec => []LogOrder
<1>1. SystemInit => OrderInv
  BY DEF SystemInit, OrderInv
<1>2. SyncedPrefixKept <=> [][SyncedKept]_vars
  BY PTL DEF SyncedPrefixKept, SyncedKept
<1>3. FileInv /\ OwnInv /\ OrderInv /\ ReturnedIsLogged => LogOrder
  <2> SUFFICES ASSUME FileInv, OwnInv, OrderInv, ReturnedIsLogged, ~torn,
                      NEW p \in Halts, NEW q \in Halts, q \in before[p],
                      pc[q] = "returned", pc[p] = "returned"
               PROVE  \E i, j \in DOMAIN lines :
                        i < j /\ lines[i] = << rec[q] >> /\ lines[j] = << rec[p] >>
    BY DEF LogOrder
  <2>1. PICK i \in 1 .. synced : First(q, p, i)
    BY DEF OrderInv
  <2>2. PICK j \in 1 .. synced : lines[j] = << rec[p] >>
    BY DEF ReturnedIsLogged, LoggedOnce
  <2>3. 1 .. synced \subseteq DOMAIN lines /\ synced \in Nat
    BY SequenceOf DEF FileInv, TypeOK
  <2>4. j \notin 1 .. i
    BY <2>1, <2>2 DEF First, Wrote
  <2>5. i < j
    BY <2>3, <2>4
  <2> QED  BY <2>1, <2>2, <2>3, <2>5 DEF First
<1> QED BY <1>1, <1>2, <1>3, OrderStep, BeginInvariant, SystemImplementsLog,
           SystemReturnedIsLogged, FileInvariant, OwnInvariant, SyncedStays, PTL
           DEF SystemSpec

-----------------------------------------------------------------------------
(* The work of a halt *)

\* What halt p has done to the cluster.
Deed(p, effect) == [halt |-> p, effect |-> effect]

\* Of a halt that has begun.  What is done and what is to do make up its plan;
\* since all nodes share one NetworkPolicy command, a confirmed halt is never
\* between two of the steps it makes.  Of each other command the step tells how
\* it went, and of a success the effect is there, or on its way.
Worked(p) ==
  /\ todo[p] \in Seq(ToSet(todo[p]))
  /\ Len(steps[p]) + Len(todo[p]) = Len(Plan(job[p]))
  /\ \A i \in DOMAIN todo[p] : todo[p][i] = Plan(job[p])[Len(steps[p]) + i]
  /\ job[p].backend = "kubernetes" /\ job[p].confirmed =>
       \/ Len(steps[p]) <= 2 * Size(job[p])
       \/ Len(steps[p]) >= 3 * Size(job[p])
  /\ job[p].confirmed =>
       \A i \in DOMAIN steps[p] :
         Via(job[p], i) = "run_step" =>
           /\ steps[p][i].status \in {"success", "failure"}
           /\ steps[p][i].status = "success" => Deed(p, Effect(Plan(job[p])[i])) \in Due

DoneInv ==
  \A p \in Halts : IF stage[p] = "idle" THEN steps[p] = << >> ELSE Worked(p)

\* Only confirmed halts have effects.
AskedInv ==
  /\ before \in [Halts -> SUBSET Halts]
  /\ \A e \in Due : /\ e.halt \in Halts
                    /\ stage[e.halt] # "idle" /\ job[e.halt].confirmed

LEMMA JobPlan ==
  ASSUME NEW j \in Jobs \union Asked
  PROVE  /\ Planned(ToSet(j.nodes), j) /\ j.confirmed \in BOOLEAN
         /\ Size(j) \in Nat \ {0} /\ Len(Plan(j)) \in Nat
         /\ Plan(j) \in Seq(OperationsOn(ToSet(j.nodes)))
         /\ Len(Plan(j)) = IF j.backend = "kubernetes" THEN 4 * Size(j) ELSE 3 * Size(j)
         /\ \A i \in 1 .. Len(Plan(j)) :
              /\ Plan(j)[i].via = Via(j, i)
              /\ Via(j, i) = "apply" => Plan(j)[i].operation = "isolate_network"
<1>1. PICK S : S = ToSet(j.nodes)
  OBVIOUS
<1>2. Planned(S, j) /\ j.confirmed \in BOOLEAN
  BY <1>1, JobsAssumption DEF Planned
<1>3. /\ Size(j) \in Nat \ {0} /\ Plan(j) \in Seq(OperationsOn(S))
      /\ Len(Plan(j)) = IF j.backend = "kubernetes" THEN 4 * Size(j) ELSE 3 * Size(j)
      /\ \A i \in 1 .. Len(Plan(j)) :
           /\ Plan(j)[i].via = Via(j, i)
           /\ Via(j, i) = "apply" => Plan(j)[i].operation = "isolate_network"
  BY <1>2, PlanShape
<1>4. Len(Plan(j)) \in Nat
  BY <1>3
<1> QED  BY <1>1, <1>2, <1>3, <1>4

\* The halts whose work a step leaves alone.
LEMMA WorkedStays ==
  ASSUME NEW p \in Halts, Worked(p), job'[p] = job[p], todo'[p] = todo[p],
         steps'[p] = steps[p], Due \subseteq Due'
  PROVE  Worked(p)'
BY DEF Worked

\* The n results of the next operations take their places after k steps, and
\* of the m operations the others are left.
Placed(p, new, k, n, m) ==
  /\ k \in Nat /\ n \in Nat \ {0} /\ m \in Nat /\ n <= m
  /\ DOMAIN todo[p] = 1 .. m
  /\ todo'[p] \in Seq(ToSet(todo'[p]))
  /\ Len(todo'[p]) = m - n
  /\ DOMAIN todo'[p] = 1 .. m - n
  /\ \A i \in 1 .. m - n : todo'[p][i] = todo[p][n + i]
  /\ Len(steps'[p]) = k + n
  /\ DOMAIN steps'[p] = 1 .. k + n
  /\ DOMAIN steps[p] = 1 .. k
  /\ \A i \in 1 .. k : steps'[p][i] = steps[p][i]
  /\ \A i \in 1 .. n : steps'[p][k + i] = new[i]
  /\ \A q \in Halts \ {p} : steps'[q] = steps[q] /\ todo'[q] = todo[q]

LEMMA ResultsPlaced ==
  ASSUME WorkInv, NEW p \in Halts, todo[p] \in Seq(ToSet(todo[p])),
         NEW new, new \in Seq(ToSet(new)), Len(new) \in 1 .. Len(todo[p]),
         Results(p, new)
  PROVE  Placed(p, new, Len(steps[p]), Len(new), Len(todo[p]))
<1>0. PICK k, n, m : k = Len(steps[p]) /\ n = Len(new) /\ m = Len(todo[p])
  OBVIOUS
<1>1. PICK t, t1, s, s1 : /\ t = todo[p] /\ t1 = todo'[p]
                          /\ s = steps[p] /\ s1 = steps'[p]
  OBVIOUS
<1>2. /\ t1 = SubSeq(t, n + 1, m) /\ s1 = s \o new
      /\ \A q \in Halts \ {p} : steps'[q] = steps[q] /\ todo'[q] = todo[q]
  BY <1>0, <1>1 DEF Results, WorkInv
<1>3. s \in Seq(ToSet(s)) /\ t \in Seq(ToSet(t))
  BY <1>1 DEF WorkInv
<1>4. /\ m = Len(t) /\ m \in Nat /\ DOMAIN t = 1 .. m
      /\ k = Len(s) /\ k \in Nat /\ DOMAIN s = 1 .. k
      /\ n \in Nat \ {0} /\ n <= m
  <2>1. m = Len(t) /\ m \in Nat /\ DOMAIN t = 1 .. m
    BY <1>0, <1>1, <1>3, SequenceOf
  <2>2. k = Len(s) /\ k \in Nat /\ DOMAIN s = 1 .. k
    BY <1>0, <1>1, <1>3, SequenceOf
  <2>3. n \in 1 .. m
    BY <1>0
  <2> QED  BY <2>1, <2>2, <2>3
<1>5. /\ t1 \in Seq(ToSet(t1)) /\ Len(t1) = m - n /\ DOMAIN t1 = 1 .. m - n
      /\ \A i \in 1 .. m - n : t1[i] = t[n + i]
  <2>1. PICK l \in Nat : l = m - n
    <3>1. m - n \in Nat
      BY <1>4
    <3> QED  BY <3>1
  <2>2. t1 = [i \in 1 .. l |-> t[n + i]]
    BY <1>2, <1>3, <1>4, <2>1
  <2>3. ASSUME NEW i \in 1 .. l PROVE t[n + i] \in ToSet(t)
    <3>1. n + i \in 1 .. m
      BY <1>4, <2>1, <2>3
    <3> QED  BY <1>3, <1>4, <3>1
  <2>4. t1 \in Seq(ToSet(t)) /\ Len(t1) = l /\ \A i \in 1 .. l : t1[i] = t[n + i]
    BY <2>2, <2>3
  <2>5. t1 \in Seq(ToSet(t1)) /\ DOMAIN t1 = 1 .. Len(t1)
    BY <2>4, SequenceOf
  <2> QED  BY <2>1, <2>4, <2>5
<1>6. /\ s1 \in Seq(ToSet(s1))
      /\ \A i \in DOMAIN s : s1[i] = s[i]
      /\ \A i \in 1 .. Len(new) : s1[Len(s) + i] = new[i]
  BY <1>2, <1>3, Concatenation
<1>7. Len(s1) = k + n
  BY <1>0, <1>2, <1>3, <1>4
<1>8. DOMAIN s1 = 1 .. k + n
  BY <1>6, <1>7, SequenceOf
<1>9. Placed(p, new, k, n, m)
  <2>1. \A i \in 1 .. n : s1[k + i] = new[i]
    BY <1>0, <1>4, <1>6
  <2> QED  BY <1>1, <1>2, <1>4, <1>5, <1>6, <1>7, <1>8, <2>1 DEF Placed
<1> QED  BY <1>0, <1>9

\* The part of Worked that says where steps and operations stand.
LEMMA ResultsAlign ==
  ASSUME WorkInv, NEW p \in Halts, Worked(p), job[p] \in Jobs, job'[p] = job[p],
         NEW new, new \in Seq(ToSet(new)), Len(new) \in 1 .. Len(todo[p]),
         Results(p, new)
  PROVE  /\ todo'[p] \in Seq(ToSet(todo'[p]))
         /\ Len(steps'[p]) + Len(todo'[p]) = Len(Plan(job'[p]))
         /\ \A i \in DOMAIN todo'[p] : todo'[p][i] = Plan(job'[p])[Len(steps'[p]) + i]
<1>1. PICK k, n, m, plan : /\ k = Len(steps[p]) /\ n = Len(new)
                           /\ m = Len(todo[p]) /\ plan = Plan(job[p])
  OBVIOUS
<1>2. Placed(p, new, k, n, m)
  BY <1>1, ResultsPlaced DEF Worked
<1>3. k + m = Len(plan) /\ \A i \in 1 .. m : todo[p][i] = plan[k + i]
  BY <1>1, <1>2 DEF Worked, Placed
<1>4. (k + n) + (m - n) = k + m
  BY <1>2 DEF Placed
<1>5. ASSUME NEW i \in 1 .. m - n PROVE todo'[p][i] = plan[(k + n) + i]
  <2>1. n + i \in 1 .. m /\ k + (n + i) = (k + n) + i
    BY <1>2, <1>5 DEF Placed
  <2> QED  BY <1>2, <1>3, <1>5, <2>1 DEF Placed
<1> QED  BY <1>1, <1>2, <1>3, <1>4, <1>5 DEF Placed

\* The next operations are done, and the results are as Worked asks.
LEMMA ResultsWork ==
  ASSUME WorkInv, NEW p \in Halts, Worked(p), job[p] \in Jobs, job'[p] = job[p],
         Due \subseteq Due', NEW new, new \in Seq(ToSet(new)),
         Len(new) \in 1 .. Len(todo[p]), Results(p, new),
         NEW k, k = Len(steps[p]),
         job[p].backend = "kubernetes" /\ job[p].confirmed =>
           k + Len(new) <= 2 * Size(job[p]) \/ k + Len(new) >= 3 * Size(job[p]),
         job[p].confirmed =>
           \A i \in 1 .. Len(new) :
             Via(job[p], k + i) = "run_step" =>
               /\ new[i].status \in {"success", "failure"}
               /\ new[i].status = "success" => Deed(p, Effect(Plan(job[p])[k + i])) \in Due'
  PROVE  Worked(p)'
<1>1. PICK n, m : n = Len(new) /\ m = Len(todo[p])
  OBVIOUS
<1>2. Placed(p, new, k, n, m)
  BY <1>1, ResultsPlaced DEF Worked
<1>3. /\ todo'[p] \in Seq(ToSet(todo'[p]))
      /\ Len(steps'[p]) + Len(todo'[p]) = Len(Plan(job'[p]))
      /\ \A i \in DOMAIN todo'[p] : todo'[p][i] = Plan(job'[p])[Len(steps'[p]) + i]
  BY ResultsAlign
<1>4. Len(steps'[p]) = k + n /\ DOMAIN steps'[p] = 1 .. k + n /\ k \in Nat /\ n \in Nat
  BY <1>2 DEF Placed
<1>5. ASSUME job[p].confirmed, NEW i \in 1 .. k + n, Via(job[p], i) = "run_step"
      PROVE  /\ steps'[p][i].status \in {"success", "failure"}
             /\ steps'[p][i].status = "success" =>
                  Deed(p, Effect(Plan(job[p])[i])) \in Due'
  <2>1. CASE i \in 1 .. k
    <3>1. i \in DOMAIN steps[p] /\ steps'[p][i] = steps[p][i]
      BY <1>2, <2>1 DEF Placed
    <3>2. /\ steps[p][i].status \in {"success", "failure"}
          /\ steps[p][i].status = "success" => Deed(p, Effect(Plan(job[p])[i])) \in Due
      BY <1>5, <3>1 DEF Worked
    <3> QED  BY <3>1, <3>2
  <2>2. CASE i \notin 1 .. k
    <3>1. PICK l \in 1 .. n : i = k + l
      <4>1. i - k \in 1 .. n /\ i = k + (i - k)
        BY <1>4, <1>5, <2>2
      <4> QED  BY <4>1
    <3>2. steps'[p][i] = new[l]
      BY <1>2, <3>1 DEF Placed
    <3> QED  BY <1>1, <1>5, <3>1, <3>2
  <2> QED  BY <2>1, <2>2
<1>6. job[p].backend = "kubernetes" /\ job[p].confirmed =>
        Len(steps'[p]) <= 2 * Size(job[p]) \/ Len(steps'[p]) >= 3 * Size(job[p])
  BY <1>1, <1>4
<1> QED  BY <1>3, <1>4, <1>5, <1>6 DEF Worked

\* How the operation to do next is done.
LEMMA NextVia ==
  ASSUME WorkInv, NEW p \in Halts, Worked(p), job[p] \in Jobs,
         NEW i \in 1 .. Len(todo[p])
  PROVE  /\ Len(steps[p]) \in Nat /\ Len(todo[p]) \in Nat
         /\ Len(steps[p]) + i \in 1 .. Len(Plan(job[p]))
         /\ todo[p][i] = Plan(job[p])[Len(steps[p]) + i]
         /\ todo[p][i].via = Via(job[p], Len(steps[p]) + i)
<1>1. PICK k, m, l : k = Len(steps[p]) /\ m = Len(todo[p]) /\ l = Len(Plan(job[p]))
  OBVIOUS
<1>2. k \in Nat /\ m \in Nat /\ DOMAIN todo[p] = 1 .. m /\ l \in Nat
  <2>1. steps[p] \in Seq(ToSet(steps[p])) /\ todo[p] \in Seq(ToSet(todo[p]))
    BY DEF WorkInv, Worked
  <2> QED  BY <1>1, <2>1, SequenceOf, JobPlan
<1>3. k + m = l /\ todo[p][i] = Plan(job[p])[k + i]
  BY <1>1, <1>2 DEF Worked
<1>4. k + i \in 1 .. l
  <2>1. i \in 1 .. m /\ k \in Nat /\ m \in Nat /\ k + m = l
    BY <1>1, <1>2, <1>3
  <2> QED  BY <2>1
<1> QED  BY <1>1, <1>2, <1>3, <1>4, JobPlan

\* Where the ways to do an operation stand in a plan.
LEMMA Stretches ==
  ASSUME NEW j \in Jobs, NEW i \in 1 .. Len(Plan(j)), NEW n, n = Size(j)
  PROVE  /\ n \in Nat \ {0} /\ i \in Nat
         /\ Via(j, i) \in {"run_step", "apply", "skipped"}
         /\ Via(j, i) = "apply" =>
              /\ j.backend = "kubernetes" /\ 2 * n < i /\ i <= 3 * n
              /\ Len(Plan(j)) = 4 * n
         /\ j.backend = "kubernetes" /\ Via(j, i) = "run_step" => i <= 2 * n
         /\ j.backend = "kubernetes" /\ Via(j, i) = "skipped" => 3 * n < i
<1>1. /\ n \in Nat \ {0} /\ i \in Nat \ {0}
      /\ j.backend = "kubernetes" => Len(Plan(j)) = 4 * n
  <2>1. /\ Size(j) \in Nat \ {0} /\ Len(Plan(j)) \in Nat
        /\ j.backend = "kubernetes" => Len(Plan(j)) = 4 * Size(j)
    BY JobPlan
  <2> QED  BY <2>1
<1>2. CASE j.backend = "kubernetes"
  <2>1. Via(j, i) = IF 2 * n < i /\ i <= 3 * n THEN "apply"
                    ELSE IF 1 <= i /\ i <= 2 * n + 1 THEN "run_step" ELSE "skipped"
    BY <1>2 DEF Via, FirstRun, FinalRun
  <2> QED  BY <1>1, <1>2, <2>1
<1>3. CASE j.backend # "kubernetes"
  BY <1>1, <1>3 DEF Via
<1> QED  BY <1>2, <1>3

LEMMA WithoutCommandWorks ==
  ASSUME WorkInv, NEW p \in Halts, Worked(p), job[p] \in Jobs, WithoutCommand(p)
  PROVE  /\ Worked(p)'
         /\ \A q \in Halts \ {p} : steps'[q] = steps[q] /\ todo'[q] = todo[q]
         /\ \A i \in DOMAIN steps[p] : /\ i \in DOMAIN steps'[p]
                                       /\ steps'[p][i] = steps[p][i]
<1>1. PICK n \in 1 .. Len(todo[p]) :
        /\ \A i \in 1 .. n : ~Runs(p, todo[p][i])
        /\ Results(p, [i \in 1 .. n |->
                      StepResult(todo[p][i],
                                 IF todo[p][i].via = "skipped" THEN "skipped"
                                 ELSE "planned")])
  BY DEF WithoutCommand
<1>2. PICK new : new = [i \in 1 .. n |->
                          StepResult(todo[p][i],
                                     IF todo[p][i].via = "skipped" THEN "skipped"
                                     ELSE "planned")]
  OBVIOUS
<1>3. PICK k, m : k = Len(steps[p]) /\ m = Len(todo[p])
  OBVIOUS
<1>4. n \in Nat \ {0} /\ n <= m /\ k \in Nat /\ m \in Nat
  <2>1. todo[p] \in Seq(ToSet(todo[p])) /\ steps[p] \in Seq(ToSet(steps[p]))
    BY DEF Worked, WorkInv
  <2>2. k \in Nat /\ m \in Nat
    BY <1>3, <2>1, SequenceOf
  <2> QED  BY <1>3, <2>2
<1>5. new \in Seq(ToSet(new)) /\ Len(new) = n
  BY <1>2, <1>4 DEF ToSet
<1>6. Results(p, new)
  BY <1>1, <1>2
<1>7. job'[p] = job[p] /\ Due \subseteq Due'
  BY DEF WithoutCommand, Due
<1>8. ASSUME job[p].confirmed, NEW i \in 1 .. n
      PROVE  /\ Via(job[p], k + i) = "skipped"
             /\ k + i \in 1 .. Len(Plan(job[p]))
  <2>1. i \in 1 .. m
    BY <1>4
  <2>2. /\ todo[p][i].via = Via(job[p], k + i)
        /\ k + i \in 1 .. Len(Plan(job[p]))
    BY <1>3, <2>1, NextVia
  <2> QED  BY <1>1, <1>8, <2>2 DEF Runs
<1>9. job[p].backend = "kubernetes" /\ job[p].confirmed =>
        k + n <= 2 * Size(job[p]) \/ k + n >= 3 * Size(job[p])
  <2> SUFFICES ASSUME job[p].backend = "kubernetes", job[p].confirmed
               PROVE  k + n >= 3 * Size(job[p])
    OBVIOUS
  <2>1. n \in 1 .. n
    BY <1>4
  <2>2. PICK i, s : i = k + n /\ s = Size(job[p])
    OBVIOUS
  <2>3. Via(job[p], i) = "skipped" /\ i \in 1 .. Len(Plan(job[p]))
    BY <1>8, <2>1, <2>2
  <2>4. s \in Nat /\ i \in Nat /\ 3 * s < i
    BY <2>2, <2>3, Stretches
  <2> QED  BY <2>2, <2>4
<1>10. Worked(p)'
  BY <1>3, <1>4, <1>5, <1>6, <1>7, <1>8, <1>9, ResultsWork
<1>11. Placed(p, new, k, n, m)
  BY <1>3, <1>4, <1>5, <1>6, ResultsPlaced DEF Worked
<1> QED  BY <1>10, <1>11 DEF Placed

\* Halt p runs a command and notes its outcome, and owns up to its effect.
LEMMA CommandWorks ==
  ASSUME WorkInv, NEW p \in Halts, Worked(p), job[p] \in Jobs, Commands(p),
         NEW o \in Outcomes, o[1] # "raises", Strike(p, o[2]), AllServed(p, o[1]),
         job'[p] = job[p]
  PROVE  /\ Worked(p)'
         /\ \A q \in Halts \ {p} : steps'[q] = steps[q] /\ todo'[q] = todo[q]
         /\ \A i \in DOMAIN steps[p] : /\ i \in DOMAIN steps'[p]
                                       /\ steps'[p][i] = steps[p][i]
         /\ OwnsUp(steps'[p], Plan(job[p]), Effect(todo[p][1]))
<1>1. PICK k, m, s : k = Len(steps[p]) /\ m = Len(todo[p]) /\ s = Size(job[p])
  OBVIOUS
<1>2. todo[p] # << >> /\ job[p].confirmed /\ todo[p][1].via # "skipped"
  BY DEF Commands, InSteps, Runs
<1>3. k \in Nat /\ m \in Nat \ {0}
  <2>1. steps[p] \in Seq(ToSet(steps[p])) /\ todo[p] \in Seq(ToSet(todo[p]))
    BY DEF WorkInv, Worked
  <2>2. k \in Nat /\ m \in Nat
    BY <1>1, <2>1, SequenceOf
  <2>3. m # 0
    BY <1>1, <1>2, <2>1, EmptySeq
  <2> QED  BY <2>2, <2>3
<1>4. /\ k + 1 \in 1 .. Len(Plan(job[p]))
      /\ todo[p][1] = Plan(job[p])[k + 1]
      /\ todo[p][1].via = Via(job[p], k + 1)
  <2>1. 1 \in 1 .. Len(todo[p])
    BY <1>1, <1>3
  <2> QED  BY <1>1, <2>1, NextVia
<1>5. /\ s \in Nat \ {0}
      /\ \/ Via(job[p], k + 1) = "run_step"
         \/ /\ Via(job[p], k + 1) = "apply" /\ job[p].backend = "kubernetes"
            /\ 2 * s < k + 1 /\ k + 1 <= 3 * s /\ Len(Plan(job[p])) = 4 * s
      /\ job[p].backend = "kubernetes" /\ Via(job[p], k + 1) = "run_step"
           => k + 1 <= 2 * s
  <2>1. PICK i : i = k + 1
    OBVIOUS
  <2>2. i \in 1 .. Len(Plan(job[p])) /\ Via(job[p], i) # "skipped"
    BY <1>2, <1>4, <2>1
  <2>3. /\ s \in Nat \ {0} /\ Via(job[p], i) \in {"run_step", "apply", "skipped"}
        /\ Via(job[p], i) = "apply" =>
             /\ job[p].backend = "kubernetes" /\ 2 * s < i /\ i <= 3 * s
             /\ Len(Plan(job[p])) = 4 * s
        /\ job[p].backend = "kubernetes" /\ Via(job[p], i) = "run_step" => i <= 2 * s
    BY <1>1, <2>2, Stretches
  <2> QED  BY <2>1, <2>2, <2>3
<1>6. PICK n : n = Served(p)
  OBVIOUS
<1>7. \/ /\ n = 1 /\ Via(job[p], k + 1) = "run_step"
      \/ /\ n = s /\ k = 2 * s /\ m = 2 * s /\ job[p].backend = "kubernetes"
         /\ \A i \in 1 .. n : Via(job[p], k + i) # "run_step"
  <2>1. CASE Via(job[p], k + 1) = "run_step"
    BY <1>4, <1>6, <2>1 DEF Served
  <2>2. CASE Via(job[p], k + 1) # "run_step"
    <3>1. /\ Via(job[p], k + 1) = "apply" /\ job[p].backend = "kubernetes"
          /\ 2 * s < k + 1 /\ k + 1 <= 3 * s /\ Len(Plan(job[p])) = 4 * s
      BY <1>5, <2>2
    <3>2. k <= 2 * s \/ k >= 3 * s
      BY <1>1, <1>2, <3>1 DEF Worked
    <3>3. k = 2 * s
      BY <1>3, <1>5, <3>1, <3>2
    <3>4. k + m = 4 * s
      BY <1>1, <3>1 DEF Worked
    <3>5. m = 2 * s
      BY <1>3, <1>5, <3>3, <3>4
    <3>6. n = s
      BY <1>1, <1>4, <1>6, <3>1 DEF Served, Size
    <3>7. ASSUME NEW i \in 1 .. n PROVE Via(job[p], k + i) # "run_step"
      <4>1. 2 * s < k + i /\ k + i <= 3 * s
        BY <1>3, <1>5, <3>3, <3>6, <3>7
      <4> QED  BY <1>1, <3>1, <4>1 DEF Via
    <3> QED  BY <3>1, <3>3, <3>5, <3>6, <3>7
  <2> QED  BY <2>1, <2>2
<1>8. n \in 1 .. m
  BY <1>3, <1>5, <1>7
<1>9. PICK new : new = [i \in 1 .. n |-> StepResult(todo[p][i], o[1])]
  OBVIOUS
<1>10. new \in Seq(ToSet(new)) /\ Len(new) = n /\ Results(p, new)
  <2>1. n \in Nat
    BY <1>3, <1>8
  <2>2. new \in Seq(ToSet(new)) /\ Len(new) = n
    BY <1>9, <2>1 DEF ToSet
  <2>3. Results(p, new)
    BY <1>6, <1>9 DEF AllServed
  <2> QED  BY <2>2, <2>3
<1>11. Due \subseteq Due' /\ (o[2] \in {"now", "later"} => Pending(p) \in Due')
  BY DEF Strike, Due
<1>12. o[1] \in {"success", "failure"} /\ (o[1] = "success" => o[2] \in {"now", "later"})
  BY DEF Outcomes
<1>13. ASSUME NEW i \in 1 .. n, Via(job[p], k + i) = "run_step"
       PROVE  /\ new[i].status \in {"success", "failure"}
              /\ new[i].status = "success" => Deed(p, Effect(Plan(job[p])[k + i])) \in Due'
  <2>1. i = 1
    BY <1>7, <1>13
  <2>2. new[i].status = o[1]
    BY <1>9, <1>13 DEF StepResult
  <2>3. Pending(p) = Deed(p, Effect(Plan(job[p])[k + i]))
    BY <1>4, <2>1 DEF Pending, Deed
  <2> QED  BY <1>11, <1>12, <2>2, <2>3
<1>14. job[p].backend = "kubernetes" /\ job[p].confirmed =>
         k + n <= 2 * s \/ k + n >= 3 * s
  BY <1>3, <1>5, <1>7
<1>15. Worked(p)'
  BY <1>1, <1>8, <1>10, <1>11, <1>13, <1>14, ResultsWork
<1>16. Placed(p, new, k, n, m)
  BY <1>1, <1>8, <1>10, ResultsPlaced DEF Worked
<1>17. OwnsUp(steps'[p], Plan(job[p]), Effect(todo[p][1]))
  <2>1. 1 \in 1 .. n /\ k + 1 \in 1 .. k + n
    BY <1>3, <1>8
  <2>2. steps'[p][k + 1] = StepResult(Plan(job[p])[k + 1], o[1])
    BY <1>4, <1>9, <1>16, <2>1 DEF Placed
  <2>3. k + 1 \in DOMAIN steps'[p] \intersect DOMAIN Plan(job[p])
    <3>1. PICK plan : plan = Plan(job[p])
      OBVIOUS
    <3>2. plan \in Seq(OperationsOn(ToSet(job[p].nodes)))
      BY <3>1, JobPlan
    <3> QED  BY <1>4, <1>16, <2>1, <3>1, <3>2 DEF Placed
  <2> QED  BY <1>4, <1>12, <2>2, <2>3 DEF OwnsUp
<1> QED  BY <1>15, <1>16, <1>17 DEF Placed

\* The halts a step does not touch, and those whose effects come late.
LEMMA DoneStays ==
  ASSUME DoneInv, Due \subseteq Due', NEW P, P \subseteq Halts,
         \A q \in P : /\ job'[q] = job[q] /\ todo'[q] = todo[q] /\ steps'[q] = steps[q]
                      /\ stage[q] = "idle" <=> stage'[q] = "idle"
  PROVE  \A q \in P : IF stage'[q] = "idle" THEN steps'[q] = << >> ELSE Worked(q)'
<1> SUFFICES ASSUME NEW q \in P
             PROVE  IF stage'[q] = "idle" THEN steps'[q] = << >> ELSE Worked(q)'
  OBVIOUS
<1>1. q \in Halts
  OBVIOUS
<1> QED  BY <1>1, WorkedStays DEF DoneInv

LEMMA DoneStep ==
  ASSUME WorkInv, BeginInv, DoneInv, [SystemNext]_systemVars
  PROVE  DoneInv' /\ Due \subseteq Due'
<1>1. ASSUME UNCHANGED << stage, job, todo, steps >>, Due \subseteq Due'
      PROVE  DoneInv'
  BY <1>1, DoneStays DEF DoneInv
<1>2. CASE UNCHANGED << stage, job, todo, steps, effects, late >>
  BY <1>1, <1>2 DEF Due
<1>3. ASSUME NEW p \in Halts, Begin(p) PROVE DoneInv' /\ Due \subseteq Due'
  <2>1. PICK j \in Jobs : /\ job' = [job EXCEPT ![p] = j]
                          /\ todo' = [todo EXCEPT ![p] = HaltPlan(j.backend, j.nodes)]
    BY <1>3 DEF Begin
  <2>2. /\ stage' = [stage EXCEPT ![p] = "working"] /\ stage[p] = "idle"
        /\ UNCHANGED << steps, effects, late >>
    BY <1>3 DEF Begin
  <2>3. Due' = Due
    BY <2>2 DEF Due
  <2>4. \A q \in Halts \ {p} :
          IF stage'[q] = "idle" THEN steps'[q] = << >> ELSE Worked(q)'
    <3>1. \A q \in Halts \ {p} :
            /\ job'[q] = job[q] /\ todo'[q] = todo[q] /\ steps'[q] = steps[q]
            /\ stage'[q] = stage[q]
      BY <2>1, <2>2 DEF WorkInv
    <3>2. PICK P : P = Halts \ {p}
      OBVIOUS
    <3>3. /\ P \subseteq Halts /\ Due \subseteq Due'
          /\ \A q \in P : /\ job'[q] = job[q] /\ todo'[q] = todo[q] /\ steps'[q] = steps[q]
                          /\ stage[q] = "idle" <=> stage'[q] = "idle"
      BY <2>3, <3>1, <3>2
    <3> QED  BY <3>2, <3>3, DoneStays
  <2>5. stage'[p] = "working" /\ Worked(p)'
    <3>1. stage'[p] = "working" /\ job'[p] = j /\ todo'[p] = Plan(j) /\ steps'[p] = << >>
      BY <2>1, <2>2 DEF WorkInv, DoneInv, Plan
    <3>2. PICK plan : plan = Plan(j)
      OBVIOUS
    <3>3. plan \in Seq(ToSet(plan)) /\ Len(plan) \in Nat
      <4>1. plan \in Seq(OperationsOn(ToSet(j.nodes)))
        BY <3>2, JobPlan
      <4> QED  BY <4>1, SequenceOf
    <3>4. DOMAIN plan = 1 .. Len(plan) /\ Len(steps'[p]) = 0 /\ DOMAIN steps'[p] = {}
      BY <3>1, <3>3, SequenceOf
    <3>5. Size(j) \in Nat
      BY JobPlan
    <3> QED  BY <3>1, <3>2, <3>3, <3>4, <3>5 DEF Worked
  <2> QED  BY <2>3, <2>4, <2>5 DEF DoneInv
<1>4. ASSUME NEW p \in Halts, stage[p] # "idle", stage'[p] # "idle",
             \A q \in Halts \ {p} : stage'[q] = stage[q] /\ steps'[q] = steps[q]
                                                        /\ todo'[q] = todo[q],
             job' = job, Due \subseteq Due', Worked(p)'
      PROVE  DoneInv'
  <2>1. PICK P : P = Halts \ {p}
    OBVIOUS
  <2>2. /\ P \subseteq Halts
        /\ \A q \in P : /\ job'[q] = job[q] /\ todo'[q] = todo[q] /\ steps'[q] = steps[q]
                        /\ stage[q] = "idle" <=> stage'[q] = "idle"
    BY <1>4, <2>1
  <2>3. \A q \in P : IF stage'[q] = "idle" THEN steps'[q] = << >> ELSE Worked(q)'
    BY <1>4, <2>2, DoneStays
  <2> QED  BY <1>4, <2>1, <2>3 DEF DoneInv
<1>5. ASSUME NEW p \in Halts, WithoutCommand(p)
      PROVE  DoneInv' /\ Due \subseteq Due'
  <2>1. stage[p] = "working" /\ UNCHANGED << stage, job, effects, late >>
    BY <1>5 DEF WithoutCommand, InSteps
  <2>2. Worked(p) /\ job[p] \in Jobs
    BY <2>1 DEF DoneInv, WorkInv
  <2>3. /\ Worked(p)'
        /\ \A q \in Halts \ {p} : steps'[q] = steps[q] /\ todo'[q] = todo[q]
    BY <1>5, <2>2, WithoutCommandWorks
  <2>4. Due \subseteq Due'
    BY <2>1 DEF Due
  <2> QED  BY <1>4, <2>1, <2>3, <2>4
<1>6. ASSUME NEW p \in Halts, NEW when, Strike(p, when), stage[p] # "idle",
             NEW how \in {"raised", "killed"}, EndEarly(p, how)
      PROVE  DoneInv' /\ Due \subseteq Due'
  <2>1. Due \subseteq Due'
    BY <1>6 DEF Strike, Due
  <2>2. stage' = [stage EXCEPT ![p] = how] /\ UNCHANGED << job, todo, steps >>
    BY <1>6 DEF EndEarly
  <2>3. \A q \in Halts : stage[q] = "idle" <=> stage'[q] = "idle"
    BY <1>6, <2>2 DEF WorkInv
  <2>4. \A q \in Halts :
          /\ job'[q] = job[q] /\ todo'[q] = todo[q] /\ steps'[q] = steps[q]
          /\ stage[q] = "idle" <=> stage'[q] = "idle"
    BY <2>2, <2>3
  <2> QED  BY <2>1, <2>4, DoneStays DEF DoneInv
<1>7. ASSUME NEW p \in Halts, Command(p)
      PROVE  DoneInv' /\ Due \subseteq Due'
  <2>1. PICK o \in Outcomes :
          /\ Strike(p, o[2])
          /\ IF o[1] = "raises" THEN EndEarly(p, "raised")
             ELSE /\ AllServed(p, o[1])
                  /\ UNCHANGED << vars, stage, job, before, watch, others >>
    BY <1>7 DEF Command
  <2>2. Commands(p) /\ stage[p] = "working"
    BY <1>7 DEF Command, Commands, InSteps
  <2>3. CASE o[1] = "raises"
    BY <1>6, <2>1, <2>2, <2>3
  <2>4. CASE o[1] # "raises"
    <3>1. UNCHANGED << stage, job >> /\ AllServed(p, o[1])
      BY <2>1, <2>4
    <3>2. Worked(p) /\ job[p] \in Jobs
      BY <2>2 DEF DoneInv, WorkInv
    <3>3. /\ Worked(p)'
          /\ \A q \in Halts \ {p} : steps'[q] = steps[q] /\ todo'[q] = todo[q]
      BY <2>1, <2>2, <2>4, <3>1, <3>2, CommandWorks
    <3>4. Due \subseteq Due'
      BY <2>1 DEF Strike, Due
    <3> QED  BY <1>4, <2>2, <3>1, <3>3, <3>4
  <2> QED  BY <2>3, <2>4
<1>8. ASSUME NEW p \in Halts, KillEarly(p)
      PROVE  DoneInv' /\ Due \subseteq Due'
  <2>1. PICK when : Strike(p, when)
    BY <1>8 DEF KillEarly
  <2>2. stage[p] # "idle" /\ EndEarly(p, "killed")
    BY <1>8 DEF KillEarly, InSteps
  <2> QED  BY <1>6, <2>1, <2>2
<1>9. CASE TakeEffect
  <2>1. Due \subseteq Due' /\ UNCHANGED << stage, job, todo, steps >>
    BY <1>9 DEF TakeEffect, Due
  <2> QED  BY <1>1, <2>1
<1>10. CASE HostLosesPower
  <2>1. /\ stage' = [p \in Halts |-> IF stage[p] = "working" /\ pc[p] = "running"
                                     THEN "killed" ELSE stage[p]]
        /\ UNCHANGED << job, todo, steps, effects, late >>
    BY <1>10 DEF HostLosesPower
  <2>2. Due \subseteq Due'
    BY <2>1 DEF Due
  <2>3. \A q \in Halts :
          /\ job'[q] = job[q] /\ todo'[q] = todo[q] /\ steps'[q] = steps[q]
          /\ stage[q] = "idle" <=> stage'[q] = "idle"
    BY <2>1
  <2> QED  BY <2>2, <2>3, DoneStays DEF DoneInv
<1>11. CASE \/ UNCHANGED systemVars \/ BeginStatus \/ Query \/ OthersAct
            \/ \E p \in Halts : LogStep(p) \/ EndAtLog(p)
  BY <1>2, <1>11 DEF systemVars, workVars, BeginStatus, Query, OthersAct, LogStep,
                     EndAtLog
<1> QED  BY <1>3, <1>5, <1>7, <1>8, <1>9, <1>10, <1>11 DEF SystemNext, Proceed

\* An effect is one of a halt that has begun and is confirmed.
LEMMA AskedStep ==
  ASSUME WorkInv, AskedInv, [SystemNext]_systemVars
  PROVE  AskedInv'
<1>1. \A e \in Due : e.halt \in Halts /\ stage[e.halt] # "idle" /\ job[e.halt].confirmed
  BY DEF AskedInv
<1>2. ASSUME UNCHANGED << before, job >>,
             Due' \subseteq Due,
             \A q \in Halts : stage[q] # "idle" => stage'[q] # "idle"
      PROVE  AskedInv'
  BY <1>1, <1>2 DEF AskedInv
<1>3. ASSUME NEW p \in Halts, Begin(p) PROVE AskedInv'
  <2>1. PICK j : job' = [job EXCEPT ![p] = j]
    BY <1>3 DEF Begin
  <2>2. /\ stage' = [stage EXCEPT ![p] = "working"] /\ stage[p] = "idle"
        /\ before' = [before EXCEPT ![p] = OverNow]
        /\ UNCHANGED << effects, late >>
    BY <1>3 DEF Begin
  <2>3. before' \in [Halts -> SUBSET Halts]
    BY <2>2 DEF AskedInv, OverNow
  <2>4. \A q \in Halts \ {p} : stage'[q] = stage[q] /\ job'[q] = job[q]
    BY <2>1, <2>2 DEF WorkInv
  <2>5. \A e \in Due' :
          e.halt \in Halts /\ stage'[e.halt] # "idle" /\ job'[e.halt].confirmed
    BY <1>1, <2>2, <2>4 DEF Due
  <2> QED  BY <2>2, <2>3, <2>5 DEF AskedInv
<1>4. ASSUME NEW p \in Halts, NEW when, Strike(p, when), stage[p] # "idle",
             when \in {"now", "later"} => job[p].confirmed,
             UNCHANGED << before, job >>,
             \A q \in Halts : stage[q] # "idle" => stage'[q] # "idle"
      PROVE  AskedInv'
  <2>1. \A e \in Due' :
          \/ e \in Due
          \/ e = Pending(p) /\ when \in {"now", "later"}
    BY <1>4 DEF Strike, Due
  <2>2. Pending(p).halt = p
    BY DEF Pending
  <2>3. ASSUME NEW e \in Due'
        PROVE  e.halt \in Halts /\ stage'[e.halt] # "idle" /\ job'[e.halt].confirmed
    BY <1>1, <1>4, <2>1, <2>2
  <2> QED  BY <1>4, <2>3 DEF AskedInv
<1>5. ASSUME NEW p \in Halts, Command(p) PROVE AskedInv'
  <2>1. PICK when : Strike(p, when)
    BY <1>5 DEF Command
  <2>2. stage[p] # "idle" /\ job[p].confirmed
    BY <1>5 DEF Command, Commands, InSteps, Runs
  <2>3. UNCHANGED << before, job >>
    BY <1>5 DEF Command, EndEarly
  <2>4. stage' = stage \/ stage' = [stage EXCEPT ![p] = "raised"]
    BY <1>5 DEF Command, EndEarly
  <2>5. \A q \in Halts : stage[q] # "idle" => stage'[q] # "idle"
    BY <2>4 DEF WorkInv
  <2> QED  BY <1>4, <2>1, <2>2, <2>3, <2>5
<1>6. ASSUME NEW p \in Halts, KillEarly(p) PROVE AskedInv'
  <2>1. PICK when \in IF Commands(p) THEN {"never", "now", "later"} ELSE {"never"} :
          Strike(p, when)
    BY <1>6 DEF KillEarly
  <2>2. when \in {"now", "later"} => job[p].confirmed
    BY <2>1 DEF Commands, Runs
  <2>3. stage[p] # "idle" /\ UNCHANGED << before, job >>
    BY <1>6 DEF KillEarly, InSteps, EndEarly
  <2>4. stage' = [stage EXCEPT ![p] = "killed"]
    BY <1>6 DEF KillEarly, EndEarly
  <2>5. \A q \in Halts : stage[q] # "idle" => stage'[q] # "idle"
    BY <2>4 DEF WorkInv
  <2> QED  BY <1>4, <2>1, <2>2, <2>3, <2>5
<1>7. CASE TakeEffect
  BY <1>2, <1>7 DEF TakeEffect, Due
<1>8. CASE HostLosesPower
  <2>1. /\ stage' = [p \in Halts |-> IF stage[p] = "working" /\ pc[p] = "running"
                                     THEN "killed" ELSE stage[p]]
        /\ UNCHANGED << job, before, effects, late >>
    BY <1>8 DEF HostLosesPower
  <2>2. \A q \in Halts : stage[q] # "idle" => stage'[q] # "idle"
    BY <2>1
  <2> QED  BY <1>2, <2>1, <2>2 DEF Due
<1>9. CASE \/ UNCHANGED systemVars \/ BeginStatus \/ Query \/ OthersAct
           \/ \E p \in Halts : WithoutCommand(p) \/ LogStep(p) \/ EndAtLog(p)
  <2>1. UNCHANGED << stage, job, before, effects, late >>
    BY <1>9 DEF systemVars, workVars, BeginStatus, Query, OthersAct,
                WithoutCommand, LogStep, EndAtLog
  <2> QED  BY <1>2, <2>1 DEF Due
<1> QED  BY <1>3, <1>5, <1>6, <1>7, <1>8, <1>9 DEF SystemNext, Proceed

LEMMA DoneInit == SystemInit => DoneInv /\ AskedInv
BY DEF SystemInit, DoneInv, AskedInv, Due

\* What a halt that is at work or has ended has done.
THEOREM DoneInvariant == SystemSpec => [](DoneInv /\ AskedInv)
BY DoneInit, DoneStep, AskedStep, WorkInvariant, BeginInvariant, PTL DEF SystemSpec

\* The types, that a halt comes to the log when its steps are done, and that
\* only confirmed halts have effects.
THEOREM SystemTypeCorrect == SystemSpec => []SystemTypeOK
<1>1. TypeOK /\ WorkInv /\ BeginInv /\ AskedInv => SystemTypeOK
  BY DEF WorkInv, BeginInv, AskedInv, SystemTypeOK
<1> QED  BY <1>1, SystemImplementsLog, TypeCorrect, WorkInvariant, BeginInvariant,
            DoneInvariant, PTL

-----------------------------------------------------------------------------
(* What is on record *)

\* What has been done is part of the plan of the halt that did it, and a halt
\* that has not been cut short among its steps owns up to it.
Traced(e) ==
  /\ \E i \in 1 .. Len(Plan(job[e.halt])) : Effect(Plan(job[e.halt])[i]) = e.effect
  /\ \/ stage[e.halt] \in {"raised", "killed"}
     \/ OwnsUp(steps[e.halt], Plan(job[e.halt]), e.effect)

TracedInv == \A e \in Due : Traced(e)

\* What a step must leave of halt q for this.
Kept(q) ==
  /\ job'[q] = job[q]
  /\ stage[q] \in {"raised", "killed"} => stage'[q] \in {"raised", "killed"}
  /\ \A i \in DOMAIN steps[q] : i \in DOMAIN steps'[q] /\ steps'[q][i] = steps[q][i]

LEMMA TracedStays ==
  ASSUME NEW e, Traced(e), Kept(e.halt)
  PROVE  Traced(e)'
<1>1. PICK q : q = e.halt
  OBVIOUS
<1>2. PICK plan : plan = Plan(job[q]) /\ plan = Plan(job'[q])
  BY <1>1 DEF Kept
<1>3. OwnsUp(steps[q], plan, e.effect) => OwnsUp(steps'[q], plan, e.effect)
  BY <1>1 DEF OwnsUp, Kept
<1> QED  BY <1>1, <1>2, <1>3 DEF Traced, Kept

LEMMA TracedGrows ==
  ASSUME AskedInv, TracedInv, Due' = Due,
         \A q \in Halts : stage[q] # "idle" => Kept(q)
  PROVE  TracedInv'
<1>1. \A e \in Due : Traced(e)'
  BY TracedStays DEF AskedInv, TracedInv
<1> QED  BY <1>1 DEF TracedInv

\* The same with one effect more.
LEMMA TracedStrike ==
  ASSUME AskedInv, TracedInv, NEW d, Traced(d)', \A e \in Due' : e \in Due \/ e = d,
         \A q \in Halts : stage[q] # "idle" => Kept(q)
  PROVE  TracedInv'
<1>1. \A e \in Due : Traced(e)'
  BY TracedStays DEF AskedInv, TracedInv
<1> QED  BY <1>1 DEF TracedInv

\* The next operation of a halt is part of its plan.
LEMMA NextPlanned ==
  ASSUME WorkInv, DoneInv, NEW p \in Halts, InSteps(p)
  PROVE  /\ Worked(p) /\ job[p] \in Jobs
         /\ \E i \in 1 .. Len(Plan(job[p])) : Effect(Plan(job[p])[i]) = Effect(todo[p][1])
<1>1. Worked(p) /\ job[p] \in Jobs /\ todo[p] # << >>
  BY DEF InSteps, DoneInv, WorkInv
<1>2. PICK m : m = Len(todo[p])
  OBVIOUS
<1>3. m \in Nat \ {0}
  BY <1>1, <1>2, SequenceOf, EmptySeq DEF Worked
<1>4. 1 \in 1 .. Len(todo[p])
  BY <1>2, <1>3
<1> QED  BY <1>1, <1>4, NextVia

LEMMA TracedStep ==
  ASSUME WorkInv, DoneInv, AskedInv, TracedInv, [SystemNext]_systemVars
  PROVE  TracedInv'
<1>1. ASSUME UNCHANGED << job, stage, steps >>, Due' = Due PROVE TracedInv'
  BY <1>1, TracedGrows DEF Kept
<1>2. ASSUME NEW p \in Halts, Begin(p) PROVE TracedInv'
  <2>1. PICK j : job' = [job EXCEPT ![p] = j]
    BY <1>2 DEF Begin
  <2>2. /\ stage[p] = "idle" /\ stage' = [stage EXCEPT ![p] = "working"]
        /\ UNCHANGED << steps, effects, late >>
    BY <1>2 DEF Begin
  <2>3. \A q \in Halts : stage[q] # "idle" => Kept(q)
    BY <2>1, <2>2 DEF Kept, WorkInv
  <2> QED  BY <2>2, <2>3, TracedGrows DEF Due
<1>3. ASSUME NEW p \in Halts, WithoutCommand(p) PROVE TracedInv'
  <2>1. UNCHANGED << stage, job, effects, late >> /\ InSteps(p)
    BY <1>3 DEF WithoutCommand
  <2>2. /\ \A q \in Halts \ {p} : steps'[q] = steps[q]
        /\ \A i \in DOMAIN steps[p] : /\ i \in DOMAIN steps'[p]
                                      /\ steps'[p][i] = steps[p][i]
    BY <1>3, <2>1, NextPlanned, WithoutCommandWorks
  <2>3. \A q \in Halts : Kept(q)
    BY <2>1, <2>2 DEF Kept
  <2> QED  BY <2>1, <2>3, TracedGrows DEF Due
<1>4. ASSUME NEW p \in Halts, NEW when, Strike(p, when), InSteps(p),
             NEW how \in {"raised", "killed"}, EndEarly(p, how)
      PROVE  TracedInv'
  <2>1. stage' = [stage EXCEPT ![p] = how] /\ UNCHANGED << job, steps >>
    BY <1>4 DEF EndEarly
  <2>2. \A q \in Halts : Kept(q)
    BY <2>1 DEF Kept, WorkInv
  <2>3. PICK e : e = Pending(p)
    OBVIOUS
  <2>4. e.halt = p /\ e.effect = Effect(todo[p][1])
    BY <2>3 DEF Pending
  <2>5. stage'[p] \in {"raised", "killed"} /\ job'[p] = job[p]
    BY <2>1 DEF WorkInv
  <2>6. Traced(e)'
    BY <1>4, <2>4, <2>5, NextPlanned DEF Traced
  <2>7. \A f \in Due' : f \in Due \/ f = e
    BY <1>4, <2>3 DEF Strike, Due
  <2> QED  BY <2>2, <2>3, <2>6, <2>7, TracedStrike
<1>5. ASSUME NEW p \in Halts, Command(p) PROVE TracedInv'
  <2>1. PICK o \in Outcomes :
          /\ Strike(p, o[2])
          /\ IF o[1] = "raises" THEN EndEarly(p, "raised")
             ELSE /\ AllServed(p, o[1])
                  /\ UNCHANGED << vars, stage, job, before, watch, others >>
    BY <1>5 DEF Command
  <2>2. Commands(p) /\ InSteps(p)
    BY <1>5 DEF Command, Commands
  <2>3. CASE o[1] = "raises"
    BY <1>4, <2>1, <2>2, <2>3
  <2>4. CASE o[1] # "raises"
    <3>1. AllServed(p, o[1]) /\ UNCHANGED << stage, job >>
      BY <2>1, <2>4
    <3>2. /\ \A q \in Halts \ {p} : steps'[q] = steps[q]
          /\ \A i \in DOMAIN steps[p] : /\ i \in DOMAIN steps'[p]
                                        /\ steps'[p][i] = steps[p][i]
          /\ OwnsUp(steps'[p], Plan(job[p]), Effect(todo[p][1]))
      BY <2>1, <2>2, <2>4, <3>1, NextPlanned, CommandWorks
    <3>3. \A q \in Halts : Kept(q)
      BY <3>1, <3>2 DEF Kept
    <3>4. PICK e : e = Pending(p)
      OBVIOUS
    <3>5. e.halt = p /\ e.effect = Effect(todo[p][1])
      BY <3>4 DEF Pending
    <3>6. Traced(e)'
      BY <2>2, <3>1, <3>2, <3>5, NextPlanned DEF Traced
    <3>7. \A f \in Due' : f \in Due \/ f = e
      BY <2>1, <3>4 DEF Strike, Due
    <3> QED  BY <3>3, <3>4, <3>6, <3>7, TracedStrike
  <2> QED  BY <2>3, <2>4
<1>6. ASSUME NEW p \in Halts, KillEarly(p) PROVE TracedInv'
  <2>1. PICK when : Strike(p, when)
    BY <1>6 DEF KillEarly
  <2> QED  BY <1>4, <1>6, <2>1 DEF KillEarly
<1>7. CASE TakeEffect
  BY <1>1, <1>7 DEF TakeEffect, Due
<1>8. CASE HostLosesPower
  <2>1. /\ stage' = [p \in Halts |-> IF stage[p] = "working" /\ pc[p] = "running"
                                     THEN "killed" ELSE stage[p]]
        /\ UNCHANGED << job, steps, effects, late >>
    BY <1>8 DEF HostLosesPower
  <2>2. \A q \in Halts : Kept(q)
    BY <2>1 DEF Kept
  <2> QED  BY <2>1, <2>2, TracedGrows DEF Due
<1>9. CASE \/ UNCHANGED systemVars \/ BeginStatus \/ Query \/ OthersAct
           \/ \E p \in Halts : LogStep(p) \/ EndAtLog(p)
  <2>1. UNCHANGED << stage, job, steps, effects, late >>
    BY <1>9 DEF systemVars, workVars, BeginStatus, Query, OthersAct, LogStep, EndAtLog
  <2> QED  BY <1>1, <2>1 DEF Due
<1> QED  BY <1>2, <1>3, <1>5, <1>6, <1>7, <1>8, <1>9 DEF SystemNext, Proceed

LEMMA TracedInvariant == SystemSpec => []TracedInv
<1>1. SystemInit => TracedInv
  BY DEF SystemInit, TracedInv, Due
<1> QED  BY <1>1, TracedStep, WorkInvariant, DoneInvariant, PTL DEF SystemSpec

\* Whatever a halt did to the cluster is in the one record it left, in a step
\* for that operation on that node, or its caller knows that it was cut short.
THEOREM EffectsStayOnRecord == SystemSpec => []EffectsOnRecord
<1>1. AskedInv /\ TracedInv /\ ReturnedIsLogged => EffectsOnRecord
  <2> SUFFICES ASSUME AskedInv, TracedInv, ReturnedIsLogged, ~torn,
                      NEW e \in Due, Over(e.halt), ~Ended(e.halt)
               PROVE  /\ LoggedOnce(e.halt)
                      /\ OwnsUp(steps[e.halt],
                                HaltPlan(job[e.halt].backend, job[e.halt].nodes),
                                e.effect)
    BY DEF EffectsOnRecord
  <2>1. e.halt \in Halts /\ pc[e.halt] = "returned"
    BY DEF AskedInv, Over
  <2>2. OwnsUp(steps[e.halt], Plan(job[e.halt]), e.effect)
    BY DEF TracedInv, Traced, Ended
  <2> QED  BY <2>1, <2>2 DEF ReturnedIsLogged, Plan
<1> QED BY <1>1, DoneInvariant, TracedInvariant, SystemReturnedIsLogged, PTL
-----------------------------------------------------------------------------
(* What status shows *)

WatchInv ==
  watch.place = "asking" =>
    /\ DOMAIN watch = {"place", "job", "nodes", "states"}
    /\ watch.states \in Seq({"unknown", "halted", "up"})

LEMMA WatchStep ==
  ASSUME WatchInv, [SystemNext]_systemVars
  PROVE  WatchInv'
<1>1. CASE BeginStatus
  <2>1. PICK j : watch' = [place |-> "asking", job |-> j, nodes |-> j.nodes,
                           states |-> << >>]
    BY <1>1 DEF BeginStatus
  <2> QED  BY <2>1 DEF WatchInv
<1>2. CASE Query
  <2>1. CASE watch' = [place |-> "raised"]
    BY <2>1 DEF WatchInv
  <2>2. CASE watch' # [place |-> "raised"]
    <3>1. PICK b, x, touched, s :
            /\ s \in NodeState(b, x, On(b), touched)
            /\ watch' = [watch EXCEPT !.nodes = Tail(@), !.states = Append(@, s)]
      BY <1>2, <2>2 DEF Query
    <3>2. /\ DOMAIN watch = {"place", "job", "nodes", "states"}
          /\ watch.states \in Seq({"unknown", "halted", "up"})
      BY <1>2 DEF Query, WatchInv
    <3>3. DOMAIN watch' = DOMAIN watch /\ watch'.states = Append(watch.states, s)
      BY <3>1, <3>2
    <3>4. s \in {"unknown", "halted", "up"}
      BY <3>1 DEF NodeState
    <3> QED  BY <3>2, <3>3, <3>4 DEF WatchInv
  <2> QED  BY <2>1, <2>2
<1>3. CASE HostLosesPower
  <2>1. watch' = NoWatch \/ watch' = [place |-> "killed"]
    BY <1>3 DEF HostLosesPower
  <2>2. watch'.place # "asking"
    BY <2>1 DEF NoWatch
  <2> QED  BY <2>2 DEF WatchInv
<1>4. CASE \/ UNCHANGED systemVars \/ TakeEffect \/ OthersAct
           \/ \E p \in Halts : \/ Begin(p) \/ WithoutCommand(p) \/ Command(p)
                               \/ LogStep(p) \/ KillEarly(p) \/ EndAtLog(p)
  <2>1. UNCHANGED watch
    BY <1>4 DEF systemVars, TakeEffect, OthersAct, Begin, WithoutCommand, Command,
                LogStep, KillEarly, EndEarly, EndAtLog
  <2> QED  BY <2>1 DEF WatchInv
<1> QED BY <1>1, <1>2, <1>3, <1>4 DEF SystemNext, Proceed

\* An answer is one that the tool can give.
LEMMA AnswerOfTool ==
  ASSUME WatchInv, [SystemNext]_systemVars, NEW n, NEW s, Answers(n, s)
  PROVE  s \in NodeState(n[1], n[2], On(n[1]), n \in others)
<1>1. PICK states :
        /\ states = watch.states /\ states \in Seq({"unknown", "halted", "up"})
        /\ watch.place = "asking" /\ watch # NoWatch
  BY DEF Answers, WatchInv, NoWatch
<1>2. watch'.place = "asking" /\ watch'.states = Append(states, s)
  BY <1>1 DEF Answers, WatchInv
<1>3. watch' # watch
  <2>1. Append(states, s) # states
    <3>1. Len(Append(states, s)) = Len(states) + 1 /\ Len(states) \in Nat
      BY <1>1
    <3> QED  BY <3>1
  <2> QED  BY <1>1, <1>2, <2>1
<1>4. CASE Query
  <2>1. watch' # [place |-> "raised"]
    BY <1>2
  <2>2. PICK t \in NodeState(watch.job.backend, Head(watch.nodes), On(watch.job.backend),
                             << watch.job.backend, Head(watch.nodes) >> \in others) :
          watch' = [watch EXCEPT !.nodes = Tail(@), !.states = Append(@, t)]
    BY <1>4, <2>1 DEF Query
  <2>3. watch'.states = Append(states, t)
    BY <1>1, <2>2 DEF WatchInv
  <2>4. s = t
    <3>1. /\ Append(states, s)[Len(states) + 1] = s
          /\ Append(states, t)[Len(states) + 1] = t
      BY <1>1
    <3> QED  BY <1>2, <2>3, <3>1
  <2>5. n = << watch.job.backend, Head(watch.nodes) >>
    BY DEF Answers
  <2> QED  BY <2>2, <2>4, <2>5
<1>5. CASE HostLosesPower
  BY <1>1, <1>2, <1>5 DEF HostLosesPower
<1>6. CASE BeginStatus
  BY <1>1, <1>6 DEF BeginStatus
<1>7. CASE \/ UNCHANGED systemVars \/ TakeEffect \/ OthersAct
           \/ \E p \in Halts : \/ Begin(p) \/ WithoutCommand(p) \/ Command(p)
                               \/ LogStep(p) \/ KillEarly(p) \/ EndAtLog(p)
  <2>1. UNCHANGED watch
    BY <1>7 DEF systemVars, TakeEffect, OthersAct, Begin, WithoutCommand, Command,
                LogStep, KillEarly, EndEarly, EndAtLog
  <2> QED  BY <1>3, <2>1
<1> QED BY <1>4, <1>5, <1>6, <1>7 DEF SystemNext, Proceed

\* An effect that status tells of is that of a halt on the node itself, for the
\* operation that serves all nodes leaves none that it tells of.
LEMMA ToldByHalt ==
  ASSUME AskedInv, WorkInv, TracedInv, NEW b \in BackendNames, NEW x,
         ToldEffect(b, x) \in On(b)
  PROVE  \E p \in Halts : Concerns(p, << b, x >>)
<1>1. PICK e \in effects : job[e.halt].backend = b /\ e.effect = ToldEffect(b, x)
  BY DEF On
<1>2. PICK p : p = e.halt
  OBVIOUS
<1>3. p \in Halts /\ stage[p] # "idle" /\ job[p].confirmed /\ job[p] \in Jobs
  BY <1>1, <1>2 DEF AskedInv, Due, WorkInv
<1>4. PICK i \in 1 .. Len(Plan(job[p])) : Effect(Plan(job[p])[i]) = ToldEffect(b, x)
  BY <1>1, <1>2 DEF TracedInv, Traced, Due
<1>5. PICK o : o = Plan(job[p])[i]
  OBVIOUS
<1>6. o.operation = Told[b] /\ x = IF o.via = "apply" THEN Namespace ELSE o.node
  BY <1>4, <1>5 DEF Effect, ToldEffect
<1>7. o.via # "apply"
  <2>1. Told[b] # "isolate_network"
    BY DEF Told, BackendNames
  <2> QED  BY <1>3, <1>5, <1>6, <2>1, JobPlan
<1>8. o.node \in ToSet(job[p].nodes)
  <2>1. PICK S, plan : S = ToSet(job[p].nodes) /\ plan = Plan(job[p])
    OBVIOUS
  <2>2. plan \in Seq(OperationsOn(S))
    BY <1>3, <2>1, JobPlan
  <2>3. o \in OperationsOn(S)
    BY <1>5, <2>1, <2>2
  <2> QED  BY <2>1, <2>3 DEF OperationsOn
<1> QED  BY <1>1, <1>2, <1>3, <1>6, <1>7, <1>8 DEF Concerns

\* A halt that has had exit status 0 has done, or set going, what status tells
\* of on each of its nodes.
LEMMA OkIsTold ==
  ASSUME WorkInv, BeginInv, DoneInv, NEW p \in Halts, NEW b, NEW x,
         Concerns(p, << b, x >>), Ok(p)
  PROVE  Deed(p, ToldEffect(b, x)) \in Due
<1>1. /\ pc[p] = "returned" /\ job[p].confirmed /\ job[p].backend = b
      /\ x \in ToSet(job[p].nodes)
      /\ \A i \in DOMAIN steps[p] : steps[p][i].status # "failure"
  BY DEF Concerns, Ok
<1>2. stage[p] = "working" /\ todo[p] = << >> /\ Worked(p) /\ job[p] \in Jobs
  BY <1>1 DEF BeginInv, AtLog, DoneInv, WorkInv
<1>3. DOMAIN steps[p] = 1 .. Len(Plan(job[p]))
  <2>1. steps[p] \in Seq(ToSet(steps[p]))
    BY DEF WorkInv
  <2>2. PICK k : k = Len(steps[p])
    OBVIOUS
  <2>3. DOMAIN steps[p] = 1 .. k /\ k \in Nat
    BY <2>1, <2>2, SequenceOf
  <2>4. k + 0 = Len(Plan(job[p]))
    BY <1>2, <2>2 DEF Worked
  <2> QED  BY <2>3, <2>4
<1>4. PICK n \in 1 .. Size(job[p]) : x = job[p].nodes[n]
  <2>1. job[p].nodes \in Seq(ToSet(job[p].nodes))
    BY <1>2, JobPlan DEF Planned
  <2>2. DOMAIN job[p].nodes = 1 .. Size(job[p])
    BY <2>1, SequenceOf DEF Size
  <2> QED  BY <1>1, <2>2 DEF ToSet
<1>5. PICK i \in 1 .. Len(Plan(job[p])) :
        /\ Plan(job[p])[i].via = "run_step"
        /\ Effect(Plan(job[p])[i]) = ToldEffect(b, x)
  <2>1. PICK S, j : S = ToSet(job[p].nodes) /\ j = job[p]
    OBVIOUS
  <2>2. Planned(S, j) /\ n \in 1 .. Size(j)
    BY <1>2, <1>4, <2>1, JobPlan
  <2>3. \E i \in 1 .. Len(Plan(j)) :
          /\ Plan(j)[i].via = "run_step"
          /\ Effect(Plan(j)[i]) = [operation |-> Told[j.backend], target |-> j.nodes[n]]
    BY <2>2, ToldPlanned
  <2> QED  BY <1>1, <1>4, <2>1, <2>3 DEF ToldEffect
<1>6. Via(job[p], i) = "run_step"
  BY <1>2, <1>5, JobPlan
<1>7. steps[p][i].status = "success"
  BY <1>1, <1>2, <1>3, <1>5, <1>6 DEF Worked
<1>8. Deed(p, Effect(Plan(job[p])[i])) \in Due
  BY <1>1, <1>2, <1>3, <1>5, <1>6, <1>7 DEF Worked
<1> QED  BY <1>5, <1>8

\* What status says of a node that nobody but the halts has changed can be
\* relied on: it shows halted what a confirmed halt of this node has done, and
\* up nothing that such a halt has reported done, unless it is still to come.
THEOREM StatusIsTrue == SystemSpec => StatusShowsHalts
<1>1. WorkInv /\ BeginInv /\ DoneInv /\ AskedInv /\ TracedInv /\ WatchInv
      /\ [SystemNext]_systemVars => StatusAnswer
  <2> SUFFICES ASSUME WorkInv, BeginInv, DoneInv, AskedInv, TracedInv, WatchInv,
                      [SystemNext]_systemVars, NEW n \in Shown, n \notin others
               PROVE  /\ Answers(n, "halted") => \E p \in Halts : Concerns(p, n)
                      /\ Answers(n, "up") =>
                           \A p \in Halts :
                             Concerns(p, n) /\ Ok(p) =>
                               [halt |-> p, effect |-> ToldEffect(n[1], n[2])] \in late
    BY DEF StatusAnswer
  <2>1. PICK b, x : b \in BackendNames /\ n = << b, x >>
    BY JobsAssumption DEF Shown
  <2>2. ASSUME Answers(n, "halted") PROVE \E p \in Halts : Concerns(p, n)
    <3>1. ToldEffect(b, x) \in On(b)
      BY <2>1, <2>2, AnswerOfTool DEF NodeState
    <3> QED  BY <2>1, <3>1, ToldByHalt
  <2>3. ASSUME Answers(n, "up"), NEW p \in Halts, Concerns(p, n), Ok(p)
        PROVE  [halt |-> p, effect |-> ToldEffect(n[1], n[2])] \in late
    <3>1. ToldEffect(b, x) \notin On(b)
      BY <2>1, <2>3, AnswerOfTool DEF NodeState
    <3>2. Deed(p, ToldEffect(b, x)) \in Due
      BY <2>1, <2>3, OkIsTold
    <3>3. Deed(p, ToldEffect(b, x)) \notin effects
      BY <2>1, <2>3, <3>1 DEF On, Deed, Concerns
    <3> QED  BY <2>1, <3>2, <3>3 DEF Due, Deed
  <2> QED  BY <2>2, <2>3
<1>2. SystemInit => WatchInv
  BY DEF SystemInit, NoWatch, WatchInv
<1>3. StatusAnswer => [StatusAnswer]_systemVars
  OBVIOUS
<1> QED BY <1>1, <1>2, <1>3, WatchStep, WorkInvariant, BeginInvariant, DoneInvariant,
           TracedInvariant, PTL DEF SystemSpec, StatusShowsHalts
=============================================================================
