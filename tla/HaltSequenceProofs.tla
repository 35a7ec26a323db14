-------------------------- MODULE HaltSequenceProofs --------------------------
(***************************************************************************)
(* One halt after another: what the records, the exit codes and the effects*)
(* on the cluster have to do with each other, for any node lists, any      *)
(* backends and any number of invocations.                                 *)
(*                                                                         *)
(* Sequenced is inductive.  While a halt runs, the steps done and the      *)
(* operations still to do make up the plan of its backend, and the effects *)
(* asked for are those of a stretch of that plan, as far as the steps go.  *)
(* A record in the log says the same of the whole plan.  TailInv tells of  *)
(* the end of the file: only the next append can continue a cut line, and  *)
(* after it no halt gets as far as its record.                             *)
(***************************************************************************)
EXTENDS HaltSequence, BackendsProofs, FiniteSetTheorems

Operations == OperationsOn(Nodes)

Effects == [operation : OperationNames, target : Nodes \union {Namespace}]

StepResults ==
  [operation : OperationNames, node : Nodes,
   status : {"planned", "success", "failure", "skipped"}]

Requests ==
  [backend : InUse, nodes : NodeLists, confirmed : BOOLEAN, sign : BOOLEAN,
   collect : BOOLEAN]

HaltRecords ==
  [attempt : 1 .. MaxAttempts, backend : InUse, nodes : NodeLists,
   confirmed : BOOLEAN, signed : BOOLEAN, steps : Seq(StepResults)]

TypeInv ==
  /\ pc \in {"idle", "steps", "built", "signed", "posting", "returning"}
  /\ pc # "idle" => req \in Requests /\ Attempt <= MaxAttempts
  /\ todo \in Seq(Operations) /\ steps \in Seq(StepResults)
  /\ cluster \subseteq Effects /\ late \subseteq Effects
  /\ issued \in [1 .. MaxAttempts -> Seq(Effects)]
  /\ log \in Seq(HaltRecords) /\ posted \subseteq HaltRecords
  /\ tail \in {"ended", "open", "part", "spoilt", "glued"}
  /\ report \in Seq({"ok", "failures", "raised", "killed"})
  /\ Len(report) <= MaxAttempts

-----------------------------------------------------------------------------
(* What a plan looks like, and what has become of the first part of it. *)

Statuses(r, i) ==
  IF Via(r, i) = "skipped" THEN {"skipped"}
  ELSE IF r.confirmed THEN {"success", "failure"} ELSE {"planned"}

\* The steps s are those of the first operations of the plan, each with a
\* status it can have, and a step that succeeded is one of the effects.
StepsOf(r, s, effects) ==
  \A i \in DOMAIN s :
    /\ s[i] = StepResult(Plan(r)[i], s[i].status)
    /\ s[i].status \in Statuses(r, i)
    /\ s[i].status = "success" => Effect(Plan(r)[i]) \in effects

\* The effects asked for by the first k operations of the plan.
AskedBy(r, k, done) ==
  IF r.confirmed
  THEN /\ Len(done) = IF k < FirstRun(r) THEN 0
                      ELSE (IF k < FinalRun(r) THEN k ELSE FinalRun(r)) - FirstRun(r) + 1
       /\ \A i \in DOMAIN done : done[i] = Effect(Plan(r)[FirstRun(r) + i - 1])
  ELSE done = << >>

\* Of a halt that runs.  All nodes share one NetworkPolicy command, so that
\* a confirmed halt is never between two of the steps it makes.
StepsInv ==
  pc # "idle" =>
    /\ pc # "steps" => todo = << >>
    /\ Len(steps) + Len(todo) = Len(Plan(req))
    /\ \A i \in DOMAIN todo : todo[i] = Plan(req)[Len(steps) + i]
    /\ StepsOf(req, steps, Due)
    /\ pc = "steps" => AskedBy(req, Len(steps), issued[Attempt])
    /\ pc # "steps" => AskedBy(req, Len(Plan(req)), issued[Attempt])
    /\ req.backend = "kubernetes" /\ req.confirmed =>
         \/ Len(steps) <= 2 * Size(req)
         \/ Len(steps) >= 3 * Size(req)

\* Who has not come to its commands has asked for nothing.
UnaskedInv ==
  \A a \in DOMAIN issued :
    a > Attempt \/ (a = Attempt /\ pc = "idle") => issued[a] = << >>

EffectsInv ==
  \A e \in Due : \E a \in DOMAIN issued : e \in ToSet(issued[a])

\* Of a record that is made.
RecordInv(r, done, effects) ==
  /\ Len(r.steps) = Len(Plan(r))
  /\ StepsOf(r, r.steps, effects)
  /\ AskedBy(r, Len(Plan(r)), done)

\* A halt logs one record, and is past its commands then; one that returns
\* has logged it, and with exit status 0 no step of it has failed.
LogInv ==
  /\ \A k \in DOMAIN log :
       /\ RecordInv(log[k], issued[log[k].attempt], Due)
       /\ \/ log[k].attempt < Attempt
          \/ log[k].attempt = Attempt /\ pc \in {"posting", "returning"}
       /\ log[k].attempt < Attempt /\ report[log[k].attempt] = "ok" =>
            ~Failed(log[k].steps)
  /\ \A j, k \in DOMAIN log : log[j].attempt = log[k].attempt => j = k
  /\ pc \in {"posting", "returning"} => \E k \in DOMAIN log : log[k] = HaltRecord
  /\ \A a \in DOMAIN report :
       report[a] \in {"ok", "failures"} => \E k \in DOMAIN log : log[k].attempt = a
  /\ posted \subseteq ToSet(log)

\* The halt that wrote record r was cut short in append, or after it had read
\* the log; the collector never saw r.
Cut(r) ==
  /\ r.attempt \in DOMAIN report /\ report[r.attempt] \in {"raised", "killed"}
  /\ r \notin posted

\* Only a halt that was cut short leaves the file without its last newline,
\* only the next append can continue that line, and after it no halt gets as
\* far as its record.
TailInv ==
  /\ pc \in {"built", "signed"} => tail \in {"ended", "open"}
  /\ pc \in {"posting", "returning"} =>
       /\ tail \in {"ended", "glued"}
       /\ log # << >> /\ log[Len(log)].attempt = Attempt
  /\ tail \in {"open", "spoilt"} => log # << >> /\ Cut(log[Len(log)])
  /\ tail = "glued" =>
       /\ Len(log) > 1 /\ Cut(log[Len(log) - 1])
       /\ \A a \in DOMAIN report :
            a > log[Len(log)].attempt => report[a] \in {"raised", "killed"}

Sequenced ==
  TypeInv /\ StepsInv /\ UnaskedInv /\ EffectsInv /\ LogInv /\ TailInv

-----------------------------------------------------------------------------
LEMMA RequestPlan ==
  ASSUME NEW r, r.backend \in InUse, r.nodes \in NodeLists
  PROVE  /\ Size(r) \in Nat \ {0}
         /\ Plan(r) \in Seq(Operations)
         /\ Len(Plan(r)) = IF r.backend = "kubernetes" THEN 4 * Size(r) ELSE 3 * Size(r)
         /\ \A i \in 1 .. Len(Plan(r)) :
              /\ Plan(r)[i].via = Via(r, i)
              /\ Via(r, i) = "apply" => Plan(r)[i].operation = "isolate_network"
<1>1. Planned(Nodes, r)
  BY SequenceAssumption DEF Planned
<1> QED  BY <1>1, PlanShape DEF Operations

-----------------------------------------------------------------------------
(* The types *)

\* The operation to do next is the one of the plan.
LEMMA NextOperation ==
  ASSUME TypeInv, StepsInv, pc = "steps", todo # << >>
  PROVE  LET k == Len(steps) + 1
         IN  /\ req \in Requests /\ Attempt \in 1 .. MaxAttempts
             /\ Head(todo) \in Operations /\ Effect(Head(todo)) \in Effects
             /\ Head(todo) = Plan(req)[k] /\ Head(todo).via = Via(req, k)
             /\ Len(todo) \in Nat \ {0} /\ k \in 1 .. Len(Plan(req))
<1>1. /\ req \in Requests /\ Attempt \in 1 .. MaxAttempts
      /\ Len(steps) \in Nat /\ Len(todo) \in Nat \ {0} /\ todo[1] \in Operations
      /\ Head(todo) = todo[1]
  BY EmptySeq DEF TypeInv, Attempt
<1>2. Effect(todo[1]) \in Effects
  BY <1>1 DEF Effect, Effects, Operations, OperationsOn, Ways
<1>3. /\ todo[1] = Plan(req)[Len(steps) + 1]
      /\ Len(steps) + Len(todo) = Len(Plan(req))
  <2>1. DOMAIN todo = 1 .. Len(todo)
    BY DEF TypeInv
  <2> QED  BY <1>1, <2>1 DEF StepsInv
<1>4. \A i \in 1 .. Len(Plan(req)) : Plan(req)[i].via = Via(req, i)
  BY <1>1, RequestPlan DEF Requests
<1> QED  BY <1>1, <1>2, <1>3, <1>4

LEMMA InitTypes == Init => TypeInv
BY SequenceAssumption DEF Init, TypeInv, Attempt

\* An invocation that ends.
LEMMA EndTypes ==
  ASSUME TypeInv, Attempt <= MaxAttempts,
         NEW how \in {"ok", "failures", "raised", "killed"}, End(how)
  PROVE  /\ pc' = "idle" /\ Len(report') = Len(report) + 1
         /\ report' \in Seq({"ok", "failures", "raised", "killed"})
         /\ Len(report') <= MaxAttempts
BY DEF TypeInv, End, Attempt

\* A command that is run.
LEMMA StartTypes ==
  ASSUME TypeInv, StepsInv, pc = "steps", todo # << >>,
         NEW when, Start(Head(todo), when)
  PROVE  /\ cluster' \subseteq Effects /\ late' \subseteq Effects
         /\ issued' \in [1 .. MaxAttempts -> Seq(Effects)]
         /\ issued'[Attempt] = Append(issued[Attempt], Effect(Head(todo)))
         /\ \A a \in DOMAIN issued : a # Attempt => issued'[a] = issued[a]
         /\ Due \subseteq Due'
         /\ when \in {"now", "later"} => Effect(Head(todo)) \in Due'
<1>1. Effect(Head(todo)) \in Effects /\ Attempt \in 1 .. MaxAttempts
  BY NextOperation
<1> QED  BY <1>1 DEF TypeInv, Start, Due

\* A step that is recorded.
LEMMA RecordTypes ==
  ASSUME TypeInv, StepsInv, pc = "steps", todo # << >>,
         NEW status \in {"planned", "success", "failure", "skipped"}, Record(status)
  PROVE  todo' \in Seq(Operations) /\ steps' \in Seq(StepResults)
<1>1. Head(todo) \in Operations
  BY NextOperation
<1>2. StepResult(Head(todo), status) \in StepResults
  BY <1>1 DEF StepResult, StepResults, Operations, OperationsOn, Ways
<1> QED  BY <1>2, EmptySeq DEF TypeInv, Record

\* What HaltRecord writes down.
LEMMA RecordMade ==
  ASSUME TypeInv, pc # "idle"
  PROVE  /\ HaltRecord \in HaltRecords
         /\ HaltRecord.attempt = Attempt /\ HaltRecord.steps = steps
         /\ HaltRecord.confirmed = req.confirmed
         /\ Size(HaltRecord) = Size(req) /\ Plan(HaltRecord) = Plan(req)
         /\ HaltRecord.backend = req.backend
BY DEF TypeInv, HaltRecord, HaltRecords, Requests, Attempt, Size, Plan

\* The types of what append leaves, complete or cut.
LEMMA FileTypes ==
  ASSUME TypeInv, pc = "signed", WriteLine \/ CutLine
  PROVE  /\ log' \in Seq(HaltRecords)
         /\ tail' \in {"ended", "open", "part", "spoilt", "glued"}
         /\ log' = log \/ log' = Append(log, HaltRecord)
<1>1. PICK r \in HaltRecords : r = HaltRecord
  BY RecordMade
<1>2. log' = log \/ log' = Append(log, r)
  BY <1>1 DEF WriteLine, CutLine, file
<1>3. Append(log, r) \in Seq(HaltRecords)
  BY <1>1, AppendProperties DEF TypeInv
<1>4. tail' \in {"ended", "open", "part", "spoilt", "glued"}
  BY DEF WriteLine, CutLine, file, TypeInv
<1> QED  BY <1>1, <1>2, <1>3, <1>4 DEF TypeInv

\* The NetworkPolicy command is run when the steps for it are all to be done.
LEMMA ApplyServesAll ==
  ASSUME TypeInv, StepsInv, Doing("apply"), req.confirmed
  PROVE  LET n == Size(req)
         IN  /\ n \in Nat \ {0} /\ req.backend = "kubernetes"
             /\ Len(steps) = 2 * n /\ Len(todo) = 2 * n
             /\ Len(Plan(req)) = 4 * n
<1> DEFINE n == Size(req)
           k == Len(steps) + 1
<1>1. pc = "steps" /\ todo # << >> /\ Head(todo).via = "apply"
  BY DEF Doing
<1>2. /\ req \in Requests /\ Via(req, k) = "apply" /\ k \in 1 .. Len(Plan(req))
      /\ Len(steps) \in Nat /\ Len(todo) \in Nat
  BY <1>1, NextOperation DEF TypeInv
<1>3. /\ n \in Nat \ {0}
      /\ Len(Plan(req)) = IF req.backend = "kubernetes" THEN 4 * n ELSE 3 * n
  BY <1>2, RequestPlan DEF Requests
<1>4. req.backend = "kubernetes" /\ 2 * n < k /\ k <= 3 * n
  BY <1>2, <1>3 DEF Via
<1>5. /\ Len(steps) + Len(todo) = Len(Plan(req))
      /\ Len(steps) <= 2 * n \/ Len(steps) >= 3 * n
  BY <1>1, <1>4 DEF StepsInv
<1> HIDE DEF n
<1>6. Len(steps) = 2 * n
  BY <1>2, <1>3, <1>4, <1>5
<1>7. Len(Plan(req)) = 4 * n
  BY <1>3, <1>4
<1>8. Len(todo) = 2 * n
  BY <1>2, <1>3, <1>5, <1>6, <1>7
<1> QED  BY <1>3, <1>4, <1>6, <1>7, <1>8 DEF n

\* Every step keeps the types.
LEMMA TypeStep == TypeInv /\ StepsInv /\ [Next]_vars => TypeInv'
<1> SUFFICES ASSUME TypeInv, StepsInv, [Next]_vars PROVE TypeInv'
  OBVIOUS
<1> USE DEF TypeInv, file
<1>1. CASE Begin
  <2>1. PICK b \in InUse, nodes \in NodeLists, confirm, sign, collect \in BOOLEAN :
          /\ req' = [backend |-> b, nodes |-> nodes, confirmed |-> confirm,
                     sign |-> sign, collect |-> collect]
          /\ todo' = HaltPlan(b, nodes)
    BY <1>1 DEF Begin
  <2>2. req' \in Requests /\ todo' = Plan(req')
    BY <2>1 DEF Requests, Plan
  <2>3. todo' \in Seq(Operations)
    <3>1. PICK r : r = req'
      OBVIOUS
    <3>2. Plan(r) \in Seq(Operations)
      BY <2>2, <3>1, RequestPlan DEF Requests
    <3> QED  BY <2>2, <3>1, <3>2
  <2>4. steps' \in Seq(StepResults)
    BY <1>1, EmptySeq DEF Begin
  <2> QED  BY <1>1, <2>2, <2>3, <2>4 DEF Begin, world, Attempt
<1>2. CASE ResolutionFails
  BY <1>2, EndTypes DEF ResolutionFails, world
<1>3. CASE SkipStep
  BY <1>3, RecordTypes DEF SkipStep, Doing, Record, world, Attempt
<1>4. CASE PlanStep
  BY <1>4, RecordTypes DEF PlanStep, Doing, Record, world, Attempt
<1>5. CASE RunStep
  <2>1. PICK o \in Outcomes :
          /\ Start(Head(todo), o[2])
          /\ IF o[1] = "raises"
             THEN End("raised") /\ UNCHANGED << req, todo, steps, file, posted >>
             ELSE Record(o[1])
    BY <1>5 DEF RunStep
  <2>2. pc = "steps" /\ todo # << >>
    BY <1>5 DEF RunStep, Doing
  <2>3. /\ cluster' \subseteq Effects /\ late' \subseteq Effects
        /\ issued' \in [1 .. MaxAttempts -> Seq(Effects)]
    BY <2>1, <2>2, StartTypes
  <2>4. CASE o[1] = "raises"
    BY <2>1, <2>2, <2>3, <2>4, EndTypes
  <2>5. CASE o[1] # "raises"
    <3>1. o[1] \in {"success", "failure"}
      BY <2>5 DEF Outcomes
    <3> QED  BY <2>1, <2>2, <2>3, <2>5, <3>1, RecordTypes DEF Record, Attempt
  <2> QED  BY <2>4, <2>5
<1>6. CASE ApplyPolicy
  <2> DEFINE n == Len(req.nodes)
  <2>1. PICK o \in Outcomes :
          /\ Start(Head(todo), o[2])
          /\ IF o[1] = "raises"
             THEN End("raised") /\ UNCHANGED << req, todo, steps, file, posted >>
             ELSE /\ steps' = steps \o [i \in 1 .. n |-> StepResult(todo[i], o[1])]
                  /\ todo' = SubSeq(todo, n + 1, Len(todo))
                  /\ UNCHANGED << pc, req, file, posted, report >>
    BY <1>6 DEF ApplyPolicy
  <2>2. pc = "steps" /\ todo # << >>
    BY <1>6 DEF ApplyPolicy, Doing
  <2>3. /\ cluster' \subseteq Effects /\ late' \subseteq Effects
        /\ issued' \in [1 .. MaxAttempts -> Seq(Effects)]
    BY <2>1, <2>2, StartTypes
  <2>4. CASE o[1] = "raises"
    BY <2>1, <2>2, <2>3, <2>4, EndTypes
  <2>5. CASE o[1] # "raises"
    <3>1. o[1] \in {"success", "failure"}
      BY <2>5 DEF Outcomes
    <3>2. n \in Nat /\ n <= Len(todo)
      BY <1>6, <2>2, ApplyServesAll DEF ApplyPolicy, Doing, Size
    <3>3. \A i \in 1 .. n : StepResult(todo[i], o[1]) \in StepResults
      <4>1. \A i \in 1 .. n : todo[i] \in Operations
        BY <3>2
      <4> QED  BY <3>1, <4>1 DEF StepResult, StepResults, Operations, OperationsOn, Ways
    <3>4. steps' \in Seq(StepResults)
      <4>1. PICK new : new = [i \in 1 .. n |-> StepResult(todo[i], o[1])]
        OBVIOUS
      <4>2. new \in Seq(StepResults)
        BY <3>2, <3>3, <4>1
      <4>3. steps \o new \in Seq(StepResults)
        BY <4>2, ConcatProperties
      <4> QED  BY <2>1, <2>5, <4>1, <4>3
    <3>5. todo' \in Seq(Operations)
      <4>1. \A i \in n + 1 .. Len(todo) : todo[i] \in Operations
        BY <3>2
      <4>2. SubSeq(todo, n + 1, Len(todo)) \in Seq(Operations)
        BY <3>2, <4>1, SubSeqProperties
      <4> QED  BY <2>1, <2>5, <4>2
    <3> QED  BY <2>1, <2>2, <2>3, <2>5, <3>4, <3>5 DEF Attempt
  <2> QED  BY <2>4, <2>5
<1>7. CASE TakeEffect
  BY <1>7 DEF TakeEffect, Attempt
<1>8. CASE BuildRecord
  BY <1>8, EndTypes DEF BuildRecord, Idle, world, Attempt, End
<1>9. CASE Sign
  BY <1>9, EndTypes DEF Sign, Idle, world, Attempt, End
<1>10. CASE AppendRecord
  <2>1. pc = "signed" /\ (WriteLine \/ CutLine)
    BY <1>10 DEF AppendRecord
  <2>2. /\ log' \in Seq(HaltRecords)
        /\ tail' \in {"ended", "open", "part", "spoilt", "glued"}
    BY <2>1, FileTypes
  <2> QED  BY <1>10, <2>2, EndTypes DEF AppendRecord, GoOn, Idle, world, Attempt, End
<1>11. CASE PostToCollector
  <2>1. HaltRecord \in HaltRecords
    BY <1>11, RecordMade DEF PostToCollector
  <2> QED  BY <1>11, <2>1, EndTypes DEF PostToCollector, Idle, world, Attempt, End
<1>12. CASE Return
  BY <1>12, EndTypes DEF Return, Idle, world
<1>13. CASE Kill
  <2>1. pc # "idle" /\ End("killed") /\ UNCHANGED << req, todo, steps, posted >>
    BY <1>13 DEF Kill
  <2>3. /\ log' \in Seq(HaltRecords)
        /\ tail' \in {"ended", "open", "part", "spoilt", "glued"}
    <3>1. CASE pc = "signed"
      BY <1>13, <3>1, FileTypes DEF Kill
    <3>2. CASE pc # "signed"
      BY <1>13, <3>2 DEF Kill
    <3> QED  BY <3>1, <3>2
  <2>2. /\ cluster' \subseteq Effects /\ late' \subseteq Effects
        /\ issued' \in [1 .. MaxAttempts -> Seq(Effects)]
    <3>1. CASE UNCHANGED world
      BY <3>1 DEF world
    <3>2. CASE ~ UNCHANGED world
      <4>1. PICK when \in {"never", "now", "later"} : Start(Head(todo), when)
        BY <1>13, <3>2 DEF Kill
      <4> QED  BY <1>13, <3>2, <4>1, StartTypes DEF Kill, Doing
    <3> QED  BY <3>1, <3>2
  <2> QED  BY <2>1, <2>2, <2>3, EndTypes
<1>14. CASE UNCHANGED vars
  BY <1>14 DEF vars, world, Attempt
<1> QED
  BY <1>1, <1>2, <1>3, <1>4, <1>5, <1>6, <1>7, <1>8, <1>9, <1>10, <1>11, <1>12,
     <1>13, <1>14
     DEF Next, Progress

-----------------------------------------------------------------------------
(* The steps and the plan *)

\* The stretch of the plan that runs commands is not empty, and in the plan.
LEMMA Stretch ==
  ASSUME NEW r, r.backend \in InUse, r.nodes \in NodeLists
  PROVE  /\ FirstRun(r) \in Nat \ {0} /\ FinalRun(r) \in Nat /\ Len(Plan(r)) \in Nat
         /\ FirstRun(r) <= FinalRun(r) /\ FinalRun(r) <= Len(Plan(r))
         /\ \A i \in 1 .. Len(Plan(r)) :
              /\ Via(r, i) = "run_step" => FirstRun(r) <= i /\ i <= FinalRun(r)
              /\ Via(r, i) = "skipped" => i < FirstRun(r) \/ FinalRun(r) < i
<1> DEFINE n == Size(r)
<1>1. /\ n \in Nat \ {0} /\ r.backend \in {"kubernetes", "slurm", "ipmi"}
      /\ Len(Plan(r)) = IF r.backend = "kubernetes" THEN 4 * n ELSE 3 * n
  BY RequestPlan, SequenceAssumption DEF BackendNames
<1> HIDE DEF n
<1>2. CASE r.backend = "kubernetes"
  <2>1. FirstRun(r) = 1 /\ FinalRun(r) = 2 * n + 1 /\ Len(Plan(r)) = 4 * n
    BY <1>1, <1>2 DEF FirstRun, FinalRun, n
  <2>2. \A i \in 1 .. Len(Plan(r)) :
          Via(r, i) = IF 2 * n < i /\ i <= 3 * n THEN "apply"
                      ELSE IF FirstRun(r) <= i /\ i <= FinalRun(r) THEN "run_step" ELSE "skipped"
    BY <1>2 DEF Via, n
  <2> QED  BY <1>1, <2>1, <2>2
<1>3. CASE r.backend # "kubernetes"
  <2>1. /\ FirstRun(r) \in Nat \ {0} /\ FinalRun(r) \in Nat /\ Len(Plan(r)) = 3 * n
        /\ FirstRun(r) <= FinalRun(r) /\ FinalRun(r) <= 3 * n
    BY <1>1, <1>3 DEF FirstRun, FinalRun, n
  <2>2. \A i \in 1 .. Len(Plan(r)) :
          Via(r, i) = IF FirstRun(r) <= i /\ i <= FinalRun(r) THEN "run_step" ELSE "skipped"
    BY <1>3 DEF Via, n
  <2> QED  BY <1>1, <2>1, <2>2
<1> QED  BY <1>2, <1>3

\* Operations that are skipped ask for nothing.
LEMMA AskedStays ==
  ASSUME NEW r, r.backend \in InUse, r.nodes \in NodeLists,
         NEW k \in Nat, NEW l \in Nat, k <= l, l < FirstRun(r) \/ FinalRun(r) <= k,
         NEW done, AskedBy(r, k, done)
  PROVE  AskedBy(r, l, done)
<1>1. FirstRun(r) \in Nat \ {0} /\ FinalRun(r) \in Nat /\ FirstRun(r) <= FinalRun(r)
  BY Stretch
<1> DEFINE Until(m) ==
      IF m < FirstRun(r) THEN 0 ELSE (IF m < FinalRun(r) THEN m ELSE FinalRun(r)) - FirstRun(r) + 1
<1>2. Until(k) = Until(l)
  BY <1>1
<1>3. r.confirmed => Len(done) = Until(k)
  BY DEF AskedBy
<1> HIDE DEF Until
<1>4. r.confirmed => Len(done) = Until(l)
  BY <1>2, <1>3
<1> QED  BY <1>4 DEF AskedBy, Until

\* A command of a confirmed halt adds its effect.
LEMMA AskedMore ==
  ASSUME NEW r, r.backend \in InUse, r.nodes \in NodeLists, r.confirmed,
         NEW k \in Nat, FirstRun(r) <= k + 1, k + 1 <= FinalRun(r),
         NEW done \in Seq(Effects), AskedBy(r, k, done),
         NEW e \in Effects, e = Effect(Plan(r)[k + 1])
  PROVE  AskedBy(r, k + 1, Append(done, e))
<1>1. FirstRun(r) \in Nat \ {0} /\ FinalRun(r) \in Nat
  BY Stretch
<1>2. /\ Len(done) = k + 1 - FirstRun(r)
      /\ \A i \in DOMAIN done : done[i] = Effect(Plan(r)[FirstRun(r) + i - 1])
  BY <1>1 DEF AskedBy
<1> DEFINE more == Append(done, e)
<1>3. /\ Len(more) = Len(done) + 1 /\ DOMAIN more = 1 .. Len(more)
      /\ \A i \in 1 .. Len(done) : more[i] = done[i]
      /\ more[Len(done) + 1] = e
  BY AppendProperties, LenProperties
<1>4. Len(done) \in Nat /\ DOMAIN done = 1 .. Len(done)
  BY LenProperties
<1> HIDE DEF more
<1>5. FirstRun(r) + (Len(done) + 1) - 1 = k + 1
  BY <1>1, <1>2, <1>4
<1>6. ASSUME NEW i \in DOMAIN more PROVE more[i] = Effect(Plan(r)[FirstRun(r) + i - 1])
  <2>1. CASE i = Len(done) + 1
    BY <1>3, <1>5, <2>1
  <2>2. CASE i # Len(done) + 1
    <3>1. i \in 1 .. Len(done)
      BY <1>3, <1>4, <2>2
    <3> QED  BY <1>2, <1>3, <1>4, <3>1
  <2> QED  BY <2>1, <2>2
<1>7. Len(more) = IF k + 1 < FirstRun(r) THEN 0
                  ELSE (IF k + 1 < FinalRun(r) THEN k + 1 ELSE FinalRun(r)) - FirstRun(r) + 1
  BY <1>1, <1>2, <1>3
<1> QED  BY <1>6, <1>7 DEF AskedBy, more

\* Effects come, none goes.
LEMMA EffectsGrow ==
  ASSUME NEW r, NEW s, NEW old, StepsOf(r, s, old), NEW new, old \subseteq new
  PROVE  StepsOf(r, s, new)
BY DEF StepsOf

\* A step with its result recorded.
LEMMA StepRecorded ==
  ASSUME TypeInv, StepsInv, pc = "steps", todo # << >>, Due \subseteq Due',
         NEW status \in Statuses(req, Len(steps) + 1), Record(status),
         status = "success" => Effect(Head(todo)) \in Due',
         AskedBy(req, Len(steps) + 1, issued'[Attempt]),
         Via(req, Len(steps) + 1) = "apply" => ~req.confirmed
  PROVE  StepsInv'
<1> DEFINE k == Len(steps) + 1
           n == Size(req)
<1>1. /\ pc' = "steps" /\ req' = req /\ report' = report
      /\ steps' = Append(steps, StepResult(Head(todo), status)) /\ todo' = Tail(todo)
  BY DEF Record
<1>2. /\ req \in Requests /\ Head(todo) = Plan(req)[k] /\ k \in 1 .. Len(Plan(req))
      /\ Head(todo).via = Via(req, k) /\ Head(todo) \in Operations
  BY NextOperation
<1>3. /\ status \in {"planned", "success", "failure", "skipped"}
      /\ StepResult(Head(todo), status) \in StepResults
      /\ StepResult(Head(todo), status).status = status
  BY <1>2 DEF Statuses, StepResult, StepResults, Operations, OperationsOn, Ways
<1>4. /\ Len(steps) \in Nat /\ DOMAIN steps = 1 .. Len(steps) /\ DOMAIN steps' = 1 .. k
      /\ Len(steps') = k /\ steps'[k] = StepResult(Head(todo), status)
      /\ \A i \in 1 .. Len(steps) : steps'[i] = steps[i]
  <2>1. PICK x \in StepResults : x = StepResult(Head(todo), status)
    BY <1>3
  <2>2. steps \in Seq(StepResults)
    BY DEF TypeInv
  <2>3. /\ Append(steps, x) \in Seq(StepResults) /\ Len(Append(steps, x)) = Len(steps) + 1
        /\ \A i \in 1 .. Len(steps) : Append(steps, x)[i] = steps[i]
        /\ Append(steps, x)[Len(steps) + 1] = x
    BY <2>1, <2>2, AppendProperties
  <2>4. PICK s : s = Append(steps, x)
    OBVIOUS
  <2>5. s \in Seq(StepResults) /\ Len(s) = k
    BY <2>3, <2>4
  <2>6. DOMAIN s = 1 .. k
    BY <2>5
  <2>7. Len(steps) \in Nat /\ DOMAIN steps = 1 .. Len(steps)
    BY <2>2
  <2> QED  BY <1>1, <2>1, <2>3, <2>4, <2>5, <2>6, <2>7
<1>5. /\ Len(todo) \in Nat \ {0} /\ Len(todo') = Len(todo) - 1
      /\ DOMAIN todo = 1 .. Len(todo) /\ DOMAIN todo' = 1 .. Len(todo) - 1
      /\ \A i \in 1 .. Len(todo) - 1 : todo'[i] = todo[i + 1]
  <2>1. todo \in Seq(Operations)
    BY DEF TypeInv
  <2>2. /\ Tail(todo) \in Seq(Operations) /\ Len(Tail(todo)) = Len(todo) - 1
        /\ \A i \in 1 .. Len(Tail(todo)) : Tail(todo)[i] = todo[i + 1]
    BY <2>1, HeadTailProperties
  <2>3. PICK t : t = Tail(todo)
    OBVIOUS
  <2>4. DOMAIN t = 1 .. Len(t)
    BY <2>2, <2>3
  <2>5. Len(todo) \in Nat \ {0} /\ DOMAIN todo = 1 .. Len(todo)
    BY <2>1, EmptySeq
  <2> QED  BY <1>1, <2>2, <2>3, <2>4, <2>5
<1>6. /\ Len(steps) + Len(todo) = Len(Plan(req)) /\ StepsOf(req, steps, Due)
      /\ \A i \in DOMAIN todo : todo[i] = Plan(req)[Len(steps) + i]
      /\ req.backend = "kubernetes" /\ req.confirmed =>
           Len(steps) <= 2 * n \/ Len(steps) >= 3 * n
  BY DEF StepsInv
<1> DEFINE p == Plan(req)
<1> HIDE DEF p, n
<1>7. Len(steps') + Len(todo') = Len(Plan(req'))
  BY <1>1, <1>4, <1>5, <1>6
<1>8. ASSUME NEW i \in DOMAIN todo' PROVE todo'[i] = Plan(req')[Len(steps') + i]
  <2>0. i \in 1 .. Len(todo) - 1
    BY <1>5
  <2>1. i + 1 \in 1 .. Len(todo) /\ Len(steps) + (i + 1) = Len(steps') + i
    <3>1. Len(steps) \in Nat /\ Len(todo) \in Nat \ {0} /\ Len(steps') = Len(steps) + 1
      BY <1>4, <1>5
    <3> QED  BY <2>0, <3>1
  <2> QED  BY <1>1, <1>5, <1>6, <2>0, <2>1
<1>9. StepsOf(req', steps', Due')
  <2> SUFFICES ASSUME NEW i \in 1 .. k
               PROVE  /\ steps'[i] = StepResult(Plan(req)[i], steps'[i].status)
                      /\ steps'[i].status \in Statuses(req, i)
                      /\ steps'[i].status = "success" => Effect(Plan(req)[i]) \in Due'
    BY <1>1, <1>4 DEF StepsOf
  <2>1. CASE i = k
    BY <1>2, <1>3, <1>4, <2>1
  <2>2. CASE i # k
    <3>1. i \in DOMAIN steps /\ steps'[i] = steps[i]
      BY <1>4, <2>2
    <3> QED  BY <1>6, <3>1 DEF StepsOf
  <2> QED  BY <2>1, <2>2
<1>10. AskedBy(req', Len(steps'), issued'[Attempt'])
  BY <1>1, <1>4 DEF Attempt
<1>11. req'.backend = "kubernetes" /\ req'.confirmed =>
         Len(steps') <= 2 * Size(req') \/ Len(steps') >= 3 * Size(req')
  <2> SUFFICES ASSUME req.backend = "kubernetes", req.confirmed
               PROVE  k <= 2 * n \/ k >= 3 * n
    BY <1>1, <1>4 DEF n
  <2>1. n \in Nat \ {0}
    BY <1>2, RequestPlan DEF Requests, n
  <2>2. ~ (2 * n < k /\ k <= 3 * n)
    BY DEF Via, n
  <2> QED  BY <1>4, <2>1, <2>2
<1>12. pc' # "idle" /\ (pc' # "steps" => todo' = << >>)
  BY <1>1
<1> QED  BY <1>1, <1>7, <1>8, <1>9, <1>10, <1>11, <1>12 DEF StepsInv

\* The results of the one NetworkPolicy command recorded.
LEMMA PolicyRecorded ==
  ASSUME TypeInv, StepsInv, Doing("apply"), req.confirmed,
         NEW o \in Outcomes, o[1] # "raises", Start(Head(todo), o[2]),
         steps' = steps \o [i \in 1 .. Len(req.nodes) |-> StepResult(todo[i], o[1])],
         todo' = SubSeq(todo, Len(req.nodes) + 1, Len(todo)),
         UNCHANGED << pc, req, file, posted, report >>
  PROVE  StepsInv'
<1> DEFINE n == Size(req)
           k == Len(steps)
<1>1. pc = "steps" /\ todo # << >>
  BY DEF Doing
<1>2. /\ n \in Nat \ {0} /\ req.backend = "kubernetes" /\ n = Len(req.nodes)
      /\ Len(steps) = 2 * n /\ Len(todo) = 2 * n /\ Len(Plan(req)) = 4 * n
  BY ApplyServesAll DEF Size
<1>3. /\ req \in Requests /\ Head(todo) = Plan(req)[k + 1] /\ Attempt \in 1 .. MaxAttempts
      /\ Effect(Head(todo)) \in Effects
  BY <1>1, NextOperation
<1>4. \A i \in 1 .. n : /\ todo[i] = Plan(req)[2 * n + i] /\ todo[i] \in Operations
                        /\ Plan(req)[2 * n + i].via = "apply"
                        /\ Via(req, 2 * n + i) = "apply"
                        /\ Plan(req)[2 * n + i].operation = "isolate_network"
  <2> SUFFICES ASSUME NEW i \in 1 .. n
               PROVE  /\ todo[i] = Plan(req)[2 * n + i] /\ todo[i] \in Operations
                      /\ Plan(req)[2 * n + i].via = "apply"
                      /\ Via(req, 2 * n + i) = "apply"
                      /\ Plan(req)[2 * n + i].operation = "isolate_network"
    OBVIOUS
  <2> HIDE DEF n
  <2>1. i \in 1 .. Len(todo) /\ 2 * n + i \in 1 .. Len(Plan(req))
    BY <1>2
  <2>2. i \in DOMAIN todo /\ todo[i] \in Operations
    BY <2>1 DEF TypeInv
  <2>3. todo[i] = Plan(req)[2 * n + i]
    BY <1>1, <1>2, <2>2 DEF StepsInv
  <2>4. Via(req, 2 * n + i) = "apply"
    BY <1>2, <2>1 DEF Via, n
  <2>5. /\ Plan(req)[2 * n + i].via = Via(req, 2 * n + i)
        /\ Via(req, 2 * n + i) = "apply" =>
             Plan(req)[2 * n + i].operation = "isolate_network"
    BY <1>3, <2>1, RequestPlan DEF Requests
  <2> QED  BY <2>2, <2>3, <2>4, <2>5
<1>5. \A i \in 1 .. n : Effect(Plan(req)[2 * n + i]) = Effect(Head(todo))
  <2>1. Effect(Head(todo)) = [operation |-> "isolate_network", target |-> Namespace]
    <3>1. 1 \in 1 .. n /\ k + 1 = 2 * n + 1
      BY <1>2
    <3> QED  BY <1>3, <1>4, <3>1 DEF Effect
  <2> QED  BY <1>4, <2>1 DEF Effect
<1>6. o[1] \in {"success", "failure"} /\ (o[1] = "success" => o[2] \in {"now", "later"})
  BY DEF Outcomes
<1>7. /\ Due \subseteq Due' /\ issued'[Attempt] = Append(issued[Attempt], Effect(Head(todo)))
      /\ o[1] = "success" => Effect(Head(todo)) \in Due'
  BY <1>1, <1>6, StartTypes
<1>8. PICK new : new = [i \in 1 .. n |-> StepResult(todo[i], o[1])]
  OBVIOUS
<1>9. /\ new \in Seq(StepResults) /\ Len(new) = n
      /\ \A i \in 1 .. n : new[i] = StepResult(Plan(req)[2 * n + i], o[1])
                           /\ new[i].status = o[1]
  <2>1. \A i \in 1 .. n : /\ new[i] = StepResult(todo[i], o[1])
                          /\ StepResult(todo[i], o[1]) \in StepResults
                          /\ StepResult(todo[i], o[1]).status = o[1]
    BY <1>4, <1>6, <1>8 DEF StepResult, StepResults, Operations, OperationsOn, Ways
  <2>2. new \in Seq(StepResults) /\ Len(new) = n
    <3>1. n \in Nat /\ \A i \in 1 .. n : StepResult(todo[i], o[1]) \in StepResults
      BY <1>2, <2>1
    <3> HIDE DEF n
    <3> QED  BY <1>8, <3>1
  <2> QED  BY <1>4, <2>1, <2>2
<1>10. /\ Len(steps') = 3 * n /\ DOMAIN steps' = 1 .. 3 * n
       /\ \A i \in 1 .. 2 * n : i \in DOMAIN steps /\ steps'[i] = steps[i]
       /\ \A i \in 1 .. n : steps'[2 * n + i] = new[i]
  <2>1. steps \in Seq(StepResults)
    BY DEF TypeInv
  <2>2. PICK s : s = steps \o new
    OBVIOUS
  <2>3. /\ s \in Seq(StepResults) /\ Len(s) = Len(steps) + Len(new)
        /\ \A i \in 1 .. Len(steps) : s[i] = steps[i]
        /\ \A i \in 1 .. Len(new) : s[Len(steps) + i] = new[i]
    <3>1. PICK old : old = steps
      OBVIOUS
    <3>2. old \in Seq(StepResults) /\ new \in Seq(StepResults) /\ s = old \o new
      BY <1>9, <2>1, <2>2, <3>1
    <3> QED  BY <3>1, <3>2, OneAndThen
  <2>4. DOMAIN s = 1 .. Len(s) /\ DOMAIN steps = 1 .. Len(steps)
    BY <2>1, <2>3
  <2>5. steps' = s
    BY <1>8, <2>2 DEF Size
  <2> HIDE DEF n
  <2>6. Len(s) = 3 * n
    BY <1>2, <1>9, <2>3
  <2> QED  BY <1>2, <1>9, <2>3, <2>4, <2>5, <2>6
<1>11. /\ Len(todo') = n /\ DOMAIN todo' = 1 .. n
       /\ \A i \in 1 .. n : todo'[i] = todo[n + i]
  <2>1. \A i \in n + 1 .. 2 * n : todo[i] \in Operations
    BY <1>2 DEF TypeInv
  <2>2. PICK t : t = SubSeq(todo, n + 1, 2 * n)
    OBVIOUS
  <2>3. todo' = t
    BY <1>2, <2>2
  <2> HIDE DEF n
  <2>4. n + 1 \in Int /\ 2 * n \in Int /\ n + 1 <= 2 * n /\ 2 * n - (n + 1) + 1 = n
    BY <1>2
  <2>5. t \in Seq(Operations) /\ Len(t) = n /\ \A i \in 1 .. n : t[i] = todo[n + 1 + i - 1]
    <3>1. /\ t \in Seq(Operations)
          /\ Len(t) = IF n + 1 <= 2 * n THEN 2 * n - (n + 1) + 1 ELSE 0
          /\ \A i \in 1 .. 2 * n - (n + 1) + 1 : t[i] = todo[n + 1 + i - 1]
      <4>1. PICK a, b : a = n + 1 /\ b = 2 * n
        OBVIOUS
      <4>2. t = SubSeq(todo, a, b) /\ a \in Int /\ b \in Int
        BY <2>2, <2>4, <4>1
      <4>3. \A i \in a .. b : todo[i] \in Operations
        BY <2>1, <4>1
      <4>4. PICK s : s = todo
        OBVIOUS
      <4> QED  BY <4>1, <4>2, <4>3, <4>4, SubSeqProperties
    <3> QED  BY <2>4, <3>1
  <2>6. DOMAIN t = 1 .. n
    BY <2>5
  <2>7. \A i \in 1 .. n : n + 1 + i - 1 = n + i
    BY <1>2
  <2> QED  BY <2>3, <2>5, <2>6, <2>7
<1> DEFINE p == Plan(req)
<1>12. \A i \in DOMAIN todo' : todo'[i] = Plan(req')[Len(steps') + i]
  <2> SUFFICES ASSUME NEW i \in 1 .. n PROVE todo'[i] = Plan(req)[3 * n + i]
    BY <1>10, <1>11
  <2> HIDE DEF n
  <2>1. n + i \in 1 .. Len(todo) /\ Len(steps) + (n + i) = 3 * n + i
    BY <1>2
  <2>2. n + i \in DOMAIN todo
    BY <2>1 DEF TypeInv
  <2> QED  BY <1>1, <1>11, <2>1, <2>2 DEF StepsInv
<1>13. StepsOf(req', steps', Due')
  <2> SUFFICES ASSUME NEW i \in 1 .. 3 * n
               PROVE  /\ steps'[i] = StepResult(Plan(req)[i], steps'[i].status)
                      /\ steps'[i].status \in Statuses(req, i)
                      /\ steps'[i].status = "success" => Effect(Plan(req)[i]) \in Due'
    BY <1>10 DEF StepsOf
  <2>1. CASE i <= 2 * n
    <3>1. i \in DOMAIN steps /\ steps'[i] = steps[i]
      BY <1>2, <1>10, <2>1
    <3>2. StepsOf(req, steps, Due)
      BY <1>1 DEF StepsInv
    <3> QED  BY <1>7, <3>1, <3>2 DEF StepsOf
  <2>2. CASE i > 2 * n
    <3>1. PICK j \in 1 .. n : i = 2 * n + j
      <4> HIDE DEF n
      <4>1. i - 2 * n \in 1 .. n /\ i = 2 * n + (i - 2 * n)
        BY <1>2, <2>2
      <4> QED  BY <4>1
    <3>2. /\ steps'[i] = new[j] /\ new[j] = StepResult(Plan(req)[i], o[1])
          /\ new[j].status = o[1] /\ Via(req, i) = "apply"
          /\ Effect(Plan(req)[i]) = Effect(Head(todo))
      BY <1>4, <1>5, <1>9, <1>10, <3>1
    <3>3. o[1] \in Statuses(req, i)
      BY <1>6, <3>2 DEF Statuses
    <3> QED  BY <1>7, <3>2, <3>3
  <2> QED  BY <1>2, <2>1, <2>2
<1>14. AskedBy(req', Len(steps'), issued'[Attempt'])
  <2>1. FirstRun(req) = 1 /\ FinalRun(req) = 2 * n + 1
    BY <1>2 DEF FirstRun, FinalRun
  <2>2. AskedBy(req, 2 * n, issued[Attempt])
    BY <1>1, <1>2 DEF StepsInv
  <2>3. PICK done \in Seq(Effects) : done = issued[Attempt]
    BY <1>3 DEF TypeInv
  <2>4. PICK e \in Effects : e = Effect(Head(todo)) /\ e = Effect(Plan(req)[2 * n + 1])
    BY <1>2, <1>3
  <2>5. PICK r : r = req /\ r.backend \in InUse /\ r.nodes \in NodeLists /\ r.confirmed
    BY <1>3 DEF Requests
  <2> HIDE DEF n
  <2>6. /\ 2 * n \in Nat /\ 2 * n + 1 \in Nat /\ 3 * n \in Nat /\ 2 * n + 1 <= 3 * n
        /\ FirstRun(r) <= 2 * n + 1 /\ 2 * n + 1 <= FinalRun(r)
    BY <1>2, <2>1, <2>5
  <2>7. AskedBy(r, 2 * n + 1, Append(done, e))
    BY <2>2, <2>3, <2>4, <2>5, <2>6, AskedMore
  <2>8. AskedBy(r, 3 * n, Append(done, e))
    BY <2>5, <2>6, <2>7, AskedStays, <2>1
  <2> QED  BY <1>7, <1>10, <2>3, <2>4, <2>5, <2>8 DEF Attempt
<1>15. Len(steps') + Len(todo') = Len(Plan(req'))
  <2> HIDE DEF n
  <2> QED  BY <1>2, <1>10, <1>11
<1>16. pc' = "steps" /\ Len(steps') >= 3 * Size(req')
  <2>1. Size(req') = n /\ pc' = "steps"
    BY <1>1
  <2> HIDE DEF n
  <2> QED  BY <1>2, <1>10, <2>1
<1> QED  BY <1>12, <1>13, <1>14, <1>15, <1>16 DEF StepsInv

\* What a step does to the cluster and to the commands asked for: it runs the
\* command of the next operation, or no command.
Commands ==
  \/ /\ pc = "steps" /\ todo # << >>
     /\ \E when \in {"never", "now", "later"} : Start(Head(todo), when)
  \/ issued' = issued /\ Due' = Due

LEMMA WorldStep ==
  ASSUME [Next]_vars
  PROVE  Commands
<1>1. \A o \in Outcomes : o[2] \in {"never", "now", "later"}
  BY DEF Outcomes
<1>2. CASE RunStep \/ ApplyPolicy
  BY <1>1, <1>2 DEF RunStep, ApplyPolicy, Doing, Commands
<1>3. CASE Kill
  <2>1. CASE UNCHANGED world
    BY <2>1 DEF Commands, world, Due
  <2>2. CASE ~ UNCHANGED world
    BY <1>3, <2>2 DEF Kill, Commands, Doing
  <2> QED  BY <2>1, <2>2
<1>4. CASE TakeEffect
  BY <1>4 DEF TakeEffect, Commands, Due
<1>5. CASE UNCHANGED world
  BY <1>5 DEF world, Commands, Due
<1>6. CASE Begin \/ ResolutionFails \/ SkipStep \/ PlanStep
  BY <1>5, <1>6 DEF Begin, ResolutionFails, SkipStep, PlanStep
<1>7. CASE BuildRecord \/ Sign \/ AppendRecord \/ PostToCollector \/ Return
  BY <1>5, <1>7 DEF BuildRecord, Sign, AppendRecord, PostToCollector, Return, Idle, world
<1>8. CASE UNCHANGED vars
  BY <1>5, <1>8 DEF vars
<1> QED
  BY <1>2, <1>3, <1>4, <1>6, <1>7, <1>8 DEF Next, Progress

\* An invocation ends with what it tells, and not otherwise.
LEMMA ReportStep ==
  ASSUME [Next]_vars
  PROVE  \/ report' = report /\ (pc' = "idle" => pc = "idle")
         \/ \E how \in {"ok", "failures", "raised", "killed"} : End(how)
<1>1. CASE RunStep
  BY <1>1 DEF RunStep, Record
<1>2. CASE ApplyPolicy
  BY <1>2 DEF ApplyPolicy
<1>3. CASE Begin \/ SkipStep \/ PlanStep \/ TakeEffect
  BY <1>3 DEF Begin, SkipStep, PlanStep, TakeEffect, Record
<1>4. CASE BuildRecord \/ Sign \/ AppendRecord \/ PostToCollector
  BY <1>4 DEF BuildRecord, Sign, AppendRecord, GoOn, PostToCollector
<1>5. CASE ResolutionFails \/ Return \/ Kill
  BY <1>5 DEF ResolutionFails, Return, Kill
<1>6. CASE UNCHANGED vars
  BY <1>6 DEF vars
<1> QED
  BY <1>1, <1>2, <1>3, <1>4, <1>5, <1>6 DEF Next, Progress

\* What a halt asked for stands still once it is past its commands.
LEMMA IssuedStep ==
  ASSUME TypeInv, StepsInv, [Next]_vars
  PROVE  /\ Due \subseteq Due' /\ DOMAIN issued' = DOMAIN issued
         /\ \A a \in DOMAIN issued :
              a # Attempt \/ pc # "steps" \/ todo = << >> => issued'[a] = issued[a]
<1>1. CASE \E when \in {"never", "now", "later"} :
             pc = "steps" /\ todo # << >> /\ Start(Head(todo), when)
  <2>1. PICK when \in {"never", "now", "later"} : Start(Head(todo), when)
    BY <1>1
  <2> QED  BY <1>1, <2>1, StartTypes DEF TypeInv
<1>2. CASE issued' = issued /\ Due' = Due
  BY <1>2
<1> QED  BY <1>1, <1>2, WorldStep DEF Commands

\* Every step keeps the steps of a running halt on its plan.
LEMMA StepsStep == TypeInv /\ StepsInv /\ UnaskedInv /\ [Next]_vars => StepsInv'
<1> SUFFICES ASSUME TypeInv, StepsInv, UnaskedInv, [Next]_vars PROVE StepsInv'
  OBVIOUS
<1>0. CASE pc' = "idle"
  BY <1>0 DEF StepsInv
<1>1. CASE Begin
  <2>1. /\ pc = "idle" /\ pc' = "steps" /\ steps' = << >> /\ report' = report
        /\ issued' = issued /\ req' \in Requests /\ todo' = Plan(req')
    <3>1. PICK b \in InUse, nodes \in NodeLists, confirm, sign, collect \in BOOLEAN :
            /\ req' = [backend |-> b, nodes |-> nodes, confirmed |-> confirm,
                       sign |-> sign, collect |-> collect]
            /\ todo' = HaltPlan(b, nodes)
      BY <1>1 DEF Begin
    <3> QED  BY <1>1, <3>1 DEF Begin, world, Requests, Plan
  <2>2. PICK r \in Requests : r = req'
    BY <2>1
  <2>3. /\ Plan(r) \in Seq(Operations) /\ Size(r) \in Nat \ {0}
        /\ r.backend \in InUse /\ r.nodes \in NodeLists
    BY RequestPlan DEF Requests
  <2>4. issued[Attempt] = << >>
    <3>1. Attempt \in DOMAIN issued
      BY <1>1 DEF Begin, TypeInv, Attempt
    <3> QED  BY <2>1, <3>1 DEF UnaskedInv
  <2>5. AskedBy(r, 0, << >>)
    <3>1. 0 < FirstRun(r)
      BY <2>3, Stretch
    <3> QED  BY <3>1 DEF AskedBy
  <2>6. AskedBy(req', Len(steps'), issued'[Attempt'])
    BY <2>1, <2>2, <2>4, <2>5 DEF Attempt
  <2>7. StepsOf(req', steps', Due')
    BY <2>1 DEF StepsOf
  <2>8. /\ Len(steps') = 0 /\ Len(todo') = Len(Plan(req')) /\ Len(Plan(req')) \in Nat
        /\ \A i \in DOMAIN todo' : i \in Nat
    BY <2>1, <2>2, <2>3
  <2>9. /\ Len(steps') + Len(todo') = Len(Plan(req'))
        /\ \A i \in DOMAIN todo' : todo'[i] = Plan(req')[Len(steps') + i]
    BY <2>1, <2>8
  <2>10. Len(steps') <= 2 * Size(req')
    BY <2>2, <2>3, <2>8
  <2> QED  BY <2>1, <2>6, <2>7, <2>9, <2>10 DEF StepsInv
<1>2. CASE SkipStep
  <2>1. pc = "steps" /\ todo # << >> /\ Record("skipped") /\ UNCHANGED world
    BY <1>2 DEF SkipStep, Doing
  <2>2. /\ req \in Requests /\ Via(req, Len(steps) + 1) = "skipped"
        /\ Len(steps) + 1 \in 1 .. Len(Plan(req)) /\ Len(steps) \in Nat
    BY <1>2, <2>1, NextOperation DEF SkipStep, Doing, TypeInv
  <2>3. AskedBy(req, Len(steps) + 1, issued[Attempt])
    <3>1. PICK r, k, done : r = req /\ k = Len(steps) /\ done = issued[Attempt]
      OBVIOUS
    <3>2. AskedBy(r, k, done)
      BY <2>1, <3>1 DEF StepsInv
    <3>3. /\ r.backend \in InUse /\ r.nodes \in NodeLists /\ k \in Nat /\ k + 1 \in Nat
          /\ k <= k + 1 /\ Via(r, k + 1) = "skipped" /\ k + 1 \in 1 .. Len(Plan(r))
      BY <2>2, <3>1 DEF Requests
    <3>4. k + 1 < FirstRun(r) \/ FinalRun(r) <= k
      BY <3>3, Stretch
    <3> QED  BY <3>1, <3>2, <3>3, <3>4, AskedStays
  <2>4. "skipped" \in Statuses(req, Len(steps) + 1)
    BY <2>2 DEF Statuses
  <2> QED  BY <2>1, <2>2, <2>3, <2>4, StepRecorded DEF world, Due
<1>3. CASE PlanStep
  <2>1. /\ pc = "steps" /\ todo # << >> /\ Record("planned") /\ UNCHANGED world
        /\ ~req.confirmed /\ Head(todo).via # "skipped"
    BY <1>3 DEF PlanStep, Doing
  <2>2. /\ req \in Requests /\ Via(req, Len(steps) + 1) # "skipped"
        /\ Len(steps) + 1 \in 1 .. Len(Plan(req)) /\ Len(steps) \in Nat
    BY <2>1, NextOperation DEF TypeInv
  <2>3. AskedBy(req, Len(steps) + 1, issued[Attempt])
    BY <2>1 DEF StepsInv, AskedBy
  <2>4. "planned" \in Statuses(req, Len(steps) + 1)
    BY <2>1, <2>2 DEF Statuses
  <2> QED  BY <2>1, <2>2, <2>3, <2>4, StepRecorded DEF world, Due
<1>4. CASE RunStep /\ pc' # "idle"
  <2>1. /\ pc = "steps" /\ todo # << >> /\ req.confirmed
        /\ Head(todo).via = "run_step"
    BY <1>4 DEF RunStep, Doing
  <2>2. PICK o \in Outcomes : Start(Head(todo), o[2]) /\ o[1] # "raises" /\ Record(o[1])
    BY <1>4 DEF RunStep, End
  <2>3. /\ req \in Requests /\ Via(req, Len(steps) + 1) = "run_step"
        /\ Len(steps) + 1 \in 1 .. Len(Plan(req)) /\ Len(steps) \in Nat
        /\ Effect(Head(todo)) \in Effects /\ Head(todo) = Plan(req)[Len(steps) + 1]
        /\ Attempt \in 1 .. MaxAttempts
    BY <2>1, NextOperation DEF TypeInv
  <2>4. o[1] \in {"success", "failure"} /\ (o[1] = "success" => o[2] \in {"now", "later"})
    BY <2>2 DEF Outcomes
  <2>5. /\ Due \subseteq Due'
        /\ issued'[Attempt] = Append(issued[Attempt], Effect(Head(todo)))
        /\ o[1] = "success" => Effect(Head(todo)) \in Due'
    BY <2>1, <2>2, <2>4, StartTypes
  <2>6. AskedBy(req, Len(steps) + 1, issued'[Attempt])
    <3>1. PICK r, k, done, e :
            r = req /\ k = Len(steps) /\ done = issued[Attempt] /\ e = Effect(Head(todo))
      OBVIOUS
    <3>2. AskedBy(r, k, done)
      BY <2>1, <3>1 DEF StepsInv
    <3>3. /\ r.backend \in InUse /\ r.nodes \in NodeLists /\ k \in Nat /\ r.confirmed
          /\ Via(r, k + 1) = "run_step" /\ k + 1 \in 1 .. Len(Plan(r))
          /\ done \in Seq(Effects) /\ e \in Effects /\ e = Effect(Plan(r)[k + 1])
      BY <2>1, <2>3, <3>1 DEF Requests, TypeInv
    <3>4. FirstRun(r) <= k + 1 /\ k + 1 <= FinalRun(r)
      BY <3>3, Stretch
    <3>5. AskedBy(r, k + 1, Append(done, e))
      BY <3>2, <3>3, <3>4, AskedMore
    <3> QED  BY <2>5, <3>1, <3>5
  <2>7. o[1] \in Statuses(req, Len(steps) + 1)
    BY <2>1, <2>3, <2>4 DEF Statuses
  <2> QED  BY <2>1, <2>2, <2>3, <2>5, <2>6, <2>7, StepRecorded
<1>5. CASE ApplyPolicy /\ pc' # "idle"
  <2>1. PICK o \in Outcomes :
          /\ Start(Head(todo), o[2]) /\ o[1] # "raises"
          /\ steps' = steps \o [i \in 1 .. Len(req.nodes) |-> StepResult(todo[i], o[1])]
          /\ todo' = SubSeq(todo, Len(req.nodes) + 1, Len(todo))
          /\ UNCHANGED << pc, req, file, posted, report >>
    BY <1>5 DEF ApplyPolicy, End
  <2>2. Doing("apply") /\ req.confirmed
    BY <1>5 DEF ApplyPolicy
  <2> QED  BY <2>1, <2>2, PolicyRecorded
<1>6. CASE TakeEffect
  <2>1. /\ UNCHANGED << pc, req, todo, steps, issued, file, posted, report >>
        /\ Due \subseteq Due'
    BY <1>6 DEF TakeEffect, Due
  <2> QED  BY <2>1, EffectsGrow DEF StepsInv, Attempt
<1>7. CASE BuildRecord /\ pc' # "idle"
  <2>1. /\ pc = "steps" /\ todo = << >> /\ pc' = "built"
        /\ UNCHANGED << report, req, todo, steps, cluster, late, issued >>
    BY <1>7 DEF BuildRecord, Idle, world, End
  <2>2. Len(steps) \in Nat /\ Len(todo) = 0
    BY <2>1 DEF TypeInv
  <2>3. Len(steps) = Len(Plan(req))
    BY <2>1, <2>2 DEF StepsInv
  <2> QED  BY <2>1, <2>3 DEF StepsInv, Attempt, Due
<1>8. CASE (Sign \/ AppendRecord \/ PostToCollector) /\ pc' # "idle"
  <2>1. /\ pc \notin {"idle", "steps"} /\ pc' \notin {"idle", "steps"}
        /\ UNCHANGED << report, req, todo, steps, cluster, late, issued >>
    BY <1>8 DEF Sign, AppendRecord, PostToCollector, GoOn, Idle, world, End
  <2> QED  BY <2>1 DEF StepsInv, Attempt, Due
<1>9. CASE UNCHANGED vars
  BY <1>9 DEF vars, world, StepsInv, Attempt, Due
<1>10. CASE ResolutionFails \/ Return \/ Kill
  BY <1>0, <1>10 DEF ResolutionFails, Return, Kill, End
<1> QED
  BY <1>0, <1>1, <1>2, <1>3, <1>4, <1>5, <1>6, <1>7, <1>8, <1>9, <1>10
     DEF Next, Progress

LEMMA UnaskedStep == TypeInv /\ StepsInv /\ UnaskedInv /\ [Next]_vars => UnaskedInv'
<1> SUFFICES ASSUME TypeInv, StepsInv, UnaskedInv, [Next]_vars,
                    NEW a \in DOMAIN issued',
                    a > Attempt' \/ (a = Attempt' /\ pc' = "idle")
             PROVE  issued'[a] = << >>
  BY DEF UnaskedInv
<1>1. a \in DOMAIN issued /\ a \in 1 .. MaxAttempts /\ Attempt \in Nat
  <2>1. DOMAIN issued = 1 .. MaxAttempts /\ Len(report) \in Nat
    BY DEF TypeInv
  <2>2. DOMAIN issued' = DOMAIN issued
    BY IssuedStep
  <2> QED  BY <2>1, <2>2 DEF Attempt
<1>2. a > Attempt \/ (a = Attempt /\ pc = "idle")
  <2>1. CASE report' = report /\ (pc' = "idle" => pc = "idle")
    BY <2>1 DEF Attempt
  <2>2. CASE \E how \in {"ok", "failures", "raised", "killed"} : End(how)
    <3>1. PICK how \in {"ok", "failures", "raised", "killed"} :
            report' = Append(report, how)
      BY <2>2 DEF End
    <3>2. Len(Append(report, how)) = Len(report) + 1
      BY AppendProperties DEF TypeInv
    <3>3. Attempt' = Attempt + 1
      BY <3>1, <3>2 DEF Attempt
    <3> QED  BY <1>1, <3>3
  <2> QED  BY <2>1, <2>2, ReportStep
<1>3. issued[a] = << >>
  BY <1>1, <1>2 DEF UnaskedInv
<1>4. issued'[a] = issued[a]
  BY <1>1, <1>2, IssuedStep
<1> QED  BY <1>3, <1>4

\* Every effect, come or to come, was asked for.
LEMMA EffectsStep == TypeInv /\ StepsInv /\ EffectsInv /\ [Next]_vars => EffectsInv'
<1> SUFFICES ASSUME TypeInv, StepsInv, EffectsInv, [Next]_vars,
                    NEW e \in Due'
             PROVE  \E a \in DOMAIN issued' : e \in ToSet(issued'[a])
  BY DEF EffectsInv
<1>1. CASE \E when \in {"never", "now", "later"} :
             pc = "steps" /\ todo # << >> /\ Start(Head(todo), when)
  <2>1. PICK when \in {"never", "now", "later"} : Start(Head(todo), when)
    BY <1>1
  <2>2. /\ issued'[Attempt] = Append(issued[Attempt], Effect(Head(todo)))
        /\ \A a \in DOMAIN issued : a # Attempt => issued'[a] = issued[a]
        /\ DOMAIN issued' = DOMAIN issued /\ Attempt \in DOMAIN issued
        /\ Effect(Head(todo)) \in Effects
    BY <1>1, <2>1, StartTypes, NextOperation DEF TypeInv
  <2>3. PICK s \in Seq(Effects), x \in Effects :
          s = issued[Attempt] /\ x = Effect(Head(todo))
    BY <2>2 DEF TypeInv
  <2>4. ToSet(s) \subseteq ToSet(Append(s, x)) /\ x \in ToSet(Append(s, x))
    <3>1. /\ Append(s, x) \in Seq(Effects) /\ Len(Append(s, x)) = Len(s) + 1
          /\ \A i \in 1 .. Len(s) : Append(s, x)[i] = s[i]
          /\ Append(s, x)[Len(s) + 1] = x
      BY AppendProperties
    <3>2. PICK t : t = Append(s, x)
      OBVIOUS
    <3>3. DOMAIN s = 1 .. Len(s) /\ DOMAIN t = 1 .. Len(s) + 1 /\ Len(s) \in Nat
      BY <3>1, <3>2
    <3> QED  BY <3>1, <3>2, <3>3 DEF ToSet
  <2>5. e \in Due \/ e = x
    BY <2>1, <2>3 DEF Start, Due
  <2>6. CASE e = x
    BY <2>2, <2>3, <2>4, <2>6
  <2>7. CASE e \in Due
    <3>1. PICK a \in DOMAIN issued : e \in ToSet(issued[a])
      BY <2>7 DEF EffectsInv
    <3> QED  BY <2>2, <2>3, <2>4, <3>1
  <2> QED  BY <2>5, <2>6, <2>7
<1>2. CASE issued' = issued /\ Due' = Due
  BY <1>2 DEF EffectsInv
<1> QED  BY <1>1, <1>2, WorldStep DEF Commands

-----------------------------------------------------------------------------
(* The records *)

\* The record of a halt that is past its commands tells of the whole plan.
LEMMA RecordOfHalt ==
  ASSUME TypeInv, StepsInv, pc \notin {"idle", "steps"}
  PROVE  RecordInv(HaltRecord, issued[Attempt], Due)
<1>1. PICK h, r : h = HaltRecord /\ r = req
  OBVIOUS
<1>2. /\ h.steps = steps /\ h.confirmed = r.confirmed /\ h.backend = r.backend
      /\ Size(h) = Size(r) /\ Plan(h) = Plan(r)
  BY <1>1, RecordMade
<1>3. Len(todo) = 0 /\ Len(steps) \in Nat
  BY DEF TypeInv, StepsInv
<1>4. /\ Len(steps) = Len(Plan(r)) /\ StepsOf(r, steps, Due)
      /\ AskedBy(r, Len(Plan(r)), issued[Attempt])
  BY <1>1, <1>3 DEF StepsInv
<1>5. FirstRun(h) = FirstRun(r) /\ FinalRun(h) = FinalRun(r)
  BY <1>2 DEF FirstRun, FinalRun
<1>6. \A i : Statuses(h, i) = Statuses(r, i)
  BY <1>2, <1>5 DEF Statuses, Via
<1>7. StepsOf(h, h.steps, Due)
  BY <1>2, <1>4, <1>6 DEF StepsOf
<1>8. AskedBy(h, Len(Plan(h)), issued[Attempt])
  BY <1>2, <1>4, <1>5 DEF AskedBy
<1> QED  BY <1>1, <1>2, <1>4, <1>7, <1>8 DEF RecordInv

\* What a record in the log says stays true.
LEMMA RecordsKept ==
  ASSUME TypeInv, StepsInv, LogInv, [Next]_vars, NEW k \in DOMAIN log
  PROVE  RecordInv(log[k], issued'[log[k].attempt], Due')
<1>1. log[k] \in HaltRecords /\ log[k].attempt \in DOMAIN issued
  <2>1. log[k] \in HaltRecords
    BY DEF TypeInv
  <2>2. DOMAIN issued = 1 .. MaxAttempts
    BY DEF TypeInv
  <2> QED  BY <2>1, <2>2 DEF HaltRecords
<1>2. RecordInv(log[k], issued[log[k].attempt], Due)
  BY DEF LogInv
<1>3. issued'[log[k].attempt] = issued[log[k].attempt] /\ Due \subseteq Due'
  <2>1. log[k].attempt < Attempt \/ pc # "steps"
    BY DEF LogInv
  <2>2. log[k].attempt # Attempt \/ pc # "steps"
    BY <1>1, <2>1 DEF TypeInv, Attempt
  <2> QED  BY <1>1, <2>2, IssuedStep
<1> QED  BY <1>2, <1>3, EffectsGrow DEF RecordInv

\* The log stands as it is, and so does the halt in its last steps.
LEMMA LogStands ==
  ASSUME TypeInv, StepsInv, LogInv, [Next]_vars, log' = log, report' = report,
         pc \in {"posting", "returning"} <=> pc' \in {"posting", "returning"},
         pc' \in {"posting", "returning"} => HaltRecord' = HaltRecord,
         posted' \subseteq ToSet(log)
  PROVE  LogInv'
<1>1. \A k \in DOMAIN log : RecordInv(log[k], issued'[log[k].attempt], Due')
  BY RecordsKept
<1>2. Attempt' = Attempt
  BY DEF Attempt
<1> QED  BY <1>1, <1>2 DEF LogInv

\* One more answer to a caller.
LEMMA OneMoreReport ==
  ASSUME TypeInv, NEW how \in {"ok", "failures", "raised", "killed"}, End(how)
  PROVE  /\ DOMAIN report = 1 .. Attempt - 1 /\ DOMAIN report' = 1 .. Attempt
         /\ Attempt' = Attempt + 1 /\ report'[Attempt] = how /\ Attempt \in Nat \ {0}
         /\ \A a \in DOMAIN report : report'[a] = report[a]
<1> DEFINE S == {"ok", "failures", "raised", "killed"}
<1>1. report \in Seq(S) /\ report' = Append(report, how)
  BY DEF TypeInv, End
<1> HIDE DEF S
<1>2. how \in S
  BY DEF S
<1>3. PICK t : t = Append(report, how)
  OBVIOUS
<1>4. /\ t \in Seq(S) /\ Len(t) = Len(report) + 1 /\ t[Len(report) + 1] = how
      /\ \A a \in 1 .. Len(report) : t[a] = report[a]
  BY <1>1, <1>2, <1>3, AppendProperties
<1>5. /\ DOMAIN t = 1 .. Len(report) + 1
      /\ DOMAIN report = 1 .. Len(report) /\ Len(report) \in Nat
  BY <1>1, <1>4
<1> QED  BY <1>1, <1>3, <1>4, <1>5 DEF Attempt

\* A halt that ends, and its record stays.
LEMMA LogEnds ==
  ASSUME TypeInv, StepsInv, LogInv, [Next]_vars, log' = log,
         NEW how \in {"ok", "failures", "raised", "killed"}, End(how),
         how \in {"ok", "failures"} => pc = "returning",
         how = "ok" => ~Failed(steps), posted' \subseteq ToSet(log)
  PROVE  LogInv'
<1>1. \A k \in DOMAIN log : RecordInv(log[k], issued'[log[k].attempt], Due')
  BY RecordsKept
<1>2. /\ DOMAIN report = 1 .. Attempt - 1 /\ DOMAIN report' = 1 .. Attempt
      /\ Attempt' = Attempt + 1 /\ report'[Attempt] = how /\ Attempt \in Nat \ {0}
      /\ \A a \in DOMAIN report : report'[a] = report[a]
  BY OneMoreReport
<1>3. pc' = "idle"
  BY DEF End
<1>4. /\ \A k \in DOMAIN log : /\ log[k].attempt \in 1 .. Attempt
                               /\ log[k].attempt < Attempt /\ report[log[k].attempt] = "ok"
                                    => ~Failed(log[k].steps)
      /\ \A j, k \in DOMAIN log : log[j].attempt = log[k].attempt => j = k
  <2>1. \A k \in DOMAIN log : log[k].attempt \in Nat \ {0}
    <3>1. \A k \in DOMAIN log : log[k] \in HaltRecords
      BY DEF TypeInv
    <3> QED  BY <3>1 DEF HaltRecords
  <2>2. \A k \in DOMAIN log : log[k].attempt < Attempt \/ log[k].attempt = Attempt
    BY DEF LogInv
  <2>3. \A k \in DOMAIN log : log[k].attempt \in 1 .. Attempt
    BY <1>2, <2>1, <2>2
  <2> QED  BY <2>3 DEF LogInv
<1>5. pc = "returning" =>
        \E k \in DOMAIN log : log[k].attempt = Attempt /\ log[k].steps = steps
  BY RecordMade DEF LogInv
<1>6. ASSUME NEW k \in DOMAIN log, report'[log[k].attempt] = "ok"
      PROVE  ~Failed(log[k].steps)
  <2>1. CASE log[k].attempt = Attempt
    <3>1. how = "ok"
      BY <1>2, <1>6, <2>1
    <3>2. PICK j \in DOMAIN log : log[j].attempt = Attempt /\ log[j].steps = steps
      BY <1>5, <3>1
    <3> QED  BY <1>4, <2>1, <3>1, <3>2
  <2>2. CASE log[k].attempt # Attempt
    <3>1. log[k].attempt \in DOMAIN report /\ log[k].attempt < Attempt
      BY <1>2, <1>4, <2>2
    <3> QED  BY <1>2, <1>4, <1>6, <3>1
  <2> QED  BY <2>1, <2>2
<1>7. ASSUME NEW a \in DOMAIN report', report'[a] \in {"ok", "failures"}
      PROVE  \E k \in DOMAIN log : log[k].attempt = a
  <2>1. CASE a = Attempt
    BY <1>2, <1>5, <1>7, <2>1
  <2>2. CASE a # Attempt
    <3>1. a \in DOMAIN report /\ report[a] \in {"ok", "failures"}
      BY <1>2, <1>7, <2>2
    <3> QED  BY <3>1 DEF LogInv
  <2> QED  BY <2>1, <2>2
<1>8. \A k \in DOMAIN log : log[k].attempt < Attempt'
  BY <1>2, <1>4
<1> QED  BY <1>1, <1>3, <1>4, <1>6, <1>7, <1>8 DEF LogInv

\* A halt writes its record: it was past its commands, and had none.
LEMMA LogGrows ==
  ASSUME TypeInv, StepsInv, LogInv, pc = "signed", log' = Append(log, HaltRecord)
  PROVE  /\ Len(log) \in Nat /\ DOMAIN log = 1 .. Len(log)
         /\ DOMAIN log' = 1 .. Len(log) + 1
         /\ \A k \in DOMAIN log : log'[k] = log[k] /\ log[k].attempt < Attempt
         /\ log'[Len(log) + 1] = HaltRecord
         /\ ToSet(log) \subseteq ToSet(log')
         /\ \A j, k \in DOMAIN log' : log'[j].attempt = log'[k].attempt => j = k
<1>2. PICK r \in HaltRecords : r = HaltRecord /\ r.attempt = Attempt
  BY RecordMade
<1>3. PICK t : t = Append(log, r)
  OBVIOUS
<1>4. /\ t \in Seq(HaltRecords) /\ Len(t) = Len(log) + 1 /\ t[Len(log) + 1] = r
      /\ \A k \in 1 .. Len(log) : t[k] = log[k]
  BY <1>3, AppendProperties DEF TypeInv
<1>5. Len(log) \in Nat /\ DOMAIN log = 1 .. Len(log) /\ DOMAIN t = 1 .. Len(log) + 1
  BY <1>4 DEF TypeInv
<1>6. t = log'
  BY <1>2, <1>3
<1>7. \A k \in DOMAIN log : log[k].attempt < Attempt
  BY DEF LogInv
<1>8. ToSet(log) \subseteq ToSet(t)
  BY <1>4, <1>5 DEF ToSet
<1>9. ASSUME NEW j \in DOMAIN t, NEW k \in DOMAIN t, t[j].attempt = t[k].attempt
      PROVE  j = k
  <2>0. Attempt \in Nat
    BY DEF TypeInv, Attempt
  <2>1. CASE j = Len(log) + 1 \/ k = Len(log) + 1
    <3>1. \A i \in 1 .. Len(log) : t[i].attempt < Attempt
      BY <1>4, <1>5, <1>7
    <3>2. t[Len(log) + 1].attempt = Attempt
      BY <1>2, <1>4
    <3>3. \A i \in DOMAIN t : i = Len(log) + 1 \/ i \in 1 .. Len(log)
      BY <1>5
    <3> QED  BY <1>9, <2>0, <2>1, <3>1, <3>2, <3>3
  <2>2. CASE j # Len(log) + 1 /\ k # Len(log) + 1
    <3>1. j \in DOMAIN log /\ k \in DOMAIN log
      BY <1>5, <2>2
    <3> QED  BY <1>4, <1>5, <1>9, <3>1 DEF LogInv
  <2> QED  BY <2>1, <2>2
<1> QED  BY <1>2, <1>4, <1>5, <1>6, <1>7, <1>8, <1>9

\* Every step keeps the log.
LEMMA LogStep == TypeInv /\ StepsInv /\ LogInv /\ [Next]_vars => LogInv'
<1> SUFFICES ASSUME TypeInv, StepsInv, LogInv, [Next]_vars PROVE LogInv'
  OBVIOUS
<1> USE DEF file
<1>0. posted \subseteq ToSet(log)
  BY DEF LogInv
<1>1. CASE Begin \/ ((SkipStep \/ PlanStep \/ RunStep \/ ApplyPolicy) /\ pc' # "idle")
  <2>1. /\ log' = log /\ posted' = posted /\ report' = report
        /\ pc \in {"idle", "steps"} /\ pc' = "steps"
    <3>1. CASE RunStep /\ pc' # "idle"
      BY <3>1 DEF RunStep, Doing, End, Record
    <3>2. CASE ApplyPolicy /\ pc' # "idle"
      BY <3>2 DEF ApplyPolicy, Doing, End
    <3>3. CASE Begin \/ SkipStep \/ PlanStep
      BY <3>3 DEF Begin, SkipStep, PlanStep, Doing, Record
    <3> QED  BY <1>1, <3>1, <3>2, <3>3
  <2> QED  BY <1>0, <2>1, LogStands
<1>2. CASE (RunStep \/ ApplyPolicy) /\ pc' = "idle"
  <2>1. pc = "steps" /\ log' = log /\ posted' = posted /\ End("raised")
    <3>1. CASE RunStep /\ pc' = "idle"
      BY <3>1 DEF RunStep, Doing, End, Record
    <3>2. CASE ApplyPolicy /\ pc' = "idle"
      BY <3>2 DEF ApplyPolicy, Doing, End
    <3> QED  BY <1>2, <3>1, <3>2
  <2> QED  BY <1>0, <2>1, LogEnds
<1>3. CASE TakeEffect
  <2>1. UNCHANGED << pc, req, steps, log, posted, report >>
    BY <1>3 DEF TakeEffect
  <2> QED  BY <1>0, <2>1, LogStands DEF HaltRecord, Attempt
<1>4. CASE BuildRecord \/ Sign
  <2>1. log' = log /\ posted' = posted /\ pc \in {"steps", "built"}
    BY <1>4 DEF BuildRecord, Sign
  <2>2. \/ End("raised")
        \/ report' = report /\ pc' \in {"built", "signed"}
    BY <1>4 DEF BuildRecord, Sign
  <2>3. CASE End("raised")
    BY <1>0, <2>1, <2>3, LogEnds
  <2>4. CASE report' = report /\ pc' \in {"built", "signed"}
    BY <1>0, <2>1, <2>4, LogStands
  <2> QED  BY <2>2, <2>3, <2>4
<1>5. CASE pc = "signed" /\ (AppendRecord \/ Kill)
  <2>0. /\ pc = "signed" /\ posted' = posted
        /\ issued' = issued /\ Due' = Due /\ req' = req /\ steps' = steps
    <3>1. UNCHANGED << world, req, steps, posted >>
      BY <1>5 DEF AppendRecord, Kill, Idle, Doing
    <3> QED  BY <1>5, <3>1 DEF world, Due
  <2>10. \/ WriteLine /\ GoOn
         \/ CutLine /\ (End("raised") \/ End("killed"))
    BY <1>5 DEF AppendRecord, Kill
  <2>11. log' = log \/ log' = Append(log, HaltRecord)
    BY <2>0, <2>10, FileTypes
  <2>1. CASE log' = log
    <3>1. CASE End("raised") \/ End("killed")
      BY <1>0, <2>0, <2>1, <3>1, LogEnds
    <3>2. CASE WriteLine
      <4>1. PICK r \in HaltRecords : r = HaltRecord
        BY <2>0, RecordMade
      <4>2. log' = Append(log, r)
        BY <3>2, <4>1 DEF WriteLine
      <4>3. Len(Append(log, r)) = Len(log) + 1 /\ Len(log) \in Nat
        BY <4>1, AppendProperties DEF TypeInv
      <4> QED  BY <2>1, <4>2, <4>3
    <3> QED  BY <2>10, <3>1, <3>2
  <2>2. CASE log' = Append(log, HaltRecord)
    <3>1. /\ Len(log) \in Nat /\ DOMAIN log = 1 .. Len(log)
          /\ DOMAIN log' = 1 .. Len(log) + 1
          /\ \A k \in DOMAIN log : log'[k] = log[k] /\ log[k].attempt < Attempt
          /\ log'[Len(log) + 1] = HaltRecord
          /\ ToSet(log) \subseteq ToSet(log')
          /\ \A j, k \in DOMAIN log' : log'[j].attempt = log'[k].attempt => j = k
      BY <2>0, <2>2, LogGrows
    <3>2. \A k \in DOMAIN log : RecordInv(log[k], issued'[log[k].attempt], Due')
      BY RecordsKept
    <3>3. RecordInv(HaltRecord, issued[Attempt], Due) /\ HaltRecord.attempt = Attempt
      BY <2>0, RecordOfHalt, RecordMade
    <3>4. /\ \A k \in DOMAIN log' : \/ k \in DOMAIN log
                                    \/ k = Len(log) + 1
          /\ issued' = issued /\ Due' = Due
      BY <2>0, <3>1
    <3>5. ASSUME NEW k \in DOMAIN log'
          PROVE  RecordInv(log'[k], issued'[log'[k].attempt], Due')
      BY <3>1, <3>2, <3>3, <3>4
    <3>6. Attempt \in Nat /\ DOMAIN report = 1 .. Attempt - 1
      <4>1. Len(report) \in Nat /\ DOMAIN report = 1 .. Len(report)
        BY DEF TypeInv
      <4> QED  BY <4>1 DEF Attempt
    <3>7. posted' \subseteq ToSet(log')
      BY <1>0, <2>0, <3>1
    <3>8. \A a \in DOMAIN report : report[a] \in {"ok", "failures"} =>
            \E k \in DOMAIN log' : log'[k].attempt = a
      <4>1. \A k \in DOMAIN log : k \in DOMAIN log'
        BY <3>1
      <4> QED  BY <3>1, <4>1 DEF LogInv
    <3>9. CASE report' = report /\ pc' \in {"posting", "returning"}
      <4>1. Attempt' = Attempt /\ HaltRecord' = HaltRecord
        BY <2>0, <3>9 DEF HaltRecord, Attempt
      <4>2. Len(log) + 1 \in DOMAIN log'
        BY <3>1
      <4>3. ASSUME NEW k \in DOMAIN log'
            PROVE  /\ log'[k].attempt < Attempt \/ log'[k].attempt = Attempt
                   /\ log'[k].attempt < Attempt /\ report[log'[k].attempt] = "ok" =>
                        ~Failed(log'[k].steps)
        <5>1. CASE k \in DOMAIN log
          BY <3>1, <5>1 DEF LogInv
        <5>2. CASE k = Len(log) + 1
          BY <3>1, <3>3, <3>6, <5>2
        <5> QED  BY <3>4, <5>1, <5>2
      <4> QED  BY <3>1, <3>5, <3>7, <3>8, <3>9, <4>1, <4>2, <4>3 DEF LogInv
    <3>10. CASE End("raised") \/ End("killed")
      <4>1. /\ DOMAIN report' = 1 .. Attempt /\ Attempt' = Attempt + 1
            /\ report'[Attempt] \in {"raised", "killed"} /\ \A a \in DOMAIN report : report'[a] = report[a]
        BY <3>10, OneMoreReport
      <4>2. pc' = "idle"
        BY <3>10 DEF End
      <4>3. ASSUME NEW k \in DOMAIN log'
            PROVE  /\ log'[k].attempt < Attempt'
                   /\ report'[log'[k].attempt] = "ok" => ~Failed(log'[k].steps)
        <5>1. CASE k \in DOMAIN log
          <6>1. log[k].attempt \in Nat \ {0}
            <7>1. log[k] \in HaltRecords
              BY <5>1 DEF TypeInv
            <7> QED  BY <7>1 DEF HaltRecords
          <6>2. log'[k] = log[k] /\ log[k].attempt < Attempt
            BY <3>1, <5>1
          <6>3. log[k].attempt \in DOMAIN report
            BY <3>6, <6>1, <6>2
          <6>4. report'[log[k].attempt] = report[log[k].attempt]
            BY <4>1, <6>3
          <6>5. report[log[k].attempt] = "ok" => ~Failed(log[k].steps)
            BY <5>1, <6>2 DEF LogInv
          <6> QED  BY <3>6, <4>1, <6>1, <6>2, <6>4, <6>5
        <5>2. CASE k = Len(log) + 1
          BY <3>1, <3>3, <3>6, <4>1, <5>2
        <5> QED  BY <3>4, <5>1, <5>2
      <4>4. ASSUME NEW a \in DOMAIN report', report'[a] \in {"ok", "failures"}
            PROVE  \E k \in DOMAIN log' : log'[k].attempt = a
        <5>1. a \in DOMAIN report
          BY <3>6, <4>1, <4>4
        <5> QED  BY <3>8, <4>1, <4>4, <5>1
      <4> QED  BY <3>1, <3>5, <3>7, <4>2, <4>3, <4>4 DEF LogInv
    <3>11. \/ report' = report /\ pc' \in {"posting", "returning"}
           \/ End("raised") \/ End("killed")
      BY <2>10 DEF GoOn
    <3> QED  BY <3>9, <3>10, <3>11
  <2> QED  BY <2>1, <2>2, <2>11
<1>6. CASE PostToCollector
  <2>1. pc = "posting" /\ log' = log /\ UNCHANGED << Idle >>
    BY <1>6 DEF PostToCollector
  <2>2. posted' \subseteq ToSet(log)
    <3>1. HaltRecord \in ToSet(log)
      BY <2>1 DEF LogInv, ToSet
    <3> QED  BY <1>0, <1>6, <3>1 DEF PostToCollector
  <2>3. CASE End("raised")
    BY <2>1, <2>2, <2>3, LogEnds
  <2>4. CASE report' = report /\ pc' = "returning"
    <3>1. HaltRecord' = HaltRecord
      BY <2>1, <2>4 DEF Idle, HaltRecord, Attempt
    <3> QED  BY <2>1, <2>2, <2>4, <3>1, LogStands
  <2> QED  BY <1>6, <2>3, <2>4 DEF PostToCollector
<1>7. CASE Return
  BY <1>0, <1>7, LogEnds DEF Return
<1>8. CASE ResolutionFails \/ (Kill /\ pc # "signed")
  <2>1. log' = log /\ posted' = posted
    BY <1>8 DEF ResolutionFails, Kill
  <2>2. End("raised") \/ End("killed")
    BY <1>8 DEF ResolutionFails, Kill
  <2> QED  BY <1>0, <2>1, <2>2, LogEnds
<1>9. CASE UNCHANGED vars
  BY <1>0, <1>9, LogStands DEF vars, HaltRecord, Attempt
<1>10. CASE (SkipStep \/ PlanStep) /\ pc' = "idle"
  BY <1>10 DEF SkipStep, PlanStep, Doing, Record
<1>11. CASE AppendRecord
  BY <1>5, <1>11 DEF AppendRecord
<1>12. CASE Kill
  BY <1>5, <1>8, <1>12
<1> QED
  BY <1>1, <1>2, <1>3, <1>4, <1>6, <1>7, <1>8, <1>9, <1>10, <1>11, <1>12
     DEF Next, Progress

-----------------------------------------------------------------------------
(* The end of the file *)

\* What callers were told stands.
LEMMA ReportsStand ==
  ASSUME TypeInv, [Next]_vars
  PROVE  /\ Attempt \in Nat \ {0} /\ DOMAIN report = 1 .. Attempt - 1
         /\ \A a \in DOMAIN report : a \in DOMAIN report' /\ report'[a] = report[a]
<1>0. Attempt \in Nat \ {0} /\ DOMAIN report = 1 .. Attempt - 1
  <2>1. Len(report) \in Nat /\ DOMAIN report = 1 .. Len(report)
    BY DEF TypeInv
  <2> QED  BY <2>1 DEF Attempt
<1>1. CASE report' = report
  BY <1>0, <1>1
<1>2. CASE \E how \in {"ok", "failures", "raised", "killed"} : End(how)
  BY <1>0, <1>2, OneMoreReport
<1> QED  BY <1>1, <1>2, ReportStep

\* The collector receives the record of the running halt only.
LEMMA PostedStep ==
  ASSUME TypeInv, [Next]_vars, NEW r \in posted', r \notin posted
  PROVE  pc = "posting" /\ r.attempt = Attempt
<1>1. CASE PostToCollector
  BY <1>1, RecordMade DEF PostToCollector
<1>2. CASE ~PostToCollector
  <2>1. CASE RunStep \/ ApplyPolicy
    BY <2>1 DEF RunStep, ApplyPolicy, Record
  <2>2. CASE Begin \/ ResolutionFails \/ SkipStep \/ PlanStep \/ TakeEffect \/ Kill
    BY <2>2 DEF Begin, ResolutionFails, SkipStep, PlanStep, TakeEffect, Kill, Record
  <2>3. CASE BuildRecord \/ Sign \/ AppendRecord \/ Return
    BY <2>3 DEF BuildRecord, Sign, AppendRecord, Return
  <2> QED  BY <1>2, <2>1, <2>2, <2>3 DEF Next, Progress, vars
<1> QED  BY <1>1, <1>2

\* A halt that was cut short stays so, and its record is not posted later.
LEMMA CutStays ==
  ASSUME TypeInv, [Next]_vars, NEW r, Cut(r)
  PROVE  Cut(r)'
<1>1. r.attempt \in DOMAIN report' /\ report'[r.attempt] = report[r.attempt]
  BY ReportsStand DEF Cut
<1>2. r.attempt # Attempt
  BY ReportsStand DEF Cut
<1>3. r \notin posted'
  BY <1>2, PostedStep DEF Cut
<1> QED  BY <1>1, <1>3 DEF Cut

\* Nothing but append writes to the file; what else a step does to a halt.
LEMMA OtherSteps ==
  ASSUME [Next]_vars, ~(pc = "signed" /\ (AppendRecord \/ Kill))
  PROVE  /\ UNCHANGED file
         /\ \/ \E how \in {"ok", "failures", "raised", "killed"} :
                 End(how) /\ (how \in {"ok", "failures"} => pc = "returning")
            \/ /\ report' = report
               /\ \/ pc' = pc
                  \/ pc = "idle" /\ pc' = "steps"
                  \/ pc' = "built" /\ tail \in {"ended", "open"}
                  \/ pc = "built" /\ pc' = "signed"
                  \/ pc = "posting" /\ pc' = "returning"
<1>1. CASE RunStep \/ ApplyPolicy
  BY <1>1 DEF RunStep, ApplyPolicy, Record
<1>2. CASE Begin \/ SkipStep \/ PlanStep \/ TakeEffect
  BY <1>2 DEF Begin, SkipStep, PlanStep, TakeEffect, Record
<1>3. CASE ResolutionFails \/ Return
  BY <1>3 DEF ResolutionFails, Return
<1>4. CASE BuildRecord \/ Sign \/ PostToCollector
  BY <1>4 DEF BuildRecord, Sign, PostToCollector
<1>5. CASE AppendRecord
  BY <1>5 DEF AppendRecord
<1>6. CASE Kill
  BY <1>6 DEF Kill
<1> QED  BY <1>1, <1>2, <1>3, <1>4, <1>5, <1>6 DEF Next, Progress, vars

\* The file stands, and no halt gets further than its end allows.
LEMMA TailStands ==
  ASSUME TypeInv, TailInv, [Next]_vars, ~(pc = "signed" /\ (AppendRecord \/ Kill))
  PROVE  TailInv'
<1>1. log' = log /\ tail' = tail
  BY OtherSteps DEF file
<1>2. PICK last, former : last = log[Len(log)] /\ former = log[Len(log) - 1]
  OBVIOUS
<1>3. (Cut(last) => Cut(last)') /\ (Cut(former) => Cut(former)')
  BY CutStays
<1>4. /\ tail \in {"open", "spoilt"} => log # << >> /\ Cut(last)
      /\ tail = "glued" => Len(log) > 1 /\ Cut(former)
  BY <1>2 DEF TailInv
<1>5. /\ tail' \in {"open", "spoilt"} => log' # << >> /\ Cut(log[Len(log)])'
      /\ tail' = "glued" => Len(log') > 1 /\ Cut(log[Len(log) - 1])'
  BY <1>1, <1>2, <1>3, <1>4 DEF Cut
<1>6. ASSUME report' = report,
             \/ pc' = pc
             \/ pc = "idle" /\ pc' = "steps"
             \/ pc' = "built" /\ tail \in {"ended", "open"}
             \/ pc = "built" /\ pc' = "signed"
             \/ pc = "posting" /\ pc' = "returning"
      PROVE  TailInv'
  BY <1>1, <1>5, <1>6 DEF TailInv, Attempt
<1>7. ASSUME NEW how \in {"ok", "failures", "raised", "killed"}, End(how),
             how \in {"ok", "failures"} => pc = "returning"
      PROVE  TailInv'
  <2>1. /\ DOMAIN report = 1 .. Attempt - 1 /\ DOMAIN report' = 1 .. Attempt
        /\ report'[Attempt] = how /\ Attempt \in Nat \ {0}
        /\ \A a \in DOMAIN report : report'[a] = report[a]
    BY <1>7, OneMoreReport
  <2>2. pc' = "idle"
    BY <1>7 DEF End
  <2>3. ASSUME tail = "glued", NEW a \in DOMAIN report', a > last.attempt
        PROVE  report'[a] \in {"raised", "killed"}
    <3>1. CASE a = Attempt
      <4>1. how \notin {"ok", "failures"}
        BY <1>2, <1>7, <2>1, <2>3, <3>1 DEF TailInv
      <4> QED  BY <2>1, <3>1, <4>1
    <3>2. CASE a # Attempt
      <4>1. a \in DOMAIN report /\ report'[a] = report[a]
        BY <2>1, <3>2
      <4> QED  BY <1>2, <2>3, <4>1 DEF TailInv
    <3> QED  BY <3>1, <3>2
  <2> QED  BY <1>1, <1>2, <1>5, <2>2, <2>3 DEF TailInv
<1> QED  BY <1>6, <1>7, OtherSteps

\* Append, complete or cut short, leaves a file of which the next halts can
\* make as much as TailInv says.
LEMMA TailWritten ==
  ASSUME TypeInv, StepsInv, LogInv, TailInv, [Next]_vars,
         pc = "signed", AppendRecord \/ Kill
  PROVE  TailInv'
<1>1. /\ posted' = posted /\ tail \in {"ended", "open"}
      /\ \/ WriteLine /\ GoOn
         \/ CutLine /\ (End("raised") \/ End("killed"))
  BY DEF AppendRecord, Kill, TailInv
<1>2. log' = log \/ log' = Append(log, HaltRecord)
  BY <1>1, FileTypes
<1>3. PICK r : r = HaltRecord /\ r.attempt = Attempt
  BY RecordMade
<1>4. /\ Attempt \in Nat \ {0} /\ DOMAIN report = 1 .. Attempt - 1
  BY ReportsStand
<1>5. Len(log) \in Nat /\ DOMAIN log = 1 .. Len(log)
  BY DEF TypeInv
<1>6. PICK last : last = log[Len(log)]
  OBVIOUS
<1>7. tail = "open" => Len(log) > 0 /\ Cut(last) /\ Cut(last)'
  BY <1>5, <1>6, CutStays, EmptySeq DEF TailInv, TypeInv
<1>8. ASSUME log' = Append(log, r)
      PROVE  /\ Len(log') = Len(log) + 1 /\ log' # << >>
             /\ log'[Len(log')] = r
             /\ Len(log) > 0 => log'[Len(log') - 1] = last
             /\ r \notin posted'
  <2>1. /\ Len(log) \in Nat /\ DOMAIN log' = 1 .. Len(log) + 1
        /\ \A k \in DOMAIN log : log'[k] = log[k] /\ log[k].attempt < Attempt
        /\ log'[Len(log) + 1] = r
    BY <1>3, <1>8, LogGrows
  <2>2. log' \in Seq(HaltRecords)
    BY <1>1, FileTypes
  <2>3. Len(log') = Len(log) + 1
    BY <2>1, <2>2
  <2>4. r \notin ToSet(log)
    BY <1>3, <1>4, <2>1 DEF ToSet
  <2>5. PICK s, n : s = log' /\ n = Len(log)
    OBVIOUS
  <2>6. /\ n \in Nat /\ Len(s) = n + 1 /\ (n + 1) - 1 = n
        /\ s[n + 1] = r /\ (n > 0 => s[n] = last)
    BY <1>5, <1>6, <2>1, <2>3, <2>5
  <2>7. s[Len(s)] = r /\ (n > 0 => s[Len(s) - 1] = last)
    BY <2>6
  <2>8. log' # << >>
    BY <1>5, <2>3
  <2>9. r \notin posted'
    BY <1>1, <2>4 DEF LogInv
  <2> QED  BY <2>3, <2>5, <2>7, <2>8, <2>9
<1>9. CASE WriteLine /\ GoOn
  <2>1. /\ log' = Append(log, r) /\ tail' = IF tail = "open" THEN "glued" ELSE "ended"
        /\ pc' \in {"posting", "returning"} /\ report' = report
    BY <1>3, <1>9 DEF WriteLine, GoOn
  <2>2. Attempt' = Attempt
    BY <2>1 DEF Attempt
  <2>3. /\ Len(log') = Len(log) + 1 /\ log'[Len(log')] = r /\ log' # << >>
        /\ Len(log) > 0 => log'[Len(log') - 1] = last
    BY <1>8, <2>1
  <2>5. \A a \in DOMAIN report' : ~(a > r.attempt)
    BY <1>3, <1>4, <2>1
  <2>4. tail' = "glued" =>
          /\ Len(log') > 1 /\ Cut(log[Len(log) - 1])'
          /\ \A a \in DOMAIN report' :
               a > (log[Len(log)].attempt)' => report'[a] \in {"raised", "killed"}
    <3>1. ASSUME tail' = "glued"
          PROVE  /\ Len(log') > 1 /\ Cut(last)' /\ log'[Len(log') - 1] = last
      <4>1. tail = "open"
        BY <2>1, <3>1
      <4>2. Len(log) > 0 /\ Cut(last)'
        BY <1>7, <4>1
      <4> QED  BY <1>5, <2>3, <4>2
    <3> QED  BY <2>3, <2>5, <3>1 DEF Cut
  <2> QED  BY <1>1, <1>3, <2>1, <2>2, <2>3, <2>4 DEF TailInv
<1>10. CASE CutLine /\ (End("raised") \/ End("killed"))
  <2>1. PICK how \in {"raised", "killed"} : End(how)
    BY <1>10
  <2>2. /\ DOMAIN report' = 1 .. Attempt /\ report'[Attempt] = how
    BY <2>1, OneMoreReport
  <2>3. pc' = "idle"
    BY <2>1 DEF End
  <2>4. CASE log' = Append(log, r) /\ tail' \in {"ended", "open", "glued"}
             /\ (tail' = "glued" => tail = "open")
    <3>1. /\ Len(log') = Len(log) + 1 /\ log'[Len(log')] = r /\ log' # << >>
          /\ Len(log) > 0 => log'[Len(log') - 1] = last
      BY <1>8, <2>4
    <3>2. /\ Attempt \in DOMAIN report' /\ report'[Attempt] \in {"raised", "killed"}
          /\ r \notin posted'
      BY <1>4, <1>8, <2>2, <2>4
    <3>3. Cut(log[Len(log)])'
      BY <1>3, <3>1, <3>2 DEF Cut
    <3>4. \A a \in DOMAIN report' : ~(a > r.attempt)
      BY <1>3, <1>4, <2>2
    <3>5. ASSUME tail' = "glued"
          PROVE  /\ Len(log') > 1 /\ Cut(last)' /\ log'[Len(log') - 1] = last
      <4>1. Len(log) > 0 /\ Cut(last)'
        BY <1>7, <2>4, <3>5
      <4> QED  BY <1>5, <3>1, <4>1
    <3>6. tail' = "glued" => Len(log') > 1 /\ Cut(log[Len(log) - 1])'
      BY <3>5 DEF Cut
    <3> QED  BY <2>3, <2>4, <3>1, <3>3, <3>4, <3>6 DEF TailInv
  <2>5. CASE log' = log /\ tail' \in {tail, "part"} \union {"spoilt"}
             /\ (tail' = "spoilt" => tail = "open")
    <3>1. tail' \in {"open", "spoilt"} => log # << >> /\ Cut(last)'
      BY <1>1, <1>5, <1>7, <2>5, EmptySeq
    <3>2. tail' # "glued"
      BY <1>1, <2>5
    <3> QED  BY <1>6, <2>3, <2>5, <3>1, <3>2 DEF TailInv
  <2>6. \/ log' = log /\ tail' = tail
        \/ log' = Append(log, r) /\ tail' \in {"ended", "open", "glued"}
           /\ (tail' = "glued" => tail = "open")
        \/ log' = log /\ tail' = IF tail = "open" THEN "spoilt" ELSE "part"
    BY <1>3, <1>10 DEF CutLine, WriteLine, file
  <2> QED  BY <1>1, <2>4, <2>5, <2>6
<1> QED  BY <1>1, <1>9, <1>10

\* Every step keeps to what the end of the file allows.
LEMMA TailStep == TypeInv /\ StepsInv /\ LogInv /\ TailInv /\ [Next]_vars => TailInv'
BY TailStands, TailWritten

-----------------------------------------------------------------------------
(* The theorems *)

LEMMA InitSequenced == Init => Sequenced
<1> SUFFICES ASSUME Init PROVE Sequenced
  OBVIOUS
<1>1. TypeInv
  BY InitTypes
<1>2. StepsInv /\ UnaskedInv
  BY DEF Init, StepsInv, UnaskedInv
<1>3. EffectsInv
  BY DEF Init, EffectsInv, Due
<1>4. LogInv
  BY EmptySeq DEF Init, LogInv, ToSet
<1>5. TailInv
  BY DEF Init, TailInv
<1> QED  BY <1>1, <1>2, <1>3, <1>4, <1>5 DEF Sequenced

\* Sequenced holds of every state a series of halts comes to: the steps of the
\* running halt follow its plan, what it asked of the cluster follows its
\* steps, and a record of the log tells of a whole plan.
THEOREM HaltsSequenced == Spec => []Sequenced
<1>1. Sequenced /\ [Next]_vars => Sequenced'
  BY TypeStep, StepsStep, UnaskedStep, EffectsStep, LogStep, TailStep DEF Sequenced
<1> QED  BY <1>1, InitSequenced, PTL DEF Spec

\* A halt has its record, or none.
LEMMA OneRecord ==
  ASSUME Sequenced
  PROVE  /\ \A a : Written(a) = {} \/ \E k \in DOMAIN log : Written(a) = {k}
         /\ \A a : Cardinality(Written(a)) <= 1
<1>1. ASSUME NEW a PROVE Written(a) = {} \/ \E k \in DOMAIN log : Written(a) = {k}
  BY DEF Sequenced, LogInv, Written
<1>2. \A k : Cardinality({k}) <= 1 /\ Cardinality({}) <= 1
  <2>1. Cardinality({}) = 0 /\ \A k : Cardinality({k}) = 1
    BY FS_EmptySet, FS_Singleton
  <2> QED  BY <2>1
<1> QED  BY <1>1, <1>2

\* The variables have their types, the effects are among those asked for, and
\* no halt leaves two records, however it ends.
THEOREM TypeCorrect == Spec => []TypeOK
<1>1. Sequenced => TypeOK
  <2> SUFFICES ASSUME Sequenced PROVE TypeOK
    OBVIOUS
  <2>0. TypeInv
    BY DEF Sequenced
  <2>1. /\ \A i \in DOMAIN todo : todo[i].via \in {"run_step", "apply", "skipped"}
        /\ \A i \in DOMAIN steps :
             steps[i].status \in {"planned", "success", "failure", "skipped"}
    <3>1. /\ \A i \in DOMAIN todo : todo[i] \in Operations
          /\ \A i \in DOMAIN steps : steps[i] \in StepResults
      BY <2>0 DEF TypeInv
    <3> QED  BY <3>1 DEF Operations, OperationsOn, Ways, StepResults
  <2>2. Due \subseteq UNION {ToSet(issued[a]) : a \in DOMAIN issued}
    BY DEF Sequenced, EffectsInv
  <2>3. \A a \in 1 .. MaxAttempts : Cardinality(Written(a)) <= 1
    BY OneRecord
  <2>4. \A r \in posted : r.attempt \in 1 .. Attempt
    <3> SUFFICES ASSUME NEW r \in posted PROVE r.attempt \in 1 .. Attempt
      OBVIOUS
    <3>1. r.attempt \in Nat \ {0}
      BY <2>0 DEF TypeInv, HaltRecords
    <3>2. PICK k \in DOMAIN log : r = log[k]
      BY DEF Sequenced, LogInv, ToSet
    <3>3. r.attempt < Attempt \/ r.attempt = Attempt
      BY <3>2 DEF Sequenced, LogInv
    <3>4. Attempt \in Nat
      BY <2>0 DEF TypeInv, Attempt
    <3> QED  BY <3>1, <3>3, <3>4
  <2>5. \A a \in DOMAIN report : report[a] \in {"ok", "failures", "raised", "killed"}
    BY <2>0 DEF TypeInv
  <2>6. /\ pc \in {"idle", "steps", "built", "signed", "posting", "returning"}
        /\ Len(report) <= MaxAttempts
        /\ tail \in {"ended", "open", "part", "spoilt", "glued"}
    BY <2>0 DEF TypeInv
  <2> QED  BY <2>1, <2>2, <2>3, <2>4, <2>5, <2>6 DEF TypeOK
<1> QED  BY <1>1, HaltsSequenced, PTL

\* A record of the log: where it comes from, and what it says of each step.
LEMMA LoggedRecord ==
  ASSUME Sequenced, NEW k \in DOMAIN log
  PROVE  LET r == log[k]
         IN  /\ r \in HaltRecords /\ RecordInv(r, issued[r.attempt], Due)
             /\ r.backend \in InUse /\ r.nodes \in NodeLists
             /\ DOMAIN r.steps = 1 .. Len(Plan(r)) /\ DOMAIN Plan(r) = 1 .. Len(Plan(r))
             /\ DOMAIN issued[r.attempt] = 1 .. Len(issued[r.attempt])
<1>1. log[k] \in HaltRecords
  BY DEF Sequenced, TypeInv
<1>2. PICK r \in HaltRecords : r = log[k]
  BY <1>1
<1>3. r.backend \in InUse /\ r.nodes \in NodeLists /\ r.steps \in Seq(StepResults)
  BY DEF HaltRecords
<1>4. RecordInv(r, issued[r.attempt], Due)
  BY <1>2 DEF Sequenced, LogInv
<1>5. Plan(r) \in Seq(Operations) /\ Len(r.steps) = Len(Plan(r))
  BY <1>3, <1>4, RequestPlan DEF RecordInv
<1>6. DOMAIN r.steps = 1 .. Len(Plan(r)) /\ DOMAIN Plan(r) = 1 .. Len(Plan(r))
  BY <1>3, <1>5
<1>7. issued[r.attempt] \in Seq(Effects)
  BY DEF Sequenced, TypeInv, HaltRecords
<1>8. DOMAIN issued[r.attempt] = 1 .. Len(issued[r.attempt])
  BY <1>7
<1> QED  BY <1>2, <1>3, <1>4, <1>6, <1>8

\* Every record in the log or at the collector lists the operations of its
\* whole plan, in order, whatever failed or was cut short on the way.
THEOREM CompleteRecords == Spec => []RecordsComplete
<1>1. Sequenced => RecordsComplete
  <2> SUFFICES ASSUME Sequenced, NEW r \in ToSet(log) \union posted PROVE Complete(r)
    BY DEF RecordsComplete
  <2>1. PICK k \in DOMAIN log : r = log[k]
    BY DEF Sequenced, LogInv, ToSet
  <2>2. /\ RecordInv(r, issued[r.attempt], Due)
        /\ DOMAIN r.steps = 1 .. Len(Plan(r)) /\ DOMAIN Plan(r) = 1 .. Len(Plan(r))
    BY <2>1, LoggedRecord
  <2> QED  BY <2>2 DEF RecordInv, StepsOf, Complete, Plan
<1> QED  BY <1>1, HaltsSequenced, PTL

\* A confirmed halt claims the stretch of its plan that runs commands; a dry
\* run claims nothing.
LEMMA ClaimedStretch ==
  ASSUME NEW r, r.backend \in InUse, r.nodes \in NodeLists, r.confirmed \in BOOLEAN,
         DOMAIN r.steps = 1 .. Len(Plan(r)), NEW effects, StepsOf(r, r.steps, effects)
  PROVE  Claimed(r) = IF r.confirmed THEN FirstRun(r) .. FinalRun(r) ELSE {}
<1> DEFINE n == Size(r)
<1>1. /\ n \in Nat \ {0} /\ Len(Plan(r)) \in Nat /\ DOMAIN Plan(r) = 1 .. Len(Plan(r))
      /\ Len(Plan(r)) = IF r.backend = "kubernetes" THEN 4 * n ELSE 3 * n
      /\ \A i \in 1 .. Len(Plan(r)) : Plan(r)[i].via = Via(r, i)
  <2>1. Plan(r) \in Seq(Operations)
    BY RequestPlan
  <2>2. Len(Plan(r)) \in Nat /\ DOMAIN Plan(r) = 1 .. Len(Plan(r))
    BY <2>1
  <2> QED  BY <2>2, RequestPlan
<1>2. /\ FirstRun(r) \in Nat \ {0} /\ FinalRun(r) \in Nat
      /\ FirstRun(r) <= FinalRun(r) /\ FinalRun(r) <= Len(Plan(r))
      /\ \A i \in 1 .. Len(Plan(r)) :
           /\ Via(r, i) = "run_step" => FirstRun(r) <= i /\ i <= FinalRun(r)
           /\ Via(r, i) = "skipped" => i < FirstRun(r) \/ FinalRun(r) < i
  BY Stretch
<1>3. \A i \in 1 .. Len(Plan(r)) :
        r.steps[i].status \in {"success", "failure"} <=>
          r.confirmed /\ Via(r, i) # "skipped"
  BY DEF StepsOf, Statuses
<1>4. Claimed(r) = {i \in 1 .. Len(Plan(r)) :
                      /\ r.confirmed /\ Via(r, i) # "skipped"
                      /\ Plan(r)[i].via = "apply" => Plan(r)[i - 1].via # "apply"}
  BY <1>1, <1>3 DEF Claimed, Plan
<1>5. CASE ~ r.confirmed
  BY <1>4, <1>5
<1>6. CASE r.confirmed
  <2>1. ASSUME NEW i \in 1 .. Len(Plan(r)), Via(r, i) = "apply"
        PROVE  /\ FirstRun(r) = 1 /\ FinalRun(r) = 2 * n + 1 /\ 2 * n < i
               /\ i - 1 \in 1 .. Len(Plan(r))
               /\ Plan(r)[i - 1].via # "apply" <=> i = FinalRun(r)
    <3>1. r.backend = "kubernetes" /\ 2 * n < i /\ i <= 3 * n
      BY <2>1 DEF Via
    <3>2. FirstRun(r) = 1 /\ FinalRun(r) = 2 * n + 1
      BY <3>1 DEF FirstRun, FinalRun
    <3>3. Via(r, i - 1) = "apply" <=> 2 * n < i - 1 /\ i - 1 <= 3 * n
      BY <3>1 DEF Via
    <3> HIDE DEF n
    <3>4. i - 1 \in 1 .. Len(Plan(r))
      BY <1>1, <3>1
    <3>5. Plan(r)[i - 1].via = Via(r, i - 1)
      BY <1>1, <3>4
    <3>6. ~ (2 * n < i - 1 /\ i - 1 <= 3 * n) <=> i = 2 * n + 1
      BY <1>1, <3>1
    <3> QED  BY <3>1, <3>2, <3>3, <3>4, <3>5, <3>6
  <2>2. \A i \in 1 .. Len(Plan(r)) : Via(r, i) \in {"run_step", "apply", "skipped"}
    BY DEF Via
  <2>3. ASSUME NEW i \in Claimed(r) PROVE i \in FirstRun(r) .. FinalRun(r)
    <3>1. i \in 1 .. Len(Plan(r)) /\ Via(r, i) # "skipped" /\ Plan(r)[i].via = Via(r, i)
      BY <1>1, <1>4
    <3>2. CASE Via(r, i) = "apply"
      BY <1>2, <1>4, <2>1, <3>1, <3>2
    <3>3. CASE Via(r, i) = "run_step"
      BY <1>2, <3>1, <3>3
    <3> QED  BY <2>2, <3>1, <3>2, <3>3
  <2>4. ASSUME NEW i \in FirstRun(r) .. FinalRun(r) PROVE i \in Claimed(r)
    <3>1. i \in 1 .. Len(Plan(r))
      BY <1>1, <1>2
    <3>2. Via(r, i) # "skipped" /\ Plan(r)[i].via = Via(r, i)
      BY <1>1, <1>2, <3>1
    <3>3. CASE Via(r, i) = "apply"
      <4>1. i = FinalRun(r)
        <5> HIDE DEF n
        <5> QED  BY <1>1, <1>2, <2>1, <3>1, <3>3
      <4> QED  BY <1>4, <1>6, <2>1, <3>1, <3>2, <3>3, <4>1
    <3>4. CASE Via(r, i) # "apply"
      BY <1>4, <1>6, <3>1, <3>2, <3>4
    <3> QED  BY <3>3, <3>4
  <2> QED  BY <1>6, <2>3, <2>4
<1> QED  BY <1>5, <1>6

\* A record claims the commands its halt tried, each once and in order, none
\* for a dry run, and calls no step successful that had no effect.
THEOREM HonestRecords == Spec => []RecordsHonest
<1>1. Sequenced => RecordsHonest
  <2> SUFFICES ASSUME Sequenced, NEW k \in DOMAIN log, NEW r, r = log[k],
                      NEW done, done = issued[r.attempt]
               PROVE  /\ Len(done) = Cardinality(Claimed(r))
                      /\ \A i \in Claimed(r) :
                           done[Cardinality({j \in Claimed(r) : j <= i})] =
                             Effect(Plan(r)[i])
                      /\ \A i \in DOMAIN r.steps :
                           r.steps[i].status = "success" =>
                             Effect(Plan(r)[i]) \in Due
    BY DEF RecordsHonest, Plan
  <2>1. /\ r \in HaltRecords /\ RecordInv(r, done, Due)
        /\ r.backend \in InUse /\ r.nodes \in NodeLists
        /\ DOMAIN r.steps = 1 .. Len(Plan(r)) /\ DOMAIN done = 1 .. Len(done)
    BY LoggedRecord
  <2>2. r.confirmed \in BOOLEAN /\ StepsOf(r, r.steps, Due)
    BY <2>1 DEF HaltRecords, RecordInv
  <2>3. Claimed(r) = IF r.confirmed THEN FirstRun(r) .. FinalRun(r) ELSE {}
    BY <2>1, <2>2, ClaimedStretch
  <2>4. /\ FirstRun(r) \in Nat \ {0} /\ FinalRun(r) \in Nat /\ Len(Plan(r)) \in Nat
        /\ FirstRun(r) <= FinalRun(r) /\ FinalRun(r) <= Len(Plan(r))
    BY <2>1, Stretch
  <2>5. AskedBy(r, Len(Plan(r)), done)
    BY <2>1 DEF RecordInv
  <2>6. CASE ~ r.confirmed
    <3>1. done = << >> /\ Claimed(r) = {}
      BY <2>3, <2>5, <2>6 DEF AskedBy
    <3>2. Cardinality({}) = 0
      BY FS_EmptySet
    <3> QED  BY <2>2, <3>1, <3>2 DEF StepsOf
  <2>7. CASE r.confirmed
    <3>1. /\ Len(done) = FinalRun(r) - FirstRun(r) + 1
          /\ \A i \in DOMAIN done : done[i] = Effect(Plan(r)[FirstRun(r) + i - 1])
      BY <2>4, <2>5, <2>7 DEF AskedBy
    <3>2. Cardinality(FirstRun(r) .. FinalRun(r)) = FinalRun(r) - FirstRun(r) + 1
      BY <2>4, FS_Interval
    <3>3. ASSUME NEW i \in FirstRun(r) .. FinalRun(r)
          PROVE  done[Cardinality({j \in Claimed(r) : j <= i})] = Effect(Plan(r)[i])
      <4>1. {j \in Claimed(r) : j <= i} = FirstRun(r) .. i
        BY <2>3, <2>4, <2>7
      <4>2. Cardinality(FirstRun(r) .. i) = i - FirstRun(r) + 1
        BY <2>4, FS_Interval
      <4>3. i - FirstRun(r) + 1 \in 1 .. Len(done) /\ FirstRun(r) + (i - FirstRun(r) + 1) - 1 = i
        BY <2>4, <3>1
      <4> QED  BY <2>1, <3>1, <4>1, <4>2, <4>3
    <3> QED  BY <2>2, <2>3, <2>7, <3>1, <3>2, <3>3 DEF StepsOf
  <2> QED  BY <2>6, <2>7
<1> QED  BY <1>1, HaltsSequenced, PTL

\* A record that was written is to be read, unless its halt was cut short, or
\* append has lost it on a line left open.
LEMMA StillRead ==
  ASSUME Sequenced, NEW k \in DOMAIN log, ~Cut(log[k])
  PROVE  k \in Records(log[k].attempt) \/ Missing(k)
<1>1. PICK n : n = Len(log)
  OBVIOUS
<1>2. n \in Nat /\ k \in 1 .. n
  BY <1>1 DEF Sequenced, TypeInv
<1>3. k \in Written(log[k].attempt)
  BY DEF Written
<1>4. CASE tail = "spoilt"
  <2>1. k # n
    BY <1>1, <1>4 DEF Sequenced, TailInv
  <2>2. k <= Len(log) - Lost
    BY <1>1, <1>2, <1>4, <2>1 DEF Lost
  <2> QED  BY <1>3, <2>2 DEF Records
<1>5. CASE tail = "glued"
  <2>1. k # n - 1
    BY <1>1, <1>5 DEF Sequenced, TailInv
  <2>2. CASE k = n
    <3>1. \A a \in DOMAIN report :
            a > log[k].attempt => report[a] \in {"raised", "killed"}
      BY <1>1, <1>5, <2>2 DEF Sequenced, TailInv
    <3> QED  BY <1>1, <1>5, <2>2, <3>1 DEF Missing
  <2>3. CASE k # n
    <3>1. k <= Len(log) - Lost
      BY <1>1, <1>2, <1>5, <2>1, <2>3 DEF Lost
    <3> QED  BY <1>3, <3>1 DEF Records
  <2> QED  BY <2>2, <2>3
<1>6. CASE tail \notin {"spoilt", "glued"}
  <2>1. k <= Len(log) - Lost
    BY <1>1, <1>2, <1>6 DEF Lost
  <2> QED  BY <1>3, <2>1 DEF Records
<1> QED  BY <1>4, <1>5, <1>6

\* What a finished halt that did not raise tells is about the record it left.
LEMMA ReportedRecord ==
  ASSUME Sequenced, NEW a \in DOMAIN report, report[a] \in {"ok", "failures"}
  PROVE  \E k \in DOMAIN log : /\ Written(a) = {k} /\ log[k].attempt = a
                               /\ k \in Records(a) \/ Missing(k)
                               /\ report[a] = "ok" => ~Failed(log[k].steps)
<1>1. PICK k \in DOMAIN log : log[k].attempt = a
  BY DEF Sequenced, LogInv
<1>2. Written(a) = {k}
  BY <1>1 DEF Sequenced, LogInv, Written
<1>3. a < Attempt
  <2>1. DOMAIN report = 1 .. Len(report) /\ Len(report) \in Nat
    BY DEF Sequenced, TypeInv
  <2> QED  BY <2>1 DEF Attempt
<1>4. report[a] = "ok" => ~Failed(log[k].steps)
  BY <1>1, <1>3 DEF Sequenced, LogInv
<1>5. k \in Records(a) \/ Missing(k)
  BY <1>1, StillRead DEF Cut
<1> QED  BY <1>1, <1>2, <1>4, <1>5

\* Exit status 0 says that the halt wrote one record, to be read in the log or
\* missing from it in a way no later halt can overlook, and, when it was
\* confirmed, that all its backend can do is done to every node or under way.
THEOREM OkIsHalted == Spec => []OkMeansHalted
<1>1. Sequenced => OkMeansHalted
  <2> SUFFICES ASSUME Sequenced, NEW a \in DOMAIN report, report[a] = "ok"
               PROVE  /\ Cardinality(Written(a)) = 1
                      /\ \A k \in Written(a) :
                           /\ k \in Records(a) \/ Missing(k)
                           /\ log[k].confirmed =>
                                \A i \in DOMAIN Plan(log[k]) :
                                  Plan(log[k])[i].via # "skipped" =>
                                    Effect(Plan(log[k])[i]) \in Due
    BY DEF OkMeansHalted, Plan
  <2>1. PICK k \in DOMAIN log : /\ Written(a) = {k} /\ ~Failed(log[k].steps)
                                /\ k \in Records(a) \/ Missing(k)
    BY ReportedRecord
  <2>2. Cardinality(Written(a)) = 1
    BY <2>1, FS_Singleton
  <2>3. PICK r : r = log[k]
    OBVIOUS
  <2>4. /\ StepsOf(r, r.steps, Due) /\ r.backend \in InUse /\ r.nodes \in NodeLists
        /\ DOMAIN r.steps = 1 .. Len(Plan(r)) /\ DOMAIN Plan(r) = 1 .. Len(Plan(r))
    BY <2>3, LoggedRecord DEF RecordInv
  <2>5. ASSUME r.confirmed, NEW i \in DOMAIN Plan(r), Plan(r)[i].via # "skipped"
        PROVE  Effect(Plan(r)[i]) \in Due
    <3>1. i \in DOMAIN r.steps /\ Via(r, i) # "skipped"
      BY <2>4, <2>5, RequestPlan
    <3>2. r.steps[i].status \in {"success", "failure"}
      BY <2>4, <2>5, <3>1 DEF StepsOf, Statuses
    <3>3. r.steps[i].status # "failure"
      BY <2>1, <2>3, <3>1 DEF Failed
    <3> QED  BY <2>4, <3>1, <3>2, <3>3 DEF StepsOf
  <2> QED  BY <2>1, <2>2, <2>3, <2>5
<1> QED  BY <1>1, HaltsSequenced, PTL

\* Whatever the cluster has or may yet suffer was asked for by a halt that is
\* running, that told its caller it was cut short, or that has written a step
\* for the same operation on the same node.
THEOREM NothingUnaccounted == Spec => []EffectsAccounted
<1>1. Sequenced => EffectsAccounted
  <2> SUFFICES ASSUME Sequenced, NEW e \in Due
               PROVE  \E a \in DOMAIN issued :
                        /\ e \in ToSet(issued[a])
                        /\ \/ a = Attempt /\ pc # "idle"
                           \/ a \in DOMAIN report /\ report[a] \in {"raised", "killed"}
                           \/ \E k \in Written(a) :
                                /\ k \in Records(a) \/ Missing(k)
                                /\ OwnsUp(log[k].steps, Plan(log[k]), e)
    BY DEF EffectsAccounted, Plan
  <2>1. PICK a \in DOMAIN issued : e \in ToSet(issued[a])
    BY DEF Sequenced, EffectsInv
  <2>2. issued[a] # << >>
    BY <2>1 DEF ToSet
  <2>3. a \in Nat \ {0} /\ Attempt \in Nat /\ DOMAIN report = 1 .. Attempt - 1
    <3>1. DOMAIN issued = 1 .. MaxAttempts
      BY DEF Sequenced, TypeInv
    <3>2. Len(report) \in Nat /\ DOMAIN report = 1 .. Len(report)
      BY DEF Sequenced, TypeInv
    <3> QED  BY <3>1, <3>2 DEF Attempt
  <2>4. \/ a = Attempt /\ pc # "idle"
        \/ a \in DOMAIN report
    BY <2>2, <2>3 DEF Sequenced, UnaskedInv
  <2>5. ASSUME a \in DOMAIN report, report[a] \notin {"raised", "killed"}
        PROVE  \E k \in Written(a) : /\ k \in Records(a) \/ Missing(k)
                                     /\ OwnsUp(log[k].steps, Plan(log[k]), e)
    <3>1. report[a] \in {"ok", "failures"}
      BY <2>5 DEF Sequenced, TypeInv
    <3>2. PICK k \in DOMAIN log : /\ Written(a) = {k} /\ log[k].attempt = a
                                  /\ k \in Records(a) \/ Missing(k)
      BY <2>5, <3>1, ReportedRecord
    <3>3. PICK r, done : r = log[k] /\ done = issued[a]
      OBVIOUS
    <3>4. /\ RecordInv(r, done, Due) /\ r.backend \in InUse /\ r.nodes \in NodeLists
          /\ DOMAIN r.steps = 1 .. Len(Plan(r)) /\ DOMAIN Plan(r) = 1 .. Len(Plan(r))
          /\ DOMAIN done = 1 .. Len(done)
      BY <3>2, <3>3, LoggedRecord
    <3>5. PICK i \in DOMAIN done : done[i] = e
      BY <2>1, <3>3 DEF ToSet
    <3>6. r.confirmed /\ AskedBy(r, Len(Plan(r)), done)
      BY <2>2, <3>3, <3>4 DEF RecordInv, AskedBy
    <3>7. /\ FirstRun(r) \in Nat \ {0} /\ FinalRun(r) \in Nat /\ Len(Plan(r)) \in Nat
          /\ FirstRun(r) <= FinalRun(r) /\ FinalRun(r) <= Len(Plan(r))
      BY <3>4, Stretch
    <3>8. /\ Len(done) = FinalRun(r) - FirstRun(r) + 1
          /\ e = Effect(Plan(r)[FirstRun(r) + i - 1])
      BY <3>5, <3>6, <3>7 DEF AskedBy
    <3>9. PICK j \in DOMAIN r.steps : /\ j \in 1 .. Len(Plan(r))
                                      /\ FirstRun(r) <= j /\ j <= FinalRun(r)
                                      /\ e = Effect(Plan(r)[j])
      <4>1. /\ FirstRun(r) + i - 1 \in 1 .. Len(Plan(r))
            /\ FirstRun(r) <= FirstRun(r) + i - 1 /\ FirstRun(r) + i - 1 <= FinalRun(r)
        BY <3>4, <3>7, <3>8
      <4> QED  BY <3>4, <3>8, <4>1
    <3>10. r.steps[j].status \in {"success", "failure"}
      <4>1. Via(r, j) # "skipped"
        BY <3>4, <3>7, <3>9, Stretch
      <4> QED  BY <3>4, <3>6, <3>9, <4>1 DEF RecordInv, StepsOf, Statuses
    <3>11. r.steps[j] = StepResult(Plan(r)[j], r.steps[j].status)
      BY <3>4, <3>9 DEF RecordInv, StepsOf
    <3>12. OwnsUp(r.steps, Plan(r), e)
      BY <3>4, <3>9, <3>10, <3>11 DEF OwnsUp
    <3> QED  BY <3>2, <3>3, <3>12
  <2> QED  BY <2>1, <2>4, <2>5
<1> QED  BY <1>1, HaltsSequenced, PTL

\* What the collector has received is in the log, or lost from it in a way no
\* later halt can overlook; and it has one record of a halt.
THEOREM PostedAreLogged == Spec => []PostedIsLogged
<1>1. Sequenced => PostedIsLogged
  <2> SUFFICES ASSUME Sequenced PROVE PostedIsLogged
    OBVIOUS
  <2>1. ASSUME NEW r \in posted
        PROVE  \E k \in DOMAIN log : log[k] = r /\ (k \in Records(r.attempt) \/ Missing(k))
    <3>1. PICK k \in DOMAIN log : r = log[k]
      BY <2>1 DEF Sequenced, LogInv, ToSet
    <3>2. ~Cut(log[k])
      BY <2>1, <3>1 DEF Cut
    <3> QED  BY <3>1, <3>2, StillRead
  <2>2. \A r, s \in posted : r.attempt = s.attempt => r = s
    BY DEF Sequenced, LogInv, ToSet
  <2> QED  BY <2>1, <2>2 DEF PostedIsLogged
<1> QED  BY <1>1, HaltsSequenced, PTL
=============================================================================
