----------------------------- MODULE HaltSequence -----------------------------
(***************************************************************************)
(* core.run_halt from its arguments to its exit code, run again and again  *)
(* by an operator or an agent that retries: resolve, then drain, isolate   *)
(* and fence every node through the chosen backend, then read the chain    *)
(* state, sign, append and post the record.                                *)
(*                                                                         *)
(* `cluster` holds the effects the tools have had.  A command that timed   *)
(* out, or that its tool has only accepted, may take effect later, after   *)
(* the halt has moved on.  `log` lists the records written and `tail` says *)
(* how the file ends, since append can be cut short; several writers and   *)
(* the loss of power are the subject of AttestationLog.                    *)
(***************************************************************************)
EXTENDS Backends

CONSTANTS
  NodeLists,   \* the resolved node lists, none empty
  InUse,       \* the backends in use
  MaxAttempts  \* bound on the invocations of halt

Nodes == UNION {ToSet(nodes) : nodes \in NodeLists}

ASSUME SequenceAssumption ==
  /\ NodeLists \subseteq Seq(Nodes)
  /\ << >> \notin NodeLists
  /\ InUse \subseteq BackendNames
  /\ MaxAttempts \in Nat

VARIABLES
  pc,      \* where the running halt is, "idle" when none runs
  req,     \* its resolved arguments
  todo,    \* the operations still to do, in order
  steps,   \* all_steps
  cluster, \* the effects on the cluster
  late,    \* effects of commands under way that may still come
  issued,  \* history: the effects each invocation has asked for, in order
  log,     \* the records whose line was written, but for its newline perhaps
  tail,    \* how the log file ends
  posted,  \* the records the remote collector has received
  report   \* what each finished invocation told its caller

world == << cluster, late, issued >>
file  == << log, tail >>
vars  == << pc, req, todo, steps, world, file, posted, report >>

\* The number of the invocation under way, or of the next one.
Attempt == Len(report) + 1

-----------------------------------------------------------------------------
Init ==
  /\ pc = "idle"
  /\ req = << >> /\ todo = << >> /\ steps = << >>
  /\ cluster = {} /\ late = {} /\ issued = [a \in 1 .. MaxAttempts |-> << >>]
  /\ log = << >> /\ tail = "ended" /\ posted = {} /\ report = << >>

\* The invocation ends, and what it tells: exit 0 or the result ("ok"),
\* any_failures and exit 1 ("failures"), an exception ("raised"), nothing
\* ("killed").
End(how) == pc' = "idle" /\ report' = Append(report, how)

\* load_config, the node list and the backend resolve.
Begin ==
  /\ pc = "idle" /\ Attempt <= MaxAttempts
  /\ \E b \in InUse, nodes \in NodeLists, confirm, sign, collect \in BOOLEAN :
       /\ req' = [backend |-> b, nodes |-> nodes, confirmed |-> confirm,
                  sign |-> sign, collect |-> collect]
       /\ todo' = HaltPlan(b, nodes)
  /\ steps' = << >>
  /\ pc' = "steps"
  /\ UNCHANGED << world, file, posted, report >>

\* A config error, no node, no backend, an unknown backend.
ResolutionFails ==
  /\ pc = "idle" /\ Attempt <= MaxAttempts
  /\ End("raised")
  /\ UNCHANGED << req, todo, steps, world, file, posted >>

-----------------------------------------------------------------------------
(* The steps *)

\* The first operation to do is done, with this status.
Record(status) ==
  /\ steps' = Append(steps, StepResult(Head(todo), status))
  /\ todo' = Tail(todo)
  /\ UNCHANGED << pc, req, file, posted, report >>

Doing(via) == pc = "steps" /\ todo # << >> /\ Head(todo).via = via

SkipStep == Doing("skipped") /\ Record("skipped") /\ UNCHANGED world

\* Dry-run, of run_step and of the kubernetes isolate_network.
PlanStep ==
  /\ Doing("run_step") \/ Doing("apply")
  /\ ~req.confirmed
  /\ Record("planned")
  /\ UNCHANGED world

\* The command of operation o is run, and takes effect then, later or never.
Start(o, when) ==
  /\ issued' = [issued EXCEPT ![Attempt] = Append(@, Effect(o))]
  /\ cluster' = cluster \union (IF when = "now" THEN {Effect(o)} ELSE {})
  /\ late' = late \union (IF when = "later" THEN {Effect(o)} ELSE {})

\* Mutant of RunStep: the exit status is not looked at.
RunStepUnchecked ==
  /\ Doing("run_step") /\ req.confirmed
  /\ \E o \in Outcomes :
       /\ Start(Head(todo), o[2])
       /\ IF o[1] = "raises"
          THEN End("raised") /\ UNCHANGED << req, todo, steps, file, posted >>
          ELSE Record("success")

\* Mutant of RunStep: the halt stops at the first failure and records that.
RunStepStopping ==
  /\ Doing("run_step") /\ req.confirmed
  /\ \E o \in Outcomes :
       /\ Start(Head(todo), o[2])
       /\ steps' = Append(steps, StepResult(Head(todo), o[1]))
       /\ todo' = IF o[1] = "success" THEN Tail(todo) ELSE << >>
  /\ UNCHANGED << pc, req, file, posted, report >>

\* run_step, not a dry run.
RunStep ==
  /\ Doing("run_step") /\ req.confirmed
  /\ \E o \in Outcomes :
       /\ Start(Head(todo), o[2])
       /\ IF o[1] = "raises"
          THEN End("raised") /\ UNCHANGED << req, todo, steps, file, posted >>
          ELSE Record(o[1])

\* Mutant of ApplyPolicy: a dry run applies the manifest too.
ApplyPolicyUngated ==
  /\ Doing("apply")
  /\ \E o \in Outcomes :
       /\ o[1] # "raises"
       /\ Start(Head(todo), o[2])
       /\ Record(IF req.confirmed THEN o[1] ELSE "planned")

\* kubernetes isolate_network: one command, one result for every node.
ApplyPolicy ==
  /\ Doing("apply") /\ req.confirmed
  /\ \E o \in Outcomes :
       /\ Start(Head(todo), o[2])
       /\ LET n == Len(req.nodes)
          IN  IF o[1] = "raises"
              THEN End("raised") /\ UNCHANGED << req, todo, steps, file, posted >>
              ELSE /\ steps' = steps \o [i \in 1 .. n |-> StepResult(todo[i], o[1])]
                   /\ todo' = SubSeq(todo, n + 1, Len(todo))
                   /\ UNCHANGED << pc, req, file, posted, report >>

\* A command that timed out or was accepted takes effect.
TakeEffect ==
  /\ \E e \in late : late' = late \ {e} /\ cluster' = cluster \union {e}
  /\ UNCHANGED << pc, req, todo, steps, issued, file, posted, report >>

-----------------------------------------------------------------------------
(* The record *)

Idle == << req, todo, steps, world >>

\* chain_state and build_record.  _last_record parses the last line; what a
\* cut append left there is no record, unless only the newline is missing.
\* The log may be unreadable for other reasons.
BuildRecord ==
  /\ pc = "steps" /\ todo = << >>
  /\ \/ /\ tail \in {"ended", "open"}
        /\ pc' = "built" /\ report' = report
     \/ End("raised")
  /\ UNCHANGED << Idle, file, posted >>

\* Mutant of Sign: a halt waits for its key.
SignWaiting ==
  /\ pc = "built" /\ ~req.sign
  /\ pc' = "signed" /\ report' = report
  /\ UNCHANGED << Idle, file, posted >>

\* Unless --no-sign, the key file must exist and load.
Sign ==
  /\ pc = "built"
  /\ \/ pc' = "signed" /\ report' = report
     \/ req.sign /\ End("raised")
  /\ UNCHANGED << Idle, file, posted >>

HaltRecord ==
  [attempt |-> Attempt, backend |-> req.backend, nodes |-> req.nodes,
   confirmed |-> req.confirmed, signed |-> req.sign, steps |-> steps]

\* The line is written at the end of the file, and continues the last line
\* when that one has no newline: the two records are then lost on one line.
WriteLine ==
  /\ log' = Append(log, HaltRecord)
  /\ tail' = IF tail = "open" THEN "glued" ELSE "ended"

\* A write cut short: nothing, the whole line, all but its newline, or a part
\* of it, on a line of its own or at the end of one that was left open.
CutLine ==
  \/ UNCHANGED file
  \/ WriteLine
  \/ /\ log' = Append(log, HaltRecord)
     /\ tail' = IF tail = "open" THEN "glued" ELSE "open"
  \/ log' = log /\ tail' = IF tail = "open" THEN "spoilt" ELSE "part"

GoOn == pc' = (IF req.collect THEN "posting" ELSE "returning") /\ report' = report

\* Mutant of AppendRecord: an error of the log file is ignored.
AppendRecordIfPossible ==
  /\ pc = "signed"
  /\ CutLine /\ GoOn
  /\ UNCHANGED << Idle, posted >>

\* AttestationLog.append; its write, flush or fsync may fail.
AppendRecord ==
  /\ pc = "signed"
  /\ \/ WriteLine /\ GoOn
     \/ CutLine /\ End("raised")
  /\ UNCHANGED << Idle, posted >>

\* _post_to_collector: the request may arrive whatever the answer; a URLError
\* is only noted, any other exception (a read timeout, an answer cut short)
\* leaves run_halt.
PostToCollector ==
  /\ pc = "posting"
  /\ posted' = posted \/ posted' = posted \union {HaltRecord}
  /\ \/ pc' = "returning" /\ report' = report
     \/ End("raised")
  /\ UNCHANGED << Idle, file >>

Failed(s) == \E i \in DOMAIN s : s[i].status = "failure"

Return ==
  /\ pc = "returning"
  /\ End(IF Failed(steps) THEN "failures" ELSE "ok")
  /\ UNCHANGED << Idle, file, posted >>

\* The process is killed: in a command before or after its effect, in append
\* after any part of the line.
Kill ==
  /\ pc # "idle"
  /\ End("killed")
  /\ \/ UNCHANGED world
     \/ /\ req.confirmed /\ (Doing("run_step") \/ Doing("apply"))
        /\ \E when \in {"never", "now", "later"} : Start(Head(todo), when)
  /\ IF pc = "signed" THEN CutLine ELSE UNCHANGED file
  /\ UNCHANGED << req, todo, steps, posted >>

-----------------------------------------------------------------------------
Progress ==
  \/ SkipStep \/ PlanStep \/ RunStep \/ ApplyPolicy
  \/ BuildRecord \/ Sign \/ AppendRecord \/ PostToCollector \/ Return

Next == Begin \/ ResolutionFails \/ Progress \/ TakeEffect \/ Kill

Spec == Init /\ [][Next]_vars

\* run_halt waits for nothing but its tools and its collector, and these
\* waits have timeouts (60 s, 10 s).
FairSpec == Spec /\ WF_vars(Progress)

-----------------------------------------------------------------------------
(* Properties *)

\* The number of records at the end of the log that a reader does not find.
Lost == IF tail = "glued" THEN 2 ELSE IF tail = "spoilt" THEN 1 ELSE 0

\* The records of invocation a that were written, and those still to be read.
Written(a) == {k \in DOMAIN log : log[k].attempt = a}
Records(a) == {k \in Written(a) : k <= Len(log) - Lost}

\* What halts have had done, or have coming, to the cluster.
Due == cluster \union late

\* The one record that append may lose without an error: its line continued a
\* line left open.  It goes unnoticed only until the next halt; no halt after
\* it comes to an end but with an exception.
Missing(k) ==
  /\ tail = "glued" /\ k = Len(log)
  /\ \A a \in DOMAIN report :
       a > log[k].attempt => report[a] \in {"raised", "killed"}

\* The types of the variables; at most one record per invocation.
TypeOK ==
  /\ pc \in {"idle", "steps", "built", "signed", "posting", "returning"}
  /\ \A i \in DOMAIN todo : todo[i].via \in {"run_step", "apply", "skipped"}
  /\ \A i \in DOMAIN steps :
       steps[i].status \in {"planned", "success", "failure", "skipped"}
  /\ tail \in {"ended", "open", "part", "spoilt", "glued"}
  /\ Due \subseteq UNION {ToSet(issued[a]) : a \in DOMAIN issued}
  /\ \A a \in 1 .. MaxAttempts : Cardinality(Written(a)) <= 1
  /\ \A r \in posted : r.attempt \in 1 .. Attempt
  /\ Len(report) <= MaxAttempts
  /\ \A a \in DOMAIN report :
       report[a] \in {"ok", "failures", "raised", "killed"}

\* The steps of record r are those of the plan of its backend and nodes.
Complete(r) ==
  LET plan == HaltPlan(r.backend, r.nodes)
  IN  /\ Len(r.steps) = Len(plan)
      /\ \A i \in DOMAIN plan :
           r.steps[i] = StepResult(plan[i], r.steps[i].status)

\* "A complete, honest attestation record" (base.py:76), whatever failed on
\* the way: every record in the log or at the collector lists all operations
\* on all nodes, drain before isolate before fence.
RecordsComplete ==
  \A r \in ToSet(log) \union posted : Complete(r)

\* The steps of record r that say a command was tried; the NetworkPolicy
\* command, which the nodes share, counts once, at the first.
Claimed(r) ==
  LET plan == HaltPlan(r.backend, r.nodes)
  IN  {i \in DOMAIN plan :
         /\ r.steps[i].status \in {"success", "failure"}
         /\ plan[i].via = "apply" => plan[i - 1].via # "apply"}

\* A record claims exactly the commands its halt tried, in their order - a
\* dry run's none - and what a step it calls successful had to do is done, or
\* was accepted and is still to come.
RecordsHonest ==
  \A k \in DOMAIN log :
    LET r    == log[k]
        done == issued[r.attempt]
        plan == HaltPlan(r.backend, r.nodes)
    IN  /\ Len(done) = Cardinality(Claimed(r))
        /\ \A i \in Claimed(r) :
             done[Cardinality({j \in Claimed(r) : j <= i})] = Effect(plan[i])
        /\ \A i \in DOMAIN r.steps :
             r.steps[i].status = "success" => Effect(plan[i]) \in Due

\* Exit status 0 means one record, to be read in the log unless append has
\* lost it on a line left open, and for a confirmed halt that every operation
\* the backend supports is done on every node, or was accepted by its tool.
OkMeansHalted ==
  \A a \in DOMAIN report :
    report[a] = "ok" =>
      /\ Cardinality(Written(a)) = 1
      /\ \A k \in Written(a) :
           /\ k \in Records(a) \/ Missing(k)
           /\ log[k].confirmed =>
                LET plan == HaltPlan(log[k].backend, log[k].nodes)
                IN  \A i \in DOMAIN plan :
                      plan[i].via # "skipped" => Effect(plan[i]) \in Due

\* Nothing happens to the cluster unaccounted for: every effect, late ones
\* included, was asked for by an invocation that is still running, told its
\* caller it was cut short, or has a step for it - the same operation on the
\* same node - in the log, or in a record append has lost on a line left open.
EffectsAccounted ==
  \A e \in Due :
    \E a \in DOMAIN issued :
      /\ e \in ToSet(issued[a])
      /\ \/ a = Attempt /\ pc # "idle"
         \/ a \in DOMAIN report /\ report[a] \in {"raised", "killed"}
         \/ \E k \in Written(a) :
              /\ k \in Records(a) \/ Missing(k)
              /\ OwnsUp(log[k].steps, HaltPlan(log[k].backend, log[k].nodes), e)

\* The collector holds no record that the log lacks, but for one that append
\* has lost on a line left open; nor two of one halt.
PostedIsLogged ==
  /\ \A r \in posted :
       \E k \in DOMAIN log : log[k] = r /\ (k \in Records(r.attempt) \/ Missing(k))
  /\ \A r, s \in posted : r.attempt = s.attempt => r = s

\* Every halt comes to an end, killed or not.
EveryHaltEnds == pc # "idle" ~> pc = "idle"

\* attestation.py:3: "Every halt operation, dry-run or real, produces one
\* attestation record" - so does one whose commands had an effect and that was
\* not killed.
ExecutedIsAttested ==
  \A a \in DOMAIN report :
    /\ report[a] # "killed"
    /\ ToSet(issued[a]) \intersect cluster # {}
    => Written(a) # {}
=============================================================================
