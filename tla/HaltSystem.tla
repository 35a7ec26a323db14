------------------------------ MODULE HaltSystem ------------------------------
(***************************************************************************)
(* The whole: halts that run at the same time, each through its backend    *)
(* commands and then into the one log of AttestationLog, and a status      *)
(* command that asks the same cluster meanwhile - a cluster that others    *)
(* change too: `others` are the nodes that people, other tools or the      *)
(* cluster itself have cordoned, switched off or brought back.             *)
(*                                                                         *)
(* AttestationLog leaves a halt at "running" while its commands run; here  *)
(* `stage` says whether it has begun, is at work, or ended before it came  *)
(* to the log.  Its record, known by its id, carries steps[p], which no    *)
(* longer change when the record is built.                                 *)
(***************************************************************************)
EXTENDS AttestationLog, Backends

CONSTANTS
  Jobs,  \* what a halt may be asked: backend, nodes, confirmed
  Asked  \* the jobs whose backend and nodes status is asked for

ASSUME JobsAssumption ==
  \A j \in Jobs \union Asked :
    /\ j.backend \in BackendNames /\ j.confirmed \in BOOLEAN
    /\ j.nodes \in Seq(ToSet(j.nodes)) /\ j.nodes # << >>

VARIABLES
  stage,   \* "idle", "working", "raised" or "killed" of each halt
  job,     \* its resolved arguments
  todo,    \* the operations it still has to do, in order
  steps,   \* all_steps
  effects, \* what the halts' commands have done to the cluster, and which halt
  late,    \* effects of commands under way that may still come
  before,  \* history: the halts that were over when each one began
  watch,   \* the status command: its job, nodes still to ask, node_statuses
  others   \* what else has changed: backends and nodes

workVars   == << stage, job, todo, steps, effects, late, before >>
systemVars == << vars, workVars, watch, others >>

Ended(p)  == stage[p] \in {"raised", "killed"} \/ pc[p] \in {"raised", "killed"}
Over(p)   == Ended(p) \/ pc[p] = "returned"
OverNow   == {p \in Halts : Over(p)}
InSteps(p) == stage[p] = "working" /\ todo[p] # << >>
Due       == effects \union late
On(b)     == {e.effect : e \in {f \in effects : job[f.halt].backend = b}}

\* The nodes status can show, each under its backend.
Shown == UNION {{j.backend} \X ToSet(j.nodes) : j \in Asked}

NoWatch == [place |-> "idle"]

SystemInit ==
  /\ Init
  /\ stage = [p \in Halts |-> "idle"]
  /\ job = [p \in Halts |-> Nobody]
  /\ todo = [p \in Halts |-> << >>]
  /\ steps = [p \in Halts |-> << >>]
  /\ effects = {} /\ late = {}
  /\ before = [p \in Halts |-> {}]
  /\ watch = NoWatch
  /\ others = {}

-----------------------------------------------------------------------------
(* The steps of a halt *)

Begin(p) ==
  /\ stage[p] = "idle"
  /\ \E j \in Jobs : /\ job' = [job EXCEPT ![p] = j]
                     /\ todo' = [todo EXCEPT ![p] = HaltPlan(j.backend, j.nodes)]
  /\ stage' = [stage EXCEPT ![p] = "working"]
  /\ before' = [before EXCEPT ![p] = OverNow]
  /\ UNCHANGED << vars, steps, effects, late, watch, others >>

\* Operation o of halt p runs a command.
Runs(p, o) == job[p].confirmed /\ o.via # "skipped"

Commands(p) == InSteps(p) /\ Runs(p, todo[p][1])

\* The operations that come next are done, with these results.
Results(p, results) ==
  /\ steps' = [steps EXCEPT ![p] = @ \o results]
  /\ todo' = [todo EXCEPT ![p] = SubSeq(@, Len(results) + 1, Len(@))]

\* The operations up to the next command; nobody sees these steps.
WithoutCommand(p) ==
  /\ InSteps(p) /\ ~Commands(p)
  /\ \E n \in 1 .. Len(todo[p]) :
       /\ \A i \in 1 .. n : ~Runs(p, todo[p][i])
       /\ n < Len(todo[p]) => Runs(p, todo[p][n + 1])
       /\ Results(p, [i \in 1 .. n |->
                        StepResult(todo[p][i],
                                   IF todo[p][i].via = "skipped" THEN "skipped"
                                   ELSE "planned")])
  /\ UNCHANGED << vars, stage, job, effects, late, before, watch, others >>

\* One command; an apply serves all nodes.
Served(p) == IF todo[p][1].via = "apply" THEN Len(job[p].nodes) ELSE 1

AllServed(p, status) ==
  Results(p, [i \in 1 .. Served(p) |-> StepResult(todo[p][i], status)])

Pending(p) == [halt |-> p, effect |-> Effect(todo[p][1])]

Strike(p, when) ==
  /\ effects' = effects \union (IF when = "now" THEN {Pending(p)} ELSE {})
  /\ late' = late \union (IF when = "later" THEN {Pending(p)} ELSE {})

EndEarly(p, how) ==
  /\ stage' = [stage EXCEPT ![p] = how]
  /\ UNCHANGED << vars, job, todo, steps, before, watch, others >>

\* Mutant of Command: the exit status is not looked at.
CommandUnchecked(p) ==
  /\ Commands(p)
  /\ \E o \in Outcomes :
       /\ Strike(p, o[2])
       /\ IF o[1] = "raises" THEN EndEarly(p, "raised")
          ELSE /\ AllServed(p, "success")
               /\ UNCHANGED << vars, stage, job, before, watch, others >>

Command(p) ==
  /\ Commands(p)
  /\ \E o \in Outcomes :
       /\ Strike(p, o[2])
       /\ IF o[1] = "raises" THEN EndEarly(p, "raised")
          ELSE /\ AllServed(p, o[1])
               /\ UNCHANGED << vars, stage, job, before, watch, others >>

\* Killed among its steps, if in a command then before or after its effect.
KillEarly(p) ==
  /\ InSteps(p)
  /\ \E when \in IF Commands(p) THEN {"never", "now", "later"} ELSE {"never"} :
       Strike(p, when)
  /\ EndEarly(p, "killed")

TakeEffect ==
  /\ \E e \in late : late' = late \ {e} /\ effects' = effects \union {e}
  /\ UNCHANGED << vars, stage, job, todo, steps, before, watch, others >>

\* All steps done: the log's actions follow.
AtLog(p) == stage[p] = "working" /\ todo[p] = << >>

LogStep(p) == AtLog(p) /\ Step(p) /\ UNCHANGED << workVars, watch, others >>

EndAtLog(p) == AtLog(p) /\ (Raise(p) \/ Kill(p)) /\ UNCHANGED << workVars, watch, others >>

-----------------------------------------------------------------------------
(* run_status *)

BeginStatus ==
  /\ watch = NoWatch
  /\ \E j \in Asked :
       watch' = [place |-> "asking", job |-> j, nodes |-> j.nodes,
                 states |-> << >>]
  /\ UNCHANGED << vars, workVars, others >>

\* One query; a timeout, or any exception but FileNotFoundError, loses the
\* answers of all nodes.  The report is complete when no node is left.
Query ==
  /\ watch.place = "asking" /\ watch.nodes # << >>
  /\ \/ LET b == watch.job.backend
            x == Head(watch.nodes)
        IN  \E s \in NodeState(b, x, On(b), << b, x >> \in others) :
              watch' = [watch EXCEPT !.nodes = Tail(@), !.states = Append(@, s)]
     \/ watch' = [place |-> "raised"]
  /\ UNCHANGED << vars, workVars, others >>

-----------------------------------------------------------------------------
\* Effects of commands under way are those of KillEarly just before.
HostLosesPower ==
  /\ PowerLoss
  /\ stage' = [p \in Halts |-> IF stage[p] = "working" /\ pc[p] = "running"
                               THEN "killed" ELSE stage[p]]
  /\ watch' = IF watch = NoWatch THEN watch ELSE [place |-> "killed"]
  /\ UNCHANGED << job, todo, steps, effects, late, before, others >>

\* Somebody else changes nodes, which stay in doubt from then on.
OthersAct ==
  /\ \E touched \in SUBSET Shown : others' = others \union touched
  /\ UNCHANGED << vars, workVars, watch >>

Proceed(p) == WithoutCommand(p) \/ Command(p) \/ LogStep(p)

SystemNext ==
  \/ \E p \in Halts : Begin(p) \/ Proceed(p) \/ KillEarly(p) \/ EndAtLog(p)
  \/ TakeEffect \/ BeginStatus \/ Query \/ HostLosesPower \/ OthersAct

SystemSpec == SystemInit /\ [][SystemNext]_systemVars

\* A halt that can go on does: its commands have timeouts, and besides them it
\* waits for flock alone, which the kernel grants to a waiter when it is free.
FairSystem == SystemSpec /\ \A p \in Halts : WF_systemVars(Proceed(p))

-----------------------------------------------------------------------------
(* Properties *)

SystemTypeOK ==
  /\ TypeOK
  /\ stage \in [Halts -> {"idle", "working", "raised", "killed"}]
  /\ \A p \in Halts :
       /\ stage[p] # "idle" => job[p] \in Jobs
       /\ pc[p] # "running" => AtLog(p)
  /\ \A e \in Due : e.halt \in Halts /\ job[e.halt].confirmed
  /\ before \in [Halts -> SUBSET Halts]

\* README, Features, of what is done and not of what is asked: whatever a
\* halt did to the cluster - now or late, other halts and crashes aside - it
\* is still at work, has told or shown its caller that it was cut short, or
\* has one record on disk, in which a step owns up to it: the same operation
\* on the same node, tried, with or without success.
EffectsOnRecord ==
  ~torn => \A e \in Due :
    \/ ~Over(e.halt) \/ Ended(e.halt)
    \/ /\ LoggedOnce(e.halt)
       /\ OwnsUp(steps[e.halt], HaltPlan(job[e.halt].backend, job[e.halt].nodes),
                 e.effect)

\* A halt with exit status 0, in the eyes of its caller.
Ok(p) ==
  /\ pc[p] = "returned"
  /\ \A i \in DOMAIN steps[p] : steps[p][i].status # "failure"

\* Halt p is confirmed, and n is one of its nodes, under its backend.
Concerns(p, n) ==
  /\ stage[p] # "idle" /\ job[p].confirmed
  /\ n[1] = job[p].backend /\ n[2] \in ToSet(job[p].nodes)

\* This step of status is the answer s on node n.
Answers(n, s) ==
  /\ watch.place = "asking" /\ watch.nodes # << >>
  /\ n = << watch.job.backend, Head(watch.nodes) >>
  /\ watch' = [watch EXCEPT !.nodes = Tail(@), !.states = Append(@, s)]

\* Status and exit codes agree.  On a node that nobody else has changed,
\* "halted" is the doing of a confirmed halt of this backend on this node,
\* whatever became of it; and when such a halt has had exit status 0, the
\* node is not "up" - unless its tool has only accepted the command, and the
\* effect is still to come.
StatusAnswer ==
  \A n \in Shown \ others :
    /\ Answers(n, "halted") => \E p \in Halts : Concerns(p, n)
    /\ Answers(n, "up") =>
         \A p \in Halts :
           Concerns(p, n) /\ Ok(p) =>
             [halt |-> p, effect |-> ToldEffect(n[1], n[2])] \in late

StatusShowsHalts == [][StatusAnswer]_systemVars

Overlap ==
  \E p, q \in Halts : /\ p # q /\ stage[p] # "idle" /\ stage[q] # "idle"
                      /\ p \notin before[q] /\ q \notin before[p]

\* What a log of its own buys (FAQ): while no two halts on this one overlap,
\* from their first command to their end, it is one chain in file order.
OneAtATime == ~torn /\ ~Overlap => OneChain

\* The log tells the order of halts that did not overlap each other, others
\* overlapping them or not: the one that was over first stands first.
LogOrder ==
  ~torn => \A p, q \in Halts :
    q \in before[p] /\ pc[q] = "returned" /\ pc[p] = "returned" =>
      \E i, j \in DOMAIN lines :
        i < j /\ lines[i] = << rec[q] >> /\ lines[j] = << rec[p] >>

\* Every halt that has begun comes to an end, though others hold the lock,
\* are killed, or have left commands that never answer.
HaltsEnd == \A p \in Halts : stage[p] = "working" ~> Over(p)
=============================================================================
