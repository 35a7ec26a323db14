------------------------------- MODULE Backends -------------------------------
(***************************************************************************)
(* What a halt does on each backend: the operations, in order, the way     *)
(* each is done, and what may become of a command.                         *)
(***************************************************************************)
EXTENDS Naturals, SequencesExt

CONSTANT Namespace  \* what a NetworkPolicy applies to

BackendNames == {"kubernetes", "slurm", "ipmi"}

\* `via` tells how an operation is done: by run_step, by skipped, or by the
\* one `kubectl apply` that serves all nodes.
Operation(op, node, via) == [operation |-> op, node |-> node, via |-> via]

OnEach(nodes, op, via) == [i \in DOMAIN nodes |-> Operation(op, nodes[i], via)]

KubernetesBackend(nodes) ==
  [drain |->
     [i \in 1 .. 2 * Len(nodes) |->
        Operation(IF i % 2 = 1 THEN "cordon" ELSE "drain", nodes[(i + 1) \div 2],
                  "run_step")],
   isolate_network |-> OnEach(nodes, "isolate_network", "apply"),
   power_fence     |-> OnEach(nodes, "power_fence", "skipped")]

SlurmBackend(nodes) ==
  [drain           |-> OnEach(nodes, "drain", "run_step"),
   isolate_network |-> OnEach(nodes, "suspend", "run_step"),
   power_fence     |-> OnEach(nodes, "power_fence", "skipped")]

IpmiBackend(nodes) ==
  [drain           |-> OnEach(nodes, "drain", "skipped"),
   isolate_network |-> OnEach(nodes, "isolate_network", "skipped"),
   power_fence     |-> OnEach(nodes, "power_fence", "run_step")]

\* All nodes are drained, then all isolated, then all fenced.
HaltPlan(b, nodes) ==
  LET backend == CASE b = "kubernetes" -> KubernetesBackend(nodes)
                   [] b = "slurm"      -> SlurmBackend(nodes)
                   [] b = "ipmi"       -> IpmiBackend(nodes)
  IN  backend.drain \o backend.isolate_network \o backend.power_fence

\* What an operation changes when its command works.
Effect(o) ==
  [operation |-> o.operation,
   target    |-> IF o.via = "apply" THEN Namespace ELSE o.node]

StepResult(o, status) ==
  [operation |-> o.operation, node |-> o.node, status |-> status]

\* Of the results `done`, those of the first operations of the plan, one says
\* that the command with effect e was tried.
OwnsUp(done, plan, e) ==
  \E i \in DOMAIN done \intersect DOMAIN plan :
    /\ Effect(plan[i]) = e
    /\ \E status \in {"success", "failure"} : done[i] = StepResult(plan[i], status)

\* What a status query says of a node when the tool answers.  It tells of the
\* state that an operation of the same backend leaves behind, whoever brought
\* it about: unschedulable is "cordoned", without power is "off".  `effects`
\* are those of the halts on this backend; when others may have touched the
\* node, it can be in either state, halt or no halt.  The cordon of a
\* kubernetes node hides whether it is ready; slurm's state is passed on; a
\* power state may be neither on nor off, the others missing: "unknown".
Told == [kubernetes |-> "cordon", slurm |-> "drain", ipmi |-> "power_fence"]

ToldEffect(b, node) == [operation |-> Told[b], target |-> node]

NodeState(b, node, effects, touched) ==
  {"unknown"} \union
  {s \in {"halted", "up"} : touched \/ (s = "halted" <=> ToldEffect(b, node) \in effects)}

\* What the code sees of a command, and when the command takes effect.  Exit
\* status 0, the tool has done it or has accepted it for later; another
\* status, no executable or a timeout; an exception that is neither
\* FileNotFoundError nor TimeoutExpired (PermissionError, another OSError,
\* output that does not decode).
Outcomes ==
  { << "success", "now" >>, << "success", "later" >>,
    << "failure", "never" >>, << "failure", "now" >>, << "failure", "later" >>,
    << "raises", "never" >>, << "raises", "now" >> }
=============================================================================
