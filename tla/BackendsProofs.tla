---------------------------- MODULE BackendsProofs ----------------------------
(***************************************************************************)
(* What the plan of a halt looks like, for any backend and any list of     *)
(* nodes: how long it is, how each of its operations is done, and where    *)
(* the operation stands that a status query tells of.                      *)
(***************************************************************************)
EXTENDS Backends, SequenceTheorems, TLAPS

OperationNames == {"cordon", "drain", "isolate_network", "suspend", "power_fence"}
Ways           == {"run_step", "apply", "skipped"}

OperationsOn(S) == [operation : OperationNames, node : S, via : Ways]

Size(r) == Len(r.nodes)
Plan(r) == HaltPlan(r.backend, r.nodes)

\* The operations of a plan that run a command of their own lie between these
\* two; the NetworkPolicy command is that of the first operation it serves.
FirstRun(r) == IF r.backend = "ipmi" THEN 2 * Size(r) + 1 ELSE 1
FinalRun(r) == CASE r.backend = "kubernetes" -> 2 * Size(r) + 1
                 [] r.backend = "slurm"      -> 2 * Size(r)
                 [] r.backend = "ipmi"       -> 3 * Size(r)

Via(r, i) ==
  IF r.backend = "kubernetes" /\ 2 * Size(r) < i /\ i <= 3 * Size(r) THEN "apply"
  ELSE IF FirstRun(r) <= i /\ i <= FinalRun(r) THEN "run_step" ELSE "skipped"

\* Two, and three, sequences in a row.
LEMMA OneAndThen ==
  ASSUME NEW S, NEW a \in Seq(S), NEW b \in Seq(S)
  PROVE  /\ a \o b \in Seq(S)
         /\ Len(a \o b) = Len(a) + Len(b)
         /\ \A i \in 1 .. Len(a) : (a \o b)[i] = a[i]
         /\ \A i \in 1 .. Len(b) : (a \o b)[Len(a) + i] = b[i]
OBVIOUS

LEMMA InARow ==
  ASSUME NEW S, NEW a \in Seq(S), NEW b \in Seq(S), NEW c \in Seq(S),
         NEW e, e = a \o b \o c
  PROVE  /\ e \in Seq(S)
         /\ Len(e) = Len(a) + Len(b) + Len(c)
         /\ \A i \in 1 .. Len(a) : e[i] = a[i]
         /\ \A i \in 1 .. Len(b) : e[Len(a) + i] = b[i]
         /\ \A i \in 1 .. Len(c) : e[Len(a) + Len(b) + i] = c[i]
<1>0. PICK d : d = a \o b
  OBVIOUS
<1>1. /\ d \in Seq(S) /\ Len(d) = Len(a) + Len(b)
      /\ \A i \in 1 .. Len(a) : d[i] = a[i]
      /\ \A i \in 1 .. Len(b) : d[Len(a) + i] = b[i]
  BY <1>0, OneAndThen
<1>2. /\ e \in Seq(S) /\ Len(e) = Len(d) + Len(c)
      /\ \A i \in 1 .. Len(d) : e[i] = d[i]
      /\ \A i \in 1 .. Len(c) : e[Len(d) + i] = c[i]
  <2>1. d \in Seq(S) /\ e = d \o c
    BY <1>0, <1>1
  <2> QED  BY <2>1, OneAndThen
<1>3. Len(a) \in Nat /\ Len(b) \in Nat /\ Len(c) \in Nat
  OBVIOUS
<1>4. /\ \A i \in 1 .. Len(a) : e[i] = a[i]
      /\ \A i \in 1 .. Len(b) : e[Len(a) + i] = b[i]
  <2>1. \A i \in 1 .. Len(a) : i \in 1 .. Len(d)
    BY <1>1, <1>3
  <2>2. \A i \in 1 .. Len(b) : Len(a) + i \in 1 .. Len(d)
    BY <1>1, <1>3
  <2> QED  BY <1>1, <1>2, <2>1, <2>2
<1> QED  BY <1>1, <1>2, <1>4

\* One operation on each node.
LEMMA EachNode ==
  ASSUME NEW S, NEW nodes \in Seq(S), NEW op \in OperationNames, NEW via \in Ways
  PROVE  /\ OnEach(nodes, op, via) \in Seq(OperationsOn(S))
         /\ Len(OnEach(nodes, op, via)) = Len(nodes)
         /\ \A i \in 1 .. Len(nodes) :
              OnEach(nodes, op, via)[i] = Operation(op, nodes[i], via)
<1>1. \A i \in 1 .. Len(nodes) : Operation(op, nodes[i], via) \in OperationsOn(S)
  BY DEF Operation, OperationsOn
<1> QED  BY <1>1 DEF OnEach

\* What a request needs to have a plan.
Planned(S, r) ==
  r.backend \in BackendNames /\ r.nodes \in Seq(S) /\ r.nodes # << >>

LEMMA KubernetesPlan ==
  ASSUME NEW S, NEW r, Planned(S, r), r.backend = "kubernetes"
  PROVE  LET n == Size(r)
         IN  /\ Plan(r) \in Seq(OperationsOn(S)) /\ Len(Plan(r)) = 4 * n
             /\ \A i \in 1 .. 2 * n :
                  Plan(r)[i] = Operation(IF i % 2 = 1 THEN "cordon" ELSE "drain",
                                         r.nodes[(i + 1) \div 2], "run_step")
             /\ \A i \in 1 .. n :
                  Plan(r)[2 * n + i] = Operation("isolate_network", r.nodes[i], "apply")
             /\ \A i \in 1 .. n :
                  Plan(r)[3 * n + i] = Operation("power_fence", r.nodes[i], "skipped")
<1>0. PICK nodes, n, T : nodes = r.nodes /\ n = Len(nodes) /\ T = OperationsOn(S)
  OBVIOUS
<1>1. nodes \in Seq(S) /\ n \in Nat /\ n = Size(r) /\ n = Len(nodes)
  BY <1>0 DEF Planned, Size
<1>2. PICK d, b, c :
        /\ d = [i \in 1 .. 2 * n |->
                  Operation(IF i % 2 = 1 THEN "cordon" ELSE "drain",
                            nodes[(i + 1) \div 2], "run_step")]
        /\ b = OnEach(nodes, "isolate_network", "apply")
        /\ c = OnEach(nodes, "power_fence", "skipped")
  OBVIOUS
<1>3. d \in Seq(T) /\ Len(d) = 2 * n
  <2>1. ASSUME NEW i \in 1 .. 2 * n PROVE d[i] \in T
    <3>1. PICK k \in 1 .. n : k = (i + 1) \div 2
      BY <1>1, <2>1
    <3>2. nodes[k] \in S
      BY <1>1
    <3> QED  BY <1>0, <1>2, <3>1, <3>2 DEF Operation, OperationsOn, OperationNames, Ways
  <2> QED  BY <1>1, <1>2, <2>1
<1>4. \A i \in 1 .. 2 * n :
        d[i] = Operation(IF i % 2 = 1 THEN "cordon" ELSE "drain",
                         nodes[(i + 1) \div 2], "run_step")
  BY <1>2
<1>5. /\ b \in Seq(T) /\ Len(b) = n
      /\ \A i \in 1 .. n : b[i] = Operation("isolate_network", nodes[i], "apply")
  BY <1>0, <1>1, <1>2, EachNode DEF OperationNames, Ways
<1>6. /\ c \in Seq(T) /\ Len(c) = n
      /\ \A i \in 1 .. n : c[i] = Operation("power_fence", nodes[i], "skipped")
  BY <1>0, <1>1, <1>2, EachNode DEF OperationNames, Ways
<1>7. PICK p : p = Plan(r) /\ p = d \o b \o c
  BY <1>0, <1>2 DEF Plan, HaltPlan, KubernetesBackend
<1>8. /\ p \in Seq(T) /\ Len(p) = 2 * n + n + n
      /\ \A i \in 1 .. 2 * n : p[i] = d[i]
      /\ \A i \in 1 .. n : p[2 * n + i] = b[i]
      /\ \A i \in 1 .. n : p[2 * n + n + i] = c[i]
  <2>1. d \in Seq(T) /\ b \in Seq(T) /\ c \in Seq(T) /\ p = d \o b \o c
    BY <1>3, <1>5, <1>6, <1>7
  <2>2. /\ p \in Seq(T) /\ Len(p) = Len(d) + Len(b) + Len(c)
        /\ \A i \in 1 .. Len(d) : p[i] = d[i]
        /\ \A i \in 1 .. Len(b) : p[Len(d) + i] = b[i]
        /\ \A i \in 1 .. Len(c) : p[Len(d) + Len(b) + i] = c[i]
    BY <2>1, InARow
  <2>3. Len(d) = 2 * n /\ Len(b) = n /\ Len(c) = n
    BY <1>3, <1>5, <1>6, <1>7
  <2> QED  BY <2>2, <2>3
<1>9. 2 * n + n + n = 4 * n /\ \A i \in 1 .. n : 2 * n + n + i = 3 * n + i
  BY <1>1
<1> QED  BY <1>0, <1>1, <1>4, <1>5, <1>6, <1>7, <1>8, <1>9

LEMMA SlurmPlan ==
  ASSUME NEW S, NEW r, Planned(S, r), r.backend = "slurm"
  PROVE  LET n == Size(r)
         IN  /\ Plan(r) \in Seq(OperationsOn(S)) /\ Len(Plan(r)) = 3 * n
             /\ \A i \in 1 .. n : Plan(r)[i] = Operation("drain", r.nodes[i], "run_step")
             /\ \A i \in 1 .. n :
                  Plan(r)[n + i] = Operation("suspend", r.nodes[i], "run_step")
             /\ \A i \in 1 .. n :
                  Plan(r)[2 * n + i] = Operation("power_fence", r.nodes[i], "skipped")
<1>0. PICK nodes, n, T : nodes = r.nodes /\ n = Len(nodes) /\ T = OperationsOn(S)
  OBVIOUS
<1>1. nodes \in Seq(S) /\ n \in Nat /\ n = Size(r) /\ n = Len(nodes)
  BY <1>0 DEF Planned, Size
<1>2. PICK a, b, c : /\ a = OnEach(nodes, "drain", "run_step")
                     /\ b = OnEach(nodes, "suspend", "run_step")
                     /\ c = OnEach(nodes, "power_fence", "skipped")
  OBVIOUS
<1>3. /\ a \in Seq(T) /\ Len(a) = n
      /\ \A i \in 1 .. n : a[i] = Operation("drain", nodes[i], "run_step")
  BY <1>0, <1>1, <1>2, EachNode DEF OperationNames, Ways
<1>4. /\ b \in Seq(T) /\ Len(b) = n
      /\ \A i \in 1 .. n : b[i] = Operation("suspend", nodes[i], "run_step")
  BY <1>0, <1>1, <1>2, EachNode DEF OperationNames, Ways
<1>5. /\ c \in Seq(T) /\ Len(c) = n
      /\ \A i \in 1 .. n : c[i] = Operation("power_fence", nodes[i], "skipped")
  BY <1>0, <1>1, <1>2, EachNode DEF OperationNames, Ways
<1>6. PICK p : p = Plan(r) /\ p = a \o b \o c
  BY <1>0, <1>2 DEF Plan, HaltPlan, SlurmBackend
<1>7. /\ p \in Seq(T) /\ Len(p) = n + n + n
      /\ \A i \in 1 .. n : p[i] = a[i]
      /\ \A i \in 1 .. n : p[n + i] = b[i]
      /\ \A i \in 1 .. n : p[n + n + i] = c[i]
  <2>1. a \in Seq(T) /\ b \in Seq(T) /\ c \in Seq(T) /\ p = a \o b \o c
    BY <1>3, <1>4, <1>5, <1>6
  <2>2. /\ p \in Seq(T) /\ Len(p) = Len(a) + Len(b) + Len(c)
        /\ \A i \in 1 .. Len(a) : p[i] = a[i]
        /\ \A i \in 1 .. Len(b) : p[Len(a) + i] = b[i]
        /\ \A i \in 1 .. Len(c) : p[Len(a) + Len(b) + i] = c[i]
    BY <2>1, InARow
  <2>3. Len(a) = n /\ Len(b) = n /\ Len(c) = n
    BY <1>3, <1>4, <1>5, <1>6
  <2> QED  BY <2>2, <2>3
<1>8. n + n + n = 3 * n /\ \A i \in 1 .. n : n + n + i = 2 * n + i
  BY <1>1
<1> QED  BY <1>0, <1>1, <1>3, <1>4, <1>5, <1>6, <1>7, <1>8

LEMMA IpmiPlan ==
  ASSUME NEW S, NEW r, Planned(S, r), r.backend = "ipmi"
  PROVE  LET n == Size(r)
         IN  /\ Plan(r) \in Seq(OperationsOn(S)) /\ Len(Plan(r)) = 3 * n
             /\ \A i \in 1 .. n : Plan(r)[i] = Operation("drain", r.nodes[i], "skipped")
             /\ \A i \in 1 .. n :
                  Plan(r)[n + i] = Operation("isolate_network", r.nodes[i], "skipped")
             /\ \A i \in 1 .. n :
                  Plan(r)[2 * n + i] = Operation("power_fence", r.nodes[i], "run_step")
<1>0. PICK nodes, n, T : nodes = r.nodes /\ n = Len(nodes) /\ T = OperationsOn(S)
  OBVIOUS
<1>1. nodes \in Seq(S) /\ n \in Nat /\ n = Size(r) /\ n = Len(nodes)
  BY <1>0 DEF Planned, Size
<1>2. PICK a, b, c : /\ a = OnEach(nodes, "drain", "skipped")
                     /\ b = OnEach(nodes, "isolate_network", "skipped")
                     /\ c = OnEach(nodes, "power_fence", "run_step")
  OBVIOUS
<1>3. /\ a \in Seq(T) /\ Len(a) = n
      /\ \A i \in 1 .. n : a[i] = Operation("drain", nodes[i], "skipped")
  BY <1>0, <1>1, <1>2, EachNode DEF OperationNames, Ways
<1>4. /\ b \in Seq(T) /\ Len(b) = n
      /\ \A i \in 1 .. n : b[i] = Operation("isolate_network", nodes[i], "skipped")
  BY <1>0, <1>1, <1>2, EachNode DEF OperationNames, Ways
<1>5. /\ c \in Seq(T) /\ Len(c) = n
      /\ \A i \in 1 .. n : c[i] = Operation("power_fence", nodes[i], "run_step")
  BY <1>0, <1>1, <1>2, EachNode DEF OperationNames, Ways
<1>6. PICK p : p = Plan(r) /\ p = a \o b \o c
  BY <1>0, <1>2 DEF Plan, HaltPlan, IpmiBackend
<1>7. /\ p \in Seq(T) /\ Len(p) = n + n + n
      /\ \A i \in 1 .. n : p[i] = a[i]
      /\ \A i \in 1 .. n : p[n + i] = b[i]
      /\ \A i \in 1 .. n : p[n + n + i] = c[i]
  <2>1. a \in Seq(T) /\ b \in Seq(T) /\ c \in Seq(T) /\ p = a \o b \o c
    BY <1>3, <1>4, <1>5, <1>6
  <2>2. /\ p \in Seq(T) /\ Len(p) = Len(a) + Len(b) + Len(c)
        /\ \A i \in 1 .. Len(a) : p[i] = a[i]
        /\ \A i \in 1 .. Len(b) : p[Len(a) + i] = b[i]
        /\ \A i \in 1 .. Len(c) : p[Len(a) + Len(b) + i] = c[i]
    BY <2>1, InARow
  <2>3. Len(a) = n /\ Len(b) = n /\ Len(c) = n
    BY <1>3, <1>4, <1>5, <1>6
  <2> QED  BY <2>2, <2>3
<1>8. n + n + n = 3 * n /\ \A i \in 1 .. n : n + n + i = 2 * n + i
  BY <1>1
<1> QED  BY <1>0, <1>1, <1>3, <1>4, <1>5, <1>6, <1>7, <1>8

\* The plan of each backend: how long it is, and how its operations are done.
LEMMA PlanShape ==
  ASSUME NEW S, NEW r, Planned(S, r)
  PROVE  /\ Size(r) \in Nat \ {0}
         /\ Plan(r) \in Seq(OperationsOn(S))
         /\ Len(Plan(r)) = IF r.backend = "kubernetes" THEN 4 * Size(r) ELSE 3 * Size(r)
         /\ \A i \in 1 .. Len(Plan(r)) :
              /\ Plan(r)[i].via = Via(r, i)
              /\ Via(r, i) = "apply" => Plan(r)[i].operation = "isolate_network"
<1>0. PICK n : n = Size(r)
  OBVIOUS
<1>1. n \in Nat \ {0} /\ r.backend \in {"kubernetes", "slurm", "ipmi"}
  BY <1>0, EmptySeq DEF Planned, Size, BackendNames
<1>2. \A op, x, via : /\ Operation(op, x, via).via = via
                      /\ Operation(op, x, via).operation = op
  BY DEF Operation
<1>3. CASE r.backend = "kubernetes"
  <2>1. /\ Plan(r) \in Seq(OperationsOn(S)) /\ Len(Plan(r)) = 4 * n
        /\ \A i \in 1 .. 2 * n : Plan(r)[i].via = "run_step"
        /\ \A i \in 1 .. n : /\ Plan(r)[2 * n + i].via = "apply"
                             /\ Plan(r)[2 * n + i].operation = "isolate_network"
        /\ \A i \in 1 .. n : Plan(r)[3 * n + i].via = "skipped"
    BY <1>0, <1>2, <1>3, KubernetesPlan
  <2>2. ASSUME NEW i \in 1 .. 4 * n, 2 * n < i, i <= 3 * n
        PROVE  Plan(r)[i].via = "apply" /\ Plan(r)[i].operation = "isolate_network"
    <3>1. i - 2 * n \in 1 .. n /\ i = 2 * n + (i - 2 * n)
      BY <1>1, <2>2
    <3> QED  BY <2>1, <3>1
  <2>3. ASSUME NEW i \in 1 .. 4 * n, 3 * n < i PROVE Plan(r)[i].via = "skipped"
    <3>1. i - 3 * n \in 1 .. n /\ i = 3 * n + (i - 3 * n)
      BY <1>1, <2>3
    <3> QED  BY <2>1, <3>1
  <2> QED
    BY <1>0, <1>1, <1>3, <2>1, <2>2, <2>3 DEF Via, FirstRun, FinalRun
<1>4. CASE r.backend = "slurm"
  <2>1. /\ Plan(r) \in Seq(OperationsOn(S)) /\ Len(Plan(r)) = 3 * n
        /\ \A i \in 1 .. n : Plan(r)[i].via = "run_step"
        /\ \A i \in 1 .. n : Plan(r)[n + i].via = "run_step"
        /\ \A i \in 1 .. n : Plan(r)[2 * n + i].via = "skipped"
    BY <1>0, <1>2, <1>4, SlurmPlan
  <2>2. ASSUME NEW i \in 1 .. 3 * n, n < i, i <= 2 * n
        PROVE  Plan(r)[i].via = "run_step"
    <3>1. i - n \in 1 .. n /\ i = n + (i - n)
      BY <1>1, <2>2
    <3> QED  BY <2>1, <3>1
  <2>3. ASSUME NEW i \in 1 .. 3 * n, 2 * n < i PROVE Plan(r)[i].via = "skipped"
    <3>1. i - 2 * n \in 1 .. n /\ i = 2 * n + (i - 2 * n)
      BY <1>1, <2>3
    <3> QED  BY <2>1, <3>1
  <2> QED
    BY <1>0, <1>1, <1>4, <2>1, <2>2, <2>3 DEF Via, FirstRun, FinalRun
<1>5. CASE r.backend = "ipmi"
  <2>1. /\ Plan(r) \in Seq(OperationsOn(S)) /\ Len(Plan(r)) = 3 * n
        /\ \A i \in 1 .. n : Plan(r)[i].via = "skipped"
        /\ \A i \in 1 .. n : Plan(r)[n + i].via = "skipped"
        /\ \A i \in 1 .. n : Plan(r)[2 * n + i].via = "run_step"
    BY <1>0, <1>2, <1>5, IpmiPlan
  <2>2. ASSUME NEW i \in 1 .. 3 * n, n < i, i <= 2 * n
        PROVE  Plan(r)[i].via = "skipped"
    <3>1. i - n \in 1 .. n /\ i = n + (i - n)
      BY <1>1, <2>2
    <3> QED  BY <2>1, <3>1
  <2>3. ASSUME NEW i \in 1 .. 3 * n, 2 * n < i PROVE Plan(r)[i].via = "run_step"
    <3>1. i - 2 * n \in 1 .. n /\ i = 2 * n + (i - 2 * n)
      BY <1>1, <2>3
    <3> QED  BY <2>1, <3>1
  <2> QED
    BY <1>0, <1>1, <1>5, <2>1, <2>2, <2>3 DEF Via, FirstRun, FinalRun
<1> QED  BY <1>1, <1>3, <1>4, <1>5

\* Each node has an operation of its own in the plan whose effect is what a
\* status query tells of.
LEMMA ToldPlanned ==
  ASSUME NEW S, NEW r, Planned(S, r), NEW k \in 1 .. Size(r)
  PROVE  \E i \in 1 .. Len(Plan(r)) :
           /\ Plan(r)[i].via = "run_step"
           /\ Effect(Plan(r)[i])
                = [operation |-> Told[r.backend], target |-> r.nodes[k]]
<1>0. PICK n, x : n = Size(r) /\ x = r.nodes[k]
  OBVIOUS
<1>1. n \in Nat \ {0} /\ r.backend \in {"kubernetes", "slurm", "ipmi"} /\ k \in 1 .. n
  BY <1>0, PlanShape DEF Planned, BackendNames
<1>2. \A op : /\ Operation(op, x, "run_step").via = "run_step"
              /\ Effect(Operation(op, x, "run_step")) = [operation |-> op, target |-> x]
  BY DEF Operation, Effect
<1>3. /\ Told["kubernetes"] = "cordon" /\ Told["slurm"] = "drain"
      /\ Told["ipmi"] = "power_fence"
  BY DEF Told
<1>4. CASE r.backend = "kubernetes"
  <2>1. 2 * k - 1 \in 1 .. 2 * n /\ 2 * k - 1 \in 1 .. 4 * n
    BY <1>1
  <2>2. (2 * k - 1) % 2 = 1 /\ ((2 * k - 1) + 1) \div 2 = k
    BY <1>1
  <2>3. Len(Plan(r)) = 4 * n /\ Plan(r)[2 * k - 1] = Operation("cordon", x, "run_step")
    BY <1>0, <1>4, <2>1, <2>2, KubernetesPlan
  <2> QED  BY <1>2, <1>3, <1>4, <1>0, <2>1, <2>3
<1>5. CASE r.backend = "slurm"
  <2>1. Len(Plan(r)) = 3 * n /\ Plan(r)[k] = Operation("drain", x, "run_step")
    BY <1>0, <1>5, SlurmPlan
  <2>2. k \in 1 .. 3 * n
    BY <1>1
  <2> QED  BY <1>2, <1>3, <1>5, <1>0, <2>1, <2>2
<1>6. CASE r.backend = "ipmi"
  <2>1. Len(Plan(r)) = 3 * n /\ Plan(r)[2 * n + k] = Operation("power_fence", x, "run_step")
    BY <1>0, <1>6, IpmiPlan
  <2>2. 2 * n + k \in 1 .. 3 * n
    BY <1>1
  <2> QED  BY <1>2, <1>3, <1>6, <1>0, <2>1, <2>2
<1> QED  BY <1>1, <1>4, <1>5, <1>6
=============================================================================
