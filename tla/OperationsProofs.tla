---------------------------- MODULE OperationsProofs ----------------------------
(***************************************************************************)
(* Theorems about Operations, for any hosts, options, config files,        *)
(* directories and number of halts: where the commands agree.              *)
(***************************************************************************)
EXTENDS Operations, FiniteSetTheorems, TLAPS

\* What an option that was given decides, the config does not.
LEMMA GivenDecides ==
  ASSUME NEW a, a \notin {None, ""}, NEW b
  PROVE  Or(a, b) = a
BY DEF Or

-----------------------------------------------------------------------------
(* Two commands, the same options *)

ThisHostInv == host \in Hosts /\ args \in Arguments /\ cwd \in Dirs

LEMMA HostStays == [Next]_vars => UNCHANGED << host, args >>
BY DEF Next, vars, ChangeDirectory, Halt, Status, VerifyChain, Verify, Keygen

LEMMA ThisHostStep == ThisHostInv /\ [Next]_vars => ThisHostInv'
BY DEF ThisHostInv, Next, vars, ChangeDirectory, Halt, Status, VerifyChain, Verify, Keygen

LEMMA ThisHost == Spec => []ThisHostInv
<1>1. Init => ThisHostInv
  BY DEF Init, ThisHostInv
<1> QED BY <1>1, ThisHostStep, PTL DEF Spec

\* status shows what halt would do: both resolve the nodes and the backend in
\* the same way, but for an empty list passed over MCP.
THEOREM StatusPreviews == Spec => []StatusPreviewsHalt
<1>1. ThisHostInv => StatusPreviewsHalt
  <2> SUFFICES ASSUME ThisHostInv, args.nodes = << >> => args.via = "cli"
               PROVE  LET h == HaltResolution(args, Config, host)
                          s == StatusResolution([args EXCEPT !.grouped = TRUE], Config, host)
                      IN  CASE h.result = "ok"    -> /\ s.result = "ok"
                                                     /\ s.nodes = h.nodes
                                                     /\ s.backend = h.backend
                            [] h.result = "error" -> s.result = "error" \/ s.nodes = << >>
                            [] OTHER              -> s.result = h.result
    BY DEF StatusPreviewsHalt
  <2>1. PICK config, grouped : /\ config = Config
                               /\ grouped = [args EXCEPT !.grouped = TRUE]
    OBVIOUS
  <2>2. /\ grouped.via = args.via /\ grouped.nodes = args.nodes
        /\ grouped.backend = args.backend /\ grouped.grouped
    BY <2>1, OperationsAssumption DEF ThisHostInv
  <2>3. PICK backend : backend = resolve_backend_name(args.backend, config, host)
    OBVIOUS
  <2>4. resolve_backend_name(grouped.backend, config, host) = backend
    BY <2>2, <2>3
  <2>5. NodesGiven(grouped) = NodesGiven(args)
    BY <2>2 DEF NodesGiven
  <2>6. PICK nodes : nodes = OrNodes(NodesGiven(args), config.nodes)
    OBVIOUS
  <2>7. (IF NodesGiven(grouped) = None /\ grouped.grouped THEN config.nodes
         ELSE NodesGiven(grouped)) = nodes
    <3>1. NodesGiven(args) = << >> => NodesGiven(args) = None
      BY DEF NodesGiven
    <3> QED  BY <2>2, <2>5, <2>6, <3>1 DEF OrNodes
  <2>8. CASE config = Malformed
    <3>1. HaltResolution(args, config, host) = [result |-> "raised"]
      BY <2>8 DEF HaltResolution
    <3>2. StatusResolution(grouped, config, host) = [result |-> "raised"]
      BY <2>8 DEF StatusResolution
    <3> QED  BY <2>1, <3>1, <3>2
  <2>9. CASE config # Malformed /\ nodes \in {None, << >>}
    <3>1. HaltResolution(args, config, host) = [result |-> "error"]
      BY <2>6, <2>9 DEF HaltResolution
    <3>2. StatusResolution(grouped, config, host)
            = [result |-> "ok", nodes |-> << >>, backend |-> None]
      BY <2>7, <2>9 DEF StatusResolution
    <3> QED  BY <2>1, <3>1, <3>2
  <2>10. CASE config # Malformed /\ nodes \notin {None, << >>} /\ ~Known(backend)
    <3>1. HaltResolution(args, config, host) = [result |-> "error"]
      BY <2>3, <2>6, <2>10 DEF HaltResolution
    <3>2. StatusResolution(grouped, config, host) = [result |-> "error"]
      BY <2>4, <2>7, <2>10 DEF StatusResolution
    <3> QED  BY <2>1, <3>1, <3>2
  <2>11. CASE config # Malformed /\ nodes \notin {None, << >>} /\ Known(backend)
    <3>1. PICK h : h = HaltResolution(args, config, host)
      OBVIOUS
    <3>2. h.result = "ok" /\ h.nodes = nodes /\ h.backend = backend
      BY <2>3, <2>6, <2>11, <3>1 DEF HaltResolution
    <3>3. StatusResolution(grouped, config, host)
            = [result |-> "ok", nodes |-> nodes, backend |-> backend]
      BY <2>4, <2>7, <2>11 DEF StatusResolution
    <3> QED  BY <2>1, <3>1, <3>2, <3>3
  <2> QED  BY <2>8, <2>9, <2>10, <2>11
<1> QED BY <1>1, ThisHost, PTL

\* With every option given, no config file has a say in what a halt does.
THEOREM OptionsDecide == Spec => []ExplicitDecides
<1>1. ThisHostInv => ExplicitDecides
  <2> SUFFICES ASSUME Explicit, NEW c \in Contents \ {Malformed}
               PROVE  LET r == HaltResolution(args, c, host)
                          d == HaltResolution(args, Defaults, host)
                      IN  /\ r.result = d.result
                          /\ \A f \in DOMAIN r \ {"settings"} : r[f] = d[f]
    BY DEF ExplicitDecides
  <2>1. NodesGiven(args) \notin {None, << >>}
    BY DEF Explicit, NodesGiven
  <2>2. PICK nodes : nodes = NodesGiven(args)
    OBVIOUS
  <2>3. \A x : OrNodes(NodesGiven(args), x) = nodes
    BY <2>1, <2>2 DEF OrNodes
  <2>4. \A x, y : Or(args.backend, x) = args.backend /\ Or(args.log, x) = args.log
                  /\ Or(args.key, x) = args.key /\ Or(args.operator, x) = args.operator
                  /\ Or(args.collector, x) = args.collector
    BY GivenDecides DEF Explicit
  <2>5. \A x : resolve_backend_name(args.backend, x, host) = args.backend
    BY <2>4 DEF resolve_backend_name
  <2>6. PICK by : by = resolve_operator_id(args.operator, host)
    OBVIOUS
  <2>7. ASSUME NEW x, x # Malformed, Known(args.backend)
        PROVE  \E s : HaltResolution(args, x, host)
                        = [result |-> "ok", nodes |-> nodes, backend |-> args.backend,
                           settings |-> s, operator |-> by, log |-> args.log,
                           key |-> args.key, collector |-> args.collector]
    <3> DEFINE settings ==
          CASE args.backend = "kubernetes" -> x.namespace
            [] args.backend = "slurm"      -> None
            [] args.backend = "ipmi"       -> x.user
    <3>1. HaltResolution(args, x, host)
            = [result |-> "ok", nodes |-> nodes, backend |-> args.backend,
               settings |-> settings, operator |-> by, log |-> args.log,
               key |-> args.key, collector |-> args.collector]
      BY <2>1, <2>2, <2>3, <2>4, <2>5, <2>6, <2>7 DEF HaltResolution
    <3> HIDE DEF settings
    <3> QED  BY <3>1
  <2>8. ASSUME NEW x, x # Malformed, ~Known(args.backend)
        PROVE  HaltResolution(args, x, host) = [result |-> "error"]
    BY <2>5, <2>8 DEF HaltResolution
  <2>9. c # Malformed /\ Defaults # Malformed
    BY OperationsAssumption
  <2>10. CASE ~Known(args.backend)
    BY <2>8, <2>9, <2>10
  <2>11. CASE Known(args.backend)
    <3>1. PICK s : HaltResolution(args, c, host)
                    = [result |-> "ok", nodes |-> nodes, backend |-> args.backend,
                       settings |-> s, operator |-> by, log |-> args.log,
                       key |-> args.key, collector |-> args.collector]
      BY <2>7, <2>9, <2>11
    <3>2. PICK t : HaltResolution(args, Defaults, host)
                    = [result |-> "ok", nodes |-> nodes, backend |-> args.backend,
                       settings |-> t, operator |-> by, log |-> args.log,
                       key |-> args.key, collector |-> args.collector]
      BY <2>7, <2>9, <2>11
    <3> QED  BY <3>1, <3>2
  <2> QED  BY <2>10, <2>11
<1> QED BY <1>1, ThisHost, PTL

-----------------------------------------------------------------------------
(* One place for a path *)

\* Where a path is fixed, every command means this file by it.
LogFile == << "/", Or(args.log, DefaultLog) >>
KeyFile == << "/", Or(args.key, DefaultKey) >>

\* Then no other log or key file was ever used.
PlacesInv ==
  /\ logs \in Seq(ToSet(logs))
  /\ Fixed("log") => \A i \in DOMAIN logs : logs[i] = LogFile
  /\ Fixed("key") => keys \subseteq {KeyFile}

LEMMA FixedStays ==
  ASSUME [Next]_vars
  PROVE  /\ Fixed("log")' <=> Fixed("log")
         /\ Fixed("key")' <=> Fixed("key")
         /\ LogFile' = LogFile /\ KeyFile' = KeyFile
BY HostStays DEF Fixed, LogFile, KeyFile

\* What the options or else the default say, in any directory.
LEMMA FixedLog ==
  ASSUME ThisHostInv, Fixed("log")
  PROVE  VerifiedLog = LogFile
<1>1. Or(args.log, DefaultLog) \notin Relative
  BY OperationsAssumption DEF Fixed, Or
<1> QED BY <1>1 DEF VerifiedLog, File, LogFile

LEMMA FixedKey ==
  ASSUME ThisHostInv, Fixed("key")
  PROVE  File(Or(args.key, DefaultKey), cwd) = KeyFile
<1>1. Or(args.key, DefaultKey) \notin Relative
  BY OperationsAssumption DEF Fixed, Or
<1> QED BY <1>1 DEF File, KeyFile

\* A halt that comes to its log and key means the same files.
LEMMA FixedHalt ==
  ASSUME ThisHostInv, NEW r, r = HaltResolution(args, Config, host), r.result = "ok"
  PROVE  /\ DOMAIN r = {"result", "nodes", "backend", "settings", "operator", "log",
                        "key", "collector"}
         /\ Fixed("log") => File(r.log, cwd) = LogFile
         /\ Fixed("key") => File(r.key, cwd) = KeyFile
<1>1. PICK c : c = Config
  OBVIOUS
<1>2. c # Malformed /\ r.log = Or(args.log, Or(c.log, DefaultLog))
      /\ r.key = Or(args.key, Or(c.key, DefaultKey))
      /\ DOMAIN r = {"result", "nodes", "backend", "settings", "operator", "log",
                     "key", "collector"}
  BY <1>1 DEF HaltResolution
<1>3. Fixed("log") => r.log = Or(args.log, DefaultLog)
  BY <1>1, <1>2 DEF Fixed, Or, Config, ThisHostInv
<1>4. Fixed("key") => r.key = Or(args.key, DefaultKey)
  BY <1>1, <1>2 DEF Fixed, Or, Config, ThisHostInv
<1> QED BY <1>2, <1>3, <1>4, FixedLog, FixedKey DEF VerifiedLog

\* What a halt comes to: no record, or one at the end of a log.
LEMMA HaltDoes ==
  ASSUME ThisHostInv, Halt
  PROVE  /\ last'.command = "halt" /\ keys' = keys
         /\ \/ logs' = logs
            \/ \E f : logs' = Append(logs, f) /\ (Fixed("log") => f = LogFile)
         /\ last'.result = "no key" =>
              \E f : f \notin keys /\ (Fixed("key") => f = KeyFile)
<1>1. PICK r : r = HaltResolution(args, Config, host)
  OBVIOUS
<1>2. keys' = keys
  BY DEF Halt
<1>3. CASE r.result # "ok"
  <2>1. Done("halt", r) /\ logs' = logs
    BY <1>1, <1>3 DEF Halt
  <2>2. r = [result |-> "raised"] \/ r = [result |-> "error"]
    <3>1. PICK c : c = Config
      OBVIOUS
    <3> QED  BY <1>1, <1>3, <3>1 DEF HaltResolution
  <2>3. DOMAIN r = {"result"} /\ r["result"] # "no key"
    <3>1. CASE r = [result |-> "raised"]
      BY <3>1
    <3>2. CASE r = [result |-> "error"]
      BY <3>2
    <3> QED  BY <2>2, <3>1, <3>2
  <2>4. last'.command = "halt" /\ last'.result = r["result"]
    BY <2>1, <2>3 DEF Done
  <2> QED  BY <1>2, <2>1, <2>3, <2>4
<1>4. CASE r.result = "ok"
  <2>1. /\ DOMAIN r = {"result", "nodes", "backend", "settings", "operator", "log",
                       "key", "collector"}
        /\ Fixed("log") => File(r.log, cwd) = LogFile
        /\ Fixed("key") => File(r.key, cwd) = KeyFile
    BY <1>1, <1>4, FixedHalt
  <2>2. \/ logs' = Append(logs, File(r.log, cwd)) /\ Done("halt", r)
        \/ File(r.key, cwd) \notin keys /\ logs' = logs
           /\ Done("halt", [result |-> "no key"])
    BY <1>1, <1>4 DEF Halt
  <2>3. CASE logs' = Append(logs, File(r.log, cwd)) /\ Done("halt", r)
    <3>1. last'.command = "halt" /\ last'.result = "ok"
      BY <1>4, <2>1, <2>3 DEF Done
    <3> QED  BY <1>2, <2>1, <2>3, <3>1
  <2>4. CASE File(r.key, cwd) \notin keys /\ logs' = logs
             /\ Done("halt", [result |-> "no key"])
    <3>1. last'.command = "halt"
      BY <2>4 DEF Done
    <3> QED  BY <1>2, <2>1, <2>4, <3>1
  <2> QED  BY <2>2, <2>3, <2>4
<1> QED BY <1>3, <1>4
\* The commands that only read.
LEMMA ReadersDo ==
  ASSUME Status \/ VerifyChain \/ Verify
  PROVE  /\ UNCHANGED << logs, keys >>
         /\ last'.command \in {"status", "verify", "verify --chain"}
         /\ last'.command = "verify" =>
              logs # << >> /\ (last'.result = "ok" <=> Last(logs) = VerifiedLog)
         /\ last'.command = "verify --chain" =>
              last'.count = Cardinality({i \in DOMAIN logs : logs[i] = VerifiedLog})
<1>1. UNCHANGED << logs, keys >>
  BY DEF Status, VerifyChain, Verify
<1>2. CASE Status
  <2>1. last'.command = "status"
    BY <1>2 DEF Status, Done
  <2> QED  BY <1>1, <2>1
<1>3. CASE VerifyChain
  <2>1. /\ last'.command = "verify --chain"
        /\ last'.count = Cardinality({i \in DOMAIN logs : logs[i] = VerifiedLog})
    BY <1>3 DEF VerifyChain, Done
  <2> QED  BY <1>1, <2>1
<1>4. CASE Verify
  <2>1. /\ last'.command = "verify" /\ logs # << >>
        /\ last'.result = IF Last(logs) = VerifiedLog THEN "ok" ELSE "error"
    BY <1>4 DEF Verify, Done
  <2> QED  BY <1>1, <2>1
<1> QED BY <1>2, <1>3, <1>4

LEMMA KeygenDoes ==
  ASSUME ThisHostInv, Keygen
  PROVE  /\ logs' = logs /\ last'.command = "keygen"
         /\ Fixed("key") => keys' = keys \union {KeyFile}
<1>1. last'.command = "keygen"
  BY DEF Keygen, Done
<1> QED BY <1>1, FixedKey DEF Keygen

\* One log holds every halt, one file the key.
LEMMA PlacesStep ==
  ASSUME ThisHostInv, PlacesInv, [Next]_vars
  PROVE  PlacesInv'
<1>1. /\ Fixed("log")' <=> Fixed("log")
      /\ Fixed("key")' <=> Fixed("key")
      /\ LogFile' = LogFile /\ KeyFile' = KeyFile
  BY FixedStays
<1>2. CASE UNCHANGED << logs, keys >>
  BY <1>1, <1>2 DEF PlacesInv
<1>3. CASE ChangeDirectory \/ UNCHANGED vars \/ Status \/ VerifyChain \/ Verify
  BY <1>2, <1>3, ReadersDo DEF ChangeDirectory, vars
<1>4. CASE Halt
  <2>1. keys' = keys
    BY <1>4, HaltDoes
  <2>2. CASE logs' = logs
    BY <1>2, <2>1, <2>2
  <2>3. ASSUME NEW f, logs' = Append(logs, f), Fixed("log") => f = LogFile
        PROVE  PlacesInv'
    <3>1. PICK s, n : s = logs /\ s \in Seq(ToSet(s)) /\ n = Len(s)
      BY DEF PlacesInv
    <3>2. /\ n \in Nat /\ DOMAIN s = 1 .. n
          /\ Append(s, f) = [i \in 1 .. n + 1 |-> IF i = n + 1 THEN f ELSE s[i]]
      <4>1. PICK S : S = ToSet(s) \union {f}
        OBVIOUS
      <4>2. n \in Nat /\ DOMAIN s = 1 .. n
        BY <3>1
      <4>3. s \in Seq(S) /\ f \in S
        BY <3>1, <4>1, <4>2 DEF ToSet
      <4>4. PICK t : t = Append(s, f)
        OBVIOUS
      <4>5. t \in Seq(S) /\ Len(t) = n + 1 /\ t[n + 1] = f /\ \A i \in 1 .. n : t[i] = s[i]
        BY <3>1, <4>3, <4>4
      <4>6. t = [i \in 1 .. n + 1 |-> t[i]]
        BY <4>5
      <4>7. \A i \in 1 .. n + 1 : t[i] = IF i = n + 1 THEN f ELSE s[i]
        <5>1. \A i \in 1 .. n + 1 : i \in 1 .. n \/ i = n + 1
          BY <4>2
        <5>2. \A i \in 1 .. n : i # n + 1
          BY <4>2
        <5> QED  BY <4>5, <5>1, <5>2
      <4> QED  BY <4>2, <4>4, <4>6, <4>7
    <3>3. Append(s, f) \in Seq(ToSet(Append(s, f)))
      BY <3>2 DEF ToSet
    <3>4. /\ DOMAIN logs' = 1 .. n + 1 /\ logs'[n + 1] = f
          /\ \A i \in 1 .. n : logs'[i] = logs[i]
      BY <2>3, <3>1, <3>2
    <3>5. \A i \in 1 .. n + 1 : i \in 1 .. n \/ i = n + 1
      BY <3>2
    <3>6. logs' \in Seq(ToSet(logs'))
      BY <2>3, <3>1, <3>3 DEF ToSet
    <3> QED  BY <1>1, <2>1, <2>3, <3>1, <3>2, <3>4, <3>5, <3>6 DEF PlacesInv
  <2> QED  BY <1>4, <2>2, <2>3, HaltDoes
<1>5. CASE Keygen
  BY <1>1, <1>5, KeygenDoes DEF PlacesInv
<1> QED BY <1>3, <1>4, <1>5 DEF Next

\* Where the path of the log is fixed, verify finds the last record, and
\* verify --chain judges every record.
LEMMA ReachStep ==
  ASSUME ThisHostInv, PlacesInv, RecordsInReach, [Next]_vars
  PROVE  RecordsInReach'
<1> SUFFICES ASSUME Fixed("log")
             PROVE  /\ last'.command = "verify --chain" => last'.count = Len(logs')
                    /\ last'.command = "verify" => last'.result = "ok"
  BY FixedStays DEF RecordsInReach
<1>1. VerifiedLog = LogFile
  BY FixedLog
<1>2. PICK n \in Nat : /\ n = Len(logs) /\ DOMAIN logs = 1 .. n
                       /\ logs # << >> => n # 0
  <2>1. PICK s : s = logs /\ s \in Seq(ToSet(s))
    BY DEF PlacesInv
  <2> QED  BY <2>1
<1>3. \A i \in 1 .. n : logs[i] = VerifiedLog
  BY <1>1, <1>2 DEF PlacesInv
<1>4. CASE Status \/ VerifyChain \/ Verify
  <2>1. logs # << >> => Last(logs) = VerifiedLog
    BY <1>2, <1>3 DEF Last
  <2>2. Cardinality({i \in DOMAIN logs : logs[i] = VerifiedLog}) = n
    <3>1. {i \in DOMAIN logs : logs[i] = VerifiedLog} = 1 .. n
      BY <1>2, <1>3
    <3>2. Cardinality(1 .. n) = n
      BY FS_Interval
    <3> QED  BY <3>1, <3>2
  <2> QED  BY <1>2, <1>4, <2>1, <2>2, ReadersDo
<1>5. CASE ChangeDirectory \/ UNCHANGED vars
  BY <1>5 DEF ChangeDirectory, vars, RecordsInReach
<1>6. CASE Halt \/ Keygen
  <2>1. last'.command \in {"halt", "keygen"}
    BY <1>6, HaltDoes, KeygenDoes
  <2> QED  BY <2>1
<1> QED BY <1>4, <1>5, <1>6 DEF Next

LEMMA PlacesInit == Init => PlacesInv /\ RecordsInReach
<1> SUFFICES ASSUME Init PROVE PlacesInv /\ RecordsInReach
  OBVIOUS
<1>1. logs = << >> /\ keys = {} /\ last.command = "none"
  BY DEF Init
<1> QED BY <1>1 DEF PlacesInv, RecordsInReach

THEOREM PlacesInvariant == Spec => [](ThisHostInv /\ PlacesInv)
BY ThisHost, ThisHostStep, PlacesInit, PlacesStep, PTL DEF Spec

\* Where the path of the log is fixed, a chain verdict covers every recorded
\* halt, and the last record is found, from whatever directory.
THEOREM RecordsStayInReach == Spec => []RecordsInReach
BY PlacesInvariant, PlacesInit, ReachStep, PTL DEF Spec

\* Where the path of the key is fixed, no halt misses it after a keygen.
THEOREM KeygenServes == Spec => KeygenServesHalts
<1> DEFINE Served == Fixed("key") /\ keys # {} =>
                       ~(last'.command = "halt" /\ last'.result = "no key" /\ last' # last)
<1>1. ThisHostInv /\ PlacesInv /\ [Next]_vars => [Served]_vars
  <2> SUFFICES ASSUME ThisHostInv, PlacesInv, [Next]_vars, Fixed("key"), keys # {},
                      last'.command = "halt", last'.result = "no key", last' # last
               PROVE  FALSE
    OBVIOUS
  <2>1. keys = {KeyFile}
    BY DEF PlacesInv
  <2>2. ~Halt
    BY <2>1, HaltDoes
  <2>3. ~(Status \/ VerifyChain \/ Verify \/ Keygen)
    BY ReadersDo, KeygenDoes
  <2>4. ~(ChangeDirectory \/ UNCHANGED vars)
    BY DEF ChangeDirectory, vars
  <2> QED  BY <2>2, <2>3, <2>4 DEF Next
<1>2. KeygenServesHalts <=> [][Served]_vars
  BY PTL DEF KeygenServesHalts
<1> QED BY <1>1, <1>2, PlacesInvariant, PTL DEF Spec
=============================================================================
