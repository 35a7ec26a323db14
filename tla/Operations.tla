------------------------------ MODULE Operations ------------------------------
(***************************************************************************)
(* One operator or agent who gives the commands halt, status, verify,      *)
(* verify --chain and keygen with the same options, from one directory or  *)
(* another, on a host whose config files stay as they are.  What matters   *)
(* is which nodes, logs and keys the commands mean, and whether they mean  *)
(* the same; how a halt then proceeds is the subject of HaltSequence.      *)
(***************************************************************************)
EXTENDS Resolution, Naturals, FiniteSets

CONSTANTS
  Hosts, Arguments,  \* the hosts and the options that may be met
  Dirs,              \* the working directories
  Relative,          \* the paths that are not absolute
  Contents,          \* what a config file may hold
  MaxHalts           \* bound on the recorded halts

ASSUME OperationsAssumption ==
  /\ Absent \notin Contents /\ {Defaults, Malformed} \subseteq Contents
  /\ Defaults # Malformed
  /\ DefaultLog \notin Relative /\ DefaultKey \notin Relative
  /\ \A a \in Arguments :
       /\ DOMAIN a = {"via", "config", "nodes", "backend", "log", "key", "grouped",
                      "operator", "collector"}
       /\ a.via \in {"cli", "mcp"}
  /\ MaxHalts \in Nat

VARIABLES
  host, args,  \* chosen at the start
  cwd,         \* the working directory
  logs,        \* the log file each recorded halt went to, in order
  keys,        \* the private key files there are
  last         \* the latest command and what it came to

vars == << host, args, cwd, logs, keys, last >>

\* The file a path means in directory d.
File(path, d) == IF path \in Relative THEN << d, path >> ELSE << "/", path >>

Config == load_config(args, host, cwd)

Init ==
  /\ host \in Hosts /\ args \in Arguments
  /\ cwd \in Dirs
  /\ logs = << >> /\ keys = {}
  /\ last = [command |-> "none"]

Done(command, outcome) ==
  last' = [f \in DOMAIN outcome \union {"command"} |->
             IF f = "command" THEN command ELSE outcome[f]]

ChangeDirectory ==
  /\ cwd' \in Dirs \ {cwd}
  /\ UNCHANGED << host, args, logs, keys, last >>

\* run_halt, whose backend steps are done; --no-sign is a CLI flag.  The key
\* is looked for last: without it there is no record.
Halt ==
  /\ Len(logs) < MaxHalts
  /\ LET r == HaltResolution(args, Config, host)
     IN  IF r.result # "ok" THEN Done("halt", r) /\ logs' = logs
         ELSE \E no_sign \in (IF args.via = "cli" THEN BOOLEAN ELSE {FALSE}) :
                IF no_sign \/ File(r.key, cwd) \in keys
                THEN /\ logs' = Append(logs, File(r.log, cwd))
                     /\ Done("halt", r)
                ELSE /\ logs' = logs
                     /\ Done("halt", [result |-> "no key"])
  /\ UNCHANGED << host, args, cwd, keys >>

Status ==
  /\ Done("status", StatusResolution(args, Config, host))
  /\ UNCHANGED << host, args, cwd, logs, keys >>

\* Mutant of VerifiedLog: an option that was given is overridden.
VerifiedLogDefault == File(DefaultLog, cwd)

\* run_verify and run_verify_chain know the option and the default only.
VerifiedLog == File(Or(args.log, DefaultLog), cwd)

\* A log that does not exist is one without records, and intact.
VerifyChain ==
  /\ Done("verify --chain",
          [count |-> Cardinality({i \in DOMAIN logs : logs[i] = VerifiedLog})])
  /\ UNCHANGED << host, args, cwd, logs, keys >>

\* The id of the latest record is looked up; no file has that name.
Verify ==
  /\ logs # << >>
  /\ Done("verify", [result |-> IF Last(logs) = VerifiedLog THEN "ok" ELSE "error"])
  /\ UNCHANGED << host, args, cwd, logs, keys >>

\* Mutant of Keygen: a path that is given is taken for a directory.
KeygenInside ==
  /\ keys' = keys \union {<< Or(args.key, "."), DefaultKey >>}
  /\ Done("keygen", [result |-> "ok"])
  /\ UNCHANGED << host, args, cwd, logs >>

\* run_keygen with the key option as --output; refused when the key exists.
Keygen ==
  /\ LET f == File(Or(args.key, DefaultKey), cwd)
     IN  /\ keys' = keys \union {f}
         /\ Done("keygen", [result |-> IF f \in keys THEN "error" ELSE "ok"])
  /\ UNCHANGED << host, args, cwd, logs >>

Next ==
  \/ ChangeDirectory \/ Halt \/ Status \/ VerifyChain \/ Verify \/ Keygen

Spec == Init /\ [][Next]_vars

-----------------------------------------------------------------------------
(* Properties *)

\* Where no option says it, no config in reach says it: the path of a log or
\* a key is the same for every command, from every directory.
Fixed(setting) ==
  IF args[setting] \in {None, ""}
  THEN \A d \in Dirs : LET c == load_config(args, host, d)
                       IN  c = Malformed \/ c[setting] \in {None, ""}
  ELSE args[setting] \notin Relative

\* verify and verify --chain do not read the config, and relative paths move
\* with the directory.  Where neither bears on the log, a chain verdict
\* covers every halt that was recorded, and the last record is found.
RecordsInReach ==
  Fixed("log") =>
    /\ last.command = "verify --chain" => last.count = Len(logs)
    /\ last.command = "verify" => last.result = "ok"

\* "run 'haltproof keygen' first" (core.py:135): where no config names a key
\* and no path is relative, a halt does not miss its key once keygen ran.
KeygenServesHalts ==
  [][Fixed("key") /\ keys # {} =>
       ~(last'.command = "halt" /\ last'.result = "no key" /\ last' # last)]_vars

\* status with the options of halt shows the nodes halt would act on and
\* through which backend, and fails or shows nothing where halt fails - but
\* for an empty list passed over MCP, where halt takes the group's nodes.
StatusPreviewsHalt ==
  (args.nodes = << >> => args.via = "cli") =>
    LET h == HaltResolution(args, Config, host)
        s == StatusResolution([args EXCEPT !.grouped = TRUE], Config, host)
    IN  CASE h.result = "ok"    -> /\ s.result = "ok"
                                   /\ s.nodes = h.nodes /\ s.backend = h.backend
          [] h.result = "error" -> s.result = "error" \/ s.nodes = << >>
          [] OTHER              -> s.result = h.result

Explicit ==
  /\ args.nodes \notin {None, << >>}
  /\ \A f \in {"backend", "log", "key", "operator", "collector"} :
       args[f] \notin {None, ""}

\* "an explicit flag always wins over the config file" (README, Config file):
\* a halt with all options given resolves alike under any two configs, the
\* namespace and the IPMI user aside, for which there are no flags.
ExplicitDecides ==
  Explicit =>
    \A c \in Contents \ {Malformed} :
      LET r == HaltResolution(args, c, host)
          d == HaltResolution(args, Defaults, host)
      IN  r.result = d.result /\ \A f \in DOMAIN r \ {"settings"} : r[f] = d[f]

\* "an explicit flag always wins over the config file" (README, Config file):
\* a halt given a list of nodes acts on nodes of that list only.
NodesAsAsked ==
  args.nodes # None /\ last.command = "halt" /\ last.result = "ok" =>
    ToSet(last.nodes) \subseteq ToSet(args.nodes)
=============================================================================
