------------------------------ MODULE Resolution ------------------------------
(***************************************************************************)
(* What a command makes of its arguments, the environment and the config   *)
(* files before it acts: which nodes, backend, log, key, operator and      *)
(* collector.  Names and paths are strings, of which only "" is false to   *)
(* Python's `or`; None is an argument or a setting that is not given.      *)
(*                                                                         *)
(* args: via ("cli" or "mcp"), config, nodes, backend, log, key, operator, *)
(* collector, grouped (status was given the group).  One target group.     *)
(* host: files (the content at each config location), variable             *)
(* (HALTPROOF_CONFIG), tools (the backends whose tool is on PATH), cert    *)
(* (the SSH identity), user.                                               *)
(***************************************************************************)
EXTENDS SequencesExt

CONSTANTS None, Absent, Malformed  \* no value, no file, a file that is not TOML

\* Python's `a or b`, on strings and on lists.
Or(a, b)      == IF a \in {None, ""} THEN b ELSE a
OrNodes(a, b) == IF a = None \/ a = << >> THEN b ELSE a

DETECTION_ORDER == << "kubernetes", "slurm", "ipmi" >>

DefaultLog == "~/.local/share/haltproof/attestations.jsonl"
DefaultKey == "~/.config/haltproof/ed25519_key"
HomeConfig == "~/.config/haltproof/config.toml"

Defaults ==
  [backend |-> None, operator |-> None, log |-> None, key |-> None,
   collector |-> None, namespace |-> "default", user |-> None, nodes |-> None]

\* The first location that exists decides, a path given for it or not.
load_config(args, host, cwd) ==
  LET candidates == SelectSeq(<< args.config, host.variable, cwd, HomeConfig >>,
                              LAMBDA c : c \notin {None, ""})
      existing == SelectSeq(candidates, LAMBDA c : host.files[c] # Absent)
  IN  IF existing = << >> THEN Defaults ELSE host.files[Head(existing)]

\* The command line takes `--nodes ""` for no --nodes, MCP passes a list on.
NodesGiven(args) ==
  IF args.via = "cli" /\ args.nodes = << >> THEN None ELSE args.nodes

detect_backend(host) ==
  LET found == SelectSeq(DETECTION_ORDER, LAMBDA b : b \in host.tools)
  IN  IF found = << >> THEN None ELSE Head(found)

\* Mutant of resolve_backend_name: the config decides over the option.
resolve_backend_name_config_first(explicit, config, host) ==
  Or(config.backend, Or(explicit, detect_backend(host)))

resolve_backend_name(explicit, config, host) ==
  Or(explicit, Or(config.backend, detect_backend(host)))

Known(backend) == backend \in ToSet(DETECTION_ORDER)

resolve_operator_id(explicit, host) == Or(explicit, Or(host.cert, host.user))

\* run_halt up to its first command; the result is "error" for a
\* HaltProofError and "raised" for any other exception.
HaltResolution(args, config, host) ==
  LET nodes   == OrNodes(NodesGiven(args), config.nodes)
      backend == resolve_backend_name(args.backend, config, host)
  IN  IF config = Malformed THEN [result |-> "raised"]
      ELSE IF nodes \in {None, << >>} \/ ~Known(backend) THEN [result |-> "error"]
      ELSE [result |-> "ok", nodes |-> nodes, backend |-> backend,
            settings |-> CASE backend = "kubernetes" -> config.namespace
                           [] backend = "slurm"      -> None
                           [] backend = "ipmi"       -> config.user,
            operator |-> resolve_operator_id(Or(args.operator, config.operator), host),
            log |-> Or(args.log, Or(config.log, DefaultLog)),
            key |-> Or(args.key, Or(config.key, DefaultKey)),
            collector |-> Or(args.collector, config.collector)]

\* Mutant of StatusResolution: the config's backend is forgotten.
StatusResolutionDetecting(args, config, host) ==
  LET given == NodesGiven(args)
      nodes == IF given = None /\ args.grouped THEN config.nodes ELSE given
      backend == Or(args.backend, detect_backend(host))
  IN  IF config = Malformed THEN [result |-> "raised"]
      ELSE IF nodes \in {None, << >>}
      THEN [result |-> "ok", nodes |-> << >>, backend |-> None]
      ELSE IF ~Known(backend) THEN [result |-> "error"]
      ELSE [result |-> "ok", nodes |-> nodes, backend |-> backend]

\* run_status up to its first query; no nodes is no error here.
StatusResolution(args, config, host) ==
  LET given   == NodesGiven(args)
      nodes   == IF given = None /\ args.grouped THEN config.nodes ELSE given
      backend == resolve_backend_name(args.backend, config, host)
  IN  IF config = Malformed THEN [result |-> "raised"]
      ELSE IF nodes \in {None, << >>}
      THEN [result |-> "ok", nodes |-> << >>, backend |-> None]
      ELSE IF ~Known(backend) THEN [result |-> "error"]
      ELSE [result |-> "ok", nodes |-> nodes, backend |-> backend]
=============================================================================
