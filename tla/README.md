# HaltProof in TLA+

A verification project for HaltProof, the emergency-shutdown tool whose Python
source is under `src/src/haltproof/`. It models how a halt runs its commands and
leaves a signed, hash-chained attestation record, how concurrent halts, crashes
and power losses affect the log of these records, what the verification of that
log can prove, how the signing key is made and used, what the commands make of
their options and config files, and how all of this goes together. File names below without a path are those of
`src/src/haltproof/`.

## 1. The system

| Part | State | Operations | Interacts with |
|---|---|---|---|
| Transport: `cli.py`, `mcp_server.py`, npm wrapper | none | `halt`, `verify`, `verify --chain`, `status`, `keygen` | thin calls into `core.py`; exit status or error result |
| Orchestration: `core.py` | none of its own; it sequences the other parts | `run_halt`, `run_verify`, `run_verify_chain`, `run_status`, `run_keygen` | config, backends, keys, log, remote collector |
| Backends: `backends/*.py` | the cluster, through `kubectl`, `scontrol`, `ipmitool` | `drain`, `isolate_network`, `power_fence`, `status` | subprocesses with timeouts (60 s, 30 s) |
| Attestation: `attestation.py` | the log file, its flock | `chain_state`, `append`, `read_all`, `find`, `verify_chain`; pure: `build_record`, `sign_record`, `verify_record`, `record_content_hash` | all processes that use the same path |
| Keys: `keys.py` | two key files | `generate_keypair`, loaders | read by every signing halt |
| Config: `config.py`, `operator.py`, `backends/detect.py` | read-only files, environment, PATH | lookups with defaults | read by `core.py` |

There is no daemon: each command is a process of its own, and what processes
share are files (log, keys, config), the cluster and the collector. So the hard
behaviours are

* **overlap**: two halts use one log. `chain_state` reads the last record before
  `append` takes the lock; verifiers take no lock at all and read twice;
* **crashes**: a process killed, a disk full or a host without power between any
  two of: command, next command, chain state, write, flush, fsync;
* **partial failure**: a command that times out and takes effect later, one that
  raises, a key that is missing after the commands ran, a collector that
  receives the record and does not answer;
* **changed files**: lines deleted, moved, copied or brought in, and what
  `verify_chain` and `find` make of them.

What makes each part correct:

* *log*: append-only on disk; one whole line per returned halt; every record
  names an earlier one; halts that do not overlap form one chain;
* *verification*: an intact verdict means a complete, signed lineage, and a
  broken log never becomes intact by further halts;
* *orchestration*: a record lists every operation on every node, claims exactly
  the commands that were tried, and a success exit means that each of them has
  had its effect or was accepted by its tool; every effect on the cluster is
  covered by a step in a record, the same operation on the same node, or by an
  error;
* *keys*: the two files of a pair belong together once a keygen that ran alone
  has returned, and then halts find the key and their records are accepted;
* *resolution*: nodes, backend, log and key used are those asked for, and the
  same for every command;
* *status*: on a node nobody else has changed, "halted" is a halt's doing, and a
  halt that reported success is not shown as up unless its tool is still at it.

`PROJECT.json` lists the components with their status and the hazards with their
lines.

## 2. Modules

| Module | Models | Source |
|---|---|---|
| `Attestation` | the pure functions on records and logs | `attestation.py` |
| `AttestationProofs` | theorems on `verify_chain` as an algorithm, and on sequences | |
| `HashChain` | abstract specification: a chain that grows at its end, with an acknowledged prefix | what `AttestationLog` promises |
| `AttestationLog` | one log file, concurrent halts, auditors, crashes | `attestation.py`, `core.py:112-142`, `core.py:188-205` |
| `MCAttestationLog` | symmetry of the halts | |
| `AttestationLogProofs` | theorems about `AttestationLog`, its refinement of `HashChain` among them | |
| `ChainAudit` | several logs changed between halts, and the verdicts on them | `attestation.py:279-329` |
| `ChainAuditProofs` | theorems about `ChainAudit` | |
| `Backends` | what each backend does in a halt and shows in a status | `backends/` |
| `BackendsProofs` | lemmas on the plans of operations | |
| `HaltSequence` | `run_halt` end to end, retried | `core.py:79-155`, `runner.py`, `cli.py:92-123` |
| `MCHaltSequence`, `HaltSequenceProofs` | node lists; theorems | |
| `HaltSystem` | halts at the same time, through `Backends` into the file of `AttestationLog`, and a status command | `core.py:79-142`, `core.py:208-230` |
| `MCHaltSystem`, `HaltSystemProofs` | jobs; theorems | |
| `KeyFiles` | one key path: keygens, signing halts, verifications | `keys.py`, `core.py:130-139`, `core.py:240-253` |
| `MCKeyFiles`, `KeyFilesProofs` | symmetry; theorems | |
| `Resolution` | from options, environment and config to nodes, backend, log, key, operator | `config.py`, `operator.py`, `detect.py`, `core.py:53-64` |
| `Operations` | the five commands with the same options, whichever transport gives them | `core.py`, `cli.py`, `mcp_server.py` |
| `MCOperations`, `OperationsProofs` | hosts, options, config files; theorems | |

`HaltSystem` extends `AttestationLog` and `Backends`, `HaltSequence` extends
`Backends`, `Operations` extends `Resolution`. `AttestationLog` refines
`HashChain`.

### Attestation

Cryptography is symbolic. A digest is an injective term over what is hashed, a
signature a term over key and signed payload. So the model assumes that SHA-256
does not collide and that Ed25519 signatures are not forged, and shows what the
*code* makes of that. A record keeps `id`, `seq`, `prev_hash`, `public_key`,
`signature`; all other fields are one `content`. `sorted_by_seq` is the stable
sort of `verify_chain`; `LinksVerdict` is its loop, whose first break decides.

### AttestationLog

The file is a sequence of lines. A line is a record, or `Garbled` when it does
not parse. `unterminated` says that the last line has no newline, `synced` how
many lines the last fsync covered, `lock` who holds the flock.

| Action | Code |
|---|---|
| `BuildRecord` | `chain_state()`, `build_record`, `sign_record` or `--no-sign` (`core.py:115-139`): reads the last line, takes no lock |
| `ChainStateRaises` | `json.loads` of `_last_record` raises (`attestation.py:249`) |
| `Lock` | open for append and `flock` (257-261) |
| `WriteLine`, `Flush` | `fh.write`, `fh.flush` (264-265): the first bytes are in the file, all bytes are; in between any crash may cut the line |
| `WriteOnTornLine` | the same write on a file whose last line lacks its newline: the bytes continue that line |
| `Fsync` | `os.fsync`, close, return (266) |
| `Raise`, `Kill` | an exception or a signal at any point; closing the file frees the lock |
| `PowerLoss` | all processes end; synced lines are on disk, of the others a prefix is, whose last line may be cut |
| `CountRecords`, `JudgeChain` | the two reads of `run_verify_chain` (`core.py:198-199`) |

A cut line is either a part that does not parse or the whole JSON object without
its newline (`Tears`); the second still reads as a record until something is
glued to it. `torn` is a history variable: true once a write was cut. Reads are
one step, since the file only grows: what a reader has passed does not change.
Each halt is one process and runs once; its name stands for its uuid. `PowerLoss`
assumes that fsync of a log also makes the name of a newly created log durable,
as ext4 and XFS do; the code does not sync the directory.

`Serialized` makes the halts on this log run one at a time: none starts while
another is between its read and the end of its append. The README's FAQ (line
323) does not ask for that; it recommends a log file for each operator or
incident. `Serialized` says what such a log has when its own halts do not
overlap.

### ChainAudit

Halts append to several logs one at a time, signed or not; between them lines
are deleted, altered (content, number, link, signature), copied within or
between logs, exchanged. A history variable, `lineage`, records from the course
of events which records each record stands on. The properties compare the
verdict of the code, computed from digests alone, with that history.

### Backends and HaltSequence

`HaltPlan` lists the operations of a halt in the order of `core.py:106-110`, each
with the way it is done: through `run_step`, through `skipped`, or by the one
`kubectl apply` of `kubernetes.py:79`. `Outcomes` pairs what the code sees of a
command with the moment of its effect. Exit status 0 means that the tool has
done it, or has accepted it for later (`ipmitool` returns before the chassis is
off); a failure, timeouts included, may have its effect now, later or never; an
exception the code does not catch comes with or without the effect. Nothing makes
a later effect come: an accepted command that is never carried out is one that
stays in `late`.

`NodeState` is what a status query can show of a node. The tools tell its state
and not who brought it about: `kubernetes.py:149-150` calls any unschedulable
node cordoned, `ipmi.py:112` any node without power off. So for a node that
others may have changed the answer can be any, halt or no halt; the effects
of the halts decide it for the other nodes.

In `HaltSequence` one halt runs after another, a retry being a further
invocation. `issued`, a history variable, says which effects each invocation has
asked for, in order: what its record has to own up to. `TakeEffect` lets a late
effect come at any time, into the next halt too. `Sign`, `AppendRecord` and
`PostToCollector` have all their failures; `End` is what the caller is told
(`cli.py:92-123`: exit 0, exit 1 after a record with failures, an exception, or
nothing).

`log` lists the records whose line was written, and `tail` says how the file
ends: with a newline (`"ended"`), with a record that lacks it (`"open"`), with a
part of a line (`"part"`), or with a line that continues an open one, cut
(`"spoilt"`) or whole (`"glued"`). `WriteLine` is the write of a line, `CutLine`
every way it may be cut. `BuildRecord` parses the last line (`attestation.py:249`),
so it goes on where the file ends `"ended"` or `"open"` and raises elsewhere. After
`"open"` the next append continues the line (`attestation.py:264`) and *returns*:
that record and the one before are lost, and its halt posts it and exits with
0. `Records` are the records that can still be read. `Missing` is the one record
that is lost without an error: its line continued an open one, it is the last of
the log, and every later halt has raised or was killed. The properties name this
exception wherever they speak of a record in the log.

### HaltSystem

The composition. `AttestationLog` leaves a halt at `"running"` while its commands
run; `HaltSystem` fills that in: `Begin` resolves a job and its plan,
`WithoutCommand` and `Command` do the steps, `KillEarly` and the `raises` outcome
end it on the way, and from an empty plan on `LogStep` and `EndAtLog` are the
log's own actions. `effects` keeps the halt with each effect, since two halts
may do the same to one node. `BeginStatus` and `Query` are `run_status`: one query
per node, interleaved with everything else; a timeout raises and loses all
answers (`kubernetes.py:127`). `others` are the nodes that people, other tools or
the cluster itself have changed (`OthersAct`); from then on status may show them in
either state. `before`, a history variable, says which halts were over when
another began. A power loss ends halts, status and the log's tail. Steps without
a command are grouped up to the next command, as no other process sees them.

The collector stays in `HaltSequence`; a missing key, or any other exception
between the steps and the record, is the log's `Raise`.

### KeyFiles

A file is absent, broken (empty or cut) or holds a half of some keygen's key.
A keygen is `Check` (or `Refuse`), `OpenPrivate` (`O_TRUNC`), `WritePrivate`,
`OpenPublic`, `WritePublic`; `Cut` ends it anywhere, with the write done, cut or
not begun. Nothing syncs the files, so `PowerLoss` may break or remove them at any
time. A halt looks for the key (`core.py:133`) and loads it in two steps; its
record is then verified with `--trusted-key <path>.pub`. `latest` and `alone` are
history: the last keygen past its check, and the keygens that met no other one
and no power loss.

### Resolution and Operations

`Resolution` has no state: `load_config`, `resolve_backend_name`,
`resolve_operator_id`, `HaltResolution` and `StatusResolution` are the functions
of those names and the heads of `run_halt` and `run_status`. Only `""`, `None` and
the empty list are false to Python's `or`, and the three are kept apart.
`Operations` chooses a host and options once and then gives commands from changing
directories. Its state is the logs that halts went to and the keys there are; the
MCP tools differ from the CLI in passing an empty list on and in having no
`--no-sign`, config, log or key option for `halt` (`mcp_server.py:22-29`).

## 3. What is checked

Passing runs (deadlock checking is off everywhere: a finite number of halts ends):

| Run | Instance | Properties and what they mean |
|---|---|---|
| `overlapping_halts` | 3 halts, 1 auditor, all faults; 0.27 M states | `LinesIntact`: appends never mix bytes. `ParentPrecedes`: the log is a tree of digests, however halts overlap. `ReturnedIsLogged`: a returned record is on disk exactly once. `SyncedPrefixKept`: synced lines never change. `VerdictExact`: `verify_chain` accepts a log if and only if all records are signed and no two halts forked. `AuditCoversCount`: the two reads of an audit cannot disagree harmfully |
| `serial_halts` | 3 halts, one at a time; 32 k states | `SerialChain`: record *i* has number *i* and the digest of record *i* - 1. `ImplementsHashChain`: the log refines `HashChain` |
| `chain_audit` | 2 logs, 4 halts, 2 changes; 0.43 M states | `IntactIffLineage`: intact if and only if the log holds, in some order, the full signed lineage of some record. `IntactFindable`: in an intact log every record is the one a lookup finds. `HaltKeepsVerdict`: when a further halt keeps a good log good, and that it never repairs a bad one |
| `halt_sequence` | 1 halt, node lists of one, two and the same node twice, 3 backends, fairness; 0.42 M states | `RecordsComplete`: a logged or posted record lists every operation on every node in order. `RecordsHonest`: it claims exactly the commands tried, none in a dry run, and what it calls successful took effect or was accepted. `OkMeansHalted`, `EffectsAccounted`: as in `halt_retry`, over several nodes and all backends. `EveryHaltEnds` |
| `halt_retry` | 3 halts of one node in succession, `ipmi`; 1.67 M states | `OkMeansHalted`: success means one record, to be read or `Missing`, and, if confirmed, every operation done or accepted. `EffectsAccounted`: every effect, to come ones included, has a step for the same operation on the same node in a record to be read or `Missing`, or its halt is at work or told its caller that it was cut short. `PostedIsLogged`: the collector holds nothing the log lacks, but for a `Missing` record |
| `halt_system` | 2 halts, each a power fence of one of two nodes or a kubernetes dry run of both, a status command, nodes others change, all faults; 3.99 M states | `EffectsOnRecord`: whatever a halt did to the cluster, now or late, is owned up to by a step of its one record on disk, the same operation on the same node, or the halt is at work or was cut short. `StatusShowsHalts`: of a node nobody else has changed, status never says "halted" unless a confirmed halt concerns it, nor "up" when such a halt had exit status 0, but while its accepted command is still to take effect. `OneAtATime`: halts that do not overlap leave one chain. `LogOrder`: of two that do not overlap, the first stands first |
| `halts_end` | the same 2 halts without status, fairness; 0.30 M states | `HaltsEnd`: every halt ends, though the lock's holder is killed |
| `key_files` | 3 keygens, 2 halts, all faults; 0.69 M states | `LoneKeygenOwnsPair`: a keygen that met no other one owns both files when it returns, whatever was there before. `KeptUnlessForced`: otherwise another key is only lost to `--force`. `SettledKeyWorks`: with such a key no halt raises and no record signed with it is rejected |
| `operations` | 144 hosts with 210 sets of options, 2 directories, 2 recorded halts; 2.3 M states | `RecordsInReach`: verdicts cover every recorded halt. `KeygenServesHalts`: after keygen no halt misses its key. `StatusPreviewsHalt`: status shows the nodes and backend that halt would use. `ExplicitDecides`: with all options given no config matters. The first two need that no config sets the path and no path is relative (`Fixed`), the third has one exception: these are the places where the commands disagree |

Each property is also run against a changed definition that a plausible bug
would give (`PROJECT.json`, "mutants"; the changed operators stand beside the
ones they change) and TLC finds it violated there.

Violation runs, each on one claim of the code or its documentation:

* `one_record_per_halt` (`OneRecordPerHalt`; README, Features). An append is cut
  after the JSON and before the newline. The next halt reads that line as a
  record, appends, and its own line is glued to it. `append` returns, the exit
  status is 0, and the record is lost; from then on no reader can parse the log.
  The halts never overlapped. What is left of the promises to the caller and the
  collector is in `HaltSequence`: `Missing`.
* `executed_is_attested` (`ExecutedIsAttested`; `attestation.py:3`). A halt
  raises after its commands had effects, for example since the key is missing
  (`core.py:133`), and no record tells of them. In `HaltSequence` this is the
  exception in `EffectsAccounted` for halts that raised.
* `nodes_as_asked` (`NodesAsAsked`; README line 144). `nodes or
  config.resolve_group(...)` (`core.py:96`) takes an explicitly empty list for no
  list, so the whole group is halted. `run_status` (`core.py:222`) does not, hence
  the exception in `StatusPreviewsHalt`.

Other places where the documentation and the code part, seen while modelling:

* `attestation.py:291` says that a reordered log breaks the check. `verify_chain`
  sorts first, so exchanged lines go unnoticed. `IntactIffLineage` says what holds
  instead: nothing is lost by it, except that `chain_state` continues the *last
  line*, so the next halt breaks the chain (`HaltKeepsVerdict`).
* `runner.py:25` and README line 82 say that every backend goes through
  `run_step`; the kubernetes NetworkPolicy does not (`kubernetes.py:79`). Its own
  dry-run gate is right: `RecordsHonest` covers it.
* README line 323 says that sequence numbers come from the log "at the moment
  each command starts"; the code reads the log after the backend steps
  (`core.py:115`), so the log follows the order of the reads. `LogOrder` is what
  remains.
* README line 144 says that every config value has a flag; the namespace, the
  IPMI user and the groups have none. `ExplicitDecides` leaves them out.
* `verify` and `keygen` do not read the config (`core.py:169`, `196`, `242`), so a log or a
  key named there is not the one they use: the `Fixed` above.

Also a consequence of `IntactIffLineage`: deletion *at the end* of a log leaves
the lineage of an earlier record and is not detected, as `attestation.py:291`
("from the middle") implies but `core.py:193` does not say.

**Bounds and why they suffice.** In the log, three halts are needed for one to
fork while another chains to the fork, and for the third line that tells the last
link from all links; two cut lines and a glued one also need three. The actions
of a halt do not depend on the number of others, and the theorems below hold for
any number. Two changes on two logs cover delete-and-replace and
bring-over-and-fit; four halts give two logs of two or one of four. Two nodes show
the order across nodes, and the same node twice that nothing assumes distinct
names; three attempts are one whose append is cut, one that continues the open line and
one that notices, and let a late effect of one halt meet the next; `ipmi` has one
command a node, and the other backends are in `halt_sequence`. In `halt_system`
two halts overlap in all ways, and what a third adds is the log's business,
checked with three and proved; its jobs are a command on the node that status
asks for, one on another node and one that only writes a record. Three keygens are needed
for one that is settled, one that overwrites it and one that meets the second;
two halts for a record of the old and one of the new key. `MCOperations` has a
config at each of the locations or none, one of them not TOML, options absent,
empty, valid and unknown; two halts can go to two logs. `MaxHalts`, `MaxEdits` and
`MaxAttempts` are the only counters: they bound recorded halts, changes of files
and invocations.

Deadlock checking is off since these are systems of finitely many commands.

**Fairness.** `HaltSystem!FairSystem` is weak fairness of each halt's next step.
Commands have a timeout of 60 s; besides them `run_halt` waits for flock alone,
which the kernel grants to a waiter when the holder's file is closed. Weak
fairness of `Proceed(p)` suffices since every halt runs once. `HaltSequence!FairSpec`
is weak fairness of the halt's progress, the request to the collector having a
timeout of 10 s. Kills, failures and late effects are possible and not fair.
(After a timeout `subprocess.run` still waits for the killed tool's pipes; a tool
whose children keep them open for ever is outside this assumption.)

## 4. What is proved

Every invariant and every action property of the passing runs is a theorem, for
every value of the constants that the named assumptions allow: any number of
halts, auditors, keygens, invocations, logs, changes, node lists, jobs, hosts
and options. What TLC adds is liveness, and that the inductive invariants were
checked on the instances before they were proved.

Induction over data is not available as a rule here (the library's theorems take
operators). Where a proof counts along a log, `AttestationProofs` takes the least
element of a named *set* of numbers (`LeastElement`, from well-foundedness of `<`)
and derives from it `UpTo`: a set that contains 1 and with each place the next
contains all places. Of `sorted_by_seq` the proofs use that it permutes the lines
and puts them in the order of their numbers.

### verify_chain (`AttestationProofs`)

| Theorem | Statement |
|---|---|
| `IntactMeansLinked` | the verdict is intact if and only if every record is signed and, sorted, the first one has no predecessor and each names the one before |
| `IntactTree`, `IntactIffTree` | where only number 1 starts a chain, that is: signed, every record's parent is there, no two records share a number |
| `VerdictGrows` | what a verdict becomes when a record that follows the last line is added |

They are about any sequence of records, so they say that the sort, the loop and
the first break of `attestation.py:279-329` compute a relation that does not
mention order, and both modules with a log use them.

### The log (`AttestationLogProofs`)

| Theorem | Statement |
|---|---|
| `FileInvariant`, `TypeCorrect` | `Spec => []FileInv`, `Spec => []TypeOK` |
| `LinesStayIntact` | `Spec => []LinesIntact` |
| `SyncedStays` | `Spec => SyncedPrefixKept` |
| `ReturnedStaysLogged` | `Spec => []ReturnedIsLogged` |
| `ParentsPrecede` | `Spec => []ParentPrecedes` |
| `VerdictIsExact` | `Spec => []VerdictExact` |
| `AuditsCoverTheirCount` | `Spec => []AuditCoversCount` |
| `SerialHaltsKeepOneChain` | `Spec => []SerialChain` |
| `SerialHaltsImplementHashChain` | `Serialized /\ Tears = {"part"} => (Spec => ImplementsHashChain)` |

The argument has five layers, each inductive given the ones below it:

1. `FileInv`: the types; `LockInv`, a halt holds the flock exactly from `Lock` to
   the end of append; `WriterInv` and `SyncInv`, the file lacks its last newline
   while a halt writes, and what is synced does not include that line.
   `SyncedPrefixKept` needs just this: only the last line is ever rewritten, and
   only while it lacks its newline, when it is not synced.
2. `TailsInv`: unless a write was cut, an unterminated last line belongs to a halt
   that is writing. `LinesIntact` alone is not inductive, since it does not say
   that a halt about to write finds the newline in place.
3. `OwnInv`: each record in the file is that of a halt past its write, no record
   stands twice, and where the record of a writing, written or returned halt
   stands. `ReturnedIsLogged` needs to know where the record was *before* the
   fsync.
4. `ParentsInv`: the record a halt *holds* follows a line in the file (`HeldInv`).
   It is built before the lock is taken, so other halts may append in between,
   and a power loss may remove what it follows, but only together with the halt
   that holds it. Garbled lines only turn into the record being written, so a
   line a record follows stays. With `IntactIffTree` this gives `VerdictExact`.
5. `AuditInv`: the same where writes may be cut. A record follows a line at or
   before its own place, unless some line up to there can never be read again
   (`StandsInv`, `HeldStands`); and a file never gets shorter than what an auditor
   has counted (`CountInv`), since a power loss ends the auditors too. So the
   second read finds what the first one counted, or fails.

The last lemmas of each layer are one per action; `WriteOnTornLine` is the same in
the first four, since it can only happen after a cut write.

*One halt at a time.* While at most one halt is between its read and the end of
append (`Alone`, which `Serialized` gives), the record being appended is the next
of the chain (`NextInv`). `ChainInv` is kept by each step whose result satisfies
`Alone`, for whatever reason, so that `HaltSystemProofs` can use it again.

*Refinement.* Unlike `SerialChain`, the refinement of `HashChain` does not ask for
`~torn`. `RefInv` says why cut writes do no harm: a line lacks its newline exactly
if it does not parse (`CutInv`), so whoever reads the chain state after a cut write
raises, and nobody else is on the way to append to that line (`GlueInv`); a record
not yet written extends the readable ones (`HeldExtends`). `Flush` is then `Extend`,
`Fsync` is `Acknowledge`, `PowerLoss` is `Lose`, `WriteOnTornLine` cannot happen, and
all other steps leave the chain as it is. The assumption on `Tears` is needed: a
line cut just before its newline still parses, a halt glues its record to it, and
its fsync acknowledges a line nobody can read; that is what the run
`one_record_per_halt` finds.

### Changed logs (`ChainAuditProofs`)

`TypeCorrect`, `IntactMeansLineage`, `RecordsFindable`, `HaltsKeepVerdicts`: the type
invariant and the three properties of the run, for any number of halts, logs and
changes. The inductive invariant `AuditInv` separates what changes can spoil from
what they cannot. `FilesInv` is all that is known of a line that anyone may have
altered: its signature, if any, is some halt's. `WrittenInv`, `ParentInv` and
`LineageInv` are about the records as they were written, which no change reaches.
`ValidIsWritten` joins the two: a line whose signature verifies is unaltered. From
left to right, `IntactIffLineage` then goes up the sorted log: its first record has
no predecessor, so its lineage is itself; and if the first *k* are the lineage of
the *k*-th, the next one names it by digest, so its own lineage is longer by one.
From right to left a lineage is rooted and linked, and the log, sorted, is that
lineage. `HaltKeepsVerdict` is `VerdictGrows`.

### One halt after another (`BackendsProofs`, `HaltSequenceProofs`)

`TypeCorrect`, `CompleteRecords`, `HonestRecords`, `OkIsHalted`, `NothingUnaccounted`,
`PostedAreLogged`: all safety properties of the runs `halt_sequence` and `halt_retry`.

`BackendsProofs` says once what a plan looks like: its length (three or four
operations a node), and how the *i*-th operation is done (`Via`). The commands of a
plan are one contiguous stretch, `FirstRun` to `FinalRun`, on every backend; this is
what lets "the commands tried, in order" be the plan cut at one place. It
also finds the operation a status tells of among them (`ToldPlanned`).

`RecordsComplete` speaks of records and says nothing while a halt is at its steps.
`Sequenced` does: steps done and operations to do make up the plan, and the effects
`issued` are those of the stretch up to the steps done (`StepsInv`). The kubernetes
`isolate_network` needs a clause of its own: its one command makes the steps of
all nodes at once, so a confirmed halt is never between two of them. `EffectsInv`
says that each effect, late ones included, was issued by some invocation, and
`LogInv` that an invocation has one record, made of what it issued, if it came to
`posting`, and a report that agrees with it. `TailInv` ties the end of the file to
the halts: the record of a file left open, or the one before a glued line, is of a
halt that was cut; whoever came after a glued line raised or was killed. So a
halt that ended well can lose its record in no other way than `Missing` says
(`StillRead`), which is the form in which `OkIsHalted`, `NothingUnaccounted` and
`PostedAreLogged` speak of records.

### The whole (`HaltSystemProofs`)

| Theorem | Statement |
|---|---|
| `SystemImplementsLog` | `SystemSpec => Spec`: the theorems on the log hold of the system |
| `SystemTypeCorrect` | `SystemSpec => []SystemTypeOK` |
| `EffectsStayOnRecord` | `SystemSpec => []EffectsOnRecord` |
| `OneHaltAtATime` | `SystemSpec => []OneAtATime` |
| `LogTellsOrder` | `SystemSpec => []LogOrder` |
| `StatusIsTrue` | `SystemSpec => StatusShowsHalts` |

* `EffectsStayOnRecord`: `TracedInv` says that the effect of each command, to come
  ones included, is that of an operation in its halt's plan, and that a step
  tells of it or the halt has ended among its steps; steps only grow, at the end
  (`TracedStays`). With `ReturnedIsLogged` from below, a halt that is over and has
  not ended early has its record on disk.
* `OneHaltAtATime`: `BeginInv` ties `before` to the halts that are over. Without
  overlap, two halts cannot both be appending (`AloneUnlessOverlap`), and overlap
  never goes away again, so `ChainInv` applies to each step.
* `LogTellsOrder`: `LogOrder` is not inductive: nothing says where the earlier
  record is while the later one is not written. `OrderInv` does: it is among the
  synced lines, which no step changes.
* `StatusIsTrue` is about one answer of status, and needs the whole history of the
  halts for it. On a node nobody else has changed the answer is the tool's
  (`AnswerOfTool`). "Halted" tells of an effect in the cluster, which `AskedInv` and
  `TracedInv` lead back to a confirmed halt and an operation of its plan on this
  node (`ToldByHalt`). "Up" tells that there is none, while `DoneInv` (again steps and
  plan, as in `HaltSequenceProofs`, but with other halts at work) gives a halt with
  exit status 0 the effect its backend's status tells of, had or still to come
  (`OkIsTold`).

### Keys (`KeyFilesProofs`)

For any number of keygens and halts: `KeyTypes`, `LoneKeygenOwns`, `KeyIsKept`,
`SettledWorks`, the four properties of the run. The inductive invariant `KeyInv`
says in `AloneInv` that, as long as the last keygen past its check is alone, no
other one is at work, and in `FilesInv` what the files hold at each of its places.

### Options and configs (`OperationsProofs`)

`StatusPreviews` and `OptionsDecide` compare two resolutions for any host, options and
config. `RecordsStayInReach` and `KeygenServes` rest on `PlacesInv`: where a path is
`Fixed`, every record went to the same log, and no key file but one was ever made.
`load_config` and `detect_backend` stay unexpanded: whichever config is found, the
theorems hold.

### Assumptions

`LogAssumption`, `AuditAssumption`, `SequenceAssumption`, `JobsAssumption`,
`KeyAssumption` and `OperationsAssumption` on the constants, which TLC evaluates in
the runs: node lists are not empty (`core.py:97`), backends are the three there are,
default paths are absolute, bounds are numbers. Cryptography is symbolic (section
2). What the theorems on the log say of cut writes (`~torn`) is in the properties
themselves.

### Only model-checked

Liveness (`EveryHaltEnds`, `HaltsEnd`) is outside the prover's reach. The three
violations are TLC's counterexamples.

## 5. What is not modelled

* Which pods the NetworkPolicy reaches (`kubernetes.py:23`): it is one effect on the
  namespace; where pods run is the cluster's business.
* Rendering, argument parsing, the MCP SDK and the npm wrapper: I/O. File modes.
* Windows, where `fcntl` is missing and appends are not locked: the mutant
  `LockWithoutFlock` is that build, and `LinesIntact` fails on it.
* Undecodable bytes in a log, blank lines (readers skip them), unknown fields
  (`from_dict` drops them), and public keys other than the operator's in a log.
* Directories that lose a new file's name in a power loss (section 2).
* Nodes that others have changed: `StatusShowsHalts` says nothing of them, since
  the code has no way to tell whose doing their state is. What a tool does after
  it has accepted a command is its own affair: the effect may come at any time or
  never, and no part of the code looks again.
* The empty node name a trailing comma in `--nodes` leaves behind (`cli.py:90`).
* The configuration of the log by itself: `Operations` knows which log a halt goes
  to and `AttestationLog` what happens there.

## 6. What could follow

`KeyFiles` joined to `HaltSystem`, so that a failing key is the doing of a keygen;
today it is a possible outcome there. A theorem that `HaltSystem` with one halt at
a time implements `HaltSequence`, whose records would then be those in the file.
