# PSOperator in TLA+

A verification development kept beside `cdnwetzel/psoperator`, a local
desktop-automation agent: a planner proposes one action at a time against a
signed observation of the screen, and a gatekeeper decides whether anything
reaches an input device. The modules here model the parts of the program that
keep state and decide; TLC checks them on small instances and TLAPS proves the
properties that matter most for all.

Paths below are relative to the repository; `src/` is its root.

## 1. Inventory

| Component | State it keeps | Operations | What is hard about it | What makes it correct |
|---|---|---|---|---|
| Kill switch (`gatekeeper/killswitch.py`, `drills.py`) | a sentinel file, claim files beside it | `engage`, `disengage`, `engage_exclusive`, `disengage_if_owned`, `is_engaged`, the drill | several processes and system calls on two names; a crash or an error between a rename and an unlink | the operator's stop is never lifted or missed by anything but the operator |
| Audit log (`gatekeeper/audit.py`) | a JSON-lines file; `_prev` in memory | open, `append`, `verify` | a hash cached in memory, writes cut short, restarts, two processes on one file | an undamaged log verifies; what verifies is what was appended |
| Attestation gate (`gatekeeper/attestation_gate.py`) | nonces, trusted epoch, watermark; watermark file | `admit` | durability between rename and directory sync, restarts of both sides, clock steps, bounded nonce set | nothing is admitted twice or after something newer; nothing fresh is locked out |
| Gatekeeper and its service (`gatekeeper/gatekeeper.py`, `risk.py`, `approval.py`, `services/gatekeeper.py`, `runtime/freshness.py`) | newest frame id | `handle`, `request_action` | one reading of the stop followed by a prompt of any length; executor and log failures after the input; exceptions before a decision | only justified actions run; the log tells what happened |
| Executor hop (`common/ipc.py`, `gatekeeper/remote_executor.py`, `services/executor.py`) | nonces seen | `execute`, `handle`, `serve_forever` | a client timeout racing a late execution, a queue nobody waits for any more, the death of either side | each action begun at most once, in order and alone; reported as done only if it was |
| Executor back ends (`gatekeeper/executor*.py`) | serial port; what is down on the target | `resolve_connection`, `open`, `execute` | reports say what is down, not what is pressed; a write that fails in the middle; devices changed between detection and opening | the target gets what the action asks for, and everything pressed is let go; the port is the one configured |
| Observer (`services/observer.py`, `observer_client.py`, `common/ipc.py`) | sequence, failures, last success, closed | `observe`, `health`, `close`, `serve` | any step of an observation raises, the clock is set back, the client gives up before its answer | a sequence number is used up only by an envelope that was signed; health tells the truth; an accepted request ends |
| Soft loop and ladder (`harness/softloop.py`, `ladder.py`) | attempts, rounds, splits, revisions, review base | `run`, `decide` | five kinds of coder round, free re-verifications, stall detection | bounded, and completed means verified |
| Harness adapters (`harness/adapters.py`) | none between calls; the tree and its commits are the coder's | coder, gate, judge, reviewer | a model's prose repeats the markers that are parsed; runs that fail, hang or have no net leave edits; a review of nothing, or by nobody, exits 0 | no edit that stays goes untold; an approval is one of the whole change |
| Agent loop (`runtime/loop.py`, `perception/diff.py`) | history, last frame and keyframe | `run`, `should_query` | the screen changes while the model thinks; answers that do not parse; a filter that decides whether the model is asked | what is carried out was decided on the newest frame, grabbed after the last input; `run` returns |
| Actions and grounding (`runtime/actions.py`, `grounding.py`) | none | parsing, locator ladder | untrusted model output | — |
| Skills (`skills/*.py`) | recorded events; a skill's steps | `record`, `bind`, `replay` | a step in the middle fails; `bind` changes the skill it is called on; listener threads | steps in order, each once, none after one that failed |
| Planner (`planning/planner.py`) | none | one model call | — | — |
| Perception (`perception/*.py`) | capture handle, frame counter | `grab`, `build` | platform I/O; two sources of elements, repeated labels, a budget between them | unique element ids, nothing listed twice |
| Secrets and keys (`common/auth.py`, `attestation.py` 1–295, the loading in `attestation_gate.py` 298–510) | files with owner-only permissions | load or create the IPC secret; provision and load the signing key; load the watermark | two services creating one secret at once, deaths and failed writes between the system calls, directories moved by other accounts | what a service holds is whole, private and what lies on disk; a recorded watermark is not taken for a first start |
| Windows access control (`common/winacl.py`) | handles that keep a directory in place | judge a descriptor; create, open, unlink below a held directory | inherited, inherit-only and unknown entries; a look by path and a use later | a directory that passes lets nobody else in |
| Configuration, presets, CLI, notifications, fixtures, scripts | none of interest | — | — | — |

How they interact: the planner client asks the observer for an attested
snapshot over loopback IPC, and sends it with an action to the gatekeeper's
service. The service admits the envelope (attestation gate), tells the
freshness tracker, and runs the action through the pipeline: kill switch,
freshness, service contract, element binding, risk, approval, executor, audit.
The executor may be another process behind an authenticated hop. The operator
engages and releases the stop, and runs drills, from other processes that share
files with the gatekeeper: the sentinel and the audit log. The soft loop is a
separate harness that drives a coding model; it shares no state with the rest.
`examples/run_crashcart.py` and `examples/replay_skill.py` put an agent loop or
a replay, a capture, a `Gatekeeper` and an executor into one process, without
the services; with the CH9329 executor the input goes to another machine.

The hazards this leaves are listed in `PROJECT.json`, each at its line, with
the properties that would catch it going wrong or the reason there is none.

## 2. Modules

| Module | Models | Variables and actions |
|---|---|---|
| `StopSwitch` | what the kill switch promises: who holds a stop, taken and lifted | `Take`, `Lift` and the like, on the set of holders |
| `KillSwitch` | the files that implement it | `path` and `claim` are the sentinel and the claims; one action per system call of the operator's commands, of a drill (`Start` … `PutBack`, `Crash`), with the ways each may fail (`EngageRaises`, `CanaryRaises`, `PutBackRaises`, `DisengageRaises`, a read that cannot tell in `ReadsMarker`, and the errors of `ClaimStop` and `UnlinkClaim`), and of `is_engaged` (`FirstRead`, `GlobClaims`, `StatClaim`, `SecondRead`) |
| `KillSwitchProofs` | its theorems | |
| `AuditLog` | the chained file and the processes that append to it | `log` is the file's lines, `prev` each `AuditLog._prev`; `Open`, `Count`, `Write`, `CutShort`, `Crash`, `OutsideChange`; `Verify` is `verify()` |
| `AuditLogProofs` | its theorems | |
| `AttestationGate` | `admit` against an observer, a clock, a disk and any submission | `mark`, `pin`, `seen` are `_last_*`, `_epoch`, `_seen`; `file` and `disk` the state file before and after a power loss; `Refuse`, `Accept`, `ReplaceFile`, `SyncDir`, `WriteFails`, `Commit`, `Start`, `Crash`, `PowerLoss`, `Tick`, `SetBack`, `Observe`, `ObserverRestart` |
| `AttestationGateProofs` | its theorems | |
| `Gatekeeper` | one request from admission to its record | `pc` follows `request_action`: `Submit`, `KillCheck`, `Decide`, `Approve`/`Deny`, `Execute`/`ExecuteRaises`, and `KillCheckRaises`, `DecideRaises`, `AskRaises` for the exceptions that leave `request_action` (`raised` keeps their requests), `LateInput`, `Record`/`RecordRaises`, `Crash`, `Start`, beside `Engage`, `Release`, `Observe`, `ObserverRestart` |
| `GatekeeperProofs` | its theorems | |
| `InputPort` | what the gatekeeper may rely on when it has actions carried out | `Ask`, `Begin`, `End`, `Report` |
| `ExecutorHop` | the connection, the service and the two processes that implement it | `at` follows `RemoteExecutor.execute`, `svc` follows `serve_forever` and `handle`; `Execute`, `Connect`, `Send`, `Answered`, `Rejected`, `Broken`, `GiveUp`; `Accept`, `RecvFails`, `Handle`, `Refuse`, `ExecuteEnds`, `Reply`; `Tick`, `GatekeeperDies`, `ServiceDies`, `ServiceStarts` |
| `ExecutorHopProofs` | its theorems | |
| `SoftLoop` | `SoftLoop.run` and `EscalationLadder.decide` | `at` follows `run`; one action per branch; the coder's, gate's, judge's and reviewer's answers are choices |
| `SoftLoopProofs` | its theorems | |
| `Adapters` | the tools behind the loop's four seams and the parsing of their output, on top of `SoftLoop` | `Session` is one run of pxx, `Parse` is `PxxCoder._parse`; `left`, `hung` are the rounds whose edits stay, `read` what the reviewing model saw; `CoderSteps`, `GateSteps`, `JudgeSteps`, `ReviewSteps` give `SoftLoop`'s actions their answers |
| `Hid` | which actions there are, the CH9329 executor's conversions, and the US layout they are held against; no state | `WellFormed` is what `_validate` lets through, `Reports` what `execute` writes, `Happens` what a report does on the target |
| `Desk` | what a loop or a replay runs on: capture, `request_action` in process, the device, the target | `kbd` and `buttons` are what the target holds down, `queue` the reports still to write; `Asked` is what a person who knows the layout would expect of an action, written without the executor's tables; `Decides`, `Writes`, `WriteRaises`, `ExecuteEnds` |
| `AgentLoop` | `AgentLoop.run` and `KeyframeFilter` on a `Desk` | `loop` follows `run`; `lastFrame`, `lastKey` are the filter's; `LoopGrabs`, `ModelActs`, `ModelBabbles`, `ModelUnavailable`, `LoopDecided`, … |
| `Replay` | `ReplayEngine.replay`, grounding and `Skill.bind` on a `Desk` | `rp` and `rstep` follow `replay`, `bound` is what the skill's placeholder became; `StartReplay`, `ReplayStep`, `ReplayDecided`, `ReplayChecks` |
| `Session` | the process: one client, called again and again | `Call`, `Works`, `Around` |
| `SessionProofs` | its theorems | |
| `Acl` | the two policies of `winacl.py` on a security descriptor, next to what Windows itself would grant; no state | `OwnerOnly`, `TrustedParent`; `MayHave` is the access check they are held against |
| `OwnerFiles` | the file system, other accounts, and the operations the next two share | `dir` says which directory a path is now, `sec` and `files` what each is and holds; `pc`, `task` where a starting process is; `OpenForRead`, `ReadOpened`, `Create`, `Write`, `Unlink`, `MoveDirAway`, `PutDirThere`, `RemoveFile`, `Die` |
| `Secrets` | `load_or_create_secret` on POSIX and Windows, system call by system call | `SecretExists` … `SecretChmod`, `EnsureDir`, `CreateDir`, `OpenDir` |
| `KeyFile` | `attestation-keygen`, loading the key, and the gate's look for its watermark | `KeyLstat`, `KeyOpen`, `ProvisionLstat`, …, `CheckStateDir`, `LoadWatermark`, `Record` |
| `HidPort` | the choice of the CH9329's port and rate, against devices that come and go | `plugged`, `conn`; `PortStep`, `Replug` |
| `Observer` | the service from accept to send, the snapshot builder, the client's timeout | `phase` follows `serve_forever`, `handle` and `_observe`; `Gather` is one of the builder's two loops over what a provider lists; `ObserveFails`, `Build`, `Sign`, `Send`, `Stop`, `GiveUp` |
| `Services` | the command line's programs on one machine, made of the six above | `Start`, `Crash`, `ProcStep`, `ObserverStep`, `Environment`; a *world* is the situation they start in |
| `ServicesProofs` | theorems about `Acl` and `Services` | |
| `MC*` | constants for TLC | |

Abstractions that are made on purpose, beyond leaving out wording and layout:

* Composition by contract. `Gatekeeper` reads the kill switch in one step, which
  `KillSwitch!StopHonoured` justifies; it admits envelopes in order and none
  twice, which is `AttestationGate!NoRollback`; it appends to the log in one
  step that may fail, which `AuditLog` takes apart; and an execution that raised
  may still take place later, once, which is all that `InputPort` promises.
* In `Desk` risk, policy and the human are an answer that may be no: `Gatekeeper`
  has them in detail. A screen is a number; the changed fraction of two screens
  and the distance of their hashes are both the difference.
* SHA-256 is collision-free and signatures are the names of their keys.
* What a text matches is a set of pattern classes; the three readings that
  `request_action` scores are independent choices, since merging texts may both
  break and make a match.
* `StopSwitch`'s holders are what the kill switch's files hold, except that a
  marker which its drill failed to read counts as the operator's (`Held`): such
  a drill lifts nothing any more, and when it puts its claim back over what the
  operator wrote meanwhile, the switch stays on and only the operator's release
  ends it.
* In `Services` a file is a token, whether it is whole, private and owned by the
  user; a directory its descriptor or mode; what a stranger may do follows from
  those. An account that may change the directory above moves the one at the
  path away and puts there one of its own, the one it took, or any other
  directory of the owner's (`PutDirThere`), which it need not be able to open. `Acl!MayHave` models the platform's access check, not the code.
* `Adapters` takes pxx from what `adapters.py` and its tests say of it: it tags
  the tree before it edits, commits what it completed, restores what failed if
  it can, and prints its markers last.
* Without `LastGoes`, outside changes in `AuditLog` leave the last line last.
  A line removed at the end the chain cannot notice (README.md:292 says so,
  audit.py:92 claims otherwise), nor one that was swapped into the middle and
  removed there; every line before the last is covered without it.

## 3. Runs

| Run | Shows | Bounds |
|---|---|---|
| `kill_switch` | the operator's stop stands, every `is_engaged` honours it, the files implement `StopSwitch`, a drill whose calls succeed lifts its stop again | two drills one after the other, one gatekeeper, crashes and failing calls anywhere, any number of stops and releases |
| `kill_switch_overlap_stop` | **finding**: two drills alive at once can put a drill's marker over the operator's stop | two drills |
| `audit_log` | an undamaged log verifies; what verifies is complete | two writers, two bodies, four records, two outside changes: changes before, in and after a record and around a restart, and one that might undo or hide another |
| `audit_log_shared` | **finding**: `kill-drill` beside the running service breaks the chain | two writers |
| `attestation_gate` | no rollback, no lock-out, no silent eviction | three envelopes (one remembered, one evicted, one more), two lifetimes of each side, three times, one clock step back; configured epoch or trust on first use |
| `gatekeeper` | only justified actions run, a standing stop pre-empts, the log tells what happened | two requests, two frames, one observer restart, one crash, one stop; every target, reading and risk of an input and of a non-input, with contexts that are texts and that are not |
| `gatekeeper_restart` | **finding**: the freshness tracker refuses a restarted observer | three frames |
| `executor_hop` | type and backlog, the hop implements `InputPort`, nothing begins past its age, every call ends | three calls, a limit of two ticks for the caller and three for the service (10 s and 15 s), one connection waiting, one nonce remembered, one death: a caller gives up while it waits to connect, in the queue and under way |
| `session` | input is what was asked for, nothing stays down, the loop acts on what the model saw, a replay keeps its order, calls return | two calls of two steps (loop) or three (replay); one failed write, one change of the screen, one stop; a doubled letter, shifted characters with a change of key, a text that cannot be typed to its end, every kind of mouse action; three screens, of which neighbours are the same scene; a hot key of a shifted character, a scroll by nothing |
| `session_accented` | **finding**: an upper-case letter outside ASCII is typed as another key | one such letter |
| `soft_loop` | ceilings, completed is verified, each lane's retry, the review's base, no edit untold, approvals are of the whole change, termination | two lanes, four rounds (two tries in each lane, or a split of two after a lane's two tries), of which two may have no net or a coder that hung; one split, one revision; a gate that fails with one violation or with two, one of them repeated; prose that repeats every marker: each ceiling is reached on some path |
| `services` | what a service holds is on disk, whole and private; the key stays; first starts; the configured port; envelopes in order, unique elements, true health; starts and requests end | two processes, two or three starts; one world per kind of thing the code looks at (`MCServices`): files missing, half-written, readable or foreign, modes and umasks, descriptors of a profile, a public and an unknown entry, failing writes, other accounts above the directory, and a spare directory of the owner's that they may put there; every port and chip with devices replugged; an observer with two calls, two screens of repeated and invalid elements and a clock that goes between 0 and 1; six directories (another account takes one away only while there is room for the programs to make those that are missing), one watermark recorded |

Types are checked by runs only where they say something of a limit
(`executor_hop`: the backlog; `session`: the range of the loop's steps); the
other modules' `TypeOK` are theorems.

`CHECK_DEADLOCK FALSE` is set where a bound or the end of the program's work
leaves nothing to do.

Fairness. `KillSwitch!FairSpec` asks that the process of a drill goes on until
it ends or crashes; the operator owes nothing. `Gatekeeper` has no fairness and
no liveness property: nobody owes the prompt an answer, and `CLIApproval` does
not use its `timeout_s`. `Session!FairSpec` asks that the process runs, and with
it that the model answers or fails (`model_timeout_s`) and the person, if one is
asked, answers in the end.
`ExecutorHop!FairSpec` asks that both processes run and time passes, but neither
that an execution ends nor that a dead service is started again: the caller's
own timeout has to do. `PxxSpec`, like `SoftLoop!FairSpec`, asks that the loop's
next step is taken, that is, that coder, gate, judge and reviewer return: their
adapters run with timeouts. `Services!Spec` asks that a process that has begun
to start goes on, and that the serving observer does, and with it that what the
observer calls returns: the capture backend, the providers and `sendall`, which
has no timeout (`common/ipc.py:76`). A peer that neither reads its answer nor
closes its connection is thus outside `RequestsEnd`. It asks nothing of other
accounts, of devices or of the operator, and a step that waits for the
observer's next request owes nothing. Another account that for ever takes the
secret's directory away and puts it back can keep a start busy for ever, so
`StartsEnd` speaks of behaviours in which other accounts act finitely often.

## 4. Proofs

Proved by TLAPS for every value of the constants:

* `KillSwitchProofs`: `TypeCorrect`; `OperatorStopStays`, `EveryCallHonoursTheStop`
  and `FilesImplementStopSwitch`, from one invariant that says where the
  operator's stop may be at each point of a drill, finished by success, error or
  crash, and what a reader that has gone part of the way must still meet. They assume `Overlap = FALSE`, drills
  one at a time; the run `kill_switch_overlap_stop` shows why.
* `AuditLogProofs`: `TypeCorrect`; `OwnLogVerifies`, that `ChainHolds` when
  the log is not shared, by the invariant that an open writer's `_prev` is the
  hash of the last line; `NothingIsMissing`, that `VerifiedIsComplete` when it is
  not shared and the last line stays last, for any number of outside changes and
  cut writes. A hash is as long as the chain it ends. The invariant is that the
  last line, when it is whole, is the last record written, and that what was
  written is a chain, or else the hash the writers go on with has a prefix of a
  length that no line of the file has and that none can get again. A log that
  verifies has a line of every length, and two chains that end in one hash are
  equal: an induction on their lengths, by way of the least number at which
  they would differ (`LeastNumber`, from the library's well-founded orders).
* `AttestationGateProofs`: `TypeCorrect`; `NoEnvelopeReturns`, that is
  `[]NoRollback`. `NoRollback` is not inductive: the invariant adds that memory
  and both states of the disk cover everything admitted, and that an envelope
  past its checks is ahead of it, which is why the durable write has to come
  before the memory. `ObserverGetsIn`, that is `[]NotLockedOut`: watermark, epoch
  and nonces all stem from envelopes that passed the checks, so an envelope newer
  than those meets nothing that refuses it. `ForgettingIsTold`, that is
  `[]EvictionReceipted`, needs both, since an envelope verified in this lifetime
  was not admitted before it.
* `GatekeeperProofs`: `TypeCorrect`; `StopComesFirst` (an invariant that while
  the stop is off, the request in hand has seen it off); `OnlyWhatIsAllowed`
  (what the verdict found still holds at the prompt and past it, since only the
  next request moves the newest frame; and no reading of an action has a tier
  above the one it is held to, so the caller's context cannot lower it);
  `LogTells` (records come in the order of requests, the decision about to
  be recorded agrees with what was, or may yet be, performed, and a request that
  raised got no further than the approval).
* `ExecutorHopProofs`: `TypeCorrect`; `NothingStaleBegins`; `HopImplementsPort`,
  that `Spec` implements `InputPort`, from an invariant on the order of things:
  what waits was asked for in that order and after what is served, what was
  begun comes before what waits, and no answer or result says "done" of what
  was not.
* `SessionProofs`: `TypeCorrect`; `LoopActsOnWhatItSaw` (while a request is at
  the gatekeeper, its frame is the newest, the one the model was shown, and
  later than the last input) and `ReplayKeepsOrder` (the steps approved so far
  are the first ones), for any model, skill, screens and thresholds; and, up to
  the target itself, `InputArrives` (`InputIsWhatWasAsked`) and `NothingStaysHeld`
  (`HeldOnlyAfterFailure`). Neither of the last two is inductive: while an action
  is being executed nothing is let go yet and only part of it has arrived. The
  invariant `DeskInv` says how far it is (`Progress`): for some number of its
  reports, what is still queued are the others, what is down is what the last of
  them says, and the target has seen the events that those make; after it, only
  a device whose write failed holds anything (`LetGo`), and what was answered is
  what was seen (`Told`). It rests on what a report makes happen, proved about
  the operators of `Hid` and apart from any state: `AbsIsOnScreen`, that the
  rounding of `_to_abs_coords` comes back to the same pixel on every screen up to
  4096 wide; `CharacterArrives`, that the keys of the two tables produce on the
  US layout the character they stand for; `ChordIsNamed`, the same of a hot key;
  and `TypeableBegins`, that a text that cannot be typed to its end is typed up
  to the first character without a key.
* `SoftLoopProofs`: `TypeCorrect`; `BudgetHolds`; `CompletedMeansVerified` (from
  the passing check until the loop goes back to its top no code changes);
  `ReviewSeesTheWholeChange` (with a base, it precedes every change; with none
  and none lost there is no change yet); `LaneIsRetried`; for any budget, lanes
  and reports. Then of the loop with the adapters behind it:
  `AdaptersRunTheLoop`, that `PxxSpec` implements `Spec`, so that all of the
  former hold of it; `CoderTells` (`NothingLeftUntold`), from what the last
  marker of each kind in pxx's output can be (`TailMarker`, `EchoMarker`): what
  its tail prints wins over any prose, however long; and `ApprovalIsOfTheWhole`
  (`ApprovedIsReviewed`), which needs `TagInv`, that no netted round comes before
  the base, to see that a review of the base reads every edit that stays.
* `ServicesProofs`: `OwnerOnlyKeepsOut` and `TrustedParentHolds`, that what the
  two policies accept gives no outsider a right, resp. the right to move or
  remove entries, under Windows's own access check, for descriptors of any
  length; `CreatedPasses`, that what the program creates it will accept;
  `TypeCorrect`; `PortIsConfigured`; `EnvelopesInOrder` and `HealthIsTrue`, from
  the counters' agreement at each phase of a request; `InventoryIsKept`, that is
  `[]InventorySound`, for screens that list anything: the invariant follows the
  list from the walk to the envelope, and rests on `GatherSound`, that a loop of
  the builder keeps a list numbered by position, within the limit and without
  repeats. `Gather` folds a list of any length; the library's induction theorems
  cannot be used, so the function inside the fold is shown to exist and to go
  through the items in order (`FoldIsThere`, `FoldStep`) by the least number for
  which it would not; and what the starts do to each other's files:
  `FirstStartsAreFirst`, `ProvisionedKeyStays` (`KeyIsKept`),
  `ServicesHoldWhatLies` (`HeldIsOnDisk`) and `SecretStaysPrivate`.
  The first of these needs an invariant on where a recorded watermark is: where nobody
  else may change the directory above, there is a directory at its path, and
  whatever directory there would pass the gate's check holds it; and on what a
  starting gatekeeper has made sure of when it opens the file, that the
  directory it judged passed and, on Windows, is still the one at the path. The
  second follows the key from the directory that was judged through its creation
  (no two processes drew the same content, so whoever writes or takes back a key
  in an owner-only directory has made it). The last two come from one invariant
  on the secret and the key at their paths, while no other account may disturb
  those: what a process has seen of the file at each step of its start (exists;
  is private; is open, and whole or not yet), and what one that is up holds, is
  true of the file that lies there. A step of another process leaves it as it
  is, writes what that process made and nobody has taken, narrows its mode, or
  takes it back; no process came up with a secret that is taken back, as it
  was never whole.

Each rests on the named assumptions of its modules about the constants and on
nothing else. They are what the code or the platform grants: the model's answers
and the skill's steps are well-formed actions (`LoopAssumption`,
`SkillAssumption`; `_validate` refuses others), a screen lists items with a
label, an extent and a verdict of the schema (`ElementsAssumption`), prose
repeats markers (`EchoAssumption`), a screen is at most 4096 wide
(`WidthAssumption`: on a wider one two pixels have one device coordinate).

Every safety property of a passing run is stated by a theorem. Only
model-checked is liveness (`DrillStopLifted`, `CallsEnd`, `CallsReturn`,
`Terminates`, `StartsEnd`, `RequestsEnd`), as no installed back end reasons
about fairness and ENABLED.

## 5. What the models met

Four disagreements between the code and its documentation have a run of their
own and are quoted in `PROJECT.json` (`findings`). Others were met on the way,
and a model states how far the property goes because of them:

* A stop is read once per request (`gatekeeper/gatekeeper.py:169`) and a prompt
  may follow; `StopPreempts` speaks of that reading, where the docstring
  (`gatekeeper/gatekeeper.py:10`) speaks of every action.
* On POSIX the IPC secret is created with the umask's mode and narrowed by a
  chmod afterwards (`common/auth.py:46`–`51`), and its directory is never
  judged. `SecretIsPrivate` holds because a reader checks the mode, and
  only where nobody else may change the directories.
* The gate judges what is above its directory only when that directory is
  missing (`attestation_gate.py:447`). Where another account may change the
  directory above, a recorded watermark may therefore be taken for a first
  start: on Windows when another owner-only directory of the user's is put at
  the path, which passes and has no state file (`:402`-`:415`); on POSIX in the
  same way, and because a gatekeeper makes the directory of its secret anew
  before it looks for its watermark in it, so that the missing directory is no
  longer missing. `FirstStartUnlessMoved` says exactly this; what it adds on
  Windows is that a missing directory is never the reason, whoever may move it.
* `_holds` answers no for a file it cannot read (`killswitch.py:91`-`:94`), and
  `disengage_if_owned` then returns in peace: such a drill reports success with
  its stop in place, where `drills.py:38` says that it lifts the stop it engaged
  whether or not the canary pre-empted. A drill whose rename or unlink fails
  ends with an error and leaves its stop at the path or in its claim
  (`killswitch.py:113`-`:119`), and one whose temp file cannot be removed leaves
  a stop it does not know to be its own (`:85`). `DrillStopLifted` exempts these
  drills; on all these paths the switch stays on (`OperatorStopStands`,
  `StopHonoured`).
* Three exceptions leave `request_action` before anything is recorded, after the
  envelope has been used up, where `gatekeeper/gatekeeper.py:16` says "every
  outcome appended" and `README.md:284` "Every gatekeeper outcome": `is_engaged`
  may not look at a file (`killswitch.py:34`), the caller's context has a field
  that is not a text, which nothing validates (`services/gatekeeper.py:47`) and
  which the join of `risk.py:45` refuses, and the approval backend raises
  (`gatekeeper/gatekeeper.py:297`). `AuditTells` leaves these requests out of the
  log, and says that nothing of them is or will be performed.
* The observer's answer is sent outside the `try` of `common/ipc.py:72`-`:76`. If
  the client has closed its connection by then, `sendall` may raise, and the
  service ends (`Send` with `peer = "gone"`), where `services/observer.py:160`
  says "Serve until interrupted". No property claims that it does not.
* `PortAsConfigured` speaks of the rate only if the chip that was found is still
  the one that was opened, and `InventorySound` of no moment at which the
  accessibility tree was walked: nothing in the code looks again.
* The age of an action at the executor is the distance of two readings of the
  wall clock (`services/executor.py:43`). `ExecutorHop`'s time only goes on; a
  clock that is set back between the two readings is not modelled.
* `adapters.py:206` anchors each marker to its last occurrence, so that prose
  cannot pass for the coder's evidence. A marker that the tail does not print
  is still taken from the prose: a failed run without a net whose model writes
  `[net: x]` counts as restored, and `_NOT_RESTORED` is looked for in the whole
  output. `Possible` leaves the first out, as the one bound on the prose.
* A coder that hung before it printed its tag passes for a round that changed
  nothing (`adapters.py:172`), so a later tag may become a base that does not
  cover its edits; `ApprovedIsReviewed` leaves these rounds out.
* `Asked`, the reading of an action that the executor is held against, was wrong
  in two places that no run had met and the proof of `InputArrives` did: a hot
  key of a shifted character holds shift, and a scroll by 0 is a report without
  an event. The executor was right in both; the run has them now. Capital
  letters outside ASCII are the one thing typed wrong, and `Plain` leaves them to
  the run `session_accented`.
* `CLIApproval.request` takes `timeout_s` and does not use it; the frame filter
  compares each frame with the one before it, not with the last one the model
  saw; `Skill.bind` changes the skill it is called on.

## 6. Not modelled

See `components` in `PROJECT.json` for each part's reason. In short:

* the recorder (`skills/recorder.py`): two listener threads and a poller around
  one list; nothing in the program starts it or reads what it saves;
* code that keeps no state between calls: the planner, the parsing of
  configuration and of model output, notifications;
* platform I/O: screen grabbing, OCR, the accessibility walk of Windows
  (`perception/win32_fields.py`, `a11y.py`), pynput. What they yield is an
  input of `Desk` and `Observer`;
* of `winacl.py`, the ctypes declarations, path syntax and reparse points; the
  replacement of the state file and the sync of its directory are taken apart
  in `AttestationGate` and are one step in `KeyFile`;
* an abstract admission log above `AttestationGate`: `NoRollback` with its
  history variable says the same of the same steps.
