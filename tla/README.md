# TLA+ models of RadishAxiom

RadishAxiom checks formal artefacts and, to do so, runs an external solver under
supervision. This directory models the parts of the repository that must be right under
concurrency, failure and time: the machines that start the solver once, watch it, stop it
and say afterwards what happened; the store that keeps what was checked; and the two host
tools that fetch the solver's inputs and build its supervised channel. The rest of the repository is mostly pure document
processing; the inventory below says what is left out and why.

## Inventory

Paths are relative to `src/crates/`, those of scripts to `src/`.

| Part | State | Operations and interaction | Hard behaviour | What makes it correct |
|---|---|---|---|---|
| One-shot controller: `solver-diagnostic-host/src/controller.rs` with `transport.rs` and `observation.rs` | phase, clock of the last event, failure facts with a budget, captured streams with limits, diagnostic buffer, cleanup status | `advance(event)` returns a batch of intents for a container host; `finish()` consumes the controller and builds an observation record, which `simulation_response_input` may adapt to a solver response | events of any kind in any phase, late answers, a deadline crossed by the event that made progress, failures inside the cleanup tail, full buffers | intents are one-shot, nothing forward after a failure, every failure has evidence, a response stands for the whole protocol, no attempt is stranded |
| Bootstrap handshake: `solver-supervision-core/src/handshake.rs` | host: deadline, accepted nonce; supervisor: stage, preparation deadline, armed deadline; both: last clock reading, sticky failure | READY, ARM and QUERY over a pipe; each side calls `tick` | two clocks, delays, replays, frames of other runs, checked arithmetic at the end of the clock | the supervisor never outlives the host's window and is armed by its own host for its own READY |
| Supervision simulation: `solver-diagnostic-host/src/e3_supervisor.rs`, `e3_cgroup.rs` | stage, first failure, child, listener, streams, observations, two clocks, cleanup facts | READY, ARM, query, clone, listener, grant, streams, reaping, final, outer state, removal, losses | any call after a failure, the child that exists before the checks that follow `clone`, cleanup after the deadline | the child is never forgotten, actions are one-shot, a completion stands for a whole attempt |
| Native supervisor: `solver-bootstrap-linux/src/supervisor.rs`, `setup.rs`, `child.rs`, `observation.rs` | the same protocol on Linux: poll loop, pidfd, notification listener, pending output frame | poll, read, write, pidfd wait, seccomp notification | stale poll results, child and host concurrent with the loop, emergency exit | a final follows the exit and both ends of stream, one grant, a failing run kills the child |
| Bootstrap wire: `solver-supervision-core/src/wire.rs` | decoder and encoder: next legal message, byte counts, poison; pending frame | frames split at any byte | limits, end of input inside a frame | both ends accept the same sequences |
| Linux channel: `solver-bootstrap-linux/src/channel_*.rs` | init process: children, signalled pids, two budgets, report; I/O: six buffers | clone of the collector, SIGCHLD, wait, kill by pidfd | orphans, tables of fixed size, work budget and cleanup budget | it ends with no children or says why not |
| Runtime store: `checker-runtime/src/store.rs`, `store/evidence.rs`, `checker-runtime-darwin-store/src/macos.rs` | target and registration locks, staging directories, published slots, qualifications and attempts on disk | lock, stage, write, sync, verify, publish by exclusive rename, sync, verify, tell | processes that die between any two steps and leave a staging tree, power lost before a sync, several publishers of one name, an ordinal counted from a directory | what a caller was told is published stays, nothing published is replaced, attempts form a log without gaps, nothing is told before it is synced |
| Linux channel builder: `scripts/build-linux-channel.py` | the running command and its process group, the interval timer, argv records, the manifest or the failure record | `build()` runs fixed commands in process groups of their own; the compile command's recorders write records beside it | a timer whose tick raises anywhere, also in handlers; group numbers that are reused after reaping; descendants that outlive their streams | only its own groups are signalled, a manifest stands for settled records, it ends, and what it leaves running is told |
| Acquisition of the cvc5 inputs: `scripts/fetch-cvc5-c1-inputs.py` | three nested deadlines, bytes per item and batch, files, journal, result | one request after the other, redirects, a first ranged request that completes a retained file, a readback, a result record | slow or lying servers, a late tick, SIGTERM inside handlers, limits that are reached exactly | a counted file is the approved one, nothing late counts, every request is journaled before it goes out, no failure goes untold and the first one is kept once noted |
| Checker runtime: `checker-runtime/src/{spawn,attempt,registration,qualification,...}.rs` | attempt in progress, child process, receipts | spawn, watch, collect, qualify | timeouts, output limits | a receipt describes the run it names |
| Axiom IR: `axiom-ir/src` | none | pure algorithms over JSON documents | size | - |
| Digest, the other Python scripts, contracts, benchmarks, experiments, patches | none | pure functions, generators and data | - | - |

`PROJECT.json` lists every component with its status, every hazard found in the code with
the properties that would notice it going wrong, and the lines each definition models.

## Modules

| Module | Models |
|---|---|
| `SolverAttempt` | abstract: the solver starts at most once and never after a failure, failure is final, one verdict, a response only from a started, failure-free and cleaned up attempt |
| `SimulationController` | `controller.rs`, the streams of `transport.rs`, the record of `observation.rs`; implements `SolverAttempt` |
| `SimulationControllerMC` | the controller with a larger fact budget, and a constraint that keeps the instance small |
| `SimulationHost` | the controller composed with the container host that answers its intents |
| `SimulationControllerProofs` | theorems about `SimulationController` |
| `SimulationHostProofs` | theorems about `SimulationHost`, on top of the controller's |
| `BootstrapHandshake` | `handshake.rs`: both machines, their clocks, the channel |
| `BootstrapHandshakeMC` | the stray frames of the small instance |
| `BootstrapHandshakeProofs` | theorems about `BootstrapHandshake` |
| `SimulationSupervisor` | `e3_supervisor.rs` with the observations of `e3_cgroup.rs`; implements `SolverAttempt` |
| `SimulationSupervisorProofs` | theorems about `SimulationSupervisor` |
| `NativeSupervisor` | `run` and `run_inner` of `supervisor.rs` with the child, the host and the clock; implements `SolverAttempt` |
| `NativeSupervisorMC` | the output limits of its two instances |
| `NativeSupervisorProofs` | theorems about `NativeSupervisor` |
| `RecordLog` | abstract: an append-only log whose records up to the last one a caller was told of are never lost, replaced or renumbered |
| `RuntimeStore` | the macOS path of `store.rs` and `store/evidence.rs`: slots, qualifications and attempts; its attempts implement `RecordLog` |
| `RuntimeStoreMC` | the symmetry of its instances |
| `RuntimeStoreProofs` | theorems about `RuntimeStore` |
| `ChannelBuilder` | `build()`, `Session` and the argv recorder of `build-linux-channel.py`, with the processes they start |
| `ChannelBuilderMC` | the commands of its instance |
| `ChannelBuilderProofs` | theorems about `ChannelBuilder` |
| `Acquisition` | one ranged continuation of `fetch-cvc5-c1-inputs.py`, with its server |
| `AcquisitionMC` | the requests of its instance |
| `AcquisitionProofs` | theorems about `Acquisition` |

### How a module corresponds to the code

* `SimulationController`. `advance()` is a pipeline over the controller's state, so the
  module is one too: the handler of the event (`OnCreated`, `OnExit`, ...), `Deadline`,
  `Suppress`, `DiagnosticBudget`, each an operator from controller record to controller
  record, and one action per event kind. `ctl` is the struct, its `actions` the batch under
  construction; `issued` counts, as a history, what left the controller, and `record` is the
  result of `finish()`. Bytes are units: a rejection's diagnostic record is one unit, so is
  a captured byte. Tokens are abstracted to right (every action) or foreign (`ForeignToken`).
* `SimulationHost` adds what the controller's callers promise: each intent is answered once,
  by its own event, by the one that denies it (`TreeNotEmpty`, `CleanupFailed`) or by
  `ControlFailed`, at any later time. `replies` is a history: what it answered to
  `ConfirmEmptyTree` and `Cleanup`, in order.
* `BootstrapHandshake`. Digests and identities of a frame are abstracted to whether they
  match; attempt and nonce are kept, because a stray frame may share the attempt. The
  channel is a set of frames that may be received again, later or never. `Advance` is the
  only assumption on the clocks: from READY on, the supervisor's falls behind by at most the
  declared error. A reading may also go back, which the code rejects.
* `SimulationSupervisor`. `Require` and `Ok` stand for the `?` of the source: a chain of
  checks whose first failure is kept. Bindings, tokens and notifications are abstracted to
  right or wrong; a cgroup observation keeps its interval, whether the child is a member,
  its event counter, and whether the rest of it is sound. Byte counts of the streams are
  abstracted to whether they still fit.
* `NativeSupervisor`. `sup` holds the locals of `run_inner` and `stream_and_reap` and a
  program counter, `sup.at`; between two of its steps the child (`kid`, as the kernel has
  it), the host and the clock (`late`) may move. A step holds the system calls whose results
  are used at once; the results of `poll` are kept (`sup.ev`) and used over several steps,
  as in the code. Bytes are units: the query in units of one write, output in units of one
  read, a frame in two parts. A clone is a step of its own with the ownership recorded in
  it, as nothing that can fail lies between. An exit takes two steps: the child first loses
  its descriptors, its listener and its place in `cgroup.procs`, then becomes reapable.
  `fault` is a history: a system call failed, or host or child did something an attempt need
  not survive; no race sets it. The readings of twelve cgroup files are two, of the pids and of the members,
  with the child's state before and after.
* `RuntimeStore`. The three families of publications differ in where they start and in which
  directories they sync, so they share one module and `family` is chosen in `Init`; each has
  its own lock and its own directories in the code too. A tree is partial or whole, and
  carries what the medium is known to hold of it: its files, its entries, its own place. A
  write changes the page cache, a sync the medium; `Interrupt` is any error and the death of
  the process at once, since both drop the lock and leave the rest; `LosePower` undoes any
  rename and damages any tree that was not synced. The steps of a discard, and of the
  creation of the parents, are one: a crash between them leaves what the next operation
  treats alike. `told` is a history of what callers were told. The branch for a destination
  that appears between the look and the rename is not there, because `DestinationStaysAbsent`
  shows that it never does.
* `ChannelBuilder`. `pc` is the wrapper's place, by the function that catches what is raised
  there; `Alarm` is a tick of the timer between any two bytecodes at which it matters: before
  and after the reaping wait's result is assigned, and before a handler's first statement.
  Checks of inputs and limits that depend on data outside the model are `Fault`, which may or
  may not happen. A process of the group has started, is writing its record, or has written
  it; `aim` tells whether a group signal went to the wrapper's own group or, the leader being
  reaped, to whoever has its number now.
* `Acquisition`. Bytes are units and time is whole units; `Ends`, `Armed` and `Arm` are
  `ContinuationDeadlines`. The server's answer is chosen when its headers are accepted: the
  body's size up to one unit too many, whether it was announced, and whether it is good. A
  body that ends early by an error is a `Fault`. `log` and `sent` keep the requests and hops
  that were journaled and sent; a redirect's target is abstracted to its place in the chain of
  hops, so the loop check on targets (`fetch-cvc5-c1-inputs.py:101-102`) is a `Fault` and
  "no hop twice" says nothing of one URL named twice. `raised` and `cut` are histories: the
  exceptions are numbered, and `failure` is the number of the one that the result tells.

## What is checked

| Run | Instance | Shows |
|---|---|---|
| `controller` | one clock unit to the deadline, stream limit 1, diagnostic limit 2, two facts, any event at any time; at most one kind of noise (a rejected event, a failed transport or control operation, an interruption) before `finish()`; silent stderr | no forward intent after a failure; a response stands for the whole protocol; every failure has evidence; every record is accepted unless the diagnostics overflowed; a lost fact is always `ResourceLimit`; refinement of `SolverAttempt` |
| `controller_finish` | four facts | a violation: see the finding |
| `host` | one clock unit to the deadline, stream limit 1, diagnostic limit 2, one fact; the events are the host's answers and what the container does by itself | type, one-shot intents; no stranded attempt, no forward phase past the deadline, a confirmed cleanup stands for the answers "empty" and then "cleaned" and no other, and the attempt settles |
| `handshake` | window 3, clock error 1, readings 0..4 | the arm lies inside the host's window, agreement, deadlines only tighten |
| `supervisor` | window 2, readings 0..2, two event counts | the child is stopped, actions are one-shot and in their order, completion, deadlines, refinement of `SolverAttempt` |
| `native` | query 1, stdout limit 1, stderr limit 0, four host messages | a final frame is earned, a failure kills the child, no race but a listener seen hung up halfway through the exit fails a good attempt, refinement of `SolverAttempt` |
| `native_exits` | query 1, both limits 0 | the supervisor exits |
| `store` | two publishers, two records, three attempts, three deaths or errors, two losses of power | what was told stays, nothing is replaced, the attempts stay readable and implement `RecordLog` |
| `store_leftover` | one death, no loss of power | a violation: see the findings |
| `builder` | two commands, one of them the compile, two helpers, two units, three records | own groups only, manifest, termination |
| `builder_stop` | the same, without fairness | a violation: see the findings |
| `acquisition` | a retained prefix of 1, bodies of 1, 1 and 2 with a batch limit of 4, one hop, idle limit 2, item 3, batch 5, clock up to 6, two SIGTERMs | counted files, deadlines, journal, the failure told |

The bounds are small because the properties do not count high. The controller compares the
clock with one deadline, so one unit before it and the deadline itself give every outcome;
a stream limit of one unit with pushes of 0 to 2 units reaches below, at and beyond the
limit; a diagnostic limit of two, one unit of which the container's name takes at once,
overflows at the second diagnostic; with one fact the budget is exhausted by the second
kind of failure, and with two the validity of a record with several facts is examined. In the
handshake a window of 3 leaves room for a READY that takes no, little or too much time,
with an error of one unit in each direction, and 4 is the largest reading, so that both
checked additions overflow. In the supervision simulation a window of 2 has readings
before, between and at the deadlines. In the native supervisor one unit of query and of
stdout gives both a part and the whole of each, stderr is at once at its limit, one unit
above each limit can be written, the fourth host message is the one that must not come, and
two parts per frame give a pending frame at every place. `late` stands for the one deadline
in force: it is narrowed only before the child exists. In the store two publishers suffice for every pair of interleaved operations, since a lock
admits one at a time; three attempts give a first, a next and a refused one; three deaths and
two losses of power let an operation be interrupted, its successor too, and the loss strike
twice in between. In the builder a command of each of two kinds gives a first and a last one,
two helpers one that ends and one that stays, and three numbers for two units leave room for a
probe or a duplicate. In the acquisition the three requests are the ranged one, one in the
middle, and the one whose end is the batch's limit; every deadline can be the nearest one, and
can be reached at every step; two SIGTERMs strike a step and its handler, or the handler's
handler. `MaxIssued` and the bound 2 on `issued` saturate the
counts of one-shot intents above the value that would already be an error.

Runs that disable the deadlock check end in states where the system really stops: a
consumed controller, a judged attempt, a call that has returned, clocks at their end. The two
runs of the store check deadlock: a publisher can always begin or go on.

`controller` lets any event come at any time, and cuts behaviours with a state constraint
and an action constraint: its safety properties are checked on the histories with little
noise and a silent stderr. `host` has no such constraint but fewer events, those a host and
its container can cause. The proofs have neither restriction.

### Fairness

Only `host`, `native_exits` and `builder` need it. Every intent is eventually answered, because the host's operations
return, successfully or not, and the clock passes the deadline, because the caller ticks.
Nothing is assumed of the container: it may never write, close its streams or exit.
In `native_exits` the supervisor is scheduled and the clock passes the deadline in force,
which its timer and every check of it compare with; child and host may stop at any time.
In `builder` the wrapper runs, the clock passes the deadline, the periodic timer's tick is
delivered, and a check that is due fails; the processes it started may neither work, nor end,
nor die when killed.
The other runs check safety only.

### Findings

**A record that cannot be published.**

`finish()` is documented to "only publish a failed record for an unfinished tail"
(`controller.rs:563-565`). The run `controller_finish` shows it return an error instead:
events rejected for their token or for a clock that went back return from `advance()`
before the diagnostic budget is looked at (`controller.rs:345-352`). Two of them overflow
the diagnostics and leave no `Control` fact, and the record is then refused
(`observation.rs:179-181`). `OnlyOverflowIsUnpublishable` shows this is the only such case.

**A process group that is left running.** `Session.run` disarms the timer with the first
statement of its exception handler (`build-linux-channel.py:258-259`), and the timer's signal
handler raises once the call is late or cancelled. The run `builder_stop` delivers a tick
before that statement: the exception leaves the handler, `stop()` is not called, and the
group goes on while the recorded error says nothing of it. The design wants every unconfirmed
stop kept as a failure (`docs/query/solver-linux-channel-l3.md:141`), and the tests assert
that no group is left (`test-linux-channel-build.py:256`), with a session that does not own
the timer. That the group is signalled only while its number is pinned, and what a manifest
stands for, is not affected: `builder` shows both with the same ticks.

**A success without a sync.** A publisher that dies between the write of a file and its sync
(`store/evidence.rs:705-707`) leaves a staging tree that verifies, from the page cache. The
next call takes it over (`evidence.rs:306-308`, `215-217`), syncs its directories and reports
success, while `checker_runtime_launcher/core.py:306` promises
`f-fullfsync-files-and-directories-before-success`. The run `store_leftover` finds this for
attempts and qualifications. A slot's staging tree is never taken over (`staging-exists`),
and `ToldIsKept` includes a slot's contents.

## What is proved

The proofs hold for every value of the constants under the named assumptions
(`ControllerAssumption`, `HandshakeAssumption`, `SupervisorAssumption`, `NativeAssumption`, and
those at the head of `ChannelBuilder`, `Acquisition` and `RuntimeStore`): limits are naturals,
the wall clock and a few other limits are positive, no stray frame carries the nonce this
supervisor drew, and `None` is no other value. They need none of the bounds and constraints of
the runs. Every invariant and action property that a passing run checks is proved, and so are
the three refinements of `SolverAttempt` and the one of `RecordLog`.

* **Controller.** `TypeOK`, `IntentsAreOneShot`, `FailureHasEvidence` and
  `NoForwardIntentAfterFailure` follow from `ControllerSafe`. That an intent is issued at
  most once is not inductive: the invariant must know, per phase, which intents have not
  left yet (`Future`), count the batch under construction (`Total`), and know that a failed
  attempt is in its cleanup tail, with evidence. Because `advance()` is a pipeline, the
  invariant is a predicate on controller records, `Ready -> Handled -> Settled`, and each
  handler and each stage has a lemma of its own.
  What a published record says (`BudgetOfFacts`, `ResponseIsWhole`, `RecordIsPublishable`) needs
  the history that the record is later judged by. `Lawful` has it for every attempt: facts are
  counted and dated, a cut stream has its fact or an exhausted budget, bytes and exits come
  after the start, the cleanup is unknown until the end. `Whole` has it for an attempt that
  has not failed: it issued exactly what its phase stands for. The same lemmas say that a
  stage keeps, begins or ends the attempt (`Moved`), which is `ControllerImplements`, the
  refinement of `SolverAttempt`.
* **Host.** Every step of the composition is a step of the controller (`HostRunsController`),
  so the controller's invariant holds there. `HostInv` adds that answers never overtake
  intents, that the phase waits for an intent that is out and unanswered, that a late attempt
  has failed, and what the host has said of the cleanup in each phase: nothing before the
  confirmation, "empty" before the cleanup, then "cleaned" as well, as long as nothing was
  refused. The argument follows each stage of `advance()` once more (`Guided`, `Through`):
  whoever changes the phase puts what the next phase waits for into the batch, and
  the suppression of late intents never drops that one.
* **Simulated supervisor.** The stage carries the proof (`Staged`): from each step of the
  protocol on the child, the deadline or the ends of stream are there, whether the attempt failed or
  not; `Clean` is what holds only until something fails. One-shot actions and their
  order follow because the count of an action is a function of the stage (`Since`); that a
  final needs a CONTINUE that was sent comes from the stages after it. `SupervisorImplements` is the
  refinement of `SolverAttempt`.
* **Native supervisor.** The invariant has layers. `Owned` ties what the supervisor knows of
  the child to what the kernel has, at every place; `Streamed` ties the log to the flags;
  `Paced` limits how long results of a poll are kept. From them `NoChildIsLeft` and
  `FinalStandsForTheAttempt`. `FailuresHaveCauses` (for `NoSpuriousFailure`) also needs what
  the readings of the cgroup and the poll have seen (`Seen`) and that, without a fault, host,
  child and poll keep to their script (`Blameless`); every check that can fail is then shown
  to find the deadline, the one race, or nothing (`Excused`). Among other things `Seen` knows
  that nothing of the query is written before the last reading with a running child, so a
  child that exits during one has not read its query, and no reading fails an attempt of a
  child that has. `NativeImplements` is the refinement of `SolverAttempt`.
* **Handshake.** `TypeOK`, `ArmedInsideHostWindow`, `ArmAgreement` and
  `DeadlineOnlyTightens` follow from `HandshakeSafe`. The strengthening relates frames to
  machines: a READY with the fresh nonce carries the one time it was made at, an ARM with
  the fresh nonce carries the one offer, and the offer keeps the distance to the host's
  deadline that the drift allowed since READY needs.
* **Store.** `ToldIsKept`, `DestinationStaysAbsent` and the type invariant follow from `IInv`,
  for any number of publishers, deaths and losses of power. It says what a publisher knows at
  each step (`Knows`): that it holds the lock, that its staging tree is there, that the
  destination is still absent before the rename and on the medium before the caller is told;
  and that a published slot was complete and synced (`SlotsAreSynced`). As all others are
  idle while one works, each operation has a lemma that looks at its own publisher only.
  For the attempts (`InventorySafety`) the invariant `Inventory` adds that the ordinals are
  those below their number, that only the last attempt may have an entry that is not on the
  medium, and that a publisher's ordinal is still the next one when it renames. A loss of
  power then takes the last attempt or none, which is why the log has no gaps.
  `StoreImplementsLog` maps the inventory to the sequence of contents by ordinal; that no
  ordinal is missing is a counting argument (`FullOrdinals`), and a step extends the sequence,
  tells of a prefix, or loses an untold end (`LogStep`).
* **Builder.** `SignalsArePinned` needs only that whoever is about to signal found the leader
  unreaped (`PinnedInv`). `ManifestStandsForRecords` needs that the group is empty from the
  descendant check on and that an empty group with a dead leader cannot move (`ManifestInv`).
* **Acquisition.** The invariants build on one another: where control can be and what was
  counted (`ControlInv`), how many exceptions were raised and which of them was noted
  (`ToldInv`, for `FirstFailureIsTold`), that late bytes are still in the write step
  and cannot leave it (`LateInv`, for `MatchedInTime`), what a file holds at each step
  (`TransferInv`, for `CountedFilesAreWhole`), and that journal and network differ by the one
  request that is about to go out (`RequestInv`, for `RequestsAreJournaledOnce`).

Only model-checked: `AttemptSettles`, `SupervisorExits` and `BuildEnds`. They are liveness
properties under fairness, which the prover does not treat.

### What the native supervisor's model says beyond its properties

* A poll that sees the listener of a child hung up, while the child is not reapable yet, fails
  an attempt that nobody spoilt with `ListenerLost`. `NoSpuriousFailure` names this race in its
  formula (`SeenHalfwayOut`) and allows no other; it does occur in the run. Whether a kernel
  shows such a child is outside the repository, and the design accepts the failure: the loss
  of the listener of a running child fails, and a listener lost together with a real exit
  does not (`docs/query/solver-bootstrap-native-supervisor.md:38`).
* The reading repeated for a child that exits during a capture cannot save an attempt: the
  only capture with a running child comes before the query is written, the query is never
  empty (`bootstrap_start.rs:43`), and a child reaped before the whole query was written
  fails the attempt anyway. It decides which error is reported.
* A host must keep the control connection open until the supervisor exits, not only until
  it has read the final frame (`supervisor.rs:370`).

### What the acquisition's model says beyond its properties

* The first failure of an item is not always the one that the result tells. Its handler first
  disarms the timer and looks the error up (`fetch-cvc5-c1-inputs.py:709-716`) before it
  notes it in `result["failure"]` (717); a tick or a SIGTERM in between leaves the handler,
  and the outer one (782-787), which finds no failure noted, tells the later exception alone.
  `FirstFailureIsTold` says that this is the only way, and that even then a whole result names
  a failure (unless the outer handler is struck as well, and its exception ends the call) and
  no call that met an exception succeeds.

### What the controller's model says beyond its properties

* `DeadlineEndsForwardProtocol` needs a positive wall clock: with none the first event would
  be late already, while the creation is out. The source has a constant, 6000 ms.
* A fact beyond the budget is dropped but leaves `exhausted`, and a cut stream always shows in
  its fact or in that flag (`Cut`), so the budget never hides that an attempt failed.

## Not modelled

* The bootstrap wire and the Linux channel's init process: planned, see below.
* The portable path of the store: it exists for other hosts' tests; its rename is not exclusive
  and its safety rests on the lock, which `DestinationStaysAbsent` is about. Reading a slot
  changes nothing; what verification compares is data.
* The first call of the acquisition, `fetch()`: it has one deadline per item and keeps the last
  failure instead of the first (`fetch-cvc5-c1-inputs.py:337-338`); the continuations replaced it.
* Axiom IR, the digest, the contracts, the other scripts: pure algorithms over whole documents,
  which have no steps to interleave and inputs beyond a model checker's reach. The scripts that
  generate and check documents are most of the repository's lines.

## Plan

In the order of importance:

1. `ChannelInit`: the reaping init under two budgets.
2. `BootstrapWire`: encoder and decoder automata per direction composed through a byte
   pipe; the decoder accepts exactly what an unpoisoned encoder produces.
3. `CheckerSpawn`: watching a checker process.

With `BootstrapWire` modelled, its theorem is that what an unpoisoned encoder produces the decoder
accepts; the loops of `ChannelInit` invite a proof that no signal reaches a number that is not
its own.
