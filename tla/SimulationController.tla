------------------------ MODULE SimulationController ------------------------
(***************************************************************************)
(* The one-shot controller of solver-diagnostic-host (controller.rs): it   *)
(* turns the events a container host reports into control intents, records *)
(* what failed, and is consumed by finish(), which publishes an            *)
(* observation record (observation.rs) or an error.                        *)
(*                                                                         *)
(* advance() is a pipeline over the controller's state: the handler of the *)
(* event, then the deadline, then the suppression of forward intents, then *)
(* the diagnostic budget.  Each stage is an operator from controller state *)
(* to controller state, and each kind of event is one action.              *)
(***************************************************************************)
EXTENDS Integers, FiniteSets

CONSTANTS
  WallClock,        \* plan.process_limits().wall_clock_ms, in clock units
  MaxTime,          \* bound on the clock the model explores
  StreamLimit,      \* captured bytes of stdout and of stderr, in units
  DiagnosticLimit,  \* CONTROL_DIAGNOSTIC_LIMIT, in units of one rejection record
  DiagnosticSizes,  \* sizes of the diagnostics that come with an event
  FailureFacts      \* limits.failure_facts

ASSUME ControllerAssumption ==
  /\ WallClock \in Nat \ {0} /\ MaxTime \in Nat   \* PROCESS_LIMITS.wall_clock_ms is 6000
  /\ StreamLimit \in Nat \ {0}
  /\ DiagnosticLimit \in Nat \ {0}
  /\ DiagnosticSizes \subseteq Nat
  /\ FailureFacts \in Nat \ {0}

VARIABLES
  ctl,     \* struct SimulationController
  issued,  \* how often each intent left the controller (saturating)
  record   \* what finish() returned

vars == <<ctl, issued, record>>

Phases == {"Create", "Attach", "Start", "Stdin", "StdinEof", "Running", "Inspect",
           "Drain", "Terminate", "EmptyTree", "Cleanup", "Finalizable"}
Stages == {"create", "attach", "start", "stdin", "capture", "inspect", "terminate",
           "cleanup", "publish"}
Intents == {"Create", "AttachSeparatedStreams", "Start", "SendExactStdin", "CloseStdin",
            "Wait", "Inspect", "TerminateTree", "ConfirmEmptyTree", "Cleanup"}
Operations == {"Create", "Attach", "Start", "Stdin", "Wait", "Inspect", "Terminate",
               "EmptyTree", "Cleanup"}
Kinds == {"Deadline", "Memory", "StdoutLimit", "StderrLimit", "Transport", "Control",
          "Interrupted", "Cleanup", "MissingExit", "InvalidSequence"}
Exits == {"Success", "Error", "Unavailable"}
Streams == {"stdout", "stderr"}
Times == 0 .. MaxTime
MaxIssued == 3

Facts == [kind : Kinds, stage : Stages, at : Times]
Captures == [bytes : 0 .. StreamLimit, complete : BOOLEAN, exceeded : BOOLEAN]

Controllers ==
  [phase : Phases, last : Times, started : BOOLEAN, failed : BOOLEAN,
   exit : Exits \cup {"None"}, cleanup : {"Unknown", "Failed", "ConfirmedEmpty"},
   streams : [Streams -> Captures], diagnostics : 0 .. DiagnosticLimit,
   overflow : BOOLEAN, failures : SUBSET Facts, exhausted : BOOLEAN,
   actions : SUBSET Intents]

Records == {"None", "Response", "Failure", "ResourceLimit", "InvalidInput"}

TypeOK ==
  /\ ctl \in Controllers
  /\ issued \in [Intents -> 0 .. MaxIssued]
  /\ record \in Records

-----------------------------------------------------------------------------
(* The controller's private helpers.                                       *)

Stage(p) ==
  CASE p = "Create" -> "create"
    [] p = "Attach" -> "attach"
    [] p = "Start" -> "start"
    [] p \in {"Stdin", "StdinEof"} -> "stdin"
    [] p \in {"Running", "Drain"} -> "capture"
    [] p = "Inspect" -> "inspect"
    [] p = "Terminate" -> "terminate"
    [] p \in {"EmptyTree", "Cleanup"} -> "cleanup"
    [] p = "Finalizable" -> "publish"

ExpectedOperation(p) ==
  CASE p = "Create" -> "Create"
    [] p = "Attach" -> "Attach"
    [] p = "Start" -> "Start"
    [] p \in {"Stdin", "StdinEof"} -> "Stdin"
    [] p \in {"Running", "Drain"} -> "Wait"
    [] p = "Inspect" -> "Inspect"
    [] p = "Terminate" -> "Terminate"
    [] p = "EmptyTree" -> "EmptyTree"
    [] p = "Cleanup" -> "Cleanup"
    [] p = "Finalizable" -> "None"

HasFact(s, kind) == \E f \in s.failures : f.kind = kind

\* Mutant: the budget is compared after one fact too many.
FactOverBudget(s, kind) ==
  LET f == [kind |-> kind, stage |-> Stage(s.phase), at |-> s.last]
  IN  IF f \in s.failures THEN s
      ELSE IF Cardinality(s.failures) > FailureFacts
           THEN [s EXCEPT !.exhausted = TRUE]
           ELSE [s EXCEPT !.failures = @ \cup {f}]

\* A repeated fact is kept once; a new one beyond the budget is lost and said so.
Fact(s, kind) ==
  LET f == [kind |-> kind, stage |-> Stage(s.phase), at |-> s.last]
  IN  IF f \in s.failures THEN s
      ELSE IF Cardinality(s.failures) >= FailureFacts
           THEN [s EXCEPT !.exhausted = TRUE]
           ELSE [s EXCEPT !.failures = @ \cup {f}]

\* Mutant: the record is appended whole.
DiagnosticUncut(s, size) ==
  [s EXCEPT !.diagnostics = @ + size, !.overflow = @ \/ s.diagnostics + size > DiagnosticLimit]

Diagnostic(s, size) ==
  IF s.diagnostics + size > DiagnosticLimit
  THEN [s EXCEPT !.diagnostics = DiagnosticLimit, !.overflow = TRUE]
  ELSE [s EXCEPT !.diagnostics = @ + size]

Intend(s, phase, intent) == [s EXCEPT !.phase = phase, !.actions = @ \cup {intent}]

CleanupTail == {"Terminate", "EmptyTree", "Cleanup", "Finalizable"}

\* Mutant: an inspection that follows a termination is stopped again.
StopAgain(s) ==
  IF s.phase \in CleanupTail THEN [s EXCEPT !.failed = TRUE]
  ELSE [Intend(s, "Terminate", "TerminateTree") EXCEPT !.failed = TRUE]

Stop(s) ==
  IF s.phase \in CleanupTail \/ (s.failed /\ s.phase = "Inspect")
  THEN [s EXCEPT !.failed = TRUE]
  ELSE [Intend(s, "Terminate", "TerminateTree") EXCEPT !.failed = TRUE]

\* The rejection's own diagnostic record is the unit of the diagnostic budget.
Reject(s) == Stop(Diagnostic(Fact(s, "InvalidSequence"), 1))

CaptureReady(s) == \A k \in Streams : s.streams[k].complete

AllowCapture(s) ==
  ~s.failed /\ s.phase \in {"Stdin", "StdinEof", "Running", "Inspect", "Drain"}

-----------------------------------------------------------------------------
(* Captured streams: SeparatedStreams::push and ::eof with the controller's *)
(* treatment of their errors.                                              *)

LimitKind(k) == IF k = "stdout" THEN "StdoutLimit" ELSE "StderrLimit"

Closed(s, k) == s.streams[k].complete \/ s.streams[k].exceeded

CaptureError(s) == Diagnostic(Fact(s, "Transport"), 1)

\* Mutant: the stream is cut without a limit fact.
PushSilently(s, k, n) ==
  IF n = 0 THEN s
  ELSE IF Closed(s, k) THEN CaptureError(s)
  ELSE IF s.streams[k].bytes + n > StreamLimit
       THEN [s EXCEPT !.streams[k].bytes = StreamLimit, !.streams[k].exceeded = TRUE]
       ELSE [s EXCEPT !.streams[k].bytes = @ + n]

Push(s, k, n) ==
  IF n = 0 THEN s
  ELSE IF Closed(s, k) THEN CaptureError(s)
  ELSE IF s.streams[k].bytes + n > StreamLimit
       THEN Fact([s EXCEPT !.streams[k].bytes = StreamLimit,
                           !.streams[k].exceeded = TRUE], LimitKind(k))
       ELSE [s EXCEPT !.streams[k].bytes = @ + n]

Eof(s, k, close) ==
  IF ~close THEN s
  ELSE IF Closed(s, k) THEN CaptureError(s)
  ELSE [s EXCEPT !.streams[k].complete = TRUE]

-----------------------------------------------------------------------------
(* What advance() does after every event it accepted for handling.          *)

\* Mutant: the deadline itself still counts as in time.
DeadlineLate(s) ==
  IF s.last > WallClock /\ ~HasFact(s, "Deadline") THEN Stop(Fact(s, "Deadline")) ELSE s

Deadline(s) ==
  IF s.last >= WallClock /\ ~HasFact(s, "Deadline") THEN Stop(Fact(s, "Deadline")) ELSE s

\* Mutants: nothing is suppressed; only the kill survives; the inspection does not.
SuppressNothing(s) == s
SuppressTail(s) ==
  IF s.last < WallClock THEN s ELSE [s EXCEPT !.actions = @ \cap {"TerminateTree", "Inspect"}]
SuppressInspect(s) ==
  IF s.last < WallClock THEN s
  ELSE [s EXCEPT !.actions = @ \cap {"TerminateTree", "ConfirmEmptyTree", "Cleanup"}]

\* Past the deadline only termination and the cleanup tail leave the controller.
Suppress(s) ==
  IF s.last < WallClock THEN s
  ELSE [s EXCEPT !.actions =
          {a \in s.actions : \/ a \in {"TerminateTree", "ConfirmEmptyTree", "Cleanup"}
                             \/ a = "Inspect" /\ "TerminateTree" \notin s.actions}]

DiagnosticBudget(s) ==
  IF s.overflow /\ ~HasFact(s, "Control") THEN Stop(Fact(s, "Control")) ELSE s

Conclude(s) == DiagnosticBudget(Suppress(Deadline(s)))

-----------------------------------------------------------------------------
(* The handlers: what each kind of event does to the controller.            *)

Reply(s, expected, phase, intent) ==
  IF s.phase = expected THEN Intend(s, phase, intent) ELSE Reject(s)

OnCreated(s) == Reply(s, "Create", "Attach", "AttachSeparatedStreams")
OnAttached(s) == Reply(s, "Attach", "Start", "Start")
OnStarted(s) ==
  IF s.phase = "Start" THEN Intend([s EXCEPT !.started = TRUE], "Stdin", "SendExactStdin")
  ELSE Reject(s)
OnStdinWritten(s, exact) ==
  IF exact THEN Reply(s, "Stdin", "StdinEof", "CloseStdin") ELSE Reject(s)
OnStdinClosed(s) == Reply(s, "StdinEof", "Running", "Wait")

OnOutput(s, out, err) ==
  LET t == Push(Push(s, "stdout", out), "stderr", err)
  IN  IF ~AllowCapture(s) THEN Reject(s)
      ELSE IF t.failures # {} THEN Stop(t) ELSE t

OnStreamsClosed(s, out, err) ==
  LET t == Eof(Eof(s, "stdout", out), "stderr", err)
  IN  IF ~(AllowCapture(s) /\ (out \/ err)) THEN Reject(s)
      ELSE IF t.failures # {} THEN Stop(t)
      ELSE IF t.phase = "Drain" /\ CaptureReady(t)
           THEN Intend(t, "EmptyTree", "ConfirmEmptyTree")
           ELSE t

OnExit(s, x) ==
  LET t == [s EXCEPT !.exit = x]
  IN  IF /\ s.started /\ s.exit = "None"
         /\ s.phase = "Running" \/ (s.failed /\ s.phase \in {"Terminate", "Inspect"})
      THEN IF s.phase = "Running" THEN Intend(t, "Inspect", "Inspect") ELSE t
      ELSE Reject(s)

OnInspected(s) ==
  IF s.phase # "Inspect" THEN Reject(s)
  ELSE IF s.failed \/ CaptureReady(s) THEN Intend(s, "EmptyTree", "ConfirmEmptyTree")
  ELSE [s EXCEPT !.phase = "Drain"]

OnOomKilled(s) ==
  IF s.started /\ s.phase # "Finalizable" /\ ~HasFact(s, "Memory")
  THEN Stop(Fact(s, "Memory")) ELSE Reject(s)

\* Interrupted and TransportFailed.
OnBroken(s, kind, size) ==
  IF s.phase # "Finalizable" THEN Stop(Diagnostic(Fact(s, kind), size)) ELSE Reject(s)

\* Mutant: the failed cleanup is not recorded as a fact.
FinalizeSilently(s, cleanup) ==
  [s EXCEPT !.cleanup = cleanup, !.phase = "Finalizable", !.failed = TRUE]

Finalize(s, cleanup) ==
  [Fact([s EXCEPT !.cleanup = cleanup], "Cleanup") EXCEPT !.phase = "Finalizable",
                                                          !.failed = TRUE]

OnControlFailed(s, op, size) ==
  LET t == [Diagnostic(Fact(s, "Control"), size) EXCEPT !.failed = TRUE]
  IN  IF ExpectedOperation(s.phase) # op THEN Reject(s)
      ELSE CASE s.phase = "Terminate" -> Intend(t, "Inspect", "Inspect")
             [] s.phase = "Inspect" /\ ~s.failed -> Intend(t, "Terminate", "TerminateTree")
             [] s.phase = "Inspect" /\ s.failed -> Intend(t, "EmptyTree", "ConfirmEmptyTree")
             [] s.phase = "EmptyTree" -> Finalize(t, "Unknown")
             [] s.phase = "Cleanup" -> Finalize(t, "Failed")
             [] OTHER -> Stop(t)

OnTreeTerminated(s) == Reply(s, "Terminate", "Inspect", "Inspect")
OnTreeEmpty(s) == Reply(s, "EmptyTree", "Cleanup", "Cleanup")

\* Mutant: a container whose tree still has processes is cleaned up nevertheless.
OnTreeNotEmptyCleans(s) == Reply(s, "EmptyTree", "Cleanup", "Cleanup")

OnTreeNotEmpty(s) == IF s.phase = "EmptyTree" THEN Finalize(s, "Failed") ELSE Reject(s)
OnCleaned(s) ==
  IF s.phase = "Cleanup" THEN [s EXCEPT !.cleanup = "ConfirmedEmpty", !.phase = "Finalizable"]
  ELSE Reject(s)
OnCleanupFailed(s, size) ==
  IF s.phase = "Cleanup" THEN Diagnostic(Finalize(s, "Failed"), size) ELSE Reject(s)

-----------------------------------------------------------------------------
(* advance(): one action per kind of event.  `Arrive` is the state in which *)
(* an event of this attempt, not older than the last one, is handled.       *)

Arrive(at) == [ctl EXCEPT !.last = at]

\* advance() returns: the batch of intents leaves with the update.
Leaves(s) ==
  /\ record = "None"
  /\ ctl' = [s EXCEPT !.actions = {}]
  /\ issued' = [a \in Intents |-> IF a \in s.actions /\ issued[a] < MaxIssued
                                 THEN issued[a] + 1 ELSE issued[a]]
  /\ UNCHANGED record

\* An event that names another attempt, or is older than the last one, is
\* rejected before the deadline and the diagnostic budget are looked at.
ForeignToken == Leaves(Reject(ctl))
ClockRollback == ctl.last > 0 /\ Leaves(Reject(ctl))

Created(at) == Leaves(Conclude(OnCreated(Arrive(at))))
Attached(at) == Leaves(Conclude(OnAttached(Arrive(at))))
Started(at) == Leaves(Conclude(OnStarted(Arrive(at))))
StdinWritten(at, exact) == Leaves(Conclude(OnStdinWritten(Arrive(at), exact)))
StdinClosed(at) == Leaves(Conclude(OnStdinClosed(Arrive(at))))
Output(at, out, err) == Leaves(Conclude(OnOutput(Arrive(at), out, err)))
StreamsClosed(at, out, err) == Leaves(Conclude(OnStreamsClosed(Arrive(at), out, err)))
Exit(at, x) == Leaves(Conclude(OnExit(Arrive(at), x)))
Inspected(at) == Leaves(Conclude(OnInspected(Arrive(at))))
OomKilled(at) == Leaves(Conclude(OnOomKilled(Arrive(at))))
Interrupted(at, size) == Leaves(Conclude(OnBroken(Arrive(at), "Interrupted", size)))
TransportFailed(at, size) == Leaves(Conclude(OnBroken(Arrive(at), "Transport", size)))
ControlFailed(at, op, size) == Leaves(Conclude(OnControlFailed(Arrive(at), op, size)))
DeadlineTick(at) == Leaves(Conclude(Arrive(at)))
TreeTerminated(at) == Leaves(Conclude(OnTreeTerminated(Arrive(at))))
TreeEmpty(at) == Leaves(Conclude(OnTreeEmpty(Arrive(at))))
TreeNotEmpty(at) == Leaves(Conclude(OnTreeNotEmpty(Arrive(at))))
Cleaned(at) == Leaves(Conclude(OnCleaned(Arrive(at))))
CleanupFailed(at, size) == Leaves(Conclude(OnCleanupFailed(Arrive(at), size)))

-----------------------------------------------------------------------------
(* finish(): the facts of an unfinished tail, then the observation record.  *)

FactIf(s, condition, kind) == IF condition THEN Fact(s, kind) ELSE s

NoExit(s) == s.exit \in {"None", "Unavailable"}

Closing(s, at) ==
  LET timed == IF at < s.last THEN Fact(s, "InvalidSequence") ELSE [s EXCEPT !.last = at]
      late == [Deadline(timed) EXCEPT !.actions = {}]
      tail == FactIf(late, late.phase # "Finalizable", "InvalidSequence")
      exit == FactIf(tail, NoExit(tail), "MissingExit")
  IN  FactIf(exit, exit.cleanup # "ConfirmedEmpty", "Cleanup")

\* SimulationObservation::new accepts the record.
Valid(s) ==
  /\ \A f \in s.failures : f.at <= s.last
  /\ \A f \in s.failures : f.kind = "Deadline" => f.at >= WallClock
  /\ s.last >= WallClock => HasFact(s, "Deadline")
  /\ \A k \in Streams : s.streams[k].exceeded =>
       /\ HasFact(s, LimitKind(k))
       /\ ~s.streams[k].complete /\ s.streams[k].bytes = StreamLimit
  /\ ~s.started => NoExit(s) /\ \A k \in Streams : s.streams[k].bytes = 0
  /\ s.cleanup # "ConfirmedEmpty" => HasFact(s, "Cleanup")
  /\ NoExit(s) <=> HasFact(s, "MissingExit")
  /\ ~s.started => ~HasFact(s, "Memory")

OverflowExplained(s) == s.overflow => HasFact(s, "Control")

\* Mutant: a record with failures is adapted too.
AcceptedWithFailures(s) ==
  s.started /\ s.exit = "Success" /\ s.cleanup = "ConfirmedEmpty" /\ CaptureReady(s)

\* simulation_response_input adapts the record to a solver response.
Accepted(s) ==
  /\ s.started /\ s.exit = "Success" /\ s.cleanup = "ConfirmedEmpty"
  /\ s.failures = {} /\ CaptureReady(s) /\ ~s.overflow
  /\ \A k \in Streams : ~s.streams[k].exceeded

Verdict(s) ==
  IF s.exhausted THEN "ResourceLimit"
  ELSE IF ~(Valid(s) /\ OverflowExplained(s)) THEN "InvalidInput"
  ELSE IF Accepted(s) THEN "Response" ELSE "Failure"

Finish(at) ==
  /\ record = "None"
  /\ ctl' = Closing(ctl, at)
  /\ record' = Verdict(ctl')
  /\ UNCHANGED issued

-----------------------------------------------------------------------------

\* SimulationController::new checks its budgets, keeps the container's name as the
\* first diagnostic record and returns the Create intent.
Init ==
  /\ ctl = [phase |-> "Create", last |-> 0, started |-> FALSE, failed |-> FALSE,
            exit |-> "None", cleanup |-> "Unknown",
            streams |-> [k \in Streams |->
                          [bytes |-> 0, complete |-> FALSE, exceeded |-> FALSE]],
            diagnostics |-> 1, overflow |-> FALSE, failures |-> {},
            exhausted |-> FALSE, actions |-> {}]
  /\ issued = [a \in Intents |-> IF a = "Create" THEN 1 ELSE 0]
  /\ record = "None"

\* The host answers an intent of the controller.
Answered(at) ==
  \/ Created(at) \/ Attached(at) \/ Started(at)
  \/ \E exact \in BOOLEAN : StdinWritten(at, exact)
  \/ StdinClosed(at)
  \/ \E x \in Exits : Exit(at, x)
  \/ Inspected(at) \/ TreeTerminated(at) \/ TreeEmpty(at) \/ TreeNotEmpty(at) \/ Cleaned(at)
  \/ \E size \in DiagnosticSizes : CleanupFailed(at, size)
  \/ \E op \in Operations, size \in DiagnosticSizes : ControlFailed(at, op, size)

\* What nobody asked for.
Spontaneous(at) ==
  \/ \E out, err \in 0 .. StreamLimit + 1 : Output(at, out, err)
  \/ \E out, err \in BOOLEAN : StreamsClosed(at, out, err)
  \/ OomKilled(at)
  \/ \E size \in DiagnosticSizes : Interrupted(at, size)
  \/ \E size \in DiagnosticSizes : TransportFailed(at, size)
  \/ DeadlineTick(at)

Advance ==
  \/ ForeignToken \/ ClockRollback
  \/ \E at \in ctl.last .. MaxTime : Answered(at) \/ Spontaneous(at)

Next == Advance \/ \E at \in Times : Finish(at)

Spec == Init /\ [][Next]_vars

-----------------------------------------------------------------------------
(* Properties.                                                              *)

Forward == {"Create", "AttachSeparatedStreams", "Start", "SendExactStdin", "CloseStdin", "Wait"}

\* The controller is one-shot: whatever the host reports, in whatever order, each
\* intent leaves it at most once (a kill of the tree above all), and the container is
\* inspected at most twice, once before and once after a termination.
IntentsAreOneShot ==
  \A a \in Intents : issued[a] <= IF a = "Inspect" THEN 2 ELSE 1

\* Once anything failed, or the deadline passed, no batch of intents drives the
\* container forward any more, the batch of the failing event itself included.
NoForwardIntentAfterFailure ==
  [][ctl'.failed \/ ctl'.last >= WallClock =>
       \A a \in Forward : issued'[a] = issued[a]]_vars

\* The phase a failed attempt is in belongs to the cleanup tail, and a failed
\* attempt always has the evidence of its failure.
FailureHasEvidence ==
  /\ ctl.failed => ctl.failures # {}
  /\ ctl.failures # {} /\ record = "None" => ctl.failed
  /\ ctl.failed => ctl.phase \in CleanupTail \cup {"Inspect"}

\* A record is adapted to a solver response only when the whole protocol ran exactly
\* once, in time, with no termination: a late or lost step never ends in a response.
ResponseMeansWholeProtocol ==
  record = "Response" =>
    /\ \A a \in Intents : issued[a] = IF a = "TerminateTree" THEN 0 ELSE 1
    /\ ctl.last < WallClock
    /\ ctl.phase = "Finalizable"

\* The controller keeps every invariant SimulationObservation::new validates, after
\* any history: of all its checks only the diagnostic overflow can refuse a record.
OnlyOverflowIsUnpublishable ==
  record = "InvalidInput" => Valid(ctl) /\ ctl.overflow

\* The fact budget is respected, and a lost fact always ends in ResourceLimit.
FactBudget ==
  /\ Cardinality(ctl.failures) <= FailureFacts
  /\ ctl.exhausted => Cardinality(ctl.failures) = FailureFacts
  /\ record # "None" => (ctl.exhausted <=> record = "ResourceLimit")

\* finish() "only publishes a failed record for an unfinished tail" (controller.rs:563):
\* it never refuses the record as invalid.
FinishAlwaysPublishes == record # "InvalidInput"

\* The controller is a solver attempt: it starts the container once, never after a
\* failure, and a response comes from a started, cleaned up and failure-free attempt.
Attempt == INSTANCE SolverAttempt WITH
  started <- ctl.started, failed <- ctl.failed, gone <- ctl.cleanup = "ConfirmedEmpty",
  verdict <- CASE record = "None" -> "none" [] record = "Response" -> "response"
               [] OTHER -> "refused"

\* Every step of it starts, fails, vanishes or is judged as SolverAttempt allows.
ImplementsAttempt == Attempt!AttemptSpec
=============================================================================
