--------------------- MODULE SimulationControllerProofs ---------------------
(***************************************************************************)
(* Safety of the one-shot controller for every clock bound, stream limit,  *)
(* diagnostic limit and fact budget.  advance() is a pipeline of operators *)
(* on controller states, so the invariant is a predicate on controller     *)
(* states too, and every stage of the pipeline has its own lemma.          *)
(***************************************************************************)
EXTENDS SimulationController, FiniteSetTheorems, TLAPS

\* The intents that have not been issued when an attempt is in phase p.
Future(p) ==
  CASE p = "Create" -> Intents \ {"Create"}
    [] p = "Attach" -> Intents \ {"Create", "AttachSeparatedStreams"}
    [] p = "Start" -> Intents \ {"Create", "AttachSeparatedStreams", "Start"}
    [] p = "Stdin" -> {"CloseStdin", "Wait", "Inspect", "TerminateTree", "ConfirmEmptyTree", "Cleanup"}
    [] p = "StdinEof" -> {"Wait", "Inspect", "TerminateTree", "ConfirmEmptyTree", "Cleanup"}
    [] p = "Running" -> {"Inspect", "TerminateTree", "ConfirmEmptyTree", "Cleanup"}
    [] p = "Drain" -> {"TerminateTree", "ConfirmEmptyTree", "Cleanup"}
    [] p \in {"Inspect", "Terminate"} -> {"ConfirmEmptyTree", "Cleanup"}
    [] p = "EmptyTree" -> {"Cleanup"}
    [] p \in {"Cleanup", "Finalizable"} -> {}

\* How often an intent has left, the current batch of s included.
Total(s, a) == issued[a] + (IF a \in s.actions THEN 1 ELSE 0)

OneShot(s) ==
  /\ \A a \in Intents \ {"Inspect"} : Total(s, a) <= 1
  /\ Total(s, "Inspect") <= 2
  /\ s.phase = "Terminate" => Total(s, "Inspect") <= 1
  /\ ~s.failed => Total(s, "TerminateTree") = 0 /\ Total(s, "Inspect") <= 1
  /\ \A a \in Future(s.phase) : Total(s, a) = 0

\* What every stage of the pipeline preserves.
Core(s) ==
  /\ s \in Controllers
  /\ s.failed => s.phase \in CleanupTail \cup {"Inspect"}
  /\ s.phase = "Terminate" => s.failed
  /\ s.failed => s.failures # {}
  /\ OneShot(s)

\* What holds again when a handler returns.
Evident(s) == (s.failures # {} => s.failed) /\ (s.overflow => s.failed)

Quiet(s) == s.failed => s.actions \cap Forward = {}

IssuedOK == issued \in [Intents -> 0 .. MaxIssued]

-----------------------------------------------------------------------------

\* A recorded fact changes the list of facts only, and leaves it non-empty.
LEMMA FactLemma ==
  ASSUME NEW s \in Controllers, NEW k \in Kinds
  PROVE  /\ Fact(s, k) \in Controllers
         /\ Fact(s, k).failures # {}
         /\ Fact(s, k).phase = s.phase
         /\ Fact(s, k).failed = s.failed
         /\ Fact(s, k).actions = s.actions
         /\ Fact(s, k).overflow = s.overflow
         /\ Fact(s, k).last = s.last
         /\ Fact(s, k).streams = s.streams
         /\ Fact(s, k).diagnostics = s.diagnostics
<1> DEFINE f == [kind |-> k, stage |-> Stage(s.phase), at |-> s.last]
<1>1. Stage(s.phase) \in Stages
  BY DEF Stage, Stages, Controllers, Phases
<1>2. f \in Facts
  BY <1>1 DEF Facts, Controllers
<1>3. CASE f \in s.failures
  BY <1>3 DEF Fact
<1>4. CASE f \notin s.failures /\ Cardinality(s.failures) >= FailureFacts
  <2>1. s.failures # {}
    BY <1>4, FS_EmptySet, ControllerAssumption
  <2>2. Fact(s, k) = [s EXCEPT !.exhausted = TRUE]
    BY <1>4 DEF Fact
  <2>. QED  BY <2>1, <2>2 DEF Controllers
<1>5. CASE f \notin s.failures /\ ~(Cardinality(s.failures) >= FailureFacts)
  <2>1. Fact(s, k) = [s EXCEPT !.failures = @ \cup {f}]
    BY <1>5 DEF Fact
  <2>. QED  BY <1>2, <2>1 DEF Controllers
<1>. QED  BY <1>3, <1>4, <1>5

\* A diagnostic record touches the diagnostic buffer only.
LEMMA DiagnosticLemma ==
  ASSUME NEW s \in Controllers, NEW n \in Nat
  PROVE  /\ Diagnostic(s, n) \in Controllers
         /\ Diagnostic(s, n).failures = s.failures
         /\ Diagnostic(s, n).phase = s.phase
         /\ Diagnostic(s, n).failed = s.failed
         /\ Diagnostic(s, n).actions = s.actions
         /\ Diagnostic(s, n).last = s.last
         /\ Diagnostic(s, n).streams = s.streams
<1>1. s.diagnostics \in 0 .. DiagnosticLimit /\ DiagnosticLimit \in 0 .. DiagnosticLimit
  BY ControllerAssumption DEF Controllers
<1>2. CASE s.diagnostics + n > DiagnosticLimit
  <2>1. Diagnostic(s, n) = [s EXCEPT !.diagnostics = DiagnosticLimit, !.overflow = TRUE]
    BY <1>2 DEF Diagnostic
  <2>. QED  BY <1>1, <2>1 DEF Controllers
<1>3. CASE ~(s.diagnostics + n > DiagnosticLimit)
  <2>1. Diagnostic(s, n) = [s EXCEPT !.diagnostics = @ + n]
    BY <1>3 DEF Diagnostic
  <2>2. s.diagnostics + n \in 0 .. DiagnosticLimit
    BY <1>1, <1>3, ControllerAssumption
  <2>. QED  BY <2>1, <2>2 DEF Controllers
<1>. QED  BY <1>2, <1>3

\* Two states with the same phase, failure flag and batch agree on OneShot.
LEMMA OneShotFrame ==
  ASSUME NEW s, NEW t, OneShot(s),
         t.phase = s.phase, t.failed = s.failed, t.actions = s.actions
  PROVE  OneShot(t)
BY DEF OneShot, Total

\* stop() on a state that has its evidence ends in a failed cleanup tail.
LEMMA StopLemma ==
  ASSUME NEW s, IssuedOK, Core(s), s.failures # {}
  PROVE  /\ Core(Stop(s)) /\ Evident(Stop(s)) /\ Stop(s).failed
         /\ Stop(s).failures = s.failures /\ Stop(s).last = s.last
         /\ Stop(s).overflow = s.overflow
         /\ s.actions \cap Forward = {} => Quiet(Stop(s))
<1> DEFINE t == Stop(s)
<1>1. CASE s.phase \in CleanupTail \/ (s.failed /\ s.phase = "Inspect")
  <2>1. t = [s EXCEPT !.failed = TRUE]
    BY <1>1 DEF Stop
  <2>2. OneShot(t)
    BY <1>1, <2>1 DEF Core, OneShot, Total, Controllers
  <2>. QED  BY <1>1, <2>1, <2>2 DEF Core, Evident, Quiet, Controllers
<1>2. CASE ~(s.phase \in CleanupTail \/ (s.failed /\ s.phase = "Inspect"))
  <2>1. t = [s EXCEPT !.phase = "Terminate", !.actions = @ \cup {"TerminateTree"},
                      !.failed = TRUE]
    BY <1>2 DEF Stop, Intend, Core, Controllers
  <2>2. ~s.failed
    BY <1>2 DEF Core
  <2>3. t \in Controllers
    <3>1. "Terminate" \in Phases /\ s.actions \cup {"TerminateTree"} \in SUBSET Intents
      BY DEF Core, Controllers, Phases, Intents
    <3>2. s \in Controllers
      BY DEF Core
    <3>. QED  BY <2>1, <3>1, <3>2 DEF Controllers
  <2>4. Total(s, "TerminateTree") = 0 /\ Total(s, "Inspect") <= 1
    BY <2>2 DEF Core, OneShot
  <2>5. \A a \in Intents \ {"TerminateTree"} : Total(t, a) = Total(s, a)
    BY <2>1 DEF Total, Core, Controllers
  <2>6. Total(t, "TerminateTree") = 1
    BY <2>1, <2>4 DEF Total, IssuedOK, Core, Controllers, Intents
  <2>7. Total(s, "ConfirmEmptyTree") = 0 /\ Total(s, "Cleanup") = 0
    BY <1>2 DEF Core, OneShot, Controllers, Phases, CleanupTail, Future, Intents
  <2>8. t.phase = "Terminate" /\ t.failed
    BY <2>1 DEF Core, Controllers
  <2>9. OneShot(t)
    BY <2>4, <2>5, <2>6, <2>7, <2>8 DEF OneShot, Core, Future, Intents
  <2>. QED  BY <2>1, <2>3, <2>8, <2>9 DEF Core, Evident, Quiet, Controllers, CleanupTail, Forward
<1>. QED  BY <1>1, <1>2

\* Starting a handler: the clock moved, nothing else.
LEMMA ArriveLemma ==
  ASSUME IssuedOK, Core(ctl), Evident(ctl), ctl.actions = {}, NEW at \in Times
  PROVE  /\ Core(Arrive(at)) /\ Evident(Arrive(at)) /\ Arrive(at).actions = {}
         /\ Arrive(at).last = at
<1>1. Arrive(at) = [ctl EXCEPT !.last = at]
  BY DEF Arrive
<1>2. Arrive(at) \in Controllers
  BY <1>1 DEF Core, Controllers
<1>3. OneShot(Arrive(at))
  BY <1>1, OneShotFrame DEF Core, Controllers
<1>. QED  BY <1>1, <1>2, <1>3 DEF Core, Evident, Controllers

\* reject() and every handler of the form stop(diagnostic(fact)).
LEMMA FaultLemma ==
  ASSUME NEW s, IssuedOK, Core(s), Quiet(s), s.actions = {},
         NEW k \in Kinds, NEW n \in Nat
  PROVE  /\ Core(Stop(Diagnostic(Fact(s, k), n)))
         /\ Evident(Stop(Diagnostic(Fact(s, k), n)))
         /\ Quiet(Stop(Diagnostic(Fact(s, k), n)))
         /\ Stop(Diagnostic(Fact(s, k), n)).failed
<1> DEFINE t == Fact(s, k)  u == Diagnostic(t, n)
<1>1. s \in Controllers
  BY DEF Core
<1>2. /\ t \in Controllers /\ t.failures # {} /\ t.phase = s.phase
      /\ t.failed = s.failed /\ t.actions = s.actions
  BY <1>1, FactLemma
<1>3. /\ u \in Controllers /\ u.failures # {} /\ u.phase = s.phase
      /\ u.failed = s.failed /\ u.actions = s.actions
  BY <1>2, DiagnosticLemma
<1>4. OneShot(u)
  BY <1>3, OneShotFrame DEF Core
<1>5. Core(u)
  BY <1>3, <1>4 DEF Core
<1>6. u.actions \cap Forward = {}
  BY <1>3
<1>. HIDE DEF t, u
<1>7. Core(Stop(u)) /\ Evident(Stop(u)) /\ Quiet(Stop(u)) /\ Stop(u).failed
  BY <1>3, <1>5, <1>6, StopLemma
<1>. QED  BY <1>7 DEF t, u

\* A rejected event is evidence, and ends in a failed cleanup tail.
LEMMA RejectLemma ==
  ASSUME NEW s, IssuedOK, Core(s), Quiet(s), s.actions = {}
  PROVE  Core(Reject(s)) /\ Evident(Reject(s)) /\ Quiet(Reject(s)) /\ Reject(s).failed
<1>1. "InvalidSequence" \in Kinds /\ 1 \in Nat
  BY DEF Kinds
<1>. QED  BY <1>1, FaultLemma DEF Reject

\* A step of the forward protocol: the next intent has not left before, and a failed
\* attempt takes none of these steps towards a forward intent.
LEMMA IntendLemma ==
  ASSUME NEW s, IssuedOK, Core(s), Evident(s), s.actions = {},
         NEW p \in Phases, NEW i \in Intents,
         s.failed => p \in CleanupTail \cup {"Inspect"} /\ i \notin Forward,
         i # "TerminateTree", p # "Terminate",
         i \in Future(s.phase) \/ (i = "Inspect" /\ s.phase = "Terminate" /\ s.failed),
         Future(p) \subseteq Future(s.phase) \ {i}
  PROVE  Core(Intend(s, p, i)) /\ Evident(Intend(s, p, i)) /\ Quiet(Intend(s, p, i))
<1> DEFINE t == Intend(s, p, i)
<1>1. t = [s EXCEPT !.phase = p, !.actions = {i}]
  BY DEF Intend, Core, Controllers
<1>2. t \in Controllers
  <2>1. {i} \in SUBSET Intents /\ s \in Controllers
    BY DEF Core
  <2>. QED  BY <1>1, <2>1 DEF Controllers
<1>3. /\ t.phase = p /\ t.actions = {i} /\ t.failed = s.failed /\ t.failures = s.failures
      /\ t.overflow = s.overflow
  BY <1>1 DEF Core, Controllers
<1>4. \A a \in Intents \ {i} : Total(t, a) = Total(s, a)
  BY <1>3 DEF Total
<1>5. Total(t, i) = Total(s, i) + 1
  BY <1>3 DEF Total, IssuedOK
<1>6. \A a \in Intents : Total(s, a) \in Nat
  BY DEF Total, IssuedOK, MaxIssued
<1>7. OneShot(s) /\ Future(s.phase) \subseteq Intents
  BY DEF Core, Controllers, Phases, Future, Intents
<1>8. OneShot(t)
  <2>1. CASE i \in Future(s.phase)
    BY <1>3, <1>4, <1>5, <1>6, <1>7, <2>1 DEF OneShot, Intents
  <2>2. CASE i = "Inspect" /\ s.phase = "Terminate" /\ s.failed
    BY <1>3, <1>4, <1>5, <1>6, <1>7, <2>2 DEF OneShot, Intents
  <2>. QED  BY <2>1, <2>2
<1>. QED  BY <1>2, <1>3, <1>8 DEF Core, Evident, Quiet, CleanupTail, Forward

-----------------------------------------------------------------------------

\* What a handler is given and what it returns.
Ready(s) == Core(s) /\ Evident(s) /\ s.actions = {}
Handled(s) == Core(s) /\ Evident(s) /\ Quiet(s)

\* An event without a handler of its own leaves a handled state.
LEMMA ReadyIsHandled ==
  ASSUME NEW s, Ready(s)  PROVE Handled(s)
BY DEF Ready, Handled, Quiet

\* The handlers of an answer in the forward protocol or in the cleanup tail.
LEMMA ReplyLemma ==
  ASSUME NEW s, IssuedOK, Ready(s),
         NEW e \in Phases, NEW p \in Phases, NEW i \in Intents,
         <<e, p, i>> \in {<<"Create", "Attach", "AttachSeparatedStreams">>,
                         <<"Attach", "Start", "Start">>,
                         <<"Stdin", "StdinEof", "CloseStdin">>,
                         <<"StdinEof", "Running", "Wait">>,
                         <<"Terminate", "Inspect", "Inspect">>,
                         <<"EmptyTree", "Cleanup", "Cleanup">>}
  PROVE  Handled(Reply(s, e, p, i))
<1>1. CASE s.phase # e
  <2>1. Reply(s, e, p, i) = Reject(s)
    BY <1>1 DEF Reply
  <2>. QED  BY <2>1, ReadyIsHandled, RejectLemma DEF Ready, Handled
<1>2. CASE s.phase = e
  <2>1. Reply(s, e, p, i) = Intend(s, p, i)
    BY <1>2 DEF Reply
  <2>3. CASE s.phase # "Terminate"
    <3>1. /\ i \in Future(s.phase) /\ Future(p) \subseteq Future(s.phase) \ {i}
          /\ i # "TerminateTree" /\ p # "Terminate"
          /\ s.failed => p \in CleanupTail \cup {"Inspect"} /\ i \notin Forward
      BY <1>2, <2>3 DEF Future, Intents, Ready, Core, CleanupTail, Forward
    <3>. QED  BY <2>1, <3>1, IntendLemma DEF Ready, Handled
  <2>4. CASE s.phase = "Terminate"
    <3>1. p = "Inspect" /\ i = "Inspect"
      BY <1>2, <2>4
    <3>2. s.failed
      BY <2>4 DEF Ready, Core
    <3>3. /\ Future(p) \subseteq Future(s.phase) \ {i} /\ i \notin Forward
      BY <2>4, <3>1 DEF Future, Forward
    <3>. QED  BY <2>1, <2>4, <3>1, <3>2, <3>3, IntendLemma DEF Ready, Handled, CleanupTail
  <2>. QED  BY <2>3, <2>4
<1>. QED  BY <1>1, <1>2

\* What reject() returns may enter the pipeline.
LEMMA RejectHandled ==
  ASSUME NEW s, IssuedOK, Ready(s)  PROVE Handled(Reject(s))
BY ReadyIsHandled, RejectLemma DEF Ready, Handled

\* A fault that is recorded and stopped may enter the pipeline.
LEMMA FaultHandled ==
  ASSUME NEW s, IssuedOK, Ready(s), NEW k \in Kinds, NEW n \in Nat
  PROVE  Handled(Stop(Diagnostic(Fact(s, k), n)))
BY ReadyIsHandled, FaultLemma DEF Ready, Handled

\* Started: the solver runs, exactly one intent for stdin leaves.
LEMMA StartedLemma ==
  ASSUME NEW s, IssuedOK, Ready(s)  PROVE Handled(OnStarted(s))
<1>1. CASE s.phase # "Start"
  BY <1>1, RejectHandled DEF OnStarted
<1>2. CASE s.phase = "Start"
  <2> DEFINE t == [s EXCEPT !.started = TRUE]
  <2>1. /\ t \in Controllers /\ t.phase = s.phase /\ t.failed = s.failed
        /\ t.actions = s.actions /\ t.failures = s.failures /\ t.overflow = s.overflow
    BY DEF Ready, Core, Controllers
  <2>2. OneShot(t)
    BY <2>1, OneShotFrame DEF Ready, Core
  <2>3. Ready(t)
    BY <2>1, <2>2 DEF Ready, Core, Evident
  <2>4. /\ "SendExactStdin" \in Future(t.phase)
        /\ Future("Stdin") \subseteq Future(t.phase) \ {"SendExactStdin"}
        /\ ~t.failed /\ "Stdin" \in Phases /\ "SendExactStdin" \in Intents
    BY <1>2, <2>1 DEF Future, Intents, Phases, Ready, Core, CleanupTail
  <2> HIDE DEF t
  <2>5. Handled(Intend(t, "Stdin", "SendExactStdin"))
    BY <2>3, <2>4, IntendLemma DEF Ready, Handled
  <2>. QED  BY <1>2, <2>5 DEF OnStarted, t
<1>. QED  BY <1>1, <1>2

\* push() and eof() keep a state that may hold new evidence but has no new intents.
Captured(s, t) ==
  /\ Core(t) /\ t.actions = s.actions /\ t.phase = s.phase /\ t.failed = s.failed
  /\ t.overflow => s.overflow \/ t.failures # {}
  /\ s.failures # {} => t.failures # {}

\* An error of the captured streams is evidence.
LEMMA CaptureErrorLemma ==
  ASSUME NEW s, Core(s)  PROVE Captured(s, CaptureError(s))
<1> DEFINE t == Fact(s, "Transport")  u == Diagnostic(t, 1)
<1>1. "Transport" \in Kinds /\ 1 \in Nat /\ s \in Controllers
  BY DEF Kinds, Core
<1>2. /\ t \in Controllers /\ t.failures # {} /\ t.phase = s.phase
      /\ t.failed = s.failed /\ t.actions = s.actions
  BY <1>1, FactLemma
<1>3. /\ u \in Controllers /\ u.failures # {} /\ u.phase = s.phase
      /\ u.failed = s.failed /\ u.actions = s.actions
  BY <1>1, <1>2, DiagnosticLemma
<1>4. OneShot(u)
  BY <1>3, OneShotFrame DEF Core
<1>5. Captured(s, u)
  BY <1>3, <1>4 DEF Core, Captured
<1>. QED  BY <1>5 DEF CaptureError

\* A change of the captured streams alone disturbs nothing of Core.
LEMMA StreamsFrame ==
  ASSUME NEW s, Core(s), NEW f \in [Streams -> Captures]
  PROVE  /\ Captured(s, [s EXCEPT !.streams = f])
         /\ [s EXCEPT !.streams = f].last = s.last
<1> DEFINE t == [s EXCEPT !.streams = f]
<1>1. /\ t \in Controllers /\ t.phase = s.phase /\ t.failed = s.failed /\ t.last = s.last
      /\ t.actions = s.actions /\ t.failures = s.failures /\ t.overflow = s.overflow
  BY DEF Core, Controllers
<1>2. OneShot(t)
  BY <1>1, OneShotFrame DEF Core
<1>. QED  BY <1>1, <1>2 DEF Core, Captured

\* Pushing output keeps Core and touches neither phase, failure flag nor batch.
LEMMA PushLemma ==
  ASSUME NEW s, Core(s), NEW k \in Streams, NEW n \in Nat
  PROVE  Captured(s, Push(s, k, n))
<1>0. /\ s.streams \in [Streams -> Captures] /\ s.streams[k].bytes \in 0 .. StreamLimit
      /\ s.streams[k] \in Captures
  BY DEF Core, Controllers, Captures
<1>1. CASE n = 0
  BY <1>1 DEF Push, Captured
<1>2. CASE n # 0 /\ Closed(s, k)
  BY <1>2, CaptureErrorLemma DEF Push
<1>3. CASE n # 0 /\ ~Closed(s, k) /\ s.streams[k].bytes + n > StreamLimit
  <2> DEFINE f == [s.streams EXCEPT ![k].bytes = StreamLimit, ![k].exceeded = TRUE]
             t == [s EXCEPT !.streams = f]
  <2>1. f \in [Streams -> Captures]
    <3>1. StreamLimit \in 0 .. StreamLimit
      BY ControllerAssumption
    <3>2. f = [s.streams EXCEPT ![k] = [s.streams[k] EXCEPT !.bytes = StreamLimit,
                                                            !.exceeded = TRUE]]
      BY <1>0
    <3>3. [s.streams[k] EXCEPT !.bytes = StreamLimit, !.exceeded = TRUE] \in Captures
      BY <1>0, <3>1 DEF Captures
    <3>. QED  BY <1>0, <3>2, <3>3
  <2>2. Captured(s, t)
    BY <2>1, StreamsFrame
  <2>3. t \in Controllers /\ LimitKind(k) \in Kinds
    BY <2>2 DEF Captured, Core, LimitKind, Kinds
  <2> DEFINE u == Fact(t, LimitKind(k))
  <2>4. /\ u \in Controllers /\ u.failures # {} /\ u.phase = t.phase
        /\ u.failed = t.failed /\ u.actions = t.actions
    BY <2>3, FactLemma
  <2>5. OneShot(u)
    BY <2>2, <2>4, OneShotFrame DEF Captured, Core
  <2>6. Captured(s, u)
    BY <2>2, <2>4, <2>5 DEF Core, Captured
  <2>7. Push(s, k, n) = u
    BY <1>3, <1>0 DEF Push, Core, Controllers
  <2>. QED  BY <2>6, <2>7
<1>4. CASE n # 0 /\ ~Closed(s, k) /\ ~(s.streams[k].bytes + n > StreamLimit)
  <2> DEFINE f == [s.streams EXCEPT ![k].bytes = @ + n]
  <2>1. f \in [Streams -> Captures]
    <3>1. s.streams[k].bytes + n \in 0 .. StreamLimit
      BY <1>0, <1>4, ControllerAssumption
    <3>. QED  BY <1>0, <3>1 DEF Captures
  <2>2. Push(s, k, n) = [s EXCEPT !.streams = f]
    BY <1>4, <1>0 DEF Push, Core, Controllers
  <2>. QED  BY <2>1, <2>2, StreamsFrame
<1>. QED  BY <1>1, <1>2, <1>3, <1>4

\* Closing a stream keeps Core and touches neither phase, failure flag nor batch.
LEMMA EofLemma ==
  ASSUME NEW s, Core(s), NEW k \in Streams, NEW close \in BOOLEAN
  PROVE  Captured(s, Eof(s, k, close))
<1>0. s.streams \in [Streams -> Captures]
  BY DEF Core, Controllers
<1>1. CASE ~close
  BY <1>1 DEF Eof, Captured
<1>2. CASE close /\ Closed(s, k)
  BY <1>2, CaptureErrorLemma DEF Eof
<1>3. CASE close /\ ~Closed(s, k)
  <2> DEFINE f == [s.streams EXCEPT ![k].complete = TRUE]
  <2>1. [s.streams[k] EXCEPT !.complete = TRUE] \in Captures
    BY <1>0 DEF Captures
  <2>2. f \in [Streams -> Captures]
    BY <1>0, <2>1
  <2>3. Eof(s, k, close) = [s EXCEPT !.streams = f]
    BY <1>3, <1>0 DEF Eof, Core, Controllers
  <2>. QED  BY <2>2, <2>3, StreamsFrame
<1>. QED  BY <1>1, <1>2, <1>3

\* Two captures in a row, as Output and StreamsClosed make them, and the stop() that
\* follows when they left evidence.
LEMMA CapturedTwice ==
  ASSUME NEW s, NEW t, NEW u, Captured(s, t), Captured(t, u)
  PROVE  Captured(s, u)
BY DEF Captured

\* Output that left evidence behind is stopped.
LEMMA CapturedStop ==
  ASSUME NEW s, NEW t, IssuedOK, Ready(s), Captured(s, t), t.failures # {}
  PROVE  Handled(Stop(t))
<1>1. t.actions \cap Forward = {}
  BY DEF Captured, Ready
<1>. QED  BY <1>1, StopLemma DEF Captured, Handled

\* Output that left no evidence behind is handled as it is.
LEMMA CapturedReady ==
  ASSUME NEW s, NEW t, Ready(s), Captured(s, t), t.failures = {}
  PROVE  Ready(t)
BY DEF Captured, Ready, Evident, Core

\* Output, in every phase.
LEMMA OutputLemma ==
  ASSUME NEW s, IssuedOK, Ready(s), NEW out \in Nat, NEW err \in Nat
  PROVE  Handled(OnOutput(s, out, err))
<1> DEFINE t == Push(s, "stdout", out)  u == Push(t, "stderr", err)
<1>1. Captured(s, t)
  BY PushLemma DEF Streams, Ready
<1>2. Captured(t, u)
  BY <1>1, PushLemma DEF Captured, Streams
<1>3. Captured(s, u)
  BY <1>1, <1>2, CapturedTwice
<1> HIDE DEF u
<1>4. CASE ~AllowCapture(s)
  BY <1>4, RejectHandled DEF OnOutput
<1>5. CASE AllowCapture(s) /\ u.failures # {}
  BY <1>3, <1>5, CapturedStop DEF OnOutput, u
<1>6. CASE AllowCapture(s) /\ u.failures = {}
  <2>1. OnOutput(s, out, err) = u
    BY <1>6 DEF OnOutput, u
  <2>. QED  BY <1>3, <1>6, <2>1, CapturedReady, ReadyIsHandled
<1>. QED  BY <1>4, <1>5, <1>6

\* StreamsClosed, in every phase.
LEMMA StreamsClosedLemma ==
  ASSUME NEW s, IssuedOK, Ready(s), NEW out \in BOOLEAN, NEW err \in BOOLEAN
  PROVE  Handled(OnStreamsClosed(s, out, err))
<1> DEFINE t == Eof(s, "stdout", out)  u == Eof(t, "stderr", err)
           allowed == AllowCapture(s) /\ (out \/ err)
<1>1. Captured(s, t)
  BY EofLemma DEF Streams, Ready
<1>2. Captured(t, u)
  BY <1>1, EofLemma DEF Captured, Streams
<1>3. Captured(s, u)
  BY <1>1, <1>2, CapturedTwice
<1> HIDE DEF u
<1>4. CASE ~allowed
  BY <1>4, RejectHandled DEF OnStreamsClosed
<1>5. CASE allowed /\ u.failures # {}
  BY <1>3, <1>5, CapturedStop DEF OnStreamsClosed, u
<1>6. CASE allowed /\ u.failures = {} /\ ~(u.phase = "Drain" /\ CaptureReady(u))
  <2>1. OnStreamsClosed(s, out, err) = u
    BY <1>6 DEF OnStreamsClosed, u
  <2>. QED  BY <1>3, <1>6, <2>1, CapturedReady, ReadyIsHandled
<1>7. CASE allowed /\ u.failures = {} /\ u.phase = "Drain" /\ CaptureReady(u)
  <2>1. OnStreamsClosed(s, out, err) = Intend(u, "EmptyTree", "ConfirmEmptyTree")
    BY <1>7 DEF OnStreamsClosed, u
  <2>2. Ready(u)
    BY <1>3, <1>7, CapturedReady
  <2>3. /\ "ConfirmEmptyTree" \in Future(u.phase)
        /\ Future("EmptyTree") \subseteq Future(u.phase) \ {"ConfirmEmptyTree"}
        /\ "EmptyTree" \in Phases /\ "ConfirmEmptyTree" \in Intents
        /\ "EmptyTree" \in CleanupTail /\ "ConfirmEmptyTree" \notin Forward
    BY <1>7 DEF Future, Phases, Intents, CleanupTail, Forward
  <2>. QED  BY <2>1, <2>2, <2>3, IntendLemma DEF Ready, Handled
<1>. QED  BY <1>4, <1>5, <1>6, <1>7

\* Exit, before or after a termination.
LEMMA ExitLemma ==
  ASSUME NEW s, IssuedOK, Ready(s), NEW x \in Exits
  PROVE  Handled(OnExit(s, x))
<1> DEFINE t == [s EXCEPT !.exit = x]
           taken == /\ s.started /\ s.exit = "None"
                    /\ s.phase = "Running" \/ (s.failed /\ s.phase \in {"Terminate", "Inspect"})
<1>1. CASE ~taken
  BY <1>1, RejectHandled DEF OnExit
<1>2. /\ t \in Controllers /\ t.phase = s.phase /\ t.failed = s.failed
      /\ t.actions = s.actions /\ t.failures = s.failures /\ t.overflow = s.overflow
  BY DEF Ready, Core, Controllers
<1>3. OneShot(t)
  BY <1>2, OneShotFrame DEF Ready, Core
<1>4. Ready(t)
  BY <1>2, <1>3 DEF Ready, Core, Evident
<1> HIDE DEF t
<1>5. CASE taken /\ s.phase = "Running"
  <2>1. OnExit(s, x) = Intend(t, "Inspect", "Inspect")
    BY <1>5 DEF OnExit, t
  <2>2. /\ "Inspect" \in Future(t.phase) /\ Future("Inspect") \subseteq Future(t.phase) \ {"Inspect"}
        /\ "Inspect" \in Phases /\ "Inspect" \in Intents /\ "Inspect" \notin Forward
    BY <1>2, <1>5 DEF Future, Phases, Intents, Forward
  <2>. QED  BY <1>4, <2>1, <2>2, IntendLemma DEF Ready, Handled
<1>6. CASE taken /\ s.phase # "Running"
  <2>1. OnExit(s, x) = t
    BY <1>6 DEF OnExit, t
  <2>. QED  BY <1>4, <2>1, ReadyIsHandled
<1>. QED  BY <1>1, <1>5, <1>6

\* Inspected, with or without the end of both streams.
LEMMA InspectedLemma ==
  ASSUME NEW s, IssuedOK, Ready(s)  PROVE Handled(OnInspected(s))
<1>1. CASE s.phase # "Inspect"
  BY <1>1, RejectHandled DEF OnInspected
<1>2. CASE s.phase = "Inspect" /\ (s.failed \/ CaptureReady(s))
  <2>1. OnInspected(s) = Intend(s, "EmptyTree", "ConfirmEmptyTree")
    BY <1>2 DEF OnInspected
  <2>2. /\ "ConfirmEmptyTree" \in Future(s.phase)
        /\ Future("EmptyTree") \subseteq Future(s.phase) \ {"ConfirmEmptyTree"}
        /\ "EmptyTree" \in Phases /\ "ConfirmEmptyTree" \in Intents
        /\ "EmptyTree" \in CleanupTail /\ "ConfirmEmptyTree" \notin Forward
    BY <1>2 DEF Future, Phases, Intents, CleanupTail, Forward
  <2>. QED  BY <2>1, <2>2, IntendLemma DEF Ready, Handled
<1>3. CASE s.phase = "Inspect" /\ ~(s.failed \/ CaptureReady(s))
  <2> DEFINE t == [s EXCEPT !.phase = "Drain"]
  <2>1. OnInspected(s) = t
    BY <1>3 DEF OnInspected
  <2>2. /\ t \in Controllers /\ t.phase = "Drain" /\ t.failed = s.failed
        /\ t.actions = s.actions /\ t.failures = s.failures /\ t.overflow = s.overflow
    BY DEF Ready, Core, Controllers, Phases
  <2>3. \A a \in Intents : Total(t, a) = Total(s, a)
    BY <2>2 DEF Total
  <2>4. OneShot(s) /\ Future("Drain") = Future(s.phase) \cup {"TerminateTree"}
    BY <1>3 DEF Ready, Core, Future
  <2>5. OneShot(t)
    BY <1>3, <2>2, <2>3, <2>4 DEF OneShot, Future, Intents
  <2>6. Ready(t)
    BY <1>3, <2>2, <2>5 DEF Ready, Core, Evident
  <2>. QED  BY <2>1, <2>6, ReadyIsHandled
<1>. QED  BY <1>1, <1>2, <1>3

\* OomKilled, asked for or not.
LEMMA OomLemma ==
  ASSUME NEW s, IssuedOK, Ready(s)  PROVE Handled(OnOomKilled(s))
<1> DEFINE t == Fact(s, "Memory")
<1>1. /\ t \in Controllers /\ t.failures # {} /\ t.phase = s.phase
      /\ t.failed = s.failed /\ t.actions = s.actions
  BY FactLemma DEF Kinds, Ready, Core
<1>2. OneShot(t)
  BY <1>1, OneShotFrame DEF Ready, Core
<1>3. Core(t) /\ t.actions \cap Forward = {}
  BY <1>1, <1>2 DEF Ready, Core
<1> HIDE DEF t
<1>4. Handled(Stop(t))
  BY <1>1, <1>3, StopLemma DEF Handled
<1>. QED  BY <1>4, RejectHandled DEF OnOomKilled, t

\* Interrupted and TransportFailed.
LEMMA BrokenLemma ==
  ASSUME NEW s, IssuedOK, Ready(s), NEW k \in Kinds, NEW n \in Nat
  PROVE  Handled(OnBroken(s, k, n))
BY FaultHandled, RejectHandled DEF OnBroken

\* The end of the tail: nothing is left to issue.
LEMMA FinalizeLemma ==
  ASSUME NEW s, IssuedOK, Core(s), s.actions = {},
         NEW c \in {"Unknown", "Failed", "ConfirmedEmpty"}
  PROVE  /\ Handled(Finalize(s, c)) /\ Finalize(s, c).actions = {}
         /\ Finalize(s, c).failures # {} /\ Finalize(s, c).failed
<1> DEFINE t == [s EXCEPT !.cleanup = c]  u == Fact(t, "Cleanup")
           v == [u EXCEPT !.phase = "Finalizable", !.failed = TRUE]
<1>1. t \in Controllers /\ t.actions = {}
  BY DEF Core, Controllers
<1>2. u \in Controllers /\ u.failures # {} /\ u.actions = {}
  BY <1>1, FactLemma DEF Kinds
<1> HIDE DEF u
<1>3. /\ v \in Controllers /\ v.actions = {} /\ v.failures # {} /\ v.failed
      /\ v.phase = "Finalizable"
  BY <1>2 DEF Controllers, Phases
<1>4. \A a \in Intents : Total(v, a) = Total(s, a)
  BY <1>3 DEF Total
<1>5. OneShot(v)
  BY <1>3, <1>4 DEF OneShot, Core, Future, Intents
<1>6. v = Finalize(s, c)
  BY DEF Finalize, u
<1>7. Handled(v)
  BY <1>3, <1>5 DEF Handled, Core, Evident, Quiet, CleanupTail
<1>. QED  BY <1>3, <1>6, <1>7

\* ControlFailed, for the operation the phase waits for or another one.
LEMMA ControlFailedLemma ==
  ASSUME NEW s, IssuedOK, Ready(s), NEW op \in Operations, NEW n \in Nat
  PROVE  Handled(OnControlFailed(s, op, n))
<1> DEFINE f == Fact(s, "Control")  d == Diagnostic(f, n)  t == [d EXCEPT !.failed = TRUE]
<1>1. /\ f \in Controllers /\ f.failures # {} /\ f.phase = s.phase
      /\ f.failed = s.failed /\ f.actions = s.actions
  BY FactLemma DEF Kinds, Ready, Core
<1>2. /\ d \in Controllers /\ d.failures # {} /\ d.phase = s.phase
      /\ d.failed = s.failed /\ d.actions = s.actions
  BY <1>1, DiagnosticLemma
<1> HIDE DEF d
<1>3. /\ t \in Controllers /\ t.failures # {} /\ t.phase = s.phase
      /\ t.failed /\ t.actions = {}
  BY <1>2 DEF Controllers, Ready
<1>4. \A a \in Intents : Total(t, a) = Total(s, a)
  BY <1>3 DEF Total, Ready
<1>5. OneShot(s) /\ s \in Controllers
  BY DEF Ready, Core
<1>6. \A a \in Intents : Total(s, a) \in Nat
  BY DEF Total, IssuedOK, MaxIssued
<1>7. OneShot(t)
  <2>1. Future(s.phase) \subseteq Intents /\ "Inspect" \in Intents
    BY <1>5 DEF Future, Intents, Controllers, Phases
  <2>. QED  BY <1>3, <1>4, <1>5, <2>1 DEF OneShot
<1>8. Evident(t)
  BY <1>3 DEF Evident
<1> HIDE DEF t
<1>9. CASE ExpectedOperation(s.phase) # op
  BY <1>9, RejectHandled DEF OnControlFailed
<1>10. CASE ExpectedOperation(s.phase) = op /\ s.phase = "Terminate"
  <2>1. OnControlFailed(s, op, n) = Intend(t, "Inspect", "Inspect")
    BY <1>10 DEF OnControlFailed, t, d
  <2>2. Core(t)
    BY <1>3, <1>7, <1>10 DEF Core, CleanupTail
  <2>3. /\ Future("Inspect") \subseteq Future(t.phase) \ {"Inspect"}
        /\ "Inspect" \in Phases /\ "Inspect" \in Intents /\ "Inspect" \notin Forward
    BY <1>3, <1>10 DEF Future, Phases, Intents, Forward
  <2>. QED  BY <1>3, <1>8, <1>10, <2>1, <2>2, <2>3, IntendLemma DEF Handled
<1>11. CASE ExpectedOperation(s.phase) = op /\ s.phase = "Inspect" /\ ~s.failed
  <2> DEFINE u == [t EXCEPT !.phase = "Terminate", !.actions = {"TerminateTree"}]
  <2>1. OnControlFailed(s, op, n) = Intend(t, "Terminate", "TerminateTree")
    BY <1>11 DEF OnControlFailed, t, d
  <2>2. Intend(t, "Terminate", "TerminateTree") = u
    BY <1>3 DEF Intend
  <2>3. /\ u \in Controllers /\ u.phase = "Terminate" /\ u.actions = {"TerminateTree"}
        /\ u.failed /\ u.failures # {}
    <3>1. "Terminate" \in Phases /\ {"TerminateTree"} \in SUBSET Intents
      BY DEF Phases, Intents
    <3>. QED  BY <1>3, <3>1 DEF Controllers
  <2>4. \A a \in Intents \ {"TerminateTree"} : Total(u, a) = Total(s, a)
    BY <1>3, <2>3 DEF Total, Ready
  <2>5. Total(u, "TerminateTree") = Total(s, "TerminateTree") + 1
    BY <1>3, <2>3 DEF Total, Ready, IssuedOK, Intents
  <2>6. OneShot(u)
    BY <1>5, <1>6, <1>11, <2>3, <2>4, <2>5 DEF OneShot, Future, Intents
  <2>. QED  BY <2>1, <2>2, <2>3, <2>6 DEF Handled, Core, Evident, Quiet, CleanupTail, Forward
<1>12. CASE ExpectedOperation(s.phase) = op /\ s.phase = "Inspect" /\ s.failed
  <2>1. OnControlFailed(s, op, n) = Intend(t, "EmptyTree", "ConfirmEmptyTree")
    BY <1>12 DEF OnControlFailed, t, d
  <2>2. Core(t)
    BY <1>3, <1>7, <1>12 DEF Core, CleanupTail
  <2>3. /\ "ConfirmEmptyTree" \in Future(t.phase)
        /\ Future("EmptyTree") \subseteq Future(t.phase) \ {"ConfirmEmptyTree"}
        /\ "EmptyTree" \in Phases /\ "ConfirmEmptyTree" \in Intents
        /\ "EmptyTree" \in CleanupTail /\ "ConfirmEmptyTree" \notin Forward
    BY <1>3, <1>12 DEF Future, Phases, Intents, CleanupTail, Forward
  <2>. QED  BY <1>3, <1>8, <2>1, <2>2, <2>3, IntendLemma DEF Handled
<1>13. CASE ExpectedOperation(s.phase) = op /\ s.phase \in {"EmptyTree", "Cleanup"}
  <2>1. OnControlFailed(s, op, n) = Finalize(t, "Unknown") \/
        OnControlFailed(s, op, n) = Finalize(t, "Failed")
    BY <1>13 DEF OnControlFailed, t, d
  <2>2. Core(t)
    BY <1>3, <1>7, <1>13 DEF Core, CleanupTail
  <2>. QED  BY <1>3, <2>1, <2>2, FinalizeLemma
<1>14. CASE ExpectedOperation(s.phase) = op
            /\ s.phase \notin {"Terminate", "Inspect", "EmptyTree", "Cleanup"}
  <2>0. s.phase # "Finalizable"
    BY <1>14 DEF ExpectedOperation, Operations
  <2>1. OnControlFailed(s, op, n) = Stop(t)
    BY <1>14 DEF OnControlFailed, t, d
  <2> DEFINE u == Intend(t, "Terminate", "TerminateTree")
             w == [t EXCEPT !.phase = "Terminate", !.actions = {"TerminateTree"}]
  <2>2. u = w /\ w = [w EXCEPT !.failed = TRUE]
    BY <1>3 DEF Intend, Controllers
  <2>3. Stop(t) = w
    BY <1>3, <1>14, <2>0, <2>2 DEF Stop, CleanupTail
  <2>4. ~s.failed
    BY <1>14, <2>0 DEF Ready, Core, CleanupTail
  <2>5. /\ w \in Controllers /\ w.phase = "Terminate" /\ w.actions = {"TerminateTree"}
        /\ w.failed /\ w.failures # {}
    <3>1. "Terminate" \in Phases /\ {"TerminateTree"} \in SUBSET Intents
      BY DEF Phases, Intents
    <3>. QED  BY <1>3, <3>1 DEF Controllers
  <2>6. \A a \in Intents \ {"TerminateTree"} : Total(w, a) = Total(s, a)
    BY <1>3, <2>5 DEF Total, Ready
  <2>7. Total(w, "TerminateTree") = Total(s, "TerminateTree") + 1
    BY <1>3, <2>5 DEF Total, Ready, IssuedOK, Intents
  <2>8. Total(s, "ConfirmEmptyTree") = 0 /\ Total(s, "Cleanup") = 0
    BY <1>5, <1>14, <2>0 DEF OneShot, Controllers, Phases, Future, Intents
  <2>9. OneShot(w)
    BY <1>5, <1>6, <2>4, <2>5, <2>6, <2>7, <2>8 DEF OneShot, Future, Intents
  <2>. QED  BY <2>1, <2>3, <2>5, <2>9 DEF Handled, Core, Evident, Quiet, CleanupTail, Forward
<1>. QED  BY <1>9, <1>10, <1>11, <1>12, <1>13, <1>14

\* A tree that is not empty ends the tail with a failed cleanup.
LEMMA TreeNotEmptyLemma ==
  ASSUME NEW s, IssuedOK, Ready(s)  PROVE Handled(OnTreeNotEmpty(s))
BY FinalizeLemma, RejectHandled DEF OnTreeNotEmpty, Ready

\* A confirmed cleanup ends the tail.
LEMMA CleanedLemma ==
  ASSUME NEW s, IssuedOK, Ready(s)  PROVE Handled(OnCleaned(s))
<1> DEFINE t == [s EXCEPT !.cleanup = "ConfirmedEmpty", !.phase = "Finalizable"]
<1>1. CASE s.phase # "Cleanup"
  BY <1>1, RejectHandled DEF OnCleaned
<1>2. CASE s.phase = "Cleanup"
  <2>1. /\ t \in Controllers /\ t.phase = "Finalizable" /\ t.failed = s.failed
        /\ t.actions = {} /\ t.failures = s.failures /\ t.overflow = s.overflow
    BY DEF Ready, Core, Controllers, Phases
  <2>2. \A a \in Intents : Total(t, a) = Total(s, a)
    BY <2>1 DEF Total, Ready
  <2>3. OneShot(t)
    BY <2>1, <2>2 DEF OneShot, Ready, Core, Future, Intents
  <2>4. Ready(t)
    BY <2>1, <2>3 DEF Ready, Core, Evident, CleanupTail
  <2>. QED  BY <1>2, <2>4, ReadyIsHandled DEF OnCleaned
<1>. QED  BY <1>1, <1>2

\* A failed cleanup ends the tail with its evidence.
LEMMA CleanupFailedLemma ==
  ASSUME NEW s, IssuedOK, Ready(s), NEW n \in Nat
  PROVE  Handled(OnCleanupFailed(s, n))
<1> DEFINE t == Finalize(s, "Failed")  u == Diagnostic(t, n)
<1>1. CASE s.phase # "Cleanup"
  BY <1>1, RejectHandled DEF OnCleanupFailed
<1>2. CASE s.phase = "Cleanup"
  <2>1. Handled(t) /\ t.actions = {} /\ t.failures # {} /\ t.failed
    BY FinalizeLemma DEF Ready
  <2>2. /\ u \in Controllers /\ u.failures = t.failures /\ u.phase = t.phase
        /\ u.failed = t.failed /\ u.actions = t.actions
    BY <2>1, DiagnosticLemma DEF Handled, Core
  <2>3. OneShot(u)
    BY <2>1, <2>2, OneShotFrame DEF Handled, Core
  <2>4. Handled(u)
    BY <2>1, <2>2, <2>3 DEF Handled, Core, Evident, Quiet
  <2>. QED  BY <1>2, <2>4 DEF OnCleanupFailed
<1>. QED  BY <1>1, <1>2

-----------------------------------------------------------------------------

\* After the deadline, the suppression and the diagnostic budget the controller is
\* settled: failed or late, it has nothing in its batch that drives the container on.
Settled(s) ==
  /\ Core(s) /\ Evident(s)
  /\ s.failed \/ s.last >= WallClock => s.actions \cap Forward = {}

\* Deadline, suppression and diagnostic budget turn a handled state into a settled one.
LEMMA ConcludeLemma ==
  ASSUME NEW s, IssuedOK, Handled(s)  PROVE Settled(Conclude(s))
<1> DEFINE d == Deadline(s)  u == Suppress(d)  b == DiagnosticBudget(u)
<1>1. Core(d) /\ Evident(d) /\ (d.last < WallClock => Quiet(d))
  <2>1. CASE ~(s.last >= WallClock /\ ~HasFact(s, "Deadline"))
    BY <2>1 DEF Deadline, Handled
  <2>2. CASE s.last >= WallClock /\ ~HasFact(s, "Deadline")
    <3> DEFINE f == Fact(s, "Deadline")
    <3>1. /\ f \in Controllers /\ f.failures # {} /\ f.phase = s.phase /\ f.last = s.last
          /\ f.failed = s.failed /\ f.actions = s.actions
      BY FactLemma DEF Kinds, Handled, Core
    <3>2. OneShot(f)
      BY <3>1, OneShotFrame DEF Handled, Core
    <3>3. Core(f)
      BY <3>1, <3>2 DEF Handled, Core
    <3> HIDE DEF f
    <3>4. Core(Stop(f)) /\ Evident(Stop(f)) /\ Stop(f).last = s.last
      BY <3>1, <3>3, StopLemma
    <3>5. ~(s.last < WallClock)
      BY <2>2, ControllerAssumption DEF Handled, Core, Controllers, Times
    <3>. QED  BY <2>2, <3>4, <3>5 DEF Deadline, f
  <2>. QED  BY <2>1, <2>2
<1> HIDE DEF d
<1>2. Settled(u)
  <2>1. CASE d.last < WallClock
    <3>1. u = d
      BY <2>1 DEF Suppress
    <3>2. ~(d.last >= WallClock)
      BY <1>1, <2>1, ControllerAssumption DEF Core, Controllers, Times
    <3>. QED  BY <1>1, <2>1, <3>1, <3>2 DEF Settled, Quiet
  <2>2. CASE ~(d.last < WallClock)
    <3> DEFINE batch == {a \in d.actions :
                           \/ a \in {"TerminateTree", "ConfirmEmptyTree", "Cleanup"}
                           \/ a = "Inspect" /\ "TerminateTree" \notin d.actions}
    <3>1. u = [d EXCEPT !.actions = batch]
      BY <2>2 DEF Suppress
    <3>2. batch \in SUBSET Intents /\ batch \subseteq d.actions /\ batch \cap Forward = {}
      BY <1>1 DEF Core, Controllers, Forward
    <3> HIDE DEF batch
    <3>3. /\ u \in Controllers /\ u.phase = d.phase /\ u.failed = d.failed
          /\ u.failures = d.failures /\ u.overflow = d.overflow /\ u.actions = batch
      BY <1>1, <3>1, <3>2 DEF Core, Controllers
    <3>4. \A a \in Intents : Total(u, a) \in Nat /\ Total(d, a) \in Nat
                            /\ Total(u, a) <= Total(d, a)
      BY <3>2, <3>3 DEF Total, IssuedOK, MaxIssued
    <3>5. Future(d.phase) \subseteq Intents
      BY <1>1 DEF Core, Controllers, Phases, Future, Intents
    <3>6. OneShot(u)
      BY <1>1, <3>3, <3>4, <3>5 DEF Core, OneShot, Intents
    <3>. QED  BY <1>1, <3>2, <3>3, <3>6 DEF Settled, Core, Evident
  <2>. QED  BY <2>1, <2>2
<1> HIDE DEF u
<1>3. Settled(b)
  <2>1. CASE ~(u.overflow /\ ~HasFact(u, "Control"))
    BY <1>2, <2>1 DEF DiagnosticBudget
  <2>2. CASE u.overflow /\ ~HasFact(u, "Control")
    <3> DEFINE f == Fact(u, "Control")
    <3>1. u.failed /\ u.actions \cap Forward = {}
      BY <1>2, <2>2 DEF Settled, Evident
    <3>2. /\ f \in Controllers /\ f.failures # {} /\ f.phase = u.phase
          /\ f.failed = u.failed /\ f.actions = u.actions
      BY <1>2, FactLemma DEF Kinds, Settled, Core
    <3>3. OneShot(f)
      BY <1>2, <3>2, OneShotFrame DEF Settled, Core
    <3>4. Core(f)
      BY <1>2, <3>2, <3>3 DEF Settled, Core
    <3> HIDE DEF f
    <3>5. Core(Stop(f)) /\ Evident(Stop(f)) /\ Stop(f).failed /\ Quiet(Stop(f))
      BY <3>1, <3>2, <3>4, StopLemma
    <3>. QED  BY <2>2, <3>5 DEF DiagnosticBudget, f, Settled, Quiet
  <2>. QED  BY <2>1, <2>2
<1>. QED  BY <1>3 DEF Conclude, u, d

-----------------------------------------------------------------------------
(* What the record is later judged by: the facts are counted and dated, and *)
(* agree with what the streams, the exit and the cleanup say.               *)

\* The facts stay within the budget, and only a full one is exhausted.
Counted(s) ==
  /\ IsFiniteSet(s.failures) /\ Cardinality(s.failures) <= FailureFacts
  /\ s.exhausted => Cardinality(s.failures) = FailureFacts

\* A fact is as old as an event, a deadline late, a memory fault after the start.
Dated(s) ==
  \A f \in s.failures : /\ f.at <= s.last
                        /\ f.kind = "Deadline" => f.at >= WallClock
                        /\ f.kind = "Memory" => s.started

\* A stream that exceeded its limit is full, not complete, and has its fact.
Cut(s) ==
  \A k \in Streams : s.streams[k].exceeded =>
    /\ HasFact(s, LimitKind(k)) \/ s.exhausted
    /\ ~s.streams[k].complete /\ s.streams[k].bytes = StreamLimit

\* Bytes and an exit come after the start, as the phase has it.
Ran(s) ==
  /\ ~s.started => s.exit = "None" /\ \A k \in Streams : s.streams[k].bytes = 0
  /\ s.phase \in {"Stdin", "StdinEof", "Running", "Drain"} => s.started
  /\ s.phase = "Inspect" /\ ~s.failed => s.started
  /\ s.phase \in {"Create", "Attach", "Start"} => ~s.started

\* The cleanup is judged at the end.
Held(s) == s.phase # "Finalizable" => s.cleanup = "Unknown"

Lawful(s) == Counted(s) /\ Dated(s) /\ Cut(s) /\ Ran(s) /\ Held(s)

\* Nobody but finish() says that the exit is missing.
Open(s) == ~HasFact(s, "MissingExit")

\* An attempt that has not failed has issued exactly what its phase stands for.
Whole(s) ==
  ~s.failed => \A a \in Intents \ (Future(s.phase) \cup {"TerminateTree"}) : Total(s, a) = 1

\* What a stage may do to what SolverAttempt looks at.
Kept(s, t) == t.started = s.started /\ t.cleanup = s.cleanup /\ (s.failed => t.failed)
Begun(s, t) ==
  ~s.started /\ ~s.failed /\ t.started /\ t.cleanup = s.cleanup
Ended(s, t) ==
  t.started = s.started /\ s.cleanup = "Unknown" /\ (s.failed => t.failed)

Sound(s) == Lawful(s) /\ Open(s) /\ Whole(s)
Moved(s, t) == Sound(t) /\ (Kept(s, t) \/ Begun(s, t) \/ Ended(s, t))

\* A new fact keeps the record lawful, and is there unless the budget is exhausted.
LEMMA LawfulFact ==
  ASSUME NEW s \in Controllers, Lawful(s), NEW k \in Kinds,
         k = "Deadline" => s.last >= WallClock, k = "Memory" => s.started
  PROVE  /\ Lawful(Fact(s, k)) /\ Kept(s, Fact(s, k))
         /\ HasFact(Fact(s, k), k) \/ Fact(s, k).exhausted
         /\ \A j \in Kinds : /\ HasFact(s, j) => HasFact(Fact(s, k), j)
                             /\ HasFact(Fact(s, k), j) => HasFact(s, j) \/ j = k
         /\ s.exhausted => Fact(s, k).exhausted
         /\ Fact(s, k).exit = s.exit
<1> DEFINE f == [kind |-> k, stage |-> Stage(s.phase), at |-> s.last]
<1>0. s.last \in Nat /\ WallClock \in Nat /\ FailureFacts \in Nat
  BY ControllerAssumption DEF Controllers, Times
<1>1. CASE f \in s.failures
  <2>1. Fact(s, k) = s
    BY <1>1 DEF Fact
  <2>2. HasFact(s, k)
    BY <1>1 DEF HasFact
  <2>. QED  BY <2>1, <2>2 DEF Kept
<1>2. CASE f \notin s.failures /\ Cardinality(s.failures) >= FailureFacts
  <2> DEFINE t == [s EXCEPT !.exhausted = TRUE]
  <2>1. Fact(s, k) = t
    BY <1>2 DEF Fact
  <2>2. /\ t.failures = s.failures /\ t.exhausted /\ t.last = s.last /\ t.started = s.started
        /\ t.streams = s.streams /\ t.exit = s.exit /\ t.phase = s.phase
        /\ t.failed = s.failed /\ t.cleanup = s.cleanup
    BY DEF Controllers
  <2>3. Cardinality(s.failures) \in Nat
    BY FS_CardinalityType DEF Lawful, Counted
  <2> HIDE DEF t
  <2>4. Counted(t)
    BY <1>0, <1>2, <2>2, <2>3 DEF Lawful, Counted
  <2>5. Dated(t) /\ Cut(t) /\ Ran(t) /\ Held(t)
    BY <2>2 DEF Lawful, Dated, Cut, Ran, Held, HasFact
  <2>. QED  BY <2>1, <2>2, <2>4, <2>5 DEF Lawful, Kept, HasFact
<1>3. CASE f \notin s.failures /\ ~(Cardinality(s.failures) >= FailureFacts)
  <2> DEFINE t == [s EXCEPT !.failures = @ \cup {f}]
  <2>1. Fact(s, k) = t
    BY <1>3 DEF Fact
  <2>2. /\ t.failures = s.failures \cup {f} /\ t.exhausted = s.exhausted /\ t.last = s.last
        /\ t.streams = s.streams /\ t.exit = s.exit /\ t.phase = s.phase
        /\ t.started = s.started /\ t.failed = s.failed /\ t.cleanup = s.cleanup
    BY DEF Controllers
  <2>3. f.kind = k /\ f.at = s.last
    OBVIOUS
  <2>4. /\ IsFiniteSet(s.failures) /\ Cardinality(s.failures) \in Nat
        /\ IsFiniteSet(s.failures \cup {f})
        /\ Cardinality(s.failures \cup {f}) = Cardinality(s.failures) + 1
    BY <1>3, FS_CardinalityType, FS_AddElement DEF Lawful, Counted
  <2> HIDE DEF t, f
  <2>5. Counted(t)
    BY <1>0, <1>3, <2>2, <2>4 DEF Lawful, Counted
  <2>6. Dated(t)
    BY <1>0, <2>2, <2>3 DEF Lawful, Dated
  <2>7. Cut(t) /\ Ran(t) /\ Held(t)
    BY <2>2 DEF Lawful, Cut, Ran, Held, HasFact
  <2>. QED  BY <2>1, <2>2, <2>3, <2>5, <2>6, <2>7 DEF Lawful, Kept, HasFact
<1>. QED  BY <1>1, <1>2, <1>3

\* Two states that agree on all the record is judged by are lawful together.
LEMMA LawfulFrame ==
  ASSUME NEW s, NEW t, Lawful(s),
         t.failures = s.failures, t.exhausted = s.exhausted, t.last = s.last,
         t.streams = s.streams, t.started = s.started, t.exit = s.exit, t.phase = s.phase,
         t.failed = s.failed, t.cleanup = s.cleanup
  PROVE  Lawful(t)
BY DEF Lawful, Counted, Dated, Cut, Ran, Held, HasFact

\* A diagnostic record does not touch the evidence.
LEMMA LawfulDiagnostic ==
  ASSUME NEW s \in Controllers, Lawful(s), NEW n \in Nat
  PROVE  /\ Lawful(Diagnostic(s, n)) /\ Kept(s, Diagnostic(s, n))
         /\ \A j \in Kinds : HasFact(Diagnostic(s, n), j) <=> HasFact(s, j)
         /\ Diagnostic(s, n).exhausted = s.exhausted
<1> DEFINE t == Diagnostic(s, n)
<1>1. /\ t.failures = s.failures /\ t.exhausted = s.exhausted /\ t.last = s.last
      /\ t.streams = s.streams /\ t.started = s.started /\ t.exit = s.exit
      /\ t.phase = s.phase /\ t.failed = s.failed /\ t.cleanup = s.cleanup
  BY DEF Diagnostic, Controllers
<1> HIDE DEF t
<1>2. Lawful(t) /\ Kept(s, t) /\ \A j \in Kinds : HasFact(t, j) <=> HasFact(s, j)
  BY <1>1, LawfulFrame DEF Kept, HasFact
<1>. QED  BY <1>1, <1>2 DEF t

\* stop() does not touch the evidence either.
LEMMA LawfulStop ==
  ASSUME NEW s \in Controllers, Lawful(s)
  PROVE  /\ Lawful(Stop(s)) /\ Kept(s, Stop(s)) /\ Stop(s).failed
         /\ \A j \in Kinds : HasFact(Stop(s), j) <=> HasFact(s, j)
         /\ Stop(s).exhausted = s.exhausted /\ Stop(s).exit = s.exit
         /\ Stop(s).last = s.last /\ Stop(s).failures = s.failures
<1> DEFINE t == Stop(s)
<1>1. /\ t.failures = s.failures /\ t.exhausted = s.exhausted /\ t.last = s.last
      /\ t.streams = s.streams /\ t.started = s.started /\ t.exit = s.exit
      /\ t.failed /\ t.cleanup = s.cleanup
      /\ t.phase = s.phase \/ (t.phase = "Terminate" /\ s.phase \notin CleanupTail)
  BY DEF Stop, Intend, Controllers
<1> HIDE DEF t
<1>2. Lawful(t)
  BY <1>1 DEF Lawful, Counted, Dated, Cut, Ran, Held, HasFact, CleanupTail
<1>. QED  BY <1>1, <1>2 DEF Kept, HasFact, t

\* Kept composes.
LEMMA KeptTwice ==
  ASSUME NEW s, NEW t, NEW u, Kept(s, t), Kept(t, u)
  PROVE  Kept(s, u)
BY DEF Kept

\* A fault that is recorded and stopped.
LEMMA SoundFault ==
  ASSUME NEW s \in Controllers, Sound(s), NEW k \in Kinds \ {"Deadline", "MissingExit"},
         NEW n \in Nat, k = "Memory" => s.started
  PROVE  Moved(s, Stop(Diagnostic(Fact(s, k), n)))
<1> DEFINE t == Fact(s, k)  u == Diagnostic(t, n)
<1>0. Lawful(s) /\ Open(s) /\ "MissingExit" \in Kinds
  BY DEF Sound, Kinds
<1>1. Lawful(t) /\ Kept(s, t) /\ t \in Controllers /\ ~HasFact(t, "MissingExit")
  BY <1>0, LawfulFact, FactLemma DEF Open
<1> HIDE DEF t
<1>2. Lawful(u) /\ Kept(t, u) /\ u \in Controllers /\ ~HasFact(u, "MissingExit")
  BY <1>0, <1>1, LawfulDiagnostic, DiagnosticLemma
<1> HIDE DEF u
<1>3. Lawful(Stop(u)) /\ Kept(u, Stop(u)) /\ Stop(u).failed /\ ~HasFact(Stop(u), "MissingExit")
  BY <1>0, <1>2, LawfulStop
<1>4. Kept(s, Stop(u))
  BY <1>1, <1>2, <1>3, KeptTwice
<1>. QED  BY <1>3, <1>4 DEF Moved, Sound, Whole, Open, t, u

\* A rejected event.
LEMMA SoundReject ==
  ASSUME NEW s \in Controllers, Sound(s)
  PROVE  Moved(s, Reject(s))
<1>1. "InvalidSequence" \in Kinds \ {"Deadline", "MissingExit"} /\ 1 \in Nat
  BY DEF Kinds
<1>. QED  BY <1>1, SoundFault DEF Reject

\* A phase further on, with the intent that opens it.
LEMMA SoundIntend ==
  ASSUME NEW s \in Controllers, IssuedOK, Sound(s), s.actions = {},
         NEW p \in Phases \ {"Finalizable"}, NEW i \in Intents, s.phase # "Finalizable",
         p \in {"Stdin", "StdinEof", "Running", "Drain"} => s.started,
         p = "Inspect" /\ ~s.failed => s.started,
         p \in {"Create", "Attach", "Start"} => ~s.started,
         ~s.failed => /\ OneShot(s) /\ i \in Future(s.phase)
                      /\ Future(s.phase) \subseteq Future(p) \cup {i, "TerminateTree"}
  PROVE  Sound(Intend(s, p, i)) /\ Kept(s, Intend(s, p, i))
<1> DEFINE t == Intend(s, p, i)
<1>1. /\ t.failures = s.failures /\ t.exhausted = s.exhausted /\ t.last = s.last
      /\ t.streams = s.streams /\ t.started = s.started /\ t.exit = s.exit
      /\ t.failed = s.failed /\ t.cleanup = s.cleanup /\ t.phase = p /\ t.actions = {i}
  BY DEF Intend, Controllers
<1> HIDE DEF t
<1>2. Lawful(t) /\ Open(t)
  BY <1>1 DEF Sound, Open, Lawful, Counted, Dated, Cut, Ran, Held, HasFact
<1>3. Whole(t)
  <2> SUFFICES ASSUME ~s.failed, NEW a \in Intents \ (Future(p) \cup {"TerminateTree"})
               PROVE  Total(t, a) = 1
    BY <1>1 DEF Whole
  <2>1. CASE a = i
    <3>1. Total(s, i) = 0
      BY DEF OneShot
    <3>. QED  BY <1>1, <2>1, <3>1 DEF Total, IssuedOK
  <2>2. CASE a # i
    <3>1. Total(s, a) = 1
      BY <2>2 DEF Sound, Whole
    <3>. QED  BY <1>1, <2>2, <3>1 DEF Total
  <2>. QED  BY <2>1, <2>2
<1>. QED  BY <1>1, <1>2, <1>3 DEF Sound, Kept, t

-----------------------------------------------------------------------------
(* Every handler leaves a sound record, and moves an attempt as it may.     *)

\* The handlers of an answer in the forward protocol or in the cleanup tail.
LEMMA SoundReply ==
  ASSUME NEW s, IssuedOK, Ready(s), Sound(s),
         NEW e \in Phases, NEW p \in Phases, NEW i \in Intents,
         <<e, p, i>> \in {<<"Create", "Attach", "AttachSeparatedStreams">>,
                         <<"Attach", "Start", "Start">>,
                         <<"Stdin", "StdinEof", "CloseStdin">>,
                         <<"StdinEof", "Running", "Wait">>,
                         <<"Terminate", "Inspect", "Inspect">>,
                         <<"EmptyTree", "Cleanup", "Cleanup">>}
  PROVE  Moved(s, Reply(s, e, p, i))
<1>0. s \in Controllers /\ OneShot(s) /\ s.actions = {} /\ (s.phase = "Terminate" => s.failed)
      /\ Ran(s) /\ (s.failed => s.phase \in CleanupTail \cup {"Inspect"})
  BY DEF Ready, Core, Sound, Lawful
<1>1. CASE s.phase # e
  BY <1>0, <1>1, SoundReject DEF Reply
<1>2. CASE s.phase = e
  <2>1. p \in Phases \ {"Finalizable"} /\ s.phase # "Finalizable"
    BY <1>2
  <2>2. /\ p \in {"Stdin", "StdinEof", "Running", "Drain"} => s.started
        /\ p = "Inspect" /\ ~s.failed => s.started
        /\ p \in {"Create", "Attach", "Start"} => ~s.started
    BY <1>0, <1>2 DEF Ran
  <2>3. ~s.failed => /\ i \in Future(s.phase)
                     /\ Future(s.phase) \subseteq Future(p) \cup {i, "TerminateTree"}
    BY <1>0, <1>2 DEF Future, Intents
  <2>4. Sound(Intend(s, p, i)) /\ Kept(s, Intend(s, p, i))
    BY <1>0, <2>1, <2>2, <2>3, SoundIntend
  <2>. QED  BY <1>2, <2>4 DEF Reply, Moved
<1>. QED  BY <1>1, <1>2

\* Started is where the attempt starts.
LEMMA SoundStarted ==
  ASSUME NEW s, IssuedOK, Ready(s), Sound(s)  PROVE Moved(s, OnStarted(s))
<1>0. s \in Controllers /\ OneShot(s) /\ s.actions = {}
      /\ (s.failed => s.phase \in CleanupTail \cup {"Inspect"})
  BY DEF Ready, Core
<1>1. CASE s.phase # "Start"
  BY <1>0, <1>1, SoundReject DEF OnStarted
<1>2. CASE s.phase = "Start"
  <2> DEFINE t == [s EXCEPT !.started = TRUE]
             u == [s EXCEPT !.started = TRUE, !.phase = "Stdin", !.actions = {"SendExactStdin"}]
  <2>1. ~s.failed /\ ~s.started
    BY <1>0, <1>2 DEF Sound, Lawful, Ran, CleanupTail
  <2>2. OnStarted(s) = u
    BY <1>0, <1>2 DEF OnStarted, Intend, Controllers
  <2>3. /\ u.failures = s.failures /\ u.exhausted = s.exhausted /\ u.last = s.last
        /\ u.streams = s.streams /\ u.started /\ u.exit = s.exit
        /\ u.failed = s.failed /\ u.cleanup = s.cleanup
        /\ u.phase = "Stdin" /\ u.actions = {"SendExactStdin"}
    BY <1>0 DEF Controllers
  <2> HIDE DEF u
  <2>4. Lawful(u) /\ Open(u)
    BY <1>2, <2>3 DEF Sound, Open, Lawful, Counted, Dated, Cut, Ran, Held, HasFact
  <2>5. Whole(u)
    <3> SUFFICES ASSUME NEW a \in Intents \ (Future("Stdin") \cup {"TerminateTree"})
                 PROVE  Total(u, a) = 1
      BY <2>3 DEF Whole
    <3>1. CASE a = "SendExactStdin"
      <4>1. Total(s, "SendExactStdin") = 0
        BY <1>0, <1>2 DEF OneShot, Future, Intents
      <4>. QED  BY <1>0, <2>3, <3>1, <4>1 DEF Total, IssuedOK
    <3>2. CASE a # "SendExactStdin"
      <4>1. a \notin Future(s.phase)
        BY <1>2, <3>2 DEF Future, Intents
      <4>2. Total(s, a) = 1
        BY <2>1, <4>1 DEF Sound, Whole
      <4>. QED  BY <1>0, <2>3, <3>2, <4>2 DEF Total
    <3>. QED  BY <3>1, <3>2
  <2>. QED  BY <2>1, <2>2, <2>3, <2>4, <2>5 DEF Moved, Sound, Begun
<1>. QED  BY <1>1, <1>2

\* What capturing keeps: the attempt, its batch, and the facts with their budget.
Filed(s, t) ==
  /\ t \in Controllers /\ Lawful(t) /\ Open(t) /\ Kept(s, t)
  /\ t.phase = s.phase /\ t.failed = s.failed /\ t.actions = s.actions
  /\ s.failures # {} => t.failures # {}
  /\ s.exhausted => t.exhausted

\* Captures that follow each other.
LEMMA FiledTwice ==
  ASSUME NEW s, NEW t, NEW u, Filed(s, t), Filed(t, u)
  PROVE  Filed(s, u)
BY DEF Filed, Kept

\* A fact of the captured streams.
LEMMA FiledFact ==
  ASSUME NEW s \in Controllers, Lawful(s), Open(s),
         NEW k \in {"Transport", "StdoutLimit", "StderrLimit"}
  PROVE  Filed(s, Fact(s, k))
<1>1. k \in Kinds /\ k # "Deadline" /\ k # "Memory" /\ k # "MissingExit" /\ "MissingExit" \in Kinds
  BY DEF Kinds
<1>. QED  BY <1>1, FactLemma, LawfulFact DEF Filed, Open

\* An error of the captured streams.
LEMMA FiledError ==
  ASSUME NEW s \in Controllers, Lawful(s), Open(s)
  PROVE  Filed(s, CaptureError(s))
<1> DEFINE t == Fact(s, "Transport")
<1>1. Filed(s, t)
  BY FiledFact
<1> HIDE DEF t
<1>2. Filed(t, Diagnostic(t, 1))
  <2>1. "MissingExit" \in Kinds /\ 1 \in Nat /\ t \in Controllers /\ Lawful(t) /\ Open(t)
    BY <1>1 DEF Kinds, Filed
  <2>2. /\ Lawful(Diagnostic(t, 1)) /\ Kept(t, Diagnostic(t, 1))
        /\ \A j \in Kinds : HasFact(Diagnostic(t, 1), j) <=> HasFact(t, j)
        /\ Diagnostic(t, 1).exhausted = t.exhausted
    BY <2>1, LawfulDiagnostic
  <2>3. /\ Diagnostic(t, 1) \in Controllers
        /\ Diagnostic(t, 1).failures = t.failures
        /\ Diagnostic(t, 1).phase = t.phase
        /\ Diagnostic(t, 1).failed = t.failed
        /\ Diagnostic(t, 1).actions = t.actions
    BY <2>1, DiagnosticLemma
  <2>. QED  BY <2>1, <2>2, <2>3 DEF Filed, Open
<1>. QED  BY <1>1, <1>2, FiledTwice DEF CaptureError, t

\* Pushing output: a stream that is cut has its limit fact, or the budget is exhausted.
LEMMA FiledPush ==
  ASSUME NEW s \in Controllers, Lawful(s), Open(s), s.started, NEW k \in Streams, NEW n \in Nat
  PROVE  Filed(s, Push(s, k, n))
<1>0. /\ s.streams \in [Streams -> Captures] /\ s.streams[k].bytes \in 0 .. StreamLimit
      /\ s.streams[k] \in Captures /\ StreamLimit \in 0 .. StreamLimit
  BY ControllerAssumption DEF Controllers, Captures
<1>1. CASE n = 0
  BY <1>1 DEF Push, Filed, Kept
<1>2. CASE n # 0 /\ Closed(s, k)
  BY <1>2, FiledError DEF Push
<1>3. CASE n # 0 /\ ~Closed(s, k) /\ s.streams[k].bytes + n > StreamLimit
  <2> DEFINE c == [s.streams[k] EXCEPT !.bytes = StreamLimit, !.exceeded = TRUE]
             t == [s EXCEPT !.streams = [s.streams EXCEPT ![k] = c]]
             u == Fact(t, LimitKind(k))
  <2>1. /\ c \in Captures /\ c.bytes = StreamLimit /\ c.exceeded
        /\ ~c.complete
    BY <1>0, <1>3 DEF Captures, Closed
  <2> HIDE DEF c
  <2>2. /\ t \in Controllers /\ t.phase = s.phase /\ t.failed = s.failed /\ t.last = s.last
        /\ t.actions = s.actions /\ t.failures = s.failures /\ t.exhausted = s.exhausted
        /\ t.started = s.started /\ t.exit = s.exit /\ t.cleanup = s.cleanup
        /\ t.streams = [s.streams EXCEPT ![k] = c]
    BY <1>0, <2>1 DEF Controllers
  <2>3. t.streams[k] = c /\ \A j \in Streams \ {k} : t.streams[j] = s.streams[j]
    BY <1>0, <2>2
  <2> HIDE DEF t
  <2>4. LimitKind(k) \in Kinds \ {"Deadline", "Memory", "MissingExit"} /\ "MissingExit" \in Kinds
    BY DEF LimitKind, Kinds
  <2>5. /\ u \in Controllers /\ u.failures # {} /\ u.phase = t.phase /\ u.streams = t.streams
        /\ u.failed = t.failed /\ u.actions = t.actions /\ u.last = t.last
    BY <2>2, <2>4, FactLemma
  \* The fact itself is the one that the state before the cut would have got.
  <2> DEFINE v == Fact(s, LimitKind(k))
  <2>6. /\ u.failures = v.failures /\ u.exhausted = v.exhausted /\ u.started = s.started
        /\ u.exit = s.exit /\ u.cleanup = s.cleanup /\ v.last = s.last
    BY <2>2 DEF Fact, Controllers
  <2>7. /\ Lawful(v) /\ v.started = s.started
        /\ HasFact(v, LimitKind(k)) \/ v.exhausted
        /\ (s.exhausted => v.exhausted) /\ ~HasFact(v, "MissingExit")
        /\ \A j \in Kinds : HasFact(s, j) => HasFact(v, j)
    BY <2>4, LawfulFact DEF Open, Kept
  <2> HIDE DEF u, v
  <2>8. Cut(u)
    <3> SUFFICES ASSUME NEW j \in Streams, u.streams[j].exceeded
                 PROVE  /\ HasFact(u, LimitKind(j)) \/ u.exhausted
                        /\ ~u.streams[j].complete /\ u.streams[j].bytes = StreamLimit
      BY DEF Cut
    <3>1. CASE j = k
      BY <2>1, <2>3, <2>5, <2>6, <2>7, <3>1 DEF HasFact
    <3>2. CASE j # k
      <4>1. u.streams[j] = s.streams[j] /\ LimitKind(j) \in Kinds
        BY <2>3, <2>5, <3>2 DEF LimitKind, Kinds
      <4>2. /\ HasFact(s, LimitKind(j)) \/ s.exhausted
            /\ ~s.streams[j].complete /\ s.streams[j].bytes = StreamLimit
        BY <4>1 DEF Lawful, Cut
      <4>. QED  BY <2>6, <2>7, <4>1, <4>2 DEF HasFact
    <3>. QED  BY <3>1, <3>2
  <2>9. Counted(u) /\ Dated(u)
    BY <2>2, <2>5, <2>6, <2>7 DEF Lawful, Counted, Dated
  <2>10. Ran(u) /\ Held(u) /\ Open(u)
    BY <2>2, <2>5, <2>6, <2>7 DEF Lawful, Ran, Held, Open, HasFact
  <2>11. Push(s, k, n) = u
    <3>1. [s EXCEPT !.streams[k].bytes = StreamLimit, !.streams[k].exceeded = TRUE] = t
      BY <1>0 DEF t, c, Controllers
    <3>. QED  BY <1>3, <3>1 DEF Push, u
  <2>. QED  BY <2>2, <2>5, <2>6, <2>7, <2>8, <2>9, <2>10, <2>11 DEF Filed, Lawful, Kept
<1>4. CASE n # 0 /\ ~Closed(s, k) /\ ~(s.streams[k].bytes + n > StreamLimit)
  <2> DEFINE c == [s.streams[k] EXCEPT !.bytes = @ + n]
             t == [s EXCEPT !.streams = [s.streams EXCEPT ![k] = c]]
  <2>1. c \in Captures /\ ~c.exceeded
    <3>1. s.streams[k].bytes + n \in 0 .. StreamLimit
      BY <1>0, <1>4, ControllerAssumption
    <3>. QED  BY <1>0, <1>4, <3>1 DEF Captures, Closed
  <2>2. Push(s, k, n) = t
    BY <1>4, <1>0 DEF Push, Controllers
  <2> HIDE DEF c
  <2>3. /\ t \in Controllers /\ t.phase = s.phase /\ t.failed = s.failed /\ t.last = s.last
        /\ t.actions = s.actions /\ t.failures = s.failures /\ t.exhausted = s.exhausted
        /\ t.started = s.started /\ t.exit = s.exit /\ t.cleanup = s.cleanup
        /\ t.streams = [s.streams EXCEPT ![k] = c]
    BY <1>0, <2>1 DEF Controllers
  <2>4. t.streams[k] = c /\ \A j \in Streams \ {k} : t.streams[j] = s.streams[j]
    BY <1>0, <2>3
  <2> HIDE DEF t
  <2>5. Lawful(t) /\ Open(t)
    BY <2>1, <2>3, <2>4 DEF Lawful, Counted, Dated, Cut, Ran, Held, Open, HasFact
  <2>. QED  BY <2>2, <2>3, <2>5 DEF Filed, Kept
<1>. QED  BY <1>1, <1>2, <1>3, <1>4

\* Closing a stream: a stream that was cut is never called complete.
LEMMA FiledEof ==
  ASSUME NEW s \in Controllers, Lawful(s), Open(s), s.started,
         NEW k \in Streams, NEW close \in BOOLEAN
  PROVE  Filed(s, Eof(s, k, close))
<1>0. s.streams \in [Streams -> Captures] /\ s.streams[k] \in Captures
  BY DEF Controllers
<1>1. CASE ~close
  BY <1>1 DEF Eof, Filed, Kept
<1>2. CASE close /\ Closed(s, k)
  BY <1>2, FiledError DEF Eof
<1>3. CASE close /\ ~Closed(s, k)
  <2> DEFINE c == [s.streams[k] EXCEPT !.complete = TRUE]
             t == [s EXCEPT !.streams = [s.streams EXCEPT ![k] = c]]
  <2>1. c \in Captures /\ ~c.exceeded
    BY <1>0, <1>3 DEF Captures, Closed
  <2>2. Eof(s, k, close) = t
    BY <1>3, <1>0 DEF Eof, Controllers
  <2> HIDE DEF c
  <2>3. /\ t \in Controllers /\ t.phase = s.phase /\ t.failed = s.failed /\ t.last = s.last
        /\ t.actions = s.actions /\ t.failures = s.failures /\ t.exhausted = s.exhausted
        /\ t.started = s.started /\ t.exit = s.exit /\ t.cleanup = s.cleanup
        /\ t.streams = [s.streams EXCEPT ![k] = c]
    BY <1>0, <2>1 DEF Controllers
  <2>4. t.streams[k] = c /\ \A j \in Streams \ {k} : t.streams[j] = s.streams[j]
    BY <1>0, <2>3
  <2> HIDE DEF t
  <2>5. Lawful(t) /\ Open(t)
    BY <2>1, <2>3, <2>4 DEF Lawful, Counted, Dated, Cut, Ran, Held, Open, HasFact
  <2>. QED  BY <2>2, <2>3, <2>5 DEF Filed, Kept
<1>. QED  BY <1>1, <1>2, <1>3

\* Captures that left evidence are stopped, captures that left none go on.
LEMMA SoundFiled ==
  ASSUME NEW s \in Controllers, Sound(s), NEW t, Filed(s, t)
  PROVE  Moved(s, t) /\ Moved(s, Stop(t))
<1>1. Whole(t)
  BY DEF Sound, Whole, Total, Filed
<1>2. Moved(s, t)
  BY <1>1 DEF Filed, Moved, Sound
<1>3. Lawful(Stop(t)) /\ Kept(t, Stop(t)) /\ Stop(t).failed /\ ~HasFact(Stop(t), "MissingExit")
  BY LawfulStop DEF Filed, Open, Kinds
<1>4. Kept(s, Stop(t))
  BY <1>3, KeptTwice DEF Filed
<1>. QED  BY <1>2, <1>3, <1>4 DEF Moved, Sound, Open, Whole

\* Output, in every phase.
LEMMA SoundOutput ==
  ASSUME NEW s, IssuedOK, Ready(s), Sound(s), NEW out \in Nat, NEW err \in Nat
  PROVE  Moved(s, OnOutput(s, out, err))
<1> DEFINE t == Push(s, "stdout", out)  u == Push(t, "stderr", err)
<1>0. s \in Controllers /\ Lawful(s) /\ Open(s)
  BY DEF Ready, Core, Sound
<1>1. CASE ~AllowCapture(s)
  BY <1>0, <1>1, SoundReject DEF OnOutput
<1>2. CASE AllowCapture(s)
  <2>1. s.started
    BY <1>0, <1>2 DEF AllowCapture, Lawful, Ran
  <2>2. Filed(s, t)
    BY <1>0, <2>1, FiledPush DEF Streams
  <2>3. t \in Controllers /\ Lawful(t) /\ Open(t) /\ t.started
    BY <2>1, <2>2 DEF Filed, Kept
  <2> HIDE DEF t
  <2>4. Filed(t, u)
    BY <2>3, FiledPush DEF Streams
  <2>5. Filed(s, u)
    BY <2>2, <2>4, FiledTwice
  <2> HIDE DEF u
  <2>6. Moved(s, u) /\ Moved(s, Stop(u))
    BY <1>0, <2>5, SoundFiled
  <2>. QED  BY <1>2, <2>6 DEF OnOutput, t, u
<1>. QED  BY <1>1, <1>2

\* StreamsClosed, in every phase.
LEMMA SoundStreamsClosed ==
  ASSUME NEW s, IssuedOK, Ready(s), Sound(s), NEW out \in BOOLEAN, NEW err \in BOOLEAN
  PROVE  Moved(s, OnStreamsClosed(s, out, err))
<1> DEFINE t == Eof(s, "stdout", out)  u == Eof(t, "stderr", err)
<1>0. s \in Controllers /\ Lawful(s) /\ Open(s) /\ OneShot(s) /\ s.actions = {}
  BY DEF Ready, Core, Sound
<1>1. CASE ~(AllowCapture(s) /\ (out \/ err))
  BY <1>0, <1>1, SoundReject DEF OnStreamsClosed
<1>2. CASE AllowCapture(s) /\ (out \/ err)
  <2>1. s.started /\ ~s.failed
    BY <1>0, <1>2 DEF AllowCapture, Lawful, Ran
  <2>2. Filed(s, t)
    BY <1>0, <2>1, FiledEof DEF Streams
  <2>3. t \in Controllers /\ Lawful(t) /\ Open(t) /\ t.started
    BY <2>1, <2>2 DEF Filed, Kept
  <2> HIDE DEF t
  <2>4. Filed(t, u)
    BY <2>3, FiledEof DEF Streams
  <2>5. Filed(s, u)
    BY <2>2, <2>4, FiledTwice
  <2> HIDE DEF u
  <2>6. Moved(s, u) /\ Moved(s, Stop(u))
    BY <1>0, <2>5, SoundFiled
  <2>7. CASE u.phase = "Drain"
    <3>1. u \in Controllers /\ Sound(u) /\ u.actions = {} /\ OneShot(u)
      BY <1>0, <2>5, <2>6, OneShotFrame DEF Filed, Moved
    <3>2. /\ "ConfirmEmptyTree" \in Future(u.phase)
          /\ Future(u.phase) \subseteq Future("EmptyTree") \cup {"ConfirmEmptyTree", "TerminateTree"}
          /\ "EmptyTree" \in Phases \ {"Finalizable"} /\ "ConfirmEmptyTree" \in Intents
      BY <2>7 DEF Future, Phases, Intents
    <3> DEFINE v == Intend(u, "EmptyTree", "ConfirmEmptyTree")
    <3>3. Sound(v) /\ Kept(u, v)
      BY <2>7, <3>1, <3>2, SoundIntend
    <3> HIDE DEF v
    <3>4. Moved(s, v)
      BY <2>5, <3>3, KeptTwice DEF Moved, Filed
    <3>. QED  BY <1>2, <2>6, <3>4 DEF OnStreamsClosed, t, u, v
  <2>8. CASE u.phase # "Drain"
    BY <1>2, <2>6, <2>8 DEF OnStreamsClosed, t, u
  <2>. QED  BY <2>7, <2>8
<1>. QED  BY <1>1, <1>2

\* Exit, before or after a termination.
LEMMA SoundExit ==
  ASSUME NEW s, IssuedOK, Ready(s), Sound(s), NEW x \in Exits
  PROVE  Moved(s, OnExit(s, x))
<1> DEFINE t == [s EXCEPT !.exit = x]
           taken == /\ s.started /\ s.exit = "None"
                    /\ s.phase = "Running" \/ (s.failed /\ s.phase \in {"Terminate", "Inspect"})
<1>0. s \in Controllers /\ OneShot(s) /\ s.actions = {}
  BY DEF Ready, Core
<1>1. CASE ~taken
  BY <1>0, <1>1, SoundReject DEF OnExit
<1>2. CASE taken
  <2>1. /\ t \in Controllers /\ t.phase = s.phase /\ t.failed = s.failed /\ t.last = s.last
        /\ t.actions = s.actions /\ t.failures = s.failures /\ t.exhausted = s.exhausted
        /\ t.started = s.started /\ t.streams = s.streams /\ t.cleanup = s.cleanup
    BY <1>0 DEF Controllers
  <2> HIDE DEF t
  <2>2. Lawful(t) /\ Open(t)
    BY <1>2, <2>1
       DEF Sound, Open, Lawful, Counted, Dated, Cut, Ran, Held, HasFact
  <2>3. Whole(t) /\ OneShot(t)
    BY <1>0, <2>1, OneShotFrame DEF Sound, Whole, Total
  <2>4. Moved(s, t)
    BY <2>1, <2>2, <2>3 DEF Moved, Sound, Kept
  <2>5. CASE s.phase = "Running"
    <3>1. /\ "Inspect" \in Future(t.phase)
          /\ Future(t.phase) \subseteq Future("Inspect") \cup {"Inspect", "TerminateTree"}
          /\ "Inspect" \in Phases \ {"Finalizable"} /\ "Inspect" \in Intents
      BY <2>1, <2>5 DEF Future, Phases, Intents
    <3> DEFINE u == Intend(t, "Inspect", "Inspect")
    <3>2. t.started /\ t.actions = {} /\ t.phase # "Finalizable"
      BY <1>0, <1>2, <2>1, <2>5
    <3>3. Sound(u) /\ Kept(t, u)
      BY <2>1, <2>3, <2>4, <3>1, <3>2, SoundIntend DEF Moved
    <3> HIDE DEF u
    <3>4. Moved(s, u)
      BY <2>1, <3>3 DEF Moved, Kept
    <3>. QED  BY <1>2, <2>5, <3>4 DEF OnExit, t, u
  <2>6. CASE s.phase # "Running"
    BY <1>2, <2>4, <2>6 DEF OnExit, t
  <2>. QED  BY <2>5, <2>6
<1>. QED  BY <1>1, <1>2

\* Inspected, with or without the end of both streams.
LEMMA SoundInspected ==
  ASSUME NEW s, IssuedOK, Ready(s), Sound(s)  PROVE Moved(s, OnInspected(s))
<1>0. s \in Controllers /\ OneShot(s) /\ s.actions = {} /\ Ran(s)
  BY DEF Ready, Core, Sound, Lawful
<1>1. CASE s.phase # "Inspect"
  BY <1>0, <1>1, SoundReject DEF OnInspected
<1>2. CASE s.phase = "Inspect" /\ (s.failed \/ CaptureReady(s))
  <2>1. /\ "ConfirmEmptyTree" \in Future(s.phase)
        /\ Future(s.phase) \subseteq Future("EmptyTree") \cup {"ConfirmEmptyTree", "TerminateTree"}
        /\ "EmptyTree" \in Phases \ {"Finalizable"} /\ "ConfirmEmptyTree" \in Intents
    BY <1>2 DEF Future, Phases, Intents
  <2> DEFINE u == Intend(s, "EmptyTree", "ConfirmEmptyTree")
  <2>2. Sound(u) /\ Kept(s, u)
    BY <1>0, <1>2, <2>1, SoundIntend
  <2>. QED  BY <1>2, <2>2 DEF OnInspected, Moved
<1>3. CASE s.phase = "Inspect" /\ ~(s.failed \/ CaptureReady(s))
  <2> DEFINE t == [s EXCEPT !.phase = "Drain"]
  <2>1. /\ t.phase = "Drain" /\ t.failed = s.failed /\ t.last = s.last
        /\ t.actions = s.actions /\ t.failures = s.failures /\ t.exhausted = s.exhausted
        /\ t.started = s.started /\ t.streams = s.streams /\ t.cleanup = s.cleanup
        /\ t.exit = s.exit
    BY <1>0 DEF Controllers
  <2>2. OnInspected(s) = t
    BY <1>3 DEF OnInspected
  <2> HIDE DEF t
  <2>3. Lawful(t) /\ Open(t)
    BY <1>0, <1>3, <2>1 DEF Sound, Open, Lawful, Counted, Dated, Cut, Ran, Held, HasFact
  <2>4. Future("Drain") \cup {"TerminateTree"} = Future(s.phase) \cup {"TerminateTree"}
    BY <1>3 DEF Future
  <2>5. Whole(t)
    BY <2>1, <2>4 DEF Sound, Whole, Total
  <2>. QED  BY <2>1, <2>2, <2>3, <2>5 DEF Moved, Sound, Kept
<1>. QED  BY <1>1, <1>2, <1>3

\* OomKilled, asked for or not: a memory fact belongs to a started attempt.
LEMMA SoundOom ==
  ASSUME NEW s, IssuedOK, Ready(s), Sound(s)  PROVE Moved(s, OnOomKilled(s))
<1> DEFINE t == Fact(s, "Memory")
<1>0. s \in Controllers /\ Lawful(s) /\ Open(s)
  BY DEF Ready, Core, Sound
<1>1. CASE s.started
  <2>1. "Memory" \in Kinds /\ "MissingExit" \in Kinds
    BY DEF Kinds
  <2>2. Lawful(t) /\ Kept(s, t) /\ t \in Controllers /\ ~HasFact(t, "MissingExit")
    BY <1>0, <1>1, <2>1, LawfulFact, FactLemma DEF Open
  <2> HIDE DEF t
  <2>3. Lawful(Stop(t)) /\ Kept(t, Stop(t)) /\ Stop(t).failed /\ ~HasFact(Stop(t), "MissingExit")
    BY <2>1, <2>2, LawfulStop
  <2>4. Moved(s, Stop(t))
    BY <2>2, <2>3, KeptTwice DEF Moved, Sound, Open, Whole
  <2>5. Moved(s, Reject(s))
    BY <1>0, SoundReject
  <2>. QED  BY <2>4, <2>5 DEF OnOomKilled, t
<1>2. CASE ~s.started
  BY <1>0, <1>2, SoundReject DEF OnOomKilled
<1>. QED  BY <1>1, <1>2

\* Interrupted and TransportFailed.
LEMMA SoundBroken ==
  ASSUME NEW s, IssuedOK, Ready(s), Sound(s), NEW k \in {"Interrupted", "Transport"}, NEW n \in Nat
  PROVE  Moved(s, OnBroken(s, k, n))
<1>1. s \in Controllers
  BY DEF Ready, Core
<1>2. k \in Kinds \ {"Deadline", "MissingExit"} /\ k # "Memory"
  BY DEF Kinds
<1>3. Moved(s, Stop(Diagnostic(Fact(s, k), n)))
  BY <1>1, <1>2, SoundFault
<1>. QED  BY <1>1, <1>3, SoundReject DEF OnBroken

\* The end of the tail: an attempt that fails to be cleaned up says so.
LEMMA SoundFinalize ==
  ASSUME NEW s \in Controllers, Lawful(s), Open(s), s.phase \in {"EmptyTree", "Cleanup"},
         NEW c \in {"Unknown", "Failed"}
  PROVE  /\ Sound(Finalize(s, c)) /\ Ended(s, Finalize(s, c)) /\ Finalize(s, c).failed
         /\ Finalize(s, c) \in Controllers
<1> DEFINE t == [s EXCEPT !.cleanup = c]  u == Fact(t, "Cleanup")  w == Fact(s, "Cleanup")
           v == [u EXCEPT !.phase = "Finalizable", !.failed = TRUE]
<1>0. "Cleanup" \in Kinds /\ "MissingExit" \in Kinds
  BY DEF Kinds
<1>1. /\ t \in Controllers /\ t.phase = s.phase /\ t.failed = s.failed /\ t.last = s.last
      /\ t.failures = s.failures /\ t.exhausted = s.exhausted
      /\ t.started = s.started /\ t.streams = s.streams /\ t.exit = s.exit
  BY DEF Controllers
<1>2. Lawful(w) /\ Kept(s, w) /\ ~HasFact(w, "MissingExit") /\ w.exit = s.exit
      /\ w.last = s.last /\ w.streams = s.streams
  BY <1>0, LawfulFact, FactLemma DEF Open
<1>3. /\ u \in Controllers /\ u.failures = w.failures /\ u.exhausted = w.exhausted
      /\ u.last = s.last /\ u.streams = s.streams /\ u.started = s.started /\ u.exit = s.exit
  <2>1. u \in Controllers /\ u.last = t.last /\ u.streams = t.streams
    BY <1>0, <1>1, FactLemma
  <2>. QED  BY <1>1, <2>1 DEF Fact, Controllers
<1> HIDE DEF t, u, w
<1>4. /\ v \in Controllers /\ v.failures = w.failures /\ v.exhausted = w.exhausted
      /\ v.last = s.last /\ v.streams = s.streams /\ v.started = s.started /\ v.exit = s.exit
      /\ v.phase = "Finalizable" /\ v.failed
  BY <1>3 DEF Controllers, Phases
<1>5. v = Finalize(s, c)
  BY DEF Finalize, u, t
<1> HIDE DEF v
<1>6. Lawful(v) /\ Open(v)
  BY <1>2, <1>4 DEF Lawful, Counted, Dated, Cut, Ran, Held, Open, HasFact, Kept
<1>7. s.cleanup = "Unknown"
  BY DEF Lawful, Held
<1>. QED  BY <1>4, <1>5, <1>6, <1>7 DEF Sound, Whole, Ended

\* ControlFailed, for the operation the phase waits for or another one.
LEMMA SoundControlFailed ==
  ASSUME NEW s, IssuedOK, Ready(s), Sound(s), NEW op \in Operations, NEW n \in Nat
  PROVE  Moved(s, OnControlFailed(s, op, n))
<1> DEFINE f == Fact(s, "Control")  d == Diagnostic(f, n)  t == [d EXCEPT !.failed = TRUE]
<1>0. s \in Controllers /\ Lawful(s) /\ Open(s) /\ s.actions = {}
      /\ "Control" \in Kinds /\ "MissingExit" \in Kinds
  BY DEF Ready, Core, Sound, Kinds
<1>1. /\ f \in Controllers /\ f.phase = s.phase /\ f.actions = s.actions
      /\ Lawful(f) /\ Kept(s, f) /\ ~HasFact(f, "MissingExit")
  BY <1>0, FactLemma, LawfulFact DEF Open
<1> HIDE DEF f
<1>2. /\ d \in Controllers /\ d.phase = s.phase /\ d.actions = s.actions
      /\ Lawful(d) /\ Kept(f, d) /\ ~HasFact(d, "MissingExit")
  BY <1>0, <1>1, DiagnosticLemma, LawfulDiagnostic
<1> HIDE DEF d
<1>3. /\ t \in Controllers /\ t.phase = s.phase /\ t.failed /\ t.actions = {}
      /\ t.failures = d.failures /\ t.exhausted = d.exhausted /\ t.last = d.last
      /\ t.streams = d.streams /\ t.started = d.started /\ t.exit = d.exit
      /\ t.cleanup = d.cleanup
  BY <1>0, <1>2 DEF Controllers
<1> HIDE DEF t
<1>4. Lawful(t) /\ Open(t) /\ Kept(s, t) /\ Sound(t)
  BY <1>1, <1>2, <1>3
     DEF Sound, Whole, Open, Lawful, Counted, Dated, Cut, Ran, Held, HasFact, Kept
<1>5. CASE ExpectedOperation(s.phase) # op
  BY <1>0, <1>5, SoundReject DEF OnControlFailed
<1>6. CASE ExpectedOperation(s.phase) = op /\ s.phase \in {"Terminate", "Inspect"}
  <2>1. PICK p \in {"Inspect", "Terminate", "EmptyTree"},
             i \in {"Inspect", "TerminateTree", "ConfirmEmptyTree"} :
               OnControlFailed(s, op, n) = Intend(t, p, i)
    BY <1>6 DEF OnControlFailed, t, d, f
  <2>2. p \in Phases \ {"Finalizable"} /\ i \in Intents
    BY DEF Phases, Intents
  <2>3. Sound(Intend(t, p, i)) /\ Kept(t, Intend(t, p, i))
    BY <1>3, <1>4, <1>6, <2>2, SoundIntend
  <2>. QED  BY <1>4, <2>1, <2>3, KeptTwice DEF Moved
<1>7. CASE ExpectedOperation(s.phase) = op /\ s.phase \in {"EmptyTree", "Cleanup"}
  <2>1. PICK c \in {"Unknown", "Failed"} : OnControlFailed(s, op, n) = Finalize(t, c)
    BY <1>7 DEF OnControlFailed, t, d, f
  <2>2. Sound(Finalize(t, c)) /\ Ended(t, Finalize(t, c))
    BY <1>3, <1>4, <1>7, SoundFinalize
  <2>. QED  BY <1>4, <2>1, <2>2 DEF Moved, Ended, Kept
<1>8. CASE ExpectedOperation(s.phase) = op
           /\ s.phase \notin {"Terminate", "Inspect", "EmptyTree", "Cleanup"}
  <2>1. OnControlFailed(s, op, n) = Stop(t)
    BY <1>8 DEF OnControlFailed, t, d, f
  <2>2. Lawful(Stop(t)) /\ Kept(t, Stop(t)) /\ Stop(t).failed /\ ~HasFact(Stop(t), "MissingExit")
    BY <1>0, <1>3, <1>4, LawfulStop DEF Open
  <2>. QED  BY <1>4, <2>1, <2>2, KeptTwice DEF Moved, Sound, Open, Whole
<1>. QED  BY <1>5, <1>6, <1>7, <1>8

\* A tree that is not empty ends the tail with a failed cleanup.
LEMMA SoundTreeNotEmpty ==
  ASSUME NEW s, IssuedOK, Ready(s), Sound(s)  PROVE Moved(s, OnTreeNotEmpty(s))
<1>1. s \in Controllers /\ Lawful(s) /\ Open(s)
  BY DEF Ready, Core, Sound
<1>2. s.phase = "EmptyTree" => Moved(s, Finalize(s, "Failed"))
  BY <1>1, SoundFinalize DEF Moved
<1>. QED  BY <1>1, <1>2, SoundReject DEF OnTreeNotEmpty

\* A confirmed cleanup ends the tail: every intent but the termination has been issued.
LEMMA SoundCleaned ==
  ASSUME NEW s, IssuedOK, Ready(s), Sound(s)  PROVE Moved(s, OnCleaned(s))
<1> DEFINE t == [s EXCEPT !.cleanup = "ConfirmedEmpty", !.phase = "Finalizable"]
<1>0. s \in Controllers
  BY DEF Ready, Core
<1>1. CASE s.phase # "Cleanup"
  BY <1>0, <1>1, SoundReject DEF OnCleaned
<1>2. CASE s.phase = "Cleanup"
  <2>1. /\ t.phase = "Finalizable" /\ t.failed = s.failed /\ t.last = s.last
        /\ t.actions = s.actions /\ t.failures = s.failures /\ t.exhausted = s.exhausted
        /\ t.started = s.started /\ t.streams = s.streams /\ t.exit = s.exit
    BY <1>0 DEF Controllers
  <2> HIDE DEF t
  <2>2. Lawful(t) /\ Open(t) /\ s.cleanup = "Unknown"
    BY <1>2, <2>1 DEF Sound, Open, Lawful, Counted, Dated, Cut, Ran, Held, HasFact
  <2>3. Future("Finalizable") = Future(s.phase)
    BY <1>2 DEF Future
  <2>4. Whole(t)
    BY <2>1, <2>3 DEF Sound, Whole, Total
  <2>. QED  BY <1>2, <2>1, <2>2, <2>4 DEF OnCleaned, t, Moved, Sound, Ended
<1>. QED  BY <1>1, <1>2

\* A failed cleanup ends the tail with its evidence.
LEMMA SoundCleanupFailed ==
  ASSUME NEW s, IssuedOK, Ready(s), Sound(s), NEW n \in Nat
  PROVE  Moved(s, OnCleanupFailed(s, n))
<1> DEFINE t == Finalize(s, "Failed")
<1>0. s \in Controllers /\ Lawful(s) /\ Open(s) /\ "MissingExit" \in Kinds
  BY DEF Ready, Core, Sound, Kinds
<1>1. CASE s.phase # "Cleanup"
  BY <1>0, <1>1, SoundReject DEF OnCleanupFailed
<1>2. CASE s.phase = "Cleanup"
  <2>1. Sound(t) /\ Ended(s, t) /\ t.failed /\ t \in Controllers
    BY <1>0, <1>2, SoundFinalize
  <2> HIDE DEF t
  <2>2. /\ Lawful(Diagnostic(t, n)) /\ Kept(t, Diagnostic(t, n)) /\ Diagnostic(t, n).failed
        /\ ~HasFact(Diagnostic(t, n), "MissingExit")
    BY <1>0, <2>1, LawfulDiagnostic DEF Sound, Open, Kept
  <2>3. Moved(s, Diagnostic(t, n))
    BY <2>1, <2>2 DEF Moved, Sound, Open, Whole, Ended, Kept
  <2>. QED  BY <1>2, <2>3 DEF OnCleanupFailed, t
<1>. QED  BY <1>1, <1>2

\* The arrival of an event moves nothing but the clock.
LEMMA SoundArrive ==
  ASSUME Core(ctl), Sound(ctl), NEW at \in Times, ctl.last <= at
  PROVE  Sound(Arrive(at)) /\ Kept(ctl, Arrive(at))
<1> DEFINE t == Arrive(at)
<1>1. /\ t.phase = ctl.phase /\ t.failed = ctl.failed /\ t.last = at
      /\ t.actions = ctl.actions /\ t.failures = ctl.failures /\ t.exhausted = ctl.exhausted
      /\ t.started = ctl.started /\ t.streams = ctl.streams /\ t.exit = ctl.exit
      /\ t.cleanup = ctl.cleanup
  BY DEF Arrive, Core, Controllers
<1>2. \A f \in ctl.failures : f.at \in Nat
  BY DEF Core, Controllers, Facts, Times
<1>3. ctl.last \in Nat /\ at \in Nat
  BY DEF Core, Controllers, Times
<1> HIDE DEF t
<1>4. Dated(t)
  BY <1>1, <1>2, <1>3 DEF Sound, Lawful, Dated
<1>5. Lawful(t) /\ Open(t)
  BY <1>1, <1>4 DEF Sound, Open, Lawful, Counted, Cut, Ran, Held, HasFact
<1>6. Whole(t)
  BY <1>1 DEF Sound, Whole, Total
<1>. QED  BY <1>1, <1>5, <1>6 DEF Sound, Kept, t

\* The deadline: in time, or with its fact, or with an exhausted budget.
LEMMA SoundDeadline ==
  ASSUME NEW s \in Controllers, Lawful(s), Open(s)
  PROVE  /\ Lawful(Deadline(s)) /\ Open(Deadline(s)) /\ Kept(s, Deadline(s))
         /\ Deadline(s) \in Controllers /\ Deadline(s).last = s.last
         /\ Deadline(s).exit = s.exit
         /\ s.last >= WallClock => HasFact(Deadline(s), "Deadline") \/ Deadline(s).exhausted
         /\ Deadline(s) = s \/ (Deadline(s).failures # {} /\ Deadline(s).failed)
<1>1. CASE ~(s.last >= WallClock /\ ~HasFact(s, "Deadline"))
  BY <1>1 DEF Deadline, Kept
<1>2. CASE s.last >= WallClock /\ ~HasFact(s, "Deadline")
  <2> DEFINE f == Fact(s, "Deadline")
  <2>0. "Deadline" \in Kinds /\ "MissingExit" \in Kinds
    BY DEF Kinds
  <2>1. /\ f \in Controllers /\ f.failures # {} /\ f.last = s.last
        /\ Lawful(f) /\ Kept(s, f) /\ ~HasFact(f, "MissingExit") /\ f.exit = s.exit
        /\ HasFact(f, "Deadline") \/ f.exhausted
    BY <1>2, <2>0, FactLemma, LawfulFact DEF Open
  <2> HIDE DEF f
  <2>2. Stop(f) \in Controllers
    <3>1. "Terminate" \in Phases /\ "TerminateTree" \in Intents
      BY DEF Phases, Intents
    <3>2. f.actions \cup {"TerminateTree"} \in SUBSET Intents
      BY <2>1, <3>1 DEF Controllers
    <3>. QED  BY <2>1, <3>1, <3>2 DEF Stop, Intend, Controllers
  <2>3. /\ Lawful(Stop(f)) /\ Kept(f, Stop(f)) /\ Stop(f).failed /\ ~HasFact(Stop(f), "MissingExit")
        /\ Stop(f).exhausted = f.exhausted /\ Stop(f).exit = f.exit /\ Stop(f).last = f.last
        /\ Stop(f).failures = f.failures /\ (HasFact(f, "Deadline") => HasFact(Stop(f), "Deadline"))
    BY <2>0, <2>1, LawfulStop
  <2>. QED  BY <1>2, <2>1, <2>2, <2>3, KeptTwice DEF Deadline, f, Open
<1>. QED  BY <1>1, <1>2

\* The pipeline behind a handler, a batch cut by the deadline included.
LEMMA SoundConclude ==
  ASSUME NEW s, IssuedOK, Handled(s), Sound(s)
  PROVE  Sound(Conclude(s)) /\ Kept(s, Conclude(s))
<1> DEFINE d == Deadline(s)  u == Suppress(d)  b == DiagnosticBudget(u)
<1>0. s \in Controllers /\ Lawful(s) /\ Open(s) /\ Evident(s)
      /\ "Control" \in Kinds /\ "MissingExit" \in Kinds
      /\ WallClock \in Nat
  BY ControllerAssumption DEF Handled, Core, Sound, Kinds
<1>1. /\ Lawful(d) /\ Open(d) /\ Kept(s, d) /\ d \in Controllers
      /\ d.last >= WallClock => HasFact(d, "Deadline") \/ d.exhausted
      /\ d = s \/ d.failed
  BY <1>0, SoundDeadline
<1>2. Whole(d)
  BY <1>1 DEF Sound, Whole
<1>3. d.last >= WallClock => d.failed
  <2> SUFFICES ASSUME d.last >= WallClock, d = s PROVE s.failed
    BY <1>1
  <2>1. CASE HasFact(s, "Deadline")
    BY <1>0, <2>1 DEF Evident, HasFact
  <2>2. CASE s.exhausted
    <3>1. s.failures # {}
      BY <1>0, <2>2, FS_EmptySet, ControllerAssumption DEF Lawful, Counted
    <3>. QED  BY <1>0, <3>1 DEF Evident
  <2>. QED  BY <1>1, <2>1, <2>2
<1> HIDE DEF d
<1>4. d.last \in Nat
  BY <1>1 DEF Controllers, Times
<1>5. Sound(u) /\ Kept(d, u) /\ u \in Controllers
  <2>1. CASE d.last < WallClock
    BY <1>1, <1>2, <2>1 DEF Suppress, Sound, Kept
  <2>2. CASE ~(d.last < WallClock)
    <3> DEFINE batch == {a \in d.actions :
                           \/ a \in {"TerminateTree", "ConfirmEmptyTree", "Cleanup"}
                           \/ a = "Inspect" /\ "TerminateTree" \notin d.actions}
    <3>1. u = [d EXCEPT !.actions = batch]
      BY <2>2 DEF Suppress
    <3>2. batch \in SUBSET Intents
      BY <1>1 DEF Controllers
    <3> HIDE DEF batch
    <3>3. /\ u \in Controllers /\ u.failures = d.failures /\ u.exhausted = d.exhausted
          /\ u.last = d.last /\ u.streams = d.streams /\ u.started = d.started
          /\ u.exit = d.exit /\ u.phase = d.phase /\ u.failed = d.failed /\ u.cleanup = d.cleanup
      BY <1>1, <3>1, <3>2 DEF Controllers
    <3>4. d.failed
      BY <1>0, <1>3, <1>4, <2>2
    <3> HIDE DEF u
    <3>5. Lawful(u)
      BY <1>1, <3>3, LawfulFrame
    <3>. QED  BY <1>1, <3>3, <3>4, <3>5 DEF Sound, Open, HasFact, Whole, Kept
  <2>. QED  BY <2>1, <2>2
<1> HIDE DEF u
<1>6. Sound(b) /\ Kept(u, b)
  <2>1. CASE ~(u.overflow /\ ~HasFact(u, "Control"))
    BY <1>5, <2>1 DEF DiagnosticBudget, Kept
  <2>2. CASE u.overflow /\ ~HasFact(u, "Control")
    <3> DEFINE f == Fact(u, "Control")
    <3>1. f \in Controllers /\ Lawful(f) /\ Kept(u, f) /\ ~HasFact(f, "MissingExit")
      BY <1>0, <1>5, FactLemma, LawfulFact DEF Sound, Open
    <3> HIDE DEF f
    <3>2. Lawful(Stop(f)) /\ Kept(f, Stop(f)) /\ Stop(f).failed /\ ~HasFact(Stop(f), "MissingExit")
      BY <1>0, <3>1, LawfulStop
    <3>3. Sound(Stop(f)) /\ Kept(u, Stop(f))
      BY <3>1, <3>2, KeptTwice DEF Sound, Open, Whole
    <3>. QED  BY <2>2, <3>3 DEF DiagnosticBudget, f
  <2>. QED  BY <2>1, <2>2
<1> HIDE DEF b
<1>7. Kept(s, b)
  BY <1>1, <1>5, <1>6, KeptTwice
<1>. QED  BY <1>6, <1>7 DEF Conclude, b, u, d

\* State t is s with a fact of kind k if c holds.
Completed(s, c, k, t) ==
  /\ t \in Controllers /\ Lawful(t) /\ Kept(s, t) /\ t.exit = s.exit /\ t.last = s.last
  /\ c => HasFact(t, k) \/ t.exhausted
  /\ \A j \in Kinds : /\ HasFact(s, j) => HasFact(t, j)
                      /\ HasFact(t, j) => HasFact(s, j) \/ (j = k /\ c)
  /\ s.exhausted => t.exhausted
  /\ t.failures = {} => ~c /\ t = s

\* What finish() may still record, and what it is then sure of.
LEMMA LawfulFactIf ==
  ASSUME NEW s \in Controllers, Lawful(s), NEW c \in BOOLEAN,
         NEW k \in Kinds \ {"Deadline", "Memory"}
  PROVE  Completed(s, c, k, FactIf(s, c, k))
<1>1. CASE c
  <2>1. /\ Fact(s, k) \in Controllers /\ Fact(s, k).last = s.last /\ Fact(s, k).failures # {}
    BY FactLemma
  <2>2. /\ Lawful(Fact(s, k)) /\ Kept(s, Fact(s, k))
        /\ HasFact(Fact(s, k), k) \/ Fact(s, k).exhausted
        /\ \A j \in Kinds : /\ HasFact(s, j) => HasFact(Fact(s, k), j)
                            /\ HasFact(Fact(s, k), j) => HasFact(s, j) \/ j = k
        /\ s.exhausted => Fact(s, k).exhausted
        /\ Fact(s, k).exit = s.exit
    BY LawfulFact
  <2>. QED  BY <1>1, <2>1, <2>2 DEF FactIf, Completed
<1>2. CASE ~c
  BY <1>2 DEF FactIf, Kept, Completed
<1>. QED  BY <1>1, <1>2

\* The clock of finish(): an older time is itself a fact.
LEMMA SoundTimed ==
  ASSUME NEW s \in Controllers, Lawful(s), Open(s), NEW at \in Times
  PROVE  LET t == IF at < s.last THEN Fact(s, "InvalidSequence") ELSE [s EXCEPT !.last = at]
         IN  /\ t \in Controllers /\ Lawful(t) /\ Open(t) /\ Kept(s, t)
             /\ t.failures = {} => s.failures = {} /\ t.phase = s.phase /\ t.failed = s.failed
<1>1. CASE at < s.last
  <2>1. "InvalidSequence" \in Kinds /\ "MissingExit" \in Kinds
    BY DEF Kinds
  <2>. QED  BY <1>1, <2>1, FactLemma, LawfulFact DEF Open
<1>2. CASE ~(at < s.last)
  <2> DEFINE t == [s EXCEPT !.last = at]
  <2>1. /\ t \in Controllers /\ t.phase = s.phase /\ t.failed = s.failed /\ t.last = at
        /\ t.actions = s.actions /\ t.failures = s.failures /\ t.exhausted = s.exhausted
        /\ t.started = s.started /\ t.streams = s.streams /\ t.exit = s.exit
        /\ t.cleanup = s.cleanup
    BY DEF Controllers
  <2>2. /\ \A f \in s.failures : f.at \in Nat
        /\ s.last \in Nat /\ at \in Nat
    BY DEF Controllers, Facts, Times
  <2> HIDE DEF t
  <2>3. Dated(t)
    BY <1>2, <2>1, <2>2 DEF Lawful, Dated
  <2>4. Lawful(t) /\ Open(t)
    BY <2>1, <2>3 DEF Open, Lawful, Counted, Cut, Ran, Held, HasFact
  <2>. QED  BY <1>2, <2>1, <2>4 DEF Kept, t
<1>. QED  BY <1>1, <1>2

\* What finish() leaves: a counted record that is valid unless a fact was lost, and
\* one without failures only of an attempt that ended in time.
LEMMA ClosingLemma ==
  ASSUME NEW s \in Controllers, Lawful(s), Open(s), NEW at \in Times
  PROVE  LET t == Closing(s, at)
         IN  /\ Counted(t) /\ Kept(s, t) /\ t \in Controllers
             /\ t.exhausted \/ Valid(t)
             /\ t.failures = {} =>
                  /\ s.failures = {} /\ t.failed = s.failed
                  /\ s.phase = "Finalizable" /\ t.phase = "Finalizable"
<1> DEFINE timed == IF at < s.last THEN Fact(s, "InvalidSequence") ELSE [s EXCEPT !.last = at]
           d == Deadline(timed)
           late == [d EXCEPT !.actions = {}]
           tail == FactIf(late, late.phase # "Finalizable", "InvalidSequence")
           exit == FactIf(tail, NoExit(tail), "MissingExit")
           end == FactIf(exit, exit.cleanup # "ConfirmedEmpty", "Cleanup")
<1>0. /\ {"InvalidSequence", "MissingExit", "Cleanup"} \subseteq Kinds \ {"Deadline", "Memory"}
      /\ {"Deadline", "Memory", "StdoutLimit", "StderrLimit"} \subseteq Kinds
  BY DEF Kinds
<1>1. /\ timed \in Controllers /\ Lawful(timed) /\ Open(timed) /\ Kept(s, timed)
      /\ timed.failures = {} => /\ s.failures = {} /\ timed.phase = s.phase
                                /\ timed.failed = s.failed
  BY SoundTimed
<1> HIDE DEF timed
<1>2. /\ d \in Controllers /\ Lawful(d) /\ Open(d) /\ Kept(timed, d)
      /\ d.last >= WallClock => HasFact(d, "Deadline") \/ d.exhausted
      /\ d.failures = {} => d = timed
  BY <1>1, SoundDeadline
<1> HIDE DEF d
<1>3. /\ late \in Controllers /\ late.failures = d.failures /\ late.exhausted = d.exhausted
      /\ late.last = d.last /\ late.streams = d.streams /\ late.started = d.started
      /\ late.exit = d.exit /\ late.phase = d.phase /\ late.failed = d.failed
      /\ late.cleanup = d.cleanup
  BY <1>2 DEF Controllers
<1> HIDE DEF late
<1>4. Lawful(late) /\ Open(late) /\ Kept(d, late)
  BY <1>2, <1>3, LawfulFrame DEF Open, HasFact, Kept
<1>5. /\ tail \in Controllers /\ Lawful(tail) /\ Kept(late, tail)
      /\ tail.exit = late.exit /\ tail.last = late.last
      /\ HasFact(late, "Deadline") => HasFact(tail, "Deadline")
      /\ ~HasFact(tail, "MissingExit")
      /\ late.exhausted => tail.exhausted
      /\ tail.failures = {} => late.phase = "Finalizable" /\ tail = late
  <2>1. Completed(late, late.phase # "Finalizable", "InvalidSequence", tail)
    BY <1>0, <1>3, <1>4, LawfulFactIf
  <2>. QED  BY <1>0, <1>4, <2>1 DEF Completed, Open
<1> HIDE DEF tail
<1>6. /\ exit \in Controllers /\ Lawful(exit) /\ Kept(tail, exit)
      /\ exit.exit = tail.exit /\ exit.last = tail.last
      /\ HasFact(tail, "Deadline") => HasFact(exit, "Deadline")
      /\ NoExit(tail) => HasFact(exit, "MissingExit") \/ exit.exhausted
      /\ HasFact(exit, "MissingExit") => NoExit(tail)
      /\ tail.exhausted => exit.exhausted
      /\ exit.failures = {} => exit = tail
  <2>1. NoExit(tail) \in BOOLEAN
    BY DEF NoExit
  <2>2. Completed(tail, NoExit(tail), "MissingExit", exit)
    BY <1>0, <1>5, <2>1, LawfulFactIf
  <2>. QED  BY <1>0, <1>5, <2>2 DEF Completed
<1> HIDE DEF exit
<1>7. /\ end \in Controllers /\ Lawful(end) /\ Kept(exit, end)
      /\ end.exit = exit.exit /\ end.last = exit.last
      /\ HasFact(exit, "Deadline") => HasFact(end, "Deadline")
      /\ HasFact(exit, "MissingExit") <=> HasFact(end, "MissingExit")
      /\ exit.cleanup # "ConfirmedEmpty" => HasFact(end, "Cleanup") \/ end.exhausted
      /\ exit.exhausted => end.exhausted
      /\ end.failures = {} => end = exit
  <2>1. Completed(exit, exit.cleanup # "ConfirmedEmpty", "Cleanup", end)
    BY <1>0, <1>6, LawfulFactIf
  <2>. QED  BY <1>0, <2>1 DEF Completed
<1> HIDE DEF end
<1>8. Kept(s, end)
  BY <1>1, <1>2, <1>4, <1>5, <1>6, <1>7 DEF Kept
<1>9. ASSUME ~end.exhausted PROVE Valid(end)
  <2>1. NoExit(end) <=> HasFact(end, "MissingExit")
    BY <1>6, <1>7, <1>9 DEF NoExit
  <2>2. end.last >= WallClock => HasFact(end, "Deadline")
    BY <1>2, <1>3, <1>5, <1>6, <1>7, <1>9 DEF HasFact
  <2>3. end.cleanup # "ConfirmedEmpty" => HasFact(end, "Cleanup")
    BY <1>7, <1>9 DEF Kept
  <2>4. ~end.started => NoExit(end) /\ \A k \in Streams : end.streams[k].bytes = 0
    BY <1>7 DEF Lawful, Ran, NoExit
  <2>5. /\ \A f \in end.failures : f.at <= end.last
        /\ \A f \in end.failures : f.kind = "Deadline" => f.at >= WallClock
        /\ ~end.started => ~HasFact(end, "Memory")
    BY <1>7 DEF Lawful, Dated, HasFact
  <2>6. \A k \in Streams : end.streams[k].exceeded =>
          /\ HasFact(end, LimitKind(k))
          /\ ~end.streams[k].complete /\ end.streams[k].bytes = StreamLimit
    BY <1>7, <1>9 DEF Lawful, Cut
  <2>. QED  BY <2>1, <2>2, <2>3, <2>4, <2>5, <2>6 DEF Valid
<1>10. end.failures = {} =>
         /\ s.failures = {} /\ end.failed = s.failed
         /\ s.phase = "Finalizable" /\ end.phase = "Finalizable"
  BY <1>1, <1>2, <1>3, <1>5, <1>6, <1>7
<1>11. Closing(s, at) = end
  BY DEF Closing, end, exit, tail, late, d, timed
<1>. QED  BY <1>7, <1>8, <1>9, <1>10, <1>11 DEF Lawful

-----------------------------------------------------------------------------

\* What the record says of the attempt it ended.
Judged == FactBudget /\ ResponseMeansWholeProtocol /\ OnlyOverflowIsUnpublishable

\* The inductive invariant.
ControllerInv ==
  /\ Core(ctl) /\ ctl.actions = {}
  /\ IssuedOK
  /\ record \in Records
  /\ record = "None" => Evident(ctl) /\ Sound(ctl)
  /\ Judged

\* When a settled state leaves advance(), the invariant holds again and, if the attempt
\* failed or is late, no forward intent was in the batch.
LEMMA LeavesLemma ==
  ASSUME IssuedOK, record \in Records, NEW s, Settled(s), Sound(s), Leaves(s)
  PROVE  /\ ControllerInv'
         /\ ctl'.failed \/ ctl'.last >= WallClock => \A a \in Forward : issued'[a] = issued[a]
<1>1. /\ ctl' = [s EXCEPT !.actions = {}] /\ record' = record
      /\ issued' = [a \in Intents |-> IF a \in s.actions /\ issued[a] < MaxIssued
                                     THEN issued[a] + 1 ELSE issued[a]]
  BY DEF Leaves
<1>2. /\ ctl' \in Controllers /\ ctl'.phase = s.phase /\ ctl'.failed = s.failed
      /\ ctl'.failures = s.failures /\ ctl'.overflow = s.overflow /\ ctl'.actions = {}
      /\ ctl'.last = s.last /\ ctl'.exhausted = s.exhausted /\ ctl'.streams = s.streams
      /\ ctl'.started = s.started /\ ctl'.exit = s.exit /\ ctl'.cleanup = s.cleanup
  BY <1>1 DEF Settled, Core, Controllers
<1>3. IssuedOK'
  BY <1>1 DEF IssuedOK, MaxIssued
<1>4. \A a \in Intents : /\ issued'[a] \in Nat /\ Total(s, a) \in Nat
                         /\ issued'[a] <= Total(s, a)
  BY <1>1 DEF Total, IssuedOK, MaxIssued
<1>5. OneShot(ctl)'
  <2>1. \A a \in Intents : Total(ctl, a)' = issued'[a]
    BY <1>2, <1>3 DEF Total, IssuedOK, MaxIssued
  <2>2. Future(s.phase) \subseteq Intents /\ "Inspect" \in Intents
        /\ "TerminateTree" \in Intents
    BY DEF Settled, Core, Controllers, Phases, Future, Intents
  <2>3. OneShot(s)
    BY DEF Settled, Core
  <2>. QED  BY <1>2, <1>4, <2>1, <2>2, <2>3 DEF OneShot
<1>6. Core(ctl)' /\ Evident(ctl)'
  BY <1>2, <1>5 DEF Settled, Core, Evident
<1>7. ctl'.failed \/ ctl'.last >= WallClock => \A a \in Forward : issued'[a] = issued[a]
  BY <1>1, <1>2 DEF Settled, Forward, Intents
<1>8. Lawful(ctl)' /\ Open(ctl)'
  BY <1>2 DEF Sound, Open, Lawful, Counted, Dated, Cut, Ran, Held, HasFact
<1>9. Whole(ctl)'
  <2> SUFFICES ASSUME ~s.failed, NEW a \in Intents \ (Future(s.phase) \cup {"TerminateTree"})
               PROVE  Total(ctl, a)' = 1
    BY <1>2 DEF Whole
  <2>1. Total(s, a) = 1
    BY DEF Sound, Whole
  <2>. QED  BY <1>1, <1>2, <2>1 DEF Total, IssuedOK, MaxIssued
<1>10. Judged'
  <2>1. record = "None"
    BY DEF Leaves
  <2>. QED  BY <1>1, <1>8, <2>1
            DEF Judged, FactBudget, ResponseMeansWholeProtocol, OnlyOverflowIsUnpublishable,
                Lawful, Counted
<1>. QED  BY <1>1, <1>2, <1>3, <1>6, <1>7, <1>8, <1>9, <1>10 DEF ControllerInv, Sound

\* finish() records what is missing and hands nothing out.
LEMMA FactIfLemma ==
  ASSUME NEW s, Core(s), NEW c \in BOOLEAN, NEW k \in Kinds
  PROVE  Core(FactIf(s, c, k)) /\ FactIf(s, c, k).actions = s.actions
<1> DEFINE f == Fact(s, k)
<1>1. /\ f \in Controllers /\ f.failures # {} /\ f.phase = s.phase
      /\ f.failed = s.failed /\ f.actions = s.actions
  BY FactLemma DEF Core
<1>2. OneShot(f)
  BY <1>1, OneShotFrame DEF Core
<1>3. Core(f)
  BY <1>1, <1>2 DEF Core
<1>. QED  BY <1>1, <1>3 DEF FactIf

\* finish() judges the attempt it ends: a response needs the whole protocol, and only a
\* diagnostic overflow makes a record unpublishable.
LEMMA FinishJudged ==
  ASSUME ControllerInv, record = "None", NEW at \in Times, Finish(at)
  PROVE  Judged'
<1> DEFINE t == Closing(ctl, at)
<1>0. /\ ctl \in Controllers /\ Lawful(ctl) /\ Open(ctl) /\ Whole(ctl) /\ OneShot(ctl)
      /\ ctl.actions = {} /\ (ctl.failed => ctl.failures # {}) /\ IssuedOK
  BY DEF ControllerInv, Sound, Core
<1>1. /\ Counted(t) /\ t \in Controllers
      /\ t.exhausted \/ Valid(t)
      /\ t.failures = {} =>
           /\ ctl.failures = {} /\ t.failed = ctl.failed
           /\ ctl.phase = "Finalizable" /\ t.phase = "Finalizable"
  BY <1>0, ClosingLemma
<1>2. ctl' = t /\ record' = Verdict(t) /\ issued' = issued
  BY DEF Finish
<1> HIDE DEF t
<1>3. /\ Verdict(t) = "ResourceLimit" <=> t.exhausted
      /\ Verdict(t) = "Response" => Valid(t) /\ Accepted(t)
      /\ Verdict(t) = "InvalidInput" => Valid(t) /\ t.overflow
  BY <1>1 DEF Verdict, OverflowExplained
<1>4. FactBudget'
  BY <1>1, <1>2, <1>3 DEF FactBudget, Counted
<1>5. OnlyOverflowIsUnpublishable'
  <2>1. Valid(ctl)' <=> Valid(t)
    BY <1>2 DEF Valid, HasFact, NoExit
  <2>. QED  BY <1>2, <1>3, <2>1 DEF OnlyOverflowIsUnpublishable
<1>6. ResponseMeansWholeProtocol'
  <2> SUFFICES ASSUME Valid(t), Accepted(t)
               PROVE  /\ \A a \in Intents : issued[a] = IF a = "TerminateTree" THEN 0 ELSE 1
                      /\ t.last < WallClock /\ t.phase = "Finalizable"
    BY <1>2, <1>3 DEF ResponseMeansWholeProtocol
  <2>1. t.failures = {}
    BY DEF Accepted
  <2>2. t.last < WallClock
    <3>1. t.last \in Nat /\ WallClock \in Nat
      BY <1>1, ControllerAssumption DEF Controllers, Times
    <3>2. ~(t.last >= WallClock)
      BY <2>1 DEF Valid, HasFact
    <3>. QED  BY <3>1, <3>2
  <2>3. ~ctl.failed /\ ctl.phase = "Finalizable" /\ t.phase = "Finalizable"
    BY <1>0, <1>1, <2>1
  <2>4. \A a \in Intents : Total(ctl, a) = issued[a]
    BY <1>0 DEF Total, IssuedOK
  <2>5. issued["TerminateTree"] = 0
    BY <1>0, <2>3, <2>4 DEF OneShot, Intents
  <2>6. \A a \in Intents \ {"TerminateTree"} : issued[a] = 1
    BY <1>0, <2>3, <2>4 DEF Whole, Future
  <2>. QED  BY <2>2, <2>3, <2>5, <2>6
<1>. QED  BY <1>4, <1>5, <1>6 DEF Judged

\* finish() keeps the invariant, whatever the controller it consumes had reached.
LEMMA FinishLemma ==
  ASSUME ControllerInv, record = "None", NEW at \in Times, Finish(at)
  PROVE  ControllerInv'
<1> DEFINE early == Fact(ctl, "InvalidSequence")
           timed == IF at < ctl.last THEN early ELSE [ctl EXCEPT !.last = at]
           d == Deadline(timed)
           late == [d EXCEPT !.actions = {}]
           tail == FactIf(late, late.phase # "Finalizable", "InvalidSequence")
           exit == FactIf(tail, NoExit(tail), "MissingExit")
           end == FactIf(exit, exit.cleanup # "ConfirmedEmpty", "Cleanup")
<1>1. Core(timed)
  <2>1. Core(early)
    <3>1. Core(FactIf(ctl, TRUE, "InvalidSequence"))
      BY FactIfLemma DEF Kinds, ControllerInv
    <3>. QED  BY <3>1 DEF FactIf
  <2> DEFINE t == [ctl EXCEPT !.last = at]
  <2>2. /\ t \in Controllers /\ t.phase = ctl.phase /\ t.failed = ctl.failed
        /\ t.actions = ctl.actions /\ t.failures = ctl.failures
    BY DEF ControllerInv, Core, Controllers
  <2>3. OneShot(t)
    BY <2>2, OneShotFrame DEF ControllerInv, Core
  <2>4. Core(t)
    BY <2>2, <2>3 DEF ControllerInv, Core
  <2>. QED  BY <2>1, <2>4
<1> HIDE DEF timed
<1>2. Core(d)
  <2> DEFINE f == Fact(timed, "Deadline")
  <2>1. /\ f \in Controllers /\ f.failures # {} /\ f.phase = timed.phase
        /\ f.failed = timed.failed /\ f.actions = timed.actions
    BY <1>1, FactLemma DEF Kinds, Core
  <2>2. OneShot(f)
    BY <1>1, <2>1, OneShotFrame DEF Core
  <2>3. Core(f)
    BY <1>1, <2>1, <2>2 DEF Core
  <2>4. Core(Stop(f))
    BY <2>1, <2>3, StopLemma DEF ControllerInv
  <2>. QED  BY <1>1, <2>4 DEF Deadline
<1> HIDE DEF d
<1>3. Core(late) /\ late.actions = {}
  <2>1. /\ late \in Controllers /\ late.phase = d.phase /\ late.failed = d.failed
        /\ late.failures = d.failures /\ late.actions = {}
    BY <1>2 DEF Core, Controllers
  <2>2. \A a \in Intents : /\ Total(late, a) \in Nat /\ Total(d, a) \in Nat
                           /\ Total(late, a) <= Total(d, a)
    BY <2>1 DEF Total, IssuedOK, ControllerInv, MaxIssued
  <2>3. Future(d.phase) \subseteq Intents /\ "Inspect" \in Intents
        /\ "TerminateTree" \in Intents
    BY <1>2 DEF Core, Controllers, Phases, Future, Intents
  <2>4. OneShot(late)
    BY <1>2, <2>1, <2>2, <2>3 DEF Core, OneShot
  <2>. QED  BY <1>2, <2>1, <2>4 DEF Core
<1> HIDE DEF late
<1>4. Core(tail) /\ tail.actions = {}
  BY <1>3, FactIfLemma DEF Kinds
<1> HIDE DEF tail
<1>5. Core(exit) /\ exit.actions = {}
  <2>1. NoExit(tail) \in BOOLEAN
    BY DEF NoExit
  <2>. QED  BY <1>4, <2>1, FactIfLemma DEF Kinds
<1> HIDE DEF exit
<1>6. Core(end) /\ end.actions = {}
  BY <1>5, FactIfLemma DEF Kinds
<1>7. ctl' = end /\ issued' = issued
  BY DEF Finish, Closing, end, exit, tail, late, d, timed
<1>8. record' \in Records /\ record' # "None"
  BY DEF Finish, Verdict, Records
<1> HIDE DEF end
<1>9. Core(ctl)' /\ (ctl').actions = {}
  <2>1. OneShot(end)
    BY <1>6 DEF Core
  <2>2. OneShot(ctl)'
    BY <1>7, <2>1 DEF OneShot, Total
  <2>. QED  BY <1>6, <1>7, <2>2 DEF Core
<1>10. Judged'
  BY FinishJudged
<1>. QED  BY <1>7, <1>8, <1>9, <1>10 DEF ControllerInv, IssuedOK

\* The controller that new() returns satisfies the invariant.
LEMMA InitLemma == Init => ControllerInv
<1> SUFFICES ASSUME Init PROVE ControllerInv
  OBVIOUS
<1>1. /\ 0 \in Times /\ 1 \in 0 .. DiagnosticLimit /\ 0 \in 0 .. StreamLimit
      /\ "Create" \in Phases
  BY ControllerAssumption DEF Times, Phases
<1>2. ctl \in Controllers
  BY <1>1 DEF Init, Controllers, Captures
<1>3. IssuedOK
  BY DEF Init, IssuedOK, MaxIssued
<1>4. \A a \in Intents : Total(ctl, a) = IF a = "Create" THEN 1 ELSE 0
  BY DEF Init, Total
<1>5. ctl.phase = "Create" /\ ~ctl.failed /\ ctl.failures = {} /\ ctl.actions = {} /\ ~ctl.overflow
  BY DEF Init
<1>6. OneShot(ctl)
  BY <1>4, <1>5 DEF OneShot, Future, Intents
<1>7. Sound(ctl)
  <2>1. /\ ctl.phase = "Create" /\ ~ctl.started /\ ctl.exit = "None" /\ ctl.cleanup = "Unknown"
        /\ \A k \in Streams : ctl.streams[k].bytes = 0 /\ ~ctl.streams[k].exceeded
        /\ ~ctl.exhausted
    BY DEF Init
  <2>2. Counted(ctl)
    <3>1. IsFiniteSet(ctl.failures) /\ Cardinality(ctl.failures) = 0
      BY <1>5, FS_EmptySet
    <3>. QED  BY <2>1, <3>1, ControllerAssumption DEF Counted
  <2>3. Lawful(ctl) /\ Open(ctl)
    BY <1>5, <2>1, <2>2 DEF Lawful, Dated, Cut, Ran, Held, Open, HasFact
  <2>4. Whole(ctl)
    BY <1>4, <1>5 DEF Whole, Future
  <2>. QED  BY <2>3, <2>4 DEF Sound
<1>8. Judged
  BY <1>7 DEF Init, Judged, FactBudget, ResponseMeansWholeProtocol,
              OnlyOverflowIsUnpublishable, Sound, Lawful, Counted
<1>. QED  BY <1>2, <1>3, <1>5, <1>6, <1>7, <1>8 DEF Init, ControllerInv, Core, Evident, Records

\* Whatever event arrives, what leaves the controller is a settled state with a sound
\* record, and the attempt moved as it may.
LEMMA AdvanceLemma ==
  ASSUME ControllerInv, Advance
  PROVE  \E s : Settled(s) /\ Moved(ctl, s) /\ Leaves(s)
<1>0. record = "None"
  BY DEF Advance, ForeignToken, ClockRollback, Answered, Spontaneous, Created, Attached, Started,
         StdinWritten, StdinClosed, Output, StreamsClosed, Exit, Inspected, OomKilled,
         Interrupted, TransportFailed, ControlFailed, DeadlineTick, TreeTerminated, TreeEmpty,
         TreeNotEmpty, Cleaned, CleanupFailed, Leaves
<1>1. IssuedOK /\ Core(ctl) /\ Evident(ctl) /\ ctl.actions = {} /\ Sound(ctl)
  BY <1>0 DEF ControllerInv
<1>2. CASE ForeignToken \/ ClockRollback
  <2>1. Leaves(Reject(ctl))
    BY <1>2 DEF ForeignToken, ClockRollback
  <2>2. Settled(Reject(ctl))
    BY <1>1, RejectLemma DEF Settled, Quiet
  <2>3. Moved(ctl, Reject(ctl))
    BY <1>1, SoundReject DEF Core
  <2>. QED  BY <2>1, <2>2, <2>3
<1>3. ASSUME NEW at \in ctl.last .. MaxTime, Answered(at) \/ Spontaneous(at)
      PROVE  \E s : Settled(s) /\ Moved(ctl, s) /\ Leaves(s)
  <2> DEFINE a == Arrive(at)
  <2>1. at \in Times
    BY <1>1 DEF Core, Controllers, Times
  <2>2. Ready(a) /\ Sound(a) /\ Kept(ctl, a)
    <3>1. Ready(a)
      BY <1>1, <2>1, ArriveLemma DEF Ready
    <3>2. ctl.last <= at
      BY <1>1, ControllerAssumption DEF Core, Controllers, Times
    <3>. QED  BY <1>1, <2>1, <3>1, <3>2, SoundArrive
  <2>3. \A n \in DiagnosticSizes : n \in Nat
    BY ControllerAssumption
  <2>4. \A n \in 0 .. StreamLimit + 1 : n \in Nat
    BY ControllerAssumption
  <2>5. "Interrupted" \in Kinds /\ "Transport" \in Kinds
    BY DEF Kinds
  <2> HIDE DEF a
  <2> DEFINE Passes(h) == Handled(h) /\ Moved(a, h)
  <2> SUFFICES \E h : Passes(h) /\ Leaves(Conclude(h))
    <3> SUFFICES ASSUME NEW h, Passes(h), Leaves(Conclude(h))
                 PROVE  Settled(Conclude(h)) /\ Moved(ctl, Conclude(h)) /\ Leaves(Conclude(h))
      OBVIOUS
    <3>1. Settled(Conclude(h))
      BY <1>1, ConcludeLemma
    <3>2. Sound(Conclude(h)) /\ Kept(h, Conclude(h))
      BY <1>1, SoundConclude DEF Moved
    <3>. QED  BY <2>2, <3>1, <3>2 DEF Moved, Kept, Begun, Ended
  <2>6. CASE \/ Created(at) \/ Attached(at) \/ StdinClosed(at)
             \/ TreeTerminated(at) \/ TreeEmpty(at)
    <3>1. /\ Passes(OnCreated(a)) /\ Passes(OnAttached(a)) /\ Passes(OnStdinClosed(a))
          /\ Passes(OnTreeTerminated(a)) /\ Passes(OnTreeEmpty(a))
      BY <1>1, <2>2, ReplyLemma, SoundReply
         DEF OnCreated, OnAttached, OnStdinClosed, OnTreeTerminated, OnTreeEmpty, Phases, Intents
    <3>. QED  BY <2>6, <3>1 DEF Created, Attached, StdinClosed, TreeTerminated, TreeEmpty, a
  <2>7. ASSUME NEW exact \in BOOLEAN, StdinWritten(at, exact)
        PROVE  \E h : Passes(h) /\ Leaves(Conclude(h))
    <3>1. Passes(Reply(a, "Stdin", "StdinEof", "CloseStdin")) /\ Passes(Reject(a))
      BY <1>1, <2>2, ReplyLemma, SoundReply, RejectHandled, SoundReject
         DEF Phases, Intents, Ready, Core
    <3>2. Passes(OnStdinWritten(a, exact))
      BY <3>1 DEF OnStdinWritten
    <3>. QED  BY <2>7, <3>2 DEF StdinWritten, a
  <2>8. CASE Started(at) \/ Inspected(at) \/ TreeNotEmpty(at) \/ Cleaned(at) \/ OomKilled(at)
    <3>1. /\ Passes(OnStarted(a)) /\ Passes(OnInspected(a)) /\ Passes(OnTreeNotEmpty(a))
          /\ Passes(OnCleaned(a)) /\ Passes(OnOomKilled(a))
      BY <1>1, <2>2, StartedLemma, InspectedLemma, TreeNotEmptyLemma, CleanedLemma,
         OomLemma, SoundStarted, SoundInspected, SoundTreeNotEmpty, SoundCleaned, SoundOom
    <3>. QED  BY <2>8, <3>1 DEF Started, Inspected, TreeNotEmpty, Cleaned, OomKilled, a
  <2>9. ASSUME NEW x \in Exits, Exit(at, x)
        PROVE  \E h : Passes(h) /\ Leaves(Conclude(h))
    BY <1>1, <2>2, <2>9, ExitLemma, SoundExit DEF Exit, a
  <2>10. ASSUME NEW n \in DiagnosticSizes,
                CleanupFailed(at, n) \/ Interrupted(at, n) \/ TransportFailed(at, n)
         PROVE  \E h : Passes(h) /\ Leaves(Conclude(h))
    <3>1. /\ Passes(OnCleanupFailed(a, n)) /\ Passes(OnBroken(a, "Interrupted", n))
          /\ Passes(OnBroken(a, "Transport", n))
      BY <1>1, <2>2, <2>3, <2>5, CleanupFailedLemma, BrokenLemma,
         SoundCleanupFailed, SoundBroken
    <3>. QED  BY <2>10, <3>1 DEF CleanupFailed, Interrupted, TransportFailed, a
  <2>11. ASSUME NEW op \in Operations, NEW n \in DiagnosticSizes, ControlFailed(at, op, n)
         PROVE  \E h : Passes(h) /\ Leaves(Conclude(h))
    BY <1>1, <2>2, <2>3, <2>11, ControlFailedLemma, SoundControlFailed DEF ControlFailed, a
  <2>12. ASSUME NEW out \in 0 .. StreamLimit + 1, NEW err \in 0 .. StreamLimit + 1,
                Output(at, out, err)
         PROVE  \E h : Passes(h) /\ Leaves(Conclude(h))
    BY <1>1, <2>2, <2>4, <2>12, OutputLemma, SoundOutput DEF Output, a
  <2>13. ASSUME NEW out \in BOOLEAN, NEW err \in BOOLEAN, StreamsClosed(at, out, err)
         PROVE  \E h : Passes(h) /\ Leaves(Conclude(h))
    BY <1>1, <2>2, <2>13, StreamsClosedLemma, SoundStreamsClosed
       DEF StreamsClosed, a
  <2>14. CASE DeadlineTick(at)
    BY <2>2, <2>14, ReadyIsHandled DEF DeadlineTick, a, Moved, Kept
  <2>. QED
    BY <1>3, <2>6, <2>7, <2>8, <2>9, <2>10, <2>11, <2>12, <2>13, <2>14
       DEF Answered, Spontaneous
<1>. QED  BY <1>2, <1>3 DEF Advance

\* Every event, and finish(), preserves the invariant.
LEMMA StepLemma == ControllerInv /\ [Next]_vars => ControllerInv'
<1> SUFFICES ASSUME ControllerInv, [Next]_vars PROVE ControllerInv'
  OBVIOUS
<1>1. CASE Advance
  BY <1>1, AdvanceLemma, LeavesLemma DEF ControllerInv, Moved
<1>2. ASSUME NEW at \in Times, Finish(at) PROVE ControllerInv'
  BY <1>2, FinishLemma DEF Finish
<1>3. CASE UNCHANGED vars
  BY <1>3 DEF vars, ControllerInv, Core, OneShot, Total, IssuedOK, Evident, Sound, Whole, Judged,
              FactBudget, ResponseMeansWholeProtocol, OnlyOverflowIsUnpublishable
<1>. QED  BY <1>1, <1>2, <1>3 DEF Next

\* The invariant has the types in it, and the count of the intents.
LEMMA InvTypes == ControllerInv => TypeOK
BY DEF ControllerInv, Core, IssuedOK, TypeOK

LEMMA InvOneShot == ControllerInv => IntentsAreOneShot
<1> SUFFICES ASSUME ControllerInv, NEW a \in Intents
             PROVE  issued[a] <= IF a = "Inspect" THEN 2 ELSE 1
  BY DEF IntentsAreOneShot
<1>1. Total(ctl, a) = issued[a]
  BY DEF ControllerInv, Total, IssuedOK, MaxIssued
<1>. QED  BY <1>1 DEF ControllerInv, Core, OneShot

\* The inductive invariant holds in every reachable state of the controller.
THEOREM ControllerSafe == Spec => []ControllerInv
BY InitLemma, StepLemma, PTL DEF Spec

\* Every reachable controller state is a SimulationController the source can build.
THEOREM TypeCorrect == Spec => []TypeOK
BY InvTypes, ControllerSafe, PTL

\* However the host behaves, each intent leaves at most once, an inspection at most twice:
\* in particular the container tree is never told to terminate twice.
THEOREM OneShotController == Spec => []IntentsAreOneShot
BY InvOneShot, ControllerSafe, PTL

\* A failed attempt has evidence, evidence means failure, and failure means the tail.
THEOREM EvidenceOfFailure == Spec => []FailureHasEvidence
<1>1. ControllerInv => FailureHasEvidence
  BY DEF ControllerInv, Core, Evident, FailureHasEvidence
<1>. QED  BY <1>1, ControllerSafe, PTL

\* No step that ends failed or past the deadline lets a forward intent out.
THEOREM NothingForwardAfterFailure == Spec => NoForwardIntentAfterFailure
<1> DEFINE Quietly == ctl'.failed \/ ctl'.last >= WallClock =>
                        \A a \in Forward : issued'[a] = issued[a]
<1>1. ControllerInv /\ [Next]_vars => [Quietly]_vars
  <2> SUFFICES ASSUME ControllerInv, Next PROVE Quietly
    OBVIOUS
  <2>1. CASE Advance
    BY <2>1, AdvanceLemma, LeavesLemma DEF ControllerInv, Moved
  <2>2. ASSUME NEW at \in Times, Finish(at) PROVE Quietly
    BY <2>2 DEF Finish
  <2>. QED  BY <2>1, <2>2 DEF Next
<1>. QED  BY <1>1, ControllerSafe, PTL DEF Spec, NoForwardIntentAfterFailure

\* The fact budget holds for every budget, and a lost fact always ends in ResourceLimit.
THEOREM BudgetOfFacts == Spec => []FactBudget
<1>1. ControllerInv => FactBudget
  BY DEF ControllerInv, Judged
<1>. QED  BY <1>1, ControllerSafe, PTL

\* A response is published only of an attempt that ran the whole protocol once, in time.
THEOREM ResponseIsWhole == Spec => []ResponseMeansWholeProtocol
<1>1. ControllerInv => ResponseMeansWholeProtocol
  BY DEF ControllerInv, Judged
<1>. QED  BY <1>1, ControllerSafe, PTL

\* Whatever the history, the record passes every check of SimulationObservation::new but
\* the one about the diagnostic overflow.
THEOREM RecordIsPublishable == Spec => []OnlyOverflowIsUnpublishable
<1>1. ControllerInv => OnlyOverflowIsUnpublishable
  BY DEF ControllerInv, Judged
<1>. QED  BY <1>1, ControllerSafe, PTL

\* The controller implements SolverAttempt: every event is a step of it or leaves it alone.
THEOREM ControllerImplements == Spec => ImplementsAttempt
<1>1. Init => Attempt!AttemptInit
  BY DEF Init, Attempt!AttemptInit
<1>2. ControllerInv /\ [Next]_vars => [Attempt!AttemptNext]_Attempt!attemptVars
  <2> SUFFICES ASSUME ControllerInv, [Next]_vars
               PROVE  [Attempt!AttemptNext]_Attempt!attemptVars
    OBVIOUS
  <2>0. ctl.failed \in BOOLEAN /\ ctl.started \in BOOLEAN
    BY DEF ControllerInv, Core, Controllers
  <2>1. CASE Advance
    <3>1. PICK s : Settled(s) /\ Moved(ctl, s) /\ Leaves(s)
      BY <2>1, AdvanceLemma
    <3>2. /\ ctl'.started = s.started /\ ctl'.failed = s.failed /\ ctl'.cleanup = s.cleanup
          /\ s.failed \in BOOLEAN /\ s.started \in BOOLEAN
          /\ record = "None" /\ record' = "None"
      BY <3>1 DEF Leaves, Settled, Core, Controllers
    <3>3. CASE Kept(ctl, s)
      BY <2>0, <3>2, <3>3 DEF Kept, Attempt!AttemptNext, Attempt!attemptVars, Attempt!Fail
    <3>4. CASE Begun(ctl, s)
      BY <2>0, <3>2, <3>4 DEF Begun, Attempt!AttemptNext, Attempt!Start
    <3>5. CASE Ended(ctl, s)
      BY <2>0, <3>2, <3>5 DEF Ended, Attempt!AttemptNext, Attempt!attemptVars, Attempt!Fail,
                              Attempt!Vanish, Attempt!Sticky
    <3>. QED  BY <3>1, <3>3, <3>4, <3>5 DEF Moved
  <2>2. ASSUME NEW at \in Times, Finish(at)
        PROVE  Attempt!AttemptNext
    <3> DEFINE t == Closing(ctl, at)
    <3>1. record = "None" /\ ctl' = t /\ record' = Verdict(t)
      BY <2>2 DEF Finish
    <3>2. /\ ctl \in Controllers /\ Lawful(ctl) /\ Open(ctl)
          /\ ctl.failed => ctl.failures # {}
      BY <3>1 DEF ControllerInv, Sound, Core
    <3>3. /\ Kept(ctl, t) /\ t \in Controllers
          /\ t.failures = {} => ctl.failures = {} /\ t.failed = ctl.failed
      BY <3>2, ClosingLemma
    <3> HIDE DEF t
    <3>4. t.failed \in BOOLEAN
      BY <3>3 DEF Controllers
    <3>5. CASE Verdict(t) = "Response"
      <4>1. t.started /\ t.cleanup = "ConfirmedEmpty" /\ t.failures = {}
        BY <3>5 DEF Verdict, Accepted
      <4>. QED  BY <2>0, <3>1, <3>2, <3>3, <3>5, <4>1
                DEF Kept, Attempt!AttemptNext, Attempt!Respond
    <3>6. CASE Verdict(t) # "Response"
      <4>1. Verdict(t) # "None"
        BY DEF Verdict
      <4>. QED  BY <2>0, <3>1, <3>3, <3>4, <3>6, <4>1
                DEF Kept, Attempt!AttemptNext, Attempt!Refuse, Attempt!Sticky
    <3>. QED  BY <3>5, <3>6
  <2>3. CASE UNCHANGED vars
    BY <2>3 DEF vars, Attempt!attemptVars
  <2>. QED  BY <2>1, <2>2, <2>3 DEF Next
<1>. QED  BY <1>1, <1>2, ControllerSafe, PTL DEF Spec, ImplementsAttempt, Attempt!AttemptSpec
=============================================================================
