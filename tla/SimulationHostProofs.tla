------------------------ MODULE SimulationHostProofs ------------------------
(***************************************************************************)
(* The controller and its host, for every clock bound, stream limit,       *)
(* diagnostic limit and fact budget: no phase waits for an answer that     *)
(* nobody owes, nothing of the forward protocol outlives the deadline, and *)
(* a confirmed cleanup was answered as such.  Every step of the host is a  *)
(* step of the controller, so the controller's invariant and the lemmas    *)
(* about its handlers carry over; here each stage of advance() is followed *)
(* once more, for the phase it leaves and the intents that go with it.     *)
(***************************************************************************)
EXTENDS SimulationHost, SimulationControllerProofs, SequenceTheorems

\* The batch of t has the intent that the phase of t waits for.
Onward(t) == Awaited(t.phase) \subseteq t.actions

\* The kill of the tree leaves only with the phase that waits for it.
Tidy(t) == "TerminateTree" \in t.actions => t.phase = "Terminate"

\* From s to t the controller stays in its phase or asks for what the next one waits for.
Backed(s, t) == t.phase = s.phase \/ Onward(t)

\* From s to t the attempt does not come closer to a confirmed cleanup.
Modest(s, t) ==
  /\ t.phase = "Cleanup" => s.phase = "Cleanup"
  /\ t.cleanup = "ConfirmedEmpty" => s.cleanup = "ConfirmedEmpty"

\* From s to t neither the phase nor the batch nor the cleanup changes.
Same(s, t) ==
  /\ t \in Controllers
  /\ t.phase = s.phase /\ t.actions = s.actions /\ t.cleanup = s.cleanup

\* What a handler may do to a state with an empty batch.
Guided(s, t) == Tidy(t) /\ Backed(s, t) /\ Modest(s, t)

\* Every phase of an attempt waits for one intent at most.
LEMMA AwaitedOnce ==
  /\ Awaited("Create") = {"Create"} /\ Awaited("Attach") = {"AttachSeparatedStreams"}
  /\ Awaited("Start") = {"Start"} /\ Awaited("Stdin") = {"SendExactStdin"}
  /\ Awaited("StdinEof") = {"CloseStdin"} /\ Awaited("Running") = {"Wait"}
  /\ Awaited("Inspect") = {"Inspect"} /\ Awaited("Drain") = {}
  /\ Awaited("Terminate") = {"TerminateTree"} /\ Awaited("EmptyTree") = {"ConfirmEmptyTree"}
  /\ Awaited("Cleanup") = {"Cleanup"} /\ Awaited("Finalizable") = {}
BY DEF Awaited

\* Facts and diagnostics touch neither phase nor batch nor cleanup.
LEMMA SameFact ==
  ASSUME NEW s \in Controllers, NEW k \in Kinds
  PROVE  Same(s, Fact(s, k)) /\ Fact(s, k).failed = s.failed /\ Fact(s, k).last = s.last
<1>1. Fact(s, k).cleanup = s.cleanup
  BY DEF Fact, Controllers
<1> QED BY <1>1, FactLemma DEF Same

LEMMA SameDiagnostic ==
  ASSUME NEW s \in Controllers, NEW n \in Nat
  PROVE  Same(s, Diagnostic(s, n)) /\ Diagnostic(s, n).failed = s.failed
<1>1. Diagnostic(s, n).cleanup = s.cleanup
  BY DEF Diagnostic, Controllers
<1> QED BY <1>1, DiagnosticLemma DEF Same

\* stop() stays where it is or turns to the termination and asks for it.
LEMMA StopGuided ==
  ASSUME NEW s, NEW t \in Controllers, t.phase = s.phase, t.cleanup = s.cleanup, Tidy(t)
  PROVE  /\ Guided(s, Stop(t))
         /\ Stop(t) \in Controllers /\ Stop(t).failed /\ Stop(t).last = t.last
         /\ Stop(t).phase \in CleanupTail \cup {"Inspect"}
         /\ Onward(t) => Onward(Stop(t))
         /\ t.phase \notin CleanupTail \cup {"Inspect"} => Onward(Stop(t))
<1> DEFINE u == Stop(t)
<1>0. u \in Controllers
  <2>1. "Terminate" \in Phases /\ t.actions \cup {"TerminateTree"} \in SUBSET Intents
    BY DEF Controllers, Phases, Intents
  <2> QED BY <2>1 DEF Stop, Intend, Controllers
<1>1. /\ u.failed /\ u.last = t.last /\ u.cleanup = t.cleanup
      /\ u.phase \in CleanupTail \cup {"Inspect"}
      /\ \/ u.phase = t.phase /\ u.actions = t.actions
         \/ u.phase = "Terminate" /\ u.actions = t.actions \cup {"TerminateTree"}
      /\ t.phase \notin CleanupTail \cup {"Inspect"} =>
           u.phase = "Terminate" /\ "TerminateTree" \in u.actions
  BY DEF Stop, Intend, Controllers, CleanupTail
<1> HIDE DEF u
<1>2. u.phase = "Terminate" /\ "TerminateTree" \in u.actions => Onward(u)
  BY AwaitedOnce DEF Onward
<1>3. u.phase = t.phase /\ u.actions = t.actions => (Onward(t) => Onward(u)) /\ (Tidy(t) => Tidy(u))
  BY DEF Onward, Tidy
<1>4. Tidy(u)
  BY <1>1, <1>3 DEF Tidy
<1>5. Backed(s, u) /\ Modest(s, u)
  BY <1>1, <1>2 DEF Backed, Modest
<1> QED BY <1>0, <1>1, <1>2, <1>3, <1>4, <1>5 DEF Guided, u

\* A fault that is recorded and stopped.
LEMMA FaultGuided ==
  ASSUME NEW s \in Controllers, s.actions = {}, NEW k \in Kinds, NEW n \in Nat
  PROVE  /\ Guided(s, Stop(Diagnostic(Fact(s, k), n)))
         /\ s.phase \notin CleanupTail \cup {"Inspect"} => Onward(Stop(Diagnostic(Fact(s, k), n)))
<1> DEFINE t == Diagnostic(Fact(s, k), n)
<1>1. Same(s, Fact(s, k))
  BY SameFact
<1>2. Same(Fact(s, k), t)
  BY <1>1, SameDiagnostic DEF Same
<1> HIDE DEF t
<1>3. t \in Controllers /\ t.phase = s.phase /\ t.cleanup = s.cleanup /\ t.actions = {}
  BY <1>1, <1>2 DEF Same
<1>4. Tidy(t)
  BY <1>3 DEF Tidy
<1> QED BY <1>3, <1>4, StopGuided DEF t

\* reject().
LEMMA RejectGuided ==
  ASSUME NEW s \in Controllers, s.actions = {}
  PROVE  /\ Guided(s, Reject(s))
         /\ s.phase \notin CleanupTail \cup {"Inspect"} => Onward(Reject(s))
<1>1. "InvalidSequence" \in Kinds /\ 1 \in Nat
  BY DEF Kinds
<1> QED BY <1>1, FaultGuided DEF Reject

\* A step of the protocol asks for what its next phase waits for.
LEMMA IntendGuided ==
  ASSUME NEW s, NEW t \in Controllers, t.actions = {}, t.cleanup = s.cleanup,
         NEW p \in Phases, NEW i \in Intents,
         Awaited(p) = {i}, i # "TerminateTree" \/ p = "Terminate"
  PROVE  /\ Tidy(Intend(t, p, i)) /\ Onward(Intend(t, p, i))
         /\ p # "Cleanup" => Guided(s, Intend(t, p, i))
         /\ Intend(t, p, i).cleanup = s.cleanup
<1> DEFINE u == Intend(t, p, i)
<1>1. u.phase = p /\ u.actions = {i} /\ u.cleanup = s.cleanup
  BY DEF Intend, Controllers
<1> HIDE DEF u
<1>2. Tidy(u) /\ Onward(u)
  BY <1>1 DEF Tidy, Onward
<1> QED BY <1>1, <1>2 DEF Guided, Backed, Modest, u

-----------------------------------------------------------------------------
(* The handlers.  An answer to the intent that the phase waits for moves the *)
(* attempt on; any other event may leave it where it is.                     *)

\* From s to t after the answer to intent a.
Serves(s, a, t) == Guided(s, t) /\ (a \in Awaited(s.phase) => Onward(t))

\* An intent is awaited in one phase only.
LEMMA AwaitedWhere ==
  ASSUME NEW p \in Phases
  PROVE  /\ "Create" \in Awaited(p) => p = "Create"
         /\ "AttachSeparatedStreams" \in Awaited(p) => p = "Attach"
         /\ "Start" \in Awaited(p) => p = "Start"
         /\ "SendExactStdin" \in Awaited(p) => p = "Stdin"
         /\ "CloseStdin" \in Awaited(p) => p = "StdinEof"
         /\ "Wait" \in Awaited(p) => p = "Running"
         /\ "Inspect" \in Awaited(p) => p = "Inspect"
         /\ "TerminateTree" \in Awaited(p) => p = "Terminate"
         /\ "ConfirmEmptyTree" \in Awaited(p) => p = "EmptyTree"
         /\ "Cleanup" \in Awaited(p) => p = "Cleanup"
BY AwaitedOnce DEF Phases

\* An answer that the phase waits for sends the next intent.
LEMMA ReplyServes ==
  ASSUME NEW s \in Controllers, s.actions = {},
         NEW e \in Phases, NEW p \in Phases \ {"Cleanup", "Terminate"}, NEW i \in Intents,
         Awaited(p) = {i}, i # "TerminateTree",
         NEW a \in Intents, a \in Awaited(s.phase) => s.phase = e
  PROVE  Serves(s, a, Reply(s, e, p, i))
<1>1. CASE s.phase = e
  BY <1>1, IntendGuided DEF Reply, Serves
<1>2. CASE s.phase # e
  BY <1>2, RejectGuided DEF Reply, Serves
<1> QED BY <1>1, <1>2

LEMMA ForwardServes ==
  ASSUME NEW s \in Controllers, s.actions = {}
  PROVE  /\ Serves(s, "Create", OnCreated(s))
         /\ Serves(s, "AttachSeparatedStreams", OnAttached(s))
         /\ Serves(s, "CloseStdin", OnStdinClosed(s))
         /\ Serves(s, "TerminateTree", OnTreeTerminated(s))
         /\ \A exact \in BOOLEAN : Serves(s, "SendExactStdin", OnStdinWritten(s, exact))
<1>1. s.phase \in Phases
  BY DEF Controllers
<1>2. /\ Serves(s, "Create", OnCreated(s))
      /\ Serves(s, "AttachSeparatedStreams", OnAttached(s))
      /\ Serves(s, "CloseStdin", OnStdinClosed(s))
      /\ Serves(s, "TerminateTree", OnTreeTerminated(s))
      /\ Serves(s, "SendExactStdin", Reply(s, "Stdin", "StdinEof", "CloseStdin"))
  BY <1>1, AwaitedWhere, AwaitedOnce, ReplyServes
     DEF OnCreated, OnAttached, OnStdinClosed, OnTreeTerminated, Phases, Intents
<1>3. Serves(s, "SendExactStdin", Reject(s))
  BY <1>1, AwaitedWhere, RejectGuided DEF Serves, CleanupTail
<1> QED BY <1>2, <1>3 DEF OnStdinWritten

LEMMA StartedServes ==
  ASSUME NEW s \in Controllers, s.actions = {}
  PROVE  Serves(s, "Start", OnStarted(s))
<1>1. s.phase \in Phases
  BY DEF Controllers
<1>2. CASE s.phase # "Start"
  BY <1>1, <1>2, AwaitedWhere, RejectGuided DEF OnStarted, Serves
<1>3. CASE s.phase = "Start"
  <2> DEFINE t == [s EXCEPT !.started = TRUE]
  <2>1. t \in Controllers /\ t.actions = {} /\ t.cleanup = s.cleanup
    BY DEF Controllers
  <2> HIDE DEF t
  <2>2. /\ Guided(s, Intend(t, "Stdin", "SendExactStdin"))
        /\ Onward(Intend(t, "Stdin", "SendExactStdin"))
    BY <2>1, AwaitedOnce, IntendGuided DEF Phases, Intents
  <2> QED BY <1>3, <2>2 DEF OnStarted, Serves, t
<1> QED BY <1>2, <1>3

LEMMA ExitServes ==
  ASSUME NEW s \in Controllers, s.actions = {}, NEW x \in Exits
  PROVE  Serves(s, "Wait", OnExit(s, x))
<1> DEFINE t == [s EXCEPT !.exit = x]
           taken == /\ s.started /\ s.exit = "None"
                    /\ s.phase = "Running" \/ (s.failed /\ s.phase \in {"Terminate", "Inspect"})
<1>1. s.phase \in Phases
  BY DEF Controllers
<1>2. t \in Controllers /\ t.actions = {} /\ t.cleanup = s.cleanup /\ t.phase = s.phase
  BY DEF Controllers
<1>3. CASE ~taken
  <2>1. OnExit(s, x) = Reject(s)
    BY <1>3 DEF OnExit
  <2> QED BY <1>1, <2>1, AwaitedWhere, RejectGuided DEF Serves, CleanupTail
<1>4. CASE taken /\ s.phase = "Running"
  <2>1. OnExit(s, x) = Intend(t, "Inspect", "Inspect")
    BY <1>4 DEF OnExit
  <2> HIDE DEF t
  <2> QED BY <1>2, <2>1, AwaitedOnce, IntendGuided DEF Phases, Intents, Serves
<1>5. CASE taken /\ s.phase # "Running"
  <2>1. OnExit(s, x) = t
    BY <1>5 DEF OnExit
  <2> HIDE DEF t
  <2> QED BY <1>1, <1>2, <1>5, <2>1, AwaitedWhere DEF Serves, Guided, Tidy, Backed, Modest
<1> QED BY <1>3, <1>4, <1>5

LEMMA InspectedServes ==
  ASSUME NEW s \in Controllers, s.actions = {}
  PROVE  Serves(s, "Inspect", OnInspected(s))
<1>1. s.phase \in Phases
  BY DEF Controllers
<1>2. CASE s.phase # "Inspect"
  BY <1>1, <1>2, AwaitedWhere, RejectGuided DEF OnInspected, Serves
<1>3. CASE s.phase = "Inspect" /\ (s.failed \/ CaptureReady(s))
  BY <1>3, AwaitedOnce, IntendGuided DEF OnInspected, Serves, Phases, Intents
<1>4. CASE s.phase = "Inspect" /\ ~(s.failed \/ CaptureReady(s))
  <2> DEFINE t == [s EXCEPT !.phase = "Drain"]
  <2>1. t.phase = "Drain" /\ t.actions = {} /\ t.cleanup = s.cleanup
    BY DEF Controllers
  <2>2. OnInspected(s) = t
    BY <1>4 DEF OnInspected
  <2> HIDE DEF t
  <2> QED BY <2>1, <2>2, AwaitedOnce DEF Serves, Guided, Tidy, Backed, Modest, Onward
<1> QED BY <1>2, <1>3, <1>4

\* A finalized attempt waits for nothing.
LEMMA FinalizeGuided ==
  ASSUME NEW s, NEW t \in Controllers, t.actions = {}, NEW c \in {"Unknown", "Failed"},
         NEW n \in Nat
  PROVE  /\ Guided(s, Finalize(t, c)) /\ Onward(Finalize(t, c))
         /\ Guided(s, Diagnostic(Finalize(t, c), n)) /\ Onward(Diagnostic(Finalize(t, c), n))
<1> DEFINE u == [t EXCEPT !.cleanup = c]  v == Finalize(t, c)  w == Diagnostic(v, n)
<1>1. u \in Controllers /\ u.actions = {} /\ u.cleanup = c
  BY DEF Controllers
<1>2. Same(u, Fact(u, "Cleanup"))
  BY <1>1, SameFact DEF Kinds
<1>3. /\ v \in Controllers /\ v.phase = "Finalizable" /\ v.actions = {} /\ v.cleanup = c
  BY <1>1, <1>2 DEF Same, Finalize, Controllers, Phases
<1> HIDE DEF v
<1>4. Same(v, w)
  BY <1>3, SameDiagnostic
<1> HIDE DEF w
<1>5. \A r : r.phase = "Finalizable" /\ r.actions = {} /\ r.cleanup = c =>
              Guided(s, r) /\ Onward(r)
  BY AwaitedOnce DEF Guided, Tidy, Backed, Modest, Onward
<1> QED BY <1>3, <1>4, <1>5 DEF Same, v, w

LEMMA NotEmptyServes ==
  ASSUME NEW s \in Controllers, s.actions = {}, NEW n \in Nat
  PROVE  /\ Serves(s, "ConfirmEmptyTree", OnTreeNotEmpty(s))
         /\ Serves(s, "Cleanup", OnCleanupFailed(s, n))
<1>1. s.phase \in Phases
  BY DEF Controllers
<1> QED BY <1>1, AwaitedWhere, RejectGuided, FinalizeGuided
        DEF OnTreeNotEmpty, OnCleanupFailed, Serves

\* TreeEmpty and Cleaned are the two steps towards a confirmed cleanup.
LEMMA TreeEmptyServes ==
  ASSUME NEW s \in Controllers, s.actions = {}
  PROVE  LET t == OnTreeEmpty(s)
         IN  /\ Tidy(t) /\ Backed(s, t) /\ ("ConfirmEmptyTree" \in Awaited(s.phase) => Onward(t))
             /\ t.cleanup = "ConfirmedEmpty" => s.cleanup = "ConfirmedEmpty"
             /\ t.phase = "Cleanup" => s.phase \in {"EmptyTree", "Cleanup"}
<1>1. s.phase \in Phases
  BY DEF Controllers
<1>2. CASE s.phase = "EmptyTree"
  BY <1>2, AwaitedOnce, IntendGuided DEF OnTreeEmpty, Reply, Phases, Intents, Backed
<1>3. CASE s.phase # "EmptyTree"
  BY <1>1, <1>3, AwaitedWhere, RejectGuided DEF OnTreeEmpty, Reply, Guided, Modest
<1> QED BY <1>2, <1>3

LEMMA CleanedServes ==
  ASSUME NEW s \in Controllers, s.actions = {}
  PROVE  LET t == OnCleaned(s)
         IN  /\ Tidy(t) /\ Backed(s, t) /\ ("Cleanup" \in Awaited(s.phase) => Onward(t))
             /\ t.phase = "Cleanup" => s.phase = "Cleanup"
             /\ t.cleanup = "ConfirmedEmpty" => s.cleanup = "ConfirmedEmpty" \/ s.phase = "Cleanup"
<1>1. s.phase \in Phases
  BY DEF Controllers
<1>2. CASE s.phase = "Cleanup"
  <2> DEFINE t == [s EXCEPT !.cleanup = "ConfirmedEmpty", !.phase = "Finalizable"]
  <2>1. OnCleaned(s) = t /\ t.phase = "Finalizable" /\ t.actions = {}
    BY <1>2 DEF OnCleaned, Controllers
  <2> HIDE DEF t
  <2> QED BY <1>2, <2>1, AwaitedOnce DEF Tidy, Backed, Onward
<1>3. CASE s.phase # "Cleanup"
  BY <1>1, <1>3, AwaitedWhere, RejectGuided DEF OnCleaned, Guided, Modest
<1> QED BY <1>2, <1>3

\* What nobody asked for: an out-of-memory kill, an interruption, a broken transport.
LEMMA BrokenGuided ==
  ASSUME NEW s \in Controllers, s.actions = {}
  PROVE  /\ Guided(s, OnOomKilled(s))
         /\ \A k \in Kinds, n \in Nat : Guided(s, OnBroken(s, k, n))
<1>1. Guided(s, Stop(Fact(s, "Memory")))
  <2> DEFINE t == Fact(s, "Memory")
  <2>1. Same(s, t)
    BY SameFact DEF Kinds
  <2> HIDE DEF t
  <2>2. Guided(s, Stop(t))
    BY <2>1, StopGuided DEF Same, Tidy
  <2> QED BY <2>2 DEF t
<1>2. Guided(s, OnOomKilled(s))
  BY <1>1, RejectGuided DEF OnOomKilled
<1>3. \A k \in Kinds, n \in Nat : Guided(s, OnBroken(s, k, n))
  BY FaultGuided, RejectGuided DEF OnBroken
<1> QED BY <1>2, <1>3

\* What a capture leaves alone.
LEMMA SameCapture ==
  ASSUME NEW s, Core(s), NEW k \in Streams
  PROVE  /\ \A n \in Nat : Same(s, Push(s, k, n)) /\ Core(Push(s, k, n))
         /\ \A close \in BOOLEAN : Same(s, Eof(s, k, close)) /\ Core(Eof(s, k, close))
<1>1. s \in Controllers
  BY DEF Core
<1>2. CaptureError(s).cleanup = s.cleanup
  <2>1. Same(s, Fact(s, "Transport"))
    BY <1>1, SameFact DEF Kinds
  <2>2. Same(Fact(s, "Transport"), Diagnostic(Fact(s, "Transport"), 1))
    BY <2>1, SameDiagnostic DEF Same
  <2> QED BY <2>1, <2>2 DEF CaptureError, Same
<1>3. ASSUME NEW n \in Nat PROVE Same(s, Push(s, k, n)) /\ Core(Push(s, k, n))
  <2>1. Captured(s, Push(s, k, n))
    BY PushLemma
  <2>2. Push(s, k, n).cleanup = s.cleanup
    BY <1>1, <1>2 DEF Push, Fact, Controllers
  <2> QED BY <2>1, <2>2 DEF Captured, Core, Same
<1>4. ASSUME NEW close \in BOOLEAN PROVE Same(s, Eof(s, k, close)) /\ Core(Eof(s, k, close))
  <2>1. Captured(s, Eof(s, k, close))
    BY EofLemma
  <2>2. Eof(s, k, close).cleanup = s.cleanup
    BY <1>1, <1>2 DEF Eof, Controllers
  <2> QED BY <2>1, <2>2 DEF Captured, Core, Same
<1> QED BY <1>3, <1>4

\* The same state, or a stop after it, is guided.
LEMMA SameGuided ==
  ASSUME NEW s, NEW t, Same(s, t), s.actions = {}
  PROVE  Guided(s, t) /\ Guided(s, Stop(t))
<1>1. t \in Controllers /\ t.phase = s.phase /\ t.cleanup = s.cleanup /\ t.actions = {} /\ Tidy(t)
  BY DEF Same, Tidy
<1>2. Guided(s, t)
  BY <1>1 DEF Guided, Backed, Modest
<1> QED BY <1>1, <1>2, StopGuided

LEMMA OutputGuided ==
  ASSUME NEW s, Core(s), s.actions = {}, NEW out \in Nat, NEW err \in Nat
  PROVE  Guided(s, OnOutput(s, out, err))
<1> DEFINE t == Push(s, "stdout", out)  u == Push(t, "stderr", err)
<1>1. Same(s, t) /\ Core(t)
  BY SameCapture DEF Streams
<1>2. Same(t, u)
  BY <1>1, SameCapture DEF Streams
<1>3. Same(s, u)
  BY <1>1, <1>2 DEF Same
<1>4. OnOutput(s, out, err) = IF ~AllowCapture(s) THEN Reject(s)
                              ELSE IF u.failures # {} THEN Stop(u) ELSE u
  BY DEF OnOutput
<1> HIDE DEF u
<1> QED BY <1>3, <1>4, SameGuided, RejectGuided DEF Core

LEMMA StreamsClosedGuided ==
  ASSUME NEW s, Core(s), s.actions = {}, NEW out \in BOOLEAN, NEW err \in BOOLEAN
  PROVE  Guided(s, OnStreamsClosed(s, out, err))
<1> DEFINE t == Eof(s, "stdout", out)  u == Eof(t, "stderr", err)
<1>1. Same(s, t) /\ Core(t)
  BY SameCapture DEF Streams
<1>2. Same(t, u)
  BY <1>1, SameCapture DEF Streams
<1>3. Same(s, u)
  BY <1>1, <1>2 DEF Same
<1>4. OnStreamsClosed(s, out, err) =
        IF ~(AllowCapture(s) /\ (out \/ err)) THEN Reject(s)
        ELSE IF u.failures # {} THEN Stop(u)
        ELSE IF u.phase = "Drain" /\ CaptureReady(u)
             THEN Intend(u, "EmptyTree", "ConfirmEmptyTree") ELSE u
  BY DEF OnStreamsClosed
<1> HIDE DEF u
<1>5. Guided(s, Intend(u, "EmptyTree", "ConfirmEmptyTree"))
  BY <1>3, AwaitedOnce, IntendGuided DEF Same, Phases, Intents
<1> QED BY <1>3, <1>4, <1>5, SameGuided, RejectGuided DEF Core

\* An operation that failed, whether the phase waits for it or not.
LEMMA ControlFailedServes ==
  ASSUME NEW s \in Controllers, s.actions = {}, NEW a \in Intents, NEW n \in Nat
  PROVE  Serves(s, a, OnControlFailed(s, OperationOf(a), n))
<1> DEFINE f == Fact(s, "Control")  d == Diagnostic(f, n)  t == [d EXCEPT !.failed = TRUE]
           op == OperationOf(a)
<1>1. s.phase \in Phases
  BY DEF Controllers
<1>2. Same(s, d)
  <2>1. Same(s, f)
    BY SameFact DEF Kinds
  <2>2. Same(f, d)
    BY <2>1, SameDiagnostic DEF Same
  <2> QED BY <2>1, <2>2 DEF Same
<1> HIDE DEF d
<1>3. t \in Controllers /\ t.phase = s.phase /\ t.cleanup = s.cleanup /\ t.actions = {} /\ Tidy(t)
  BY <1>2 DEF Same, Controllers, Tidy
<1>4. a \in Awaited(s.phase) => ExpectedOperation(s.phase) = op
  BY <1>1, AwaitedWhere DEF ExpectedOperation, OperationOf, Intents
<1>5. OnControlFailed(s, op, n) =
        IF ExpectedOperation(s.phase) # op THEN Reject(s)
        ELSE CASE s.phase = "Terminate" -> Intend(t, "Inspect", "Inspect")
               [] s.phase = "Inspect" /\ ~s.failed -> Intend(t, "Terminate", "TerminateTree")
               [] s.phase = "Inspect" /\ s.failed -> Intend(t, "EmptyTree", "ConfirmEmptyTree")
               [] s.phase = "EmptyTree" -> Finalize(t, "Unknown")
               [] s.phase = "Cleanup" -> Finalize(t, "Failed")
               [] OTHER -> Stop(t)
  BY DEF OnControlFailed, d, t, f
<1>6. s.failed \in BOOLEAN
  BY DEF Controllers
<1> SUFFICES Serves(s, a, OnControlFailed(s, op, n))
  OBVIOUS
<1> HIDE DEF t, op
<1>7. CASE ExpectedOperation(s.phase) # op
  BY <1>4, <1>5, <1>7, RejectGuided DEF Serves
<1>8. CASE ExpectedOperation(s.phase) = op /\ s.phase \in {"Terminate", "Inspect"}
  <2>1. \/ OnControlFailed(s, op, n) = Intend(t, "Inspect", "Inspect")
        \/ OnControlFailed(s, op, n) = Intend(t, "Terminate", "TerminateTree")
        \/ OnControlFailed(s, op, n) = Intend(t, "EmptyTree", "ConfirmEmptyTree")
    BY <1>5, <1>6, <1>8
  <2>2. /\ Guided(s, Intend(t, "Inspect", "Inspect")) /\ Onward(Intend(t, "Inspect", "Inspect"))
        /\ Guided(s, Intend(t, "Terminate", "TerminateTree"))
        /\ Onward(Intend(t, "Terminate", "TerminateTree"))
        /\ Guided(s, Intend(t, "EmptyTree", "ConfirmEmptyTree"))
        /\ Onward(Intend(t, "EmptyTree", "ConfirmEmptyTree"))
    BY <1>3, AwaitedOnce, IntendGuided DEF Phases, Intents
  <2> QED BY <2>1, <2>2 DEF Serves
<1>9. CASE ExpectedOperation(s.phase) = op /\ s.phase \in {"EmptyTree", "Cleanup"}
  <2>1. \E c \in {"Unknown", "Failed"} : OnControlFailed(s, op, n) = Finalize(t, c)
    BY <1>5, <1>9
  <2> QED BY <1>3, <2>1, FinalizeGuided DEF Serves
<1>10. CASE /\ ExpectedOperation(s.phase) = op
            /\ s.phase \notin {"Terminate", "Inspect", "EmptyTree", "Cleanup"}
  <2>1. OnControlFailed(s, op, n) = Stop(t)
    BY <1>5, <1>10
  <2>2. Guided(s, Stop(t)) /\ (s.phase \notin CleanupTail \cup {"Inspect"} => Onward(Stop(t)))
    BY <1>3, StopGuided
  <2>3. a \in Awaited(s.phase) => s.phase \notin CleanupTail \cup {"Inspect"}
    BY <1>1, <1>10, AwaitedOnce DEF CleanupTail, Phases
  <2> QED BY <2>1, <2>2, <2>3 DEF Serves
<1> QED BY <1>7, <1>8, <1>9, <1>10

-----------------------------------------------------------------------------
(* Deadline, suppression and diagnostic budget.                             *)

\* From s to t through a stage that follows the handler.
Through(s, t) ==
  /\ t \in Controllers /\ Guided(s, t) /\ (Onward(s) => Onward(t))
  /\ t.last = s.last

\* A late attempt has failed, and is on its way to its end.
Overdue(t) == t.last >= WallClock => t.failed /\ t.phase \in CleanupTail \cup {"Inspect"}

LEMMA ThroughTwice ==
  ASSUME NEW s, NEW t, NEW u, Through(s, t), Through(t, u)
  PROVE  Through(s, u)
BY DEF Through, Guided, Backed, Modest, Onward

\* A recorded fact that stops.
LEMMA ThroughStop ==
  ASSUME NEW s \in Controllers, Tidy(s), NEW k \in Kinds
  PROVE  Through(s, Stop(Fact(s, k))) /\ Overdue(Stop(Fact(s, k)))
<1> DEFINE t == Fact(s, k)
<1>1. Same(s, t) /\ t.last = s.last
  BY SameFact
<1> HIDE DEF t
<1>2. t \in Controllers /\ t.phase = s.phase /\ t.cleanup = s.cleanup /\ Tidy(t)
      /\ (Onward(s) => Onward(t))
  BY <1>1 DEF Same, Tidy, Onward
<1>3. Through(s, Stop(t)) /\ Overdue(Stop(t))
  BY <1>1, <1>2, StopGuided DEF Through, Overdue
<1> QED BY <1>3 DEF t

\* What is suppressed after the deadline is never what the phase waits for.
LEMMA ThroughSuppress ==
  ASSUME NEW s \in Controllers, Tidy(s), Overdue(s)
  PROVE  Through(s, Suppress(s)) /\ Overdue(Suppress(s))
<1>1. s.last \in Int /\ WallClock \in Int
  BY ControllerAssumption DEF Controllers, Times
<1>2. CASE s.last < WallClock
  BY <1>2 DEF Suppress, Through, Guided, Backed, Modest
<1>3. CASE ~(s.last < WallClock)
  <2> DEFINE kept == {a \in s.actions : \/ a \in {"TerminateTree", "ConfirmEmptyTree", "Cleanup"}
                                        \/ a = "Inspect" /\ "TerminateTree" \notin s.actions}
             t == Suppress(s)
  <2>1. t = [s EXCEPT !.actions = kept]
    BY <1>3 DEF Suppress
  <2>2. kept \in SUBSET Intents /\ kept \subseteq s.actions
    BY DEF Controllers
  <2>3. s.phase \in CleanupTail \cup {"Inspect"}
    BY <1>1, <1>3 DEF Overdue
  <2>4. Onward(s) => Awaited(s.phase) \subseteq kept
    <3> SUFFICES ASSUME Awaited(s.phase) \subseteq s.actions
                 PROVE  Awaited(s.phase) \subseteq kept
      BY DEF Onward
    <3>1. CASE s.phase = "Inspect"
      BY <3>1, AwaitedOnce DEF Tidy
    <3>2. CASE s.phase \in CleanupTail
      BY <3>2, AwaitedOnce DEF CleanupTail
    <3> QED BY <2>3, <3>1, <3>2
  <2> HIDE DEF kept
  <2>5. /\ t \in Controllers /\ t.phase = s.phase /\ t.cleanup = s.cleanup /\ t.last = s.last
        /\ t.failed = s.failed /\ t.actions = kept
    BY <2>1, <2>2 DEF Controllers
  <2> HIDE DEF t
  <2>6. Tidy(t) /\ (Onward(s) => Onward(t))
    BY <2>2, <2>4, <2>5 DEF Tidy, Onward
  <2>7. Through(s, t) /\ Overdue(t)
    BY <2>5, <2>6 DEF Through, Guided, Backed, Modest, Overdue
  <2> QED BY <2>7 DEF t
<1> QED BY <1>2, <1>3

\* The three stages together.
LEMMA ConcludeThrough ==
  ASSUME NEW s, Handled(s), Tidy(s)
  PROVE  Through(s, Conclude(s)) /\ Overdue(Conclude(s))
<1> DEFINE d == Deadline(s)  u == Suppress(d)  b == DiagnosticBudget(u)
<1>1. s \in Controllers
  BY DEF Handled, Core
<1>2. \A t : t \in Controllers /\ Tidy(t) => Through(t, t)
  BY DEF Through, Guided, Backed, Modest
<1>3. Through(s, d) /\ Overdue(d)
  <2>1. CASE s.last >= WallClock /\ ~HasFact(s, "Deadline")
    BY <1>1, <2>1, ThroughStop DEF Deadline, Kinds
  <2>2. CASE ~(s.last >= WallClock)
    BY <1>1, <1>2, <2>2 DEF Deadline, Overdue
  <2>3. CASE HasFact(s, "Deadline")
    <3>1. s.failed /\ s.phase \in CleanupTail \cup {"Inspect"}
      BY <2>3 DEF HasFact, Handled, Evident, Core
    <3> QED BY <1>1, <1>2, <2>3, <3>1 DEF Deadline, Overdue
  <2> QED BY <2>1, <2>2, <2>3
<1> HIDE DEF d
<1>4. Through(d, u) /\ Overdue(u)
  BY <1>3, ThroughSuppress DEF Through, Guided
<1> HIDE DEF u
<1>5. Through(u, b) /\ Overdue(b)
  <2>1. u \in Controllers /\ Tidy(u)
    BY <1>4 DEF Through, Guided
  <2> QED BY <1>2, <1>4, <2>1, ThroughStop DEF DiagnosticBudget, Kinds
<1> HIDE DEF b
<1>6. Through(s, b)
  BY <1>3, <1>4, <1>5, ThroughTwice
<1> QED BY <1>5, <1>6 DEF Conclude, b, u, d

-----------------------------------------------------------------------------
(* The inductive invariant of the composition.                              *)

HostInv ==
  /\ ControllerInv
  /\ answered \in [Intents -> Nat]
  /\ \A a \in Intents : answered[a] <= issued[a]
  /\ record = "None" =>
       /\ \A a \in Awaited(ctl.phase) : Pending(a)
       /\ ctl.last >= WallClock => ctl.failed
       /\ ctl.phase = "Cleanup" => answered["ConfirmEmptyTree"] = 1 /\ replies = <<"TreeEmpty">>
  /\ ctl.cleanup = "ConfirmedEmpty" =>
       /\ answered["ConfirmEmptyTree"] = 1 /\ answered["Cleanup"] = 1
       /\ replies = <<"TreeEmpty", "Cleaned">>
  /\ answered["ConfirmEmptyTree"] = 0 /\ answered["Cleanup"] = 0 => replies = <<>>

\* No phase waits for anything but intents.
LEMMA AwaitedIntents == \A p \in Phases : Awaited(p) \subseteq Intents
BY AwaitedOnce DEF Phases, Intents

\* No intent but the inspection is issued twice, and none three times.
LEMMA IssuedOnce ==
  ASSUME ControllerInv
  PROVE  \A a \in Intents : issued[a] \in Nat /\ issued[a] <= (IF a = "Inspect" THEN 2 ELSE 1)
<1>1. IntentsAreOneShot
  BY InvOneShot
<1> QED BY <1>1 DEF IntentsAreOneShot, ControllerInv, IssuedOK, MaxIssued

\* An intent in the batch of a settled state has left at most once before.
LEMMA BatchLeaves ==
  ASSUME IssuedOK, NEW s, Core(s), Leaves(s)
  PROVE  \A a \in Intents : /\ issued[a] \in Nat /\ issued'[a] \in Nat
                            /\ issued[a] <= issued'[a]
                            /\ a \in s.actions => issued[a] < issued'[a]
<1> SUFFICES ASSUME NEW a \in Intents
             PROVE  /\ issued[a] \in Nat /\ issued'[a] \in Nat /\ issued[a] <= issued'[a]
                    /\ a \in s.actions => issued[a] < issued'[a]
  OBVIOUS
<1>1. issued[a] \in 0 .. 3
  BY DEF IssuedOK, MaxIssued
<1>2. issued'[a] = IF a \in s.actions /\ issued[a] < 3 THEN issued[a] + 1 ELSE issued[a]
  BY DEF Leaves, MaxIssued
<1>3. a \in s.actions => issued[a] < 3
  <2>1. a = "Inspect" => Total(s, a) <= 2
    BY DEF Core, OneShot
  <2>2. a # "Inspect" => Total(s, a) <= 1
    BY DEF Core, OneShot
  <2> QED BY <1>1, <2>1, <2>2 DEF Total
<1> QED BY <1>1, <1>2, <1>3

\* The host is silent on the cleanup, unless it answers one of its two intents.
Silent ==
  answered'["ConfirmEmptyTree"] = answered["ConfirmEmptyTree"]
    /\ answered'["Cleanup"] = answered["Cleanup"]
  => replies' = replies

\* What the host does to its answers in a step.
Gives(s, t) ==
  \/ answered' = answered
  \/ \E a \in Intents : /\ Pending(a) /\ answered' = [answered EXCEPT ![a] = @ + 1]
                        /\ a \in Awaited(s.phase) => Onward(t)

\* The answers never overtake the intents, and the next phase has its intent out.
LEMMA StillBacked ==
  ASSUME HostInv, record = "None", NEW s, Core(s), Leaves(s), Backed(ctl, s), Gives(ctl, s)
  PROVE  /\ answered' \in [Intents -> Nat]
         /\ \A a \in Intents : answered[a] <= answered'[a] /\ answered'[a] <= issued'[a]
         /\ \A a \in Awaited(s.phase) : answered'[a] < issued'[a]
<1>1. /\ answered \in [Intents -> Nat] /\ IssuedOK
      /\ \A a \in Intents : answered[a] <= issued[a]
      /\ \A a \in Awaited(ctl.phase) : answered[a] < issued[a]
  BY DEF HostInv, ControllerInv, Pending
<1>2. \A a \in Intents : /\ issued[a] \in Nat /\ issued'[a] \in Nat /\ issued[a] <= issued'[a]
                         /\ a \in s.actions => issued[a] < issued'[a]
  BY <1>1, BatchLeaves
<1>3. /\ answered' \in [Intents -> Nat]
      /\ \A a \in Intents : answered[a] <= answered'[a] /\ answered'[a] <= issued[a]
  BY <1>1, <1>2 DEF Gives, Pending
<1>4. Awaited(s.phase) \subseteq Intents
  BY AwaitedIntents DEF Core, Controllers
<1>5. ASSUME NEW a \in Awaited(s.phase) PROVE answered'[a] < issued'[a]
  <2>1. CASE Onward(s)
    BY <1>2, <1>3, <1>4, <2>1 DEF Onward
  <2>2. CASE ~Onward(s)
    <3>1. s.phase = ctl.phase
      BY <2>2 DEF Backed
    <3>2. answered'[a] = answered[a]
      BY <1>1, <1>4, <2>2, <3>1 DEF Gives
    <3> QED BY <1>1, <1>2, <1>3, <1>4, <3>1, <3>2
  <2> QED BY <2>1, <2>2
<1>6. \A a \in Intents : answered'[a] <= issued'[a]
  BY <1>1, <1>2, <1>3
<1> QED BY <1>3, <1>5, <1>6

\* An event was handled as h, which leaves through the three stages.
Handed(at, h) ==
  /\ record = "None" /\ Handled(h) /\ Tidy(h) /\ Backed(ctl, h) /\ Leaves(Conclude(h))

\* The event takes the attempt closer to a confirmed cleanup only with these answers.
Earned(h) ==
  /\ h.phase = "Cleanup" =>
       \/ ctl.phase = "Cleanup"
       \/ /\ ctl.phase = "EmptyTree" /\ answered'["ConfirmEmptyTree"] >= 1
          /\ replies' = Append(replies, "TreeEmpty")
  /\ h.cleanup = "ConfirmedEmpty" =>
       \/ ctl.cleanup = "ConfirmedEmpty"
       \/ /\ ctl.phase = "Cleanup" /\ answered'["Cleanup"] >= 1
          /\ replies' = Append(replies, "Cleaned")

\* A second word makes a pair.
LEMMA TwoWords ==
  ASSUME NEW S, NEW v \in S, NEW w \in S
  PROVE  Append(<<v>>, w) = <<v, w>>
<1>1. <<v, w>> \in Seq(S) /\ Append(<<v>>, w) \in Seq(S)
  OBVIOUS
<1>2. Len(Append(<<v>>, w)) = 2 /\ Append(<<v>>, w)[1] = v /\ Append(<<v>>, w)[2] = w
  OBVIOUS
<1>3. Len(<<v, w>>) = 2 /\ <<v, w>>[1] = v /\ <<v, w>>[2] = w
  OBVIOUS
<1>4. \A i \in 1 .. 2 : i = 1 \/ i = 2
  OBVIOUS
<1>5. \A i \in 1 .. Len(Append(<<v>>, w)) : Append(<<v>>, w)[i] = <<v, w>>[i]
  BY <1>2, <1>3, <1>4
<1> QED BY <1>1, <1>2, <1>3, <1>5, SeqEqual

\* Before the tree was asked for, nothing was said of the cleanup.
LEMMA NothingSaid ==
  ASSUME HostInv, record = "None", ctl.phase = "EmptyTree"
  PROVE  replies = <<>>
<1>1. /\ answered["ConfirmEmptyTree"] < issued["ConfirmEmptyTree"]
      /\ answered["Cleanup"] <= issued["Cleanup"]
      /\ answered["ConfirmEmptyTree"] \in Nat /\ answered["Cleanup"] \in Nat
  BY AwaitedOnce DEF HostInv, Pending, Intents
<1>2. /\ issued["ConfirmEmptyTree"] <= 1 /\ issued["ConfirmEmptyTree"] \in Nat
  BY IssuedOnce DEF HostInv, Intents
<1>3. issued["Cleanup"] = 0
  <2>1. Core(ctl) /\ ctl.actions = {} /\ issued["Cleanup"] \in Nat
    BY IssuedOnce DEF HostInv, ControllerInv, Intents
  <2>2. Total(ctl, "Cleanup") = 0
    BY <2>1 DEF Core, OneShot, Future
  <2> QED BY <2>1, <2>2 DEF Total
<1> QED BY <1>1, <1>2, <1>3 DEF HostInv

\* Any event keeps the invariant.
LEMMA HandedKeeps ==
  ASSUME HostInv, ControllerInv', NEW at, NEW h, Handed(at, h), Gives(ctl, h), Earned(h), Silent
  PROVE  HostInv'
<1> DEFINE s == Conclude(h)
<1>1. Through(h, s) /\ Overdue(s) /\ Core(s) /\ Leaves(s) /\ record = "None"
  BY ConcludeThrough, ConcludeLemma DEF Handed, HostInv, ControllerInv, Settled
<1> HIDE DEF s
<1>2. Backed(ctl, s) /\ Gives(ctl, s)
  BY <1>1 DEF Through, Handed, Guided, Backed, Gives
<1>3. /\ ctl' = [s EXCEPT !.actions = {}] /\ record' = record
  BY <1>1 DEF Leaves
<1>4. /\ ctl'.phase = s.phase /\ ctl'.cleanup = s.cleanup /\ ctl'.last = s.last
      /\ ctl'.failed = s.failed
  BY <1>1, <1>3 DEF Core, Controllers
<1>5. /\ answered' \in [Intents -> Nat]
      /\ \A a \in Intents : answered[a] <= answered'[a] /\ answered'[a] <= issued'[a]
      /\ \A a \in Awaited(s.phase) : answered'[a] < issued'[a]
  BY <1>1, <1>2, StillBacked
<1>6. issued'["ConfirmEmptyTree"] <= 1 /\ issued'["Cleanup"] <= 1
  <2>1. (\A a \in Intents : issued[a] \in Nat /\ issued[a] <= (IF a = "Inspect" THEN 2 ELSE 1))'
    BY IssuedOnce, PTL
  <2> QED BY <2>1 DEF Intents
<1>7. /\ answered["ConfirmEmptyTree"] \in Nat /\ answered["Cleanup"] \in Nat
      /\ answered'["ConfirmEmptyTree"] \in Nat /\ answered'["Cleanup"] \in Nat
      /\ issued'["ConfirmEmptyTree"] \in Nat /\ issued'["Cleanup"] \in Nat
      /\ answered["ConfirmEmptyTree"] <= answered'["ConfirmEmptyTree"]
      /\ answered["Cleanup"] <= answered'["Cleanup"]
      /\ answered'["ConfirmEmptyTree"] <= issued'["ConfirmEmptyTree"]
      /\ answered'["Cleanup"] <= issued'["Cleanup"]
  <2> DEFINE I == {"ConfirmEmptyTree", "Cleanup"}
  <2>1. I \subseteq Intents
    BY DEF Intents
  <2>2. \A a \in I : answered[a] \in Nat /\ answered'[a] \in Nat
    BY <1>5, <2>1 DEF HostInv
  <2>3. \A a \in I : issued'[a] \in Nat
    BY <2>1 DEF ControllerInv, IssuedOK, MaxIssued
  <2>4. \A a \in I : answered[a] <= answered'[a] /\ answered'[a] <= issued'[a]
    BY <1>5, <2>1
  <2> QED BY <2>2, <2>3, <2>4
<1>8. s.phase = "Cleanup" => answered'["ConfirmEmptyTree"] = 1 /\ replies' = <<"TreeEmpty">>
  <2> SUFFICES ASSUME s.phase = "Cleanup"
               PROVE  answered'["ConfirmEmptyTree"] = 1 /\ replies' = <<"TreeEmpty">>
    OBVIOUS
  <2>1. h.phase = "Cleanup"
    BY <1>1 DEF Through, Guided, Modest
  <2>2. CASE ctl.phase = "Cleanup"
    <3>1. answered["ConfirmEmptyTree"] = 1 /\ replies = <<"TreeEmpty">>
      BY <1>1, <2>2 DEF HostInv
    <3>2. answered'["Cleanup"] < issued'["Cleanup"]
      BY <1>5, AwaitedOnce
    <3>3. /\ answered'["ConfirmEmptyTree"] = answered["ConfirmEmptyTree"]
          /\ answered'["Cleanup"] = answered["Cleanup"]
      BY <1>6, <1>7, <3>1, <3>2
    <3> QED BY <3>1, <3>3 DEF Silent
  <2>3. CASE ctl.phase # "Cleanup"
    <3>1. /\ ctl.phase = "EmptyTree" /\ answered'["ConfirmEmptyTree"] >= 1
          /\ replies' = Append(replies, "TreeEmpty")
      BY <2>1, <2>3 DEF Earned
    <3>2. replies = <<>>
      BY <1>1, <3>1, NothingSaid
    <3>3. Append(<<>>, "TreeEmpty") = <<"TreeEmpty">>
      OBVIOUS
    <3> QED BY <1>6, <1>7, <3>1, <3>2, <3>3
  <2> QED BY <2>2, <2>3
<1>9. s.cleanup = "ConfirmedEmpty" =>
        /\ answered'["ConfirmEmptyTree"] = 1 /\ answered'["Cleanup"] = 1
        /\ replies' = <<"TreeEmpty", "Cleaned">>
  <2> SUFFICES ASSUME s.cleanup = "ConfirmedEmpty"
               PROVE  /\ answered'["ConfirmEmptyTree"] = 1 /\ answered'["Cleanup"] = 1
                      /\ replies' = <<"TreeEmpty", "Cleaned">>
    OBVIOUS
  <2>1. h.cleanup = "ConfirmedEmpty"
    BY <1>1 DEF Through, Guided, Modest
  <2>2. CASE ctl.cleanup = "ConfirmedEmpty"
    <3>1. /\ answered["ConfirmEmptyTree"] = 1 /\ answered["Cleanup"] = 1
          /\ replies = <<"TreeEmpty", "Cleaned">>
      BY <2>2 DEF HostInv
    <3>2. /\ answered'["ConfirmEmptyTree"] = answered["ConfirmEmptyTree"]
          /\ answered'["Cleanup"] = answered["Cleanup"]
      BY <1>6, <1>7, <3>1
    <3> QED BY <3>1, <3>2 DEF Silent
  <2>3. CASE ctl.cleanup # "ConfirmedEmpty"
    <3>1. /\ ctl.phase = "Cleanup" /\ answered'["Cleanup"] >= 1
          /\ replies' = Append(replies, "Cleaned")
      BY <2>1, <2>3 DEF Earned
    <3>2. answered["ConfirmEmptyTree"] = 1 /\ replies = <<"TreeEmpty">>
      BY <1>1, <3>1 DEF HostInv
    <3>3. Append(<<"TreeEmpty">>, "Cleaned") = <<"TreeEmpty", "Cleaned">>
      <4> DEFINE Words == {"TreeEmpty", "Cleaned"}
      <4>1. "TreeEmpty" \in Words /\ "Cleaned" \in Words
        OBVIOUS
      <4> QED BY <4>1, TwoWords
    <3>4. answered'["ConfirmEmptyTree"] = 1 /\ answered'["Cleanup"] = 1
      BY <1>6, <1>7, <3>1, <3>2
    <3> QED BY <3>1, <3>2, <3>3, <3>4
  <2> QED BY <2>2, <2>3
<1>10. answered'["ConfirmEmptyTree"] = 0 /\ answered'["Cleanup"] = 0 => replies' = <<>>
  <2> SUFFICES ASSUME answered'["ConfirmEmptyTree"] = 0, answered'["Cleanup"] = 0
               PROVE  replies' = <<>>
    OBVIOUS
  <2>1. answered["ConfirmEmptyTree"] = 0 /\ answered["Cleanup"] = 0
    BY <1>7
  <2>2. replies = <<>>
    BY <2>1 DEF HostInv
  <2> QED BY <2>1, <2>2 DEF Silent
<1> QED BY <1>1, <1>4, <1>5, <1>8, <1>9, <1>10 DEF HostInv, Overdue, Pending

-----------------------------------------------------------------------------
(* The steps of the host.                                                   *)

\* A controller that an event arrives at.
LEMMA Arrives ==
  ASSUME HostInv, record = "None", NEW at \in ctl.last .. MaxTime
  PROVE  LET s == Arrive(at)
         IN  /\ s \in Controllers /\ s.actions = {} /\ IssuedOK /\ Ready(s)
             /\ s.phase = ctl.phase /\ s.cleanup = ctl.cleanup
<1>1. IssuedOK /\ Core(ctl) /\ Evident(ctl) /\ ctl.actions = {}
  BY DEF HostInv, ControllerInv
<1>2. at \in Times
  BY <1>1 DEF Core, Controllers, Times
<1>3. Ready(Arrive(at))
  BY <1>1, <1>2, ArriveLemma DEF Ready
<1>4. Arrive(at).phase = ctl.phase /\ Arrive(at).cleanup = ctl.cleanup
  BY <1>1 DEF Arrive, Core, Controllers
<1> QED BY <1>1, <1>3, <1>4 DEF Ready, Core

\* What the host writes down when it says that intent a was carried out.
Word(a) == IF a = "Cleanup" THEN "Cleaned" ELSE "TreeEmpty"

\* An answer to intent a, written down as `word`, was handled as h.
Replied(at, a, word, h) ==
  /\ Handed(at, h)
  /\ a \in Awaited(ctl.phase) => Onward(h)
  /\ h.phase = "Cleanup" =>
       \/ ctl.phase = "Cleanup"
       \/ ctl.phase = "EmptyTree" /\ a = "ConfirmEmptyTree" /\ word = "TreeEmpty"
  /\ h.cleanup = "ConfirmedEmpty" =>
       \/ ctl.cleanup = "ConfirmedEmpty"
       \/ ctl.phase = "Cleanup" /\ a = "Cleanup" /\ word = "Cleaned"

\* A handler that serves the answer.
LEMMA ServedReply ==
  ASSUME NEW at, NEW s, NEW a, NEW h, s.phase = ctl.phase, s.cleanup = ctl.cleanup,
         record = "None", Handled(h), Serves(s, a, h), Leaves(Conclude(h)), NEW word
  PROVE  Replied(at, a, word, h)
BY DEF Serves, Guided, Backed, Modest, Replied, Handed

\* Every answer of the host that says the intent was carried out.
LEMMA AffirmReplies ==
  ASSUME HostInv, NEW a \in Intents, NEW at \in ctl.last .. MaxTime, Affirms(a, at)
  PROVE  \E h : Replied(at, a, Word(a), h)
<1> DEFINE s == Arrive(at)
<1>1. record = "None"
  BY DEF Affirms, Created, Attached, Started, StdinWritten, StdinClosed, Exit, Inspected,
         TreeTerminated, TreeEmpty, Cleaned, Leaves, Intents
<1>2. /\ s \in Controllers /\ s.actions = {} /\ IssuedOK /\ Ready(s)
      /\ s.phase = ctl.phase /\ s.cleanup = ctl.cleanup
  BY <1>1, Arrives
<1> HIDE DEF s
<1>3. CASE a = "Create" /\ Created(at)
  <2>1. Handled(OnCreated(s))
    BY <1>2, ReplyLemma DEF OnCreated, Phases, Intents
  <2> QED BY <1>1, <1>2, <1>3, <2>1, ForwardServes, ServedReply DEF Created, s
<1>4. CASE a = "AttachSeparatedStreams" /\ Attached(at)
  <2>1. Handled(OnAttached(s))
    BY <1>2, ReplyLemma DEF OnAttached, Phases, Intents
  <2> QED BY <1>1, <1>2, <1>4, <2>1, ForwardServes, ServedReply DEF Attached, s
<1>5. CASE a = "Start" /\ Started(at)
  <2>1. Handled(OnStarted(s))
    BY <1>2, StartedLemma
  <2> QED BY <1>1, <1>2, <1>5, <2>1, StartedServes, ServedReply DEF Started, s
<1>6. ASSUME a = "SendExactStdin", NEW exact \in BOOLEAN, StdinWritten(at, exact)
      PROVE  \E h : Replied(at, a, Word(a), h)
  <2>1. Handled(OnStdinWritten(s, exact))
    BY <1>2, ReplyLemma, RejectHandled DEF OnStdinWritten, Phases, Intents
  <2> QED BY <1>1, <1>2, <1>6, <2>1, ForwardServes, ServedReply DEF StdinWritten, s
<1>7. CASE a = "CloseStdin" /\ StdinClosed(at)
  <2>1. Handled(OnStdinClosed(s))
    BY <1>2, ReplyLemma DEF OnStdinClosed, Phases, Intents
  <2> QED BY <1>1, <1>2, <1>7, <2>1, ForwardServes, ServedReply DEF StdinClosed, s
<1>8. ASSUME a = "Wait", NEW x \in Exits, Exit(at, x)
       PROVE  \E h : Replied(at, a, Word(a), h)
  <2>1. Handled(OnExit(s, x))
    BY <1>2, ExitLemma
  <2> QED BY <1>1, <1>2, <1>8, <2>1, ExitServes, ServedReply DEF Exit, s
<1>9. CASE a = "Inspect" /\ Inspected(at)
  <2>1. Handled(OnInspected(s))
    BY <1>2, InspectedLemma
  <2> QED BY <1>1, <1>2, <1>9, <2>1, InspectedServes, ServedReply DEF Inspected, s
<1>10. CASE a = "TerminateTree" /\ TreeTerminated(at)
  <2>1. Handled(OnTreeTerminated(s))
    BY <1>2, ReplyLemma DEF OnTreeTerminated, Phases, Intents
  <2> QED BY <1>1, <1>2, <1>10, <2>1, ForwardServes, ServedReply DEF TreeTerminated, s
<1>11. CASE a = "ConfirmEmptyTree" /\ TreeEmpty(at)
  <2>1. Handled(OnTreeEmpty(s))
    BY <1>2, ReplyLemma DEF OnTreeEmpty, Phases, Intents
  <2>2. LET t == OnTreeEmpty(s)
        IN  /\ Tidy(t) /\ Backed(s, t) /\ ("ConfirmEmptyTree" \in Awaited(s.phase) => Onward(t))
            /\ t.cleanup = "ConfirmedEmpty" => s.cleanup = "ConfirmedEmpty"
            /\ t.phase = "Cleanup" => s.phase \in {"EmptyTree", "Cleanup"}
    BY <1>2, TreeEmptyServes
  <2>3. Leaves(Conclude(OnTreeEmpty(s)))
    BY <1>11 DEF TreeEmpty, s
  <2>4. Replied(at, a, Word(a), OnTreeEmpty(s))
    BY <1>1, <1>2, <1>11, <2>1, <2>2, <2>3 DEF Replied, Handed, Backed, Word
  <2> QED BY <2>4
<1>12. CASE a = "Cleanup" /\ Cleaned(at)
  <2>1. Handled(OnCleaned(s))
    BY <1>2, CleanedLemma
  <2>2. LET t == OnCleaned(s)
        IN  /\ Tidy(t) /\ Backed(s, t) /\ ("Cleanup" \in Awaited(s.phase) => Onward(t))
            /\ t.phase = "Cleanup" => s.phase = "Cleanup"
            /\ t.cleanup = "ConfirmedEmpty" => s.cleanup = "ConfirmedEmpty" \/ s.phase = "Cleanup"
    BY <1>2, CleanedServes
  <2>3. Leaves(Conclude(OnCleaned(s)))
    BY <1>12 DEF Cleaned, s
  <2>4. Replied(at, a, Word(a), OnCleaned(s))
    BY <1>1, <1>2, <1>12, <2>1, <2>2, <2>3 DEF Replied, Handed, Backed, Word
  <2> QED BY <2>4
<1>13. \/ a = "Create" /\ Created(at)
       \/ a = "AttachSeparatedStreams" /\ Attached(at)
       \/ a = "Start" /\ Started(at)
       \/ a = "SendExactStdin" /\ \E exact \in BOOLEAN : StdinWritten(at, exact)
       \/ a = "CloseStdin" /\ StdinClosed(at)
       \/ a = "Wait" /\ \E x \in Exits : Exit(at, x)
       \/ a = "Inspect" /\ Inspected(at)
       \/ a = "TerminateTree" /\ TreeTerminated(at)
       \/ a = "ConfirmEmptyTree" /\ TreeEmpty(at)
       \/ a = "Cleanup" /\ Cleaned(at)
  BY DEF Affirms, Intents
<1> QED BY <1>3, <1>4, <1>5, <1>6, <1>7, <1>8, <1>9, <1>10, <1>11, <1>12, <1>13

\* Every answer of the host that says it was not.
LEMMA DenyReplies ==
  ASSUME HostInv, NEW a \in Intents, NEW at \in ctl.last .. MaxTime, Denies(a, at)
  PROVE  \E h : Replied(at, a, "refused", h)
<1> DEFINE s == Arrive(at)
<1>1. record = "None"
  BY DEF Denies, TreeNotEmpty, CleanupFailed, ControlFailed, Leaves
<1>2. /\ s \in Controllers /\ s.actions = {} /\ IssuedOK /\ Ready(s)
      /\ s.phase = ctl.phase /\ s.cleanup = ctl.cleanup
  BY <1>1, Arrives
<1>3. \A n \in DiagnosticSizes : n \in Nat
  BY ControllerAssumption
<1> HIDE DEF s
<1>4. ASSUME NEW n \in DiagnosticSizes, ControlFailed(at, OperationOf(a), n)
      PROVE  \E h : Replied(at, a, "refused", h)
  <2>1. OperationOf(a) \in Operations
    BY DEF OperationOf, Operations, Intents
  <2>2. Handled(OnControlFailed(s, OperationOf(a), n))
    BY <1>2, <1>3, <2>1, ControlFailedLemma
  <2>3. Serves(s, a, OnControlFailed(s, OperationOf(a), n))
    BY <1>2, <1>3, ControlFailedServes
  <2> QED BY <1>1, <1>2, <1>4, <2>2, <2>3, ServedReply DEF ControlFailed, s
<1>5. CASE a = "ConfirmEmptyTree" /\ TreeNotEmpty(at)
  <2>1. Handled(OnTreeNotEmpty(s)) /\ 0 \in Nat
    BY <1>2, TreeNotEmptyLemma
  <2> QED BY <1>1, <1>2, <1>5, <2>1, NotEmptyServes, ServedReply DEF TreeNotEmpty, s
<1>6. ASSUME a = "Cleanup", NEW n \in DiagnosticSizes, CleanupFailed(at, n)
       PROVE  \E h : Replied(at, a, "refused", h)
  <2>1. Handled(OnCleanupFailed(s, n))
    BY <1>2, <1>3, CleanupFailedLemma
  <2>2. Serves(s, "Cleanup", OnCleanupFailed(s, n))
    BY <1>2, <1>3, NotEmptyServes
  <2> QED BY <1>1, <1>2, <1>6, <2>1, <2>2, ServedReply DEF CleanupFailed, s
<1> QED BY <1>4, <1>5, <1>6 DEF Denies

\* What the container does on its own, and the exit of a killed tree.
LEMMA ContainerHanded ==
  ASSUME HostInv, NEW at \in ctl.last .. MaxTime, Spontaneous(at) \/ Exit(at, "Error")
  PROVE  \E h : Handed(at, h) /\ Modest(ctl, h)
<1> DEFINE s == Arrive(at)
<1>1. record = "None"
  BY DEF Spontaneous, Output, StreamsClosed, OomKilled, Interrupted, TransportFailed,
         DeadlineTick, Exit, Leaves
<1>2. /\ s \in Controllers /\ s.actions = {} /\ IssuedOK /\ Ready(s) /\ Core(s)
      /\ s.phase = ctl.phase /\ s.cleanup = ctl.cleanup
  BY <1>1, Arrives DEF Ready
<1>3. /\ \A n \in DiagnosticSizes : n \in Nat
      /\ \A n \in 0 .. StreamLimit + 1 : n \in Nat
      /\ "Interrupted" \in Kinds /\ "Transport" \in Kinds /\ "Error" \in Exits
  BY ControllerAssumption DEF Kinds, Exits
<1> HIDE DEF s
<1>4. ASSUME NEW h, Handled(h), Guided(s, h), Leaves(Conclude(h))
      PROVE  Handed(at, h) /\ Modest(ctl, h)
  BY <1>1, <1>2, <1>4 DEF Guided, Backed, Modest, Handed
<1>5. ASSUME NEW out \in 0 .. StreamLimit + 1, NEW err \in 0 .. StreamLimit + 1,
             Output(at, out, err)
      PROVE  \E h : Handed(at, h) /\ Modest(ctl, h)
  <2>1. Handled(OnOutput(s, out, err)) /\ Guided(s, OnOutput(s, out, err))
    BY <1>2, <1>3, OutputLemma, OutputGuided
  <2> QED BY <1>4, <1>5, <2>1 DEF Output, s
<1>6. ASSUME NEW out \in BOOLEAN, NEW err \in BOOLEAN, StreamsClosed(at, out, err)
      PROVE  \E h : Handed(at, h) /\ Modest(ctl, h)
  <2>1. Handled(OnStreamsClosed(s, out, err)) /\ Guided(s, OnStreamsClosed(s, out, err))
    BY <1>2, StreamsClosedLemma, StreamsClosedGuided
  <2> QED BY <1>4, <1>6, <2>1 DEF StreamsClosed, s
<1>7. CASE OomKilled(at)
  <2>1. Handled(OnOomKilled(s)) /\ Guided(s, OnOomKilled(s))
    BY <1>2, OomLemma, BrokenGuided
  <2> QED BY <1>4, <1>7, <2>1 DEF OomKilled, s
<1>8. ASSUME NEW n \in DiagnosticSizes, Interrupted(at, n) \/ TransportFailed(at, n)
      PROVE  \E h : Handed(at, h) /\ Modest(ctl, h)
  <2>1. \A k \in {"Interrupted", "Transport"} :
          Handled(OnBroken(s, k, n)) /\ Guided(s, OnBroken(s, k, n))
    BY <1>2, <1>3, BrokenLemma, BrokenGuided
  <2> QED BY <1>4, <1>8, <2>1 DEF Interrupted, TransportFailed, s
<1>9. CASE DeadlineTick(at)
  <2>1. Handled(s) /\ Guided(s, s)
    BY <1>2, ReadyIsHandled DEF Guided, Tidy, Backed, Modest
  <2> QED BY <1>4, <1>9, <2>1 DEF DeadlineTick, s
<1>10. CASE Exit(at, "Error")
  <2>1. Handled(OnExit(s, "Error")) /\ Guided(s, OnExit(s, "Error"))
    BY <1>2, <1>3, ExitLemma, ExitServes DEF Serves
  <2> QED BY <1>4, <1>10, <2>1 DEF Exit, s
<1> QED BY <1>5, <1>6, <1>7, <1>8, <1>9, <1>10 DEF Spontaneous

\* Every step of the host is a step of the controller.
LEMMA HostStepIsStep ==
  ASSUME ctl.last \in Times, [HostNext]_hostVars
  PROVE  [Next]_vars
<1>1. ASSUME NEW a \in Intents, Answer(a) PROVE Advance
  <2>1. PICK at \in ctl.last .. MaxTime : Affirms(a, at) \/ Denies(a, at)
    BY <1>1 DEF Answer
  <2>2. OperationOf(a) \in Operations
    BY DEF OperationOf, Operations, Intents
  <2>3. Answered(at)
    BY <2>1, <2>2 DEF Affirms, Denies, Answered, Intents
  <2> QED BY <2>3 DEF Advance
<1>2. CASE Container
  BY <1>2 DEF Container, Advance, Next
<1>3. CASE KilledExit
  BY <1>3 DEF KilledExit, Advance, Answered, Exits, Next
<1>4. CASE Consume
  BY <1>4 DEF Consume, Next
<1>5. CASE UNCHANGED hostVars
  BY <1>5 DEF hostVars, vars
<1> QED BY <1>1, <1>2, <1>3, <1>4, <1>5 DEF HostNext, Next

\* finish() ends the waiting, and confirms no cleanup.
LEMMA ConsumeKeeps ==
  ASSUME HostInv, ControllerInv', Consume
  PROVE  HostInv'
<1>1. PICK at \in Times : Finish(at)
  BY DEF Consume
<1>2. /\ record = "None" /\ ctl' = Closing(ctl, at) /\ record' = Verdict(ctl')
      /\ issued' = issued /\ answered' = answered /\ replies' = replies
  BY <1>1 DEF Finish, Consume, replyVars
<1>3. record' # "None"
  BY <1>2 DEF Verdict
<1>4. ctl \in Controllers /\ Lawful(ctl) /\ Open(ctl)
  BY <1>2 DEF HostInv, ControllerInv, Core, Sound
<1>5. Kept(ctl, Closing(ctl, at))
  BY <1>4, ClosingLemma
<1>6. ctl'.cleanup = ctl.cleanup
  BY <1>2, <1>5 DEF Kept
<1> QED BY <1>2, <1>3, <1>6 DEF HostInv

\* Every step of the composition keeps the invariant.
LEMMA HostKeeps == HostInv /\ [HostNext]_hostVars => HostInv'
<1> SUFFICES ASSUME HostInv, [HostNext]_hostVars PROVE HostInv'
  OBVIOUS
<1>1. ControllerInv' /\ ControllerInv
  <2>1. ControllerInv /\ ctl.last \in Times
    BY DEF HostInv, ControllerInv, Core, Controllers
  <2> QED BY <2>1, HostStepIsStep, StepLemma
<1>2. ASSUME NEW a \in Intents, Answer(a) PROVE HostInv'
  <2>1. PICK at \in ctl.last .. MaxTime :
           \/ Affirms(a, at) /\ Tells(a, Word(a))
           \/ Denies(a, at) /\ Tells(a, "refused")
    BY <1>2 DEF Answer, Word
  <2>2. PICK word, h : Replied(at, a, word, h) /\ Tells(a, word)
    BY <2>1, AffirmReplies, DenyReplies
  <2>3. Pending(a) /\ answered' = [answered EXCEPT ![a] = @ + 1]
    BY <1>2 DEF Answer
  <2>4. Gives(ctl, h)
    BY <2>2, <2>3 DEF Gives, Replied
  <2>5. /\ answered'[a] >= 1 /\ answered'[a] # answered[a]
        /\ a \in {"ConfirmEmptyTree", "Cleanup"} => replies' = Append(replies, word)
        /\ a \notin {"ConfirmEmptyTree", "Cleanup"} => replies' = replies
    BY <2>2, <2>3 DEF HostInv, Tells
  <2>6. Earned(h)
    BY <2>2, <2>5 DEF Replied, Earned
  <2>7. Silent
    BY <2>5 DEF Silent
  <2> QED BY <1>1, <2>2, <2>4, <2>6, <2>7, HandedKeeps DEF Replied
<1>3. CASE Container \/ KilledExit
  <2>1. answered' = answered /\ replies' = replies
    BY <1>3 DEF Container, KilledExit, replyVars
  <2>2. PICK at \in ctl.last .. MaxTime : Spontaneous(at) \/ Exit(at, "Error")
    BY <1>3 DEF Container, KilledExit
  <2>3. PICK h : Handed(at, h) /\ Modest(ctl, h)
    BY <2>2, ContainerHanded
  <2>4. Gives(ctl, h) /\ Earned(h) /\ Silent
    BY <2>1, <2>3 DEF Gives, Earned, Modest, Silent
  <2> QED BY <1>1, <2>3, <2>4, HandedKeeps
<1>4. CASE Consume
  BY <1>1, <1>4, ConsumeKeeps
<1>5. CASE UNCHANGED hostVars
  BY <1>1, <1>5 DEF hostVars, replyVars, HostInv, Pending
<1> QED BY <1>2, <1>3, <1>4, <1>5 DEF HostNext

\* The host of a new controller owes it the creation.
LEMMA HostStarts == HostInit => HostInv
<1> SUFFICES ASSUME HostInit PROVE HostInv
  OBVIOUS
<1>1. ControllerInv
  BY InitLemma DEF HostInit
<1>2. /\ answered \in [Intents -> Nat] /\ \A a \in Intents : answered[a] = 0
      /\ \A a \in Intents : issued[a] = IF a = "Create" THEN 1 ELSE 0
      /\ ctl.phase = "Create" /\ ctl.last = 0 /\ ctl.cleanup = "Unknown"
  BY DEF HostInit, Init
<1>3. \A a \in Awaited(ctl.phase) : Pending(a)
  BY <1>2, AwaitedOnce DEF Pending, Intents
<1>4. ~(ctl.last >= WallClock)
  BY <1>2, ControllerAssumption
<1>5. replies = <<>> /\ \A a \in Intents : answered[a] <= issued[a]
  BY <1>2 DEF HostInit
<1> QED BY <1>1, <1>2, <1>3, <1>4, <1>5 DEF HostInv

-----------------------------------------------------------------------------

\* The invariant of the composition holds in every reachable state.
LEMMA HostSafe == HostSpec => []HostInv
BY HostStarts, HostKeeps, PTL DEF HostSpec

\* The composition is the controller with one of its possible hosts: whatever was proved
\* of the controller under any events holds of it here.
THEOREM HostRunsController == HostSpec => Spec
<1>1. HostInit => Init
  BY DEF HostInit
<1>2. HostInv /\ [HostNext]_hostVars => [Next]_vars
  <2>1. HostInv => ctl.last \in Times
    BY DEF HostInv, ControllerInv, Core, Controllers
  <2> QED BY <2>1, HostStepIsStep
<1> QED BY <1>1, <1>2, HostSafe, PTL DEF HostSpec, Spec

\* What the composition reaches are controllers that the source can build.
THEOREM HostTypes == HostSpec => []TypeOK
BY HostRunsController, TypeCorrect, PTL

\* Each intent still leaves at most once when the host answers late, early or never.
THEOREM HostOneShot == HostSpec => []IntentsAreOneShot
BY HostRunsController, OneShotController, PTL

\* No phase of an attempt waits for an answer that nobody owes it: suppressed intents and
\* late answers to abandoned steps never strand the attempt.
THEOREM NoPhaseIsStranded == HostSpec => []WaitIsBackedByIntent
<1>1. HostInv => WaitIsBackedByIntent
  BY DEF HostInv, WaitIsBackedByIntent
<1> QED BY <1>1, HostSafe, PTL

\* The event that observes the deadline ends the forward protocol.
THEOREM DeadlineEndsForward == HostSpec => []DeadlineEndsForwardProtocol
<1>1. HostInv => DeadlineEndsForwardProtocol
  BY DEF HostInv, ControllerInv, Core, DeadlineEndsForwardProtocol
<1> QED BY <1>1, HostSafe, PTL

\* A confirmed cleanup is one that the host answered with an empty tree first and with a
\* cleaned container then, and with nothing else.
THEOREM ConfirmationIsAnswered == HostSpec => []ConfirmedCleanupIsAnswered
<1>1. HostInv => ConfirmedCleanupIsAnswered
  BY DEF HostInv, ConfirmedCleanupIsAnswered
<1> QED BY <1>1, HostSafe, PTL
=============================================================================
