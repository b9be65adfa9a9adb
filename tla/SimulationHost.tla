--------------------------- MODULE SimulationHost ---------------------------
(***************************************************************************)
(* The controller composed with the container host that serves it.  The    *)
(* host answers every intent it was given exactly once, at any time and in *)
(* any order, successfully or with a ControlFailed, so an answer may come  *)
(* after the controller has given up on the step; and the container may    *)
(* produce output, close its streams, be killed or be interrupted at any   *)
(* point.                                                                  *)
(***************************************************************************)
EXTENDS SimulationController, Sequences

VARIABLES
  answered,   \* how many intents of each kind the host has answered
  replies     \* history: its answers to ConfirmEmptyTree and Cleanup, in their order

replyVars == <<answered, replies>>
hostVars == <<ctl, issued, record, replyVars>>

Pending(a) == answered[a] < issued[a]

\* The events that say an intent was carried out (SimulationEventKind).
Affirms(a, at) ==
  CASE a = "Create" -> Created(at)
    [] a = "AttachSeparatedStreams" -> Attached(at)
    [] a = "Start" -> Started(at)
    [] a = "SendExactStdin" -> \E exact \in BOOLEAN : StdinWritten(at, exact)
    [] a = "CloseStdin" -> StdinClosed(at)
    [] a = "Wait" -> \E x \in Exits : Exit(at, x)
    [] a = "Inspect" -> Inspected(at)
    [] a = "TerminateTree" -> TreeTerminated(at)
    [] a = "ConfirmEmptyTree" -> TreeEmpty(at)
    [] a = "Cleanup" -> Cleaned(at)

OperationOf(a) ==
  CASE a = "AttachSeparatedStreams" -> "Attach"
    [] a \in {"SendExactStdin", "CloseStdin"} -> "Stdin"
    [] a = "TerminateTree" -> "Terminate"
    [] a = "ConfirmEmptyTree" -> "EmptyTree"
    [] OTHER -> a

\* The events that say it was not.
Denies(a, at) ==
  \/ a = "ConfirmEmptyTree" /\ TreeNotEmpty(at)
  \/ a = "Cleanup" /\ \E size \in DiagnosticSizes : CleanupFailed(at, size)
  \/ \E size \in DiagnosticSizes : ControlFailed(at, OperationOf(a), size)

\* The word is written down if the intent is one of the two of the cleanup.
Tells(a, word) ==
  replies' = IF a \in {"ConfirmEmptyTree", "Cleanup"} THEN Append(replies, word) ELSE replies

Answer(a) ==
  /\ Pending(a)
  /\ \E at \in ctl.last .. MaxTime :
       \/ Affirms(a, at) /\ Tells(a, IF a = "Cleanup" THEN "Cleaned" ELSE "TreeEmpty")
       \/ Denies(a, at) /\ Tells(a, "refused")
  /\ answered' = [answered EXCEPT ![a] = @ + 1]

Container ==
  /\ \E at \in ctl.last .. MaxTime : Spontaneous(at)
  /\ UNCHANGED replyVars

\* A tree killed before Wait left the controller still reports its exit.
KilledExit ==
  /\ issued["TerminateTree"] > 0 /\ issued["Wait"] = 0 /\ ctl.started
  /\ \E at \in ctl.last .. MaxTime : ctl.exit = "None" /\ Exit(at, "Error")
  /\ UNCHANGED replyVars

Consume == (\E at \in Times : Finish(at)) /\ UNCHANGED replyVars

HostInit == Init /\ answered = [a \in Intents |-> 0] /\ replies = <<>>

HostNext == (\E a \in Intents : Answer(a)) \/ Container \/ KilledExit \/ Consume

\* Every intent is answered in the end and the wall clock passes the deadline; the
\* container owes nothing, neither output nor the end of its streams.  (An answer can
\* be given exactly while its intent is pending and the controller is not consumed, and
\* only finitely often, so this is weak fairness of every Answer(a) and of a DeadlineTick, said
\* without ENABLED.)
HostFairness ==
  /\ \A a \in Intents : []<>(~Pending(a) \/ record # "None")
  /\ []<>(ctl.last >= WallClock \/ record # "None")

HostSpec == HostInit /\ [][HostNext]_hostVars /\ HostFairness

-----------------------------------------------------------------------------

Awaited(p) ==
  CASE p = "Create" -> {"Create"}
    [] p = "Attach" -> {"AttachSeparatedStreams"}
    [] p = "Start" -> {"Start"}
    [] p = "Stdin" -> {"SendExactStdin"}
    [] p = "StdinEof" -> {"CloseStdin"}
    [] p = "Running" -> {"Wait"}
    [] p = "Inspect" -> {"Inspect"}
    [] p = "Terminate" -> {"TerminateTree"}
    [] p = "EmptyTree" -> {"ConfirmEmptyTree"}
    [] p = "Cleanup" -> {"Cleanup"}
    [] p \in {"Drain", "Finalizable"} -> {}

\* A phase that waits for an answer has an unanswered intent out: suppressing intents
\* after the deadline, or a late answer to an abandoned step, never strands the attempt.
WaitIsBackedByIntent ==
  record = "None" => \A a \in Awaited(ctl.phase) : Pending(a)

\* Past the deadline the attempt only waits for what leads to its end: no phase of the
\* forward protocol survives the event that observed the deadline.
DeadlineEndsForwardProtocol ==
  record = "None" /\ ctl.last >= WallClock => ctl.phase \in CleanupTail \cup {"Inspect"}

\* Whatever the container and the host do, the attempt reaches the end of its cleanup
\* tail, or its caller consumed it first.
AttemptSettles == <>(ctl.phase = "Finalizable" \/ record # "None")

\* A container left on the host is reported: the attempt ends with a confirmed cleanup only
\* if the host said that the tree is empty and then that the container is cleaned, and it
\* said nothing else to the two questions, neither before nor after nor in between.
ConfirmedCleanupIsAnswered ==
  ctl.cleanup = "ConfirmedEmpty" => replies = <<"TreeEmpty", "Cleaned">>
=============================================================================
