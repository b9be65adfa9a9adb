--------------------------- MODULE NativeSupervisor ---------------------------
(***************************************************************************)
(* The driver of the supervisor inside the container (supervisor.rs of     *)
(* solver-bootstrap-linux): it sends READY, receives ARM and the query,    *)
(* clones the child once, grants its first exec, feeds it the query,       *)
(* forwards its two streams, reaps it and reports the end.                 *)
(*                                                                         *)
(* The child, the host and the clock go on between any two of its system   *)
(* calls; in the streaming loop in particular every result of a poll is    *)
(* used as it was when the poll returned.  Frames are as in                *)
(* BootstrapHandshake and the wire format, here only their order matters.  *)
(***************************************************************************)
EXTENDS Integers, Sequences, FiniteSets

CONSTANTS
  Query,   \* length of the query, in units of one write
  Limits,  \* limits of stdout and of stderr, in units of one read
  None

Streams == {"stdout", "stderr"}

VARIABLES
  sup,    \* the supervisor: its program counter and the locals of run_inner
  kid,    \* the child, as the kernel has it
  host,   \* the other end of the control connection
  late,   \* the clock has reached the deadline in force
  fault   \* history: a system call failed, or the host or the child misbehaved

vars == <<sup, kid, host, late, fault>>

\* A frame is written in two parts.
FrameUnits == 2

Chunk == [stdout |-> "StdoutChunk", stderr |-> "StderrChunk"]
Eof == [stdout |-> "StdoutEof", stderr |-> "StderrEof"]

Frames ==
  {"Ready", "ChildExit", "Final"} \cup {Chunk[k] : k \in Streams} \cup {Eof[k] : k \in Streams}

Errors == {"Deadline", "ControlLost", "ListenerLost", "Protocol", "Handshake", "Child",
           "Notification", "OutputLimit", "Observation", "Wire", "System"}

ASSUME NativeAssumption ==
  /\ Query \in Nat \ {0}
  /\ Limits \in [Streams -> Nat]
  /\ None \notin Errors

\* The script of the host: ARM, the query, its end, and what must not follow.
Messages == <<"Arm", "QueryChunk", "QueryEnd", "Extra">>

Places == {"Entry", "Flush", "Arm", "Query", "Complete", "Clone", "Listener", "Grant",
           "Notice", "Send", "Before", "Pids", "Procs", "After", "Top", "Poll", "Control",
           "Child", "Output", "Stdin", "Read", "Cleanup", "Wait", "Return", "Exited"}

Polled == [control : {"idle", "read", "bad"}, pid : BOOLEAN, listener : {"idle", "read", "hup"},
           output : {"idle", "write", "bad"}, stdin : {"idle", "write", "bad"},
           read : SUBSET Streams]

NoEvents == [control |-> "idle", pid |-> FALSE, listener |-> "idle", output |-> "idle", stdin |-> "idle",
             read |-> {}]

Facts == {"Absent", "Running", "Reaped"}

Supervisors ==
  [at : Places, error : Errors \cup {None}, child : Facts,
   taken : 0 .. 4, used : 0 .. 4, grant : {"Awaiting", "Consumed"},
   log : Seq(Frames), left : 0 .. FrameUnits,
   written : 0 .. Query, stdin : BOOLEAN,
   count : [Streams -> Nat], eof : [Streams -> BOOLEAN],
   exitSent : BOOLEAN, final : BOOLEAN,
   reads : 1 .. 4, retried : BOOLEAN, goal : {"Stream", "Final"},
   before : Facts, pids : 1 .. 2, listed : BOOLEAN,
   ev : Polled]

Kids ==
  [state : {"None", "Setup", "Handed", "Waiting", "Running", "Dying", "Exited", "Gone"},
   notice : BOOLEAN, killed : BOOLEAN, stdin : BOOLEAN, read : 0 .. Query,
   out : [Streams -> Nat], open : [Streams -> BOOLEAN]]

Hosts == [sent : 0 .. 4, control : BOOLEAN, output : BOOLEAN,
          status : {"none", "response", "refused"}]

TypeOK ==
  /\ sup \in Supervisors /\ kid \in Kids /\ host \in Hosts
  /\ \A k \in Streams : sup.count[k] <= Limits[k] /\ sup.count[k] <= kid.out[k]
  /\ sup.used <= sup.taken /\ sup.taken <= host.sent
  /\ late \in BOOLEAN /\ fault \in BOOLEAN

-----------------------------------------------------------------------------
(* Helpers, from supervisor to supervisor.                                  *)

At(place) == sup.at = place

Goto(s, place) == [s EXCEPT !.at = place]

Fail(s, error) == [s EXCEPT !.at = "Cleanup", !.error = error, !.ev = NoEvents]

Ok(s) == s.error = None

\* A step that returned no error goes on at `place`.
Then(s, place) == IF Ok(s) THEN Goto(s, place) ELSE s

\* Mutant: no deadline is checked on the way.
CheckedNever(s) == s

\* Deadline::check.
Checked(s) == IF Ok(s) /\ late THEN Fail(s, "Deadline") ELSE s

\* PendingFrameBuffer::push: a frame that is not written yet must not be overtaken.
Push(s, f) ==
  IF s.left # 0 THEN Fail(s, "Wire")
  ELSE [s EXCEPT !.log = Append(@, f), !.left = FrameUnits]

HasBytes(s) == s.used < s.taken

\* ensure_no_control and reject_control_read.
NoControl(s) ==
  IF HasBytes(s) \/ host.sent > s.taken THEN Fail(s, "Protocol")
  ELSE IF ~host.control THEN Fail(s, "ControlLost") ELSE s

Reapable == kid.state = "Exited"

\* reap, and observe_child of a capture: waitid of the bound child, without blocking.
Reap(s) == IF s.child = "Running" /\ Reapable THEN [s EXCEPT !.child = "Reaped"] ELSE s

\* The child leaves the process table when a step reaps it.
Reaping(s) ==
  kid' = IF sup.child = "Running" /\ s.child = "Reaped" THEN [kid EXCEPT !.state = "Gone"]
         ELSE kid

\* A step of the supervisor that only changes the supervisor.
Local(s) == sup' = s /\ UNCHANGED <<kid, host, late, fault>>

-----------------------------------------------------------------------------
(* READY, ARM and the query.                                                *)

SendReady ==
  /\ At("Entry")
  /\ LET s == Checked(sup)
     IN  Local(IF Ok(s) THEN Then(Push(s, "Ready"), "Flush") ELSE s)

\* One round of flush(): poll, then one write.
Flush ==
  /\ At("Flush")
  /\ \/ sup.left = 0 /\ Local(Goto(sup, "Arm"))
     \/ sup.left > 0 /\ late /\ Local(Fail(sup, "Deadline"))
     \/ sup.left > 0 /\ ~(host.control /\ host.output) /\ Local(Fail(sup, "ControlLost"))
     \/ /\ host.control /\ host.output
        /\ \E n \in 1 .. sup.left : Local([sup EXCEPT !.left = @ - n])

\* next_control() returns the next message: from the buffer, or after a read of all
\* that has arrived.
NextControl ==
  IF HasBytes(sup) THEN [sup EXCEPT !.used = @ + 1]
  ELSE [sup EXCEPT !.taken = host.sent, !.used = @ + 1]

Arriving == HasBytes(sup) \/ (host.control /\ host.sent > sup.taken)

\* next_control() returns an error.
ControlFails ==
  /\ sup.at \in {"Arm", "Query"}
  /\ \/ late /\ Local(Fail(sup, "Deadline"))
     \/ ~HasBytes(sup) /\ ~host.control /\ Local(Fail(sup, "ControlLost"))

\* ARM, which the handshake accepts or refuses; then the timer is set to its deadline.
ReceiveArm ==
  /\ At("Arm") /\ Arriving /\ ~late
  /\ \E accepted \in BOOLEAN :
       /\ sup' = IF accepted THEN Goto(NextControl, "Query")
                 ELSE Fail(NextControl, "Handshake")
       /\ fault' = (fault \/ ~accepted)
  /\ UNCHANGED <<kid, host, late>>

ReceiveQuery ==
  /\ At("Query") /\ Arriving /\ ~late
  /\ Local(IF Messages[NextControl.used] = "QueryEnd" THEN Goto(NextControl, "Complete")
           ELSE NextControl)

\* The query is the announced one, or not; nothing may follow it.
CheckQuery ==
  /\ At("Complete")
  /\ \E accepted \in BOOLEAN :
       /\ sup' = IF late THEN Fail(sup, "Deadline")
                 ELSE IF ~accepted THEN Fail(sup, "Handshake")
                 ELSE Then(NoControl(sup), "Clone")
       /\ fault' = (fault \/ ~accepted)
  /\ UNCHANGED <<kid, host, late>>

-----------------------------------------------------------------------------
(* The child up to its first exec.                                          *)

\* Mutant: the child is owned only after the steps that follow the clone.
CloneOnceUnowned ==
  /\ At("Clone")
  /\ IF late THEN Local(Fail(sup, "Deadline"))
     ELSE /\ sup' = Goto(sup, "Listener")
          /\ kid' = [kid EXCEPT !.state = "Setup"]
          /\ UNCHANGED <<host, late, fault>>

\* clone_once, and the ownership of the child recorded at once.
CloneOnce ==
  /\ At("Clone")
  /\ IF late THEN Local(Fail(sup, "Deadline"))
     ELSE /\ sup' = [Goto(sup, "Listener") EXCEPT !.child = "Running"]
          /\ kid' = [kid EXCEPT !.state = "Setup"]
          /\ UNCHANGED <<host, late, fault>>

\* What a round of polling before the first exec fails on, in this order.
Disturbed ==
  IF late THEN "Deadline"
  ELSE IF ~host.control THEN "ControlLost"
  ELSE IF Reapable /\ At("Listener") THEN "Child"
  ELSE IF host.sent > sup.taken THEN "Protocol"
  ELSE IF Reapable THEN "Child"
  ELSE IF At("Grant") /\ kid.state = "Dying" THEN "ListenerLost"
  ELSE None

\* receive_listener, the inventory of descriptors and the supervisor's filter.
ReceiveListener ==
  /\ At("Listener")
  /\ \/ Disturbed # None /\ Local(Fail(sup, Disturbed))
     \/ Disturbed = None /\ kid.state = "Dying" /\ Local(Fail(sup, "ListenerLost"))
     \/ Disturbed = None /\ kid.state # "Setup" /\ Local(Goto(sup, "Grant"))

\* The notification is received: it is the expected exec of this child, or not.
ReceiveNotification ==
  /\ At("Grant")
  /\ \/ Disturbed # None /\ Local(Fail(sup, Disturbed))
     \/ /\ Disturbed = None /\ kid.notice
        /\ \E expected \in BOOLEAN :
             /\ sup' = IF expected THEN Goto(sup, "Notice") ELSE Fail(sup, "Notification")
             /\ fault' = (fault \/ ~expected)
        /\ kid' = [kid EXCEPT !.notice = FALSE]
        /\ UNCHANGED <<host, late>>

\* The notification is still valid, the host quiet and the deadline ahead: the grant is
\* consumed, before it is known whether it can be sent.
ConsumeGrant ==
  /\ At("Notice")
  /\ Local(IF kid.state # "Waiting" THEN Fail(sup, "System")
           ELSE LET s == Checked(NoControl(sup))
                IN  IF Ok(s) THEN Goto([s EXCEPT !.grant = "Consumed"], "Send") ELSE s)

SendContinue ==
  /\ At("Send")
  /\ IF kid.state # "Waiting" THEN Local(Fail(sup, "System"))
     ELSE /\ sup' = Then(Checked([sup EXCEPT !.goal = "Stream"]), "Before")
          /\ kid' = [kid EXCEPT !.state = "Running"]
          /\ UNCHANGED <<host, late, fault>>

-----------------------------------------------------------------------------
(* A reading of the cgroup's files.  It is no snapshot: the child may exit  *)
(* and be reaped between any two of them.  A zombie is still counted among  *)
(* the pids, but no longer listed as a member.                              *)

CaptureBefore ==
  /\ At("Before")
  /\ LET s == Checked(sup)
         t == IF ~Ok(s) THEN s
              ELSE IF s.reads = 4 THEN Fail(s, "Observation")
              ELSE [Reap(s) EXCEPT !.reads = @ + 1]
     IN  /\ sup' = IF Ok(t) THEN Goto([t EXCEPT !.before = t.child], "Pids") ELSE t
         /\ Reaping(t)
  /\ UNCHANGED <<host, late, fault>>

CapturePids ==
  /\ At("Pids")
  /\ Local(Goto([sup EXCEPT !.pids = IF kid.state = "Gone" THEN 1 ELSE 2], "Procs"))

CaptureProcs ==
  /\ At("Procs")
  /\ Local(Goto([sup EXCEPT !.listed = kid.state \notin {"Dying", "Exited", "Gone"}], "After"))

\* check_stage and transition_only: the members are those of the child's fact, or the
\* child exited during this reading, which is excused once.
StageOf(s) ==
  IF s.child = "Running" /\ s.listed /\ s.pids = 2 THEN "stable"
  ELSE IF s.child = "Reaped" /\ ~s.listed /\ s.pids = 1 THEN "stable"
  ELSE IF s.before = "Running" /\ s.child = "Reaped" /\ ~s.retried THEN "transition"
  ELSE "error"

Observed(s) ==
  CASE StageOf(s) = "error" -> Fail(s, "Observation")
    [] StageOf(s) = "transition" -> Goto([s EXCEPT !.retried = TRUE], "Before")
    [] StageOf(s) = "stable" /\ s.goal = "Stream" -> Goto(s, "Top")
    [] StageOf(s) = "stable" /\ s.goal = "Final" ->
         IF s.listed THEN Fail(s, "Protocol")
         ELSE Then([Push(s, "Final") EXCEPT !.final = TRUE], "Poll")

CaptureAfter ==
  /\ At("After")
  /\ LET s == Checked(sup)
         t == IF Ok(s) THEN Reap(s) ELSE s
     IN  sup' = (IF Ok(t) THEN Observed(t) ELSE t) /\ Reaping(t)
  /\ UNCHANGED <<host, late, fault>>

-----------------------------------------------------------------------------
(* The streaming loop.                                                      *)

\* Mutant: what the child wrote before it exited is not waited for.
DrainedEarly(s) == s.child = "Reaped" /\ s.left = 0

Drained(s) == s.child = "Reaped" /\ s.left = 0 /\ \A k \in Streams : s.eof[k]

\* What can be concluded from what is known so far.
Concluded(s) ==
  CASE s.child = "Reaped" /\ s.written < Query -> Fail(s, "Child")
    [] s.written = Query /\ Drained(s) /\ ~s.exitSent ->
         Then([Push(s, "ChildExit") EXCEPT !.exitSent = TRUE], "Poll")
    [] s.written = Query /\ Drained(s) /\ s.exitSent /\ ~s.final ->
         Goto([s EXCEPT !.goal = "Final"], "Before")
    [] s.written = Query /\ Drained(s) /\ s.exitSent /\ s.final ->
         Then(Checked(NoControl(s)), "Return")
    [] OTHER -> Goto(s, "Poll")

\* The head of the loop; the pipe to the child is closed behind the whole query.
Conclude ==
  /\ At("Top")
  /\ LET s == Checked(sup)
     IN  Local(IF Ok(s) THEN Concluded([s EXCEPT !.stdin = @ /\ s.written < Query]) ELSE s)

\* What poll() reports of the descriptors it is given; whether a pipe has room is up to
\* its reader.
ControlEvent ==
  IF ~host.control THEN "bad" ELSE IF host.sent > sup.taken THEN "read" ELSE "idle"

ListenerEvent ==
  IF sup.child # "Running" THEN "idle"
  ELSE IF kid.notice THEN "read" ELSE IF kid.state \in {"Dying", "Exited"} THEN "hup" ELSE "idle"

Readable(k) == sup.left = 0 /\ ~sup.eof[k] /\ (kid.out[k] > sup.count[k] \/ ~kid.open[k])

Readiness ==
  {e \in [control : {ControlEvent},
          pid : {sup.child = "Running" /\ Reapable},
          listener : {ListenerEvent},
          output : IF ~host.output THEN {"bad"} ELSE IF sup.left > 0 THEN {"idle", "write"} ELSE {"idle"},
          stdin : IF ~sup.stdin THEN {"idle"} ELSE IF ~kid.stdin THEN {"bad"} ELSE {"idle", "write"},
          read : {{k \in Streams : Readable(k)}}] :
     e # NoEvents \/ late}

\* An interrupted poll starts the turn again.
Interrupted == At("Poll") /\ Local(Goto(sup, "Top"))

Poll ==
  /\ At("Poll")
  /\ \E e \in Readiness : Local(Goto([sup EXCEPT !.ev = e], "Control"))

\* The deadline and the control connection come before anything else.
ReactControl ==
  /\ At("Control")
  /\ LET s == Checked(sup)
     IN  Local(IF ~Ok(s) THEN s
               ELSE IF s.ev.control = "bad" THEN Fail(s, "ControlLost")
               ELSE IF s.ev.control = "read" \/ HasBytes(s) THEN Then(NoControl(s), "Child")
               ELSE Goto(s, "Child"))

\* Mutant: a listener that hung up is lost even if its child exited.
ReactChildStrict ==
  /\ At("Child")
  /\ LET s == IF sup.ev.pid THEN Reap(sup) ELSE sup
     IN  /\ sup' = IF sup.ev.listener = "read" THEN Fail(s, "Notification")
                   ELSE IF sup.ev.listener = "hup" THEN Fail(s, "ListenerLost")
                   ELSE Goto(s, "Output")
         /\ Reaping(s)
  /\ UNCHANGED <<host, late, fault>>

\* The child is reaped; a second notification, or a listener lost with the child alive,
\* ends the attempt.
ReactChild ==
  /\ At("Child")
  /\ LET r == IF sup.ev.pid THEN Reap(sup) ELSE sup
         s == IF sup.ev.listener = "hup" THEN Reap(r) ELSE r
     IN  /\ sup' = IF sup.ev.listener = "read" THEN Fail(s, "Notification")
                   ELSE IF sup.ev.listener = "hup" /\ s.child # "Reaped"
                   THEN Fail(s, "ListenerLost")
                   ELSE Goto(s, "Output")
         /\ Reaping(s)
  /\ UNCHANGED <<host, late, fault>>

ReactOutput ==
  /\ At("Output")
  /\ \/ sup.ev.output = "bad" /\ Local(Fail(sup, "ControlLost"))
     \/ sup.ev.output = "idle" /\ Local(Goto(sup, "Stdin"))
     \/ /\ sup.ev.output = "write"
        /\ IF host.output
           THEN \E n \in 0 .. sup.left : Local(Goto([sup EXCEPT !.left = @ - n], "Stdin"))
           ELSE Local(Fail(sup, "System"))

\* A write takes some of the query, or none of it (EAGAIN).
ReactStdin ==
  /\ At("Stdin")
  /\ \/ sup.ev.stdin = "bad" /\ Local(Fail(sup, "Child"))
     \/ sup.ev.stdin = "idle" /\ Local(Goto(sup, "Read"))
     \/ /\ sup.ev.stdin = "write"
        /\ IF kid.stdin
           THEN \E n \in 0 .. Query - sup.written :
                  Local(Goto([sup EXCEPT !.written = @ + n], "Read"))
           ELSE Local(Fail(sup, "System"))

\* The stream that is read next: stdout before stderr.
NextRead == IF "stdout" \in sup.ev.read THEN "stdout" ELSE "stderr"

\* Mutant: the byte beyond the limit is forwarded as well.
ReactReadUnchecked ==
  /\ At("Read")
  /\ IF sup.left # 0 \/ sup.ev.read = {}
     THEN Local(Then(Checked([sup EXCEPT !.ev = NoEvents]), "Top"))
     ELSE LET k == NextRead
              s == [sup EXCEPT !.ev.read = @ \ {k}]
          IN  IF kid.out[k] = sup.count[k]
              THEN Local(IF kid.open[k] THEN s
                         ELSE Push([s EXCEPT !.eof[k] = TRUE], Eof[k]))
              ELSE Local(Push([s EXCEPT !.count[k] = @ + 1], Chunk[k]))

\* One stream is read, up to one byte beyond its limit, unless a frame is pending.
ReactRead ==
  /\ At("Read")
  /\ IF sup.left # 0 \/ sup.ev.read = {}
     THEN Local(Then(Checked([sup EXCEPT !.ev = NoEvents]), "Top"))
     ELSE LET k == NextRead
              s == [sup EXCEPT !.ev.read = @ \ {k}]
              available == kid.out[k] - sup.count[k]
          IN  IF available = 0
              THEN Local(IF kid.open[k] THEN s
                         ELSE Push([s EXCEPT !.eof[k] = TRUE], Eof[k]))
              ELSE \/ /\ available > Limits[k] - sup.count[k]
                      /\ Local(Fail(s, "OutputLimit"))
                   \/ /\ sup.count[k] < Limits[k]
                      /\ Local(Push([s EXCEPT !.count[k] = @ + 1], Chunk[k]))

-----------------------------------------------------------------------------
(* The end.                                                                 *)

\* After an error a child that is still running is killed ...
Kill ==
  /\ At("Cleanup")
  /\ sup' = Goto(sup, IF sup.child = "Running" THEN "Wait" ELSE "Return")
  /\ kid' = [kid EXCEPT !.killed = @ \/ sup.child = "Running"]
  /\ UNCHANGED <<host, late, fault>>

\* ... and waited for once, without blocking.
WaitOnce ==
  /\ At("Wait")
  /\ sup' = Goto(Reap(sup), "Return") /\ Reaping(Reap(sup))
  /\ UNCHANGED <<host, late, fault>>

\* Mutant: once the final frame was queued the attempt counts as a success.
ExitRegardless ==
  /\ At("Return")
  /\ \E closed \in BOOLEAN :
       /\ sup' = [Goto(sup, "Exited") EXCEPT !.error = IF @ = None /\ ~closed THEN "System" ELSE @]
       /\ host' = [host EXCEPT !.status = IF sup.final THEN "response" ELSE "refused"]
       /\ fault' = (fault \/ ~closed)
  /\ kid' = [kid EXCEPT !.state = IF @ = "None" THEN @ ELSE "Gone"]
  /\ UNCHANGED late

\* run() closes what is left and serve_and_exit() exits with 0 or 125; with the init the
\* kernel ends its namespace.  An error of a close turns a success into a failure.
Exit ==
  /\ At("Return")
  /\ \E closed \in BOOLEAN :
       /\ sup' = [Goto(sup, "Exited") EXCEPT !.error = IF @ = None /\ ~closed THEN "System" ELSE @]
       /\ host' = [host EXCEPT !.status = IF Ok(sup) /\ closed THEN "response" ELSE "refused"]
       /\ fault' = (fault \/ ~closed)
  /\ kid' = [kid EXCEPT !.state = IF @ = "None" THEN @ ELSE "Gone"]
  /\ UNCHANGED late

\* Any system call may fail.
SystemCallFails ==
  /\ sup.at \notin {"Cleanup", "Wait", "Return", "Exited"}
  /\ sup' = Fail(sup, "System") /\ fault' = TRUE
  /\ UNCHANGED <<kid, host, late>>

Supervisor ==
  \/ SendReady \/ Flush \/ ControlFails \/ ReceiveArm \/ ReceiveQuery \/ CheckQuery
  \/ CloneOnce \/ ReceiveListener \/ ReceiveNotification \/ ConsumeGrant \/ SendContinue
  \/ CaptureBefore \/ CapturePids \/ CaptureProcs \/ CaptureAfter
  \/ Conclude \/ Interrupted \/ Poll
  \/ ReactControl \/ ReactChild \/ ReactOutput \/ ReactStdin \/ ReactRead
  \/ Kill \/ WaitOnce \/ Exit

-----------------------------------------------------------------------------
(* The child: its own tail up to the exec (child_tail), then the solver.    *)

Alive == kid.state \in {"Setup", "Handed", "Waiting", "Running"}
Free == Alive /\ ~kid.killed

KidOnly(k) == kid' = k /\ UNCHANGED <<sup, host, late>>

HandListener ==
  /\ kid.state = "Setup" /\ Free
  /\ KidOnly([kid EXCEPT !.state = "Handed"]) /\ UNCHANGED fault

AskForExec ==
  /\ kid.state = "Handed" /\ Free
  /\ KidOnly([kid EXCEPT !.state = "Waiting", !.notice = TRUE]) /\ UNCHANGED fault

ReadQuery ==
  /\ kid.state = "Running" /\ Free /\ kid.stdin /\ kid.read < sup.written
  /\ KidOnly([kid EXCEPT !.read = @ + 1]) /\ UNCHANGED fault

WriteOutput(k) ==
  /\ kid.state = "Running" /\ Free /\ kid.open[k] /\ kid.out[k] <= Limits[k]
  /\ KidOnly([kid EXCEPT !.out[k] = @ + 1])
  /\ fault' = (fault \/ kid.out[k] = Limits[k])

CloseOutput(k) ==
  /\ kid.state = "Running" /\ Free /\ kid.open[k]
  /\ KidOnly([kid EXCEPT !.open[k] = FALSE]) /\ UNCHANGED fault

\* The child of a cooperative run reads the whole query before it closes its end.
CloseQuery ==
  /\ kid.state = "Running" /\ Free /\ kid.stdin
  /\ KidOnly([kid EXCEPT !.stdin = FALSE])
  /\ fault' = (fault \/ kid.read < Query)

AskAgain ==
  /\ kid.state = "Running" /\ Free /\ ~kid.notice
  /\ KidOnly([kid EXCEPT !.notice = TRUE]) /\ fault' = TRUE

\* A child that exits closes every descriptor and withdraws its notification and its
\* listener before it becomes reapable.
KidDies ==
  /\ Alive
  /\ KidOnly([kid EXCEPT !.state = "Dying", !.notice = FALSE, !.stdin = FALSE,
                         !.open = [k \in Streams |-> FALSE]])
  /\ fault' = (fault \/ kid.state # "Running" \/ kid.read < Query)

KidExits == kid.state = "Dying" /\ KidOnly([kid EXCEPT !.state = "Exited"]) /\ UNCHANGED fault

Kid ==
  \/ HandListener \/ AskForExec \/ ReadQuery \/ CloseQuery \/ AskAgain \/ KidDies \/ KidExits
  \/ \E k \in Streams : WriteOutput(k) \/ CloseOutput(k)

-----------------------------------------------------------------------------
(* The host and the clock.                                                  *)

HostSends ==
  /\ host.control /\ host.sent < 4
  /\ host' = [host EXCEPT !.sent = @ + 1]
  /\ fault' = (fault \/ host.sent = 3)
  /\ UNCHANGED <<sup, kid, late>>

HostHangsUp ==
  /\ \/ host.control /\ host' = [host EXCEPT !.control = FALSE]
     \/ host.output /\ host' = [host EXCEPT !.output = FALSE]
  /\ fault' = TRUE
  /\ UNCHANGED <<sup, kid, late>>

Expire == ~late /\ late' = TRUE /\ UNCHANGED <<sup, kid, host, fault>>

Running == sup.at # "Exited"

Init ==
  /\ sup = [at |-> "Entry", error |-> None, child |-> "Absent", taken |-> 0, used |-> 0,
            grant |-> "Awaiting", log |-> <<>>, left |-> 0, written |-> 0, stdin |-> TRUE,
            count |-> [k \in Streams |-> 0], eof |-> [k \in Streams |-> FALSE],
            exitSent |-> FALSE, final |-> FALSE, reads |-> 1, retried |-> FALSE,
            goal |-> "Stream", before |-> "Absent", pids |-> 1, listed |-> FALSE,
            ev |-> NoEvents]
  /\ kid = [state |-> "None", notice |-> FALSE, killed |-> FALSE, stdin |-> TRUE, read |-> 0,
            out |-> [k \in Streams |-> 0], open |-> [k \in Streams |-> TRUE]]
  /\ host = [sent |-> 0, control |-> TRUE, output |-> TRUE, status |-> "none"]
  /\ late = FALSE /\ fault = FALSE

Next == Supervisor \/ SystemCallFails \/ (Running /\ (Kid \/ HostSends \/ HostHangsUp \/ Expire))

Spec == Init /\ [][Next]_vars

\* The supervisor is scheduled and time passes; nothing is assumed of child and host.
FairSpec == Spec /\ WF_vars(Supervisor) /\ WF_vars(Running /\ Expire)

-----------------------------------------------------------------------------

Wrote(f) == \E i \in DOMAIN sup.log : sup.log[i] = f

Frequency(f) == Cardinality({i \in DOMAIN sup.log : sup.log[i] = f})

\* The final frame is earned: it is queued last, right after the exit of a child that was
\* reaped, after both ends of stream, and every unit the child ever wrote was forwarded
\* before them, whichever of exit, output and polling came first.
FinalIsEarned ==
  Wrote("Final") =>
    LET n == Len(sup.log) IN
      /\ sup.log[n] = "Final" /\ sup.log[n - 1] = "ChildExit"
      /\ sup.child = "Reaped" /\ sup.written = Query
      /\ \A k \in Streams :
           /\ Wrote(Eof[k])
           /\ Frequency(Chunk[k]) = kid.out[k]
           /\ \A i, j \in DOMAIN sup.log :
                sup.log[i] = Chunk[k] /\ sup.log[j] = Eof[k] => i < j

\* No failure leaves the child to itself: when run() returns an error, a child that was
\* cloned has been reaped or killed.
FailureKillsChild ==
  sup.at = "Return" /\ ~Ok(sup) /\ kid.state # "None" =>
    kid.killed \/ sup.child = "Reaped"

\* The one race that ends an attempt nobody spoilt: the poll saw the listener of the child
\* hung up, and the child, halfway through its exit, is still not reapable (reap on a hang-up).
SeenHalfwayOut ==
  /\ sup.at = "Child" /\ sup.ev.listener = "hup" /\ kid.state = "Dying"
  /\ sup'.error = "ListenerLost"

\* With a host that keeps to the protocol, a child that reads its query, keeps to its limits
\* and asks for one exec, and system calls that succeed, an attempt fails in the step that
\* finds its deadline passed or its child halfway through the exit, and in no other: neither
\* what a poll saw too early or too late, nor what the exit left in the streams, nor the
\* readings of the cgroup around it make an attempt fail (capture, reap, stream_and_reap).
NoSpuriousFailure ==
  [][Ok(sup) /\ ~Ok(sup)' => fault' \/ sup'.error = "Deadline" \/ SeenHalfwayOut]_vars

\* The supervisor exits, whatever the child and the host do or leave undone.
SupervisorExits == <>(sup.at = "Exited")

\* The supervisor is a solver attempt: one exec, never after a failure, and a success only
\* of a child that ran, was reaped and whose attempt did not fail.
Attempt == INSTANCE SolverAttempt WITH
  started <- sup.grant = "Consumed",
  failed <- ~Ok(sup), gone <- sup.child = "Reaped", verdict <- host.status

\* Every step of it starts, fails, vanishes or is judged as SolverAttempt allows.
ImplementsAttempt == Attempt!AttemptSpec
=============================================================================
