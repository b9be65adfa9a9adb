------------------------- MODULE SimulationSupervisor -------------------------
(***************************************************************************)
(* The supervision state machine of solver-diagnostic-host                 *)
(* (e3_supervisor.rs): a pure simulation of the supervisor inside the      *)
(* container and of the host around it.  Every call carries a declared     *)
(* clock reading and declared observations, and may come at any time.      *)
(***************************************************************************)
EXTENDS Integers, Sequences

CONSTANTS
  Window,       \* SIMULATION_WINDOW_NS, in clock units
  ClockError,   \* config.declared_clock_error_ns
  MaxTime,      \* bound on the readings the model explores
  None          \* Option::None

VARIABLES
  sup,     \* struct SimulationSupervisor
  issued,  \* how often each action that may happen once was returned
  cloned,  \* history: a child exists
  verdict  \* what the caller took from completion(): it judges an attempt once

vars == <<sup, issued, cloned, verdict>>

Times == 0 .. MaxTime
Streams == {"stdout", "stderr"}
Stages == {"Preparing", "Ready", "Armed", "Cloning", "AwaitingExec", "ContinueConsumed",
           "Running", "LocalFinal", "Complete"}
Reasons == {"ClockRollback", "Deadline", "Binding", "Protocol", "Query", "Cgroup", "Resource",
            "Clone", "Listener", "Notification", "ContinueSend", "ControlEof", "OutputLimit",
            "Reaping", "SupervisorLost", "OuterState", "Cleanup"}
Exits == {"Zero", "NonZero"}
Actions == {"Ready", "InstallAbsoluteDeadline", "CloneOnce", "ContinueOnce", "LocalFinal",
            "SimulationComplete"}

\* None is no value an option of this module can hold.
ASSUME SupervisorAssumption ==
  /\ Window \in Nat \ {0} /\ ClockError \in Nat /\ MaxTime \in Nat
  /\ None \notin Int \cup Reasons \cup Exits \cup [end : Nat, events : Nat]

\* Both clocks start at zero: mac_create_start_ns and linux_entry_ns.
MacDeadline == Window
Preparation == Window
Deadlines == 1 .. Preparation

\* An observation of some other cgroup.
Blank == [start |-> 0, end |-> 0, child |-> FALSE, events |-> 0, sound |-> FALSE]

\* A cgroup observation: its interval, whether the child is a member besides the
\* supervisor, its event counters, and whether everything else about it (identity,
\* other members, configuration, monotonic counters) is as it should be.
Observations ==
  {o \in [start : Times, end : Times, child : BOOLEAN, events : 0 .. 1, sound : {TRUE}] :
     o.start <= o.end}
    \cup {Blank}

Supervisors ==
  [stage : Stages, failure : Reasons \cup {None}, linux : Times, mac : Times,
   ready : Times \cup {None}, arm : Deadlines \cup {None}, deadline : Deadlines \cup {None},
   child : BOOLEAN, listener : BOOLEAN, sent : BOOLEAN,
   eof : [Streams -> BOOLEAN],
   exit : Exits \cup {None}, reaped : BOOLEAN, selfOnly : BOOLEAN,
   latest : [end : Times, events : 0 .. 1] \cup {None}, finalMissing : BOOLEAN,
   outer : BOOLEAN, removal : BOOLEAN, timing : BOOLEAN, alive : BOOLEAN]

TypeOK ==
  /\ sup \in Supervisors
  /\ issued \in [Actions -> 0 .. 2]
  /\ cloned \in BOOLEAN
  /\ verdict \in {"none", "response", "refused"}

-----------------------------------------------------------------------------
(* The supervisor's private helpers, from supervisor to supervisor.         *)

\* Only the first failure is kept.
Fail(s, reason) == IF s.failure = None THEN [s EXCEPT !.failure = reason] ELSE s

Ok(s) == s.failure = None

Require(s, condition, reason) == IF condition THEN s ELSE Fail(s, reason)

Live(s) == Require(s, s.stage # "Complete", "Protocol")

InForce(s) == IF s.deadline = None THEN Preparation ELSE s.deadline

LinuxNow(s, at) ==
  LET t == Require(Live(s), at >= s.linux, "ClockRollback")
  IN  IF ~Ok(t) THEN t ELSE Require([t EXCEPT !.linux = at], at < InForce(t), "Deadline")

MacNow(s, at) ==
  LET t == Require(Live(s), at >= s.mac, "ClockRollback")
  IN  IF ~Ok(t) THEN t ELSE Require([t EXCEPT !.mac = at], at < MacDeadline, "Deadline")

\* Mutant: a late cleanup of a failed attempt is not marked late.
CleanupMacNowUntimed(s, at) ==
  IF Ok(s) THEN LET t == MacNow(s, at) IN IF Ok(t) THEN t ELSE [t EXCEPT !.timing = FALSE]
  ELSE [s EXCEPT !.mac = IF at > @ THEN at ELSE @]

\* Cleanup facts are still recorded after a failure, with a note if they came late.
CleanupMacNow(s, at) ==
  IF Ok(s) THEN LET t == MacNow(s, at) IN IF Ok(t) THEN t ELSE [t EXCEPT !.timing = FALSE]
  ELSE [s EXCEPT !.timing = @ /\ at >= s.mac /\ at < MacDeadline,
                 !.mac = IF at > @ THEN at ELSE @]

\* The observation belongs to this cgroup and follows the latest one.
Follows(s, at, o, child) ==
  /\ o.sound /\ o.child = child /\ o.end <= at
  /\ s.latest # None => o.start >= s.latest.end /\ o.events >= s.latest.events

ResourceEvent(s, o) == IF s.latest = None THEN o.events > 0 ELSE o.events > s.latest.events

\* The latest observation is kept even if it shows a resource event.
ObserveCgroup(s, at, o, child) ==
  IF ~Ok(s) THEN s
  ELSE IF ~Follows(s, at, o, child) THEN Fail(s, "Cgroup")
  ELSE Require([s EXCEPT !.latest = [end |-> o.end, events |-> o.events]],
               ~ResourceEvent(s, o), "Resource")

\* The action returned by a call that succeeded.
Return(s, action) ==
  /\ sup' = s
  /\ issued' = IF Ok(s) /\ issued[action] < 2 THEN [issued EXCEPT ![action] = @ + 1]
               ELSE issued

Record(s) == sup' = s /\ UNCHANGED issued

\* The caller has not judged the attempt.
Open == verdict = "none" /\ UNCHANGED verdict

\* t with its stage advanced, if it is still free of failures.
Enter(t, stage) == IF Ok(t) THEN [t EXCEPT !.stage = stage] ELSE t

-----------------------------------------------------------------------------
(* The handshake and the first exec.                                        *)

Ready(at, o) ==
  LET t == Require(LinuxNow(sup, at), sup.stage = "Preparing", "Protocol")
      u == ObserveCgroup(t, at, o, FALSE)
  IN  /\ Open
      /\ Return(IF Ok(u) THEN [u EXCEPT !.ready = at, !.stage = "Ready"] ELSE u, "Ready")
      /\ UNCHANGED cloned

\* Mutant: the offer may outlive the preparation.
MakeArmUnbounded(at, query, matches) ==
  LET t == Require(Require(MacNow(sup, at), query, "Query"),
                   sup.stage = "Ready" /\ matches, "Binding")
      remaining == MacDeadline - at - ClockError
      u == Require(t, remaining > 0, "Deadline")
  IN  /\ Open
      /\ Record(IF ~Ok(u) THEN u
                ELSE IF u.arm # None THEN Fail(u, "Protocol")
                ELSE [u EXCEPT !.arm = u.ready + remaining])
      /\ UNCHANGED cloned

\* `query`, `matches`: the query and the READY declaration are the expected ones.
MakeArm(at, query, matches) ==
  LET t == Require(Require(MacNow(sup, at), query, "Query"),
                   sup.stage = "Ready" /\ matches, "Binding")
      remaining == MacDeadline - at - ClockError
      u == Require(t, remaining > 0, "Deadline")
  IN  /\ Open
      /\ Record(IF ~Ok(u) THEN u
                ELSE IF u.ready + remaining > Preparation \/ u.arm # None
                THEN Fail(u, "Protocol")
                ELSE [u EXCEPT !.arm = u.ready + remaining])
      /\ UNCHANGED cloned

\* Mutant: an offer that was never made is accepted.
ArmUnoffered(at, bound, offer) ==
  LET t == Require(Require(LinuxNow(sup, at), bound, "Binding"),
                   sup.stage = "Ready", "Protocol")
      u == Require(t, at < offer, "Deadline")
  IN  /\ Open
      /\ Return(IF Ok(u) THEN [u EXCEPT !.deadline = offer, !.stage = "Armed"] ELSE u,
                "InstallAbsoluteDeadline")
      /\ UNCHANGED cloned

Arm(at, bound, offer) ==
  LET t == Require(Require(LinuxNow(sup, at), bound, "Binding"),
                   sup.stage = "Ready" /\ sup.arm = offer /\ offer <= Preparation, "Protocol")
      u == Require(t, at < offer, "Deadline")
  IN  /\ Open
      /\ Return(IF Ok(u) THEN [u EXCEPT !.deadline = offer, !.stage = "Armed"] ELSE u,
                "InstallAbsoluteDeadline")
      /\ UNCHANGED cloned

QueryComplete(at, bound, matches) ==
  LET t == Require(Require(LinuxNow(sup, at), bound, "Binding"),
                   sup.stage = "Armed", "Protocol")
  IN  /\ Open
      /\ Return(Enter(Require(t, matches, "Query"), "Cloning"), "CloneOnce")
      /\ UNCHANGED cloned

\* Mutant: the clock is checked before the child is bound.
CloneReturnedLate(at, token, o) ==
  LET s == LinuxNow(sup, at)
      t == IF Ok(s) THEN [s EXCEPT !.child = TRUE] ELSE s
  IN  /\ Open
      /\ IF sup.stage = "Cloning" /\ token /\ ~sup.child
         THEN Record(Enter(ObserveCgroup(t, at, o, TRUE), "AwaitingExec")) /\ cloned' = TRUE
         ELSE Record(Fail(sup, "Clone")) /\ UNCHANGED cloned

\* The child is bound before anything else is looked at: a stop must find it.
CloneReturned(at, token, o) ==
  LET t == LinuxNow([sup EXCEPT !.child = TRUE], at)
  IN  /\ Open
      /\ IF sup.stage = "Cloning" /\ token /\ ~sup.child
         THEN Record(Enter(ObserveCgroup(t, at, o, TRUE), "AwaitingExec")) /\ cloned' = TRUE
         ELSE Record(Fail(sup, "Clone")) /\ UNCHANGED cloned

\* `sound`: of this child, with one descriptor that was not truncated.
ListenerReceived(at, bound, sound) ==
  LET t == Require(Require(LinuxNow(sup, at), bound, "Binding"),
                   sup.stage = "AwaitingExec" /\ ~sup.listener /\ sound, "Listener")
  IN  /\ Open
      /\ Record(IF Ok(t) THEN [t EXCEPT !.listener = TRUE] ELSE t)
      /\ UNCHANGED cloned

\* Mutant: the grant is consumed only when the send succeeded.
GrantFirstExecUnconsumed(at, bound, sound) ==
  LET t == Require(Require(LinuxNow(sup, at), bound, "Binding"),
                   sup.stage = "AwaitingExec" /\ sup.listener /\ sound, "Notification")
  IN  Open /\ Return(t, "ContinueOnce") /\ UNCHANGED cloned

\* `sound`: the notification is the fixed execveat of the bound child.
GrantFirstExec(at, bound, sound) ==
  LET t == Require(Require(LinuxNow(sup, at), bound, "Binding"),
                   sup.stage = "AwaitingExec" /\ sup.listener /\ sound, "Notification")
  IN  Open /\ Return(Enter(t, "ContinueConsumed"), "ContinueOnce") /\ UNCHANGED cloned

ContinueSendResult(at, sent) ==
  LET t == Require(Require(LinuxNow(sup, at), sup.stage = "ContinueConsumed", "Protocol"),
                   sent, "ContinueSend")
  IN  /\ Open
      /\ Record(IF Ok(t) THEN [t EXCEPT !.sent = TRUE, !.stage = "Running"] ELSE t)
      /\ UNCHANGED cloned

-----------------------------------------------------------------------------
(* The running child.                                                       *)

CgroupObservation(at, o) ==
  LET t == Require(LinuxNow(sup, at), sup.stage = "Running", "Protocol")
  IN  Open /\ Record(ObserveCgroup(t, at, o, ~sup.reaped)) /\ UNCHANGED cloned

\* `fits`: the stream's bytes, this chunk included, are within its limit.  The count
\* itself has no other reader, so it is left out.
Stream(at, k, fits) ==
  LET t == Require(Require(LinuxNow(sup, at), sup.stage = "Running" /\ ~sup.eof[k], "Protocol"),
                   fits, "OutputLimit")
  IN  Open /\ Record(t) /\ UNCHANGED cloned

StreamEof(at, k) ==
  LET t == Require(LinuxNow(sup, at), sup.stage = "Running" /\ ~sup.eof[k], "Protocol")
  IN  /\ Open
      /\ Record(IF Ok(t) THEN [t EXCEPT !.eof[k] = TRUE] ELSE t)
      /\ UNCHANGED cloned

\* The child's last observation counts as final even if it shows a resource event.
ChildReaped(at, sound, exit, o) ==
  LET t == Require(LinuxNow(sup, at), sup.stage = "Running" /\ ~sup.reaped /\ sound, "Reaping")
      u == [t EXCEPT !.reaped = TRUE, !.exit = exit]
      seen == ObserveCgroup(u, at, o, FALSE)
  IN  /\ Open
      /\ Record(IF ~Ok(t) THEN t
                ELSE IF seen.failure \in {None, "Resource"}
                THEN [seen EXCEPT !.selfOnly = TRUE, !.finalMissing = FALSE]
                ELSE seen)
      /\ UNCHANGED cloned

\* Mutant: the output need not have ended.
SupervisorFinalEarly(at, bound) ==
  LET t == Require(Require(LinuxNow(sup, at), bound, "Binding"),
                   sup.stage = "Running" /\ sup.sent /\ sup.reaped /\ sup.selfOnly, "Protocol")
  IN  Open /\ Return(Enter(t, "LocalFinal"), "LocalFinal") /\ UNCHANGED cloned

SupervisorFinal(at, bound) ==
  LET t == Require(Require(LinuxNow(sup, at), bound, "Binding"),
                   /\ sup.stage = "Running" /\ sup.sent
                   /\ \A k \in Streams : sup.eof[k]
                   /\ sup.reaped /\ sup.selfOnly, "Protocol")
  IN  Open /\ Return(Enter(t, "LocalFinal"), "LocalFinal") /\ UNCHANGED cloned

-----------------------------------------------------------------------------
(* The host around the container.                                           *)

\* `gone`: this container's state is exited, without a restart.
OuterState(at, gone) ==
  LET s == CleanupMacNow(sup, at)
  IN  /\ Open
      /\ Record(IF Ok(sup) /\ ~Ok(s) THEN s
                ELSE IF ~gone THEN Fail(s, "OuterState")
                ELSE IF Ok(s) /\ (s.stage # "LocalFinal" \/ s.outer) THEN Fail(s, "OuterState")
                ELSE [s EXCEPT !.outer = TRUE])
      /\ UNCHANGED cloned

\* Mutant: the removal completes the attempt without the outer state.
RemovalUnconfirmed(at, confirmed) ==
  LET s == CleanupMacNow(sup, at)
  IN  /\ Open
      /\ IF Ok(sup) /\ ~Ok(s) THEN Record(s)
         ELSE IF ~confirmed THEN Record(Fail(s, "Cleanup"))
         ELSE IF ~Ok(s) THEN Record([s EXCEPT !.removal = TRUE])
         ELSE IF s.stage # "LocalFinal" \/ s.removal THEN Record(Fail(s, "Cleanup"))
         ELSE Return([s EXCEPT !.removal = TRUE, !.stage = "Complete"], "SimulationComplete")
      /\ UNCHANGED cloned

\* `confirmed`: the removal of this container is confirmed.
Removal(at, confirmed) ==
  LET s == CleanupMacNow(sup, at)
  IN  /\ Open
      /\ IF Ok(sup) /\ ~Ok(s) THEN Record(s)
         ELSE IF ~confirmed THEN Record(Fail(s, "Cleanup"))
         ELSE IF ~Ok(s) THEN Record([s EXCEPT !.removal = TRUE])
         ELSE IF s.stage # "LocalFinal" \/ ~s.outer \/ s.removal THEN Record(Fail(s, "Cleanup"))
         ELSE Return([s EXCEPT !.removal = TRUE, !.stage = "Complete"], "SimulationComplete")
      /\ UNCHANGED cloned

-----------------------------------------------------------------------------
(* What ends an attempt from outside.                                       *)

Tick(at) == Open /\ Record(LinuxNow(sup, at)) /\ UNCHANGED cloned
ControlEof(at) ==
  Open /\ Record(Fail(LinuxNow(sup, at), "ControlEof")) /\ UNCHANGED cloned
ProtocolFailure == Open /\ Record(Fail(sup, "Protocol")) /\ UNCHANGED cloned
ReapingFailure == Open /\ Record(Fail(sup, "Reaping")) /\ UNCHANGED cloned
SupervisorLost ==
  /\ Open
  /\ Record(Fail([sup EXCEPT !.alive = FALSE, !.finalMissing = TRUE], "SupervisorLost"))
  /\ UNCHANGED cloned
ListenerLost ==
  /\ Open
  /\ Record(Fail([sup EXCEPT !.finalMissing = TRUE], "Listener"))
  /\ UNCHANGED cloned

-----------------------------------------------------------------------------
(* What the caller reads.                                                   *)

Completion == Ok(sup) /\ sup.stage = "Complete"

NormalResponseEligible == Ok(sup) /\ sup.stage = "Complete" /\ sup.exit = "Zero"

\* The caller judges the attempt: a completion if there is one, a failure otherwise.
Judge ==
  /\ verdict = "none"
  /\ Completion \/ ~Ok(sup)
  /\ verdict' = IF NormalResponseEligible THEN "response" ELSE "refused"
  /\ UNCHANGED <<sup, issued, cloned>>

\* stop_action() of a failed supervisor: the child it kills.
KillsChild == ~Ok(sup) /\ sup.child /\ ~sup.reaped /\ sup.alive

-----------------------------------------------------------------------------

\* SimulationSupervisor::new with a configuration it accepts.
Init ==
  /\ sup = [stage |-> "Preparing", failure |-> None, linux |-> 0, mac |-> 0,
            ready |-> None, arm |-> None, deadline |-> None, child |-> FALSE,
            listener |-> FALSE, sent |-> FALSE,
            eof |-> [k \in Streams |-> FALSE], exit |-> None, reaped |-> FALSE,
            selfOnly |-> FALSE, latest |-> None, finalMissing |-> TRUE, outer |-> FALSE,
            removal |-> FALSE, timing |-> TRUE, alive |-> TRUE]
  /\ issued = [a \in Actions |-> 0]
  /\ cloned = FALSE
  /\ verdict = "none"

\* A failed supervisor looks at no observation and at no offer, and a refused child or
\* token at none either, so one stands for all.
Seen == IF Ok(sup) THEN Observations ELSE {Blank}
Offers == IF Ok(sup) THEN 0 .. Preparation + 1 ELSE {0}

Supervise(at) ==
  \/ \E o \in Seen : Ready(at, o) \/ CgroupObservation(at, o)
  \/ \E bound \in BOOLEAN, offer \in Offers : Arm(at, bound, offer)
  \/ \E o \in Seen : CloneReturned(at, TRUE, o)
  \/ CloneReturned(at, FALSE, Blank)
  \/ \E bound, sound \in BOOLEAN :
       \/ QueryComplete(at, bound, sound) \/ ListenerReceived(at, bound, sound)
       \/ GrantFirstExec(at, bound, sound)
  \/ \E sent \in BOOLEAN : ContinueSendResult(at, sent)
  \/ \E k \in Streams : StreamEof(at, k) \/ \E fits \in BOOLEAN : Stream(at, k, fits)
  \/ \E exit \in Exits, o \in Seen : ChildReaped(at, TRUE, exit, o)
  \/ ChildReaped(at, FALSE, "Zero", Blank)
  \/ \E bound \in BOOLEAN : SupervisorFinal(at, bound)
  \/ Tick(at) \/ ControlEof(at)

Surround(at) ==
  \/ \E query, matches \in BOOLEAN : MakeArm(at, query, matches)
  \/ \E gone \in BOOLEAN : OuterState(at, gone)
  \/ \E confirmed \in BOOLEAN : Removal(at, confirmed)

Next ==
  \/ \E at \in Times : Supervise(at) \/ Surround(at)
  \/ ProtocolFailure \/ ReapingFailure \/ SupervisorLost \/ ListenerLost
  \/ Judge

Spec == Init /\ [][Next]_vars

-----------------------------------------------------------------------------
(* Properties.                                                              *)

\* A child that was cloned is never forgotten: whatever fails from then on, the stop
\* kills exactly it, unless it was reaped or the supervisor is gone with its namespace.
ClonedChildIsStopped ==
  cloned /\ ~Ok(sup) => KillsChild \/ sup.reaped \/ ~sup.alive

\* The actions in the order of a whole attempt.
Order == <<"Ready", "InstallAbsoluteDeadline", "CloneOnce", "ContinueOnce", "LocalFinal",
           "SimulationComplete">>

\* No action that must happen once is returned twice, a failed CONTINUE included, and each
\* only after the one before it; moreover a grant only to a child that was cloned, and a
\* final only after its CONTINUE was sent (grant_first_exec, supervisor_final).
ActionsAreOneShot ==
  /\ \A a \in Actions : issued[a] <= 1
  /\ \A n \in 1 .. Len(Order) - 1 : issued[Order[n + 1]] > 0 => issued[Order[n]] = 1
  /\ issued["ContinueOnce"] > 0 => cloned
  /\ issued["LocalFinal"] > 0 => sup.sent

\* A completion stands for a whole attempt inside both deadlines: one exec, both streams
\* at their end, one reaped child, a final observation, an exit and a removal on time.
CompletionMeansWholeAttempt ==
  Completion =>
    /\ \A a \in Actions : issued[a] = 1
    /\ sup.sent /\ sup.reaped /\ (\A k \in Streams : sup.eof[k])
    /\ ~sup.finalMissing /\ sup.outer /\ sup.removal /\ sup.timing /\ sup.alive
    /\ sup.linux < sup.deadline /\ sup.mac < MacDeadline

\* The supervisor works under the deadline the host offered, never a later one, and
\* never one beyond its own preparation.
DeadlineIsTheOffer ==
  sup.deadline # None => sup.deadline = sup.arm /\ sup.deadline <= Preparation

\* A removal that is said to be on time was recorded on time, and nothing of the cleanup
\* came after the deadline.
CleanupOnTime == sup.removal /\ sup.timing => sup.mac < MacDeadline

\* The simulation is a solver attempt.
Attempt == INSTANCE SolverAttempt WITH
  started <- sup.sent, failed <- ~Ok(sup), gone <- sup.outer /\ sup.removal

\* Every step of it starts, fails, vanishes or is judged as SolverAttempt allows.
ImplementsAttempt == Attempt!AttemptSpec
=============================================================================
