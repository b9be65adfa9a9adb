---------------------- MODULE SimulationSupervisorProofs ----------------------
(***************************************************************************)
(* For every window, clock error and bound on the readings: the safety     *)
(* properties of the supervision simulation, and that it implements        *)
(* SolverAttempt.  The helpers of the module are chains of checks, so each *)
(* has a lemma that says which fields it may touch and what a supervisor   *)
(* that is still free of failures has passed; the actions cite those.      *)
(***************************************************************************)
EXTENDS SimulationSupervisor, TLAPS

\* The stages from each step of the protocol on.
Readied == Stages \ {"Preparing"}
Installed == Readied \ {"Ready"}
Queried == Installed \ {"Armed"}
Bound == Queried \ {"Cloning"}
Granted == Bound \ {"AwaitingExec"}
Executed == Granted \ {"ContinueConsumed"}
Finished == {"LocalFinal", "Complete"}

Since(action) ==
  CASE action = "Ready" -> Readied
    [] action = "InstallAbsoluteDeadline" -> Installed
    [] action = "CloneOnce" -> Queried
    [] action = "ContinueOnce" -> Granted
    [] action = "LocalFinal" -> Finished
    [] action = "SimulationComplete" -> {"Complete"}

\* What the stage says about the attempt, whether it failed or not.
Staged(s) ==
  /\ s.stage \in Readied => s.ready # None
  /\ (s.stage \in Installed) <=> (s.deadline # None)
  /\ s.deadline # None => s.deadline = s.arm
  /\ s.stage \in Bound => s.child
  /\ (s.stage \in Executed) <=> s.sent
  /\ s.stage \in Finished => s.reaped /\ s.selfOnly /\ \A k \in Streams : s.eof[k]
  /\ s.stage = "Complete" => s.outer /\ s.removal

\* What holds as long as nothing failed.
Clean(s) ==
  /\ s.timing /\ s.alive /\ s.mac < MacDeadline
  /\ s.deadline # None => s.linux < s.deadline
  /\ s.selfOnly => ~s.finalMissing
  /\ s.removal => s.stage = "Complete"

Sound(s) ==
  /\ s \in Supervisors
  /\ Staged(s)
  /\ Ok(s) => Clean(s)
  /\ s.removal /\ s.timing => s.mac < MacDeadline

IInv ==
  /\ Sound(sup)
  /\ cloned = sup.child
  /\ issued = [a \in Actions |-> IF sup.stage \in Since(a) THEN 1 ELSE 0]
  /\ verdict \in {"none", "response", "refused"}

\* t is s but for its clocks, its failure, its latest observation and its timing note,
\* and a failure of s is kept.
Keeps(s, t) ==
  /\ t.stage = s.stage /\ t.ready = s.ready /\ t.arm = s.arm /\ t.deadline = s.deadline
  /\ t.child = s.child /\ t.listener = s.listener /\ t.sent = s.sent /\ t.eof = s.eof
  /\ t.exit = s.exit /\ t.reaped = s.reaped /\ t.selfOnly = s.selfOnly
  /\ t.finalMissing = s.finalMissing /\ t.outer = s.outer /\ t.removal = s.removal
  /\ t.alive = s.alive
  /\ ~Ok(s) => t.failure = s.failure

\* Neither clocks nor latest observation nor timing note differ.
Calm(s, t) ==
  t.linux = s.linux /\ t.mac = s.mac /\ t.latest = s.latest /\ t.timing = s.timing

-----------------------------------------------------------------------------
(* Facts about the helpers                                                  *)

\* A failure is recorded once, and nothing else changes.
LEMMA FailFacts ==
  ASSUME NEW s \in Supervisors, NEW reason \in Reasons
  PROVE  /\ Fail(s, reason) \in Supervisors
         /\ Keeps(s, Fail(s, reason))
         /\ ~Ok(Fail(s, reason))
         /\ Calm(s, Fail(s, reason))
<1>1. None \notin Reasons
  BY SupervisorAssumption
<1>2. Fail(s, reason) \in Supervisors
  BY DEF Fail, Supervisors
<1>3. Keeps(s, Fail(s, reason)) /\ ~Ok(Fail(s, reason))
  BY <1>1 DEF Fail, Supervisors, Keeps, Ok
<1>4. Calm(s, Fail(s, reason))
  BY DEF Fail, Supervisors, Calm
<1> QED BY <1>2, <1>3, <1>4

\* A check that passes leaves the supervisor alone.
LEMMA RequireFacts ==
  ASSUME NEW s \in Supervisors, NEW c \in BOOLEAN, NEW reason \in Reasons
  PROVE  /\ Require(s, c, reason) \in Supervisors
         /\ Keeps(s, Require(s, c, reason))
         /\ Ok(Require(s, c, reason)) => Ok(s) /\ c /\ Require(s, c, reason) = s
         /\ Calm(s, Require(s, c, reason))
<1>1. CASE c
  <2>1. Require(s, c, reason) = s
    BY <1>1 DEF Require
  <2>2. Calm(s, s) /\ Keeps(s, s)
    BY DEF Calm, Keeps
  <2> QED BY <1>1, <2>1, <2>2
<1>2. CASE ~c
  BY <1>2, FailFacts DEF Require
<1> QED BY <1>1, <1>2

\* A Linux reading that passes lies before the deadline in force and is kept.
LEMMA LinuxNowFacts ==
  ASSUME NEW s \in Supervisors, NEW at \in Times
  PROVE  LET t == LinuxNow(s, at) IN
         /\ t \in Supervisors
         /\ Keeps(s, t)
         /\ t.mac = s.mac /\ t.timing = s.timing /\ t.latest = s.latest
         /\ Ok(t) => Ok(s) /\ s.stage # "Complete" /\ t.linux = at /\ at < InForce(s)
<1> DEFINE l == Live(s)
           t == Require(l, at >= s.linux, "ClockRollback")
           u == [t EXCEPT !.linux = at]
<1>0. {"Protocol", "ClockRollback", "Deadline"} \subseteq Reasons
  BY DEF Reasons
<1>1. /\ l \in Supervisors /\ Keeps(s, l) /\ Calm(s, l)
      /\ Ok(l) => Ok(s) /\ s.stage # "Complete" /\ l = s
  BY <1>0, RequireFacts DEF Live
<1>2. /\ t \in Supervisors /\ Keeps(l, t) /\ Calm(l, t)
      /\ Ok(t) => Ok(l) /\ t = l
  <2>1. (at >= s.linux) \in BOOLEAN
    OBVIOUS
  <2> QED BY <1>0, <1>1, <2>1, RequireFacts
<1>3. CASE ~Ok(t)
  <2>1. LinuxNow(s, at) = t
    BY <1>3 DEF LinuxNow
  <2> QED BY <1>1, <1>2, <1>3, <2>1 DEF Keeps, Calm, Ok
<1>4. CASE Ok(t)
  <2>1. t = s /\ Ok(s) /\ s.stage # "Complete"
    BY <1>1, <1>2, <1>4
  <2>2. u \in Supervisors /\ Keeps(s, u) /\ u.linux = at /\ u.mac = s.mac
        /\ u.timing = s.timing /\ u.latest = s.latest
    BY <2>1 DEF Supervisors, Keeps, Ok
  <2>3. (at < InForce(t)) \in BOOLEAN
    OBVIOUS
  <2>4. LinuxNow(s, at) = Require(u, at < InForce(t), "Deadline")
    BY <1>4 DEF LinuxNow
  <2>5. LET v == Require(u, at < InForce(t), "Deadline") IN
        /\ v \in Supervisors /\ Keeps(u, v) /\ Calm(u, v)
        /\ Ok(v) => Ok(u) /\ at < InForce(t) /\ v = u
    BY <1>0, <2>2, <2>3, RequireFacts
  <2> HIDE DEF u, t, l
  <2> QED BY <2>1, <2>2, <2>4, <2>5 DEF Keeps, Calm, Ok
<1> QED BY <1>3, <1>4

\* A reading of the host's clock that passes lies before its deadline and is kept; a
\* failed supervisor does not look at it.
LEMMA MacNowFacts ==
  ASSUME NEW s \in Supervisors, NEW at \in Times
  PROVE  LET t == MacNow(s, at) IN
         /\ t \in Supervisors
         /\ Keeps(s, t)
         /\ t.linux = s.linux /\ t.timing = s.timing /\ t.latest = s.latest
         /\ t.mac # s.mac => Ok(s) /\ s.stage # "Complete"
         /\ Ok(t) => Ok(s) /\ s.stage # "Complete" /\ t.mac = at /\ at < MacDeadline
<1> DEFINE l == Live(s)
           t == Require(l, at >= s.mac, "ClockRollback")
           u == [t EXCEPT !.mac = at]
<1>0. {"Protocol", "ClockRollback", "Deadline"} \subseteq Reasons
  BY DEF Reasons
<1>1. /\ l \in Supervisors /\ Keeps(s, l) /\ Calm(s, l)
      /\ Ok(l) => Ok(s) /\ s.stage # "Complete" /\ l = s
  BY <1>0, RequireFacts DEF Live
<1>2. /\ t \in Supervisors /\ Keeps(l, t) /\ Calm(l, t)
      /\ Ok(t) => Ok(l) /\ t = l
  <2>1. (at >= s.mac) \in BOOLEAN
    OBVIOUS
  <2> QED BY <1>0, <1>1, <2>1, RequireFacts
<1>3. CASE ~Ok(t)
  <2>1. MacNow(s, at) = t
    BY <1>3 DEF MacNow
  <2> QED BY <1>1, <1>2, <1>3, <2>1 DEF Keeps, Calm, Ok
<1>4. CASE Ok(t)
  <2>1. t = s /\ Ok(s) /\ s.stage # "Complete"
    BY <1>1, <1>2, <1>4
  <2>2. u \in Supervisors /\ Keeps(s, u) /\ u.mac = at /\ u.linux = s.linux
        /\ u.timing = s.timing /\ u.latest = s.latest
    BY <2>1 DEF Supervisors, Keeps, Ok
  <2>3. (at < MacDeadline) \in BOOLEAN
    OBVIOUS
  <2>4. MacNow(s, at) = Require(u, at < MacDeadline, "Deadline")
    BY <1>4 DEF MacNow
  <2>5. LET v == Require(u, at < MacDeadline, "Deadline") IN
        /\ v \in Supervisors /\ Keeps(u, v) /\ Calm(u, v)
        /\ Ok(v) => Ok(u) /\ at < MacDeadline /\ v = u
    BY <1>0, <2>2, <2>3, RequireFacts
  <2> HIDE DEF u, t, l
  <2> QED BY <2>1, <2>2, <2>4, <2>5 DEF Keeps, Calm, Ok
<1> QED BY <1>3, <1>4

\* The note that a cleanup came late touches nothing else.
LEMMA LateFacts ==
  ASSUME NEW t \in Supervisors
  PROVE  LET late == [t EXCEPT !.timing = FALSE] IN
         /\ late \in Supervisors /\ Keeps(t, late) /\ late.timing = FALSE
         /\ late.linux = t.linux /\ late.latest = t.latest /\ late.failure = t.failure
<1>1. [t EXCEPT !.timing = FALSE] \in Supervisors
  BY DEF Supervisors
<1>2. Keeps(t, [t EXCEPT !.timing = FALSE])
  BY DEF Supervisors, Keeps, Ok
<1> QED BY <1>1, <1>2 DEF Supervisors

\* A cleanup fact that is not noted as late was recorded before the host's deadline.
LEMMA CleanupMacNowFacts ==
  ASSUME NEW s \in Supervisors, NEW at \in Times
  PROVE  LET t == CleanupMacNow(s, at) IN
         /\ t \in Supervisors
         /\ Keeps(s, t)
         /\ t.linux = s.linux /\ t.latest = s.latest
         /\ t.timing => t.mac < MacDeadline
         /\ Ok(t) => Ok(s) /\ s.stage # "Complete" /\ t.timing = s.timing /\ t.mac < MacDeadline
<1> DEFINE t == MacNow(s, at)
           late == [t EXCEPT !.timing = FALSE]
           onTime == s.timing /\ at >= s.mac /\ at < MacDeadline
           later == IF at > s.mac THEN at ELSE s.mac
           failed == [s EXCEPT !.timing = onTime, !.mac = later]
<1>0. MacDeadline \in Int /\ Times \subseteq Int
  BY SupervisorAssumption DEF MacDeadline, Times
<1>1. CASE Ok(s) /\ Ok(t)
  BY <1>1, MacNowFacts DEF CleanupMacNow
<1>2. CASE Ok(s) /\ ~Ok(t)
  <2>1. t \in Supervisors /\ Keeps(s, t) /\ t.linux = s.linux /\ t.latest = s.latest
    BY MacNowFacts
  <2>2. CleanupMacNow(s, at) = late
    BY <1>2 DEF CleanupMacNow
  <2>3. /\ late \in Supervisors /\ Keeps(t, late) /\ late.timing = FALSE
        /\ late.linux = t.linux /\ late.latest = t.latest /\ late.failure = t.failure
    BY <2>1, LateFacts
  <2> HIDE DEF t, late
  <2> QED BY <1>2, <2>1, <2>2, <2>3 DEF Keeps, Ok
<1>3. CASE ~Ok(s)
  <2>0. s.mac \in Times /\ s.mac \in Int /\ at \in Int
    BY <1>0 DEF Supervisors
  <2>1. CleanupMacNow(s, at) = failed
    BY <1>3 DEF CleanupMacNow
  <2>2. onTime \in BOOLEAN /\ later \in Times
    BY <2>0
  <2>3. onTime => later < MacDeadline
    <3>1. ASSUME at >= s.mac, at < MacDeadline PROVE later < MacDeadline
      BY <1>0, <2>0, <3>1
    <3> QED BY <3>1
  <2> HIDE DEF onTime, later
  <2>4. failed \in Supervisors /\ failed.mac = later /\ failed.timing = onTime
        /\ failed.linux = s.linux /\ failed.latest = s.latest
    BY <2>2 DEF Supervisors
  <2>5. Keeps(s, failed) /\ ~Ok(failed)
    BY <1>3 DEF Supervisors, Keeps, Ok
  <2> QED BY <1>3, <2>1, <2>3, <2>4, <2>5
<1> QED BY <1>1, <1>2, <1>3

\* A look at the cgroup changes nothing but the latest observation.
LEMMA ObserveCgroupFacts ==
  ASSUME NEW s \in Supervisors, NEW at, NEW o \in Observations, NEW child
  PROVE  LET t == ObserveCgroup(s, at, o, child) IN
         /\ t \in Supervisors
         /\ Keeps(s, t)
         /\ t.linux = s.linux /\ t.mac = s.mac /\ t.timing = s.timing
<1> DEFINE u == [s EXCEPT !.latest = [end |-> o.end, events |-> o.events]]
<1>0. {"Cgroup", "Resource"} \subseteq Reasons
  BY DEF Reasons
<1>1. [end |-> o.end, events |-> o.events] \in [end : Times, events : 0 .. 1]
  <2>1. 0 \in Times
    BY SupervisorAssumption DEF Times
  <2>2. o = Blank \/ o \in [start : Times, end : Times, child : BOOLEAN, events : 0 .. 1,
                            sound : {TRUE}]
    BY DEF Observations
  <2>3. CASE o = Blank
    BY <2>1, <2>3 DEF Blank
  <2>4. CASE o # Blank
    BY <2>2, <2>4
  <2> QED BY <2>3, <2>4
<1>2. u \in Supervisors /\ Keeps(s, u) /\ u.linux = s.linux /\ u.mac = s.mac
      /\ u.timing = s.timing
  BY <1>1 DEF Supervisors, Keeps, Ok
<1>3. ObserveCgroup(s, at, o, child) \in {s, Fail(s, "Cgroup"), u, Fail(u, "Resource")}
  BY DEF ObserveCgroup, Require
<1>4. /\ Fail(s, "Cgroup") \in Supervisors /\ Keeps(s, Fail(s, "Cgroup"))
      /\ Calm(s, Fail(s, "Cgroup"))
  BY <1>0, FailFacts
<1>5. /\ Fail(u, "Resource") \in Supervisors /\ Keeps(u, Fail(u, "Resource"))
      /\ Calm(u, Fail(u, "Resource"))
  BY <1>0, <1>2, FailFacts
<1> HIDE DEF u
<1> QED BY <1>2, <1>3, <1>4, <1>5 DEF Keeps, Calm, Ok

\* Soundness survives whatever a chain of checks does to clocks and failure.
LEMMA KeptSound ==
  ASSUME NEW s, Sound(s), NEW t \in Supervisors, Keeps(s, t),
         t.removal /\ t.timing => t.mac < MacDeadline,
         Ok(t) => /\ t.timing = s.timing /\ t.mac < MacDeadline
                  /\ t.deadline # None => t.linux < t.deadline
  PROVE  Sound(t)
<1>1. Staged(t)
  BY DEF Sound, Staged, Keeps
<1>2. Ok(t) => Clean(t)
  BY DEF Sound, Clean, Keeps, Ok
<1> QED BY <1>1, <1>2 DEF Sound

\* Going from one stage to another counts this action, or none.
Counts(from, to, action) ==
  /\ from \notin Since(action) /\ to \in Since(action)
  /\ \A b \in Actions \ {action} : (to \in Since(b)) <=> (from \in Since(b))

CountsNone(from, to) == \A b \in Actions : (to \in Since(b)) <=> (from \in Since(b))

\* Each stage differs from the one before it in one action at most.
LEMMA CountsFacts ==
  /\ Counts("Preparing", "Ready", "Ready")
  /\ Counts("Ready", "Armed", "InstallAbsoluteDeadline")
  /\ Counts("Armed", "Cloning", "CloneOnce")
  /\ CountsNone("Cloning", "AwaitingExec")
  /\ Counts("AwaitingExec", "ContinueConsumed", "ContinueOnce")
  /\ CountsNone("ContinueConsumed", "Running")
  /\ Counts("Running", "LocalFinal", "LocalFinal")
  /\ Counts("LocalFinal", "Complete", "SimulationComplete")
BY DEF Counts, CountsNone, Actions, Since, Stages, Readied, Installed, Queried, Bound,
       Granted, Executed, Finished

\* The count of an action follows the stage: the call that returns it enters its stage.
LEMMA ReturnFacts ==
  ASSUME IInv, NEW s, NEW action \in Actions, Return(s, action),
         ~Ok(s) => s.stage = sup.stage,
         Ok(s) => Counts(sup.stage, s.stage, action)
  PROVE  /\ sup' = s
         /\ issued' = [a \in Actions |-> IF s.stage \in Since(a) THEN 1 ELSE 0]
BY DEF IInv, Return, Counts

\* A call that returns no action.
LEMMA RecordFacts ==
  ASSUME IInv, NEW s, Record(s), CountsNone(sup.stage, s.stage)
  PROVE  /\ sup' = s
         /\ issued' = [a \in Actions |-> IF s.stage \in Since(a) THEN 1 ELSE 0]
BY DEF IInv, Record, CountsNone

\* t is s after some checks of a call.
Checked(s, t) == Sound(t) /\ Keeps(s, t)

\* A failure recorded by a call leaves a sound supervisor.
LEMMA FailChecked ==
  ASSUME NEW s, Sound(s), NEW reason \in Reasons
  PROVE  Checked(s, Fail(s, reason)) /\ ~Ok(Fail(s, reason))
<1>1. s \in Supervisors
  BY DEF Sound
<1>2. /\ Fail(s, reason) \in Supervisors /\ Keeps(s, Fail(s, reason))
      /\ Calm(s, Fail(s, reason)) /\ ~Ok(Fail(s, reason))
  BY <1>1, FailFacts
<1>3. Fail(s, reason).removal /\ Fail(s, reason).timing =>
        Fail(s, reason).mac < MacDeadline
  BY <1>2 DEF Sound, Keeps, Calm
<1> QED BY <1>2, <1>3, KeptSound DEF Checked, Calm

LEMMA RequireChecked ==
  ASSUME NEW s, Sound(s), NEW c \in BOOLEAN, NEW reason \in Reasons
  PROVE  /\ Checked(s, Require(s, c, reason))
         /\ Ok(Require(s, c, reason)) => c /\ Require(s, c, reason) = s
<1>1. CASE c
  <2>1. Require(s, c, reason) = s
    BY <1>1 DEF Require
  <2> QED BY <1>1, <2>1 DEF Checked, Keeps
<1>2. CASE ~c
  BY <1>2, FailChecked DEF Require
<1> QED BY <1>1, <1>2

LEMMA LinuxNowChecked ==
  ASSUME NEW s, Sound(s), NEW at \in Times
  PROVE  /\ Checked(s, LinuxNow(s, at))
         /\ Ok(LinuxNow(s, at)) =>
              /\ Ok(s) /\ s.stage # "Complete"
              /\ LinuxNow(s, at).linux = at /\ at < InForce(s)
<1> DEFINE t == LinuxNow(s, at)
<1>1. s \in Supervisors
  BY DEF Sound
<1>2. /\ t \in Supervisors /\ Keeps(s, t) /\ t.mac = s.mac /\ t.timing = s.timing
      /\ Ok(t) => Ok(s) /\ s.stage # "Complete" /\ t.linux = at /\ at < InForce(s)
  BY <1>1, LinuxNowFacts
<1> HIDE DEF t
<1>3. t.removal /\ t.timing => t.mac < MacDeadline
  BY <1>2 DEF Sound, Keeps
<1>4. Ok(t) => /\ t.timing = s.timing /\ t.mac < MacDeadline
               /\ t.deadline # None => t.linux < t.deadline
  BY <1>2 DEF Sound, Clean, Keeps, InForce
<1>5. Sound(t)
  BY <1>2, <1>3, <1>4, KeptSound
<1> QED BY <1>2, <1>5 DEF Checked, t

LEMMA CheckedTransitive ==
  ASSUME NEW s, NEW t, NEW u, Checked(s, t), Checked(t, u)
  PROVE  Checked(s, u) /\ (Ok(u) => Ok(t))
BY DEF Checked, Keeps, Ok

\* A call of the supervisor reads its clock and checks one condition, or two.
LEMMA OneCheck ==
  ASSUME NEW s, Sound(s), NEW at \in Times, NEW c \in BOOLEAN, NEW reason \in Reasons
  PROVE  LET t == Require(LinuxNow(s, at), c, reason) IN
         /\ Checked(s, t)
         /\ Ok(t) => Ok(s) /\ c /\ s.stage # "Complete" /\ t.linux = at /\ at < InForce(s)
<1> DEFINE l == LinuxNow(s, at)
           t == Require(l, c, reason)
<1>1. /\ Checked(s, l)
      /\ Ok(l) => Ok(s) /\ s.stage # "Complete" /\ l.linux = at /\ at < InForce(s)
  BY LinuxNowChecked
<1>2. Sound(l)
  BY <1>1 DEF Checked
<1> HIDE DEF l
<1>3. Checked(l, t) /\ (Ok(t) => c /\ t = l)
  BY <1>2, RequireChecked
<1> HIDE DEF t
<1>4. Checked(s, t) /\ (Ok(t) => Ok(l))
  BY <1>1, <1>3, CheckedTransitive
<1> QED BY <1>1, <1>3, <1>4 DEF t, l

LEMMA TwoChecks ==
  ASSUME NEW s, Sound(s), NEW at \in Times, NEW c \in BOOLEAN, NEW reason \in Reasons,
         NEW d \in BOOLEAN, NEW other \in Reasons
  PROVE  LET t == Require(Require(LinuxNow(s, at), c, reason), d, other) IN
         /\ Checked(s, t)
         /\ Ok(t) =>
              Ok(s) /\ c /\ d /\ s.stage # "Complete" /\ t.linux = at /\ at < InForce(s)
<1> DEFINE l == Require(LinuxNow(s, at), c, reason)
           t == Require(l, d, other)
<1>1. /\ Checked(s, l)
      /\ Ok(l) => Ok(s) /\ c /\ s.stage # "Complete" /\ l.linux = at /\ at < InForce(s)
  BY OneCheck
<1>2. Sound(l)
  BY <1>1 DEF Checked
<1> HIDE DEF l
<1>3. Checked(l, t) /\ (Ok(t) => d /\ t = l)
  BY <1>2, RequireChecked
<1> HIDE DEF t
<1>4. Checked(s, t) /\ (Ok(t) => Ok(l))
  BY <1>1, <1>3, CheckedTransitive
<1> QED BY <1>1, <1>3, <1>4 DEF t, l

LEMMA ObserveChecked ==
  ASSUME NEW s, Sound(s), NEW at, NEW o \in Observations, NEW child
  PROVE  Checked(s, ObserveCgroup(s, at, o, child))
<1> DEFINE t == ObserveCgroup(s, at, o, child)
<1>1. s \in Supervisors
  BY DEF Sound
<1>2. /\ t \in Supervisors /\ Keeps(s, t)
      /\ t.linux = s.linux /\ t.mac = s.mac /\ t.timing = s.timing
  BY <1>1, ObserveCgroupFacts
<1> HIDE DEF t
<1>3. t.removal /\ t.timing => t.mac < MacDeadline
  BY <1>2 DEF Sound, Keeps
<1>4. Ok(t) => /\ t.timing = s.timing /\ t.mac < MacDeadline
               /\ t.deadline # None => t.linux < t.deadline
  BY <1>2 DEF Sound, Clean, Keeps, Ok
<1> QED BY <1>2, <1>3, <1>4, KeptSound DEF Checked, t

-----------------------------------------------------------------------------
(* The actions: each keeps the invariant and is a step of SolverAttempt     *)

Gone(s) == s.outer /\ s.removal

\* From s to t no failure is taken back, and the solver starts or its container goes at
\* most, the former only before any failure.
Proper(s, t) ==
  /\ Ok(t) => Ok(s)
  /\ \/ t.sent = s.sent /\ (Gone(t) <=> Gone(s))
     \/ ~s.sent /\ t.sent /\ Ok(s) /\ (Gone(t) <=> Gone(s))
     \/ t.sent = s.sent /\ ~Gone(s) /\ Gone(t)

Preserved == IInv' /\ Proper(sup, sup') /\ Open

LEMMA CheckedProper ==
  ASSUME NEW s, NEW t, Checked(s, t)
  PROVE  Proper(s, t) /\ t.stage = s.stage /\ t.child = s.child
BY DEF Checked, Keeps, Proper, Gone, Ok

\* A call that returns no action and stays in a stage with the same actions behind it.
LEMMA RecordPreserves ==
  ASSUME IInv, NEW s, Record(s), Open, Sound(s), Proper(sup, s), cloned' = s.child,
         CountsNone(sup.stage, s.stage)
  PROVE  Preserved
<1>1. /\ sup' = s
      /\ issued' = [a \in Actions |-> IF s.stage \in Since(a) THEN 1 ELSE 0]
  BY RecordFacts
<1> QED BY <1>1 DEF Preserved, IInv, Open

\* A call that only checks.
LEMMA ChecksPreserve ==
  ASSUME IInv, NEW s, Record(s), Open, UNCHANGED cloned, Checked(sup, s)
  PROVE  Preserved
<1>1. Sound(s) /\ cloned' = s.child /\ Proper(sup, s) /\ s.stage = sup.stage
  BY CheckedProper DEF Checked, IInv
<1>2. CountsNone(sup.stage, s.stage)
  BY <1>1 DEF CountsNone
<1> QED BY <1>1, <1>2, RecordPreserves

\* A call that returns an action.
LEMMA ReturnPreserves ==
  ASSUME IInv, NEW s, NEW action \in Actions, Return(s, action), Open,
         Sound(s), Proper(sup, s), cloned' = s.child,
         ~Ok(s) => s.stage = sup.stage,
         Ok(s) => Counts(sup.stage, s.stage, action)
  PROVE  Preserved
<1>1. /\ sup' = s
      /\ issued' = [a \in Actions |-> IF s.stage \in Since(a) THEN 1 ELSE 0]
  BY ReturnFacts
<1> QED BY <1>1 DEF Preserved, IInv, Open

\* A call that returns `action` with the supervisor v, unless a check of it failed.
LEMMA CommitReturn ==
  ASSUME IInv, NEW t, Checked(sup, t), NEW v, NEW action \in Actions,
         Return(IF Ok(t) THEN v ELSE t, action), Open, UNCHANGED cloned,
         Ok(t) => /\ Ok(v) /\ Sound(v) /\ Proper(sup, v) /\ v.child = sup.child
                  /\ Counts(sup.stage, v.stage, action)
  PROVE  Preserved
<1>1. Proper(sup, t) /\ t.stage = sup.stage /\ t.child = sup.child /\ Sound(t)
  BY CheckedProper DEF Checked
<1>2. cloned' = sup.child
  BY DEF IInv
<1>3. CASE Ok(t)
  <2>1. Return(v, action)
    BY <1>3
  <2> QED BY <1>2, <1>3, <2>1, ReturnPreserves
<1>4. CASE ~Ok(t)
  <2>1. Return(t, action)
    BY <1>4
  <2> QED BY <1>1, <1>2, <1>4, <2>1, ReturnPreserves
<1> QED BY <1>3, <1>4

\* The same for a call that returns no action.
LEMMA CommitRecord ==
  ASSUME IInv, NEW t, Checked(sup, t), NEW v,
         Record(IF Ok(t) THEN v ELSE t), Open, UNCHANGED cloned,
         Ok(t) => /\ Sound(v) /\ Proper(sup, v) /\ v.child = sup.child
                  /\ CountsNone(sup.stage, v.stage)
  PROVE  Preserved
<1>1. cloned' = sup.child
  BY DEF IInv
<1>2. CASE Ok(t)
  <2>1. Record(v)
    BY <1>2
  <2> QED BY <1>1, <1>2, <2>1, RecordPreserves
<1>3. CASE ~Ok(t)
  <2>1. Record(t)
    BY <1>3
  <2> QED BY <2>1, ChecksPreserve
<1> QED BY <1>2, <1>3

LEMMA ReadyPreserves ==
  ASSUME IInv, NEW at \in Times, NEW o \in Observations, Ready(at, o)
  PROVE  Preserved
<1> DEFINE c == sup.stage = "Preparing"
           t == Require(LinuxNow(sup, at), c, "Protocol")
           u == ObserveCgroup(t, at, o, FALSE)
           v == [u EXCEPT !.ready = at, !.stage = "Ready"]
<1>0. Sound(sup) /\ c \in BOOLEAN /\ "Protocol" \in Reasons /\ "Ready" \in Actions
  BY DEF IInv, Reasons, Actions
<1>1. Open /\ UNCHANGED cloned /\ Return(IF Ok(u) THEN v ELSE u, "Ready")
  BY DEF Ready
<1> HIDE DEF c
<1>2. Checked(sup, t) /\ (Ok(t) => Ok(sup) /\ c)
  BY <1>0, OneCheck
<1> HIDE DEF t
<1>3. Checked(t, u)
  BY <1>2, ObserveChecked DEF Checked
<1> HIDE DEF u
<1>4. Checked(sup, u) /\ (Ok(u) => c)
  BY <1>2, <1>3, CheckedTransitive
<1>5. ASSUME Ok(u) PROVE /\ Ok(v) /\ Sound(v) /\ Proper(sup, v) /\ v.child = sup.child
                         /\ Counts(sup.stage, v.stage, "Ready")
  <2>1. u.stage = "Preparing" /\ sup.stage = "Preparing" /\ Proper(sup, u) /\ Sound(u)
        /\ u.child = sup.child
    BY <1>4, <1>5, CheckedProper DEF c, Checked
  <2>2. v \in Supervisors
    BY <2>1 DEF Sound, Supervisors, Stages
  <2>3. Sound(v) /\ Proper(sup, v) /\ v.stage = "Ready" /\ v.child = u.child /\ Ok(v)
    BY <1>5, <2>1, <2>2, SupervisorAssumption
       DEF Sound, Supervisors, Staged, Clean, Proper, Gone, Ok, Stages, Readied, Installed,
           Queried, Bound, Granted, Executed, Finished, Times
  <2> HIDE DEF v
  <2> QED BY <2>1, <2>3, CountsFacts
<1> HIDE DEF v
<1> QED BY <1>0, <1>1, <1>4, <1>5, CommitReturn

LEMMA ArmPreserves ==
  ASSUME IInv, NEW at \in Times, NEW bound \in BOOLEAN, NEW offer \in Int,
         Arm(at, bound, offer)
  PROVE  Preserved
<1> DEFINE c == sup.stage = "Ready" /\ sup.arm = offer /\ offer <= Preparation
           d == at < offer
           t == Require(Require(LinuxNow(sup, at), bound, "Binding"), c, "Protocol")
           u == Require(t, d, "Deadline")
           v == [u EXCEPT !.deadline = offer, !.stage = "Armed"]
<1>0. /\ Sound(sup) /\ c \in BOOLEAN /\ d \in BOOLEAN
      /\ {"Binding", "Protocol", "Deadline"} \subseteq Reasons
      /\ "InstallAbsoluteDeadline" \in Actions
  BY DEF IInv, Reasons, Actions
<1>1. Open /\ UNCHANGED cloned /\ Return(IF Ok(u) THEN v ELSE u, "InstallAbsoluteDeadline")
  BY DEF Arm
<1> HIDE DEF c, d
<1>2. Checked(sup, t) /\ (Ok(t) => Ok(sup) /\ c /\ t.linux = at)
  BY <1>0, TwoChecks
<1> HIDE DEF t
<1>3. Checked(t, u) /\ (Ok(u) => d /\ u = t)
  BY <1>0, <1>2, RequireChecked DEF Checked
<1> HIDE DEF u
<1>4. Checked(sup, u) /\ (Ok(u) => c /\ d /\ u.linux = at)
  BY <1>2, <1>3, CheckedTransitive
<1>5. ASSUME Ok(u) PROVE /\ Ok(v) /\ Sound(v) /\ Proper(sup, v) /\ v.child = sup.child
                         /\ Counts(sup.stage, v.stage, "InstallAbsoluteDeadline")
  <2>1. u.stage = "Ready" /\ sup.stage = "Ready" /\ Proper(sup, u) /\ Sound(u)
        /\ u.child = sup.child /\ u.arm = offer /\ u.linux < offer
    BY <1>4, <1>5, CheckedProper DEF c, d, Checked, Keeps
  <2>2. offer \in Deadlines /\ offer # None
    BY <2>1, SupervisorAssumption DEF Sound, Supervisors
  <2>3. v \in Supervisors
    BY <2>1, <2>2 DEF Sound, Supervisors, Stages
  <2>4. Sound(v) /\ Proper(sup, v) /\ v.stage = "Armed" /\ v.child = u.child /\ Ok(v)
    BY <1>5, <2>1, <2>2, <2>3
       DEF Sound, Supervisors, Staged, Clean, Proper, Gone, Ok, Stages, Readied, Installed,
           Queried, Bound, Granted, Executed, Finished
  <2> HIDE DEF v
  <2> QED BY <2>1, <2>4, CountsFacts
<1> HIDE DEF v
<1> QED BY <1>0, <1>1, <1>4, <1>5, CommitReturn

LEMMA QueryCompletePreserves ==
  ASSUME IInv, NEW at \in Times, NEW bound \in BOOLEAN, NEW matches \in BOOLEAN,
         QueryComplete(at, bound, matches)
  PROVE  Preserved
<1> DEFINE c == sup.stage = "Armed"
           t == Require(Require(LinuxNow(sup, at), bound, "Binding"), c, "Protocol")
           u == Require(t, matches, "Query")
           v == [u EXCEPT !.stage = "Cloning"]
<1>0. /\ Sound(sup) /\ c \in BOOLEAN
      /\ {"Binding", "Protocol", "Query"} \subseteq Reasons
      /\ "CloneOnce" \in Actions
  BY DEF IInv, Reasons, Actions
<1>1. Open /\ UNCHANGED cloned /\ Return(IF Ok(u) THEN v ELSE u, "CloneOnce")
  BY DEF QueryComplete, Enter
<1> HIDE DEF c
<1>2. Checked(sup, t) /\ (Ok(t) => Ok(sup) /\ c)
  BY <1>0, TwoChecks
<1> HIDE DEF t
<1>3. Checked(t, u) /\ (Ok(u) => u = t)
  BY <1>0, <1>2, RequireChecked DEF Checked
<1> HIDE DEF u
<1>4. Checked(sup, u) /\ (Ok(u) => c)
  BY <1>2, <1>3, CheckedTransitive
<1>5. ASSUME Ok(u) PROVE /\ Ok(v) /\ Sound(v) /\ Proper(sup, v) /\ v.child = sup.child
                         /\ Counts(sup.stage, v.stage, "CloneOnce")
  <2>1. u.stage = "Armed" /\ sup.stage = "Armed" /\ Proper(sup, u) /\ Sound(u)
        /\ u.child = sup.child
    BY <1>4, <1>5, CheckedProper DEF c, Checked
  <2>2. v \in Supervisors
    BY <2>1 DEF Sound, Supervisors, Stages
  <2>3. Sound(v) /\ Proper(sup, v) /\ v.stage = "Cloning" /\ v.child = u.child /\ Ok(v)
    BY <1>5, <2>1, <2>2
       DEF Sound, Supervisors, Staged, Clean, Proper, Gone, Ok, Stages, Readied, Installed,
           Queried, Bound, Granted, Executed, Finished
  <2> HIDE DEF v
  <2> QED BY <2>1, <2>3, CountsFacts
<1> HIDE DEF v
<1> QED BY <1>0, <1>1, <1>4, <1>5, CommitReturn

LEMMA CloneReturnedPreserves ==
  ASSUME IInv, NEW at \in Times, NEW token \in BOOLEAN, NEW o \in Observations,
         CloneReturned(at, token, o)
  PROVE  Preserved
<1> DEFINE owner == [sup EXCEPT !.child = TRUE]
           t == LinuxNow(owner, at)
           u == ObserveCgroup(t, at, o, TRUE)
           v == [u EXCEPT !.stage = "AwaitingExec"]
<1>0. Sound(sup) /\ cloned = sup.child /\ "Clone" \in Reasons
  BY DEF IInv, Reasons
<1>1. CASE sup.stage = "Cloning" /\ token /\ ~sup.child
  <2>1. Open /\ Record(IF Ok(u) THEN v ELSE u) /\ cloned' = TRUE
    BY <1>1 DEF CloneReturned, Enter
  <2>2. owner \in Supervisors
    BY <1>0 DEF Sound, Supervisors
  <2>3. Sound(owner) /\ Proper(sup, owner) /\ owner.stage = "Cloning" /\ owner.child
    BY <1>0, <1>1, <2>2 DEF Sound, Supervisors, Staged, Clean, Proper, Gone, Ok
  <2>4. owner.sent = sup.sent /\ owner.outer = sup.outer /\ owner.removal = sup.removal
        /\ owner.failure = sup.failure
    BY <1>0 DEF Sound, Supervisors
  <2> HIDE DEF owner
  <2>5. Checked(owner, t)
    BY <2>3, LinuxNowChecked
  <2> HIDE DEF t
  <2>6. Checked(t, u)
    BY <2>5, ObserveChecked DEF Checked
  <2> HIDE DEF u
  <2>7. Checked(owner, u)
    BY <2>5, <2>6, CheckedTransitive
  <2>8. Sound(u) /\ u.stage = "Cloning" /\ u.child = TRUE /\ Proper(sup, u)
    BY <2>3, <2>4, <2>7 DEF Checked, Keeps, Proper, Gone, Ok, Sound, Supervisors
  <2>9. CASE Ok(u)
    <3>1. v \in Supervisors
      BY <2>8 DEF Sound, Supervisors, Stages
    <3>2. Sound(v) /\ Proper(sup, v) /\ v.stage = "AwaitingExec" /\ v.child = TRUE
      BY <2>8, <2>9, <3>1
       DEF Sound, Supervisors, Staged, Clean, Proper, Gone, Ok, Stages, Readied, Installed,
           Queried, Bound, Granted, Executed, Finished
    <3>3. Record(v)
      BY <2>1, <2>9
    <3> HIDE DEF v
    <3> QED BY <1>1, <2>1, <3>2, <3>3, CountsFacts, RecordPreserves
  <2>10. CASE ~Ok(u)
    <3>1. Record(u) /\ CountsNone(sup.stage, u.stage)
      BY <1>1, <2>1, <2>8, <2>10 DEF CountsNone
    <3> QED BY <2>1, <2>8, <3>1, RecordPreserves
  <2> QED BY <2>9, <2>10
<1>2. CASE ~(sup.stage = "Cloning" /\ token /\ ~sup.child)
  <2>1. Open /\ Record(Fail(sup, "Clone")) /\ UNCHANGED cloned
    BY <1>2 DEF CloneReturned
  <2>2. Checked(sup, Fail(sup, "Clone"))
    BY <1>0, FailChecked
  <2> QED BY <2>1, <2>2, ChecksPreserve
<1> QED BY <1>1, <1>2

LEMMA ListenerReceivedPreserves ==
  ASSUME IInv, NEW at \in Times, NEW bound \in BOOLEAN, NEW sound \in BOOLEAN,
         ListenerReceived(at, bound, sound)
  PROVE  Preserved
<1> DEFINE c == sup.stage = "AwaitingExec" /\ ~sup.listener /\ sound
           t == Require(Require(LinuxNow(sup, at), bound, "Binding"), c, "Listener")
           v == [t EXCEPT !.listener = TRUE]
<1>0. /\ Sound(sup) /\ c \in BOOLEAN /\ {"Binding", "Listener"} \subseteq Reasons
  BY DEF IInv, Reasons
<1>1. Open /\ UNCHANGED cloned /\ Record(IF Ok(t) THEN v ELSE t)
  BY DEF ListenerReceived
<1> HIDE DEF c
<1>2. Checked(sup, t) /\ (Ok(t) => Ok(sup) /\ c)
  BY <1>0, TwoChecks
<1> HIDE DEF t
<1>3. ASSUME Ok(t) PROVE /\ Sound(v) /\ Proper(sup, v) /\ v.child = sup.child
                         /\ CountsNone(sup.stage, v.stage)
  <2>1. t.stage = "AwaitingExec" /\ sup.stage = "AwaitingExec" /\ Proper(sup, t) /\ Sound(t)
        /\ t.child = sup.child
    BY <1>2, <1>3, CheckedProper DEF c, Checked, Keeps
  <2>2. v \in Supervisors
    BY <2>1 DEF Sound, Supervisors, Stages
  <2>3. Sound(v) /\ Proper(sup, v) /\ v.stage = "AwaitingExec" /\ v.child = t.child /\ Ok(v)
    BY <1>3, <2>1, <2>2
       DEF Sound, Supervisors, Staged, Clean, Proper, Gone, Ok, Stages, Readied, Installed,
           Queried, Bound, Granted, Executed, Finished
  <2> HIDE DEF v
  <2> QED BY <2>1, <2>3, CountsFacts DEF CountsNone
<1> HIDE DEF v
<1> QED BY <1>0, <1>1, <1>2, <1>3, CommitRecord

LEMMA GrantFirstExecPreserves ==
  ASSUME IInv, NEW at \in Times, NEW bound \in BOOLEAN, NEW sound \in BOOLEAN,
         GrantFirstExec(at, bound, sound)
  PROVE  Preserved
<1> DEFINE c == sup.stage = "AwaitingExec" /\ sup.listener /\ sound
           t == Require(Require(LinuxNow(sup, at), bound, "Binding"), c, "Notification")
           v == [t EXCEPT !.stage = "ContinueConsumed"]
<1>0. /\ Sound(sup) /\ c \in BOOLEAN /\ {"Binding", "Notification"} \subseteq Reasons
      /\ "ContinueOnce" \in Actions
  BY DEF IInv, Reasons, Actions
<1>1. Open /\ UNCHANGED cloned /\ Return(IF Ok(t) THEN v ELSE t, "ContinueOnce")
  BY DEF GrantFirstExec, Enter
<1> HIDE DEF c
<1>2. Checked(sup, t) /\ (Ok(t) => Ok(sup) /\ c)
  BY <1>0, TwoChecks
<1> HIDE DEF t
<1>3. ASSUME Ok(t) PROVE /\ Ok(v) /\ Sound(v) /\ Proper(sup, v) /\ v.child = sup.child
                         /\ Counts(sup.stage, v.stage, "ContinueOnce")
  <2>1. t.stage = "AwaitingExec" /\ sup.stage = "AwaitingExec" /\ Proper(sup, t) /\ Sound(t)
        /\ t.child = sup.child
    BY <1>2, <1>3, CheckedProper DEF c, Checked, Keeps
  <2>2. v \in Supervisors
    BY <2>1 DEF Sound, Supervisors, Stages
  <2>3. Sound(v) /\ Proper(sup, v) /\ v.stage = "ContinueConsumed" /\ v.child = t.child /\ Ok(v)
    BY <1>3, <2>1, <2>2
       DEF Sound, Supervisors, Staged, Clean, Proper, Gone, Ok, Stages, Readied, Installed,
           Queried, Bound, Granted, Executed, Finished
  <2> HIDE DEF v
  <2> QED BY <2>1, <2>3, CountsFacts
<1> HIDE DEF v
<1> QED BY <1>0, <1>1, <1>2, <1>3, CommitReturn

LEMMA SupervisorFinalPreserves ==
  ASSUME IInv, NEW at \in Times, NEW bound \in BOOLEAN,
         SupervisorFinal(at, bound)
  PROVE  Preserved
<1> DEFINE c == /\ sup.stage = "Running" /\ sup.sent
                /\ \A k \in Streams : sup.eof[k]
                /\ sup.reaped /\ sup.selfOnly
           t == Require(Require(LinuxNow(sup, at), bound, "Binding"), c, "Protocol")
           v == [t EXCEPT !.stage = "LocalFinal"]
<1>0. /\ Sound(sup) /\ c \in BOOLEAN /\ {"Binding", "Protocol"} \subseteq Reasons
      /\ "LocalFinal" \in Actions
  BY DEF IInv, Reasons, Actions
<1>1. Open /\ UNCHANGED cloned /\ Return(IF Ok(t) THEN v ELSE t, "LocalFinal")
  BY DEF SupervisorFinal, Enter
<1> HIDE DEF c
<1>2. Checked(sup, t) /\ (Ok(t) => Ok(sup) /\ c)
  BY <1>0, TwoChecks
<1> HIDE DEF t
<1>3. ASSUME Ok(t) PROVE /\ Ok(v) /\ Sound(v) /\ Proper(sup, v) /\ v.child = sup.child
                         /\ Counts(sup.stage, v.stage, "LocalFinal")
  <2>1. t.stage = "Running" /\ sup.stage = "Running" /\ Proper(sup, t) /\ Sound(t)
        /\ t.child = sup.child
        /\ t.reaped /\ t.selfOnly /\ \A k \in Streams : t.eof[k]
    BY <1>2, <1>3, CheckedProper DEF c, Checked, Keeps
  <2>2. v \in Supervisors
    BY <2>1 DEF Sound, Supervisors, Stages
  <2>3. Sound(v) /\ Proper(sup, v) /\ v.stage = "LocalFinal" /\ v.child = t.child /\ Ok(v)
    BY <1>3, <2>1, <2>2
       DEF Sound, Supervisors, Staged, Clean, Proper, Gone, Ok, Stages, Readied, Installed,
           Queried, Bound, Granted, Executed, Finished
  <2> HIDE DEF v
  <2> QED BY <2>1, <2>3, CountsFacts
<1> HIDE DEF v
<1> QED BY <1>0, <1>1, <1>2, <1>3, CommitReturn

LEMMA ContinueSendResultPreserves ==
  ASSUME IInv, NEW at \in Times, NEW sent \in BOOLEAN, ContinueSendResult(at, sent)
  PROVE  Preserved
<1> DEFINE c == sup.stage = "ContinueConsumed"
           t == Require(Require(LinuxNow(sup, at), c, "Protocol"), sent, "ContinueSend")
           v == [t EXCEPT !.sent = TRUE, !.stage = "Running"]
<1>0. Sound(sup) /\ c \in BOOLEAN /\ {"Protocol", "ContinueSend"} \subseteq Reasons
  BY DEF IInv, Reasons
<1>1. Open /\ UNCHANGED cloned /\ Record(IF Ok(t) THEN v ELSE t)
  BY DEF ContinueSendResult
<1> HIDE DEF c
<1>2. Checked(sup, t) /\ (Ok(t) => Ok(sup) /\ c)
  BY <1>0, TwoChecks
<1> HIDE DEF t
<1>3. ASSUME Ok(t) PROVE /\ Sound(v) /\ Proper(sup, v) /\ v.child = sup.child
                         /\ CountsNone(sup.stage, v.stage)
  <2>1. /\ t.stage = "ContinueConsumed" /\ sup.stage = "ContinueConsumed"
        /\ Proper(sup, t) /\ Sound(t) /\ t.child = sup.child /\ ~sup.sent
    BY <1>2, <1>3, CheckedProper DEF c, Checked, Keeps, Sound, Staged, Executed
  <2>2. v \in Supervisors
    BY <2>1 DEF Sound, Supervisors, Stages
  <2>3. Sound(v) /\ Proper(sup, v) /\ v.stage = "Running" /\ v.child = t.child
    BY <1>2, <1>3, <2>1, <2>2
       DEF Sound, Supervisors, Staged, Clean, Proper, Gone, Ok, Stages, Readied, Installed,
           Queried, Bound, Granted, Executed, Finished
  <2> HIDE DEF v
  <2> QED BY <2>1, <2>3, CountsFacts
<1> HIDE DEF v
<1> QED BY <1>0, <1>1, <1>2, <1>3, CommitRecord

LEMMA CgroupObservationPreserves ==
  ASSUME IInv, NEW at \in Times, NEW o \in Observations, CgroupObservation(at, o)
  PROVE  Preserved
<1> DEFINE c == sup.stage = "Running"
           t == Require(LinuxNow(sup, at), c, "Protocol")
<1>0. Sound(sup) /\ c \in BOOLEAN /\ "Protocol" \in Reasons
  BY DEF IInv, Reasons
<1>1. Open /\ UNCHANGED cloned /\ Record(ObserveCgroup(t, at, o, ~sup.reaped))
  BY DEF CgroupObservation
<1> HIDE DEF c
<1>2. Checked(sup, t)
  BY <1>0, OneCheck
<1> HIDE DEF t
<1>3. Checked(t, ObserveCgroup(t, at, o, ~sup.reaped))
  BY <1>2, ObserveChecked DEF Checked
<1>4. Checked(sup, ObserveCgroup(t, at, o, ~sup.reaped))
  BY <1>2, <1>3, CheckedTransitive
<1> QED BY <1>1, <1>4, ChecksPreserve

LEMMA StreamPreserves ==
  ASSUME IInv, NEW at \in Times, NEW k \in Streams, NEW fits \in BOOLEAN,
         Stream(at, k, fits)
  PROVE  Preserved
<1> DEFINE c == sup.stage = "Running" /\ ~sup.eof[k]
<1>0. Sound(sup) /\ c \in BOOLEAN /\ {"Protocol", "OutputLimit"} \subseteq Reasons
  BY DEF IInv, Reasons
<1>1. /\ Open /\ UNCHANGED cloned
      /\ Record(Require(Require(LinuxNow(sup, at), c, "Protocol"), fits, "OutputLimit"))
  BY DEF Stream
<1> HIDE DEF c
<1>2. Checked(sup, Require(Require(LinuxNow(sup, at), c, "Protocol"), fits, "OutputLimit"))
  BY <1>0, TwoChecks
<1> QED BY <1>1, <1>2, ChecksPreserve

LEMMA StreamEofPreserves ==
  ASSUME IInv, NEW at \in Times, NEW k \in Streams, StreamEof(at, k)
  PROVE  Preserved
<1> DEFINE c == sup.stage = "Running" /\ ~sup.eof[k]
           t == Require(LinuxNow(sup, at), c, "Protocol")
           v == [t EXCEPT !.eof = [@ EXCEPT ![k] = TRUE]]
<1>0. Sound(sup) /\ c \in BOOLEAN /\ "Protocol" \in Reasons
  BY DEF IInv, Reasons
<1>1. Open /\ UNCHANGED cloned /\ Record(IF Ok(t) THEN v ELSE t)
  BY DEF StreamEof
<1> HIDE DEF c
<1>2. Checked(sup, t) /\ (Ok(t) => Ok(sup) /\ c)
  BY <1>0, OneCheck
<1> HIDE DEF t
<1>3. ASSUME Ok(t) PROVE /\ Sound(v) /\ Proper(sup, v) /\ v.child = sup.child
                         /\ CountsNone(sup.stage, v.stage)
  <2>1. t.stage = "Running" /\ sup.stage = "Running" /\ Proper(sup, t) /\ Sound(t)
        /\ t.child = sup.child
    BY <1>2, <1>3, CheckedProper DEF c, Checked, Keeps
  <2>2. v \in Supervisors
    BY <2>1 DEF Sound, Supervisors, Stages
  <2>3. Sound(v) /\ Proper(sup, v) /\ v.stage = "Running" /\ v.child = t.child
    BY <1>3, <2>1, <2>2
       DEF Sound, Supervisors, Staged, Clean, Proper, Gone, Ok, Stages, Readied, Installed,
           Queried, Bound, Granted, Executed, Finished
  <2> HIDE DEF v
  <2> QED BY <2>1, <2>3 DEF CountsNone
<1> HIDE DEF v
<1> QED BY <1>0, <1>1, <1>2, <1>3, CommitRecord

\* A reaped child's last observation is final even if it shows a resource event, and
\* only without one is the attempt still free of failures.
LEMMA ChildReapedPreserves ==
  ASSUME IInv, NEW at \in Times, NEW sound \in BOOLEAN, NEW exit \in Exits,
         NEW o \in Observations, ChildReaped(at, sound, exit, o)
  PROVE  Preserved
<1> DEFINE c == sup.stage = "Running" /\ ~sup.reaped /\ sound
           t == Require(LinuxNow(sup, at), c, "Reaping")
           u == [t EXCEPT !.reaped = TRUE, !.exit = exit]
           seen == ObserveCgroup(u, at, o, FALSE)
           v == [seen EXCEPT !.selfOnly = TRUE, !.finalMissing = FALSE]
           w == IF seen.failure \in {None, "Resource"} THEN v ELSE seen
<1>0. Sound(sup) /\ c \in BOOLEAN /\ "Reaping" \in Reasons
  BY DEF IInv, Reasons
<1>1. Open /\ UNCHANGED cloned /\ Record(IF Ok(t) THEN w ELSE t)
  BY DEF ChildReaped
<1> HIDE DEF c
<1>2. Checked(sup, t) /\ (Ok(t) => Ok(sup) /\ c)
  BY <1>0, OneCheck
<1> HIDE DEF t
<1>3. ASSUME Ok(t) PROVE /\ Sound(w) /\ Proper(sup, w) /\ w.child = sup.child
                         /\ CountsNone(sup.stage, w.stage)
  <2>1. t.stage = "Running" /\ sup.stage = "Running" /\ Proper(sup, t) /\ Sound(t)
        /\ t.child = sup.child
    BY <1>2, <1>3, CheckedProper DEF c, Checked, Keeps
  <2>2. u \in Supervisors
    BY <2>1 DEF Sound, Supervisors
  <2>3. Sound(u) /\ Proper(sup, u) /\ u.stage = "Running" /\ u.child = sup.child
    BY <1>3, <2>1, <2>2
       DEF Sound, Supervisors, Staged, Clean, Proper, Gone, Ok, Stages, Readied, Installed,
           Queried, Bound, Granted, Executed, Finished
  <2> HIDE DEF u
  <2>4. Checked(u, seen)
    BY <2>3, ObserveChecked
  <2> HIDE DEF seen
  <2>5. Sound(seen) /\ Proper(sup, seen) /\ seen.stage = "Running" /\ seen.child = sup.child
    BY <2>3, <2>4 DEF Checked, Keeps, Proper, Gone, Ok
  <2>6. v \in Supervisors
    BY <2>5 DEF Sound, Supervisors
  <2>7. Sound(v) /\ Proper(sup, v) /\ v.stage = "Running" /\ v.child = sup.child
    BY <2>5, <2>6
       DEF Sound, Supervisors, Staged, Clean, Proper, Gone, Ok, Stages, Readied, Installed,
           Queried, Bound, Granted, Executed, Finished
  <2> HIDE DEF v
  <2> QED BY <2>1, <2>5, <2>7 DEF CountsNone
<1> HIDE DEF w
<1> QED BY <1>0, <1>1, <1>2, <1>3, CommitRecord

LEMMA MacNowChecked ==
  ASSUME NEW s, Sound(s), NEW at \in Times
  PROVE  /\ Checked(s, MacNow(s, at))
         /\ Ok(MacNow(s, at)) => Ok(s) /\ s.stage # "Complete"
<1> DEFINE t == MacNow(s, at)
<1>1. s \in Supervisors
  BY DEF Sound
<1>2. /\ t \in Supervisors /\ Keeps(s, t)
      /\ t.linux = s.linux /\ t.timing = s.timing
      /\ t.mac # s.mac => Ok(s) /\ s.stage # "Complete"
      /\ Ok(t) => Ok(s) /\ s.stage # "Complete" /\ t.mac = at /\ at < MacDeadline
  BY <1>1, MacNowFacts
<1> HIDE DEF t
<1>3. t.removal /\ t.timing => t.mac < MacDeadline
  BY <1>2 DEF Sound, Keeps, Clean
<1>4. Ok(t) => /\ t.timing = s.timing /\ t.mac < MacDeadline
               /\ t.deadline # None => t.linux < t.deadline
  BY <1>2 DEF Sound, Clean, Keeps, Ok
<1>5. Sound(t)
  BY <1>2, <1>3, <1>4, KeptSound
<1> QED BY <1>2, <1>5 DEF Checked, t

LEMMA CleanupMacNowChecked ==
  ASSUME NEW s, Sound(s), NEW at \in Times
  PROVE  /\ Checked(s, CleanupMacNow(s, at))
         /\ CleanupMacNow(s, at).timing => CleanupMacNow(s, at).mac < MacDeadline
<1> DEFINE t == CleanupMacNow(s, at)
<1>1. s \in Supervisors
  BY DEF Sound
<1>2. /\ t \in Supervisors /\ Keeps(s, t) /\ t.linux = s.linux
      /\ t.timing => t.mac < MacDeadline
      /\ Ok(t) => Ok(s) /\ t.timing = s.timing /\ t.mac < MacDeadline
  BY <1>1, CleanupMacNowFacts
<1> HIDE DEF t
<1>3. Ok(t) => (t.deadline # None => t.linux < t.deadline)
  BY <1>2 DEF Sound, Clean, Keeps, Ok
<1>4. Sound(t)
  BY <1>2, <1>3, KeptSound
<1> QED BY <1>2, <1>4 DEF Checked, t

LEMMA MakeArmPreserves ==
  ASSUME IInv, NEW at \in Times, NEW query \in BOOLEAN, NEW matches \in BOOLEAN,
         MakeArm(at, query, matches)
  PROVE  Preserved
<1> DEFINE c == sup.stage = "Ready" /\ matches
           remaining == MacDeadline - at - ClockError
           l == Require(MacNow(sup, at), query, "Query")
           t == Require(l, c, "Binding")
           u == Require(t, remaining > 0, "Deadline")
           offer == u.ready + remaining
           v == [u EXCEPT !.arm = offer]
           refused == offer > Preparation \/ u.arm # None
<1>0. /\ Sound(sup) /\ c \in BOOLEAN /\ (remaining > 0) \in BOOLEAN
      /\ {"Query", "Binding", "Deadline", "Protocol"} \subseteq Reasons
      /\ remaining \in Int
  BY SupervisorAssumption DEF IInv, Reasons, MacDeadline, Times
<1>1. /\ Open /\ UNCHANGED cloned
      /\ Record(IF Ok(u) THEN IF refused THEN Fail(u, "Protocol") ELSE v ELSE u)
  BY DEF MakeArm
<1> HIDE DEF c
<1>2. Checked(sup, MacNow(sup, at))
  BY <1>0, MacNowChecked
<1>3. Checked(MacNow(sup, at), l)
  BY <1>0, <1>2, RequireChecked DEF Checked
<1>4. Checked(sup, l)
  BY <1>2, <1>3, CheckedTransitive
<1> HIDE DEF l
<1>5. Checked(l, t) /\ (Ok(t) => c)
  BY <1>0, <1>4, RequireChecked DEF Checked
<1>6. Checked(sup, t)
  BY <1>4, <1>5, CheckedTransitive
<1> HIDE DEF t, remaining
<1>7. Checked(t, u) /\ (Ok(u) => remaining > 0 /\ u = t)
  BY <1>0, <1>6, RequireChecked DEF Checked
<1> HIDE DEF u
<1>8. Checked(sup, u) /\ (Ok(u) => c /\ remaining > 0)
  BY <1>5, <1>6, <1>7, CheckedTransitive
<1>9. ASSUME Ok(u)
      PROVE  LET w == IF refused THEN Fail(u, "Protocol") ELSE v IN
             /\ Sound(w) /\ Proper(sup, w) /\ w.child = sup.child
             /\ CountsNone(sup.stage, w.stage)
  <2>1. u.stage = "Ready" /\ sup.stage = "Ready" /\ Proper(sup, u) /\ Sound(u)
        /\ u.child = sup.child
    BY <1>8, <1>9, CheckedProper DEF c, Checked, Keeps
  <2>2. CASE refused
    <3>1. Checked(u, Fail(u, "Protocol"))
      BY <1>0, <2>1, FailChecked
    <3>2. Checked(sup, Fail(u, "Protocol"))
      BY <1>8, <3>1, CheckedTransitive
    <3>3. Sound(Fail(u, "Protocol")) /\ Proper(sup, Fail(u, "Protocol"))
          /\ Fail(u, "Protocol").stage = sup.stage /\ Fail(u, "Protocol").child = sup.child
      BY <3>2, CheckedProper DEF Checked
    <3> QED BY <2>2, <3>3 DEF CountsNone
  <2>3. CASE ~refused
    <3>1. u.ready \in Nat /\ u.arm = None /\ offer \in Deadlines
      <4>1. u.ready \in Nat
        BY <2>1, SupervisorAssumption DEF Sound, Supervisors, Staged, Readied, Stages, Times
      <4>2. Preparation \in Nat
        BY SupervisorAssumption DEF Preparation
      <4> QED BY <1>0, <1>8, <1>9, <2>3, <4>1, <4>2 DEF Deadlines
    <3> HIDE DEF offer
    <3>2. v \in Supervisors
      BY <2>1, <3>1 DEF Sound, Supervisors
    <3>3. Sound(v) /\ Proper(sup, v) /\ v.stage = "Ready" /\ v.child = u.child
      BY <1>9, <2>1, <3>1, <3>2
       DEF Sound, Supervisors, Staged, Clean, Proper, Gone, Ok, Stages, Readied, Installed,
           Queried, Bound, Granted, Executed, Finished
    <3> HIDE DEF v
    <3> QED BY <2>1, <2>3, <3>3 DEF CountsNone
  <2> QED BY <2>2, <2>3
<1> HIDE DEF v, refused
<1> QED BY <1>0, <1>1, <1>8, <1>9, CommitRecord

LEMMA OuterStatePreserves ==
  ASSUME IInv, NEW at \in Times, NEW gone \in BOOLEAN, OuterState(at, gone)
  PROVE  Preserved
<1> DEFINE s == CleanupMacNow(sup, at)
           v == [s EXCEPT !.outer = TRUE]
<1>0. Sound(sup) /\ cloned = sup.child /\ "OuterState" \in Reasons
  BY DEF IInv, Reasons
<1>1. Checked(sup, s) /\ (s.timing => s.mac < MacDeadline)
  BY <1>0, CleanupMacNowChecked
<1>2. /\ Open /\ UNCHANGED cloned
      /\ Record(s) \/ Record(Fail(s, "OuterState")) \/ Record(v)
  BY DEF OuterState
<1> HIDE DEF s
<1>3. CASE Record(s)
  BY <1>1, <1>2, <1>3, ChecksPreserve
<1>4. CASE Record(Fail(s, "OuterState"))
  <2>1. Checked(s, Fail(s, "OuterState"))
    BY <1>0, <1>1, FailChecked DEF Checked
  <2>2. Checked(sup, Fail(s, "OuterState"))
    BY <1>1, <2>1, CheckedTransitive
  <2> QED BY <1>2, <1>4, <2>2, ChecksPreserve
<1>5. CASE Record(v)
  <2>1. Sound(s) /\ Keeps(sup, s)
    BY <1>1 DEF Checked
  <2>2. v \in Supervisors
    BY <2>1 DEF Sound, Supervisors
  <2>3. Sound(v) /\ v.stage = s.stage /\ v.child = s.child
    BY <2>1, <2>2 DEF Sound, Supervisors, Staged, Clean, Ok
  <2>4. Proper(sup, v)
    BY <1>0, <2>1, <2>2 DEF Sound, Supervisors, Keeps, Proper, Gone, Ok
  <2> HIDE DEF v
  <2>5. cloned' = v.child /\ CountsNone(sup.stage, v.stage)
    BY <1>0, <1>2, <2>1, <2>3 DEF Keeps, CountsNone
  <2> QED BY <1>2, <1>5, <2>3, <2>4, <2>5, RecordPreserves
<1> QED BY <1>2, <1>3, <1>4, <1>5

LEMMA RemovalPreserves ==
  ASSUME IInv, NEW at \in Times, NEW confirmed \in BOOLEAN, Removal(at, confirmed)
  PROVE  Preserved
<1> DEFINE s == CleanupMacNow(sup, at)
           v == [s EXCEPT !.removal = TRUE]
           w == [s EXCEPT !.removal = TRUE, !.stage = "Complete"]
<1>0. Sound(sup) /\ cloned = sup.child /\ "Cleanup" \in Reasons
      /\ "SimulationComplete" \in Actions
  BY DEF IInv, Reasons, Actions
<1>1. Checked(sup, s) /\ (s.timing => s.mac < MacDeadline)
  BY <1>0, CleanupMacNowChecked
<1>2. /\ Open /\ UNCHANGED cloned
      /\ \/ Record(s) \/ Record(Fail(s, "Cleanup"))
         \/ Record(v) /\ ~Ok(s)
         \/ /\ Return(w, "SimulationComplete") /\ Ok(s)
            /\ s.stage = "LocalFinal" /\ s.outer /\ ~s.removal
  BY DEF Removal
<1> HIDE DEF s
<1>3. CASE Record(s)
  BY <1>1, <1>2, <1>3, ChecksPreserve
<1>4. CASE Record(Fail(s, "Cleanup"))
  <2>1. Checked(s, Fail(s, "Cleanup"))
    BY <1>0, <1>1, FailChecked DEF Checked
  <2>2. Checked(sup, Fail(s, "Cleanup"))
    BY <1>1, <2>1, CheckedTransitive
  <2> QED BY <1>2, <1>4, <2>2, ChecksPreserve
<1>5. CASE Record(v) /\ ~Ok(s)
  <2>1. Sound(s) /\ Keeps(sup, s)
    BY <1>1 DEF Checked
  <2>2. v \in Supervisors
    BY <2>1 DEF Sound, Supervisors
  <2>3. Sound(v) /\ v.stage = s.stage /\ v.child = s.child
    BY <1>1, <1>5, <2>1, <2>2 DEF Sound, Supervisors, Staged, Clean, Ok
  <2>4. Proper(sup, v)
    BY <1>0, <2>1, <2>2 DEF Sound, Supervisors, Keeps, Proper, Gone, Ok
  <2> HIDE DEF v
  <2>5. cloned' = v.child /\ CountsNone(sup.stage, v.stage)
    BY <1>0, <1>2, <2>1, <2>3 DEF Keeps, CountsNone
  <2> QED BY <1>2, <1>5, <2>3, <2>4, <2>5, RecordPreserves
<1>6. CASE /\ Return(w, "SimulationComplete") /\ Ok(s)
           /\ s.stage = "LocalFinal" /\ s.outer /\ ~s.removal
  <2>1. Sound(s) /\ Keeps(sup, s)
    BY <1>1 DEF Checked
  <2>2. w \in Supervisors
    BY <2>1 DEF Sound, Supervisors, Stages
  <2>3. Sound(w) /\ w.stage = "Complete" /\ w.child = s.child /\ Ok(w)
    BY <1>6, <2>1, <2>2
       DEF Sound, Supervisors, Staged, Clean, Ok, Stages, Readied, Installed, Queried, Bound,
           Granted, Executed, Finished
  <2>4. Proper(sup, w)
    BY <1>0, <1>6, <2>1, <2>2 DEF Sound, Supervisors, Keeps, Proper, Gone, Ok
  <2> HIDE DEF w
  <2>5. cloned' = w.child /\ Counts(sup.stage, w.stage, "SimulationComplete")
    BY <1>0, <1>2, <1>6, <2>1, <2>3, CountsFacts DEF Keeps
  <2>6. Return(w, "SimulationComplete") /\ Open
    BY <1>2, <1>6
  <2> QED BY <1>0, <2>3, <2>4, <2>5, <2>6, ReturnPreserves
<1> QED BY <1>2, <1>3, <1>4, <1>5, <1>6

LEMMA TickPreserves ==
  ASSUME IInv, NEW at \in Times, Tick(at) \/ ControlEof(at)
  PROVE  Preserved
<1> DEFINE t == LinuxNow(sup, at)
<1>0. Sound(sup) /\ "ControlEof" \in Reasons
  BY DEF IInv, Reasons
<1>1. Open /\ UNCHANGED cloned /\ (Record(t) \/ Record(Fail(t, "ControlEof")))
  BY DEF Tick, ControlEof
<1>2. Checked(sup, t)
  BY <1>0, LinuxNowChecked
<1> HIDE DEF t
<1>3. Checked(t, Fail(t, "ControlEof"))
  BY <1>0, <1>2, FailChecked DEF Checked
<1>4. Checked(sup, Fail(t, "ControlEof"))
  BY <1>2, <1>3, CheckedTransitive
<1> QED BY <1>1, <1>2, <1>4, ChecksPreserve

LEMMA LossesPreserve ==
  ASSUME IInv, ProtocolFailure \/ ReapingFailure \/ SupervisorLost \/ ListenerLost
  PROVE  Preserved
<1> DEFINE gone == [sup EXCEPT !.alive = FALSE, !.finalMissing = TRUE]
           lost == [sup EXCEPT !.finalMissing = TRUE]
<1>0. /\ Sound(sup) /\ cloned = sup.child
      /\ {"Protocol", "Reaping", "SupervisorLost", "Listener"} \subseteq Reasons
  BY DEF IInv, Reasons
<1>1. CASE ProtocolFailure \/ ReapingFailure
  <2>1. Open /\ UNCHANGED cloned
        /\ (Record(Fail(sup, "Protocol")) \/ Record(Fail(sup, "Reaping")))
    BY <1>1 DEF ProtocolFailure, ReapingFailure
  <2> QED BY <1>0, <2>1, FailChecked, ChecksPreserve
\* What is lost may only contradict what a clean attempt says, and the attempt fails.
<1>2. ASSUME NEW s \in Supervisors, NEW reason \in Reasons, s.stage = sup.stage,
             s.child = sup.child, s.failure = sup.failure, s.sent = sup.sent,
             s.outer = sup.outer, s.removal = sup.removal, Staged(s),
             s.timing = sup.timing, s.mac = sup.mac,
             Open, UNCHANGED cloned, Record(Fail(s, reason))
      PROVE  Preserved
  <2> DEFINE t == Fail(s, reason)
  <2>1. t \in Supervisors /\ Keeps(s, t) /\ Calm(s, t) /\ ~Ok(t)
    BY <1>2, FailFacts
  <2> HIDE DEF t
  <2>2. Staged(t)
    BY <1>2, <2>1 DEF Keeps, Staged
  <2>3. Sound(t)
    BY <1>0, <1>2, <2>1, <2>2 DEF Sound, Keeps, Calm
  <2>4. Proper(sup, t) /\ cloned' = t.child /\ CountsNone(sup.stage, t.stage)
    BY <1>0, <1>2, <2>1 DEF Keeps, Proper, Gone, Ok, CountsNone
  <2>5. Record(t)
    BY <1>2 DEF t
  <2> QED BY <1>2, <2>3, <2>4, <2>5, RecordPreserves
<1>3. CASE SupervisorLost
  <2>1. Open /\ UNCHANGED cloned /\ Record(Fail(gone, "SupervisorLost"))
    BY <1>3 DEF SupervisorLost
  <2>2. gone \in Supervisors
    BY <1>0 DEF Sound, Supervisors
  <2>3. /\ gone.stage = sup.stage /\ gone.child = sup.child /\ gone.failure = sup.failure
        /\ gone.sent = sup.sent /\ gone.outer = sup.outer /\ gone.removal = sup.removal
        /\ gone.timing = sup.timing /\ gone.mac = sup.mac /\ Staged(gone)
    BY <1>0 DEF Sound, Supervisors, Staged
  <2> HIDE DEF gone
  <2> QED BY <1>0, <1>2, <2>1, <2>2, <2>3
<1>4. CASE ListenerLost
  <2>1. Open /\ UNCHANGED cloned /\ Record(Fail(lost, "Listener"))
    BY <1>4 DEF ListenerLost
  <2>2. lost \in Supervisors
    BY <1>0 DEF Sound, Supervisors
  <2>3. /\ lost.stage = sup.stage /\ lost.child = sup.child /\ lost.failure = sup.failure
        /\ lost.sent = sup.sent /\ lost.outer = sup.outer /\ lost.removal = sup.removal
        /\ lost.timing = sup.timing /\ lost.mac = sup.mac /\ Staged(lost)
    BY <1>0 DEF Sound, Supervisors, Staged
  <2> HIDE DEF lost
  <2> QED BY <1>0, <1>2, <2>1, <2>2, <2>3
<1> QED BY <1>1, <1>3, <1>4

-----------------------------------------------------------------------------
(* The invariant                                                            *)

LEMMA InitHolds == Init => IInv
<1> SUFFICES ASSUME Init PROVE IInv
  OBVIOUS
<1>0. 0 \in Times /\ MacDeadline > 0
  BY SupervisorAssumption DEF Times, MacDeadline
<1>1. sup \in Supervisors
  BY <1>0 DEF Init, Supervisors, Stages
<1>2. Staged(sup)
  BY DEF Init, Staged, Stages, Readied, Installed, Queried, Bound, Granted, Executed, Finished
<1>3. Sound(sup)
  BY <1>0, <1>1, <1>2 DEF Init, Sound, Clean
<1>4. \A a \in Actions : sup.stage \notin Since(a)
  BY DEF Init, Actions, Since, Stages, Readied, Installed, Queried, Bound, Granted, Executed,
         Finished
<1>5. issued = [a \in Actions |-> IF sup.stage \in Since(a) THEN 1 ELSE 0]
  BY <1>4 DEF Init
<1>6. cloned = sup.child /\ verdict \in {"none", "response", "refused"}
  BY DEF Init
<1> QED BY <1>3, <1>5, <1>6 DEF IInv

\* Every step but the caller's judgement is a call that keeps the invariant.
LEMMA CallsPreserve == IInv /\ Next => Preserved \/ Judge
<1> SUFFICES ASSUME IInv, Next PROVE Preserved \/ Judge
  OBVIOUS
<1>1. Seen \subseteq Observations /\ Offers \subseteq Int /\ Blank \in Observations
  <2>1. Blank \in Observations
    BY DEF Observations
  <2>2. Seen \subseteq Observations
    BY <2>1 DEF Seen
  <2>3. Offers \subseteq Int
    BY SupervisorAssumption DEF Offers, Preparation
  <2> QED BY <2>1, <2>2, <2>3
<1>2. ASSUME NEW at \in Times, Supervise(at) PROVE Preserved
  <2>1. "Zero" \in Exits
    BY DEF Exits
  <2> QED BY <1>1, <1>2, <2>1, ReadyPreserves, CgroupObservationPreserves, ArmPreserves,
             CloneReturnedPreserves, QueryCompletePreserves, ListenerReceivedPreserves,
             GrantFirstExecPreserves, ContinueSendResultPreserves, StreamEofPreserves,
             StreamPreserves, ChildReapedPreserves, SupervisorFinalPreserves, TickPreserves
          DEF Supervise
<1>3. ASSUME NEW at \in Times, Surround(at) PROVE Preserved
  BY <1>3, MakeArmPreserves, OuterStatePreserves, RemovalPreserves DEF Surround
<1> QED BY <1>2, <1>3, LossesPreserve DEF Next

LEMMA StepKeeps == IInv /\ [Next]_vars => IInv'
<1> SUFFICES ASSUME IInv, [Next]_vars PROVE IInv'
  OBVIOUS
<1>1. CASE Next
  <2>1. CASE Judge
    BY <2>1 DEF Judge, IInv
  <2> QED BY <1>1, <2>1, CallsPreserve DEF Preserved
<1>2. CASE UNCHANGED vars
  BY <1>2 DEF vars, IInv
<1> QED BY <1>1, <1>2

LEMMA InvariantHolds == Spec => []IInv
BY InitHolds, StepKeeps, PTL DEF Spec

-----------------------------------------------------------------------------
(* What follows from it                                                     *)

\* Every field of the supervisor keeps its type; in particular an offer or a deadline,
\* once there is one, lies inside the preparation.
THEOREM SupervisorTypes == Spec => []TypeOK
<1>1. IInv => TypeOK
  <2> SUFFICES ASSUME IInv PROVE TypeOK
    OBVIOUS
  <2>1. sup \in Supervisors
    BY DEF IInv, Sound
  <2>2. issued \in [Actions -> 0 .. 2]
    BY DEF IInv
  <2>3. cloned \in BOOLEAN
    BY <2>1 DEF IInv, Supervisors
  <2> QED BY <2>1, <2>2, <2>3 DEF IInv, TypeOK
<1> QED BY <1>1, InvariantHolds, PTL

\* A cloned child is never forgotten by a failed attempt (bind_clone_child,
\* stop_action).
THEOREM ChildIsStopped == Spec => []ClonedChildIsStopped
<1>1. IInv => ClonedChildIsStopped
  BY DEF IInv, ClonedChildIsStopped, KillsChild
<1> QED BY <1>1, InvariantHolds, PTL

\* READY, the deadline, the clone, CONTINUE, the final and the completion are returned once
\* at most and in this order: an action is counted from the stage that it leads to, and
\* that stage lies behind the stage of the action before it.
THEOREM OneShotActions == Spec => []ActionsAreOneShot
<1>1. IInv => ActionsAreOneShot
  <2> SUFFICES ASSUME IInv PROVE ActionsAreOneShot
    OBVIOUS
  <2>1. \A a \in Actions : issued[a] <= 1
    BY DEF IInv
  <2>2. \A n \in 1 .. Len(Order) - 1 : issued[Order[n + 1]] > 0 => issued[Order[n]] = 1
    <3> SUFFICES ASSUME NEW n \in 1 .. Len(Order) - 1, issued[Order[n + 1]] > 0
                 PROVE  issued[Order[n]] = 1
      OBVIOUS
    <3>1. n \in 1 .. 5
      BY DEF Order
    <3>2. Order[n] \in Actions /\ Order[n + 1] \in Actions
      BY <3>1 DEF Order, Actions
    <3>3. sup.stage \in Since(Order[n + 1])
      BY <3>2 DEF IInv
    <3>4. Since(Order[n + 1]) \subseteq Since(Order[n])
      BY <3>1 DEF Order, Since, Stages, Readied, Installed, Queried, Bound, Granted,
                  Executed, Finished
    <3> QED BY <3>2, <3>3, <3>4 DEF IInv
  <2>3. issued["ContinueOnce"] > 0 => cloned
    BY DEF IInv, Sound, Staged, Actions, Since, Stages, Readied, Installed, Queried, Bound,
           Granted, Executed, Finished
  <2>4. issued["LocalFinal"] > 0 => sup.sent
    BY DEF IInv, Sound, Staged, Actions, Since, Stages, Readied, Installed, Queried, Bound,
           Granted, Executed, Finished
  <2> QED BY <2>1, <2>2, <2>3, <2>4 DEF ActionsAreOneShot
<1> QED BY <1>1, InvariantHolds, PTL

\* completion() stands for a whole attempt inside both deadlines.
THEOREM CompletionIsWhole == Spec => []CompletionMeansWholeAttempt
<1>1. IInv => CompletionMeansWholeAttempt
  <2> SUFFICES ASSUME IInv, Completion
               PROVE  /\ \A a \in Actions : issued[a] = 1
                      /\ sup.sent /\ sup.reaped /\ (\A k \in Streams : sup.eof[k])
                      /\ ~sup.finalMissing /\ sup.outer /\ sup.removal /\ sup.timing
                      /\ sup.alive
                      /\ sup.linux < sup.deadline /\ sup.mac < MacDeadline
    BY DEF CompletionMeansWholeAttempt
  <2>1. sup.stage = "Complete" /\ Ok(sup) /\ Staged(sup) /\ Clean(sup)
    BY DEF Completion, IInv, Sound
  <2>2. \A a \in Actions : issued[a] = 1
    BY <2>1 DEF IInv, Actions, Since, Stages, Readied, Installed, Queried, Bound, Granted,
                Executed, Finished
  <2>3. sup.sent /\ sup.deadline # None
    BY <2>1 DEF Staged, Stages, Readied, Installed, Queried, Bound, Granted, Executed
  <2>4. sup.reaped /\ sup.selfOnly /\ (\A k \in Streams : sup.eof[k])
        /\ sup.outer /\ sup.removal
    BY <2>1 DEF Staged, Finished
  <2>5. ~sup.finalMissing /\ sup.timing /\ sup.alive /\ sup.mac < MacDeadline
        /\ sup.linux < sup.deadline
    BY <2>1, <2>3, <2>4 DEF Clean
  <2> QED BY <2>2, <2>3, <2>4, <2>5
<1> QED BY <1>1, InvariantHolds, PTL

\* The deadline in force is the host's offer and inside the preparation.
THEOREM DeadlineWasOffered == Spec => []DeadlineIsTheOffer
<1>1. IInv => DeadlineIsTheOffer
  BY SupervisorAssumption
     DEF IInv, Sound, Staged, Supervisors, DeadlineIsTheOffer, Deadlines, Preparation
<1> QED BY <1>1, InvariantHolds, PTL

\* A removal that is said to be on time was recorded before the host's deadline.
THEOREM CleanupWasOnTime == Spec => []CleanupOnTime
<1>1. IInv => CleanupOnTime
  BY DEF IInv, Sound, CleanupOnTime
<1> QED BY <1>1, InvariantHolds, PTL

\* The simulation implements SolverAttempt: every call is a step of it or leaves it alone.
THEOREM SupervisorImplements == Spec => ImplementsAttempt
<1>1. Init => Attempt!AttemptInit
  BY DEF Init, Attempt!AttemptInit, Ok
<1>2. IInv /\ [Next]_vars => [Attempt!AttemptNext]_Attempt!attemptVars
  <2> SUFFICES ASSUME IInv, [Next]_vars
               PROVE  [Attempt!AttemptNext]_Attempt!attemptVars
    OBVIOUS
  <2>1. CASE Preserved
    BY <2>1 DEF Preserved, Proper, Gone, Open, Attempt!AttemptNext, Attempt!attemptVars,
                Attempt!Start, Attempt!Fail, Attempt!Vanish, Attempt!Sticky
  <2>2. CASE Judge
    <3>1. Completion => sup.sent /\ sup.outer /\ sup.removal
      BY DEF Completion, IInv, Sound, Staged, Stages, Readied, Installed, Queried, Bound,
             Granted, Executed
    <3> QED BY <2>2, <3>1 DEF Judge, NormalResponseEligible, Completion,
                Attempt!AttemptNext, Attempt!Respond, Attempt!Refuse, Attempt!Sticky, Ok
  <2>3. CASE UNCHANGED vars
    BY <2>3 DEF vars, Attempt!attemptVars, Ok
  <2> QED BY <2>1, <2>2, <2>3, CallsPreserve
<1> QED BY <1>1, <1>2, InvariantHolds, PTL
        DEF Spec, ImplementsAttempt, Attempt!AttemptSpec
=============================================================================
