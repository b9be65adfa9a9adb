---------------------------- MODULE ChannelBuilder ----------------------------
(***************************************************************************)
(* One call of build() in build-linux-channel.py: the wrapper process that *)
(* runs a fixed list of commands under one deadline, owns the process      *)
(* group of each, and leaves a manifest or a failure record behind.        *)
(*                                                                         *)
(* Around the wrapper go on, between any two of its steps: the clock and a *)
(* user who cancels; the command's leader and the processes it forks, which*)
(* in the compile command are recorders that write one argv record each;   *)
(* the kernel, which may give a reaped leader's number to somebody else.   *)
(* While its interval timer is armed the wrapper can be hit by SIGALRM     *)
(* anywhere: the handler raises once the call is late or cancelled.        *)
(***************************************************************************)
EXTENDS Naturals, Sequences, FiniteSets

CONSTANTS
  Commands,     \* the kinds of the commands in the order build() runs them
  Helpers,      \* processes that a leader may fork into its group
  Units,        \* the compilation units that cargo must compile
  Probe,        \* the kind of a record that is no unit (version, host, target probe)
  ArgvRecords,  \* LIMITS['argv_records']: the numbers for argv records
  None

CommandKinds == {"snapshot", "check", "metadata", "compile"}

ASSUME CommandsAssumption ==
  /\ Len(Commands) \in Nat \ {0}
  /\ Commands \in [1 .. Len(Commands) -> CommandKinds]
ASSUME RecordsAssumption ==
  /\ ArgvRecords \in Nat
  /\ Probe \notin Units /\ None \notin Units \cup {Probe}
  /\ Helpers \cap (Units \cup {Probe, None}) = {}

ASSUME NoneAssumption ==
  None \notin {"running", "zombie", "reaped", "started", "writing", "pinned", "stray",
               "partial", "whole", "ok", "error"}

VARIABLES
  pc,        \* where the wrapper is
  cmd,       \* index of the command it runs
  timer,     \* the interval timer is armed
  late,      \* the monotonic clock has passed the deadline
  cancelled, \* a cancellation signal was handled
  leader,    \* the current command's leader: None, "running", "zombie" or "reaped"
  known,     \* Popen.returncode of the leader is set
  success,   \* the leader's exit status is 0
  helper,    \* the processes forked into the group: None, "started", "writing" or "running"
  doomed,    \* the group was sent SIGKILL
  aim,       \* whom the last group signal was for: None, "pinned" or "stray"
  unsure,    \* the exception that is on its way says that a stop was not confirmed
  argv,      \* the argv records by number: a kind, the recorder that still writes it, or None
             \* when that recorder died
  created,   \* the task directory is this call's own
  manifest, failure,   \* the two result files: None, "partial" or "whole"
  exit       \* None, "ok" or "error"

call == <<cmd, timer, known, unsure, created, manifest, failure>>
processes == <<leader, success, helper, doomed, aim, argv>>
world == <<late, cancelled>>
vars == <<pc, call, processes, world, exit>>

Alive == {h \in Helpers : helper[h] # None}

\* The wrapper's points by who catches what is raised there: run(), build() or nobody.
InRun == {"disarm", "spawn", "rearm", "loop", "members", "wait", "status", "finished"}
InBuild == {"preflight", "create", "begin", "verify", "manifest", "writing", "measure"}
Unguarded == {"failed", "finally", "return"}
InStop == {"stop", "kill", "confirm", "reap"}
Points == InRun \cup InBuild \cup Unguarded \cup InStop \cup {"caught", "record", "exit"}

TypeOK ==
  /\ pc \in Points /\ cmd \in 1 .. Len(Commands)
  /\ {timer, late, cancelled, known, success, doomed, unsure, created} \subseteq BOOLEAN
  /\ leader \in {None, "running", "zombie", "reaped"}
  /\ helper \in [Helpers -> {None, "started", "writing", "running"}]
  /\ aim \in {None, "pinned", "stray"}
  /\ argv \in Seq(Units \cup {Probe, None} \cup Helpers) /\ Len(argv) <= ArgvRecords
  /\ manifest \in {None, "partial", "whole"} /\ failure \in {None, "partial", "whole"}
  /\ exit \in {None, "ok", "error"}

Init ==
  /\ pc = "preflight" /\ cmd = 1 /\ timer = TRUE
  /\ late = FALSE /\ cancelled = FALSE
  /\ leader = None /\ known = FALSE /\ success = FALSE
  /\ helper = [h \in Helpers |-> None] /\ doomed = FALSE /\ aim = None
  /\ unsure = FALSE /\ argv = <<>> /\ created = FALSE
  /\ manifest = None /\ failure = None /\ exit = None

-----------------------------------------------------------------------------
(* Exceptions.                                                             *)

\* Session.checkpoint: what every measurement and every tick of the timer tests.
Due == late \/ cancelled

\* Where an exception raised at p goes on.  In run()'s handler nothing is left to catch it
\* but build(), and in build()'s handler nothing at all.
Handler(p) ==
  CASE p \in InRun -> "caught"
    [] p \in InBuild \cup {"caught"} -> "failed"
    [] p = "failed" -> "finally"
    [] p \in {"finally", "return"} -> "exit"

Raise ==
  /\ pc' = Handler(pc)
  /\ exit' = IF pc' = "exit" THEN "error" ELSE exit
  /\ UNCHANGED <<call, processes, world>>

\* A check of the current step fails: an input, a limit, a drift, a full disk, a command
\* that failed.
Fault == pc \in {"spawn", "loop", "members", "finished"} \cup InBuild /\ Raise

\* The step's own checkpoint fails.
Expired == pc \in {"begin", "loop", "finished", "measure"} /\ Due /\ Raise

\* SIGALRM: a tick of the armed timer is delivered between two steps of the wrapper.
Alarm == pc \in InRun \cup InBuild \cup Unguarded \cup {"caught"} /\ timer /\ Due /\ Raise

Step(from, to) == pc = from /\ pc' = to /\ UNCHANGED <<world, exit>>

-----------------------------------------------------------------------------
(* build(): before and after the commands.                                 *)

Preflight == Step("preflight", "create") /\ UNCHANGED <<call, processes>>

Create ==
  /\ Step("create", "begin")
  /\ created' = TRUE
  /\ UNCHANGED <<cmd, timer, known, unsure, manifest, failure, processes>>

\* The checks on the records: each of them whole, every unit exactly once.
RecordsSound ==
  /\ \A i \in DOMAIN argv : argv[i] \in Units \cup {Probe}
  /\ \A u \in Units : Cardinality({i \in DOMAIN argv : argv[i] = u}) = 1

Verify ==
  /\ RecordsSound /\ ~Due
  /\ Step("verify", "manifest")
  /\ UNCHANGED <<call, processes>>

\* new_file: exclusive creation, then the contents.
OpenManifest ==
  /\ Step("manifest", "writing")
  /\ manifest' = "partial"
  /\ UNCHANGED <<cmd, timer, known, unsure, created, failure, processes>>

WriteManifest ==
  /\ Step("writing", "measure")
  /\ manifest' = "whole"
  /\ UNCHANGED <<cmd, timer, known, unsure, created, failure, processes>>

LastMeasure == ~Due /\ Step("measure", "return") /\ UNCHANGED <<call, processes>>

\* except BaseException: the timer goes first, then the failure record.
DisarmBuild ==
  /\ Step("failed", IF created THEN "record" ELSE "finally")
  /\ timer' = FALSE
  /\ UNCHANGED <<cmd, known, unsure, created, manifest, failure, processes>>

\* Best effort: an OSError, before or after the file exists, is swallowed.
RecordFailure ==
  /\ Step("record", "finally")
  /\ failure' \in {None, "partial", "whole"}
  /\ UNCHANGED <<cmd, timer, known, unsure, created, manifest, processes>>

\* The finally clause, on the way of an exception or of the result.
Finally ==
  /\ pc \in {"finally", "return"} /\ pc' = "exit"
  /\ timer' = FALSE
  /\ exit' = IF pc = "return" THEN "ok" ELSE "error"
  /\ UNCHANGED <<cmd, known, unsure, created, manifest, failure, processes, world>>

-----------------------------------------------------------------------------
(* Session.run                                                             *)

\* The measurement is before the try statement.
Begin ==
  /\ ~Due /\ Step("begin", "disarm")
  /\ leader' = None /\ known' = FALSE /\ success' = FALSE
  /\ UNCHANGED <<cmd, timer, unsure, created, manifest, failure, helper, doomed, aim, argv>>

\* No timer exception may come between the fork and the registration of the child.
DisarmSpawn ==
  /\ Step("disarm", "spawn")
  /\ timer' = FALSE
  /\ UNCHANGED <<cmd, known, unsure, created, manifest, failure, processes>>

Spawn ==
  /\ Step("spawn", "rearm")
  /\ leader' = "running"
  /\ UNCHANGED <<call, success, helper, doomed, aim, argv>>

Rearm ==
  /\ Step("rearm", "loop")
  /\ timer' = TRUE
  /\ UNCHANGED <<cmd, known, unsure, created, manifest, failure, processes>>

\* The loop ends when both streams are at their end and the leader is dead but not yet
\* reaped.  The streams say nothing about helpers: those can close theirs.
LoopEnds ==
  /\ leader = "zombie" /\ ~Due
  /\ Step("loop", "members")
  /\ UNCHANGED <<call, processes>>

\* Mutant: the streams are at their end, so the group must be gone.
MembersUnchecked == Step("members", "wait") /\ UNCHANGED <<call, processes>>

\* group_members: the leader's own entry does not count, anybody else is unexpected.
Members ==
  /\ Step("members", IF Alive = {} THEN "wait" ELSE "caught")
  /\ UNCHANGED <<call, processes>>

\* Popen.wait: the system call and the assignment of returncode are two steps.
Wait ==
  /\ Step("wait", "status")
  /\ leader' = "reaped"
  /\ UNCHANGED <<call, success, helper, doomed, aim, argv>>

SetReturnCode ==
  /\ Step("status", "finished")
  /\ known' = TRUE
  /\ UNCHANGED <<cmd, timer, unsure, created, manifest, failure, processes>>

\* After the last command the records are verified, after any other comes the next one.
Finished ==
  LET last == cmd = Len(Commands) IN
  /\ success /\ ~Due
  /\ Step("finished", IF last THEN "verify" ELSE "begin")
  /\ cmd' = IF last THEN cmd ELSE cmd + 1
  /\ UNCHANGED <<timer, known, unsure, created, manifest, failure, processes>>

\* except BaseException: the timer goes first; a child not known to be reaped is stopped
\* before the exception goes on to build().
DisarmRun ==
  /\ Step("caught", IF leader # None /\ ~known THEN "stop" ELSE "failed")
  /\ timer' = FALSE
  /\ UNCHANGED <<cmd, known, unsure, created, manifest, failure, processes>>

-----------------------------------------------------------------------------
(* Session.stop and stop_pinned                                            *)

\* Mutant: returncode is not set, so the leader is taken to be there.
IdentifyByReturnCode == Step("stop", "kill") /\ UNCHANGED <<call, processes>>

\* exited_unreaped: waitid with WNOWAIT knows no such child once it was reaped, and that
\* error forbids every signal to the group.
Identify ==
  /\ Step("stop", IF leader = "reaped" THEN "reap" ELSE "kill")
  /\ unsure' = (leader = "reaped")
  /\ UNCHANGED <<cmd, timer, known, created, manifest, failure, processes>>

Kill ==
  /\ Step("kill", "confirm")
  /\ aim' = IF leader = "reaped" THEN "stray" ELSE "pinned"
  /\ doomed' = TRUE
  /\ UNCHANGED <<call, leader, success, helper, argv>>

Confirmed ==
  /\ leader = "zombie" /\ Alive = {}
  /\ Step("confirm", "reap")
  /\ UNCHANGED <<call, processes>>

\* Mutant: the loop waits for the leader's death without its own deadline.
UnconfirmedDead ==
  /\ leader = "zombie"
  /\ Step("confirm", "reap")
  /\ unsure' = TRUE
  /\ UNCHANGED <<cmd, timer, known, created, manifest, failure, processes>>

\* The second is over, or a query of the group fails.
Unconfirmed ==
  /\ Step("confirm", "reap")
  /\ unsure' = TRUE
  /\ UNCHANGED <<cmd, timer, known, created, manifest, failure, processes>>

\* However the confirmation ended the leader is waited for, within what is left of the
\* second: one that does not die in time stays unreaped.
Reap ==
  /\ Step("reap", "failed")
  /\ IF leader = "running"
       THEN UNCHANGED <<leader, known>>
       ELSE leader' = "reaped" /\ known' = TRUE
  /\ UNCHANGED <<cmd, timer, unsure, created, manifest, failure,
                 success, helper, doomed, aim, argv>>

-----------------------------------------------------------------------------
(* The processes of the group, the clock and the user.                     *)

Elsewhere == UNCHANGED <<pc, call, exit>>

Fork(h) ==
  /\ helper[h] = None /\ ~doomed
  /\ leader = "running" \/ Alive # {}
  /\ helper' = [helper EXCEPT ![h] = "started"]
  /\ Elsewhere /\ UNCHANGED <<leader, success, doomed, aim, argv, world>>

\* record(): the recorder validates its arguments, takes the first number that is free by
\* an exclusive creation, writes its record and becomes the compiler.
Claim(h) ==
  /\ helper[h] = "started" /\ ~doomed
  /\ Commands[cmd] = "compile" /\ Len(argv) < ArgvRecords
  /\ argv' = Append(argv, h)
  /\ helper' = [helper EXCEPT ![h] = "writing"]
  /\ Elsewhere /\ UNCHANGED <<leader, success, doomed, aim, world>>

Record(h) ==
  /\ helper[h] = "writing" /\ ~doomed
  /\ \E kind \in Units \cup {Probe} :
       argv' = [i \in DOMAIN argv |-> IF argv[i] = h THEN kind ELSE argv[i]]
  /\ helper' = [helper EXCEPT ![h] = "running"]
  /\ Elsewhere /\ UNCHANGED <<leader, success, doomed, aim, world>>

HelperDies(h) ==
  /\ h \in Alive
  /\ helper' = [helper EXCEPT ![h] = None]
  /\ argv' = [i \in DOMAIN argv |-> IF argv[i] = h THEN None ELSE argv[i]]
  /\ Elsewhere /\ UNCHANGED <<leader, success, doomed, aim, world>>

LeaderDies ==
  /\ leader = "running"
  /\ leader' = "zombie"
  /\ success' \in BOOLEAN /\ (doomed => ~success')
  /\ Elsewhere /\ UNCHANGED <<helper, doomed, aim, argv, world>>

Deadline == ~late /\ late' = TRUE /\ Elsewhere /\ UNCHANGED <<cancelled, processes>>
Cancel == ~cancelled /\ cancelled' = TRUE /\ Elsewhere /\ UNCHANGED <<late, processes>>

-----------------------------------------------------------------------------

Progress ==
  \/ Preflight \/ Create \/ Verify \/ OpenManifest \/ WriteManifest \/ LastMeasure
  \/ DisarmBuild \/ RecordFailure \/ Finally
  \/ Begin \/ DisarmSpawn \/ Spawn \/ Rearm \/ LoopEnds \/ Members \/ Wait
  \/ SetReturnCode \/ Finished \/ DisarmRun
  \/ Identify \/ Kill \/ Confirmed \/ Unconfirmed \/ Reap

Processes ==
  \/ \E h \in Helpers : Fork(h) \/ Claim(h) \/ Record(h) \/ HelperDies(h)
  \/ LeaderDies

Next == Progress \/ Fault \/ Expired \/ Alarm \/ Processes \/ Deadline \/ Cancel

Spec == Init /\ [][Next]_vars

\* The wrapper runs, its timer ticks, and time passes.  Nothing is assumed of the
\* processes it started: they may neither work, nor end, nor die when killed; and
\* a check may always succeed.
Fairness == WF_vars(Progress) /\ WF_vars(Expired) /\ WF_vars(Alarm) /\ WF_vars(Deadline)
FairSpec == Spec /\ Fairness

-----------------------------------------------------------------------------

\* A group is signalled only while its leader is unreaped and so pins the number: neither
\* a tick between the reaping wait and the assignment of its result nor a failed stop leads
\* to a signal to a number that may be another's (run, stop, stop_pinned).
SignalsArePinned == aim # "stray"

\* A manifest stands for settled records: from the moment the file exists every unit has
\* exactly one whole record, every leader is reaped, and no process of any group is left
\* that could add or change one (the descendant check of run(), the record checks of build()).
ManifestStandsForRecords ==
  manifest # None => RecordsSound /\ Alive = {} /\ leader = "reaped"

\* The call ends, whatever its children do or leave undone (the deadline, the timer and the
\* one second of stop()).
BuildEnds == <>(exit # None)

\* A failed call leaves none of its processes running unless the stop was tried and its
\* failure is part of the error: what test_deadline_shared_without_renewal and
\* test_cancellation_reaps_owned_group say of every child of a failed session.
LeftoversAreReported ==
  exit = "error" => unsure \/ (leader \in {None, "reaped"} /\ Alive = {})
=============================================================================
