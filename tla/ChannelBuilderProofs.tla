------------------------- MODULE ChannelBuilderProofs -------------------------
(***************************************************************************)
(* Proofs about the channel builder for every list of commands, every set  *)
(* of units and helpers and every number of records: a group is signalled  *)
(* only while its unreaped leader pins the number, and a manifest stands   *)
(* for settled records.                                                    *)
(***************************************************************************)
EXTENDS ChannelBuilder, TLAPS

\* A raised exception goes to a handler, never into the middle of a stop.
LEMMA RaiseGoesToHandler ==
  ASSUME pc \in InRun \cup InBuild \cup Unguarded \cup {"caught"}, Raise
  PROVE  pc' \in {"caught", "failed", "finally", "exit"}
BY DEF Raise, Handler, InRun, InBuild, Unguarded

LEMMA RaisesGoToHandler ==
  ASSUME Fault \/ Expired \/ Alarm
  PROVE  Raise /\ pc \in InRun \cup InBuild \cup Unguarded \cup {"caught"}
               /\ pc' \in {"caught", "failed", "finally", "exit"}
<1>1. Raise /\ pc \in InRun \cup InBuild \cup Unguarded \cup {"caught"}
  BY DEF Fault, Expired, Alarm, InRun, InBuild, Unguarded
<1> QED
  BY <1>1, RaiseGoesToHandler

-----------------------------------------------------------------------------
(* Signals.                                                                *)

\* Whoever is about to signal still has the leader unreaped.
PinnedInv == aim # "stray" /\ (pc = "kill" => leader # "reaped")

LEMMA PinnedInit == Init => PinnedInv
BY NoneAssumption DEF Init, PinnedInv

LEMMA PinnedStep ==
  ASSUME PinnedInv, [Next]_vars
  PROVE  PinnedInv'
<1>1. CASE Progress
  BY <1>1 DEF PinnedInv, Progress, Step, call, processes, world, Preflight, Create, Verify,
     OpenManifest, WriteManifest, LastMeasure, DisarmBuild, RecordFailure, Finally, Begin,
     DisarmSpawn, Spawn, Rearm, LoopEnds, Members, Wait, SetReturnCode, Finished, DisarmRun,
     Identify, Kill, Confirmed, Unconfirmed, Reap
<1>2. CASE Fault \/ Expired \/ Alarm
  BY <1>2, RaisesGoToHandler DEF PinnedInv, Raise, processes
<1>3. CASE Processes
  BY <1>3 DEF PinnedInv, Processes, Fork, Claim, Record, HelperDies, LeaderDies, Elsewhere
<1>4. CASE Deadline \/ Cancel
  BY <1>4 DEF PinnedInv, Deadline, Cancel, Elsewhere, processes
<1>5. CASE UNCHANGED vars
  BY <1>5 DEF PinnedInv, vars, processes
<1> QED
  BY <1>1, <1>2, <1>3, <1>4, <1>5 DEF Next

\* No group is signalled after its leader was reaped, at whatever step a tick of the timer
\* or a failed check strikes (Session.run, stop, stop_pinned).
THEOREM SignalSafety == Spec => []SignalsArePinned
<1>1. PinnedInv => SignalsArePinned
  BY DEF PinnedInv, SignalsArePinned
<1> QED
  BY PinnedInit, PinnedStep, <1>1, PTL DEF Spec

-----------------------------------------------------------------------------
(* The manifest.                                                           *)

\* The points at which the group of the last command is known to be gone, and those that
\* a call with a manifest can still reach.
Settled == {"wait", "status", "finished", "verify", "manifest"}
After == {"writing", "measure", "return", "failed", "record", "finally", "exit"}

ManifestInv ==
  /\ pc = "members" => leader = "zombie"
  /\ pc \in Settled => Alive = {} /\ leader = IF pc = "wait" THEN "zombie" ELSE "reaped"
  /\ pc = "manifest" => RecordsSound
  /\ pc = "writing" => manifest # None
  /\ manifest # None => pc \in After /\ RecordsSound /\ Alive = {} /\ leader = "reaped"

LEMMA ManifestInit == Init => ManifestInv
BY DEF Init, ManifestInv, Settled, After

\* The records and the group are what they were when neither changed.
LEMMA SameRecords ==
  ASSUME UNCHANGED <<argv, helper>>
  PROVE  (RecordsSound' <=> RecordsSound) /\ Alive' = Alive
BY DEF RecordsSound, Alive

\* With a dead leader and an empty group nothing moves in the group any more.
LEMMA DeadGroupIsStill ==
  ASSUME Alive = {}, leader \in {"zombie", "reaped"}, Processes
  PROVE  FALSE
BY NoneAssumption DEF Alive, Processes, Fork, Claim, Record, HelperDies, LeaderDies

LEMMA ManifestStep ==
  ASSUME ManifestInv, [Next]_vars
  PROVE  ManifestInv'
<1>1. CASE Preflight \/ Create \/ DisarmSpawn \/ Rearm \/ DisarmRun \/ Identify \/ Kill
           \/ Confirmed \/ Unconfirmed
  BY <1>1, SameRecords DEF ManifestInv, Step, Settled, After, call, processes,
     Preflight, Create, DisarmSpawn, Rearm, DisarmRun, Identify, Kill, Confirmed, Unconfirmed
<1>2. CASE LoopEnds \/ Members \/ SetReturnCode \/ Finished
  BY <1>2, SameRecords DEF ManifestInv, Step, Settled, After, call, processes,
     LoopEnds, Members, SetReturnCode, Finished
<1>3. CASE Verify \/ OpenManifest \/ WriteManifest
  BY <1>3, SameRecords, NoneAssumption DEF ManifestInv, Step, Settled, After, call, processes,
     Verify, OpenManifest, WriteManifest
<1>4. CASE LastMeasure \/ DisarmBuild \/ RecordFailure \/ Finally
  BY <1>4, SameRecords DEF ManifestInv, Step, Settled, After, call, processes,
     LastMeasure, DisarmBuild, RecordFailure, Finally
<1>5. CASE Begin \/ Spawn \/ Wait \/ Reap
  BY <1>5, SameRecords DEF ManifestInv, Step, Settled, After, call, Begin, Spawn, Wait, Reap
<1>6. CASE Fault \/ Expired \/ Alarm
  <2>1. Raise /\ pc' \in {"caught", "failed", "finally", "exit"}
    BY <1>6, RaisesGoToHandler
  <2>2. manifest # None => pc' \in After
    BY <1>6, RaisesGoToHandler
       DEF ManifestInv, Raise, Handler, After, InRun, InBuild, Unguarded
  <2> QED
    BY <2>1, <2>2, SameRecords DEF ManifestInv, Raise, Settled, After, processes, call
<1>7. CASE Processes
  <2>1. /\ UNCHANGED <<pc, manifest>>
        /\ leader' = leader \/ (leader = "running" /\ leader' = "zombie")
    BY <1>7 DEF Processes, Fork, Claim, Record, HelperDies, LeaderDies, Elsewhere, call
  <2>2. pc \notin Settled /\ manifest = None
    BY <1>7, DeadGroupIsStill DEF ManifestInv, Settled
  <2> QED
    BY <2>1, <2>2 DEF ManifestInv, Settled
<1>8. CASE Deadline \/ Cancel \/ UNCHANGED vars
  BY <1>8, SameRecords DEF ManifestInv, Deadline, Cancel, Elsewhere, call, processes, vars
<1> QED
  BY <1>1, <1>2, <1>3, <1>4, <1>5, <1>6, <1>7, <1>8 DEF Next, Progress

\* A manifest in the task directory stands for records that nobody can change any more,
\* with every unit compiled exactly once (the descendant check of Session.run before the
\* leader is reaped, and the record checks of build()).
THEOREM ManifestSafety == Spec => []ManifestStandsForRecords
<1>1. ManifestInv => ManifestStandsForRecords
  BY DEF ManifestInv, ManifestStandsForRecords
<1> QED
  BY ManifestInit, ManifestStep, <1>1, PTL DEF Spec
=============================================================================
