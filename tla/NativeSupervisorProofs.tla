------------------------ MODULE NativeSupervisorProofs ------------------------
(***************************************************************************)
(* For every query and all limits: the safety properties of the driver of  *)
(* the supervisor, and that it implements SolverAttempt.  The invariant is *)
(* built in layers: where the child is (Owned), what was written           *)
(* (Streamed, Paced), what a reading of the cgroup and a poll have seen    *)
(* (Seen), and what host, child and polls are like without a fault of      *)
(* somebody (Blameless).  All the steps that fail are treated alike        *)
(* (Abort), each with its cause; every other outcome of an action is a     *)
(* lemma of its own.                                                       *)
(***************************************************************************)
EXTENDS NativeSupervisor, FiniteSetTheorems, TLAPS

Early == {"Entry", "Flush", "Arm", "Query", "Complete", "Clone"}
Asking == {"Listener", "Grant", "Notice"}
Reading == {"Before", "Pids", "Procs", "After"}
Reacting == {"Control", "Child", "Output", "Stdin", "Read"}
Loop == {"Top", "Poll"} \cup Reacting
Ending == {"Cleanup", "Wait", "Return", "Exited"}

\* Where the child is, as the supervisor and as the kernel knows it.
Owned ==
  /\ ~Ok(sup) => sup.at \in Ending
  /\ sup.at \in {"Cleanup", "Wait"} => ~Ok(sup)
  /\ (host.status = "none") <=> (sup.at # "Exited")
  /\ (sup.child = "Absent") <=> (kid.state = "None")
  /\ sup.at # "Exited" => ((sup.child = "Reaped") <=> (kid.state = "Gone"))
  /\ sup.at \in Early => sup.child = "Absent"
  /\ sup.at \in Asking \cup {"Send"} => sup.child = "Running"
  /\ sup.at \in Reading \cup Loop => sup.child # "Absent"
  /\ sup.at \in Early \cup Asking => sup.grant = "Awaiting"
  /\ sup.at \in {"Send"} \cup Reading \cup Loop => sup.grant = "Consumed"
  /\ sup.at = "Return" /\ Ok(sup) => sup.child = "Reaped" /\ sup.grant = "Consumed"
  /\ sup.at = "Wait" => kid.killed
  /\ FailureKillsChild

\* A stream ends after the last of its chunks.
Ordered(k) ==
  \A i, j \in DOMAIN sup.log : sup.log[i] = Chunk[k] /\ sup.log[j] = Eof[k] => i < j

\* What the log holds, and what the flags say about it.
Streamed ==
  /\ sup.exitSent => sup.child = "Reaped" /\ sup.written = Query /\ \A k \in Streams : sup.eof[k]
  /\ sup.final => sup.exitSent
  /\ \A k \in Streams :
       /\ sup.eof[k] => sup.count[k] = kid.out[k] /\ ~kid.open[k]
       /\ Wrote(Eof[k]) <=> sup.eof[k]
       /\ Frequency(Chunk[k]) = sup.count[k]
       /\ Ordered(k)
  /\ Wrote("Final") => sup.final
  /\ sup.exitSent /\ ~sup.final => sup.log # <<>> /\ sup.log[Len(sup.log)] = "ChildExit"
  /\ sup.final =>
       /\ Len(sup.log) > 1
       /\ sup.log[Len(sup.log)] = "Final" /\ sup.log[Len(sup.log) - 1] = "ChildExit"

\* When the loop turns to the end, and how long the results of a poll are kept.
Paced ==
  /\ sup.goal = "Final" => sup.exitSent
  /\ sup.at \in Reading /\ sup.goal = "Final" => sup.left = 0 /\ ~sup.final
  /\ sup.at \notin Reacting => sup.ev = NoEvents
  /\ \A k \in sup.ev.read : ~sup.eof[k]

\* How many readings of the cgroup were begun.
Begun == 1 + (IF sup.retried THEN 1 ELSE 0) + (IF sup.goal = "Final" THEN 1 ELSE 0)

\* What the readings of the cgroup and the results of a poll have seen, fault or not.
Seen ==
  /\ kid.read <= sup.written
  /\ sup.at \in Early \cup Asking \cup {"Send"} \cup Reading =>
       sup.written = 0 \/ sup.goal = "Final"
  /\ sup.retried => sup.child = "Reaped"
  /\ sup.at \in Early \cup Asking \cup {"Send"} => ~sup.retried /\ sup.reads = 1 /\ sup.goal = "Stream"
  /\ sup.at = "Before" => sup.reads = Begun
  /\ sup.at \in (Reading \ {"Before"}) \cup Loop => sup.reads = Begun + 1
  /\ sup.at \in Loop /\ sup.goal = "Final" => sup.final
  /\ sup.at \in Reading \ {"Before"} =>
       /\ sup.before # "Absent"
       /\ sup.before = "Reaped" => sup.child = "Reaped"
       /\ sup.before = "Running" => ~sup.retried
  /\ sup.at \in {"Procs", "After"} =>
       /\ sup.before = "Reaped" => sup.pids = 1
       /\ sup.pids = 1 => kid.state = "Gone"
  /\ sup.goal = "Final" => ~sup.stdin
  /\ sup.at \in {"Poll", "Control", "Child", "Output", "Stdin"} => (sup.stdin => sup.written < Query)
  /\ sup.at \in Reacting \ {"Read"} => (sup.ev.stdin # "idle" => sup.stdin)

\* Without a fault the host is there and keeps to its script ...
HostKeeps ==
  /\ host.control /\ host.output /\ host.sent <= 3
  /\ sup.at = "Entry" => sup.left = 0
  /\ sup.at \in {"Entry", "Flush", "Arm"} => sup.used = 0
  /\ sup.at = "Query" => sup.used \in {1, 2}
  /\ sup.at \notin {"Entry", "Flush", "Arm", "Query"} \cup Ending => sup.used = 3

\* ... the child asks once, waits to be let go and reads the whole query ...
KidKeeps ==
  /\ kid.notice /\ sup.at \notin Ending =>
       kid.state = "Waiting" /\ sup.at \in {"Listener", "Grant"}
  /\ sup.at \in {"Listener", "Grant"} => kid.state \in {"Setup", "Handed", "Waiting"}
  /\ sup.at \in {"Notice", "Send"} => kid.state = "Waiting"
  /\ sup.at \in Reading \cup Loop => kid.state \in {"Running", "Dying", "Exited", "Gone"}
  /\ kid.state \in {"Dying", "Exited"} \/ sup.child = "Reaped" \/ ~kid.stdin => kid.read = Query
  /\ \A k \in Streams : kid.out[k] <= Limits[k]
  /\ sup.at = "After" =>
       /\ sup.before = "Reaped" => ~sup.listed
       /\ ~sup.listed => kid.state \in {"Exited", "Gone"}

\* ... and a poll reports no more than that.
PollKeeps ==
  /\ sup.ev.control = "idle" /\ sup.ev.output # "bad" /\ sup.ev.listener # "read"
  /\ sup.ev.listener = "hup" => kid.state \in {"Dying", "Exited", "Gone"}
  /\ sup.at \in Reacting => sup.ev.stdin # "bad"

Blameless == HostKeeps /\ KidKeeps /\ PollKeeps

IInv ==
  /\ TypeOK
  /\ Owned
  /\ Streamed
  /\ Paced
  /\ Seen
  /\ fault \/ Blameless

\* The step leaves the log, what is known of the streams and what the child wrote alone.
Quiet ==
  /\ sup'.log = sup.log /\ sup'.count = sup.count /\ sup'.eof = sup.eof
  /\ sup'.exitSent = sup.exitSent /\ sup'.final = sup.final
  /\ sup.written = Query => sup'.written = Query
  /\ sup.child = "Reaped" => sup'.child = "Reaped"
  /\ kid'.out = kid.out /\ kid'.open = kid.open

\* The child, known to the supervisor as c after the step, is left where it is, goes on or
\* is reaped; its pipes and what it read and wrote do not change.
Follows(c) ==
  /\ kid' \in Kids
  /\ kid'.read = kid.read /\ kid'.stdin = kid.stdin
  /\ kid'.out = kid.out /\ kid'.open = kid.open
  /\ kid'.state \in {"Dying", "Exited"} => kid'.state = kid.state
  /\ \/ /\ c = sup.child
        /\ \/ kid'.state = kid.state
           \/ kid.state \notin {"None", "Gone"} /\ kid'.state \notin {"None", "Gone"}
     \/ /\ sup.child = "Running" /\ kid.state = "Exited"
        /\ c = "Reaped" /\ kid'.state = "Gone"

SameTalk(s, t) == t.taken = s.taken /\ t.used = s.used

SameStreams(s, t) ==
  /\ t.log = s.log /\ t.left = s.left /\ t.written = s.written /\ t.stdin = s.stdin
  /\ t.count = s.count /\ t.eof = s.eof /\ t.exitSent = s.exitSent /\ t.final = s.final

SameReading(s, t) ==
  /\ t.reads = s.reads /\ t.retried = s.retried /\ t.goal = s.goal
  /\ t.before = s.before /\ t.pids = s.pids /\ t.listed = s.listed

\* t is s but for its place, its error and what it knows of the child and of a poll.
Same(s, t) ==
  SameTalk(s, t) /\ SameStreams(s, t) /\ SameReading(s, t) /\ t.grant = s.grant

\* s is the supervisor but for what a step may have done before it fails.
Near(s) ==
  /\ s \in Supervisors
  /\ s.used <= s.taken /\ s.taken <= host.sent
  /\ s.goal \in {sup.goal, "Stream"} /\ (s.stdin => sup.stdin)
  /\ s.grant = sup.grant /\ s.retried = sup.retried /\ s.written = sup.written
  /\ s.log = sup.log /\ s.count = sup.count /\ s.eof = sup.eof
  /\ s.exitSent = sup.exitSent /\ s.final = sup.final

\* What may fail an attempt: somebody, the deadline, or a child seen halfway through its exit.
Excused == fault' \/ sup'.error = "Deadline" \/ SeenHalfwayOut

\* The step fails, and for one of these reasons.
Abort ==
  /\ sup.at \notin Ending
  /\ Near(sup') /\ Follows(sup'.child)
  /\ sup'.at = "Cleanup" /\ sup'.error \in Errors /\ sup'.ev = NoEvents
  /\ UNCHANGED <<host, late>> /\ fault' \in BOOLEAN /\ (fault => fault')
  /\ Excused

\* The step consumes no grant and judges nothing; neither a failure nor a reaping is undone,
\* and a failure has its cause.
Steady ==
  /\ sup'.grant = sup.grant /\ host'.status = host.status
  /\ sup.child = "Reaped" => sup'.child = "Reaped"
  /\ ~Ok(sup) => ~Ok(sup)'
  /\ Ok(sup) /\ ~Ok(sup)' => Excused
  /\ sup.at = "Exited" => sup' = sup

-----------------------------------------------------------------------------
(* Steps that fail                                                          *)

\* Nothing is known of a poll that was not made.
LEMMA NoEventsFacts ==
  /\ NoEvents \in Polled
  /\ NoEvents.control = "idle" /\ NoEvents.pid = FALSE /\ NoEvents.listener = "idle"
  /\ NoEvents.output = "idle" /\ NoEvents.stdin = "idle" /\ NoEvents.read = {}
BY DEF NoEvents, Polled

\* What was written and read stays true while neither changes.
LEMMA QuietKeepsStreamed ==
  ASSUME Streamed, Quiet
  PROVE  Streamed'
BY DEF Streamed, Quiet, Wrote, Frequency, Ordered

\* An attempt that fails keeps the invariant.
LEMMA AbortKeeps ==
  ASSUME IInv, Abort
  PROVE  IInv' /\ Steady
<1>1. Ok(sup) /\ ~Ok(sup)'
  BY NativeAssumption DEF IInv, Owned, Abort, Ok
<1>2. TypeOK'
  BY DEF IInv, TypeOK, Abort, Near, Follows
<1>3. Owned'
  BY <1>1 DEF IInv, Owned, FailureKillsChild, Abort, Follows, Early, Asking, Reading, Reacting,
             Loop, Ending
<1>4. Streamed'
  <2>1. Quiet
    BY DEF Abort, Near, Follows, Quiet
  <2> QED BY <2>1, QuietKeepsStreamed DEF IInv
<1>5. Paced'
  BY NoEventsFacts DEF IInv, Paced, Abort, Near, Reading, Reacting
<1>6. Seen'
  BY DEF IInv, Seen, Abort, Near, Follows, Early, Asking, Reading, Reacting, Loop
<1>7. ASSUME ~fault' PROVE Blameless'
  BY <1>7, NoEventsFacts
     DEF IInv, Blameless, HostKeeps, KidKeeps, PollKeeps, Abort, Near, Follows, Reading,
         Reacting, Loop, Ending
<1>8. Steady
  BY <1>1 DEF Steady, Abort, Near, Follows, Ending
<1> QED BY <1>2, <1>3, <1>4, <1>5, <1>6, <1>7, <1>8 DEF IInv

\* A failure changes the place, the error and the results of the poll.
LEMMA FailFacts ==
  ASSUME NEW s \in Supervisors, NEW e \in Errors
  PROVE  /\ Fail(s, e) \in Supervisors /\ Same(s, Fail(s, e))
         /\ Fail(s, e).at = "Cleanup" /\ Fail(s, e).error = e /\ Fail(s, e).ev = NoEvents
         /\ Fail(s, e).child = s.child
<1> DEFINE none == NoEvents
<1>1. none \in Polled /\ "Cleanup" \in Places
  BY NoEventsFacts DEF Places
<1> HIDE DEF none
<1>2. Fail(s, e) = [s EXCEPT !.at = "Cleanup", !.error = e, !.ev = none]
  BY DEF Fail, none
<1>3. Fail(s, e) \in Supervisors
  BY <1>1, <1>2 DEF Supervisors
<1>4. Same(s, Fail(s, e))
  BY <1>2 DEF Supervisors, Same, SameTalk, SameStreams, SameReading
<1>5. /\ Fail(s, e).at = "Cleanup" /\ Fail(s, e).error = e /\ Fail(s, e).ev = none
      /\ Fail(s, e).child = s.child
  BY <1>2 DEF Supervisors
<1> QED BY <1>3, <1>4, <1>5 DEF none

\* A step may fail with whatever it did before.
LEMMA FailKeeps ==
  ASSUME IInv, sup.at \notin Ending,
         NEW s, Near(s), Follows(s.child),
         NEW e \in Errors, sup' = Fail(s, e),
         UNCHANGED <<host, late>>, fault' \in BOOLEAN, fault => fault',
         fault' \/ e = "Deadline" \/ SeenHalfwayOut
  PROVE  IInv' /\ Steady
<1>1. /\ sup' \in Supervisors /\ Same(s, sup')
      /\ sup'.at = "Cleanup" /\ sup'.error = e /\ sup'.ev = NoEvents
      /\ sup'.child = s.child
  BY FailFacts DEF Near
<1>2. Near(sup')
  BY <1>1 DEF Near, Same, SameTalk, SameStreams, SameReading
<1>3. Excused
  BY <1>1 DEF Excused
<1>4. Abort
  BY <1>1, <1>2, <1>3 DEF Abort
<1> QED BY <1>4, AbortKeeps

\* Nothing but the supervisor changes when it fails between two calls.
LEMMA LocalFail ==
  ASSUME IInv, sup.at \notin Ending, NEW e \in Errors, Local(Fail(sup, e)),
         fault \/ e = "Deadline"
  PROVE  IInv' /\ Steady
<1>1. Near(sup)
  BY DEF IInv, TypeOK, Near
<1>2. Follows(sup.child) /\ UNCHANGED <<host, late, fault>> /\ fault' \in BOOLEAN
  BY DEF IInv, TypeOK, Local, Follows
<1>3. sup' = Fail(sup, e)
  BY DEF Local
<1> QED BY <1>1, <1>2, <1>3, FailKeeps

-----------------------------------------------------------------------------
(* READY, ARM and the query                                                 *)

\* Before its end an attempt has not failed.
LEMMA NotFailed ==
  ASSUME IInv, sup.at \notin Ending
  PROVE  Ok(sup) /\ sup.error = None /\ host.status = "none"
BY DEF IInv, Owned, Ok, Ending

\* Going on to another place changes nothing else.
LEMMA GotoFacts ==
  ASSUME NEW s \in Supervisors, NEW place \in Places
  PROVE  LET t == Goto(s, place) IN
         /\ t \in Supervisors /\ Same(s, t)
         /\ t.at = place /\ t.error = s.error /\ t.child = s.child /\ t.ev = s.ev
<1>1. Goto(s, place) \in Supervisors
  BY DEF Goto, Supervisors
<1>2. Same(s, Goto(s, place))
  BY DEF Goto, Supervisors, Same, SameTalk, SameStreams, SameReading
<1> QED BY <1>1, <1>2 DEF Goto, Supervisors

\* A deadline that has passed fails an attempt; one ahead leaves it alone.
LEMMA CheckedFacts ==
  ASSUME NEW s, Ok(s)
  PROVE  /\ late => Checked(s) = Fail(s, "Deadline")
         /\ ~late => Checked(s) = s
BY DEF Checked

Occurrences(log, f) == Cardinality({i \in DOMAIN log : log[i] = f})

\* A log that grows by one frame: it is the last, and the others stay in place.
LEMMA AppendFacts ==
  ASSUME NEW log \in Seq(Frames), NEW g \in Frames, NEW grown, grown = Append(log, g)
  PROVE  /\ grown \in Seq(Frames) /\ grown # <<>> /\ Len(grown) = Len(log) + 1
         /\ grown[Len(grown)] = g
         /\ \A i \in DOMAIN log : i \in DOMAIN grown /\ grown[i] = log[i] /\ i < Len(grown)
         /\ \A i \in DOMAIN grown : i \in DOMAIN log \/ i = Len(grown)
<1>1. grown \in Seq(Frames) /\ Len(grown) = Len(log) + 1 /\ Len(log) \in Nat
  OBVIOUS
<1>2. grown # <<>> /\ DOMAIN grown = 1 .. Len(log) + 1 /\ DOMAIN log = 1 .. Len(log)
  BY <1>1
<1>3. grown[Len(log) + 1] = g /\ \A i \in 1 .. Len(log) : grown[i] = log[i]
  OBVIOUS
<1> QED BY <1>1, <1>2, <1>3

\* It holds that frame once more ...
LEMMA OccurrenceFacts ==
  ASSUME NEW log \in Seq(Frames), NEW g \in Frames, NEW grown, grown = Append(log, g)
  PROVE  Occurrences(grown, g) = Occurrences(log, g) + 1
<1> DEFINE before == {i \in DOMAIN log : log[i] = g}
           after == {i \in DOMAIN grown : grown[i] = g}
<1>1. IsFiniteSet(before)
  <2>1. before \subseteq 1 .. Len(log) /\ Len(log) \in Int
    OBVIOUS
  <2> QED BY <2>1, FS_Interval, FS_Subset
<1>2. after = before \cup {Len(grown)} /\ Len(grown) \notin before
  BY AppendFacts
<1>3. Cardinality(after) = Cardinality(before) + 1
  BY <1>1, <1>2, FS_AddElement
<1> QED BY <1>3 DEF Occurrences

\* ... and every other as often as before.
LEMMA OtherOccurrences ==
  ASSUME NEW log \in Seq(Frames), NEW g \in Frames, NEW f \in Frames \ {g},
         NEW grown, grown = Append(log, g)
  PROVE  Occurrences(grown, f) = Occurrences(log, f)
<1>1. {i \in DOMAIN grown : grown[i] = f} = {i \in DOMAIN log : log[i] = f}
  BY AppendFacts
<1> QED BY <1>1 DEF Occurrences

\* What a frame that is queued does to the log.
LEMMA GrownFacts ==
  ASSUME TypeOK, NEW g \in Frames, sup'.log = Append(sup.log, g)
  PROVE  /\ \A f : Wrote(f)' <=> (Wrote(f) \/ f = g)
         /\ \A f \in Frames : f # g => Frequency(f)' = Frequency(f)
         /\ Frequency(g)' = Frequency(g) + 1
         /\ \A k \in Streams : Ordered(k) /\ (g = Chunk[k] => ~Wrote(Eof[k])) => Ordered(k)'
         /\ sup'.log # <<>> /\ Len(sup'.log) = Len(sup.log) + 1 /\ sup'.log[Len(sup'.log)] = g
         /\ sup.log # <<>> =>
              Len(sup.log) > 0 /\ sup'.log[Len(sup'.log) - 1] = sup.log[Len(sup.log)]
<1> DEFINE log == sup.log
           grown == sup'.log
<1>0. log \in Seq(Frames) /\ Len(log) \in Nat
  BY DEF TypeOK, Supervisors
<1>1. /\ grown \in Seq(Frames) /\ grown # <<>> /\ Len(grown) = Len(log) + 1
      /\ grown[Len(grown)] = g
      /\ \A i \in DOMAIN log : i \in DOMAIN grown /\ grown[i] = log[i] /\ i < Len(grown)
      /\ \A i \in DOMAIN grown : i \in DOMAIN log \/ i = Len(grown)
  BY <1>0, AppendFacts
<1>2. Len(grown) \in DOMAIN grown
  BY <1>0, <1>1
<1>3. ASSUME NEW f PROVE Wrote(f)' <=> (Wrote(f) \/ f = g)
  <2> HIDE DEF log, grown
  <2>1. (\E i \in DOMAIN grown : grown[i] = f) <=> ((\E i \in DOMAIN log : log[i] = f) \/ f = g)
    BY <1>1, <1>2
  <2> QED BY <2>1 DEF Wrote, log, grown
<1>4. /\ \A f \in Frames : f # g => Frequency(f)' = Frequency(f)
      /\ Frequency(g)' = Frequency(g) + 1
  <2>1. grown = Append(log, g)
    OBVIOUS
  <2> HIDE DEF log, grown
  <2>2. Occurrences(grown, g) = Occurrences(log, g) + 1
    BY <1>0, <2>1, OccurrenceFacts
  <2>3. ASSUME NEW f \in Frames \ {g} PROVE Occurrences(grown, f) = Occurrences(log, f)
    BY <1>0, <2>1, OtherOccurrences
  <2>4. Frequency(g) = Occurrences(log, g) /\ Frequency(g)' = Occurrences(grown, g)
    BY DEF Frequency, Occurrences, log, grown
  <2>5. ASSUME NEW f \in Frames \ {g}
        PROVE  Frequency(f) = Occurrences(log, f) /\ Frequency(f)' = Occurrences(grown, f)
    BY DEF Frequency, Occurrences, log, grown
  <2>6. ASSUME NEW f \in Frames \ {g} PROVE Frequency(f)' = Frequency(f)
    BY <2>3, <2>5
  <2> QED BY <2>2, <2>4, <2>6
<1>5. ASSUME NEW k \in Streams, Ordered(k), g = Chunk[k] => ~Wrote(Eof[k])
      PROVE  Ordered(k)'
  <2>0. Chunk[k] # Eof[k]
    BY DEF Chunk, Eof, Streams
  <2>1. ASSUME NEW i \in DOMAIN grown, NEW j \in DOMAIN grown,
               grown[i] = Chunk[k], grown[j] = Eof[k]
        PROVE  i < j
    <3>1. CASE i \in DOMAIN log /\ j \in DOMAIN log
      BY <1>1, <1>5, <2>1, <3>1 DEF Ordered
    <3>2. CASE i \in DOMAIN log /\ j = Len(grown)
      BY <1>1, <3>2
    <3>3. CASE i = Len(grown) /\ j \in DOMAIN log
      BY <1>1, <1>5, <2>1, <3>3 DEF Wrote
    <3>4. CASE i = Len(grown) /\ j = Len(grown)
      BY <2>0, <2>1, <3>4
    <3> QED BY <1>1, <3>1, <3>2, <3>3, <3>4
  <2> QED BY <2>1 DEF Ordered
<1>6. log # <<>> => Len(log) > 0 /\ grown[Len(grown) - 1] = log[Len(log)]
  <2>1. ASSUME log # <<>> PROVE Len(log) > 0 /\ Len(log) \in DOMAIN log
    BY <1>0, <2>1
  <2>2. Len(grown) - 1 = Len(log)
    BY <1>0, <1>1
  <2> HIDE DEF log, grown
  <2> QED BY <1>1, <2>1, <2>2
<1> QED BY <1>1, <1>3, <1>4, <1>5, <1>6

LEMMA SendReadyKeeps ==
  ASSUME IInv, SendReady
  PROVE  IInv' /\ Steady
<1>1. sup.at = "Entry" /\ sup.at \notin Ending
  BY DEF SendReady, At, Ending
<1>2. Ok(sup) /\ sup \in Supervisors
  BY <1>1, NotFailed DEF IInv, TypeOK
<1>3. CASE late
  <2>1. Checked(sup) = Fail(sup, "Deadline") /\ ~Ok(Fail(sup, "Deadline")) /\ "Deadline" \in Errors
    BY <1>2, <1>3, CheckedFacts, FailFacts, NativeAssumption DEF Ok, Errors
  <2> QED BY <1>1, <1>3, <2>1, LocalFail DEF SendReady
<1>4. CASE ~late /\ sup.left # 0
  <2>1. Push(sup, "Ready") = Fail(sup, "Wire") /\ ~Ok(Fail(sup, "Wire")) /\ "Wire" \in Errors
    BY <1>2, <1>4, FailFacts, NativeAssumption DEF Ok, Errors, Push
  <2>2. Local(Fail(sup, "Wire"))
    BY <1>2, <1>4, <2>1, CheckedFacts DEF SendReady, Then
  <2>3. fault
    BY <1>1, <1>4 DEF IInv, Blameless, HostKeeps
  <2> QED BY <1>1, <2>1, <2>2, <2>3, LocalFail
<1>5. CASE ~late /\ sup.left = 0
  <2> DEFINE grown == Append(sup.log, "Ready")
  <2>1. /\ sup' = [sup EXCEPT !.log = grown, !.left = FrameUnits, !.at = "Flush"]
        /\ UNCHANGED <<kid, host, late, fault>>
    BY <1>2, <1>5, CheckedFacts DEF SendReady, Local, Then, Goto, Push, Ok, Supervisors
  <2>2. "Ready" \in Frames /\ "Flush" \in Places /\ FrameUnits \in 0 .. FrameUnits
    BY DEF Frames, Places, FrameUnits
  <2>11. grown \in Seq(Frames)
    BY <1>2, <2>2 DEF Supervisors
  <2> HIDE DEF grown
  <2>3. /\ sup' \in Supervisors /\ sup'.log = grown /\ sup'.left = FrameUnits
        /\ sup'.at = "Flush" /\ sup'.error = sup.error /\ sup'.child = sup.child
        /\ sup'.grant = sup.grant /\ sup'.ev = sup.ev
        /\ SameTalk(sup, sup') /\ SameReading(sup, sup')
        /\ sup'.written = sup.written /\ sup'.stdin = sup.stdin /\ sup'.count = sup.count
        /\ sup'.eof = sup.eof /\ sup'.exitSent = sup.exitSent /\ sup'.final = sup.final
    BY <1>2, <2>1, <2>2, <2>11 DEF Supervisors, SameTalk, SameReading
  <2>4. TypeOK'
    BY <2>1, <2>3 DEF IInv, TypeOK, SameTalk
  <2>5. Owned'
    BY <1>1, <2>1, <2>3 DEF IInv, Owned, FailureKillsChild, Ok, Early, Asking, Reading, Reacting,
                            Loop, Ending
  <2>6. Streamed'
    <3>1. \A k \in Streams : /\ "Ready" \notin {Chunk[k], Eof[k], "Final"}
                             /\ {Chunk[k], Eof[k]} \subseteq Frames
      BY DEF Chunk, Eof, Streams, Frames
    <3>2. ~sup.exitSent /\ ~sup.final
      BY <1>1 DEF IInv, Owned, Streamed, Early
    <3>3. sup'.log = Append(sup.log, "Ready")
      BY <2>3 DEF grown
    <3> QED BY <2>1, <2>2, <2>3, <3>1, <3>2, <3>3, GrownFacts DEF IInv, Streamed
  <2>7. Paced'
    BY <1>1, <2>3 DEF IInv, Paced, Reading, Reacting, SameReading
  <2>8. Seen'
    BY <1>1, <2>1, <2>3 DEF IInv, Seen, Early, Asking, Reading, Reacting, Loop, SameReading
  <2>9. ~fault' => Blameless'
    BY <1>1, <2>1, <2>3
       DEF IInv, Blameless, HostKeeps, KidKeeps, PollKeeps, Ok, Reading, Reacting, Loop, Ending,
           SameTalk
  <2>10. Steady
    BY <1>1, <2>1, <2>3 DEF Steady, Ok
  <2> QED BY <2>4, <2>5, <2>6, <2>7, <2>8, <2>9, <2>10 DEF IInv
<1> QED BY <1>3, <1>4, <1>5

LEMMA FlushKeeps ==
  ASSUME IInv, Flush
  PROVE  IInv' /\ Steady
<1>1. sup.at = "Flush" /\ sup.at \notin Ending /\ sup \in Supervisors
  BY DEF Flush, At, Ending, IInv, TypeOK
<1>2. CASE Local(Goto(sup, "Arm"))
  <2>1. /\ sup' \in Supervisors /\ Same(sup, sup') /\ sup'.at = "Arm"
        /\ sup'.error = sup.error /\ sup'.child = sup.child /\ sup'.ev = sup.ev
        /\ UNCHANGED <<kid, host, late, fault>>
    BY <1>1, <1>2, GotoFacts DEF Local, Places
  <2>2. TypeOK' /\ Owned' /\ Paced' /\ Seen' /\ Steady
    BY <1>1, <2>1
       DEF IInv, TypeOK, Owned, FailureKillsChild, Ok, Paced, Seen, Begun, Steady, Early,
           Asking, Reading, Reacting, Loop, Ending, Same, SameTalk, SameStreams, SameReading
  <2>3. Streamed'
    BY <1>1, <2>1, QuietKeepsStreamed
       DEF IInv, Quiet, Same, SameStreams
  <2>4. ~fault' => Blameless'
    BY <1>1, <2>1
       DEF IInv, Blameless, HostKeeps, KidKeeps, PollKeeps, Ok, Reading, Reacting, Loop,
           Ending, Same, SameTalk, SameStreams, SameReading
  <2> QED BY <2>2, <2>3, <2>4 DEF IInv

<1>3. CASE late /\ Local(Fail(sup, "Deadline"))
  BY <1>1, <1>3, LocalFail DEF Errors
<1>4. CASE ~(host.control /\ host.output) /\ Local(Fail(sup, "ControlLost"))
  BY <1>1, <1>4, LocalFail DEF Errors, IInv, Blameless, HostKeeps, KidKeeps
<1>5. ASSUME NEW n \in 1 .. sup.left, Local([sup EXCEPT !.left = @ - n])
      PROVE  IInv' /\ Steady
  <2>1. sup.left - n \in 0 .. FrameUnits
    BY <1>1 DEF Supervisors, FrameUnits
  <2>2. /\ sup' \in Supervisors /\ sup'.at = "Flush"
        /\ SameTalk(sup, sup') /\ SameReading(sup, sup') /\ sup'.grant = sup.grant
        /\ sup'.log = sup.log /\ sup'.written = sup.written /\ sup'.stdin = sup.stdin
        /\ sup'.count = sup.count /\ sup'.eof = sup.eof /\ sup'.exitSent = sup.exitSent
        /\ sup'.final = sup.final
        /\ sup'.error = sup.error /\ sup'.child = sup.child /\ sup'.ev = sup.ev
    BY <1>1, <1>5, <2>1 DEF Local, Supervisors, SameTalk, SameReading
  <2>3. UNCHANGED <<kid, host, late, fault>>
    BY <1>5 DEF Local
  <2>4. TypeOK' /\ Owned' /\ Paced' /\ Seen' /\ Steady
    BY <1>1, <2>2, <2>3
       DEF IInv, TypeOK, Owned, FailureKillsChild, Ok, Paced, Seen, Begun, Steady, Early,
           Asking, Reading, Reacting, Loop, Ending, Same, SameTalk, SameStreams, SameReading
  <2>5. Streamed'
    BY <1>1, <2>2, <2>3, QuietKeepsStreamed
       DEF IInv, Quiet, Same, SameStreams
  <2>6. ~fault' => Blameless'
    BY <1>1, <2>2, <2>3
       DEF IInv, Blameless, HostKeeps, KidKeeps, PollKeeps, Ok, Reading, Reacting, Loop,
           Ending, Same, SameTalk, SameStreams, SameReading
  <2> QED BY <2>4, <2>5, <2>6 DEF IInv

<1> QED BY <1>2, <1>3, <1>4, <1>5 DEF Flush

LEMMA ControlFailsKeeps ==
  ASSUME IInv, ControlFails
  PROVE  IInv' /\ Steady
<1>1. sup.at \notin Ending
  BY DEF ControlFails, Ending
<1>2. CASE late /\ Local(Fail(sup, "Deadline"))
  BY <1>1, <1>2, LocalFail DEF Errors
<1>3. CASE ~host.control /\ Local(Fail(sup, "ControlLost"))
  BY <1>1, <1>3, LocalFail DEF Errors, IInv, Blameless, HostKeeps, KidKeeps
<1> QED BY <1>2, <1>3 DEF ControlFails

\* A message that is taken leaves everything else alone.
LEMMA NextControlFacts ==
  ASSUME IInv, Arriving
  PROVE  /\ NextControl \in Supervisors
         /\ SameStreams(sup, NextControl) /\ SameReading(sup, NextControl)
         /\ NextControl.at = sup.at /\ NextControl.error = sup.error
         /\ NextControl.child = sup.child /\ NextControl.grant = sup.grant
         /\ NextControl.ev = sup.ev
         /\ NextControl.used = sup.used + 1 /\ NextControl.used <= NextControl.taken
         /\ NextControl.taken <= host.sent
<1>1. sup \in Supervisors /\ host.sent \in 0 .. 4 /\ sup.used <= sup.taken /\ sup.taken <= host.sent
  BY DEF IInv, TypeOK, Hosts
<1>2. sup.used \in 0 .. 4 /\ sup.taken \in 0 .. 4
  BY <1>1 DEF Supervisors
<1>3. CASE HasBytes(sup)
  <2>1. NextControl = [sup EXCEPT !.used = @ + 1] /\ sup.used < sup.taken
    BY <1>3 DEF NextControl, HasBytes
  <2>2. sup.used + 1 \in 0 .. 4 /\ sup.used + 1 <= sup.taken
    BY <1>2, <2>1
  <2> QED BY <1>1, <1>2, <2>1, <2>2 DEF Supervisors, SameStreams, SameReading
<1>4. CASE ~HasBytes(sup)
  <2>1. NextControl = [sup EXCEPT !.taken = host.sent, !.used = @ + 1]
        /\ ~(sup.used < sup.taken) /\ sup.taken < host.sent
    BY <1>1, <1>2, <1>4 DEF NextControl, HasBytes, Arriving
  <2>2. sup.used + 1 \in 0 .. 4 /\ sup.used + 1 <= host.sent /\ host.sent <= host.sent
    BY <1>1, <1>2, <2>1
  <2> QED BY <1>1, <1>2, <2>1, <2>2 DEF Supervisors, SameStreams, SameReading
<1> QED BY <1>3, <1>4

LEMMA ReceiveArmKeeps ==
  ASSUME IInv, ReceiveArm
  PROVE  IInv' /\ Steady
<1> DEFINE s == NextControl
<1>1. sup.at = "Arm" /\ sup.at \notin Ending /\ UNCHANGED <<kid, host, late>> /\ fault \in BOOLEAN
  BY DEF ReceiveArm, At, Ending, IInv, TypeOK
<1>2. /\ s \in Supervisors /\ SameStreams(sup, s) /\ SameReading(sup, s)
      /\ s.at = sup.at /\ s.error = sup.error /\ s.child = sup.child /\ s.grant = sup.grant
      /\ s.ev = sup.ev
      /\ s.used = sup.used + 1 /\ s.used <= s.taken /\ s.taken <= host.sent
  BY NextControlFacts DEF ReceiveArm
<1> HIDE DEF s
<1>3. PICK accepted \in BOOLEAN :
        /\ sup' = IF accepted THEN Goto(s, "Query") ELSE Fail(s, "Handshake")
        /\ fault' = (fault \/ ~accepted)
  BY DEF ReceiveArm, s
<1>4. CASE accepted
  <2>1. sup' = Goto(s, "Query") /\ fault' = fault
    BY <1>1, <1>3, <1>4
  <2>2. /\ sup' \in Supervisors /\ sup'.at = "Query" /\ Same(s, sup')
        /\ sup'.error = sup.error /\ sup'.child = sup.child /\ sup'.ev = sup.ev
        /\ sup'.grant = sup.grant /\ fault' = fault
    BY <1>2, <2>1, GotoFacts DEF Places, Same
  <2>3. TypeOK' /\ Owned' /\ Paced' /\ Seen' /\ Steady
    BY <1>1, <1>2, <2>2
       DEF IInv, TypeOK, Owned, FailureKillsChild, Ok, Paced, Seen, Begun, Steady, Early,
           Asking, Reading, Reacting, Loop, Ending, Same, SameTalk, SameStreams, SameReading
  <2>4. Streamed'
    BY <1>1, <1>2, <2>2, QuietKeepsStreamed
       DEF IInv, Quiet, Same, SameStreams
  <2>5. ~fault' => Blameless /\ sup'.used = 1
    <3>1. ~fault' => Blameless
      BY <2>2 DEF IInv
    <3>2. Blameless => sup.used = 0
      BY <1>1 DEF Blameless, HostKeeps, KidKeeps
    <3>3. sup'.used = s.used
      BY <2>2 DEF Same, SameTalk
    <3>4. sup.used = 0 => s.used = 1
      BY <1>2
    <3> QED BY <3>1, <3>2, <3>3, <3>4
  <2>6. ~fault' => Blameless'
    BY <1>1, <1>2, <2>2, <2>5
       DEF IInv, Blameless, HostKeeps, KidKeeps, PollKeeps, Ok, Reading, Reacting, Loop,
           Ending, Same, SameTalk, SameStreams, SameReading
  <2> QED BY <2>3, <2>4, <2>6 DEF IInv

<1>5. CASE ~accepted
  <2>1. sup' = Fail(s, "Handshake") /\ fault' /\ fault' \in BOOLEAN /\ "Handshake" \in Errors
    BY <1>1, <1>3, <1>5 DEF Errors
  <2>2. Near(s)
    BY <1>2 DEF Near, SameStreams, SameReading
  <2>3. Follows(s.child)
    BY <1>1, <1>2 DEF Follows, IInv, TypeOK
  <2> QED BY <1>1, <2>1, <2>2, <2>3, FailKeeps
<1> QED BY <1>4, <1>5

LEMMA ReceiveQueryKeeps ==
  ASSUME IInv, ReceiveQuery
  PROVE  IInv' /\ Steady
<1> DEFINE s == NextControl
<1>1. sup.at = "Query" /\ sup.at \notin Ending /\ UNCHANGED <<kid, host, late, fault>>
  BY DEF ReceiveQuery, At, Ending, Local
<1>2. /\ s \in Supervisors /\ SameStreams(sup, s) /\ SameReading(sup, s)
      /\ s.at = sup.at /\ s.error = sup.error /\ s.child = sup.child /\ s.grant = sup.grant
      /\ s.ev = sup.ev
  BY NextControlFacts DEF ReceiveQuery
<1>3. s.used = sup.used + 1 /\ s.used <= s.taken /\ s.taken <= host.sent
  BY NextControlFacts DEF ReceiveQuery
<1> DEFINE end == Messages[s.used] = "QueryEnd"
<1>4. sup' = IF end THEN Goto(s, "Complete") ELSE s
  BY DEF ReceiveQuery, Local
<1>5. /\ sup' \in Supervisors /\ sup'.at = (IF end THEN "Complete" ELSE "Query")
      /\ sup'.error = sup.error /\ sup'.child = sup.child /\ sup'.ev = sup.ev
      /\ sup'.grant = sup.grant /\ SameStreams(sup, sup') /\ SameReading(sup, sup')
      /\ SameTalk(s, sup')
  <2> HIDE DEF s, end
  <2>1. CASE end
    <3>1. LET t == Goto(s, "Complete") IN
          /\ t \in Supervisors /\ Same(s, t)
          /\ t.at = "Complete" /\ t.error = s.error /\ t.child = s.child /\ t.ev = s.ev
      BY <1>2, GotoFacts DEF Places
    <3> QED BY <1>2, <1>4, <2>1, <3>1 DEF Same, SameStreams, SameReading
  <2>2. CASE ~end
    BY <1>1, <1>2, <1>4, <2>2 DEF SameTalk
  <2> QED BY <2>1, <2>2
<1>6. ~fault' => Blameless /\ sup'.used = (IF end THEN 3 ELSE 2)
  <2>1. ~fault' => Blameless
    BY <1>1 DEF IInv
  <2>2. Blameless => sup.used \in {1, 2}
    BY <1>1 DEF Blameless, HostKeeps, KidKeeps
  <2>3. sup'.used = s.used
    BY <1>5 DEF SameTalk
  <2>4. sup.used \in {1, 2} => s.used \in {2, 3}
    BY <1>3
  <2>5. Messages[2] # "QueryEnd" /\ Messages[3] = "QueryEnd"
    BY DEF Messages
  <2>6. s.used \in {2, 3} => s.used = (IF end THEN 3 ELSE 2)
    BY <2>5
  <2> QED BY <2>1, <2>2, <2>3, <2>4, <2>6
<1>7. sup'.used <= sup'.taken /\ sup'.taken <= host.sent
  BY <1>3, <1>5 DEF SameTalk
<1> HIDE DEF s, end
<1>8. TypeOK' /\ Owned' /\ Paced' /\ Seen' /\ Steady
  BY <1>1, <1>5, <1>7
     DEF IInv, TypeOK, Owned, FailureKillsChild, Ok, Paced, Seen, Begun, Steady, Early,
         Asking, Reading, Reacting, Loop, Ending, Same, SameTalk, SameStreams, SameReading
<1>9. Streamed'
  BY <1>1, <1>5, QuietKeepsStreamed
     DEF IInv, Quiet, Same, SameStreams
<1>10. ~fault' => Blameless'
  BY <1>1, <1>5, <1>6
     DEF IInv, Blameless, HostKeeps, KidKeeps, PollKeeps, Ok, Reading, Reacting, Loop,
         Ending, Same, SameTalk, SameStreams, SameReading
<1> QED BY <1>8, <1>9, <1>10 DEF IInv

\* An attempt may fail with nothing else changed.
LEMMA PlainFail ==
  ASSUME IInv, sup.at \notin Ending, NEW e \in Errors, sup' = Fail(sup, e),
         UNCHANGED <<kid, host, late>>, fault' \in BOOLEAN, fault => fault',
         fault' \/ e = "Deadline" \/ SeenHalfwayOut
  PROVE  IInv' /\ Steady
<1>1. Near(sup) /\ Follows(sup.child)
  BY DEF IInv, TypeOK, Near, Follows
<1> QED BY <1>1, FailKeeps

\* After the query a host that keeps to the protocol is silent, and its connection open.
LEMMA NoControlFacts ==
  ASSUME IInv, sup.at \notin {"Entry", "Flush", "Arm", "Query"} \cup Ending
  PROVE  /\ ~fault => host.control /\ ~HasBytes(sup) /\ ~(host.sent > sup.taken)
         /\ \/ NoControl(sup) = sup
            \/ fault /\ \E e \in Errors : NoControl(sup) = Fail(sup, e)
<1>1. ~fault => host.control /\ host.sent <= 3 /\ sup.used = 3
  BY DEF IInv, Blameless, HostKeeps, KidKeeps
<1>2. /\ sup.used \in 0 .. 4 /\ sup.taken \in 0 .. 4 /\ host.sent \in 0 .. 4
      /\ sup.used <= sup.taken /\ sup.taken <= host.sent
  BY DEF IInv, TypeOK, Supervisors, Hosts
<1>3. ~fault => host.control /\ ~HasBytes(sup) /\ ~(host.sent > sup.taken)
  BY <1>1, <1>2 DEF HasBytes
<1>4. {"Protocol", "ControlLost"} \subseteq Errors
  BY DEF Errors
<1> QED BY <1>3, <1>4 DEF NoControl

LEMMA CheckQueryKeeps ==
  ASSUME IInv, CheckQuery
  PROVE  IInv' /\ Steady
<1>1. sup.at = "Complete" /\ sup.at \notin {"Entry", "Flush", "Arm", "Query"} \cup Ending
      /\ sup \in Supervisors /\ UNCHANGED <<kid, host, late>> /\ fault \in BOOLEAN
  BY DEF CheckQuery, At, Ending, IInv, TypeOK
<1>2. PICK accepted \in BOOLEAN :
        /\ sup' = IF late THEN Fail(sup, "Deadline")
                  ELSE IF ~accepted THEN Fail(sup, "Handshake")
                  ELSE Then(NoControl(sup), "Clone")
        /\ fault' = (fault \/ ~accepted)
  BY DEF CheckQuery
<1>3. fault' \in BOOLEAN /\ (fault => fault') /\ {"Deadline", "Handshake"} \subseteq Errors
  BY <1>2 DEF Errors
<1>4. CASE late
  BY <1>1, <1>2, <1>3, <1>4, PlainFail
<1>5. CASE ~late /\ ~accepted
  BY <1>1, <1>2, <1>3, <1>5, PlainFail
<1>6. ASSUME ~late, accepted, fault, NEW e \in Errors, NoControl(sup) = Fail(sup, e)
      PROVE  IInv' /\ Steady
  <2>1. ~Ok(Fail(sup, e))
    BY <1>1, FailFacts, NativeAssumption DEF Ok
  <2>2. sup' = Fail(sup, e)
    BY <1>2, <1>6, <2>1 DEF Then
  <2> QED BY <1>1, <1>3, <1>6, <2>2, PlainFail
<1>7. CASE ~late /\ accepted /\ NoControl(sup) = sup
  <2>1. sup' = Goto(sup, "Clone")
    BY <1>1, <1>2, <1>7, NotFailed DEF Then
  <2>2. fault' = fault
    BY <1>1, <1>2, <1>7
  <2>3. /\ sup' \in Supervisors /\ Same(sup, sup') /\ sup'.at = "Clone"
        /\ sup'.error = sup.error /\ sup'.child = sup.child /\ sup'.ev = sup.ev
    BY <1>1, <2>1, GotoFacts DEF Places
  <2>4. TypeOK' /\ Owned' /\ Paced' /\ Seen' /\ Steady
    BY <1>1, <2>2, <2>3
       DEF IInv, TypeOK, Owned, FailureKillsChild, Ok, Paced, Seen, Begun, Steady, Early,
           Asking, Reading, Reacting, Loop, Ending, Same, SameTalk, SameStreams, SameReading
  <2>5. Streamed'
    BY <1>1, <2>2, <2>3, QuietKeepsStreamed
       DEF IInv, Quiet, Same, SameStreams
  <2>6. ~fault' => Blameless'
    BY <1>1, <2>2, <2>3
       DEF IInv, Blameless, HostKeeps, KidKeeps, PollKeeps, Ok, Reading, Reacting, Loop,
           Ending, Same, SameTalk, SameStreams, SameReading
  <2> QED BY <2>4, <2>5, <2>6 DEF IInv

<1> QED BY <1>1, <1>4, <1>5, <1>6, <1>7, NoControlFacts

-----------------------------------------------------------------------------
(* The child up to its first exec                                           *)

LEMMA CloneOnceKeeps ==
  ASSUME IInv, CloneOnce
  PROVE  IInv' /\ Steady
<1>1. sup.at = "Clone" /\ sup.at \notin Ending /\ sup \in Supervisors /\ kid \in Kids
  BY DEF CloneOnce, At, Ending, IInv, TypeOK
<1>2. CASE late
  BY <1>1, <1>2, LocalFail DEF CloneOnce, Errors
<1>3. CASE ~late
  <2>1. /\ sup' = [Goto(sup, "Listener") EXCEPT !.child = "Running"]
        /\ kid' = [kid EXCEPT !.state = "Setup"]
        /\ UNCHANGED <<host, late, fault>>
    BY <1>3 DEF CloneOnce
  <2>2. "Listener" \in Places /\ "Running" \in Facts
    BY DEF Places, Facts
  <2>3. /\ sup' \in Supervisors /\ Same(sup, sup') /\ sup'.at = "Listener"
        /\ sup'.error = sup.error /\ sup'.child = "Running" /\ sup'.ev = sup.ev
    BY <1>1, <2>1, <2>2 DEF Goto, Supervisors, Same, SameTalk, SameStreams, SameReading
  <2>4. /\ kid' \in Kids /\ kid'.state = "Setup" /\ kid'.notice = kid.notice
        /\ kid'.stdin = kid.stdin /\ kid'.read = kid.read /\ kid'.out = kid.out
        /\ kid'.open = kid.open /\ kid'.killed = kid.killed
    BY <1>1, <2>1 DEF Kids
  <2>5. UNCHANGED <<host, late, fault>>
    BY <2>1
  <2>6. sup.child = "Absent" /\ (~fault => ~kid.notice) /\ sup.ev.listener = "idle"
    BY <1>1, NoEventsFacts DEF IInv, Owned, Early, Blameless, KidKeeps, Paced, Reacting
  <2>7. TypeOK' /\ Owned' /\ Paced' /\ Seen' /\ Steady
    BY <1>1, <2>3, <2>4, <2>5, <2>6
       DEF IInv, TypeOK, Owned, FailureKillsChild, Ok, Paced, Seen, Begun, Steady, Early,
           Asking, Reading, Reacting, Loop, Ending, Same, SameTalk, SameStreams, SameReading
  <2>8. Streamed'
    BY <1>1, <2>3, <2>4, <2>5, <2>6, QuietKeepsStreamed
       DEF IInv, Quiet, Same, SameStreams
  <2>9. ~fault' => Blameless'
    BY <1>1, <2>3, <2>4, <2>5, <2>6
       DEF IInv, Blameless, HostKeeps, KidKeeps, PollKeeps, Ok, Reading, Reacting, Loop,
           Ending, Same, SameTalk, SameStreams, SameReading
  <2> QED BY <2>7, <2>8, <2>9 DEF IInv

<1> QED BY <1>2, <1>3

\* Before its first exec only the deadline and faults disturb an attempt.
LEMMA DisturbedFacts ==
  ASSUME IInv, sup.at \in {"Listener", "Grant"}
  PROVE  /\ Disturbed \in Errors \cup {None}
         /\ Disturbed # None => fault \/ Disturbed = "Deadline"
<1>1. /\ ~fault => host.control /\ ~(host.sent > sup.taken)
      /\ ~fault => kid.state \in {"Setup", "Handed", "Waiting"}
  BY NoControlFacts DEF Ending, IInv, Blameless, HostKeeps, KidKeeps
<1>2. {"Deadline", "ControlLost", "Child", "Protocol", "ListenerLost"} \subseteq Errors
  BY DEF Errors
<1> QED BY <1>1, <1>2 DEF Disturbed, Reapable

LEMMA ReceiveListenerKeeps ==
  ASSUME IInv, ReceiveListener
  PROVE  IInv' /\ Steady
<1>1. sup.at = "Listener" /\ sup.at \notin Ending /\ sup \in Supervisors
  BY DEF ReceiveListener, At, Ending, IInv, TypeOK
<1>2. CASE Disturbed # None /\ Local(Fail(sup, Disturbed))
  BY <1>1, <1>2, DisturbedFacts, LocalFail
<1>3. CASE kid.state = "Dying" /\ Local(Fail(sup, "ListenerLost"))
  BY <1>1, <1>3, LocalFail DEF Errors, IInv, Blameless, HostKeeps, KidKeeps
<1>4. CASE Local(Goto(sup, "Grant"))
  <2>1. /\ sup' \in Supervisors /\ Same(sup, sup') /\ sup'.at = "Grant"
        /\ sup'.error = sup.error /\ sup'.child = sup.child /\ sup'.ev = sup.ev
        /\ UNCHANGED <<kid, host, late, fault>>
    BY <1>1, <1>4, GotoFacts DEF Local, Places
  <2>2. TypeOK' /\ Owned' /\ Paced' /\ Seen' /\ Steady
    BY <1>1, <2>1
       DEF IInv, TypeOK, Owned, FailureKillsChild, Ok, Paced, Seen, Begun, Steady, Early,
           Asking, Reading, Reacting, Loop, Ending, Same, SameTalk, SameStreams, SameReading
  <2>3. Streamed'
    BY <1>1, <2>1, QuietKeepsStreamed
       DEF IInv, Quiet, Same, SameStreams
  <2>4. ~fault' => Blameless'
    BY <1>1, <2>1
       DEF IInv, Blameless, HostKeeps, KidKeeps, PollKeeps, Ok, Reading, Reacting, Loop,
           Ending, Same, SameTalk, SameStreams, SameReading
  <2> QED BY <2>2, <2>3, <2>4 DEF IInv

<1> QED BY <1>2, <1>3, <1>4 DEF ReceiveListener

LEMMA ReceiveNotificationKeeps ==
  ASSUME IInv, ReceiveNotification
  PROVE  IInv' /\ Steady
<1>1. sup.at = "Grant" /\ sup.at \notin Ending /\ sup \in Supervisors /\ kid \in Kids
      /\ fault \in BOOLEAN
  BY DEF ReceiveNotification, At, Ending, IInv, TypeOK
<1>2. CASE Disturbed # None /\ Local(Fail(sup, Disturbed))
  BY <1>1, <1>2, DisturbedFacts, LocalFail
<1>3. ASSUME kid.notice, kid' = [kid EXCEPT !.notice = FALSE], UNCHANGED <<host, late>>,
             NEW expected \in BOOLEAN,
             sup' = IF expected THEN Goto(sup, "Notice") ELSE Fail(sup, "Notification"),
             fault' = (fault \/ ~expected)
      PROVE  IInv' /\ Steady
  <2>1. /\ kid' \in Kids /\ kid'.state = kid.state /\ kid'.notice = FALSE
        /\ kid'.stdin = kid.stdin /\ kid'.read = kid.read /\ kid'.out = kid.out
        /\ kid'.open = kid.open /\ kid'.killed = kid.killed
    BY <1>1, <1>3 DEF Kids
  <2>2. CASE expected
    <3>1. sup' = Goto(sup, "Notice")
      BY <1>3, <2>2
    <3>2. fault' = fault
      BY <1>1, <1>3, <2>2
    <3>3. /\ sup' \in Supervisors /\ Same(sup, sup') /\ sup'.at = "Notice"
          /\ sup'.error = sup.error /\ sup'.child = sup.child /\ sup'.ev = sup.ev
      BY <1>1, <3>1, GotoFacts DEF Places
    <3>4. UNCHANGED <<host, late>>
      BY <1>3
    <3>5. ~fault => kid.state = "Waiting"
      BY <1>1, <1>3 DEF IInv, Blameless, HostKeeps, KidKeeps
    <3>6. TypeOK' /\ Owned' /\ Paced' /\ Seen' /\ Steady
      BY <1>1, <2>1, <3>2, <3>3, <3>4, <3>5
         DEF IInv, TypeOK, Owned, FailureKillsChild, Ok, Paced, Seen, Begun, Steady, Early,
             Asking, Reading, Reacting, Loop, Ending, Same, SameTalk, SameStreams,
             SameReading
    <3>7. Streamed'
      BY <1>1, <2>1, <3>2, <3>3, <3>4, <3>5, QuietKeepsStreamed
         DEF IInv, Quiet, Same, SameStreams
    <3>8. ~fault' => Blameless'
      BY <1>1, <2>1, <3>2, <3>3, <3>4, <3>5
         DEF IInv, Blameless, HostKeeps, KidKeeps, PollKeeps, Ok, Reading, Reacting, Loop,
             Ending, Same, SameTalk, SameStreams, SameReading
    <3> QED BY <3>6, <3>7, <3>8 DEF IInv

  <2>3. CASE ~expected
    <3>1. sup' = Fail(sup, "Notification") /\ fault' /\ fault' \in BOOLEAN
      BY <1>1, <1>3, <2>3
    <3>2. Near(sup) /\ Follows(sup.child)
      BY <2>1 DEF IInv, TypeOK, Near, Follows
    <3>3. "Notification" \in Errors
      BY DEF Errors
    <3> QED BY <1>1, <1>3, <3>1, <3>2, <3>3, FailKeeps
  <2> QED BY <2>2, <2>3
<1> QED BY <1>2, <1>3 DEF ReceiveNotification

LEMMA ConsumeGrantKeeps ==
  ASSUME IInv, ConsumeGrant
  PROVE  IInv' /\ (Ok(sup) /\ ~Ok(sup)' => Excused)
<1>1. sup.at = "Notice" /\ sup.at \notin {"Entry", "Flush", "Arm", "Query"} \cup Ending
      /\ sup \in Supervisors
  BY DEF ConsumeGrant, At, Ending, IInv, TypeOK
<1>2. Ok(sup)
  BY <1>1, NotFailed
<1>3. CASE kid.state # "Waiting"
  <2>1. Local(Fail(sup, "System"))
    BY <1>3 DEF ConsumeGrant
  <2>2. fault
    BY <1>1, <1>3 DEF IInv, Blameless, HostKeeps, KidKeeps
  <2> QED BY <1>1, <2>1, <2>2, LocalFail DEF Errors, Steady
<1>4. ASSUME kid.state = "Waiting", fault, NEW e \in Errors, NoControl(sup) = Fail(sup, e)
      PROVE  IInv' /\ (Ok(sup) /\ ~Ok(sup)' => Excused)
  <2>1. ~Ok(Fail(sup, e))
    BY <1>1, FailFacts, NativeAssumption DEF Ok
  <2>2. Checked(NoControl(sup)) = Fail(sup, e)
    BY <1>4, <2>1 DEF Checked
  <2>3. Local(Fail(sup, e))
    BY <1>4, <2>1, <2>2 DEF ConsumeGrant
  <2> QED BY <1>1, <1>4, <2>3, LocalFail DEF Steady
<1>5. CASE kid.state = "Waiting" /\ NoControl(sup) = sup /\ late
  <2>1. Checked(sup) = Fail(sup, "Deadline") /\ "Deadline" \in Errors
    BY <1>2, <1>5, CheckedFacts DEF Errors
  <2>2. ~Ok(Fail(sup, "Deadline"))
    BY <1>1, <2>1, FailFacts, NativeAssumption DEF Ok
  <2>3. Local(Fail(sup, "Deadline"))
    BY <1>5, <2>1, <2>2 DEF ConsumeGrant
  <2> QED BY <1>1, <2>1, <2>3, LocalFail DEF Steady
<1>6. CASE kid.state = "Waiting" /\ NoControl(sup) = sup /\ ~late
  <2>1. Checked(sup) = sup
    BY <1>2, <1>6, CheckedFacts
  <2>2. /\ sup' = Goto([sup EXCEPT !.grant = "Consumed"], "Send")
        /\ UNCHANGED <<kid, host, late, fault>>
    BY <1>2, <1>6, <2>1 DEF ConsumeGrant, Local
  <2>3. "Send" \in Places
    BY DEF Places
  <2>4. /\ sup' \in Supervisors /\ sup'.at = "Send" /\ sup'.grant = "Consumed"
        /\ SameTalk(sup, sup') /\ SameStreams(sup, sup') /\ SameReading(sup, sup')
        /\ sup'.error = sup.error /\ sup'.child = sup.child /\ sup'.ev = sup.ev
    BY <1>1, <2>2, <2>3 DEF Goto, Supervisors, SameTalk, SameStreams, SameReading
  <2>5. UNCHANGED <<kid, host, late, fault>>
    BY <2>2
  <2>6. TypeOK' /\ Owned' /\ Paced' /\ Seen'
    BY <1>1, <2>4, <2>5
       DEF IInv, TypeOK, Owned, FailureKillsChild, Ok, Paced, Seen, Begun, Early, Asking,
           Reading, Reacting, Loop, Ending, Same, SameTalk, SameStreams, SameReading
  <2>7. Streamed'
    BY <1>1, <2>4, <2>5, QuietKeepsStreamed
       DEF IInv, Quiet, Same, SameStreams
  <2>8. ~fault' => Blameless'
    BY <1>1, <2>4, <2>5
       DEF IInv, Blameless, HostKeeps, KidKeeps, PollKeeps, Ok, Reading, Reacting, Loop,
           Ending, Same, SameTalk, SameStreams, SameReading
  <2>9. Ok(sup) => Ok(sup)'
    BY <2>4 DEF Ok
  <2> QED BY <2>6, <2>7, <2>8, <2>9 DEF IInv

<1> QED BY <1>1, <1>3, <1>4, <1>5, <1>6, NoControlFacts

LEMMA SendContinueKeeps ==
  ASSUME IInv, SendContinue
  PROVE  IInv' /\ Steady
<1> DEFINE s == [sup EXCEPT !.goal = "Stream"]
<1>1. sup.at = "Send" /\ sup.at \notin Ending /\ sup \in Supervisors /\ kid \in Kids
  BY DEF SendContinue, At, Ending, IInv, TypeOK
<1>2. sup.goal = "Stream" /\ Ok(sup)
  BY <1>1, NotFailed DEF IInv, Seen
<1>3. s = sup
  BY <1>1, <1>2 DEF Supervisors
<1>4. CASE kid.state # "Waiting"
  <2>1. Local(Fail(sup, "System"))
    BY <1>4 DEF SendContinue
  <2>2. fault
    BY <1>1, <1>4 DEF IInv, Blameless, HostKeeps, KidKeeps
  <2> QED BY <1>1, <2>1, <2>2, LocalFail DEF Errors
<1>5. CASE kid.state = "Waiting"
  <2>1. sup' = Then(Checked(sup), "Before") /\ kid' = [kid EXCEPT !.state = "Running"]
        /\ UNCHANGED <<host, late, fault>>
    BY <1>3, <1>5 DEF SendContinue
  <2>2. /\ kid' \in Kids /\ kid'.state = "Running" /\ kid'.notice = kid.notice
        /\ kid'.stdin = kid.stdin /\ kid'.read = kid.read /\ kid'.out = kid.out
        /\ kid'.open = kid.open /\ kid'.killed = kid.killed
    BY <1>1, <2>1 DEF Kids
  <2>3. CASE late
    <3>1. Checked(sup) = Fail(sup, "Deadline") /\ "Deadline" \in Errors
      BY <1>2, <2>3, CheckedFacts DEF Errors
    <3>2. ~Ok(Fail(sup, "Deadline"))
      BY <1>1, <3>1, FailFacts, NativeAssumption DEF Ok
    <3>3. sup' = Fail(sup, "Deadline")
      BY <2>1, <3>1, <3>2 DEF Then
    <3>4. Near(sup) /\ Follows(sup.child)
      BY <1>5, <2>2 DEF IInv, TypeOK, Near, Follows
    <3>5. fault' \in BOOLEAN /\ (fault => fault')
      BY <2>1 DEF IInv, TypeOK
    <3> QED BY <1>1, <2>1, <3>1, <3>3, <3>4, <3>5, FailKeeps
  <2>4. CASE ~late
    <3>1. sup' = Goto(sup, "Before")
      BY <1>2, <2>1, <2>4, CheckedFacts DEF Then
    <3>2. /\ sup' \in Supervisors /\ Same(sup, sup') /\ sup'.at = "Before"
          /\ sup'.error = sup.error /\ sup'.child = sup.child /\ sup'.ev = sup.ev
      BY <1>1, <3>1, GotoFacts DEF Places
    <3>3. UNCHANGED <<host, late, fault>>
      BY <2>1
    <3>4. TypeOK' /\ Owned' /\ Paced' /\ Seen' /\ Steady
      BY <1>1, <1>2, <1>5, <2>2, <3>2, <3>3
         DEF IInv, TypeOK, Owned, FailureKillsChild, Ok, Paced, Seen, Begun, Steady, Early,
             Asking, Reading, Reacting, Loop, Ending, Same, SameTalk, SameStreams,
             SameReading
    <3>5. Streamed'
      BY <1>1, <1>2, <1>5, <2>2, <3>2, <3>3, QuietKeepsStreamed
         DEF IInv, Quiet, Same, SameStreams
    <3>6. ~fault' => Blameless'
      BY <1>1, <1>2, <1>5, <2>2, <3>2, <3>3
         DEF IInv, Blameless, HostKeeps, KidKeeps, PollKeeps, Ok, Reading, Reacting, Loop,
             Ending, Same, SameTalk, SameStreams, SameReading
    <3> QED BY <3>4, <3>5, <3>6 DEF IInv

  <2> QED BY <2>3, <2>4
<1> QED BY <1>4, <1>5

-----------------------------------------------------------------------------
(* A reading of the cgroup                                                  *)

\* Only an exited child is reaped.
LEMMA ReapFacts ==
  ASSUME NEW s \in Supervisors
  PROVE  /\ Reap(s) \in Supervisors /\ Same(s, Reap(s))
         /\ Reap(s).at = s.at /\ Reap(s).error = s.error /\ Reap(s).ev = s.ev
         /\ Reap(s).child = (IF s.child = "Running" /\ Reapable THEN "Reaped" ELSE s.child)
<1>1. CASE s.child = "Running" /\ Reapable
  <2>1. Reap(s) = [s EXCEPT !.child = "Reaped"] /\ "Reaped" \in Facts
    BY <1>1 DEF Reap, Facts
  <2> QED BY <1>1, <2>1 DEF Supervisors, Same, SameTalk, SameStreams, SameReading
<1>2. CASE ~(s.child = "Running" /\ Reapable)
  BY <1>2 DEF Reap, Same, SameTalk, SameStreams, SameReading
<1> QED BY <1>1, <1>2

\* A child that is reaped leaves the process table, and nothing else of it changes.
LEMMA ReapingFacts ==
  ASSUME kid \in Kids, NEW s, Reaping(s)
  PROVE  /\ kid' \in Kids /\ kid'.notice = kid.notice /\ kid'.killed = kid.killed
         /\ kid'.stdin = kid.stdin /\ kid'.read = kid.read
         /\ kid'.out = kid.out /\ kid'.open = kid.open
         /\ kid'.state =
              (IF sup.child = "Running" /\ s.child = "Reaped" THEN "Gone" ELSE kid.state)
<1>1. CASE sup.child = "Running" /\ s.child = "Reaped"
  <2>1. kid' = [kid EXCEPT !.state = "Gone"]
    BY <1>1 DEF Reaping
  <2> QED BY <1>1, <2>1 DEF Kids
<1>2. CASE ~(sup.child = "Running" /\ s.child = "Reaped")
  BY <1>2 DEF Reaping
<1> QED BY <1>1, <1>2

\* A step that fails its check of the deadline does nothing else.
LEMMA DeadlineKeeps ==
  ASSUME IInv, sup.at \notin Ending, late, sup' = Checked(sup), Reaping(Checked(sup)),
         UNCHANGED <<host, late, fault>>
  PROVE  IInv' /\ Steady
<1>1. sup \in Supervisors /\ Ok(sup) /\ "Deadline" \in Errors
  BY NotFailed DEF IInv, TypeOK, Errors
<1>2. Checked(sup) = Fail(sup, "Deadline")
  BY <1>1, CheckedFacts
<1>3. Checked(sup).child = sup.child
  BY <1>1, <1>2, FailFacts
<1>4. UNCHANGED kid
  BY <1>3 DEF Reaping
<1>5. Local(Fail(sup, "Deadline"))
  BY <1>2, <1>4 DEF Local
<1> QED BY <1>1, <1>5, LocalFail

LEMMA CaptureBeforeKeeps ==
  ASSUME IInv, CaptureBefore
  PROVE  IInv' /\ Steady
<1> DEFINE r == Reap(sup)
           t == [r EXCEPT !.reads = @ + 1]
<1>1. sup.at = "Before" /\ sup.at \notin Ending /\ sup \in Supervisors /\ kid \in Kids
      /\ UNCHANGED <<host, late, fault>>
  BY DEF CaptureBefore, At, Ending, IInv, TypeOK
<1>2. Ok(sup)
  BY <1>1, NotFailed
<1>3. sup.reads = Begun /\ sup.reads \in 1 .. 3
  <2>1. Begun \in 1 .. 3
    BY DEF Begun
  <2> QED BY <1>1, <2>1 DEF IInv, Seen
<1>4. CASE late
  <2>1. ~Ok(Checked(sup))
    BY <1>1, <1>2, <1>4, CheckedFacts, FailFacts, NativeAssumption DEF Ok, Errors
  <2>2. sup' = Checked(sup) /\ Reaping(Checked(sup))
    BY <2>1 DEF CaptureBefore
  <2> QED BY <1>1, <1>4, <2>2, DeadlineKeeps
<1>5. CASE ~late
  <2>1. /\ r \in Supervisors /\ Same(sup, r) /\ r.at = sup.at /\ r.error = sup.error
        /\ r.ev = sup.ev
        /\ r.child = (IF sup.child = "Running" /\ Reapable THEN "Reaped" ELSE sup.child)
    BY <1>1, ReapFacts
  <2>2. Checked(sup) = sup /\ sup.reads # 4
    BY <1>2, <1>3, <1>5, CheckedFacts
  <2>3. sup' = (IF Ok(t) THEN Goto([t EXCEPT !.before = t.child], "Pids") ELSE t) /\ Reaping(t)
    BY <1>2, <2>2 DEF CaptureBefore
  <2> HIDE DEF r
  <2>4. /\ t \in Supervisors /\ t.child = r.child /\ t.error = sup.error /\ t.ev = sup.ev
        /\ t.reads = sup.reads + 1 /\ t.grant = sup.grant
        /\ SameTalk(sup, t) /\ SameStreams(sup, t)
        /\ t.retried = sup.retried /\ t.goal = sup.goal
    <3>1. r.reads + 1 \in 1 .. 4 /\ r.reads = sup.reads
      BY <1>3, <2>1 DEF Same, SameReading
    <3> QED BY <2>1, <3>1 DEF Supervisors, Same, SameTalk, SameStreams, SameReading
  <2>5. /\ kid' \in Kids /\ kid'.notice = kid.notice /\ kid'.killed = kid.killed
        /\ kid'.stdin = kid.stdin /\ kid'.read = kid.read
        /\ kid'.out = kid.out /\ kid'.open = kid.open
        /\ kid'.state =
             (IF sup.child = "Running" /\ t.child = "Reaped" THEN "Gone" ELSE kid.state)
    BY <1>1, <2>3, ReapingFacts
  <2> HIDE DEF t
  <2>6. "Pids" \in Places /\ sup' = Goto([t EXCEPT !.before = t.child], "Pids")
    BY <1>2, <2>3, <2>4 DEF Places, Ok
  <2>7. /\ sup' \in Supervisors /\ sup'.at = "Pids" /\ sup'.before = t.child
        /\ sup'.child = t.child /\ sup'.error = t.error /\ sup'.ev = t.ev
        /\ sup'.reads = t.reads /\ sup'.grant = t.grant
        /\ SameTalk(t, sup') /\ SameStreams(t, sup')
        /\ sup'.retried = t.retried /\ sup'.goal = t.goal
    BY <2>4, <2>6 DEF Goto, Supervisors, SameTalk, SameStreams
  <2>8. /\ sup' \in Supervisors /\ sup'.at = "Pids" /\ sup'.before = sup'.child
        /\ sup'.error = sup.error /\ sup'.ev = sup.ev /\ sup'.grant = sup.grant
        /\ SameTalk(sup, sup') /\ SameStreams(sup, sup')
        /\ sup'.retried = sup.retried /\ sup'.goal = sup.goal
    BY <2>4, <2>7 DEF SameTalk, SameStreams
  <2>9. sup'.reads = Begun + 1
    BY <1>3, <2>4, <2>7
  <2>10. /\ UNCHANGED <<host, late, fault>>
         /\ \/ sup'.child = sup.child /\ kid'.state = kid.state
            \/ /\ sup.child = "Running" /\ kid.state = "Exited"
               /\ sup'.child = "Reaped" /\ kid'.state = "Gone"
    BY <1>1, <2>1, <2>4, <2>5, <2>7 DEF Reapable
  <2>11. /\ kid' \in Kids /\ kid'.notice = kid.notice /\ kid'.killed = kid.killed
         /\ kid'.stdin = kid.stdin /\ kid'.read = kid.read
         /\ kid'.out = kid.out /\ kid'.open = kid.open
    BY <2>5
  <2>12. sup.child # "Absent" /\ sup'.ev = NoEvents
    BY <1>1, <2>8 DEF IInv, Owned, Paced, Reading, Reacting
  <2>13. TypeOK' /\ Owned' /\ Paced' /\ Seen' /\ Steady
    BY <1>1, <2>8, <2>10, <2>11, <2>12, <2>9
       DEF IInv, TypeOK, Owned, FailureKillsChild, Ok, Paced, Seen, Begun, Steady, Early,
           Asking, Reading, Reacting, Loop, Ending, Same, SameTalk, SameStreams, SameReading
  <2>14. Streamed'
    BY <1>1, <2>8, <2>10, <2>11, <2>12, QuietKeepsStreamed
       DEF IInv, Quiet, Same, SameStreams
  <2>15. ~fault' => Blameless'
    BY <1>1, <2>8, <2>10, <2>11, <2>12, NoEventsFacts
       DEF IInv, Blameless, HostKeeps, KidKeeps, PollKeeps, Ok, Reading, Reacting, Loop,
           Ending, Same, SameTalk, SameStreams, SameReading
  <2> QED BY <2>13, <2>14, <2>15 DEF IInv

<1> QED BY <1>4, <1>5

LEMMA CapturePidsKeeps ==
  ASSUME IInv, CapturePids
  PROVE  IInv' /\ Steady
<1> DEFINE pids == IF kid.state = "Gone" THEN 1 ELSE 2
<1>1. sup.at = "Pids" /\ sup.at \notin Ending /\ sup \in Supervisors
  BY DEF CapturePids, At, Ending, IInv, TypeOK
<1>2. /\ sup' = Goto([sup EXCEPT !.pids = pids], "Procs")
      /\ UNCHANGED <<kid, host, late, fault>>
  BY DEF CapturePids, Local
<1>3. pids \in 1 .. 2 /\ "Procs" \in Places
  BY DEF Places
<1>4. pids = 1 <=> kid.state = "Gone"
  OBVIOUS
<1> HIDE DEF pids
<1>5. /\ sup' \in Supervisors /\ sup'.at = "Procs" /\ sup'.pids = pids
      /\ SameTalk(sup, sup') /\ SameStreams(sup, sup') /\ sup'.grant = sup.grant
      /\ sup'.error = sup.error /\ sup'.child = sup.child /\ sup'.ev = sup.ev
      /\ sup'.reads = sup.reads /\ sup'.retried = sup.retried /\ sup'.goal = sup.goal
      /\ sup'.before = sup.before
  BY <1>1, <1>2, <1>3 DEF Goto, Supervisors, SameTalk, SameStreams
<1>6. UNCHANGED <<kid, host, late, fault>>
  BY <1>2
<1>7. sup.child = "Reaped" <=> kid.state = "Gone"
  BY <1>1 DEF IInv, Owned
<1>8. TypeOK' /\ Owned' /\ Paced' /\ Seen' /\ Steady
  BY <1>1, <1>5, <1>6, <1>4, <1>7
     DEF IInv, TypeOK, Owned, FailureKillsChild, Ok, Paced, Seen, Begun, Steady, Early,
         Asking, Reading, Reacting, Loop, Ending, Same, SameTalk, SameStreams, SameReading
<1>9. Streamed'
  BY <1>1, <1>5, <1>6, QuietKeepsStreamed
     DEF IInv, Quiet, Same, SameStreams
<1>10. ~fault' => Blameless'
  BY <1>1, <1>5, <1>6
     DEF IInv, Blameless, HostKeeps, KidKeeps, PollKeeps, Ok, Reading, Reacting, Loop,
         Ending, Same, SameTalk, SameStreams, SameReading
<1> QED BY <1>8, <1>9, <1>10 DEF IInv

LEMMA CaptureProcsKeeps ==
  ASSUME IInv, CaptureProcs
  PROVE  IInv' /\ Steady
<1> DEFINE listed == kid.state \notin {"Dying", "Exited", "Gone"}
<1>1. sup.at = "Procs" /\ sup.at \notin Ending /\ sup \in Supervisors /\ kid \in Kids
      /\ fault \in BOOLEAN
  BY DEF CaptureProcs, At, Ending, IInv, TypeOK
<1>2. /\ sup' = Goto([sup EXCEPT !.listed = listed], "After")
      /\ UNCHANGED <<kid, host, late, fault>>
  BY DEF CaptureProcs, Local
<1>3. listed \in BOOLEAN /\ "After" \in Places
  BY DEF Places
<1>4. /\ listed => kid.state \notin {"Dying", "Exited", "Gone"}
      /\ ~listed => kid.state \in {"Dying", "Exited", "Gone"}
  OBVIOUS
<1> HIDE DEF listed
<1>5. /\ sup' \in Supervisors /\ sup'.at = "After" /\ sup'.listed = listed
      /\ SameTalk(sup, sup') /\ SameStreams(sup, sup') /\ sup'.grant = sup.grant
      /\ sup'.error = sup.error /\ sup'.child = sup.child /\ sup'.ev = sup.ev
      /\ sup'.reads = sup.reads /\ sup'.retried = sup.retried /\ sup'.goal = sup.goal
      /\ sup'.before = sup.before /\ sup'.pids = sup.pids
  BY <1>1, <1>2, <1>3 DEF Goto, Supervisors, SameTalk, SameStreams
<1>6. UNCHANGED <<kid, host, late, fault>>
  BY <1>2
<1>11. ~fault => kid.state # "Dying"
  <2>1. SUFFICES ASSUME Blameless, kid.state = "Dying" PROVE FALSE
    BY DEF IInv
  <2>2. kid.read = Query
    BY <2>1 DEF Blameless, KidKeeps
  <2>3. sup.written = 0 /\ kid.read <= sup.written
    <3>1. sup.goal # "Final"
      BY <1>1, <2>1 DEF IInv, Owned, Streamed, Paced
    <3> QED BY <1>1, <3>1 DEF IInv, Seen, Reading
  <2> QED BY <2>2, <2>3, NativeAssumption
<1>7. sup.before = "Reaped" => kid.state = "Gone"
  BY <1>1 DEF IInv, Owned, Seen, Reading
<1>8. TypeOK' /\ Owned' /\ Paced' /\ Seen' /\ Steady
  BY <1>1, <1>5, <1>6
     DEF IInv, TypeOK, Owned, FailureKillsChild, Ok, Paced, Seen, Begun, Steady, Early,
         Asking, Reading, Reacting, Loop, Ending, Same, SameTalk, SameStreams, SameReading
<1>9. Streamed'
  BY <1>1, <1>5, <1>6, QuietKeepsStreamed
     DEF IInv, Quiet, Same, SameStreams
<1>10. ~fault' => Blameless'
  BY <1>1, <1>5, <1>6, <1>4, <1>7, <1>11
     DEF IInv, Blameless, HostKeeps, KidKeeps, PollKeeps, Ok, Reading, Reacting, Loop,
         Ending, Same, SameTalk, SameStreams, SameReading
<1> QED BY <1>8, <1>9, <1>10 DEF IInv

LEMMA CaptureAfterKeeps ==
  ASSUME IInv, CaptureAfter
  PROVE  IInv' /\ Steady
<1> DEFINE t == Reap(sup)
<1>1. sup.at = "After" /\ sup.at \notin Ending /\ sup \in Supervisors /\ kid \in Kids
      /\ UNCHANGED <<host, late, fault>> /\ fault \in BOOLEAN
  BY DEF CaptureAfter, At, Ending, IInv, TypeOK
<1>2. Ok(sup)
  BY <1>1, NotFailed
<1>3. CASE late
  <2>1. ~Ok(Checked(sup))
    BY <1>1, <1>2, <1>3, CheckedFacts, FailFacts, NativeAssumption DEF Ok, Errors
  <2>2. sup' = Checked(sup) /\ Reaping(Checked(sup))
    BY <2>1 DEF CaptureAfter
  <2> QED BY <1>1, <1>3, <2>2, DeadlineKeeps
<1>4. CASE ~late
  <2>1. /\ t \in Supervisors /\ Same(sup, t) /\ t.at = sup.at /\ t.error = sup.error
        /\ t.ev = sup.ev
        /\ t.child = (IF sup.child = "Running" /\ Reapable THEN "Reaped" ELSE sup.child)
    BY <1>1, ReapFacts
  <2>2. Checked(sup) = sup
    BY <1>2, <1>4, CheckedFacts
  <2>3. Ok(t)
    BY <1>2, <2>1 DEF Ok
  <2>4. sup' = Observed(t) /\ Reaping(t)
    BY <1>2, <2>2, <2>3 DEF CaptureAfter
  <2>5. /\ kid' \in Kids /\ kid'.notice = kid.notice /\ kid'.killed = kid.killed
        /\ kid'.stdin = kid.stdin /\ kid'.read = kid.read
        /\ kid'.out = kid.out /\ kid'.open = kid.open
        /\ kid'.state =
             (IF sup.child = "Running" /\ t.child = "Reaped" THEN "Gone" ELSE kid.state)
    BY <1>1, <2>4, ReapingFacts
  <2>6. /\ t.grant = sup.grant /\ SameTalk(sup, t) /\ SameStreams(sup, t)
        /\ SameReading(sup, t)
    BY <2>1 DEF Same
  <2>7. \/ t.child = sup.child /\ kid'.state = kid.state
        \/ /\ sup.child = "Running" /\ kid.state = "Exited"
           /\ t.child = "Reaped" /\ kid'.state = "Gone"
    BY <2>1, <2>5 DEF Reapable
  <2>8. /\ kid' \in Kids /\ kid'.notice = kid.notice /\ kid'.killed = kid.killed
        /\ kid'.stdin = kid.stdin /\ kid'.read = kid.read
        /\ kid'.out = kid.out /\ kid'.open = kid.open
    BY <2>5
  <2> HIDE DEF t
  <2>9. /\ t.child \in {"Running", "Reaped"}
        /\ t.child = "Running" <=> kid'.state # "Gone"
        /\ t.child = "Running" => kid.state # "Exited" /\ kid.state # "Gone"
    <3>1. sup.child \in {"Running", "Reaped"} /\ (sup.child = "Reaped" <=> kid.state = "Gone")
      BY <1>1 DEF IInv, Owned, Reading, Supervisors, Facts
    <3> QED BY <2>1, <2>7, <3>1 DEF Reapable
  <2>10. Near(t) /\ Follows(t.child)
    <3>1. sup.used <= sup.taken /\ sup.taken <= host.sent
      BY DEF IInv, TypeOK
    <3> QED BY <2>1, <2>6, <2>7, <2>8, <3>1 DEF Near, Follows, SameTalk, SameStreams, SameReading
  <2>11. StageOf(t) \in {"stable", "transition", "error"}
    BY DEF StageOf
  <2>12. CASE StageOf(t) = "error"
    <3>1. sup' = Fail(t, "Observation") /\ "Observation" \in Errors
      BY <2>4, <2>12 DEF Observed, Errors
    <3>2. fault
      <4>1. SUFFICES ASSUME Blameless PROVE FALSE
        BY DEF IInv
      <4>2. /\ sup.before = "Reaped" => ~sup.listed
            /\ ~sup.listed => kid.state \in {"Exited", "Gone"}
        BY <1>1, <4>1 DEF Blameless, HostKeeps, KidKeeps
      <4>3. /\ sup.before \in {"Running", "Reaped"}
            /\ sup.before = "Reaped" => sup.child = "Reaped" /\ sup.pids = 1
            /\ sup.before = "Running" => ~sup.retried
            /\ sup.pids = 1 => kid.state = "Gone"
        <5>1. sup.before \in {"Absent", "Running", "Reaped"}
          BY <1>1 DEF Supervisors, Facts
        <5> QED BY <1>1, <5>1 DEF IInv, Seen, Reading
      <4>7. sup.pids \in {1, 2}
        BY <1>1 DEF Supervisors
      <4>4. /\ t.before = sup.before /\ t.pids = sup.pids /\ t.listed = sup.listed
            /\ t.retried = sup.retried
        BY <2>6 DEF SameReading
      <4>5. CASE t.child = "Running"
        BY <2>9, <2>12, <4>2, <4>3, <4>4, <4>5, <4>7 DEF StageOf
      <4>6. CASE t.child = "Reaped"
        BY <2>9, <2>12, <4>2, <4>3, <4>4, <4>6, <4>7 DEF StageOf
      <4> QED BY <2>9, <4>5, <4>6
    <3>3. fault' \in BOOLEAN /\ fault'
      BY <1>1, <3>2
    <3> QED BY <1>1, <2>10, <3>1, <3>3, FailKeeps
  <2>13. CASE StageOf(t) = "transition"
    <3>1. sup' = Goto([t EXCEPT !.retried = TRUE], "Before") /\ "Before" \in Places
      BY <2>4, <2>13 DEF Observed, Places
    <3>2. /\ sup' \in Supervisors /\ sup'.at = "Before" /\ sup'.retried = TRUE
          /\ sup'.child = t.child /\ sup'.error = t.error /\ sup'.ev = t.ev
          /\ sup'.reads = t.reads /\ sup'.grant = t.grant /\ sup'.goal = t.goal
          /\ SameTalk(t, sup') /\ SameStreams(t, sup')
      BY <2>1, <3>1 DEF Goto, Supervisors, SameTalk, SameStreams
    <3>3. /\ sup' \in Supervisors /\ sup'.at = "Before" /\ sup'.retried = TRUE
          /\ sup'.child = t.child /\ sup'.error = sup.error /\ sup'.ev = sup.ev
          /\ sup'.reads = sup.reads /\ sup'.grant = sup.grant /\ sup'.goal = sup.goal
          /\ SameTalk(sup, sup') /\ SameStreams(sup, sup')
      BY <2>1, <2>6, <3>2 DEF SameTalk, SameStreams, SameReading
    <3>4. t.child = "Reaped" /\ ~sup.retried
      BY <2>6, <2>13 DEF StageOf, SameReading
    <3>5. sup'.ev = NoEvents /\ UNCHANGED <<host, late, fault>>
      BY <1>1, <3>3 DEF IInv, Paced, Reading, Reacting
    <3>6. sup'.reads = Begun'
      <4>1. sup.reads = Begun + 1
        BY <1>1 DEF IInv, Seen, Reading
      <4> QED BY <3>3, <3>4, <4>1 DEF Begun
    <3>7. TypeOK' /\ Owned' /\ Paced' /\ Seen' /\ Steady
      BY <1>1, <2>7, <2>8, <3>3, <3>4, <3>5, <3>6
         DEF IInv, TypeOK, Owned, FailureKillsChild, Ok, Paced, Seen, Begun, Steady, Early,
             Asking, Reading, Reacting, Loop, Ending, Same, SameTalk, SameStreams,
             SameReading
    <3>8. Streamed'
      BY <1>1, <2>7, <2>8, <3>3, <3>4, <3>5, QuietKeepsStreamed
         DEF IInv, Quiet, Same, SameStreams
    <3>9. ~fault' => Blameless'
      BY <1>1, <2>7, <2>8, <3>3, <3>4, <3>5, NoEventsFacts
         DEF IInv, Blameless, HostKeeps, KidKeeps, PollKeeps, Ok, Reading, Reacting, Loop,
             Ending, Same, SameTalk, SameStreams, SameReading
    <3> QED BY <3>7, <3>8, <3>9 DEF IInv

  <2>14. CASE StageOf(t) = "stable" /\ t.goal = "Stream"
    <3>1. sup' = Goto(t, "Top") /\ "Top" \in Places
      BY <2>4, <2>14 DEF Observed, Places
    <3>2. /\ sup' \in Supervisors /\ sup'.at = "Top" /\ Same(t, sup')
          /\ sup'.child = t.child /\ sup'.error = t.error /\ sup'.ev = t.ev
      BY <2>1, <3>1, GotoFacts
    <3>3. /\ sup' \in Supervisors /\ sup'.at = "Top" /\ Same(sup, sup')
          /\ sup'.child = t.child /\ sup'.error = sup.error /\ sup'.ev = sup.ev
      BY <2>1, <3>2 DEF Same, SameTalk, SameStreams, SameReading
    <3>4. sup.goal = "Stream"
      BY <2>6, <2>14 DEF SameReading
    <3>5. sup'.ev = NoEvents /\ UNCHANGED <<host, late, fault>>
      BY <1>1, <3>3 DEF IInv, Paced, Reading, Reacting
    <3>6. TypeOK' /\ Owned' /\ Paced' /\ Seen' /\ Steady
      BY <1>1, <2>7, <2>8, <3>3, <3>4, <3>5
         DEF IInv, TypeOK, Owned, FailureKillsChild, Ok, Paced, Seen, Begun, Steady, Early,
             Asking, Reading, Reacting, Loop, Ending, Same, SameTalk, SameStreams,
             SameReading
    <3>7. Streamed'
      BY <1>1, <2>7, <2>8, <3>3, <3>4, <3>5, QuietKeepsStreamed
         DEF IInv, Quiet, Same, SameStreams
    <3>8. ~fault' => Blameless'
      BY <1>1, <2>7, <2>8, <3>3, <3>4, <3>5, NoEventsFacts
         DEF IInv, Blameless, HostKeeps, KidKeeps, PollKeeps, Ok, Reading, Reacting, Loop,
             Ending, Same, SameTalk, SameStreams, SameReading
    <3> QED BY <3>6, <3>7, <3>8 DEF IInv

  <2>15. CASE StageOf(t) = "stable" /\ t.goal = "Final"
    <3> DEFINE grown == Append(sup.log, "Final")
    <3>1. sup.goal = "Final" /\ sup.left = 0 /\ ~sup.final /\ sup.exitSent /\ sup.child = "Reaped"
      BY <1>1, <2>6, <2>15 DEF IInv, Paced, Streamed, SameReading, Reading
    <3>2. t.child = "Reaped" /\ ~t.listed /\ t.left = 0 /\ t.log = sup.log
      BY <2>1, <2>6, <2>15, <3>1 DEF StageOf, SameStreams
    <3>3. "Final" \in Frames /\ "Poll" \in Places /\ FrameUnits \in 0 .. FrameUnits
      BY DEF Frames, Places, FrameUnits
    <3>4. grown \in Seq(Frames)
      BY <1>1, <3>3 DEF Supervisors
    <3>5. Push(t, "Final") = [t EXCEPT !.log = Append(@, "Final"), !.left = FrameUnits]
      BY <3>2 DEF Push
    <3>6. Push(t, "Final") = [t EXCEPT !.log = grown, !.left = FrameUnits]
      BY <3>2, <3>5
    <3>7. sup' = Then([Push(t, "Final") EXCEPT !.final = TRUE], "Poll")
      BY <2>4, <2>15, <3>2 DEF Observed
    <3> HIDE DEF grown
    <3>8. sup' = [t EXCEPT !.log = grown, !.left = FrameUnits, !.final = TRUE, !.at = "Poll"]
      BY <2>1, <2>3, <3>6, <3>7 DEF Then, Goto, Ok, Supervisors
    <3>9. /\ sup' \in Supervisors /\ sup'.at = "Poll" /\ sup'.log = grown /\ sup'.final = TRUE
          /\ sup'.child = t.child /\ sup'.error = t.error /\ sup'.ev = t.ev
          /\ sup'.grant = t.grant /\ SameTalk(t, sup') /\ SameReading(t, sup')
          /\ sup'.written = t.written /\ sup'.stdin = t.stdin /\ sup'.count = t.count
          /\ sup'.eof = t.eof /\ sup'.exitSent = t.exitSent
      BY <2>1, <3>3, <3>4, <3>8 DEF Supervisors, SameTalk, SameReading
    <3>10. /\ sup' \in Supervisors /\ sup'.at = "Poll" /\ sup'.log = grown /\ sup'.final = TRUE
           /\ sup'.child = sup.child /\ sup'.error = sup.error /\ sup'.ev = sup.ev
           /\ sup'.grant = sup.grant /\ SameTalk(sup, sup') /\ SameReading(sup, sup')
           /\ sup'.written = sup.written /\ sup'.stdin = sup.stdin /\ sup'.count = sup.count
           /\ sup'.eof = sup.eof /\ sup'.exitSent = sup.exitSent
      BY <2>1, <2>6, <3>1, <3>2, <3>9 DEF SameTalk, SameStreams, SameReading
    <3>11. kid'.state = kid.state /\ sup'.ev = NoEvents /\ UNCHANGED <<host, late, fault>>
      BY <1>1, <2>7, <3>1, <3>10 DEF IInv, Paced, Reading, Reacting
    <3>12. TypeOK' /\ Owned' /\ Paced' /\ Seen' /\ Steady
      BY <1>1, <2>8, <3>1, <3>10, <3>11
         DEF IInv, TypeOK, Owned, FailureKillsChild, Ok, Paced, Seen, Begun, Steady, Early,
             Asking, Reading, Reacting, Loop, Ending, Same, SameTalk, SameStreams,
             SameReading
    <3>13. Streamed'
      <4>1. \A k \in Streams : /\ "Final" \notin {Chunk[k], Eof[k]}
                               /\ {Chunk[k], Eof[k]} \subseteq Frames
        BY DEF Chunk, Eof, Streams, Frames
      <4>2. sup'.log = Append(sup.log, "Final")
        BY <3>10 DEF grown
      <4> QED BY <2>8, <3>1, <3>3, <3>10, <4>1, <4>2, GrownFacts DEF IInv, Streamed
    <3>14. ~fault' => Blameless'
      BY <1>1, <2>8, <3>1, <3>10, <3>11, NoEventsFacts
         DEF IInv, Blameless, HostKeeps, KidKeeps, PollKeeps, Ok, Reading, Reacting, Loop,
             Ending, Same, SameTalk, SameStreams, SameReading
    <3> QED BY <3>12, <3>13, <3>14 DEF IInv

  <2> QED BY <2>1, <2>11, <2>12, <2>13, <2>14, <2>15 DEF Supervisors
<1> QED BY <1>3, <1>4

-----------------------------------------------------------------------------
(* The streaming loop                                                       *)

\* The same of a supervisor that took the same messages.
LEMMA NoControlOf ==
  ASSUME IInv, sup.at \notin {"Entry", "Flush", "Arm", "Query"} \cup Ending,
         NEW s, SameTalk(sup, s)
  PROVE  \/ NoControl(s) = s
         \/ fault /\ \E e \in Errors : NoControl(s) = Fail(s, e)
<1>1. ~fault => host.control /\ ~HasBytes(s) /\ ~(host.sent > s.taken)
  BY NoControlFacts DEF SameTalk, HasBytes
<1>2. {"Protocol", "ControlLost"} \subseteq Errors
  BY DEF Errors
<1> QED BY <1>1, <1>2 DEF NoControl

LEMMA ConcludeKeeps ==
  ASSUME IInv, Conclude
  PROVE  IInv' /\ Steady
<1> DEFINE stdin == sup.stdin /\ sup.written < Query
           s == [sup EXCEPT !.stdin = stdin]
<1>1. sup.at = "Top" /\ sup.at \notin {"Entry", "Flush", "Arm", "Query"} \cup Ending
      /\ sup \in Supervisors /\ UNCHANGED <<kid, host, late, fault>> /\ fault \in BOOLEAN
  BY DEF Conclude, At, Ending, Local, IInv, TypeOK
<1>2. Ok(sup)
  BY <1>1, NotFailed
<1>3. CASE late
  <2>1. Checked(sup) = Fail(sup, "Deadline") /\ ~Ok(Fail(sup, "Deadline")) /\ "Deadline" \in Errors
    BY <1>1, <1>2, <1>3, CheckedFacts, FailFacts, NativeAssumption DEF Ok, Errors
  <2>2. Local(Fail(sup, "Deadline"))
    BY <1>1, <2>1 DEF Conclude, Local
  <2> QED BY <1>1, <1>3, <2>1, <2>2, LocalFail
<1>4. CASE ~late
  <2>1. Checked(sup) = sup
    BY <1>2, <1>4, CheckedFacts
  <2>2. /\ s \in Supervisors /\ s.at = sup.at /\ s.error = sup.error /\ s.child = sup.child
        /\ s.grant = sup.grant /\ s.ev = sup.ev /\ s.stdin = stdin
        /\ SameTalk(sup, s) /\ SameReading(sup, s)
        /\ s.log = sup.log /\ s.left = sup.left /\ s.written = sup.written
        /\ s.count = sup.count /\ s.eof = sup.eof /\ s.exitSent = sup.exitSent
        /\ s.final = sup.final
    <3>1. stdin \in BOOLEAN
      OBVIOUS
    <3> HIDE DEF stdin
    <3> QED BY <1>1, <3>1 DEF Supervisors, SameTalk, SameReading
  <2>3. (stdin => sup.stdin) /\ (stdin => sup.written < Query)
    OBVIOUS
  <2>4. sup' = Concluded(s)
    BY <1>2, <2>1 DEF Conclude, Local
  <2>5. sup.written \in 0 .. Query /\ Query \in Nat
    BY <1>1, NativeAssumption DEF Supervisors
  <2> HIDE DEF s, stdin
  <2>7. Ok(s)
    BY <1>2, <2>2 DEF Ok
  <2>8. Near(s) /\ Follows(s.child)
    <3>1. sup.used <= sup.taken /\ sup.taken <= host.sent /\ kid \in Kids
      BY DEF IInv, TypeOK
    <3>2. Near(s)
      BY <2>2, <2>3, <3>1 DEF Near, SameTalk, SameReading
    <3> QED BY <1>1, <2>2, <3>1, <3>2 DEF Follows
  <2>9. UNCHANGED <<kid, host, late, fault>> /\ sup.ev = NoEvents
    BY <1>1 DEF IInv, Paced, Reacting
  <2>10. CASE s.child = "Reaped" /\ s.written < Query
    <3>1. sup' = Fail(s, "Child") /\ "Child" \in Errors
      BY <2>2, <2>4, <2>5, <2>10 DEF Concluded, Errors
    <3>2. fault
      <4>1. SUFFICES ASSUME Blameless PROVE FALSE
        BY DEF IInv
      <4>2. kid.read = Query
        BY <2>2, <2>10, <4>1 DEF Blameless, KidKeeps
      <4>3. kid.read <= sup.written
        BY DEF IInv, Seen
      <4> QED BY <2>2, <2>5, <2>10, <4>2, <4>3
    <3> QED BY <1>1, <2>8, <3>1, <3>2, FailKeeps
  <2>11. CASE s.written = Query /\ Drained(s) /\ ~s.exitSent
    <3> DEFINE grown == Append(sup.log, "ChildExit")
    <3>1. /\ sup.child = "Reaped" /\ sup.left = 0 /\ sup.written = Query
          /\ \A k \in Streams : sup.eof[k]
          /\ ~sup.exitSent /\ ~sup.final /\ sup.goal = "Stream"
      <4>1. /\ sup.child = "Reaped" /\ sup.left = 0 /\ sup.written = Query
            /\ (\A k \in Streams : sup.eof[k]) /\ ~sup.exitSent
        BY <2>2, <2>11 DEF Drained
      <4>2. ~sup.final /\ sup.goal # "Final"
        BY <4>1 DEF IInv, Streamed, Paced
      <4> QED BY <1>1, <4>1, <4>2 DEF Supervisors
    <3>2. "ChildExit" \in Frames /\ "Poll" \in Places /\ FrameUnits \in 0 .. FrameUnits
      BY DEF Frames, Places, FrameUnits
    <3>3. grown \in Seq(Frames)
      BY <1>1, <3>2 DEF Supervisors
    <3>4. Push(s, "ChildExit") = [s EXCEPT !.log = Append(@, "ChildExit"), !.left = FrameUnits]
      BY <2>2, <3>1 DEF Push
    <3>5. Push(s, "ChildExit") = [s EXCEPT !.log = grown, !.left = FrameUnits]
      BY <2>2, <3>4
    <3>6. sup' = Then([Push(s, "ChildExit") EXCEPT !.exitSent = TRUE], "Poll")
      BY <2>2, <2>4, <2>5, <2>11 DEF Concluded
    <3> HIDE DEF grown
    <3>7. sup' = [s EXCEPT !.log = grown, !.left = FrameUnits, !.exitSent = TRUE, !.at = "Poll"]
      BY <2>2, <2>7, <3>5, <3>6 DEF Then, Goto, Ok, Supervisors
    <3>8. /\ sup' \in Supervisors /\ sup'.at = "Poll" /\ sup'.log = grown
          /\ sup'.exitSent = TRUE /\ sup'.final = s.final
          /\ sup'.child = s.child /\ sup'.error = s.error /\ sup'.ev = s.ev
          /\ sup'.grant = s.grant /\ SameTalk(s, sup') /\ SameReading(s, sup')
          /\ sup'.written = s.written /\ sup'.stdin = s.stdin /\ sup'.count = s.count
          /\ sup'.eof = s.eof
      BY <2>2, <3>2, <3>3, <3>7 DEF Supervisors, SameTalk, SameReading
    <3>9. /\ sup' \in Supervisors /\ sup'.at = "Poll" /\ sup'.log = grown
          /\ sup'.exitSent = TRUE /\ sup'.final = sup.final
          /\ sup'.child = sup.child /\ sup'.error = sup.error /\ sup'.ev = NoEvents
          /\ sup'.grant = sup.grant /\ SameTalk(sup, sup') /\ SameReading(sup, sup')
          /\ sup'.written = sup.written /\ sup'.count = sup.count /\ sup'.eof = sup.eof
          /\ sup'.stdin = stdin
      BY <2>2, <2>9, <3>8 DEF SameTalk, SameReading
    <3>10. TypeOK' /\ Owned' /\ Paced' /\ Seen' /\ Steady
      BY <1>1, <2>9, <3>1, <3>9, <2>3
         DEF IInv, TypeOK, Owned, FailureKillsChild, Ok, Paced, Seen, Begun, Steady, Early,
             Asking, Reading, Reacting, Loop, Ending, Same, SameTalk, SameStreams,
             SameReading
    <3>11. Streamed'
      <4>1. \A k \in Streams : /\ "ChildExit" \notin {Chunk[k], Eof[k], "Final"}
                               /\ {Chunk[k], Eof[k]} \subseteq Frames
        BY DEF Chunk, Eof, Streams, Frames
      <4>2. sup'.log = Append(sup.log, "ChildExit")
        BY <3>9 DEF grown
      <4> QED BY <2>9, <3>1, <3>2, <3>9, <4>1, <4>2, GrownFacts DEF IInv, Streamed
    <3>12. ~fault' => Blameless'
      BY <1>1, <2>9, <3>1, <3>9, NoEventsFacts
         DEF IInv, Blameless, HostKeeps, KidKeeps, PollKeeps, Ok, Reading, Reacting, Loop,
             Ending, Same, SameTalk, SameStreams, SameReading
    <3> QED BY <3>10, <3>11, <3>12 DEF IInv

  <2>12. CASE s.written = Query /\ Drained(s) /\ s.exitSent /\ ~s.final
    <3>1. /\ sup.child = "Reaped" /\ sup.left = 0 /\ sup.written = Query
          /\ sup.exitSent /\ ~sup.final /\ sup.goal = "Stream"
      <4>1. /\ sup.child = "Reaped" /\ sup.left = 0 /\ sup.written = Query
            /\ sup.exitSent /\ ~sup.final
        BY <2>2, <2>12 DEF Drained
      <4>2. sup.goal # "Final"
        BY <1>1, <4>1 DEF IInv, Seen, Loop
      <4> QED BY <1>1, <4>1, <4>2 DEF Supervisors
    <3>2. sup' = Goto([s EXCEPT !.goal = "Final"], "Before") /\ "Before" \in Places
      BY <2>2, <2>4, <2>5, <2>12 DEF Concluded, Places
    <3>3. /\ sup' \in Supervisors /\ sup'.at = "Before" /\ sup'.goal = "Final"
          /\ sup'.child = s.child /\ sup'.error = s.error /\ sup'.ev = s.ev
          /\ sup'.reads = s.reads /\ sup'.grant = s.grant /\ sup'.retried = s.retried
          /\ SameTalk(s, sup') /\ SameStreams(s, sup')
      BY <2>2, <3>2 DEF Goto, Supervisors, SameTalk, SameStreams
    <3>4. /\ sup' \in Supervisors /\ sup'.at = "Before" /\ sup'.goal = "Final"
          /\ sup'.child = sup.child /\ sup'.error = sup.error /\ sup'.ev = NoEvents
          /\ sup'.reads = sup.reads /\ sup'.grant = sup.grant /\ sup'.retried = sup.retried
          /\ SameTalk(sup, sup') /\ sup'.log = sup.log /\ sup'.left = sup.left
          /\ sup'.written = sup.written /\ sup'.count = sup.count /\ sup'.eof = sup.eof
          /\ sup'.exitSent = sup.exitSent /\ sup'.final = sup.final /\ sup'.stdin = stdin
      BY <2>2, <2>9, <3>3 DEF SameTalk, SameStreams, SameReading
    <3>5. ~sup'.stdin
      BY <2>3, <2>5, <3>1, <3>4
    <3>6. sup'.reads = Begun'
      <4>1. sup.reads = Begun + 1
        BY <1>1 DEF IInv, Seen, Loop
      <4> QED BY <3>1, <3>4, <4>1 DEF Begun
    <3>7. TypeOK' /\ Owned' /\ Paced' /\ Seen' /\ Steady
      BY <1>1, <2>9, <3>1, <3>4, <3>5, <3>6
         DEF IInv, TypeOK, Owned, FailureKillsChild, Ok, Paced, Seen, Begun, Steady, Early,
             Asking, Reading, Reacting, Loop, Ending, Same, SameTalk, SameStreams,
             SameReading
    <3>8. Streamed'
      BY <1>1, <2>9, <3>1, <3>4, QuietKeepsStreamed
         DEF IInv, Quiet, Same, SameStreams
    <3>9. ~fault' => Blameless'
      BY <1>1, <2>9, <3>1, <3>4, NoEventsFacts
         DEF IInv, Blameless, HostKeeps, KidKeeps, PollKeeps, Ok, Reading, Reacting, Loop,
             Ending, Same, SameTalk, SameStreams, SameReading
    <3> QED BY <3>7, <3>8, <3>9 DEF IInv

  <2>13. CASE s.written = Query /\ Drained(s) /\ s.exitSent /\ s.final
    <3>1. sup' = Then(Checked(NoControl(s)), "Return")
      BY <2>2, <2>4, <2>5, <2>13 DEF Concluded
    <3>2. sup.child = "Reaped"
      BY <2>2, <2>13 DEF Drained
    <3>3. ASSUME fault, NEW e \in Errors, NoControl(s) = Fail(s, e)
          PROVE  IInv' /\ Steady
      <4>1. ~Ok(Fail(s, e))
        BY <2>2, FailFacts, NativeAssumption DEF Ok
      <4>2. sup' = Fail(s, e)
        BY <3>1, <3>3, <4>1 DEF Then, Checked
      <4> QED BY <1>1, <2>8, <3>3, <4>2, FailKeeps
    <3>4. CASE NoControl(s) = s
      <4>1. sup' = Goto(s, "Return") /\ "Return" \in Places
        BY <1>4, <2>7, <3>1, <3>4 DEF Then, Checked, Places
      <4>2. /\ sup' \in Supervisors /\ Same(s, sup') /\ sup'.at = "Return"
            /\ sup'.child = s.child /\ sup'.error = s.error /\ sup'.ev = s.ev
        BY <2>2, <4>1, GotoFacts
      <4>3. /\ sup' \in Supervisors /\ sup'.at = "Return"
            /\ sup'.child = sup.child /\ sup'.error = sup.error /\ sup'.ev = NoEvents
            /\ sup'.grant = sup.grant /\ SameTalk(sup, sup') /\ SameReading(sup, sup')
            /\ sup'.log = sup.log /\ sup'.left = sup.left
            /\ sup'.written = sup.written /\ sup'.count = sup.count /\ sup'.eof = sup.eof
            /\ sup'.exitSent = sup.exitSent /\ sup'.final = sup.final /\ sup'.stdin = stdin
        BY <2>2, <2>9, <4>2 DEF Same, SameTalk, SameStreams, SameReading
      <4>4. TypeOK' /\ Owned' /\ Paced' /\ Seen' /\ Steady
        BY <1>1, <2>9, <3>2, <4>3, <2>3
           DEF IInv, TypeOK, Owned, FailureKillsChild, Ok, Paced, Seen, Begun, Steady,
               Early, Asking, Reading, Reacting, Loop, Ending, Same, SameTalk, SameStreams,
               SameReading
      <4>5. Streamed'
        BY <1>1, <2>9, <3>2, <4>3, QuietKeepsStreamed
           DEF IInv, Quiet, Same, SameStreams
      <4>6. ~fault' => Blameless'
        BY <1>1, <2>9, <3>2, <4>3, NoEventsFacts
           DEF IInv, Blameless, HostKeeps, KidKeeps, PollKeeps, Ok, Reading, Reacting, Loop,
               Ending, Same, SameTalk, SameStreams, SameReading
      <4> QED BY <4>4, <4>5, <4>6 DEF IInv

    <3> QED BY <1>1, <2>2, <3>3, <3>4, NoControlOf
  <2>14. CASE sup' = Goto(s, "Poll") /\ ~(s.child = "Reaped" /\ s.written < Query)
    <3>1. /\ sup' \in Supervisors /\ Same(s, sup') /\ sup'.at = "Poll"
          /\ sup'.child = s.child /\ sup'.error = s.error /\ sup'.ev = s.ev
      BY <2>2, <2>14, GotoFacts DEF Places
    <3>2. /\ sup' \in Supervisors /\ sup'.at = "Poll"
          /\ sup'.child = sup.child /\ sup'.error = sup.error /\ sup'.ev = NoEvents
          /\ sup'.grant = sup.grant /\ SameTalk(sup, sup') /\ SameReading(sup, sup')
          /\ sup'.log = sup.log /\ sup'.left = sup.left
          /\ sup'.written = sup.written /\ sup'.count = sup.count /\ sup'.eof = sup.eof
          /\ sup'.exitSent = sup.exitSent /\ sup'.final = sup.final /\ sup'.stdin = stdin
      BY <2>2, <2>9, <3>1 DEF Same, SameTalk, SameStreams, SameReading
    <3>3. TypeOK' /\ Owned' /\ Paced' /\ Seen' /\ Steady
      BY <1>1, <2>9, <3>2, <2>3
         DEF IInv, TypeOK, Owned, FailureKillsChild, Ok, Paced, Seen, Begun, Steady, Early,
             Asking, Reading, Reacting, Loop, Ending, Same, SameTalk, SameStreams,
             SameReading
    <3>4. Streamed'
      BY <1>1, <2>9, <3>2, QuietKeepsStreamed
         DEF IInv, Quiet, Same, SameStreams
    <3>5. ~fault' => Blameless'
      BY <1>1, <2>9, <3>2, NoEventsFacts
         DEF IInv, Blameless, HostKeeps, KidKeeps, PollKeeps, Ok, Reading, Reacting, Loop,
             Ending, Same, SameTalk, SameStreams, SameReading
    <3> QED BY <3>3, <3>4, <3>5 DEF IInv

  <2>15. \/ s.child = "Reaped" /\ s.written < Query
         \/ s.written = Query /\ Drained(s) /\ ~s.exitSent
         \/ s.written = Query /\ Drained(s) /\ s.exitSent /\ ~s.final
         \/ s.written = Query /\ Drained(s) /\ s.exitSent /\ s.final
         \/ sup' = Goto(s, "Poll") /\ ~(s.child = "Reaped" /\ s.written < Query)
    BY <2>4 DEF Concluded
  <2> QED BY <2>10, <2>11, <2>12, <2>13, <2>14, <2>15
<1> QED BY <1>3, <1>4

LEMMA InterruptedKeeps ==
  ASSUME IInv, Interrupted
  PROVE  IInv' /\ Steady
<1>1. sup.at = "Poll" /\ sup \in Supervisors
  BY DEF Interrupted, At, IInv, TypeOK
<1>2. /\ sup' \in Supervisors /\ Same(sup, sup') /\ sup'.at = "Top"
      /\ sup'.child = sup.child /\ sup'.error = sup.error /\ sup'.ev = sup.ev
      /\ UNCHANGED <<kid, host, late, fault>>
  BY <1>1, GotoFacts DEF Interrupted, Local, Places
<1>3. TypeOK' /\ Owned' /\ Paced' /\ Seen' /\ Steady
  BY <1>1, <1>2
     DEF IInv, TypeOK, Owned, FailureKillsChild, Ok, Paced, Seen, Begun, Steady, Early,
         Asking, Reading, Reacting, Loop, Ending, Same, SameTalk, SameStreams, SameReading
<1>4. Streamed'
  BY <1>1, <1>2, QuietKeepsStreamed
     DEF IInv, Quiet, Same, SameStreams
<1>5. ~fault' => Blameless'
  BY <1>1, <1>2
     DEF IInv, Blameless, HostKeeps, KidKeeps, PollKeeps, Ok, Reading, Reacting, Loop,
         Ending, Same, SameTalk, SameStreams, SameReading
<1> QED BY <1>3, <1>4, <1>5 DEF IInv


\* What a poll reports is how the descriptors are.
LEMMA ReadinessFacts ==
  ASSUME NEW e \in Readiness
  PROVE  /\ e \in Polled
         /\ e.control = ControlEvent /\ e.listener = ListenerEvent
         /\ e.output = "bad" => ~host.output
         /\ e.stdin # "idle" => sup.stdin = TRUE
         /\ e.stdin = "bad" => ~kid.stdin
         /\ \A k \in e.read : k \in Streams /\ Readable(k)
<1> DEFINE outputs == IF ~host.output THEN {"bad"} ELSE IF sup.left > 0 THEN {"idle", "write"} ELSE {"idle"}
           stdins == IF ~sup.stdin THEN {"idle"} ELSE IF ~kid.stdin THEN {"bad"} ELSE {"idle", "write"}
           pid == sup.child = "Running" /\ Reapable
           read == {k \in Streams : Readable(k)}
<1>1. e \in [control : {ControlEvent}, pid : {pid}, listener : {ListenerEvent},
             output : outputs, stdin : stdins, read : {read}]
  BY DEF Readiness
<1>2. ControlEvent \in {"idle", "read", "bad"} /\ ListenerEvent \in {"idle", "read", "hup"}
  BY DEF ControlEvent, ListenerEvent
<1>3. outputs \subseteq {"idle", "write", "bad"} /\ stdins \subseteq {"idle", "write", "bad"}
      /\ pid \in BOOLEAN /\ read \in SUBSET Streams
  BY DEF Reapable
<1>4. /\ "bad" \in outputs => ~host.output
      /\ "bad" \in stdins => ~kid.stdin
      /\ "write" \in stdins \/ "bad" \in stdins => sup.stdin
      /\ \A k \in read : k \in Streams /\ Readable(k)
  OBVIOUS
<1> HIDE DEF outputs, stdins, pid, read
<1>5. e \in Polled
  BY <1>1, <1>2, <1>3 DEF Polled
<1> QED BY <1>1, <1>3, <1>4, <1>5

LEMMA PollIsHarmless ==
  ASSUME IInv, Poll
  PROVE  IInv' /\ Steady
<1>1. sup.at = "Poll" /\ sup \in Supervisors /\ kid \in Kids /\ fault \in BOOLEAN
      /\ sup.at \notin {"Entry", "Flush", "Arm", "Query"} \cup Ending
  BY DEF Poll, At, Ending, IInv, TypeOK
<1>2. PICK e \in Readiness :
        sup' = Goto([sup EXCEPT !.ev = e], "Control") /\ UNCHANGED <<kid, host, late, fault>>
  BY DEF Poll, Local
<1>3. /\ e \in Polled /\ "Control" \in Places
      /\ e.control = ControlEvent /\ e.listener = ListenerEvent
      /\ e.output = "bad" => ~host.output
      /\ e.stdin # "idle" => sup.stdin
      /\ e.stdin = "bad" => ~kid.stdin
      /\ \A k \in e.read : k \in Streams /\ Readable(k)
  BY ReadinessFacts DEF Places
<1>4. /\ sup' \in Supervisors /\ Same(sup, sup') /\ sup'.at = "Control" /\ sup'.ev = e
      /\ sup'.error = sup.error /\ sup'.child = sup.child
  BY <1>1, <1>2, <1>3 DEF Goto, Supervisors, Same, SameTalk, SameStreams, SameReading
<1>5. UNCHANGED <<kid, host, late, fault>>
  BY <1>2
<1>6. \A k \in e.read : ~sup.eof[k]
  BY <1>3 DEF Readable
<1>7. ASSUME ~fault'
      PROVE  /\ e.control = "idle" /\ e.output # "bad" /\ e.listener # "read"
             /\ e.listener = "hup" => kid.state \in {"Dying", "Exited", "Gone"}
             /\ e.stdin # "bad"
  <2>1. ~fault /\ Blameless
    BY <1>5, <1>7 DEF IInv
  <2>2. e.control = "idle"
    BY <1>1, <1>3, <2>1, NoControlFacts DEF ControlEvent
  <2>3. e.output # "bad"
    BY <1>3, <2>1 DEF Blameless, HostKeeps
  <2>4. e.listener # "read"
    BY <1>1, <1>3, <2>1 DEF ListenerEvent, Blameless, KidKeeps
  <2>5. e.listener = "hup" => kid.state \in {"Dying", "Exited", "Gone"}
    BY <1>3, <2>4 DEF ListenerEvent
  <2>6. ASSUME e.stdin = "bad" PROVE FALSE
    <3>1. kid.read = Query
      BY <1>3, <2>1, <2>6 DEF Blameless, KidKeeps
    <3>2. sup.written < Query /\ kid.read <= sup.written
      BY <1>1, <1>3, <2>6 DEF IInv, Seen
    <3>3. Query \in Int /\ sup.written \in Int
      BY <1>1, NativeAssumption DEF Supervisors
    <3> QED BY <3>1, <3>2, <3>3
  <2> QED BY <2>2, <2>3, <2>4, <2>5, <2>6
<1>8. TypeOK' /\ Owned' /\ Paced' /\ Seen' /\ Steady
  BY <1>1, <1>4, <1>5, <1>6, <1>3
     DEF IInv, TypeOK, Owned, FailureKillsChild, Ok, Paced, Seen, Begun, Steady, Early,
         Asking, Reading, Reacting, Loop, Ending, Same, SameTalk, SameStreams, SameReading
<1>9. Streamed'
  BY <1>1, <1>4, <1>5, QuietKeepsStreamed
     DEF IInv, Quiet, Same, SameStreams
<1>10. ~fault' => Blameless'
  BY <1>1, <1>4, <1>5, <1>7
     DEF IInv, Blameless, HostKeeps, KidKeeps, PollKeeps, Ok, Reading, Reacting, Loop,
         Ending, Same, SameTalk, SameStreams, SameReading
<1> QED BY <1>8, <1>9, <1>10 DEF IInv

LEMMA ReactControlKeeps ==
  ASSUME IInv, ReactControl
  PROVE  IInv' /\ Steady
<1>1. sup.at = "Control" /\ sup.at \notin {"Entry", "Flush", "Arm", "Query"} \cup Ending
      /\ sup \in Supervisors /\ UNCHANGED <<kid, host, late, fault>> /\ fault \in BOOLEAN
  BY DEF ReactControl, At, Ending, Local, IInv, TypeOK
<1>2. Ok(sup) /\ {"Deadline", "ControlLost"} \subseteq Errors
  BY <1>1, NotFailed DEF Errors
<1>3. CASE late
  <2>1. Checked(sup) = Fail(sup, "Deadline") /\ ~Ok(Fail(sup, "Deadline"))
    BY <1>1, <1>2, <1>3, CheckedFacts, FailFacts, NativeAssumption DEF Ok
  <2>2. sup' = Fail(sup, "Deadline")
    BY <2>1 DEF ReactControl, Local
  <2> QED BY <1>1, <1>2, <2>2, PlainFail
<1>4. CASE ~late /\ sup.ev.control = "bad"
  <2>1. sup' = Fail(sup, "ControlLost")
    BY <1>2, <1>4, CheckedFacts DEF ReactControl, Local
  <2>2. fault
    BY <1>4 DEF IInv, Blameless, PollKeeps
  <2> QED BY <1>1, <1>2, <2>1, <2>2, PlainFail
<1>5. ASSUME fault, NEW e \in Errors, NoControl(sup) = Fail(sup, e),
             sup' = Then(NoControl(sup), "Child")
      PROVE  IInv' /\ Steady
  <2>1. ~Ok(Fail(sup, e))
    BY <1>1, FailFacts, NativeAssumption DEF Ok
  <2>2. sup' = Fail(sup, e)
    BY <1>5, <2>1 DEF Then
  <2> QED BY <1>1, <1>5, <2>2, PlainFail
<1>6. CASE sup' = Goto(sup, "Child")
  <2>1. /\ sup' \in Supervisors /\ Same(sup, sup') /\ sup'.at = "Child"
        /\ sup'.error = sup.error /\ sup'.child = sup.child /\ sup'.ev = sup.ev
    BY <1>1, <1>6, GotoFacts DEF Places
  <2>2. UNCHANGED <<kid, host, late, fault>>
    BY <1>1
  <2>3. TypeOK' /\ Owned' /\ Paced' /\ Seen' /\ Steady
    BY <1>1, <2>1, <2>2
       DEF IInv, TypeOK, Owned, FailureKillsChild, Ok, Paced, Seen, Begun, Steady, Early,
           Asking, Reading, Reacting, Loop, Ending, Same, SameTalk, SameStreams, SameReading
  <2>4. Streamed'
    BY <1>1, <2>1, <2>2, QuietKeepsStreamed
       DEF IInv, Quiet, Same, SameStreams
  <2>5. ~fault' => Blameless'
    BY <1>1, <2>1, <2>2
       DEF IInv, Blameless, HostKeeps, KidKeeps, PollKeeps, Ok, Reading, Reacting, Loop,
           Ending, Same, SameTalk, SameStreams, SameReading
  <2> QED BY <2>3, <2>4, <2>5 DEF IInv

<1>7. CASE ~late /\ sup.ev.control # "bad"
  <2>1. \/ sup' = Goto(sup, "Child")
        \/ sup' = Then(NoControl(sup), "Child")
    BY <1>2, <1>7, CheckedFacts DEF ReactControl, Local
  <2>2. CASE NoControl(sup) = sup
    BY <1>2, <1>6, <2>1, <2>2 DEF Then
  <2>3. CASE NoControl(sup) # sup
    BY <1>1, <1>5, <1>6, <2>1, <2>3, NoControlFacts
  <2> QED BY <2>2, <2>3
<1> QED BY <1>3, <1>4, <1>7

LEMMA ReactChildKeeps ==
  ASSUME IInv, ReactChild
  PROVE  IInv' /\ Steady
<1> DEFINE r == IF sup.ev.pid THEN Reap(sup) ELSE sup
           s == IF sup.ev.listener = "hup" THEN Reap(r) ELSE r
<1>1. sup.at = "Child" /\ sup.at \notin Ending /\ sup \in Supervisors /\ kid \in Kids
      /\ UNCHANGED <<host, late, fault>> /\ fault \in BOOLEAN
  BY DEF ReactChild, At, Ending, IInv, TypeOK
<1>2. /\ r \in Supervisors /\ Same(sup, r) /\ r.at = sup.at /\ r.error = sup.error
      /\ r.ev = sup.ev
      /\ r.child = sup.child \/ (sup.child = "Running" /\ Reapable /\ r.child = "Reaped")
  BY <1>1, ReapFacts DEF Same, SameTalk, SameStreams, SameReading
<1>3. Reap(r) \in Supervisors /\ Same(r, Reap(r)) /\ Reap(r).at = r.at
      /\ Reap(r).error = r.error /\ Reap(r).ev = r.ev
      /\ Reap(r).child = (IF r.child = "Running" /\ Reapable THEN "Reaped" ELSE r.child)
  BY <1>2, ReapFacts
<1>4. sup' = (IF sup.ev.listener = "read" THEN Fail(s, "Notification")
              ELSE IF sup.ev.listener = "hup" /\ s.child # "Reaped"
              THEN Fail(s, "ListenerLost")
              ELSE Goto(s, "Output"))
      /\ Reaping(s)
  BY DEF ReactChild
<1> HIDE DEF r
<1>5. /\ s \in Supervisors /\ Same(sup, s) /\ s.at = sup.at /\ s.error = sup.error
      /\ s.ev = sup.ev
      /\ s.child = sup.child \/ (sup.child = "Running" /\ Reapable /\ s.child = "Reaped")
      /\ sup.ev.listener = "hup" /\ Reapable => s.child # "Running"
  <2>1. CASE sup.ev.listener = "hup"
    <3>1. s = Reap(r)
      BY <2>1
    <3> HIDE DEF s
    <3>2. /\ s \in Supervisors /\ Same(sup, s) /\ s.at = sup.at /\ s.error = sup.error
          /\ s.ev = sup.ev
      BY <1>2, <1>3, <3>1 DEF Same, SameTalk, SameStreams, SameReading
    <3> QED BY <1>2, <1>3, <3>1, <3>2
  <2>2. CASE sup.ev.listener # "hup"
    BY <1>2, <2>2
  <2> QED BY <2>1, <2>2
<1>6. /\ kid' \in Kids /\ kid'.notice = kid.notice /\ kid'.killed = kid.killed
      /\ kid'.stdin = kid.stdin /\ kid'.read = kid.read
      /\ kid'.out = kid.out /\ kid'.open = kid.open
      /\ kid'.state =
           (IF sup.child = "Running" /\ s.child = "Reaped" THEN "Gone" ELSE kid.state)
  BY <1>1, <1>4, ReapingFacts
<1> HIDE DEF s
<1>7. \/ s.child = sup.child /\ kid'.state = kid.state
      \/ /\ sup.child = "Running" /\ kid.state = "Exited"
         /\ s.child = "Reaped" /\ kid'.state = "Gone"
  BY <1>5, <1>6 DEF Reapable
<1>8. Near(s) /\ Follows(s.child)
  <2>1. sup.used <= sup.taken /\ sup.taken <= host.sent
    BY DEF IInv, TypeOK
  <2> QED BY <1>5, <1>6, <1>7, <2>1 DEF Near, Follows, Same, SameTalk, SameStreams, SameReading
<1>9. {"Notification", "ListenerLost"} \subseteq Errors /\ "Output" \in Places
  BY DEF Errors, Places
<1>10. CASE sup.ev.listener = "read"
  <2>1. sup' = Fail(s, "Notification")
    BY <1>4, <1>10
  <2>2. fault
    BY <1>10 DEF IInv, Blameless, PollKeeps
  <2> QED BY <1>1, <1>8, <1>9, <2>1, <2>2, FailKeeps
<1>11. CASE sup.ev.listener = "hup" /\ s.child # "Reaped"
  <2>1. sup' = Fail(s, "ListenerLost")
    BY <1>4, <1>11
  <2>2. fault \/ kid.state = "Dying"
    <3>1. SUFFICES ASSUME Blameless PROVE kid.state = "Dying"
      BY DEF IInv
    <3>2. kid.state \in {"Dying", "Exited", "Gone"}
      BY <1>11, <3>1 DEF Blameless, PollKeeps
    <3>3. sup.child # "Absent" /\ (sup.child = "Reaped" <=> kid.state = "Gone")
      BY <1>1 DEF IInv, Owned, Loop, Reacting
    <3>4. sup.child \in {"Absent", "Running", "Reaped"}
      BY <1>1 DEF Supervisors, Facts
    <3> QED BY <1>5, <1>11, <3>2, <3>3, <3>4 DEF Reapable
  <2>3. sup'.error = "ListenerLost"
    BY <1>5, <1>9, <2>1, FailFacts
  <2>4. fault' \/ SeenHalfwayOut
    BY <1>1, <1>11, <2>2, <2>3 DEF SeenHalfwayOut
  <2>5. fault' \in BOOLEAN /\ (fault => fault')
    BY <1>1
  <2> QED BY <1>1, <1>8, <1>9, <2>1, <2>4, <2>5, FailKeeps
<1>12. CASE sup' = Goto(s, "Output")
  <2>1. /\ sup' \in Supervisors /\ Same(s, sup') /\ sup'.at = "Output"
        /\ sup'.error = s.error /\ sup'.child = s.child /\ sup'.ev = s.ev
    BY <1>5, <1>9, <1>12, GotoFacts
  <2>2. /\ sup' \in Supervisors /\ Same(sup, sup') /\ sup'.at = "Output"
        /\ sup'.error = sup.error /\ sup'.child = s.child /\ sup'.ev = sup.ev
    BY <1>5, <2>1 DEF Same, SameTalk, SameStreams, SameReading
  <2>3. UNCHANGED <<host, late, fault>>
    BY <1>1
  <2>4. /\ kid' \in Kids /\ kid'.notice = kid.notice /\ kid'.killed = kid.killed
        /\ kid'.stdin = kid.stdin /\ kid'.read = kid.read
        /\ kid'.out = kid.out /\ kid'.open = kid.open
    BY <1>6
  <2>5. TypeOK' /\ Owned' /\ Paced' /\ Seen' /\ Steady
    BY <1>1, <1>7, <2>2, <2>3, <2>4
       DEF IInv, TypeOK, Owned, FailureKillsChild, Ok, Paced, Seen, Begun, Steady, Early,
           Asking, Reading, Reacting, Loop, Ending, Same, SameTalk, SameStreams, SameReading
  <2>6. Streamed'
    BY <1>1, <1>7, <2>2, <2>3, <2>4, QuietKeepsStreamed
       DEF IInv, Quiet, Same, SameStreams
  <2>7. ~fault' => Blameless'
    BY <1>1, <1>7, <2>2, <2>3, <2>4
       DEF IInv, Blameless, HostKeeps, KidKeeps, PollKeeps, Ok, Reading, Reacting, Loop,
           Ending, Same, SameTalk, SameStreams, SameReading
  <2> QED BY <2>5, <2>6, <2>7 DEF IInv

<1> QED BY <1>4, <1>10, <1>11, <1>12

LEMMA ReactOutputKeeps ==
  ASSUME IInv, ReactOutput
  PROVE  IInv' /\ Steady
<1>1. sup.at = "Output" /\ sup.at \notin Ending /\ sup \in Supervisors
  BY DEF ReactOutput, At, Ending, IInv, TypeOK
<1>2. {"ControlLost", "System"} \subseteq Errors /\ "Stdin" \in Places
  BY DEF Errors, Places
<1>3. CASE sup.ev.output = "bad" /\ Local(Fail(sup, "ControlLost"))
  <2>1. fault
    BY <1>3 DEF IInv, Blameless, PollKeeps
  <2> QED BY <1>1, <1>2, <1>3, <2>1, LocalFail
<1>4. CASE ~host.output /\ Local(Fail(sup, "System"))
  <2>1. fault
    BY <1>4 DEF IInv, Blameless, HostKeeps
  <2> QED BY <1>1, <1>2, <1>4, <2>1, LocalFail
<1>5. CASE Local(Goto(sup, "Stdin"))
  <2>1. /\ sup' \in Supervisors /\ Same(sup, sup') /\ sup'.at = "Stdin"
        /\ sup'.error = sup.error /\ sup'.child = sup.child /\ sup'.ev = sup.ev
    BY <1>1, <1>2, <1>5, GotoFacts DEF Local
  <2>2. UNCHANGED <<kid, host, late, fault>>
    BY <1>5 DEF Local
  <2>3. TypeOK' /\ Owned' /\ Paced' /\ Seen' /\ Steady
    BY <1>1, <2>1, <2>2
       DEF IInv, TypeOK, Owned, FailureKillsChild, Ok, Paced, Seen, Begun, Steady, Early,
           Asking, Reading, Reacting, Loop, Ending, Same, SameTalk, SameStreams, SameReading
  <2>4. Streamed'
    BY <1>1, <2>1, <2>2, QuietKeepsStreamed
       DEF IInv, Quiet, Same, SameStreams
  <2>5. ~fault' => Blameless'
    BY <1>1, <2>1, <2>2
       DEF IInv, Blameless, HostKeeps, KidKeeps, PollKeeps, Ok, Reading, Reacting, Loop,
           Ending, Same, SameTalk, SameStreams, SameReading
  <2> QED BY <2>3, <2>4, <2>5 DEF IInv

<1>6. ASSUME NEW n \in 0 .. sup.left, Local(Goto([sup EXCEPT !.left = @ - n], "Stdin"))
      PROVE  IInv' /\ Steady
  <2>1. sup.left - n \in 0 .. FrameUnits
    BY <1>1 DEF Supervisors, FrameUnits
  <2>2. /\ sup' \in Supervisors /\ sup'.at = "Stdin"
        /\ SameTalk(sup, sup') /\ SameReading(sup, sup') /\ sup'.grant = sup.grant
        /\ sup'.log = sup.log /\ sup'.written = sup.written /\ sup'.stdin = sup.stdin
        /\ sup'.count = sup.count /\ sup'.eof = sup.eof /\ sup'.exitSent = sup.exitSent
        /\ sup'.final = sup.final
        /\ sup'.error = sup.error /\ sup'.child = sup.child /\ sup'.ev = sup.ev
    BY <1>1, <1>2, <1>6, <2>1 DEF Goto, Local, Supervisors, SameTalk, SameReading
  <2>3. UNCHANGED <<kid, host, late, fault>>
    BY <1>6 DEF Local
  <2>4. TypeOK' /\ Owned' /\ Paced' /\ Seen' /\ Steady
    BY <1>1, <2>2, <2>3
       DEF IInv, TypeOK, Owned, FailureKillsChild, Ok, Paced, Seen, Begun, Steady, Early,
           Asking, Reading, Reacting, Loop, Ending, Same, SameTalk, SameStreams, SameReading
  <2>5. Streamed'
    BY <1>1, <2>2, <2>3, QuietKeepsStreamed
       DEF IInv, Quiet, Same, SameStreams
  <2>6. ~fault' => Blameless'
    BY <1>1, <2>2, <2>3
       DEF IInv, Blameless, HostKeeps, KidKeeps, PollKeeps, Ok, Reading, Reacting, Loop,
           Ending, Same, SameTalk, SameStreams, SameReading
  <2> QED BY <2>4, <2>5, <2>6 DEF IInv

<1> QED BY <1>3, <1>4, <1>5, <1>6 DEF ReactOutput

LEMMA ReactStdinKeeps ==
  ASSUME IInv, ReactStdin
  PROVE  IInv' /\ Steady
<1>1. sup.at = "Stdin" /\ sup.at \notin Ending /\ sup \in Supervisors
  BY DEF ReactStdin, At, Ending, IInv, TypeOK
<1>2. {"Child", "System"} \subseteq Errors /\ "Read" \in Places
  BY DEF Errors, Places
<1>3. CASE sup.ev.stdin = "bad" /\ Local(Fail(sup, "Child"))
  <2>1. fault
    BY <1>1, <1>3 DEF IInv, Blameless, PollKeeps, Reacting
  <2> QED BY <1>1, <1>2, <1>3, <2>1, LocalFail
<1>4. CASE sup.ev.stdin = "write" /\ ~kid.stdin /\ Local(Fail(sup, "System"))
  <2>1. fault
    <3>1. SUFFICES ASSUME Blameless PROVE FALSE
      BY DEF IInv
    <3>2. kid.read = Query
      BY <1>4, <3>1 DEF Blameless, KidKeeps
    <3>3. sup.written < Query /\ kid.read <= sup.written
      BY <1>1, <1>4 DEF IInv, Seen, Reacting
    <3>4. Query \in Int /\ sup.written \in Int
      BY <1>1, NativeAssumption DEF Supervisors
    <3> QED BY <3>2, <3>3, <3>4
  <2> QED BY <1>1, <1>2, <1>4, <2>1, LocalFail
<1>5. CASE Local(Goto(sup, "Read"))
  <2>1. /\ sup' \in Supervisors /\ Same(sup, sup') /\ sup'.at = "Read"
        /\ sup'.error = sup.error /\ sup'.child = sup.child /\ sup'.ev = sup.ev
    BY <1>1, <1>2, <1>5, GotoFacts DEF Local
  <2>2. UNCHANGED <<kid, host, late, fault>>
    BY <1>5 DEF Local
  <2>3. TypeOK' /\ Owned' /\ Paced' /\ Seen' /\ Steady
    BY <1>1, <2>1, <2>2
       DEF IInv, TypeOK, Owned, FailureKillsChild, Ok, Paced, Seen, Begun, Steady, Early,
           Asking, Reading, Reacting, Loop, Ending, Same, SameTalk, SameStreams, SameReading
  <2>4. Streamed'
    BY <1>1, <2>1, <2>2, QuietKeepsStreamed
       DEF IInv, Quiet, Same, SameStreams
  <2>5. ~fault' => Blameless'
    BY <1>1, <2>1, <2>2
       DEF IInv, Blameless, HostKeeps, KidKeeps, PollKeeps, Ok, Reading, Reacting, Loop,
           Ending, Same, SameTalk, SameStreams, SameReading
  <2> QED BY <2>3, <2>4, <2>5 DEF IInv

<1>6. ASSUME NEW n \in 0 .. Query - sup.written,
             Local(Goto([sup EXCEPT !.written = @ + n], "Read"))
      PROVE  IInv' /\ Steady
  <2>1. /\ sup.written + n \in 0 .. Query
        /\ sup.written = Query => sup.written + n = Query
        /\ kid.read <= sup.written + n
    <3>1. Query \in Nat /\ sup.written \in 0 .. Query /\ kid.read \in 0 .. Query
      BY <1>1, NativeAssumption DEF Supervisors, IInv, TypeOK, Kids
    <3>2. kid.read <= sup.written
      BY DEF IInv, Seen
    <3> QED BY <3>1, <3>2
  <2> DEFINE w == sup.written + n
  <2>2. /\ sup' = Goto([sup EXCEPT !.written = w], "Read") /\ w \in 0 .. Query
        /\ sup.written = Query => w = Query
        /\ kid.read <= w
    BY <1>6, <2>1 DEF Local
  <2> HIDE DEF w
  <2>3. /\ sup' \in Supervisors /\ sup'.at = "Read" /\ sup'.written = w
        /\ SameTalk(sup, sup') /\ SameReading(sup, sup') /\ sup'.grant = sup.grant
        /\ sup'.log = sup.log /\ sup'.left = sup.left /\ sup'.stdin = sup.stdin
        /\ sup'.count = sup.count /\ sup'.eof = sup.eof /\ sup'.exitSent = sup.exitSent
        /\ sup'.final = sup.final
        /\ sup'.error = sup.error /\ sup'.child = sup.child /\ sup'.ev = sup.ev
    BY <1>1, <1>2, <2>2 DEF Goto, Supervisors, SameTalk, SameReading
  <2>4. UNCHANGED <<kid, host, late, fault>>
    BY <1>6 DEF Local
  <2>5. TypeOK' /\ Owned' /\ Paced' /\ Seen' /\ Steady
    BY <1>1, <2>3, <2>4, <2>2
       DEF IInv, TypeOK, Owned, FailureKillsChild, Ok, Paced, Seen, Begun, Steady, Early,
           Asking, Reading, Reacting, Loop, Ending, Same, SameTalk, SameStreams, SameReading
  <2>6. Streamed'
    BY <1>1, <2>2, <2>3, <2>4, QuietKeepsStreamed DEF IInv, Quiet
  <2>7. ~fault' => Blameless'
    BY <1>1, <2>3, <2>4
       DEF IInv, Blameless, HostKeeps, KidKeeps, PollKeeps, Ok, Reading, Reacting, Loop,
           Ending, Same, SameTalk, SameStreams, SameReading
  <2> QED BY <2>5, <2>6, <2>7 DEF IInv

<1> QED BY <1>3, <1>4, <1>5, <1>6 DEF ReactStdin

LEMMA ReactReadKeeps ==
  ASSUME IInv, ReactRead
  PROVE  IInv' /\ Steady
<1>1. sup.at = "Read" /\ sup.at \notin Ending /\ sup \in Supervisors /\ sup.ev \in Polled
      /\ UNCHANGED <<kid, host, late, fault>> /\ kid \in Kids /\ fault \in BOOLEAN
  <2>1. sup.at = "Read" /\ sup \in Supervisors /\ kid \in Kids /\ fault \in BOOLEAN
    BY DEF ReactRead, At, IInv, TypeOK
  <2>2. UNCHANGED <<kid, host, late, fault>>
    BY DEF ReactRead, Local
  <2> QED BY <2>1, <2>2 DEF Ending, Supervisors
<1>2. Ok(sup)
  BY <1>1, NotFailed
<1>3. sup.used <= sup.taken /\ sup.taken <= host.sent
  BY DEF IInv, TypeOK
<1>4. CASE sup.left # 0 \/ sup.ev.read = {}
  <2> DEFINE none == NoEvents
             t == [sup EXCEPT !.ev = none]
  <2>1. sup' = Then(Checked(t), "Top") /\ none \in Polled
    BY <1>4, NoEventsFacts DEF ReactRead, Local
  <2> HIDE DEF none
  <2>2. /\ t \in Supervisors /\ Same(sup, t) /\ t.ev = none
        /\ t.at = sup.at /\ t.error = sup.error /\ t.child = sup.child
    BY <1>1, <2>1 DEF Supervisors, Same, SameTalk, SameStreams, SameReading
  <2> HIDE DEF t
  <2>3. Ok(t)
    BY <1>2, <2>2 DEF Ok
  <2>4. CASE late
    <3>1. Checked(t) = Fail(t, "Deadline") /\ "Deadline" \in Errors
      BY <2>3, <2>4, CheckedFacts DEF Errors
    <3>2. ~Ok(Fail(t, "Deadline"))
      BY <2>2, <3>1, FailFacts, NativeAssumption DEF Ok
    <3>3. sup' = Fail(t, "Deadline")
      BY <2>1, <3>1, <3>2 DEF Then
    <3>4. Near(t)
      BY <1>1, <1>3, <2>2 DEF Near, Same, SameTalk, SameStreams, SameReading
    <3>5. Follows(t.child)
      BY <1>1, <2>2 DEF Follows
    <3> QED BY <1>1, <3>1, <3>3, <3>4, <3>5, FailKeeps
  <2>5. CASE ~late
    <3>1. sup' = Goto(t, "Top") /\ "Top" \in Places
      BY <2>1, <2>3, <2>5, CheckedFacts DEF Then, Places
    <3>2. /\ sup' \in Supervisors /\ Same(t, sup') /\ sup'.at = "Top"
          /\ sup'.error = t.error /\ sup'.child = t.child /\ sup'.ev = t.ev
      BY <2>2, <3>1, GotoFacts
    <3>3. /\ sup' \in Supervisors /\ Same(sup, sup') /\ sup'.at = "Top"
          /\ sup'.error = sup.error /\ sup'.child = sup.child /\ sup'.ev = NoEvents
      BY <2>2, <3>2 DEF none, Same, SameTalk, SameStreams, SameReading
    <3>4. UNCHANGED <<kid, host, late, fault>>
      BY <1>1
    <3>5. TypeOK' /\ Owned' /\ Paced' /\ Seen' /\ Steady
      BY <1>1, <3>3, <3>4, NoEventsFacts
         DEF IInv, TypeOK, Owned, FailureKillsChild, Ok, Paced, Seen, Begun, Steady, Early,
             Asking, Reading, Reacting, Loop, Ending, Same, SameTalk, SameStreams,
             SameReading
    <3>6. Streamed'
      BY <1>1, <3>3, <3>4, QuietKeepsStreamed
         DEF IInv, Quiet, Same, SameStreams
    <3>7. ~fault' => Blameless'
      BY <1>1, <3>3, <3>4, NoEventsFacts
         DEF IInv, Blameless, HostKeeps, KidKeeps, PollKeeps, Ok, Reading, Reacting, Loop,
             Ending, Same, SameTalk, SameStreams, SameReading
    <3> QED BY <3>5, <3>6, <3>7 DEF IInv

  <2> QED BY <2>4, <2>5
<1>5. CASE ~(sup.left # 0 \/ sup.ev.read = {})
  <2>1. PICK k \in Streams : k = NextRead /\ k \in sup.ev.read
    BY <1>1, <1>5 DEF NextRead, Polled, Streams
  <2> DEFINE e == [sup.ev EXCEPT !.read = @ \ {k}]
             s == [sup EXCEPT !.ev = e]
             available == kid.out[k] - sup.count[k]
  <2>2. /\ e \in Polled /\ e.read = sup.ev.read \ {k} /\ e.control = sup.ev.control
        /\ e.output = sup.ev.output /\ e.listener = sup.ev.listener
        /\ e.stdin = sup.ev.stdin
    BY <1>1 DEF Polled
  <2>3. \/ /\ available = 0
           /\ sup' = IF kid.open[k] THEN s ELSE Push([s EXCEPT !.eof[k] = TRUE], Eof[k])
        \/ /\ available # 0 /\ available > Limits[k] - sup.count[k]
           /\ sup' = Fail(s, "OutputLimit")
        \/ /\ available # 0 /\ sup.count[k] < Limits[k]
           /\ sup' = Push([s EXCEPT !.count[k] = @ + 1], Chunk[k])
    BY <1>5, <2>1 DEF ReactRead, Local
  <2>4. ~sup.eof[k] /\ ~sup.exitSent /\ ~sup.final
    BY <2>1 DEF IInv, Paced, Streamed
  <2>5. \A j \in e.read : ~sup.eof[j] /\ j # k
    BY <2>2 DEF IInv, Paced
  <2>6. /\ kid.out[k] \in Nat /\ sup.count[k] \in Nat /\ Limits[k] \in Nat
        /\ sup.count[k] <= Limits[k] /\ sup.count[k] <= kid.out[k]
    BY <1>1, <2>1, NativeAssumption DEF Supervisors, Kids, IInv, TypeOK
  <2>7. ~fault => /\ e.control = "idle" /\ e.output # "bad" /\ e.listener # "read"
                  /\ e.listener = "hup" => kid.state \in {"Dying", "Exited", "Gone"}
                  /\ e.stdin # "bad"
    BY <1>1, <2>2 DEF IInv, Blameless, PollKeeps, Reacting
  <2> DEFINE seen == available = 0
             beyond == available > Limits[k] - sup.count[k]
  <2>8. /\ seen => kid.out[k] = sup.count[k]
        /\ ~seen => sup.count[k] + 1 <= kid.out[k]
        /\ beyond => ~(kid.out[k] <= Limits[k])
        /\ sup.count[k] < Limits[k] => sup.count[k] + 1 <= Limits[k]
        /\ sup.count[k] + 1 \in Nat
    BY <2>6
  <2> HIDE DEF e
  <2>9. /\ s \in Supervisors /\ Same(sup, s) /\ s.ev = e
        /\ s.at = sup.at /\ s.error = sup.error /\ s.child = sup.child
    BY <1>1, <2>2 DEF Supervisors, Same, SameTalk, SameStreams, SameReading
  <2>10. UNCHANGED <<kid, host, late, fault>> /\ sup.left = 0
    BY <1>1, <1>5
  <2>11. FrameUnits \in 0 .. FrameUnits /\ Eof[k] \in Frames /\ Chunk[k] \in Frames
    BY <2>1 DEF FrameUnits, Frames
  <2> HIDE DEF s, available, seen, beyond
  <2>12. CASE seen /\ kid.open[k]
    <3>1. sup' = s
      BY <2>3, <2>12 DEF seen
    <3>2. /\ sup' \in Supervisors /\ Same(sup, sup') /\ sup'.at = "Read" /\ sup'.ev = e
          /\ sup'.error = sup.error /\ sup'.child = sup.child
      BY <1>1, <2>9, <3>1
    <3>3. TypeOK' /\ Owned' /\ Paced' /\ Seen' /\ Steady
      BY <1>1, <2>10, <3>2, <2>5
         DEF IInv, TypeOK, Owned, FailureKillsChild, Ok, Paced, Seen, Begun, Steady, Early,
             Asking, Reading, Reacting, Loop, Ending, Same, SameTalk, SameStreams,
             SameReading
    <3>4. Streamed'
      BY <1>1, <2>10, <3>2, QuietKeepsStreamed
         DEF IInv, Quiet, Same, SameStreams
    <3>5. ~fault' => Blameless'
      BY <1>1, <2>10, <3>2, <2>7
         DEF IInv, Blameless, HostKeeps, KidKeeps, PollKeeps, Ok, Reading, Reacting, Loop,
             Ending, Same, SameTalk, SameStreams, SameReading
    <3> QED BY <3>3, <3>4, <3>5 DEF IInv

  <2>13. CASE seen /\ ~kid.open[k]
    <3> DEFINE eof == [sup.eof EXCEPT ![k] = TRUE]
               grown == Append(sup.log, Eof[k])
    <3>1. /\ eof \in [Streams -> BOOLEAN] /\ eof[k] = TRUE
          /\ \A j \in Streams : j # k => eof[j] = sup.eof[j]
      BY <1>1, <2>1 DEF Supervisors
    <3>2. grown \in Seq(Frames)
      BY <1>1, <2>11 DEF Supervisors
    <3>3. s.eof = sup.eof /\ s.log = sup.log /\ s.left = 0
      BY <2>9, <2>10 DEF Same, SameStreams
    <3>4. sup' = Push([s EXCEPT !.eof[k] = TRUE], Eof[k])
      BY <2>3, <2>13 DEF seen
    <3>5. [s EXCEPT !.eof[k] = TRUE] = [s EXCEPT !.eof = eof]
      BY <3>3
    <3> DEFINE t == [s EXCEPT !.eof = eof]
    <3> HIDE DEF eof
    <3>6. t.left = 0 /\ t.log = sup.log
      BY <2>9, <3>3 DEF Supervisors
    <3>7. sup' = [t EXCEPT !.log = grown, !.left = FrameUnits]
      BY <3>4, <3>5, <3>6 DEF Push
    <3> HIDE DEF grown
    <3>8. sup' = [s EXCEPT !.eof = eof, !.log = grown, !.left = FrameUnits]
      BY <2>9, <3>7 DEF Supervisors
    <3>9. /\ sup' \in Supervisors /\ sup'.log = grown /\ sup'.eof = eof
          /\ sup'.at = s.at /\ sup'.error = s.error /\ sup'.child = s.child
          /\ sup'.grant = s.grant /\ sup'.ev = e
          /\ SameTalk(s, sup') /\ SameReading(s, sup')
          /\ sup'.written = s.written /\ sup'.stdin = s.stdin /\ sup'.count = s.count
          /\ sup'.exitSent = s.exitSent /\ sup'.final = s.final
      BY <2>9, <2>11, <3>1, <3>2, <3>8 DEF Supervisors, SameTalk, SameReading
    <3>10. /\ sup' \in Supervisors /\ sup'.log = grown /\ sup'.eof = eof
           /\ sup'.at = "Read" /\ sup'.error = sup.error /\ sup'.child = sup.child
           /\ sup'.grant = sup.grant /\ sup'.ev = e
           /\ SameTalk(sup, sup') /\ SameReading(sup, sup')
           /\ sup'.written = sup.written /\ sup'.stdin = sup.stdin /\ sup'.count = sup.count
           /\ sup'.exitSent = sup.exitSent /\ sup'.final = sup.final
      BY <1>1, <2>9, <3>9 DEF Same, SameTalk, SameStreams, SameReading
    <3>11. \A j \in e.read : ~eof[j]
      <4>1. e.read \subseteq Streams
        BY <2>2 DEF Polled
      <4> QED BY <2>5, <3>1, <4>1
    <3>12. TypeOK' /\ Owned' /\ Paced' /\ Seen' /\ Steady
      BY <1>1, <2>4, <2>10, <3>10, <3>11
         DEF IInv, TypeOK, Owned, FailureKillsChild, Ok, Paced, Seen, Begun, Steady, Early,
             Asking, Reading, Reacting, Loop, Ending, Same, SameTalk, SameStreams,
             SameReading
    <3>13. Streamed'
      <4>1. /\ Eof[k] # "Final" /\ \A j \in Streams : Eof[k] # Chunk[j] /\ Chunk[j] \in Frames
            /\ \A j \in Streams : Eof[j] = Eof[k] => j = k
        BY <2>1 DEF Chunk, Eof, Streams, Frames
      <4>2. sup'.log = Append(sup.log, Eof[k])
        BY <3>10 DEF grown
      <4>3. /\ \A f : Wrote(f)' <=> (Wrote(f) \/ f = Eof[k])
            /\ \A j \in Streams : Frequency(Chunk[j])' = Frequency(Chunk[j])
            /\ \A j \in Streams : Ordered(j) => Ordered(j)'
        <5>1. TypeOK
          BY DEF IInv
        <5> QED BY <2>11, <4>1, <4>2, <5>1, GrownFacts
      <4>4. ASSUME NEW j \in Streams
            PROVE  /\ sup'.eof[j] => sup'.count[j] = kid'.out[j] /\ ~kid'.open[j]
                   /\ Wrote(Eof[j])' <=> sup'.eof[j]
                   /\ Frequency(Chunk[j])' = sup'.count[j]
                   /\ Ordered(j)'
        <5>1. /\ sup.eof[j] => sup.count[j] = kid.out[j] /\ ~kid.open[j]
              /\ Wrote(Eof[j]) <=> sup.eof[j]
              /\ Frequency(Chunk[j]) = sup.count[j]
              /\ Ordered(j)
          BY DEF IInv, Streamed
        <5>2. CASE j = k
          BY <2>8, <2>10, <2>13, <3>1, <3>10, <4>3, <5>1, <5>2
        <5>3. CASE j # k
          BY <2>10, <3>1, <3>10, <4>1, <4>3, <5>1, <5>3
        <5> QED BY <5>2, <5>3
      <4>5. ~Wrote("Final")'
        BY <2>4, <4>1, <4>3 DEF IInv, Streamed
      <4> QED BY <2>4, <3>10, <4>4, <4>5 DEF Streamed
    <3>14. ~fault' => Blameless'
      BY <1>1, <2>4, <2>10, <3>10, <2>7
         DEF IInv, Blameless, HostKeeps, KidKeeps, PollKeeps, Ok, Reading, Reacting, Loop,
             Ending, Same, SameTalk, SameStreams, SameReading
    <3> QED BY <3>12, <3>13, <3>14 DEF IInv

  <2>14. CASE ~seen /\ beyond /\ sup' = Fail(s, "OutputLimit")
    <3>1. Near(s)
      BY <1>1, <1>3, <2>9 DEF Near, Same, SameTalk, SameStreams, SameReading
    <3>2. Follows(s.child)
      BY <1>1, <2>9 DEF Follows
    <3>3. fault
      BY <2>1, <2>8, <2>14 DEF IInv, Blameless, KidKeeps
    <3>4. "OutputLimit" \in Errors
      BY DEF Errors
    <3> QED BY <1>1, <2>14, <3>1, <3>2, <3>3, <3>4, FailKeeps
  <2>15. CASE /\ ~seen /\ sup.count[k] < Limits[k]
              /\ sup' = Push([s EXCEPT !.count[k] = @ + 1], Chunk[k])
    <3> DEFINE next == sup.count[k] + 1
               count == [sup.count EXCEPT ![k] = next]
               grown == Append(sup.log, Chunk[k])
    <3>1. next \in Nat /\ next <= Limits[k] /\ next <= kid.out[k]
      BY <2>8, <2>15
    <3>2. s.count = sup.count /\ s.log = sup.log /\ s.left = 0
      BY <2>9, <2>10 DEF Same, SameStreams
    <3>3. [s EXCEPT !.count[k] = @ + 1] = [s EXCEPT !.count = count]
      BY <3>2
    <3> HIDE DEF next
    <3>4. /\ count \in [Streams -> Nat] /\ count[k] = next
          /\ \A j \in Streams : j # k => count[j] = sup.count[j]
      BY <1>1, <2>1, <3>1 DEF Supervisors
    <3>5. grown \in Seq(Frames)
      BY <1>1, <2>11 DEF Supervisors
    <3> DEFINE t == [s EXCEPT !.count = count]
    <3> HIDE DEF count
    <3>6. t.left = 0 /\ t.log = sup.log
      BY <2>9, <3>2 DEF Supervisors
    <3>7. sup' = [t EXCEPT !.log = grown, !.left = FrameUnits]
      BY <2>15, <3>3, <3>6 DEF Push
    <3> HIDE DEF grown
    <3>8. sup' = [s EXCEPT !.count = count, !.log = grown, !.left = FrameUnits]
      BY <2>9, <3>7 DEF Supervisors
    <3>9. /\ sup' \in Supervisors /\ sup'.log = grown /\ sup'.count = count
          /\ sup'.at = s.at /\ sup'.error = s.error /\ sup'.child = s.child
          /\ sup'.grant = s.grant /\ sup'.ev = e
          /\ SameTalk(s, sup') /\ SameReading(s, sup')
          /\ sup'.written = s.written /\ sup'.stdin = s.stdin /\ sup'.eof = s.eof
          /\ sup'.exitSent = s.exitSent /\ sup'.final = s.final
      BY <2>9, <2>11, <3>4, <3>5, <3>8 DEF Supervisors, SameTalk, SameReading
    <3>10. /\ sup' \in Supervisors /\ sup'.log = grown /\ sup'.count = count
           /\ sup'.at = "Read" /\ sup'.error = sup.error /\ sup'.child = sup.child
           /\ sup'.grant = sup.grant /\ sup'.ev = e
           /\ SameTalk(sup, sup') /\ SameReading(sup, sup')
           /\ sup'.written = sup.written /\ sup'.stdin = sup.stdin /\ sup'.eof = sup.eof
           /\ sup'.exitSent = sup.exitSent /\ sup'.final = sup.final
      BY <1>1, <2>9, <3>9 DEF Same, SameTalk, SameStreams, SameReading
    <3>11. \A j \in Streams : count[j] <= Limits[j] /\ count[j] <= kid.out[j]
      BY <3>1, <3>4 DEF IInv, TypeOK
    <3>12. TypeOK' /\ Owned' /\ Paced' /\ Seen' /\ Steady
      BY <1>1, <2>4, <2>10, <3>10, <3>11, <2>5
         DEF IInv, TypeOK, Owned, FailureKillsChild, Ok, Paced, Seen, Begun, Steady, Early,
             Asking, Reading, Reacting, Loop, Ending, Same, SameTalk, SameStreams,
             SameReading
    <3>13. Streamed'
      <4>1. /\ Chunk[k] # "Final" /\ \A j \in Streams : Chunk[k] # Eof[j] /\ Chunk[j] \in Frames
            /\ \A j \in Streams : Chunk[j] = Chunk[k] => j = k
        BY <2>1 DEF Chunk, Eof, Streams, Frames
      <4>2. sup'.log = Append(sup.log, Chunk[k])
        BY <3>10 DEF grown
      <4>3. ~Wrote(Eof[k])
        BY <2>1, <2>4 DEF IInv, Streamed
      <4>4. /\ \A f : Wrote(f)' <=> (Wrote(f) \/ f = Chunk[k])
            /\ \A j \in Streams : j # k => Frequency(Chunk[j])' = Frequency(Chunk[j])
            /\ Frequency(Chunk[k])' = Frequency(Chunk[k]) + 1
            /\ \A j \in Streams : Ordered(j) => Ordered(j)'
        <5>1. TypeOK
          BY DEF IInv
        <5>2. \A j \in Streams : Chunk[k] = Chunk[j] => ~Wrote(Eof[j])
          BY <4>1, <4>3
        <5>3. /\ \A f : Wrote(f)' <=> (Wrote(f) \/ f = Chunk[k])
              /\ Frequency(Chunk[k])' = Frequency(Chunk[k]) + 1
          BY <2>11, <4>2, <5>1, GrownFacts
        <5>4. ASSUME NEW j \in Streams, j # k PROVE Frequency(Chunk[j])' = Frequency(Chunk[j])
          <6>1. Chunk[j] \in Frames /\ Chunk[j] # Chunk[k]
            BY <4>1, <5>4
          <6> QED BY <2>11, <4>2, <5>1, <6>1, GrownFacts
        <5>5. ASSUME NEW j \in Streams, Ordered(j) PROVE Ordered(j)'
          BY <2>11, <4>2, <5>1, <5>2, <5>5, GrownFacts
        <5> QED BY <5>3, <5>4, <5>5
      <4>5. ASSUME NEW j \in Streams
            PROVE  /\ sup'.eof[j] => sup'.count[j] = kid'.out[j] /\ ~kid'.open[j]
                   /\ Wrote(Eof[j])' <=> sup'.eof[j]
                   /\ Frequency(Chunk[j])' = sup'.count[j]
                   /\ Ordered(j)'
        <5>1. /\ sup.eof[j] => sup.count[j] = kid.out[j] /\ ~kid.open[j]
              /\ Wrote(Eof[j]) <=> sup.eof[j]
              /\ Frequency(Chunk[j]) = sup.count[j]
              /\ Ordered(j)
          BY DEF IInv, Streamed
        <5>2. CASE j = k
          <6>1. Frequency(Chunk[k])' = sup.count[k] + 1
            BY <4>4, <5>1, <5>2
          <6>2. sup'.count[k] = sup.count[k] + 1
            BY <3>4, <3>10 DEF next
          <6>3. ~sup'.eof[k] /\ ~Wrote(Eof[k])' /\ Ordered(k)'
            BY <2>4, <3>10, <4>1, <4>3, <4>4, <5>1, <5>2
          <6> QED BY <5>2, <6>1, <6>2, <6>3
        <5>3. CASE j # k
          BY <2>10, <3>4, <3>10, <4>1, <4>4, <5>1, <5>3
        <5> QED BY <5>2, <5>3
      <4>6. ~Wrote("Final")'
        BY <2>4, <4>1, <4>4 DEF IInv, Streamed
      <4> QED BY <2>4, <3>10, <4>5, <4>6 DEF Streamed
    <3>14. ~fault' => Blameless'
      BY <1>1, <2>4, <2>10, <3>10, <2>7
         DEF IInv, Blameless, HostKeeps, KidKeeps, PollKeeps, Ok, Reading, Reacting, Loop,
             Ending, Same, SameTalk, SameStreams, SameReading
    <3> QED BY <3>12, <3>13, <3>14 DEF IInv

  <2> QED BY <2>3, <2>12, <2>13, <2>14, <2>15 DEF seen, beyond
<1> QED BY <1>4, <1>5

-----------------------------------------------------------------------------
(* The end                                                                  *)

LEMMA KillKeeps ==
  ASSUME IInv, Kill
  PROVE  IInv' /\ Steady
<1> DEFINE place == IF sup.child = "Running" THEN "Wait" ELSE "Return"
           killed == kid.killed \/ sup.child = "Running"
<1>1. sup.at = "Cleanup" /\ sup \in Supervisors /\ kid \in Kids
  BY DEF Kill, At, IInv, TypeOK
<1>2. /\ sup' = Goto(sup, place) /\ kid' = [kid EXCEPT !.killed = killed]
      /\ UNCHANGED <<host, late, fault>>
  BY DEF Kill
<1>3. /\ place \in Places /\ killed \in BOOLEAN
      /\ place \in {"Wait", "Return"}
      /\ place = "Wait" => killed
      /\ place = "Return" => sup.child # "Running"
      /\ kid.killed => killed
  BY <1>1 DEF Places, Kids
<1> HIDE DEF place, killed
<1>4. /\ sup' \in Supervisors /\ Same(sup, sup') /\ sup'.at = place
      /\ sup'.error = sup.error /\ sup'.child = sup.child /\ sup'.ev = sup.ev
  BY <1>1, <1>2, <1>3, GotoFacts
<1>5. /\ kid' \in Kids /\ kid'.killed = killed
      /\ kid'.state = kid.state /\ kid'.notice = kid.notice /\ kid'.stdin = kid.stdin
      /\ kid'.read = kid.read /\ kid'.out = kid.out /\ kid'.open = kid.open
  BY <1>1, <1>2, <1>3 DEF Kids
<1>6. UNCHANGED <<host, late, fault>>
  BY <1>2
<1>7. sup.child \in {"Absent", "Running", "Reaped"}
  BY <1>1 DEF Supervisors, Facts
<1>8. TypeOK' /\ Owned' /\ Paced' /\ Seen' /\ Steady
  BY <1>1, <1>3, <1>4, <1>5, <1>6, <1>7
     DEF IInv, TypeOK, Owned, FailureKillsChild, Ok, Paced, Seen, Begun, Steady, Early,
         Asking, Reading, Reacting, Loop, Ending, Same, SameTalk, SameStreams, SameReading
<1>9. Streamed'
  BY <1>1, <1>3, <1>4, <1>5, <1>6, QuietKeepsStreamed
     DEF IInv, Quiet, Same, SameStreams
<1>10. ~fault' => Blameless'
  BY <1>1, <1>3, <1>4, <1>5, <1>6
     DEF IInv, Blameless, HostKeeps, KidKeeps, PollKeeps, Ok, Reading, Reacting, Loop,
         Ending, Same, SameTalk, SameStreams, SameReading
<1> QED BY <1>8, <1>9, <1>10 DEF IInv

LEMMA WaitOnceKeeps ==
  ASSUME IInv, WaitOnce
  PROVE  IInv' /\ Steady
<1> DEFINE r == Reap(sup)
<1>1. sup.at = "Wait" /\ sup \in Supervisors /\ kid \in Kids
  BY DEF WaitOnce, At, IInv, TypeOK
<1>2. sup' = Goto(r, "Return") /\ Reaping(r) /\ UNCHANGED <<host, late, fault>>
  BY DEF WaitOnce
<1>3. /\ r \in Supervisors /\ Same(sup, r) /\ r.at = sup.at /\ r.error = sup.error
      /\ r.ev = sup.ev
      /\ r.child = (IF sup.child = "Running" /\ Reapable THEN "Reaped" ELSE sup.child)
  BY <1>1, ReapFacts
<1> HIDE DEF r
<1>4. /\ kid' \in Kids /\ kid'.notice = kid.notice /\ kid'.killed = kid.killed
      /\ kid'.stdin = kid.stdin /\ kid'.read = kid.read
      /\ kid'.out = kid.out /\ kid'.open = kid.open
      /\ kid'.state =
           (IF sup.child = "Running" /\ r.child = "Reaped" THEN "Gone" ELSE kid.state)
  BY <1>1, <1>2, ReapingFacts
<1>5. /\ sup' \in Supervisors /\ Same(r, sup') /\ sup'.at = "Return"
      /\ sup'.error = r.error /\ sup'.child = r.child /\ sup'.ev = r.ev
  BY <1>2, <1>3, GotoFacts DEF Places
<1>6. /\ sup' \in Supervisors /\ Same(sup, sup') /\ sup'.at = "Return"
      /\ sup'.error = sup.error /\ sup'.child = r.child /\ sup'.ev = NoEvents
  BY <1>1, <1>3, <1>5 DEF IInv, Paced, Reacting, Same, SameTalk, SameStreams, SameReading
<1>7. /\ UNCHANGED <<host, late, fault>>
      /\ \/ r.child = sup.child /\ kid'.state = kid.state
         \/ /\ sup.child = "Running" /\ kid.state = "Exited"
            /\ r.child = "Reaped" /\ kid'.state = "Gone"
  BY <1>2, <1>3, <1>4 DEF Reapable
<1>8. /\ kid' \in Kids /\ kid'.notice = kid.notice /\ kid'.killed = kid.killed
      /\ kid'.stdin = kid.stdin /\ kid'.read = kid.read
      /\ kid'.out = kid.out /\ kid'.open = kid.open
  BY <1>4
<1>9. TypeOK' /\ Owned' /\ Paced' /\ Seen' /\ Steady
  BY <1>1, <1>6, <1>7, <1>8
     DEF IInv, TypeOK, Owned, FailureKillsChild, Ok, Paced, Seen, Begun, Steady, Early,
         Asking, Reading, Reacting, Loop, Ending, Same, SameTalk, SameStreams, SameReading
<1>10. Streamed'
  BY <1>1, <1>6, <1>7, <1>8, QuietKeepsStreamed
     DEF IInv, Quiet, Same, SameStreams
<1>11. ~fault' => Blameless'
  BY <1>1, <1>6, <1>7, <1>8, NoEventsFacts
     DEF IInv, Blameless, HostKeeps, KidKeeps, PollKeeps, Ok, Reading, Reacting, Loop,
         Ending, Same, SameTalk, SameStreams, SameReading
<1> QED BY <1>9, <1>10, <1>11 DEF IInv

LEMMA ExitKeeps ==
  ASSUME IInv, Exit
  PROVE  IInv' /\ (Ok(sup) /\ ~Ok(sup)' => Excused)
<1>1. sup.at = "Return" /\ sup \in Supervisors /\ kid \in Kids /\ host \in Hosts
      /\ fault \in BOOLEAN /\ late' = late
  BY DEF Exit, At, IInv, TypeOK
<1>2. PICK closed \in BOOLEAN :
        /\ sup' = [Goto(sup, "Exited") EXCEPT
                     !.error = IF @ = None /\ ~closed THEN "System" ELSE @]
        /\ host' = [host EXCEPT !.status = IF Ok(sup) /\ closed THEN "response" ELSE "refused"]
        /\ fault' = (fault \/ ~closed)
  BY DEF Exit
<1> DEFINE error == IF sup.error = None /\ ~closed THEN "System" ELSE sup.error
           status == IF Ok(sup) /\ closed THEN "response" ELSE "refused"
           state == IF kid.state = "None" THEN "None" ELSE "Gone"
<1>3. /\ error \in Errors \cup {None} /\ status \in {"response", "refused"}
      /\ closed => error = sup.error
      /\ state \in {"None", "Gone"} /\ (state = "None" <=> kid.state = "None")
      /\ "Exited" \in Places
  BY <1>1 DEF Errors, Places, Supervisors
<1>4. /\ sup' = [Goto(sup, "Exited") EXCEPT !.error = error]
      /\ host' = [host EXCEPT !.status = status]
      /\ kid' = [kid EXCEPT !.state = state]
  <2>1. Goto(sup, "Exited").error = sup.error
    BY <1>1 DEF Goto, Supervisors
  <2> QED BY <1>2, <2>1 DEF Exit
<1>5. fault' \in BOOLEAN /\ (fault => fault') /\ (~fault' => error = sup.error)
  BY <1>1, <1>2, <1>3
<1> HIDE DEF error, status, state
<1>6. /\ sup' \in Supervisors /\ Same(sup, sup') /\ sup'.at = "Exited" /\ sup'.error = error
      /\ sup'.child = sup.child /\ sup'.ev = sup.ev
  BY <1>1, <1>3, <1>4 DEF Goto, Supervisors, Same, SameTalk, SameStreams, SameReading
<1>7. /\ kid' \in Kids /\ kid'.state = state
      /\ kid'.killed = kid.killed /\ kid'.notice = kid.notice /\ kid'.stdin = kid.stdin
      /\ kid'.read = kid.read /\ kid'.out = kid.out /\ kid'.open = kid.open
  BY <1>1, <1>3, <1>4 DEF Kids
<1>8. /\ host' \in Hosts /\ host'.sent = host.sent /\ host'.control = host.control
      /\ host'.output = host.output /\ host'.status = status
  BY <1>1, <1>3, <1>4 DEF Hosts
<1>9. TypeOK' /\ Owned' /\ Paced' /\ Seen'
  BY <1>1, <1>3, <1>5, <1>6, <1>7, <1>8
     DEF IInv, TypeOK, Owned, FailureKillsChild, Ok, Paced, Seen, Begun, Early, Asking,
         Reading, Reacting, Loop, Ending, Same, SameTalk, SameStreams, SameReading
<1>10. Streamed'
  BY <1>1, <1>3, <1>5, <1>6, <1>7, <1>8, QuietKeepsStreamed
     DEF IInv, Quiet, Same, SameStreams
<1>11. ~fault' => Blameless'
  BY <1>1, <1>3, <1>5, <1>6, <1>7, <1>8
     DEF IInv, Blameless, HostKeeps, KidKeeps, PollKeeps, Ok, Reading, Reacting, Loop,
         Ending, Same, SameTalk, SameStreams, SameReading
<1>12. Ok(sup) /\ ~Ok(sup)' => Excused
  BY <1>5, <1>6 DEF Ok, Excused
<1> QED BY <1>9, <1>10, <1>11, <1>12 DEF IInv

LEMMA SystemCallFailsKeeps ==
  ASSUME IInv, SystemCallFails
  PROVE  IInv' /\ Steady
BY PlainFail DEF SystemCallFails, Ending, Errors

-----------------------------------------------------------------------------
(* The child                                                                *)

\* While the supervisor stands still its log is the same.
LEMMA SameLog ==
  ASSUME sup' = sup
  PROVE  /\ \A f : (Wrote(f)' <=> Wrote(f)) /\ Frequency(f)' = Frequency(f)
         /\ \A k : Ordered(k)' <=> Ordered(k)
BY DEF Wrote, Frequency, Ordered

LEMMA HandListenerKeeps ==
  ASSUME IInv, Running, HandListener
  PROVE  IInv' /\ Steady
<1>1. /\ sup \in Supervisors /\ kid \in Kids /\ fault \in BOOLEAN /\ sup.at # "Exited"
      /\ sup' = sup /\ UNCHANGED <<host, late>>
  BY DEF HandListener, KidOnly, Running, IInv, TypeOK
<1>2. /\ kid' \in Kids
      /\ kid'.state = "Handed"
      /\ kid'.notice = kid.notice /\ kid'.killed = kid.killed /\ kid'.stdin = kid.stdin /\ kid'.read = kid.read
      /\ kid'.out = kid.out /\ kid'.open = kid.open
  BY <1>1 DEF HandListener, KidOnly, Kids, Free, Alive
<1>3. /\ fault' \in BOOLEAN /\ (fault => fault')
      /\ fault' = fault
  BY <1>1 DEF HandListener, KidOnly
<1>4. kid.state = "Setup"
  BY DEF HandListener
<1>5. TypeOK' /\ Owned' /\ Paced' /\ Seen' /\ Steady
  BY <1>1, <1>2, <1>3, <1>4
     DEF IInv, TypeOK, Owned, FailureKillsChild, Ok, Paced, Seen, Begun, Steady, Early,
         Asking, Reading, Reacting, Loop, Ending, Same, SameTalk, SameStreams, SameReading
<1>6. Streamed'
  BY <1>1, <1>2, <1>3, <1>4, QuietKeepsStreamed
     DEF IInv, Quiet, Same, SameStreams
<1>7. ~fault' => Blameless'
  BY <1>1, <1>2, <1>3, <1>4
     DEF IInv, Blameless, HostKeeps, KidKeeps, PollKeeps, Ok, Reading, Reacting, Loop,
         Ending, Same, SameTalk, SameStreams, SameReading
<1> QED BY <1>5, <1>6, <1>7 DEF IInv

LEMMA AskForExecKeeps ==
  ASSUME IInv, Running, AskForExec
  PROVE  IInv' /\ Steady
<1>1. /\ sup \in Supervisors /\ kid \in Kids /\ fault \in BOOLEAN /\ sup.at # "Exited"
      /\ sup' = sup /\ UNCHANGED <<host, late>>
  BY DEF AskForExec, KidOnly, Running, IInv, TypeOK
<1>2. /\ kid' \in Kids
      /\ kid'.state = "Waiting"
      /\ kid'.notice = TRUE
      /\ kid'.killed = kid.killed /\ kid'.stdin = kid.stdin /\ kid'.read = kid.read /\ kid'.out = kid.out
      /\ kid'.open = kid.open
  BY <1>1 DEF AskForExec, KidOnly, Kids, Free, Alive
<1>3. /\ fault' \in BOOLEAN /\ (fault => fault')
      /\ fault' = fault
  BY <1>1 DEF AskForExec, KidOnly
<1>4. kid.state = "Handed"
  BY DEF AskForExec
<1>5. ~fault /\ sup.at \notin Ending => sup.at \in {"Listener", "Grant"}
  <2>1. sup.at \in Early => kid.state = "None"
    BY DEF IInv, Owned
  <2>2. ~fault => sup.at \notin {"Notice", "Send"} \cup Reading \cup Loop
    BY <1>4 DEF IInv, Blameless, KidKeeps
  <2> QED BY <1>1, <1>4, <2>1, <2>2 DEF Supervisors, Places, Early, Reading, Loop, Reacting, Ending
<1>6. TypeOK' /\ Owned' /\ Paced' /\ Seen' /\ Steady
  BY <1>1, <1>2, <1>3, <1>4
     DEF IInv, TypeOK, Owned, FailureKillsChild, Ok, Paced, Seen, Begun, Steady, Early,
         Asking, Reading, Reacting, Loop, Ending, Same, SameTalk, SameStreams, SameReading
<1>7. Streamed'
  BY <1>1, <1>2, <1>3, <1>4, QuietKeepsStreamed
     DEF IInv, Quiet, Same, SameStreams
<1>8. ~fault' => Blameless'
  BY <1>1, <1>2, <1>3, <1>4, <1>5
     DEF IInv, Blameless, HostKeeps, KidKeeps, PollKeeps, Ok, Reading, Reacting, Loop,
         Ending, Same, SameTalk, SameStreams, SameReading
<1> QED BY <1>6, <1>7, <1>8 DEF IInv

LEMMA ReadQueryKeeps ==
  ASSUME IInv, Running, ReadQuery
  PROVE  IInv' /\ Steady
<1> DEFINE read == kid.read + 1
<1>1. /\ sup \in Supervisors /\ kid \in Kids /\ fault \in BOOLEAN /\ sup.at # "Exited"
      /\ sup' = sup /\ UNCHANGED <<host, late, fault>>
  BY DEF ReadQuery, KidOnly, Running, IInv, TypeOK
<1>2. kid.state = "Running" /\ kid.stdin /\ read <= sup.written /\ read \in 0 .. Query
  <2>1. kid.read < sup.written /\ kid.read \in 0 .. Query /\ sup.written \in 0 .. Query
        /\ Query \in Nat
    BY <1>1, NativeAssumption DEF ReadQuery, Supervisors, Kids
  <2> QED BY <2>1 DEF ReadQuery
<1>3. kid' = [kid EXCEPT !.read = read]
  BY DEF ReadQuery, KidOnly
<1> HIDE DEF read
<1>4. /\ kid' \in Kids /\ kid'.read = read
      /\ kid'.state = kid.state /\ kid'.notice = kid.notice /\ kid'.killed = kid.killed
      /\ kid'.stdin = kid.stdin /\ kid'.out = kid.out /\ kid'.open = kid.open
  BY <1>1, <1>2, <1>3 DEF Kids
<1>5. sup.child # "Reaped"
  BY <1>1, <1>2 DEF IInv, Owned
<1>6. TypeOK' /\ Owned' /\ Paced' /\ Seen' /\ Steady
  BY <1>1, <1>2, <1>4
     DEF IInv, TypeOK, Owned, FailureKillsChild, Ok, Paced, Seen, Begun, Steady, Early,
         Asking, Reading, Reacting, Loop, Ending, Same, SameTalk, SameStreams, SameReading
<1>7. Streamed'
  BY <1>1, <1>2, <1>4, QuietKeepsStreamed
     DEF IInv, Quiet, Same, SameStreams
<1>8. ~fault' => Blameless'
  BY <1>1, <1>2, <1>4, <1>5
     DEF IInv, Blameless, HostKeeps, KidKeeps, PollKeeps, Ok, Reading, Reacting, Loop,
         Ending, Same, SameTalk, SameStreams, SameReading
<1> QED BY <1>6, <1>7, <1>8 DEF IInv

LEMMA CloseQueryKeeps ==
  ASSUME IInv, Running, CloseQuery
  PROVE  IInv' /\ Steady
<1>1. /\ sup \in Supervisors /\ kid \in Kids /\ fault \in BOOLEAN /\ sup.at # "Exited"
      /\ sup' = sup /\ UNCHANGED <<host, late>>
  BY DEF CloseQuery, KidOnly, Running, IInv, TypeOK
<1>2. /\ kid' \in Kids
      /\ kid'.stdin = FALSE
      /\ kid'.state = kid.state /\ kid'.notice = kid.notice /\ kid'.killed = kid.killed /\ kid'.read = kid.read
      /\ kid'.out = kid.out /\ kid'.open = kid.open
  BY <1>1 DEF CloseQuery, KidOnly, Kids, Free, Alive
<1>3. /\ fault' \in BOOLEAN /\ (fault => fault')
  BY <1>1 DEF CloseQuery, KidOnly
<1>4. /\ kid.state = "Running"
      /\ ~fault' => kid.read = Query
  <2>1. kid.read \in 0 .. Query /\ Query \in Nat
    BY <1>1, NativeAssumption DEF Kids
  <2>2. ASSUME ~fault' PROVE ~(kid.read < Query)
    BY <2>2 DEF CloseQuery
  <2> QED BY <2>1, <2>2 DEF CloseQuery
<1>5. TypeOK' /\ Owned' /\ Paced' /\ Seen' /\ Steady
  BY <1>1, <1>2, <1>3, <1>4
     DEF IInv, TypeOK, Owned, FailureKillsChild, Ok, Paced, Seen, Begun, Steady, Early,
         Asking, Reading, Reacting, Loop, Ending, Same, SameTalk, SameStreams, SameReading
<1>6. Streamed'
  BY <1>1, <1>2, <1>3, <1>4, QuietKeepsStreamed
     DEF IInv, Quiet, Same, SameStreams
<1>7. ~fault' => Blameless'
  BY <1>1, <1>2, <1>3, <1>4
     DEF IInv, Blameless, HostKeeps, KidKeeps, PollKeeps, Ok, Reading, Reacting, Loop,
         Ending, Same, SameTalk, SameStreams, SameReading
<1> QED BY <1>5, <1>6, <1>7 DEF IInv

LEMMA AskAgainKeeps ==
  ASSUME IInv, Running, AskAgain
  PROVE  IInv' /\ Steady
<1>1. /\ sup \in Supervisors /\ kid \in Kids /\ fault \in BOOLEAN /\ sup.at # "Exited"
      /\ sup' = sup /\ UNCHANGED <<host, late>>
  BY DEF AskAgain, KidOnly, Running, IInv, TypeOK
<1>2. /\ kid' \in Kids
      /\ kid'.notice = TRUE
      /\ kid'.state = kid.state /\ kid'.killed = kid.killed /\ kid'.stdin = kid.stdin /\ kid'.read = kid.read
      /\ kid'.out = kid.out /\ kid'.open = kid.open
  BY <1>1 DEF AskAgain, KidOnly, Kids, Free, Alive
<1>3. /\ fault' \in BOOLEAN /\ (fault => fault')
      /\ fault' = TRUE
  BY <1>1 DEF AskAgain, KidOnly
<1>4. TypeOK' /\ Owned' /\ Paced' /\ Seen' /\ Steady
  BY <1>1, <1>2, <1>3
     DEF IInv, TypeOK, Owned, FailureKillsChild, Ok, Paced, Seen, Begun, Steady, Early,
         Asking, Reading, Reacting, Loop, Ending, Same, SameTalk, SameStreams, SameReading
<1>5. Streamed'
  BY <1>1, <1>2, <1>3, QuietKeepsStreamed
     DEF IInv, Quiet, Same, SameStreams
<1>6. ~fault' => Blameless'
  BY <1>1, <1>2, <1>3
     DEF IInv, Blameless, HostKeeps, KidKeeps, PollKeeps, Ok, Reading, Reacting, Loop,
         Ending, Same, SameTalk, SameStreams, SameReading
<1> QED BY <1>4, <1>5, <1>6 DEF IInv

\* A child that dies closes its ends; without a fault it ran and had read the whole query.
LEMMA KidDiesKeeps ==
  ASSUME IInv, Running, KidDies
  PROVE  IInv' /\ Steady
<1> DEFINE closed == [k \in Streams |-> FALSE]
<1>1. /\ sup \in Supervisors /\ kid \in Kids /\ fault \in BOOLEAN /\ sup.at # "Exited"
      /\ sup' = sup /\ UNCHANGED <<host, late>>
  BY DEF KidDies, KidOnly, Running, IInv, TypeOK
<1>2. closed \in [Streams -> BOOLEAN] /\ \A k \in Streams : ~closed[k]
  OBVIOUS
<1>3. kid' = [kid EXCEPT !.state = "Dying", !.notice = FALSE, !.stdin = FALSE, !.open = closed]
  BY DEF KidDies, KidOnly
<1> HIDE DEF closed
<1>4. /\ kid' \in Kids /\ kid'.state = "Dying" /\ kid'.notice = FALSE /\ kid'.stdin = FALSE
      /\ kid'.open = closed
      /\ kid'.killed = kid.killed /\ kid'.read = kid.read /\ kid'.out = kid.out
  BY <1>1, <1>2, <1>3 DEF Kids
<1>5. /\ kid.state \in {"Setup", "Handed", "Waiting", "Running"}
      /\ fault' \in BOOLEAN /\ (fault => fault')
      /\ ~fault' => kid.state = "Running" /\ kid.read = Query
  <2>1. kid.read \in 0 .. Query /\ Query \in Nat
    BY <1>1, NativeAssumption DEF Kids
  <2>2. fault' \in BOOLEAN /\ (fault => fault')
    BY <1>1 DEF KidDies
  <2>3. ASSUME ~fault' PROVE kid.state = "Running" /\ ~(kid.read < Query)
    BY <2>3 DEF KidDies
  <2> QED BY <2>1, <2>2, <2>3 DEF KidDies, Alive
<1>6. ~fault' => sup.at \in Reading \cup Loop \cup Ending
  <2>1. sup.at \in Early => kid.state = "None"
    BY DEF IInv, Owned
  <2>2. ASSUME ~fault' PROVE sup.at \notin {"Listener", "Grant", "Notice", "Send"}
    BY <1>5, <2>2 DEF IInv, Blameless, KidKeeps
  <2> QED BY <1>1, <1>5, <2>1, <2>2 DEF Supervisors, Places, Early, Reading, Loop, Reacting, Ending
<1>7. TypeOK' /\ Owned' /\ Paced' /\ Seen' /\ Steady
  BY <1>1, <1>2, <1>4, <1>5
     DEF IInv, TypeOK, Owned, FailureKillsChild, Ok, Paced, Seen, Begun, Steady, Early,
         Asking, Reading, Reacting, Loop, Ending, Same, SameTalk, SameStreams, SameReading
<1>8. Streamed'
  BY <1>1, <1>2, <1>4, SameLog DEF IInv, Streamed
<1>9. ~fault' => Blameless'
  BY <1>1, <1>2, <1>4, <1>5, <1>6
     DEF IInv, Blameless, HostKeeps, KidKeeps, PollKeeps, Ok, Reading, Reacting, Loop,
         Ending, Same, SameTalk, SameStreams, SameReading
<1> QED BY <1>7, <1>8, <1>9 DEF IInv

LEMMA KidExitsKeeps ==
  ASSUME IInv, Running, KidExits
  PROVE  IInv' /\ Steady
<1>1. /\ sup \in Supervisors /\ kid \in Kids /\ fault \in BOOLEAN /\ sup.at # "Exited"
      /\ sup' = sup /\ UNCHANGED <<host, late>>
  BY DEF KidExits, KidOnly, Running, IInv, TypeOK
<1>2. /\ kid' \in Kids
      /\ kid'.state = "Exited"
      /\ kid'.notice = kid.notice /\ kid'.killed = kid.killed /\ kid'.stdin = kid.stdin /\ kid'.read = kid.read
      /\ kid'.out = kid.out /\ kid'.open = kid.open
  BY <1>1 DEF KidExits, KidOnly, Kids
<1>3. /\ fault' \in BOOLEAN /\ (fault => fault')
      /\ fault' = fault
  BY <1>1 DEF KidExits, KidOnly
<1>4. kid.state = "Dying"
  BY DEF KidExits
<1>5. TypeOK' /\ Owned' /\ Paced' /\ Seen' /\ Steady
  BY <1>1, <1>2, <1>3, <1>4
     DEF IInv, TypeOK, Owned, FailureKillsChild, Ok, Paced, Seen, Begun, Steady, Early,
         Asking, Reading, Reacting, Loop, Ending, Same, SameTalk, SameStreams, SameReading
<1>6. Streamed'
  BY <1>1, <1>2, <1>3, <1>4, QuietKeepsStreamed
     DEF IInv, Quiet, Same, SameStreams
<1>7. ~fault' => Blameless'
  BY <1>1, <1>2, <1>3, <1>4
     DEF IInv, Blameless, HostKeeps, KidKeeps, PollKeeps, Ok, Reading, Reacting, Loop,
         Ending, Same, SameTalk, SameStreams, SameReading
<1> QED BY <1>5, <1>6, <1>7 DEF IInv

\* What a stream holds grows only while it is open, so none has ended for the supervisor.
LEMMA WriteOutputKeeps ==
  ASSUME IInv, Running, NEW k \in Streams, WriteOutput(k)
  PROVE  IInv' /\ Steady
<1> DEFINE more == kid.out[k] + 1
           out == [kid.out EXCEPT ![k] = more]
<1>1. /\ sup \in Supervisors /\ kid \in Kids /\ fault \in BOOLEAN /\ sup.at # "Exited"
      /\ sup' = sup /\ UNCHANGED <<host, late>>
  BY DEF WriteOutput, KidOnly, Running, IInv, TypeOK
<1>2. /\ kid.out[k] \in Nat /\ sup.count[k] \in Nat /\ Limits[k] \in Nat
      /\ kid.out[k] <= Limits[k] /\ sup.count[k] <= kid.out[k]
  BY <1>1, NativeAssumption DEF Supervisors, Kids, IInv, TypeOK, WriteOutput
<1>3. /\ more \in Nat /\ sup.count[k] <= more
      /\ kid.out[k] # Limits[k] => more <= Limits[k]
  BY <1>2
<1>4. kid' = [kid EXCEPT !.out = out]
  BY DEF WriteOutput, KidOnly
<1> HIDE DEF more
<1>5. /\ out \in [Streams -> Nat] /\ out[k] = more
      /\ \A j \in Streams : j # k => out[j] = kid.out[j]
  BY <1>1, <1>3 DEF Kids
<1> HIDE DEF out
<1>6. /\ kid' \in Kids /\ kid'.out = out
      /\ kid'.state = kid.state /\ kid'.notice = kid.notice /\ kid'.killed = kid.killed
      /\ kid'.stdin = kid.stdin /\ kid'.read = kid.read /\ kid'.open = kid.open
  BY <1>1, <1>4, <1>5 DEF Kids
<1>7. /\ kid.state = "Running" /\ kid.open[k]
      /\ fault' \in BOOLEAN /\ (fault => fault')
      /\ ~fault' => more <= Limits[k]
  <2>1. ASSUME ~fault' PROVE kid.out[k] # Limits[k]
    BY <2>1 DEF WriteOutput
  <2> QED BY <1>1, <1>3, <2>1 DEF WriteOutput
<1>8. \A j \in Streams : sup.count[j] <= out[j]
  BY <1>3, <1>5 DEF IInv, TypeOK
<1>9. ~sup.eof[k] /\ ~sup.exitSent
  BY <1>7 DEF IInv, Streamed
<1>10. ASSUME ~fault' PROVE \A j \in Streams : out[j] <= Limits[j]
  BY <1>5, <1>7, <1>10 DEF IInv, Blameless, KidKeeps
<1>11. TypeOK' /\ Owned' /\ Paced' /\ Seen' /\ Steady
  BY <1>1, <1>6, <1>7, <1>8
     DEF IInv, TypeOK, Owned, FailureKillsChild, Ok, Paced, Seen, Begun, Steady, Early,
         Asking, Reading, Reacting, Loop, Ending, Same, SameTalk, SameStreams, SameReading
<1>12. Streamed'
  BY <1>1, <1>5, <1>6, <1>9, SameLog DEF IInv, Streamed
<1>13. ~fault' => Blameless'
  BY <1>1, <1>6, <1>7, <1>10
     DEF IInv, Blameless, HostKeeps, KidKeeps, PollKeeps, Ok, Reading, Reacting, Loop,
         Ending, Same, SameTalk, SameStreams, SameReading
<1> QED BY <1>11, <1>12, <1>13 DEF IInv

LEMMA CloseOutputKeeps ==
  ASSUME IInv, Running, NEW k \in Streams, CloseOutput(k)
  PROVE  IInv' /\ Steady
<1> DEFINE open == [kid.open EXCEPT ![k] = FALSE]
<1>1. /\ sup \in Supervisors /\ kid \in Kids /\ fault \in BOOLEAN /\ sup.at # "Exited"
      /\ sup' = sup /\ UNCHANGED <<host, late, fault>>
  BY DEF CloseOutput, KidOnly, Running, IInv, TypeOK
<1>2. kid' = [kid EXCEPT !.open = open]
  BY DEF CloseOutput, KidOnly
<1>3. open \in [Streams -> BOOLEAN] /\ \A j \in Streams : open[j] => kid.open[j]
  BY <1>1 DEF Kids
<1> HIDE DEF open
<1>4. /\ kid' \in Kids /\ kid'.open = open
      /\ kid'.state = kid.state /\ kid'.notice = kid.notice /\ kid'.killed = kid.killed
      /\ kid'.stdin = kid.stdin /\ kid'.read = kid.read /\ kid'.out = kid.out
  BY <1>1, <1>2, <1>3 DEF Kids
<1>5. TypeOK' /\ Owned' /\ Paced' /\ Seen' /\ Steady
  BY <1>1, <1>4
     DEF IInv, TypeOK, Owned, FailureKillsChild, Ok, Paced, Seen, Begun, Steady, Early,
         Asking, Reading, Reacting, Loop, Ending, Same, SameTalk, SameStreams, SameReading
<1>6. Streamed'
  BY <1>1, <1>3, <1>4, SameLog DEF IInv, Streamed
<1>7. ~fault' => Blameless'
  BY <1>1, <1>4
     DEF IInv, Blameless, HostKeeps, KidKeeps, PollKeeps, Ok, Reading, Reacting, Loop,
         Ending, Same, SameTalk, SameStreams, SameReading
<1> QED BY <1>5, <1>6, <1>7 DEF IInv

-----------------------------------------------------------------------------
(* The host and the clock                                                   *)

LEMMA HostSendsKeeps ==
  ASSUME IInv, HostSends
  PROVE  IInv' /\ Steady
<1>1. /\ sup \in Supervisors /\ host \in Hosts /\ fault \in BOOLEAN
      /\ sup' = sup /\ UNCHANGED <<kid, late>>
      /\ sup.taken <= host.sent
  BY DEF HostSends, IInv, TypeOK
<1> DEFINE sent == host.sent + 1
<1>2. /\ sent \in 0 .. 4 /\ sup.taken <= sent
      /\ host.sent # 3 => sent <= 3
  <2>1. host.sent \in 0 .. 4 /\ host.sent < 4 /\ sup.taken \in 0 .. 4
    BY <1>1 DEF HostSends, Hosts, Supervisors
  <2> QED BY <1>1, <2>1
<1>3. host' = [host EXCEPT !.sent = sent]
  BY DEF HostSends
<1> HIDE DEF sent
<1>4. /\ host' \in Hosts /\ host'.sent = sent /\ host'.control = host.control
      /\ host'.output = host.output /\ host'.status = host.status
  BY <1>1, <1>2, <1>3 DEF Hosts
<1>5. /\ fault' \in BOOLEAN /\ (fault => fault')
      /\ ~fault' => sent <= 3
  <2>1. fault' \in BOOLEAN /\ (fault => fault')
    BY <1>1 DEF HostSends
  <2>2. ASSUME ~fault' PROVE host.sent # 3
    BY <2>2 DEF HostSends
  <2> QED BY <1>2, <2>1, <2>2
<1>6. TypeOK' /\ Owned' /\ Paced' /\ Seen' /\ Steady
  BY <1>1, <1>2, <1>4, <1>5
     DEF IInv, TypeOK, Owned, FailureKillsChild, Ok, Paced, Seen, Begun, Steady, Early,
         Asking, Reading, Reacting, Loop, Ending, Same, SameTalk, SameStreams, SameReading
<1>7. Streamed'
  BY <1>1, <1>2, <1>4, <1>5, QuietKeepsStreamed
     DEF IInv, Quiet, Same, SameStreams
<1>8. ~fault' => Blameless'
  BY <1>1, <1>2, <1>4, <1>5
     DEF IInv, Blameless, HostKeeps, KidKeeps, PollKeeps, Ok, Reading, Reacting, Loop,
         Ending, Same, SameTalk, SameStreams, SameReading
<1> QED BY <1>6, <1>7, <1>8 DEF IInv

LEMMA HostHangsUpKeeps ==
  ASSUME IInv, HostHangsUp
  PROVE  IInv' /\ Steady
<1>1. /\ sup \in Supervisors /\ host \in Hosts
      /\ sup' = sup /\ UNCHANGED <<kid, late>> /\ fault' = TRUE
  BY DEF HostHangsUp, IInv, TypeOK
<1>2. host' \in Hosts /\ host'.sent = host.sent /\ host'.status = host.status
  BY <1>1 DEF HostHangsUp, Hosts
<1>3. TypeOK' /\ Owned' /\ Paced' /\ Seen' /\ Steady
  BY <1>1, <1>2
     DEF IInv, TypeOK, Owned, FailureKillsChild, Ok, Paced, Seen, Begun, Steady, Early,
         Asking, Reading, Reacting, Loop, Ending, Same, SameTalk, SameStreams, SameReading
<1>4. Streamed'
  BY <1>1, <1>2, QuietKeepsStreamed
     DEF IInv, Quiet, Same, SameStreams
<1>5. ~fault' => Blameless'
  BY <1>1, <1>2
     DEF IInv, Blameless, HostKeeps, KidKeeps, PollKeeps, Ok, Reading, Reacting, Loop,
         Ending, Same, SameTalk, SameStreams, SameReading
<1> QED BY <1>3, <1>4, <1>5 DEF IInv

LEMMA ExpireKeeps ==
  ASSUME IInv, Expire
  PROVE  IInv' /\ Steady
<1>1. sup' = sup /\ UNCHANGED <<kid, host, fault>> /\ late' \in BOOLEAN
  BY DEF Expire
<1>2. TypeOK' /\ Owned' /\ Paced' /\ Seen' /\ Steady
  BY <1>1
     DEF IInv, TypeOK, Owned, FailureKillsChild, Ok, Paced, Seen, Begun, Steady, Early,
         Asking, Reading, Reacting, Loop, Ending, Same, SameTalk, SameStreams, SameReading
<1>3. Streamed'
  BY <1>1, QuietKeepsStreamed
     DEF IInv, Quiet, Same, SameStreams
<1>4. ~fault' => Blameless'
  BY <1>1
     DEF IInv, Blameless, HostKeeps, KidKeeps, PollKeeps, Ok, Reading, Reacting, Loop,
         Ending, Same, SameTalk, SameStreams, SameReading
<1> QED BY <1>2, <1>3, <1>4 DEF IInv

LEMMA StutterKeeps ==
  ASSUME IInv, UNCHANGED vars
  PROVE  IInv' /\ Steady
<1>1. sup' = sup /\ UNCHANGED <<kid, host, late, fault>>
  BY DEF vars
<1>2. TypeOK' /\ Owned' /\ Paced' /\ Seen' /\ Steady
  BY <1>1
     DEF IInv, TypeOK, Owned, FailureKillsChild, Ok, Paced, Seen, Begun, Steady, Early,
         Asking, Reading, Reacting, Loop, Ending, Same, SameTalk, SameStreams, SameReading
<1>3. Streamed'
  BY <1>1, QuietKeepsStreamed
     DEF IInv, Quiet, Same, SameStreams
<1>4. ~fault' => Blameless'
  BY <1>1
     DEF IInv, Blameless, HostKeeps, KidKeeps, PollKeeps, Ok, Reading, Reacting, Loop,
         Ending, Same, SameTalk, SameStreams, SameReading
<1> QED BY <1>2, <1>3, <1>4 DEF IInv

-----------------------------------------------------------------------------
(* The invariant                                                            *)

LEMMA InitHolds == Init => IInv
<1> SUFFICES ASSUME Init PROVE IInv
  OBVIOUS
<1>1. /\ sup.at = "Entry" /\ sup.error = None /\ sup.child = "Absent" /\ sup.taken = 0
      /\ sup.used = 0 /\ sup.grant = "Awaiting" /\ sup.log = <<>> /\ sup.left = 0
      /\ sup.written = 0 /\ sup.stdin = TRUE /\ sup.count = [k \in Streams |-> 0]
      /\ sup.eof = [k \in Streams |-> FALSE] /\ sup.exitSent = FALSE /\ sup.final = FALSE
      /\ sup.reads = 1 /\ sup.retried = FALSE /\ sup.goal = "Stream"
      /\ sup.before = "Absent" /\ sup.pids = 1 /\ sup.listed = FALSE /\ sup.ev = NoEvents
  BY DEF Init
<1>2. /\ kid.state = "None" /\ kid.notice = FALSE /\ kid.killed = FALSE /\ kid.stdin = TRUE
      /\ kid.read = 0 /\ kid.out = [k \in Streams |-> 0]
      /\ kid.open = [k \in Streams |-> TRUE]
  BY DEF Init
<1>3. /\ host.sent = 0 /\ host.control = TRUE /\ host.output = TRUE /\ host.status = "none"
      /\ late = FALSE /\ fault = FALSE
  BY DEF Init
<1>4. sup \in Supervisors
  <2>1. NoEvents \in Polled /\ "Entry" \in Places /\ "Absent" \in Facts /\ 0 \in 0 .. Query
        /\ 0 \in 0 .. FrameUnits /\ <<>> \in Seq(Frames)
    BY NoEventsFacts, NativeAssumption DEF Places, Facts, FrameUnits
  <2> QED BY <2>1 DEF Init, Supervisors
<1>5. kid \in Kids /\ host \in Hosts
  BY NativeAssumption DEF Init, Kids, Hosts
<1>6. TypeOK
  <2>1. \A k \in Streams : sup.count[k] = 0 /\ kid.out[k] = 0 /\ 0 <= Limits[k]
    BY <1>1, <1>2, NativeAssumption
  <2>2. \A k \in Streams : sup.count[k] <= Limits[k] /\ sup.count[k] <= kid.out[k]
    BY <2>1
  <2>3. sup.used <= sup.taken /\ sup.taken <= host.sent
    BY <1>1, <1>3
  <2> QED BY <1>3, <1>4, <1>5, <2>2, <2>3 DEF TypeOK
<1>7. Owned
  BY <1>1, <1>2, <1>3 DEF Owned, FailureKillsChild, Ok, Early, Asking, Reading, Reacting, Loop,
                          Ending
<1>8. Streamed
  <2>1. DOMAIN sup.log = {}
    BY <1>1
  <2>2. \A f : ~Wrote(f)
    BY <2>1 DEF Wrote
  <2>3. ASSUME NEW f PROVE Frequency(f) = 0
    <3>1. {i \in DOMAIN sup.log : sup.log[i] = f} = {}
      BY <2>1
    <3> QED BY <3>1, FS_EmptySet DEF Frequency
  <2>4. \A k : Ordered(k)
    BY <2>1 DEF Ordered
  <2> QED BY <1>1, <2>2, <2>3, <2>4 DEF Streamed
<1>9. Paced
  BY <1>1, NoEventsFacts DEF Paced, Reading, Reacting
<1>10. Seen
  BY <1>1, <1>2 DEF Seen, Begun, Early, Asking, Reading, Reacting, Loop
<1>11. Blameless
  BY <1>1, <1>2, <1>3, NoEventsFacts, NativeAssumption
     DEF Blameless, HostKeeps, KidKeeps, PollKeeps, Reading, Reacting, Loop, Ending
<1> QED BY <1>6, <1>7, <1>8, <1>9, <1>10, <1>11 DEF IInv

\* Every step keeps the invariant and fails for a reason only, and all but two leave the
\* grant and the verdict alone.
LEMMA StepKeeps ==
  ASSUME IInv, [Next]_vars
  PROVE  /\ IInv'
         /\ Ok(sup) /\ ~Ok(sup)' => Excused
         /\ Steady \/ ConsumeGrant \/ Exit
<1>1. CASE Supervisor
  BY <1>1, SendReadyKeeps, FlushKeeps, ControlFailsKeeps, ReceiveArmKeeps, ReceiveQueryKeeps,
     CheckQueryKeeps, CloneOnceKeeps, ReceiveListenerKeeps, ReceiveNotificationKeeps,
     ConsumeGrantKeeps, SendContinueKeeps, CaptureBeforeKeeps, CapturePidsKeeps,
     CaptureProcsKeeps, CaptureAfterKeeps, ConcludeKeeps, InterruptedKeeps, PollIsHarmless,
     ReactControlKeeps, ReactChildKeeps, ReactOutputKeeps, ReactStdinKeeps, ReactReadKeeps,
     KillKeeps, WaitOnceKeeps, ExitKeeps
     DEF Supervisor, Steady
<1>2. CASE SystemCallFails
  BY <1>2, SystemCallFailsKeeps DEF Steady
<1>3. CASE Running /\ Kid
  BY <1>3, HandListenerKeeps, AskForExecKeeps, ReadQueryKeeps, CloseQueryKeeps, AskAgainKeeps,
     KidDiesKeeps, KidExitsKeeps, WriteOutputKeeps, CloseOutputKeeps
     DEF Kid, Steady
<1>4. CASE HostSends \/ HostHangsUp \/ Expire
  BY <1>4, HostSendsKeeps, HostHangsUpKeeps, ExpireKeeps DEF Steady
<1>5. CASE UNCHANGED vars
  BY <1>5, StutterKeeps DEF Steady
<1> QED BY <1>1, <1>2, <1>3, <1>4, <1>5 DEF Next

LEMMA InvariantHolds == Spec => []IInv
<1>1. IInv /\ [Next]_vars => IInv'
  BY StepKeeps
<1> QED BY <1>1, InitHolds, PTL DEF Spec

\* A grant is consumed, or the attempt fails; the child is as before.
LEMMA GrantFacts ==
  ASSUME IInv, ConsumeGrant
  PROVE  sup'.child = sup.child /\ (sup'.grant = "Consumed" \/ sup'.grant = sup.grant)
<1>1. sup \in Supervisors /\ Ok(sup)
      /\ sup.at \notin {"Entry", "Flush", "Arm", "Query"} \cup Ending
  BY NotFailed DEF ConsumeGrant, At, Ending, IInv, TypeOK
<1>2. {"System", "Deadline"} \subseteq Errors
  BY DEF Errors
<1>3. ASSUME NEW e \in Errors, sup' = Fail(sup, e)
      PROVE  sup'.child = sup.child /\ sup'.grant = sup.grant
  BY <1>1, <1>3, FailFacts DEF Same
<1>4. ASSUME NEW e \in Errors PROVE ~Ok(Fail(sup, e)) /\ Checked(Fail(sup, e)) = Fail(sup, e)
  BY <1>1, FailFacts, NativeAssumption DEF Ok, Checked
<1>5. CASE kid.state # "Waiting"
  BY <1>2, <1>3, <1>5 DEF ConsumeGrant, Local
<1>6. ASSUME kid.state = "Waiting", NEW e \in Errors, NoControl(sup) = Fail(sup, e)
      PROVE  sup' = Fail(sup, e)
  BY <1>4, <1>6 DEF ConsumeGrant, Local
<1>7. CASE kid.state = "Waiting" /\ NoControl(sup) = sup /\ late
  <2>1. Checked(sup) = Fail(sup, "Deadline")
    BY <1>1, <1>7, CheckedFacts
  <2>2. sup' = Fail(sup, "Deadline")
    BY <1>2, <1>4, <1>7, <2>1 DEF ConsumeGrant, Local
  <2> QED BY <1>2, <1>3, <2>2
<1>8. CASE kid.state = "Waiting" /\ NoControl(sup) = sup /\ ~late
  <2>1. sup' = Goto([sup EXCEPT !.grant = "Consumed"], "Send")
    BY <1>1, <1>8, CheckedFacts DEF ConsumeGrant, Local
  <2> QED BY <1>1, <2>1 DEF Goto, Supervisors
<1> QED BY <1>1, <1>3, <1>5, <1>6, <1>7, <1>8, NoControlFacts

\* The exit judges the attempt by its error, and a failed close is one.
LEMMA ExitFacts ==
  ASSUME Exit, sup \in Supervisors, host \in Hosts
  PROVE  /\ sup'.child = sup.child /\ sup'.grant = sup.grant
         /\ \/ host'.status = "response" /\ Ok(sup) /\ sup'.error = sup.error
            \/ host'.status = "refused" /\ (~Ok(sup) => sup'.error = sup.error)
<1>1. PICK closed \in BOOLEAN :
        /\ sup' = [Goto(sup, "Exited") EXCEPT
                     !.error = IF @ = None /\ ~closed THEN "System" ELSE @]
        /\ host' = [host EXCEPT !.status = IF Ok(sup) /\ closed THEN "response" ELSE "refused"]
  BY DEF Exit
<1>2. /\ sup'.child = sup.child /\ sup'.grant = sup.grant
      /\ closed \/ sup.error # None => sup'.error = sup.error
  BY <1>1 DEF Goto, Supervisors
<1>3. host'.status = IF Ok(sup) /\ closed THEN "response" ELSE "refused"
  BY <1>1 DEF Hosts
<1> QED BY <1>2, <1>3 DEF Ok

-----------------------------------------------------------------------------
(* The theorems                                                             *)

\* For every query and all limits: every state of the supervisor, its child and the host
\* has its type, and no more is counted of a stream than its limit and than was written.
THEOREM NativeTypes == Spec => []TypeOK
BY InvariantHolds, PTL DEF IInv

\* A failure of run() leaves no child to itself.
THEOREM NoChildIsLeft == Spec => []FailureKillsChild
<1>1. IInv => FailureKillsChild
  BY DEF IInv, Owned
<1> QED BY <1>1, InvariantHolds, PTL

\* A step that fails finds its deadline passed, a system call, the child or the host that
\* misbehaved, or the child halfway through its exit.
THEOREM FailuresHaveCauses == Spec => NoSpuriousFailure
<1> DEFINE Caused == Ok(sup) /\ ~Ok(sup)' =>
                       fault' \/ sup'.error = "Deadline" \/ SeenHalfwayOut
<1>1. IInv /\ [Next]_vars => [Caused]_vars
  BY StepKeeps DEF Excused
<1> HIDE DEF Caused
<1>2. Spec => [][Caused]_vars
  BY <1>1, InvariantHolds, PTL DEF Spec
<1> QED BY <1>2 DEF NoSpuriousFailure, Caused

\* The final frame stands for a whole attempt, last in the log.
THEOREM FinalStandsForTheAttempt == Spec => []FinalIsEarned
<1>1. IInv => FinalIsEarned
  <2>1. SUFFICES ASSUME IInv, Wrote("Final") PROVE FinalIsEarned
    BY DEF FinalIsEarned
  <2>2. sup.final /\ sup.exitSent
    BY <2>1 DEF IInv, Streamed
  <2>3. /\ sup.child = "Reaped" /\ sup.written = Query
        /\ sup.log[Len(sup.log)] = "Final" /\ sup.log[Len(sup.log) - 1] = "ChildExit"
    BY <2>1, <2>2 DEF IInv, Streamed
  <2>4. ASSUME NEW k \in Streams
        PROVE  /\ Wrote(Eof[k])
               /\ Frequency(Chunk[k]) = kid.out[k]
               /\ Ordered(k)
    BY <2>1, <2>2 DEF IInv, Streamed
  <2> QED BY <2>3, <2>4 DEF FinalIsEarned, Ordered
<1> QED BY <1>1, InvariantHolds, PTL

\* The driver implements SolverAttempt: only the grant starts the attempt, before any
\* failure, only the exit judges it, and every other step fails it, reaps or does neither.
THEOREM NativeImplements == Spec => ImplementsAttempt
<1>1. Init => Attempt!AttemptInit
  BY DEF Init, Attempt!AttemptInit, Ok
<1>2. IInv /\ [Next]_vars => [Attempt!AttemptNext]_Attempt!attemptVars
  <2> SUFFICES ASSUME IInv, [Next]_vars
               PROVE  [Attempt!AttemptNext]_Attempt!attemptVars
    OBVIOUS
  <2>1. IInv' /\ (Steady \/ ConsumeGrant \/ Exit)
    BY StepKeeps
  <2>2. (host.status = "none") <=> (sup.at # "Exited")
    BY DEF IInv, Owned
  <2>3. CASE Steady
    BY <2>2, <2>3 DEF Steady, Ok, Attempt!AttemptNext, Attempt!attemptVars, Attempt!Fail,
                      Attempt!Vanish, Attempt!Sticky
  <2>4. CASE ConsumeGrant
    <3>1. /\ sup.at = "Notice" /\ sup \in Supervisors /\ Ok(sup) /\ sup.grant = "Awaiting"
          /\ host.status = "none" /\ UNCHANGED host
      BY <2>4, NotFailed DEF ConsumeGrant, At, Local, Ending, IInv, TypeOK, Owned, Asking
    <3>2. sup'.child = sup.child /\ (sup'.grant = "Consumed" \/ sup'.grant = sup.grant)
      BY <2>4, <3>1, GrantFacts DEF IInv
    <3> QED BY <3>1, <3>2 DEF Ok, Attempt!AttemptNext, Attempt!attemptVars, Attempt!Start,
                              Attempt!Fail
  <2>5. CASE Exit
    <3>1. /\ sup.at = "Return" /\ sup \in Supervisors /\ host \in Hosts /\ host.status = "none"
          /\ Ok(sup) => sup.child = "Reaped" /\ sup.grant = "Consumed"
      BY <2>5 DEF Exit, At, IInv, TypeOK, Owned
    <3>2. /\ sup'.child = sup.child /\ sup'.grant = sup.grant
          /\ \/ host'.status = "response" /\ Ok(sup) /\ sup'.error = sup.error
             \/ host'.status = "refused" /\ (~Ok(sup) => sup'.error = sup.error)
      BY <2>5, <3>1, ExitFacts
    <3> QED BY <3>1, <3>2 DEF Ok, Attempt!AttemptNext, Attempt!Respond, Attempt!Refuse,
                              Attempt!Sticky
  <2> QED BY <2>1, <2>3, <2>4, <2>5
<1> QED BY <1>1, <1>2, InvariantHolds, PTL
        DEF Spec, ImplementsAttempt, Attempt!AttemptSpec
=============================================================================
