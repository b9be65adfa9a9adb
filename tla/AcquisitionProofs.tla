-------------------------- MODULE AcquisitionProofs --------------------------
(***************************************************************************)
(* Proofs about the acquisition for every list of requests, every limit    *)
(* and every deadline.  The invariants build on one another: where control *)
(* can be and what was counted, what was transferred, what came late, and  *)
(* what was journaled.                                                     *)
(***************************************************************************)
EXTENDS Acquisition, TLAPS

-----------------------------------------------------------------------------
(* Exceptions change where control is and nothing else of the call.        *)

LEMMA RaiseFacts ==
  ASSUME Fault \/ Alarm \/ Interrupt
  PROVE  /\ Raise /\ clock' = clock
         /\ pc \in InItem => pc' = "caught"
         /\ pc \in InBatch => pc' = "outer"
         /\ pc = "outer" => pc' = "finally"
         /\ pc \in {"preflight", "finally"} => pc' = "exit"
         /\ pc # "exit"
<1>1. Raise /\ clock' = clock
  BY DEF Fault, Alarm, Interrupt, time
<1> QED
  BY <1>1 DEF Raise, Handler, InItem, InBatch

-----------------------------------------------------------------------------
(* Control and what was counted.                                           *)

Points == InItem \cup InBatch \cup {"preflight", "outer", "finally", "exit"}
Over == {"stopped", "outer", "finally", "exit"}

ControlInv ==
  /\ pc \in Points
  /\ item \in 1 .. Len(Body) + 1
  /\ pc \in InItem => item \in Rows
  /\ pc \in {"downloaded", "audit"} \/ readback => item \notin Rows
  /\ counted \subseteq Rows
  /\ \A i \in Rows : i < item => i \in counted
  /\ \A i \in counted : i <= item
  /\ pc \in (InItem \cup {"preflight", "row"}) \ {"told"} => item \notin counted
  /\ pc = "told" => item \in counted
  /\ failure # None => pc \in Over
  /\ readback => pc \in {"finally", "exit", "outer"}
  /\ exit # None => pc = "exit"
  /\ exit = "ok" => readback /\ result = "whole"

LEMMA BodyLength == Len(Body) \in Nat /\ Len(Body) >= 1
BY BodyAssumption

LEMMA ControlInit == Init => ControlInv
BY BodyLength, NoneAssumption
   DEF Init, ControlInv, Points, InItem, InBatch, Over, Rows

LEMMA ControlStep ==
  ASSUME ControlInv, [Next]_vars
  PROVE  ControlInv'
<1> USE DEF ControlInv, Points, InItem, InBatch, Over
<1>1. CASE Open \/ CopyPrefix \/ Headers \/ Send \/ Redirect \/ Accept
  BY <1>1, NoneAssumption
     DEF Open, CopyPrefix, Headers, Send, Redirect, Accept, Step, outcome
<1>2. CASE Read \/ Ceiling \/ Receive \/ EndOfBody \/ Write \/ Check
  BY <1>2, NoneAssumption
     DEF Read, Ceiling, Receive, EndOfBody, Write, Check, Step, outcome
<1>3. CASE Preflight \/ StartItem \/ ItemFinished
  BY <1>3, NoneAssumption DEF Preflight, StartItem, ItemFinished, Step
<1>10. CASE Row
  <2>1. /\ pc = "row" /\ pc' = IF item \in Rows THEN "start" ELSE "downloaded"
        /\ UNCHANGED <<item, counted, failure, readback, result, exit>>
    BY <1>10 DEF Row, Step
  <2> QED
    BY <2>1, NoneAssumption
<1>4. CASE Count
  <2>1. /\ pc = "count" /\ pc' = "told" /\ counted' = counted \cup {item}
        /\ UNCHANGED <<item, failure, readback, result, exit>>
    BY <1>4 DEF Count, Step
  <2> QED
    BY <2>1, NoneAssumption, BodyLength DEF Rows
<1>9. CASE Told
  <2>1. /\ pc = "told" /\ pc' = "row" /\ item' = item + 1
        /\ UNCHANGED <<counted, failure, readback, result, exit>>
    BY <1>9 DEF Told, Step
  <2> QED
    BY <2>1, NoneAssumption, BodyLength DEF Rows
<1>5. CASE Caught \/ Stopped \/ Outer \/ CreateResult
  BY <1>5, NoneAssumption DEF Caught, Stopped, Outer, CreateResult, Step
<1>6. CASE Downloaded \/ Audit \/ WriteResult
  BY <1>6, NoneAssumption DEF Downloaded, Audit, WriteResult, Step
<1>7. CASE Fault \/ Alarm \/ Interrupt
  BY <1>7, RaiseFacts, NoneAssumption DEF Raise
<1>8. CASE Tick \/ UNCHANGED vars
  BY <1>8 DEF Tick, vars, outcome
<1> QED
  BY <1>1, <1>2, <1>3, <1>4, <1>5, <1>6, <1>7, <1>8, <1>9, <1>10 DEF Next, Item, Call

-----------------------------------------------------------------------------
(* Exceptions and what is told of them.                                    *)

\* Where an exception was raised but not told yet, or where none was raised at all.
Untouched == InItem \cup {"preflight", "row", "downloaded", "audit"}

ToldInv ==
  /\ raised \in Nat /\ cut \in BOOLEAN /\ failure \in Nat \cup {None}
  /\ pc \in Untouched => raised = 0
  /\ raised = 0 => ~cut /\ failure = None
  /\ pc = "caught" => raised = 1 /\ ~cut /\ failure = None
  /\ pc = "stopped" => failure # None
  /\ pc = "outer" => raised > 0 /\ (failure = None => raised = IF cut THEN 2 ELSE 1)
  /\ failure # None => failure = IF cut THEN 2 ELSE 1
  /\ result = "whole" => pc = "exit"
  /\ (pc = "finally" \/ result = "whole") /\ raised > 0 => failure # None \/ escaping
  /\ exit = "ok" => raised = 0

LEMMA ToldInit == Init => ToldInv
<1> SUFFICES ASSUME Init PROVE ToldInv
  OBVIOUS
<1>1. /\ pc = "preflight" /\ raised = 0 /\ cut = FALSE /\ failure = None
      /\ result = None /\ exit = None
  BY DEF Init
<1> QED
  BY <1>1, NoneAssumption DEF ToldInv

\* A step that raises nothing and tells nothing.
LEMMA CalmKeepsTold ==
  ASSUME ControlInv, ToldInv, pc \in Untouched, pc' \in Untouched \cup {"finally"},
         UNCHANGED <<raised, cut, failure, escaping, result, exit>>
  PROVE  ToldInv'
BY NoneAssumption DEF ControlInv, ToldInv, Untouched, InItem

LEMMA ToldStep ==
  ASSUME ControlInv, ToldInv, [Next]_vars
  PROVE  ToldInv'
<1> USE NoneAssumption
<1>1. CASE Open \/ CopyPrefix \/ Headers \/ Send \/ Redirect \/ Accept
  BY <1>1, CalmKeepsTold
     DEF Open, CopyPrefix, Headers, Send, Redirect, Accept, Step, outcome, errors, Untouched,
     InItem
<1>2. CASE Read \/ Ceiling \/ Receive \/ EndOfBody \/ Write \/ Check
  BY <1>2, CalmKeepsTold
     DEF Read, Ceiling, Receive, EndOfBody, Write, Check, Step, outcome, errors, Untouched,
     InItem
<1>3. CASE Preflight \/ StartItem \/ ItemFinished \/ Row \/ Count \/ Told
  BY <1>3, CalmKeepsTold
     DEF Preflight, StartItem, ItemFinished, Row, Count, Told, Step, errors, Untouched, InItem
<1>4. CASE Downloaded \/ Audit
  BY <1>4, CalmKeepsTold DEF Downloaded, Audit, Step, errors, Untouched, InItem
<1>5. CASE Caught
  BY <1>5 DEF Caught, Step, errors, ControlInv, ToldInv, Untouched, InItem
<1>6. CASE Stopped \/ Outer \/ CreateResult
  BY <1>6 DEF Stopped, Outer, CreateResult, Step, errors, ControlInv, ToldInv, Untouched, InItem
<1>7. CASE WriteResult
  BY <1>7 DEF WriteResult, errors, ControlInv, ToldInv, Untouched, InItem
<1>8. CASE Fault \/ Alarm \/ Interrupt
  <2>1. /\ Raise /\ pc \in Points
        /\ pc \in InItem => pc' = "caught"
        /\ pc \in InBatch => pc' = "outer"
        /\ pc = "outer" => pc' = "finally"
        /\ pc \in {"preflight", "finally"} => pc' = "exit"
        /\ pc # "exit"
    BY <1>8, RaiseFacts DEF ControlInv
  <2>2. /\ raised' = raised + 1 /\ cut' = (cut \/ pc = "caught")
        /\ failure' = failure /\ result' = result
        /\ escaping' = (escaping \/ pc = "outer")
        /\ exit' = IF pc' = "exit" THEN "error" ELSE exit
    BY <2>1 DEF Raise
  <2>3. raised \in Nat /\ raised' \in Nat /\ raised' > 0
    BY <2>2 DEF ToldInv
  <2>4. exit # "ok" /\ result # "whole"
    BY <2>1 DEF ControlInv, ToldInv
  <2>5. CASE pc \in Untouched \ {"preflight"}
    <3>1. /\ raised = 0 /\ ~cut /\ failure = None /\ pc # "caught"
          /\ raised' = 1 /\ cut' = FALSE /\ failure' = None
      BY <2>2, <2>5 DEF ToldInv, Untouched, InItem
    <3>2. pc' \in {"caught", "outer"}
      BY <2>1, <2>5 DEF Untouched, InBatch
    <3> QED
      BY <2>2, <2>4, <3>1, <3>2 DEF ToldInv, Untouched, InItem
  <2>6. CASE pc = "caught"
    <3>1. raised' = 2 /\ failure' = None
      BY <2>2, <2>6 DEF ToldInv
    <3>2. pc' = "outer"
      BY <2>1, <2>6 DEF InBatch
    <3>3. cut' = TRUE
      BY <2>2, <2>6
    <3> QED
      BY <2>2, <2>4, <3>1, <3>2, <3>3 DEF ToldInv, Untouched, InItem
  <2>7. CASE pc = "stopped"
    <3>1. /\ cut' = cut /\ failure' # None /\ pc' = "outer"
      BY <2>1, <2>2, <2>7 DEF ToldInv, InBatch
    <3> QED
      BY <2>2, <2>3, <2>4, <3>1 DEF ToldInv, Untouched, InItem
  <2>8. CASE pc = "outer"
    <3>1. /\ cut' = cut /\ escaping' = TRUE /\ pc' = "finally"
      BY <2>1, <2>2, <2>8 DEF ToldInv
    <3> QED
      BY <2>2, <2>3, <2>4, <3>1 DEF ToldInv, Untouched, InItem
  <2>9. CASE pc \in {"preflight", "finally"}
    <3>1. /\ cut' = cut /\ pc' = "exit"
      BY <2>1, <2>2, <2>9 DEF ToldInv
    <3> QED
      BY <2>2, <2>3, <2>4, <3>1, <2>9 DEF ToldInv, Untouched, InItem
  <2> QED
    BY <2>1, <2>5, <2>6, <2>7, <2>8, <2>9 DEF Points, InBatch, Untouched
<1>9. CASE Tick \/ UNCHANGED vars
  BY <1>9 DEF Tick, vars, outcome, errors, ToldInv
<1> QED
  BY <1>1, <1>2, <1>3, <1>4, <1>5, <1>6, <1>7, <1>8, <1>9 DEF Next, Item, Call

\* For every batch and however many interrupts come: the result tells the first exception, or
\* the one that kept the item's handler from telling it, and no exception passes as a success
\* (continuation2_rows, fetch_continuation2).
THEOREM FailureSafety == Spec => []FirstFailureIsTold
<1>1. ToldInv => FirstFailureIsTold
  BY DEF ToldInv, FirstFailureIsTold
<1> QED BY <1>1, ControlInit, ControlStep, ToldInit, ToldStep, PTL DEF Spec

-----------------------------------------------------------------------------
(* Deadlines.                                                              *)

InTransfer == {"open", "prefix", "headers", "send", "answer", "read", "wait", "write", "check"}

LateInv ==
  /\ pc \in Points
  /\ clock \in Nat /\ started \in Nat /\ phaseEnd \in Nat \cup {None}
  /\ pc \in InTransfer => itemEnd = started + Seconds
  /\ pc = "write" /\ late => ~Armed(itemEnd, phaseEnd)
  /\ pc \in InItem \ {"write"} => ~late

LEMMA LateInit == Init => LateInv
BY DEF Init, LateInv, Points, InItem, InTransfer

LEMMA EndsAreTimes ==
  ASSUME NEW i \in Nat \cup {None}, NEW p \in Nat \cup {None}
  PROVE  Ends(i, p) \subseteq Nat
BY LimitsAssumption DEF Ends

\* Time does not make a missed end good again.
LEMMA MissedStaysMissed ==
  ASSUME clock \in Nat, NEW i \in Nat \cup {None}, NEW p \in Nat \cup {None},
         ~Armed(i, p), clock' = clock + 1
  PROVE  ~(\A end \in Ends(i, p) : clock' < end)
<1>1. PICK end \in Ends(i, p) : ~(clock < end)
  BY DEF Armed
<1> QED
  BY <1>1, EndsAreTimes

LEMMA LateStep ==
  ASSUME LateInv, [Next]_vars
  PROVE  LateInv'
<1> USE DEF Points, InItem, InBatch, InTransfer
<1>1. CASE Open \/ Send \/ Redirect \/ CopyPrefix \/ Headers \/ Accept
  BY <1>1, LimitsAssumption
     DEF LateInv, Open, CopyPrefix, Headers, Send, Redirect, Accept, Step, time, deadlines,
     transfer
<1>2. CASE Read \/ Ceiling \/ EndOfBody
  BY <1>2 DEF LateInv, Read, Ceiling, EndOfBody, Step, time, transfer
<1>3. CASE Receive
  <2>1. /\ pc = "wait" /\ pc' = "write"
        /\ UNCHANGED <<clock, itemEnd, phaseEnd, started>>
        /\ late' = (late \/ \E end \in Ends(started + Seconds, phaseEnd) : clock >= end)
    BY <1>3 DEF Receive, Step, time, deadlines
  <2>2. Ends(started + Seconds, phaseEnd) \subseteq Nat
    BY EndsAreTimes, LimitsAssumption DEF LateInv
  <2>3. ~late /\ itemEnd = started + Seconds
    BY <2>1 DEF LateInv
  <2>4. ASSUME late' PROVE ~Armed(itemEnd, phaseEnd)
    <3>1. PICK end \in Ends(itemEnd, phaseEnd) : clock >= end
      BY <2>1, <2>3, <2>4
    <3> QED
      BY <2>2, <2>3, <3>1 DEF LateInv, Armed
  <2> QED
    BY <2>1, <2>4 DEF LateInv, Armed, Ends
<1>4. CASE Write
  <2>1. /\ pc = "write" /\ pc' = "read" /\ Armed(itemEnd, phaseEnd)
        /\ UNCHANGED <<clock, itemEnd, started, late>> /\ phaseEnd' = clock + Idle
    BY <1>4 DEF Write, Step, time
  <2> QED
    BY <2>1, LimitsAssumption DEF LateInv
<1>5. CASE Check
  BY <1>5 DEF LateInv, Check, Step, time, transfer
<1>6. CASE Row \/ StartItem
  BY <1>6, LimitsAssumption DEF LateInv, Row, StartItem, Step, time, deadlines, transfer
<1>7. CASE Preflight \/ ItemFinished \/ Count \/ Told \/ Caught \/ Stopped
  BY <1>7 DEF LateInv, Preflight, ItemFinished, Count, Told, Caught, Stopped, Step, time,
     deadlines, transfer
<1>8. CASE Downloaded \/ Audit \/ Outer \/ CreateResult \/ WriteResult
  BY <1>8 DEF LateInv, Downloaded, Audit, Outer, CreateResult, WriteResult, Step, time,
     deadlines, transfer
<1>9. CASE Fault \/ Alarm \/ Interrupt
  <2>1. Raise /\ clock' = clock /\ pc' \in {"caught", "outer", "finally", "exit"}
    BY <1>9, RaiseFacts DEF LateInv, InBatch
  <2> QED
    BY <2>1 DEF LateInv, Raise, deadlines
<1>10. CASE Tick
  <2>1. /\ clock' = clock + 1 /\ UNCHANGED <<pc, itemEnd, phaseEnd, started, late>>
    BY <1>10 DEF Tick, deadlines, transfer
  <2>2. pc = "write" /\ late => ~Armed(itemEnd, phaseEnd)'
    <3> SUFFICES ASSUME pc = "write", late PROVE ~Armed(itemEnd, phaseEnd)'
      OBVIOUS
    <3>1. ~Armed(itemEnd, phaseEnd) /\ itemEnd \in Nat
      BY LimitsAssumption DEF LateInv
    <3>2. ~(\A end \in Ends(itemEnd, phaseEnd) : clock' < end)
      BY <2>1, <3>1, MissedStaysMissed DEF LateInv
    <3> QED
      BY <2>1, <3>2 DEF Armed, Ends
  <2> QED
    BY <2>1, <2>2 DEF LateInv
<1>11. CASE UNCHANGED vars
  BY <1>11 DEF LateInv, vars, time, deadlines, transfer, Armed, Ends
<1> QED
  BY <1>1, <1>2, <1>3, <1>4, <1>5, <1>6, <1>7, <1>8, <1>9, <1>10, <1>11
     DEF Next, Item, Call

\* No item is matched of which a byte came after its end, the batch's or the idle limit,
\* for every deadline and however late the tick of the timer (ContinuationDeadlines).
THEOREM DeadlineSafety == Spec => []MatchedInTime
<1>1. LateInv => MatchedInTime
  BY DEF LateInv, MatchedInTime, InItem
<1> QED
  BY LateInit, LateStep, <1>1, PTL DEF Spec

-----------------------------------------------------------------------------
(* What was transferred.                                                   *)

Good(i) == file[i] = Whole(i) /\ answer[i].good /\ answer[i].size = Body[i]

TransferInv ==
  /\ network \in Nat /\ received \in Nat /\ received <= Limit
  /\ DOMAIN file = Rows /\ DOMAIN answer = Rows
  /\ \A i \in counted : Good(i)
  /\ pc \in {"start", "open", "prefix", "headers", "send", "answer"} => network = 0
  /\ pc = "prefix" => item = 1
  /\ pc \in {"headers", "send", "answer"} => file[item] = Start(item)
  /\ pc \in {"read", "wait", "write", "check"} =>
       answer[item] \in Answers(item) /\ network <= answer[item].size
  /\ pc \in {"read", "wait", "check"} => file[item] = Start(item) + network
  /\ pc = "check" /\ network = Body[item] => answer[item].size = Body[item]
  /\ pc \in {"finished", "count", "told"} => Good(item)

LEMMA TransferInit == Init => TransferInv
BY LimitsAssumption DEF Init, TransferInv

LEMMA RowFacts ==
  ASSUME NEW i \in Rows
  PROVE  /\ Body[i] \in Nat \ {0} /\ Start(i) \in Nat /\ Whole(i) = Start(i) + Body[i]
         /\ \A a \in Answers(i) : a.size \in Nat /\ (a.announced => a.size <= Body[i])
BY BodyAssumption, LimitsAssumption DEF Rows, Start, Whole, Answers

LEMMA CapacityFits ==
  ASSUME TransferInv, item \in Rows, NEW n \in 1 .. Capacity
  PROVE  received + n <= Limit /\ n \in Nat
<1>1. Body[item] \in Nat
  BY RowFacts
<1> QED
  BY <1>1, LimitsAssumption DEF TransferInv, Capacity

\* Counted files and their answers are not touched while another item is transferred.
LEMMA CountedUntouched ==
  ASSUME TransferInv, item \notin counted, counted' = counted,
         \A i \in counted : i # item => file'[i] = file[i] /\ answer'[i] = answer[i]
  PROVE  (\A i \in counted : Good(i))'
BY DEF TransferInv, Good

LEMMA TransferStep ==
  ASSUME ControlInv, TransferInv, [Next]_vars
  PROVE  TransferInv'
<1> USE DEF InItem, InBatch
<1>1. CASE Open \/ CopyPrefix
  <2>1. /\ item \in Rows /\ item \notin counted
        /\ UNCHANGED <<item, network, received, answer, counted>>
    BY <1>1 DEF ControlInv, Open, CopyPrefix, Step
  <2>2. /\ pc' \in {"prefix", "headers"} /\ (pc' = "prefix" => item = 1) /\ network = 0
        /\ pc' = "headers" => file'[item] = Start(item)
        /\ DOMAIN file' = Rows /\ \A i \in Rows : i # item => file'[i] = file[i]
    BY <1>1, <2>1 DEF TransferInv, Open, CopyPrefix, Step, Start
  <2>3. (\A i \in counted : Good(i))'
    BY <2>1, <2>2, CountedUntouched DEF ControlInv
  <2> QED
    BY <2>1, <2>2, <2>3 DEF TransferInv
<1>2. CASE Headers \/ Send \/ Redirect
  <2>1. /\ UNCHANGED <<item, network, received, answer, file, counted>>
        /\ pc \in {"headers", "send", "answer"} /\ pc' \in {"send", "answer"}
    BY <1>2 DEF Headers, Send, Redirect, Step, transfer
  <2> QED
    BY <2>1 DEF TransferInv, Good
<1>3. CASE Accept
  <2>1. /\ item \in Rows /\ item \notin counted
        /\ UNCHANGED <<item, network, received, file, counted>>
        /\ pc = "answer" /\ pc' = "read"
    BY <1>3 DEF ControlInv, Accept, Step
  <2>2. /\ answer'[item] \in Answers(item) /\ DOMAIN answer' = Rows
        /\ \A i \in Rows : i # item => answer'[i] = answer[i]
    BY <1>3, <2>1 DEF TransferInv, Accept
  <2>3. (\A i \in counted : Good(i))'
    BY <2>1, <2>2, CountedUntouched DEF ControlInv
  <2>4. network <= answer'[item].size /\ file[item] = Start(item) + network
    BY <2>1, <2>2, RowFacts DEF TransferInv
  <2> QED
    BY <2>1, <2>2, <2>3, <2>4 DEF TransferInv
<1>4. CASE Read \/ Ceiling \/ EndOfBody
  <2>1. /\ UNCHANGED <<item, network, received, answer, file, counted>>
        /\ pc \in {"read", "wait"} /\ pc' \in {"wait", "check"} /\ item \in Rows
    BY <1>4 DEF ControlInv, Read, Ceiling, EndOfBody, Step, transfer
  <2>2. pc' = "check" => (network = Body[item] => answer[item].size = Body[item])
    <3>1. CASE Ceiling
      BY <3>1, <2>1, RowFacts DEF TransferInv, Ceiling
    <3>2. CASE EndOfBody
      BY <3>2 DEF EndOfBody
    <3> QED
      BY <1>4, <3>1, <3>2 DEF Read, Step
  <2> QED
    BY <2>1, <2>2 DEF TransferInv, Good
<1>5. CASE Receive
  <2>1. PICK n \in 1 .. Capacity : /\ network + n <= answer[item].size
                                   /\ network' = network + n /\ received' = received + n
    BY <1>5 DEF Receive
  <2>2. /\ UNCHANGED <<item, answer, file, counted>>
        /\ pc = "wait" /\ pc' = "write" /\ item \in Rows
    BY <1>5 DEF ControlInv, Receive, Step
  <2>3. received + n <= Limit /\ n \in Nat
    BY <2>2, CapacityFits
  <2> QED
    BY <2>1, <2>2, <2>3 DEF TransferInv, Good
<1>6. CASE Write
  <2>1. /\ item \in Rows /\ item \notin counted
        /\ UNCHANGED <<item, network, received, answer, counted>>
        /\ pc = "write" /\ pc' = "read"
    BY <1>6 DEF ControlInv, Write, Step
  <2>2. /\ file'[item] = Start(item) + network /\ DOMAIN file' = Rows
        /\ \A i \in Rows : i # item => file'[i] = file[i]
    BY <1>6, <2>1 DEF TransferInv, Write
  <2>3. (\A i \in counted : Good(i))'
    BY <2>1, <2>2, CountedUntouched DEF ControlInv
  <2> QED
    BY <2>1, <2>2, <2>3 DEF TransferInv, Start
<1>7. CASE Check
  <2>1. /\ UNCHANGED <<item, network, received, answer, file, counted>> /\ item \in Rows
        /\ pc = "check" /\ pc' = "finished"
        /\ network = Body[item] /\ answer[item].good
    BY <1>7 DEF ControlInv, Check, Step, transfer
  <2>2. Good(item)
    BY <2>1, RowFacts DEF TransferInv, Good
  <2> QED
    BY <2>1, <2>2 DEF TransferInv, Good
<1>8. CASE ItemFinished \/ Count \/ Told
  <2>1. /\ UNCHANGED <<network, received, answer, file>> /\ Good(item)
        /\ pc' \in {"count", "told", "row"} /\ (pc' # "row" => item' = item)
        /\ counted' \subseteq counted \cup {item}
    BY <1>8 DEF TransferInv, ItemFinished, Count, Told, Step, transfer
  <2> QED
    BY <2>1 DEF TransferInv, Good
<1>9. CASE Row
  <2>1. /\ UNCHANGED <<item, received, answer, file, counted>> /\ network' = 0
        /\ pc' \in {"start", "downloaded"}
    BY <1>9 DEF Row, Step
  <2> QED
    BY <2>1 DEF TransferInv, Good
<1>10. CASE StartItem
  <2>1. /\ UNCHANGED <<item, network, received, answer, file, counted>>
        /\ pc = "start" /\ pc' = "open"
    BY <1>10 DEF StartItem, Step, transfer
  <2> QED
    BY <2>1 DEF TransferInv, Good
<1>11. CASE Preflight \/ Caught \/ Stopped \/ Downloaded \/ Audit \/ Outer \/ CreateResult
            \/ WriteResult
  <2>1. /\ UNCHANGED <<network, received, answer, file, counted>>
        /\ pc' \in {"row", "stopped", "finally", "audit", "exit"}
    BY <1>11 DEF Preflight, Caught, Stopped, Downloaded, Audit, Outer, CreateResult,
       WriteResult, Step, transfer
  <2> QED
    BY <2>1 DEF TransferInv, Good
<1>12. CASE Fault \/ Alarm \/ Interrupt
  <2>1. Raise /\ pc' \in {"caught", "outer", "finally", "exit"}
    BY <1>12, RaiseFacts DEF ControlInv, Points
  <2> QED
    BY <2>1 DEF TransferInv, Raise, transfer, Good
<1>13. CASE Tick \/ UNCHANGED vars
  <2>1. UNCHANGED <<pc, item, network, received, answer, file, counted>>
    BY <1>13 DEF Tick, vars, transfer, outcome
  <2> QED
    BY <2>1 DEF TransferInv, Good
<1> QED
  BY <1>1, <1>2, <1>3, <1>4, <1>5, <1>6, <1>7, <1>8, <1>9, <1>10, <1>11, <1>12, <1>13
     DEF Next, Item, Call

\* What is counted as matched is on the disk whole and as approved, nothing is read beyond
\* the batch limit, and success means all of it, for every list of requests and every limit
\* (fetch_continuation_item, continuation2_rows, fetch_continuation2).
THEOREM FileSafety == Spec => []CountedFilesAreWhole
<1>1. ASSUME ControlInv, TransferInv
      PROVE  CountedFilesAreWhole
  <2>1. readback => item = Len(Body) + 1
    BY <1>1, BodyLength DEF ControlInv, Rows
  <2>2. readback => \A i \in Rows : i < item
    BY <2>1, BodyLength DEF Rows
  <2>3. exit = "ok" => counted = Rows /\ result = "whole"
    BY <1>1, <2>2 DEF ControlInv
  <2> QED
    BY <1>1, <2>3 DEF TransferInv, CountedFilesAreWhole, Good
<1> QED
  BY ControlInit, ControlStep, TransferInit, TransferStep, <1>1, PTL DEF Spec

-----------------------------------------------------------------------------
(* The journal and the network.                                            *)

RequestInv ==
  /\ chain \in Nat
  /\ log \in Seq(Nat \X Nat) /\ sent \in Seq(Nat \X Nat)
  /\ log = sent \/ \E hop \in Nat : log = Append(sent, <<item, hop>>)
  /\ pc \in (InItem \cup {"preflight", "row"}) \ {"send"} => log = sent
  /\ pc = "send" => log = Append(sent, <<item, chain>>)
  /\ pc \in {"start", "open", "prefix", "headers"} => chain = 0
  /\ item = 1 /\ pc \in InItem => chain = 0
  /\ \A n \in 1 .. Len(sent) :
       /\ sent[n][1] = 1 => sent[n][2] = 0
       /\ sent[n][1] <= item
       /\ sent[n][1] = item => /\ pc \notin {"preflight", "row", "start", "open", "prefix", "headers"}
                               /\ pc = "send" => sent[n][2] < chain
                               /\ pc \in InItem => sent[n][2] <= chain
  /\ \A m, n \in 1 .. Len(sent) : sent[m] = sent[n] => m = n

LEMMA AppendFacts ==
  ASSUME NEW q \in Seq(Nat \X Nat), NEW i \in Nat, NEW h \in Nat
  PROVE  /\ Append(q, <<i, h>>) \in Seq(Nat \X Nat)
         /\ Len(Append(q, <<i, h>>)) = Len(q) + 1
         /\ Append(q, <<i, h>>)[Len(q) + 1] = <<i, h>>
         /\ \A n \in 1 .. Len(q) : Append(q, <<i, h>>)[n] = q[n]
         /\ \A n \in 1 .. Len(q) : q[n] \in Nat \X Nat
OBVIOUS

LEMMA RequestInit == Init => RequestInv
BY DEF Init, RequestInv, InItem

LEMMA RequestStep ==
  ASSUME ControlInv, RequestInv, [Next]_vars
  PROVE  RequestInv'
<1> USE DEF InItem, InBatch, Points, Rows
<1>0. item \in Nat
  BY BodyLength DEF ControlInv
<1>1. CASE Open \/ CopyPrefix \/ Accept \/ Read \/ Ceiling \/ Receive \/ EndOfBody \/ Write
           \/ Check
  <2>1. /\ UNCHANGED <<item, chain, log, sent>>
        /\ pc \in InItem \ {"send", "headers", "start"} /\ pc' \in InItem \ {"send", "start", "open"}
        /\ pc' \in {"prefix", "headers"} => pc \in {"open", "prefix"}
    BY <1>1 DEF Open, CopyPrefix, Accept, Read, Ceiling, Receive, EndOfBody, Write, Check, Step,
       transfer, requests
  <2> QED
    BY <2>1 DEF RequestInv
<1>2. CASE Headers
  <2>1. /\ UNCHANGED <<item, chain, sent>> /\ log' = Append(log, <<item, 0>>)
        /\ pc = "headers" /\ pc' = "send"
    BY <1>2 DEF Headers, Step, transfer
  <2>2. log = sent /\ chain = 0
    BY <2>1 DEF RequestInv
  <2>3. log' \in Seq(Nat \X Nat) /\ log' = Append(sent, <<item, chain>>)
    BY <2>1, <2>2, <1>0, AppendFacts DEF RequestInv
  <2>4. \A n \in 1 .. Len(sent) : sent[n][1] # item
    BY <2>1 DEF RequestInv
  <2> QED
    BY <2>1, <2>2, <2>3, <2>4 DEF RequestInv
<1>3. CASE Redirect
  <2>1. /\ UNCHANGED <<item, sent>> /\ log' = Append(log, <<item, chain'>>)
        /\ chain' = chain + 1 /\ item # 1
        /\ pc = "answer" /\ pc' = "send"
    BY <1>3 DEF Redirect, Step
  <2>2. log = sent /\ chain' \in Nat
    BY <2>1 DEF RequestInv
  <2>3. log' \in Seq(Nat \X Nat) /\ log' = Append(sent, <<item, chain'>>)
    BY <2>1, <2>2, <1>0, AppendFacts DEF RequestInv
  <2>4. \A n \in 1 .. Len(sent) : sent[n] \in Nat \X Nat
    BY DEF RequestInv
  <2>5. \A n \in 1 .. Len(sent) : sent[n][1] = item => sent[n][2] < chain'
    BY <2>1, <2>4 DEF RequestInv
  <2>6. \A n \in 1 .. Len(sent) : sent[n][1] = item => sent[n][2] <= chain'
    BY <2>2, <2>4, <2>5
  <2> QED
    BY <2>1, <2>2, <2>3, <2>5, <2>6 DEF RequestInv
<1>4. CASE Send
  <2>1. /\ UNCHANGED <<item, chain, log>> /\ sent' = Append(sent, <<item, chain>>)
        /\ pc = "send" /\ pc' = "answer"
    BY <1>4 DEF Send, Step, transfer
  <2>2. /\ log' = sent' /\ sent' \in Seq(Nat \X Nat) /\ Len(sent') = Len(sent) + 1
        /\ sent'[Len(sent) + 1] = <<item, chain>>
        /\ \A n \in 1 .. Len(sent) : sent'[n] = sent[n] /\ sent[n] \in Nat \X Nat
        /\ Len(sent) \in Nat
    BY <2>1, <1>0, AppendFacts DEF RequestInv
  <2>3. \A n \in 1 .. Len(sent) : sent[n] # <<item, chain>>
    BY <2>1, <2>2, <1>0 DEF RequestInv
  <2>4. ASSUME NEW m \in 1 .. Len(sent'), NEW n \in 1 .. Len(sent'), sent'[m] = sent'[n]
        PROVE  m = n
    <3>1. \A i, j \in 1 .. Len(sent) : sent[i] = sent[j] => i = j
      BY DEF RequestInv
    <3>2. CASE m \in 1 .. Len(sent) /\ n \in 1 .. Len(sent)
      BY <3>1, <3>2, <2>2, <2>4
    <3>3. CASE m = Len(sent) + 1 /\ n \in 1 .. Len(sent)
      <4>1. sent'[n] = sent[n] /\ sent'[m] = <<item, chain>>
        BY <3>3, <2>2
      <4> QED
        BY <3>3, <4>1, <2>3, <2>4
    <3>4. CASE n = Len(sent) + 1 /\ m \in 1 .. Len(sent)
      <4>1. sent'[m] = sent[m] /\ sent'[n] = <<item, chain>>
        BY <3>4, <2>2
      <4> QED
        BY <3>4, <4>1, <2>3, <2>4
    <3>5. /\ m \in 1 .. Len(sent) \/ m = Len(sent) + 1
          /\ n \in 1 .. Len(sent) \/ n = Len(sent) + 1
      <4>1. Len(sent') = Len(sent) + 1 /\ Len(sent) \in Nat
        BY <2>2
      <4> QED
        BY <4>1
    <3>6. CASE m = Len(sent) + 1 /\ n = Len(sent) + 1
      BY <3>6
    <3> QED
      BY <3>2, <3>3, <3>4, <3>5, <3>6
  <2>5. ASSUME NEW n \in 1 .. Len(sent')
        PROVE  /\ sent'[n][1] = 1 => sent'[n][2] = 0
               /\ sent'[n][1] <= item
               /\ sent'[n][1] = item => sent'[n][2] <= chain
    <3>1. CASE n \in 1 .. Len(sent)
      BY <3>1, <2>1, <2>2 DEF RequestInv
    <3>2. CASE n = Len(sent) + 1
      BY <3>2, <2>1, <2>2, <1>0 DEF RequestInv
    <3> QED
      BY <2>2, <3>1, <3>2
  <2> QED
    BY <2>1, <2>2, <2>4, <2>5 DEF RequestInv
<1>5. CASE Row
  <2>1. /\ UNCHANGED <<item, log, sent>> /\ chain' = 0
        /\ pc = "row" /\ pc' \in {"start", "downloaded"}
    BY <1>5 DEF Row, Step, requests
  <2> QED
    BY <2>1 DEF RequestInv
<1>6. CASE Told
  <2>1. /\ UNCHANGED <<chain, log, sent>> /\ item' = item + 1 /\ pc = "told" /\ pc' = "row"
    BY <1>6 DEF Told, Step, transfer, requests
  <2>2. log = sent /\ \A n \in 1 .. Len(sent) : sent[n][1] <= item
    BY <2>1 DEF RequestInv
  <2>3. \A n \in 1 .. Len(sent) : sent[n] \in Nat \X Nat
    BY DEF RequestInv
  <2>4. \A n \in 1 .. Len(sent) : sent[n][1] <= item' /\ sent[n][1] # item'
    BY <2>1, <2>2, <2>3, <1>0
  <2> QED
    BY <2>1, <2>2, <2>4 DEF RequestInv
<1>7. CASE Preflight \/ StartItem \/ ItemFinished \/ Count
  <2>1. /\ UNCHANGED <<item, chain, log, sent>>
        /\ \/ pc = "preflight" /\ pc' = "row"
           \/ pc = "start" /\ pc' = "open"
           \/ pc \in {"finished", "count"} /\ pc' \in {"count", "told"}
    BY <1>7 DEF Preflight, StartItem, ItemFinished, Count, Step, transfer, requests
  <2> QED
    BY <2>1 DEF RequestInv
<1>8. CASE Caught \/ Stopped \/ Downloaded \/ Audit \/ Outer \/ CreateResult \/ WriteResult
  <2>1. /\ UNCHANGED <<item, chain, log, sent>>
        /\ pc' \in {"stopped", "finally", "audit", "exit"}
    BY <1>8 DEF Caught, Stopped, Downloaded, Audit, Outer, CreateResult, WriteResult, Step,
       transfer, requests
  <2> QED
    BY <2>1 DEF RequestInv
<1>9. CASE Fault \/ Alarm \/ Interrupt
  <2>1. Raise /\ pc' \in {"caught", "outer", "finally", "exit"}
    BY <1>9, RaiseFacts DEF ControlInv
  <2>2. UNCHANGED <<item, chain, log, sent>>
    BY <2>1 DEF Raise, transfer, requests
  <2> QED
    BY <2>1, <2>2 DEF RequestInv
<1>10. CASE Tick \/ UNCHANGED vars
  <2>1. UNCHANGED <<pc, item, chain, log, sent>>
    BY <1>10 DEF Tick, vars, transfer, requests
  <2> QED
    BY <2>1 DEF RequestInv
<1> QED
  BY <1>1, <1>2, <1>3, <1>4, <1>5, <1>6, <1>7, <1>8, <1>9, <1>10 DEF Next, Item, Call

\* Every request and hop is journaled before it goes out and goes out once, and nothing is
\* requested after the first failure, for every list of requests (continuation2_rows,
\* Redirect.http_error_302, Journal.append).
THEOREM RequestSafety == Spec => []RequestsAreJournaledOnce
<1>1. ASSUME ControlInv, RequestInv
      PROVE  RequestsAreJournaledOnce
  <2>0. /\ DOMAIN sent = 1 .. Len(sent) /\ Len(sent) \in Nat /\ item \in Nat
        /\ \A n \in 1 .. Len(sent) : sent[n] \in Nat \X Nat
    BY <1>1, BodyLength DEF RequestInv, ControlInv
  <2>1. \A n \in DOMAIN sent : n \in DOMAIN log /\ sent[n] = log[n]
    <3>1. CASE log = sent
      BY <3>1
    <3>2. CASE \E hop \in Nat : log = Append(sent, <<item, hop>>)
      <4>1. PICK hop \in Nat : log = Append(sent, <<item, hop>>)
        BY <3>2
      <4>2. Len(log) = Len(sent) + 1 /\ \A n \in 1 .. Len(sent) : log[n] = sent[n]
        <5>1. sent \in Seq(Nat \X Nat)
          BY <1>1 DEF RequestInv
        <5> QED
          BY <5>1, <2>0, <4>1, AppendFacts
      <4>3. DOMAIN log = 1 .. Len(log)
        BY <1>1 DEF RequestInv
      <4> QED
        BY <2>0, <4>2, <4>3
    <3> QED
      BY <1>1, <3>1, <3>2 DEF RequestInv
  <2>2. ASSUME NEW n \in DOMAIN sent
        PROVE  1 .. (sent[n][1] - 1) \subseteq counted
    <3>1. sent[n][1] \in Nat /\ sent[n][1] <= item
      BY <1>1, <2>0 DEF RequestInv
    <3>2. \A i \in 1 .. (sent[n][1] - 1) : i \in Rows /\ i < item
      BY <1>1, <2>0, <3>1, BodyLength DEF ControlInv, Rows
    <3> QED
      BY <1>1, <3>2 DEF ControlInv
  <2> QED
    BY <1>1, <2>0, <2>1, <2>2 DEF RequestInv, RequestsAreJournaledOnce
<1> QED
  BY ControlInit, ControlStep, RequestInit, RequestStep, <1>1, PTL DEF Spec
=============================================================================
