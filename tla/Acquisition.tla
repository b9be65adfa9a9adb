----------------------------- MODULE Acquisition -----------------------------
(***************************************************************************)
(* One ranged continuation of fetch-cvc5-c1-inputs.py: the approved items  *)
(* are requested one after the other, the first failure ends everything,   *)
(* and a journal and a result record say what happened.                    *)
(*                                                                         *)
(* The server answers with any of: an error, a redirect, a body of another *)
(* length or with other bytes than approved, with or without an announced  *)
(* length, as slowly as it likes.  The clock is whole units; a tick of the *)
(* interval timer may be delivered any time after it is due, and SIGTERM   *)
(* may come between any two steps, in the handlers of a failure too.       *)
(***************************************************************************)
EXTENDS Naturals, Sequences, FiniteSetsExt

CONSTANTS
  Body,          \* network_body_bytes of the requests, in their order
  Limit,         \* new_response_body_byte_limit
  Prefix,        \* bytes of the retained partial file that the first request completes
  Hops,          \* redirects that one request may follow
  Idle,          \* time to the headers, and from progress to progress
  Seconds,       \* total_deadline_seconds of an item
  Batch,         \* end of the batch
  ClockBound, Interrupts,  \* bounds of the model: the last instant, the SIGTERMs
  None

ASSUME BodyAssumption == Body \in Seq(Nat \ {0}) /\ Len(Body) > 0
ASSUME LimitsAssumption ==
  /\ Limit \in Nat /\ Prefix \in Nat /\ Hops \in Nat
  /\ Idle \in Nat \ {0} /\ Seconds \in Nat \ {0} /\ Batch \in Nat \ {0}
  /\ ClockBound \in Nat /\ Interrupts \in Nat
ASSUME NoneAssumption == None \notin Nat \cup {"partial", "whole", "ok", "error"}

VARIABLES
  pc, item,                  \* the point of the program, the request it is at
  clock, interrupts,
  timer, itemEnd, phaseEnd,  \* when the timer is due, ContinuationDeadlines (None when unset)
  started,                   \* when start_item set the end of the item
  network, received,         \* bytes counted for the item and for the batch
  chain,                     \* redirects followed for the item
  answer,                    \* per item what its server sends: None or a member of Answers
  file,                      \* per item the bytes in its file (None: no file)
  log, sent,                 \* requests as <<item, hop>>: in the journal, on the network
  counted,                   \* the items in matched_files
  failure,                   \* None or the number of the exception that the result tells
  readback,                  \* readback_complete
  result,                    \* result.json: None, "partial" or "whole"
  escaping, exit,            \* an exception passes the finally clause; None, "ok" or "error"
  late,                      \* history: bytes of the item arrived after a deadline
  raised,                    \* history: how many exceptions were raised
  cut                        \* history: one struck the item's handler, its error not told yet

time == <<clock, interrupts>>
deadlines == <<timer, itemEnd, phaseEnd, started>>
transfer == <<network, received, chain, answer, file, late>>
requests == <<log, sent>>
outcome == <<counted, failure, readback, result, escaping, exit>>
errors == <<raised, cut>>
vars == <<pc, item, time, deadlines, transfer, requests, outcome, errors>>

Rows == 1 .. Len(Body)
Start(i) == IF i = 1 THEN Prefix ELSE 0
Whole(i) == Start(i) + Body[i]

\* What a server sends: a body longer than approved counts as one byte too many, and an
\* announced length other than the approved one is refused with the headers.
Answers(i) == {a \in [size : 0 .. Body[i] + 1, announced : BOOLEAN, good : BOOLEAN] :
                 a.announced => a.size <= Body[i]}

Init ==
  /\ pc = "preflight" /\ item = 1 /\ clock = 0 /\ interrupts = 0
  /\ timer = Batch /\ itemEnd = None /\ phaseEnd = None /\ started = 0
  /\ network = 0 /\ received = 0 /\ chain = 0
  /\ answer = [i \in Rows |-> None] /\ file = [i \in Rows |-> None]
  /\ log = <<>> /\ sent = <<>> /\ counted = {}
  /\ failure = None /\ readback = FALSE /\ result = None
  /\ escaping = FALSE /\ exit = None /\ late = FALSE
  /\ raised = 0 /\ cut = FALSE

-----------------------------------------------------------------------------
(* Deadlines.                                                              *)

\* nearest(): the ends that are set, of the item and of the phase beside the batch's.
Ends(i, p) == {Batch} \cup ({i, p} \ {None})

\* arm(): refuses an end that is reached, otherwise sets the timer to the nearest.
Armed(i, p) == \A end \in Ends(i, p) : clock < end
Arm(i, p) == Armed(i, p) /\ timer' = Min(Ends(i, p))

-----------------------------------------------------------------------------
(* Exceptions: a refused requirement, an operating system or network error,*)
(* a deadline that arm() finds reached, the timer, SIGTERM.                *)

InItem == {"start", "open", "prefix", "headers", "send", "answer", "read", "wait",
           "write", "check", "finished", "count", "told"}
InBatch == {"row", "caught", "stopped", "downloaded", "audit"}

Handler(p) ==
  CASE p \in InItem -> "caught"
    [] p \in InBatch -> "outer"
    [] p = "outer" -> "finally"
    [] p \in {"preflight", "finally"} -> "exit"

Raise ==
  /\ pc # "exit"
  /\ pc' = Handler(pc)
  /\ escaping' = (escaping \/ pc = "outer")
  /\ exit' = IF pc' = "exit" THEN "error" ELSE exit
  /\ raised' = raised + 1 /\ cut' = (cut \/ pc = "caught")
  /\ UNCHANGED <<item, deadlines, transfer, requests, counted, failure, readback, result>>

Fault == pc \notin {"row", "count", "caught", "outer"} /\ Raise /\ UNCHANGED time
Alarm == timer # None /\ clock >= timer /\ Raise /\ UNCHANGED time
Interrupt ==
  /\ interrupts < Interrupts /\ interrupts' = interrupts + 1
  /\ Raise /\ UNCHANGED clock

Step(from, to) == pc = from /\ pc' = to /\ UNCHANGED <<time, escaping, exit, errors>>

-----------------------------------------------------------------------------
(* fetch_continuation_item                                                 *)

\* A new file: exclusive creation, so a retained file is never written to.
Open ==
  /\ Step("open", IF item = 1 THEN "prefix" ELSE "headers")
  /\ file[item] = None
  /\ file' = [file EXCEPT ![item] = 0]
  /\ UNCHANGED <<item, deadlines, network, received, chain, answer, late, requests,
                 counted, failure, readback, result>>

\* The retained bytes are copied and checked before any request is made.
CopyPrefix ==
  /\ Step("prefix", "headers")
  /\ Arm(itemEnd, phaseEnd)
  /\ file' = [file EXCEPT ![item] = Prefix]
  /\ UNCHANGED <<item, itemEnd, phaseEnd, started, network, received, chain, answer, late,
                 requests, counted, failure, readback, result>>

\* Journal.append comes before the request.
Headers ==
  /\ Step("headers", "send")
  /\ phaseEnd' = clock + Idle
  /\ Arm(itemEnd, phaseEnd')
  /\ log' = Append(log, <<item, 0>>)
  /\ UNCHANGED <<item, itemEnd, started, transfer, sent, counted, failure, readback, result>>

Send ==
  /\ Step("send", "answer")
  /\ sent' = Append(sent, <<item, chain>>)
  /\ UNCHANGED <<item, deadlines, transfer, log, counted, failure, readback, result>>

\* Mutant: the hop is recorded in the observation only.
RedirectUnjournaled ==
  /\ Step("answer", "send")
  /\ item # 1 /\ chain < Hops
  /\ chain' = chain + 1
  /\ UNCHANGED <<item, deadlines, network, received, answer, file, late, requests,
                 counted, failure, readback, result>>

\* Redirect.http_error_302: never for a range request; the hop is in the journal before
\* the target is opened.
Redirect ==
  /\ Step("answer", "send")
  /\ item # 1 /\ chain < Hops
  /\ chain' = chain + 1
  /\ log' = Append(log, <<item, chain'>>)
  /\ UNCHANGED <<item, deadlines, network, received, answer, file, late, sent,
                 counted, failure, readback, result>>

\* The headers are accepted: a range needs an announced length.
Accept ==
  /\ Step("answer", "read")
  /\ Armed(itemEnd, phaseEnd)
  /\ phaseEnd' = clock + Idle
  /\ Arm(itemEnd, phaseEnd')
  /\ \E a \in Answers(item) :
       /\ item = 1 => a.announced
       /\ answer' = [answer EXCEPT ![item] = a]
  /\ UNCHANGED <<item, itemEnd, started, network, received, chain, file, late, requests,
                 counted, failure, readback, result>>

\* What one read may return: an overflow byte at most, and nothing beyond the batch limit.
Capacity ==
  LET room == Body[item] - network + 1
      left == Limit - received
  IN IF room <= left THEN room ELSE left

Read ==
  /\ Step("read", "wait")
  /\ Capacity > 0 /\ Arm(itemEnd, phaseEnd)
  /\ UNCHANGED <<item, itemEnd, phaseEnd, started, transfer, requests,
                 counted, failure, readback, result>>

\* Mutant: at the batch limit the body is taken to be complete.
CeilingUnannounced ==
  /\ Step("read", "check")
  /\ Capacity = 0 /\ Arm(itemEnd, phaseEnd)
  /\ UNCHANGED <<item, itemEnd, phaseEnd, started, transfer, requests,
                 counted, failure, readback, result>>

\* At the batch limit not even the overflow byte is read: only an announced length can
\* say that the body is complete.
Ceiling ==
  /\ Step("read", "check")
  /\ Capacity = 0 /\ Arm(itemEnd, phaseEnd)
  /\ answer[item].announced /\ network = Body[item]
  /\ UNCHANGED <<item, itemEnd, phaseEnd, started, transfer, requests,
                 counted, failure, readback, result>>

\* read1 returns bytes; they are counted before anything else.
Receive ==
  /\ Step("wait", "write")
  /\ \E n \in 1 .. Capacity :
       /\ network + n <= answer[item].size
       /\ network' = network + n
       /\ received' = received + n
  /\ late' = (late \/ \E end \in Ends(started + Seconds, phaseEnd) : clock >= end)
  /\ UNCHANGED <<item, deadlines, chain, answer, file, requests,
                 counted, failure, readback, result>>

\* read1 returns nothing.
EndOfBody ==
  /\ Step("wait", "check")
  /\ network = answer[item].size /\ Arm(itemEnd, phaseEnd)
  /\ UNCHANGED <<item, itemEnd, phaseEnd, started, transfer, requests,
                 counted, failure, readback, result>>

\* Mutant: the idle limit is refreshed without a look at the old one.
WriteRefreshing ==
  /\ Step("write", "read")
  /\ network <= Body[item]
  /\ file' = [file EXCEPT ![item] = Start(item) + network]
  /\ phaseEnd' = clock + Idle
  /\ Arm(itemEnd, phaseEnd')
  /\ UNCHANGED <<item, itemEnd, started, network, received, chain, answer, late, requests,
                 counted, failure, readback, result>>

\* The bytes are written, body_progress tests the old limits and then refreshes the idle
\* limit, and a body that is too long is refused.
Write ==
  /\ Step("write", "read")
  /\ network <= Body[item]
  /\ file' = [file EXCEPT ![item] = Start(item) + network]
  /\ Armed(itemEnd, phaseEnd)
  /\ phaseEnd' = clock + Idle
  /\ Arm(itemEnd, phaseEnd')
  /\ UNCHANGED <<item, itemEnd, started, network, received, chain, answer, late, requests,
                 counted, failure, readback, result>>

\* The final size and digest, then finish_item.
Check ==
  /\ Step("check", "finished")
  /\ network = Body[item] /\ answer[item].good
  /\ Armed(itemEnd, phaseEnd)
  /\ itemEnd' = None /\ phaseEnd' = None
  /\ Arm(None, None)
  /\ UNCHANGED <<item, started, transfer, requests, counted, failure, readback, result>>

-----------------------------------------------------------------------------
(* continuation2_rows                                                      *)

Row ==
  /\ Step("row", IF item \in Rows THEN "start" ELSE "downloaded")
  /\ network' = 0 /\ chain' = 0 /\ late' = FALSE
  /\ UNCHANGED <<item, deadlines, received, answer, file, requests,
                 counted, failure, readback, result>>

StartItem ==
  /\ Step("start", "open")
  /\ started' = clock
  /\ itemEnd' = clock + Seconds /\ phaseEnd' = None
  /\ Arm(itemEnd', None)
  /\ UNCHANGED <<item, transfer, requests, counted, failure, readback, result>>

ItemFinished ==
  /\ Step("finished", "count")
  /\ UNCHANGED <<item, deadlines, transfer, requests, counted, failure, readback, result>>

Count ==
  /\ Step("count", "told")
  /\ counted' = counted \cup {item}
  /\ UNCHANGED <<item, deadlines, transfer, requests, failure, readback, result>>

\* The progress line ends the item; until then a failure still makes it a failed one.
Told ==
  /\ Step("told", "row")
  /\ item' = item + 1
  /\ UNCHANGED <<deadlines, transfer, requests, counted, failure, readback, result>>

\* Mutant: the next request is made after a failure.
CaughtAndGoOn ==
  /\ Step("caught", "row")
  /\ timer' = None /\ failure' = raised /\ item' = item + 1
  /\ UNCHANGED <<itemEnd, phaseEnd, started, transfer, requests, counted, readback, result>>

\* except (Exception, KeyboardInterrupt): the timer goes first, then the error is told; an
\* exception in between leaves the handler, and the outer one knows of the later error only.
Caught ==
  /\ Step("caught", "stopped")
  /\ timer' = None /\ failure' = raised
  /\ UNCHANGED <<item, itemEnd, phaseEnd, started, transfer, requests, counted,
                 readback, result>>

\* The last line of the journal, if there is room for it.
Stopped ==
  /\ Step("stopped", "finally")
  /\ UNCHANGED <<item, deadlines, transfer, requests, counted, failure, readback, result>>

-----------------------------------------------------------------------------
(* fetch_continuation2                                                     *)

\* The local inputs are checked and the new directory, its copies and its journal are made.
Preflight ==
  /\ Step("preflight", "row")
  /\ UNCHANGED <<item, deadlines, transfer, requests, counted, failure, readback, result>>

Downloaded ==
  /\ Step("downloaded", "audit")
  /\ clock < Batch /\ timer' = Batch
  /\ UNCHANGED <<item, itemEnd, phaseEnd, started, transfer, requests, counted, failure,
                 readback, result>>

\* The readback reads every file again.
Audit ==
  /\ Step("audit", "finally")
  /\ \A i \in Rows : file[i] = Whole(i) /\ answer[i].good
  /\ clock < Batch /\ timer' = Batch
  /\ readback' = TRUE
  /\ UNCHANGED <<item, itemEnd, phaseEnd, started, transfer, requests, counted, failure,
                 result>>

\* Mutant: what fetch() does, the later error takes the place of the first.
OuterOverwrites ==
  /\ Step("outer", "finally")
  /\ failure' = raised
  /\ UNCHANGED <<item, deadlines, transfer, requests, counted, readback, result>>

\* The first failure stays; a later one is the secondary error.
Outer ==
  /\ Step("outer", "finally")
  /\ failure' = IF failure = None THEN raised ELSE failure
  /\ UNCHANGED <<item, deadlines, transfer, requests, counted, readback, result>>

\* finally: the timer goes, the result is created exclusively and then written.
CreateResult ==
  /\ Step("finally", "finally")
  /\ result = None /\ result' = "partial" /\ timer' = None
  /\ UNCHANGED <<item, itemEnd, phaseEnd, started, transfer, requests, counted, failure,
                 readback>>

WriteResult ==
  /\ pc = "finally" /\ pc' = "exit"
  /\ result = "partial" /\ result' = "whole"
  /\ exit' = IF readback /\ failure = None /\ ~escaping THEN "ok" ELSE "error"
  /\ UNCHANGED <<item, time, deadlines, transfer, requests, counted, failure, readback,
                 escaping, errors>>

-----------------------------------------------------------------------------

Tick ==
  /\ clock < ClockBound /\ pc # "exit"
  /\ clock' = clock + 1
  /\ UNCHANGED <<pc, item, interrupts, deadlines, transfer, requests, outcome, errors>>

Item ==
  \/ Open \/ CopyPrefix \/ Headers \/ Send \/ Redirect \/ Accept \/ Read \/ Ceiling
  \/ Receive \/ EndOfBody \/ Write \/ Check

Call ==
  \/ Preflight \/ Row \/ StartItem \/ ItemFinished \/ Count \/ Told \/ Caught \/ Stopped
  \/ Downloaded \/ Audit \/ Outer \/ CreateResult \/ WriteResult

Next == Item \/ Call \/ Fault \/ Alarm \/ Interrupt \/ Tick

Spec == Init /\ [][Next]_vars

-----------------------------------------------------------------------------

TypeOK ==
  /\ pc \in InItem \cup InBatch \cup {"preflight", "outer", "finally", "exit"}
  /\ item \in 1 .. Len(Body) + 1
  /\ clock \in Nat /\ interrupts \in Nat /\ started \in Nat
  /\ {timer, itemEnd, phaseEnd} \subseteq Nat \cup {None}
  /\ network \in Nat /\ received \in Nat /\ chain \in Nat
  /\ DOMAIN answer = Rows /\ \A i \in Rows : answer[i] \in Answers(i) \cup {None}
  /\ file \in [Rows -> Nat \cup {None}]
  /\ log \in Seq(Rows \X Nat) /\ sent \in Seq(Rows \X Nat) /\ counted \subseteq Rows
  /\ failure \in Nat \cup {None} /\ readback \in BOOLEAN
  /\ result \in {None, "partial", "whole"} /\ escaping \in BOOLEAN
  /\ exit \in {None, "ok", "error"} /\ late \in BOOLEAN
  /\ raised \in Nat /\ cut \in BOOLEAN

\* An item is counted only when its file holds the retained prefix and the server's whole
\* body, of the approved length and bytes, although at the batch limit the byte that would
\* show a body too long is never read; and the call succeeds only when all are counted
\* (fetch_continuation_item, continuation2_rows, fetch_continuation2).
CountedFilesAreWhole ==
  /\ \A i \in counted :
       /\ file[i] = Whole(i)
       /\ answer[i].good /\ answer[i].size = Body[i]
  /\ exit = "ok" => counted = Rows /\ result = "whole"
  /\ received <= Limit

\* No item is matched of which a byte came after its own deadline, the batch's, or the idle
\* limit since the progress before it, however late the timer's tick was delivered
\* (ContinuationDeadlines: progress never extends the item or batch end, and the old idle
\* limit is tested before it is refreshed).
MatchedInTime == pc \in {"finished", "count", "told"} => ~late

\* Every request and every hop is in the journal before it goes out, no hop of a request goes
\* out twice (a hop is its place in the chain; whether a target was named before is up to
\* the loop check, which is not modelled), a range request is not redirected, and an item is
\* requested only after all before it were matched: the first error ends the acquisition
\* (continuation2_rows, Redirect).
RequestsAreJournaledOnce ==
  /\ \A n \in DOMAIN sent : n \in DOMAIN log /\ sent[n] = log[n]
  /\ \A m, n \in DOMAIN sent : sent[m] = sent[n] => m = n
  /\ \A n \in DOMAIN sent :
       /\ sent[n][1] = 1 => sent[n][2] = 0
       /\ 1 .. (sent[n][1] - 1) \subseteq counted

\* The failure that the result tells is the first exception of the call, however many come
\* after it, with one exception to that: a tick or a SIGTERM that strikes the item's handler
\* before it has told its error takes the place of that error (lines 709-716).  No exception
\* goes untold: a whole result names a failure, or the call fails with an exception that
\* struck the outer handler; and no call that met one succeeds (continuation2_rows, the
\* secondary_error of fetch_continuation2).
FirstFailureIsTold ==
  /\ failure # None => failure = IF cut THEN 2 ELSE 1
  /\ result = "whole" /\ raised > 0 => failure # None \/ escaping
  /\ exit = "ok" => raised = 0
=============================================================================
