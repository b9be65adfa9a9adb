-------------------------- MODULE BootstrapHandshake --------------------------
(***************************************************************************)
(* The READY/ARM handshake between the host (MacHandshake) and the         *)
(* supervisor inside the container (SupervisorHandshake) of                *)
(* solver-supervision-core (handshake.rs).  Each side has its own clock;   *)
(* no absolute reading of one is ever compared with the other's.  The host *)
(* turns what is left of its window when READY arrives into a deadline on  *)
(* the supervisor's clock.                                                 *)
(*                                                                         *)
(* The frames travel over a channel that may lose, delay, duplicate and    *)
(* reorder them, and on which frames of earlier attempts may turn up.      *)
(***************************************************************************)
EXTENDS Integers

CONSTANTS
  Window,      \* HandshakeWindow.wall_clock_ns, in clock units
  ClockError,  \* declared_clock_error_ns
  MaxClock,    \* u64::MAX: the largest reading of a clock and result of checked_add
  None,        \* no reading: Option::None
  Strays       \* frames that other runs of the program left on the channel

Readings == 0 .. MaxClock

VARIABLES
  macNow,    \* the host's clock
  linuxNow,  \* the supervisor's clock
  mac,       \* struct MacHandshake
  sup,       \* struct SupervisorHandshake, from its construction on
  net,       \* the frames that were sent
  readyAt    \* history: the host's clock when READY was made

vars == <<macNow, linuxNow, mac, sup, net, readyAt>>

Nonces == {"fresh", "old"}      \* "fresh" is the nonce this supervisor drew
Attempts == {"this", "other"}   \* attempt, request, policy and image of a binding
Failures == {"None", "Clock", "Refused"}
Stages == {"Absent", "Preparing", "Ready", "Armed", "QueryChecked"}

MacHandshakes ==
  [deadline : Readings, last : Readings, nonce : Nonces \cup {None},
   offer : Readings \cup {None}, failure : Failures]

SupervisorHandshakes ==
  [preparation : Readings, last : Readings, ready : Readings \cup {None},
   deadline : Readings \cup {None}, stage : Stages, failure : Failures]

\* `matches`: the configuration, boot and namespace digests are the expected ones.
ReadyFrames ==
  [kind : {"Ready"}, attempt : Attempts, nonce : Nonces, at : Readings,
   preparation : Readings, matches : BOOLEAN]

\* `matches`: the length and the digest of the query are those of the start description.
ArmFrames ==
  [kind : {"Arm"}, attempt : Attempts, nonce : Nonces, deadline : Readings,
   matches : BOOLEAN]

OtherFrames ==   \* any other message
  [kind : {"Other"}, attempt : Attempts, nonce : Nonces]

Frames == ReadyFrames \cup ArmFrames \cup OtherFrames

ASSUME HandshakeAssumption ==
  /\ Window \in Nat \ {0}
  /\ ClockError \in Nat
  /\ MaxClock \in Nat
  /\ None \notin Int /\ None \notin Nonces
  /\ Strays \subseteq Frames
  /\ \A f \in Strays : f.nonce # "fresh"   \* nobody else draws this supervisor's nonce

TypeOK ==
  /\ macNow \in Readings /\ linuxNow \in Readings
  /\ mac \in MacHandshakes
  /\ sup \in SupervisorHandshakes
  /\ net \subseteq Frames
  /\ readyAt \in Readings \cup {None}

-----------------------------------------------------------------------------

\* Mutant: a failure is forgotten.
LiveForgiving(s, at, deadline) ==
  IF at < s.last THEN [s EXCEPT !.failure = "Clock"]
  ELSE IF at >= deadline THEN [s EXCEPT !.last = at, !.failure = "Clock"]
  ELSE [s EXCEPT !.last = at]

\* clock() behind live(): a failure is final, a reading that goes back is one, and so is
\* one that has reached the deadline in force.
Live(s, at, deadline) ==
  IF s.failure # "None" THEN s
  ELSE IF at < s.last THEN [s EXCEPT !.failure = "Clock"]
  ELSE IF at >= deadline THEN [s EXCEPT !.last = at, !.failure = "Clock"]
  ELSE [s EXCEPT !.last = at]

Alive(s) == s.failure = "None"

\* What a clock may show: its reading, or one that went back.
Shown(now, s) == {now} \cup {at \in Readings : at < s.last}

-----------------------------------------------------------------------------
(* The host.                                                                *)

MacLive(at) == Live(mac, at, mac.deadline)

\* Mutant: the clock error is not deducted.
RemainingOptimistic(at) == mac.deadline - at

\* What is left of the window when READY is received.
Remaining(at) == mac.deadline - at - ClockError

\* plan_arm accepts READY f, received at `at`.
PlanArm(at, f) ==
  /\ mac.nonce = None
  /\ f.kind = "Ready" /\ f.attempt = "this" /\ f.matches
  /\ f.at < f.preparation /\ f.preparation - f.at <= Window
  /\ Remaining(at) > 0
  /\ f.at + Remaining(at) <= MaxClock
  /\ f.at + Remaining(at) <= f.preparation

ReceiveReady(at, f) ==
  /\ IF Alive(MacLive(at)) /\ PlanArm(at, f)
     THEN LET deadline == f.at + Remaining(at)
          IN  /\ mac' = [MacLive(at) EXCEPT !.nonce = f.nonce, !.offer = deadline]
              /\ net' = net \cup {[kind |-> "Arm", attempt |-> "this", nonce |-> f.nonce,
                                   deadline |-> deadline, matches |-> TRUE]}
     ELSE /\ mac' = IF Alive(MacLive(at)) THEN [MacLive(at) EXCEPT !.failure = "Refused"]
                    ELSE MacLive(at)
          /\ UNCHANGED net
  /\ UNCHANGED <<macNow, linuxNow, sup, readyAt>>

MacTick(at) ==
  /\ mac' = MacLive(at)
  /\ UNCHANGED <<macNow, linuxNow, sup, net, readyAt>>

-----------------------------------------------------------------------------
(* The supervisor.                                                          *)

InForce(s) == IF s.deadline = None THEN s.preparation ELSE s.deadline

SupLive(at) == Live(sup, at, InForce(sup))

Refused(s) == [s EXCEPT !.failure = "Refused"]

\* Mutant: the end of the preparation is computed without a check.
EnterUnchecked ==
  /\ sup.stage = "Absent"
  /\ sup' = [sup EXCEPT !.stage = "Preparing", !.preparation = linuxNow + Window,
                        !.last = linuxNow]
  /\ UNCHANGED <<macNow, linuxNow, mac, net, readyAt>>

\* SupervisorHandshake::new, at the supervisor's entry.
Enter ==
  /\ sup.stage = "Absent"
  /\ linuxNow + Window <= MaxClock
  /\ sup' = [sup EXCEPT !.stage = "Preparing", !.preparation = linuxNow + Window,
                        !.last = linuxNow]
  /\ UNCHANGED <<macNow, linuxNow, mac, net, readyAt>>

Ready(at) ==
  /\ sup.stage # "Absent"
  /\ IF Alive(SupLive(at)) /\ sup.stage = "Preparing"
     THEN /\ sup' = [SupLive(at) EXCEPT !.stage = "Ready", !.ready = at]
          /\ net' = net \cup {[kind |-> "Ready", attempt |-> "this", nonce |-> "fresh",
                               at |-> at, preparation |-> sup.preparation, matches |-> TRUE]}
          /\ readyAt' = macNow
     ELSE /\ sup' = IF Alive(SupLive(at)) THEN Refused(SupLive(at)) ELSE SupLive(at)
          /\ UNCHANGED <<net, readyAt>>
  /\ UNCHANGED <<macNow, linuxNow, mac>>

\* Mutant: any nonce will do.
CheckArmAnyNonce(at, f) ==
  /\ sup.stage = "Ready"
  /\ f.attempt = "this"
  /\ f.kind = "Arm" /\ f.matches
  /\ f.deadline <= sup.preparation
  /\ at < f.deadline

\* check_arm accepts ARM f.
CheckArm(at, f) ==
  /\ sup.stage = "Ready"
  /\ f.attempt = "this" /\ f.nonce = "fresh"
  /\ f.kind = "Arm" /\ f.matches
  /\ f.deadline <= sup.preparation
  /\ at < f.deadline

ReceiveArm(at, f) ==
  /\ sup.stage # "Absent"
  /\ sup' = IF ~Alive(SupLive(at)) THEN SupLive(at)
            ELSE IF CheckArm(at, f)
            THEN [SupLive(at) EXCEPT !.stage = "Armed", !.deadline = f.deadline]
            ELSE Refused(SupLive(at))
  /\ UNCHANGED <<macNow, linuxNow, mac, net, readyAt>>

\* query_complete with a query whose binding, length and digest are the expected
\* ones, or not.
QueryComplete(at, attempt, nonce, matches) ==
  /\ sup.stage # "Absent"
  /\ sup' = IF ~Alive(SupLive(at)) THEN SupLive(at)
            ELSE IF sup.stage = "Armed" /\ attempt = "this" /\ nonce = "fresh" /\ matches
            THEN [SupLive(at) EXCEPT !.stage = "QueryChecked"]
            ELSE Refused(SupLive(at))
  /\ UNCHANGED <<macNow, linuxNow, mac, net, readyAt>>

SupTick(at) ==
  /\ sup.stage # "Absent"
  /\ sup' = SupLive(at)
  /\ UNCHANGED <<macNow, linuxNow, mac, net, readyAt>>

-----------------------------------------------------------------------------
(* The clocks.                                                              *)

\* What ClockError declares: from READY on, the supervisor's clock falls behind the
\* host's by at most that much.  Before READY the clocks are unrelated.
Advance(m, l) ==
  /\ macNow' = m /\ m >= macNow
  /\ linuxNow' = l /\ l >= linuxNow
  /\ readyAt # None => l - sup.ready >= m - readyAt - ClockError
  /\ UNCHANGED <<mac, sup, net, readyAt>>

Init ==
  /\ macNow \in Readings /\ linuxNow \in Readings
  /\ macNow + Window <= MaxClock    \* MacHandshake::new, else ClockOverflow
  /\ mac = [deadline |-> macNow + Window, last |-> macNow, nonce |-> None,
            offer |-> None, failure |-> "None"]
  /\ sup = [preparation |-> 0, last |-> 0, ready |-> None, deadline |-> None,
            stage |-> "Absent", failure |-> "None"]
  /\ net = {}
  /\ readyAt = None

Next ==
  \/ \E m, l \in Readings : Advance(m, l)
  \/ \E at \in Shown(macNow, mac) :
       \/ MacTick(at)
       \/ \E f \in net \cup Strays : ReceiveReady(at, f)
  \/ Enter
  \/ \E at \in Shown(linuxNow, sup) :
       \/ Ready(at) \/ SupTick(at)
       \/ \E f \in net \cup Strays : ReceiveArm(at, f)
       \/ \E attempt \in Attempts, nonce \in Nonces, matches \in BOOLEAN :
            QueryComplete(at, attempt, nonce, matches)

Spec == Init /\ [][Next]_vars

-----------------------------------------------------------------------------

\* An armed supervisor never works outside the host's window: as long as its own
\* deadline has not come, the host's has not either, however long READY travelled and
\* whatever the clocks read, as long as they drift by no more than was declared.
ArmedInsideHostWindow ==
  sup.deadline # None /\ linuxNow < sup.deadline => macNow < mac.deadline

\* The deadline the supervisor works under is the one offer this host made, to this
\* supervisor, for its one READY.
ArmAgreement ==
  sup.deadline # None =>
    mac.offer = sup.deadline /\ mac.nonce = "fresh" /\ sup.ready # None

\* A deadline in force is only ever brought forward, never put off, and a handshake
\* that failed never moves on.
DeadlineOnlyTightens ==
  [][sup.stage # "Absent" =>
       /\ InForce(sup') <= InForce(sup)
       /\ sup.deadline # None => sup'.deadline = sup.deadline
       /\ sup.failure # "None" => sup' = sup]_vars
=============================================================================
