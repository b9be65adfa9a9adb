----------------------- MODULE BootstrapHandshakeProofs -----------------------
(***************************************************************************)
(* The deadline the handshake hands over is safe for every window, every   *)
(* declared clock error and every set of stray frames.                     *)
(***************************************************************************)
EXTENDS BootstrapHandshake, TLAPS

\* READY is in the past, and since then the supervisor's clock lags by no more than the
\* declared error.
Drift ==
  /\ readyAt = None <=> sup.ready = None
  /\ sup.ready = None <=> sup.stage \in {"Absent", "Preparing"}
  /\ sup.ready # None => readyAt <= macNow /\ linuxNow - sup.ready >= macNow - readyAt - ClockError

\* Every fresh frame on the channel is the one its sender made.
Genuine ==
  \A f \in net : f.nonce = "fresh" =>
    /\ f.kind = "Ready" => sup.ready # None /\ f.at = sup.ready
    /\ f.kind = "Arm" => mac.nonce = "fresh" /\ f.deadline = mac.offer

\* The offer leaves at least the time READY took.
OfferInside ==
  mac.nonce = "fresh" =>
    /\ sup.ready # None /\ mac.offer # None
    /\ mac.offer - sup.ready <= mac.deadline - readyAt - ClockError

Armed ==
  /\ sup.deadline # None <=> sup.stage \in {"Armed", "QueryChecked"}
  /\ sup.deadline # None => mac.nonce = "fresh" /\ mac.offer = sup.deadline

HandshakeInv == TypeOK /\ Drift /\ Genuine /\ OfferInside /\ Armed

-----------------------------------------------------------------------------

\* live() only touches the last reading and the failure; it lets pass readings
\* below the deadline only.
LEMMA LiveSup ==
  ASSUME NEW s \in SupervisorHandshakes, NEW at \in Readings, NEW d \in Readings
  PROVE  /\ Live(s, at, d) \in SupervisorHandshakes
         /\ Live(s, at, d).preparation = s.preparation
         /\ Live(s, at, d).ready = s.ready
         /\ Live(s, at, d).deadline = s.deadline
         /\ Live(s, at, d).stage = s.stage
         /\ Alive(Live(s, at, d)) => Alive(s) /\ at >= s.last /\ at < d
         /\ ~Alive(s) => Live(s, at, d) = s
<1>1. "Clock" \in Failures
  BY DEF Failures
<1>2. /\ [s EXCEPT !.failure = "Clock"] \in SupervisorHandshakes
      /\ [s EXCEPT !.last = at, !.failure = "Clock"] \in SupervisorHandshakes
      /\ [s EXCEPT !.last = at] \in SupervisorHandshakes
  BY <1>1 DEF SupervisorHandshakes
<1>3. Live(s, at, d) \in SupervisorHandshakes
  BY <1>2 DEF Live
<1>4. /\ Live(s, at, d).preparation = s.preparation
      /\ Live(s, at, d).ready = s.ready
      /\ Live(s, at, d).deadline = s.deadline
      /\ Live(s, at, d).stage = s.stage
      /\ ~Alive(s) => Live(s, at, d) = s
  BY DEF Live, Alive, SupervisorHandshakes
<1>5. Alive(Live(s, at, d)) => Alive(s) /\ at >= s.last /\ at < d
  BY DEF Live, Alive, SupervisorHandshakes, Readings
<1>6. QED
  BY <1>3, <1>4, <1>5

\* The same for the host's side.
LEMMA LiveMac ==
  ASSUME NEW s \in MacHandshakes, NEW at \in Readings, NEW d \in Readings
  PROVE  /\ Live(s, at, d) \in MacHandshakes
         /\ Live(s, at, d).deadline = s.deadline
         /\ Live(s, at, d).nonce = s.nonce
         /\ Live(s, at, d).offer = s.offer
         /\ Alive(Live(s, at, d)) => Alive(s) /\ at >= s.last /\ at < d
<1>1. "Clock" \in Failures
  BY DEF Failures
<1>2. /\ [s EXCEPT !.failure = "Clock"] \in MacHandshakes
      /\ [s EXCEPT !.last = at, !.failure = "Clock"] \in MacHandshakes
      /\ [s EXCEPT !.last = at] \in MacHandshakes
  BY <1>1 DEF MacHandshakes
<1>3. Live(s, at, d) \in MacHandshakes
  BY <1>2 DEF Live
<1>4. /\ Live(s, at, d).deadline = s.deadline
      /\ Live(s, at, d).nonce = s.nonce
      /\ Live(s, at, d).offer = s.offer
  BY DEF Live, MacHandshakes
<1>5. Alive(Live(s, at, d)) => Alive(s) /\ at >= s.last /\ at < d
  BY DEF Live, Alive, MacHandshakes, Readings
<1>6. QED
  BY <1>3, <1>4, <1>5

\* A shown reading that lets a live side pass is the clock's reading.
LEMMA ShownReading ==
  ASSUME NEW now \in Readings, NEW s, s.last \in Readings, NEW at \in Shown(now, s)
  PROVE  /\ at \in Readings
         /\ at >= s.last => at = now
  BY DEF Shown, Readings

\* The invariant holds in the initial states.
LEMMA InitInv == Init => HandshakeInv
<1> SUFFICES ASSUME Init PROVE HandshakeInv
  OBVIOUS
<1> USE HandshakeAssumption
<1>1. mac \in MacHandshakes
  BY DEF Init, MacHandshakes, Readings, Failures
<1>2. sup \in SupervisorHandshakes
  BY DEF Init, SupervisorHandshakes, Readings, Failures, Stages
<1>3. TypeOK
  BY <1>1, <1>2 DEF Init, TypeOK
<1>4. Drift /\ Genuine /\ OfferInside /\ Armed
  BY DEF Init, Drift, Genuine, OfferInside, Armed, Nonces, Readings
<1>5. QED
  BY <1>3, <1>4 DEF HandshakeInv

\* Time passes without disturbing the handshake.
LEMMA AdvanceInv ==
  ASSUME HandshakeInv, NEW m \in Readings, NEW l \in Readings, Advance(m, l)
  PROVE  HandshakeInv'
<1> USE HandshakeAssumption
<1>1. TypeOK'
  BY DEF HandshakeInv, TypeOK, Advance
<1>2. Drift'
  <2>1. readyAt # None => readyAt <= macNow' /\ linuxNow' - sup.ready >= macNow' - readyAt - ClockError
    BY DEF HandshakeInv, TypeOK, Drift, Advance, Readings
  <2>2. QED
    BY <2>1 DEF HandshakeInv, Drift, Advance
<1>3. Genuine' /\ OfferInside' /\ Armed'
  BY DEF HandshakeInv, Genuine, OfferInside, Armed, Advance
<1>4. QED
  BY <1>1, <1>2, <1>3 DEF HandshakeInv

\* The host's clock check alone.
LEMMA MacTickInv ==
  ASSUME HandshakeInv, NEW at \in Readings, MacTick(at)
  PROVE  HandshakeInv'
<1>1. mac.deadline \in Readings /\ mac \in MacHandshakes
  BY DEF HandshakeInv, TypeOK, MacHandshakes
<1>2. mac' = Live(mac, at, mac.deadline)
  BY DEF MacTick, MacLive
<1>3. mac' \in MacHandshakes /\ mac'.deadline = mac.deadline /\ mac'.nonce = mac.nonce
      /\ mac'.offer = mac.offer
  BY <1>1, <1>2, LiveMac
<1>4. TypeOK'
  BY <1>3 DEF HandshakeInv, TypeOK, MacTick
<1>5. Drift' /\ Genuine' /\ OfferInside' /\ Armed'
  BY <1>3 DEF HandshakeInv, MacTick, Drift, Genuine, OfferInside, Armed
<1>6. QED
  BY <1>4, <1>5 DEF HandshakeInv

\* The supervisor's steps that keep what the handshake agreed on.
LEMMA SupFrame ==
  ASSUME HandshakeInv, sup' \in SupervisorHandshakes,
         sup'.ready = sup.ready, sup'.deadline = sup.deadline,
         \/ sup'.stage = sup.stage
         \/ sup.stage = "Armed" /\ sup'.stage = "QueryChecked"
         \/ sup.stage = "Absent" /\ sup'.stage = "Preparing",
         UNCHANGED <<macNow, linuxNow, mac, net, readyAt>>
  PROVE  HandshakeInv'
<1>1. TypeOK'
  BY DEF HandshakeInv, TypeOK
<1>2. Drift' /\ Genuine' /\ OfferInside' /\ Armed'
  BY DEF HandshakeInv, Drift, Genuine, OfferInside, Armed
<1>3. QED
  BY <1>1, <1>2 DEF HandshakeInv

\* live() of the supervisor in a reachable state.
LEMMA SupLiveLemma ==
  ASSUME HandshakeInv, NEW at \in Readings
  PROVE  /\ SupLive(at) \in SupervisorHandshakes
         /\ SupLive(at).preparation = sup.preparation
         /\ SupLive(at).ready = sup.ready
         /\ SupLive(at).deadline = sup.deadline
         /\ SupLive(at).stage = sup.stage
         /\ Alive(SupLive(at)) => Alive(sup) /\ at >= sup.last /\ at < InForce(sup)
         /\ ~Alive(sup) => SupLive(at) = sup
<1>1. sup \in SupervisorHandshakes
  BY DEF HandshakeInv, TypeOK
<1>2. InForce(sup) \in Readings
  BY <1>1 DEF InForce, SupervisorHandshakes
<1>3. QED
  BY <1>1, <1>2, LiveSup DEF SupLive

\* A refused supervisor is a supervisor.
LEMMA RefusedLemma ==
  ASSUME NEW s \in SupervisorHandshakes
  PROVE  /\ Refused(s) \in SupervisorHandshakes
         /\ Refused(s).preparation = s.preparation
         /\ Refused(s).ready = s.ready
         /\ Refused(s).deadline = s.deadline
         /\ Refused(s).stage = s.stage
  BY DEF Refused, SupervisorHandshakes, Failures

\* The supervisor enters its own code.
LEMMA EnterInv ==
  ASSUME HandshakeInv, Enter
  PROVE  HandshakeInv'
<1>1. linuxNow + Window \in Readings
  BY HandshakeAssumption DEF HandshakeInv, TypeOK, Readings, Enter
<1>2. sup \in SupervisorHandshakes /\ linuxNow \in Readings
  BY DEF HandshakeInv, TypeOK
<1>3. sup' = [sup EXCEPT !.stage = "Preparing", !.preparation = linuxNow + Window,
                         !.last = linuxNow]
  BY DEF Enter
<1>4. "Preparing" \in Stages
  BY DEF Stages
<1>5. sup' \in SupervisorHandshakes
  BY <1>1, <1>2, <1>3, <1>4 DEF SupervisorHandshakes
<1>6. sup'.ready = sup.ready /\ sup'.deadline = sup.deadline /\ sup'.stage = "Preparing"
  BY <1>2, <1>3 DEF SupervisorHandshakes
<1>7. QED
  BY <1>5, <1>6, SupFrame DEF Enter

\* The supervisor's clock check alone.
LEMMA SupTickInv ==
  ASSUME HandshakeInv, NEW at \in Readings, SupTick(at)
  PROVE  HandshakeInv'
<1>1. sup' = SupLive(at)
  BY DEF SupTick
<1>2. QED
  BY <1>1, SupLiveLemma, SupFrame DEF SupTick

\* The query is complete.
LEMMA QueryCompleteInv ==
  ASSUME HandshakeInv, NEW at \in Readings, NEW attempt, NEW nonce, NEW matches,
         QueryComplete(at, attempt, nonce, matches)
  PROVE  HandshakeInv'
<1>1. \/ sup' = SupLive(at)
      \/ sup' = Refused(SupLive(at))
      \/ sup.stage = "Armed" /\ sup' = [SupLive(at) EXCEPT !.stage = "QueryChecked"]
  BY DEF QueryComplete
<1>2. CASE sup' = SupLive(at)
  BY <1>2, SupLiveLemma, SupFrame DEF QueryComplete
<1>3. CASE sup' = Refused(SupLive(at))
  BY <1>3, SupLiveLemma, RefusedLemma, SupFrame DEF QueryComplete
<1>4. CASE sup.stage = "Armed" /\ sup' = [SupLive(at) EXCEPT !.stage = "QueryChecked"]
  <2>1. "QueryChecked" \in Stages
    BY DEF Stages
  <2>2. SupLive(at) \in SupervisorHandshakes
    BY SupLiveLemma
  <2>3. /\ sup' \in SupervisorHandshakes /\ sup'.stage = "QueryChecked"
        /\ sup'.ready = SupLive(at).ready /\ sup'.deadline = SupLive(at).deadline
    BY <1>4, <2>1, <2>2 DEF SupervisorHandshakes
  <2>4. QED
    BY <1>4, <2>3, SupLiveLemma, SupFrame DEF QueryComplete
<1>5. QED
  BY <1>1, <1>2, <1>3, <1>4

\* READY is made once, at the reading it carries.
LEMMA ReadyInv ==
  ASSUME HandshakeInv, NEW at \in Shown(linuxNow, sup), Ready(at)
  PROVE  HandshakeInv'
<1>1. sup \in SupervisorHandshakes /\ linuxNow \in Readings /\ macNow \in Readings
  BY DEF HandshakeInv, TypeOK
<1>2. at \in Readings /\ (at >= sup.last => at = linuxNow)
  BY <1>1, ShownReading DEF SupervisorHandshakes
<1>3. CASE ~(Alive(SupLive(at)) /\ sup.stage = "Preparing")
  <2>1. /\ sup' = Refused(SupLive(at)) \/ sup' = SupLive(at)
        /\ UNCHANGED <<macNow, linuxNow, mac, net, readyAt>>
    BY <1>3 DEF Ready
  <2>2. QED
    BY <1>2, <2>1, SupLiveLemma, RefusedLemma, SupFrame
<1>4. CASE Alive(SupLive(at)) /\ sup.stage = "Preparing"
  <2> DEFINE frame == [kind |-> "Ready", attempt |-> "this", nonce |-> "fresh", at |-> at,
                       preparation |-> sup.preparation, matches |-> TRUE]
  <2>1. /\ sup' = [SupLive(at) EXCEPT !.stage = "Ready", !.ready = at]
        /\ net' = net \cup {frame} /\ readyAt' = macNow
        /\ UNCHANGED <<macNow, linuxNow, mac>>
    BY <1>4 DEF Ready
  <2>2. at = linuxNow
    BY <1>2, <1>4, SupLiveLemma
  <2>3. /\ sup' \in SupervisorHandshakes
        /\ sup'.stage = "Ready" /\ sup'.ready = at /\ sup'.deadline = sup.deadline
    <3>1. "Ready" \in Stages
      BY DEF Stages
    <3>2. SupLive(at) \in SupervisorHandshakes /\ SupLive(at).deadline = sup.deadline
      BY <1>2, SupLiveLemma
    <3>3. QED
      BY <1>2, <2>1, <3>1, <3>2 DEF SupervisorHandshakes
  <2>4. frame \in ReadyFrames
    BY <1>1, <1>2 DEF ReadyFrames, SupervisorHandshakes, Attempts, Nonces
  <2>5. TypeOK'
    BY <1>1, <2>1, <2>3, <2>4 DEF HandshakeInv, TypeOK, Frames
  <2>6. sup.ready = None /\ mac.nonce # "fresh" /\ sup.deadline = None
    BY <1>4 DEF HandshakeInv, Drift, OfferInside, Armed
  <2>7. Drift'
    <3>1. at # None /\ macNow # None
      BY <1>1, <1>2, HandshakeAssumption DEF Readings
    <3>2. macNow <= macNow /\ linuxNow - at >= macNow - macNow - ClockError
      BY <1>1, <2>2, HandshakeAssumption DEF Readings
    <3>3. QED
      BY <2>1, <2>3, <3>1, <3>2 DEF Drift
  <2>8. Genuine'
    <3>1. ASSUME NEW f \in net', f.nonce = "fresh"
          PROVE  /\ f.kind = "Ready" => sup'.ready # None /\ f.at = sup'.ready
                 /\ f.kind = "Arm" => mac'.nonce = "fresh" /\ f.deadline = mac'.offer
      <4>1. CASE f \in net
        BY <3>1, <4>1, <2>1, <2>6 DEF HandshakeInv, Genuine
      <4>2. CASE f = frame
        BY <4>2, <2>3, <1>2, HandshakeAssumption DEF Readings
      <4>3. QED
        BY <3>1, <4>1, <4>2, <2>1
    <3>2. QED
      BY <3>1 DEF Genuine
  <2>9. OfferInside' /\ Armed'
    BY <2>1, <2>3, <2>6 DEF OfferInside, HandshakeInv, Armed
  <2>10. QED
    BY <2>5, <2>7, <2>8, <2>9 DEF HandshakeInv
<1>5. QED
  BY <1>3, <1>4

\* ARM is accepted only if the host of this attempt made it for this supervisor.
LEMMA ReceiveArmInv ==
  ASSUME HandshakeInv, NEW at \in Readings, NEW f \in net \cup Strays, ReceiveArm(at, f)
  PROVE  HandshakeInv'
<1>1. \/ sup' = SupLive(at) \/ sup' = Refused(SupLive(at))
      \/ CheckArm(at, f) /\ sup' = [SupLive(at) EXCEPT !.stage = "Armed", !.deadline = f.deadline]
  BY DEF ReceiveArm
<1>2. CASE sup' = SupLive(at)
  BY <1>2, SupLiveLemma, SupFrame DEF ReceiveArm
<1>3. CASE sup' = Refused(SupLive(at))
  BY <1>3, SupLiveLemma, RefusedLemma, SupFrame DEF ReceiveArm
<1>4. CASE CheckArm(at, f) /\ sup' = [SupLive(at) EXCEPT !.stage = "Armed", !.deadline = f.deadline]
  <2>1. /\ sup.stage = "Ready" /\ f.kind = "Arm" /\ f.nonce = "fresh"
    BY <1>4 DEF CheckArm
  <2>2. f \in net
    BY <2>1, HandshakeAssumption
  <2>3. mac.nonce = "fresh" /\ f.deadline = mac.offer
    BY <2>1, <2>2 DEF HandshakeInv, Genuine
  <2>4. mac.offer \in Readings /\ mac.offer # None
    BY <2>3 DEF HandshakeInv, TypeOK, MacHandshakes, OfferInside
  <2>5. SupLive(at) \in SupervisorHandshakes /\ SupLive(at).ready = sup.ready
    BY SupLiveLemma
  <2>6. "Armed" \in Stages
    BY DEF Stages
  <2>7. /\ sup' \in SupervisorHandshakes /\ sup'.stage = "Armed"
        /\ sup'.deadline = mac.offer /\ sup'.ready = sup.ready
    BY <1>4, <2>3, <2>4, <2>5, <2>6 DEF SupervisorHandshakes
  <2>8. UNCHANGED <<macNow, linuxNow, mac, net, readyAt>>
    BY DEF ReceiveArm
  <2>9. TypeOK'
    BY <2>7, <2>8 DEF HandshakeInv, TypeOK
  <2>10. Drift' /\ Genuine' /\ OfferInside'
    BY <2>1, <2>7, <2>8 DEF HandshakeInv, Drift, Genuine, OfferInside
  <2>11. Armed'
    BY <2>3, <2>4, <2>7, <2>8 DEF Armed
  <2>12. QED
    BY <2>9, <2>10, <2>11 DEF HandshakeInv
<1>5. QED
  BY <1>1, <1>2, <1>3, <1>4

\* The host makes one offer, out of what READY left of its window.
LEMMA ReceiveReadyInv ==
  ASSUME HandshakeInv, NEW at \in Shown(macNow, mac), NEW f \in net \cup Strays,
         ReceiveReady(at, f)
  PROVE  HandshakeInv'
<1>1. mac \in MacHandshakes /\ macNow \in Readings /\ mac.deadline \in Readings
  BY DEF HandshakeInv, TypeOK, MacHandshakes
<1>2. at \in Readings /\ (at >= mac.last => at = macNow)
  BY <1>1, ShownReading DEF MacHandshakes
<1>3. /\ MacLive(at) \in MacHandshakes
      /\ MacLive(at).deadline = mac.deadline
      /\ MacLive(at).nonce = mac.nonce
      /\ MacLive(at).offer = mac.offer
      /\ Alive(MacLive(at)) => at >= mac.last /\ at < mac.deadline
  BY <1>1, <1>2, LiveMac DEF MacLive
<1>4. UNCHANGED <<macNow, linuxNow, sup, readyAt>>
  BY DEF ReceiveReady
<1>5. CASE ~(Alive(MacLive(at)) /\ PlanArm(at, f))
  <2>1. /\ mac' = [MacLive(at) EXCEPT !.failure = "Refused"] \/ mac' = MacLive(at)
        /\ net' = net
    BY <1>5 DEF ReceiveReady
  <2>2. /\ mac' \in MacHandshakes /\ mac'.deadline = mac.deadline
        /\ mac'.nonce = mac.nonce /\ mac'.offer = mac.offer
    <3>1. "Refused" \in Failures
      BY DEF Failures
    <3>2. QED
      BY <1>3, <2>1, <3>1 DEF MacHandshakes
  <2>3. TypeOK'
    BY <1>4, <2>1, <2>2 DEF HandshakeInv, TypeOK
  <2>4. Drift' /\ Genuine' /\ OfferInside' /\ Armed'
    BY <1>4, <2>1, <2>2 DEF HandshakeInv, Drift, Genuine, OfferInside, Armed
  <2>5. QED
    BY <2>3, <2>4 DEF HandshakeInv
<1>6. CASE Alive(MacLive(at)) /\ PlanArm(at, f)
  <2> DEFINE deadline == f.at + Remaining(at)
             frame == [kind |-> "Arm", attempt |-> "this", nonce |-> f.nonce,
                       deadline |-> deadline, matches |-> TRUE]
  <2>1. /\ mac' = [MacLive(at) EXCEPT !.nonce = f.nonce, !.offer = deadline]
        /\ net' = net \cup {frame}
    BY <1>6 DEF ReceiveReady
  <2>2. f \in ReadyFrames
    BY <1>6, HandshakeAssumption
       DEF PlanArm, HandshakeInv, TypeOK, Frames, ArmFrames, OtherFrames
  <2>3. f.at \in Readings /\ f.nonce \in Nonces
    BY <2>2 DEF ReadyFrames
  <2>4. deadline \in Readings /\ Remaining(at) = mac.deadline - at - ClockError
    <3>1. /\ Remaining(at) = mac.deadline - at - ClockError
          /\ Remaining(at) > 0 /\ f.at + Remaining(at) <= MaxClock
      BY <1>6 DEF PlanArm, Remaining
    <3>2. mac.deadline - at - ClockError \in Int
      BY <1>1, <1>2, HandshakeAssumption DEF Readings
    <3>3. QED
      BY <3>1, <3>2, <2>3, HandshakeAssumption DEF Readings
  <2> HIDE DEF deadline
  <2>5. /\ mac' \in MacHandshakes /\ mac'.deadline = mac.deadline
        /\ mac'.nonce = f.nonce /\ mac'.offer = deadline
    BY <1>3, <2>1, <2>3, <2>4 DEF MacHandshakes
  <2>6. frame \in ArmFrames
    BY <2>3, <2>4 DEF ArmFrames, Attempts
  <2>7. TypeOK'
    BY <1>4, <2>1, <2>5, <2>6 DEF HandshakeInv, TypeOK, Frames
  <2>8. mac.nonce = None /\ f.kind = "Ready"
    BY <1>6 DEF PlanArm
  <2>9. None # "fresh"
    BY HandshakeAssumption DEF Nonces
  <2>10. sup.deadline = None
    BY <2>8, <2>9 DEF HandshakeInv, Armed
  <2>11. Drift'
    BY <1>4 DEF HandshakeInv, Drift
  <2>12. Genuine'
    <3>1. ASSUME NEW g \in net', g.nonce = "fresh"
          PROVE  /\ g.kind = "Ready" => sup'.ready # None /\ g.at = sup'.ready
                 /\ g.kind = "Arm" => mac'.nonce = "fresh" /\ g.deadline = mac'.offer
      <4>1. CASE g \in net
        BY <3>1, <4>1, <1>4, <2>8, <2>9 DEF HandshakeInv, Genuine
      <4>2. CASE g = frame
        BY <3>1, <4>2, <2>5
      <4>3. QED
        BY <3>1, <4>1, <4>2, <2>1
    <3>2. QED
      BY <3>1 DEF Genuine
  <2>13. OfferInside'
    <3>1. SUFFICES ASSUME f.nonce = "fresh"
                   PROVE  /\ sup.ready # None /\ deadline # None
                          /\ deadline - sup.ready <= mac.deadline - readyAt - ClockError
      BY <1>4, <2>5 DEF OfferInside
    <3>2. f \in net
      BY <3>1, HandshakeAssumption
    <3>3. sup.ready # None /\ f.at = sup.ready
      BY <3>1, <3>2, <2>8 DEF HandshakeInv, Genuine
    <3>4. readyAt \in Readings /\ readyAt <= macNow
      BY <3>3 DEF HandshakeInv, Drift, TypeOK
    <3>5. at = macNow
      BY <1>2, <1>3, <1>6
    <3>6. deadline = f.at + (mac.deadline - at - ClockError)
      BY <2>4 DEF deadline
    <3>7. deadline # None
      BY <2>4, HandshakeAssumption DEF Readings
    <3>8. QED
      BY <1>1, <2>3, <3>3, <3>4, <3>5, <3>6, <3>7, HandshakeAssumption DEF Readings
  <2>14. Armed'
    BY <1>4, <2>10 DEF HandshakeInv, Armed
  <2>15. QED
    BY <2>7, <2>11, <2>12, <2>13, <2>14 DEF HandshakeInv
<1>7. QED
  BY <1>5, <1>6

\* Every step keeps the invariant.
LEMMA StepInv == HandshakeInv /\ [Next]_vars => HandshakeInv'
<1> SUFFICES ASSUME HandshakeInv, [Next]_vars PROVE HandshakeInv'
  OBVIOUS
<1>1. \A at \in Shown(macNow, mac) : at \in Readings
  BY DEF Shown, HandshakeInv, TypeOK
<1>2. \A at \in Shown(linuxNow, sup) : at \in Readings
  BY DEF Shown, HandshakeInv, TypeOK
<1>3. ASSUME NEW m \in Readings, NEW l \in Readings, Advance(m, l) PROVE HandshakeInv'
  BY <1>3, AdvanceInv
<1>4. ASSUME NEW at \in Shown(macNow, mac), MacTick(at) PROVE HandshakeInv'
  BY <1>1, <1>4, MacTickInv
<1>5. ASSUME NEW at \in Shown(macNow, mac), NEW f \in net \cup Strays, ReceiveReady(at, f)
      PROVE  HandshakeInv'
  BY <1>5, ReceiveReadyInv
<1>6. CASE Enter
  BY <1>6, EnterInv
<1>7. ASSUME NEW at \in Shown(linuxNow, sup), Ready(at) PROVE HandshakeInv'
  BY <1>7, ReadyInv
<1>8. ASSUME NEW at \in Shown(linuxNow, sup), SupTick(at) PROVE HandshakeInv'
  BY <1>2, <1>8, SupTickInv
<1>9. ASSUME NEW at \in Shown(linuxNow, sup), NEW f \in net \cup Strays, ReceiveArm(at, f)
      PROVE  HandshakeInv'
  BY <1>2, <1>9, ReceiveArmInv
<1>10. ASSUME NEW at \in Shown(linuxNow, sup), NEW attempt \in Attempts, NEW nonce \in Nonces,
              NEW matches \in BOOLEAN, QueryComplete(at, attempt, nonce, matches)
       PROVE  HandshakeInv'
  BY <1>2, <1>10, QueryCompleteInv
<1>11. CASE UNCHANGED vars
  BY <1>11 DEF vars, HandshakeInv, TypeOK, Drift, Genuine, OfferInside, Armed
<1>12. QED
  BY <1>3, <1>4, <1>5, <1>6, <1>7, <1>8, <1>9, <1>10, <1>11 DEF Next

\* The handshake's inductive invariant holds in every behaviour.
THEOREM HandshakeSafe == Spec => []HandshakeInv
  BY InitInv, StepInv, PTL DEF Spec

\* Both sides and the channel keep their types: no deadline ever overflows the clock.
THEOREM HandshakeTypeCorrect == Spec => []TypeOK
<1>1. HandshakeInv => TypeOK
  BY DEF HandshakeInv
<1>2. QED
  BY <1>1, HandshakeSafe, PTL

\* As long as an armed supervisor's own deadline has not come, the host's has not
\* either: the causal bound the handshake is for.
THEOREM DeadlineInsideHostWindow == Spec => []ArmedInsideHostWindow
<1>1. HandshakeInv => ArmedInsideHostWindow
  <2> SUFFICES ASSUME HandshakeInv, sup.deadline # None, linuxNow < sup.deadline
               PROVE  macNow < mac.deadline
    BY DEF ArmedInsideHostWindow
  <2>1. mac.nonce = "fresh" /\ mac.offer = sup.deadline
    BY DEF HandshakeInv, Armed
  <2>2. sup.ready # None /\ sup.deadline - sup.ready <= mac.deadline - readyAt - ClockError
    BY <2>1 DEF HandshakeInv, OfferInside
  <2>3. readyAt # None /\ linuxNow - sup.ready >= macNow - readyAt - ClockError
    BY <2>2 DEF HandshakeInv, Drift
  <2>4. /\ macNow \in Int /\ linuxNow \in Int /\ mac.deadline \in Int
        /\ sup.deadline \in Int /\ sup.ready \in Int /\ readyAt \in Int
    BY <2>2, <2>3
       DEF HandshakeInv, TypeOK, MacHandshakes, SupervisorHandshakes, Readings
  <2>5. QED
    BY <2>2, <2>3, <2>4, HandshakeAssumption
<1>2. QED
  BY <1>1, HandshakeSafe, PTL

\* An armed supervisor works under the one offer its host made to it.
THEOREM ArmedByItsHost == Spec => []ArmAgreement
<1>1. HandshakeInv => ArmAgreement
  BY DEF HandshakeInv, OfferInside, Armed, ArmAgreement
<1>2. QED
  BY <1>1, HandshakeSafe, PTL

\* A step that leaves the supervisor alone tightens nothing and forgets nothing.
LEMMA SameSupervisor ==
  ASSUME HandshakeInv, sup' = sup, sup.stage # "Absent"
  PROVE  /\ InForce(sup') <= InForce(sup)
         /\ sup.deadline # None => sup'.deadline = sup.deadline
         /\ sup.failure # "None" => sup' = sup
<1>1. InForce(sup) \in Readings
  BY DEF HandshakeInv, TypeOK, InForce, SupervisorHandshakes
<1>2. QED
  BY <1>1 DEF Readings

\* The same holds of every step of the supervisor that keeps its two deadlines.
LEMMA SameDeadlines ==
  ASSUME HandshakeInv, NEW s \in SupervisorHandshakes,
         s.preparation = sup.preparation, s.deadline = sup.deadline
  PROVE  InForce(s) <= InForce(sup)
<1>1. InForce(s) = InForce(sup) /\ InForce(sup) \in Readings
  BY DEF HandshakeInv, TypeOK, InForce, SupervisorHandshakes
<1>2. QED
  BY <1>1 DEF Readings

\* The deadline in force is never put off, and a failed handshake never moves on.
THEOREM DeadlineNeverExtended == Spec => DeadlineOnlyTightens
<1> DEFINE Tightens == /\ InForce(sup') <= InForce(sup)
                       /\ sup.deadline # None => sup'.deadline = sup.deadline
                       /\ sup.failure # "None" => sup' = sup
<1>1. ASSUME HandshakeInv, [Next]_vars, sup.stage # "Absent" PROVE Tightens
  <2>0. sup \in SupervisorHandshakes
    BY <1>1 DEF HandshakeInv, TypeOK
  <2>1. CASE sup' = sup
    BY <1>1, <2>1, SameSupervisor
  <2>2. \A at \in Shown(linuxNow, sup) : at \in Readings
    BY <1>1 DEF Shown, HandshakeInv, TypeOK
  <2>3. ASSUME NEW at \in Readings,
               sup' = SupLive(at) \/ (Alive(SupLive(at)) /\ sup' = Refused(SupLive(at)))
        PROVE  Tightens
    <3>1. /\ sup' \in SupervisorHandshakes /\ sup'.preparation = sup.preparation
          /\ sup'.deadline = sup.deadline
      BY <1>1, <2>3, SupLiveLemma, RefusedLemma
    <3>2. sup.failure # "None" => sup' = sup
      BY <1>1, <2>3, SupLiveLemma DEF Alive
    <3>3. QED
      BY <1>1, <3>1, <3>2, SameDeadlines
  <2>4. ASSUME NEW at \in Shown(linuxNow, sup), Ready(at) PROVE Tightens
    <3>1. CASE ~(Alive(SupLive(at)) /\ sup.stage = "Preparing")
      BY <2>2, <2>3, <2>4, <3>1 DEF Ready
    <3>2. CASE Alive(SupLive(at)) /\ sup.stage = "Preparing"
      <4>1. /\ SupLive(at) \in SupervisorHandshakes
            /\ SupLive(at).preparation = sup.preparation
            /\ SupLive(at).deadline = sup.deadline
            /\ sup.failure = "None"
        BY <1>1, <2>2, <3>2, SupLiveLemma DEF Alive
      <4>2. sup' = [SupLive(at) EXCEPT !.stage = "Ready", !.ready = at]
        BY <2>4, <3>2 DEF Ready
      <4>3. "Ready" \in Stages /\ at \in Readings
        BY <2>2 DEF Stages
      <4>4. /\ sup' \in SupervisorHandshakes /\ sup'.preparation = sup.preparation
            /\ sup'.deadline = sup.deadline
        BY <4>1, <4>2, <4>3 DEF SupervisorHandshakes
      <4>5. QED
        BY <1>1, <4>1, <4>4, SameDeadlines
    <3>3. QED
      BY <3>1, <3>2
  <2>5. ASSUME NEW at \in Shown(linuxNow, sup), NEW f \in net \cup Strays, ReceiveArm(at, f)
        PROVE  Tightens
    <3>1. CASE ~(Alive(SupLive(at)) /\ CheckArm(at, f))
      BY <2>2, <2>3, <2>5, <3>1 DEF ReceiveArm
    <3>2. CASE Alive(SupLive(at)) /\ CheckArm(at, f)
      <4>1. /\ SupLive(at) \in SupervisorHandshakes
            /\ SupLive(at).preparation = sup.preparation
            /\ sup.failure = "None"
        BY <1>1, <2>2, <3>2, SupLiveLemma DEF Alive
      <4>2. sup' = [SupLive(at) EXCEPT !.stage = "Armed", !.deadline = f.deadline]
        BY <2>5, <3>2 DEF ReceiveArm
      <4>3. /\ sup.stage = "Ready" /\ f.kind = "Arm" /\ f.nonce = "fresh"
            /\ f.deadline <= sup.preparation
        BY <3>2 DEF CheckArm
      <4>4. sup.deadline = None
        BY <1>1, <4>3 DEF HandshakeInv, Armed
      <4>5. f.deadline = mac.offer /\ mac.offer \in Readings
        BY <1>1, <4>3, HandshakeAssumption
           DEF HandshakeInv, Genuine, OfferInside, TypeOK, MacHandshakes
      <4>6. sup'.deadline = f.deadline /\ f.deadline # None
        BY <4>1, <4>2, <4>5, HandshakeAssumption DEF SupervisorHandshakes, Readings
      <4>7. InForce(sup') = f.deadline /\ InForce(sup) = sup.preparation
        BY <4>4, <4>6 DEF InForce
      <4>8. QED
        BY <4>1, <4>3, <4>4, <4>7
    <3>3. QED
      BY <3>1, <3>2
  <2>6. ASSUME NEW at \in Shown(linuxNow, sup), NEW attempt, NEW nonce, NEW matches,
               QueryComplete(at, attempt, nonce, matches)
        PROVE  Tightens
    <3>1. \/ sup' = SupLive(at)
          \/ Alive(SupLive(at)) /\ sup' = Refused(SupLive(at))
          \/ Alive(SupLive(at)) /\ sup' = [SupLive(at) EXCEPT !.stage = "QueryChecked"]
      BY <2>6 DEF QueryComplete
    <3>2. CASE Alive(SupLive(at)) /\ sup' = [SupLive(at) EXCEPT !.stage = "QueryChecked"]
      <4>1. /\ SupLive(at) \in SupervisorHandshakes
            /\ SupLive(at).preparation = sup.preparation
            /\ SupLive(at).deadline = sup.deadline
            /\ sup.failure = "None"
        BY <1>1, <2>2, <3>2, SupLiveLemma DEF Alive
      <4>2. "QueryChecked" \in Stages
        BY DEF Stages
      <4>3. /\ sup' \in SupervisorHandshakes /\ sup'.preparation = sup.preparation
            /\ sup'.deadline = sup.deadline
        BY <3>2, <4>1, <4>2 DEF SupervisorHandshakes
      <4>4. QED
        BY <1>1, <4>1, <4>3, SameDeadlines
    <3>3. QED
      BY <2>2, <2>3, <3>1, <3>2
  <2>7. ASSUME NEW at \in Shown(linuxNow, sup), SupTick(at) PROVE Tightens
    BY <2>2, <2>3, <2>7 DEF SupTick
  <2>8. \/ sup' = sup \/ Enter
        \/ \E at \in Shown(linuxNow, sup) :
             \/ Ready(at) \/ SupTick(at)
             \/ \E f \in net \cup Strays : ReceiveArm(at, f)
             \/ \E attempt \in Attempts, nonce \in Nonces, matches \in BOOLEAN :
                  QueryComplete(at, attempt, nonce, matches)
    BY <1>1 DEF Next, vars, Advance, MacTick, ReceiveReady
  <2>9. ~Enter
    BY <1>1 DEF Enter
  <2> HIDE DEF Tightens
  <2>10. QED
    BY <2>1, <2>4, <2>5, <2>6, <2>7, <2>8, <2>9
<1>2. HandshakeInv /\ [Next]_vars => [sup.stage # "Absent" => Tightens]_vars
  BY <1>1
<1>3. QED
  BY <1>2, HandshakeSafe, PTL DEF Spec, DeadlineOnlyTightens
=============================================================================
