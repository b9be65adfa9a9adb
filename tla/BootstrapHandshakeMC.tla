------------------------- MODULE BootstrapHandshakeMC -------------------------
(***************************************************************************)
(* A small instance of the handshake: the strays are the READY and ARM of  *)
(* an earlier run of the same attempt, at every time, and one frame with   *)
(* each of the other defects a frame can have.                             *)
(***************************************************************************)
EXTENDS BootstrapHandshake

Late == MaxClock - 1

MCStrays ==
  {f \in ReadyFrames : f.attempt = "this" /\ f.nonce = "old" /\ f.matches
                       /\ f.preparation = f.at + Window}
    \cup {f \in ArmFrames : f.attempt = "this" /\ f.nonce = "old" /\ f.matches}
    \cup {[kind |-> "Ready", attempt |-> "other", nonce |-> "old", at |-> 0,
           preparation |-> Window, matches |-> TRUE],
          [kind |-> "Ready", attempt |-> "this", nonce |-> "old", at |-> 0,
           preparation |-> Window, matches |-> FALSE],
          [kind |-> "Arm", attempt |-> "other", nonce |-> "old", deadline |-> Late,
           matches |-> TRUE],
          [kind |-> "Other", attempt |-> "this", nonce |-> "old"]}
=============================================================================
