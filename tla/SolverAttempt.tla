---------------------------- MODULE SolverAttempt ----------------------------
(***************************************************************************)
(* What every supervisor of the repository promises about one attempt to   *)
(* run the solver: the solver starts at most once and never after a        *)
(* failure, a failure is never taken back, and the attempt is judged once, *)
(* with a response only if the solver ran, nothing failed and nothing of   *)
(* it is left behind.                                                      *)
(***************************************************************************)

VARIABLES
  started,  \* the solver is known to have started
  failed,   \* the attempt can no longer succeed
  gone,     \* the solver's process tree is proved to be gone and cleaned up
  verdict   \* "none", "response" or "refused"

attemptVars == <<started, failed, gone, verdict>>

AttemptInit == started = FALSE /\ failed = FALSE /\ gone = FALSE /\ verdict = "none"

\* A step that fails records the failure together with what it observed.
Sticky == failed => failed'

Start ==
  /\ verdict = "none" /\ ~started /\ ~failed
  /\ started' = TRUE /\ failed' \in BOOLEAN
  /\ UNCHANGED <<gone, verdict>>

Fail ==
  /\ verdict = "none" /\ ~failed
  /\ failed' = TRUE
  /\ UNCHANGED <<started, gone, verdict>>

Vanish ==
  /\ verdict = "none" /\ ~gone
  /\ gone' = TRUE /\ failed' \in BOOLEAN /\ Sticky
  /\ UNCHANGED <<started, verdict>>

Respond ==
  /\ verdict = "none" /\ started /\ gone /\ ~failed
  /\ verdict' = "response"
  /\ UNCHANGED <<started, gone, failed>>

Refuse ==
  /\ verdict = "none"
  /\ verdict' = "refused" /\ failed' \in BOOLEAN /\ Sticky
  /\ UNCHANGED <<started, gone>>

AttemptNext == Start \/ Fail \/ Vanish \/ Respond \/ Refuse

AttemptSpec == AttemptInit /\ [][AttemptNext]_attemptVars
=============================================================================
