------------------------------ MODULE RecordLog ------------------------------
(***************************************************************************)
(* What the attempt store of checker-runtime promises to the callers of    *)
(* append_attempt: an append-only log of records.  A record may be         *)
(* appended and still be lost with the power as long as nobody was told of *)
(* it or of a later one; the records up to the last one that a caller was  *)
(* told of are never lost, replaced or renumbered.                         *)
(***************************************************************************)
EXTENDS Naturals, Sequences

CONSTANTS Entries, Capacity

VARIABLES log, settled

logVars == <<log, settled>>

Init == log = <<>> /\ settled = 0

\* A publisher appends one record after all the others.
Extend ==
  /\ Len(log) < Capacity
  /\ \E e \in Entries : log' = Append(log, e)
  /\ UNCHANGED settled

\* A caller is told of a record: it is settled, and all the earlier ones.
Settle ==
  /\ settled' \in settled + 1 .. Len(log)
  /\ UNCHANGED log

\* The power goes: a suffix that nobody was told of may be gone.
Lose ==
  /\ \E kept \in settled .. Len(log) : log' = SubSeq(log, 1, kept)
  /\ UNCHANGED settled

Spec == Init /\ [][Extend \/ Settle \/ Lose]_logVars
=============================================================================
