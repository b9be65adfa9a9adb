---- MODULE AcquisitionMC ----
(***************************************************************************)
(* Three requests: the tail of a retained file, a whole file, and a whole  *)
(* file of two bytes whose end is the limit of the batch.                  *)
(***************************************************************************)
EXTENDS Acquisition

MCBody == <<1, 1, 2>>
=============================================================================
