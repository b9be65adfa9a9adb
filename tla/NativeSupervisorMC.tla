-------------------------- MODULE NativeSupervisorMC --------------------------
(***************************************************************************)
(* A small instance of the driver: a query of one write, a standard output *)
(* of one read at most and a standard error that must stay empty.          *)
(***************************************************************************)
EXTENDS NativeSupervisor

MCLimits == [stdout |-> 1, stderr |-> 0]

\* For the liveness property: any output of the child is too much.
MCQuiet == [stdout |-> 0, stderr |-> 0]
=============================================================================
