------------------------ MODULE SimulationControllerMC ------------------------
(***************************************************************************)
(* The controller with a fact budget above one, for the properties of the  *)
(* published record and those that relate it to the intents issued.  To    *)
(* keep the instance small stderr stays silent and closes only together    *)
(* with stdout, and attempts that collect facts of more than one kind of   *)
(* noise are not continued, except by finish().                            *)
(***************************************************************************)
EXTENDS SimulationController

Noise ==
  {f \in ctl.failures :
     f.kind \in {"InvalidSequence", "Transport", "Interrupted", "Control"}}

FewFaults == record = "None" => Cardinality(Noise) <= 1

SilentStderr ==
  ctl'.streams["stderr"] \in
    {ctl.streams["stderr"],
     [ctl.streams["stderr"] EXCEPT !.complete = ctl'.streams["stdout"].complete]}
=============================================================================
