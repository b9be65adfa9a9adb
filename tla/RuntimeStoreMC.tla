--------------------------- MODULE RuntimeStoreMC ---------------------------
(***************************************************************************)
(* Two publishers, two records (and transactions), three attempts, three   *)
(* deaths or errors and two losses of power.  Publishers and records are   *)
(* interchangeable: the properties are safety properties and name none.    *)
(***************************************************************************)
EXTENDS RuntimeStore, TLC

Interchangeable == Permutations(Publishers) \cup Permutations(Contents)
=============================================================================
