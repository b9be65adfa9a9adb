--------------------------- MODULE ChannelBuilderMC ---------------------------
(***************************************************************************)
(* The builder with one compile and one check after it, two units and      *)
(* two processes for a leader to fork.                                     *)
(***************************************************************************)
EXTENDS ChannelBuilder

MCCommands == <<"compile", "check">>
=============================================================================
