---------------------------- MODULE MCPromiseUse ----------------------------
(***************************************************************************)
(* An instance of PromiseUse for TLC: two uses that Arguments hear of and  *)
(* one, direct and indirect, that they do not.                             *)
(***************************************************************************)
EXTENDS PromiseUse

CONSTANTS force, lookup_value

MCPlainUses == {force, lookup_value}
=============================================================================
