---------------------------- MODULE MCLifecycle ----------------------------
(***************************************************************************)
(* Instance of Lifecycle for TLC: a directory in a folder that can be      *)
(* made, and one in a folder that cannot.                                  *)
(***************************************************************************)
EXTENDS Lifecycle

MCDirs == {"r/a", "s/b"}
MCFolders == MCDirs \cup {"r", "s"}
MCPath == [d \in MCDirs |-> <<IF d = "s/b" THEN "s" ELSE "r", d>>]
=============================================================================
