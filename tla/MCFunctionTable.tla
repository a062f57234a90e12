-------------------------- MODULE MCFunctionTable --------------------------
(***************************************************************************)
(* An instance of FunctionTable for TLC: a closure in two namespaces,      *)
(* another closure, and two builtins with one C function.                  *)
(***************************************************************************)
EXTENDS FunctionTable, TLC

MCBodies == {"global_f", "base_f", "g", "and", "not"}
MCPrimitives == {"and", "not"}
MCType == [b \in MCBodies |-> IF b \in MCPrimitives THEN "builtin" ELSE "closure"]
MCDefinition ==
    [b \in MCBodies |-> CASE b = "g" -> "def_g" [] b \in MCPrimitives -> "none" [] OTHER -> "def_f"]
MCIds == {"hash_global_f", "hash_base_f", "hash_g", "do_logic"}
MCId == [b \in MCBodies |-> CASE b = "global_f" -> "hash_global_f"
                              [] b = "base_f" -> "hash_base_f"
                              [] b = "g" -> "hash_g"
                              [] OTHER -> "do_logic"]

MCSymmetry == Permutations(Ops) \cup Permutations(Addr)
=============================================================================
