---------------------------- MODULE MCPropagatr ----------------------------
(***************************************************************************)
(* Instance of Propagatr for TLC: a closure f(x) and the special return.   *)
(***************************************************************************)
EXTENDS Propagatr

MCOpType == [op \in Ops |-> IF op = "return" THEN "special" ELSE "closure"]
MCNumFormals == [op \in Ops |-> IF op = "return" THEN 0 ELSE 1]
MCDotsAt == [op \in Ops |-> 0]
=============================================================================
