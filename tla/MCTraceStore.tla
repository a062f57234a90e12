---------------------------- MODULE MCTraceStore ----------------------------
(***************************************************************************)
(* Instances of TraceStore for TLC: t1 and t2 have the same hash, t3 has   *)
(* another; the three differ in how many positions they have.              *)
(***************************************************************************)
EXTENDS TraceStore

MCTraces == {"t1", "t2", "t3"}
MCHash == [t \in MCTraces |-> IF t = "t3" THEN "h2" ELSE "h1"]
MCLastPos == [t \in MCTraces |-> CASE t = "t1" -> 0 [] t = "t2" -> -1 [] t = "t3" -> 2]
=============================================================================
