--------------------------- MODULE MCTracerState ---------------------------
(***************************************************************************)
(* Instances of TracerState for TLC.                                       *)
(***************************************************************************)
EXTENDS TracerState, TLC

\* f(x): one formal.  g(x, ...): one formal before the dots.  h(x, y): two.
MCOpType ==
    [op \in Ops |-> CASE op = "return" -> "special"
                      [] op = "sum"    -> "builtin"
                      [] OTHER         -> "closure"]

MCNumFormals ==
    [op \in Ops |-> CASE op = "f" -> 1
                      [] op = "g" -> 2
                      [] op = "h" -> 2
                      [] OTHER    -> 0]

MCDotsAt == [op \in Ops |-> IF op = "g" THEN 2 ELSE 0]

MCSymmetry ==
    Permutations(Promises) \cup Permutations(Addr) \cup Permutations(Ctxts)

\* Guides the search of the run nonlocal_return: main() calls f(p), p calls f(q), and q
\* calls return().
MCNestedPromises ==
    LET Shape == <<"closure", "context", "closure", "promise", "closure", "promise", "special">>
    IN  /\ \A i \in 1..Len(stack) : stack[i].type = Shape[i]
        /\ \A s \in Promises : rprom[s].value = Unbound /\ rprom[s].expr = Lang
=============================================================================
