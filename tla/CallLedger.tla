----------------------------- MODULE CallLedger -----------------------------
(***************************************************************************)
(* What the tracer promises about calls: one that begins stays open until  *)
(* it ends, and is then counted, once, as a trace of its function.  A      *)
(* builtin or special that a jump leaves is dropped; a closure never is.   *)
(***************************************************************************)
EXTENDS Naturals

CONSTANTS
    Functions, \* functions that may be called
    Closures,  \* those that are closures
    Traces     \* what a call may end as; field op is its function

VARIABLES
    open,      \* how many calls of each function are open
    counted    \* how many calls ended as each trace

vars == <<open, counted>>

Init ==
    /\ open = [f \in Functions |-> 0]
    /\ counted = [t \in Traces |-> 0]

Begin(f) ==
    /\ open' = [open EXCEPT ![f] = @ + 1]
    /\ UNCHANGED counted

End(t) ==
    /\ open[t.op] > 0
    /\ open' = [open EXCEPT ![t.op] = @ - 1]
    /\ counted' = [counted EXCEPT ![t] = @ + 1]

Drop(f) ==
    /\ f \notin Closures
    /\ open[f] > 0
    /\ open' = [open EXCEPT ![f] = @ - 1]
    /\ UNCHANGED counted

Next ==
    \/ \E f \in Functions : Begin(f) \/ Drop(f)
    \/ \E t \in Traces : End(t)

Spec == Init /\ [][Next]_vars
=============================================================================
