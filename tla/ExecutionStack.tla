--------------------------- MODULE ExecutionStack ---------------------------
(***************************************************************************)
(* The tracer's execution context stack (ExecutionContextStack.h) as       *)
(* operators on sequences.  The top of the stack is the END of the         *)
(* sequence, as in the std::vector.  A context is a record                 *)
(*                                                                         *)
(*   [type, ref, args, trace]                                              *)
(*                                                                         *)
(* type says which member of the union of ExecutionContext.h is set, ref   *)
(* is that member (the called function, the DenotedValue*, the RCNTXT* ),  *)
(* and args and trace are the Call's arguments and its CallTrace: a Call   *)
(* is reached only through the stack and is destroyed when its context     *)
(* leaves it, so the position on the stack identifies the Call object.     *)
(***************************************************************************)
EXTENDS Integers, Sequences

CallTypes    == {"closure", "builtin", "special"}
ContextTypes == CallTypes \cup {"promise", "context"}

\* ExecutionContext::is_call.
IsCall(exec_ctxt) == exec_ctxt.type \in CallTypes

\* peek(1); the caller makes sure that the stack is not empty, at() throws.
Top(stk) == stk[Len(stk)]

\* pop() without its result.
Below(stk) == SubSeq(stk, 1, Len(stk) - 1)

\* BUG: unwind pops the context that it was looking for, too.
UnwindBelow(stk, cptr) ==
    LET IsTarget(i) == stk[i].type = "context" /\ stk[i].ref = cptr
    IN  CHOOSE h \in 0..Len(stk) :
            /\ h + 1 <= Len(stk) => IsTarget(h + 1)
            /\ \A i \in (h + 2)..Len(stk) : ~IsTarget(i)

\* unwind pops until it sees an r context with this pointer and leaves that one
\* on the stack.  The result is the height it leaves, 0 if it found none.
UnwindPoint(stk, cptr) ==
    LET IsTarget(i) == stk[i].type = "context" /\ stk[i].ref = cptr
    IN  CHOOSE h \in 0..Len(stk) :
            /\ h = 0 \/ IsTarget(h)
            /\ \A i \in (h + 1)..Len(stk) : ~IsTarget(i)

=============================================================================
