----------------------------- MODULE Propagatr -----------------------------
(***************************************************************************)
(* The whole tracer: the core (TracerState) with the store of call traces  *)
(* (TraceStore).  The exit probes and jump_single_context (probes.cpp)     *)
(* complete the CallTrace of the call that ends with the type at position  *)
(* -1, hand it to deal_with_call_trace, and only then destroy the call;    *)
(* the store takes several steps for that, and R waits.                    *)
(*                                                                         *)
(* Distinct call traces have distinct hashes here (CallTrace says when     *)
(* that is so), and no SIGTERM is sent (TraceStore says what it does).     *)
(***************************************************************************)
EXTENDS TracerState, FiniteSetsExt

CONSTANTS
    MaxCalls,  \* bound: calls of all sessions
    MaxArgs    \* bound: arguments of a builtin or special

ASSUME CallsAssumption == MaxCalls \in Nat /\ MaxArgs \in Nat

VARIABLES
    pc, trace, traces, counts, file, seen, interrupted,   \* the store
    dealt,     \* whether the trace of the call on top was handed to the store
    value,     \* context_jump's return_value as a type, or NoValue
    begun      \* ghost: how many calls of each function began

storeVars == <<pc, trace, traces, counts, file, seen, interrupted>>
allVars == <<vars, storeVars, dealt, value, begun>>

\* A null return_value; Type(sexptype_t) knows no name for its type and leaves it empty.
NoValue == ""

\* The type that unwound calls end with.
Jumped == "jumped"

\* A trace of a closure has a position for each formal; R passes any number of values to a
\* builtin or special.
NumArgs(op) == IF OpType[op] = "closure" THEN {NumFormals[op]} ELSE 0..MaxArgs

\* CallTrace of a function: the types of its arguments, and of its value.
CallTraces ==
    UNION {[op    : {op},
            types : UNION {[1..n -> Types \cup {"missing", "any", DotsType}] : n \in NumArgs(op)},
            ret   : Types \cup {Jumped, NoValue}] : op \in Ops}

ASSUME NullAssumption ==
    Null \notin CallTraces \cup [trace : CallTraces, count : Nat]

Store == INSTANCE TraceStore WITH
            Traces <- CallTraces, Hashes <- CallTraces,
            Hash <- [t \in CallTraces |-> t],
            LastPos <- [t \in CallTraces |-> Len(t.types) - 1],
            Absent <- Null, Signals <- FALSE, MaxSeen <- MaxCalls
-----------------------------------------------------------------------------
AllInit ==
    /\ Init
    /\ Store!Init
    /\ trace = CHOOSE t \in CallTraces : TRUE
    /\ dealt = FALSE /\ value = NoValue
    /\ begun = [op \in Ops |-> 0]

\* No probe is waiting for the store.
Ready == pc = "running" /\ ~dealt

\* What a probe does that has nothing to do with the store.
Alone(CoreStep) == Ready /\ CoreStep /\ UNCHANGED <<storeVars, dealt, value>>

StartTracing ==
    /\ DyntraceEntry /\ Store!DyntraceEntry
    /\ UNCHANGED <<dealt, value, begun>>

CallBegins ==
    /\ MapThenSumSet(LAMBDA op : begun[op], Ops) < MaxCalls
    /\ Alone(AnyClosureEntry \/ \E op \in Ops : PrimitiveEntry(op))
    /\ begun' = [begun EXCEPT ![Top(stack').ref] = @ + 1]

PromiseOrContext ==
    /\ Alone(\/ \E s \in Promises, a \in Addr : PromiseForceEntry(s, a)
             \/ \E type \in Types : PromiseForceExit(type)
             \/ \E c \in Ctxts : ContextEntry(c)
             \/ ContextExit
             \/ \E s \in Promises : GcUnmark(s))
    /\ UNCHANGED begun

\* The call on top is the one that ends: its trace, with ret at position -1, is handed on.
DealWith(types, ret) ==
    /\ Ready
    /\ Store!DealWithCallTrace([op |-> Top(stack).ref, types |-> types, ret |-> ret])
    /\ dealt' = TRUE
    /\ UNCHANGED <<vars, value, begun>>

\* closure_exit: the trace of the call, and its value with promises unwrapped.
ClosureReturns(ret) ==
    /\ Running /\ rstack # <<>> /\ Top(rstack).type = "closure" /\ Matches("closure")
    /\ DealWith(Top(stack).trace, ret)

\* builtin_exit and special_exit: deal_with_builtin_and_special makes the trace from the
\* values that R passed.
PrimitiveReturns(ret) ==
    /\ Running /\ rstack # <<>>
    /\ \E type \in CallTypes \ {"closure"} : Top(rstack).type = type /\ Matches(type)
    /\ \E n \in NumArgs(Top(stack).ref) : \E types \in [1..n -> Types] : DealWith(types, ret)

\* The rest of an exit probe, destroy_call.
CallEnds ==
    /\ pc = "running" /\ dealt
    /\ \E type \in CallTypes : CallExit(type)
    /\ dealt' = FALSE
    /\ UNCHANGED <<storeVars, value, begun>>

\* context_jump.  The value is only for the outermost of several contexts.
JumpStarts(i, ret) ==
    /\ Ready /\ ContextJump(i)
    /\ value' = IF Len(stack) - UnwindPoint(stack, rstack[i].id) > 1 THEN ret ELSE Jumped
    /\ UNCHANGED <<storeVars, dealt, begun>>

JumpedClosure == jump # NoJump /\ Top(stack).type = "closure"

\* BUG: every unwound closure is given the value's type.
UnwoundTypeOfAll == value

\* The return type that jump_single_context gives the closure on top.
UnwoundType == IF Len(stack) - 1 = jump.target THEN value ELSE Jumped

\* jump_single_context hands on the trace of a closure, like closure_exit.
JumpDeals ==
    /\ JumpedClosure
    /\ DealWith(Top(stack).trace, UnwoundType)

\* BUG: the closures that a jump leaves are destroyed without a count.
JumpContinuesUncounted ==
    /\ pc = "running"
    /\ JumpStep
    /\ dealt' = FALSE
    /\ UNCHANGED <<storeVars, value, begun>>

\* BUG: the loop does not go on after a promise.
JumpContinuesStuck ==
    /\ pc = "running" /\ jump # NoJump /\ (JumpedClosure <=> dealt)
    /\ IF Top(stack).type = "promise" THEN UNCHANGED vars ELSE JumpStep
    /\ dealt' = FALSE
    /\ UNCHANGED <<storeVars, value, begun>>

\* BUG: the loop comes to a closure again after it has handed on its trace.
JumpContinuesAtClosure ==
    /\ pc = "running" /\ jump # NoJump /\ (JumpedClosure <=> dealt)
    /\ IF JumpedClosure THEN UNCHANGED vars ELSE JumpStep
    /\ dealt' = FALSE
    /\ UNCHANGED <<storeVars, value, begun>>

\* The rest of jump_single_context, or all of it where there is no closure.
JumpContinues ==
    /\ pc = "running" /\ (JumpedClosure <=> dealt)
    /\ JumpStep
    /\ dealt' = FALSE
    /\ UNCHANGED <<storeVars, value, begun>>

\* deal_with_call_trace goes on.
StoreWorks ==
    /\ Store!Increment \/ Store!Insert \/ Store!Count
    /\ UNCHANGED <<vars, dealt, value, begun>>

\* dyntrace_exit: cleanup, and serialize_traces_list opens its file ...
StopTracing ==
    /\ ~dealt
    /\ DyntraceExit /\ Store!DyntraceExit
    /\ UNCHANGED <<dealt, value, begun>>

\* ... and writes it.
WriteTraces ==
    /\ Store!SerializeTracesList
    /\ UNCHANGED <<vars, dealt, value, begun>>

Probe == StoreWorks \/ CallEnds \/ JumpDeals \/ JumpContinues \/ WriteTraces

AllNext ==
    \/ StartTracing
    \/ CallBegins
    \/ PromiseOrContext
    \/ \E ret \in Types : ClosureReturns(ret) \/ PrimitiveReturns(ret)
    \/ \E i \in 1..Len(rstack), ret \in Types \cup {NoValue} : JumpStarts(i, ret)
    \/ Probe
    \/ StopTracing

PropagatrSpec == AllInit /\ [][AllNext]_allVars

\* A probe that has begun runs to its end: R waits for it.  R itself owes us nothing.
FairSpec == PropagatrSpec /\ WF_allVars(Probe)
-----------------------------------------------------------------------------
(***************************************************************************)
(* Properties                                                              *)
(***************************************************************************)

\* The calls of a function that began and are not counted yet.
OpenCalls(op) ==
    {h \in Calls : stack[h].ref = op /\ ~(h = Len(stack) /\ dealt /\ pc = "running")}

\* How many calls the store has counted as each trace, and how many the file has.
Counted == [t \in CallTraces |-> IF counts[t] = Null THEN 0 ELSE counts[t]]

Filed == [t \in CallTraces |-> IF file.rows[t] = Null THEN 0 ELSE file.rows[t].count]

\* The calls of a function that a table of numbers stands for, each as its trace and a
\* number among the calls with that trace.
CallsIn(table, op) == UNION {{t} \X (1..table[t]) : t \in {t \in CallTraces : t.op = op}}

Closures == {op \in Ops : OpType[op] = "closure"}

Ledger ==
    INSTANCE CallLedger WITH
        Functions <- Ops, Traces <- CallTraces,
        open <- [op \in Ops |-> Cardinality(OpenCalls(op))],
        counted <- Counted

\* Every closure call is counted exactly once, when it ends and as a trace of its function,
\* whether it returns or a jump leaves it; a builtin or special exactly once if it returns.
ImplementsLedger == Ledger!Spec

ProbeRuns == dealt \/ jump # NoJump \/ pc = "opened"

\* A probe comes to its end: what R jumped out of is all unwound, what it called is
\* counted, and R goes on.
ProbesEnd == ProbeRuns ~> ~ProbeRuns

\* How far the probe is with the context on top of the stack.
StageLeft ==
    CASE pc = "running" /\ ~dealt -> 4
      [] pc = "insert" -> 3
      [] pc \in {"increment", "count"} -> 2
      [] pc = "running" /\ dealt -> 1
      [] pc = "opened" -> 1
      [] OTHER -> 0

StepsLeft == 4 * Len(stack) + StageLeft

\* While a probe runs nothing else happens, and every step brings its end nearer: the loop
\* over the contexts that R jumped out of never turns twice for one of them.
ProbesAdvance == [][ProbeRuns => StepsLeft' < StepsLeft]_allVars

\* In a jump that leaves several closures, all but the outermost context end as "jumped";
\* a jump over a single one never has a value.  (That context need not be a closure, and
\* the value is the one that the jump carries to its target, not one that it returned.)
OnlyOutermostTyped ==
    jump # NoJump /\ dealt /\ trace.ret # Jumped =>
        Len(stack) - 1 = jump.target /\ value # Jumped

\* What dyntrace_exit leaves in the file counts every closure call that began, in this
\* session and the ones before it.
FileCountsClosures ==
    pc = "idle" => \A op \in Closures : begun[op] = Cardinality(CallsIn(Filed, op))

\* A call's context has the kind and the positions of its function.
CallsAreOfFunctions ==
    \A h \in Calls :
        /\ stack[h].ref \in Ops /\ stack[h].type = OpType[stack[h].ref]
        /\ stack[h].type = "closure" => DOMAIN stack[h].trace = 1..NumFormals[stack[h].ref]

\* Where a probe is with the trace of the call on top of the stack.
ProbeStages ==
    /\ phase = "idle" <=> pc \in {"idle", "opened"}
    /\ pc \in {"insert", "increment", "count"} => dealt
    /\ dealt => /\ pc \in {"running", "insert", "increment", "count"}
                /\ stack # <<>> /\ IsCall(Top(stack)) /\ trace.op = Top(stack).ref
    /\ dealt /\ jump # NoJump => JumpedClosure /\ trace.ret = UnwoundType

\* Every closure call that began is open or counted, and not both.
ClosuresAccounted ==
    \A op \in Closures :
        /\ IsFiniteSet(CallsIn(Counted, op))
        /\ begun[op] = Cardinality(OpenCalls(op)) + Cardinality(CallsIn(Counted, op))

\* The inductive invariant of the whole.
WholeInv ==
    /\ IInv /\ Store!IInv
    /\ dealt \in BOOLEAN /\ value \in Types \cup {Jumped, NoValue}
    /\ begun \in [Ops -> Nat]
    /\ CallsAreOfFunctions
    /\ ProbeStages
    /\ ~file.complete => file = Store!EmptyFile
    /\ ClosuresAccounted
=============================================================================
