---------------------------- MODULE TracerState ----------------------------
(***************************************************************************)
(* The tracer's core: TracerState (TracerState.h) driven by the probes of  *)
(* probes.cpp.  The R interpreter is the environment: `phase', `rstack'    *)
(* and `rprom' say where it is, and every action is one interpreter event  *)
(* together with the whole probe that the event runs.                      *)
(*                                                                         *)
(* A DenotedValue is allocated on the heap and held in up to three places: *)
(* the promise map (promises_), the Arguments of calls on the stack, and   *)
(* promise contexts of the stack.  Addresses are reused after a delete, so *)
(* a dangling pointer may well point at a new object.                      *)
(*                                                                         *)
(* Left out: counters, timers, creation scopes and the other statistics    *)
(* that nothing in these probes reads back.                                *)
(***************************************************************************)
EXTENDS Integers, Sequences, FiniteSets, ExecutionStack

CONSTANTS
    Promises,       \* SEXP addresses of promises
    NonPromises,    \* arguments that are not promises: a value, R_MissingArg
    Ops,            \* functions R may call
    OpType,         \* [Ops -> CallTypes]
    NumFormals,     \* [Ops -> Nat]: formal parameters of a closure
    DotsAt,         \* [Ops -> Nat]: 1-based position of `...', 0 if none
    ReturnOp,       \* the special `return' (Function::is_return)
    Addr,           \* heap addresses of DenotedValues
    Ctxts,          \* RCNTXT addresses
    Envs,           \* environments of closures
    GlobalEnv,      \* R_GlobalEnv
    NoEnv,          \* the environment of a forced promise, NULL
    Types,          \* types of values (get_type_of_sexp)
    Lang,           \* as a promise's expression: a symbol or a call
    Unbound,        \* R_UnboundValue
    Null,           \* a null pointer
    Free,           \* unallocated memory
    NoJump,         \* no context_jump probe is running
    CallerPromises, \* whether promises may belong to a closure's environment
    MaxDots,        \* bound: values that `...' stands for
    MaxDepth        \* bound: contexts on the stack

ASSUME OpAssumption ==
    /\ OpType \in [Ops -> CallTypes]
    /\ NumFormals \in [Ops -> Nat] /\ DotsAt \in [Ops -> Nat]
    /\ \A op \in Ops : DotsAt[op] <= NumFormals[op]
    /\ ReturnOp \in Ops /\ OpType[ReturnOp] = "special"

ASSUME BoundAssumption == MaxDots \in Nat \ {0} /\ MaxDepth \in Nat

ASSUME DistinctAssumption ==
    /\ Promises \cap NonPromises = {} /\ Null \notin Addr \cup Nat /\ NoEnv \notin Envs
    /\ GlobalEnv \notin Envs /\ GlobalEnv # NoEnv /\ Unbound \notin Types /\ Lang \notin Types
    /\ CallerPromises \in BOOLEAN

VARIABLES
    phase,    \* R: "idle" or "tracing" (inside dyntrace)
    rstack,   \* R: what is running, [type, id, env, vals]; a closure keeps vals alive
    rprom,    \* R: the promises' contents
    stack,    \* stack_
    promises, \* promises_
    dvs,      \* the heap of DenotedValues
    jump,     \* the context_jump probe in progress, or NoJump
    log       \* the argument of the dyntrace_log_error that was called, or "none"

rvars == <<phase, rstack, rprom>>
vars == <<phase, rstack, rprom, stack, promises, dvs, jump, log>>

PromiseEnvs == {GlobalEnv, NoEnv} \cup Envs

RPromise == [env : PromiseEnvs, expr : Types \cup {Lang}, value : Types \cup {Unbound}]

\* Argument: its formal parameter position, is_dot_dot_dot, get_denoted_value.
Argument == [pos : Nat, dots : BOOLEAN, dv : Addr]

\* An Argument is named by its call and its index among the call's arguments.
ArgumentRef == [call : Nat, arg : Nat]

DenotedValue ==
    [object : Promises \cup NonPromises, active : BOOLEAN, env : PromiseEnvs,
     arguments : Seq(ArgumentRef), non_local_return : BOOLEAN]

\* The context_jump probe in progress: the height it unwinds to, the environment of that
\* context, whether a `return' started it, and how many promises it has marked so far.
Jump == [target : Nat, rho : PromiseEnvs, returned : BOOLEAN, marked : Nat]

ASSUME NothingAssumption == Free \notin DenotedValue /\ NoJump \notin Jump

IsArgument(dv) == dv.arguments # <<>>
-----------------------------------------------------------------------------
(***************************************************************************)
(* R promises and the types that closure_entry first guesses for them.     *)
(***************************************************************************)

\* A promise R may allocate: unforced, or with a value from the start (S3 dispatch).
NewPromises ==
    LET Scopes == {GlobalEnv} \cup
                  (IF CallerPromises
                   THEN {rstack[i].env : i \in {j \in 1..Len(rstack) : rstack[j].type = "closure"}}
                   ELSE {})
    IN  [env : Scopes, expr : Types \cup {Lang}, value : {Unbound}]
          \cup [env : {NoEnv}, expr : {Lang}, value : Types]

\* BUG: the value is taken without a look at R_UnboundValue.
InitialTypeUnchecked(v) == IF v \in NonPromises THEN "missing" ELSE rprom[v].value

\* closure_entry's "initial guess of the type" of an argument that is not in `...'.
InitialType(v) ==
    IF v \in NonPromises THEN "missing"
    ELSE IF rprom[v].value # Unbound THEN rprom[v].value
    ELSE IF rprom[v].expr = Lang THEN "any" ELSE rprom[v].expr

\* The sexptype of `...', as a type.
DotsType == "..."
-----------------------------------------------------------------------------
(***************************************************************************)
(* Operations of TracerState                                               *)
(***************************************************************************)

\* The positions of n arguments of a closure: before, in and after its `...'.
FormalPosition(op, n, j) ==
    LET d == DotsAt[op]
        k == n - NumFormals[op] + 1
    IN  IF d = 0 \/ j < d THEN j ELSE IF j < d + k THEN d ELSE j - k + 1

InDots(op, n, j) == DotsAt[op] # 0 /\ FormalPosition(op, n, j) = DotsAt[op]

\* process_closure_arguments_: an Argument for each value, its DenotedValue at addr[j].
ClosureArguments(op, addr) ==
    [j \in 1..Len(addr) |-> [pos  |-> FormalPosition(op, Len(addr), j),
                             dots |-> InDots(op, Len(addr), j),
                             dv   |-> addr[j]]]

\* The trace that closure_entry starts with.
InitialTrace(op, vals) ==
    [p \in 1..NumFormals[op] |->
        IF p = DotsAt[op] THEN DotsType
        ELSE InitialType(vals[CHOOSE j \in 1..Len(vals) : FormalPosition(op, Len(vals), j) = p])]

\* lookup_promise(create = true) and `new DenotedValue': known promises keep their
\* DenotedValue, every other value gets one at an address that was free.
Lookup(vals, addr) ==
    /\ \A j \in 1..Len(vals) :
          IF vals[j] \in Promises /\ promises[vals[j]] # Null
          THEN addr[j] = promises[vals[j]]
          ELSE dvs[addr[j]] = Free
    /\ \A j, k \in 1..Len(vals) : addr[j] = addr[k] => j = k

\* BUG: create_raw_promise_ forgets the active bit.
NewDenotedValueInactive(v, arguments) ==
    [object |-> v, active |-> FALSE,
     env |-> IF v \in Promises THEN rprom[v].env ELSE NoEnv,
     arguments |-> arguments, non_local_return |-> FALSE]

\* create_raw_promise_ sets the active bit; other values have no environment.
NewDenotedValue(v, arguments) ==
    [object |-> v, active |-> v \in Promises,
     env |-> IF v \in Promises THEN rprom[v].env ELSE NoEnv,
     arguments |-> arguments, non_local_return |-> FALSE]

\* BUG: the collector's destroy_promise deletes what a call still holds.
DestroyPromiseAlways(dv) == Free

\* BUG: destroy_promise leaves the deletion to a call that may not exist.
DestroyPromiseNever(dv) == [dv EXCEPT !.active = FALSE]

\* destroy_promise: clear the active bit, delete unless a call holds the value.
DestroyPromise(dv) ==
    IF IsArgument(dv) THEN [dv EXCEPT !.active = FALSE] ELSE Free

\* BUG: remove_argument takes the oldest entry.
DestroyArgumentFront(dv) ==
    IF dv.active THEN [dv EXCEPT !.arguments = SubSeq(@, 2, Len(@))] ELSE Free

\* BUG: remove_argument is not called.
DestroyArgumentKeeps(dv) == IF dv.active THEN dv ELSE Free

\* BUG: the last call deletes a value that the promise map still holds.
DestroyArgumentUnheld(dv) ==
    IF dv.active /\ Len(dv.arguments) > 1
    THEN [dv EXCEPT !.arguments = SubSeq(@, 1, Len(@) - 1)]
    ELSE Free

\* BUG: destroy_call does not delete what the collector has freed.
DestroyArgumentLeaks(dv) == [dv EXCEPT !.arguments = SubSeq(@, 1, Len(@) - 1)]

\* destroy_call, for one of the values that the call holds: delete it if it is
\* inactive, remove_argument otherwise.
DestroyArgument(dv) ==
    IF dv.active
    THEN [dv EXCEPT !.arguments = SubSeq(@, 1, Len(@) - 1)]
    ELSE Free

DestroyCall(call) ==
    LET Held == {call.args[j].dv : j \in 1..Len(call.args)}
    IN  [a \in Addr |-> IF a \in Held THEN DestroyArgument(dvs[a]) ELSE dvs[a]]

\* The check of remove_argument: this call's argument is the last of argument_stack_.
RemovesTop(h) ==
    \A j \in 1..Len(stack[h].args) :
        LET dv == dvs[stack[h].args[j].dv]
        IN  dv.active => dv.arguments[Len(dv.arguments)] = [call |-> h, arg |-> j]

\* What the exit probes require of the context that pop_stack returns.
Matches(type) == stack # <<>> /\ Top(stack).type = type
-----------------------------------------------------------------------------
Init ==
    /\ phase = "idle"
    /\ rstack = <<>>
    /\ rprom = [s \in Promises |-> [env |-> GlobalEnv, expr |-> Lang, value |-> Unbound]]
    /\ stack = <<>>
    /\ promises = [s \in Promises |-> Null]
    /\ dvs = [a \in Addr |-> Free]
    /\ jump = NoJump
    /\ log = "none"

\* R runs traced code: no probe is in progress and none has failed.
Running == phase = "tracing" /\ jump = NoJump /\ log = "none"

\* R starts to evaluate something (within the bound), with frame f.
Enter(f) == Len(rstack) < MaxDepth /\ rstack' = Append(rstack, f)

\* R ends what runs at the top of its stack.
Leave(type) ==
    /\ rstack # <<>> /\ Top(rstack).type = type
    /\ rstack' = Below(rstack)

\* dyntrace_entry.  R has run untraced before.
DyntraceEntry ==
    /\ phase = "idle" /\ log = "none"
    /\ phase' = "tracing"
    /\ rprom' \in [Promises -> NewPromises]
    /\ UNCHANGED <<rstack, stack, promises, dvs, jump, log>>

\* An environment R may allocate: no frame and no unforced promise keeps it alive.
IsFresh(e) ==
    /\ \A i \in 1..Len(rstack) : rstack[i].env # e
    /\ \A s \in Promises : rprom[s].env # e

\* closure_entry: create_call, create_call_trace, the initial types, push_stack.
\* The arguments of one call are distinct promises; its environment is new.
ClosureEntry(op, vals, addr) ==
    LET rho == CHOOSE e \in Envs : IsFresh(e)
        ArgumentAt(j) == [call |-> Len(stack) + 1, arg |-> j]
        Bind(j) == IF dvs[addr[j]] = Free
                   THEN NewDenotedValue(vals[j], <<ArgumentAt(j)>>)
                   ELSE [dvs[addr[j]] EXCEPT !.arguments = Append(@, ArgumentAt(j))]
        At(a) == {j \in 1..Len(addr) : addr[j] = a}
        Of(s) == {j \in 1..Len(vals) : vals[j] = s}
    IN  /\ Running
        /\ \A s \in Promises : \A j, k \in Of(s) : j = k
        /\ \E e \in Envs : IsFresh(e)
        /\ Enter([type |-> "closure", id |-> op, env |-> rho,
                  vals |-> {s \in Promises : Of(s) # {}}])
        /\ Lookup(vals, addr)
        /\ promises' = [s \in Promises |->
                          IF Of(s) = {} THEN promises[s] ELSE addr[CHOOSE j \in Of(s) : TRUE]]
        /\ dvs' = [a \in Addr |->
                     IF At(a) = {} THEN dvs[a] ELSE Bind(CHOOSE j \in At(a) : TRUE)]
        /\ stack' = Append(stack, [type |-> "closure", ref |-> op,
                                   args |-> ClosureArguments(op, addr),
                                   trace |-> InitialTrace(op, vals)])
        /\ UNCHANGED <<phase, rprom, jump, log>>

\* builtin_entry and special_entry: a call without Arguments.
PrimitiveEntry(op) ==
    /\ Running
    /\ OpType[op] \in {"builtin", "special"}
    /\ Enter([type |-> OpType[op], id |-> op, env |-> NoEnv, vals |-> {}])
    /\ stack' = Append(stack, [type |-> OpType[op], ref |-> op, args |-> <<>>, trace |-> <<>>])
    /\ UNCHANGED <<phase, rprom, promises, dvs, jump, log>>

\* closure_exit, builtin_exit, special_exit: pop_stack, destroy_call.
CallExit(type) ==
    /\ Running
    /\ Leave(type)
    /\ IF Matches(type)
       THEN /\ stack' = Below(stack)
            /\ dvs' = DestroyCall(Top(stack))
            /\ log' = IF RemovesTop(Len(stack)) THEN log
                      ELSE "removed argument does not match"
       ELSE /\ log' = "no matching context on stack"
            /\ UNCHANGED <<stack, dvs>>
    /\ UNCHANGED <<phase, rprom, promises, jump>>

\* promise_force_entry.  R forces no promise twice, or while it is being forced.
PromiseForceEntry(s, a) ==
    /\ Running
    /\ rprom[s].value = Unbound
    /\ \A i \in 1..Len(rstack) : ~(rstack[i].type = "promise" /\ rstack[i].id = s)
    /\ Enter([type |-> "promise", id |-> s, env |-> NoEnv, vals |-> {}])
    /\ Lookup(<<s>>, <<a>>)
    /\ promises' = [promises EXCEPT ![s] = a]
    /\ dvs' = IF dvs[a] = Free THEN [dvs EXCEPT ![a] = NewDenotedValue(s, <<>>)] ELSE dvs
    /\ stack' = Append(stack, [type |-> "promise", ref |-> a, args |-> <<>>, trace |-> <<>>])
    /\ UNCHANGED <<phase, rprom, jump, log>>

\* BUG: only the innermost call that holds the promise learns its type.
RecordTypeInLastCall(stk, arguments, type) ==
    LET last == arguments[Len(arguments)]
        arg  == stk[last.call].args[last.arg]
    IN  IF arguments = <<>> \/ arg.dots THEN stk
        ELSE [stk EXCEPT ![last.call].trace[arg.pos] = type]

\* The traces after a promise that has these Arguments got a value of this type: its
\* position in the trace of every call that it is an argument of, unless in `...'.
RecordType(stk, arguments, type) ==
    LET Recorded(i, p) ==
            \E k \in 1..Len(arguments) :
                LET arg == stk[i].args[arguments[k].arg]
                IN  arguments[k].call = i /\ ~arg.dots /\ arg.pos = p
    IN  [i \in 1..Len(stk) |->
            [stk[i] EXCEPT !.trace =
                [p \in DOMAIN @ |-> IF Recorded(i, p) THEN type ELSE @[p]]]]

\* promise_force_exit.  R has stored the value and dropped the environment.
PromiseForceExit(type) ==
    /\ Running
    /\ Leave("promise")
    /\ rprom' = [rprom EXCEPT ![Top(rstack).id].value = type, ![Top(rstack).id].env = NoEnv]
    /\ IF Matches("promise")
       THEN /\ stack' = RecordType(Below(stack), dvs[Top(stack).ref].arguments, type)
            /\ log' = log
       ELSE /\ log' = "unable to find matching promise on stack"
            /\ stack' = stack
    /\ UNCHANGED <<phase, promises, dvs, jump>>

\* context_entry.  A context that begins right after a closure's entry is its own.
ContextEntry(c) ==
    LET cloenv == IF rstack # <<>> /\ Top(rstack).type = "closure"
                  THEN Top(rstack).env ELSE GlobalEnv
    IN  /\ Running
        /\ \A i \in 1..Len(rstack) : ~(rstack[i].type = "context" /\ rstack[i].id = c)
        /\ Enter([type |-> "context", id |-> c, env |-> cloenv, vals |-> {}])
        /\ stack' = Append(stack, [type |-> "context", ref |-> c, args |-> <<>>, trace |-> <<>>])
        /\ UNCHANGED <<phase, rprom, promises, dvs, jump, log>>

\* context_exit.
ContextExit ==
    /\ Running
    /\ Leave("context")
    /\ IF Matches("context")
       THEN stack' = Below(stack) /\ log' = log
       ELSE log' = "Nonmatching r context on stack" /\ stack' = stack
    /\ UNCHANGED <<phase, rprom, promises, dvs, jump>>

\* context_jump: R has left everything above its ith frame.  unwind_stack finds the
\* contexts to end; JumpStep runs jump_single_context on them, top first, and takes
\* each off the stack as it does (no part of it changes anything by what is on the stack).
ContextJump(i) ==
    LET target == UnwindPoint(stack, rstack[i].id)
        count  == Len(stack) - target
    IN  /\ Running
        /\ rstack[i].type = "context"
        /\ rstack' = SubSeq(rstack, 1, i)
        /\ IF target = 0
           THEN /\ log' = "cannot find matching context while unwinding"
                /\ jump' = jump
           ELSE /\ log' = log
                /\ jump' = IF count = 0 THEN NoJump
                           ELSE [target   |-> target,
                                 rho      |-> rstack[i].env,
                                 returned |-> /\ count > 1
                                              /\ Top(stack).type = "special"
                                              /\ Top(stack).ref = ReturnOp,
                                 marked   |-> 0]
        /\ UNCHANGED <<phase, rprom, stack, promises, dvs>>

\* jump_single_context for the context at the top.
JumpStep ==
    LET dv == dvs[Top(stack).ref]
        IsNonLocalReturn == /\ Top(stack).type = "promise"
                            /\ jump.returned /\ IsArgument(dv) /\ dv.env = jump.rho
        marked == jump.marked + (IF IsNonLocalReturn THEN 1 ELSE 0)
    IN  /\ jump # NoJump /\ log = "none"
        /\ stack' = Below(stack)
        /\ jump' = IF Len(stack) - 1 = jump.target THEN NoJump
                   ELSE [jump EXCEPT !.marked = marked]
        /\ dvs' = IF IsCall(Top(stack)) THEN DestroyCall(Top(stack))
                  ELSE IF IsNonLocalReturn
                       THEN [dvs EXCEPT ![Top(stack).ref].non_local_return = TRUE]
                       ELSE dvs
        /\ log' = IF IsCall(Top(stack)) => RemovesTop(Len(stack)) THEN log
                  ELSE "removed argument does not match"
        /\ UNCHANGED <<phase, rstack, rprom, promises>>

\* gc_unmark of a promise.  R does not free a promise that it is forcing, nor one that
\* two of its calls hold: the caller's context protects what a dispatch passes on.
\* The address is used again at once.  A promise the map does not know is entered and
\* removed again, which leaves no trace.
GcUnmark(s) ==
    /\ Running
    /\ \A i \in 1..Len(rstack) : ~(rstack[i].type = "promise" /\ rstack[i].id = s)
    /\ \A i, k \in 1..Len(rstack) : s \in rstack[i].vals /\ s \in rstack[k].vals => i = k
    /\ rstack' = [i \in 1..Len(rstack) |-> [rstack[i] EXCEPT !.vals = @ \ {s}]]
    /\ \E new \in NewPromises : rprom' = [rprom EXCEPT ![s] = new]
    /\ promises' = [promises EXCEPT ![s] = Null]
    /\ dvs' = IF promises[s] = Null THEN dvs
              ELSE [dvs EXCEPT ![promises[s]] = DestroyPromise(@)]
    /\ UNCHANGED <<phase, stack, jump, log>>

\* dyntrace_exit: cleanup.
DyntraceExit ==
    /\ Running
    /\ rstack = <<>>
    /\ phase' = "idle"
    /\ dvs' = [a \in Addr |->
                 IF \E s \in Promises : promises[s] = a THEN DestroyPromise(dvs[a]) ELSE dvs[a]]
    /\ promises' = [s \in Promises |-> Null]
    /\ log' = IF stack = <<>> THEN log ELSE "stack not empty on tracer exit"
    /\ UNCHANGED <<rstack, rprom, stack, jump>>
-----------------------------------------------------------------------------
\* How many values R may pass to a closure: a lone `...' stands for at least one.
ArgumentCounts(op) ==
    IF DotsAt[op] = 0 THEN {NumFormals[op]}
    ELSE NumFormals[op]..(NumFormals[op] + MaxDots - 1)

AnyClosureEntry ==
    \E op \in Ops :
        /\ OpType[op] = "closure"
        /\ \E n \in ArgumentCounts(op) :
              \E vals \in [1..n -> Promises \cup NonPromises], addr \in [1..n -> Addr] :
                  ClosureEntry(op, vals, addr)

Next ==
    \/ DyntraceEntry
    \/ AnyClosureEntry
    \/ \E op \in Ops : PrimitiveEntry(op)
    \/ \E type \in CallTypes : CallExit(type)
    \/ \E s \in Promises, a \in Addr : PromiseForceEntry(s, a)
    \/ \E type \in Types : PromiseForceExit(type)
    \/ \E c \in Ctxts : ContextEntry(c)
    \/ ContextExit
    \/ \E i \in 1..Len(rstack) : ContextJump(i)
    \/ JumpStep
    \/ \E s \in Promises : GcUnmark(s)
    \/ DyntraceExit

Spec == Init /\ [][Next]_vars

-----------------------------------------------------------------------------
(***************************************************************************)
(* Properties                                                              *)
(***************************************************************************)

RFrame == [type : ContextTypes, id : Ops \cup Promises \cup Ctxts, env : PromiseEnvs,
           vals : SUBSET Promises]

Context == [type : ContextTypes, ref : Ops \cup Addr \cup Ctxts, args : Seq(Argument),
            trace : UNION {[1..n -> Types \cup {"missing", "any", DotsType}] :
                           n \in {0} \cup {NumFormals[op] : op \in Ops}}]

Messages == {"none", "removed argument does not match", "no matching context on stack",
             "unable to find matching promise on stack", "Nonmatching r context on stack",
             "cannot find matching context while unwinding", "stack not empty on tracer exit"}

\* Type correctness of every variable.
TypeOK ==
    /\ phase \in {"idle", "tracing"}
    /\ rstack \in Seq(RFrame)
    /\ rprom \in [Promises -> RPromise]
    /\ stack \in Seq(Context)
    /\ promises \in [Promises -> Addr \cup {Null}]
    /\ dvs \in [Addr -> DenotedValue \cup {Free}]
    /\ jump \in Jump \cup {NoJump}
    /\ log \in Messages

Calls == {h \in 1..Len(stack) : IsCall(stack[h])}

Allocated(a) == a \in Addr /\ dvs[a] # Free

\* The stack the tracer keeps is R's own: same contexts, same order; during a jump, up
\* to the jump's target.  (The exit probes, and unwind, rest on it without a check of
\* which function, promise or context they pop.)
StackMirrorsR ==
    /\ Len(rstack) = IF jump = NoJump THEN Len(stack) ELSE jump.target
    /\ jump # NoJump => jump.target < Len(stack)
    /\ \A i \in 1..Len(rstack) :
          /\ stack[i].type = rstack[i].type
          /\ stack[i].type # "promise" => stack[i].ref = rstack[i].id
          /\ stack[i].type = "promise" => Allocated(stack[i].ref) /\ dvs[stack[i].ref].object = rstack[i].id

\* No dyntrace_log_error is reachable: the popped context always has the kind the probe
\* expects, unwinding always finds its target, remove_argument always removes the last
\* argument (DenotedValue.cpp), and the stack is empty when the tracer exits.
NoErrorLogged == log = "none"

\* promises_ and the active bit say the same: a promise is in the map iff its
\* DenotedValue is allocated, is that promise's, and is active.
MapMatchesActive ==
    /\ \A s \in Promises : promises[s] # Null =>
          Allocated(promises[s]) /\ dvs[promises[s]].active /\ dvs[promises[s]].object = s
    /\ \A a \in Addr : Allocated(a) /\ dvs[a].active =>
          dvs[a].object \in Promises /\ promises[dvs[a].object] = a

\* No Argument of a call on the stack has a deleted DenotedValue, or one whose memory
\* was given to another: the value has that very Argument in its argument stack.
NoDanglingValue ==
    \A h \in 1..Len(stack) : \A j \in 1..Len(stack[h].args) :
        /\ Allocated(stack[h].args[j].dv)
        /\ \E k \in 1..Len(dvs[stack[h].args[j].dv].arguments) :
              dvs[stack[h].args[j].dv].arguments[k] = [call |-> h, arg |-> j]

\* "we know that the call is valid because this is an argument promise" (probes.cpp):
\* every entry of an argument stack is an Argument of a call that is still on the
\* stack, and holds this value; the calls come in stack order.
NoDanglingArgument ==
    \A a \in Addr : Allocated(a) =>
        LET args == dvs[a].arguments
        IN  /\ \A k \in 1..Len(args) : /\ args[k].call \in 1..Len(stack)
                                       /\ args[k].arg \in 1..Len(stack[args[k].call].args)
                                       /\ stack[args[k].call].args[args[k].arg].dv = a
            /\ \A k, l \in 1..Len(args) : k < l => args[k].call < args[l].call

\* A promise that is being forced stays allocated and in the map until its context
\* leaves the stack: promise_force_exit and jump_single_context write into it.
ForcedStaysAlive ==
    \A h \in 1..Len(stack) : stack[h].type = "promise" =>
        Allocated(stack[h].ref) /\ dvs[stack[h].ref].active

\* A DenotedValue that the collector has freed is held by one call at most: destroy_call
\* deletes it without asking who else holds it.
DeadHasOneHolder ==
    \A a \in Addr : Allocated(a) /\ ~dvs[a].active => Len(dvs[a].arguments) = 1

\* When tracing ends nothing is left: every DenotedValue was deleted, by the collector,
\* by its last call or by cleanup, and the stack is empty.
ExitReleasesAll ==
    phase = "idle" => stack = <<>> /\ \A a \in Addr : ~Allocated(a)

\* A promise in the map that a call of R's stack holds is one R keeps alive for it.
FramesHold ==
    \A h \in 1..Len(rstack) : \A j \in 1..Len(stack[h].args) :
        LET dv == dvs[stack[h].args[j].dv]
        IN  dv # Free /\ dv.active => dv.object \in rstack[h].vals

\* Only calls have Arguments, and no two contexts are the same RCNTXT.
WellFormedStacks ==
    /\ phase = "idle" => rstack = <<>> /\ jump = NoJump
    /\ \A h \in 1..Len(stack) : ~IsCall(stack[h]) => stack[h].args = <<>>
    /\ \A i, k \in 1..Len(rstack) :
          rstack[i].type = "context" /\ rstack[k].type = "context" /\ rstack[i].id = rstack[k].id
              => i = k

\* Who holds a DenotedValue: the map, calls and promise contexts.
Holding ==
    /\ MapMatchesActive
    /\ NoDanglingValue
    /\ NoDanglingArgument
    /\ ForcedStaysAlive
    /\ DeadHasOneHolder

\* The inductive invariant.
IInv ==
    /\ TypeOK
    /\ StackMirrorsR
    /\ NoErrorLogged
    /\ Holding
    /\ ExitReleasesAll
    /\ FramesHold
    /\ WellFormedStacks

\* The call trace of every call in progress has, at each argument outside `...', the
\* type that this promise would be given now: forcing it anywhere updates the traces of
\* all the calls that hold it, and nothing else changes them.
TracesAreCurrent ==
    \A h \in Calls : \A j \in 1..Len(stack[h].args) :
        LET arg == stack[h].args[j]
        IN  IF arg.dots THEN stack[h].trace[arg.pos] = DotsType
            ELSE dvs[arg.dv].active => stack[h].trace[arg.pos] = InitialType(dvs[arg.dv].object)

\* "only one promise can be held responsible for non local return" (probes.cpp): a
\* single jump marks at most one promise.
OneNonLocalReturn == jump # NoJump => jump.marked <= 1

\* Reference counting: this tracer implements PromiseOwnership, with the map as holder of
\* the active values and the calls of the argument stack as the others.
Ownership ==
    INSTANCE PromiseOwnership WITH
        Map <- Null, Heights <- 1..MaxDepth,
        holders <- [a \in Addr |->
                      IF dvs[a] = Free THEN {}
                      ELSE (IF dvs[a].active THEN {Null} ELSE {})
                           \cup {dvs[a].arguments[k].call : k \in 1..Len(dvs[a].arguments)}]

\* A DenotedValue is allocated exactly while the promise map or a call holds it.
ImplementsOwnership == Ownership!Spec
=============================================================================
