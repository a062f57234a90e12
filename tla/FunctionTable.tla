---------------------------- MODULE FunctionTable ----------------------------
(***************************************************************************)
(* The Function objects of a tracer: functions_, keyed by the address of   *)
(* an R function, function_cache_, keyed by a function id, and the Calls   *)
(* that point to Functions (TracerState.h, Function.cpp, Call.h).          *)
(*                                                                         *)
(* R is the environment: it allocates, collects and changes the functions  *)
(* at its addresses, and reuses an address once its function is collected. *)
(* It does not collect while a probe runs, it collects no function that    *)
(* is running, and primitives are never collected.                         *)
(***************************************************************************)
EXTENDS Integers, Sequences

CONSTANTS
    Ops,         \* SEXP addresses of R functions
    Bodies,      \* what R may have at such an address: a closure or a primitive
    Type,        \* [Bodies -> {"closure", "builtin", "special"}]
    Definition,  \* [Bodies -> ...]: the deparsed closure; its namespace is the rest of the id
    Ids,         \* function ids
    Id,          \* [Bodies -> Ids]: compute_definition_and_id
    Addr,        \* heap addresses of Functions
    None,        \* no function at an address of R
    Null,        \* a null pointer, or no entry in a table
    Free,        \* unallocated memory
    MaxCalls     \* bound: calls on the stack

\* Closures have the id that hashes their namespace and definition, and hashes do not
\* collide.  Primitives have the name of their C function, which several of them may
\* share, but not a builtin with a special.
ASSUME IdAssumption ==
    /\ Type \in [Bodies -> {"closure", "builtin", "special"}]
    /\ Id \in [Bodies -> Ids]
    /\ \A b, c \in Bodies : Id[b] = Id[c] =>
          Type[b] = Type[c] /\ (Type[b] = "closure" => Definition[b] = Definition[c])

ASSUME NothingAssumption ==
    /\ None \notin Bodies /\ Free \notin Bodies
    /\ Null \notin Addr /\ Null \notin Ids
    /\ MaxCalls \in Nat

VARIABLES
    tracing,    \* R: inside dyntrace
    sexps,      \* R: [Ops -> Bodies \cup {None}]
    functions,  \* functions_
    cache,      \* function_cache_
    objects,    \* the heap of Functions, each named by the body it was made from
    calls,      \* the Calls on stack_, [op, function]
    first       \* history: the id a function had when this session first called it, or Null

vars == <<tracing, sexps, functions, cache, objects, calls, first>>

Call == [op : Ops, function : Addr]

Running(op) == \E i \in 1..Len(calls) : calls[i].op = op

SameFunction(b, c) ==
    Type[b] = Type[c] /\ (Type[b] = "closure" => Definition[b] = Definition[c])
-----------------------------------------------------------------------------
Init ==
    /\ tracing = FALSE
    /\ sexps \in [Ops -> Bodies \cup {None}]
    /\ functions = [op \in Ops |-> Null]
    /\ cache = [id \in Ids |-> Null]
    /\ objects = [a \in Addr |-> Free]
    /\ calls = <<>>
    /\ first = [op \in Ops |-> Null]

\* R allocates a closure; there is no probe for that.
Allocate(op, b) ==
    /\ sexps[op] = None /\ Type[b] = "closure"
    /\ sexps' = [sexps EXCEPT ![op] = b]
    /\ UNCHANGED <<tracing, functions, cache, objects, calls, first>>

\* `environment(f) <- env' changes a closure in place, and with it its namespace.
SetEnvironment(op, b) ==
    /\ sexps[op] # None /\ Type[sexps[op]] = "closure" /\ SameFunction(b, sexps[op])
    /\ sexps' = [sexps EXCEPT ![op] = b]
    /\ UNCHANGED <<tracing, functions, cache, objects, calls, first>>

DyntraceEntry ==
    /\ ~tracing
    /\ tracing' = TRUE
    /\ UNCHANGED <<sexps, functions, cache, objects, calls, first>>

\* BUG: a new Function is not put into function_cache_.
LookupFunctionUncached(op, a) ==
    /\ functions' = [functions EXCEPT ![op] = a]
    /\ UNCHANGED cache
    /\ IF functions[op] # Null
       THEN a = functions[op] /\ UNCHANGED objects
       ELSE objects[a] = Free /\ objects' = [objects EXCEPT ![a] = sexps[op]]

\* BUG: lookup_function asks function_cache_, by the id of now, before functions_.
LookupFunctionByIdFirst(op, a) ==
    /\ functions' = [functions EXCEPT ![op] = a]
    /\ IF cache[Id[sexps[op]]] # Null
       THEN a = cache[Id[sexps[op]]] /\ UNCHANGED <<cache, objects>>
       ELSE /\ objects[a] = Free
            /\ objects' = [objects EXCEPT ![a] = sexps[op]]
            /\ cache' = [cache EXCEPT ![Id[sexps[op]]] = a]

\* lookup_function(op) returns a: from functions_, or else from function_cache_, or else
\* it is a new Function.
LookupFunction(op, a) ==
    /\ functions' = [functions EXCEPT ![op] = a]
    /\ IF functions[op] # Null
       THEN a = functions[op] /\ UNCHANGED <<cache, objects>>
       ELSE IF cache[Id[sexps[op]]] # Null
       THEN a = cache[Id[sexps[op]]] /\ UNCHANGED <<cache, objects>>
       ELSE /\ objects[a] = Free
            /\ objects' = [objects EXCEPT ![a] = sexps[op]]
            /\ cache' = [cache EXCEPT ![Id[sexps[op]]] = a]

\* History: op is called, and the session counts its calls under the id it has at the first.
Remember(op) == first' = [first EXCEPT ![op] = IF @ = Null THEN Id[sexps[op]] ELSE @]

\* BUG: the call takes what functions_ had before lookup_function filled it.
CallEntryStale(op, a) ==
    /\ tracing /\ sexps[op] # None /\ Len(calls) < MaxCalls
    /\ LookupFunction(op, a)
    /\ calls' = Append(calls, [op |-> op, function |-> functions[op]])
    /\ Remember(op)
    /\ UNCHANGED <<tracing, sexps>>

\* closure_entry, builtin_entry and special_entry: create_call and push.
CallEntry(op, a) ==
    /\ tracing /\ sexps[op] # None /\ Len(calls) < MaxCalls
    /\ LookupFunction(op, a)
    /\ calls' = Append(calls, [op |-> op, function |-> a])
    /\ Remember(op)
    /\ UNCHANGED <<tracing, sexps>>

\* The exit probes, and context_jump for one call that it unwinds: pop and destroy_call.
CallExit ==
    /\ tracing /\ calls # <<>>
    /\ calls' = SubSeq(calls, 1, Len(calls) - 1)
    /\ UNCHANGED <<tracing, sexps, functions, cache, objects, first>>

\* BUG: gc_unmark has no case for closures.
RemoveFunctionNever(op) == functions

\* gc_closure_unmark: remove_function.
RemoveFunction(op) == [functions EXCEPT ![op] = Null]

\* R collects a closure.  The probe gc_unmark runs only inside dyntrace.
Collect(op) ==
    /\ sexps[op] # None /\ Type[sexps[op]] = "closure" /\ ~Running(op)
    /\ sexps' = [sexps EXCEPT ![op] = None]
    /\ functions' = IF tracing THEN RemoveFunction(op) ELSE functions
    /\ first' = [first EXCEPT ![op] = Null]
    /\ UNCHANGED <<tracing, cache, objects, calls>>

\* BUG: cleanup destroys the Functions of functions_, which a collected closure has left.
DyntraceExitByOps ==
    /\ tracing /\ calls = <<>>
    /\ tracing' = FALSE
    /\ objects' = [a \in Addr |-> IF \E op \in Ops : functions[op] = a THEN Free ELSE objects[a]]
    /\ functions' = [op \in Ops |-> Null]
    /\ cache' = [id \in Ids |-> Null]
    /\ first' = [op \in Ops |-> Null]
    /\ UNCHANGED <<sexps, calls>>

\* cleanup destroys the Functions of function_cache_ and clears both tables.
DyntraceExit ==
    /\ tracing /\ calls = <<>>
    /\ tracing' = FALSE
    /\ objects' = [a \in Addr |-> IF \E id \in Ids : cache[id] = a THEN Free ELSE objects[a]]
    /\ functions' = [op \in Ops |-> Null]
    /\ cache' = [id \in Ids |-> Null]
    /\ first' = [op \in Ops |-> Null]
    /\ UNCHANGED <<sexps, calls>>

Next ==
    \/ \E op \in Ops, b \in Bodies : Allocate(op, b) \/ SetEnvironment(op, b)
    \/ DyntraceEntry
    \/ \E op \in Ops, a \in Addr : CallEntry(op, a)
    \/ CallExit
    \/ \E op \in Ops : Collect(op)
    \/ DyntraceExit

Spec == Init /\ [][Next]_vars
-----------------------------------------------------------------------------
(***************************************************************************)
(* Properties                                                              *)
(***************************************************************************)

\* Type correctness of every variable.
TypeOK ==
    /\ tracing \in BOOLEAN
    /\ sexps \in [Ops -> Bodies \cup {None}]
    /\ functions \in [Ops -> Addr \cup {Null}]
    /\ cache \in [Ids -> Addr \cup {Null}]
    /\ objects \in [Addr -> Bodies \cup {Free}]
    /\ calls \in Seq(Call)
    /\ first \in [Ops -> Ids \cup {Null}]

\* Neither the tables nor a call on the stack point to a Function that was deleted.
NoDanglingFunction ==
    /\ \A op \in Ops : functions[op] # Null => objects[functions[op]] # Free
    /\ \A id \in Ids : cache[id] # Null => objects[cache[id]] # Free
    /\ \A i \in 1..Len(calls) : objects[calls[i].function] # Free

\* There is one Function for each id, and function_cache_ has it: no Function is leaked
\* and none is deleted twice by cleanup.
OneFunctionPerId ==
    /\ \A a \in Addr : objects[a] # Free => cache[Id[objects[a]]] = a
    /\ \A id \in Ids : cache[id] # Null => Id[objects[cache[id]]] = id

\* functions_ has an entry for just the functions that this session has called and R has
\* not collected since.  It is the Function of the id that the function had at its first
\* call: never that of an earlier function at the same address, and none other after
\* `environment<-' moved the closure to another namespace, and so gave it another id.
FunctionsFollowR ==
    \A op \in Ops :
        /\ functions[op] = Null <=> first[op] = Null
        /\ functions[op] # Null =>
              /\ sexps[op] # None
              /\ SameFunction(objects[functions[op]], sexps[op])
              /\ Id[objects[functions[op]]] = first[op]

\* The Function of a running call has the type and the definition of what runs.  All
\* running calls of one function have one Function, that of its first call in this session,
\* whatever happened to the tables or to its environment in between: their traces are
\* counted under one id.
CallsKnowTheirFunction ==
    \A i \in 1..Len(calls) :
        /\ sexps[calls[i].op] # None
        /\ SameFunction(objects[calls[i].function], sexps[calls[i].op])
        /\ Id[objects[calls[i].function]] = first[calls[i].op]

\* After cleanup no Function is left, and the next dyntrace starts from empty tables.
CleanupFreesAll ==
    ~tracing => /\ \A a \in Addr : objects[a] = Free
                /\ \A op \in Ops : functions[op] = Null
                /\ \A id \in Ids : cache[id] = Null
                /\ calls = <<>>

\* The inductive invariant.
IInv ==
    /\ TypeOK
    /\ NoDanglingFunction
    /\ OneFunctionPerId
    /\ FunctionsFollowR
    /\ CallsKnowTheirFunction
    /\ CleanupFreesAll
=============================================================================
