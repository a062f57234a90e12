----------------------------- MODULE PromiseUse -----------------------------
(***************************************************************************)
(* What a DenotedValue counts (DenotedValue.h, DenotedValue.cpp): every    *)
(* use of a promise, split at the moment it escapes the calls that it was  *)
(* an argument of, and reported to the Arguments that hold it.             *)
(*                                                                         *)
(* A use is one of the twenty kinds that have a pair of counters.  Escape  *)
(* is noticed at a use, not when the last call ends.  The methods are      *)
(* modelled as an interface: they may be called in any order.  Of them the *)
(* attached probes call force(), add_argument and remove_argument.         *)
(***************************************************************************)
EXTENDS Integers, Sequences, FiniteSets

CONSTANTS
    PlainUses,   \* force, lookup_value, metaprogram, assign_value, ...
    ScopeUses,   \* self_scope_mutation, lexical_scope_observation, ...
    Forwarded,   \* those that the Arguments hear of: force, lookup_value, metaprogram
    ForceUse,    \* force, which an Argument remembers but does not count
    MaxBinds,    \* bound: arguments that the promise becomes
    MaxUses      \* bound: uses

\* A scope is mutated or observed directly or indirectly.
Uses == PlainUses \cup (ScopeUses \X {"direct", "indirect"})

ASSUME UseAssumption ==
    ForceUse \in Forwarded /\ Forwarded \subseteq PlainUses /\ MaxBinds \in Nat /\ MaxUses \in Nat

VARIABLES
    arguments,     \* argument_stack_: Arguments, numbered as they are added
    was_argument,  \* was_argument_
    escape,        \* escape_
    before,        \* the before_escape_ counters
    count,         \* the counters after escape, or all if there was none
    lookup,        \* context_sensitive_lookup_
    forced,        \* context_sensitive_force_
    cached,        \* expression_cached_
    direct,        \* of each Argument: what it counted as direct use
    indirect,      \* of each Argument: what it counted as indirect use
    history        \* ghost: each use, with argument_stack_ and was_argument_ then

vars == <<arguments, was_argument, escape, before, count, lookup, forced, cached,
          direct, indirect, history>>

Args == 1..MaxBinds

NoUse == [u \in Uses |-> 0]

IsArgument == arguments # <<>>

\* The number of Arguments so far.
Added == Len(direct)
-----------------------------------------------------------------------------
\* DenotedValue::DenotedValue: no argument, all counters 0.
Init ==
    /\ arguments = <<>> /\ was_argument = FALSE
    /\ escape = FALSE /\ before = NoUse /\ count = NoUse
    /\ lookup = FALSE /\ forced = FALSE /\ cached = FALSE
    /\ direct = <<>> /\ indirect = <<>>
    /\ history = <<>>

\* add_argument, with a new Argument: what escaped stays escaped.
AddArgument ==
    /\ Added < MaxBinds
    /\ arguments' = Append(arguments, Added + 1)
    /\ direct' = Append(direct, NoUse)
    /\ indirect' = Append(indirect, NoUse)
    /\ UNCHANGED <<was_argument, escape, before, count, lookup, forced, cached, history>>

\* remove_argument: the call of the last Argument ends (it is always the last:
\* NoErrorLogged of TracerState).
RemoveArgument ==
    /\ IsArgument
    /\ arguments' = SubSeq(arguments, 1, Len(arguments) - 1)
    /\ was_argument' = TRUE
    /\ UNCHANGED <<escape, before, count, lookup, forced, cached, direct, indirect, history>>

EnableContextSensitiveLookup ==
    /\ ~lookup
    /\ lookup' = TRUE
    /\ UNCHANGED <<arguments, was_argument, escape, before, count, forced, cached,
                   direct, indirect, history>>

\* BUG: a promise that never was an argument escapes at its first use.
EscapesUnbound == ~escape /\ ~IsArgument

\* check_and_set_escape_ finds that the promise has escaped.
Escapes == ~escape /\ ~IsArgument /\ was_argument

\* copy_and_reset of every pair of counters, then the use itself is counted.
CountUse(u) ==
    IF Escapes
    THEN /\ before' = count
         /\ count' = [NoUse EXCEPT ![u] = 1]
    ELSE /\ count' = [count EXCEPT ![u] = @ + 1]
         /\ UNCHANGED before

\* What an Argument does on direct_ or indirect_ force, lookup and metaprogram.
Counted(counters, u) == [counters EXCEPT ![u] = IF u = ForceUse THEN 1 ELSE @ + 1]

\* BUG: the loop stops before the first Argument.
TellArgumentsButFirst(u) ==
    LET last == arguments[Len(arguments)]
        Told == {arguments[i] : i \in 2..Len(arguments) - 1}
    IN  IF IsArgument /\ u \in Forwarded
        THEN /\ direct' = [direct EXCEPT ![last] = Counted(@, u)]
             /\ indirect' = [a \in DOMAIN indirect |->
                               IF a \in Told THEN Counted(indirect[a], u) ELSE indirect[a]]
        ELSE UNCHANGED <<direct, indirect>>

\* The last Argument hears of a direct use, those below it of an indirect one.
TellArguments(u) ==
    LET last == arguments[Len(arguments)]
        Told == {arguments[i] : i \in 1..Len(arguments) - 1}
    IN  IF IsArgument /\ u \in Forwarded
        THEN /\ direct' = [direct EXCEPT ![last] = Counted(@, u)]
             /\ indirect' = [a \in DOMAIN indirect |->
                               IF a \in Told THEN Counted(indirect[a], u) ELSE indirect[a]]
        ELSE UNCHANGED <<direct, indirect>>

\* What every use does: check_and_set_escape_, count, tell the Arguments.
Use(u) ==
    /\ Len(history) < MaxUses
    /\ escape' = (escape \/ Escapes)
    /\ CountUse(u)
    /\ TellArguments(u)
    /\ history' = Append(history, [use |-> u, arguments |-> arguments, was |-> was_argument])
    /\ UNCHANGED <<arguments, was_argument, lookup>>

\* force, lookup_value, metaprogram, assign_value, lookup_expression, ...
PlainUse(u) ==
    /\ Use(u)
    /\ forced' = (forced \/ (u = ForceUse /\ lookup))
    /\ UNCHANGED cached

\* set_self_scope_mutation(direct), ...: the expression is deparsed once, for the first.
ScopeUse(u, directness) ==
    /\ Use(<<u, directness>>)
    /\ cached' = TRUE
    /\ UNCHANGED forced

Next ==
    \/ AddArgument
    \/ RemoveArgument
    \/ EnableContextSensitiveLookup
    \/ \E u \in PlainUses : PlainUse(u)
    \/ \E u \in ScopeUses, directness \in {"direct", "indirect"} : ScopeUse(u, directness)

Spec == Init /\ [][Next]_vars
-----------------------------------------------------------------------------
(***************************************************************************)
(* Properties                                                              *)
(***************************************************************************)

PastUse == [use : Uses, arguments : Seq(Args), was : BOOLEAN]

\* Type correctness of every variable.
TypeOK ==
    /\ arguments \in Seq(Args)
    /\ {was_argument, escape, lookup, forced, cached} \subseteq BOOLEAN
    /\ {before, count} \subseteq [Uses -> Nat]
    /\ direct \in Seq([Uses -> Nat]) /\ indirect \in Seq([Uses -> Nat])
    /\ history \in Seq(PastUse)

\* The uses at which the promise was free of the calls it had been an argument of.
FreeUses == {i \in 1..Len(history) : history[i].arguments = <<>> /\ history[i].was}

NumUses(u, I) == Cardinality({i \in I : history[i].use = u})

\* The counters before escape have the uses before the first free one, those after
\* escape have it and all that follow, also if the promise is bound again
\* (check_and_set_escape_: only the first such use moves the counters).
SplitAtFirstFreeUse ==
    LET Before == {i \in 1..Len(history) : escape /\ \A j \in FreeUses : i < j}
    IN  /\ escape <=> FreeUses # {}
        /\ \A u \in Uses :
             /\ before[u] = NumUses(u, Before)
             /\ count[u] = NumUses(u, (1..Len(history)) \ Before)

\* An Argument counts as direct the uses while it was the last of argument_stack_ and as
\* indirect those while it was below; a force is remembered, not counted.
ArgumentsKnowUses ==
    LET Seen(u, I) == IF u \notin Forwarded \/ NumUses(u, I) = 0 THEN 0
                      ELSE IF u = ForceUse THEN 1 ELSE NumUses(u, I)
        At(i) == history[i].arguments
    IN  \A a \in 1..Added, u \in Uses :
          /\ direct[a][u] = Seen(u, {i \in 1..Len(history) :
                                        At(i) # <<>> /\ At(i)[Len(At(i))] = a})
          /\ indirect[a][u] = Seen(u, {i \in 1..Len(history) :
                                        \E k \in 1..Len(At(i)) - 1 : At(i)[k] = a})
=============================================================================
