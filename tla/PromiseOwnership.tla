-------------------------- MODULE PromiseOwnership --------------------------
(***************************************************************************)
(* What the tracer promises about the lifetime of its DenotedValues, in    *)
(* the words of the comment on TracerState::destroy_promise:               *)
(*                                                                         *)
(*   "here we delete a promise iff we are the only one holding a reference *)
(*    to it.  A promise can be simultaneously held by a call and this      *)
(*    promise map."                                                        *)
(*                                                                         *)
(* The code decides it from two flags, the active bit and the argument     *)
(* stack, and says so in two places (destroy_promise and destroy_call).    *)
(* Here is the plain meaning: every address has the set of its holders and *)
(* is allocated exactly while that set is not empty.  A holder is the      *)
(* promise map or a call, and a call is named by its height on the stack.  *)
(***************************************************************************)
EXTENDS Integers

CONSTANTS Addr,      \* heap addresses a DenotedValue may have
          Heights,   \* heights a call may have on the stack
          Map        \* the promise map as a holder

VARIABLE holders     \* [Addr -> SUBSET (Heights \cup {Map})]

Init == holders = [a \in Addr |-> {}]

\* No call above height h holds a value.
NoneAbove(h) == \A a \in Addr : \A k \in holders[a] \ {Map} : k <= h

\* A call at height h begins, above all others, and takes hold of values: of ones that
\* are in the map, and of new ones, which are entered in the map if they are promises.
Bind(h) ==
    /\ NoneAbove(h - 1)
    /\ holders' \in [Addr -> SUBSET (Heights \cup {Map})]
    /\ \A a \in Addr :
          \/ holders'[a] = holders[a]
          \/ holders[a] = {} /\ holders'[a] \in {{h}, {h, Map}}
          \/ Map \in holders[a] /\ holders'[a] = holders[a] \cup {h}

\* The call at height h, the last one to begin, ends.
Release(h) ==
    /\ NoneAbove(h)
    /\ holders' = [a \in Addr |-> holders[a] \ {h}]

\* A promise that no call holds is entered in the map.
Enter(a) ==
    /\ holders[a] = {}
    /\ holders' = [holders EXCEPT ![a] = {Map}]

\* The collector frees a promise that two calls do not share: it leaves the map.
Collect(a) ==
    /\ \A h, k \in holders[a] \ {Map} : h = k
    /\ holders' = [holders EXCEPT ![a] = @ \ {Map}]

\* The tracer exits, and no call is in progress: the map is emptied.
Clear ==
    /\ \A a \in Addr : holders[a] \subseteq {Map}
    /\ holders' = [a \in Addr |-> {}]

Next ==
    \/ \E h \in Heights : Bind(h) \/ Release(h)
    \/ \E a \in Addr : Enter(a) \/ Collect(a)
    \/ Clear

Spec == Init /\ [][Next]_holders

=============================================================================
