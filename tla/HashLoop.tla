------------------------------ MODULE HashLoop ------------------------------
(***************************************************************************)
(* compute_hash_just_for_types (CallTrace.h): the hash of the types of a   *)
(* call is a product of words, one for each position of call_trace_, in    *)
(* the order in which std::unordered_map yields them, which nobody knows.  *)
(* What makes the words is a matter of CallTrace, and what the hashes are  *)
(* for is one of HashedStore.                                              *)
(***************************************************************************)
EXTENDS Integers, FiniteSets

CONSTANT
    Word       \* how many values a size_t has

ASSUME WordAssumption == Word \in Nat /\ Word > 1

VARIABLES
    factors,   \* the word of each position; the position of the return value is -1
    todo,      \* positions that the loop has not come to
    hash       \* the_hash

loopVars == <<factors, todo, hash>>

Words == 0..Word - 1

\* The product of two words.
Times(x, y) == (x * y) % Word

LoopInit == factors = <<>> /\ todo = {} /\ hash = 1

\* The loop begins.
Begin(f) ==
    /\ factors' = f
    /\ todo' = DOMAIN f
    /\ hash' = 1

\* BUG: the hash depends on the order of the positions.
TurnInOrder(p) ==
    /\ p \in todo
    /\ hash' = (31 * hash + factors[p]) % Word
    /\ todo' = todo \ {p}
    /\ UNCHANGED factors

\* One turn of the loop.
Turn(p) ==
    /\ p \in todo
    /\ hash' = Times(hash, factors[p])
    /\ todo' = todo \ {p}
    /\ UNCHANGED factors
-----------------------------------------------------------------------------
(***************************************************************************)
(* Properties                                                              *)
(***************************************************************************)

\* The product of the factors of some positions, in the order of the positions.
Product(f, positions) ==
    LET n == Cardinality(DOMAIN f)
        upTo[k \in 0..n] ==
            IF k = 0 THEN 1
            ELSE IF k - 2 \in positions THEN Times(upTo[k - 1], f[k - 2]) ELSE upTo[k - 1]
    IN  upTo[n]

\* "need to do a commutative operation cause we arent guaranteed the order here"
\* (compute_hash): whatever order the loop takes the positions in, it comes to the product
\* in the order of the positions.  So equal types have equal hashes.
HashIsProduct == hash = Product(factors, DOMAIN factors \ todo)
=============================================================================
