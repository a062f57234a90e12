----------------------------- MODULE CallTrace -----------------------------
(***************************************************************************)
(* What the hash of a call trace is made of (CallTrace.h, Type.h).         *)
(*                                                                         *)
(* HashLoop multiplies the words of the positions, and HashedStore has the *)
(* tables whose keys are such hashes: operator== compares hashes and       *)
(* nothing else.  A call is [fn, args, ret], its function and its values.  *)
(***************************************************************************)
EXTENDS TypeOf, Bitwise, HashLoop

CONSTANT
    StringHash(_)   \* std::hash<std::string>, of a sequence of pieces

TimesAll(parts) == FoldSeq(Times, 1, parts)

HashAll(strings) == TimesAll([i \in DOMAIN strings |-> StringHash(strings[i])])

\* BUG: the tags of a type are not in its hash.
HashUntagged(type) ==
    HashAll(<<type.top>> \o [i \in DOMAIN type.attrs |-> <<type.attrs[i]>>]
                         \o [i \in DOMAIN type.classes |-> <<ToString(type.classes[i])>>])

\* Type::hash_type.
HashType(type) ==
    HashAll(<<type.top>> \o [i \in DOMAIN type.attrs |-> <<type.attrs[i]>>]
                         \o [i \in DOMAIN type.classes |-> <<ToString(type.classes[i])>>]
                         \o type.tags)

ShiftLeft(x) == (2 * x) % Word

ShiftRight(x) == x \div 2

\* The first part of compute_hash.
HashFunction(f) ==
    (ShiftRight(StringHash(<<f.fun>>) ^^ ShiftLeft(StringHash(<<f.pkg>>)))
        ^^ ShiftRight(ShiftLeft(StringHash(<<f.id>>))))
        ^^ ShiftRight(ShiftLeft(f.dispatch))

\* The factor of a position and its type.
Factor(p, type) == (p % Word) ^^ HashType(type)

\* add_to_call_trace for each argument and the value.
FactorsOf(c) ==
    [p \in -1..Len(c.args) - 1 |-> Factor(p, Type(IF p = -1 THEN c.ret ELSE c.args[p + 1]))]
-----------------------------------------------------------------------------
\* What the tracer is meant to tell apart in a call.
ShapeOf(c) ==
    [fn |-> c.fn, args |-> [i \in DOMAIN c.args |-> FullShape(c.args[i])],
     ret |-> FullShape(c.ret)]
=============================================================================
