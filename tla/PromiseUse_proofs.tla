-------------------------- MODULE PromiseUse_proofs --------------------------
(***************************************************************************)
(* Proofs about PromiseUse: the counters split the uses at the first one   *)
(* that finds the promise free, and that moment is never taken back.       *)
(***************************************************************************)
EXTENDS PromiseUse, FiniteSetTheorems, TLAPS

\* Type correctness as it is needed here: of the history and the counters.
CountersOK ==
    /\ arguments \in Seq(Nat)
    /\ {was_argument, escape} \subseteq BOOLEAN
    /\ {before, count} \subseteq [Uses -> Nat]
    /\ history \in Seq([use : Uses, arguments : Seq(Nat), was : BOOLEAN])

\* The positions of the uses before escape.
BeforeEscape == {i \in 1..Len(history) : escape /\ \A j \in FreeUses : i < j}

\* How often u was used at the positions I of h.
Occurs(h, u, I) == Cardinality({i \in I : h[i].use = u})

\* One more use at the end of a sequence of uses.
LEMMA CountOneMore ==
    ASSUME NEW S, NEW h \in Seq(S), NEW x \in S, NEW u, NEW I \in SUBSET (1..Len(h))
    PROVE  LET g == Append(h, x)
               n == Len(h) + 1
           IN  /\ Occurs(g, u, I) = Occurs(h, u, I)
               /\ Occurs(g, u, I \cup {n}) = Occurs(h, u, I) + (IF x.use = u THEN 1 ELSE 0)
<1> DEFINE g == Append(h, x)
           n == Len(h) + 1
           Old == {i \in I : h[i].use = u}
<1>1. Len(h) \in Nat /\ \A i \in I : i \in 1..Len(h) /\ i # n
  OBVIOUS
<1>2. \A i \in I : g[i] = h[i]
  BY <1>1
<1>3. g[n] = x
  BY <1>1
<1>4. {i \in I : g[i].use = u} = Old
  BY <1>2
<1>5. IsFiniteSet(Old)
  <2>1. IsFiniteSet(1..Len(h))
    BY <1>1, FS_Interval
  <2>2. Old \subseteq 1..Len(h)
    BY <1>1
  <2> QED BY <2>1, <2>2, FS_Subset
<1>6. n \notin Old
  BY <1>1
<1>7. Cardinality(Old) \in Nat
  BY <1>5, FS_CardinalityType
<1>8. {i \in I \cup {n} : g[i].use = u} = IF x.use = u THEN Old \cup {n} ELSE Old
  <2> HIDE DEF g, n
  <2> QED BY <1>2, <1>3
<1>9. Cardinality(Old \cup {n}) = Cardinality(Old) + 1
  BY <1>5, <1>6, FS_AddElement
<1> HIDE DEF g, n, Old
<1>10. Cardinality({i \in I \cup {n} : g[i].use = u})
         = Cardinality(Old) + (IF x.use = u THEN 1 ELSE 0)
  <2>1. CASE x.use = u
    BY <1>7, <1>8, <1>9, <2>1
  <2>2. CASE x.use # u
    <3>1. {i \in I \cup {n} : g[i].use = u} = Old
      BY <1>8, <2>2
    <3>2. Cardinality({i \in I \cup {n} : g[i].use = u}) = Cardinality(Old)
      BY <3>1
    <3>3. Cardinality(Old) + (IF x.use = u THEN 1 ELSE 0) = Cardinality(Old)
      BY <1>7, <2>2
    <3> QED BY <3>2, <3>3
  <2> QED BY <2>1, <2>2
<1> QED BY <1>4, <1>10 DEF g, n, Old, Occurs

-----------------------------------------------------------------------------
\* The constructor's counters have their types.
LEMMA CountersInit == Init => CountersOK
<1> SUFFICES ASSUME Init PROVE CountersOK
  OBVIOUS
<1>1. before \in [Uses -> Nat] /\ count \in [Uses -> Nat]
  BY DEF Init, NoUse
<1>2. arguments \in Seq(Nat) /\ history \in Seq([use : Uses, arguments : Seq(Nat), was : BOOLEAN])
  BY DEF Init
<1> QED BY <1>1, <1>2 DEF Init, CountersOK

\* Counting a use keeps the types, before and after escape.
LEMMA CountUseType ==
    ASSUME CountersOK, NEW u \in Uses, CountUse(u)
    PROVE  before' \in [Uses -> Nat] /\ count' \in [Uses -> Nat]
<1>1. before \in [Uses -> Nat] /\ count \in [Uses -> Nat]
  BY DEF CountersOK
<1>2. CASE Escapes
  <2>1. before' = count /\ count' = [NoUse EXCEPT ![u] = 1]
    BY <1>2 DEF CountUse
  <2>2. NoUse \in [Uses -> Nat]
    BY DEF NoUse
  <2> QED BY <1>1, <2>1, <2>2
<1>3. CASE ~Escapes
  <2>1. before' = before /\ count' = [count EXCEPT ![u] = @ + 1]
    BY <1>3 DEF CountUse
  <2> QED BY <1>1, <2>1
<1> QED BY <1>2, <1>3

\* add_argument keeps the types.
LEMMA AddArgumentCounters == ASSUME CountersOK, AddArgument PROVE CountersOK'
<1>1. Added + 1 \in Nat
  BY UseAssumption DEF AddArgument, Added
<1> QED BY <1>1 DEF CountersOK, AddArgument

\* A use keeps the types.
LEMMA UseCounters == ASSUME CountersOK, NEW u \in Uses, Use(u) PROVE CountersOK'
<1>1. before' \in [Uses -> Nat] /\ count' \in [Uses -> Nat]
  BY CountUseType DEF Use
<1>2. escape' \in BOOLEAN
  BY DEF Use, CountersOK, Escapes
<1>3. history' \in Seq([use : Uses, arguments : Seq(Nat), was : BOOLEAN])
  BY DEF Use, CountersOK
<1> QED BY <1>1, <1>2, <1>3 DEF Use, CountersOK

\* A step is a use, whatever its kind, or one of the other three.
LEMMA NextUses ==
    ASSUME Next
    PROVE  \/ AddArgument \/ RemoveArgument \/ EnableContextSensitiveLookup
           \/ \E u \in Uses : Use(u)
<1>1. ASSUME NEW u \in PlainUses, PlainUse(u) PROVE \E v \in Uses : Use(v)
  BY <1>1 DEF PlainUse, Uses
<1>2. ASSUME NEW u \in ScopeUses, NEW d \in {"direct", "indirect"}, ScopeUse(u, d)
      PROVE  \E v \in Uses : Use(v)
  <2>1. <<u, d>> \in Uses
    BY DEF Uses
  <2> QED BY <1>2, <2>1 DEF ScopeUse
<1> QED BY <1>1, <1>2 DEF Next

\* Every step keeps the types of the counters.
LEMMA CountersStep == ASSUME CountersOK, [Next]_vars PROVE CountersOK'
<1>1. CASE AddArgument
  BY <1>1, AddArgumentCounters
<1>2. CASE RemoveArgument
  <2>1. SubSeq(arguments, 1, Len(arguments) - 1) \in Seq(Nat)
    BY <1>2 DEF RemoveArgument, IsArgument, CountersOK
  <2> QED BY <1>2, <2>1 DEF RemoveArgument, CountersOK
<1>3. CASE EnableContextSensitiveLookup
  BY <1>3 DEF EnableContextSensitiveLookup, CountersOK
<1>4. CASE \E u \in Uses : Use(u)
  BY <1>4, UseCounters
<1>5. CASE UNCHANGED vars
  BY <1>5 DEF vars, CountersOK
<1> QED BY <1>1, <1>2, <1>3, <1>4, <1>5, NextUses
-----------------------------------------------------------------------------
\* Without a use there is nothing to split.
LEMMA SplitInit == Init => SplitAtFirstFreeUse
<1> SUFFICES ASSUME Init PROVE SplitAtFirstFreeUse
  OBVIOUS
<1>1. history = <<>> /\ escape = FALSE /\ before = NoUse /\ count = NoUse
  BY DEF Init
<1>2. FreeUses = {}
  BY <1>1 DEF FreeUses
<1>3. \A I : I = {} => \A u : NumUses(u, I) = 0
  BY FS_EmptySet DEF NumUses
<1>4. BeforeEscape = {} /\ (1..Len(history)) \ BeforeEscape = {}
  BY <1>1 DEF BeforeEscape
<1>5. \A u \in Uses : before[u] = 0 /\ count[u] = 0
  BY <1>1 DEF NoUse
<1> QED BY <1>1, <1>2, <1>3, <1>4, <1>5 DEF SplitAtFirstFreeUse, BeforeEscape

\* The heart of the argument: the three cases of check_and_set_escape_.
LEMMA UseSplits ==
    ASSUME CountersOK, SplitAtFirstFreeUse, NEW v \in Uses, Use(v)
    PROVE  SplitAtFirstFreeUse'
<1> DEFINE x == [use |-> v, arguments |-> arguments, was |-> was_argument]
           n == Len(history)
           S == [use : Uses, arguments : Seq(Nat), was : BOOLEAN]
<1>1. history \in Seq(S) /\ x \in S /\ n \in Nat
  BY DEF CountersOK
<1>2. history' = Append(history, x) /\ Len(history') = n + 1
  BY <1>1 DEF Use
<1>3. \A i \in 1..n : history'[i] = history[i]
  BY <1>1, <1>2
<1>4. history'[n + 1] = x
  BY <1>1, <1>2
<1>5. FreeUses \subseteq 1..n
  BY DEF FreeUses
<1>6. FreeUses' = FreeUses \cup (IF arguments = <<>> /\ was_argument THEN {n + 1} ELSE {})
  <2>1. FreeUses' = {i \in 1..(n + 1) : history'[i].arguments = <<>> /\ history'[i].was}
    BY <1>2 DEF FreeUses
  <2>2. 1..(n + 1) = (1..n) \cup {n + 1} /\ n + 1 \notin 1..n
    BY <1>1
  <2>3. x.arguments = arguments /\ x.was = was_argument
    OBVIOUS
  <2> HIDE DEF x, n
  <2>4. ASSUME NEW i \in 1..n PROVE i \in FreeUses' <=> i \in FreeUses
    BY <1>3, <2>1, <2>2 DEF FreeUses, n
  <2>5. n + 1 \in FreeUses' <=> arguments = <<>> /\ was_argument
    BY <1>4, <2>1, <2>2, <2>3
  <2>6. FreeUses' \subseteq (1..n) \cup {n + 1}
    BY <2>1, <2>2
  <2> QED BY <1>5, <2>4, <2>5, <2>6
<1>7. escape <=> FreeUses # {}
  BY DEF SplitAtFirstFreeUse
<1>8. \A u \in Uses : /\ before[u] = Occurs(history, u, BeforeEscape)
                      /\ count[u] = Occurs(history, u, (1..n) \ BeforeEscape)
  BY DEF SplitAtFirstFreeUse, BeforeEscape, NumUses, Occurs
<1>9. \A u, I : I \in SUBSET (1..n) =>
          /\ Occurs(history', u, I) = Occurs(history, u, I)
          /\ Occurs(history', u, I \cup {n + 1})
               = Occurs(history, u, I) + (IF v = u THEN 1 ELSE 0)
  <2> SUFFICES ASSUME NEW u, NEW I \in SUBSET (1..n)
               PROVE  /\ Occurs(history', u, I) = Occurs(history, u, I)
                      /\ Occurs(history', u, I \cup {n + 1})
                           = Occurs(history, u, I) + (IF v = u THEN 1 ELSE 0)
    OBVIOUS
  <2>1. x.use = v
    OBVIOUS
  <2> HIDE DEF x, S
  <2>2. /\ Occurs(Append(history, x), u, I) = Occurs(history, u, I)
        /\ Occurs(Append(history, x), u, I \cup {Len(history) + 1})
             = Occurs(history, u, I) + (IF x.use = u THEN 1 ELSE 0)
    BY <1>1, CountOneMore
  <2>3. history' = Append(history, x) /\ n + 1 = Len(history) + 1
    BY <1>2
  <2> QED BY <2>1, <2>2, <2>3
<1>10. before \in [Uses -> Nat] /\ count \in [Uses -> Nat] /\ escape \in BOOLEAN
  BY DEF CountersOK
<1> HIDE DEF x, S
<1> SUFFICES /\ escape' <=> FreeUses' # {}
             /\ \A u \in Uses :
                  /\ before'[u] = Occurs(history', u, BeforeEscape')
                  /\ count'[u] = Occurs(history', u, (1..(n + 1)) \ BeforeEscape')
  BY <1>2 DEF SplitAtFirstFreeUse, BeforeEscape, NumUses, Occurs
<1>11. BeforeEscape' = {i \in 1..(n + 1) : escape' /\ \A j \in FreeUses' : i < j}
  BY <1>2 DEF BeforeEscape
<1>12. BeforeEscape \subseteq 1..n
  BY DEF BeforeEscape
<1>20. CASE escape
  <2>1. escape' /\ ~Escapes
    BY <1>20 DEF Use, Escapes
  <2>2. before' = before /\ count' = [count EXCEPT ![v] = @ + 1]
    BY <2>1 DEF Use, CountUse
  <2>3. PICK k \in FreeUses : TRUE
    BY <1>7, <1>20
  <2>4. BeforeEscape' = BeforeEscape
    <3>1. ASSUME NEW i \in 1..n
          PROVE  (\A j \in FreeUses' : i < j) <=> (\A j \in FreeUses : i < j)
      BY <1>1, <1>5, <1>6, <3>1
    <3>2. ~(\A j \in FreeUses' : n + 1 < j)
      BY <1>1, <1>5, <1>6, <2>3
    <3> HIDE DEF n
    <3>3. 1..(n + 1) = (1..n) \cup {n + 1}
      BY <1>1
    <3>4. BeforeEscape = {i \in 1..n : \A j \in FreeUses : i < j}
      BY <1>20 DEF BeforeEscape, n
    <3>5. BeforeEscape' = {i \in 1..(n + 1) : \A j \in FreeUses' : i < j}
      BY <1>11, <2>1
    <3> QED BY <3>1, <3>2, <3>3, <3>4, <3>5
  <2>5. (1..(n + 1)) \ BeforeEscape = ((1..n) \ BeforeEscape) \cup {n + 1}
    BY <1>1, <1>12
  <2>6. \A u \in Uses : Occurs(history', u, BeforeEscape') = Occurs(history, u, BeforeEscape)
    BY <1>9, <1>12, <2>4
  <2>7. \A u \in Uses : Occurs(history', u, (1..(n + 1)) \ BeforeEscape')
                          = Occurs(history, u, (1..n) \ BeforeEscape) + (IF v = u THEN 1 ELSE 0)
    BY <1>2, <1>9, <2>4, <2>5
  <2>8. FreeUses' # {}
    BY <1>6, <2>3
  <2>9. ASSUME NEW u \in Uses
        PROVE  count'[u] = count[u] + (IF v = u THEN 1 ELSE 0)
    <3>1. count[u] \in Nat
      BY <1>10
    <3> QED BY <1>10, <2>2, <3>1
  <2>10. \A u \in Uses : before'[u] = Occurs(history', u, BeforeEscape')
    BY <1>8, <2>2, <2>6
  <2>11. \A u \in Uses : count'[u] = Occurs(history', u, (1..(n + 1)) \ BeforeEscape')
    BY <1>8, <2>7, <2>9
  <2> QED BY <2>1, <2>8, <2>10, <2>11
<1>21. CASE Escapes
  <2>1. ~escape /\ arguments = <<>> /\ was_argument /\ escape'
    BY <1>21 DEF Use, Escapes, IsArgument
  <2>2. before' = count /\ count' = [NoUse EXCEPT ![v] = 1]
    BY <1>21 DEF Use, CountUse
  <2>3. FreeUses' = {n + 1}
    BY <1>6, <1>7, <2>1
  <2>4. BeforeEscape = {} /\ BeforeEscape' = 1..n
    <3>1. BeforeEscape = {}
      BY <2>1 DEF BeforeEscape
    <3>2. BeforeEscape' = {i \in 1..(n + 1) : i < n + 1}
      BY <1>11, <2>1, <2>3
    <3> QED BY <1>1, <3>1, <3>2
  <2>5. (1..(n + 1)) \ (1..n) = {} \cup {n + 1} /\ (1..n) \ {} = 1..n
    BY <1>1
  <2>6. \A u \in Uses : Occurs(history', u, BeforeEscape') = Occurs(history, u, (1..n) \ BeforeEscape)
    BY <1>9, <2>4, <2>5
  <2>7. \A u \in Uses : Occurs(history, u, {}) = 0
    <3>1. \A u \in Uses : {i \in {} : history[i].use = u} = {}
      OBVIOUS
    <3> QED BY <3>1, FS_EmptySet DEF Occurs
  <2>8. \A u \in Uses : Occurs(history', u, (1..(n + 1)) \ BeforeEscape')
                          = IF v = u THEN 1 ELSE 0
    <3>1. \A u \in Uses : Occurs(history', u, {} \cup {n + 1})
                              = Occurs(history, u, {}) + (IF v = u THEN 1 ELSE 0)
      BY <1>9
    <3>2. (1..(n + 1)) \ BeforeEscape' = {} \cup {n + 1}
      BY <2>4, <2>5
    <3>3. \A u \in Uses : 0 + (IF v = u THEN 1 ELSE 0) = IF v = u THEN 1 ELSE 0
      OBVIOUS
    <3> HIDE DEF n
    <3> QED BY <2>7, <3>1, <3>2, <3>3
  <2>9. \A u \in Uses : count'[u] = IF v = u THEN 1 ELSE 0
    BY <2>2 DEF NoUse
  <2> QED BY <1>8, <2>1, <2>2, <2>3, <2>6, <2>8, <2>9
<1>22. CASE ~escape /\ ~Escapes
  <2>1. ~escape' /\ ~(arguments = <<>> /\ was_argument)
    BY <1>22 DEF Use, Escapes, IsArgument
  <2>2. before' = before /\ count' = [count EXCEPT ![v] = @ + 1]
    BY <1>22 DEF Use, CountUse
  <2>3. FreeUses' = {}
    BY <1>6, <1>7, <1>22, <2>1
  <2>4. BeforeEscape = {} /\ BeforeEscape' = {}
    BY <1>11, <1>22, <2>1 DEF BeforeEscape
  <2>5. (1..(n + 1)) \ {} = (1..n) \cup {n + 1} /\ (1..n) \ {} = 1..n
    BY <1>1
  <2>6. \A u \in Uses : Occurs(history', u, BeforeEscape') = Occurs(history, u, BeforeEscape)
    BY <1>9, <2>4
  <2>7. \A u \in Uses : Occurs(history', u, (1..(n + 1)) \ BeforeEscape')
                          = Occurs(history, u, (1..n) \ BeforeEscape) + (IF v = u THEN 1 ELSE 0)
    BY <1>2, <1>9, <2>4, <2>5
  <2>8. ASSUME NEW u \in Uses
        PROVE  count'[u] = count[u] + (IF v = u THEN 1 ELSE 0)
    <3>1. count[u] \in Nat
      BY <1>10
    <3> QED BY <1>10, <2>2, <3>1
  <2>9. \A u \in Uses : before'[u] = Occurs(history', u, BeforeEscape')
    BY <1>8, <2>2, <2>6
  <2>10. \A u \in Uses : count'[u] = Occurs(history', u, (1..(n + 1)) \ BeforeEscape')
    BY <1>8, <2>7, <2>8
  <2> QED BY <2>1, <2>3, <2>9, <2>10
<1> QED BY <1>20, <1>21, <1>22

\* Every step keeps the split.
LEMMA SplitStep ==
    ASSUME CountersOK, SplitAtFirstFreeUse, [Next]_vars
    PROVE  SplitAtFirstFreeUse'
<1>1. CASE \E u \in Uses : Use(u)
  BY <1>1, UseSplits
<1>2. CASE UNCHANGED <<escape, before, count, history>>
  BY <1>2 DEF SplitAtFirstFreeUse, FreeUses, NumUses
<1>3. CASE AddArgument \/ RemoveArgument \/ EnableContextSensitiveLookup
  BY <1>2, <1>3 DEF AddArgument, RemoveArgument, EnableContextSensitiveLookup
<1>4. CASE UNCHANGED vars
  BY <1>2, <1>4 DEF vars
<1> QED BY <1>1, <1>3, <1>4, NextUses

\* The counters before and after escape are exactly the uses before and since the first
\* one that found the promise free (check_and_set_escape_), whatever calls come between.
THEOREM UsesAreSplit == Spec => []SplitAtFirstFreeUse
<1>1. Init => CountersOK /\ SplitAtFirstFreeUse
  BY CountersInit, SplitInit
<1>2. CountersOK /\ SplitAtFirstFreeUse /\ [Next]_vars
        => (CountersOK /\ SplitAtFirstFreeUse)'
  BY CountersStep, SplitStep
<1> QED BY <1>1, <1>2, PTL DEF Spec

-----------------------------------------------------------------------------
\* What the Arguments count, and which ones there are.
ArgumentsOK ==
    /\ arguments \in Seq(1..Added) /\ Added \in 0..MaxBinds /\ Len(indirect) = Added
    /\ direct \in Seq([Uses -> Nat]) /\ indirect \in Seq([Uses -> Nat])
    /\ {lookup, forced, cached} \subseteq BOOLEAN
    /\ history \in Seq([use : Uses, arguments : Seq(1..Added), was : BOOLEAN])

\* The sequences over a smaller set.
LEMMA SmallerSeq == ASSUME NEW S, NEW T, S \subseteq T PROVE Seq(S) \subseteq Seq(T)
  OBVIOUS

\* The sequence without entries.
LEMMA NoLength == \A S : \A s \in Seq(S) : Len(s) = 0 => s = <<>>
  OBVIOUS

\* The entries of a sequence.
LEMMA EntryOfSeq == ASSUME NEW S, NEW s \in Seq(S), NEW k \in 1..Len(s) PROVE s[k] \in S
  OBVIOUS

\* A function on an initial segment is a sequence.
LEMMA FunctionIsSeq == ASSUME NEW S, NEW n \in Nat, NEW f \in [1..n -> S]
                       PROVE  f \in Seq(S) /\ Len(f) = n
  OBVIOUS

\* What Counted changes.
LEMMA CountedType ==
    ASSUME NEW c \in [Uses -> Nat], NEW u \in Uses
    PROVE  /\ Counted(c, u) \in [Uses -> Nat]
           /\ \A v \in Uses : Counted(c, u)[v] =
                 IF v # u THEN c[v] ELSE IF u = ForceUse THEN 1 ELSE c[u] + 1
  BY DEF Counted

\* What a use does to the counters of Argument a.
LEMMA TellFacts ==
    ASSUME ArgumentsOK, NEW u \in Uses, TellArguments(u)
    PROVE  /\ direct' \in Seq([Uses -> Nat]) /\ indirect' \in Seq([Uses -> Nat])
           /\ Len(direct') = Len(direct) /\ Len(indirect') = Len(indirect)
           /\ \A a \in 1..Added :
                /\ direct'[a] = IF u \in Forwarded /\ arguments # <<>>
                                     /\ arguments[Len(arguments)] = a
                                THEN Counted(direct[a], u) ELSE direct[a]
                /\ indirect'[a] = IF u \in Forwarded /\ arguments # <<>>
                                       /\ \E k \in 1..Len(arguments) - 1 : arguments[k] = a
                                  THEN Counted(indirect[a], u) ELSE indirect[a]
<1> DEFINE last == arguments[Len(arguments)]
           Told == {arguments[i] : i \in 1..Len(arguments) - 1}
<1>1. Len(direct) = Added /\ Added \in Nat /\ Len(arguments) \in Nat
  BY DEF ArgumentsOK, Added
<1>2. /\ direct \in [1..Added -> [Uses -> Nat]] /\ indirect \in [1..Added -> [Uses -> Nat]]
  BY <1>1 DEF ArgumentsOK
<1>3. CASE ~(IsArgument /\ u \in Forwarded)
  BY <1>1, <1>3 DEF TellArguments, ArgumentsOK, IsArgument
<1>4. CASE IsArgument /\ u \in Forwarded
  <2>1. last \in 1..Added
    BY <1>1, <1>4 DEF IsArgument, ArgumentsOK
  <2>2. /\ direct' = [direct EXCEPT ![last] = Counted(direct[last], u)]
        /\ indirect' = [a \in DOMAIN indirect |->
                           IF a \in Told THEN Counted(indirect[a], u) ELSE indirect[a]]
    BY <1>4 DEF TellArguments
  <2>3. \A a \in 1..Added : /\ Counted(direct[a], u) \in [Uses -> Nat]
                             /\ Counted(indirect[a], u) \in [Uses -> Nat]
    BY <1>2, CountedType
  <2> HIDE DEF last, Told
  <2>4. direct' \in [1..Added -> [Uses -> Nat]] /\ indirect' \in [1..Added -> [Uses -> Nat]]
    BY <1>2, <2>1, <2>2, <2>3
  <2>5. /\ direct' \in Seq([Uses -> Nat]) /\ Len(direct') = Added
        /\ indirect' \in Seq([Uses -> Nat]) /\ Len(indirect') = Added
    BY <1>1, <2>4, FunctionIsSeq
  <2>6. \A a \in 1..Added :
          /\ direct'[a] = IF last = a THEN Counted(direct[a], u) ELSE direct[a]
          /\ indirect'[a] = IF a \in Told THEN Counted(indirect[a], u) ELSE indirect[a]
    BY <1>2, <2>2
  <2>7. \A a \in 1..Added : a \in Told <=> \E k \in 1..Len(arguments) - 1 : arguments[k] = a
    BY DEF Told
  <2>8. Len(indirect) = Added
    BY DEF ArgumentsOK
  <2> QED BY <1>1, <1>4, <2>5, <2>6, <2>7, <2>8 DEF IsArgument, last
<1> QED BY <1>3, <1>4

\* The constructor makes no Argument.
LEMMA ArgumentsInit == Init => ArgumentsOK
<1> SUFFICES ASSUME Init PROVE ArgumentsOK
  OBVIOUS
<1>1. arguments = <<>> /\ direct = <<>> /\ indirect = <<>> /\ history = <<>>
  BY DEF Init
<1>2. \A S : <<>> \in Seq(S)
  OBVIOUS
<1>3. Added = 0 /\ Len(indirect) = 0 /\ 0 \in 0..MaxBinds
  BY <1>1, UseAssumption DEF Added
<1>4. {lookup, forced, cached} \subseteq BOOLEAN
  BY DEF Init
<1> QED BY <1>1, <1>2, <1>3, <1>4 DEF ArgumentsOK

\* Every step keeps the Arguments and the history within those added so far.
LEMMA ArgumentsStep == ASSUME ArgumentsOK, CountersOK, [Next]_vars PROVE ArgumentsOK'
<1>1. CASE AddArgument
  <2>1. Added' = Added + 1 /\ Added \in Nat /\ Added' \in 0..MaxBinds
    BY <1>1, UseAssumption DEF AddArgument, ArgumentsOK, Added
  <2>2. 1..Added \subseteq 1..Added' /\ Added + 1 \in 1..Added'
    BY <2>1
  <2>3. arguments' \in Seq(1..Added')
    <3>1. arguments \in Seq(1..Added')
      BY <2>2, SmallerSeq DEF ArgumentsOK
    <3> QED BY <1>1, <2>2, <3>1 DEF AddArgument
  <2>4. NoUse \in [Uses -> Nat]
    BY DEF NoUse
  <2>5. /\ direct' \in Seq([Uses -> Nat]) /\ indirect' \in Seq([Uses -> Nat])
        /\ Len(indirect') = Added'
    BY <1>1, <2>1, <2>4 DEF AddArgument, ArgumentsOK
  <2>6. history' \in Seq([use : Uses, arguments : Seq(1..Added'), was : BOOLEAN])
    <3>1. [use : Uses, arguments : Seq(1..Added), was : BOOLEAN]
            \subseteq [use : Uses, arguments : Seq(1..Added'), was : BOOLEAN]
      BY <2>2, SmallerSeq
    <3>2. history' = history
      BY <1>1 DEF AddArgument
    <3>3. history \in Seq([use : Uses, arguments : Seq(1..Added), was : BOOLEAN])
      BY DEF ArgumentsOK
    <3>4. Seq([use : Uses, arguments : Seq(1..Added), was : BOOLEAN])
            \subseteq Seq([use : Uses, arguments : Seq(1..Added'), was : BOOLEAN])
      BY <3>1, SmallerSeq
    <3> QED BY <3>2, <3>3, <3>4
  <2> QED BY <1>1, <2>1, <2>3, <2>5, <2>6 DEF AddArgument, ArgumentsOK
<1>2. CASE RemoveArgument
  <2>1. SubSeq(arguments, 1, Len(arguments) - 1) \in Seq(1..Added)
    BY <1>2 DEF RemoveArgument, IsArgument, ArgumentsOK
  <2> QED BY <1>2, <2>1 DEF RemoveArgument, ArgumentsOK, Added
<1>3. CASE EnableContextSensitiveLookup
  BY <1>3 DEF EnableContextSensitiveLookup, ArgumentsOK, Added
<1>4. ASSUME NEW u \in Uses, Use(u), {forced', cached'} \subseteq BOOLEAN PROVE ArgumentsOK'
  <2>1. /\ direct' \in Seq([Uses -> Nat]) /\ indirect' \in Seq([Uses -> Nat])
        /\ Len(direct') = Len(direct) /\ Len(indirect') = Len(indirect)
    BY <1>4, TellFacts DEF Use
  <2>2. Added' = Added
    BY <2>1 DEF Added
  <2>3. history' \in Seq([use : Uses, arguments : Seq(1..Added), was : BOOLEAN])
    BY <1>4 DEF Use, ArgumentsOK, CountersOK
  <2> QED BY <1>4, <2>1, <2>2, <2>3 DEF Use, ArgumentsOK
<1>5. CASE UNCHANGED vars
  BY <1>5 DEF vars, ArgumentsOK, Added
<1>6. ASSUME NEW u \in PlainUses, PlainUse(u) PROVE ArgumentsOK'
  BY <1>4, <1>6 DEF PlainUse, Uses, ArgumentsOK
<1>7. ASSUME NEW u \in ScopeUses, NEW d \in {"direct", "indirect"}, ScopeUse(u, d)
      PROVE  ArgumentsOK'
  BY <1>4, <1>7 DEF ScopeUse, Uses, ArgumentsOK
<1> QED BY <1>1, <1>2, <1>3, <1>5, <1>6, <1>7 DEF Next

\* Type correctness: escape, counters, Arguments and the history of uses.
THEOREM UseTypeCorrect == Spec => []TypeOK
<1>1. Init => CountersOK /\ ArgumentsOK
  BY CountersInit, ArgumentsInit
<1>2. CountersOK /\ ArgumentsOK /\ [Next]_vars => (CountersOK /\ ArgumentsOK)'
  BY CountersStep, ArgumentsStep
<1>3. CountersOK /\ ArgumentsOK => TypeOK
  <2> SUFFICES ASSUME CountersOK, ArgumentsOK PROVE TypeOK
    OBVIOUS
  <2>1. 1..Added \subseteq Args
    BY UseAssumption DEF ArgumentsOK, Args
  <2>2. arguments \in Seq(Args)
    BY <2>1, SmallerSeq DEF ArgumentsOK
  <2>3. [use : Uses, arguments : Seq(1..Added), was : BOOLEAN] \subseteq PastUse
    BY <2>1, SmallerSeq DEF PastUse
  <2>4. history \in Seq(PastUse)
    BY <2>3, SmallerSeq DEF ArgumentsOK
  <2> QED BY <2>2, <2>4 DEF CountersOK, ArgumentsOK, TypeOK
<1> QED BY <1>1, <1>2, <1>3, PTL DEF Spec
-----------------------------------------------------------------------------
\* The uses in h at which a was the last Argument, and those at which it was below.
DirectUses(h, a) ==
    {i \in 1..Len(h) : h[i].arguments # <<>> /\ h[i].arguments[Len(h[i].arguments)] = a}

IndirectUses(h, a) ==
    {i \in 1..Len(h) : \E k \in 1..Len(h[i].arguments) - 1 : h[i].arguments[k] = a}

\* What an Argument counts that saw the uses u among the positions I of h.
Seen(h, u, I) ==
    IF u \notin Forwarded \/ Occurs(h, u, I) = 0 THEN 0
    ELSE IF u = ForceUse THEN 1 ELSE Occurs(h, u, I)

\* The property in terms of Seen.
LEMMA KnowUses ==
    ArgumentsKnowUses <=> \A a \in 1..Added, u \in Uses :
        /\ direct[a][u] = Seen(history, u, DirectUses(history, a))
        /\ indirect[a][u] = Seen(history, u, IndirectUses(history, a))
  BY DEF ArgumentsKnowUses, Seen, Occurs, NumUses, DirectUses, IndirectUses

\* One more use, which the Argument sees or does not.
LEMMA SeenOneMore ==
    ASSUME NEW S, NEW h \in Seq(S), NEW x \in S, NEW u, NEW I \in SUBSET (1..Len(h))
    PROVE  LET g == Append(h, x)
               n == Len(h) + 1
           IN  /\ Seen(g, u, I) = Seen(h, u, I)
               /\ Seen(g, u, I \cup {n}) =
                     IF x.use = u /\ u \in Forwarded
                     THEN IF u = ForceUse THEN 1 ELSE Seen(h, u, I) + 1
                     ELSE Seen(h, u, I)
<1> DEFINE g == Append(h, x)
           n == Len(h) + 1
           old == Occurs(h, u, I)
<1>1. Occurs(g, u, I) = old /\ Occurs(g, u, I \cup {n}) = old + (IF x.use = u THEN 1 ELSE 0)
  BY CountOneMore
<1>2. old \in Nat
  <2>1. IsFiniteSet(1..Len(h))
    BY FS_Interval
  <2>2. IsFiniteSet({i \in I : h[i].use = u})
    <3>1. {i \in I : h[i].use = u} \subseteq 1..Len(h)
      OBVIOUS
    <3> QED BY <2>1, <3>1, FS_Subset
  <2> QED BY <2>2, FS_CardinalityType DEF Occurs
<1> HIDE DEF g, n, old
<1>3. Seen(h, u, I) = IF u \notin Forwarded \/ old = 0 THEN 0
                      ELSE IF u = ForceUse THEN 1 ELSE old
  BY DEF Seen, old
<1>4. Seen(g, u, I) = Seen(h, u, I)
  BY <1>1, <1>3 DEF Seen
<1>5. CASE x.use # u
  <2>1. Occurs(g, u, I \cup {n}) = old
    BY <1>1, <1>2, <1>5
  <2>2. Seen(g, u, I \cup {n}) = Seen(h, u, I)
    BY <1>3, <2>1 DEF Seen
  <2> QED BY <1>4, <1>5, <2>2 DEF g, n
<1>6. CASE x.use = u
  <2>1. Occurs(g, u, I \cup {n}) = old + 1
    BY <1>1, <1>2, <1>6
  <2>2. Seen(g, u, I \cup {n}) = IF u \notin Forwarded THEN 0
                                 ELSE IF u = ForceUse THEN 1 ELSE old + 1
    BY <1>2, <2>1 DEF Seen
  <2>3. u # ForceUse /\ u \in Forwarded => Seen(h, u, I) = old
    BY <1>3
  <2>4. u \notin Forwarded => Seen(h, u, I) = 0
    BY <1>3
  <2>5. Seen(g, u, I \cup {n}) = IF x.use = u /\ u \in Forwarded
                                 THEN IF u = ForceUse THEN 1 ELSE Seen(h, u, I) + 1
                                 ELSE Seen(h, u, I)
    BY <1>6, <2>2, <2>3, <2>4
  <2> QED BY <1>4, <2>5 DEF g, n
<1> QED BY <1>5, <1>6

\* A use reaches the Arguments that see it, and no other.
LEMMA UseIsKnown ==
    ASSUME CountersOK, ArgumentsOK, ArgumentsKnowUses, NEW v \in Uses, Use(v)
    PROVE  ArgumentsKnowUses'
<1> DEFINE x == [use |-> v, arguments |-> arguments, was |-> was_argument]
           n == Len(history)
           S == [use : Uses, arguments : Seq(1..Added), was : BOOLEAN]
<1>1. history \in Seq(S) /\ x \in S /\ n \in Nat /\ x.use = v /\ x.arguments = arguments
  BY DEF CountersOK, ArgumentsOK
<1>2. history' = Append(history, x) /\ Len(history') = n + 1
  BY <1>1 DEF Use
<1>3. (\A i \in 1..n : history'[i] = history[i]) /\ history'[n + 1] = x
  BY <1>1, <1>2
<1>4. 1..Len(history') = (1..n) \cup {n + 1} /\ n + 1 \notin 1..n
  BY <1>1, <1>2
<1>5. Added' = Added
  BY TellFacts DEF Use, Added
<1> HIDE DEF x, S
<1>6. ASSUME NEW a \in 1..Added, NEW u \in Uses
      PROVE  /\ direct'[a][u] = Seen(history', u, DirectUses(history', a))
             /\ indirect'[a][u] = Seen(history', u, IndirectUses(history', a))
  <2> DEFINE c == arguments # <<>> /\ arguments[Len(arguments)] = a
             b == \E k \in 1..Len(arguments) - 1 : arguments[k] = a
             D == DirectUses(history, a)
             E == IndirectUses(history, a)
  <2>1. D \in SUBSET (1..n) /\ E \in SUBSET (1..n) /\ c \in BOOLEAN /\ b \in BOOLEAN
    BY DEF DirectUses, IndirectUses
  <2>2. direct[a][u] = Seen(history, u, D) /\ indirect[a][u] = Seen(history, u, E)
    BY KnowUses
  <2>3. DirectUses(history', a) = D \cup (IF c THEN {n + 1} ELSE {})
    <3>1. \A i \in 1..n : i \in DirectUses(history', a) <=> i \in D
      BY <1>3, <1>4 DEF DirectUses
    <3>2. n + 1 \in DirectUses(history', a) <=> c
      BY <1>1, <1>3, <1>4 DEF DirectUses
    <3>3. DirectUses(history', a) \subseteq (1..n) \cup {n + 1}
      BY <1>4 DEF DirectUses
    <3> HIDE DEF c, D, n
    <3> QED BY <2>1, <3>1, <3>2, <3>3
  <2>4. IndirectUses(history', a) = E \cup (IF b THEN {n + 1} ELSE {})
    <3>1. \A i \in 1..n : i \in IndirectUses(history', a) <=> i \in E
      BY <1>3, <1>4 DEF IndirectUses
    <3>2. n + 1 \in IndirectUses(history', a) <=> b
      BY <1>1, <1>3, <1>4 DEF IndirectUses
    <3>3. IndirectUses(history', a) \subseteq (1..n) \cup {n + 1}
      BY <1>4 DEF IndirectUses
    <3> HIDE DEF b, E, n
    <3> QED BY <2>1, <3>1, <3>2, <3>3
  <2>5. b => arguments # <<>>
    BY DEF ArgumentsOK
  <2>6. /\ direct'[a] = IF v \in Forwarded /\ c THEN Counted(direct[a], v) ELSE direct[a]
        /\ indirect'[a] = IF v \in Forwarded /\ b THEN Counted(indirect[a], v) ELSE indirect[a]
    BY <2>5, TellFacts DEF Use
  <2>7. direct[a] \in [Uses -> Nat] /\ indirect[a] \in [Uses -> Nat]
    BY DEF ArgumentsOK, Added
  <2> HIDE DEF c, b, D, E
  <2>8. /\ Seen(history', u, D) = Seen(history, u, D)
        /\ Seen(history', u, D \cup {n + 1}) =
              IF v = u /\ u \in Forwarded
              THEN IF u = ForceUse THEN 1 ELSE Seen(history, u, D) + 1
              ELSE Seen(history, u, D)
    BY <1>1, <1>2, <2>1, SeenOneMore
  <2>9. /\ Seen(history', u, E) = Seen(history, u, E)
        /\ Seen(history', u, E \cup {n + 1}) =
              IF v = u /\ u \in Forwarded
              THEN IF u = ForceUse THEN 1 ELSE Seen(history, u, E) + 1
              ELSE Seen(history, u, E)
    BY <1>1, <1>2, <2>1, SeenOneMore
  <2>10. \A w \in {direct[a], indirect[a]} : v \in Forwarded =>
            Counted(w, v)[u] = IF v = u /\ u \in Forwarded
                               THEN IF u = ForceUse THEN 1 ELSE w[u] + 1
                               ELSE w[u]
    BY <2>7, CountedType
  <2>11. direct'[a][u] = Seen(history', u, DirectUses(history', a))
    <3>1. CASE c
      <4>1. DirectUses(history', a) = D \cup {n + 1}
        BY <2>3, <3>1
      <4>2. direct'[a][u] = IF v = u /\ u \in Forwarded
                            THEN IF u = ForceUse THEN 1 ELSE direct[a][u] + 1
                            ELSE direct[a][u]
        <5>1. CASE v \in Forwarded
          BY <2>6, <2>10, <3>1, <5>1
        <5>2. CASE v \notin Forwarded
          BY <2>6, <5>2
        <5> QED BY <5>1, <5>2
      <4> QED BY <2>2, <2>8, <4>1, <4>2
    <3>2. CASE ~c
      BY <2>2, <2>3, <2>6, <2>8, <3>2
    <3> QED BY <3>1, <3>2
  <2>12. indirect'[a][u] = Seen(history', u, IndirectUses(history', a))
    <3>1. CASE b
      <4>1. IndirectUses(history', a) = E \cup {n + 1}
        BY <2>4, <3>1
      <4>2. indirect'[a][u] = IF v = u /\ u \in Forwarded
                              THEN IF u = ForceUse THEN 1 ELSE indirect[a][u] + 1
                              ELSE indirect[a][u]
        <5>1. CASE v \in Forwarded
          BY <2>6, <2>10, <3>1, <5>1
        <5>2. CASE v \notin Forwarded
          BY <2>6, <5>2
        <5> QED BY <5>1, <5>2
      <4> QED BY <2>2, <2>9, <4>1, <4>2
    <3>2. CASE ~b
      BY <2>2, <2>4, <2>6, <2>9, <3>2
    <3> QED BY <3>1, <3>2
  <2> QED BY <2>11, <2>12
<1>7. \A a \in 1..Added', u \in Uses :
        /\ direct'[a][u] = Seen(history', u, DirectUses(history', a))
        /\ indirect'[a][u] = Seen(history', u, IndirectUses(history', a))
  BY <1>5, <1>6
<1> QED BY <1>7 DEF ArgumentsKnowUses, Seen, Occurs, NumUses, DirectUses, IndirectUses

\* An Argument that is added has seen no use.
LEMMA AddedKnowsNothing ==
    ASSUME ArgumentsOK, ArgumentsKnowUses, AddArgument
    PROVE  ArgumentsKnowUses'
<1>1. /\ Added \in Nat /\ Added' = Added + 1
      /\ direct' = Append(direct, NoUse) /\ indirect' = Append(indirect, NoUse)
      /\ history' = history
  BY DEF AddArgument, ArgumentsOK, Added
<1>2. \A a \in 1..Added : direct'[a] = direct[a] /\ indirect'[a] = indirect[a]
  BY <1>1 DEF ArgumentsOK, Added
<1>3. direct'[Added + 1] = NoUse /\ indirect'[Added + 1] = NoUse
  BY <1>1 DEF ArgumentsOK, Added
<1>4. DirectUses(history, Added + 1) = {} /\ IndirectUses(history, Added + 1) = {}
  <2> DEFINE S == [use : Uses, arguments : Seq(1..Added), was : BOOLEAN]
  <2>0. \A i \in 1..Len(history) : history[i].arguments \in Seq(1..Added)
    <3>1. history \in Seq(S)
      BY DEF ArgumentsOK
    <3>2. \A y \in S : y.arguments \in Seq(1..Added)
      OBVIOUS
    <3> HIDE DEF S
    <3>3. \A i \in 1..Len(history) : history[i] \in S
      BY <3>1
    <3> QED BY <3>2, <3>3
  <2>1. ASSUME NEW i \in 1..Len(history), NEW k \in 1..Len(history[i].arguments)
        PROVE  history[i].arguments[k] # Added + 1
    <3> DEFINE As == history[i].arguments
    <3>1. As \in Seq(1..Added) /\ k \in 1..Len(As)
      BY <2>0
    <3> HIDE DEF As
    <3>2. As[k] \in 1..Added
      BY <3>1, EntryOfSeq
    <3> QED BY <1>1, <3>2 DEF As
  <2>2. \A i \in 1..Len(history) : /\ Len(history[i].arguments) \in Nat
                                    /\ history[i].arguments # <<>> =>
                                         Len(history[i].arguments) # 0
    <3> TAKE i \in 1..Len(history)
    <3> DEFINE As == history[i].arguments
    <3>1. As \in Seq(1..Added)
      BY <2>0
    <3> HIDE DEF As
    <3>2. Len(As) \in Nat
      BY <3>1
    <3>3. Len(As) = 0 => As = <<>>
      BY <3>1, NoLength
    <3> QED BY <3>2, <3>3 DEF As
  <2>3. \A i \in 1..Len(history) : /\ i \notin DirectUses(history, Added + 1)
                                    /\ i \notin IndirectUses(history, Added + 1)
    <3> TAKE i \in 1..Len(history)
    <3> DEFINE As == history[i].arguments
    <3>1. Len(As) \in Nat /\ (As # <<>> => Len(As) # 0)
      BY <2>2
    <3>2. \A k \in 1..Len(As) : As[k] # Added + 1
      BY <2>1
    <3> HIDE DEF As
    <3>3. As # <<>> => As[Len(As)] # Added + 1
      BY <3>1, <3>2
    <3>4. \A k \in 1..Len(As) - 1 : As[k] # Added + 1
      BY <3>1, <3>2
    <3> QED BY <3>3, <3>4 DEF As, DirectUses, IndirectUses
  <2> QED BY <2>3 DEF DirectUses, IndirectUses
<1>5. \A u : Seen(history, u, {}) = 0
  BY FS_EmptySet DEF Seen, Occurs
<1>6. ASSUME NEW a \in 1..Added', NEW u \in Uses
      PROVE  /\ direct'[a][u] = Seen(history, u, DirectUses(history, a))
             /\ indirect'[a][u] = Seen(history, u, IndirectUses(history, a))
  <2>1. CASE a = Added + 1
    BY <1>3, <1>4, <1>5, <2>1 DEF NoUse
  <2>2. CASE a # Added + 1
    <3>1. a \in 1..Added
      BY <1>1, <2>2
    <3> QED BY <1>2, <3>1, KnowUses
  <2> QED BY <2>1, <2>2
<1>7. \A a \in 1..Added', u \in Uses :
        /\ direct'[a][u] = Seen(history', u, DirectUses(history', a))
        /\ indirect'[a][u] = Seen(history', u, IndirectUses(history', a))
  BY <1>1, <1>6
<1> QED BY <1>7 DEF ArgumentsKnowUses, Seen, Occurs, NumUses, DirectUses, IndirectUses

\* Every step keeps what the Arguments know.
LEMMA KnowStep ==
    ASSUME CountersOK, ArgumentsOK, ArgumentsKnowUses, [Next]_vars
    PROVE  ArgumentsKnowUses'
<1>1. CASE \E u \in Uses : Use(u)
  BY <1>1, UseIsKnown
<1>2. CASE AddArgument
  BY <1>2, AddedKnowsNothing
<1>3. CASE UNCHANGED <<direct, indirect, history>>
  <2>1. \A a \in 1..Added', u \in Uses :
          /\ direct'[a][u] = Seen(history', u, DirectUses(history', a))
          /\ indirect'[a][u] = Seen(history', u, IndirectUses(history', a))
    BY <1>3, KnowUses DEF Added
  <2> QED
    BY <2>1 DEF ArgumentsKnowUses, Seen, Occurs, NumUses, DirectUses, IndirectUses
<1>4. CASE RemoveArgument \/ EnableContextSensitiveLookup
  BY <1>3, <1>4 DEF RemoveArgument, EnableContextSensitiveLookup
<1>5. CASE UNCHANGED vars
  BY <1>3, <1>5 DEF vars
<1> QED BY <1>1, <1>2, <1>4, <1>5, NextUses

\* Every Argument counts exactly the forces, lookups and metaprograms that came while it was
\* on argument_stack_, direct at its end and indirect below it.
THEOREM ArgumentsAreTold == Spec => []ArgumentsKnowUses
<1>1. Init => CountersOK /\ ArgumentsOK /\ ArgumentsKnowUses
  <2>1. Init => ArgumentsKnowUses
    BY DEF Init, ArgumentsKnowUses, Added
  <2> QED BY <2>1, CountersInit, ArgumentsInit
<1>2. CountersOK /\ ArgumentsOK /\ ArgumentsKnowUses /\ [Next]_vars
        => (CountersOK /\ ArgumentsOK /\ ArgumentsKnowUses)'
  BY CountersStep, ArgumentsStep, KnowStep
<1> QED BY <1>1, <1>2, PTL DEF Spec
=============================================================================
