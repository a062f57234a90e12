------------------------- MODULE HashedStore_proofs -------------------------
(***************************************************************************)
(* Proofs about the store with its hashing: the loop of compute_hash has   *)
(* one result in whatever order the positions come, for words of any width *)
(* and call traces of any length, and so the tables behave as if each call *)
(* trace had one hash.                                                     *)
(***************************************************************************)
EXTENDS HashedStore, FiniteSetTheorems, WellFoundedInduction, TLAPS

StoreProofs ==
    INSTANCE TraceStore_proofs WITH
        Traces <- Calls, Hashes <- Keys, Hash <- KeyOf,
        Signals <- FALSE, MaxSeen <- MaxDealt,
        pc <- StorePc, traces <- Total(traces), counts <- Total(counts),
        file <- [complete |-> file.complete, header |-> file.header, rows |-> Total(file.rows)],
        seen <- Seen, interrupted <- {}

(***************************************************************************)
(* The loop                                                                *)
(***************************************************************************)

\* What a recursive definition says of the partial products of some positions.
Partial(g, f, S) ==
    g = [k \in 0..Cardinality(DOMAIN f) |->
            IF k = 0 THEN 1
            ELSE IF k - 2 \in S THEN Times(g[k - 1], f[k - 2]) ELSE g[k - 1]]

\* The sequences of partial products, in words.
Partials(f, S, n) == {g \in [0..n -> Words] : Partial(g, f, S)}

\* Every set of numbers that is not empty has a least one.
LEMMA LeastNumber ==
  ASSUME NEW T, T \subseteq Nat, T # {}
  PROVE  \E m \in T : \A n \in T : m <= n
  <1>1. \E R : IsWellFoundedOn(R, Nat) /\ \A n, m \in Nat : n < m => <<n, m>> \in R
    <2>1. IsWellFoundedOn(OpToRel(<, Nat), Nat)
      BY NatLessThanWellFounded
    <2>2. \A n, m \in Nat : n < m => <<n, m>> \in OpToRel(<, Nat)
      BY DEF OpToRel
    <2> QED
      BY <2>1, <2>2, Zenon
  <1>2. PICK R : IsWellFoundedOn(R, Nat) /\ \A n, m \in Nat : n < m => <<n, m>> \in R
    BY <1>1
  <1>3. PICK m \in T : \A n \in T : ~(<<n, m>> \in R)
    <2>1. IsWellFoundedOn(R, Nat)
      BY <1>2
    <2> QED
      BY <2>1, WFMin, Zenon
  <1>4. \A n \in T : ~(n < m)
    BY <1>2, <1>3
  <1> QED
    BY <1>4

\* A number has one remainder.
LEMMA RemainderUnique ==
  ASSUME NEW q1 \in Int, NEW r1 \in Words, NEW q2 \in Int, NEW r2 \in Words,
         Word * q1 + r1 = Word * q2 + r2
  PROVE  r1 = r2
  <1>1. Word * (q1 - q2) = r2 - r1
    BY WordAssumption DEF Words
  <1>2. CASE q1 - q2 >= 1
    BY <1>1, <1>2, WordAssumption DEF Words
  <1>3. CASE q1 - q2 <= -1
    BY <1>1, <1>3, WordAssumption DEF Words
  <1> QED
    BY <1>1, <1>2, <1>3, WordAssumption DEF Words

\* A product of words is a word, and the rest of it goes by whole Words.
LEMMA TimesQuotient ==
  ASSUME NEW x \in Words, NEW y \in Words
  PROVE  /\ Times(x, y) \in Words
         /\ \E q \in Int : x * y = Word * q + Times(x, y)
  <1>1. x * y \in Nat /\ x \in Nat /\ y \in Nat
    BY WordAssumption DEF Words
  <1>2. \A z \in Nat : z % Word \in Words
    BY WordAssumption DEF Words
  <1>3. \A z \in Nat : z \div Word \in Int
    BY WordAssumption
  <1>4. \A z \in Nat : z % Word = z - Word * (z \div Word)
    BY WordAssumption
  <1>5. \A z \in Nat : \E q \in Int : z % Word = z - Word * q
    BY <1>3, <1>4
  <1>6. PICK q \in Int : (x * y) % Word = x * y - Word * q
    BY <1>1, <1>5
  <1> DEFINE r == (x * y) % Word
  <1>7. r \in Words /\ Word * q \in Int
    BY <1>1, <1>2, WordAssumption
  <1>8. r = x * y - Word * q
    BY <1>6
  <1>9. Times(x, y) = r
    BY DEF Times
  <1> HIDE DEF r
  <1>10. x * y = Word * q + r
    BY <1>1, <1>7, <1>8 DEF Words
  <1> QED
    BY <1>7, <1>9, <1>10

\* The order of two factors does not matter.
LEMMA TimesCommutes ==
  ASSUME NEW x \in Words, NEW y \in Words, NEW z \in Words
  PROVE  Times(Times(x, y), z) = Times(Times(x, z), y)
  <1> DEFINE xy == Times(x, y)
             xz == Times(x, z)
             xyz == Times(xy, z)
             xzy == Times(xz, y)
  <1>1. xy \in Words /\ xz \in Words /\ xyz \in Words /\ xzy \in Words
    BY TimesQuotient
  <1>2. PICK p \in Int : x * y = Word * p + xy
    BY TimesQuotient
  <1>3. PICK q \in Int : xy * z = Word * q + xyz
    BY <1>1, TimesQuotient
  <1>4. PICK r \in Int : x * z = Word * r + xz
    BY TimesQuotient
  <1>5. PICK s \in Int : xz * y = Word * s + xzy
    BY <1>1, TimesQuotient
  <1> HIDE DEF xy, xz, xyz, xzy
  <1>6. /\ x \in Int /\ y \in Int /\ z \in Int /\ xy \in Int /\ xz \in Int
        /\ xyz \in Int /\ xzy \in Int /\ Word \in Int
    BY <1>1, WordAssumption DEF Words
  <1>7. (x * y) * z = Word * (p * z + q) + xyz
    <2>1. (x * y) * z = (Word * p) * z + xy * z
      BY <1>2, <1>6
    <2>2. (Word * p) * z + Word * q = Word * (p * z + q)
      BY <1>6
    <2> QED
      BY <1>3, <1>6, <2>1, <2>2
  <1>8. (x * z) * y = Word * (r * y + s) + xzy
    <2>1. (x * z) * y = (Word * r) * y + xz * y
      BY <1>4, <1>6
    <2>2. (Word * r) * y + Word * s = Word * (r * y + s)
      BY <1>6
    <2> QED
      BY <1>5, <1>6, <2>1, <2>2
  <1>9. (x * y) * z = (x * z) * y
    BY <1>6
  <1>10. p * z + q \in Int /\ r * y + s \in Int
    BY <1>6
  <1>11. xyz = xzy
    BY <1>1, <1>7, <1>8, <1>9, <1>10, RemainderUnique
  <1> QED
    BY <1>11 DEF xyz, xzy, xy, xz

\* There are as many factors as positions.
LEMMA SizeOfFactors ==
  ASSUME NEW n \in Nat, NEW f \in [-1..n - 2 -> Words]
  PROVE  Cardinality(DOMAIN f) = n
  <1>1. Cardinality(-1..n - 2) = IF -1 > n - 2 THEN 0 ELSE n - 2 - (-1) + 1
    BY FS_Interval
  <1> QED
    BY <1>1

\* There is one sequence of partial products only.
LEMMA PartialUnique ==
  ASSUME NEW f, NEW S, Cardinality(DOMAIN f) \in Nat,
         NEW g, NEW h, Partial(g, f, S), Partial(h, f, S)
  PROVE  g = h
  <1> DEFINE n == Cardinality(DOMAIN f)
             T == {k \in 0..n : g[k] # h[k]}
  <1>1. SUFFICES ASSUME T # {} PROVE FALSE
    <2>1. DOMAIN g = 0..n /\ DOMAIN h = 0..n
      BY DEF Partial
    <2>2. g = [k \in 0..n |-> g[k]] /\ h = [k \in 0..n |-> h[k]]
      BY DEF Partial
    <2> QED
      BY <2>2, <1>1
  <1>2. PICK m \in T : \A k \in T : m <= k
    <2>1. T \subseteq Nat
      OBVIOUS
    <2> HIDE DEF T
    <2> QED
      BY <1>1, <2>1, LeastNumber
  <1>3. m # 0
    BY <1>2 DEF Partial
  <1>4. m - 1 \in 0..n /\ m - 1 \notin T
    BY <1>2, <1>3
  <1>5. g[m - 1] = h[m - 1]
    BY <1>4
  <1> QED
    BY <1>2, <1>3, <1>5 DEF Partial

\* The recursive definition of Product is met by any such sequence.
LEMMA ProductOfPartial ==
  ASSUME NEW f, NEW S, Cardinality(DOMAIN f) \in Nat, NEW g, Partial(g, f, S)
  PROVE  Product(f, S) = g[Cardinality(DOMAIN f)]
  <1> DEFINE c == CHOOSE h : Partial(h, f, S)
  <1>1. Partial(c, f, S)
    OBVIOUS
  <1>2. c = g
    BY <1>1, PartialUnique
  <1>3. Product(f, S) = c[Cardinality(DOMAIN f)]
    BY DEF Product, Partial
  <1> QED
    BY <1>2, <1>3

\* One more position: all partial products from it on get its factor.
LEMMA PartialOneMore ==
  ASSUME NEW n \in Nat, NEW f \in [-1..n - 2 -> Words], NEW S, NEW p \in -1..n - 2, p \notin S,
         NEW g \in Partials(f, S, n)
  PROVE  \E h \in Partials(f, S \cup {p}, n) : h[n] = Times(g[n], f[p])
  <1> DEFINE h == [k \in 0..n |-> IF k < p + 2 THEN g[k] ELSE Times(g[k], f[p])]
  <1>1. Cardinality(DOMAIN f) = n
    BY SizeOfFactors
  <1>2. g \in [0..n -> Words] /\ h \in [0..n -> Words]
    BY TimesQuotient DEF Partials
  <1>3. h[n] = Times(g[n], f[p])
    OBVIOUS
  <1>4. ASSUME NEW k \in 0..n
        PROVE  g[k] = IF k = 0 THEN 1
                      ELSE IF k - 2 \in S THEN Times(g[k - 1], f[k - 2]) ELSE g[k - 1]
    BY <1>1 DEF Partials, Partial
  <1>5. ASSUME NEW k \in 0..n
        PROVE  h[k] = IF k = 0 THEN 1
                      ELSE IF k - 2 \in S \cup {p} THEN Times(h[k - 1], f[k - 2]) ELSE h[k - 1]
    <2>1. CASE k = 0
      BY <2>1, <1>4
    <2>2. CASE k # 0
      <3>1. k - 1 \in 0..n /\ k \in Int /\ p \in Int
        BY <2>2
      <3>2. CASE k < p + 2
        <4>1. h[k] = g[k] /\ h[k - 1] = g[k - 1] /\ k - 2 # p
          BY <3>1, <3>2
        <4> QED
          BY <4>1, <2>2, <1>4
      <3>3. CASE k = p + 2
        <4>1. h[k] = Times(g[k], f[p]) /\ h[k - 1] = g[k - 1] /\ k - 2 = p
          BY <3>1, <3>3
        <4> QED
          BY <4>1, <2>2, <1>4
      <3>4. CASE k > p + 2
        <4>1. h[k] = Times(g[k], f[p]) /\ h[k - 1] = Times(g[k - 1], f[p]) /\ k - 2 # p
          BY <3>1, <3>4
        <4>2. CASE k - 2 \in S
          <5>1. g[k] = Times(g[k - 1], f[k - 2])
            BY <4>2, <2>2, <1>4
          <5>2. k - 2 \in -1..n - 2
            BY <3>1, <3>4
          <5>3. Times(Times(g[k - 1], f[k - 2]), f[p]) = Times(Times(g[k - 1], f[p]), f[k - 2])
            BY <1>2, <3>1, <5>2, TimesCommutes
          <5> QED
            BY <4>1, <4>2, <5>1, <5>3, <2>2
        <4>3. CASE k - 2 \notin S
          BY <4>1, <4>3, <2>2, <1>4
        <4> QED
          BY <4>2, <4>3
      <3> QED
        BY <3>1, <3>2, <3>3, <3>4
    <2> QED
      BY <2>1, <2>2
  <1>6. Partial(h, f, S \cup {p})
    BY <1>1, <1>5 DEF Partial
  <1> QED
    BY <1>2, <1>3, <1>6 DEF Partials

\* No position yet: all partial products are 1.
LEMMA PartialOfNone ==
  ASSUME NEW n \in Nat, NEW f \in [-1..n - 2 -> Words]
  PROVE  \E g \in Partials(f, {}, n) : g[n] = 1
  <1> DEFINE g == [k \in 0..n |-> 1]
  <1>1. g \in [0..n -> Words] /\ g[n] = 1
    BY WordAssumption DEF Words
  <1>2. Partial(g, f, {})
    BY SizeOfFactors DEF Partial
  <1> QED
    BY <1>1, <1>2 DEF Partials

\* The inductive invariant: the loop has taken positions of the call, and the hash is the
\* last partial product of those.
LoopInv ==
    /\ todo \subseteq DOMAIN factors
    /\ \E n \in Nat :
          /\ factors \in [-1..n - 2 -> Words]
          /\ \E g \in Partials(factors, DOMAIN factors \ todo, n) : hash = g[n]

\* The loop begins with all positions to go.
LEMMA BeginInv ==
  ASSUME NEW n \in Nat, NEW f \in [-1..n - 2 -> Words], Begin(f)
  PROVE  LoopInv'
  <1>1. PICK g \in Partials(f, {}, n) : g[n] = 1
    BY PartialOfNone
  <1>2. factors' = f /\ todo' = DOMAIN f /\ hash' = 1
    BY DEF Begin
  <1>3. DOMAIN factors' \ todo' = {}
    BY <1>2
  <1>4. g \in Partials(factors', DOMAIN factors' \ todo', n) /\ hash' = g[n]
    BY <1>1, <1>2, <1>3
  <1> QED
    BY <1>2, <1>4 DEF LoopInv, Partials, Partial, Words

\* Before the first call there is nothing to multiply.
LEMMA LoopInitInv == LoopInit => LoopInv
  <1> SUFFICES ASSUME LoopInit PROVE LoopInv
    OBVIOUS
  <1>1. factors \in [-1..0 - 2 -> Words] /\ todo = DOMAIN factors /\ hash = 1
    BY DEF LoopInit
  <1>2. PICK g \in Partials(factors, {}, 0) : g[0] = 1
    BY <1>1, PartialOfNone
  <1>3. DOMAIN factors \ todo = {}
    BY <1>1
  <1> QED
    BY <1>1, <1>2, <1>3 DEF LoopInv

\* A turn of the loop multiplies the last partial product with its factor.
LEMMA TurnInv ==
  ASSUME LoopInv, NEW p \in todo, Turn(p)
  PROVE  LoopInv'
  <1>1. PICK n \in Nat :
          /\ factors \in [-1..n - 2 -> Words]
          /\ \E g \in Partials(factors, DOMAIN factors \ todo, n) : hash = g[n]
    BY DEF LoopInv
  <1>2. PICK g \in Partials(factors, DOMAIN factors \ todo, n) : hash = g[n]
    BY <1>1
  <1>3. p \in -1..n - 2 /\ p \notin DOMAIN factors \ todo
    BY <1>1 DEF LoopInv
  <1>4. PICK h \in Partials(factors, (DOMAIN factors \ todo) \cup {p}, n) :
          h[n] = Times(g[n], factors[p])
    <2>1. factors \in [-1..n - 2 -> Words]
      BY <1>1
    <2>2. \A S : \A q \in -1..n - 2 :
             q \notin S /\ g \in Partials(factors, S, n) =>
                \E h \in Partials(factors, S \cup {q}, n) : h[n] = Times(g[n], factors[q])
      <3> SUFFICES ASSUME NEW S, NEW q \in -1..n - 2, q \notin S, g \in Partials(factors, S, n)
                   PROVE  \E h \in Partials(factors, S \cup {q}, n) : h[n] = Times(g[n], factors[q])
        OBVIOUS
      <3> QED
        BY <2>1, PartialOneMore
    <2> QED
      BY <1>2, <1>3, <2>2
  <1>5. /\ factors' = factors /\ todo' = todo \ {p} /\ todo' \subseteq DOMAIN factors'
        /\ (DOMAIN factors \ todo) \cup {p} = DOMAIN factors' \ todo'
        /\ hash' = h[n]
    BY <1>1, <1>2, <1>3, <1>4 DEF Turn, LoopInv
  <1>6. h \in Partials(factors', DOMAIN factors' \ todo', n)
    BY <1>4, <1>5
  <1> QED
    BY <1>1, <1>5, <1>6 DEF LoopInv, Partials, Partial, Words

\* The invariant speaks of the loop only.
LEMMA LoopKept ==
  ASSUME LoopInv, UNCHANGED loopVars
  PROVE  LoopInv'
  BY DEF loopVars, LoopInv, Partials, Partial, Words, Times

\* The hash is the product in the order of the positions.
LEMMA LoopProduct == LoopInv => HashIsProduct
  <1> SUFFICES ASSUME LoopInv PROVE HashIsProduct
    OBVIOUS
  <1>1. PICK n \in Nat :
          /\ factors \in [-1..n - 2 -> Words]
          /\ \E g \in Partials(factors, DOMAIN factors \ todo, n) : hash = g[n]
    BY DEF LoopInv
  <1>2. PICK g : Partial(g, factors, DOMAIN factors \ todo) /\ hash = g[n]
    BY <1>1 DEF Partials
  <1>3. Cardinality(DOMAIN factors) = n
    BY <1>1, SizeOfFactors
  <1> QED
    BY <1>2, <1>3, ProductOfPartial DEF HashIsProduct

(***************************************************************************)
(* The inductive invariant                                                 *)
(***************************************************************************)

\* The call trace whose hash is computed.
Subject == IF pc = "read" THEN el ELSE trace

\* A loop is over the positions of the call trace that it is for.
LoopIsOfSubject == pc \in HashOps => factors = Factors[Subject]

TypeOK ==
    /\ pc \in HashOps \cup {"idle", "running", "write", "thrown"}
    /\ trace \in Calls /\ el \in Calls
    /\ got \in Nat
    /\ log \in Seq(Calls)
    /\ rest \subseteq DOMAIN traces

\* A row is under the one hash of its trace, in both tables.
TablesAreKeyed ==
    /\ \A h \in DOMAIN traces : traces[h] \in Calls /\ KeyOf[traces[h]] = h
    /\ \A h \in DOMAIN counts : h \in Keys /\ counts[h] \in Nat

\* What counts_.at returned is still so when insert_or_assign uses it.
GotIsCurrent ==
    pc = "assign" => KeyOf[trace] \in DOMAIN counts /\ got = counts[KeyOf[trace]]

\* The keys whose rows are made.
Made == {h \in DOMAIN traces : h \notin rest /\ (pc = "read" => h # KeyOf[el])}

\* The rows that are made so far are those of the tables, and the header has a column for
\* each of their positions and no more.
OutIsSound ==
    pc \in {"write", "read"} =>
        /\ file = [complete |-> FALSE, header |-> 0, rows |-> <<>>]
        /\ pc = "read" => KeyOf[el] \in DOMAIN traces \ rest /\ el = traces[KeyOf[el]]
        /\ DOMAIN out.rows = Made
        /\ \A h \in Made : h \in DOMAIN counts
                           /\ out.rows[h] = [trace |-> traces[h], count |-> counts[h]]
        /\ out.header \in Nat
        /\ \A h \in Made : LastPos[traces[h]] <= out.header
        /\ out.header = 0 \/ \E h \in Made : LastPos[traces[h]] = out.header

\* The keys of traces_ are those of the call traces that were dealt with.
KeysOfLog ==
    DOMAIN traces = {KeyOf[log[i]] : i \in 1..Len(log)}
                        \cup (IF pc = "count" THEN {KeyOf[trace]} ELSE {})

HashInv ==
    /\ TypeOK
    /\ LoopIsOfSubject
    /\ TablesAreKeyed
    /\ GotIsCurrent
    /\ OutIsSound
    /\ KeysOfLog

IInv == LoopInv /\ HashInv /\ Store!IInv

(***************************************************************************)
(* What the store is given                                                 *)
(***************************************************************************)

\* What TraceStore assumes of its constants is so here.
LEMMA StoreConstants ==
    /\ KeyOf \in [Calls -> Keys]
    /\ LastPos \in [Calls -> Nat \cup {-1}]
    /\ Absent \notin Nat \cup Calls \cup [trace : Calls, count : Nat]
    /\ FALSE \in BOOLEAN /\ MaxDealt \in Nat
  <1>1. KeyOf \in [Calls -> Keys]
    BY DEF KeyOf, Keys
  <1>2. \A c \in Calls : Cardinality(DOMAIN Factors[c]) - 2 \in Nat \cup {-1}
    BY CallsAssumption
  <1> QED
    BY <1>1, <1>2, CallsAssumption, AbsentAssumption DEF LastPos

\* The store keeps its invariant here as it does alone.
LEMMA StoreInstance ==
    /\ Store!Init => Store!IInv
    /\ Store!IInv /\ [Store!Next]_(Store!vars) => Store!IInv'
  <1>1. StoreProofs!IInv <=> Store!IInv
    BY DEF StoreProofs!IInv, Store!IInv, StoreProofs!TypeOK, Store!TypeOK,
           StoreProofs!NeverThrows, Store!NeverThrows, StoreProofs!Accounted, Store!Accounted,
           StoreProofs!Positions, Store!Positions, StoreProofs!IsHeader, Store!IsHeader,
           StoreProofs!FileIsSound, Store!FileIsSound, StoreProofs!ExitWritesAll,
           Store!ExitWritesAll, StoreProofs!File, Store!File, StoreProofs!Rows, Store!Rows,
           StoreProofs!Row, Store!Row
  <1>2. StoreProofs!IInv' <=> Store!IInv'
    BY DEF StoreProofs!IInv, Store!IInv, StoreProofs!TypeOK, Store!TypeOK,
           StoreProofs!NeverThrows, Store!NeverThrows, StoreProofs!Accounted, Store!Accounted,
           StoreProofs!Positions, Store!Positions, StoreProofs!IsHeader, Store!IsHeader,
           StoreProofs!FileIsSound, Store!FileIsSound, StoreProofs!ExitWritesAll,
           Store!ExitWritesAll, StoreProofs!File, Store!File, StoreProofs!Rows, Store!Rows,
           StoreProofs!Row, Store!Row
  <1>3. Store!Init => StoreProofs!Init
    BY DEF StoreProofs!Init, Store!Init, StoreProofs!EmptyFile, Store!EmptyFile
  <1>4. [Store!Next]_(Store!vars) => [StoreProofs!Next]_(StoreProofs!vars)
    BY DEF StoreProofs!Next, Store!Next, StoreProofs!vars, Store!vars,
           StoreProofs!DyntraceEntry, Store!DyntraceEntry,
           StoreProofs!DealWithCallTrace, Store!DealWithCallTrace,
           StoreProofs!Increment, Store!Increment, StoreProofs!Insert, Store!Insert,
           StoreProofs!Count, Store!Count, StoreProofs!DyntraceExit, Store!DyntraceExit,
           StoreProofs!SerializeTracesList, Store!SerializeTracesList,
           StoreProofs!HandleSignal, Store!HandleSignal,
           StoreProofs!EmptyFile, Store!EmptyFile, StoreProofs!CountsRead, Store!CountsRead,
           StoreProofs!Contents, Store!Contents, StoreProofs!Header, Store!Header,
           StoreProofs!Positions, Store!Positions, StoreProofs!IsHeader, Store!IsHeader
  <1>5. StoreProofs!Init => StoreProofs!IInv
    BY StoreConstants, StoreProofs!StoreInit DEF StoreProofs!Row
  <1>6. StoreProofs!IInv /\ [StoreProofs!Next]_(StoreProofs!vars) => StoreProofs!IInv'
    BY StoreConstants, StoreProofs!StoreKeeps DEF StoreProofs!Row
  <1> QED
    BY <1>1, <1>2, <1>3, <1>4, <1>5, <1>6

\* An operation on a table has the one hash of the call trace that it is for.
LEMMA KeyIsHash ==
    ASSUME LoopInv, TypeOK, LoopIsOfSubject, pc \in HashOps, todo = {}
    PROVE  Subject \in Calls /\ Key = KeyOf[Subject] /\ Key \in Keys
  <1>1. Subject \in Calls
    BY DEF TypeOK, Subject
  <1>2. hash = Product(factors, DOMAIN factors)
    BY LoopProduct DEF HashIsProduct
  <1>3. factors = Factors[Subject]
    BY DEF LoopIsOfSubject
  <1>4. Key = KeyOf[Subject]
    BY <1>1, <1>2, <1>3 DEF Key, KeyOf, Subject
  <1> QED
    BY <1>1, <1>4 DEF Keys

\* A loop that begins for a call trace is over its positions.
LEMMA HashingInv ==
    ASSUME NEW c \in Calls, Begin(Factors[c])
    PROVE  LoopInv' /\ factors' = Factors[c]
  <1> DEFINE n == Cardinality(DOMAIN Factors[c])
  <1>1. n \in Nat /\ Factors[c] \in [-1..n - 2 -> Words]
    BY CallsAssumption
  <1> HIDE DEF n
  <1>2. LoopInv'
    BY <1>1, BeginInv
  <1> QED
    BY <1>2 DEF Begin

\* A table without rows.
LEMMA TotalOfNone ==
    ASSUME NEW table, table = <<>>
    PROVE  Total(table) = [h \in Keys |-> Absent]
  BY DEF Total

\* What an insertion does to the table of TraceStore.
LEMMA PutTotal ==
    ASSUME NEW table, NEW h \in Keys, NEW x
    PROVE  Total(Put(table, h, x)) = [Total(table) EXCEPT ![h] = x]
  BY DEF Total, Put

\* One more call trace was dealt with.
LEMMA SeenOneMore ==
    ASSUME log \in Seq(Calls), NEW c \in Calls, log' = Append(log, c)
    PROVE  Seen' = [Seen EXCEPT ![KeyOf[c]] = @ + 1]
  <1> DEFINE Of(h) == {i \in 1..Len(log) : KeyOf[log[i]] = h}
  <1>1. /\ Len(log) \in Nat /\ Len(log') = Len(log) + 1 /\ log'[Len(log) + 1] = c
        /\ \A i \in 1..Len(log) : log'[i] = log[i]
    OBVIOUS
  <1>2. \A h \in Keys : IsFiniteSet(Of(h)) /\ Cardinality(Of(h)) \in Nat
    <2>1. IsFiniteSet(1..Len(log))
      BY <1>1, FS_Interval
    <2> QED
      BY <2>1, FS_Subset, FS_CardinalityType
  <1>3. \A h \in Keys : Cardinality(Of(h)') =
                          IF h = KeyOf[c] THEN Cardinality(Of(h)) + 1 ELSE Cardinality(Of(h))
    <2> TAKE h \in Keys
    <2>1. CASE h = KeyOf[c]
      <3>1. Of(h)' = Of(h) \cup {Len(log) + 1} /\ Len(log) + 1 \notin Of(h)
        BY <1>1, <2>1
      <3> QED
        BY <1>2, <2>1, <3>1, FS_AddElement
    <2>2. CASE h # KeyOf[c]
      <3>1. Of(h)' = Of(h)
        BY <1>1, <2>2
      <3> QED
        BY <2>2, <3>1
    <2> QED
      BY <2>1, <2>2
  <1> QED
    BY <1>3 DEF Seen

\* A call trace is not dealt with more often than anything is.
LEMMA SeenBounded ==
    ASSUME log \in Seq(Calls), NEW h \in Keys
    PROVE  Seen[h] \in Nat /\ Seen[h] <= Len(log)
  <1> DEFINE S == {i \in 1..Len(log) : KeyOf[log[i]] = h}
  <1>1. IsFiniteSet(1..Len(log)) /\ Cardinality(1..Len(log)) = Len(log)
    <2>1. Len(log) \in Nat
      OBVIOUS
    <2> QED
      BY <2>1, FS_Interval
  <1>2. Cardinality(S) <= Cardinality(1..Len(log)) /\ IsFiniteSet(S)
    BY <1>1, FS_Subset
  <1>3. Cardinality(S) \in Nat
    BY <1>2, FS_CardinalityType
  <1> QED
    BY <1>1, <1>2, <1>3 DEF Seen

\* The rows of the code's tables are those of TraceStore's.
LEMMA TotalRows ==
    ASSUME TablesAreKeyed
    PROVE  /\ DOMAIN traces \subseteq Keys /\ DOMAIN counts \subseteq Keys
           /\ \A h \in Keys :
                 /\ Total(traces)[h] = Absent <=> h \notin DOMAIN traces
                 /\ Total(counts)[h] = Absent <=> h \notin DOMAIN counts
                 /\ h \in DOMAIN traces => Total(traces)[h] = traces[h]
                 /\ h \in DOMAIN counts => Total(counts)[h] = counts[h]
  <1>1. DOMAIN traces \subseteq Keys /\ DOMAIN counts \subseteq Keys
    BY DEF TablesAreKeyed, Keys
  <1>2. \A h \in DOMAIN traces : traces[h] # Absent
    BY AbsentAssumption DEF TablesAreKeyed
  <1>3. \A h \in DOMAIN counts : counts[h] # Absent
    BY AbsentAssumption DEF TablesAreKeyed
  <1> QED
    BY <1>1, <1>2, <1>3 DEF Total

\* What TraceStore's invariant says of the code's tables.
LEMMA TablesAgree ==
    ASSUME IInv
    PROVE  /\ pc # "count" => DOMAIN traces \subseteq DOMAIN counts
           /\ pc \in {"at", "assign"} => KeyOf[trace] \in DOMAIN traces \cap DOMAIN counts
           /\ pc = "insert" => KeyOf[trace] \notin DOMAIN traces \cup DOMAIN counts
           /\ pc = "count" => KeyOf[trace] \in DOMAIN traces /\ KeyOf[trace] \notin DOMAIN counts
  <1> DEFINE k == KeyOf[trace]
  <1>1. k \in Keys
    BY StoreConstants DEF IInv, HashInv, TypeOK
  <1>2. TablesAreKeyed /\ log \in Seq(Calls)
    BY DEF IInv, HashInv, TypeOK
  <1>3. \A h \in Keys :
          IF Total(traces)[h] = Absent THEN Seen[h] = 0 /\ Total(counts)[h] = Absent
          ELSE IF StorePc = "count" /\ h = k THEN Total(counts)[h] = Absent
          ELSE Seen[h] > 0 /\ Total(counts)[h] = Seen[h] - 0
    BY DEF IInv, Store!IInv, Store!Accounted
  <1>4. /\ StorePc = "insert" => Total(traces)[k] = Absent
        /\ StorePc \in {"increment", "count"} => Total(traces)[k] # Absent
    BY DEF IInv, Store!IInv
  <1>5. /\ pc = "count" <=> StorePc = "count"
        /\ pc \in {"at", "assign"} => StorePc = "increment"
        /\ pc = "insert" => StorePc = "insert"
    BY DEF StorePc, IInv, HashInv, TypeOK, HashOps
  <1>6. \A h \in Keys : Seen[h] - 0 # Absent
    <2> TAKE h \in Keys
    <2>1. Seen[h] \in Nat
      BY <1>2, SeenBounded
    <2>2. Seen[h] - 0 \in Nat
      BY <2>1
    <2> QED
      BY <2>2, AbsentAssumption
  <1> HIDE DEF k
  <1>7. pc # "count" => DOMAIN traces \subseteq DOMAIN counts
    BY <1>2, <1>3, <1>5, <1>6, TotalRows
  <1>8. pc \in {"at", "assign"} => k \in DOMAIN traces \cap DOMAIN counts
    BY <1>1, <1>2, <1>4, <1>5, <1>7, TotalRows
  <1>9. pc = "insert" => k \notin DOMAIN traces \cup DOMAIN counts
    BY <1>1, <1>2, <1>3, <1>4, <1>5, TotalRows
  <1>10. pc = "count" => k \in DOMAIN traces /\ k \notin DOMAIN counts
    BY <1>1, <1>2, <1>3, <1>4, <1>5, TotalRows
  <1> QED
    BY <1>7, <1>8, <1>9, <1>10 DEF k

\* Steps that leave alone what TraceStore sees.
LEMMA MappedSame ==
    /\ UNCHANGED traces => Total(traces)' = Total(traces)
    /\ UNCHANGED counts => Total(counts)' = Total(counts)
    /\ UNCHANGED log => Seen' = Seen
    /\ UNCHANGED file => [complete |-> file.complete, header |-> file.header,
                          rows |-> Total(file.rows)]'
                         = [complete |-> file.complete, header |-> file.header,
                            rows |-> Total(file.rows)]
  BY DEF Total, Seen

(***************************************************************************)
(* One lemma for each action: the invariant, and the step of TraceStore    *)
(***************************************************************************)

\* A session begins.
LEMMA EntryStep ==
    ASSUME IInv, DyntraceEntry
    PROVE  LoopInv' /\ HashInv' /\ [Store!Next]_(Store!vars)
  <1> USE DEF DyntraceEntry, tables, writing
  <1>1. LoopInv'
    BY LoopKept DEF IInv
  <1>2. HashInv'
    BY DEF IInv, HashInv, TypeOK, HashOps, LoopIsOfSubject, TablesAreKeyed, GotIsCurrent,
           OutIsSound, KeysOfLog
  <1>3. StorePc = "idle" /\ StorePc' = "running"
    BY DEF StorePc
  <1>4. Store!DyntraceEntry
    BY <1>3, MappedSame DEF Store!DyntraceEntry
  <1> QED
    BY <1>1, <1>2, <1>4 DEF Store!Next

\* A turn of the loop is nothing to TraceStore.
LEMMA IterateStep ==
    ASSUME IInv, NEW p \in todo, Iterate(p)
    PROVE  LoopInv' /\ HashInv' /\ [Store!Next]_(Store!vars)
  <1> USE DEF Iterate, tables, writing
  <1>1. LoopInv'
    BY TurnInv DEF IInv
  <1>2. factors' = factors
    BY DEF Turn
  <1>3. HashInv'
    BY <1>2 DEF IInv, HashInv, TypeOK, LoopIsOfSubject, Subject, TablesAreKeyed, GotIsCurrent,
           OutIsSound, Made, KeysOfLog
  <1>4. StorePc' = StorePc
    BY DEF StorePc
  <1> QED
    BY <1>1, <1>3, <1>4, MappedSame DEF Store!vars

\* deal_with_call_trace begins: TraceStore knows at once which way it will go.
LEMMA DealStep ==
    ASSUME IInv, NEW c \in Calls, DealWithCallTrace(c)
    PROVE  LoopInv' /\ HashInv' /\ [Store!Next]_(Store!vars)
  <1> USE DEF DealWithCallTrace, tables, writing, Hashing
  <1>1. LoopInv' /\ factors' = Factors[c]
    BY HashingInv
  <1>2. HashInv'
    BY <1>1 DEF IInv, HashInv, TypeOK, HashOps, LoopIsOfSubject, Subject, TablesAreKeyed,
           GotIsCurrent, OutIsSound, KeysOfLog
  <1>3. /\ StorePc = "running"
        /\ StorePc' = IF KeyOf[c] \in DOMAIN traces THEN "increment" ELSE "insert"
    BY DEF StorePc
  <1>4. KeyOf[c] \in Keys
    BY StoreConstants
  <1>5. TablesAreKeyed /\ log \in Seq(Calls) /\ Len(log) \in Nat
    BY DEF IInv, HashInv, TypeOK
  <1>6. StorePc' = IF Total(traces)[KeyOf[c]] = Absent THEN "insert" ELSE "increment"
    BY <1>3, <1>4, <1>5, TotalRows
  <1>7. Seen[KeyOf[c]] < MaxDealt
    BY <1>4, <1>5, SeenBounded, CallsAssumption
  <1>8. Store!DealWithCallTrace(c)
    BY <1>3, <1>6, <1>7, MappedSame DEF Store!DealWithCallTrace
  <1> QED
    BY <1>1, <1>2, <1>8 DEF Store!Next

\* traces_.count answers what TraceStore knows.
LEMMA FindStep ==
    ASSUME IInv, Find
    PROVE  LoopInv' /\ HashInv' /\ [Store!Next]_(Store!vars)
  <1> USE DEF Find, tables, writing, Hashing, Hashed
  <1>1. trace \in Calls /\ Key = KeyOf[trace]
    BY KeyIsHash DEF IInv, HashInv, HashOps, Subject, TypeOK
  <1>2. LoopInv' /\ factors' = Factors[trace]
    BY <1>1, HashingInv
  <1>3. pc' \in {"at", "insert"}
    OBVIOUS
  <1>4. HashInv'
    BY <1>2, <1>3 DEF IInv, HashInv, TypeOK, HashOps, LoopIsOfSubject, Subject, TablesAreKeyed,
           GotIsCurrent, OutIsSound, KeysOfLog
  <1>5. StorePc' = StorePc
    BY <1>1 DEF StorePc
  <1> QED
    BY <1>2, <1>4, <1>5, MappedSame DEF Store!vars

\* counts_.at does not throw.
LEMMA AtStep ==
    ASSUME IInv, At
    PROVE  LoopInv' /\ HashInv' /\ [Store!Next]_(Store!vars)
  <1> USE DEF At, tables, writing, Hashing, Hashed
  <1>1. trace \in Calls /\ Key = KeyOf[trace]
    BY KeyIsHash DEF IInv, HashInv, HashOps, Subject, TypeOK
  <1>2. Key \in DOMAIN counts
    BY <1>1, TablesAgree
  <1>3. pc' = "assign" /\ got' = counts[KeyOf[trace]] /\ Begin(Factors[trace])
    BY <1>1, <1>2
  <1>4. LoopInv' /\ factors' = Factors[trace]
    BY <1>1, <1>3, HashingInv
  <1>5. HashInv'
    BY <1>1, <1>2, <1>3, <1>4 DEF IInv, HashInv, TypeOK, HashOps, LoopIsOfSubject, Subject,
           TablesAreKeyed, GotIsCurrent, OutIsSound, KeysOfLog
  <1>6. StorePc' = StorePc
    BY <1>3 DEF StorePc
  <1> QED
    BY <1>4, <1>5, <1>6, MappedSame DEF Store!vars

\* The keys of one more call trace.
LEMMA LogKeys ==
    ASSUME log \in Seq(Calls), NEW c \in Calls, log' = Append(log, c)
    PROVE  /\ {KeyOf[log[i]] : i \in 1..Len(log)}' =
                {KeyOf[log[i]] : i \in 1..Len(log)} \cup {KeyOf[c]}
           /\ log' \in Seq(Calls)
  <1>1. /\ Len(log) \in Nat /\ Len(log') = Len(log) + 1 /\ log'[Len(log) + 1] = c
        /\ \A i \in 1..Len(log) : log'[i] = log[i]
    OBVIOUS
  <1>2. 1..Len(log') = 1..Len(log) \cup {Len(log) + 1}
    BY <1>1
  <1> QED
    BY <1>1, <1>2

\* counts_.insert_or_assign adds one to what is there.
LEMMA AssignStep ==
    ASSUME IInv, Assign
    PROVE  LoopInv' /\ HashInv' /\ [Store!Next]_(Store!vars)
  <1> USE DEF Assign, tables, writing, Hashed
  <1> DEFINE k == KeyOf[trace]
  <1>1. trace \in Calls /\ Key = k /\ k \in Keys /\ log \in Seq(Calls) /\ TablesAreKeyed
    BY KeyIsHash DEF IInv, HashInv, HashOps, Subject, TypeOK
  <1>2. k \in DOMAIN traces /\ k \in DOMAIN counts
    BY TablesAgree
  <1>3. got = counts[k] /\ got \in Nat
    BY DEF IInv, HashInv, GotIsCurrent, TypeOK
  <1>4. counts' = Put(counts, k, got + 1)
    BY <1>1
  <1>5. k \in {KeyOf[log[i]] : i \in 1..Len(log)}
    BY <1>2 DEF IInv, HashInv, KeysOfLog
  <1> HIDE DEF k
  <1>6. LoopInv'
    BY LoopKept DEF IInv
  <1>7. KeysOfLog'
    BY <1>1, <1>5, LogKeys DEF k, IInv, HashInv, KeysOfLog
  <1>8. TablesAreKeyed'
    BY <1>1, <1>3, <1>4 DEF TablesAreKeyed, Put
  <1>9. TypeOK' /\ LoopIsOfSubject' /\ GotIsCurrent' /\ OutIsSound'
    BY <1>1, LogKeys DEF IInv, HashInv, TypeOK, HashOps, LoopIsOfSubject, GotIsCurrent, OutIsSound
  <1>10. StorePc = "increment" /\ StorePc' = "running"
    BY DEF StorePc
  <1>11. Total(counts)' = [Total(counts) EXCEPT ![k] = @ + 1]
    <2>1. Total(counts)[k] = got /\ Total(counts)[k] # Absent
      BY <1>1, <1>2, <1>3, TotalRows
    <2>2. Total(counts)' = Total(Put(counts, k, got + 1))
      BY <1>4 DEF Total
    <2>3. Total(Put(counts, k, got + 1)) = [Total(counts) EXCEPT ![k] = got + 1]
      BY <1>1, PutTotal
    <2> QED
      BY <2>1, <2>2, <2>3
  <1>12. Total(counts)[k] # Absent
    BY <1>1, <1>2, TotalRows
  <1>13. Seen' = [Seen EXCEPT ![k] = @ + 1]
    BY <1>1, SeenOneMore DEF k
  <1>14. Store!Increment
    BY <1>10, <1>11, <1>12, <1>13, MappedSame DEF Store!Increment, k
  <1> QED
    BY <1>6, <1>7, <1>8, <1>9, <1>14 DEF HashInv, Store!Next

\* traces_.insert puts the trace where it was not found.
LEMMA InsertStep ==
    ASSUME IInv, Insert
    PROVE  LoopInv' /\ HashInv' /\ [Store!Next]_(Store!vars)
  <1> USE DEF Insert, tables, writing, Hashing, Hashed
  <1> DEFINE k == KeyOf[trace]
  <1>1. trace \in Calls /\ Key = k /\ k \in Keys /\ TablesAreKeyed
    BY KeyIsHash DEF IInv, HashInv, HashOps, Subject, TypeOK
  <1>2. k \notin DOMAIN traces
    BY TablesAgree
  <1>3. traces' = Put(traces, k, trace)
    BY <1>1, <1>2 DEF PutNew
  <1>4. LoopInv' /\ factors' = Factors[trace]
    BY <1>1, HashingInv
  <1>5. DOMAIN traces' = DOMAIN traces \cup {k}
    BY <1>3 DEF Put
  <1>6. TablesAreKeyed'
    BY <1>1, <1>3 DEF TablesAreKeyed, Put
  <1>7. KeysOfLog'
    BY <1>5 DEF IInv, HashInv, KeysOfLog
  <1>8. TypeOK' /\ LoopIsOfSubject' /\ GotIsCurrent' /\ OutIsSound'
    BY <1>4, <1>5 DEF IInv, HashInv, TypeOK, HashOps, LoopIsOfSubject, Subject, GotIsCurrent,
                      OutIsSound
  <1>9. StorePc = "insert" /\ StorePc' = "count"
    BY DEF StorePc
  <1>10. Total(traces)' = [Total(traces) EXCEPT ![k] = trace]
    <2>1. Total(traces)' = Total(Put(traces, k, trace))
      BY <1>3 DEF Total
    <2> QED
      BY <1>1, <2>1, PutTotal
  <1>11. Store!Insert
    BY <1>9, <1>10, MappedSame DEF Store!Insert, k
  <1> QED
    BY <1>4, <1>6, <1>7, <1>8, <1>11 DEF HashInv, Store!Next

\* counts_.insert puts 1 where no count was.
LEMMA CountStep ==
    ASSUME IInv, Count
    PROVE  LoopInv' /\ HashInv' /\ [Store!Next]_(Store!vars)
  <1> USE DEF Count, tables, writing, Hashed
  <1> DEFINE k == KeyOf[trace]
  <1>1. trace \in Calls /\ Key = k /\ k \in Keys /\ log \in Seq(Calls) /\ TablesAreKeyed
    BY KeyIsHash DEF IInv, HashInv, HashOps, Subject, TypeOK
  <1>2. k \notin DOMAIN counts
    BY TablesAgree
  <1>3. counts' = Put(counts, k, 1)
    BY <1>1, <1>2 DEF PutNew
  <1>4. LoopInv'
    BY LoopKept DEF IInv
  <1>5. KeysOfLog'
    BY <1>1, LogKeys DEF IInv, HashInv, KeysOfLog
  <1>6. TablesAreKeyed'
    BY <1>1, <1>3 DEF TablesAreKeyed, Put
  <1>7. TypeOK' /\ LoopIsOfSubject' /\ GotIsCurrent' /\ OutIsSound'
    BY <1>1, LogKeys DEF IInv, HashInv, TypeOK, HashOps, LoopIsOfSubject, GotIsCurrent, OutIsSound
  <1>8. StorePc = "count" /\ StorePc' = "running"
    BY DEF StorePc
  <1>9. Total(counts)' = [Total(counts) EXCEPT ![k] = 1] /\ Total(counts)[k] = Absent
    <2>1. Total(counts)' = Total(Put(counts, k, 1))
      BY <1>3 DEF Total
    <2> QED
      BY <1>1, <1>2, <2>1, PutTotal, TotalRows
  <1>10. Seen' = [Seen EXCEPT ![k] = @ + 1]
    BY <1>1, SeenOneMore
  <1>11. Store!Count
    BY <1>8, <1>9, <1>10, MappedSame DEF Store!Count, k
  <1> QED
    BY <1>4, <1>5, <1>6, <1>7, <1>11 DEF HashInv, Store!Next

\* The file is truncated and no row is made.
LEMMA ExitStep ==
    ASSUME IInv, DyntraceExit
    PROVE  LoopInv' /\ HashInv' /\ [Store!Next]_(Store!vars)
  <1> USE DEF DyntraceExit, tables, writing
  <1>1. LoopInv'
    BY LoopKept DEF IInv
  <1>2. Made' = {}
    BY DEF Made
  <1>3. OutIsSound'
    BY <1>2 DEF OutIsSound, NoRows
  <1>4. TypeOK' /\ LoopIsOfSubject' /\ TablesAreKeyed' /\ GotIsCurrent' /\ KeysOfLog'
    BY DEF IInv, HashInv, TypeOK, HashOps, LoopIsOfSubject, TablesAreKeyed, GotIsCurrent, KeysOfLog
  <1>5. StorePc = "running" /\ StorePc' = "opened"
    BY DEF StorePc
  <1>6. [complete |-> file.complete, header |-> file.header, rows |-> Total(file.rows)]'
            = Store!EmptyFile
    <2>1. file'.complete = FALSE /\ file'.header = 0 /\ file'.rows = <<>>
      OBVIOUS
    <2> QED
      BY <2>1, TotalOfNone DEF Store!EmptyFile
  <1>7. Store!DyntraceExit
    BY <1>5, <1>6, MappedSame DEF Store!DyntraceExit
  <1> QED
    BY <1>1, <1>3, <1>4, <1>7 DEF HashInv, Store!Next

\* A row that is begun is not made yet.
LEMMA NextRowStep ==
    ASSUME IInv, NEW h \in rest, NextRow(h)
    PROVE  LoopInv' /\ HashInv' /\ [Store!Next]_(Store!vars)
  <1> USE DEF NextRow, tables, writing, Hashing
  <1>1. h \in DOMAIN traces /\ traces[h] \in Calls /\ KeyOf[traces[h]] = h
    BY DEF IInv, HashInv, TypeOK, TablesAreKeyed
  <1>2. LoopInv' /\ factors' = Factors[traces[h]]
    BY <1>1, HashingInv
  <1>3. Made' = Made
    BY <1>1 DEF Made
  <1>4. OutIsSound'
    BY <1>1, <1>3 DEF IInv, HashInv, OutIsSound
  <1>5. TypeOK' /\ LoopIsOfSubject' /\ TablesAreKeyed' /\ GotIsCurrent' /\ KeysOfLog'
    BY <1>1, <1>2 DEF IInv, HashInv, TypeOK, HashOps, LoopIsOfSubject, Subject, TablesAreKeyed,
                      GotIsCurrent, KeysOfLog
  <1>6. StorePc' = StorePc
    BY DEF StorePc
  <1> QED
    BY <1>2, <1>4, <1>5, <1>6, MappedSame DEF HashInv, Store!vars

\* A row is made: counts_[el] finds a count and inserts none.
LEMMA ReadStep ==
    ASSUME IInv, ReadCount
    PROVE  LoopInv' /\ HashInv' /\ [Store!Next]_(Store!vars)
  <1> USE DEF ReadCount, tables, writing, Hashed
  <1> DEFINE k == KeyOf[el]
             wide == IF out.header < LastPos[el] THEN LastPos[el] ELSE out.header
  <1>1. el \in Calls /\ Key = k
    BY KeyIsHash DEF IInv, HashInv, HashOps, Subject, TypeOK
  <1>2. k \in DOMAIN traces /\ k \notin rest /\ el = traces[k]
    BY DEF IInv, HashInv, OutIsSound
  <1>3. k \in DOMAIN counts
    BY <1>2, TablesAgree
  <1>4. counts' = counts
    BY <1>1, <1>3 DEF PutNew
  <1>5. LoopInv'
    BY LoopKept DEF IInv
  <1>6. Made' = Made \cup {k} /\ k \notin Made
    BY <1>2 DEF Made
  <1>7. /\ out'.header = wide
        /\ out'.rows = Put(out.rows, k, [trace |-> traces[k], count |-> counts[k]])
    BY <1>1, <1>2, <1>4
  <1>8. wide \in Nat /\ LastPos[el] <= wide /\ out.header <= wide /\ wide \in {out.header, LastPos[el]}
    <2>1. LastPos[el] \in Int /\ out.header \in Nat
      BY <1>1, StoreConstants DEF IInv, HashInv, OutIsSound
    <2> QED
      BY <2>1
  <1>9. OutIsSound'
    <2>1. /\ file = [complete |-> FALSE, header |-> 0, rows |-> <<>>]
          /\ DOMAIN out.rows = Made
          /\ \A h \in Made : h \in DOMAIN counts
                             /\ out.rows[h] = [trace |-> traces[h], count |-> counts[h]]
          /\ out.header \in Nat
          /\ \A h \in Made : LastPos[traces[h]] <= out.header
          /\ out.header = 0 \/ \E h \in Made : LastPos[traces[h]] = out.header
      BY DEF IInv, HashInv, OutIsSound
    <2>2. DOMAIN out'.rows = Made'
      BY <1>6, <1>7, <2>1 DEF Put
    <2>3. \A h \in Made' : h \in DOMAIN counts'
                           /\ out'.rows[h] = [trace |-> traces'[h], count |-> counts'[h]]
      BY <1>3, <1>4, <1>6, <1>7, <2>1 DEF Put
    <2>4. \A h \in Made' : LastPos[traces'[h]] <= out'.header
      <3> SUFFICES ASSUME NEW h \in Made' PROVE LastPos[traces[h]] <= out'.header
        OBVIOUS
      <3>1. CASE h = k
        BY <1>2, <1>7, <1>8, <3>1
      <3>2. CASE h # k
        <4>1. h \in Made /\ h \in DOMAIN traces
          BY <1>6, <3>2 DEF Made
        <4>2. LastPos[traces[h]] \in Int
          BY <4>1, StoreConstants DEF IInv, HashInv, TablesAreKeyed
        <4> QED
          BY <1>7, <1>8, <2>1, <4>1, <4>2
      <3> QED
        BY <3>1, <3>2
    <2>5. out'.header = 0 \/ \E h \in Made' : LastPos[traces'[h]] = out'.header
      BY <1>2, <1>6, <1>7, <1>8, <2>1
    <2> QED
      BY <1>7, <1>8, <2>1, <2>2, <2>3, <2>4, <2>5 DEF OutIsSound
  <1>10. TypeOK' /\ LoopIsOfSubject' /\ TablesAreKeyed' /\ GotIsCurrent' /\ KeysOfLog'
    <2>1. TypeOK'
      BY <1>4 DEF IInv, HashInv, TypeOK, HashOps
    <2>2. LoopIsOfSubject' /\ TablesAreKeyed'
      BY <1>4 DEF IInv, HashInv, HashOps, LoopIsOfSubject, TablesAreKeyed
    <2>3. GotIsCurrent' /\ KeysOfLog'
      BY <1>4 DEF IInv, HashInv, GotIsCurrent, KeysOfLog
    <2> QED
      BY <2>1, <2>2, <2>3
  <1>11. StorePc' = StorePc
    BY DEF StorePc
  <1> QED
    BY <1>4, <1>5, <1>9, <1>10, <1>11, MappedSame DEF HashInv, Store!vars

\* There is one header that has a column for each position and no more.
LEMMA HeaderUnique ==
    ASSUME TablesAreKeyed, NEW m \in Nat, NEW n \in Nat, Store!IsHeader(m), Store!IsHeader(n)
    PROVE  m = n
  <1>1. \A h \in Keys : Total(traces)[h] # Absent => LastPos[Total(traces)[h]] \in Int
    BY TotalRows, StoreConstants DEF TablesAreKeyed
  <1> QED
    BY <1>1 DEF Store!IsHeader

\* What is written is what TraceStore writes at once.
LEMMA CloseStep ==
    ASSUME IInv, Close
    PROVE  LoopInv' /\ HashInv' /\ [Store!Next]_(Store!vars)
  <1> USE DEF Close, tables, writing
  <1>1. LoopInv'
    BY LoopKept DEF IInv
  <1>2. HashInv'
    BY DEF IInv, HashInv, TypeOK, HashOps, LoopIsOfSubject, TablesAreKeyed, GotIsCurrent,
           OutIsSound, KeysOfLog
  <1>3. Made = DOMAIN traces
    BY DEF Made
  <1>4. /\ TablesAreKeyed
        /\ DOMAIN out.rows = DOMAIN traces
        /\ \A h \in DOMAIN traces : h \in DOMAIN counts
                           /\ out.rows[h] = [trace |-> traces[h], count |-> counts[h]]
        /\ out.header \in Nat
        /\ \A h \in DOMAIN traces : LastPos[traces[h]] <= out.header
        /\ out.header = 0 \/ \E h \in DOMAIN traces : LastPos[traces[h]] = out.header
    BY <1>3 DEF IInv, HashInv, OutIsSound
  <1>5. Store!CountsRead = Total(counts)
    <2>1. \A h \in Keys : ~(Total(traces)[h] # Absent /\ Total(counts)[h] = Absent)
      BY <1>4, TotalRows
    <2>2. Total(counts) = [h \in Keys |-> Total(counts)[h]]
      BY DEF Total
    <2> QED
      BY <2>1, <2>2 DEF Store!CountsRead
  <1>6. Store!Header = out.header
    <2>1. Store!IsHeader(out.header)
      <3>1. \A h \in Keys : Total(traces)[h] # Absent => LastPos[Total(traces)[h]] <= out.header
        BY <1>4, TotalRows
      <3>2. out.header = 0 \/ \E h \in Keys : Total(traces)[h] # Absent
                                             /\ LastPos[Total(traces)[h]] = out.header
        BY <1>4, TotalRows
      <3> QED
        BY <1>4, <3>1, <3>2 DEF Store!IsHeader
    <2>2. out.header \in Store!Positions
      BY <1>4 DEF Store!Positions, TablesAreKeyed
    <2>3. Store!IsHeader(Store!Header) /\ Store!Header \in Store!Positions
      BY <2>1, <2>2 DEF Store!Header
    <2>4. Store!Header \in Nat
      BY <2>3, StoreConstants DEF Store!Positions, Store!IsHeader
    <2> QED
      BY <1>4, <2>1, <2>3, <2>4, HeaderUnique
  <1>7. Total(out.rows) = [h \in Keys |-> IF Total(traces)[h] = Absent THEN Absent
                             ELSE [trace |-> Total(traces)[h], count |-> Total(counts)[h]]]
    <2>1. \A h \in Keys : h \in DOMAIN out.rows <=> Total(traces)[h] # Absent
      BY <1>4, TotalRows
    <2>2. \A h \in Keys : h \in DOMAIN out.rows =>
             out.rows[h] = [trace |-> Total(traces)[h], count |-> Total(counts)[h]]
      BY <1>4, TotalRows
    <2>3. Total(out.rows) = [h \in Keys |-> IF h \in DOMAIN out.rows THEN out.rows[h] ELSE Absent]
      BY DEF Total
    <2> QED
      BY <2>1, <2>2, <2>3
  <1>8. [complete |-> file.complete, header |-> file.header, rows |-> Total(file.rows)]'
            = Store!Contents
    <2>1. file'.complete = TRUE /\ file'.header = out.header /\ file'.rows = out.rows
      OBVIOUS
    <2>2. Total(file.rows)' = Total(out.rows)
      BY <2>1 DEF Total
    <2> QED
      BY <1>5, <1>6, <1>7, <2>1, <2>2 DEF Store!Contents
  <1>9. StorePc = "opened" /\ StorePc' = "idle"
    BY DEF StorePc
  <1>10. Store!SerializeTracesList
    BY <1>5, <1>8, <1>9, MappedSame DEF Store!SerializeTracesList
  <1> QED
    BY <1>1, <1>2, <1>10 DEF Store!Next

(***************************************************************************)
(* The theorems                                                            *)
(***************************************************************************)

\* The initial state has the invariant, and is one of TraceStore.
LEMMA InitHolds == Init => IInv /\ Store!Init
  <1> SUFFICES ASSUME Init PROVE IInv /\ Store!Init
    OBVIOUS
  <1> USE DEF Init
  <1>1. trace \in Calls /\ el \in Calls
    BY CallsAssumption
  <1>2. LoopInv
    BY LoopInitInv
  <1>3. HashInv
    <2>1. log \in Seq(Calls) /\ 1..Len(log) = {} /\ DOMAIN traces = {} /\ DOMAIN counts = {}
      OBVIOUS
    <2> QED
      BY <1>1, <2>1 DEF HashInv, TypeOK, HashOps, LoopIsOfSubject, TablesAreKeyed, GotIsCurrent,
                        OutIsSound, KeysOfLog
  <1>4. Store!Init
    <2>1. StorePc = "idle"
      BY DEF StorePc
    <2>2. Total(traces) = [h \in Keys |-> Absent] /\ Total(counts) = [h \in Keys |-> Absent]
          /\ Total(file.rows) = [h \in Keys |-> Absent]
      BY TotalOfNone
    <2>3. Seen = [h \in Keys |-> 0]
      <3>1. \A h \in Keys : {i \in 1..Len(log) : KeyOf[log[i]] = h} = {}
        OBVIOUS
      <3> QED
        BY <3>1, FS_EmptySet DEF Seen
    <2> QED
      BY <1>1, <2>1, <2>2, <2>3 DEF Store!Init, Store!EmptyFile
  <1> QED
    BY <1>2, <1>3, <1>4, StoreInstance DEF IInv

\* Every step keeps the invariant, and is a step of TraceStore or none.
LEMMA StepHolds == IInv /\ [Next]_vars => IInv' /\ [Store!Next]_(Store!vars)
  <1> SUFFICES ASSUME IInv, [Next]_vars PROVE IInv' /\ [Store!Next]_(Store!vars)
    OBVIOUS
  <1>1. LoopInv' /\ HashInv' /\ [Store!Next]_(Store!vars)
    <2>1. CASE DyntraceEntry
      BY <2>1, EntryStep
    <2>2. CASE \E p \in todo : Iterate(p)
      BY <2>2, IterateStep
    <2>3. CASE \E c \in Calls : DealWithCallTrace(c)
      BY <2>3, DealStep
    <2>4. CASE Find
      BY <2>4, FindStep
    <2>5. CASE At
      BY <2>5, AtStep
    <2>6. CASE Assign
      BY <2>6, AssignStep
    <2>7. CASE Insert
      BY <2>7, InsertStep
    <2>8. CASE Count
      BY <2>8, CountStep
    <2>9. CASE DyntraceExit
      BY <2>9, ExitStep
    <2>10. CASE \E h \in rest : NextRow(h)
      BY <2>10, NextRowStep
    <2>11. CASE ReadCount
      BY <2>11, ReadStep
    <2>12. CASE Close
      BY <2>12, CloseStep
    <2>13. CASE UNCHANGED vars
      <3> USE <2>13 DEF vars, tables, writing
      <3>1. LoopInv'
        BY LoopKept DEF IInv
      <3>2. HashInv'
        BY DEF IInv, HashInv, TypeOK, LoopIsOfSubject, Subject, TablesAreKeyed, GotIsCurrent,
               OutIsSound, Made, KeysOfLog, loopVars
      <3>3. StorePc' = StorePc
        BY DEF StorePc
      <3> QED
        BY <3>1, <3>2, <3>3, MappedSame DEF Store!vars
    <2> QED
      BY <2>1, <2>2, <2>3, <2>4, <2>5, <2>6, <2>7, <2>8, <2>9, <2>10, <2>11, <2>12, <2>13 DEF Next
  <1>2. Store!IInv'
    BY <1>1, StoreInstance DEF IInv
  <1> QED
    BY <1>1, <1>2 DEF IInv

\* The inductive invariant: loops are over the positions of what they hash, rows are under
\* the one hash of their traces, and TraceStore's invariant holds of the tables.
THEOREM HashedInvariance == Spec => []IInv
  BY InitHolds, StepHolds, PTL DEF Spec

\* The code implements TraceStore, which takes for granted that a call trace has one hash:
\* every operation on the tables finds what an earlier one put there, whatever orders the
\* loops of compute_hash came in.
THEOREM StoreImplemented == Spec => ImplementsStore
  <1>1. Init => Store!Init
    BY InitHolds
  <1>2. IInv /\ [Next]_vars => [Store!Next]_(Store!vars)
    BY StepHolds
  <1> QED
    BY <1>1, <1>2, HashedInvariance, PTL DEF Spec, ImplementsStore, Store!Spec

\* The comment in compute_hash is right: whatever order the unordered_map yields the
\* positions in, the hash of the types is the same.
THEOREM OrderDoesNotMatter == Spec => []HashIsProduct
  <1>1. IInv => HashIsProduct
    BY LoopProduct DEF IInv
  <1> QED
    BY <1>1, HashedInvariance, PTL

\* So nothing is lost between a call of deal_with_call_trace and the tables: without
\* SIGTERM, what TraceStore says of its counts is true of those of the code.
THEOREM HashedCountsExact == Spec => []Store!EveryTraceCounted
  <1>1. IInv => Store!EveryTraceCounted
    <2> SUFFICES ASSUME IInv, StorePc = "running", NEW h \in Keys, Seen[h] > 0
                 PROVE  Total(counts)[h] = Seen[h]
      BY DEF Store!EveryTraceCounted
    <2>1. Store!Accounted(h)
      BY DEF IInv, Store!IInv
    <2>2. Seen[h] \in Nat
      BY SeenBounded DEF IInv, HashInv, TypeOK
    <2> QED
      BY <2>1, <2>2 DEF Store!Accounted
  <1> QED
    BY <1>1, HashedInvariance, PTL

\* There is one row for each shape, as long as keys tell shapes apart: the tables never
\* have two rows for one call trace, nor lose one, for any other reason than a collision.
THEOREM OneRowForEachShape == Spec => [](KeysTellShapes => RowsAreShapes)
  <1>1. IInv => (KeysTellShapes => RowsAreShapes)
    <2> SUFFICES ASSUME IInv, KeysTellShapes, pc \in {"idle", "running"}
                 PROVE  Cardinality(DOMAIN traces)
                            = Cardinality({CallShape[log[i]] : i \in 1..Len(log)})
      BY DEF RowsAreShapes
    <2> DEFINE K == {KeyOf[log[i]] : i \in 1..Len(log)}
               S == {CallShape[log[i]] : i \in 1..Len(log)}
               at(k) == CHOOSE i \in 1..Len(log) : KeyOf[log[i]] = k
               f == [k \in K |-> CallShape[log[at(k)]]]
    <2>1. DOMAIN traces = K
      BY DEF IInv, HashInv, KeysOfLog
    <2>2. IsFiniteSet(1..Len(log))
      <3>1. Len(log) \in Nat
        BY DEF IInv, HashInv, TypeOK
      <3> QED
        BY <3>1, FS_Interval
    <2>3. IsFiniteSet(K)
      <3> DEFINE g == [i \in 1..Len(log) |-> KeyOf[log[i]]]
      <3>1. g \in Surjection(1..Len(log), K)
        BY DEF Surjection
      <3> QED
        BY <2>2, <3>1, FS_Surjection
    <2>4. \A k \in K : at(k) \in 1..Len(log) /\ KeyOf[log[at(k)]] = k
      OBVIOUS
    <2>5. f \in Bijection(K, S)
      <3>1. f \in [K -> S]
        BY <2>4
      <3>2. ASSUME NEW j \in K, NEW k \in K, f[j] = f[k] PROVE j = k
        BY <2>4, <3>2 DEF KeysTellShapes
      <3>3. ASSUME NEW s \in S PROVE \E k \in K : f[k] = s
        <4>1. PICK i \in 1..Len(log) : s = CallShape[log[i]]
          OBVIOUS
        <4>2. KeyOf[log[i]] \in K
          OBVIOUS
        <4>3. f[KeyOf[log[i]]] = s
          BY <2>4, <4>1, <4>2 DEF KeysTellShapes
        <4> QED
          BY <4>2, <4>3
      <3> QED
        BY <3>1, <3>2, <3>3 DEF Bijection, Injection, Surjection, IsInjective
    <2>6. Cardinality(K) = Cardinality(S)
      BY <2>3, <2>5, FS_Bijection DEF ExistsBijection
    <2> QED
      BY <2>1, <2>6
  <1> QED
    BY <1>1, HashedInvariance, PTL
=============================================================================
