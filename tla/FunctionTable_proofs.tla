------------------------ MODULE FunctionTable_proofs ------------------------
(***************************************************************************)
(* Proofs about FunctionTable, for any functions of R and any ids.         *)
(***************************************************************************)
EXTENDS FunctionTable, TLAPS

\* Two bodies with one id are the same function.
LEMMA SameId ==
    ASSUME NEW b \in Bodies, NEW c \in Bodies, Id[b] = Id[c]
    PROVE  SameFunction(b, c)
  BY IdAssumption DEF SameFunction

LEMMA SameTransitive ==
    ASSUME NEW b, NEW c, NEW d, SameFunction(b, c), SameFunction(d, c)
    PROVE  SameFunction(b, d)
  BY DEF SameFunction

\* What the tables and the stack point to is typed.
LEMMA Pointers ==
    ASSUME IInv
    PROVE  /\ \A op \in Ops : functions[op] # Null =>
                 /\ functions[op] \in Addr /\ objects[functions[op]] \in Bodies
                 /\ sexps[op] \in Bodies
           /\ \A id \in Ids : cache[id] # Null =>
                 cache[id] \in Addr /\ objects[cache[id]] \in Bodies
           /\ \A i \in 1..Len(calls) :
                 /\ calls[i] \in Call /\ objects[calls[i].function] \in Bodies
                 /\ sexps[calls[i].op] \in Bodies
           /\ Len(calls) \in Nat
  <1>1. /\ functions \in [Ops -> Addr \cup {Null}] /\ cache \in [Ids -> Addr \cup {Null}]
        /\ objects \in [Addr -> Bodies \cup {Free}] /\ sexps \in [Ops -> Bodies \cup {None}]
        /\ calls \in Seq(Call)
    BY DEF IInv, TypeOK
  <1>2. \A i \in 1..Len(calls) : calls[i] \in Call
    BY <1>1
  <1>3. \A c \in Call : c.op \in Ops /\ c.function \in Addr
    BY DEF Call
  <1>4. Len(calls) \in Nat
    BY <1>1
  <1>5. ASSUME NEW op \in Ops, functions[op] # Null
        PROVE  /\ functions[op] \in Addr /\ objects[functions[op]] \in Bodies
               /\ sexps[op] \in Bodies
    BY <1>1, <1>5 DEF IInv, NoDanglingFunction, FunctionsFollowR
  <1>6. ASSUME NEW id \in Ids, cache[id] # Null
        PROVE  cache[id] \in Addr /\ objects[cache[id]] \in Bodies
    BY <1>1, <1>6 DEF IInv, NoDanglingFunction
  <1>7. ASSUME NEW i \in 1..Len(calls)
        PROVE  objects[calls[i].function] \in Bodies /\ sexps[calls[i].op] \in Bodies
    <2>1. objects[calls[i].function] # Free /\ sexps[calls[i].op] # None
      BY DEF IInv, NoDanglingFunction, CallsKnowTheirFunction
    <2> QED
      BY <1>1, <1>2, <1>3, <2>1
  <1> QED
    BY <1>2, <1>4, <1>5, <1>6, <1>7

LEMMA TableInit == Init => IInv
  <1> SUFFICES ASSUME Init PROVE IInv
    OBVIOUS
  <1>1. /\ tracing = FALSE /\ calls = <<>> /\ \A op \in Ops : first[op] = Null
        /\ \A op \in Ops : functions[op] = Null
        /\ \A id \in Ids : cache[id] = Null
        /\ \A a \in Addr : objects[a] = Free
    BY DEF Init
  <1>2. calls \in Seq(Call) /\ 1..Len(calls) = {}
    BY <1>1
  <1>3. TypeOK
    BY <1>2 DEF Init, TypeOK
  <1>4. NoDanglingFunction /\ OneFunctionPerId
    BY <1>1, <1>2 DEF NoDanglingFunction, OneFunctionPerId
  <1>5. FunctionsFollowR /\ CallsKnowTheirFunction /\ CleanupFreesAll
    BY <1>1, <1>2 DEF FunctionsFollowR, CallsKnowTheirFunction, CleanupFreesAll
  <1> QED
    BY <1>3, <1>4, <1>5 DEF IInv

\* R allocates a function at an address that no entry and no call has.
LEMMA AllocateKeeps ==
    ASSUME IInv, NEW op \in Ops, NEW b \in Bodies, Allocate(op, b)
    PROVE  IInv'
  <1>1. /\ sexps[op] = None /\ sexps' = [sexps EXCEPT ![op] = b]
        /\ UNCHANGED <<tracing, functions, cache, objects, calls, first>>
    BY DEF Allocate
  <1>2. sexps \in [Ops -> Bodies \cup {None}]
    BY DEF IInv, TypeOK
  <1>3. \A o \in Ops : o # op => sexps'[o] = sexps[o]
    BY <1>1, <1>2
  <1>4. functions[op] = Null /\ \A i \in 1..Len(calls) : calls[i].op # op
    BY <1>1 DEF IInv, FunctionsFollowR, CallsKnowTheirFunction
  <1>5. TypeOK'
    BY <1>1, <1>2 DEF IInv, TypeOK
  <1>6. FunctionsFollowR'
    BY <1>1, <1>3, <1>4 DEF IInv, FunctionsFollowR
  <1>7. \A i \in 1..Len(calls) : sexps'[calls[i].op] = sexps[calls[i].op]
    BY <1>3, <1>4, Pointers DEF Call
  <1>8. CallsKnowTheirFunction'
    BY <1>1, <1>7 DEF IInv, CallsKnowTheirFunction
  <1> QED
    BY <1>1, <1>5, <1>6, <1>8
    DEF IInv, NoDanglingFunction, OneFunctionPerId, CleanupFreesAll

\* A function keeps its definition when its environment changes.
LEMMA SetEnvironmentKeeps ==
    ASSUME IInv, NEW op \in Ops, NEW b \in Bodies, SetEnvironment(op, b)
    PROVE  IInv'
  <1>1. /\ sexps[op] # None /\ SameFunction(b, sexps[op]) /\ sexps' = [sexps EXCEPT ![op] = b]
        /\ UNCHANGED <<tracing, functions, cache, objects, calls, first>>
    BY DEF SetEnvironment
  <1>2. sexps \in [Ops -> Bodies \cup {None}]
    BY DEF IInv, TypeOK
  <1>3. /\ \A o \in Ops : o # op => sexps'[o] = sexps[o]
        /\ sexps'[op] = b /\ b # None
    BY <1>1, <1>2, NothingAssumption
  <1>4. ASSUME NEW o \in Ops, NEW c, SameFunction(c, sexps[o]) PROVE SameFunction(c, sexps'[o])
    BY <1>1, <1>3, <1>4 DEF SameFunction
  <1>5. \A o \in Ops : sexps[o] # None => sexps'[o] # None
    BY <1>3
  <1>6. TypeOK'
    BY <1>1, <1>2 DEF IInv, TypeOK
  <1>7. FunctionsFollowR'
    <2> SUFFICES ASSUME NEW o \in Ops
                 PROVE  /\ functions[o] = Null <=> first[o] = Null
                        /\ functions[o] # Null =>
                              /\ sexps'[o] # None
                              /\ SameFunction(objects[functions[o]], sexps'[o])
                              /\ Id[objects[functions[o]]] = first[o]
      BY <1>1 DEF FunctionsFollowR, SameFunction
    <2>1. /\ functions[o] = Null <=> first[o] = Null
          /\ functions[o] # Null => /\ sexps[o] # None
                                    /\ SameFunction(objects[functions[o]], sexps[o])
                                    /\ Id[objects[functions[o]]] = first[o]
      BY DEF IInv, FunctionsFollowR
    <2> QED
      BY <1>4, <1>5, <2>1
  <1>8. CallsKnowTheirFunction'
    <2> SUFFICES ASSUME NEW i \in 1..Len(calls)
                 PROVE  /\ sexps'[calls[i].op] # None
                        /\ SameFunction(objects[calls[i].function], sexps'[calls[i].op])
                        /\ Id[objects[calls[i].function]] = first[calls[i].op]
      BY <1>1 DEF CallsKnowTheirFunction, SameFunction
    <2>1. calls[i].op \in Ops
      BY Pointers DEF Call
    <2>2. /\ sexps[calls[i].op] # None
          /\ SameFunction(objects[calls[i].function], sexps[calls[i].op])
          /\ Id[objects[calls[i].function]] = first[calls[i].op]
      BY DEF IInv, CallsKnowTheirFunction
    <2> QED
      BY <1>4, <1>5, <2>1, <2>2
  <1> QED
    BY <1>1, <1>6, <1>7, <1>8
    DEF IInv, NoDanglingFunction, OneFunctionPerId, CleanupFreesAll

\* What lookup_function returns is the function's own Function.
LEMMA LookupFinds ==
    ASSUME IInv, NEW op \in Ops, NEW a \in Addr, LookupFunction(op, a), sexps[op] # None
    PROVE  /\ sexps[op] \in Bodies
           /\ objects'[a] \in Bodies
           /\ SameFunction(objects'[a], sexps[op])
           /\ Id[objects'[a]] = IF first[op] = Null THEN Id[sexps[op]] ELSE first[op]
           /\ \A b \in Addr : objects[b] # Free => objects'[b] = objects[b]
           /\ \A b \in Addr : objects'[b] = objects[b]
                 \/ (b = a /\ objects'[b] = sexps[op] /\ cache'[Id[sexps[op]]] = a)
           /\ \A id \in Ids : cache'[id] = cache[id]
                 \/ (cache[id] = Null /\ cache'[id] = a /\ Id[objects'[a]] = id)
           /\ objects' \in [Addr -> Bodies \cup {Free}] /\ cache' \in [Ids -> Addr \cup {Null}]
  <1>1. /\ objects \in [Addr -> Bodies \cup {Free}] /\ cache \in [Ids -> Addr \cup {Null}]
        /\ sexps \in [Ops -> Bodies \cup {None}]
    BY DEF IInv, TypeOK
  <1>2. sexps[op] \in Bodies /\ Id[sexps[op]] \in Ids
    BY <1>1, IdAssumption
  <1>3. CASE functions[op] # Null
    <2>1. a = functions[op] /\ UNCHANGED <<cache, objects>>
      BY <1>3 DEF LookupFunction
    <2>2. /\ objects[a] \in Bodies /\ SameFunction(objects[a], sexps[op])
          /\ first[op] # Null /\ Id[objects[a]] = first[op]
      BY <1>3, <2>1, Pointers DEF IInv, FunctionsFollowR
    <2> QED
      BY <1>1, <1>2, <2>1, <2>2
  <1>4. CASE functions[op] = Null /\ cache[Id[sexps[op]]] # Null
    <2>1. a = cache[Id[sexps[op]]] /\ UNCHANGED <<cache, objects>>
      BY <1>4 DEF LookupFunction
    <2>2. objects[a] \in Bodies /\ Id[objects[a]] = Id[sexps[op]]
      BY <1>2, <1>4, <2>1, Pointers DEF IInv, OneFunctionPerId
    <2>3. SameFunction(objects[a], sexps[op])
      BY <1>2, <2>2, SameId
    <2>4. first[op] = Null
      BY <1>4 DEF IInv, FunctionsFollowR
    <2> QED
      BY <1>1, <1>2, <2>1, <2>2, <2>3, <2>4
  <1>5. CASE functions[op] = Null /\ cache[Id[sexps[op]]] = Null
    <2>1. /\ objects[a] = Free /\ objects' = [objects EXCEPT ![a] = sexps[op]]
          /\ cache' = [cache EXCEPT ![Id[sexps[op]]] = a]
      BY <1>5 DEF LookupFunction
    <2>2. objects'[a] = sexps[op] /\ \A b \in Addr : b # a => objects'[b] = objects[b]
      BY <1>1, <2>1
    <2>3. /\ cache'[Id[sexps[op]]] = a
          /\ \A id \in Ids : id # Id[sexps[op]] => cache'[id] = cache[id]
      BY <1>1, <1>2, <2>1
    <2>4. SameFunction(objects'[a], sexps[op])
      BY <1>2, <2>2, SameId
    <2>5. objects' \in [Addr -> Bodies \cup {Free}] /\ cache' \in [Ids -> Addr \cup {Null}]
      BY <1>1, <1>2, <2>1
    <2>6. first[op] = Null
      BY <1>5 DEF IInv, FunctionsFollowR
    <2> QED
      BY <1>2, <1>5, <2>1, <2>2, <2>3, <2>4, <2>5, <2>6
  <1> QED
    BY <1>3, <1>4, <1>5

\* A call is entered with the Function of what it runs.
LEMMA CallEntryKeeps ==
    ASSUME IInv, NEW op \in Ops, NEW a \in Addr, CallEntry(op, a)
    PROVE  IInv'
  <1>1. /\ tracing /\ sexps[op] # None /\ LookupFunction(op, a)
        /\ functions' = [functions EXCEPT ![op] = a]
        /\ calls' = Append(calls, [op |-> op, function |-> a])
        /\ first' = [first EXCEPT ![op] = IF @ = Null THEN Id[sexps[op]] ELSE @]
        /\ UNCHANGED <<tracing, sexps>>
    BY DEF CallEntry, LookupFunction, Remember
  <1>2. /\ functions \in [Ops -> Addr \cup {Null}] /\ calls \in Seq(Call)
        /\ objects \in [Addr -> Bodies \cup {Free}] /\ Free \notin Bodies
        /\ first \in [Ops -> Ids \cup {Null}]
    BY NothingAssumption DEF IInv, TypeOK
  <1>13. /\ first'[op] = Id[objects'[a]] /\ first'[op] # Null
         /\ first' \in [Ops -> Ids \cup {Null}]
         /\ \A o \in Ops : first[o] # Null => first'[o] = first[o]
         /\ \A o \in Ops : o # op => first'[o] = first[o]
    <2>1. sexps[op] \in Bodies /\ Id[sexps[op]] \in Ids /\ Id[sexps[op]] # Null
      BY <1>1, LookupFinds, IdAssumption, NothingAssumption
    <2>2. Id[objects'[a]] = IF first[op] = Null THEN Id[sexps[op]] ELSE first[op]
      BY <1>1, LookupFinds
    <2> QED
      BY <1>1, <1>2, <2>1, <2>2
  <1>3. functions'[op] = a /\ \A o \in Ops : o # op => functions'[o] = functions[o]
    BY <1>1, <1>2
  <1>4. TypeOK'
    <2>1. [op |-> op, function |-> a] \in Call
      BY DEF Call
    <2>2. calls' \in Seq(Call) /\ functions' \in [Ops -> Addr \cup {Null}]
      BY <1>1, <1>2, <2>1
    <2> QED
      BY <1>1, <1>13, <2>2, LookupFinds DEF IInv, TypeOK
  <1>5. ASSUME NEW i \in 1..Len(calls')
        PROVE  \/ i \in 1..Len(calls) /\ calls'[i] = calls[i]
               \/ calls'[i].op = op /\ calls'[i].function = a
    BY <1>1, <1>2
  <1>6. ASSUME NEW b \in Addr, objects[b] \in Bodies PROVE objects'[b] = objects[b]
    BY <1>1, <1>2, <1>6, LookupFinds
  <1>7. objects'[a] # Free
    BY <1>1, <1>2, LookupFinds
  <1>8. NoDanglingFunction'
    <2>1. ASSUME NEW o \in Ops, functions'[o] # Null PROVE objects'[functions'[o]] # Free
      <3>1. CASE o = op
        BY <1>3, <1>7, <3>1
      <3>2. CASE o # op
        BY <1>2, <1>3, <1>6, <2>1, <3>2, Pointers
      <3> QED
        BY <3>1, <3>2
    <2>2. ASSUME NEW id \in Ids, cache'[id] # Null PROVE objects'[cache'[id]] # Free
      <3>1. CASE cache'[id] = cache[id]
        BY <1>2, <1>6, <2>2, <3>1, Pointers
      <3>2. CASE cache'[id] # cache[id]
        BY <1>1, <1>7, <3>2, LookupFinds
      <3> QED
        BY <3>1, <3>2
    <2>3. ASSUME NEW i \in 1..Len(calls') PROVE objects'[calls'[i].function] # Free
      BY <1>2, <1>5, <1>6, <1>7, Pointers DEF Call
    <2> QED
      BY <2>1, <2>2, <2>3 DEF NoDanglingFunction
  <1>9. OneFunctionPerId'
    <2>1. ASSUME NEW b \in Addr, objects'[b] # Free PROVE cache'[Id[objects'[b]]] = b
      <3>1. CASE objects'[b] = objects[b]
        <4>1. objects[b] \in Bodies /\ Id[objects[b]] \in Ids
          BY <1>2, <2>1, <3>1, IdAssumption
        <4>2. cache[Id[objects[b]]] = b /\ b # Null
          BY <2>1, <3>1, NothingAssumption DEF IInv, OneFunctionPerId
        <4>3. cache'[Id[objects[b]]] = cache[Id[objects[b]]]
          BY <1>1, <4>1, <4>2, LookupFinds
        <4> QED
          BY <3>1, <4>2, <4>3
      <3>2. CASE objects'[b] # objects[b]
        BY <1>1, <3>2, LookupFinds
      <3> QED
        BY <3>1, <3>2
    <2>2. ASSUME NEW id \in Ids, cache'[id] # Null PROVE Id[objects'[cache'[id]]] = id
      <3>1. CASE cache'[id] = cache[id]
        <4>1. objects'[cache[id]] = objects[cache[id]]
          BY <1>6, <2>2, <3>1, Pointers
        <4> QED
          BY <2>2, <3>1, <4>1 DEF IInv, OneFunctionPerId
      <3>2. CASE cache'[id] # cache[id]
        BY <1>1, <3>2, LookupFinds
      <3> QED
        BY <3>1, <3>2
    <2> QED
      BY <2>1, <2>2 DEF OneFunctionPerId
  <1>10. FunctionsFollowR'
    <2>1. ASSUME NEW o \in Ops, functions'[o] # Null
          PROVE  /\ sexps[o] # None
                 /\ SameFunction(objects'[functions'[o]], sexps[o])
                 /\ Id[objects'[functions'[o]]] = first'[o]
      <3>1. CASE o = op
        BY <1>1, <1>3, <1>13, <3>1, LookupFinds
      <3>2. CASE o # op
        <4>1. functions[o] # Null /\ objects'[functions'[o]] = objects[functions[o]]
          BY <1>3, <1>6, <2>1, <3>2, Pointers
        <4> QED
          BY <1>13, <3>2, <4>1 DEF IInv, FunctionsFollowR
      <3> QED
        BY <3>1, <3>2
    <2>2. ASSUME NEW o \in Ops PROVE functions'[o] = Null <=> first'[o] = Null
      <3>1. CASE o = op
        BY <1>3, <1>13, <3>1, NothingAssumption
      <3>2. CASE o # op
        BY <1>3, <1>13, <3>2 DEF IInv, FunctionsFollowR
      <3> QED
        BY <3>1, <3>2
    <2> QED
      BY <1>1, <2>1, <2>2 DEF FunctionsFollowR, SameFunction
  <1>11. CallsKnowTheirFunction'
    <2>1. ASSUME NEW i \in 1..Len(calls')
          PROVE  /\ sexps[calls'[i].op] # None
                 /\ SameFunction(objects'[calls'[i].function], sexps[calls'[i].op])
                 /\ Id[objects'[calls'[i].function]] = first'[calls'[i].op]
      <3>1. CASE i \in 1..Len(calls) /\ calls'[i] = calls[i]
        <4>1. objects'[calls[i].function] = objects[calls[i].function]
          BY <1>6, <3>1, Pointers DEF Call
        <4>2. first'[calls[i].op] = first[calls[i].op]
          <5>1. objects[calls[i].function] \in Bodies /\ calls[i].op \in Ops
            BY <3>1, Pointers DEF Call
          <5>2. first[calls[i].op] # Null
            BY <3>1, <5>1, IdAssumption, NothingAssumption DEF IInv, CallsKnowTheirFunction
          <5> QED
            BY <1>13, <5>1, <5>2
        <4> QED
          BY <3>1, <4>1, <4>2 DEF IInv, CallsKnowTheirFunction
      <3>2. CASE calls'[i].op = op /\ calls'[i].function = a
        BY <1>1, <1>13, <3>2, LookupFinds
      <3> QED
        BY <1>5, <3>1, <3>2
    <2> QED
      BY <1>1, <2>1 DEF CallsKnowTheirFunction, SameFunction
  <1>12. CleanupFreesAll'
    BY <1>1 DEF CleanupFreesAll
  <1> QED
    BY <1>4, <1>8, <1>9, <1>10, <1>11, <1>12 DEF IInv

\* A call is left: the other calls and the tables stay.
LEMMA CallExitKeeps ==
    ASSUME IInv, CallExit
    PROVE  IInv'
  <1>1. /\ tracing /\ calls # <<>> /\ calls' = SubSeq(calls, 1, Len(calls) - 1)
        /\ UNCHANGED <<tracing, sexps, functions, cache, objects, first>>
    BY DEF CallExit
  <1>2. calls \in Seq(Call) /\ Len(calls) \in Nat \ {0}
    BY <1>1 DEF IInv, TypeOK
  <1>3. /\ calls' \in Seq(Call) /\ Len(calls') = Len(calls) - 1
        /\ \A i \in 1..Len(calls') : i \in 1..Len(calls) /\ calls'[i] = calls[i]
    <2> DEFINE n == Len(calls) - 1
    <2>1. n \in Nat /\ n <= Len(calls) /\ calls' = SubSeq(calls, 1, n)
      BY <1>1, <1>2
    <2> HIDE DEF n
    <2>2. \A i \in 1..n : i \in 1..Len(calls) /\ calls[i] \in Call
      BY <1>2, <2>1
    <2>3. calls' = [i \in 1..n |-> calls[i]]
      BY <1>2, <2>1, <2>2
    <2>4. calls' \in Seq(Call) /\ Len(calls') = n
      BY <2>1, <2>2, <2>3
    <2> QED
      BY <2>2, <2>3, <2>4 DEF n
  <1>4. TypeOK'
    BY <1>1, <1>3 DEF IInv, TypeOK
  <1>5. NoDanglingFunction' /\ CallsKnowTheirFunction'
    <2>1. NoDanglingFunction'
      BY <1>1, <1>3 DEF IInv, NoDanglingFunction
    <2>2. CallsKnowTheirFunction'
      BY <1>1, <1>3 DEF IInv, CallsKnowTheirFunction, SameFunction
    <2> QED
      BY <2>1, <2>2
  <1>6. OneFunctionPerId' /\ FunctionsFollowR' /\ CleanupFreesAll'
    BY <1>1 DEF IInv, OneFunctionPerId, FunctionsFollowR, CleanupFreesAll, SameFunction
  <1> QED
    BY <1>4, <1>5, <1>6 DEF IInv

\* R collects a function: its entry is removed, and no call runs it.
LEMMA CollectKeeps ==
    ASSUME IInv, NEW op \in Ops, Collect(op)
    PROVE  IInv'
  <1>1. /\ sexps' = [sexps EXCEPT ![op] = None] /\ ~Running(op)
        /\ functions' = IF tracing THEN [functions EXCEPT ![op] = Null] ELSE functions
        /\ first' = [first EXCEPT ![op] = Null]
        /\ UNCHANGED <<tracing, cache, objects, calls>>
    BY DEF Collect, RemoveFunction
  <1>2. /\ sexps \in [Ops -> Bodies \cup {None}] /\ functions \in [Ops -> Addr \cup {Null}]
        /\ first \in [Ops -> Ids \cup {Null}]
    BY DEF IInv, TypeOK
  <1>3. /\ \A o \in Ops : o # op =>
              sexps'[o] = sexps[o] /\ functions'[o] = functions[o] /\ first'[o] = first[o]
        /\ first'[op] = Null
    BY <1>1, <1>2
  <1>4. functions'[op] = Null
    <2>1. CASE tracing
      BY <1>1, <1>2, <2>1
    <2>2. CASE ~tracing
      BY <1>1, <2>2 DEF IInv, CleanupFreesAll
    <2> QED
      BY <2>1, <2>2
  <1>5. \A o \in Ops : functions'[o] # Null =>
           functions'[o] = functions[o] /\ sexps'[o] = sexps[o] /\ first'[o] = first[o]
    BY <1>3, <1>4
  <1>6. TypeOK'
    <2>1. functions' \in [Ops -> Addr \cup {Null}]
      <3>1. CASE tracing
        BY <1>1, <1>2, <3>1
      <3>2. CASE ~tracing
        BY <1>1, <1>2, <3>2
      <3> QED
        BY <3>1, <3>2
    <2> QED
      BY <1>1, <1>2, <2>1 DEF IInv, TypeOK
  <1>7. NoDanglingFunction' /\ OneFunctionPerId'
    BY <1>1, <1>5 DEF IInv, NoDanglingFunction, OneFunctionPerId
  <1>8. FunctionsFollowR'
    BY <1>1, <1>3, <1>4, <1>5 DEF IInv, FunctionsFollowR, SameFunction
  <1>9. \A i \in 1..Len(calls) :
           sexps'[calls[i].op] = sexps[calls[i].op] /\ first'[calls[i].op] = first[calls[i].op]
    BY <1>1, <1>3, Pointers DEF Running, Call
  <1>10. CallsKnowTheirFunction'
    BY <1>1, <1>9 DEF IInv, CallsKnowTheirFunction, SameFunction
  <1>11. CleanupFreesAll'
    BY <1>1, <1>3, <1>4 DEF IInv, CleanupFreesAll
  <1> QED
    BY <1>6, <1>7, <1>8, <1>10, <1>11 DEF IInv

\* cleanup reaches every Function through function_cache_.
LEMMA DyntraceExitKeeps ==
    ASSUME IInv, DyntraceExit
    PROVE  IInv'
  <1>1. /\ calls' = <<>> /\ tracing' = FALSE /\ UNCHANGED sexps
        /\ objects' = [a \in Addr |-> IF \E id \in Ids : cache[id] = a THEN Free ELSE objects[a]]
        /\ functions' = [op \in Ops |-> Null]
        /\ cache' = [id \in Ids |-> Null]
        /\ first' = [op \in Ops |-> Null]
    BY DEF DyntraceExit
  <1>2. objects \in [Addr -> Bodies \cup {Free}]
    BY DEF IInv, TypeOK
  <1>3. ASSUME NEW a \in Addr PROVE objects'[a] = Free
    <2>1. CASE objects[a] = Free
      BY <1>1, <2>1
    <2>2. CASE objects[a] # Free
      <3>1. Id[objects[a]] \in Ids /\ cache[Id[objects[a]]] = a
        BY <1>2, <2>2, IdAssumption DEF IInv, OneFunctionPerId
      <3> QED
        BY <1>1, <3>1
    <2> QED
      BY <2>1, <2>2
  <1>4. calls' \in Seq(Call) /\ 1..Len(calls') = {}
    BY <1>1
  <1>5. /\ \A op \in Ops : functions'[op] = Null
        /\ \A id \in Ids : cache'[id] = Null
        /\ \A op \in Ops : first'[op] = Null
    BY <1>1
  <1>6. TypeOK'
    BY <1>1, <1>2, <1>4 DEF IInv, TypeOK
  <1>7. NoDanglingFunction' /\ OneFunctionPerId'
    BY <1>3, <1>4, <1>5 DEF NoDanglingFunction, OneFunctionPerId
  <1>8. FunctionsFollowR' /\ CallsKnowTheirFunction' /\ CleanupFreesAll'
    BY <1>1, <1>3, <1>4, <1>5 DEF FunctionsFollowR, CallsKnowTheirFunction, CleanupFreesAll
  <1> QED
    BY <1>6, <1>7, <1>8 DEF IInv

LEMMA StutterKeeps ==
    ASSUME IInv, DyntraceEntry \/ UNCHANGED vars
    PROVE  IInv'
  <1>1. /\ UNCHANGED <<sexps, functions, cache, objects, calls, first>>
        /\ tracing' \in BOOLEAN /\ (tracing' = FALSE => tracing = FALSE)
    BY DEF DyntraceEntry, vars, IInv, TypeOK
  <1>2. TypeOK'
    BY <1>1 DEF IInv, TypeOK
  <1>3. NoDanglingFunction' /\ OneFunctionPerId'
    BY <1>1 DEF IInv, NoDanglingFunction, OneFunctionPerId
  <1>4. FunctionsFollowR' /\ CallsKnowTheirFunction'
    BY <1>1 DEF IInv, FunctionsFollowR, CallsKnowTheirFunction, SameFunction
  <1>5. CleanupFreesAll'
    BY <1>1 DEF IInv, CleanupFreesAll, TypeOK
  <1> QED
    BY <1>2, <1>3, <1>4, <1>5 DEF IInv

\* The tables, the heap and the stack agree at all times, however R reuses its addresses.
THEOREM TableInvariance == Spec => []IInv
  <1>1. IInv /\ [Next]_vars => IInv'
    BY AllocateKeeps, SetEnvironmentKeeps, CallEntryKeeps, CallExitKeeps, CollectKeeps,
       DyntraceExitKeeps, StutterKeeps DEF Next
  <1> QED
    BY <1>1, TableInit, PTL DEF Spec

\* No table and no call points to a deleted Function.
THEOREM FunctionsLive == Spec => []NoDanglingFunction
  <1>1. IInv => NoDanglingFunction
    BY DEF IInv
  <1> QED
    BY <1>1, TableInvariance, PTL

\* An address that R reused never has the Function of what was there before, and a closure
\* that `environment<-' changed keeps that of its first call.
THEOREM NoStaleFunction == Spec => []FunctionsFollowR
  <1>1. IInv => FunctionsFollowR
    BY DEF IInv
  <1> QED
    BY <1>1, TableInvariance, PTL

\* A call's Function has the type and definition of what runs (TracerState takes the type
\* of a context of its stack from there) and the id of the function's first call.
THEOREM FunctionOfCall == Spec => []CallsKnowTheirFunction
  <1>1. IInv => CallsKnowTheirFunction
    BY DEF IInv
  <1> QED
    BY <1>1, TableInvariance, PTL

\* There is one Function for each id, and cleanup deletes them all.
THEOREM NoFunctionLeaks == Spec => [](OneFunctionPerId /\ CleanupFreesAll)
  <1>1. IInv => OneFunctionPerId /\ CleanupFreesAll
    BY DEF IInv
  <1> QED
    BY <1>1, TableInvariance, PTL

\* There is one Function for each id, and function_cache_ has it.
THEOREM OneFunction == Spec => []OneFunctionPerId
  <1>1. IInv => OneFunctionPerId
    BY DEF IInv
  <1> QED
    BY <1>1, TableInvariance, PTL

\* Every variable of the function table keeps its type.
THEOREM TableTypeCorrect == Spec => []TypeOK
  <1>1. IInv => TypeOK
    BY DEF IInv
  <1> QED
    BY <1>1, TableInvariance, PTL

=============================================================================
