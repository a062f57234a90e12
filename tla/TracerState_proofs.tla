------------------------- MODULE TracerState_proofs -------------------------
(***************************************************************************)
(* Proofs about TracerState, for every value of its constants.             *)
(***************************************************************************)
EXTENDS TracerState, SequenceTheorems, TLAPS

(***************************************************************************)
(* Stacks as sequences                                                     *)
(***************************************************************************)

\* pop leaves the contexts below the top where they were.
LEMMA BelowProperties ==
    ASSUME NEW S, NEW stk \in Seq(S), stk # <<>>
    PROVE  /\ Below(stk) \in Seq(S)
           /\ Len(stk) \in Nat \ {0}
           /\ Len(Below(stk)) = Len(stk) - 1
           /\ \A i \in 1..(Len(stk) - 1) : Below(stk)[i] = stk[i]
           /\ Top(stk) \in S
  <1>1. Len(stk) \in Nat \ {0} /\ \A i \in 1..Len(stk) : stk[i] \in S
    BY EmptySeq, ElementOfSeq
  <1> DEFINE n == Len(stk) - 1
             sub == SubSeq(stk, 1, n)
  <1>2. Len(stk) \in Nat /\ n \in Nat /\ \A i \in 1..n : stk[i] \in S
    BY <1>1
  <1>3. /\ sub \in Seq(S)
        /\ Len(sub) = IF 1 <= n THEN n - 1 + 1 ELSE 0
        /\ \A i \in 1..(n - 1 + 1) : sub[i] = stk[1 + i - 1]
    BY <1>2, SubSeqProperties
  <1>4. Below(stk) = sub
    BY DEF Below
  <1> HIDE DEF sub, n
  <1>5. Len(sub) = n
    BY <1>2, <1>3
  <1>6. ASSUME NEW i \in 1..n PROVE sub[i] = stk[i]
    <2>1. i \in 1..(n - 1 + 1) /\ 1 + i - 1 = i
      BY <1>2
    <2> QED
      BY <1>3, <2>1
  <1> QED
    BY <1>1, <1>3, <1>4, <1>5, <1>6 DEF Top, n

\* push puts the new context above the others.
LEMMA PushProperties ==
    ASSUME NEW S, NEW stk \in Seq(S), NEW f \in S
    PROVE  /\ Append(stk, f) \in Seq(S)
           /\ Len(Append(stk, f)) = Len(stk) + 1
           /\ \A i \in 1..Len(stk) : Append(stk, f)[i] = stk[i]
           /\ Append(stk, f)[Len(stk) + 1] = f
  OBVIOUS

\* unwind finds a context that is on the stack once.
LEMMA UnwindFinds ==
    ASSUME NEW S, NEW stk \in Seq(S), NEW h \in 1..Len(stk),
           stk[h].type = "context",
           \A i \in 1..Len(stk) : stk[i].type = "context" /\ stk[i].ref = stk[h].ref => i = h
    PROVE  UnwindPoint(stk, stk[h].ref) = h
  <1> DEFINE Found(k) == /\ k = 0 \/ (stk[k].type = "context" /\ stk[k].ref = stk[h].ref)
                         /\ \A i \in (k + 1)..Len(stk) :
                               ~(stk[i].type = "context" /\ stk[i].ref = stk[h].ref)
  <1>1. h \in 0..Len(stk) /\ Found(h)
    OBVIOUS
  <1>2. \A k \in 0..Len(stk) : Found(k) => k = h
    OBVIOUS
  <1> QED
    BY <1>1, <1>2 DEF UnwindPoint

(***************************************************************************)
(* Who holds a DenotedValue                                                *)
(***************************************************************************)

\* The types of what the stack and the heap are made of.
LEMMA Typing ==
    ASSUME TypeOK
    PROVE  /\ Len(stack) \in Nat /\ (stack # <<>> => Len(stack) \in Nat \ {0})
           /\ \A h \in 1..Len(stack) :
                 /\ stack[h] \in Context
                 /\ stack[h].args \in Seq(Argument) /\ Len(stack[h].args) \in Nat
                 /\ \A j \in 1..Len(stack[h].args) :
                       /\ stack[h].args[j] \in Argument
                       /\ stack[h].args[j].dv \in Addr
           /\ \A a \in Addr : dvs[a] # Free =>
                 /\ dvs[a] \in DenotedValue
                 /\ dvs[a].active \in BOOLEAN
                 /\ dvs[a].arguments \in Seq(ArgumentRef) /\ Len(dvs[a].arguments) \in Nat
                 /\ \A k \in 1..Len(dvs[a].arguments) :
                       dvs[a].arguments[k].call \in Nat /\ dvs[a].arguments[k].arg \in Nat
  <1>1. Len(stack) \in Nat /\ (stack # <<>> => Len(stack) \in Nat \ {0})
    BY EmptySeq DEF TypeOK
  <1>2. ASSUME NEW h \in 1..Len(stack)
        PROVE  /\ stack[h] \in Context
               /\ stack[h].args \in Seq(Argument) /\ Len(stack[h].args) \in Nat
    <2>1. stack \in Seq(Context)
      BY DEF TypeOK
    <2>2. stack[h] \in Context
      BY <2>1, ElementOfSeq
    <2> QED
      BY <2>2 DEF Context
  <1>3. ASSUME NEW h \in 1..Len(stack), NEW j \in 1..Len(stack[h].args)
        PROVE  stack[h].args[j] \in Argument /\ stack[h].args[j].dv \in Addr
    <2>1. stack[h].args[j] \in Argument
      BY <1>2, ElementOfSeq
    <2> QED
      BY <2>1 DEF Argument
  <1>4. ASSUME NEW a \in Addr, dvs[a] # Free
        PROVE  /\ dvs[a] \in DenotedValue
               /\ dvs[a].active \in BOOLEAN
               /\ dvs[a].arguments \in Seq(ArgumentRef) /\ Len(dvs[a].arguments) \in Nat
    BY <1>4 DEF TypeOK, DenotedValue
  <1>5. ASSUME NEW a \in Addr, dvs[a] # Free, NEW k \in 1..Len(dvs[a].arguments)
        PROVE  dvs[a].arguments[k].call \in Nat /\ dvs[a].arguments[k].arg \in Nat
    <2>1. dvs[a].arguments[k] \in ArgumentRef
      BY <1>4, <1>5, ElementOfSeq
    <2> QED
      BY <2>1 DEF ArgumentRef
  <1> QED
    BY <1>1, <1>2, <1>3, <1>4, <1>5

\* A value that a step neither creates, nor deletes, nor binds, nor releases.
Untouched(a) ==
    IF dvs[a] = Free THEN dvs'[a] = Free
    ELSE /\ dvs'[a] # Free
         /\ dvs'[a].object = dvs[a].object
         /\ dvs'[a].active = dvs[a].active
         /\ dvs'[a].arguments = dvs[a].arguments

HeldAt(h) == {stack[h].args[j].dv : j \in 1..Len(stack[h].args)}

\* destroy_call's effect on a value that the call holds.
Released(a) ==
    IF dvs[a].active
    THEN /\ dvs'[a] # Free
         /\ dvs'[a].object = dvs[a].object
         /\ dvs'[a].active
         /\ dvs'[a].arguments = Below(dvs[a].arguments)
    ELSE dvs'[a] = Free

\* The entry of the top call's argument is the last one of its value's argument stack.
LEMMA TopArgumentIsLast ==
    ASSUME TypeOK, NoDanglingValue, NoDanglingArgument, stack # <<>>,
           NEW j \in 1..Len(Top(stack).args)
    PROVE  LET a == Top(stack).args[j].dv
           IN  /\ Allocated(a)
               /\ dvs[a].arguments \in Seq(ArgumentRef)
               /\ dvs[a].arguments # <<>>
               /\ dvs[a].arguments[Len(dvs[a].arguments)] = [call |-> Len(stack), arg |-> j]
               /\ \A k \in 1..(Len(dvs[a].arguments) - 1) :
                     dvs[a].arguments[k].call < Len(stack)
  <1> DEFINE n == Len(stack)
             a == stack[n].args[j].dv
             args == dvs[a].arguments
  <1>1. n \in 1..Len(stack) /\ n \in Nat /\ Top(stack) = stack[n]
    BY Typing DEF Top
  <1>2. Allocated(a) /\ a \in Addr /\ dvs[a] # Free
    BY <1>1 DEF NoDanglingValue, Allocated
  <1>3. args \in Seq(ArgumentRef) /\ Len(args) \in Nat
    BY <1>2, Typing
  <1>4. PICK k \in 1..Len(args) : args[k] = [call |-> n, arg |-> j]
    BY <1>1 DEF NoDanglingValue
  <1>5. \A l \in 1..Len(args) : args[l].call \in 1..n
    BY <1>2 DEF NoDanglingArgument
  <1>6. \A l, m \in 1..Len(args) : l < m => args[l].call < args[m].call
    BY <1>2 DEF NoDanglingArgument
  <1>7. args[k].call = n
    BY <1>4
  <1>8. k = Len(args)
    <2>1. SUFFICES ASSUME k < Len(args) PROVE FALSE
      BY <1>3, <1>4
    <2>2. Len(args) \in 1..Len(args) /\ k < Len(args)
      BY <1>3, <1>4, <2>1
    <2>3. n < args[Len(args)].call
      BY <1>6, <1>7, <2>2
    <2>4. args[Len(args)].call \in 1..n
      BY <1>5, <2>2
    <2> HIDE DEF args, n
    <2> QED
      BY <1>1, <2>3, <2>4
  <1>9. ASSUME NEW l \in 1..(Len(args) - 1) PROVE args[l].call < n
    <2>1. l \in 1..Len(args) /\ l < k
      BY <1>3, <1>8
    <2>2. args[l].call < args[k].call
      BY <1>6, <2>1
    <2> QED
      BY <1>7, <2>2
  <1>10. args # <<>>
    BY <1>3, <1>4
  <1> QED
    BY <1>1, <1>2, <1>3, <1>4, <1>8, <1>9, <1>10

\* Popping a context and releasing what it holds keeps every holder's claim: this is
\* destroy_call (and, for a context that holds nothing, any other exit).
LEMMA ReleaseTop ==
    ASSUME TypeOK, TypeOK', Holding, stack # <<>>,
           Len(stack') = Len(stack) - 1,
           \A h \in 1..(Len(stack) - 1) : /\ stack'[h].args = stack[h].args
                                          /\ stack'[h].type = stack[h].type
                                          /\ stack'[h].ref = stack[h].ref,
           promises' = promises,
           \A a \in Addr : IF a \in HeldAt(Len(stack)) THEN Released(a) ELSE Untouched(a)
    PROVE  Holding'
  <1> DEFINE n == Len(stack)
  <1>n. n \in Nat \ {0} /\ n \in 1..Len(stack) /\ Top(stack) = stack[n]
    BY Typing DEF Top
  <1>h. ASSUME NEW a \in HeldAt(n)
        PROVE  /\ a \in Addr /\ dvs[a] # Free
               /\ dvs[a].arguments \in Seq(ArgumentRef)
               /\ Len(Below(dvs[a].arguments)) = Len(dvs[a].arguments) - 1
               /\ dvs[a].arguments[Len(dvs[a].arguments)].call = n
               /\ \A k \in 1..(Len(dvs[a].arguments) - 1) :
                     /\ dvs[a].arguments[k].call < n
                     /\ Below(dvs[a].arguments)[k] = dvs[a].arguments[k]
    <2>1. PICK j \in 1..Len(stack[n].args) : a = stack[n].args[j].dv
      BY DEF HeldAt
    <2>2. j \in 1..Len(Top(stack).args) /\ a = Top(stack).args[j].dv
      BY <1>n, <2>1
    <2>3. /\ Allocated(a)
          /\ dvs[a].arguments \in Seq(ArgumentRef)
          /\ dvs[a].arguments # <<>>
          /\ dvs[a].arguments[Len(dvs[a].arguments)] = [call |-> n, arg |-> j]
          /\ \A k \in 1..(Len(dvs[a].arguments) - 1) : dvs[a].arguments[k].call < n
      BY <2>2, TopArgumentIsLast DEF Holding
    <2>4. /\ Len(Below(dvs[a].arguments)) = Len(dvs[a].arguments) - 1
          /\ \A k \in 1..(Len(dvs[a].arguments) - 1) : Below(dvs[a].arguments)[k] = dvs[a].arguments[k]
      BY <2>3, BelowProperties
    <2> QED
      BY <2>3, <2>4 DEF Allocated
  <1>1. MapMatchesActive'
    BY <1>h, Typing DEF Holding, MapMatchesActive, Allocated, Released, Untouched
  <1>2. NoDanglingValue'
    <2>1. SUFFICES ASSUME NEW h \in 1..(n - 1), NEW j \in 1..Len(stack[h].args)
                   PROVE  LET a == stack[h].args[j].dv
                          IN  /\ a \in Addr /\ dvs'[a] # Free
                              /\ \E k \in 1..Len(dvs'[a].arguments) :
                                    dvs'[a].arguments[k] = [call |-> h, arg |-> j]
      <3>1. 1..Len(stack') = 1..(n - 1)
        OBVIOUS
      <3>2. \A h \in 1..(n - 1) : stack'[h].args = stack[h].args
        OBVIOUS
      <3> HIDE DEF n
      <3>3. ASSUME NEW h \in 1..Len(stack'), NEW j \in 1..Len(stack'[h].args)
            PROVE  /\ stack'[h].args[j].dv \in Addr /\ dvs'[stack'[h].args[j].dv] # Free
                   /\ \E k \in 1..Len(dvs'[stack'[h].args[j].dv].arguments) :
                         dvs'[stack'[h].args[j].dv].arguments[k] = [call |-> h, arg |-> j]
        <4>1. h \in 1..(n - 1) /\ stack'[h].args = stack[h].args
          BY <3>1, <3>2
        <4> DEFINE b == stack[h].args[j].dv
        <4>2. j \in 1..Len(stack[h].args) /\ stack'[h].args[j].dv = b
          BY <4>1
        <4>3. /\ b \in Addr /\ dvs'[b] # Free
              /\ \E k \in 1..Len(dvs'[b].arguments) :
                    dvs'[b].arguments[k] = [call |-> h, arg |-> j]
          BY <2>1, <4>1, <4>2
        <4> HIDE DEF b
        <4> QED
          BY <4>2, <4>3
      <3> QED
        BY <3>3 DEF NoDanglingValue, Allocated
    <2> DEFINE a == stack[h].args[j].dv
               args == dvs[a].arguments
    <2>2. h \in 1..Len(stack) /\ h \in Nat /\ h < n
      BY <1>n
    <2>3. Allocated(a) /\ \E k \in 1..Len(args) : args[k] = [call |-> h, arg |-> j]
      BY <2>2 DEF Holding, NoDanglingValue
    <2>4. PICK k \in 1..Len(args) : args[k] = [call |-> h, arg |-> j]
      BY <2>3
    <2>5. args[k].call = h
      BY <2>4
    <2>6. CASE a \in HeldAt(n)
      <3>1. /\ Len(Below(args)) = Len(args) - 1 /\ Len(args) \in Nat
            /\ args[Len(args)].call = n
            /\ \A l \in 1..(Len(args) - 1) : Below(args)[l] = args[l]
        BY <1>h, <2>6, Typing
      <3>2. k \in 1..(Len(args) - 1)
        <4>1. ASSUME k = Len(args) PROVE FALSE
          <5> HIDE DEF args, n
          <5>1. args[k].call = n
            BY <3>1, <4>1
          <5> QED
            BY <2>2, <2>5, <5>1
        <4>2. k \in 1..Len(args) /\ Len(args) \in Nat
          BY <3>1
        <4> HIDE DEF args
        <4> QED
          BY <4>1, <4>2
      <3>3. dvs[a].active
        <4>1. SUFFICES ASSUME ~dvs[a].active PROVE FALSE
          OBVIOUS
        <4>2. Len(args) = 1
          BY <2>3, <4>1 DEF Holding, DeadHasOneHolder, Allocated
        <4> QED
          BY <3>2, <4>2
      <3>4. dvs'[a] # Free /\ dvs'[a].arguments = Below(args)
        BY <2>3, <2>6, <3>3 DEF Released, Allocated
      <3> QED
        BY <2>3, <2>4, <3>1, <3>2, <3>4 DEF Allocated
    <2>7. CASE a \notin HeldAt(n)
      BY <2>3, <2>4, <2>7 DEF Untouched, Allocated
    <2> QED
      BY <2>6, <2>7
  <1>3. NoDanglingArgument'
    <2>1. SUFFICES ASSUME NEW a \in Addr, dvs'[a] # Free
                   PROVE  LET args == dvs'[a].arguments
                          IN  /\ \A k \in 1..Len(args) :
                                    /\ args[k].call \in 1..Len(stack')
                                    /\ args[k].arg \in 1..Len(stack'[args[k].call].args)
                                    /\ stack'[args[k].call].args[args[k].arg].dv = a
                              /\ \A k, l \in 1..Len(args) : k < l => args[k].call < args[l].call
      BY DEF NoDanglingArgument, Allocated
    <2> DEFINE args == dvs[a].arguments
               IsHolder(e) == /\ e.call \in 1..n
                              /\ e.arg \in 1..Len(stack[e.call].args)
                              /\ stack[e.call].args[e.arg].dv = a
    <2>2. dvs[a] # Free
      BY <1>h, <2>1 DEF Untouched
    <2>3. /\ \A k \in 1..Len(args) : IsHolder(args[k])
          /\ \A k, l \in 1..Len(args) : k < l => args[k].call < args[l].call
      BY <2>2 DEF Holding, NoDanglingArgument, Allocated
    <2>4. CASE a \in HeldAt(n)
      <3>1. /\ dvs'[a].arguments = Below(args)
            /\ Len(Below(args)) = Len(args) - 1 /\ Len(args) \in Nat
        BY <1>h, <2>1, <2>2, <2>4, Typing DEF Released
      <3>2. \A l \in 1..(Len(args) - 1) : Below(args)[l] = args[l] /\ args[l].call < n
        BY <1>h, <2>4
      <3>3. ASSUME NEW l \in 1..(Len(args) - 1)
            PROVE  l \in 1..Len(args) /\ args[l].call \in 1..(n - 1)
        <4>1. l \in 1..Len(args)
          BY <3>1
        <4>2. args[l].call \in 1..n /\ args[l].call < n
          BY <2>3, <3>2, <4>1
        <4> HIDE DEF args, n
        <4> QED
          BY <1>n, <4>1, <4>2
      <3>4. \A l \in 1..(Len(args) - 1) : IsHolder(args[l]) /\ args[l].call \in 1..Len(stack')
        BY <2>3, <3>3
      <3>5. \A k, l \in 1..(Len(args) - 1) : k < l => args[k].call < args[l].call
        BY <2>3, <3>3
      <3>6. /\ Len(dvs'[a].arguments) = Len(args) - 1
            /\ \A l \in 1..(Len(args) - 1) : dvs'[a].arguments[l] = args[l]
        BY <3>1, <3>2
      <3>7. \A l \in 1..(Len(args) - 1) : stack'[args[l].call].args = stack[args[l].call].args
        BY <3>3
      <3>8. ASSUME NEW k \in 1..Len(dvs'[a].arguments)
            PROVE  /\ k \in 1..(Len(args) - 1)
                   /\ dvs'[a].arguments[k].call \in 1..Len(stack')
                   /\ dvs'[a].arguments[k].arg
                         \in 1..Len(stack'[dvs'[a].arguments[k].call].args)
                   /\ stack'[dvs'[a].arguments[k].call].args[dvs'[a].arguments[k].arg].dv = a
        <4>1. k \in 1..(Len(args) - 1) /\ dvs'[a].arguments[k] = args[k]
          BY <3>6, <3>8
        <4>2. IsHolder(args[k]) /\ args[k].call \in 1..Len(stack')
          BY <3>4, <4>1
        <4>3. stack'[args[k].call].args = stack[args[k].call].args
          BY <3>7, <4>1
        <4> QED
          BY <4>1, <4>2, <4>3
      <3>9. \A k, l \in 1..Len(dvs'[a].arguments) :
               k < l => dvs'[a].arguments[k].call < dvs'[a].arguments[l].call
        BY <3>5, <3>6, <3>8
      <3> QED
        BY <3>8, <3>9
    <2>5. CASE a \notin HeldAt(n)
      <3>1. dvs'[a].arguments = args
        BY <2>2, <2>5 DEF Untouched
      <3>2. \A k \in 1..Len(args) : args[k].call # n
        BY <2>3, <2>5 DEF HeldAt
      <3>3. ASSUME NEW k \in 1..Len(args) PROVE args[k].call \in 1..(n - 1)
        <4>1. args[k].call \in 1..n /\ args[k].call # n
          BY <2>3, <3>2
        <4> HIDE DEF args, n
        <4> QED
          BY <1>n, <4>1
      <3> QED
        BY <2>3, <3>1, <3>3
    <2> QED
      BY <2>4, <2>5
  <1>4. ForcedStaysAlive'
    <2>1. SUFFICES ASSUME NEW h \in 1..(n - 1), stack[h].type = "promise"
                   PROVE  Allocated(stack[h].ref)' /\ dvs'[stack[h].ref].active
      BY <1>n DEF ForcedStaysAlive
    <2>2. Allocated(stack[h].ref) /\ dvs[stack[h].ref].active
      BY <1>n, <2>1 DEF Holding, ForcedStaysAlive
    <2> QED
      BY <2>2 DEF Allocated, Released, Untouched
  <1>5. DeadHasOneHolder'
    BY <1>h, Typing DEF Holding, DeadHasOneHolder, Allocated, Released, Untouched
  <1> QED
    BY <1>1, <1>2, <1>3, <1>4, <1>5 DEF Holding

\* Pushing a context that holds no Argument changes no call's claim, even if a promise
\* is entered in the map for it.
LEMMA PushNoArguments ==
    ASSUME TypeOK, Holding, NEW f \in Context, f.args = <<>>,
           stack' = Append(stack, f),
           \A a \in Addr : /\ dvs[a] # Free => dvs'[a] = dvs[a]
                           /\ dvs[a] = Free /\ dvs'[a] # Free =>
                                 dvs'[a].active /\ dvs'[a].arguments = <<>>
    PROVE  NoDanglingValue' /\ NoDanglingArgument' /\ DeadHasOneHolder'
  <1> DEFINE n == Len(stack)
  <1>1. /\ n \in Nat /\ Len(stack') = n + 1 /\ stack'[n + 1] = f
        /\ \A h \in 1..n : stack'[h] = stack[h]
    BY PushProperties DEF TypeOK
  <1>2. Len(f.args) = 0
    BY EmptySeq
  <1>3. DeadHasOneHolder'
    BY DEF Holding, DeadHasOneHolder, Allocated
  <1>4. NoDanglingValue'
    <2>1. SUFFICES ASSUME NEW h \in 1..(n + 1), NEW j \in 1..Len(stack'[h].args)
                   PROVE  LET a == stack'[h].args[j].dv
                          IN  /\ a \in Addr /\ dvs'[a] # Free
                              /\ \E k \in 1..Len(dvs'[a].arguments) :
                                    dvs'[a].arguments[k] = [call |-> h, arg |-> j]
      BY <1>1 DEF NoDanglingValue, Allocated
    <2>2. h \in 1..n /\ stack'[h] = stack[h]
      BY <1>1, <1>2
    <2> DEFINE a == stack[h].args[j].dv
    <2>3. /\ a \in Addr /\ dvs[a] # Free
          /\ \E k \in 1..Len(dvs[a].arguments) :
                dvs[a].arguments[k] = [call |-> h, arg |-> j]
      BY <2>1, <2>2 DEF Holding, NoDanglingValue, Allocated
    <2>4. dvs'[a] = dvs[a] /\ stack'[h].args[j].dv = a
      BY <2>2, <2>3
    <2> HIDE DEF a
    <2> QED
      BY <2>3, <2>4
  <1>5. NoDanglingArgument'
    <2>1. SUFFICES ASSUME NEW a \in Addr, dvs'[a] # Free
                   PROVE  LET args == dvs'[a].arguments
                          IN  /\ \A k \in 1..Len(args) :
                                    /\ args[k].call \in 1..(n + 1)
                                    /\ args[k].arg \in 1..Len(stack'[args[k].call].args)
                                    /\ stack'[args[k].call].args[args[k].arg].dv = a
                              /\ \A k, l \in 1..Len(args) : k < l => args[k].call < args[l].call
      BY <1>1 DEF NoDanglingArgument, Allocated
    <2> DEFINE args == dvs[a].arguments
    <2>2. CASE dvs[a] = Free
      <3>1. Len(dvs'[a].arguments) = 0
        BY <2>1, <2>2, EmptySeq
      <3> QED
        BY <3>1
    <2>3. CASE dvs[a] # Free
      <3>1. dvs'[a].arguments = args
        BY <2>3
      <3>2. /\ \A k \in 1..Len(args) : /\ args[k].call \in 1..n
                                       /\ args[k].arg \in 1..Len(stack[args[k].call].args)
                                       /\ stack[args[k].call].args[args[k].arg].dv = a
            /\ \A k, l \in 1..Len(args) : k < l => args[k].call < args[l].call
        BY <2>3 DEF Holding, NoDanglingArgument, Allocated
      <3>3. \A h \in 1..n : h \in 1..(n + 1)
        BY <1>1
      <3>4. ASSUME NEW k \in 1..Len(args)
            PROVE  /\ args[k].call \in 1..(n + 1)
                   /\ args[k].arg \in 1..Len(stack'[args[k].call].args)
                   /\ stack'[args[k].call].args[args[k].arg].dv = a
        <4>1. stack'[args[k].call] = stack[args[k].call]
          BY <1>1, <3>2
        <4> QED
          BY <3>2, <3>3, <4>1
      <3> HIDE DEF args
      <3> QED
        BY <3>1, <3>2, <3>4
    <2> QED
      BY <2>2, <2>3
  <1> QED
    BY <1>3, <1>4, <1>5

\* Pushing a context that is neither a closure nor a promise changes no claim.
LEMMA PushPlain ==
    ASSUME TypeOK, Holding, NEW f \in Context, f.args = <<>>, f.type # "promise",
           stack' = Append(stack, f), dvs' = dvs, promises' = promises
    PROVE  Holding'
  <1>1. NoDanglingValue' /\ NoDanglingArgument' /\ DeadHasOneHolder'
    BY PushNoArguments
  <1>2. /\ Len(stack) \in Nat /\ Len(stack') = Len(stack) + 1 /\ stack'[Len(stack) + 1] = f
        /\ \A h \in 1..Len(stack) : stack'[h] = stack[h]
    BY PushProperties DEF TypeOK
  <1>3. MapMatchesActive' /\ ForcedStaysAlive'
    BY <1>2 DEF Holding, MapMatchesActive, ForcedStaysAlive, Allocated
  <1> QED
    BY <1>1, <1>3 DEF Holding

\* lookup_promise for a promise that is about to be forced, and the push of its context.
LEMMA PushForced ==
    ASSUME TypeOK, Holding, NEW s \in Promises, NEW a \in Addr, NEW f \in Context,
           f.args = <<>>, f.type = "promise", f.ref = a,
           stack' = Append(stack, f),
           IF promises[s] # Null THEN a = promises[s] ELSE dvs[a] = Free,
           promises' = [promises EXCEPT ![s] = a],
           dvs' = IF dvs[a] = Free THEN [dvs EXCEPT ![a] = NewDenotedValue(s, <<>>)] ELSE dvs,
           NewDenotedValue(s, <<>>) \in DenotedValue
    PROVE  Holding' /\ dvs'[a] # Free /\ dvs'[a].object = s
  <1> DEFINE new == NewDenotedValue(s, <<>>)
             n == Len(stack)
  <1>1. dvs \in [Addr -> DenotedValue \cup {Free}] /\ promises \in [Promises -> Addr \cup {Null}]
    BY DEF TypeOK
  <1>2. new.active /\ new.object = s /\ new.arguments = <<>> /\ new # Free
    BY NothingAssumption DEF NewDenotedValue
  <1>3. /\ n \in Nat /\ Len(stack') = n + 1 /\ stack'[n + 1] = f
        /\ \A h \in 1..n : stack'[h] = stack[h]
    BY PushProperties DEF TypeOK
  <1> HIDE DEF new
  <1>4. /\ dvs'[a] # Free /\ dvs'[a].active /\ dvs'[a].object = s /\ promises'[s] = a
        /\ \A b \in Addr : b # a => dvs'[b] = dvs[b]
        /\ \A t \in Promises : t # s => promises'[t] = promises[t]
        /\ IF dvs[a] = Free THEN dvs'[a] = new /\ promises[s] = Null
           ELSE dvs'[a] = dvs[a] /\ promises[s] = a
    <2>1. CASE promises[s] # Null
      <3>1. a = promises[s] /\ dvs[a] # Free /\ dvs[a].active /\ dvs[a].object = s
        BY <2>1 DEF Holding, MapMatchesActive, Allocated
      <3>2. dvs' = dvs
        BY <3>1
      <3> QED
        BY <1>1, <3>1, <3>2
    <2>2. CASE promises[s] = Null
      BY <1>1, <1>2, <2>2 DEF new
    <2> QED
      BY <2>1, <2>2
  <1>5. NoDanglingValue' /\ NoDanglingArgument' /\ DeadHasOneHolder'
    <2>1. \A b \in Addr : /\ dvs[b] # Free => dvs'[b] = dvs[b]
                          /\ dvs[b] = Free /\ dvs'[b] # Free =>
                                dvs'[b].active /\ dvs'[b].arguments = <<>>
      BY <1>2, <1>4
    <2> QED
      BY <2>1, PushNoArguments
  <1>6. MapMatchesActive'
    <2>1. ASSUME NEW t \in Promises, promises'[t] # Null
          PROVE  promises'[t] \in Addr /\ dvs'[promises'[t]] # Free
                   /\ dvs'[promises'[t]].active /\ dvs'[promises'[t]].object = t
      BY <1>4, <2>1 DEF Holding, MapMatchesActive, Allocated
    <2>2. ASSUME NEW b \in Addr, dvs'[b] # Free, dvs'[b].active
          PROVE  dvs'[b].object \in Promises /\ promises'[dvs'[b].object] = b
      <3>1. CASE b = a
        BY <1>4, <3>1
      <3>2. CASE b # a
        <4>1. dvs'[b] = dvs[b] /\ dvs[b].object \in Promises /\ promises[dvs[b].object] = b
          BY <1>4, <2>2, <3>2 DEF Holding, MapMatchesActive, Allocated
        <4>2. dvs[b].object # s
          BY <1>4, <3>2, <4>1, DistinctAssumption
        <4> QED
          BY <1>4, <4>1, <4>2
      <3> QED
        BY <3>1, <3>2
    <2> QED
      BY <2>1, <2>2 DEF MapMatchesActive, Allocated
  <1>7. ForcedStaysAlive'
    <2>1. SUFFICES ASSUME NEW h \in 1..(n + 1), stack'[h].type = "promise"
                   PROVE  /\ stack'[h].ref \in Addr /\ dvs'[stack'[h].ref] # Free
                          /\ dvs'[stack'[h].ref].active
      BY <1>3 DEF ForcedStaysAlive, Allocated
    <2>2. CASE h = n + 1
      BY <1>3, <1>4, <2>2
    <2>3. CASE h \in 1..n
      BY <1>3, <1>4, <2>1, <2>3 DEF Holding, ForcedStaysAlive, Allocated
    <2> QED
      BY <1>3, <2>2, <2>3
  <1> QED
    BY <1>4, <1>5, <1>6, <1>7 DEF Holding

\* The constructor makes a DenotedValue.
LEMMA NewIsDenotedValue ==
    ASSUME TypeOK, NEW v \in Promises \cup NonPromises, NEW args \in Seq(ArgumentRef)
    PROVE  /\ NewDenotedValue(v, args) \in DenotedValue
           /\ NewDenotedValue(v, args).active <=> v \in Promises
  <1>1. (IF v \in Promises THEN rprom[v].env ELSE NoEnv) \in PromiseEnvs
    BY DEF TypeOK, RPromise, PromiseEnvs
  <1>2. (v \in Promises) \in BOOLEAN
    OBVIOUS
  <1>3. NewDenotedValue(v, args).active <=> v \in Promises
    <2>1. CASE v \in Promises
      BY <2>1 DEF NewDenotedValue
    <2>2. CASE v \notin Promises
      BY <2>2 DEF NewDenotedValue
    <2> QED
      BY <2>1, <2>2
  <1> QED
    BY <1>1, <1>2, <1>3 DEF NewDenotedValue, DenotedValue

\* What closure_entry does to the heap and the map, argument by argument.
LastEntry(j) == [call |-> Len(stack) + 1, arg |-> j]

Binds(v, a, j) ==
    /\ a \in Addr
    /\ dvs'[a] # Free
    /\ dvs'[a] \in DenotedValue
    /\ dvs'[a].object = v
    /\ dvs'[a].active <=> v \in Promises
    /\ v \in Promises => promises'[v] = a
    /\ IF dvs[a] = Free
       THEN /\ v \in Promises => promises[v] = Null
            /\ dvs'[a].arguments = <<LastEntry(j)>>
       ELSE /\ v \in Promises /\ promises[v] = a
            /\ dvs'[a].arguments = Append(dvs[a].arguments, LastEntry(j))

BindsAll(m, vals, addr) ==
    /\ \A j, k \in 1..m : addr[j] = addr[k] => j = k
    /\ \A j \in 1..m : Binds(vals[j], addr[j], j)
    /\ \A a \in Addr : (\A j \in 1..m : addr[j] # a) => dvs'[a] = dvs[a]
    /\ \A s \in Promises : (\A j \in 1..m : vals[j] # s) => promises'[s] = promises[s]

LEMMA BindEffect ==
    ASSUME IInv, NEW op, NEW m \in Nat,
           NEW vals \in [1..m -> Promises \cup NonPromises], NEW addr \in [1..m -> Addr],
           ClosureEntry(op, vals, addr)
    PROVE  BindsAll(m, vals, addr)
  <1> DEFINE At(a) == {j \in 1..Len(addr) : addr[j] = a}
             Of(s) == {j \in 1..Len(vals) : vals[j] = s}
             Bind(j) == IF dvs[addr[j]] = Free
                        THEN NewDenotedValue(vals[j], <<LastEntry(j)>>)
                        ELSE [dvs[addr[j]] EXCEPT !.arguments = Append(@, LastEntry(j))]
  <1>1. Len(addr) = m /\ Len(vals) = m
    OBVIOUS
  <1>2. /\ \A s \in Promises : \A j, k \in Of(s) : j = k
        /\ Lookup(vals, addr)
        /\ promises' = [s \in Promises |->
                          IF Of(s) = {} THEN promises[s] ELSE addr[CHOOSE j \in Of(s) : TRUE]]
        /\ dvs' = [a \in Addr |->
                     IF At(a) = {} THEN dvs[a] ELSE Bind(CHOOSE j \in At(a) : TRUE)]
    BY DEF ClosureEntry, LastEntry
  <1>3. \A j, k \in 1..m : addr[j] = addr[k] => j = k
    BY <1>1, <1>2 DEF Lookup
  <1>4. \A a \in Addr : (\A j \in 1..m : addr[j] # a) => dvs'[a] = dvs[a]
    BY <1>1, <1>2
  <1>5. \A s \in Promises : (\A j \in 1..m : vals[j] # s) => promises'[s] = promises[s]
    BY <1>1, <1>2
  <1>6. ASSUME NEW j \in 1..m PROVE Binds(vals[j], addr[j], j)
    <2> DEFINE a == addr[j]
    <2>1. At(a) = {j} /\ a \in Addr
      BY <1>1, <1>3
    <2>2. dvs'[a] = Bind(j)
      <3>1. (CHOOSE k \in At(a) : TRUE) = j
        BY <2>1
      <3>2. dvs'[a] = Bind(CHOOSE k \in At(a) : TRUE)
        BY <1>2, <2>1
      <3> QED
        BY <3>1, <3>2
    <2>3. vals[j] \in Promises => promises'[vals[j]] = a
      <3>1. SUFFICES ASSUME vals[j] \in Promises PROVE promises'[vals[j]] = a
        OBVIOUS
      <3>2. Of(vals[j]) = {j}
        BY <1>1, <1>2, <3>1
      <3>3. (CHOOSE k \in Of(vals[j]) : TRUE) = j
        BY <3>2
      <3> QED
        BY <1>2, <3>1, <3>2, <3>3
    <2>4. CASE vals[j] \in Promises /\ promises[vals[j]] # Null
      <3>1. a = promises[vals[j]]
        BY <1>1, <1>2, <2>4 DEF Lookup
      <3>2. dvs[a] # Free /\ dvs[a].active /\ dvs[a].object = vals[j] /\ dvs[a] \in DenotedValue
        BY <2>1, <2>4, <3>1, Typing DEF IInv, Holding, MapMatchesActive, Allocated
      <3>3. dvs'[a] = [dvs[a] EXCEPT !.arguments = Append(@, LastEntry(j))]
        BY <2>2, <3>2
      <3>4. /\ dvs'[a].object = vals[j] /\ dvs'[a].active = dvs[a].active
            /\ dvs'[a].arguments = Append(dvs[a].arguments, LastEntry(j))
        BY <3>2, <3>3 DEF DenotedValue
      <3>5. dvs'[a] \in DenotedValue
        <4>1. LastEntry(j) \in ArgumentRef
          BY Typing DEF IInv, ArgumentRef, LastEntry
        <4>2. Append(dvs[a].arguments, LastEntry(j)) \in Seq(ArgumentRef)
          BY <3>2, <4>1 DEF DenotedValue
        <4> QED
          BY <3>2, <3>3, <4>2 DEF DenotedValue
      <3> QED
        BY <2>1, <2>3, <2>4, <3>1, <3>2, <3>4, <3>5, NothingAssumption DEF Binds
    <2>5. CASE ~(vals[j] \in Promises /\ promises[vals[j]] # Null)
      <3>1. dvs[a] = Free
        BY <1>1, <1>2, <2>5 DEF Lookup
      <3>2. dvs'[a] = NewDenotedValue(vals[j], <<LastEntry(j)>>)
        BY <2>2, <3>1
      <3>3. dvs'[a] \in DenotedValue /\ (dvs'[a].active <=> vals[j] \in Promises)
        <4>1. LastEntry(j) \in ArgumentRef
          BY Typing DEF IInv, ArgumentRef, LastEntry
        <4>2. <<LastEntry(j)>> \in Seq(ArgumentRef)
          BY <4>1
        <4> QED
          BY <3>2, <4>2, NewIsDenotedValue DEF IInv
      <3>4. dvs'[a].object = vals[j] /\ dvs'[a].arguments = <<LastEntry(j)>>
        BY <3>2 DEF NewDenotedValue
      <3> QED
        BY <2>1, <2>3, <2>5, <3>1, <3>3, <3>4, NothingAssumption DEF Binds
    <2> QED
      BY <2>4, <2>5
  <1> QED
    BY <1>3, <1>4, <1>5, <1>6 DEF BindsAll

\* How many Arguments hold the value at a.
HolderCount(a) == IF dvs[a] = Free THEN 0 ELSE Len(dvs[a].arguments)

\* add_argument appends to the argument stack.
LEMMA BindsEntry ==
    ASSUME TypeOK, NEW v, NEW a, NEW j \in Nat, Binds(v, a, j)
    PROVE  /\ HolderCount(a) \in Nat
           /\ Len(dvs'[a].arguments) = HolderCount(a) + 1
           /\ dvs'[a].arguments[HolderCount(a) + 1] = LastEntry(j)
           /\ \A k \in 1..HolderCount(a) : dvs'[a].arguments[k] = dvs[a].arguments[k]
           /\ ~dvs'[a].active => HolderCount(a) = 0
  <1>1. a \in Addr /\ LastEntry(j) \in ArgumentRef
    BY Typing DEF Binds, LastEntry, ArgumentRef
  <1> DEFINE e == LastEntry(j)
             old == dvs[a].arguments
  <1>2. CASE dvs[a] = Free
    <2>1. dvs'[a].arguments = <<e>>
      BY <1>2 DEF Binds
    <2> HIDE DEF e
    <2>2. Len(<<e>>) = 1 /\ <<e>>[1] = e
      OBVIOUS
    <2> QED
      BY <1>2, <2>1, <2>2 DEF HolderCount, e
  <1>3. CASE dvs[a] # Free
    <2>1. old \in Seq(ArgumentRef) /\ Len(old) \in Nat
      BY <1>1, <1>3, Typing
    <2>2. dvs'[a].arguments = Append(old, e) /\ dvs'[a].active
      BY <1>3 DEF Binds
    <2> HIDE DEF e, old
    <2>3. /\ Len(Append(old, e)) = Len(old) + 1
          /\ \A i \in 1..Len(old) : Append(old, e)[i] = old[i]
          /\ Append(old, e)[Len(old) + 1] = e
      BY <1>1, <2>1, PushProperties DEF e
    <2> QED
      BY <1>3, <2>1, <2>2, <2>3 DEF HolderCount, e, old
  <1> QED
    BY <1>2, <1>3

\* A closure's Arguments take hold of their values.
LEMMA BindHolding ==
    ASSUME IInv, NEW op, NEW m \in Nat,
           NEW vals \in [1..m -> Promises \cup NonPromises], NEW addr \in [1..m -> Addr],
           ClosureEntry(op, vals, addr), TypeOK'
    PROVE  Holding'
  <1> DEFINE n == Len(stack)
             f == stack'[n + 1]
             Bound(a) == \E j \in 1..m : a = addr[j]
  <1>1. /\ n \in Nat /\ Len(stack') = n + 1
        /\ \A h \in 1..n : stack'[h] = stack[h]
        /\ f.type = "closure" /\ Len(f.args) = m /\ \A j \in 1..m : f.args[j].dv = addr[j]
    <2> DEFINE c == [type |-> "closure", ref |-> op, args |-> ClosureArguments(op, addr),
                     trace |-> InitialTrace(op, vals)]
    <2>1. stack \in Seq(Context \cup {c}) /\ stack' = Append(stack, c)
      <3>1. stack \in Seq(Context)
        BY DEF IInv, TypeOK
      <3>2. stack' = Append(stack, c)
        BY DEF ClosureEntry
      <3> HIDE DEF c
      <3> QED
        BY <3>1, <3>2, SeqMonotonic
    <2>2. Len(c.args) = m /\ \A j \in 1..m : c.args[j].dv = addr[j]
      BY DEF ClosureArguments
    <2> HIDE DEF c
    <2>3. c \in Context \cup {c}
      OBVIOUS
    <2>4. Len(stack') = n + 1 /\ f = c /\ \A h \in 1..n : stack'[h] = stack[h]
      BY <2>1, <2>3, PushProperties
    <2> QED
      BY <2>1, <2>2, <2>4, Typing DEF IInv, c
  <1>2. BindsAll(m, vals, addr)
    BY BindEffect
  <1>3. \A j \in 1..m : Binds(vals[j], addr[j], j)
    BY <1>2 DEF BindsAll
  <1>4. \A a \in Addr : ~Bound(a) => dvs'[a] = dvs[a]
    BY <1>2 DEF BindsAll
  <1>5. \A s \in Promises : (\A j \in 1..m : vals[j] # s) => promises'[s] = promises[s]
    BY <1>2 DEF BindsAll
  <1> HIDE DEF f
  <1>6. MapMatchesActive'
    <2>1. ASSUME NEW s \in Promises, promises'[s] # Null
          PROVE  promises'[s] \in Addr /\ dvs'[promises'[s]] # Free
                   /\ dvs'[promises'[s]].active /\ dvs'[promises'[s]].object = s
      <3>1. CASE \E j \in 1..m : vals[j] = s
        BY <1>3, <3>1 DEF Binds
      <3>2. CASE \A j \in 1..m : vals[j] # s
        <4>1. promises'[s] = promises[s]
          BY <1>5, <3>2
        <4>2. /\ promises[s] \in Addr /\ dvs[promises[s]] # Free
              /\ dvs[promises[s]].active /\ dvs[promises[s]].object = s
          BY <2>1, <4>1 DEF IInv, Holding, MapMatchesActive, Allocated
        <4>3. ~Bound(promises[s])
          <5>1. SUFFICES ASSUME NEW j \in 1..m, promises[s] = addr[j] PROVE FALSE
            OBVIOUS
          <5>2. vals[j] \in Promises /\ promises[vals[j]] = addr[j]
            BY <1>3, <4>2, <5>1 DEF Binds
          <5>3. dvs[addr[j]].object = vals[j]
            BY <4>2, <5>1, <5>2, DistinctAssumption DEF IInv, Holding, MapMatchesActive, Allocated
          <5> QED
            BY <3>2, <4>2, <5>1, <5>3
        <4> QED
          BY <1>4, <4>1, <4>2, <4>3
      <3> QED
        BY <3>1, <3>2
    <2>2. ASSUME NEW a \in Addr, dvs'[a] # Free, dvs'[a].active
          PROVE  dvs'[a].object \in Promises /\ promises'[dvs'[a].object] = a
      <3>1. CASE Bound(a)
        BY <1>3, <2>2, <3>1 DEF Binds
      <3>2. CASE ~Bound(a)
        <4>1. /\ dvs'[a] = dvs[a] /\ dvs[a].object \in Promises
              /\ promises[dvs[a].object] = a
          BY <1>4, <2>2, <3>2 DEF IInv, Holding, MapMatchesActive, Allocated
        <4>2. \A j \in 1..m : vals[j] # dvs[a].object
          <5>1. SUFFICES ASSUME NEW j \in 1..m, vals[j] = dvs[a].object PROVE FALSE
            OBVIOUS
          <5>2. promises[vals[j]] = a /\ a # Null /\ vals[j] \in Promises
            BY <4>1, <5>1, DistinctAssumption
          <5>3. promises[vals[j]] = addr[j]
            BY <1>3, <5>2 DEF Binds
          <5> QED
            BY <3>2, <5>2, <5>3
        <4> QED
          BY <1>5, <4>1, <4>2
      <3> QED
        BY <3>1, <3>2
    <2> QED
      BY <2>1, <2>2 DEF MapMatchesActive, Allocated
  <1>7. DeadHasOneHolder'
    <2>1. SUFFICES ASSUME NEW a \in Addr, dvs'[a] # Free, ~dvs'[a].active
                   PROVE  Len(dvs'[a].arguments) = 1
      BY DEF DeadHasOneHolder, Allocated
    <2>2. CASE Bound(a)
      <3>1. PICK j \in 1..m : a = addr[j]
        BY <2>2
      <3>2. Binds(vals[j], a, j) /\ j \in Nat
        BY <1>3, <3>1
      <3>3. Len(dvs'[a].arguments) = HolderCount(a) + 1 /\ HolderCount(a) = 0
        BY <2>1, <3>2, BindsEntry DEF IInv
      <3> QED
        BY <3>3
    <2>3. CASE ~Bound(a)
      BY <1>4, <2>1, <2>3 DEF IInv, Holding, DeadHasOneHolder, Allocated
    <2> QED
      BY <2>2, <2>3
  <1>8. ForcedStaysAlive'
    <2>1. SUFFICES ASSUME NEW h \in 1..(n + 1), stack'[h].type = "promise"
                   PROVE  /\ stack'[h].ref \in Addr /\ dvs'[stack'[h].ref] # Free
                          /\ dvs'[stack'[h].ref].active
      BY <1>1 DEF ForcedStaysAlive, Allocated
    <2>2. h \in 1..n /\ stack'[h] = stack[h]
      BY <1>1, <2>1 DEF f
    <2>3. stack[h].ref \in Addr /\ dvs[stack[h].ref] # Free /\ dvs[stack[h].ref].active
      BY <2>1, <2>2 DEF IInv, Holding, ForcedStaysAlive, Allocated
    <2>4. CASE Bound(stack[h].ref)
      BY <1>3, <2>2, <2>3, <2>4 DEF Binds
    <2>5. CASE ~Bound(stack[h].ref)
      BY <1>4, <2>2, <2>3, <2>5
    <2> QED
      BY <2>4, <2>5
  <1>9. NoDanglingValue'
    <2>1. SUFFICES ASSUME NEW h \in 1..(n + 1), NEW j \in 1..Len(stack'[h].args)
                   PROVE  LET a == stack'[h].args[j].dv
                          IN  /\ a \in Addr /\ dvs'[a] # Free
                              /\ \E k \in 1..Len(dvs'[a].arguments) :
                                    dvs'[a].arguments[k] = [call |-> h, arg |-> j]
      BY <1>1 DEF NoDanglingValue, Allocated
    <2> DEFINE a == stack'[h].args[j].dv
    <2>2. CASE h = n + 1
      <3>1. j \in 1..m /\ a = addr[j]
        BY <1>1, <2>2 DEF f
      <3>2. Binds(vals[j], a, j) /\ a \in Addr
        BY <1>3, <3>1 DEF Binds
      <3>3. LastEntry(j) = [call |-> h, arg |-> j] /\ j \in Nat
        BY <2>2, <3>1 DEF LastEntry
      <3>4. /\ HolderCount(a) + 1 \in 1..Len(dvs'[a].arguments)
            /\ dvs'[a].arguments[HolderCount(a) + 1] = LastEntry(j)
        <4> HIDE DEF a
        <4> QED
          BY <3>2, <3>3, BindsEntry DEF IInv
      <3>5. dvs'[a] # Free
        BY <3>2 DEF Binds
      <3> QED
        BY <3>2, <3>3, <3>4, <3>5
    <2>3. CASE h \in 1..n
      <3>1. stack'[h] = stack[h] /\ j \in 1..Len(stack[h].args)
        BY <1>1, <2>3
      <3>2. /\ a \in Addr /\ dvs[a] # Free
            /\ \E k \in 1..Len(dvs[a].arguments) :
                  dvs[a].arguments[k] = [call |-> h, arg |-> j]
        BY <2>3, <3>1 DEF IInv, Holding, NoDanglingValue, Allocated
      <3>3. CASE Bound(a)
        <4>1. PICK i \in 1..m : a = addr[i]
          BY <3>3
        <4>2. Binds(vals[i], a, i) /\ i \in Nat
          BY <1>3, <4>1
        <4>3. /\ dvs'[a] # Free
              /\ HolderCount(a) \in Nat /\ HolderCount(a) = Len(dvs[a].arguments)
              /\ Len(dvs'[a].arguments) = HolderCount(a) + 1
              /\ \A k \in 1..HolderCount(a) : dvs'[a].arguments[k] = dvs[a].arguments[k]
          <5>1. HolderCount(a) = Len(dvs[a].arguments) /\ dvs'[a] # Free
            BY <3>2, <4>2 DEF HolderCount, Binds
          <5> HIDE DEF a
          <5>2. /\ HolderCount(a) \in Nat
                /\ Len(dvs'[a].arguments) = HolderCount(a) + 1
                /\ \A k \in 1..HolderCount(a) : dvs'[a].arguments[k] = dvs[a].arguments[k]
            BY <4>2, BindsEntry DEF IInv
          <5> QED
            BY <5>1, <5>2
        <4>4. PICK k \in 1..HolderCount(a) : dvs[a].arguments[k] = [call |-> h, arg |-> j]
          BY <3>2, <4>3
        <4> HIDE DEF a
        <4>5. k \in 1..Len(dvs'[a].arguments)
          BY <4>3, <4>4
        <4>6. dvs'[a].arguments[k] = [call |-> h, arg |-> j]
          BY <4>3, <4>4
        <4>7. /\ a \in Addr /\ dvs'[a] # Free
              /\ \E l \in 1..Len(dvs'[a].arguments) :
                    dvs'[a].arguments[l] = [call |-> h, arg |-> j]
          BY <3>2, <4>3, <4>5, <4>6
        <4> QED
          BY <4>7 DEF a
      <3>4. CASE ~Bound(a)
        BY <1>4, <3>2, <3>4
      <3> QED
        BY <3>3, <3>4
    <2> QED
      BY <1>1, <2>2, <2>3
  <1>10. NoDanglingArgument'
    <2>1. SUFFICES ASSUME NEW a \in Addr, dvs'[a] # Free
                   PROVE  LET args == dvs'[a].arguments
                          IN  /\ \A k \in 1..Len(args) :
                                    /\ args[k].call \in 1..(n + 1)
                                    /\ args[k].arg \in 1..Len(stack'[args[k].call].args)
                                    /\ stack'[args[k].call].args[args[k].arg].dv = a
                              /\ \A k, l \in 1..Len(args) : k < l => args[k].call < args[l].call
      BY <1>1 DEF NoDanglingArgument, Allocated
    <2> DEFINE args == dvs'[a].arguments
               IsHolder(e) == /\ e.call \in 1..(n + 1)
                              /\ e.arg \in 1..Len(stack'[e.call].args)
                              /\ stack'[e.call].args[e.arg].dv = a
    <2>2. ASSUME dvs[a] # Free
          PROVE  /\ \A k \in 1..Len(dvs[a].arguments) :
                       IsHolder(dvs[a].arguments[k]) /\ dvs[a].arguments[k].call < n + 1
                 /\ \A k, l \in 1..Len(dvs[a].arguments) :
                       k < l => dvs[a].arguments[k].call < dvs[a].arguments[l].call
      <3>1. /\ \A k \in 1..Len(dvs[a].arguments) :
                  LET e == dvs[a].arguments[k]
                  IN  /\ e.call \in 1..n
                      /\ e.arg \in 1..Len(stack[e.call].args)
                      /\ stack[e.call].args[e.arg].dv = a
            /\ \A k, l \in 1..Len(dvs[a].arguments) :
                  k < l => dvs[a].arguments[k].call < dvs[a].arguments[l].call
        BY <2>2 DEF IInv, Holding, NoDanglingArgument, Allocated
      <3>2. \A h \in 1..n : h \in 1..(n + 1) /\ h < n + 1 /\ stack'[h] = stack[h]
        BY <1>1
      <3> QED
        BY <3>1, <3>2
    <2>3. CASE ~Bound(a)
      BY <1>4, <2>1, <2>2, <2>3
    <2>4. CASE Bound(a)
      <3>1. PICK j \in 1..m : a = addr[j]
        BY <2>4
      <3>2. Binds(vals[j], a, j)
        BY <1>3, <3>1
      <3>3. IsHolder(LastEntry(j)) /\ LastEntry(j).call = n + 1 /\ j \in Nat
        BY <1>1, <3>1 DEF LastEntry, f
      <3> DEFINE count == HolderCount(a)
      <3>4. /\ count \in Nat /\ Len(args) = count + 1 /\ args[count + 1] = LastEntry(j)
            /\ \A k \in 1..count : args[k] = dvs[a].arguments[k]
        BY <3>2, <3>3, BindsEntry DEF IInv
      <3>5. /\ \A k \in 1..count : IsHolder(args[k]) /\ args[k].call < n + 1
            /\ \A k, l \in 1..count : k < l => args[k].call < args[l].call
        <4>1. CASE dvs[a] = Free
          <5>1. count = 0
            BY <4>1 DEF HolderCount
          <5> QED
            BY <5>1
        <4>2. CASE dvs[a] # Free
          <5>1. count = Len(dvs[a].arguments)
            BY <4>2 DEF HolderCount
          <5> HIDE DEF IsHolder, args
          <5>2. /\ \A k \in 1..count : IsHolder(dvs[a].arguments[k])
                                       /\ dvs[a].arguments[k].call < n + 1
                /\ \A k, l \in 1..count :
                       k < l => dvs[a].arguments[k].call < dvs[a].arguments[l].call
            BY <2>2, <4>2, <5>1
          <5> QED
            BY <3>4, <5>2
        <4> QED
          BY <4>1, <4>2
      <3> HIDE DEF IsHolder, count, args
      <3>6. \A k \in 1..Len(args) : k \in 1..count \/ k = count + 1
        BY <3>4
      <3>7. \A k \in 1..Len(args) : IsHolder(args[k])
        BY <3>3, <3>4, <3>5, <3>6
      <3>8. \A k, l \in 1..Len(args) : k < l => args[k].call < args[l].call
        <4>1. SUFFICES ASSUME NEW k \in 1..Len(args), NEW l \in 1..Len(args), k < l
                       PROVE  args[k].call < args[l].call
          OBVIOUS
        <4>2. k \in 1..count
          BY <3>4, <4>1
        <4>3. CASE l \in 1..count
          BY <3>5, <4>1, <4>2, <4>3
        <4>4. CASE l = count + 1
          <5>1. args[l].call = n + 1
            BY <3>3, <3>4, <4>4
          <5> QED
            BY <3>5, <4>2, <5>1
        <4> QED
          BY <3>6, <4>3, <4>4
      <3> QED
        BY <3>7, <3>8 DEF IsHolder, args
    <2> QED
      BY <2>3, <2>4
  <1> QED
    BY <1>6, <1>7, <1>8, <1>9, <1>10 DEF Holding

(***************************************************************************)
(* The two stacks side by side                                             *)
(***************************************************************************)

\* The types of R's frames and promises.
LEMMA RTyping ==
    ASSUME TypeOK
    PROVE  /\ Len(rstack) \in Nat
           /\ \A i \in 1..Len(rstack) : rstack[i] \in RFrame /\ rstack[i].env \in PromiseEnvs
           /\ NewPromises \subseteq RPromise
  <1>1. rstack \in Seq(RFrame) /\ Len(rstack) \in Nat
    BY DEF TypeOK
  <1>2. \A i \in 1..Len(rstack) : rstack[i] \in RFrame
    BY <1>1, ElementOfSeq
  <1>3. \A i \in 1..Len(rstack) : rstack[i].env \in PromiseEnvs
    BY <1>2 DEF RFrame
  <1>4. NewPromises \subseteq RPromise
    BY <1>3 DEF NewPromises, RPromise, PromiseEnvs
  <1> QED
    BY <1>1, <1>2, <1>3, <1>4

\* Outside of a jump, the stacks have the same height and the same kinds of contexts.
LEMMA SameHeight ==
    ASSUME IInv, Running
    PROVE  /\ Len(rstack) = Len(stack)
           /\ rstack # <<>> => /\ stack # <<>>
                               /\ Top(stack).type = Top(rstack).type
                               /\ Len(stack) \in 1..Len(stack) /\ Len(stack) \in Nat \ {0}
  <1>1. Len(rstack) = Len(stack)
    BY DEF IInv, StackMirrorsR, Running
  <1>2. ASSUME rstack # <<>>
        PROVE  Len(stack) \in Nat \ {0} /\ stack # <<>> /\ Len(stack) \in 1..Len(stack)
    <2>1. rstack \in Seq(RFrame) /\ stack \in Seq(Context)
      BY DEF IInv, TypeOK
    <2>2. Len(rstack) \in Nat \ {0}
      BY <1>2, <2>1, EmptySeq
    <2> QED
      BY <1>1, <2>1, <2>2, EmptySeq
  <1>3. ASSUME rstack # <<>> PROVE Top(stack).type = Top(rstack).type
    BY <1>1, <1>2, <1>3 DEF IInv, StackMirrorsR, Top
  <1> QED
    BY <1>1, <1>2, <1>3

\* A step that deletes no value that R's frames could need.
Persists ==
    \A a \in Addr : dvs[a] # Free =>
        /\ dvs'[a] # Free
        /\ dvs'[a].object = dvs[a].object
        /\ dvs'[a].active = dvs[a].active

\* A probe that pushes a context while R pushes a frame keeps the stacks together.
LEMMA PushMirrors ==
    ASSUME IInv, Running, NEW f \in Context, NEW r \in RFrame,
           stack' = Append(stack, f), rstack' = Append(rstack, r),
           jump' = jump, phase' = phase, Persists,
           f.type = r.type,
           f.type # "promise" => f.ref = r.id,
           f.type = "promise" => f.ref \in Addr /\ dvs'[f.ref] # Free /\ dvs'[f.ref].object = r.id,
           ~IsCall(f) => f.args = <<>>,
           \A j \in 1..Len(f.args) :
               dvs'[f.args[j].dv] # Free /\ dvs'[f.args[j].dv].active =>
                   dvs'[f.args[j].dv].object \in r.vals,
           r.type = "context" =>
               \A i \in 1..Len(rstack) : ~(rstack[i].type = "context" /\ rstack[i].id = r.id)
    PROVE  StackMirrorsR' /\ FramesHold' /\ WellFormedStacks' /\ ExitReleasesAll'
  <1> DEFINE n == Len(stack)
  <1>1. /\ n \in Nat /\ Len(stack') = n + 1 /\ stack'[n + 1] = f
        /\ \A h \in 1..n : stack'[h] = stack[h]
    BY PushProperties DEF IInv, TypeOK
  <1>2. n = Len(rstack)
    BY SameHeight
  <1>3. /\ Len(rstack') = n + 1 /\ rstack'[n + 1] = r
        /\ \A h \in 1..n : rstack'[h] = rstack[h]
    BY <1>2, PushProperties DEF IInv, TypeOK
  <1> HIDE DEF n
  <1>4. \A h \in 1..(n + 1) : h \in 1..n \/ h = n + 1
    BY <1>1
  <1>5. jump = NoJump /\ jump' = NoJump /\ phase' = "tracing"
    BY DEF Running
  <1>6. StackMirrorsR'
    <2>1. SUFFICES ASSUME NEW i \in 1..(n + 1)
                   PROVE  /\ stack'[i].type = rstack'[i].type
                          /\ stack'[i].type # "promise" => stack'[i].ref = rstack'[i].id
                          /\ stack'[i].type = "promise" =>
                                /\ stack'[i].ref \in Addr /\ dvs'[stack'[i].ref] # Free
                                /\ dvs'[stack'[i].ref].object = rstack'[i].id
      BY <1>1, <1>3, <1>5 DEF StackMirrorsR, Allocated
    <2>2. CASE i = n + 1
      BY <1>1, <1>3, <2>2
    <2>3. CASE i \in 1..n
      <3>1. stack'[i] = stack[i] /\ rstack'[i] = rstack[i]
        BY <1>1, <1>3, <2>3
      <3>2. /\ stack[i].type = rstack[i].type
            /\ stack[i].type # "promise" => stack[i].ref = rstack[i].id
            /\ stack[i].type = "promise" =>
                  /\ stack[i].ref \in Addr /\ dvs[stack[i].ref] # Free
                  /\ dvs[stack[i].ref].object = rstack[i].id
        BY <1>2, <2>3 DEF IInv, StackMirrorsR, Allocated
      <3> QED
        BY <3>1, <3>2 DEF Persists
    <2> QED
      BY <1>4, <2>2, <2>3
  <1>7. FramesHold'
    <2>1. SUFFICES ASSUME NEW h \in 1..(n + 1), NEW j \in 1..Len(stack'[h].args),
                          dvs'[stack'[h].args[j].dv] # Free,
                          dvs'[stack'[h].args[j].dv].active
                   PROVE  dvs'[stack'[h].args[j].dv].object \in rstack'[h].vals
      BY <1>3 DEF FramesHold
    <2>2. CASE h = n + 1
      BY <1>1, <1>3, <2>1, <2>2
    <2>3. CASE h \in 1..n
      <3> DEFINE a == stack[h].args[j].dv
      <3>1. stack'[h] = stack[h] /\ rstack'[h] = rstack[h]
        BY <1>1, <1>3, <2>3
      <3>2. a \in Addr /\ dvs[a] # Free
        BY <2>3, <3>1 DEF IInv, Holding, NoDanglingValue, Allocated, n
      <3>3. dvs'[a].object = dvs[a].object /\ dvs'[a].active = dvs[a].active
        BY <3>2 DEF Persists
      <3>4. dvs[a].active
        BY <2>1, <3>1, <3>3
      <3>5. dvs[a].object \in rstack[h].vals
        BY <1>2, <2>3, <3>1, <3>2, <3>4 DEF IInv, FramesHold
      <3> QED
        BY <3>1, <3>3, <3>5
    <2> QED
      BY <1>4, <2>2, <2>3
  <1>8. WellFormedStacks'
    <2>1. ASSUME NEW h \in 1..Len(stack'), ~IsCall(stack'[h]) PROVE stack'[h].args = <<>>
      <3>1. CASE h = n + 1
        BY <1>1, <2>1, <3>1
      <3>2. CASE h \in 1..n
        BY <1>1, <2>1, <3>2 DEF IInv, WellFormedStacks, n
      <3> QED
        BY <1>1, <1>4, <3>1, <3>2
    <2>2. ASSUME NEW i \in 1..Len(rstack'), NEW k \in 1..Len(rstack'),
                 rstack'[i].type = "context", rstack'[k].type = "context",
                 rstack'[i].id = rstack'[k].id
          PROVE  i = k
      <3>1. (i \in 1..n \/ i = n + 1) /\ (k \in 1..n \/ k = n + 1)
        BY <1>3, <1>4
      <3>2. CASE i \in 1..n /\ k \in 1..n
        BY <1>2, <1>3, <2>2, <3>2 DEF IInv, WellFormedStacks
      <3>3. CASE i \in 1..n /\ k = n + 1
        BY <1>2, <1>3, <2>2, <3>3
      <3>4. CASE k \in 1..n /\ i = n + 1
        BY <1>2, <1>3, <2>2, <3>4
      <3>5. CASE i = n + 1 /\ k = n + 1
        BY <3>5
      <3> QED
        BY <3>1, <3>2, <3>3, <3>4, <3>5
    <2> QED
      BY <1>5, <2>1, <2>2 DEF WellFormedStacks
  <1>9. ExitReleasesAll'
    BY <1>5 DEF ExitReleasesAll
  <1> QED
    BY <1>6, <1>7, <1>8, <1>9

\* A probe that pops a context keeps the stacks together, if R has popped its frame too.
LEMMA PopMirrors ==
    ASSUME IInv, Holding', stack # <<>>, phase = "tracing", phase' = phase,
           Len(stack') = Len(stack) - 1,
           \A h \in 1..(Len(stack) - 1) : /\ stack'[h].args = stack[h].args
                                          /\ stack'[h].type = stack[h].type
                                          /\ stack'[h].ref = stack[h].ref,
           \A i \in 1..Len(rstack') : i \in 1..Len(rstack) /\ rstack'[i] = rstack[i],
           Len(rstack') = IF jump' = NoJump THEN Len(stack') ELSE jump'.target,
           jump' # NoJump => jump'.target < Len(stack'),
           NEW m \in Nat, m = Len(rstack'), m <= Len(stack) - 1,
           \A a \in Addr : dvs'[a] # Free =>
               /\ dvs[a] # Free
               /\ dvs'[a].object = dvs[a].object
               /\ dvs'[a].active => dvs[a].active
    PROVE  StackMirrorsR' /\ FramesHold' /\ WellFormedStacks' /\ ExitReleasesAll'
  <1> DEFINE n == Len(stack)
  <1>1. n \in Nat \ {0}
    BY Typing DEF IInv
  <1>2. \A h \in 1..(n - 1) : h \in 1..n
    BY <1>1
  <1>3. \A i \in 1..m : i \in 1..(n - 1) /\ i \in 1..Len(rstack) /\ rstack'[i] = rstack[i]
    BY <1>1
  <1> HIDE DEF n
  <1>4. StackMirrorsR'
    <2>1. SUFFICES ASSUME NEW i \in 1..m
                   PROVE  /\ stack'[i].type = rstack'[i].type
                          /\ stack'[i].type # "promise" => stack'[i].ref = rstack'[i].id
                          /\ stack'[i].type = "promise" =>
                                /\ stack'[i].ref \in Addr /\ dvs'[stack'[i].ref] # Free
                                /\ dvs'[stack'[i].ref].object = rstack'[i].id
      BY DEF StackMirrorsR, Allocated
    <2>2. /\ i \in 1..(n - 1) /\ i \in 1..Len(rstack) /\ rstack'[i] = rstack[i]
          /\ stack'[i].type = stack[i].type /\ stack'[i].ref = stack[i].ref
      BY <1>3 DEF n
    <2>3. /\ stack[i].type = rstack[i].type
          /\ stack[i].type # "promise" => stack[i].ref = rstack[i].id
          /\ stack[i].type = "promise" =>
                /\ stack[i].ref \in Addr /\ dvs[stack[i].ref] # Free
                /\ dvs[stack[i].ref].object = rstack[i].id
      BY <2>2 DEF IInv, StackMirrorsR, Allocated
    <2>4. i \in 1..Len(stack')
      BY <2>2 DEF n
    <2>5. stack'[i].type = "promise" => stack'[i].ref \in Addr /\ dvs'[stack'[i].ref] # Free
      BY <2>4 DEF Holding, ForcedStaysAlive, Allocated
    <2> QED
      BY <2>2, <2>3, <2>5
  <1>5. FramesHold'
    <2>1. SUFFICES ASSUME NEW h \in 1..m, NEW j \in 1..Len(stack'[h].args),
                          dvs'[stack'[h].args[j].dv] # Free,
                          dvs'[stack'[h].args[j].dv].active
                   PROVE  dvs'[stack'[h].args[j].dv].object \in rstack'[h].vals
      BY DEF FramesHold
    <2> DEFINE a == stack[h].args[j].dv
    <2>2. /\ h \in 1..n /\ h \in 1..Len(rstack) /\ rstack'[h] = rstack[h]
          /\ stack'[h].args = stack[h].args
      BY <1>2, <1>3 DEF n
    <2>3. a \in Addr
      BY <2>1, <2>2 DEF IInv, Holding, NoDanglingValue, Allocated, n
    <2>4. dvs[a] # Free /\ dvs'[a].object = dvs[a].object /\ dvs[a].active
      BY <2>1, <2>2, <2>3
    <2>5. dvs[a].object \in rstack[h].vals
      BY <2>1, <2>2, <2>4 DEF IInv, FramesHold
    <2> QED
      BY <2>2, <2>4, <2>5
  <1>6. WellFormedStacks'
    <2>1. ASSUME NEW h \in 1..Len(stack'), ~IsCall(stack'[h]) PROVE stack'[h].args = <<>>
      <3>1. /\ h \in 1..(n - 1) /\ h \in 1..Len(stack)
            /\ stack'[h].args = stack[h].args /\ stack'[h].type = stack[h].type
        BY <1>2 DEF n
      <3> QED
        BY <2>1, <3>1 DEF IInv, WellFormedStacks, IsCall
    <2>2. ASSUME NEW i \in 1..m, NEW k \in 1..m,
                 rstack'[i].type = "context", rstack'[k].type = "context",
                 rstack'[i].id = rstack'[k].id
          PROVE  i = k
      BY <1>3, <2>2 DEF IInv, WellFormedStacks
    <2> QED
      BY <2>1, <2>2 DEF WellFormedStacks
  <1> QED
    BY <1>4, <1>5, <1>6 DEF ExitReleasesAll

\* destroy_call releases what the top call holds, and remove_argument's check succeeds.
LEMMA DestroyCallEffect ==
    ASSUME TypeOK, Holding, stack # <<>>, dvs' = DestroyCall(Top(stack))
    PROVE  /\ \A a \in Addr : IF a \in HeldAt(Len(stack)) THEN Released(a) ELSE Untouched(a)
           /\ dvs' \in [Addr -> DenotedValue \cup {Free}]
           /\ RemovesTop(Len(stack))
  <1> DEFINE n == Len(stack)
  <1>1. n \in 1..n /\ Top(stack) = stack[n]
    BY Typing DEF Top
  <1>2. \A a \in Addr : dvs'[a] = IF a \in HeldAt(n) THEN DestroyArgument(dvs[a]) ELSE dvs[a]
    BY <1>1 DEF DestroyCall, HeldAt
  <1>3. dvs \in [Addr -> DenotedValue \cup {Free}]
    BY DEF TypeOK
  <1>4. ASSUME NEW a \in HeldAt(n)
        PROVE  /\ a \in Addr /\ dvs[a] # Free /\ dvs[a] \in DenotedValue
               /\ dvs[a].arguments \in Seq(ArgumentRef) /\ dvs[a].arguments # <<>>
    <2>1. PICK j \in 1..Len(stack[n].args) : a = stack[n].args[j].dv
      BY DEF HeldAt
    <2>2. /\ Allocated(a)
          /\ dvs[a].arguments \in Seq(ArgumentRef) /\ dvs[a].arguments # <<>>
      BY <1>1, <2>1, TopArgumentIsLast DEF Holding
    <2> QED
      BY <1>3, <2>2 DEF Allocated
  <1>5. ASSUME NEW a \in HeldAt(n)
        PROVE  Released(a) /\ dvs'[a] \in DenotedValue \cup {Free}
    <2>1. dvs'[a] = DestroyArgument(dvs[a]) /\ dvs[a] \in DenotedValue
      BY <1>2, <1>4
    <2>2. CASE dvs[a].active
      <3>1. dvs'[a] = [dvs[a] EXCEPT !.arguments = Below(@)]
        BY <2>1, <2>2 DEF DestroyArgument, Below
      <3>2. Below(dvs[a].arguments) \in Seq(ArgumentRef)
        BY <1>4, BelowProperties
      <3>3. dvs'[a] \in DenotedValue
        BY <2>1, <3>1, <3>2 DEF DenotedValue
      <3>4. /\ dvs'[a].object = dvs[a].object /\ dvs'[a].active = dvs[a].active
            /\ dvs'[a].arguments = Below(dvs[a].arguments)
        BY <2>1, <3>1 DEF DenotedValue
      <3> QED
        BY <2>2, <3>3, <3>4, NothingAssumption DEF Released
    <2>3. CASE ~dvs[a].active
      BY <2>1, <2>3 DEF DestroyArgument, Released
    <2> QED
      BY <2>2, <2>3
  <1>6. ASSUME NEW a \in Addr, a \notin HeldAt(n)
        PROVE  Untouched(a) /\ dvs'[a] \in DenotedValue \cup {Free}
    BY <1>2, <1>3, <1>6 DEF Untouched
  <1>7. dvs' \in [Addr -> DenotedValue \cup {Free}]
    <2>1. \A a \in Addr : dvs'[a] \in DenotedValue \cup {Free}
      BY <1>5, <1>6
    <2>2. dvs' = [a \in Addr |-> dvs'[a]]
      BY DEF DestroyCall
    <2> QED
      BY <2>1, <2>2
  <1>8. RemovesTop(n)
    <2>1. SUFFICES ASSUME NEW j \in 1..Len(stack[n].args)
                   PROVE  LET args == dvs[stack[n].args[j].dv].arguments
                          IN  args[Len(args)] = [call |-> n, arg |-> j]
      BY DEF RemovesTop
    <2> QED
      BY <1>1, TopArgumentIsLast DEF Holding
  <1> QED
    BY <1>5, <1>6, <1>7, <1>8

\* A step of R alone changes nothing about who holds what.
LEMMA SameHolding ==
    ASSUME Holding, UNCHANGED <<stack, promises, dvs>>
    PROVE  Holding'
  <1>1. MapMatchesActive'
    BY DEF Holding, MapMatchesActive, Allocated
  <1>2. NoDanglingValue'
    BY DEF Holding, NoDanglingValue, Allocated
  <1>3. NoDanglingArgument'
    BY DEF Holding, NoDanglingArgument, Allocated
  <1>4. ForcedStaysAlive'
    BY DEF Holding, ForcedStaysAlive, Allocated
  <1>5. DeadHasOneHolder'
    BY DEF Holding, DeadHasOneHolder, Allocated
  <1> QED
    BY <1>1, <1>2, <1>3, <1>4, <1>5 DEF Holding

(***************************************************************************)
(* Every action preserves the invariant                                    *)
(***************************************************************************)

\* dyntrace_entry.
LEMMA DyntraceEntryKeeps ==
    ASSUME IInv, DyntraceEntry
    PROVE  IInv'
  <1>1. /\ phase' = "tracing" /\ rprom' \in [Promises -> NewPromises]
        /\ UNCHANGED <<rstack, stack, promises, dvs, jump, log>>
    BY DEF DyntraceEntry
  <1>2. TypeOK'
    <2>1. rprom' \in [Promises -> RPromise]
      BY <1>1, RTyping DEF IInv
    <2> QED
      BY <1>1, <2>1 DEF IInv, TypeOK
  <1>3. Holding'
    BY <1>1, SameHolding DEF IInv
  <1>4. StackMirrorsR' /\ FramesHold'
    BY <1>1 DEF IInv, StackMirrorsR, FramesHold, Allocated
  <1>5. WellFormedStacks' /\ ExitReleasesAll' /\ NoErrorLogged'
    BY <1>1 DEF IInv, WellFormedStacks, ExitReleasesAll, NoErrorLogged
  <1> QED
    BY <1>2, <1>3, <1>4, <1>5 DEF IInv

\* Contexts without Arguments and traces.
LEMMA EmptyContext ==
    ASSUME NEW type \in ContextTypes, NEW ref \in Ops \cup Addr \cup Ctxts
    PROVE  [type |-> type, ref |-> ref, args |-> <<>>, trace |-> <<>>] \in Context
  <1>1. <<>> \in Seq(Argument)
    OBVIOUS
  <1>2. <<>> \in [1..0 -> Types \cup {"missing", "any", DotsType}]
    OBVIOUS
  <1>3. <<>> \in UNION {[1..n -> Types \cup {"missing", "any", DotsType}] :
                        n \in {0} \cup {NumFormals[op] : op \in Ops}}
    BY <1>2
  <1> QED
    BY <1>1, <1>3 DEF Context

\* builtin_entry, special_entry and context_entry push a context and touch nothing else.
LEMMA PlainEntryKeeps ==
    ASSUME IInv, Running, NEW type \in {"builtin", "special", "context"},
           NEW ref \in Ops \cup Ctxts, NEW env \in PromiseEnvs,
           stack' = Append(stack, [type |-> type, ref |-> ref, args |-> <<>>, trace |-> <<>>]),
           rstack' = Append(rstack, [type |-> type, id |-> ref, env |-> env, vals |-> {}]),
           UNCHANGED <<phase, rprom, promises, dvs, jump, log>>,
           type = "context" =>
               \A i \in 1..Len(rstack) : ~(rstack[i].type = "context" /\ rstack[i].id = ref)
    PROVE  IInv'
  <1> DEFINE f == [type |-> type, ref |-> ref, args |-> <<>>, trace |-> <<>>]
             r == [type |-> type, id |-> ref, env |-> env, vals |-> {}]
  <1>1. type \in ContextTypes /\ type # "promise"
    BY DEF ContextTypes, CallTypes
  <1>2. f \in Context /\ r \in RFrame
    BY <1>1, EmptyContext DEF RFrame
  <1>3. f.args = <<>> /\ f.type = type /\ f.ref = ref /\ Len(f.args) = 0
    OBVIOUS
  <1>4. r.type = type /\ r.id = ref
    OBVIOUS
  <1>5. stack' = Append(stack, f) /\ rstack' = Append(rstack, r)
    OBVIOUS
  <1> HIDE DEF f, r
  <1>6. TypeOK'
    <2>1. stack' \in Seq(Context) /\ rstack' \in Seq(RFrame)
      BY <1>2, <1>5 DEF IInv, TypeOK
    <2> QED
      BY <2>1 DEF IInv, TypeOK
  <1>7. Holding'
    BY <1>1, <1>2, <1>3, <1>5, PushPlain DEF IInv
  <1>8. Persists
    BY DEF Persists
  <1>9. StackMirrorsR' /\ FramesHold' /\ WellFormedStacks' /\ ExitReleasesAll'
    <2>1. \A j \in 1..Len(f.args) :
             dvs'[f.args[j].dv] # Free /\ dvs'[f.args[j].dv].active =>
                 dvs'[f.args[j].dv].object \in r.vals
      BY <1>3
    <2> QED
      BY <1>1, <1>2, <1>3, <1>4, <1>5, <1>8, <2>1, PushMirrors
  <1> QED
    BY <1>6, <1>7, <1>9 DEF IInv, NoErrorLogged

LEMMA PrimitiveEntryKeeps ==
    ASSUME IInv, NEW op \in Ops, PrimitiveEntry(op)
    PROVE  IInv'
  <1>1. OpType[op] \in {"builtin", "special", "context"} /\ NoEnv \in PromiseEnvs
    BY DEF PrimitiveEntry, PromiseEnvs
  <1>2. OpType[op] # "context"
    BY DEF PrimitiveEntry
  <1> QED
    BY <1>1, <1>2, PlainEntryKeeps DEF PrimitiveEntry, Enter

LEMMA ContextEntryKeeps ==
    ASSUME IInv, NEW c \in Ctxts, ContextEntry(c)
    PROVE  IInv'
  <1> DEFINE env == IF rstack # <<>> /\ Top(rstack).type = "closure"
                    THEN Top(rstack).env ELSE GlobalEnv
  <1>1. env \in PromiseEnvs
    <2>1. rstack # <<>> => Top(rstack) \in RFrame
      BY BelowProperties DEF IInv, TypeOK
    <2> QED
      BY <2>1 DEF RFrame, PromiseEnvs
  <1>2. rstack' = Append(rstack, [type |-> "context", id |-> c, env |-> env, vals |-> {}])
    BY DEF ContextEntry, Enter
  <1> HIDE DEF env
  <1> QED
    BY <1>1, <1>2, PlainEntryKeeps DEF ContextEntry

\* promise_force_entry.
LEMMA PromiseForceEntryKeeps ==
    ASSUME IInv, NEW s \in Promises, NEW a \in Addr, PromiseForceEntry(s, a)
    PROVE  IInv'
  <1> DEFINE f == [type |-> "promise", ref |-> a, args |-> <<>>, trace |-> <<>>]
             r == [type |-> "promise", id |-> s, env |-> NoEnv, vals |-> {}]
             new == NewDenotedValue(s, <<>>)
  <1>1. f \in Context /\ r \in RFrame
    BY EmptyContext DEF RFrame, ContextTypes, PromiseEnvs
  <1>2. /\ f.args = <<>> /\ f.type = "promise" /\ f.ref = a /\ Len(f.args) = 0
        /\ r.type = "promise" /\ r.id = s
    OBVIOUS
  <1>3. /\ Running /\ stack' = Append(stack, f) /\ rstack' = Append(rstack, r)
        /\ promises' = [promises EXCEPT ![s] = a]
        /\ dvs' = IF dvs[a] = Free THEN [dvs EXCEPT ![a] = new] ELSE dvs
        /\ UNCHANGED <<phase, rprom, jump, log>>
    BY DEF PromiseForceEntry, Enter
  <1>4. IF promises[s] # Null THEN a = promises[s] ELSE dvs[a] = Free
    <2>1. Lookup(<<s>>, <<a>>)
      BY DEF PromiseForceEntry
    <2>2. 1 \in 1..Len(<<s>>) /\ <<s>>[1] = s /\ <<a>>[1] = a
      OBVIOUS
    <2> QED
      BY <2>1, <2>2 DEF Lookup
  <1>5. new \in DenotedValue
    <2>1. <<>> \in Seq(ArgumentRef)
      OBVIOUS
    <2> QED
      BY <2>1, NewIsDenotedValue DEF IInv
  <1> HIDE DEF f, r
  <1>6. Holding' /\ dvs'[a] # Free /\ dvs'[a].object = s
    BY <1>1, <1>2, <1>3, <1>4, <1>5, PushForced DEF IInv
  <1> HIDE DEF new
  <1>7. TypeOK'
    <2>1. stack' \in Seq(Context) /\ rstack' \in Seq(RFrame)
      BY <1>1, <1>3 DEF IInv, TypeOK
    <2> QED
      BY <1>3, <1>5, <2>1 DEF IInv, TypeOK
  <1>8. Persists
    BY <1>3 DEF Persists, IInv, TypeOK
  <1>9. StackMirrorsR' /\ FramesHold' /\ WellFormedStacks' /\ ExitReleasesAll'
    <2>1. \A j \in 1..Len(f.args) :
             dvs'[f.args[j].dv] # Free /\ dvs'[f.args[j].dv].active =>
                 dvs'[f.args[j].dv].object \in r.vals
      BY <1>2
    <2> QED
      BY <1>1, <1>2, <1>3, <1>6, <1>8, <2>1, PushMirrors
  <1> QED
    BY <1>3, <1>6, <1>7, <1>9 DEF IInv, NoErrorLogged

\* closure_exit, builtin_exit and special_exit.
LEMMA CallExitKeeps ==
    ASSUME IInv, NEW type \in CallTypes, CallExit(type)
    PROVE  IInv'
  <1> DEFINE n == Len(stack)
  <1>1. /\ Running /\ rstack # <<>> /\ Top(rstack).type = type /\ rstack' = Below(rstack)
        /\ UNCHANGED <<phase, rprom, promises, jump>>
    BY DEF CallExit, Leave
  <1>2. Len(rstack) = n /\ stack # <<>> /\ Top(stack).type = type
    BY <1>1, SameHeight
  <1>3. /\ stack' = Below(stack) /\ dvs' = DestroyCall(Top(stack))
        /\ RemovesTop(n) => log' = log
    BY <1>2 DEF CallExit, Matches
  <1>4. /\ \A a \in Addr : IF a \in HeldAt(n) THEN Released(a) ELSE Untouched(a)
        /\ dvs' \in [Addr -> DenotedValue \cup {Free}]
        /\ RemovesTop(n)
    BY <1>2, <1>3, DestroyCallEffect DEF IInv
  <1>5. /\ n \in Nat \ {0} /\ stack' \in Seq(Context) /\ Len(stack') = n - 1
        /\ \A h \in 1..(n - 1) : stack'[h] = stack[h]
    BY <1>2, <1>3, BelowProperties DEF IInv, TypeOK
  <1>6. /\ rstack' \in Seq(RFrame) /\ Len(rstack') = n - 1
        /\ \A h \in 1..(n - 1) : rstack'[h] = rstack[h]
    BY <1>1, <1>2, BelowProperties DEF IInv, TypeOK
  <1>7. TypeOK'
    BY <1>1, <1>3, <1>4, <1>5, <1>6 DEF IInv, TypeOK
  <1>8. Holding'
    BY <1>1, <1>2, <1>4, <1>5, <1>7, ReleaseTop DEF IInv
  <1>9. StackMirrorsR' /\ FramesHold' /\ WellFormedStacks' /\ ExitReleasesAll'
    <2>1. \A a \in Addr : dvs'[a] # Free =>
             dvs[a] # Free /\ dvs'[a].object = dvs[a].object /\ (dvs'[a].active => dvs[a].active)
      <3>1. SUFFICES ASSUME NEW a \in Addr, dvs'[a] # Free
                     PROVE  /\ dvs[a] # Free /\ dvs'[a].object = dvs[a].object
                            /\ dvs'[a].active => dvs[a].active
        OBVIOUS
      <3>2. CASE a \in HeldAt(n)
        <4>1. Released(a)
          BY <1>4, <3>2
        <4>2. dvs[a].active /\ dvs'[a].object = dvs[a].object
          BY <3>1, <4>1 DEF Released
        <4>3. dvs[a] # Free
          BY <1>2, <3>2, TopArgumentIsLast DEF IInv, Holding, HeldAt, Allocated, Top
        <4> QED
          BY <4>2, <4>3
      <3>3. CASE a \notin HeldAt(n)
        BY <1>4, <3>1, <3>3 DEF Untouched
      <3> QED
        BY <3>2, <3>3
    <2>2. \A i \in 1..Len(rstack') : i \in 1..Len(rstack) /\ rstack'[i] = rstack[i]
      BY <1>2, <1>5, <1>6
    <2>3. Len(rstack') = Len(stack') /\ jump' = NoJump /\ n - 1 \in Nat
      BY <1>1, <1>5, <1>6 DEF Running
    <2> QED
      BY <1>1, <1>2, <1>5, <1>6, <1>8, <2>1, <2>2, <2>3, PopMirrors DEF Running
  <1> QED
    BY <1>3, <1>4, <1>7, <1>8, <1>9 DEF IInv, NoErrorLogged

\* A pop that changes no DenotedValue, by R and the tracer together.
LEMMA PopOnlyKeeps ==
    ASSUME IInv, Running, rstack # <<>>, rstack' = Below(rstack), TypeOK',
           ~IsCall(Top(stack)),
           Len(stack') = Len(stack) - 1,
           \A h \in 1..(Len(stack) - 1) : /\ stack'[h].args = stack[h].args
                                          /\ stack'[h].type = stack[h].type
                                          /\ stack'[h].ref = stack[h].ref,
           UNCHANGED <<phase, promises, dvs, jump, log>>
    PROVE  IInv'
  <1> DEFINE n == Len(stack)
  <1>1. Len(rstack) = n /\ stack # <<>> /\ n \in Nat \ {0} /\ Top(stack) = stack[n] /\ n \in 1..n
    BY SameHeight DEF Top
  <1>2. Len(rstack') = n - 1 /\ \A h \in 1..(n - 1) : rstack'[h] = rstack[h]
    BY <1>1, BelowProperties DEF IInv, TypeOK
  <1>3. Holding'
    <2>1. Len(stack[n].args) = 0
      BY <1>1, EmptySeq DEF IInv, WellFormedStacks
    <2>2. \A a \in Addr : a \notin HeldAt(n) /\ Untouched(a)
      BY <2>1 DEF HeldAt, Untouched
    <2> QED
      BY <1>1, <2>2, ReleaseTop DEF IInv
  <1>4. StackMirrorsR' /\ FramesHold' /\ WellFormedStacks' /\ ExitReleasesAll'
    <2>1. \A i \in 1..Len(rstack') : i \in 1..Len(rstack) /\ rstack'[i] = rstack[i]
      BY <1>1, <1>2
    <2>2. Len(rstack') = Len(stack') /\ jump' = NoJump /\ n - 1 \in Nat
      BY <1>1, <1>2 DEF Running
    <2> QED
      BY <1>1, <1>2, <1>3, <2>1, <2>2, PopMirrors DEF Running
  <1> QED
    BY <1>3, <1>4 DEF IInv, NoErrorLogged

\* context_exit.
LEMMA ContextExitKeeps ==
    ASSUME IInv, ContextExit
    PROVE  IInv'
  <1>1. /\ Running /\ rstack # <<>> /\ Top(rstack).type = "context" /\ rstack' = Below(rstack)
        /\ UNCHANGED <<phase, rprom, promises, dvs, jump>>
    BY DEF ContextExit, Leave
  <1>2. stack # <<>> /\ Top(stack).type = "context"
    BY <1>1, SameHeight
  <1>3. stack' = Below(stack) /\ log' = log
    BY <1>2 DEF ContextExit, Matches
  <1>4. /\ stack' \in Seq(Context) /\ Len(stack') = Len(stack) - 1
        /\ \A h \in 1..(Len(stack) - 1) : stack'[h] = stack[h]
        /\ rstack' \in Seq(RFrame)
    BY <1>1, <1>2, <1>3, BelowProperties DEF IInv, TypeOK
  <1>5. TypeOK'
    BY <1>1, <1>3, <1>4 DEF IInv, TypeOK
  <1>6. ~IsCall(Top(stack))
    BY <1>2 DEF IsCall, CallTypes
  <1> QED
    BY <1>1, <1>3, <1>4, <1>5, <1>6, PopOnlyKeeps

\* promise_force_exit.  Only the types in the traces change.
LEMMA PromiseForceExitKeeps ==
    ASSUME IInv, NEW type \in Types, PromiseForceExit(type)
    PROVE  IInv'
  <1> DEFINE low == Below(stack)
             arguments == dvs[Top(stack).ref].arguments
             AnyType == Types \cup {"missing", "any", DotsType}
  <1>1. /\ Running /\ rstack # <<>> /\ Top(rstack).type = "promise" /\ rstack' = Below(rstack)
        /\ UNCHANGED <<phase, promises, dvs, jump>>
    BY DEF PromiseForceExit, Leave
  <1>2. stack # <<>> /\ Top(stack).type = "promise"
    BY <1>1, SameHeight
  <1>3. stack' = RecordType(low, arguments, type) /\ log' = log
    BY <1>2 DEF PromiseForceExit, Matches
  <1>4. /\ low \in Seq(Context) /\ Len(low) = Len(stack) - 1 /\ Len(low) \in Nat
        /\ \A h \in 1..(Len(stack) - 1) : low[h] = stack[h]
    <2>1. /\ low \in Seq(Context) /\ Len(stack) \in Nat \ {0} /\ Len(low) = Len(stack) - 1
          /\ \A h \in 1..(Len(stack) - 1) : low[h] = stack[h]
      BY <1>2, BelowProperties DEF IInv, TypeOK
    <2> HIDE DEF low
    <2> QED
      BY <2>1
  <1>5. rstack' \in Seq(RFrame) /\ Top(rstack) \in RFrame
    BY <1>1, BelowProperties DEF IInv, TypeOK
  <1> HIDE DEF low, arguments
  <1>6. /\ stack' \in Seq(Context) /\ Len(stack') = Len(low)
        /\ \A h \in 1..Len(low) : /\ stack'[h].args = low[h].args
                                  /\ stack'[h].type = low[h].type
                                  /\ stack'[h].ref = low[h].ref
    <2>1. ASSUME NEW h \in 1..Len(low)
          PROVE  /\ stack'[h] \in Context /\ stack'[h].args = low[h].args
                 /\ stack'[h].type = low[h].type /\ stack'[h].ref = low[h].ref
      <3> DEFINE new == stack'[h].trace
      <3>1. low[h] \in Context
        BY <1>4, ElementOfSeq
      <3>2. PICK n \in {0} \cup {NumFormals[op] : op \in Ops} : low[h].trace \in [1..n -> AnyType]
        BY <3>1 DEF Context
      <3>3. /\ stack'[h] = [low[h] EXCEPT !.trace = new]
            /\ \E P \in [1..n -> BOOLEAN] :
                  new = [p \in 1..n |-> IF P[p] THEN type ELSE low[h].trace[p]]
        <4> DEFINE Recorded(p) ==
                     \E k \in 1..Len(arguments) :
                         LET arg == low[h].args[arguments[k].arg]
                         IN  arguments[k].call = h /\ ~arg.dots /\ arg.pos = p
                   rec == [p \in 1..n |-> Recorded(p)]
        <4>1. stack'[h] = [low[h] EXCEPT !.trace =
                             [p \in 1..n |-> IF Recorded(p) THEN type ELSE low[h].trace[p]]]
          BY <1>3, <3>2 DEF RecordType
        <4>2. rec \in [1..n -> BOOLEAN] /\ \A p \in 1..n : rec[p] <=> Recorded(p)
          OBVIOUS
        <4> HIDE DEF Recorded, rec
        <4>3. [p \in 1..n |-> IF Recorded(p) THEN type ELSE low[h].trace[p]]
              = [p \in 1..n |-> IF rec[p] THEN type ELSE low[h].trace[p]]
          BY <4>2
        <4>4. new = [p \in 1..n |-> IF rec[p] THEN type ELSE low[h].trace[p]]
          BY <3>1, <4>1, <4>3 DEF Context
        <4> QED
          BY <4>1, <4>2, <4>3, <4>4
      <3>4. new \in [1..n -> AnyType]
        BY <3>2, <3>3
      <3>5. new \in UNION {[1..k -> AnyType] : k \in {0} \cup {NumFormals[op] : op \in Ops}}
        BY <3>4
      <3> HIDE DEF new
      <3> QED
        BY <3>1, <3>3, <3>5 DEF Context
    <2>2. stack' = [i \in 1..Len(low) |-> stack'[i]] /\ Len(stack') = Len(low)
      BY <1>3, <1>4 DEF RecordType
    <2>3. [i \in 1..Len(low) |-> stack'[i]] \in Seq(Context)
      BY <1>4, <2>1, IsASeq
    <2> QED
      BY <2>1, <2>2, <2>3
  <1>7. /\ Len(stack') = Len(stack) - 1
        /\ \A h \in 1..(Len(stack) - 1) : /\ stack'[h].args = stack[h].args
                                          /\ stack'[h].type = stack[h].type
                                          /\ stack'[h].ref = stack[h].ref
    BY <1>4, <1>6
  <1>8. TypeOK'
    <2>1. rprom' = [rprom EXCEPT ![Top(rstack).id].value = type,
                                 ![Top(rstack).id].env = NoEnv]
      BY DEF PromiseForceExit
    <2>2. rprom' \in [Promises -> RPromise]
      BY <2>1 DEF IInv, TypeOK, RPromise, PromiseEnvs
    <2> QED
      BY <1>1, <1>3, <1>5, <1>6, <2>2 DEF IInv, TypeOK
  <1>9. ~IsCall(Top(stack))
    BY <1>2 DEF IsCall, CallTypes
  <1> QED
    BY <1>1, <1>3, <1>7, <1>8, <1>9, PopOnlyKeeps

\* jump_single_context.  R has left all these contexts before the probe began.
LEMMA JumpStepKeeps ==
    ASSUME IInv, JumpStep
    PROVE  IInv'
  <1> DEFINE n == Len(stack)
             top == Top(stack)
  <1>1. /\ jump # NoJump /\ stack' = Below(stack)
        /\ UNCHANGED <<phase, rstack, rprom, promises>>
    BY DEF JumpStep
  <1>2. jump \in Jump /\ jump.target \in Nat /\ Len(rstack) = jump.target /\ jump.target < n
    BY <1>1 DEF IInv, TypeOK, StackMirrorsR, Jump
  <1>3. phase = "tracing"
    BY <1>1 DEF IInv, TypeOK, WellFormedStacks
  <1>4. stack # <<>>
    <2>1. n \in Nat /\ n # 0
      BY <1>2, Typing DEF IInv
    <2> QED
      BY <2>1, EmptySeq
  <1>5. /\ n \in Nat \ {0} /\ n \in 1..n /\ top = stack[n] /\ top \in Context
        /\ stack' \in Seq(Context) /\ Len(stack') = n - 1
        /\ \A h \in 1..(n - 1) : stack'[h] = stack[h]
    BY <1>1, <1>4, BelowProperties DEF IInv, TypeOK, Top
  <1>6. PICK promise \in BOOLEAN :
           /\ promise => top.type = "promise"
           /\ jump' = IF n - 1 = jump.target THEN NoJump
                      ELSE [jump EXCEPT !.marked = jump.marked + (IF promise THEN 1 ELSE 0)]
           /\ dvs' = IF IsCall(top) THEN DestroyCall(top)
                     ELSE IF promise
                          THEN [dvs EXCEPT ![top.ref].non_local_return = TRUE]
                          ELSE dvs
    <2> DEFINE IsNonLocalReturn == /\ top.type = "promise"
                                   /\ jump.returned /\ IsArgument(dvs[top.ref])
                                   /\ dvs[top.ref].env = jump.rho
    <2>1. CASE IsNonLocalReturn
      <3> WITNESS TRUE \in BOOLEAN
      <3> QED
        BY <2>1 DEF JumpStep
    <2>2. CASE ~IsNonLocalReturn
      <3> WITNESS FALSE \in BOOLEAN
      <3> QED
        BY <2>2 DEF JumpStep
    <2> QED
      BY <2>1, <2>2
  <1>7. /\ IsCall(top) => RemovesTop(n) /\ dvs' = DestroyCall(top)
        /\ ~IsCall(top) => HeldAt(n) = {}
    <2>1. IsCall(top) => RemovesTop(n)
      BY <1>4, <1>6, DestroyCallEffect DEF IInv
    <2>2. ASSUME ~IsCall(top) PROVE HeldAt(n) = {}
      <3>1. Len(stack[n].args) = 0
        BY <1>5, <2>2, EmptySeq DEF IInv, WellFormedStacks
      <3> QED
        BY <3>1 DEF HeldAt
    <2> QED
      BY <1>5, <1>6, <2>1, <2>2
  <1>8. log' = log
    BY <1>7 DEF JumpStep
  <1>9. /\ dvs' \in [Addr -> DenotedValue \cup {Free}]
        /\ \A a \in Addr : IF a \in HeldAt(n) THEN Released(a) ELSE Untouched(a)
    <2>1. CASE IsCall(top)
      BY <1>4, <1>7, <2>1, DestroyCallEffect DEF IInv
    <2>2. CASE ~IsCall(top) /\ ~promise
      BY <1>6, <1>7, <2>2 DEF IInv, TypeOK, Untouched
    <2>3. CASE ~IsCall(top) /\ promise
      <3> DEFINE a == top.ref
      <3>1. dvs' = [dvs EXCEPT ![a].non_local_return = TRUE] /\ top.type = "promise"
        BY <1>6, <2>3
      <3>2. a \in Addr /\ dvs[a] \in DenotedValue
        BY <1>5, <3>1, Typing DEF IInv, Holding, ForcedStaysAlive, Allocated
      <3>3. dvs \in [Addr -> DenotedValue \cup {Free}]
        BY DEF IInv, TypeOK
      <3>4. dvs'[a] = [dvs[a] EXCEPT !.non_local_return = TRUE]
        BY <3>1, <3>2, <3>3
      <3>5. /\ dvs'[a] \in DenotedValue /\ dvs'[a].object = dvs[a].object
            /\ dvs'[a].active = dvs[a].active /\ dvs'[a].arguments = dvs[a].arguments
        BY <3>2, <3>4 DEF DenotedValue
      <3>6. \A b \in Addr : b # a => dvs'[b] = dvs[b]
        BY <3>1, <3>3
      <3>7. dvs' \in [Addr -> DenotedValue \cup {Free}]
        BY <3>1, <3>2, <3>3, <3>4, <3>5
      <3>8. \A b \in Addr : Untouched(b)
        BY <3>2, <3>5, <3>6, NothingAssumption DEF Untouched
      <3> QED
        BY <1>7, <2>3, <3>7, <3>8
    <2> QED
      BY <2>1, <2>2, <2>3
  <1>10. TypeOK'
    <2>1. jump' \in Jump \cup {NoJump}
      BY <1>2, <1>6 DEF Jump
    <2> QED
      BY <1>1, <1>5, <1>8, <1>9, <2>1 DEF IInv, TypeOK
  <1>11. Holding'
    BY <1>1, <1>4, <1>5, <1>9, <1>10, ReleaseTop DEF IInv
  <1>12. StackMirrorsR' /\ FramesHold' /\ WellFormedStacks' /\ ExitReleasesAll'
    <2>1. \A a \in Addr : dvs'[a] # Free =>
             dvs[a] # Free /\ dvs'[a].object = dvs[a].object /\ (dvs'[a].active => dvs[a].active)
      <3>1. SUFFICES ASSUME NEW a \in Addr, dvs'[a] # Free
                     PROVE  /\ dvs[a] # Free /\ dvs'[a].object = dvs[a].object
                            /\ dvs'[a].active => dvs[a].active
        OBVIOUS
      <3>2. CASE a \in HeldAt(n)
        <4>1. Released(a)
          BY <1>9, <3>2
        <4>2. dvs[a].active /\ dvs'[a].object = dvs[a].object
          BY <3>1, <4>1 DEF Released
        <4>3. dvs[a] # Free
          BY <1>4, <3>2, TopArgumentIsLast DEF IInv, Holding, HeldAt, Allocated, Top
        <4> QED
          BY <4>2, <4>3
      <3>3. CASE a \notin HeldAt(n)
        BY <1>9, <3>1, <3>3 DEF Untouched
      <3> QED
        BY <3>2, <3>3
    <2>2. \A i \in 1..Len(rstack') : i \in 1..Len(rstack) /\ rstack'[i] = rstack[i]
      BY <1>1
    <2>3. Len(rstack') = jump.target /\ jump.target <= n - 1
      BY <1>1, <1>2, <1>5
    <2>4. CASE n - 1 = jump.target
      <3>1. jump' = NoJump
        BY <1>6, <2>4
      <3> QED
        BY <1>1, <1>2, <1>3, <1>4, <1>5, <1>11, <2>1, <2>2, <2>3, <2>4, <3>1, PopMirrors
    <2>5. CASE n - 1 # jump.target
      <3>1. jump' \in Jump /\ jump'.target = jump.target
        BY <1>2, <1>6, <2>5 DEF Jump
      <3>2. jump' # NoJump /\ jump'.target < n - 1
        BY <1>2, <1>5, <2>3, <2>5, <3>1, NothingAssumption
      <3> QED
        BY <1>1, <1>2, <1>3, <1>4, <1>5, <1>11, <2>1, <2>2, <2>3, <3>1, <3>2, PopMirrors
    <2> QED
      BY <2>4, <2>5
  <1> QED
    BY <1>8, <1>10, <1>11, <1>12 DEF IInv, NoErrorLogged

\* context_jump finds its target: unwind_stack leaves the context at R's own height.
LEMMA ContextJumpKeeps ==
    ASSUME IInv, NEW i \in 1..Len(rstack), ContextJump(i)
    PROVE  IInv'
  <1> DEFINE n == Len(stack)
             cptr == rstack[i].id
             returned == n - i > 1 /\ Top(stack).type = "special" /\ Top(stack).ref = ReturnOp
  <1>1. /\ Running /\ rstack[i].type = "context" /\ rstack' = SubSeq(rstack, 1, i)
        /\ UNCHANGED <<phase, rprom, stack, promises, dvs>>
    BY DEF ContextJump
  <1>2. Len(rstack) = n /\ n \in Nat /\ i \in 1..n
    BY <1>1, SameHeight, Typing DEF IInv
  <1>3. UnwindPoint(stack, cptr) = i
    <2>1. stack \in Seq(Context)
      BY DEF IInv, TypeOK
    <2>2. stack[i].type = "context" /\ stack[i].ref = cptr
      BY <1>1 DEF IInv, StackMirrorsR
    <2>3. ASSUME NEW k \in 1..n, stack[k].type = "context", stack[k].ref = stack[i].ref
          PROVE  k = i
      <3>1. rstack[k].type = "context" /\ rstack[k].id = cptr
        BY <1>2, <2>2, <2>3 DEF IInv, StackMirrorsR
      <3> QED
        BY <1>1, <1>2, <2>3, <3>1 DEF IInv, WellFormedStacks
    <2> QED
      BY <1>2, <2>1, <2>2, <2>3, UnwindFinds
  <1>4. /\ log' = log
        /\ jump' = IF n - i = 0 THEN NoJump
                   ELSE [target |-> i, rho |-> rstack[i].env,
                         returned |-> returned, marked |-> 0]
    <2>1. i # 0 /\ i \in Nat
      BY <1>2
    <2> DEFINE target == UnwindPoint(stack, rstack[i].id)
               count == Len(stack) - target
               Marked(h) == [target |-> h, rho |-> rstack[i].env,
                             returned |-> /\ Len(stack) - h > 1
                                          /\ Top(stack).type = "special"
                                          /\ Top(stack).ref = ReturnOp,
                             marked |-> 0]
    <2>2. IF target = 0
          THEN log' = "cannot find matching context while unwinding" /\ jump' = jump
          ELSE log' = log /\ jump' = IF Len(stack) - target = 0 THEN NoJump ELSE Marked(target)
      BY DEF ContextJump
    <2>3. target = i
      BY <1>3
    <2> HIDE DEF target, Marked
    <2>4. log' = log /\ jump' = IF Len(stack) - i = 0 THEN NoJump ELSE Marked(i)
      BY <2>1, <2>2, <2>3
    <2> QED
      BY <2>4 DEF Marked
  <1>5. /\ rstack' \in Seq(RFrame) /\ Len(rstack') = i
        /\ \A k \in 1..i : k \in 1..Len(rstack) /\ rstack'[k] = rstack[k]
    <2>1. rstack \in Seq(RFrame) /\ i \in Nat
      BY <1>2 DEF IInv, TypeOK
    <2>2. \A k \in 1..i : k \in 1..Len(rstack) /\ rstack[k] \in RFrame
      BY <1>2, RTyping DEF IInv
    <2>3. /\ rstack' \in Seq(RFrame) /\ Len(rstack') = IF 1 <= i THEN i - 1 + 1 ELSE 0
          /\ \A k \in 1..(i - 1 + 1) : rstack'[k] = rstack[1 + k - 1]
      BY <1>1, <2>1, <2>2, SubSeqProperties
    <2>4. Len(rstack') = i
      BY <1>2, <2>3
    <2>5. ASSUME NEW k \in 1..i PROVE rstack'[k] = rstack[k]
      <3>1. k \in 1..(i - 1 + 1) /\ 1 + k - 1 = k
        BY <1>2
      <3> QED
        BY <2>3, <3>1
    <2> QED
      BY <2>2, <2>3, <2>4, <2>5
  <1>6. /\ n - i = 0 => jump' = NoJump
        /\ n - i # 0 => jump' \in Jump /\ jump' # NoJump /\ jump'.target = i /\ i < n
    <2>1. CASE n - i = 0
      BY <1>4, <2>1
    <2>2. CASE n - i # 0
      <3>1. returned \in BOOLEAN
        OBVIOUS
      <3>2. rstack[i].env \in PromiseEnvs /\ i \in Nat /\ i < n
        BY <1>2, <2>2, RTyping DEF IInv
      <3> HIDE DEF returned
      <3>3. jump' \in Jump /\ jump'.target = i
        BY <1>4, <2>2, <3>1, <3>2 DEF Jump
      <3> QED
        BY <2>2, <3>2, <3>3, NothingAssumption
    <2> QED
      BY <2>1, <2>2
  <1>7. TypeOK'
    BY <1>1, <1>4, <1>5, <1>6 DEF IInv, TypeOK
  <1>8. Holding'
    BY <1>1, SameHolding DEF IInv
  <1>9. StackMirrorsR'
    <2>1. Len(rstack') = IF jump' = NoJump THEN n ELSE jump'.target
      BY <1>2, <1>5, <1>6
    <2>2. jump' # NoJump => jump'.target < n
      BY <1>2, <1>6
    <2>3. ASSUME NEW k \in 1..Len(rstack')
          PROVE  /\ k \in 1..Len(rstack) /\ rstack'[k] = rstack[k]
      BY <1>5
    <2> QED
      BY <1>1, <2>1, <2>2, <2>3 DEF IInv, StackMirrorsR, Allocated
  <1>10. FramesHold'
    BY <1>1, <1>5 DEF IInv, FramesHold
  <1>11. WellFormedStacks' /\ ExitReleasesAll'
    BY <1>1, <1>5 DEF IInv, WellFormedStacks, ExitReleasesAll, Running
  <1> QED
    BY <1>4, <1>7, <1>8, <1>9, <1>10, <1>11 DEF IInv, NoErrorLogged

\* A value that two calls hold is one that R does not free: so what the collector has
\* freed has one holder, or none and is deleted.
LEMMA CollectedHasOneHolder ==
    ASSUME IInv, Running, NEW s \in Promises, promises[s] # Null,
           \A i, k \in 1..Len(rstack) : s \in rstack[i].vals /\ s \in rstack[k].vals => i = k
    PROVE  Len(dvs[promises[s]].arguments) \in {0, 1}
  <1> DEFINE a == promises[s]
             args == dvs[a].arguments
  <1>1. a \in Addr /\ dvs[a] # Free /\ dvs[a].active /\ dvs[a].object = s
    BY DEF IInv, Holding, MapMatchesActive, Allocated
  <1>2. Len(args) \in Nat
    BY <1>1, Typing DEF IInv
  <1>3. SUFFICES ASSUME Len(args) > 1 PROVE FALSE
    <2> DEFINE count == Len(args)
    <2>1. count \in Nat /\ ~(count > 1)
      BY <1>2
    <2> HIDE DEF count
    <2>2. count \in {0, 1}
      BY <2>1
    <2> QED
      BY <2>2 DEF count
  <1>4. 1 \in 1..Len(args) /\ 2 \in 1..Len(args)
    BY <1>2, <1>3
  <1>5. ASSUME NEW k \in 1..Len(args)
        PROVE  args[k].call \in 1..Len(rstack) /\ s \in rstack[args[k].call].vals
    <2>1. /\ args[k].call \in 1..Len(stack)
          /\ args[k].arg \in 1..Len(stack[args[k].call].args)
          /\ stack[args[k].call].args[args[k].arg].dv = a
      BY <1>1 DEF IInv, Holding, NoDanglingArgument, Allocated
    <2>2. args[k].call \in 1..Len(rstack)
      BY <2>1, SameHeight
    <2> QED
      BY <1>1, <2>1, <2>2 DEF IInv, FramesHold
  <1>6. args[1].call < args[2].call /\ args[1].call \in Nat
    <2>1. \A k, l \in 1..Len(args) : k < l => args[k].call < args[l].call
      BY <1>1 DEF IInv, Holding, NoDanglingArgument, Allocated
    <2> QED
      BY <1>1, <1>4, <2>1, Typing DEF IInv
  <1>7. args[1].call = args[2].call
    BY <1>4, <1>5
  <1> QED
    BY <1>6, <1>7

\* gc_promise_unmark.
LEMMA GcUnmarkKeeps ==
    ASSUME IInv, NEW s \in Promises, GcUnmark(s)
    PROVE  IInv'
  <1> DEFINE a == promises[s]
  <1>1. /\ Running /\ UNCHANGED <<phase, stack, jump, log>>
        /\ \A i \in 1..Len(rstack) : ~(rstack[i].type = "promise" /\ rstack[i].id = s)
        /\ \A i, k \in 1..Len(rstack) : s \in rstack[i].vals /\ s \in rstack[k].vals => i = k
        /\ promises' = [promises EXCEPT ![s] = Null]
    BY DEF GcUnmark
  <1>2. Len(rstack) = Len(stack)
    BY <1>1, SameHeight
  <1>3. \A t \in Promises : promises'[t] = IF t = s THEN Null ELSE promises[t]
    BY <1>1 DEF IInv, TypeOK
  <1>4. a # Null => /\ a \in Addr /\ dvs[a] # Free /\ dvs[a] \in DenotedValue
                    /\ dvs[a].active /\ dvs[a].object = s
                    /\ dvs[a].arguments \in Seq(ArgumentRef)
    <2>1. a # Null => a \in Addr /\ dvs[a] # Free /\ dvs[a].active /\ dvs[a].object = s
      BY DEF IInv, Holding, MapMatchesActive, Allocated
    <2> QED
      BY <2>1, Typing DEF IInv
  <1>5. ASSUME NEW b \in Addr PROVE dvs'[b] = IF b = a THEN DestroyPromise(dvs[b]) ELSE dvs[b]
    <2>1. dvs' = IF a = Null THEN dvs ELSE [dvs EXCEPT ![a] = DestroyPromise(@)]
      BY DEF GcUnmark
    <2> QED
      BY <1>4, <2>1, DistinctAssumption DEF IInv, TypeOK
  <1>6. ASSUME NEW b \in Addr, b # a, dvs[b] # Free, dvs[b].active
        PROVE  dvs[b].object # s
    BY <1>6 DEF IInv, Holding, MapMatchesActive, Allocated
  \* A value that some call holds stays, with its argument stack.
  <1>7. ASSUME NEW b \in Addr, dvs[b] # Free
        PROVE  /\ dvs[b].arguments # <<>> \/ b # a => dvs'[b] # Free
               /\ dvs'[b] # Free => /\ dvs'[b] \in DenotedValue
                                    /\ dvs'[b].object = dvs[b].object
                                    /\ dvs'[b].arguments = dvs[b].arguments
                                    /\ dvs'[b].active => dvs[b].active /\ b # a
                                    /\ b # a => dvs'[b] = dvs[b]
                                    /\ b = a => dvs[b].arguments # <<>>
    <2>1. dvs[b] \in DenotedValue
      BY <1>7, Typing DEF IInv
    <2>2. CASE b # a
      BY <1>5, <1>7, <2>1, <2>2
    <2>3. CASE b = a /\ dvs[b].arguments = <<>>
      BY <1>5, <2>3 DEF DestroyPromise, IsArgument
    <2>4. CASE b = a /\ dvs[b].arguments # <<>>
      <3>1. dvs'[b] = [dvs[b] EXCEPT !.active = FALSE]
        BY <1>5, <2>4 DEF DestroyPromise, IsArgument
      <3>2. /\ dvs'[b] \in DenotedValue /\ dvs'[b].object = dvs[b].object
            /\ dvs'[b].arguments = dvs[b].arguments /\ ~dvs'[b].active
        BY <2>1, <3>1 DEF DenotedValue
      <3> QED
        BY <2>4, <3>2, NothingAssumption
    <2> QED
      BY <2>2, <2>3, <2>4
  <1>8. ASSUME NEW b \in Addr, dvs[b] = Free PROVE dvs'[b] = Free
    BY <1>4, <1>5, <1>8, DistinctAssumption
  <1>9. ASSUME NEW h \in 1..Len(stack), NEW j \in 1..Len(stack[h].args)
        PROVE  LET b == stack[h].args[j].dv
               IN  /\ b \in Addr /\ dvs[b] # Free /\ dvs[b].arguments # <<>>
                   /\ \E k \in 1..Len(dvs[b].arguments) :
                         dvs[b].arguments[k] = [call |-> h, arg |-> j]
    <2> DEFINE b == stack[h].args[j].dv
    <2>1. /\ b \in Addr /\ dvs[b] # Free
          /\ \E k \in 1..Len(dvs[b].arguments) :
                dvs[b].arguments[k] = [call |-> h, arg |-> j]
      BY DEF IInv, Holding, NoDanglingValue, Allocated
    <2>2. 1..Len(dvs[b].arguments) # {} /\ Len(dvs[b].arguments) \in Nat
      BY <2>1, Typing DEF IInv
    <2>3. dvs[b].arguments # <<>>
      BY <2>2
    <2> QED
      BY <2>1, <2>3
  \* What is being forced is not what was freed.
  <1>10. ASSUME NEW h \in 1..Len(stack), stack[h].type = "promise"
         PROVE  LET b == stack[h].ref
                IN  b \in Addr /\ b # a /\ dvs[b] # Free /\ dvs[b].active
                       /\ dvs'[b] = dvs[b] /\ dvs[b].object = rstack[h].id
    <2> DEFINE b == stack[h].ref
    <2>1. /\ b \in Addr /\ dvs[b] # Free /\ dvs[b].active /\ dvs[b].object = rstack[h].id
          /\ rstack[h].type = "promise"
      BY <1>2, <1>10 DEF IInv, Holding, ForcedStaysAlive, StackMirrorsR, Allocated
    <2>2. b # a
      BY <1>1, <1>2, <1>4, <2>1, DistinctAssumption
    <2> QED
      BY <1>5, <2>1, <2>2
  <1>11. /\ rstack' \in Seq(RFrame) /\ Len(rstack') = Len(rstack)
         /\ \A i \in 1..Len(rstack) : /\ rstack'[i].type = rstack[i].type
                                      /\ rstack'[i].id = rstack[i].id
                                      /\ rstack'[i].vals = rstack[i].vals \ {s}
    <2>1. rstack' = [i \in 1..Len(rstack) |-> [rstack[i] EXCEPT !.vals = @ \ {s}]]
      BY DEF GcUnmark
    <2>2. Len(rstack) \in Nat /\ \A i \in 1..Len(rstack) : rstack[i] \in RFrame
      BY RTyping DEF IInv
    <2>3. \A i \in 1..Len(rstack) :
             /\ rstack'[i] \in RFrame
             /\ rstack'[i].type = rstack[i].type /\ rstack'[i].id = rstack[i].id
             /\ rstack'[i].vals = rstack[i].vals \ {s}
      BY <2>1, <2>2 DEF RFrame
    <2>4. rstack' \in Seq(RFrame)
      <3>1. \A i \in 1..Len(rstack) : [rstack[i] EXCEPT !.vals = @ \ {s}] \in RFrame
        BY <2>2 DEF RFrame
      <3> QED
        BY <2>1, <2>2, <3>1, IsASeq
    <2> QED
      BY <2>1, <2>2, <2>3, <2>4
  <1> HIDE DEF a
  <1>12. TypeOK'
    <2>1. promises' \in [Promises -> Addr \cup {Null}]
      BY <1>1 DEF IInv, TypeOK
    <2>2. dvs' \in [Addr -> DenotedValue \cup {Free}]
      <3>1. \A b \in Addr : dvs'[b] \in DenotedValue \cup {Free}
        BY <1>7, <1>8
      <3>2. dvs' = [b \in Addr |-> dvs'[b]]
        <4>1. dvs = [b \in Addr |-> dvs[b]]
          BY DEF IInv, TypeOK
        <4>2. dvs' = dvs \/ dvs' = [dvs EXCEPT ![a] = DestroyPromise(@)]
          BY DEF GcUnmark, a
        <4> QED
          BY <4>1, <4>2
      <3> QED
        BY <3>1, <3>2
    <2>3. rprom' \in [Promises -> RPromise]
      BY RTyping DEF GcUnmark, IInv, TypeOK
    <2> QED
      BY <1>1, <1>11, <2>1, <2>2, <2>3 DEF IInv, TypeOK
  <1>13. MapMatchesActive'
    <2>1. ASSUME NEW t \in Promises, promises'[t] # Null
          PROVE  promises'[t] \in Addr /\ dvs'[promises'[t]] # Free
                   /\ dvs'[promises'[t]].active /\ dvs'[promises'[t]].object = t
      <3>1. t # s /\ promises'[t] = promises[t]
        BY <1>3, <2>1
      <3>2. /\ promises[t] \in Addr /\ dvs[promises[t]] # Free
            /\ dvs[promises[t]].active /\ dvs[promises[t]].object = t
        BY <2>1, <3>1 DEF IInv, Holding, MapMatchesActive, Allocated
      <3>3. promises[t] # a
        BY <1>4, <3>1, <3>2, DistinctAssumption
      <3> QED
        BY <1>7, <3>1, <3>2, <3>3
    <2>2. ASSUME NEW b \in Addr, dvs'[b] # Free, dvs'[b].active
          PROVE  dvs'[b].object \in Promises /\ promises'[dvs'[b].object] = b
      <3>1. dvs[b] # Free /\ b # a /\ dvs'[b] = dvs[b] /\ dvs[b].active
        BY <1>7, <1>8, <2>2
      <3>2. dvs[b].object \in Promises /\ promises[dvs[b].object] = b /\ dvs[b].object # s
        BY <1>6, <3>1 DEF IInv, Holding, MapMatchesActive, Allocated
      <3> QED
        BY <1>3, <3>1, <3>2
    <2> QED
      BY <2>1, <2>2 DEF MapMatchesActive, Allocated
  <1>14. NoDanglingValue'
    <2>1. SUFFICES ASSUME NEW h \in 1..Len(stack), NEW j \in 1..Len(stack[h].args)
                   PROVE  LET b == stack[h].args[j].dv
                          IN  /\ b \in Addr /\ dvs'[b] # Free
                              /\ \E k \in 1..Len(dvs'[b].arguments) :
                                    dvs'[b].arguments[k] = [call |-> h, arg |-> j]
      BY <1>1 DEF NoDanglingValue, Allocated
    <2> DEFINE b == stack[h].args[j].dv
    <2>2. b \in Addr /\ dvs[b] # Free /\ dvs[b].arguments # <<>>
      BY <1>9
    <2>3. dvs'[b] # Free /\ dvs'[b].arguments = dvs[b].arguments
      BY <1>7, <2>2
    <2>4. \E k \in 1..Len(dvs[b].arguments) : dvs[b].arguments[k] = [call |-> h, arg |-> j]
      BY <1>9
    <2> HIDE DEF b
    <2>5. \E k \in 1..Len(dvs'[b].arguments) : dvs'[b].arguments[k] = [call |-> h, arg |-> j]
      BY <2>3, <2>4
    <2> QED
      BY <2>2, <2>3, <2>5 DEF b
  <1>15. NoDanglingArgument'
    <2>1. SUFFICES ASSUME NEW b \in Addr, dvs'[b] # Free
                   PROVE  LET args == dvs'[b].arguments
                          IN  /\ \A k \in 1..Len(args) :
                                    /\ args[k].call \in 1..Len(stack)
                                    /\ args[k].arg \in 1..Len(stack[args[k].call].args)
                                    /\ stack[args[k].call].args[args[k].arg].dv = b
                              /\ \A k, l \in 1..Len(args) : k < l => args[k].call < args[l].call
      BY <1>1 DEF NoDanglingArgument, Allocated
    <2>2. dvs[b] # Free /\ dvs'[b].arguments = dvs[b].arguments
      BY <1>7, <1>8, <2>1
    <2> QED
      BY <2>2 DEF IInv, Holding, NoDanglingArgument, Allocated
  <1>16. ForcedStaysAlive'
    BY <1>1, <1>10 DEF ForcedStaysAlive, Allocated
  <1>17. DeadHasOneHolder'
    <2>1. SUFFICES ASSUME NEW b \in Addr, dvs'[b] # Free, ~dvs'[b].active
                   PROVE  Len(dvs'[b].arguments) = 1
      BY DEF DeadHasOneHolder, Allocated
    <2>2. dvs[b] # Free /\ dvs'[b].arguments = dvs[b].arguments
      BY <1>7, <1>8, <2>1
    <2>3. CASE b # a
      <3>1. ~dvs[b].active
        BY <1>7, <2>1, <2>2, <2>3
      <3> QED
        BY <2>2, <3>1 DEF IInv, Holding, DeadHasOneHolder, Allocated
    <2>4. CASE b = a
      <3>1. dvs[b].arguments # <<>> /\ dvs[b].arguments \in Seq(ArgumentRef)
        BY <1>7, <2>1, <2>2, <2>4, Typing DEF IInv
      <3>2. promises[s] # Null
        BY <2>4, DistinctAssumption DEF a
      <3>3. Len(dvs[b].arguments) \in {0, 1}
        BY <1>1, <2>4, <3>2, CollectedHasOneHolder DEF a
      <3>4. Len(dvs[b].arguments) # 0
        BY <3>1, EmptySeq
      <3> QED
        BY <2>2, <3>3, <3>4
    <2> QED
      BY <2>3, <2>4
  <1>18. StackMirrorsR'
    <2>1. Len(rstack') = Len(stack') /\ jump' = NoJump
      BY <1>1, <1>2, <1>11 DEF Running
    <2>2. ASSUME NEW i \in 1..Len(rstack)
          PROVE  /\ stack[i].type = rstack'[i].type
                 /\ stack[i].type # "promise" => stack[i].ref = rstack'[i].id
                 /\ stack[i].type = "promise" =>
                       /\ stack[i].ref \in Addr /\ dvs'[stack[i].ref] # Free
                       /\ dvs'[stack[i].ref].object = rstack'[i].id
      <3>1. /\ stack[i].type = rstack[i].type
            /\ stack[i].type # "promise" => stack[i].ref = rstack[i].id
        BY DEF IInv, StackMirrorsR
      <3>2. rstack'[i].type = rstack[i].type /\ rstack'[i].id = rstack[i].id
        BY <1>11
      <3> QED
        BY <1>2, <1>10, <3>1, <3>2
    <2> QED
      BY <1>1, <1>11, <2>1, <2>2 DEF StackMirrorsR, Allocated
  <1>19. FramesHold'
    <2>1. SUFFICES ASSUME NEW h \in 1..Len(rstack), NEW j \in 1..Len(stack[h].args),
                          dvs'[stack[h].args[j].dv] # Free,
                          dvs'[stack[h].args[j].dv].active
                   PROVE  dvs'[stack[h].args[j].dv].object \in rstack'[h].vals
      BY <1>1, <1>11 DEF FramesHold
    <2> DEFINE b == stack[h].args[j].dv
    <2>2. b \in Addr /\ dvs[b] # Free
      BY <1>2, <1>9
    <2>3. b # a /\ dvs'[b] = dvs[b] /\ dvs[b].active
      BY <1>7, <2>1, <2>2
    <2>4. dvs[b].object \in rstack[h].vals /\ dvs[b].object # s
      BY <1>6, <2>2, <2>3 DEF IInv, FramesHold
    <2> QED
      BY <1>11, <2>3, <2>4
  <1>20. WellFormedStacks' /\ ExitReleasesAll'
    BY <1>1, <1>11 DEF IInv, WellFormedStacks, ExitReleasesAll, Running
  <1> QED
    BY <1>1, <1>12, <1>13, <1>14, <1>15, <1>16, <1>17, <1>18, <1>19, <1>20
       DEF IInv, Holding, NoErrorLogged

\* process_closure_arguments_ numbers the formals from 1, and passes each but `...' once.
LEMMA FormalPositions ==
    ASSUME NEW op \in Ops, NEW m \in ArgumentCounts(op)
    PROVE  /\ m \in Nat
           /\ \A j \in 1..m : FormalPosition(op, m, j) \in Nat
           /\ \A p \in 1..NumFormals[op] : p # DotsAt[op] =>
                 \E j \in 1..m : FormalPosition(op, m, j) = p
  <1> DEFINE d == DotsAt[op]
             nf == NumFormals[op]
             k == m - nf + 1
  <1>1. d \in Nat /\ nf \in Nat /\ d <= nf /\ MaxDots \in Nat \ {0}
    BY OpAssumption, BoundAssumption
  <1>2. m \in Nat /\ (d = 0 => m = nf) /\ m >= nf
    BY <1>1 DEF ArgumentCounts
  <1>3. \A j : FormalPosition(op, m, j) =
                  IF d = 0 \/ j < d THEN j ELSE IF j < d + k THEN d ELSE j - k + 1
    BY DEF FormalPosition
  <1> HIDE DEF d, nf
  <1>4. \A j \in 1..m : FormalPosition(op, m, j) \in Nat
    BY <1>1, <1>2, <1>3
  <1>5. ASSUME NEW p \in 1..nf, p # d
        PROVE  \E j \in 1..m : FormalPosition(op, m, j) = p
    <2>1. CASE d = 0 \/ p < d
      BY <1>1, <1>2, <1>3, <2>1
    <2>2. CASE ~(d = 0 \/ p < d)
      <3>1. p + k - 1 \in 1..m /\ ~(p + k - 1 < d) /\ ~(p + k - 1 < d + k)
        BY <1>1, <1>2, <1>5, <2>2
      <3>2. FormalPosition(op, m, p + k - 1) = p
        BY <1>1, <1>2, <1>3, <2>2, <3>1
      <3> QED
        BY <3>1, <3>2
    <2> QED
      BY <2>1, <2>2
  <1> QED
    BY <1>2, <1>4, <1>5 DEF d, nf

\* closure_entry.
LEMMA ClosureEntryKeeps ==
    ASSUME IInv, NEW op \in Ops, NEW m \in ArgumentCounts(op), OpType[op] = "closure",
           NEW vals \in [1..m -> Promises \cup NonPromises], NEW addr \in [1..m -> Addr],
           ClosureEntry(op, vals, addr)
    PROVE  IInv'
  <1> DEFINE rho == CHOOSE e \in Envs : IsFresh(e)
             held == {s \in Promises : {j \in 1..Len(vals) : vals[j] = s} # {}}
             f == [type |-> "closure", ref |-> op, args |-> ClosureArguments(op, addr),
                   trace |-> InitialTrace(op, vals)]
             r == [type |-> "closure", id |-> op, env |-> rho, vals |-> held]
             AnyType == Types \cup {"missing", "any", DotsType}
  <1>1. /\ Running /\ stack' = Append(stack, f) /\ rstack' = Append(rstack, r)
        /\ UNCHANGED <<phase, rprom, jump, log>>
        /\ \E e \in Envs : IsFresh(e)
    BY DEF ClosureEntry, Enter
  <1>2. m \in Nat /\ Len(addr) = m /\ Len(vals) = m
    BY FormalPositions
  <1>3. BindsAll(m, vals, addr)
    BY <1>2, BindEffect
  <1>4. f.args \in Seq(Argument) /\ Len(f.args) = m /\ \A j \in 1..m : f.args[j].dv = addr[j]
    <2>1. ASSUME NEW j \in 1..m
          PROVE  [pos |-> FormalPosition(op, m, j), dots |-> InDots(op, m, j), dv |-> addr[j]]
                    \in Argument
      <3>1. FormalPosition(op, m, j) \in Nat /\ InDots(op, m, j) \in BOOLEAN /\ addr[j] \in Addr
        BY FormalPositions DEF InDots
      <3> QED
        BY <3>1 DEF Argument
    <2>2. ClosureArguments(op, addr) =
             [j \in 1..m |-> [pos |-> FormalPosition(op, m, j), dots |-> InDots(op, m, j),
                              dv |-> addr[j]]]
      BY <1>2 DEF ClosureArguments
    <2>3. ClosureArguments(op, addr) \in Seq(Argument)
      BY <1>2, <2>1, <2>2, IsASeq
    <2> QED
      BY <1>2, <2>2, <2>3
  <1>5. f.trace \in [1..NumFormals[op] -> AnyType]
    <2>1. ASSUME NEW v \in Promises \cup NonPromises PROVE InitialType(v) \in AnyType
      BY DEF IInv, TypeOK, RPromise, InitialType
    <2>2. ASSUME NEW p \in 1..NumFormals[op], p # DotsAt[op]
          PROVE  vals[CHOOSE j \in 1..Len(vals) : FormalPosition(op, Len(vals), j) = p]
                    \in Promises \cup NonPromises
      <3>1. \E j \in 1..m : FormalPosition(op, m, j) = p
        BY <2>2, FormalPositions
      <3>2. (CHOOSE j \in 1..m : FormalPosition(op, m, j) = p) \in 1..m
        BY <3>1
      <3> QED
        BY <1>2, <3>2
    <2>3. InitialTrace(op, vals) \in [1..NumFormals[op] -> AnyType]
      BY <2>1, <2>2 DEF InitialTrace
    <2> QED
      BY <2>3
  <1>6. f \in Context
    <2>1. "closure" \in ContextTypes /\ op \in Ops \cup Addr \cup Ctxts
      BY DEF ContextTypes, CallTypes
    <2>2. f.trace \in UNION {[1..n -> AnyType] : n \in {0} \cup {NumFormals[o] : o \in Ops}}
      BY <1>5
    <2> QED
      BY <1>4, <2>1, <2>2 DEF Context
  <1>7. r \in RFrame
    <2>1. rho \in Envs
      BY <1>1
    <2>2. held \in SUBSET Promises
      OBVIOUS
    <2> HIDE DEF rho, held
    <2> QED
      BY <2>1, <2>2 DEF RFrame, ContextTypes, CallTypes, PromiseEnvs
  <1>8. /\ f.type = "closure" /\ f.ref = op /\ IsCall(f)
        /\ r.type = "closure" /\ r.id = op /\ r.vals = held
    BY DEF IsCall, CallTypes
  <1> HIDE DEF f, r
  <1>9. TypeOK'
    <2>1. stack' \in Seq(Context) /\ rstack' \in Seq(RFrame)
      BY <1>1, <1>6, <1>7 DEF IInv, TypeOK
    <2>2. promises' \in [Promises -> Addr \cup {Null}]
      <3>1. ASSUME NEW s \in Promises PROVE promises'[s] \in Addr \cup {Null}
        <4>1. CASE \E j \in 1..m : vals[j] = s
          BY <1>3, <4>1 DEF BindsAll, Binds
        <4>2. CASE \A j \in 1..m : vals[j] # s
          BY <1>3, <4>2 DEF BindsAll, IInv, TypeOK
        <4> QED
          BY <4>1, <4>2
      <3>2. promises' = [s \in Promises |-> promises'[s]]
        BY DEF ClosureEntry
      <3> QED
        BY <3>1, <3>2
    <2>3. dvs' \in [Addr -> DenotedValue \cup {Free}]
      <3>1. ASSUME NEW a \in Addr PROVE dvs'[a] \in DenotedValue \cup {Free}
        <4>1. CASE \E j \in 1..m : addr[j] = a
          BY <1>3, <4>1 DEF BindsAll, Binds
        <4>2. CASE \A j \in 1..m : addr[j] # a
          BY <1>3, <4>2 DEF BindsAll, IInv, TypeOK
        <4> QED
          BY <4>1, <4>2
      <3>2. dvs' = [a \in Addr |-> dvs'[a]]
        BY DEF ClosureEntry
      <3> QED
        BY <3>1, <3>2
    <2> QED
      BY <1>1, <2>1, <2>2, <2>3 DEF IInv, TypeOK
  <1>10. Holding'
    BY <1>2, <1>9, BindHolding
  <1>11. Persists
    <2>1. SUFFICES ASSUME NEW a \in Addr, dvs[a] # Free
                   PROVE  /\ dvs'[a] # Free /\ dvs'[a].object = dvs[a].object
                          /\ dvs'[a].active = dvs[a].active
      BY DEF Persists
    <2>2. CASE \E j \in 1..m : addr[j] = a
      <3>1. PICK j \in 1..m : addr[j] = a
        BY <2>2
      <3>2. Binds(vals[j], a, j)
        BY <1>3, <3>1 DEF BindsAll
      <3>3. /\ dvs'[a] # Free /\ dvs'[a].object = vals[j] /\ dvs'[a].active
            /\ dvs'[a] \in DenotedValue
            /\ vals[j] \in Promises /\ promises[vals[j]] = a
        BY <2>1, <3>2 DEF Binds
      <3>4. dvs[a].active /\ dvs[a].object = vals[j] /\ dvs[a] \in DenotedValue
        BY <2>1, <3>3, Typing, DistinctAssumption DEF IInv, Holding, MapMatchesActive, Allocated
      <3>5. dvs'[a].active = dvs[a].active
        BY <3>3, <3>4 DEF DenotedValue
      <3> QED
        BY <3>3, <3>4, <3>5
    <2>3. CASE \A j \in 1..m : addr[j] # a
      BY <1>3, <2>1, <2>3 DEF BindsAll
    <2> QED
      BY <2>2, <2>3
  <1>12. StackMirrorsR' /\ FramesHold' /\ WellFormedStacks' /\ ExitReleasesAll'
    <2>1. ASSUME NEW j \in 1..Len(f.args), dvs'[f.args[j].dv].active
          PROVE  dvs'[f.args[j].dv].object \in r.vals
      <3>1. j \in 1..m /\ f.args[j].dv = addr[j] /\ Binds(vals[j], addr[j], j)
        BY <1>3, <1>4 DEF BindsAll
      <3>2. dvs'[f.args[j].dv].object = vals[j] /\ vals[j] \in Promises
        BY <2>1, <3>1 DEF Binds
      <3>3. vals[j] \in held
        BY <1>2, <3>1, <3>2
      <3> QED
        BY <1>8, <3>2, <3>3
    <2> QED
      BY <1>1, <1>6, <1>7, <1>8, <1>11, <2>1, PushMirrors
  <1> QED
    BY <1>1, <1>9, <1>10, <1>12 DEF IInv, NoErrorLogged

\* dyntrace_exit: no call is left, so every value left is one that the map holds.
LEMMA DyntraceExitKeeps ==
    ASSUME IInv, DyntraceExit
    PROVE  IInv'
  <1>1. /\ Running /\ rstack = <<>> /\ phase' = "idle"
        /\ promises' = [s \in Promises |-> Null]
        /\ UNCHANGED <<rstack, rprom, stack, jump>>
    BY DEF DyntraceExit
  <1>2. stack = <<>>
    <2>1. Len(stack) = 0
      BY <1>1, SameHeight, EmptySeq
    <2> QED
      BY <2>1, EmptySeq DEF IInv, TypeOK
  <1>3. log' = log
    BY <1>2 DEF DyntraceExit
  <1>4. ASSUME NEW a \in Addr PROVE dvs'[a] = Free
    <2>1. dvs'[a] = IF \E s \in Promises : promises[s] = a THEN DestroyPromise(dvs[a]) ELSE dvs[a]
      BY DEF DyntraceExit
    <2>2. CASE dvs[a] = Free
      <3>1. ~ \E s \in Promises : promises[s] = a
        BY <2>2, DistinctAssumption DEF IInv, Holding, MapMatchesActive, Allocated
      <3> QED
        BY <2>1, <2>2, <3>1
    <2>3. CASE dvs[a] # Free
      <3>1. dvs[a].arguments \in Seq(ArgumentRef) /\ Len(dvs[a].arguments) \in Nat
        BY <2>3, Typing DEF IInv
      <3>2. \A k \in 1..Len(dvs[a].arguments) : dvs[a].arguments[k].call \in 1..0
        BY <1>2, <2>3, EmptySeq DEF IInv, Holding, NoDanglingArgument, Allocated
      <3> DEFINE count == Len(dvs[a].arguments)
      <3>3. count = 0
        <4>1. 1..count = {} /\ count \in Nat
          BY <3>1, <3>2
        <4> HIDE DEF count
        <4> QED
          BY <4>1
      <3>4. dvs[a].arguments = <<>>
        BY <3>1, <3>3, EmptySeq
      <3>5. dvs[a].active
        BY <2>3, <3>3 DEF IInv, Holding, DeadHasOneHolder, Allocated
      <3>6. \E s \in Promises : promises[s] = a
        BY <2>3, <3>5 DEF IInv, Holding, MapMatchesActive, Allocated
      <3> QED
        BY <2>1, <3>4, <3>6 DEF DestroyPromise, IsArgument
    <2> QED
      BY <2>2, <2>3
  <1>5. TypeOK'
    <2>1. dvs' = [a \in Addr |-> dvs'[a]]
      BY DEF DyntraceExit
    <2>2. dvs' \in [Addr -> DenotedValue \cup {Free}]
      BY <1>4, <2>1
    <2> QED
      BY <1>1, <1>3, <2>2 DEF IInv, TypeOK
  <1>6. Holding'
    <2>1. Len(stack') = 0
      BY <1>1, <1>2, EmptySeq
    <2> QED
      BY <1>1, <1>4, <2>1 DEF Holding, MapMatchesActive, NoDanglingValue, NoDanglingArgument,
                              ForcedStaysAlive, DeadHasOneHolder, Allocated
  <1>7. Len(stack') = 0 /\ Len(rstack') = 0 /\ jump' = NoJump
    BY <1>1, <1>2, EmptySeq DEF Running
  <1>8. StackMirrorsR' /\ FramesHold' /\ WellFormedStacks' /\ ExitReleasesAll'
    BY <1>1, <1>2, <1>4, <1>7
       DEF StackMirrorsR, FramesHold, WellFormedStacks, ExitReleasesAll, Allocated
  <1> QED
    BY <1>3, <1>5, <1>6, <1>8 DEF IInv, NoErrorLogged

(***************************************************************************)
(* The theorems                                                            *)
(***************************************************************************)

\* The invariant holds initially.
LEMMA InitInvariant == Init => IInv
  <1> SUFFICES ASSUME Init PROVE IInv
    OBVIOUS
  <1>1. Len(stack) = 0 /\ Len(rstack) = 0
    BY EmptySeq DEF Init
  <1>2. TypeOK
    <2>1. rprom \in [Promises -> RPromise]
      BY DEF Init, RPromise, PromiseEnvs
    <2>2. <<>> \in Seq(RFrame) /\ <<>> \in Seq(Context)
      OBVIOUS
    <2>3. /\ promises \in [Promises -> Addr \cup {Null}]
          /\ dvs \in [Addr -> DenotedValue \cup {Free}]
      BY DEF Init
    <2>4. phase \in {"idle", "tracing"} /\ jump \in Jump \cup {NoJump}
      BY DEF Init
    <2>5. log \in Messages
      BY DEF Init, Messages
    <2> QED
      BY <2>1, <2>2, <2>3, <2>4, <2>5 DEF Init, TypeOK
  <1>3. StackMirrorsR /\ FramesHold /\ WellFormedStacks /\ ExitReleasesAll /\ NoErrorLogged
    BY <1>1 DEF Init, StackMirrorsR, FramesHold, WellFormedStacks, ExitReleasesAll,
                NoErrorLogged, Allocated
  <1>4. Holding
    BY <1>1 DEF Init, Holding, MapMatchesActive, NoDanglingValue, NoDanglingArgument,
                ForcedStaysAlive, DeadHasOneHolder, Allocated
  <1> QED
    BY <1>2, <1>3, <1>4 DEF IInv

\* Every step of the tracer keeps the invariant.
LEMMA NextKeeps == IInv /\ [Next]_vars => IInv'
  <1> SUFFICES ASSUME IInv, [Next]_vars PROVE IInv'
    OBVIOUS
  <1>1. CASE DyntraceEntry
    BY <1>1, DyntraceEntryKeeps
  <1>2. CASE AnyClosureEntry
    BY <1>2, ClosureEntryKeeps DEF AnyClosureEntry
  <1>3. CASE \E op \in Ops : PrimitiveEntry(op)
    BY <1>3, PrimitiveEntryKeeps
  <1>4. CASE \E type \in CallTypes : CallExit(type)
    BY <1>4, CallExitKeeps
  <1>5. CASE \E s \in Promises, a \in Addr : PromiseForceEntry(s, a)
    BY <1>5, PromiseForceEntryKeeps
  <1>6. CASE \E type \in Types : PromiseForceExit(type)
    BY <1>6, PromiseForceExitKeeps
  <1>7. CASE \E c \in Ctxts : ContextEntry(c)
    BY <1>7, ContextEntryKeeps
  <1>8. CASE ContextExit
    BY <1>8, ContextExitKeeps
  <1>9. CASE \E i \in 1..Len(rstack) : ContextJump(i)
    BY <1>9, ContextJumpKeeps
  <1>10. CASE JumpStep
    BY <1>10, JumpStepKeeps
  <1>11. CASE \E s \in Promises : GcUnmark(s)
    BY <1>11, GcUnmarkKeeps
  <1>12. CASE DyntraceExit
    BY <1>12, DyntraceExitKeeps
  <1>13. CASE UNCHANGED vars
    <2>1. /\ phase' = phase /\ rstack' = rstack /\ rprom' = rprom /\ stack' = stack
          /\ promises' = promises /\ dvs' = dvs /\ jump' = jump /\ log' = log
      BY <1>13 DEF vars
    <2>2. TypeOK' /\ NoErrorLogged'
      BY <2>1 DEF IInv, TypeOK, NoErrorLogged
    <2>3. Holding'
      <3>1. MapMatchesActive' /\ ForcedStaysAlive' /\ DeadHasOneHolder'
        BY <2>1 DEF IInv, Holding, MapMatchesActive, ForcedStaysAlive, DeadHasOneHolder, Allocated
      <3>2. NoDanglingValue'
        BY <2>1 DEF IInv, Holding, NoDanglingValue, Allocated
      <3>3. NoDanglingArgument'
        BY <2>1 DEF IInv, Holding, NoDanglingArgument, Allocated
      <3> QED
        BY <3>1, <3>2, <3>3 DEF Holding
    <2>4. StackMirrorsR' /\ ExitReleasesAll'
      BY <2>1 DEF IInv, StackMirrorsR, ExitReleasesAll, Allocated
    <2>5. FramesHold' /\ WellFormedStacks'
      BY <2>1 DEF IInv, FramesHold, WellFormedStacks
    <2> QED
      BY <2>2, <2>3, <2>4, <2>5 DEF IInv
  <1> QED
    BY <1>1, <1>2, <1>3, <1>4, <1>5, <1>6, <1>7, <1>8, <1>9, <1>10, <1>11, <1>12, <1>13 DEF Next

\* The tracer's state is consistent at all times.
THEOREM Invariance == Spec => []IInv
  BY InitInvariant, NextKeeps, PTL DEF Spec

\* Every variable keeps its type.
THEOREM TypeCorrect == Spec => []TypeOK
  <1>1. IInv => TypeOK
    BY DEF IInv
  <1> QED
    BY <1>1, Invariance, PTL

\* None of the tracer's own error checks ever fails: the popped context has the expected
\* kind, a jump finds its target, and remove_argument finds its argument at the top.
THEOREM NeverAnError == Spec => []NoErrorLogged
  <1>1. IInv => NoErrorLogged
    BY DEF IInv
  <1> QED
    BY <1>1, Invariance, PTL

\* The execution context stack is R's own stack.
THEOREM StackFollowsR == Spec => []StackMirrorsR
  <1>1. IInv => StackMirrorsR
    BY DEF IInv
  <1> QED
    BY <1>1, Invariance, PTL

\* No call on the stack has a deleted DenotedValue.
THEOREM NoUseAfterDelete == Spec => []NoDanglingValue
  <1>1. IInv => NoDanglingValue
    BY DEF IInv, Holding
  <1> QED
    BY <1>1, Invariance, PTL

\* What a forced promise writes to is a call that is still in progress.
THEOREM CallsOfArgumentsLive == Spec => []NoDanglingArgument
  <1>1. IInv => NoDanglingArgument
    BY DEF IInv, Holding
  <1> QED
    BY <1>1, Invariance, PTL

\* A promise is never deleted while it is being forced.
THEOREM NoDeleteWhileForced == Spec => []ForcedStaysAlive
  <1>1. IInv => ForcedStaysAlive
    BY DEF IInv, Holding
  <1> QED
    BY <1>1, Invariance, PTL

\* When tracing ends no DenotedValue is left on the heap.
THEOREM NothingLeaks == Spec => []ExitReleasesAll
  <1>1. IInv => ExitReleasesAll
    BY DEF IInv
  <1> QED
    BY <1>1, Invariance, PTL

\* The promise map and the active bits of the DenotedValues say the same at all times.
THEOREM MapAgreesWithHeap == Spec => []MapMatchesActive
  <1>1. IInv => MapMatchesActive
    BY DEF IInv, Holding
  <1> QED
    BY <1>1, Invariance, PTL

\* destroy_call may delete a value that the collector has freed: no other call holds it.
THEOREM DeadHeldOnce == Spec => []DeadHasOneHolder
  <1>1. IInv => DeadHasOneHolder
    BY DEF IInv, Holding
  <1> QED
    BY <1>1, Invariance, PTL

=============================================================================
