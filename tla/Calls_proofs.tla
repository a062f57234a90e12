---------------------------- MODULE Calls_proofs ----------------------------
(***************************************************************************)
(* What the calls of TracerState have, for every value of its constants:   *)
(* the current type of each argument in their traces, and their share of   *)
(* its DenotedValue, so that TracerState implements PromiseOwnership.      *)
(***************************************************************************)
EXTENDS TracerState_proofs

(***************************************************************************)
(* Each call in progress has the current type of each of its arguments.    *)
(***************************************************************************)

\* InitialType, with the promises' contents as a parameter.
TypeIn(r, v) ==
    IF v \in NonPromises THEN "missing"
    ELSE IF r[v].value # Unbound THEN r[v].value
    ELSE IF r[v].expr = Lang THEN "any" ELSE r[v].expr

\* What is true of the jth argument of the call at height h: it has a place in the trace,
\* its own if it is not in `...', and its current type is there.
ArgumentIsCurrent(h, j) ==
    LET args  == stack[h].args
        trace == stack[h].trace
    IN  /\ args[j].pos \in DOMAIN trace
        /\ ~args[j].dots => \A i \in 1..Len(args) : args[i].pos = args[j].pos => i = j
        /\ args[j].dots => trace[args[j].pos] = DotsType
        /\ ~args[j].dots /\ dvs[args[j].dv].active =>
              trace[args[j].pos] = TypeIn(rprom, dvs[args[j].dv].object)

CurrentTraces ==
    \A h \in 1..Len(stack) : \A j \in 1..Len(stack[h].args) : ArgumentIsCurrent(h, j)

\* The Argument of a call and the argument stack of its value name each other.
LEMMA ArgumentHolds ==
    ASSUME IInv, NEW h \in 1..Len(stack), NEW j \in 1..Len(stack[h].args)
    PROVE  LET a == stack[h].args[j].dv
           IN  /\ a \in Addr /\ dvs[a] # Free
               /\ \E k \in 1..Len(dvs[a].arguments) :
                     dvs[a].arguments[k] = [call |-> h, arg |-> j]
  BY DEF IInv, Holding, NoDanglingValue, Allocated

LEMMA HolderHasArgument ==
    ASSUME IInv, NEW a \in Addr, dvs[a] # Free, NEW k \in 1..Len(dvs[a].arguments)
    PROVE  LET e == dvs[a].arguments[k]
           IN  e.arg \in 1..Len(stack[e.call].args) /\ stack[e.call].args[e.arg].dv = a
  BY DEF IInv, Holding, NoDanglingArgument, Allocated

\* A step that leaves the calls it keeps alone, and the types of their arguments.
LEMMA CallsKeepTraces ==
    ASSUME IInv, IInv', CurrentTraces,
           \A h \in 1..Len(stack') :
              \/ Len(stack'[h].args) = 0
              \/ /\ h \in 1..Len(stack)
                 /\ stack'[h].args = stack[h].args /\ stack'[h].trace = stack[h].trace,
           \A a \in Addr : dvs[a] # Free /\ dvs'[a] # Free /\ dvs'[a].active =>
              /\ dvs[a].active /\ dvs'[a].object = dvs[a].object
              /\ TypeIn(rprom', dvs[a].object) = TypeIn(rprom, dvs[a].object)
    PROVE  CurrentTraces'
  <1>1. ASSUME NEW h \in 1..Len(stack'), NEW j \in 1..Len(stack'[h].args)
        PROVE  ArgumentIsCurrent(h, j)'
    <2>1. /\ h \in 1..Len(stack) /\ j \in 1..Len(stack[h].args)
          /\ stack'[h].args = stack[h].args /\ stack'[h].trace = stack[h].trace
      BY <1>1
    <2> DEFINE a == stack[h].args[j].dv
    <2>2. a \in Addr /\ dvs[a] # Free
      BY <2>1 DEF IInv, Holding, NoDanglingValue, Allocated
    <2>3. dvs'[a] # Free
      <3>1. NoDanglingValue'
        BY DEF IInv, Holding
      <3>2. dvs'[stack'[h].args[j].dv] # Free
        BY <1>1, <3>1 DEF NoDanglingValue, Allocated
      <3> QED
        BY <2>1, <3>2
    <2>4. ArgumentIsCurrent(h, j)
      BY <2>1 DEF CurrentTraces
    <2>5. dvs'[a].active => /\ dvs[a].active
                            /\ TypeIn(rprom', dvs'[a].object) = TypeIn(rprom, dvs[a].object)
      BY <2>2, <2>3
    <2> QED
      BY <2>1, <2>4, <2>5 DEF ArgumentIsCurrent
  <1> QED
    BY <1>1 DEF CurrentTraces

\* The same for a step that changes no value and no promise.
LEMMA OnlyStackChanges ==
    ASSUME IInv, IInv', CurrentTraces, UNCHANGED <<rprom, dvs>>,
           \A h \in 1..Len(stack') :
              \/ Len(stack'[h].args) = 0
              \/ /\ h \in 1..Len(stack)
                 /\ stack'[h].args = stack[h].args /\ stack'[h].trace = stack[h].trace
    PROVE  CurrentTraces'
  BY CallsKeepTraces

\* A push of a context without Arguments.
LEMMA PushedContext ==
    ASSUME TypeOK, NEW f, f.args = <<>>, stack' = Append(stack, f)
    PROVE  \A h \in 1..Len(stack') :
              \/ Len(stack'[h].args) = 0
              \/ /\ h \in 1..Len(stack)
                 /\ stack'[h].args = stack[h].args /\ stack'[h].trace = stack[h].trace
  <1>1. stack \in Seq(Context \cup {f}) /\ f \in Context \cup {f}
    BY SeqMonotonic DEF TypeOK
  <1>2. /\ Len(stack') = Len(stack) + 1 /\ Len(stack) \in Nat
        /\ \A h \in 1..Len(stack) : stack'[h] = stack[h]
        /\ stack'[Len(stack) + 1] = f
    BY <1>1, Typing, PushProperties
  <1>3. Len(f.args) = 0
    BY EmptySeq
  <1>4. \A h \in 1..Len(stack') : h \in 1..Len(stack) \/ h = Len(stack) + 1
    BY <1>2
  <1> QED
    BY <1>2, <1>3, <1>4

\* A pop.
LEMMA PoppedContext ==
    ASSUME TypeOK, stack # <<>>, stack' = Below(stack)
    PROVE  \A h \in 1..Len(stack') :
              \/ Len(stack'[h].args) = 0
              \/ /\ h \in 1..Len(stack)
                 /\ stack'[h].args = stack[h].args /\ stack'[h].trace = stack[h].trace
  <1>1. /\ Len(stack') = Len(stack) - 1 /\ Len(stack) \in Nat \ {0}
        /\ \A h \in 1..(Len(stack) - 1) : stack'[h] = stack[h]
    BY BelowProperties DEF TypeOK
  <1>2. \A h \in 1..Len(stack') : h \in 1..(Len(stack) - 1) /\ h \in 1..Len(stack)
    BY <1>1
  <1> QED
    BY <1>1, <1>2

\* The end of a call changes no types.
LEMMA CallEndKeeps ==
    ASSUME IInv, IInv', CurrentTraces, stack # <<>>, stack' = Below(stack), rprom' = rprom,
           \A a \in Addr : IF a \in HeldAt(Len(stack)) THEN Released(a) ELSE Untouched(a)
    PROVE  CurrentTraces'
  <1>1. ASSUME NEW a \in Addr, dvs[a] # Free, dvs'[a] # Free, dvs'[a].active
        PROVE  dvs[a].active /\ dvs'[a].object = dvs[a].object
    <2>1. CASE a \in HeldAt(Len(stack))
      <3>1. Released(a)
        BY <2>1
      <3>2. CASE dvs[a].active
        BY <3>1, <3>2 DEF Released
      <3>3. CASE ~dvs[a].active
        BY <1>1, <3>1, <3>3 DEF Released
      <3> QED
        BY <3>2, <3>3
    <2>2. CASE a \notin HeldAt(Len(stack))
      BY <1>1, <2>2 DEF Untouched
    <2> QED
      BY <2>1, <2>2
  <1> QED
    BY <1>1, PoppedContext, CallsKeepTraces DEF IInv

\* Every argument has a place in the trace, and shares it only inside `...'.
LEMMA TracePositions ==
    ASSUME NEW op \in Ops, NEW m \in ArgumentCounts(op)
    PROVE  /\ m \in Nat
           /\ \A j \in 1..m : FormalPosition(op, m, j) \in 1..NumFormals[op]
           /\ \A i, j \in 1..m :
                 /\ FormalPosition(op, m, i) = FormalPosition(op, m, j)
                 /\ FormalPosition(op, m, j) # DotsAt[op]
                 => i = j
  <1> DEFINE d == DotsAt[op]
             nf == NumFormals[op]
             k == m - nf + 1
  <1>1. d \in Nat /\ nf \in Nat /\ d <= nf /\ MaxDots \in Nat \ {0}
    BY OpAssumption, BoundAssumption
  <1>2. m \in Nat /\ (d = 0 => m = nf) /\ m >= nf
    BY <1>1 DEF ArgumentCounts
  <1>3. \A j : FormalPosition(op, m, j) =
                  IF d = 0 \/ j < d THEN j ELSE IF j < d + k THEN d ELSE j - k + 1
    BY DEF FormalPosition
  <1> HIDE DEF d, nf
  <1>4. \A j \in 1..m : FormalPosition(op, m, j) \in 1..nf
    BY <1>1, <1>2, <1>3
  <1>5. ASSUME NEW i \in 1..m, NEW j \in 1..m,
               FormalPosition(op, m, i) = FormalPosition(op, m, j),
               FormalPosition(op, m, j) # d
        PROVE  i = j
    BY <1>1, <1>2, <1>3, <1>5
  <1> QED
    BY <1>2, <1>4, <1>5 DEF d, nf

\* closure_entry starts the trace with the types as they are then.
LEMMA EntryTraces ==
    ASSUME IInv, IInv', CurrentTraces, NEW op \in Ops, NEW m \in ArgumentCounts(op),
           NEW vals \in [1..m -> Promises \cup NonPromises], NEW addr \in [1..m -> Addr],
           ClosureEntry(op, vals, addr)
    PROVE  CurrentTraces'
  <1> DEFINE n == Len(stack)
             pos(j) == FormalPosition(op, m, j)
             f == [type |-> "closure", ref |-> op, args |-> ClosureArguments(op, addr),
                   trace |-> InitialTrace(op, vals)]
  <1>1. m \in Nat /\ Len(addr) = m /\ Len(vals) = m
    BY TracePositions
  <1>2. BindsAll(m, vals, addr) /\ rprom' = rprom
    BY <1>1, BindEffect DEF ClosureEntry
  <1>3. /\ n \in Nat /\ Len(stack') = n + 1 /\ stack'[n + 1] = f
        /\ \A h \in 1..n : stack'[h] = stack[h]
    <2>1. stack \in Seq(Context \cup {f}) /\ f \in Context \cup {f} /\ stack' = Append(stack, f)
      <3>1. stack' = Append(stack, f)
        BY DEF ClosureEntry
      <3> HIDE DEF f
      <3> QED
        BY <3>1, SeqMonotonic DEF IInv, TypeOK
    <2> HIDE DEF f
    <2> QED
      BY <2>1, Typing, PushProperties DEF IInv
  <1>4. ASSUME NEW a \in Addr, dvs[a] # Free, dvs'[a].active
        PROVE  dvs[a].active /\ dvs'[a].object = dvs[a].object
    <2>1. CASE \A j \in 1..m : addr[j] # a
      BY <1>2, <1>4, <2>1 DEF BindsAll
    <2>2. ASSUME NEW j \in 1..m, addr[j] = a
          PROVE  dvs[a].active /\ dvs'[a].object = dvs[a].object
      <3>1. Binds(vals[j], a, j)
        BY <1>2, <2>2 DEF BindsAll
      <3>2. vals[j] \in Promises /\ promises[vals[j]] = a /\ dvs'[a].object = vals[j]
        BY <1>4, <3>1 DEF Binds
      <3> QED
        BY <3>2, DistinctAssumption DEF IInv, Holding, MapMatchesActive
    <2> QED
      BY <2>1, <2>2
  <1>5. ASSUME NEW h \in 1..n, NEW j \in 1..Len(stack'[h].args)
        PROVE  ArgumentIsCurrent(h, j)'
    <2>1. stack'[h] = stack[h]
      BY <1>3
    <2> DEFINE a == stack[h].args[j].dv
    <2>2. a \in Addr /\ dvs[a] # Free
      <3>1. j \in 1..Len(stack[h].args)
        BY <1>5, <2>1
      <3> QED
        BY <3>1, ArgumentHolds
    <2>3. ArgumentIsCurrent(h, j)
      BY <1>5, <2>1 DEF CurrentTraces
    <2>4. dvs'[a].active => dvs[a].active /\ dvs'[a].object = dvs[a].object
      BY <1>4, <2>2
    <2> QED
      BY <1>2, <2>1, <2>3, <2>4 DEF ArgumentIsCurrent
  <1>6. \A j \in 1..m : /\ pos(j) \in 1..NumFormals[op]
                        /\ \A i \in 1..m : pos(i) = pos(j) /\ pos(j) # DotsAt[op] => i = j
    BY TracePositions
  <1>7. /\ f.args = [j \in 1..m |-> [pos |-> pos(j), dots |-> InDots(op, m, j), dv |-> addr[j]]]
        /\ f.trace = InitialTrace(op, vals)
    BY <1>1 DEF ClosureArguments
  <1>8. \A j \in 1..m : InDots(op, m, j) <=> pos(j) = DotsAt[op]
    <2>1. \A j \in 1..m : pos(j) = DotsAt[op] => DotsAt[op] # 0
      BY <1>6, OpAssumption
    <2> QED
      BY <2>1 DEF InDots
  <1>9. ASSUME NEW j \in 1..m
        PROVE  f.trace[pos(j)] = IF pos(j) = DotsAt[op] THEN DotsType ELSE TypeIn(rprom, vals[j])
    <2> DEFINE Of(p) == CHOOSE i \in 1..Len(vals) : FormalPosition(op, Len(vals), i) = p
    <2>1. f.trace = [p \in 1..NumFormals[op] |->
                       IF p = DotsAt[op] THEN DotsType ELSE InitialType(vals[Of(p)])]
      BY <1>7 DEF InitialTrace
    <2>2. pos(j) # DotsAt[op] => Of(pos(j)) = j
      BY <1>1, <1>6
    <2>3. \A v : InitialType(v) = TypeIn(rprom, v)
      BY DEF InitialType, TypeIn
    <2> HIDE DEF f, Of, pos
    <2> QED
      BY <1>6, <2>1, <2>2, <2>3
  <1>10. ASSUME NEW j \in 1..m PROVE dvs'[addr[j]].object = vals[j]
    BY <1>2 DEF BindsAll, Binds
  <1>11. DOMAIN f.trace = 1..NumFormals[op] /\ Len(f.args) = m
    BY <1>1, <1>7 DEF InitialTrace
  <1> HIDE DEF f, pos
  <1>12. ASSUME NEW h, h = n + 1, NEW j \in 1..Len(stack'[h].args)
         PROVE  ArgumentIsCurrent(h, j)'
    <2>1. stack'[h] = f /\ j \in 1..m
      BY <1>3, <1>11, <1>12
    <2>2. f.args[j].pos = pos(j) /\ f.args[j].dots = InDots(op, m, j) /\ f.args[j].dv = addr[j]
      BY <1>7, <2>1
    <2>3. pos(j) \in DOMAIN f.trace
      BY <1>6, <1>11, <2>1
    <2>4. ~InDots(op, m, j) => \A i \in 1..m : f.args[i].pos = pos(j) => i = j
      <3>1. \A i \in 1..m : f.args[i].pos = pos(i)
        BY <1>7
      <3> QED
        BY <1>6, <1>8, <2>1, <3>1
    <2>5. /\ InDots(op, m, j) => f.trace[pos(j)] = DotsType
          /\ ~InDots(op, m, j) => f.trace[pos(j)] = TypeIn(rprom', dvs'[addr[j]].object)
      BY <1>2, <1>8, <1>9, <1>10, <2>1
    <2> QED
      BY <1>11, <2>1, <2>2, <2>3, <2>4, <2>5 DEF ArgumentIsCurrent
  <1>13. ASSUME NEW h \in 1..Len(stack'), NEW j \in 1..Len(stack'[h].args)
         PROVE  ArgumentIsCurrent(h, j)'
    <2>1. h \in 1..n \/ h = n + 1
      BY <1>3
    <2> QED
      BY <1>5, <1>12, <1>13, <2>1
  <1> QED
    BY <1>13 DEF CurrentTraces

\* promise_force_exit writes the type at the promise's own places, and only there.
LEMMA ForceExitTraces ==
    ASSUME IInv, CurrentTraces, NEW type \in Types, PromiseForceExit(type)
    PROVE  CurrentTraces'
  <1> DEFINE n == Len(stack)
             s == Top(rstack).id
             b == Top(stack).ref
             arguments == dvs[b].arguments
             Recorded(h, p) ==
                \E k \in 1..Len(arguments) :
                    LET arg == stack[h].args[arguments[k].arg]
                    IN  arguments[k].call = h /\ ~arg.dots /\ arg.pos = p
  <1>1. Running /\ rstack # <<>> /\ Top(rstack).type = "promise" /\ dvs' = dvs
    BY DEF PromiseForceExit, Leave
  <1>2. /\ stack # <<>> /\ Top(stack).type = "promise" /\ Len(rstack) = n
        /\ n \in 1..n /\ n \in Nat \ {0}
    BY <1>1, SameHeight
  <1>3. /\ b \in Addr /\ dvs[b] # Free /\ dvs[b].active /\ dvs[b].object = s
        /\ s \in Promises /\ promises[s] = b
    <2>1. rstack[n].id = s /\ stack[n].ref = b /\ stack[n].type = "promise"
      BY <1>2 DEF Top
    <2>2. b \in Addr /\ dvs[b] # Free /\ dvs[b].active /\ dvs[b].object = s
      BY <1>2, <2>1 DEF IInv, Holding, ForcedStaysAlive, StackMirrorsR, Allocated
    <2> QED
      BY <2>2 DEF IInv, Holding, MapMatchesActive, Allocated
  <1>4. /\ TypeIn(rprom', s) = type
        /\ \A v \in Promises : v # s => TypeIn(rprom', v) = TypeIn(rprom, v)
    <2>1. rprom' = [rprom EXCEPT ![s].value = type, ![s].env = NoEnv]
      BY DEF PromiseForceExit
    <2>2. rprom \in [Promises -> RPromise]
      BY DEF IInv, TypeOK
    <2>3. \A v \in Promises : v # s => rprom'[v] = rprom[v]
      BY <2>1, <2>2
    <2>4. rprom'[s].value = type
      BY <1>3, <2>1, <2>2 DEF RPromise
    <2> QED
      BY <1>3, <2>3, <2>4, DistinctAssumption DEF TypeIn
  <1>5. /\ Len(stack') = n - 1
        /\ \A h \in 1..(n - 1) :
              stack'[h] = [stack[h] EXCEPT !.trace =
                             [p \in DOMAIN stack[h].trace |->
                                IF Recorded(h, p) THEN type ELSE stack[h].trace[p]]]
    <2> DEFINE low == Below(stack)
    <2>1. /\ Len(low) = n - 1 /\ \A h \in 1..(n - 1) : low[h] = stack[h]
      BY <1>2, BelowProperties DEF IInv, TypeOK
    <2>2. stack' = RecordType(low, arguments, type)
      BY <1>2 DEF PromiseForceExit, Matches
    <2> HIDE DEF low, arguments, n
    <2>3. stack' = [i \in 1..(n - 1) |->
                      [low[i] EXCEPT !.trace =
                         [p \in DOMAIN @ |->
                            IF \E k \in 1..Len(arguments) :
                                  LET arg == low[i].args[arguments[k].arg]
                                  IN  arguments[k].call = i /\ ~arg.dots /\ arg.pos = p
                            THEN type ELSE @[p]]]]
      BY <2>1, <2>2 DEF RecordType
    <2>4. \A h \in 1..(n - 1) :
              stack'[h] = [stack[h] EXCEPT !.trace =
                             [p \in DOMAIN stack[h].trace |->
                                IF Recorded(h, p) THEN type ELSE stack[h].trace[p]]]
      <3>1. ASSUME NEW h \in 1..(n - 1)
            PROVE  stack'[h] = [stack[h] EXCEPT !.trace =
                                  [p \in DOMAIN stack[h].trace |->
                                     IF Recorded(h, p) THEN type ELSE stack[h].trace[p]]]
        <4>1. low[h] = stack[h]
          BY <2>1
        <4> QED
          BY <2>3, <4>1
      <3> QED
        BY <3>1
    <2>5. Len(stack') = n - 1
      <3>1. n - 1 \in Nat
        BY <1>2
      <3>2. stack' = [i \in 1..(n - 1) |-> stack'[i]]
        BY <2>3
      <3> QED
        BY <3>1, <3>2
    <2> QED
      BY <2>4, <2>5
  <1>6. ASSUME NEW h \in 1..(n - 1)
        PROVE  /\ h \in 1..n /\ stack'[h].args = stack[h].args
               /\ stack'[h].trace = [p \in DOMAIN stack[h].trace |->
                                       IF Recorded(h, p) THEN type ELSE stack[h].trace[p]]
    <2>1. h \in 1..n
      BY <1>2
    <2>2. stack[h] \in Context
      BY <2>1, Typing DEF IInv
    <2> HIDE DEF Recorded
    <2> QED
      BY <1>5, <2>1, <2>2 DEF Context
  <1>7. ASSUME NEW h \in 1..n, NEW p, Recorded(h, p)
        PROVE  \E i \in 1..Len(stack[h].args) :
                  /\ stack[h].args[i].pos = p /\ ~stack[h].args[i].dots
                  /\ stack[h].args[i].dv = b
    <2>1. PICK k \in 1..Len(arguments) :
             LET arg == stack[h].args[arguments[k].arg]
             IN  arguments[k].call = h /\ ~arg.dots /\ arg.pos = p
      BY <1>7
    <2>2. /\ arguments[k].arg \in 1..Len(stack[arguments[k].call].args)
          /\ stack[arguments[k].call].args[arguments[k].arg].dv = b
      BY <1>3, <2>1, HolderHasArgument
    <2> QED
      BY <2>1, <2>2
  <1>8. ASSUME NEW h \in 1..n, NEW j \in 1..Len(stack[h].args),
               stack[h].args[j].dv = b, ~stack[h].args[j].dots
        PROVE  Recorded(h, stack[h].args[j].pos)
    <2>1. PICK k \in 1..Len(arguments) : arguments[k] = [call |-> h, arg |-> j]
      <3> HIDE DEF b
      <3>1. \E k \in 1..Len(dvs[stack[h].args[j].dv].arguments) :
                dvs[stack[h].args[j].dv].arguments[k] = [call |-> h, arg |-> j]
        BY ArgumentHolds
      <3> QED
        BY <1>8, <3>1
    <2>2. arguments[k].call = h /\ arguments[k].arg = j
      BY <2>1
    <2> QED
      BY <1>8, <2>2
  <1> HIDE DEF Recorded, s, b, n
  <1>9. ASSUME NEW h \in 1..(n - 1), NEW j \in 1..Len(stack'[h].args)
        PROVE  ArgumentIsCurrent(h, j)'
    <2> DEFINE args == stack[h].args
               trace == stack[h].trace
               p == args[j].pos
               a == args[j].dv
    <2>1. /\ h \in 1..n /\ stack'[h].args = args /\ j \in 1..Len(args)
          /\ stack'[h].trace = [q \in DOMAIN trace |-> IF Recorded(h, q) THEN type ELSE trace[q]]
      BY <1>6, <1>9
    <2>2. ArgumentIsCurrent(h, j)
      BY <2>1 DEF CurrentTraces, n
    <2>3. /\ p \in DOMAIN trace /\ DOMAIN stack'[h].trace = DOMAIN trace
          /\ stack'[h].trace[p] = IF Recorded(h, p) THEN type ELSE trace[p]
      BY <2>1, <2>2 DEF ArgumentIsCurrent
    <2>4. ~args[j].dots => \A i \in 1..Len(args) : args[i].pos = p => i = j
      BY <2>2 DEF ArgumentIsCurrent
    <2>5. args[j].dots => stack'[h].trace[p] = DotsType
      <3>1. ASSUME args[j].dots, Recorded(h, p) PROVE FALSE
        <4>1. PICK i \in 1..Len(args) : args[i].pos = p /\ ~args[i].dots
          BY <1>7, <2>1, <3>1
        <4>2. ArgumentIsCurrent(h, i)
          BY <2>1 DEF CurrentTraces, n
        <4>3. j = i
          BY <2>1, <4>1, <4>2 DEF ArgumentIsCurrent
        <4> QED
          BY <3>1, <4>1, <4>3
      <3> QED
        BY <2>2, <2>3, <3>1 DEF ArgumentIsCurrent
    <2>6. ASSUME ~args[j].dots, dvs[a].active
          PROVE  stack'[h].trace[p] = TypeIn(rprom', dvs[a].object)
      <3>1. CASE a = b
        BY <1>3, <1>4, <1>8, <2>1, <2>3, <2>6, <3>1
      <3>2. CASE a # b
        <4>1. a \in Addr /\ dvs[a] # Free
          BY <2>1 DEF IInv, Holding, NoDanglingValue, Allocated, n
        <4>2. dvs[a].object \in Promises /\ dvs[a].object # s
          BY <1>3, <2>6, <3>2, <4>1 DEF IInv, Holding, MapMatchesActive, Allocated
        <4>3. ~Recorded(h, p)
          <5>1. ASSUME Recorded(h, p) PROVE FALSE
            <6>1. PICK i \in 1..Len(args) : args[i].pos = p /\ args[i].dv = b
              BY <1>7, <2>1, <5>1
            <6> QED
              BY <2>4, <2>6, <3>2, <6>1
          <5> QED
            BY <5>1
        <4>4. trace[p] = TypeIn(rprom, dvs[a].object)
          BY <2>2, <2>6 DEF ArgumentIsCurrent
        <4> QED
          BY <1>4, <2>3, <4>2, <4>3, <4>4
      <3> QED
        BY <3>1, <3>2
    <2> QED
      BY <1>1, <2>1, <2>3, <2>4, <2>5, <2>6 DEF ArgumentIsCurrent
  <1> QED
    BY <1>5, <1>9 DEF CurrentTraces

\* promise_force_entry: a promise that is entered in the map is in no trace yet.
LEMMA ForceEntryTraces ==
    ASSUME IInv, IInv', CurrentTraces, NEW s \in Promises, NEW b \in Addr,
           PromiseForceEntry(s, b)
    PROVE  CurrentTraces'
  <1>1. /\ rprom' = rprom
        /\ stack' = Append(stack, [type |-> "promise", ref |-> b, args |-> <<>>, trace |-> <<>>])
        /\ dvs' = IF dvs[b] = Free THEN [dvs EXCEPT ![b] = NewDenotedValue(s, <<>>)] ELSE dvs
    BY DEF PromiseForceEntry
  <1>2. \A a \in Addr : dvs[a] # Free => dvs'[a] = dvs[a]
    BY <1>1 DEF IInv, TypeOK
  <1>3. \A h \in 1..Len(stack') :
           \/ Len(stack'[h].args) = 0
           \/ /\ h \in 1..Len(stack)
              /\ stack'[h].args = stack[h].args /\ stack'[h].trace = stack[h].trace
    <2> DEFINE f == [type |-> "promise", ref |-> b, args |-> <<>>, trace |-> <<>>]
    <2>1. f.args = <<>> /\ stack' = Append(stack, f)
      BY <1>1
    <2> HIDE DEF f
    <2> QED
      BY <2>1, PushedContext DEF IInv
  <1> QED
    BY <1>1, <1>2, <1>3, CallsKeepTraces

\* The other entry probes push a context without Arguments.
LEMMA PlainEntryTraces ==
    ASSUME IInv, IInv', CurrentTraces, UNCHANGED <<rprom, dvs>>,
           NEW f, f.args = <<>>, stack' = Append(stack, f)
    PROVE  CurrentTraces'
  BY PushedContext, OnlyStackChanges DEF IInv

\* A jump ends a call as its exit does, and otherwise only marks a promise.
LEMMA JumpTraces ==
    ASSUME IInv, IInv', CurrentTraces, JumpStep
    PROVE  CurrentTraces'
  <1> DEFINE top == Top(stack)
  <1>1. stack # <<>> /\ stack' = Below(stack) /\ rprom' = rprom
    <2>1. jump \in Jump /\ jump.target \in Nat /\ jump.target < Len(stack)
      BY DEF JumpStep, IInv, TypeOK, StackMirrorsR, Jump
    <2>2. stack # <<>>
      BY <2>1, EmptySeq
    <2> QED
      BY <2>2 DEF JumpStep
  <1>2. CASE IsCall(top)
    <2>1. dvs' = DestroyCall(top)
      BY <1>2 DEF JumpStep
    <2> QED
      BY <1>1, <2>1, DestroyCallEffect, CallEndKeeps DEF IInv
  <1>3. CASE ~IsCall(top)
    <2>1. \/ dvs' = dvs
          \/ top.type = "promise" /\ dvs' = [dvs EXCEPT ![top.ref].non_local_return = TRUE]
      BY <1>3 DEF JumpStep
    <2>2. ASSUME NEW a \in Addr, dvs[a] # Free, dvs'[a] # Free, dvs'[a].active
          PROVE  dvs[a].active /\ dvs'[a].object = dvs[a].object
      <3>1. CASE dvs' = dvs
        BY <2>2, <3>1
      <3>2. CASE dvs' = [dvs EXCEPT ![top.ref].non_local_return = TRUE]
        <4>1. dvs'[a] = IF a = top.ref THEN [dvs[a] EXCEPT !.non_local_return = TRUE] ELSE dvs[a]
          BY <3>2 DEF IInv, TypeOK
        <4>2. dvs[a] \in DenotedValue
          BY <2>2, Typing DEF IInv
        <4> QED
          BY <2>2, <4>1, <4>2 DEF DenotedValue
      <3> QED
        BY <2>1, <3>1, <3>2
    <2> QED
      BY <1>1, <2>2, PoppedContext, CallsKeepTraces DEF IInv
  <1> QED
    BY <1>2, <1>3

\* gc_unmark: R may use the address for another promise at once, but what the traces
\* describe is then no longer active.
LEMMA CollectTraces ==
    ASSUME IInv, IInv', CurrentTraces, NEW s \in Promises, GcUnmark(s)
    PROVE  CurrentTraces'
  <1> DEFINE b == promises[s]
  <1>1. /\ stack' = stack /\ \E new \in NewPromises : rprom' = [rprom EXCEPT ![s] = new]
        /\ dvs' = IF b = Null THEN dvs ELSE [dvs EXCEPT ![b] = DestroyPromise(@)]
    BY DEF GcUnmark
  <1>2. \A v \in Promises : v # s => rprom'[v] = rprom[v]
    BY <1>1 DEF IInv, TypeOK
  <1>3. ASSUME NEW a \in Addr, dvs[a] # Free, dvs'[a] # Free, dvs'[a].active
        PROVE  /\ dvs[a].active /\ dvs'[a].object = dvs[a].object
               /\ TypeIn(rprom', dvs[a].object) = TypeIn(rprom, dvs[a].object)
    <2>1. dvs[a] \in DenotedValue
      BY <1>3, Typing DEF IInv
    <2>2. a # b
      <3>1. ASSUME a = b PROVE FALSE
        <4>1. b # Null
          BY <3>1, DistinctAssumption
        <4>2. dvs'[a] = DestroyPromise(dvs[a])
          BY <1>1, <3>1, <4>1 DEF IInv, TypeOK
        <4>3. CASE IsArgument(dvs[a])
          <5>1. dvs'[a] = [dvs[a] EXCEPT !.active = FALSE]
            BY <4>2, <4>3 DEF DestroyPromise
          <5> QED
            BY <1>3, <2>1, <5>1 DEF DenotedValue
        <4>4. CASE ~IsArgument(dvs[a])
          BY <1>3, <4>2, <4>4 DEF DestroyPromise
        <4> QED
          BY <4>3, <4>4
      <3> QED
        BY <3>1
    <2>3. dvs'[a] = dvs[a]
      BY <1>1, <2>2 DEF IInv, TypeOK
    <2>4. dvs[a].object \in Promises /\ promises[dvs[a].object] = a
      BY <1>3, <2>3 DEF IInv, Holding, MapMatchesActive, Allocated
    <2>5. dvs[a].object # s
      BY <2>2, <2>4
    <2> QED
      BY <1>2, <1>3, <2>3, <2>4, <2>5 DEF TypeIn
  <1> HIDE DEF b
  <1> QED
    BY <1>1, <1>3, CallsKeepTraces

\* Every step keeps the traces current.
LEMMA StepTraces ==
    ASSUME IInv, IInv', CurrentTraces, [Next]_vars
    PROVE  CurrentTraces'
  <1>1. ASSUME stack' = stack, UNCHANGED <<rprom, dvs>> PROVE CurrentTraces'
    BY <1>1, OnlyStackChanges
  <1>2. ASSUME stack' = <<>> PROVE CurrentTraces'
    BY <1>2, EmptySeq DEF CurrentTraces
  <1>3. CASE AnyClosureEntry
    BY <1>3, EntryTraces DEF AnyClosureEntry
  <1>4. CASE \E op \in Ops : PrimitiveEntry(op)
    <2>1. PICK op \in Ops : PrimitiveEntry(op)
      BY <1>4
    <2>2. PICK f : f.args = <<>> /\ stack' = Append(stack, f)
      BY <2>1 DEF PrimitiveEntry
    <2> QED
      BY <2>1, <2>2, PlainEntryTraces DEF PrimitiveEntry
  <1>5. CASE \E c \in Ctxts : ContextEntry(c)
    <2>1. PICK c \in Ctxts : ContextEntry(c)
      BY <1>5
    <2>2. PICK f : f.args = <<>> /\ stack' = Append(stack, f)
      BY <2>1 DEF ContextEntry
    <2> QED
      BY <2>1, <2>2, PlainEntryTraces DEF ContextEntry
  <1>6. CASE \E type \in CallTypes : CallExit(type)
    <2>1. PICK type \in CallTypes : CallExit(type)
      BY <1>6
    <2>2. stack # <<>> /\ Top(stack).type = type
      BY <2>1, SameHeight DEF CallExit, Leave
    <2>3. stack' = Below(stack) /\ dvs' = DestroyCall(Top(stack)) /\ rprom' = rprom
      BY <2>1, <2>2 DEF CallExit, Matches
    <2> QED
      BY <2>2, <2>3, DestroyCallEffect, CallEndKeeps DEF IInv
  <1>7. CASE \E s \in Promises, a \in Addr : PromiseForceEntry(s, a)
    BY <1>7, ForceEntryTraces
  <1>8. CASE \E type \in Types : PromiseForceExit(type)
    BY <1>8, ForceExitTraces
  <1>9. CASE ContextExit
    <2>1. stack # <<>> /\ Top(stack).type = "context"
      BY <1>9, SameHeight DEF ContextExit, Leave
    <2>2. stack' = Below(stack)
      BY <1>9, <2>1 DEF ContextExit, Matches
    <2> QED
      BY <1>9, <2>1, <2>2, PoppedContext, OnlyStackChanges DEF ContextExit, IInv
  <1>10. CASE JumpStep
    BY <1>10, JumpTraces
  <1>11. CASE \E s \in Promises : GcUnmark(s)
    BY <1>11, CollectTraces
  <1>12. CASE DyntraceExit
    BY <1>2, <1>12 DEF DyntraceExit, IInv, ExitReleasesAll
  <1>13. CASE DyntraceEntry
    BY <1>2, <1>13 DEF DyntraceEntry, IInv, ExitReleasesAll
  <1>14. CASE (\E i \in 1..Len(rstack) : ContextJump(i)) \/ UNCHANGED vars
    BY <1>1, <1>14 DEF ContextJump, vars
  <1> QED
    BY <1>3, <1>4, <1>5, <1>6, <1>7, <1>8, <1>9, <1>10, <1>11, <1>12, <1>13, <1>14 DEF Next

\* The trace of a call in progress has the type that each of its promises would be given
\* now: promise_force_exit updates the traces of all the calls that hold the promise, and
\* no other probe, and no reuse of an address, changes them.
THEOREM TracesStayCurrent == Spec => []TracesAreCurrent
  <1>1. Init => CurrentTraces
    BY EmptySeq DEF Init, CurrentTraces
  <1>2. IInv /\ IInv' /\ CurrentTraces /\ [Next]_vars => CurrentTraces'
    BY StepTraces
  <1>3. CurrentTraces => TracesAreCurrent
    <2>1. \A v : InitialType(v) = TypeIn(rprom, v)
      BY DEF InitialType, TypeIn
    <2> QED
      BY <2>1 DEF CurrentTraces, ArgumentIsCurrent, TracesAreCurrent, Calls
  <1> QED
    BY <1>1, <1>2, <1>3, Invariance, PTL DEF Spec

-----------------------------------------------------------------------------
(***************************************************************************)
(* Each probe is one step of reference counting, or none.                  *)
(***************************************************************************)

\* The calls that hold a value, and all that do.
HoldingCalls(a) == {dvs[a].arguments[k].call : k \in 1..Len(dvs[a].arguments)}

Holders(a) ==
    IF dvs[a] = Free THEN {}
    ELSE (IF dvs[a].active THEN {Null} ELSE {}) \cup HoldingCalls(a)

HoldersOfAll == [a \in Addr |-> Holders(a)]

\* The stack stays within its bound, and with it the heights that hold.
DepthBounded == Len(stack) <= MaxDepth

\* A call that holds a value is on the stack and is not the map.
LEMMA HoldersType ==
    ASSUME IInv, NEW a \in Addr
    PROVE  /\ Holders(a) \subseteq (1..Len(stack)) \cup {Null}
           /\ dvs[a] # Free => HoldingCalls(a) \subseteq 1..Len(stack)
           /\ Null \notin 1..Len(stack) /\ Len(stack) \in Nat
  <1>1. Len(stack) \in Nat /\ Null \notin 1..Len(stack)
    BY Typing, DistinctAssumption DEF IInv
  <1>2. ASSUME dvs[a] # Free PROVE HoldingCalls(a) \subseteq 1..Len(stack)
    BY <1>2 DEF IInv, Holding, NoDanglingArgument, Allocated, HoldingCalls
  <1> QED
    BY <1>1, <1>2 DEF Holders

\* What a step leaves untouched keeps its holders.
LEMMA UntouchedHolders ==
    ASSUME NEW a \in Addr, Untouched(a)
    PROVE  Holders(a)' = Holders(a)
  <1>1. CASE dvs[a] = Free
    BY <1>1 DEF Untouched, Holders
  <1>2. CASE dvs[a] # Free
    BY <1>2 DEF Untouched, Holders, HoldingCalls
  <1> QED
    BY <1>1, <1>2

\* The end of the call at the top, in destroy_call or jump_single_context.
LEMMA ReleaseHolders ==
    ASSUME IInv, stack # <<>>, DepthBounded,
           \A a \in Addr : IF a \in HeldAt(Len(stack)) THEN Released(a) ELSE Untouched(a)
    PROVE  /\ Len(stack) \in 1..MaxDepth
           /\ \A a \in Addr : \A k \in Holders(a) \ {Null} : k <= Len(stack)
           /\ \A a \in Addr : Holders(a)' = Holders(a) \ {Len(stack)}
  <1> DEFINE n == Len(stack)
  <1>1. n \in 1..MaxDepth /\ n \in Nat \ {0} /\ n # Null /\ n \in 1..n /\ Top(stack) = stack[n]
    BY Typing, BoundAssumption, DistinctAssumption DEF IInv, DepthBounded, Top
  <1>2. \A a \in Addr : \A k \in Holders(a) \ {Null} : k <= n
    BY <1>1, HoldersType
  <1>3. ASSUME NEW a \in Addr, a \notin HeldAt(n) PROVE Holders(a)' = Holders(a) \ {n}
    <2>1. Holders(a)' = Holders(a)
      BY <1>3, UntouchedHolders
    <2>2. ASSUME dvs[a] # Free, NEW k \in 1..Len(dvs[a].arguments), dvs[a].arguments[k].call = n
          PROVE  FALSE
      <3>1. /\ dvs[a].arguments[k].arg \in 1..Len(stack[n].args)
            /\ stack[n].args[dvs[a].arguments[k].arg].dv = a
        BY <2>2 DEF IInv, Holding, NoDanglingArgument, Allocated
      <3> QED
        BY <1>3, <3>1 DEF HeldAt
    <2>3. n \notin Holders(a)
      BY <1>1, <2>2 DEF Holders, HoldingCalls
    <2> QED
      BY <2>1, <2>3
  <1>4. ASSUME NEW a \in Addr, a \in HeldAt(n) PROVE Holders(a)' = Holders(a) \ {n}
    <2> DEFINE args == dvs[a].arguments
    <2>1. PICK j \in 1..Len(stack[n].args) : a = stack[n].args[j].dv
      BY <1>4 DEF HeldAt
    <2>2. /\ dvs[a] # Free /\ args \in Seq(ArgumentRef) /\ args # <<>>
          /\ args[Len(args)] = [call |-> n, arg |-> j]
          /\ \A k \in 1..(Len(args) - 1) : args[k].call < n
      BY <1>1, <2>1, TopArgumentIsLast DEF IInv, Holding, Allocated
    <2>3. /\ Len(args) \in Nat \ {0} /\ Len(Below(args)) = Len(args) - 1
          /\ \A k \in 1..(Len(args) - 1) : Below(args)[k] = args[k]
      BY <2>2, BelowProperties
    <2>4. args[Len(args)].call = n
      BY <2>2
    <2>5. Released(a)
      BY <1>4
    <2>6. \A k \in 1..Len(args) : args[k].call \in Nat
      BY <2>2, Typing DEF IInv
    <2>7. CASE dvs[a].active
      <3>1. dvs'[a] # Free /\ dvs'[a].active /\ dvs'[a].arguments = Below(args)
        BY <2>5, <2>7 DEF Released
      <3>2. Holders(a) = {Null} \cup {args[k].call : k \in 1..Len(args)}
        BY <2>2, <2>7 DEF Holders, HoldingCalls
      <3>3. Holders(a)' = {Null} \cup {Below(args)[k].call : k \in 1..(Len(args) - 1)}
        BY <3>1, <2>3 DEF Holders, HoldingCalls
      <3> HIDE DEF args
      <3>4. {Below(args)[k].call : k \in 1..(Len(args) - 1)} =
               {args[k].call : k \in 1..(Len(args) - 1)}
        BY <2>3
      <3>5. \A k \in 1..Len(args) : k \in 1..(Len(args) - 1) \/ k = Len(args)
        BY <2>3
      <3>6. \A k \in 1..(Len(args) - 1) : args[k].call # n /\ k \in 1..Len(args)
        BY <2>2, <2>3, <2>6, <1>1
      <3>7. {args[k].call : k \in 1..(Len(args) - 1)} = {args[k].call : k \in 1..Len(args)} \ {n}
        BY <2>4, <3>5, <3>6
      <3> QED
        BY <1>1, <3>2, <3>3, <3>4, <3>7
    <2>8. CASE ~dvs[a].active
      <3>1. dvs'[a] = Free /\ Len(args) = 1
        BY <2>2, <2>5, <2>8 DEF Released, IInv, Holding, DeadHasOneHolder, Allocated
      <3>2. Holders(a) = {args[k].call : k \in 1..1}
        BY <2>2, <2>8, <3>1 DEF Holders, HoldingCalls
      <3>3. Holders(a)' = {}
        BY <3>1 DEF Holders
      <3>4. \A k \in 1..1 : args[k].call = n
        BY <2>4, <3>1
      <3> QED
        BY <3>2, <3>3, <3>4
    <2> QED
      BY <2>7, <2>8
  <1> QED
    BY <1>1, <1>2, <1>3, <1>4

\* closure_entry takes hold of its arguments.
LEMMA BindHolders ==
    ASSUME IInv, NEW op \in Ops, NEW m \in ArgumentCounts(op),
           NEW vals \in [1..m -> Promises \cup NonPromises], NEW addr \in [1..m -> Addr],
           ClosureEntry(op, vals, addr)
    PROVE  LET h == Len(stack) + 1
           IN  /\ h \in 1..MaxDepth
               /\ \A a \in Addr : \A k \in Holders(a) \ {Null} : k <= h - 1
               /\ \A a \in Addr :
                     /\ Holders(a)' \subseteq 1..MaxDepth \cup {Null}
                     /\ \/ Holders(a)' = Holders(a)
                        \/ Holders(a) = {} /\ Holders(a)' \in {{h}, {h, Null}}
                        \/ Null \in Holders(a) /\ Holders(a)' = Holders(a) \cup {h}
  <1> DEFINE n == Len(stack)
             h == n + 1
  <1>1. n \in Nat /\ h - 1 = n /\ h \in 1..MaxDepth
    <2>1. Running /\ Len(rstack) < MaxDepth
      BY DEF ClosureEntry, Enter
    <2> QED
      BY <2>1, SameHeight, Typing, BoundAssumption DEF IInv
  <1>2. \A a \in Addr : \A k \in Holders(a) \ {Null} : k <= n
    BY <1>1, HoldersType
  <1>3. m \in Nat /\ BindsAll(m, vals, addr)
    BY FormalPositions, BindEffect
  <1>4. ASSUME NEW a \in Addr, \A j \in 1..m : addr[j] # a PROVE Holders(a)' = Holders(a)
    <2>1. dvs'[a] = dvs[a]
      BY <1>3, <1>4 DEF BindsAll
    <2> QED
      BY <2>1 DEF Holders, HoldingCalls
  <1>5. ASSUME NEW a \in Addr, NEW j \in 1..m, addr[j] = a
        PROVE  \/ Holders(a) = {} /\ Holders(a)' \in {{h}, {h, Null}}
               \/ Null \in Holders(a) /\ Holders(a)' = Holders(a) \cup {h}
    <2> DEFINE args == dvs'[a].arguments
               c == HolderCount(a)
    <2>1. Binds(vals[j], a, j) /\ j \in Nat
      BY <1>3, <1>5 DEF BindsAll
    <2>2. /\ c \in Nat /\ Len(args) = c + 1 /\ args[c + 1] = LastEntry(j)
          /\ \A k \in 1..c : args[k] = dvs[a].arguments[k]
      BY <2>1, BindsEntry DEF IInv
    <2>3. LastEntry(j).call = h /\ dvs'[a] # Free
      BY <2>1 DEF LastEntry, Binds
    <2>4. Holders(a)' = (IF dvs'[a].active THEN {Null} ELSE {})
                           \cup {args[k].call : k \in 1..Len(args)}
      BY <2>3 DEF Holders, HoldingCalls
    <2> HIDE DEF args, c, h
    <2>5. {args[k].call : k \in 1..Len(args)} = {args[k].call : k \in 1..c} \cup {h}
      BY <2>2, <2>3
    <2>6. CASE dvs[a] = Free
      <3>1. c = 0 /\ Holders(a) = {}
        BY <2>6 DEF HolderCount, Holders, c
      <3>2. {args[k].call : k \in 1..c} = {}
        BY <3>1
      <3> QED
        BY <2>4, <2>5, <3>1, <3>2
    <2>7. CASE dvs[a] # Free
      <3>1. vals[j] \in Promises /\ promises[vals[j]] = a /\ dvs'[a].active
        BY <2>1, <2>7 DEF Binds
      <3>2. dvs[a].active
        BY <3>1, DistinctAssumption DEF IInv, Holding, MapMatchesActive
      <3>3. c = Len(dvs[a].arguments)
        BY <2>7 DEF HolderCount, c
      <3>4. Holders(a) = {Null} \cup {dvs[a].arguments[k].call : k \in 1..c}
        BY <2>7, <3>2, <3>3 DEF Holders, HoldingCalls
      <3>5. {args[k].call : k \in 1..c} = {dvs[a].arguments[k].call : k \in 1..c}
        BY <2>2
      <3> QED
        BY <2>4, <2>5, <3>1, <3>4, <3>5
    <2> QED
      BY <2>6, <2>7
  <1>6. \A a \in Addr : Holders(a) \subseteq 1..MaxDepth \cup {Null}
    BY <1>1, HoldersType, BoundAssumption
  <1> HIDE DEF h
  <1> QED
    BY <1>1, <1>2, <1>4, <1>5, <1>6 DEF h

\* A jump ends a call as its exit does, and otherwise only marks a promise.
LEMMA JumpHolders ==
    ASSUME IInv, DepthBounded, JumpStep
    PROVE  \/ \A a \in Addr : Holders(a)' = Holders(a)
           \/ /\ Len(stack) \in 1..MaxDepth
              /\ \A a \in Addr : \A k \in Holders(a) \ {Null} : k <= Len(stack)
              /\ \A a \in Addr : Holders(a)' = Holders(a) \ {Len(stack)}
  <1> DEFINE top == Top(stack)
  <1>1. stack # <<>>
    <2>1. jump \in Jump /\ jump.target \in Nat /\ jump.target < Len(stack)
      BY DEF JumpStep, IInv, TypeOK, StackMirrorsR, Jump
    <2> QED
      BY <2>1, EmptySeq
  <1>2. CASE IsCall(top)
    <2>1. dvs' = DestroyCall(top)
      BY <1>2 DEF JumpStep
    <2> QED
      BY <1>1, <2>1, DestroyCallEffect, ReleaseHolders DEF IInv
  <1>3. CASE ~IsCall(top)
    <2>1. ASSUME NEW a \in Addr PROVE Holders(a)' = Holders(a)
      <3>1. \/ dvs' = dvs
            \/ top.type = "promise" /\ dvs' = [dvs EXCEPT ![top.ref].non_local_return = TRUE]
        BY <1>3 DEF JumpStep
      <3>2. CASE dvs' = dvs
        BY <3>2 DEF Holders, HoldingCalls
      <3>3. CASE top.type = "promise" /\ dvs' = [dvs EXCEPT ![top.ref].non_local_return = TRUE]
        <4>1. top.ref \in Addr /\ dvs[top.ref] \in DenotedValue
          BY <1>1, <3>3, Typing DEF IInv, Holding, ForcedStaysAlive, Allocated, Top
        <4>2. dvs'[a] = IF a = top.ref THEN [dvs[a] EXCEPT !.non_local_return = TRUE] ELSE dvs[a]
          BY <3>3 DEF IInv, TypeOK
        <4>3. Untouched(a)
          <5>1. CASE a = top.ref
            <6>1. /\ dvs'[a] \in DenotedValue /\ dvs'[a].object = dvs[a].object
                  /\ dvs'[a].active = dvs[a].active /\ dvs'[a].arguments = dvs[a].arguments
              BY <4>1, <4>2, <5>1 DEF DenotedValue
            <6> QED
              BY <4>1, <5>1, <6>1, NothingAssumption DEF Untouched
          <5>2. CASE a # top.ref
            BY <4>2, <5>2 DEF Untouched
          <5> QED
            BY <5>1, <5>2
        <4> QED
          BY <4>3, UntouchedHolders
      <3> QED
        BY <3>1, <3>2, <3>3
    <2> QED
      BY <2>1
  <1> QED
    BY <1>2, <1>3

\* gc_unmark takes the map's hold away, from a value that at most one call holds.
LEMMA CollectHolders ==
    ASSUME IInv, NEW s \in Promises, GcUnmark(s)
    PROVE  \/ \A a \in Addr : Holders(a)' = Holders(a)
           \/ \E b \in Addr :
                 /\ \A h, k \in Holders(b) \ {Null} : h = k
                 /\ \A a \in Addr : Holders(a)' = IF a = b THEN Holders(a) \ {Null}
                                                 ELSE Holders(a)
  <1> DEFINE b == promises[s]
  <1>1. /\ Running
        /\ \A i, k \in 1..Len(rstack) : s \in rstack[i].vals /\ s \in rstack[k].vals => i = k
        /\ dvs' = IF b = Null THEN dvs ELSE [dvs EXCEPT ![b] = DestroyPromise(@)]
    BY DEF GcUnmark
  <1>2. CASE b = Null
    BY <1>1, <1>2 DEF Holders, HoldingCalls
  <1>3. CASE b # Null
    <2>1. /\ b \in Addr /\ dvs[b] # Free /\ dvs[b].active
          /\ dvs[b] \in DenotedValue /\ dvs[b].arguments \in Seq(ArgumentRef)
      BY <1>3, Typing DEF IInv, Holding, MapMatchesActive, Allocated
    <2>2. Len(dvs[b].arguments) \in {0, 1}
      BY <1>1, <1>3, CollectedHasOneHolder
    <2>3. \A a \in Addr : dvs'[a] = IF a = b THEN DestroyPromise(dvs[b]) ELSE dvs[a]
      BY <1>1, <1>3, <2>1 DEF IInv, TypeOK
    <2>4. Holders(b) = {Null} \cup HoldingCalls(b) /\ Null \notin HoldingCalls(b)
      BY <2>1, HoldersType DEF Holders
    <2>5. \A h, k \in HoldingCalls(b) : h = k
      BY <2>2 DEF HoldingCalls
    <2>6. ASSUME NEW a \in Addr, a # b PROVE Holders(a)' = Holders(a)
      <3>1. dvs'[a] = dvs[a]
        BY <2>3, <2>6
      <3> QED
        BY <3>1 DEF Holders, HoldingCalls
    <2>7. \A a \in Addr : a = b => Holders(a)' = HoldingCalls(b)
      <3>1. CASE IsArgument(dvs[b])
        <4>1. dvs'[b] = [dvs[b] EXCEPT !.active = FALSE]
          BY <2>1, <2>3, <3>1 DEF DestroyPromise
        <4>2. dvs'[b] \in DenotedValue /\ ~dvs'[b].active /\ dvs'[b].arguments = dvs[b].arguments
          BY <2>1, <4>1 DEF DenotedValue
        <4> QED
          BY <4>2, NothingAssumption DEF Holders, HoldingCalls
      <3>2. CASE ~IsArgument(dvs[b])
        <4>1. dvs'[b] = Free
          BY <2>1, <2>3, <3>2 DEF DestroyPromise
        <4>2. Len(dvs[b].arguments) = 0
          BY <3>2, EmptySeq DEF IsArgument
        <4>3. HoldingCalls(b) = {}
          BY <4>2 DEF HoldingCalls
        <4> QED
          BY <4>1, <4>3 DEF Holders
      <3> QED
        BY <3>1, <3>2
    <2> HIDE DEF b
    <2>8. \A a \in Addr : Holders(a)' = IF a = b THEN Holders(a) \ {Null} ELSE Holders(a)
      BY <2>4, <2>6, <2>7
    <2> QED
      BY <2>1, <2>4, <2>5, <2>8
  <1> QED
    BY <1>2, <1>3

\* A promise is entered in the map when it is first forced.
LEMMA EnterHolders ==
    ASSUME IInv, NEW s \in Promises, NEW b \in Addr, PromiseForceEntry(s, b)
    PROVE  \/ \A a \in Addr : Holders(a)' = Holders(a)
           \/ /\ Holders(b) = {}
              /\ \A a \in Addr : Holders(a)' = IF a = b THEN {Null} ELSE Holders(a)
  <1>1. dvs' = IF dvs[b] = Free THEN [dvs EXCEPT ![b] = NewDenotedValue(s, <<>>)] ELSE dvs
    BY DEF PromiseForceEntry
  <1>2. CASE dvs[b] = Free
    <2> DEFINE new == NewDenotedValue(s, <<>>)
    <2>1. new.active /\ new.arguments = <<>> /\ new # Free
      <3>1. <<>> \in Seq(ArgumentRef)
        BY EmptySeq
      <3>2. new \in DenotedValue /\ new.active
        BY <3>1, NewIsDenotedValue DEF IInv
      <3> QED
        BY <3>2, NothingAssumption DEF NewDenotedValue
    <2> HIDE DEF new
    <2>2. \A a \in Addr : dvs'[a] = IF a = b THEN new ELSE dvs[a]
      BY <1>1, <1>2 DEF IInv, TypeOK, new
    <2>3. ASSUME NEW a \in Addr PROVE Holders(a)' = IF a = b THEN {Null} ELSE Holders(a)
      <3>1. CASE a = b
        <4>1. Len(new.arguments) = 0
          BY <2>1, EmptySeq
        <4> QED
          BY <2>1, <2>2, <3>1, <4>1 DEF Holders, HoldingCalls
      <3>2. CASE a # b
        BY <2>2, <3>2 DEF Holders, HoldingCalls
      <3> QED
        BY <3>1, <3>2
    <2> QED
      BY <1>2, <2>3 DEF Holders
  <1>3. CASE dvs[b] # Free
    BY <1>1, <1>3 DEF Holders, HoldingCalls
  <1> QED
    BY <1>2, <1>3

\* When tracing ends no call is in progress, and cleanup empties the map.
LEMMA ClearHolders ==
    ASSUME IInv, DyntraceExit
    PROVE  \A a \in Addr : Holders(a) \subseteq {Null} /\ Holders(a)' = {}
  <1>1. IInv' /\ phase' = "idle"
    BY DyntraceExitKeeps DEF DyntraceExit
  <1>2. Len(stack) = 0
    BY SameHeight, EmptySeq DEF DyntraceExit
  <1>3. ASSUME NEW a \in Addr PROVE Holders(a) \subseteq {Null}
    BY <1>2, HoldersType
  <1>4. ASSUME NEW a \in Addr PROVE Holders(a)' = {}
    BY <1>1 DEF IInv, ExitReleasesAll, Allocated, Holders
  <1> QED
    BY <1>3, <1>4

\* Every step of the tracer is a step of reference counting, or leaves all holders alone.
LEMMA StepHolders ==
    ASSUME IInv, DepthBounded, [Next]_vars
    PROVE  [Ownership!Next]_HoldersOfAll
  <1>1. ASSUME \A a \in Addr : Holders(a)' = Holders(a) PROVE UNCHANGED HoldersOfAll
    BY <1>1 DEF HoldersOfAll
  <1>2. ASSUME Len(stack) \in 1..MaxDepth,
               \A a \in Addr : \A k \in Holders(a) \ {Null} : k <= Len(stack),
               \A a \in Addr : Holders(a)' = Holders(a) \ {Len(stack)}
        PROVE  Ownership!Next
    BY <1>2 DEF Ownership!Next, Ownership!Release, Ownership!NoneAbove, Holders, HoldingCalls
  <1>3. CASE AnyClosureEntry
    <2>1. PICK op \in Ops : OpType[op] = "closure" /\ \E n \in ArgumentCounts(op) :
              \E vals \in [1..n -> Promises \cup NonPromises], addr \in [1..n -> Addr] :
                  ClosureEntry(op, vals, addr)
      BY <1>3 DEF AnyClosureEntry
    <2>2. PICK m \in ArgumentCounts(op) :
              \E vals \in [1..m -> Promises \cup NonPromises], addr \in [1..m -> Addr] :
                  ClosureEntry(op, vals, addr)
      BY <2>1
    <2>3. PICK vals \in [1..m -> Promises \cup NonPromises], addr \in [1..m -> Addr] :
              ClosureEntry(op, vals, addr)
      BY <2>2
    <2>4. PICK h \in 1..MaxDepth :
             /\ \A a \in Addr : \A k \in Holders(a) \ {Null} : k <= h - 1
             /\ \A a \in Addr :
                   /\ Holders(a)' \subseteq 1..MaxDepth \cup {Null}
                   /\ \/ Holders(a)' = Holders(a)
                      \/ Holders(a) = {} /\ Holders(a)' \in {{h}, {h, Null}}
                      \/ Null \in Holders(a) /\ Holders(a)' = Holders(a) \cup {h}
      BY <2>3, BindHolders
    <2>5. Ownership!Bind(h)
      BY <2>4 DEF Ownership!Bind, Ownership!NoneAbove, Holders, HoldingCalls
    <2>6. Ownership!Next
      BY <2>5 DEF Ownership!Next
    <2> QED
      BY <2>6
  <1>4. CASE \E type \in CallTypes : CallExit(type)
    <2>1. PICK type \in CallTypes : CallExit(type)
      BY <1>4
    <2>2. stack # <<>> /\ Top(stack).type = type
      BY <2>1, SameHeight DEF CallExit, Leave
    <2>3. dvs' = DestroyCall(Top(stack))
      BY <2>1, <2>2 DEF CallExit, Matches
    <2> QED
      BY <1>2, <2>2, <2>3, DestroyCallEffect, ReleaseHolders DEF IInv
  <1>5. CASE \E s \in Promises, b \in Addr : PromiseForceEntry(s, b)
    <2>1. PICK s \in Promises, b \in Addr : PromiseForceEntry(s, b)
      BY <1>5
    <2>2. CASE /\ Holders(b) = {}
               /\ \A a \in Addr : Holders(a)' = IF a = b THEN {Null} ELSE Holders(a)
      <3>1. Ownership!Enter(b)
        BY <2>2 DEF Ownership!Enter, Holders, HoldingCalls
      <3> QED
        BY <3>1 DEF Ownership!Next
    <2> QED
      BY <1>1, <2>1, <2>2, EnterHolders
  <1>6. CASE JumpStep
    BY <1>1, <1>2, <1>6, JumpHolders
  <1>7. CASE \E s \in Promises : GcUnmark(s)
    <2>1. ASSUME NEW b \in Addr,
                 \A h, k \in Holders(b) \ {Null} : h = k,
                 \A a \in Addr : Holders(a)' = IF a = b THEN Holders(a) \ {Null} ELSE Holders(a)
          PROVE  Ownership!Next
      <3>1. HoldersOfAll' = [HoldersOfAll EXCEPT ![b] = @ \ {Null}]
        BY <2>1 DEF HoldersOfAll
      <3>2. \A h, k \in HoldersOfAll[b] \ {Null} : h = k
        BY <2>1 DEF HoldersOfAll
      <3>3. Ownership!Collect(b)
        BY <3>1, <3>2 DEF Ownership!Collect, HoldersOfAll, Holders, HoldingCalls
      <3> QED
        BY <3>3 DEF Ownership!Next
    <2> QED
      BY <1>1, <1>7, <2>1, CollectHolders
  <1>8. CASE DyntraceExit
    <2>1. \A a \in Addr : Holders(a) \subseteq {Null} /\ Holders(a)' = {}
      BY <1>8, ClearHolders
    <2>2. Ownership!Clear
      BY <2>1 DEF Ownership!Clear, Holders, HoldingCalls
    <2> QED
      BY <2>2 DEF Ownership!Next
  <1>9. CASE dvs' = dvs
    <2>1. \A a \in Addr : Holders(a)' = Holders(a)
      BY <1>9 DEF Holders, HoldingCalls
    <2> QED
      BY <1>1, <2>1
  <1>10. CASE \/ DyntraceEntry \/ ContextExit
              \/ \E op \in Ops : PrimitiveEntry(op)
              \/ \E type \in Types : PromiseForceExit(type)
              \/ \E c \in Ctxts : ContextEntry(c)
              \/ \E i \in 1..Len(rstack) : ContextJump(i)
              \/ UNCHANGED vars
    BY <1>9, <1>10 DEF DyntraceEntry, ContextExit, PrimitiveEntry, PromiseForceExit, ContextEntry,
       ContextJump, vars
  <1> QED
    BY <1>3, <1>4, <1>5, <1>6, <1>7, <1>8, <1>10 DEF Next

\* R's stack is bounded in the model, and the tracer's is never above it when it grows.
LEMMA StepDepth ==
    ASSUME IInv, DepthBounded, [Next]_vars
    PROVE  DepthBounded'
  <1>1. Len(stack) \in Nat /\ MaxDepth \in Nat /\ stack \in Seq(Context)
    BY Typing, BoundAssumption DEF IInv, TypeOK
  <1>2. ASSUME Running, Len(rstack) < MaxDepth, NEW f, stack' = Append(stack, f)
        PROVE  DepthBounded'
    <2>1. Len(stack) < MaxDepth
      BY <1>2, SameHeight
    <2>2. Len(stack') = Len(stack) + 1
      BY <1>1, <1>2
    <2> QED
      BY <1>1, <2>1, <2>2 DEF DepthBounded
  <1>3. ASSUME stack # <<>>, Len(stack') = Len(Below(stack)) PROVE DepthBounded'
    BY <1>1, <1>3, BelowProperties DEF DepthBounded
  <1>4. CASE stack' = stack
    BY <1>4 DEF DepthBounded
  <1>5. CASE AnyClosureEntry
    BY <1>2, <1>5 DEF AnyClosureEntry, ClosureEntry, Enter
  <1>6. CASE \E op \in Ops : PrimitiveEntry(op)
    BY <1>2, <1>6 DEF PrimitiveEntry, Enter
  <1>7. CASE \E s \in Promises, a \in Addr : PromiseForceEntry(s, a)
    BY <1>2, <1>7 DEF PromiseForceEntry, Enter
  <1>8. CASE \E c \in Ctxts : ContextEntry(c)
    BY <1>2, <1>8 DEF ContextEntry, Enter
  <1>9. CASE \E type \in CallTypes : CallExit(type)
    BY <1>3, <1>4, <1>9 DEF CallExit, Matches
  <1>10. CASE \E type \in Types : PromiseForceExit(type)
    <2>1. PICK type \in Types : PromiseForceExit(type)
      BY <1>10
    <2>2. CASE Matches("promise")
      <3>1. stack # <<>> /\ stack' = RecordType(Below(stack), dvs[Top(stack).ref].arguments, type)
        BY <2>1, <2>2 DEF PromiseForceExit, Matches
      <3>2. Len(Below(stack)) \in Nat
        BY <1>1, <3>1, BelowProperties
      <3>3. Len(stack') = Len(Below(stack))
        <4> DEFINE n == Len(Below(stack))
        <4>1. stack' = [i \in 1..n |-> stack'[i]]
          BY <3>1 DEF RecordType
        <4> HIDE DEF n
        <4>2. n \in Nat
          BY <3>2 DEF n
        <4> QED
          BY <4>1, <4>2 DEF n
      <3> QED
        BY <1>3, <3>1, <3>3
    <2>3. CASE ~Matches("promise")
      BY <1>4, <2>1, <2>3 DEF PromiseForceExit
    <2> QED
      BY <2>2, <2>3
  <1>11. CASE ContextExit
    BY <1>3, <1>4, <1>11 DEF ContextExit, Matches
  <1>12. CASE JumpStep
    <2>1. jump.target \in Nat /\ jump.target < Len(stack)
      BY <1>12 DEF JumpStep, IInv, TypeOK, StackMirrorsR, Jump
    <2>2. stack # <<>>
      BY <2>1, EmptySeq
    <2>3. stack' = Below(stack)
      BY <1>12 DEF JumpStep
    <2> QED
      BY <1>3, <2>2, <2>3
  <1>13. CASE \/ DyntraceEntry \/ DyntraceExit
              \/ \E i \in 1..Len(rstack) : ContextJump(i)
              \/ \E s \in Promises : GcUnmark(s)
              \/ UNCHANGED vars
    BY <1>4, <1>13 DEF DyntraceEntry, DyntraceExit, ContextJump, GcUnmark, vars
  <1> QED
    BY <1>5, <1>6, <1>7, <1>8, <1>9, <1>10, <1>11, <1>12, <1>13 DEF Next

\* "here we delete a promise iff we are the only one holding a reference to it"
\* (destroy_promise): the active bit and the argument stack are a correct reference count
\* through calls, forcing, jumps, garbage collection and cleanup.
THEOREM CountsReferences == Spec => ImplementsOwnership
  <1>1. Init => Ownership!Init
    <2>1. Init => \A a \in Addr : dvs[a] = Free
      BY DEF Init
    <2> QED
      BY <2>1 DEF Ownership!Init
  <1>2. Init => DepthBounded
    BY BoundAssumption, EmptySeq DEF Init, DepthBounded
  <1>3. IInv /\ DepthBounded /\ [Next]_vars => DepthBounded'
    BY StepDepth
  <1>4. IInv /\ DepthBounded /\ [Next]_vars => [Ownership!Next]_HoldersOfAll
    BY StepHolders
  <1>5. Spec => [](IInv /\ DepthBounded)
    BY <1>2, <1>3, Invariance, PTL DEF Spec
  <1>6. Spec => Ownership!Init /\ [][Ownership!Next]_HoldersOfAll
    BY <1>1, <1>4, <1>5, PTL DEF Spec
  <1> QED
    BY <1>6, PTL DEF ImplementsOwnership, Ownership!Spec, HoldersOfAll, Holders, HoldingCalls
=============================================================================
