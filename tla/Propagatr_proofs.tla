-------------------------- MODULE Propagatr_proofs --------------------------
(***************************************************************************)
(* Proofs about the whole tracer: the core and the store go on being what  *)
(* they are alone, and together they count each closure call once.         *)
(***************************************************************************)
EXTENDS Propagatr, TracerState_proofs, FiniteSetTheorems

StoreProofs ==
    INSTANCE TraceStore_proofs WITH
        Traces <- CallTraces, Hashes <- CallTraces,
        Hash <- [t \in CallTraces |-> t],
        LastPos <- [t \in CallTraces |-> Len(t.types) - 1],
        Absent <- Null, Signals <- FALSE, MaxSeen <- MaxCalls

(***************************************************************************)
(* The store                                                               *)
(***************************************************************************)

\* What TraceStore assumes of its constants is so here.
LEMMA StoreConstants ==
    /\ [t \in CallTraces |-> t] \in [CallTraces -> CallTraces]
    /\ [t \in CallTraces |-> Len(t.types) - 1] \in [CallTraces -> Nat \cup {-1}]
    /\ Null \notin Nat \cup CallTraces \cup [trace : CallTraces, count : Nat]
    /\ FALSE \in BOOLEAN /\ MaxCalls \in Nat
  <1>1. ASSUME NEW t \in CallTraces PROVE Len(t.types) - 1 \in Nat \cup {-1}
    <2>1. PICK op \in Ops : \E n \in NumArgs(op) :
                 t.types \in [1..n -> Types \cup {"missing", "any", DotsType}]
      BY DEF CallTraces
    <2>2. PICK n \in NumArgs(op) : t.types \in [1..n -> Types \cup {"missing", "any", DotsType}]
      BY <2>1
    <2>3. n \in Nat
      BY OpAssumption, CallsAssumption DEF NumArgs
    <2>4. t.types \in Seq(Types \cup {"missing", "any", DotsType})
      BY <2>2, <2>3, SeqDef
    <2>5. Len(t.types) \in Nat
      BY <2>4
    <2> QED
      BY <2>5
  <1>2. Null \notin Nat \cup CallTraces \cup [trace : CallTraces, count : Nat]
    BY NullAssumption, DistinctAssumption
  <1> QED
    BY <1>1, <1>2, CallsAssumption

\* The store keeps its invariant here as it does alone.
LEMMA StoreInstance ==
    /\ Store!Init => Store!IInv
    /\ Store!IInv /\ [Store!Next]_(Store!vars) => Store!IInv'
  <1>1. StoreProofs!IInv <=> Store!IInv
    BY DEF StoreProofs!IInv, Store!IInv, StoreProofs!TypeOK, Store!TypeOK,
           StoreProofs!NeverThrows, Store!NeverThrows, StoreProofs!Accounted, Store!Accounted,
           StoreProofs!Positions, Store!Positions, StoreProofs!IsHeader, Store!IsHeader,
           StoreProofs!FileIsSound, Store!FileIsSound, StoreProofs!ExitWritesAll,
           Store!ExitWritesAll, StoreProofs!File, Store!File, StoreProofs!Rows, Store!Rows,
           StoreProofs!Row, Store!Row
  <1>2. StoreProofs!IInv' <=> Store!IInv'
    BY DEF StoreProofs!IInv, Store!IInv, StoreProofs!TypeOK, Store!TypeOK,
           StoreProofs!NeverThrows, Store!NeverThrows, StoreProofs!Accounted, Store!Accounted,
           StoreProofs!Positions, Store!Positions, StoreProofs!IsHeader, Store!IsHeader,
           StoreProofs!FileIsSound, Store!FileIsSound, StoreProofs!ExitWritesAll,
           Store!ExitWritesAll, StoreProofs!File, Store!File, StoreProofs!Rows, Store!Rows,
           StoreProofs!Row, Store!Row
  <1>3. Store!Init => StoreProofs!Init
    BY DEF StoreProofs!Init, Store!Init, StoreProofs!EmptyFile, Store!EmptyFile
  <1>4. [Store!Next]_(Store!vars) => [StoreProofs!Next]_(StoreProofs!vars)
    BY DEF StoreProofs!Next, Store!Next, StoreProofs!vars, Store!vars,
           StoreProofs!DyntraceEntry, Store!DyntraceEntry,
           StoreProofs!DealWithCallTrace, Store!DealWithCallTrace,
           StoreProofs!Increment, Store!Increment, StoreProofs!Insert, Store!Insert,
           StoreProofs!Count, Store!Count, StoreProofs!DyntraceExit, Store!DyntraceExit,
           StoreProofs!SerializeTracesList, Store!SerializeTracesList,
           StoreProofs!HandleSignal, Store!HandleSignal,
           StoreProofs!EmptyFile, Store!EmptyFile, StoreProofs!CountsRead, Store!CountsRead,
           StoreProofs!Contents, Store!Contents, StoreProofs!Header, Store!Header,
           StoreProofs!Positions, Store!Positions, StoreProofs!IsHeader, Store!IsHeader
  <1>5. StoreProofs!Init => StoreProofs!IInv
    BY StoreConstants, StoreProofs!StoreInit DEF StoreProofs!Row
  <1>6. StoreProofs!IInv /\ [StoreProofs!Next]_(StoreProofs!vars) => StoreProofs!IInv'
    BY StoreConstants, StoreProofs!StoreKeeps DEF StoreProofs!Row
  <1> QED
    BY <1>1, <1>2, <1>3, <1>4, <1>5, <1>6

(***************************************************************************)
(* What the core and the store do in a step of the whole                   *)
(***************************************************************************)

\* Every step is one of the core, or leaves its variables alone.
LEMMA CoreStep == [AllNext]_allVars => [Next]_vars
  <1> SUFFICES ASSUME [AllNext]_allVars PROVE [Next]_vars
    OBVIOUS
  <1>1. CASE StartTracing
    BY <1>1 DEF StartTracing, Next
  <1>2. CASE CallBegins
    BY <1>2 DEF CallBegins, Alone, Next
  <1>3. CASE PromiseOrContext
    BY <1>3 DEF PromiseOrContext, Alone, Next
  <1>4. CASE \E ret \in Types : ClosureReturns(ret) \/ PrimitiveReturns(ret)
    BY <1>4 DEF ClosureReturns, PrimitiveReturns, DealWith
  <1>5. CASE \E i \in 1..Len(rstack), ret \in Types \cup {NoValue} : JumpStarts(i, ret)
    BY <1>5 DEF JumpStarts, Next
  <1>6. CASE Probe
    BY <1>6 DEF Probe, StoreWorks, CallEnds, JumpDeals, DealWith, JumpContinues, WriteTraces, Next
  <1>7. CASE StopTracing
    BY <1>7 DEF StopTracing, Next
  <1>8. CASE UNCHANGED allVars
    BY <1>8 DEF allVars
  <1> QED
    BY <1>1, <1>2, <1>3, <1>4, <1>5, <1>6, <1>7, <1>8 DEF AllNext

\* The trace of a closure's call is one of its function.
LEMMA TraceOfCall ==
    ASSUME IInv, CallsAreOfFunctions, stack # <<>>, Top(stack).type = "closure",
           NEW ret \in Types \cup {Jumped, NoValue}
    PROVE  [op |-> Top(stack).ref, types |-> Top(stack).trace, ret |-> ret] \in CallTraces
  <1> DEFINE n == Len(stack)
             op == stack[n].ref
             AnyType == Types \cup {"missing", "any", DotsType}
  <1>1. n \in 1..n /\ Top(stack) = stack[n] /\ stack[n] \in Context
    BY Typing DEF IInv, Top
  <1>2. op \in Ops /\ DOMAIN stack[n].trace = 1..NumFormals[op] /\ NumFormals[op] \in NumArgs(op)
    BY <1>1 DEF CallsAreOfFunctions, Calls, IsCall, CallTypes, NumArgs
  <1>3. PICK k \in Nat : stack[n].trace \in [1..k -> AnyType]
    BY <1>1, OpAssumption DEF Context
  <1>4. stack[n].trace \in [1..NumFormals[op] -> AnyType]
    BY <1>2, <1>3
  <1> QED
    BY <1>1, <1>2, <1>4 DEF CallTraces

\* The trace that deal_with_builtin_and_special makes is one of its function.
LEMMA TraceOfPrimitive ==
    ASSUME NEW op \in Ops, NEW n \in NumArgs(op), NEW types \in [1..n -> Types],
           NEW ret \in Types
    PROVE  [op |-> op, types |-> types, ret |-> ret] \in CallTraces
  <1>1. types \in [1..n -> Types \cup {"missing", "any", DotsType}]
    OBVIOUS
  <1> QED
    BY <1>1 DEF CallTraces

\* The context that a jump is about to leave.
LEMMA JumpHasContext ==
    ASSUME IInv, jump # NoJump
    PROVE  stack # <<>> /\ Len(stack) \in Nat \ {0}
  <1>1. jump \in Jump /\ jump.target \in Nat /\ jump.target < Len(stack) /\ Len(stack) \in Nat
    BY Typing DEF IInv, TypeOK, StackMirrorsR, Jump
  <1> QED
    BY <1>1, EmptySeq

\* What is handed to deal_with_call_trace is a call trace, of the call on top.
LEMMA DealtIsTrace ==
    ASSUME WholeInv,
           (\E ret \in Types : ClosureReturns(ret) \/ PrimitiveReturns(ret)) \/ JumpDeals
    PROVE  /\ stack # <<>> /\ IsCall(Top(stack))
           /\ Ready /\ dealt' = TRUE /\ UNCHANGED <<vars, value, begun>>
           /\ \E t \in CallTraces :
                 /\ t.op = Top(stack).ref
                 /\ jump # NoJump => JumpedClosure /\ t.ret = UnwoundType
                 /\ Store!DealWithCallTrace(t)
  <1>1. CASE \E ret \in Types : ClosureReturns(ret)
    <2>1. PICK ret \in Types : ClosureReturns(ret)
      BY <1>1
    <2>2. stack # <<>> /\ Top(stack).type = "closure" /\ jump = NoJump
      BY <2>1 DEF ClosureReturns, Matches, Running
    <2>3. [op |-> Top(stack).ref, types |-> Top(stack).trace, ret |-> ret] \in CallTraces
      BY <2>2, TraceOfCall DEF WholeInv
    <2> QED
      BY <2>1, <2>2, <2>3 DEF ClosureReturns, DealWith, IsCall, CallTypes
  <1>2. CASE \E ret \in Types : PrimitiveReturns(ret)
    <2>1. PICK ret \in Types : PrimitiveReturns(ret)
      BY <1>2
    <2>2. /\ stack # <<>> /\ IsCall(Top(stack)) /\ jump = NoJump
      BY <2>1 DEF PrimitiveReturns, Matches, Running, IsCall
    <2>3. PICK n \in NumArgs(Top(stack).ref) : \E types \in [1..n -> Types] : DealWith(types, ret)
      BY <2>1 DEF PrimitiveReturns
    <2>4. PICK types \in [1..n -> Types] : DealWith(types, ret)
      BY <2>3
    <2>5. Top(stack).ref \in Ops
      BY <2>2, Typing DEF WholeInv, IInv, CallsAreOfFunctions, Calls, Top
    <2>6. [op |-> Top(stack).ref, types |-> types, ret |-> ret] \in CallTraces
      BY <2>5, TraceOfPrimitive
    <2> QED
      BY <2>2, <2>6, <2>4 DEF DealWith
  <1>3. CASE JumpDeals
    <2>1. /\ jump # NoJump /\ Top(stack).type = "closure" /\ JumpedClosure
          /\ DealWith(Top(stack).trace, UnwoundType)
      BY <1>3 DEF JumpDeals, JumpedClosure
    <2>2. stack # <<>>
      BY <2>1, JumpHasContext DEF WholeInv
    <2>3. UnwoundType \in Types \cup {Jumped, NoValue}
      BY DEF WholeInv, UnwoundType
    <2>4. [op |-> Top(stack).ref, types |-> Top(stack).trace, ret |-> UnwoundType] \in CallTraces
      BY <2>1, <2>2, <2>3, TraceOfCall DEF WholeInv
    <2> QED
      BY <2>1, <2>2, <2>4 DEF DealWith, IsCall, CallTypes
  <1> QED
    BY <1>1, <1>2, <1>3

\* Every step is one of the store, or leaves its variables alone.
LEMMA StoreStep == WholeInv /\ [AllNext]_allVars => [Store!Next]_(Store!vars)
  <1> SUFFICES ASSUME WholeInv, [AllNext]_allVars PROVE [Store!Next]_(Store!vars)
    OBVIOUS
  <1>1. CASE StartTracing
    BY <1>1 DEF StartTracing, Store!Next
  <1>2. CASE CallBegins
    BY <1>2 DEF CallBegins, Alone, storeVars, Store!vars
  <1>3. CASE PromiseOrContext
    BY <1>3 DEF PromiseOrContext, Alone, storeVars, Store!vars
  <1>4. CASE (\E ret \in Types : ClosureReturns(ret) \/ PrimitiveReturns(ret)) \/ JumpDeals
    BY <1>4, DealtIsTrace DEF Store!Next
  <1>5. CASE \E i \in 1..Len(rstack), ret \in Types \cup {NoValue} : JumpStarts(i, ret)
    BY <1>5 DEF JumpStarts, storeVars, Store!vars
  <1>6. CASE StoreWorks \/ WriteTraces
    BY <1>6 DEF StoreWorks, WriteTraces, Store!Next
  <1>7. CASE CallEnds \/ JumpContinues
    BY <1>7 DEF CallEnds, JumpContinues, storeVars, Store!vars
  <1>8. CASE StopTracing
    BY <1>8 DEF StopTracing, Store!Next
  <1>9. CASE UNCHANGED allVars
    BY <1>9 DEF allVars, storeVars, Store!vars
  <1> QED
    BY <1>1, <1>2, <1>3, <1>4, <1>5, <1>6, <1>7, <1>8, <1>9 DEF AllNext, Probe

(***************************************************************************)
(* The contexts on the stack                                               *)
(***************************************************************************)

\* A context is the one it was, but for the types in its trace.
SameContext(h) ==
    /\ stack'[h].type = stack[h].type /\ stack'[h].ref = stack[h].ref
    /\ DOMAIN stack'[h].trace = DOMAIN stack[h].trace

Stays == Len(stack') = Len(stack) /\ \A h \in 1..Len(stack) : SameContext(h)

Pushes == Len(stack') = Len(stack) + 1 /\ \A h \in 1..Len(stack) : SameContext(h)

Pops ==
    /\ stack # <<>> /\ Len(stack') = Len(stack) - 1
    /\ \A h \in 1..(Len(stack) - 1) : SameContext(h)

\* push and pop keep the contexts below.
LEMMA PushPop ==
    ASSUME IInv
    PROVE  /\ \A f \in Context : stack' = Append(stack, f) =>
                 Pushes /\ Top(stack') = f /\ stack'[Len(stack) + 1] = f
           /\ stack # <<>> /\ stack' = Below(stack) => Pops
  <1>1. stack \in Seq(Context)
    BY DEF IInv, TypeOK
  <1>2. ASSUME NEW f \in Context, stack' = Append(stack, f)
        PROVE  Pushes /\ Top(stack') = f /\ stack'[Len(stack) + 1] = f
    BY <1>1, <1>2, PushProperties DEF Pushes, SameContext, Top
  <1>3. ASSUME stack # <<>>, stack' = Below(stack) PROVE Pops
    BY <1>1, <1>3, BelowProperties DEF Pops, SameContext
  <1> QED
    BY <1>2, <1>3

\* A call begins: it is pushed, with a position in its trace for each of its formals.
LEMMA CallPushed ==
    ASSUME WholeInv, IInv', CallBegins
    PROVE  /\ Pushes /\ Ready /\ UNCHANGED <<storeVars, dealt, value, phase, jump>>
           /\ \E op \in Ops :
                 LET f == stack'[Len(stack) + 1]
                 IN  /\ f.ref = op /\ f.type = OpType[op] /\ IsCall(f)
                     /\ f.type = "closure" => DOMAIN f.trace = 1..NumFormals[op]
                     /\ begun' = [begun EXCEPT ![op] = @ + 1]
  <1>1. /\ Ready /\ UNCHANGED <<storeVars, dealt, value>>
        /\ begun' = [begun EXCEPT ![Top(stack').ref] = @ + 1]
    BY DEF CallBegins, Alone
  <1> DEFINE Entered(op, f) ==
                /\ stack' = Append(stack, f) /\ UNCHANGED <<phase, jump>>
                /\ f.ref = op /\ f.type = OpType[op] /\ f.type \in CallTypes
                /\ f.type = "closure" => DOMAIN f.trace = 1..NumFormals[op]
  <1>2. \E op \in Ops : \E f : Entered(op, f)
    <2>1. CASE AnyClosureEntry
      <3>1. PICK op \in Ops : OpType[op] = "closure" /\ \E vals, addr : ClosureEntry(op, vals, addr)
        BY <2>1 DEF AnyClosureEntry
      <3>2. PICK vals, addr : OpType[op] = "closure" /\ ClosureEntry(op, vals, addr)
        BY <3>1
      <3>3. DOMAIN InitialTrace(op, vals) = 1..NumFormals[op]
        BY DEF InitialTrace
      <3>4. /\ stack' = Append(stack, [type |-> "closure", ref |-> op,
                                       args |-> ClosureArguments(op, addr),
                                       trace |-> InitialTrace(op, vals)])
            /\ UNCHANGED <<phase, jump>>
        BY <3>2 DEF ClosureEntry
      <3> QED
        BY <3>2, <3>3, <3>4 DEF CallTypes
    <2>2. CASE \E op \in Ops : PrimitiveEntry(op)
      BY <2>2 DEF PrimitiveEntry, CallTypes
    <2> QED
      BY <2>1, <2>2 DEF CallBegins, Alone
  <1>3. PICK op \in Ops : \E f : Entered(op, f)
    BY <1>2
  <1>4. PICK f : Entered(op, f)
    BY <1>3
  <1>5. f \in Context
    <2>1. stack' \in Seq(Context) /\ Len(stack) \in Nat /\ Len(stack') = Len(stack) + 1
      BY <1>4, Typing DEF IInv, TypeOK
    <2>2. stack'[Len(stack) + 1] \in Context
      BY <2>1, ElementOfSeq
    <2>3. stack'[Len(stack) + 1] = f
      BY <1>4 DEF IInv, TypeOK, WholeInv
    <2> QED
      BY <2>2, <2>3
  <1>6. Pushes /\ Top(stack') = f /\ stack'[Len(stack) + 1] = f
    BY <1>4, <1>5, PushPop DEF WholeInv
  <1> QED
    BY <1>1, <1>4, <1>6 DEF IsCall

\* Promises and contexts come and go, and no call with them.
LEMMA NoCallMoves ==
    ASSUME WholeInv, PromiseOrContext
    PROVE  /\ Ready /\ UNCHANGED <<storeVars, dealt, value, begun, phase, jump>>
           /\ \/ Stays
              \/ Pops /\ ~IsCall(stack[Len(stack)])
              \/ Pushes /\ ~IsCall(stack'[Len(stack) + 1])
  <1>1. Ready /\ UNCHANGED <<storeVars, dealt, value, begun>> /\ IInv
    BY DEF PromiseOrContext, Alone, WholeInv
  <1>2. CASE \E s \in Promises, a \in Addr : PromiseForceEntry(s, a)
    <2>1. PICK s \in Promises, a \in Addr : PromiseForceEntry(s, a)
      BY <1>2
    <2> DEFINE f == [type |-> "promise", ref |-> a, args |-> <<>>, trace |-> <<>>]
    <2>2. stack' = Append(stack, f) /\ UNCHANGED <<phase, jump>>
      BY <2>1 DEF PromiseForceEntry
    <2>3. f \in Context
      BY EmptyContext DEF ContextTypes
    <2>4. ~IsCall(f)
      BY DEF IsCall, CallTypes
    <2> HIDE DEF f
    <2> QED
      BY <1>1, <2>2, <2>3, <2>4, PushPop
  <1>3. CASE \E type \in Types : PromiseForceExit(type)
    <2>1. PICK type \in Types : PromiseForceExit(type)
      BY <1>3
    <2>2. Running /\ rstack # <<>> /\ Top(rstack).type = "promise" /\ UNCHANGED <<phase, jump>>
      BY <2>1 DEF PromiseForceExit, Leave
    <2>3. stack # <<>> /\ Top(stack).type = "promise" /\ Len(stack) \in Nat \ {0}
      BY <1>1, <2>2, SameHeight
    <2> DEFINE arguments == dvs[Top(stack).ref].arguments
    <2>4. stack' = RecordType(Below(stack), arguments, type)
      BY <2>1, <2>3 DEF PromiseForceExit, Matches
    <2>5. /\ Len(Below(stack)) = Len(stack) - 1 /\ Below(stack) \in Seq(Context)
          /\ \A h \in 1..(Len(stack) - 1) : Below(stack)[h] = stack[h] /\ stack[h] \in Context
      <3>1. stack \in Seq(Context)
        BY <1>1 DEF IInv, TypeOK
      <3>2. \A h \in 1..Len(stack) : stack[h] \in Context
        BY <3>1, ElementOfSeq
      <3> QED
        BY <2>3, <3>1, <3>2, BelowProperties
    <2> HIDE DEF arguments
    <2>6. Pops
      BY <2>3, <2>4, <2>5 DEF Pops, RecordType, SameContext, Context
    <2> QED
      BY <1>1, <2>2, <2>3, <2>6 DEF IsCall, CallTypes, Top
  <1>4. CASE \E c \in Ctxts : ContextEntry(c)
    <2>1. PICK c \in Ctxts : ContextEntry(c)
      BY <1>4
    <2> DEFINE f == [type |-> "context", ref |-> c, args |-> <<>>, trace |-> <<>>]
    <2>2. stack' = Append(stack, f) /\ UNCHANGED <<phase, jump>>
      BY <2>1 DEF ContextEntry
    <2>3. f \in Context
      BY EmptyContext DEF ContextTypes
    <2>4. ~IsCall(f)
      BY DEF IsCall, CallTypes
    <2> HIDE DEF f
    <2> QED
      BY <1>1, <2>2, <2>3, <2>4, PushPop
  <1>5. CASE ContextExit
    <2>1. Running /\ rstack # <<>> /\ Top(rstack).type = "context" /\ UNCHANGED <<phase, jump>>
      BY <1>5 DEF ContextExit, Leave
    <2>2. stack # <<>> /\ Top(stack).type = "context"
      BY <1>1, <2>1, SameHeight
    <2>3. stack' = Below(stack)
      BY <1>5, <2>2 DEF ContextExit, Matches
    <2> QED
      BY <1>1, <2>1, <2>2, <2>3, PushPop DEF IsCall, CallTypes, Top
  <1>6. CASE \E s \in Promises : GcUnmark(s)
    BY <1>1, <1>6 DEF GcUnmark, Stays, SameContext
  <1> QED
    BY <1>1, <1>2, <1>3, <1>4, <1>5, <1>6 DEF PromiseOrContext, Alone

\* A call ends, and its trace was handed to the store; or a jump leaves what has none.
LEMMA TopLeaves ==
    ASSUME WholeInv, CallEnds \/ JumpContinues
    PROVE  /\ Pops /\ pc = "running" /\ dealt' = FALSE
           /\ UNCHANGED <<storeVars, value, begun, phase>>
           /\ dealt \/ (jump # NoJump /\ ~JumpedClosure)
  <1>1. IInv
    BY DEF WholeInv
  <1>2. CASE CallEnds
    <2>1. PICK type \in CallTypes : CallExit(type)
      BY <1>2 DEF CallEnds
    <2>2. Running /\ rstack # <<>> /\ Top(rstack).type = type /\ UNCHANGED phase
      BY <2>1 DEF CallExit, Leave
    <2>3. stack # <<>> /\ Top(stack).type = type
      BY <1>1, <2>2, SameHeight
    <2>4. stack' = Below(stack)
      BY <2>1, <2>3 DEF CallExit, Matches
    <2> QED
      BY <1>1, <1>2, <2>2, <2>3, <2>4, PushPop DEF CallEnds
  <1>3. CASE JumpContinues
    <2>1. /\ jump # NoJump /\ stack' = Below(stack) /\ UNCHANGED phase
      BY <1>3 DEF JumpContinues, JumpStep
    <2>2. stack # <<>>
      BY <1>1, <2>1, JumpHasContext
    <2> QED
      BY <1>1, <1>3, <2>1, <2>2, PushPop DEF JumpContinues
  <1> QED
    BY <1>2, <1>3

\* A jump starts on a stack that it has not changed yet.
LEMMA JumpStartStays ==
    ASSUME WholeInv, NEW i \in 1..Len(rstack), NEW ret \in Types \cup {NoValue},
           JumpStarts(i, ret)
    PROVE  /\ Stays /\ Ready /\ value' \in Types \cup {Jumped, NoValue}
           /\ UNCHANGED <<storeVars, dealt, begun, phase>>
  BY DEF JumpStarts, ContextJump, Stays, SameContext, WholeInv

\* Every other step leaves the stack alone.
LEMMA OthersStay ==
    ASSUME \/ StartTracing \/ StoreWorks \/ StopTracing \/ WriteTraces \/ UNCHANGED allVars
    PROVE  UNCHANGED <<stack, dealt, value, begun>> /\ Stays
  BY DEF StartTracing, DyntraceEntry, StoreWorks, StopTracing, DyntraceExit, WriteTraces,
         allVars, vars, Stays, SameContext

\* The contexts of the calls go on being those of their functions.
LEMMA CallsStayOfFunctions ==
    ASSUME WholeInv, IInv', [AllNext]_allVars
    PROVE  CallsAreOfFunctions'
  <1> DEFINE OfFunction(f) ==
                 /\ f.ref \in Ops /\ f.type = OpType[f.ref]
                 /\ f.type = "closure" => DOMAIN f.trace = 1..NumFormals[f.ref]
  <1>1. /\ CallsAreOfFunctions /\ Len(stack) \in Nat /\ Len(stack') \in Nat
        /\ \A h \in 1..Len(stack) : IsCall(stack[h]) => OfFunction(stack[h])
    BY DEF WholeInv, IInv, TypeOK, CallsAreOfFunctions, Calls
  <1>2. ASSUME NEW h \in 1..Len(stack), SameContext(h), IsCall(stack'[h])
        PROVE  OfFunction(stack'[h])
    BY <1>1, <1>2 DEF SameContext, IsCall
  <1>3. ASSUME \A h \in 1..Len(stack') : IsCall(stack'[h]) => OfFunction(stack'[h])
        PROVE  CallsAreOfFunctions'
    BY <1>3 DEF CallsAreOfFunctions, Calls
  <1> HIDE DEF OfFunction
  <1>4. CASE Stays \/ Pops
    BY <1>1, <1>2, <1>3, <1>4 DEF Stays, Pops
  <1>5. CASE Pushes /\ (IsCall(stack'[Len(stack) + 1]) => OfFunction(stack'[Len(stack) + 1]))
    BY <1>1, <1>2, <1>3, <1>5 DEF Pushes
  <1>6. CASE CallBegins
    <2>1. Pushes /\ OfFunction(stack'[Len(stack) + 1])
      BY <1>6, CallPushed DEF OfFunction
    <2> QED
      BY <1>5, <2>1
  <1>7. CASE PromiseOrContext
    BY <1>4, <1>5, <1>7, NoCallMoves
  <1>8. CASE CallEnds \/ JumpContinues
    BY <1>4, <1>8, TopLeaves
  <1>9. CASE (\E ret \in Types : ClosureReturns(ret) \/ PrimitiveReturns(ret)) \/ JumpDeals
    BY <1>4, <1>9, DealtIsTrace DEF Stays, SameContext, vars
  <1>10. CASE \E i \in 1..Len(rstack), ret \in Types \cup {NoValue} : JumpStarts(i, ret)
    BY <1>4, <1>10, JumpStartStays
  <1>11. CASE StartTracing \/ StoreWorks \/ StopTracing \/ WriteTraces \/ UNCHANGED allVars
    BY <1>4, <1>11, OthersStay
  <1> QED
    BY <1>6, <1>7, <1>8, <1>9, <1>10, <1>11 DEF AllNext, Probe

(***************************************************************************)
(* The stages of a probe                                                   *)
(***************************************************************************)

\* deal_with_call_trace goes on: where it is, and what it leaves alone.
LEMMA StoreWorksAt ==
    ASSUME WholeInv, StoreWorks
    PROVE  /\ pc \in {"insert", "increment", "count"} /\ pc' \in {"running", "count"}
           /\ dealt /\ UNCHANGED <<vars, dealt, value, begun, trace, file>>
           /\ pc' = "count" <=> pc = "insert"
  <1>1. pc \in {"insert", "increment", "count"} => dealt
    BY DEF WholeInv, ProbeStages
  <1>2. pc = "increment" => counts[trace] # Null
    <2>1. trace \in CallTraces /\ [t \in CallTraces |-> t][trace] = trace /\ Null \notin Nat
      BY StoreConstants DEF WholeInv, Store!IInv, Store!TypeOK
    <2>2. Store!Accounted(trace) /\ Store!IInv /\ seen[trace] \in Nat
      BY <2>1 DEF WholeInv, Store!IInv, Store!TypeOK
    <2>3. ASSUME pc = "increment" PROVE counts[trace] \in Int
      BY <2>1, <2>2, <2>3 DEF Store!IInv, Store!Accounted
    <2>4. counts[trace] \in Nat \cup {Null}
      BY <2>1 DEF WholeInv, Store!IInv, Store!TypeOK
    <2> QED
      BY <2>1, <2>2, <2>3, <2>4 DEF Store!IInv, Store!Accounted
  <1>3. CASE Store!Increment
    <2>1. [t \in CallTraces |-> t][trace] = trace
      BY DEF WholeInv, Store!IInv, Store!TypeOK
    <2> QED
      BY <1>1, <1>2, <1>3, <2>1 DEF StoreWorks, Store!Increment
  <1>4. CASE Store!Insert
    BY <1>1, <1>4 DEF StoreWorks, Store!Insert
  <1>5. CASE Store!Count
    BY <1>1, <1>5 DEF StoreWorks, Store!Count
  <1> QED
    BY <1>3, <1>4, <1>5 DEF StoreWorks

\* A trace is in the hands of the store only while the call that it is of is on top.
LEMMA StagesKept ==
    ASSUME WholeInv, IInv', [AllNext]_allVars
    PROVE  ProbeStages'
  <1>1. /\ phase = "idle" <=> pc \in {"idle", "opened"}
        /\ pc \in {"insert", "increment", "count"} => dealt
        /\ dealt => /\ pc \in {"running", "insert", "increment", "count"}
                    /\ stack # <<>> /\ IsCall(Top(stack)) /\ trace.op = Top(stack).ref
        /\ dealt /\ jump # NoJump => JumpedClosure /\ trace.ret = UnwoundType
    BY DEF WholeInv, ProbeStages
  <1>2. CASE CallBegins
    <2>1. Ready /\ UNCHANGED <<storeVars, dealt, phase>>
      BY <1>2, CallPushed
    <2> QED
      BY <1>1, <2>1 DEF ProbeStages, Ready, storeVars
  <1>3. CASE PromiseOrContext
    <2>1. Ready /\ UNCHANGED <<storeVars, dealt, phase>>
      BY <1>3, NoCallMoves
    <2> QED
      BY <1>1, <2>1 DEF ProbeStages, Ready, storeVars
  <1>4. CASE CallEnds \/ JumpContinues
    <2>1. pc = "running" /\ dealt' = FALSE /\ UNCHANGED <<storeVars, phase>>
      BY <1>4, TopLeaves
    <2> QED
      BY <1>1, <2>1 DEF ProbeStages, storeVars
  <1>5. CASE (\E ret \in Types : ClosureReturns(ret) \/ PrimitiveReturns(ret)) \/ JumpDeals
    <2>1. PICK t \in CallTraces :
             /\ t.op = Top(stack).ref
             /\ jump # NoJump => JumpedClosure /\ t.ret = UnwoundType
             /\ Store!DealWithCallTrace(t)
      BY <1>5, DealtIsTrace
    <2>2. /\ stack # <<>> /\ IsCall(Top(stack)) /\ Ready /\ dealt' = TRUE
          /\ UNCHANGED <<vars, value>>
      BY <1>5, DealtIsTrace
    <2>3. trace' = t /\ pc = "running" /\ pc' \in {"insert", "increment"}
      BY <2>1 DEF Store!DealWithCallTrace
    <2>4. /\ UNCHANGED <<phase, stack, jump, value>>
      BY <2>2 DEF vars
    <2>5. (JumpedClosure' <=> JumpedClosure) /\ UnwoundType' = UnwoundType
      BY <2>4 DEF JumpedClosure, UnwoundType
    <2> QED
      BY <1>1, <2>1, <2>2, <2>3, <2>4, <2>5 DEF ProbeStages
  <1>6. CASE \E i \in 1..Len(rstack), ret \in Types \cup {NoValue} : JumpStarts(i, ret)
    <2>1. Ready /\ UNCHANGED <<storeVars, dealt, phase>>
      BY <1>6, JumpStartStays
    <2> QED
      BY <1>1, <2>1 DEF ProbeStages, Ready, storeVars
  <1>7. CASE StoreWorks
    <2>1. /\ pc \in {"insert", "increment", "count"} /\ pc' \in {"running", "count"}
          /\ dealt /\ UNCHANGED <<phase, stack, jump, value, dealt, trace>>
      BY <1>7, StoreWorksAt DEF vars
    <2>2. (JumpedClosure' <=> JumpedClosure) /\ UnwoundType' = UnwoundType
      BY <2>1 DEF JumpedClosure, UnwoundType
    <2> QED
      BY <1>1, <2>1, <2>2 DEF ProbeStages
  <1>8. CASE StartTracing \/ StopTracing \/ WriteTraces
    <2>1. /\ ~dealt /\ dealt' = dealt /\ pc' \notin {"insert", "increment", "count"}
          /\ phase' = "idle" <=> pc' \in {"idle", "opened"}
      BY <1>1, <1>8 DEF StartTracing, DyntraceEntry, Store!DyntraceEntry, StopTracing,
                        DyntraceExit, Store!DyntraceExit, WriteTraces,
                        Store!SerializeTracesList, vars
    <2> QED
      BY <2>1 DEF ProbeStages
  <1>9. CASE UNCHANGED allVars
    BY <1>1, <1>9 DEF ProbeStages, allVars, vars, storeVars, JumpedClosure, UnwoundType
  <1> QED
    BY <1>2, <1>3, <1>4, <1>5, <1>6, <1>7, <1>8, <1>9 DEF AllNext, Probe

\* The file has been written or has nothing.
LEMMA FileKept ==
    ASSUME WholeInv, [AllNext]_allVars
    PROVE  ~file'.complete => file' = Store!EmptyFile
  <1>1. ~file.complete => file = Store!EmptyFile
    BY DEF WholeInv
  <1>2. [Store!Next]_(Store!vars)
    BY StoreStep
  <1>3. file' = file \/ file' = Store!EmptyFile \/ file' = Store!Contents
    BY <1>2 DEF Store!Next, Store!vars, Store!DyntraceEntry, Store!DealWithCallTrace,
                Store!Increment, Store!Insert, Store!Count, Store!DyntraceExit,
                Store!SerializeTracesList, Store!HandleSignal
  <1>4. Store!Contents.complete
    BY DEF Store!Contents
  <1>5. Store!EmptyFile' = Store!EmptyFile
    BY DEF Store!EmptyFile
  <1> QED
    BY <1>1, <1>3, <1>4, <1>5

(***************************************************************************)
(* The calls that are open                                                 *)
(***************************************************************************)

\* The call on top is over for the store, and still on the stack.
TopCounted == dealt /\ pc = "running"

OpenOf == [op \in Ops |-> Cardinality(OpenCalls(op))]

\* Finitely many calls are open.
LEMMA OpenFinite ==
    ASSUME IInv, NEW op
    PROVE  IsFiniteSet(OpenCalls(op)) /\ Cardinality(OpenCalls(op)) \in Nat
  <1>1. Len(stack) \in Nat
    BY DEF IInv, TypeOK
  <1>2. IsFiniteSet(1..Len(stack))
    BY <1>1, FS_Interval
  <1>3. OpenCalls(op) \in SUBSET (1..Len(stack))
    BY DEF OpenCalls, Calls
  <1>4. IsFiniteSet(OpenCalls(op))
    BY <1>2, <1>3, FS_Subset
  <1> QED
    BY <1>4, FS_CardinalityType

\* No call begins or ends.
LEMMA OpenWhenStays ==
    ASSUME IInv, Stays, TopCounted' <=> TopCounted, NEW op
    PROVE  OpenCalls(op)' = OpenCalls(op)
  BY DEF Stays, SameContext, OpenCalls, Calls, IsCall, TopCounted

\* A context is pushed.
LEMMA OpenWhenPushed ==
    ASSUME IInv, Pushes, ~TopCounted, ~TopCounted', NEW op
    PROVE  LET n == Len(stack) + 1
           IN  /\ n \notin OpenCalls(op)
               /\ OpenCalls(op)' = IF IsCall(stack'[n]) /\ stack'[n].ref = op
                                   THEN OpenCalls(op) \cup {n} ELSE OpenCalls(op)
  <1>1. Len(stack) \in Nat
    BY DEF IInv, TypeOK
  <1>2. \A h \in 1..(Len(stack) + 1) : h \in 1..Len(stack) \/ h = Len(stack) + 1
    BY <1>1
  <1> QED
    BY <1>1, <1>2 DEF Pushes, SameContext, OpenCalls, Calls, IsCall, TopCounted

\* A context is popped.
LEMMA OpenWhenPopped ==
    ASSUME IInv, Pops, ~TopCounted', NEW op
    PROVE  OpenCalls(op)' = OpenCalls(op) \ {Len(stack)}
  <1>1. Len(stack) \in Nat \ {0} /\ Len(stack') = Len(stack) - 1
    BY Typing DEF IInv, Pops
  <1>2. \A h \in 1..Len(stack) : h # Len(stack) <=> h \in 1..Len(stack')
    BY <1>1
  <1> QED
    BY <1>1, <1>2 DEF Pops, SameContext, OpenCalls, Calls, IsCall, TopCounted

\* The call on top is counted.
LEMMA OpenWhenCounted ==
    ASSUME IInv, Stays, ~TopCounted, TopCounted', NEW op
    PROVE  OpenCalls(op)' = OpenCalls(op) \ {Len(stack)}
  BY DEF Stays, SameContext, OpenCalls, Calls, IsCall, TopCounted

\* If none of them changes, no number does.
LEMMA OpenOfSame ==
    ASSUME \A op \in Ops : OpenCalls(op)' = OpenCalls(op)
    PROVE  OpenOf' = OpenOf
  BY DEF OpenOf

\* A call on top of the stack that the store has not counted is open, and of one function.
LEMMA TopOpen ==
    ASSUME WholeInv, stack # <<>>, ~TopCounted, IsCall(Top(stack))
    PROVE  /\ Top(stack).ref \in Ops /\ Top(stack).type = OpType[Top(stack).ref]
           /\ \A op : Len(stack) \in OpenCalls(op) <=> op = Top(stack).ref
  <1>1. Len(stack) \in 1..Len(stack) /\ Top(stack) = stack[Len(stack)]
    BY Typing DEF WholeInv, IInv, Top
  <1> QED
    BY <1>1 DEF WholeInv, CallsAreOfFunctions, OpenCalls, Calls, TopCounted

\* One call of f less.
LEMMA OneLess ==
    ASSUME IInv, NEW f \in Ops, \A op : Len(stack) \in OpenCalls(op) <=> op = f,
           \A op \in Ops : OpenCalls(op)' = OpenCalls(op) \ {Len(stack)}
    PROVE  OpenOf[f] > 0 /\ OpenOf' = [OpenOf EXCEPT ![f] = @ - 1]
  <1> DEFINE n == Len(stack)
  <1>1. ASSUME NEW op \in Ops
        PROVE  /\ Cardinality(OpenCalls(op)) \in Nat
               /\ IsFiniteSet(OpenCalls(op))
               /\ Cardinality(OpenCalls(op) \ {n})
                    = IF op = f THEN Cardinality(OpenCalls(op)) - 1 ELSE Cardinality(OpenCalls(op))
    <2>1. IsFiniteSet(OpenCalls(op)) /\ Cardinality(OpenCalls(op)) \in Nat
      BY OpenFinite
    <2>2. n \in OpenCalls(op) <=> op = f
      OBVIOUS
    <2> HIDE DEF n
    <2> QED
      BY <2>1, <2>2, FS_RemoveElement
  <1>2. Cardinality(OpenCalls(f)) # 0
    BY <1>1, FS_EmptySet
  <1>3. \A op \in Ops : Cardinality(OpenCalls(op)') = Cardinality(OpenCalls(op) \ {n})
    OBVIOUS
  <1>4. OpenOf[f] = Cardinality(OpenCalls(f)) /\ OpenOf[f] \in Nat
    BY <1>1 DEF OpenOf
  <1>5. \A op \in Ops : Cardinality(OpenCalls(op)') = IF op = f THEN OpenOf[f] - 1 ELSE OpenOf[op]
    BY <1>1, <1>3, <1>4 DEF OpenOf
  <1>6. OpenOf' = [op \in Ops |-> IF op = f THEN OpenOf[f] - 1 ELSE OpenOf[op]]
    BY <1>5 DEF OpenOf
  <1>7. OpenOf = [op \in Ops |-> OpenOf[op]]
    BY DEF OpenOf
  <1>8. OpenOf[f] > 0
    BY <1>1, <1>2, <1>4
  <1> HIDE DEF OpenOf
  <1> QED
    BY <1>6, <1>7, <1>8

\* One call of f more.
LEMMA OneMoreOpen ==
    ASSUME IInv, NEW f \in Ops, NEW n, n \notin OpenCalls(f),
           \A op \in Ops : OpenCalls(op)' = IF op = f THEN OpenCalls(op) \cup {n} ELSE OpenCalls(op)
    PROVE  OpenOf' = [OpenOf EXCEPT ![f] = @ + 1]
  <1>1. Cardinality(OpenCalls(f) \cup {n}) = Cardinality(OpenCalls(f)) + 1
    BY OpenFinite, FS_AddElement
  <1>2. \A op \in Ops : Cardinality(OpenCalls(op)')
          = IF op = f THEN Cardinality(OpenCalls(f) \cup {n}) ELSE Cardinality(OpenCalls(op))
    OBVIOUS
  <1> QED
    BY <1>1, <1>2 DEF OpenOf

(***************************************************************************)
(* The calls that are counted                                              *)
(***************************************************************************)

\* A call in a table is a trace and one of the numbers up to the table's.
LEMMA CallsInElements ==
    ASSUME NEW table, NEW op, NEW c
    PROVE  c \in CallsIn(table, op) <=>
             \E t \in CallTraces : \E k \in 1..table[t] : t.op = op /\ c = <<t, k>>
  BY DEF CallsIn

\* A table with one more call of trace t.
OneMore(table, t) == [table EXCEPT ![t] = @ + 1]

\* One more call with trace t is one more of t's function, and of no other.
LEMMA OneMoreCall ==
    ASSUME NEW table \in [CallTraces -> Nat], NEW t \in CallTraces, NEW op
    PROVE  /\ <<t, table[t] + 1>> \notin CallsIn(table, op)
           /\ CallsIn(OneMore(table, t), op)
                = IF t.op = op THEN CallsIn(table, op) \cup {<<t, table[t] + 1>>}
                  ELSE CallsIn(table, op)
  <1> DEFINE more == OneMore(table, t)
  <1>1. /\ table[t] \in Nat
        /\ \A u \in CallTraces : more[u] = IF u = t THEN table[t] + 1 ELSE table[u]
    BY DEF OneMore
  <1> HIDE DEF more
  <1>2. <<t, table[t] + 1>> \notin CallsIn(table, op)
    BY <1>1, CallsInElements
  <1>3. ASSUME NEW c
        PROVE  c \in CallsIn(more, op) <=>
                 c \in CallsIn(table, op) \/ (t.op = op /\ c = <<t, table[t] + 1>>)
    <2>1. ASSUME NEW u \in CallTraces, NEW k \in 1..more[u], u.op = op, c = <<u, k>>
          PROVE  c \in CallsIn(table, op) \/ (t.op = op /\ c = <<t, table[t] + 1>>)
      <3>1. (u = t /\ k = table[t] + 1) \/ k \in 1..table[u]
        BY <1>1, <2>1
      <3> QED
        BY <2>1, <3>1, CallsInElements
    <2>2. ASSUME NEW u \in CallTraces, NEW k \in 1..table[u], u.op = op, c = <<u, k>>
          PROVE  c \in CallsIn(more, op)
      <3>1. k \in 1..more[u]
        BY <1>1, <2>2
      <3> QED
        BY <2>2, <3>1, CallsInElements
    <2>3. ASSUME t.op = op, c = <<t, table[t] + 1>>
          PROVE  c \in CallsIn(more, op)
      <3>1. table[t] + 1 \in 1..more[t]
        BY <1>1
      <3> QED
        BY <2>3, <3>1, CallsInElements
    <2>4. ASSUME c \in CallsIn(more, op)
          PROVE  c \in CallsIn(table, op) \/ (t.op = op /\ c = <<t, table[t] + 1>>)
      <3>1. PICK u \in CallTraces : \E k \in 1..more[u] : u.op = op /\ c = <<u, k>>
        BY <2>4 DEF CallsIn
      <3> QED
        BY <2>1, <3>1
    <2>5. ASSUME c \in CallsIn(table, op) PROVE c \in CallsIn(more, op)
      <3>1. PICK u \in CallTraces : \E k \in 1..table[u] : u.op = op /\ c = <<u, k>>
        BY <2>5, CallsInElements
      <3> QED
        BY <2>2, <3>1
    <2> QED
      BY <2>3, <2>4, <2>5
  <1>4. CallsIn(more, op) = IF t.op = op THEN CallsIn(table, op) \cup {<<t, table[t] + 1>>}
                            ELSE CallsIn(table, op)
    <2>1. CASE t.op = op
      BY <1>3, <2>1
    <2>2. CASE t.op # op
      BY <1>3, <2>2
    <2> QED
      BY <2>1, <2>2
  <1> QED
    BY <1>2, <1>4 DEF more

\* The store has counted no trace more often than it can say.
LEMMA CountedTyped == WholeInv => Counted \in [CallTraces -> Nat]
  BY DEF WholeInv, Store!IInv, Store!TypeOK, Counted

\* deal_with_call_trace counts the trace that it was given, once, when it returns.
LEMMA CountedWhenDealt ==
    ASSUME WholeInv, StoreWorks
    PROVE  /\ trace \in CallTraces
           /\ Counted' = IF pc' = "running" THEN [Counted EXCEPT ![trace] = @ + 1] ELSE Counted
  <1>1. /\ trace \in CallTraces /\ [t \in CallTraces |-> t][trace] = trace
        /\ Null \notin Nat /\ counts \in [CallTraces -> Nat \cup {Null}]
        /\ Store!Accounted(trace) /\ interrupted = {}
    BY StoreConstants DEF WholeInv, Store!IInv, Store!TypeOK
  <1>2. pc \in {"insert", "increment", "count"} /\ pc' \in {"running", "count"}
    BY StoreWorksAt
  <1>3. CASE Store!Insert
    BY <1>1, <1>3 DEF Store!Insert, Counted
  <1>4. CASE Store!Increment
    <2>1. counts[trace] # Null /\ pc' = "running"
      BY <1>1, <1>2, <1>4 DEF Store!Increment
    <2>2. counts' = [counts EXCEPT ![trace] = @ + 1] /\ counts[trace] \in Nat
      BY <1>1, <1>4, <2>1 DEF Store!Increment
    <2>3. \A t \in CallTraces : counts'[t] # Null <=> counts[t] # Null
      BY <1>1, <2>1, <2>2
    <2> QED
      BY <1>1, <2>1, <2>2, <2>3 DEF Counted
  <1>5. CASE Store!Count
    <2>1. pc = "count" /\ pc' = "running" /\ traces[trace] # Null
      BY <1>1, <1>5 DEF Store!Count, WholeInv, Store!IInv
    <2>2. counts[trace] = Null
      BY <1>1, <2>1 DEF Store!Accounted
    <2>3. counts' = [counts EXCEPT ![trace] = 1]
      BY <1>1, <1>5, <2>2 DEF Store!Count
    <2>4. \A t \in CallTraces :
             (IF counts'[t] = Null THEN 0 ELSE counts'[t])
               = IF t = trace THEN 1 ELSE Counted[t]
      BY <1>1, <2>3 DEF Counted
    <2>5. Counted' = [t \in CallTraces |-> IF t = trace THEN 1 ELSE Counted[t]]
      BY <2>4 DEF Counted
    <2>6. Counted = [t \in CallTraces |-> Counted[t]] /\ Counted[trace] = 0
      BY <1>1, <2>2 DEF Counted
    <2> HIDE DEF Counted
    <2> QED
      BY <1>1, <2>1, <2>5, <2>6
  <1> QED
    BY <1>3, <1>4, <1>5 DEF StoreWorks

\* operator[] in serialize_traces_list inserts nothing: every stored trace has a count.
LEMMA NothingRead ==
    ASSUME WholeInv, WriteTraces
    PROVE  counts' = counts /\ Counted' = Counted
  <1>1. /\ counts' = Store!CountsRead /\ pc = "opened"
        /\ counts \in [CallTraces -> Nat \cup {Null}] /\ seen \in [CallTraces -> Nat]
        /\ \A t \in CallTraces : Store!Accounted(t)
        /\ interrupted = {} /\ Null \notin Nat
    BY StoreConstants DEF WriteTraces, Store!SerializeTracesList, WholeInv, Store!IInv, Store!TypeOK
  <1>2. ASSUME NEW t \in CallTraces PROVE Store!CountsRead[t] = counts[t]
    BY <1>1 DEF Store!Accounted, Store!CountsRead
  <1>3. counts' = counts
    BY <1>1, <1>2 DEF Store!CountsRead
  <1> QED
    BY <1>3 DEF Counted

(***************************************************************************)
(* The ledger of calls                                                     *)
(***************************************************************************)

\* What a step does to the calls that are open and to those that are counted.
Begins(f) ==
    /\ OpenOf' = [OpenOf EXCEPT ![f] = @ + 1] /\ begun' = [begun EXCEPT ![f] = @ + 1]
    /\ UNCHANGED Counted

Ends(t) ==
    /\ OpenOf[t.op] > 0 /\ OpenOf' = [OpenOf EXCEPT ![t.op] = @ - 1]
    /\ Counted' = [Counted EXCEPT ![t] = @ + 1] /\ UNCHANGED begun

Drops(f) ==
    /\ f \notin Closures /\ OpenOf[f] > 0 /\ OpenOf' = [OpenOf EXCEPT ![f] = @ - 1]
    /\ UNCHANGED <<Counted, begun>>

\* A call's probe of entry opens it.
LEMMA EntryBegins ==
    ASSUME WholeInv, IInv', CallBegins
    PROVE  \E f \in Ops : Begins(f)
  <1> DEFINE n == Len(stack) + 1
  <1>1. /\ Pushes /\ Ready /\ UNCHANGED <<storeVars, dealt>>
    BY CallPushed
  <1>2. PICK f \in Ops : /\ stack'[n].ref = f /\ IsCall(stack'[n])
                         /\ begun' = [begun EXCEPT ![f] = @ + 1]
    BY CallPushed
  <1>3. IInv /\ ~TopCounted /\ ~TopCounted'
    BY <1>1 DEF WholeInv, TopCounted, Ready
  <1>4. \A op \in Ops : /\ n \notin OpenCalls(op)
                        /\ OpenCalls(op)' = IF IsCall(stack'[n]) /\ stack'[n].ref = op
                                            THEN OpenCalls(op) \cup {n} ELSE OpenCalls(op)
    BY <1>1, <1>3, OpenWhenPushed
  <1> HIDE DEF n
  <1>5. OpenOf' = [OpenOf EXCEPT ![f] = @ + 1]
    <2>1. \A op \in Ops :
             OpenCalls(op)' = IF op = f THEN OpenCalls(op) \cup {n} ELSE OpenCalls(op)
      BY <1>2, <1>4
    <2> QED
      BY <1>3, <1>4, <2>1, OneMoreOpen
  <1>6. Counted' = Counted
    BY <1>1 DEF storeVars, Counted
  <1> QED
    BY <1>2, <1>5, <1>6 DEF Begins

\* The call on top, handed to the store by its exit probe or by a jump, is counted once.
LEMMA StoreCounts ==
    ASSUME WholeInv, StoreWorks
    PROVE  IF pc' = "running" THEN Ends(trace) ELSE UNCHANGED <<OpenOf, Counted, begun>>
  <1>1. /\ pc \in {"insert", "increment", "count"} /\ dealt /\ UNCHANGED <<stack, dealt, begun>>
    BY StoreWorksAt DEF vars
  <1>2. IInv /\ ~TopCounted /\ (TopCounted' <=> pc' = "running") /\ Stays
    BY <1>1, OthersStay DEF WholeInv, TopCounted
  <1>3. /\ trace \in CallTraces
        /\ Counted' = IF pc' = "running" THEN [Counted EXCEPT ![trace] = @ + 1] ELSE Counted
    BY CountedWhenDealt
  <1>4. CASE pc' = "running"
    <2>1. stack # <<>> /\ IsCall(Top(stack)) /\ trace.op = Top(stack).ref
      BY <1>1 DEF WholeInv, ProbeStages
    <2>2. trace.op \in Ops /\ \A op : Len(stack) \in OpenCalls(op) <=> op = trace.op
      BY <1>2, <2>1, TopOpen
    <2>3. \A op \in Ops : OpenCalls(op)' = OpenCalls(op) \ {Len(stack)}
      BY <1>2, <1>4, OpenWhenCounted
    <2>4. OpenOf[trace.op] > 0 /\ OpenOf' = [OpenOf EXCEPT ![trace.op] = @ - 1]
      BY <1>2, <2>2, <2>3, OneLess
    <2> QED
      BY <1>1, <1>3, <1>4, <2>4 DEF Ends
  <1>5. CASE pc' # "running"
    <2>1. \A op \in Ops : OpenCalls(op)' = OpenCalls(op)
      BY <1>2, <1>5, OpenWhenStays
    <2> QED
      BY <1>1, <1>3, <1>5, <2>1, OpenOfSame
  <1> QED
    BY <1>4, <1>5

\* What leaves the stack was counted, or is no closure's call.
LEMMA TopLeavesLedger ==
    ASSUME WholeInv, CallEnds \/ JumpContinues
    PROVE  (\E f \in Ops : Drops(f)) \/ UNCHANGED <<OpenOf, Counted, begun>>
  <1>1. /\ Pops /\ pc = "running" /\ dealt' = FALSE /\ UNCHANGED <<storeVars, begun>>
        /\ dealt \/ (jump # NoJump /\ ~JumpedClosure)
    BY TopLeaves
  <1>2. IInv /\ ~TopCounted' /\ stack # <<>> /\ Len(stack) \in 1..Len(stack)
          /\ Top(stack) = stack[Len(stack)]
    BY <1>1, Typing DEF WholeInv, IInv, TopCounted, Pops, Top
  <1>3. Counted' = Counted
    BY <1>1 DEF storeVars, Counted
  <1>4. \A op \in Ops : OpenCalls(op)' = OpenCalls(op) \ {Len(stack)}
    BY <1>1, <1>2, OpenWhenPopped
  <1>5. CASE dealt \/ ~IsCall(Top(stack))
    <2>1. \A op \in Ops : Len(stack) \notin OpenCalls(op)
      BY <1>1, <1>2, <1>5 DEF OpenCalls, Calls
    <2>2. \A op \in Ops : OpenCalls(op)' = OpenCalls(op)
      BY <1>4, <2>1
    <2> QED
      BY <1>1, <1>3, <2>2, OpenOfSame
  <1>6. CASE ~dealt /\ IsCall(Top(stack))
    <2> DEFINE f == Top(stack).ref
    <2>1. ~TopCounted /\ Top(stack).type # "closure"
      BY <1>1, <1>6 DEF TopCounted, JumpedClosure
    <2>2. /\ f \in Ops /\ Top(stack).type = OpType[f]
          /\ \A op : Len(stack) \in OpenCalls(op) <=> op = f
      BY <1>2, <1>6, <2>1, TopOpen
    <2>3. f \notin Closures
      BY <2>1, <2>2 DEF Closures
    <2> HIDE DEF f
    <2>4. OpenOf[f] > 0 /\ OpenOf' = [OpenOf EXCEPT ![f] = @ - 1]
      BY <1>2, <1>4, <2>2, OneLess
    <2> QED
      BY <1>1, <1>3, <2>2, <2>3, <2>4 DEF Drops
  <1> QED
    BY <1>5, <1>6

\* Every step opens a call, counts one, drops one that is no closure's, or does neither.
LEMMA LedgerStep ==
    ASSUME WholeInv, IInv', [AllNext]_allVars
    PROVE  \/ \E f \in Ops : Begins(f) \/ Drops(f)
           \/ \E t \in CallTraces : Ends(t)
           \/ UNCHANGED <<OpenOf, Counted, begun>>
  <1>1. IInv
    BY DEF WholeInv
  <1>2. ASSUME Stays, TopCounted' <=> TopCounted, UNCHANGED <<counts, begun>>
        PROVE  UNCHANGED <<OpenOf, Counted, begun>>
    <2>1. \A op \in Ops : OpenCalls(op)' = OpenCalls(op)
      BY <1>1, <1>2, OpenWhenStays
    <2> QED
      BY <1>2, <2>1, OpenOfSame DEF Counted
  <1>3. CASE CallBegins
    BY <1>3, EntryBegins
  <1>4. CASE PromiseOrContext
    <2>1. /\ Ready /\ UNCHANGED <<storeVars, dealt, begun>>
          /\ \/ Stays
             \/ Pops /\ ~IsCall(stack[Len(stack)])
             \/ Pushes /\ ~IsCall(stack'[Len(stack) + 1])
      BY <1>4, NoCallMoves
    <2>2. ~TopCounted /\ ~TopCounted' /\ UNCHANGED counts
      BY <2>1 DEF TopCounted, Ready, storeVars
    <2>3. CASE Stays
      BY <1>2, <2>1, <2>2, <2>3
    <2>4. CASE Pops /\ ~IsCall(stack[Len(stack)])
      <3>1. \A op \in Ops : OpenCalls(op)' = OpenCalls(op) \ {Len(stack)}
        BY <1>1, <2>2, <2>4, OpenWhenPopped
      <3>2. \A op \in Ops : OpenCalls(op)' = OpenCalls(op)
        BY <2>4, <3>1 DEF OpenCalls, Calls
      <3> QED
        BY <2>1, <2>2, <3>2, OpenOfSame DEF Counted
    <2>5. CASE Pushes /\ ~IsCall(stack'[Len(stack) + 1])
      <3>1. \A op \in Ops : OpenCalls(op)' = OpenCalls(op)
        BY <1>1, <2>2, <2>5, OpenWhenPushed
      <3> QED
        BY <2>1, <2>2, <3>1, OpenOfSame DEF Counted
    <2> QED
      BY <2>1, <2>3, <2>4, <2>5
  <1>5. CASE (\E ret \in Types : ClosureReturns(ret) \/ PrimitiveReturns(ret)) \/ JumpDeals
    <2>1. Ready /\ UNCHANGED <<vars, begun>> /\ \E t \in CallTraces : Store!DealWithCallTrace(t)
      BY <1>5, DealtIsTrace
    <2>2. Stays
      BY <2>1 DEF vars, Stays, SameContext
    <2>3. ~TopCounted /\ ~TopCounted' /\ UNCHANGED counts
      BY <2>1 DEF TopCounted, Ready, Store!DealWithCallTrace
    <2> QED
      BY <1>2, <2>1, <2>2, <2>3
  <1>6. CASE \E i \in 1..Len(rstack), ret \in Types \cup {NoValue} : JumpStarts(i, ret)
    <2>1. Stays /\ UNCHANGED <<storeVars, dealt, begun>>
      BY <1>6, JumpStartStays
    <2>2. (TopCounted' <=> TopCounted) /\ UNCHANGED counts
      BY <2>1 DEF TopCounted, storeVars
    <2> QED
      BY <1>2, <2>1, <2>2
  <1>7. CASE StoreWorks
    BY <1>7, StoreCounts, CountedWhenDealt
  <1>8. CASE CallEnds \/ JumpContinues
    BY <1>8, TopLeavesLedger
  <1>9. CASE StartTracing \/ StopTracing \/ WriteTraces \/ UNCHANGED allVars
    <2>1. Stays /\ UNCHANGED <<dealt, begun>>
      BY <1>9, OthersStay
    <2>2. TopCounted' <=> TopCounted
      BY <1>9, <2>1 DEF TopCounted, StartTracing, Store!DyntraceEntry, StopTracing,
                        Store!DyntraceExit, WriteTraces, Store!SerializeTracesList,
                        allVars, storeVars, WholeInv, ProbeStages
    <2>3. UNCHANGED counts
      BY <1>9, NothingRead DEF StartTracing, Store!DyntraceEntry, StopTracing,
                               Store!DyntraceExit, allVars, storeVars
    <2> QED
      BY <1>2, <2>1, <2>2, <2>3
  <1> QED
    BY <1>3, <1>4, <1>5, <1>6, <1>7, <1>8, <1>9 DEF AllNext, Probe

\* The sum over the traces of a closure goes up when a call of it is counted.
LEMMA AccountsKept ==
    ASSUME WholeInv, IInv', [AllNext]_allVars
    PROVE  ClosuresAccounted'
  <1>1. /\ Counted \in [CallTraces -> Nat] /\ begun \in [Ops -> Nat]
        /\ OpenOf = [op \in Ops |-> OpenOf[op]] /\ \A op \in Ops : OpenOf[op] \in Nat
    BY CountedTyped, OpenFinite DEF OpenOf, WholeInv
  <1>2. \A op \in Closures : op \in Ops
    BY DEF Closures
  <1>3. ASSUME NEW op \in Closures
        PROVE  /\ IsFiniteSet(CallsIn(Counted, op)) /\ Cardinality(CallsIn(Counted, op)) \in Nat
               /\ begun[op] = OpenOf[op] + Cardinality(CallsIn(Counted, op))
    BY <1>2, FS_CardinalityType DEF WholeInv, ClosuresAccounted, OpenOf
  <1>4. SUFFICES ASSUME NEW op \in Closures
                 PROVE  /\ IsFiniteSet(CallsIn(Counted', op))
                        /\ begun'[op] = OpenOf'[op] + Cardinality(CallsIn(Counted', op))
    BY <1>2 DEF ClosuresAccounted, OpenOf, CallsIn
  <1>5. CASE \E f \in Ops : Begins(f) \/ Drops(f)
    <2>1. PICK f \in Ops : Begins(f) \/ Drops(f)
      BY <1>5
    <2>2. Counted' = Counted
      BY <2>1 DEF Begins, Drops
    <2>3. begun'[op] - OpenOf'[op] = begun[op] - OpenOf[op]
      <3>1. CASE Begins(f)
        BY <1>1, <1>2, <3>1 DEF Begins
      <3>2. CASE Drops(f)
        BY <1>1, <1>2, <3>2 DEF Drops
      <3> QED
        BY <2>1, <3>1, <3>2
    <2>4. begun'[op] \in Int /\ OpenOf'[op] \in Int
      BY <1>1, <1>2, <2>1 DEF Begins, Drops
    <2>5. begun'[op] = OpenOf'[op] + (begun[op] - OpenOf[op]) /\ begun[op] \in Nat
      BY <1>1, <1>2, <2>3, <2>4
    <2>6. begun[op] - OpenOf[op] = Cardinality(CallsIn(Counted, op))
      <3>1. OpenOf[op] \in Nat
        BY <1>1, <1>2
      <3>2. /\ Cardinality(CallsIn(Counted, op)) \in Nat
            /\ begun[op] = OpenOf[op] + Cardinality(CallsIn(Counted, op))
        BY <1>3
      <3> QED
        BY <3>1, <3>2
    <2> QED
      BY <1>3, <2>2, <2>5, <2>6
  <1>6. CASE \E t \in CallTraces : Ends(t)
    <2>1. PICK t \in CallTraces : Ends(t)
      BY <1>6
    <2> DEFINE last == <<t, Counted[t] + 1>>
    <2>2. /\ last \notin CallsIn(Counted, op)
          /\ CallsIn(Counted', op) = IF t.op = op THEN CallsIn(Counted, op) \cup {last}
                                     ELSE CallsIn(Counted, op)
      <3>1. Counted' = OneMore(Counted, t)
        BY <2>1 DEF Ends, OneMore
      <3>2. /\ last \notin CallsIn(Counted, op)
            /\ CallsIn(OneMore(Counted, t), op)
                 = IF t.op = op THEN CallsIn(Counted, op) \cup {last} ELSE CallsIn(Counted, op)
        <4>1. Counted \in [CallTraces -> Nat]
          BY <1>1
        <4> QED
          BY <4>1, OneMoreCall
      <3> QED
        BY <3>1, <3>2
    <2> HIDE DEF last
    <2>3. /\ IsFiniteSet(CallsIn(Counted, op) \cup {last})
          /\ Cardinality(CallsIn(Counted, op) \cup {last}) = Cardinality(CallsIn(Counted, op)) + 1
      BY <1>3, <2>2, FS_AddElement
    <2>4. /\ begun'[op] = begun[op]
          /\ OpenOf'[op] = IF t.op = op THEN OpenOf[op] - 1 ELSE OpenOf[op]
      BY <1>1, <1>2, <2>1 DEF Ends
    <2>5. CASE t.op = op
      <3>1. /\ begun'[op] = begun[op] /\ OpenOf'[op] = OpenOf[op] - 1
            /\ CallsIn(Counted', op) = CallsIn(Counted, op) \cup {last}
        BY <2>2, <2>4, <2>5
      <3>2. OpenOf[op] \in Nat
        BY <1>1, <1>2
      <3> QED
        BY <1>3, <2>3, <3>1, <3>2
    <2>6. CASE t.op # op
      BY <1>1, <1>2, <1>3, <2>2, <2>4, <2>6
    <2> QED
      BY <2>5, <2>6
  <1>7. CASE UNCHANGED <<OpenOf, Counted, begun>>
    BY <1>3, <1>7
  <1> QED
    BY <1>5, <1>6, <1>7, LedgerStep

(***************************************************************************)
(* The inductive invariant of the whole                                    *)
(***************************************************************************)

\* Every step keeps the core's invariant and the store's.
LEMMA PartsKept ==
    ASSUME WholeInv, [AllNext]_allVars
    PROVE  IInv' /\ Store!IInv'
  BY CoreStep, StoreStep, NextKeeps, StoreInstance DEF WholeInv

\* The variables of the whole keep their types.
LEMMA WholeTyped ==
    ASSUME WholeInv, IInv', [AllNext]_allVars
    PROVE  /\ dealt' \in BOOLEAN /\ value' \in Types \cup {Jumped, NoValue}
           /\ begun' \in [Ops -> Nat]
  <1>1. /\ dealt \in BOOLEAN /\ value \in Types \cup {Jumped, NoValue} /\ begun \in [Ops -> Nat]
    BY DEF WholeInv
  <1>2. CASE CallBegins
    <2>1. UNCHANGED <<dealt, value>> /\ \E op \in Ops : begun' = [begun EXCEPT ![op] = @ + 1]
      BY <1>2, CallPushed
    <2> QED
      BY <1>1, <2>1
  <1>3. CASE PromiseOrContext
    BY <1>1, <1>3, NoCallMoves
  <1>4. CASE CallEnds \/ JumpContinues
    BY <1>1, <1>4, TopLeaves
  <1>5. CASE (\E ret \in Types : ClosureReturns(ret) \/ PrimitiveReturns(ret)) \/ JumpDeals
    BY <1>1, <1>5, DealtIsTrace
  <1>6. CASE \E i \in 1..Len(rstack), ret \in Types \cup {NoValue} : JumpStarts(i, ret)
    BY <1>1, <1>6, JumpStartStays
  <1>7. CASE StartTracing \/ StoreWorks \/ StopTracing \/ WriteTraces \/ UNCHANGED allVars
    BY <1>1, <1>7, OthersStay
  <1> QED
    BY <1>2, <1>3, <1>4, <1>5, <1>6, <1>7 DEF AllNext, Probe

\* Nothing has begun and nothing is counted.
LEMMA WholeInit == AllInit => WholeInv
  <1> SUFFICES ASSUME AllInit PROVE WholeInv
    OBVIOUS
  <1>1. IInv /\ Store!IInv
    BY InitInvariant, StoreInstance DEF AllInit
  <1>2. Len(stack) = 0 /\ Calls = {} /\ \A op : OpenCalls(op) = {}
    BY EmptySeq DEF AllInit, Init, Calls, OpenCalls
  <1>3. CallsAreOfFunctions
    BY <1>2 DEF CallsAreOfFunctions
  <1>4. ProbeStages
    BY DEF AllInit, Init, Store!Init, ProbeStages
  <1>5. ~file.complete => file = Store!EmptyFile
    BY DEF AllInit, Store!Init
  <1>6. \A t \in CallTraces : Counted[t] = 0
    BY DEF AllInit, Store!Init, Counted
  <1>7. \A op : CallsIn(Counted, op) = {}
    <2>1. ASSUME NEW op, NEW c PROVE c \notin CallsIn(Counted, op)
      BY <1>6 DEF CallsIn
    <2> QED
      BY <2>1
  <1>8. \A op \in Closures : begun[op] = 0
    BY DEF Closures, AllInit
  <1>9. \A op \in Closures : /\ Cardinality(OpenCalls(op)) = 0 /\ IsFiniteSet(CallsIn(Counted, op))
                            /\ Cardinality(CallsIn(Counted, op)) = 0
    BY <1>2, <1>7, FS_EmptySet
  <1>10. ClosuresAccounted
    BY <1>8, <1>9 DEF ClosuresAccounted
  <1> QED
    BY <1>1, <1>3, <1>4, <1>5, <1>10 DEF AllInit, WholeInv

\* Every step keeps the invariant of the whole.
LEMMA WholeKept == WholeInv /\ [AllNext]_allVars => WholeInv'
  <1> SUFFICES ASSUME WholeInv, [AllNext]_allVars PROVE WholeInv'
    OBVIOUS
  <1>1. IInv' /\ Store!IInv'
    BY PartsKept
  <1> QED
    BY <1>1, WholeTyped, CallsStayOfFunctions, StagesKept, FileKept, AccountsKept DEF WholeInv

\* The core, the store, and what connects them keep their invariants at all times.
THEOREM WholeInvariance == PropagatrSpec => []WholeInv
  BY WholeInit, WholeKept, PTL DEF PropagatrSpec

\* A run of the whole is a run of the core: what holds of the core holds here.
THEOREM WholeRunsCore == PropagatrSpec => Spec
  <1>1. AllInit => Init
    BY DEF AllInit
  <1> QED
    BY <1>1, CoreStep, PTL DEF PropagatrSpec, Spec

\* A run of the whole is a run of the store: what is handed to it is a call trace.
THEOREM WholeRunsStore == PropagatrSpec => Store!Spec
  <1>1. AllInit => Store!Init
    BY DEF AllInit
  <1> QED
    BY <1>1, StoreStep, WholeInvariance, PTL DEF PropagatrSpec, Store!Spec

\* A call that ends with a value in a jump is the outermost one that the jump leaves.
THEOREM OutermostTyped == PropagatrSpec => []OnlyOutermostTyped
  <1>1. WholeInv => OnlyOutermostTyped
    BY DEF WholeInv, ProbeStages, OnlyOutermostTyped, UnwoundType
  <1> QED
    BY <1>1, WholeInvariance, PTL

\* When tracing has stopped, the file has exactly the closure calls that began.
THEOREM FileIsExact == PropagatrSpec => []FileCountsClosures
  <1>1. WholeInv => FileCountsClosures
    <2> SUFFICES ASSUME WholeInv, pc = "idle", NEW op \in Closures
                 PROVE  begun[op] = Cardinality(CallsIn(Filed, op))
      BY DEF FileCountsClosures
    <2>1. stack = <<>>
      BY DEF WholeInv, ProbeStages, IInv, ExitReleasesAll
    <2>2. OpenCalls(op) = {}
      BY <2>1, EmptySeq DEF OpenCalls, Calls
    <2>3. /\ seen \in [CallTraces -> Nat] /\ Null \notin Nat /\ interrupted = {}
          /\ \A t \in CallTraces : Store!Accounted(t)
      BY StoreConstants DEF WholeInv, Store!IInv, Store!TypeOK
    <2>4. ASSUME NEW t \in CallTraces PROVE Filed[t] = Counted[t]
      <3>1. CASE seen[t] > 0
        <4>1. file.rows[t] # Null /\ file.rows[t].count = counts[t]
          BY <3>1 DEF WholeInv, Store!IInv, Store!ExitWritesAll
        <4>2. counts[t] # Null
          BY <2>3, <3>1 DEF Store!Accounted
        <4> QED
          BY <4>1, <4>2 DEF Filed, Counted
      <3>2. CASE seen[t] = 0
        <4>1. traces[t] = Null /\ counts[t] = Null
          BY <2>3, <3>2 DEF Store!Accounted
        <4>2. file.rows[t] = Null
          <5>1. CASE file.complete
            BY <4>1, <5>1 DEF WholeInv, Store!IInv, Store!FileIsSound
          <5>2. CASE ~file.complete
            BY <5>2 DEF WholeInv, Store!EmptyFile
          <5> QED
            BY <5>1, <5>2
        <4> QED
          BY <4>1, <4>2 DEF Filed, Counted
      <3> QED
        BY <2>3, <3>1, <3>2
    <2>5. Filed = Counted
      BY <2>4 DEF Filed, Counted
    <2>6. /\ IsFiniteSet(CallsIn(Counted, op))
          /\ begun[op] = Cardinality(OpenCalls(op)) + Cardinality(CallsIn(Counted, op))
      BY DEF WholeInv, ClosuresAccounted
    <2> QED
      BY <2>2, <2>5, <2>6, FS_EmptySet, FS_CardinalityType
  <1> QED
    BY <1>1, WholeInvariance, PTL

\* Every closure call is counted exactly once, when it ends and as a trace of its function;
\* no builtin or special is counted twice.
THEOREM LedgerImplemented == PropagatrSpec => ImplementsLedger
  <1>1. AllInit => Ledger!Init
    <2> SUFFICES ASSUME AllInit PROVE Ledger!Init
      OBVIOUS
    <2>1. \A op : OpenCalls(op) = {}
      BY EmptySeq DEF AllInit, Init, Calls, OpenCalls
    <2>2. \A op \in Ops : Cardinality(OpenCalls(op)) = 0
      BY <2>1, FS_EmptySet
    <2>3. Counted = [t \in CallTraces |-> 0]
      BY DEF AllInit, Store!Init, Counted
    <2> QED
      BY <2>2, <2>3 DEF Ledger!Init
  <1>2. WholeInv /\ [AllNext]_allVars => [Ledger!Next]_(Ledger!vars)
    <2> SUFFICES ASSUME WholeInv, [AllNext]_allVars PROVE [Ledger!Next]_(Ledger!vars)
      OBVIOUS
    <2>1. \/ \E f \in Ops : Begins(f) \/ Drops(f)
          \/ \E t \in CallTraces : Ends(t)
          \/ UNCHANGED <<OpenOf, Counted, begun>>
      BY PartsKept, LedgerStep
    <2>2. ASSUME NEW f \in Ops, Begins(f) PROVE Ledger!Begin(f)
      BY <2>2 DEF Begins, Ledger!Begin, OpenOf
    <2>3. ASSUME NEW f \in Ops, Drops(f) PROVE Ledger!Drop(f)
      BY <2>3 DEF Drops, Ledger!Drop, OpenOf
    <2>4. ASSUME NEW t \in CallTraces, Ends(t) PROVE Ledger!End(t)
      BY <2>4 DEF Ends, Ledger!End, OpenOf
    <2>5. ASSUME UNCHANGED <<OpenOf, Counted, begun>> PROVE UNCHANGED Ledger!vars
      BY <2>5 DEF OpenOf, Ledger!vars
    <2> QED
      BY <2>1, <2>2, <2>3, <2>4, <2>5 DEF Ledger!Next
  <1> QED
    BY <1>1, <1>2, WholeInvariance, PTL DEF PropagatrSpec, ImplementsLedger, Ledger!Spec

(***************************************************************************)
(* Probes come to their end                                                *)
(***************************************************************************)

\* No event of R is possible before the probe has ended.
LEMMA RWaits ==
    ASSUME WholeInv, ProbeRuns, AllNext
    PROVE  Probe
  <1>1. /\ ~Ready \/ jump # NoJump
        /\ pc \notin {"idle"} /\ (phase = "idle" => jump = NoJump /\ pc \in {"idle", "opened"})
    BY DEF ProbeRuns, Ready, WholeInv, ProbeStages, IInv, WellFormedStacks
  <1>2. ~StartTracing
    BY <1>1 DEF StartTracing, Store!DyntraceEntry
  <1>3. ~CallBegins
    <2>1. CASE ~Ready
      BY <2>1 DEF CallBegins, Alone
    <2>2. CASE jump # NoJump
      <3>1. ~Running
        BY <2>2 DEF Running
      <3>2. ~AnyClosureEntry
        <4>1. ASSUME NEW op, NEW vals, NEW addr PROVE ~ClosureEntry(op, vals, addr)
          BY <3>1, Zenon DEF ClosureEntry
        <4> QED
          BY <4>1, Zenon DEF AnyClosureEntry
      <3>3. ~\E op \in Ops : PrimitiveEntry(op)
        BY <3>1 DEF PrimitiveEntry
      <3> QED
        BY <3>2, <3>3 DEF CallBegins, Alone
    <2> QED
      BY <1>1, <2>1, <2>2
  <1>4. ~PromiseOrContext
    BY <1>1 DEF PromiseOrContext, Alone, PromiseForceEntry, PromiseForceExit, ContextEntry,
                ContextExit, GcUnmark, Running
  <1>5. ~\E ret \in Types : ClosureReturns(ret) \/ PrimitiveReturns(ret)
    BY <1>1 DEF ClosureReturns, PrimitiveReturns, DealWith, Running
  <1>6. ~\E i \in 1..Len(rstack), ret \in Types \cup {NoValue} : JumpStarts(i, ret)
    BY <1>1 DEF JumpStarts, ContextJump, Running
  <1>7. ~StopTracing
    BY <1>1 DEF StopTracing, DyntraceExit, Store!DyntraceExit, Running, ProbeRuns
  <1> QED
    BY <1>2, <1>3, <1>4, <1>5, <1>6, <1>7 DEF AllNext

\* Every step of a probe is one less to its end.
LEMMA ProbeGoesOn ==
    ASSUME WholeInv, Probe
    PROVE  StepsLeft' < StepsLeft
  <1>1. Len(stack) \in Nat /\ (pc # "thrown")
    BY DEF WholeInv, IInv, TypeOK, Store!IInv, Store!NeverThrows
  <1>2. CASE StoreWorks
    <2>1. /\ pc \in {"insert", "increment", "count"} /\ pc' \in {"running", "count"}
          /\ dealt /\ dealt' /\ stack' = stack /\ (pc' = "count" <=> pc = "insert")
      BY <1>2, StoreWorksAt DEF vars
    <2> QED
      BY <1>1, <2>1 DEF StepsLeft, StageLeft
  <1>3. CASE CallEnds \/ JumpContinues
    <2>1. pc = "running" /\ pc' = "running" /\ dealt' = FALSE /\ Len(stack') = Len(stack) - 1
      BY <1>3, TopLeaves DEF storeVars, Pops
    <2>2. StepsLeft' = 4 * (Len(stack) - 1) + 4
      BY <2>1 DEF StepsLeft, StageLeft
    <2>3. StageLeft \in {1, 4}
      BY <2>1 DEF StageLeft
    <2> QED
      BY <1>1, <2>2, <2>3 DEF StepsLeft
  <1>4. CASE JumpDeals
    <2>1. /\ pc = "running" /\ ~dealt /\ dealt' = TRUE /\ stack' = stack
          /\ pc' \in {"insert", "increment"}
      BY <1>4, DealtIsTrace DEF Ready, vars, Store!DealWithCallTrace
    <2> QED
      BY <1>1, <2>1 DEF StepsLeft, StageLeft
  <1>5. CASE WriteTraces
    <2>1. pc = "opened" /\ pc' = "idle" /\ stack' = stack
      BY <1>5 DEF WriteTraces, Store!SerializeTracesList, vars
    <2> QED
      BY <1>1, <2>1 DEF StepsLeft, StageLeft
  <1> QED
    BY <1>2, <1>3, <1>4, <1>5 DEF Probe

\* A probe that runs is not interrupted by R, and has fewer steps to go after each.
THEOREM ProbesGetOn == PropagatrSpec => ProbesAdvance
  <1>1. WholeInv /\ [AllNext]_allVars => [ProbeRuns => StepsLeft' < StepsLeft]_allVars
    BY RWaits, ProbeGoesOn
  <1> QED
    BY <1>1, WholeInvariance, PTL DEF PropagatrSpec, ProbesAdvance
=============================================================================
