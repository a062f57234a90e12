---------------------------- MODULE HashedStore ----------------------------
(***************************************************************************)
(* The call trace store with its hashing (TracerState.h, CallTrace.h).     *)
(* TraceStore takes for granted that a call trace has one hash; in the     *)
(* code every operation on traces_ and counts_ computes it anew, in the    *)
(* loop of HashLoop, in whatever order the positions come that time.       *)
(*                                                                         *)
(* A key of a table is the hash that was computed when it was inserted,    *)
(* which the table keeps.  operator== computes both hashes once more and   *)
(* compares them; here the new one is compared with the kept one.          *)
(***************************************************************************)
EXTENDS HashLoop, Sequences

CONSTANTS
    Calls,         \* call traces that closures may end with
    FunctionHash,  \* [Calls -> Words]: the first part of compute_hash
    Factors,       \* for each call trace the word of each position
    CallShape,     \* for each call trace what it is meant to tell: a record, fn its function
    Absent,        \* no entry in a table
    MaxDealt       \* bound: how often deal_with_call_trace is called

\* The positions of a call trace go from -1, that of the value, to the last argument.
ASSUME CallsAssumption ==
    /\ Calls # {} /\ FunctionHash \in [Calls -> Words]
    /\ \A c \in Calls : LET n == Cardinality(DOMAIN Factors[c])
                        IN  n \in Nat \ {0} /\ Factors[c] \in [-1..n - 2 -> Words]
    /\ MaxDealt \in Nat

ASSUME AbsentAssumption == Absent \notin Nat \cup Calls \cup [trace : Calls, count : Nat]

VARIABLES
    pc,      \* the operation on a table whose hash is computed, or what the tracer does else
    trace,   \* deal_with_call_trace's argument
    traces,  \* traces_, as a function on the keys that it has
    counts,  \* counts_
    got,     \* what counts_.at returned
    el,      \* serialize_traces_list: the trace whose row is made
    rest,    \* keys of traces_ whose rows are still to be made
    out,     \* the widest position so far, and the rows that are made
    file,    \* the traces file
    log      \* ghost: the call traces that were dealt with

tables  == <<traces, counts>>
writing == <<el, rest, out, file>>
vars    == <<pc, trace, loopVars, tables, got, writing, log>>

NoRows == [header |-> 0, rows |-> <<>>]

\* insert_or_assign.
Put(table, key, x) == [h \in DOMAIN table \cup {key} |-> IF h = key THEN x ELSE table[h]]

\* insert, and the insertion of operator[], leave alone what is there.
PutNew(table, key, x) == IF key \in DOMAIN table THEN table ELSE Put(table, key, x)

\* The highest of the positions.
LastPos == [c \in Calls |-> Cardinality(DOMAIN Factors[c]) - 2]

HashOps == {"find", "at", "assign", "insert", "count", "read"}

\* compute_hash for an operation on a table begins ...
Hashing(op, c) == pc' = op /\ Begin(Factors[c])

\* ... and is done.
Hashed(op) == pc = op /\ todo = {}

Key == Times(FunctionHash[IF pc = "read" THEN el ELSE trace], hash)
-----------------------------------------------------------------------------
Init ==
    /\ pc = "idle"
    /\ trace = (CHOOSE c \in Calls : TRUE) /\ el = trace
    /\ LoopInit
    /\ traces = <<>> /\ counts = <<>> /\ got = 0
    /\ rest = {} /\ out = NoRows
    /\ file = [complete |-> FALSE, header |-> 0, rows |-> <<>>]
    /\ log = <<>>

\* dyntrace_entry.
DyntraceEntry ==
    /\ pc = "idle"
    /\ pc' = "running"
    /\ UNCHANGED <<trace, loopVars, tables, got, writing, log>>

\* The hash of the types goes on.
Iterate(p) ==
    /\ pc \in HashOps
    /\ Turn(p)
    /\ UNCHANGED <<pc, trace, tables, got, writing, log>>

\* deal_with_call_trace begins, with traces_.count ...
DealWithCallTrace(c) ==
    /\ pc = "running" /\ Len(log) < MaxDealt
    /\ trace' = c
    /\ Hashing("find", c)
    /\ UNCHANGED <<tables, got, writing, log>>

\* ... which says whether "its in".
Find ==
    /\ Hashed("find")
    /\ Hashing(IF Key \in DOMAIN traces THEN "at" ELSE "insert", trace)
    /\ UNCHANGED <<trace, tables, got, writing, log>>

\* counts_.at, which throws if there is no such key ...
At ==
    /\ Hashed("at")
    /\ IF Key \in DOMAIN counts
       THEN got' = counts[Key] /\ Hashing("assign", trace)
       ELSE pc' = "thrown" /\ UNCHANGED <<got, loopVars>>
    /\ UNCHANGED <<trace, tables, writing, log>>

\* ... and counts_.insert_or_assign with one more.
Assign ==
    /\ Hashed("assign")
    /\ pc' = "running"
    /\ counts' = Put(counts, Key, got + 1)
    /\ log' = Append(log, trace)
    /\ UNCHANGED <<trace, loopVars, traces, got, writing>>

\* "its not in yet": traces_.insert ...
Insert ==
    /\ Hashed("insert")
    /\ traces' = PutNew(traces, Key, trace)
    /\ Hashing("count", trace)
    /\ UNCHANGED <<trace, counts, got, writing, log>>

\* ... and counts_.insert.
Count ==
    /\ Hashed("count")
    /\ pc' = "running"
    /\ counts' = PutNew(counts, Key, 1)
    /\ log' = Append(log, trace)
    /\ UNCHANGED <<trace, loopVars, traces, got, writing>>

\* dyntrace_exit: serialize_traces_list opens, and so truncates, the file.
DyntraceExit ==
    /\ pc = "running"
    /\ pc' = "write"
    /\ rest' = DOMAIN traces
    /\ out' = NoRows
    /\ file' = [complete |-> FALSE, header |-> 0, rows |-> <<>>]
    /\ UNCHANGED <<trace, loopVars, tables, got, el, log>>

\* The next row, in the order of traces_, which nobody knows either ...
NextRow(h) ==
    /\ pc = "write"
    /\ el' = traces[h]
    /\ rest' = rest \ {h}
    /\ Hashing("read", traces[h])
    /\ UNCHANGED <<trace, tables, got, out, file, log>>

\* ... with its hash and counts_[el], which inserts 0 if there is no such key.
ReadCount ==
    /\ Hashed("read")
    /\ pc' = "write"
    /\ counts' = PutNew(counts, Key, 0)
    /\ out' = [header |-> IF out.header < LastPos[el] THEN LastPos[el] ELSE out.header,
               rows |-> Put(out.rows, Key, [trace |-> el, count |-> counts'[Key]])]
    /\ UNCHANGED <<trace, loopVars, traces, got, el, rest, file, log>>

\* The header, the rows, and out_file.close.
Close ==
    /\ pc = "write" /\ rest = {}
    /\ pc' = "idle"
    /\ file' = [complete |-> TRUE, header |-> out.header, rows |-> out.rows]
    /\ UNCHANGED <<trace, loopVars, tables, got, el, rest, out, log>>

Next ==
    \/ DyntraceEntry
    \/ \E p \in todo : Iterate(p)
    \/ \E c \in Calls : DealWithCallTrace(c)
    \/ Find \/ At \/ Assign \/ Insert \/ Count
    \/ DyntraceExit
    \/ \E h \in rest : NextRow(h)
    \/ ReadCount
    \/ Close

Spec == Init /\ [][Next]_vars
-----------------------------------------------------------------------------
(***************************************************************************)
(* Properties                                                              *)
(***************************************************************************)

\* The one hash of a call trace: with the positions in their order.
KeyOf == [c \in Calls |-> Times(FunctionHash[c], Product(Factors[c], DOMAIN Factors[c]))]

Keys == {KeyOf[c] : c \in Calls}

\* Where the strings' hashes do not get in the way there is exactly one row for every
\* function and shapes of arguments and value, whatever order the positions come in.
RowsAreShapes ==
    pc \in {"idle", "running"} =>
        Cardinality(DOMAIN traces) = Cardinality({CallShape[log[i]] : i \in 1..Len(log)})

\* The condition for that: no two call traces collide, and equal ones are equal.
KeysTellShapes ==
    \A i, j \in 1..Len(log) :
        KeyOf[log[i]] = KeyOf[log[j]] <=> CallShape[log[i]] = CallShape[log[j]]

\* "or we haven't [seen the call trace] and we need to save it" (TracerState.h): what was
\* dealt with has a row of its function.
EveryCallSaved ==
    pc = "running" => \A i \in 1..Len(log) : \E h \in DOMAIN traces :
        CallShape[traces[h]].fn = CallShape[log[i]].fn

(***************************************************************************)
(* The refinement.  While deal_with_call_trace looks for the trace,        *)
(* TraceStore has the answer already.                                      *)
(***************************************************************************)

Total(table) == [h \in Keys |-> IF h \in DOMAIN table THEN table[h] ELSE Absent]

StorePc ==
    CASE pc = "find" -> IF KeyOf[trace] \in DOMAIN traces THEN "increment" ELSE "insert"
      [] pc \in {"at", "assign"} -> "increment"
      [] pc \in {"write", "read"} -> "opened"
      [] OTHER -> pc

Seen == [h \in Keys |-> Cardinality({i \in 1..Len(log) : KeyOf[log[i]] = h})]

Store ==
    INSTANCE TraceStore WITH
        Traces <- Calls, Hashes <- Keys, Hash <- KeyOf,
        Signals <- FALSE, MaxSeen <- MaxDealt,
        pc <- StorePc, traces <- Total(traces), counts <- Total(counts),
        file <- [complete |-> file.complete, header |-> file.header, rows |-> Total(file.rows)],
        seen <- Seen, interrupted <- {}

\* The store behaves as if every call trace had one hash, which is the hash of its
\* positions in their order: whatever is true of TraceStore is true of the code.
ImplementsStore == Store!Spec
=============================================================================
