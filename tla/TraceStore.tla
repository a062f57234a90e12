----------------------------- MODULE TraceStore -----------------------------
(***************************************************************************)
(* The call traces that are collected and written out: deal_with_call_trace *)
(* and serialize_traces_list of TracerState.h, the SIGTERM handler of      *)
(* tracer.cpp, which writes the traces too, and dyntrace_exit.             *)
(*                                                                         *)
(* traces_ and counts_ are hash tables whose keys are compared by their    *)
(* hash (CallTrace::operator==), so a key is a hash here.  The handler     *)
(* runs to its end between two operations of the interrupted code: SIGTERM *)
(* is blocked while its handler runs.                                      *)
(***************************************************************************)
EXTENDS Integers

CONSTANTS
    Traces,    \* call traces that closures may end with
    Hashes,    \* values of CallTrace::compute_hash
    Hash,      \* [Traces -> Hashes]
    LastPos,   \* [Traces -> Nat \cup {-1}]: the highest position of a trace
    Absent,    \* no entry in a table
    Signals,   \* whether SIGTERM is ever sent
    MaxSeen    \* bound: traces with one hash

ASSUME HashAssumption == Hash \in [Traces -> Hashes] /\ LastPos \in [Traces -> Nat \cup {-1}]

Row == [trace : Traces, count : Nat]

ASSUME StoreAssumption == Absent \notin Nat \cup Traces \cup Row /\ Signals \in BOOLEAN /\ MaxSeen \in Nat

VARIABLES
    pc,          \* what the tracer is about to do
    trace,       \* deal_with_call_trace's argument
    traces,      \* traces_
    counts,      \* counts_
    file,        \* the traces file
    seen,        \* how many traces with each hash were dealt with
    interrupted  \* hashes whose first insertion was interrupted by SIGTERM

vars == <<pc, trace, traces, counts, file, seen, interrupted>>

Rows == [Hashes -> Row \cup {Absent}]
File == [complete : BOOLEAN, header : Nat, rows : Rows]

\* The file before it is written, and after it was opened (truncated).
EmptyFile == [complete |-> FALSE, header |-> 0, rows |-> [h \in Hashes |-> Absent]]

\* BUG: the header is made for the last trace that was written.
HeaderOfLast ==
    IF \A h \in Hashes : traces[h] = Absent THEN 0
    ELSE LET h == CHOOSE h \in Hashes : traces[h] # Absent
         IN  IF LastPos[traces[h]] < 0 THEN 0 ELSE LastPos[traces[h]]

\* max_of_max, the last position that the header has a column for.
Positions == {0} \cup {LastPos[t] : t \in Traces}

IsHeader(m) ==
    /\ m >= 0 /\ \A h \in Hashes : traces[h] # Absent => LastPos[traces[h]] <= m
    /\ m = 0 \/ \E h \in Hashes : traces[h] # Absent /\ LastPos[traces[h]] = m

Header == CHOOSE m \in Positions : IsHeader(m)

\* BUG: serialize_traces_list takes for granted that every trace has a count.
CountsUnchecked == counts

\* counts_[el] in serialize_traces_list: operator[] inserts what is not there.
CountsRead ==
    [h \in Hashes |-> IF traces[h] # Absent /\ counts[h] = Absent THEN 0 ELSE counts[h]]

\* A row for every trace that is stored.
Contents ==
    [complete |-> TRUE, header |-> Header,
     rows |-> [h \in Hashes |-> IF traces[h] = Absent THEN Absent
                                ELSE [trace |-> traces[h], count |-> CountsRead[h]]]]
-----------------------------------------------------------------------------
Init ==
    /\ pc = "idle"
    /\ trace \in Traces
    /\ traces = [h \in Hashes |-> Absent]
    /\ counts = [h \in Hashes |-> Absent]
    /\ file = EmptyFile
    /\ seen = [h \in Hashes |-> 0]
    /\ interrupted = {}

\* dyntrace_entry.
DyntraceEntry ==
    /\ pc = "idle"
    /\ pc' = "running"
    /\ UNCHANGED <<trace, traces, counts, file, seen, interrupted>>

\* deal_with_call_trace, up to the answer of traces_.count.
DealWithCallTrace(t) ==
    /\ pc = "running"
    /\ seen[Hash[t]] < MaxSeen
    /\ trace' = t
    /\ pc' = IF traces[Hash[t]] = Absent THEN "insert" ELSE "increment"
    /\ UNCHANGED <<traces, counts, file, seen, interrupted>>

\* BUG: a trace that was seen before is not counted.
ForgetToIncrement ==
    /\ pc = "increment"
    /\ pc' = "running"
    /\ seen' = [seen EXCEPT ![Hash[trace]] = @ + 1]
    /\ UNCHANGED <<trace, traces, counts, file, interrupted>>

\* "its in": counts_.insert_or_assign(a_trace, counts_.at(a_trace) + 1); at() throws
\* std::out_of_range, which no one catches, if there is no such key.
Increment ==
    /\ pc = "increment"
    /\ IF counts[Hash[trace]] = Absent
       THEN pc' = "thrown" /\ UNCHANGED <<counts, seen>>
       ELSE /\ pc' = "running"
            /\ counts' = [counts EXCEPT ![Hash[trace]] = @ + 1]
            /\ seen' = [seen EXCEPT ![Hash[trace]] = @ + 1]
    /\ UNCHANGED <<trace, traces, file, interrupted>>

\* "its not in yet": traces_.insert ...
Insert ==
    /\ pc = "insert"
    /\ pc' = "count"
    /\ traces' = [traces EXCEPT ![Hash[trace]] = trace]
    /\ UNCHANGED <<trace, counts, file, seen, interrupted>>

\* BUG: counts_ is not given the new key.
ForgetToCount ==
    /\ pc = "count"
    /\ pc' = "running"
    /\ seen' = [seen EXCEPT ![Hash[trace]] = @ + 1]
    /\ UNCHANGED <<trace, traces, counts, file, interrupted>>

\* ... then counts_.insert, which changes nothing if the key is there.
Count ==
    /\ pc = "count"
    /\ pc' = "running"
    /\ counts' = IF counts[Hash[trace]] = Absent THEN [counts EXCEPT ![Hash[trace]] = 1]
                 ELSE counts
    /\ seen' = [seen EXCEPT ![Hash[trace]] = @ + 1]
    /\ UNCHANGED <<trace, traces, file, interrupted>>

\* BUG: a file that is there is not written again.
DyntraceExitOnce ==
    /\ pc = "running"
    /\ pc' = IF file.complete THEN "idle" ELSE "opened"
    /\ UNCHANGED <<trace, traces, counts, file, seen, interrupted>>

\* dyntrace_exit: serialize_traces_list opens the file, which truncates it.
DyntraceExit ==
    /\ pc = "running"
    /\ pc' = "opened"
    /\ file' = EmptyFile
    /\ UNCHANGED <<trace, traces, counts, seen, interrupted>>

\* The rest of serialize_traces_list.  The tables are kept: another dyntrace adds to them.
SerializeTracesList ==
    /\ pc = "opened"
    /\ pc' = "idle"
    /\ counts' = CountsRead
    /\ file' = Contents
    /\ UNCHANGED <<trace, traces, seen, interrupted>>

\* handleSignal: it writes the traces and returns to what it interrupted.
HandleSignal ==
    /\ Signals /\ pc # "thrown"
    /\ counts' = CountsRead
    /\ file' = Contents
    /\ interrupted' = IF pc = "count" THEN interrupted \cup {Hash[trace]} ELSE interrupted
    /\ UNCHANGED <<pc, trace, traces, seen>>

Next ==
    \/ DyntraceEntry
    \/ \E t \in Traces : DealWithCallTrace(t)
    \/ Increment
    \/ Insert
    \/ Count
    \/ DyntraceExit
    \/ SerializeTracesList
    \/ HandleSignal

Spec == Init /\ [][Next]_vars
-----------------------------------------------------------------------------
(***************************************************************************)
(* Properties                                                              *)
(***************************************************************************)

\* Type correctness of every variable.
TypeOK ==
    /\ pc \in {"idle", "running", "increment", "insert", "count", "opened", "thrown"}
    /\ trace \in Traces
    /\ traces \in [Hashes -> Traces \cup {Absent}]
    /\ counts \in [Hashes -> Nat \cup {Absent}]
    /\ file \in File
    /\ seen \in [Hashes -> Nat]
    /\ interrupted \subseteq Hashes

\* counts_.at never throws: outside of an insertion the two tables have the same keys.
NeverThrows == pc # "thrown"

\* The counts say how often each call trace was seen, except that the first sight of one
\* is lost if SIGTERM arrived between the two insertions: counts_[el] in the handler
\* makes the entry, with 0, that counts_.insert then leaves alone.  Nothing else is lost.
CountsAccount ==
    pc # "count" => \A h \in Hashes :
        IF traces[h] = Absent THEN seen[h] = 0 /\ counts[h] = Absent
        ELSE counts[h] = seen[h] - (IF h \in interrupted THEN 1 ELSE 0)

\* A complete file, whoever wrote it and whenever, has only rows of stored traces, with a
\* count that was true then, under a header that has a column for each of its positions.
FileIsSound ==
    file.complete => \A h \in Hashes : file.rows[h] # Absent =>
        /\ file.rows[h].trace = traces[h]
        /\ counts[h] # Absent /\ file.rows[h].count <= counts[h]
        /\ LastPos[traces[h]] <= file.header

\* After dyntrace_exit the file has every trace and every count of this dyntrace and of
\* the ones before, even if SIGTERM arrived while it was written.
ExitWritesAll ==
    pc = "idle" /\ (\E h \in Hashes : seen[h] > 0) =>
        /\ file.complete
        /\ \A h \in Hashes : seen[h] > 0 =>
              file.rows[h] # Absent /\ file.rows[h].trace = traces[h]
                                    /\ file.rows[h].count = counts[h]

\* How the two tables and the number of traces seen differ, also during an insertion.
Accounted(h) ==
    IF traces[h] = Absent THEN seen[h] = 0 /\ counts[h] = Absent /\ h \notin interrupted
    ELSE IF pc = "count" /\ h = Hash[trace]
    THEN seen[h] = 0 /\ counts[h] = IF h \in interrupted THEN 0 ELSE Absent
    ELSE seen[h] > 0 /\ counts[h] = seen[h] - (IF h \in interrupted THEN 1 ELSE 0)

\* The inductive invariant.
IInv ==
    /\ TypeOK
    /\ NeverThrows
    /\ pc = "insert" => traces[Hash[trace]] = Absent
    /\ pc \in {"increment", "count"} => traces[Hash[trace]] # Absent
    /\ \A h \in Hashes : Accounted(h)
    /\ ~Signals => interrupted = {}
    /\ \E m \in Positions : IsHeader(m)
    /\ FileIsSound
    /\ ExitWritesAll

\* "Either we've seen the call trace before, in which case we want to count that and
\* discard the trace, or we haven't and we need to save it" (TracerState.h): every trace
\* that was dealt with is in the count.
EveryTraceCounted ==
    pc = "running" => \A h \in Hashes : seen[h] > 0 => counts[h] = seen[h]
=============================================================================
