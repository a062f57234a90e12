------------------------- MODULE TraceStore_proofs -------------------------
(***************************************************************************)
(* Proofs about TraceStore, for any hash function and any traces.          *)
(***************************************************************************)
EXTENDS TraceStore, TLAPS

\* What is stored has a type, and so do the entries that operator[] makes.
LEMMA CountsReadTyped ==
    ASSUME IInv
    PROVE  /\ CountsRead \in [Hashes -> Nat \cup {Absent}]
           /\ \A h \in Hashes : traces[h] # Absent =>
                 /\ traces[h] \in Traces /\ LastPos[traces[h]] \in Int
                 /\ CountsRead[h] \in Nat
                 /\ CountsRead[h] = IF counts[h] = Absent THEN 0 ELSE counts[h]
           /\ \A h \in Hashes : traces[h] = Absent => CountsRead[h] = Absent
  <1>1. /\ counts \in [Hashes -> Nat \cup {Absent}]
        /\ traces \in [Hashes -> Traces \cup {Absent}]
    BY DEF IInv, TypeOK
  <1>2. \A h \in Hashes : traces[h] = Absent => counts[h] = Absent
    BY DEF IInv, Accounted
  <1> QED
    BY <1>1, <1>2, HashAssumption, StoreAssumption DEF CountsRead

\* A file that is written now is a file of the right form, and sound.
LEMMA ContentsSound ==
    ASSUME IInv
    PROVE  /\ Contents \in File
           /\ Contents.complete
           /\ \A h \in Hashes : traces[h] # Absent =>
                 /\ Contents.rows[h] # Absent
                 /\ Contents.rows[h].trace = traces[h]
                 /\ Contents.rows[h].count = CountsRead[h]
                 /\ LastPos[traces[h]] <= Contents.header
           /\ \A h \in Hashes : traces[h] = Absent => Contents.rows[h] = Absent
  <1> DEFINE row(h) == [trace |-> traces[h], count |-> CountsRead[h]]
             rows == [h \in Hashes |-> IF traces[h] = Absent THEN Absent ELSE row(h)]
  <1>1. Header \in Positions /\ IsHeader(Header)
    BY DEF IInv, Header
  <1>2. Header \in Nat
    BY <1>1, HashAssumption DEF Positions, IsHeader
  <1>3. \A h \in Hashes : traces[h] # Absent =>
           row(h) \in Row
    BY CountsReadTyped DEF Row
  <1>4. rows \in Rows
    BY <1>3 DEF Rows
  <1>5. \A h \in Hashes : traces[h] # Absent => LastPos[traces[h]] <= Header
    BY <1>1 DEF IsHeader
  <1>6. Contents = [complete |-> TRUE, header |-> Header, rows |-> rows]
    BY DEF Contents
  <1>7. ASSUME NEW h \in Hashes, traces[h] # Absent PROVE row(h) # Absent
    BY <1>3, <1>7, StoreAssumption DEF Row
  <1> HIDE DEF row
  <1> QED
    BY <1>2, <1>4, <1>5, <1>6, <1>7 DEF File, row

\* A trace is stored: the widest one still exists.
LEMMA HeaderExists ==
    ASSUME IInv, pc = "insert", traces' = [traces EXCEPT ![Hash[trace]] = trace]
    PROVE  \E m \in Positions : IsHeader(m)'
  <1> DEFINE h == Hash[trace]
             new == LastPos[trace]
  <1>1. /\ trace \in Traces /\ h \in Hashes /\ new \in Nat \cup {-1} /\ new \in Positions
        /\ traces \in [Hashes -> Traces \cup {Absent}] /\ traces[h] = Absent /\ trace # Absent
    BY HashAssumption, StoreAssumption DEF IInv, TypeOK, Positions
  <1>2. \A g \in Hashes : traces'[g] = IF g = h THEN trace ELSE traces[g]
    BY <1>1
  <1>3. PICK m \in Positions : IsHeader(m)
    BY DEF IInv
  <1>4. m \in Int
    BY <1>3, HashAssumption DEF Positions
  <1>5. \A g \in Hashes : traces[g] # Absent => LastPos[traces[g]] \in Int
    BY <1>1, HashAssumption
  <1> HIDE DEF new
  <1>6. CASE new <= m
    <2>1. \A g \in Hashes : traces'[g] # Absent => LastPos[traces'[g]] <= m
      BY <1>2, <1>3, <1>6 DEF IsHeader, new
    <2>2. m = 0 \/ \E g \in Hashes : traces'[g] # Absent /\ LastPos[traces'[g]] = m
      BY <1>1, <1>2, <1>3 DEF IsHeader
    <2>3. IsHeader(m)'
      BY <1>3, <2>1, <2>2 DEF IsHeader
    <2> QED
      BY <1>3, <2>3
  <1>7. CASE new > m
    <2>1. PICK n \in Positions : n = new
      BY <1>1
    <2>2. n \in Nat /\ n > m
      BY <1>1, <1>3, <1>4, <1>7, <2>1 DEF IsHeader
    <2>3. ASSUME NEW g \in Hashes, traces'[g] # Absent PROVE LastPos[traces'[g]] <= n
      <3>1. CASE g = h
        BY <1>1, <1>2, <2>1, <2>2, <3>1 DEF new
      <3>2. CASE g # h
        BY <1>2, <1>3, <1>4, <1>5, <2>2, <2>3, <3>2 DEF IsHeader
      <3> QED
        BY <3>1, <3>2
    <2>4. \E g \in Hashes : traces'[g] # Absent /\ LastPos[traces'[g]] = n
      BY <1>1, <1>2, <2>1 DEF new
    <2>5. IsHeader(n)'
      BY <2>2, <2>3, <2>4 DEF IsHeader
    <2> QED
      BY <2>5
  <1> QED
    BY <1>1, <1>4, <1>6, <1>7

\* The bodies of deal_with_call_trace.
LEMMA DealKeeps ==
    ASSUME IInv, Increment \/ Insert \/ Count
    PROVE  IInv'
  <1> DEFINE h == Hash[trace]
  <1>1. /\ trace \in Traces /\ h \in Hashes /\ trace # Absent
        /\ traces \in [Hashes -> Traces \cup {Absent}]
        /\ counts \in [Hashes -> Nat \cup {Absent}] /\ seen \in [Hashes -> Nat]
        /\ file \in File /\ interrupted \subseteq Hashes /\ Absent \notin Nat
    BY HashAssumption, StoreAssumption DEF IInv, TypeOK
  <1>2. \A g \in Hashes : Accounted(g)
    BY DEF IInv
  <1>3. CASE Increment
    <2>1. /\ pc = "increment" /\ traces[h] # Absent /\ counts[h] \in Nat
          /\ UNCHANGED <<trace, traces, file, interrupted>>
      BY <1>1, <1>2, <1>3 DEF Increment, IInv, Accounted
    <2>2. /\ pc' = "running" /\ counts' = [counts EXCEPT ![h] = @ + 1]
          /\ seen' = [seen EXCEPT ![h] = @ + 1]
      BY <1>1, <1>3, <2>1 DEF Increment
    <2>3. TypeOK' /\ NeverThrows'
      BY <1>1, <2>1, <2>2 DEF IInv, TypeOK, NeverThrows
    <2>4. ASSUME NEW g \in Hashes PROVE Accounted(g)'
      BY <1>1, <1>2, <2>1, <2>2 DEF Accounted
    <2>5. FileIsSound'
      <3>1. ASSUME NEW g \in Hashes, counts[g] # Absent
            PROVE  counts'[g] # Absent /\ counts[g] <= counts'[g] /\ counts[g] \in Nat
                     /\ counts'[g] \in Nat
        BY <1>1, <2>2, <3>1
      <3>2. SUFFICES ASSUME file.complete, NEW g \in Hashes, file.rows[g] # Absent
                     PROVE  /\ file.rows[g].trace = traces[g] /\ counts'[g] # Absent
                            /\ file.rows[g].count <= counts'[g]
                            /\ LastPos[traces[g]] <= file.header
        BY <2>1 DEF FileIsSound
      <3>3. file.rows[g].count \in Nat
        BY <1>1, <3>2 DEF File, Rows, Row
      <3>4. /\ file.rows[g].trace = traces[g] /\ counts[g] # Absent
            /\ file.rows[g].count <= counts[g] /\ LastPos[traces[g]] <= file.header
        BY <3>2 DEF IInv, FileIsSound
      <3> QED
        BY <3>1, <3>3, <3>4
    <2>6. ExitWritesAll'
      BY <2>2 DEF ExitWritesAll
    <2>7. \E m \in Positions : IsHeader(m)'
      BY <2>1 DEF IInv, IsHeader
    <2> QED
      BY <2>1, <2>2, <2>3, <2>4, <2>5, <2>6, <2>7 DEF IInv
  <1>4. CASE Insert
    <2>1. /\ pc = "insert" /\ traces[h] = Absent /\ pc' = "count"
          /\ traces' = [traces EXCEPT ![h] = trace]
          /\ UNCHANGED <<trace, counts, file, seen, interrupted>>
      BY <1>4 DEF Insert, IInv
    <2>2. \A g \in Hashes : traces'[g] = IF g = h THEN trace ELSE traces[g]
      BY <1>1, <2>1
    <2>3. TypeOK' /\ NeverThrows'
      BY <1>1, <2>1 DEF IInv, TypeOK, NeverThrows
    <2>4. ASSUME NEW g \in Hashes PROVE Accounted(g)'
      BY <1>1, <1>2, <2>1, <2>2 DEF Accounted
    <2>5. FileIsSound'
      <3>1. counts[h] = Absent
        BY <1>1, <1>2, <2>1 DEF Accounted
      <3> QED
        BY <2>1, <2>2, <3>1 DEF IInv, FileIsSound
    <2>6. ExitWritesAll'
      BY <2>1 DEF ExitWritesAll
    <2>7. \E m \in Positions : IsHeader(m)'
      BY <2>1, HeaderExists
    <2> QED
      BY <1>1, <2>1, <2>2, <2>3, <2>4, <2>5, <2>6, <2>7 DEF IInv
  <1>5. CASE Count
    <2>1. /\ pc = "count" /\ traces[h] # Absent /\ pc' = "running"
          /\ counts' = IF counts[h] = Absent THEN [counts EXCEPT ![h] = 1] ELSE counts
          /\ seen' = [seen EXCEPT ![h] = @ + 1]
          /\ UNCHANGED <<trace, traces, file, interrupted>>
      BY <1>5 DEF Count, IInv
    <2>2. TypeOK' /\ NeverThrows'
      BY <1>1, <2>1 DEF IInv, TypeOK, NeverThrows
    <2>3. ASSUME NEW g \in Hashes PROVE Accounted(g)'
      BY <1>1, <1>2, <2>1 DEF Accounted
    <2>4. FileIsSound'
      <3>1. ASSUME NEW g \in Hashes, counts[g] # Absent PROVE counts'[g] = counts[g]
        BY <1>1, <2>1, <3>1
      <3> QED
        BY <2>1, <3>1 DEF IInv, FileIsSound
    <2>5. ExitWritesAll'
      BY <2>1 DEF ExitWritesAll
    <2>6. \E m \in Positions : IsHeader(m)'
      BY <2>1 DEF IInv, IsHeader
    <2> QED
      BY <2>1, <2>2, <2>3, <2>4, <2>5, <2>6 DEF IInv
  <1> QED
    BY <1>3, <1>4, <1>5

\* The traces are written, by dyntrace_exit or by the handler.
LEMMA WritingKeeps ==
    ASSUME IInv, SerializeTracesList \/ HandleSignal
    PROVE  IInv'
  <1>1. /\ counts' = CountsRead /\ file' = Contents /\ UNCHANGED <<trace, traces, seen>>
        /\ pc # "thrown" /\ pc' # "thrown" /\ (pc' = pc \/ (pc = "opened" /\ pc' = "idle"))
        /\ interrupted' = IF pc = "count" THEN interrupted \cup {Hash[trace]} ELSE interrupted
    <2>1. CASE SerializeTracesList
      BY <2>1 DEF SerializeTracesList
    <2>2. CASE HandleSignal
      BY <2>2 DEF HandleSignal
    <2> QED
      BY <2>1, <2>2
  <1>2. /\ trace \in Traces /\ Hash[trace] \in Hashes /\ Absent \notin Nat
        /\ seen \in [Hashes -> Nat] /\ interrupted \subseteq Hashes
        /\ interrupted' \subseteq Hashes
    <2>1. /\ trace \in Traces /\ seen \in [Hashes -> Nat] /\ interrupted \subseteq Hashes
          /\ Absent \notin Nat
      BY StoreAssumption DEF IInv, TypeOK
    <2>2. Hash[trace] \in Hashes
      BY <2>1, HashAssumption
    <2>3. CASE pc = "count"
      BY <1>1, <2>1, <2>2, <2>3
    <2>4. CASE pc # "count"
      BY <1>1, <2>1, <2>2, <2>4
    <2> QED
      BY <2>3, <2>4
  <1>3. TypeOK' /\ NeverThrows'
    BY <1>1, <1>2, CountsReadTyped, ContentsSound DEF IInv, TypeOK, NeverThrows
  <1>4. ASSUME NEW g \in Hashes PROVE Accounted(g)'
    <2>1. Accounted(g) /\ seen[g] \in Nat
      BY <1>2 DEF IInv
    <2>2. CASE pc = "count" /\ g = Hash[trace]
      <3>1. traces[g] # Absent /\ pc' = "count" /\ g \in interrupted'
        BY <1>1, <2>2 DEF IInv
      <3>2. seen[g] = 0 /\ counts[g] \in {0, Absent}
        BY <2>1, <2>2, <3>1 DEF Accounted
      <3>3. counts'[g] = 0
        BY <1>1, <3>1, <3>2, CountsReadTyped
      <3> QED
        BY <1>1, <2>2, <3>1, <3>2, <3>3 DEF Accounted
    <2>3. CASE ~(pc = "count" /\ g = Hash[trace])
      <3>1. g \in interrupted' <=> g \in interrupted
        BY <1>1, <2>3
      <3>2. ~(pc' = "count" /\ g = Hash[trace])
        BY <1>1, <2>3
      <3>3. traces[g] # Absent => counts[g] # Absent
        BY <1>2, <2>1, <2>3 DEF Accounted
      <3>4. counts'[g] = counts[g]
        BY <1>1, <2>1, <3>3, CountsReadTyped DEF Accounted
      <3> QED
        BY <1>1, <2>1, <2>3, <3>1, <3>2, <3>4 DEF Accounted
    <2> QED
      BY <2>2, <2>3
  <1>5. ASSUME NEW g \in Hashes, file'.rows[g] # Absent
        PROVE  /\ traces[g] # Absent /\ file'.rows[g].trace = traces[g]
               /\ file'.rows[g].count = counts'[g] /\ counts'[g] \in Nat
               /\ LastPos[traces[g]] <= file'.header
    BY <1>1, <1>5, ContentsSound, CountsReadTyped
  <1>6. FileIsSound'
    BY <1>1, <1>2, <1>5 DEF FileIsSound
  <1>7. ExitWritesAll'
    <2>1. file'.complete
      BY <1>1, ContentsSound
    <2>2. ASSUME NEW g \in Hashes, seen[g] > 0 PROVE file'.rows[g] # Absent
      <3>1. traces[g] # Absent
        BY <1>2, <2>2 DEF IInv, Accounted
      <3> QED
        BY <1>1, <3>1, ContentsSound
    <2> QED
      BY <1>1, <1>5, <2>1, <2>2 DEF ExitWritesAll
  <1>8. \E m \in Positions : IsHeader(m)'
    BY <1>1 DEF IInv, IsHeader
  <1>9. ~Signals => interrupted' = {}
    BY DEF SerializeTracesList, HandleSignal, IInv
  <1>10. /\ pc' = "insert" => traces'[Hash[trace']] = Absent
         /\ pc' \in {"increment", "count"} => traces'[Hash[trace']] # Absent
    BY <1>1 DEF IInv
  <1> QED
    BY <1>3, <1>4, <1>6, <1>7, <1>8, <1>9, <1>10 DEF IInv

\* Every other step leaves the tables alone.
LEMMA OtherKeeps ==
    ASSUME IInv,
           DyntraceEntry \/ (\E t \in Traces : DealWithCallTrace(t)) \/ DyntraceExit
             \/ UNCHANGED vars
    PROVE  IInv'
  <1>1. /\ UNCHANGED <<traces, counts, seen, interrupted>>
        /\ file' = file \/ (file' = EmptyFile /\ pc' = "opened")
        /\ trace' \in Traces
        /\ pc' = "idle" => pc = "idle"
        /\ pc' # "thrown" /\ (pc' = "count" <=> pc = "count")
        /\ pc = "count" => trace' = trace
        /\ pc' \in {"idle", "running", "increment", "insert", "count", "opened", "thrown"}
    <2>1. /\ trace \in Traces /\ pc # "thrown"
          /\ pc \in {"idle", "running", "increment", "insert", "count", "opened", "thrown"}
      BY DEF IInv, TypeOK, NeverThrows
    <2>2. CASE DyntraceEntry
      BY <2>1, <2>2 DEF DyntraceEntry
    <2>3. CASE \E t \in Traces : DealWithCallTrace(t)
      BY <2>1, <2>3 DEF DealWithCallTrace
    <2>4. CASE DyntraceExit
      BY <2>1, <2>4 DEF DyntraceExit
    <2>5. CASE UNCHANGED vars
      BY <2>1, <2>5 DEF vars
    <2> QED
      BY <2>2, <2>3, <2>4, <2>5
  <1>2. EmptyFile \in File /\ ~EmptyFile.complete
    BY DEF EmptyFile, File, Rows
  <1>3. TypeOK' /\ NeverThrows'
    BY <1>1, <1>2 DEF IInv, TypeOK, NeverThrows
  <1>4. /\ pc' = "insert" => traces'[Hash[trace']] = Absent
        /\ pc' \in {"increment", "count"} => traces'[Hash[trace']] # Absent
    BY DEF DyntraceEntry, DealWithCallTrace, DyntraceExit, vars, IInv
  <1>5. ASSUME NEW g \in Hashes PROVE Accounted(g)'
    BY <1>1 DEF IInv, Accounted
  <1>6. FileIsSound'
    BY <1>1, <1>2 DEF IInv, FileIsSound
  <1>7. ExitWritesAll'
    BY <1>1, <1>2 DEF IInv, ExitWritesAll
  <1>8. (\E m \in Positions : IsHeader(m)') /\ (~Signals => interrupted' = {})
    BY <1>1 DEF IInv, IsHeader
  <1> QED
    BY <1>3, <1>4, <1>5, <1>6, <1>7, <1>8 DEF IInv

LEMMA StoreInit == Init => IInv
  <1> SUFFICES ASSUME Init PROVE IInv
    OBVIOUS
  <1>1. EmptyFile \in File /\ ~EmptyFile.complete
    BY DEF EmptyFile, File, Rows
  <1>2. TypeOK /\ NeverThrows
    BY <1>1 DEF Init, TypeOK, NeverThrows
  <1>3. \A h \in Hashes : Accounted(h)
    BY DEF Init, Accounted
  <1>4. IsHeader(0) /\ 0 \in Positions
    BY DEF Init, IsHeader, Positions
  <1>5. FileIsSound
    BY <1>1 DEF Init, FileIsSound
  <1>6. ExitWritesAll
    BY DEF Init, ExitWritesAll
  <1> QED
    BY <1>2, <1>3, <1>4, <1>5, <1>6 DEF Init, IInv

\* Every step keeps the invariant.
LEMMA StoreKeeps == IInv /\ [Next]_vars => IInv'
  BY DealKeeps, WritingKeeps, OtherKeeps DEF Next

\* The tables agree at all times.
THEOREM StoreInvariance == Spec => []IInv
  BY StoreKeeps, StoreInit, PTL DEF Spec

\* SIGTERM loses at most one count for each hash, and nothing else loses any.
THEOREM CountsCorrect == Spec => []CountsAccount
  <1>1. IInv => CountsAccount
    <2> SUFFICES ASSUME IInv, pc # "count", NEW h \in Hashes
                 PROVE  IF traces[h] = Absent THEN seen[h] = 0 /\ counts[h] = Absent
                        ELSE counts[h] = seen[h] - (IF h \in interrupted THEN 1 ELSE 0)
      BY DEF CountsAccount
    <2> QED
      BY DEF IInv, Accounted
  <1> QED
    BY <1>1, StoreInvariance, PTL

\* counts_.at finds its key.
THEOREM AtNeverThrows == Spec => []NeverThrows
  <1>1. IInv => NeverThrows
    BY DEF IInv
  <1> QED
    BY <1>1, StoreInvariance, PTL

\* Every complete file is sound.
THEOREM FilesAreSound == Spec => []FileIsSound
  <1>1. IInv => FileIsSound
    BY DEF IInv
  <1> QED
    BY <1>1, StoreInvariance, PTL

\* dyntrace_exit leaves every trace in the file.
THEOREM ExitWrites == Spec => []ExitWritesAll
  <1>1. IInv => ExitWritesAll
    BY DEF IInv
  <1> QED
    BY <1>1, StoreInvariance, PTL

\* If SIGTERM is never sent, every trace is counted.
THEOREM ExactWithoutSignals == ASSUME ~Signals PROVE Spec => []EveryTraceCounted
  <1>1. IInv => EveryTraceCounted
    <2> SUFFICES ASSUME IInv, pc = "running", NEW h \in Hashes, seen[h] > 0
                 PROVE  counts[h] = seen[h]
      BY DEF EveryTraceCounted
    <2>1. interrupted = {} /\ Accounted(h) /\ seen[h] \in Nat
      BY DEF IInv, TypeOK
    <2> QED
      BY <2>1 DEF Accounted
  <1> QED
    BY <1>1, StoreInvariance, PTL

\* Every variable of the store keeps its type: no row ever has a count that is not there.
THEOREM StoreTypeCorrect == Spec => []TypeOK
  <1>1. IInv => TypeOK
    BY DEF IInv
  <1> QED
    BY <1>1, StoreInvariance, PTL

=============================================================================
