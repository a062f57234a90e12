-------------------------- MODULE Lifecycle_proofs --------------------------
(***************************************************************************)
(* Proofs about Lifecycle: its inductive invariant, and what follows, for  *)
(* any tracers, directories and paths.                                     *)
(***************************************************************************)
EXTENDS Lifecycle, TLAPS

\* The program starts in the invariant: nothing is open and nothing is written.
LEMMA InitIInv == Init => IInv
  <1> SUFFICES ASSUME Init PROVE IInv
    OBVIOUS
  <1>1. TypeOK
    BY PathAssumption, NothingAssumption DEF Init, TypeOK, Writer, Off, Parts
  <1>2. HandlesAreSound
    BY DEF Init, HandlesAreSound, Off, Parts
  <1>3. FilesAreInFolders
    BY DEF Init, FilesAreInFolders, Off, Parts
  <1> QED
    BY <1>1, <1>2, <1>3 DEF Init, IInv, OnlyLateSignalsFault, StatusMeansTraces,
       StatusFromSecondOn, ExitLeavesTraces

\* create_dyntracer.
LEMMA CreateStep ==
  ASSUME IInv, NEW h \in Handles, NEW t \in Tracers, NEW d \in Dirs, CreateDyntracer(h, t, d)
  PROVE  IInv'
  <1>1. TypeOK'
    BY DEF CreateDyntracer, RRuns, Running, IInv, TypeOK, disk
  <1>2. HandlesAreSound'
    BY NothingAssumption DEF CreateDyntracer, RRuns, IInv, HandlesAreSound, TypeOK, Parts
  <1>3. FilesAreInFolders'
    BY DEF CreateDyntracer, IInv, FilesAreInFolders, disk
  <1>4. (fault # "none" => target # Null)' /\ OnlyLateSignalsFault'
    BY DEF CreateDyntracer, RRuns, Running, OnlyLateSignalsFault
  <1>5. StatusMeansTraces' /\ StatusFromSecondOn' /\ ExitLeavesTraces'
    BY DEF CreateDyntracer, IInv, StatusMeansTraces, StatusFromSecondOn, ExitLeavesTraces,
       WritesTo, disk
  <1> QED
    BY <1>1, <1>2, <1>3, <1>4, <1>5 DEF IInv

\* destroy_dyntracer: no handle points to freed memory, so the delete is sound.
LEMMA DestroyStep ==
  ASSUME IInv, NEW h \in Handles, DestroyDyntracer(h)
  PROVE  IInv'
  <1>1. fault' = "none"
    BY DEF DestroyDyntracer, DestroyPromiseDyntracer, RRuns, Running, IInv, HandlesAreSound
  <1>2. TypeOK'
    BY <1>1 DEF DestroyDyntracer, DestroyPromiseDyntracer, IInv, TypeOK, disk
  <1>3. HandlesAreSound'
    <2>1. \A t \in Tracers : heap'[t] = heap[t] \/ (handle[h] = t /\ t # Null)
      BY DEF DestroyDyntracer, DestroyPromiseDyntracer, IInv, TypeOK
    <2>2. \A g \in Handles : handle'[g] = IF g = h THEN Null ELSE handle[g]
      BY DEF DestroyDyntracer, IInv, TypeOK
    <2>3. \A g \in Handles : handle'[g] # Null => heap'[handle'[g]] # Free
      BY <2>1, <2>2 DEF IInv, HandlesAreSound, TypeOK
    <2>4. session' # Null => heap'[session'] # Free
      BY <2>1 DEF DestroyDyntracer, IInv, HandlesAreSound, TypeOK
    <2> QED
      BY <2>2, <2>3, <2>4 DEF DestroyDyntracer, IInv, HandlesAreSound
  <1>4. FilesAreInFolders'
    BY DEF DestroyDyntracer, IInv, FilesAreInFolders, disk
  <1>5. StatusMeansTraces' /\ StatusFromSecondOn' /\ ExitLeavesTraces'
    BY <1>1 DEF DestroyDyntracer, RRuns, Running, IInv, StatusMeansTraces, StatusFromSecondOn,
       ExitLeavesTraces, WritesTo, disk
  <1> QED
    BY <1>1, <1>2, <1>3, <1>4, <1>5 DEF IInv, OnlyLateSignalsFault

\* What Written does to the small files.
LEMMA WrittenFacts ==
  ASSUME TypeOK, NEW d \in Dirs, NEW name \in {"CONFIGURATION"} \cup Outcomes, Written(d, name)
  PROVE  /\ files' \in [Dirs -> SUBSET ({"CONFIGURATION"} \cup Outcomes)]
         /\ \A e \in Dirs : files[e] \subseteq files'[e]
         /\ \A e \in Dirs : files'[e] # files[e] => e = d /\ d \in folders
         /\ \A e \in Dirs : files'[e] \subseteq files[e] \cup {name}
         /\ d \in folders => name \in files'[d]
  BY DEF Written, TypeOK

\* dyntrace_entry.
LEMMA EntryStep ==
  ASSUME IInv, NEW h \in Handles, DyntraceEntry(h)
  PROVE  IInv'
  <1>1. heap[handle[h]] \in Dirs
    BY DEF DyntraceEntry, IInv, TypeOK, HandlesAreSound
  <1>2. /\ files' \in [Dirs -> SUBSET ({"CONFIGURATION"} \cup Outcomes)]
        /\ \A e \in Dirs : files[e] \subseteq files'[e]
        /\ \A e \in Dirs : files'[e] # files[e] => e \in folders
        /\ \A e \in Dirs : files'[e] \subseteq files[e] \cup {"CONFIGURATION"}
    BY <1>1, WrittenFacts DEF DyntraceEntry, IInv
  <1>3. TypeOK'
    BY <1>2 DEF DyntraceEntry, IInv, TypeOK
  <1>4. HandlesAreSound'
    BY DEF DyntraceEntry, IInv, HandlesAreSound
  <1>5. FilesAreInFolders'
    BY <1>2 DEF DyntraceEntry, IInv, FilesAreInFolders
  <1>6. (fault # "none" => target # Null)' /\ OnlyLateSignalsFault'
    BY DEF DyntraceEntry, RRuns, Running, OnlyLateSignalsFault
  <1>7. \A d \in Dirs : files'[d] \cap Outcomes = files[d] \cap Outcomes
    BY <1>2 DEF Outcomes
  <1>8. StatusMeansTraces'
    BY <1>7 DEF DyntraceEntry, IInv, StatusMeansTraces, WritesTo
  <1>9. StatusFromSecondOn' /\ ExitLeavesTraces'
    BY <1>2 DEF DyntraceEntry, IInv, StatusFromSecondOn, ExitLeavesTraces, WritesTo
  <1> QED
    BY <1>3, <1>4, <1>5, <1>6, <1>8, <1>9 DEF IInv

\* dyntrace_exit: the status is written before the directory is made, if at all.
LEMMA ExitStep ==
  ASSUME IInv, NEW outcome \in Outcomes, DyntraceExit(outcome)
  PROVE  IInv'
  <1> DEFINE d == heap[session]
  <1>1. d \in Dirs /\ writer["exit"] = Off /\ fault = "none"
    BY DEF DyntraceExit, RRuns, Running, IInv, TypeOK, HandlesAreSound
  <1>2. /\ files' \in [Dirs -> SUBSET ({"CONFIGURATION"} \cup Outcomes)]
        /\ \A e \in Dirs : files[e] \subseteq files'[e]
        /\ \A e \in Dirs : files'[e] # files[e] => e = d /\ d \in folders
        /\ d \in folders => outcome \in files'[d]
    BY <1>1, WrittenFacts DEF DyntraceExit, Cleanup, IInv
  <1>3. /\ writer'["exit"] = [pc |-> "stat", dir |-> d, at |-> 1]
        /\ writer'["signal"] = writer["signal"]
        /\ writer' \in [Parts -> Writer]
    BY <1>1 DEF DyntraceExit, IInv, TypeOK, Off, Parts, Writer
  <1>4. TypeOK'
    <2>1. 1 \in 1..Len(Path[d])
      BY <1>1, PathAssumption
    <2>2. \A w \in Parts : \/ writer'[w] = Off
                          \/ /\ writer'[w].pc # "off" /\ writer'[w].dir # Nowhere
                             /\ writer'[w].at \in 1..Len(Path[writer'[w].dir])
      BY <1>1, <1>3, <2>1, NothingAssumption DEF Parts, IInv, TypeOK
    <2>3. last' \in [Dirs -> Outcomes \cup {"none"}]
      BY DEF DyntraceExit, IInv, TypeOK
    <2> QED
      BY <1>2, <1>3, <2>2, <2>3 DEF DyntraceExit, IInv, TypeOK
  <1>5. HandlesAreSound'
    BY DEF DyntraceExit, IInv, HandlesAreSound
  <1>6. FilesAreInFolders'
    BY <1>2, <1>3 DEF DyntraceExit, IInv, FilesAreInFolders, Parts
  <1>7. (fault # "none" => target # Null)' /\ OnlyLateSignalsFault'
    BY <1>1 DEF DyntraceExit, OnlyLateSignalsFault
  <1>8. \A e \in Dirs : WritesTo(e) => WritesTo(e)'
    BY <1>1, <1>3, NothingAssumption DEF WritesTo, Parts, Off
  <1>9. \A e \in Dirs : e = d => WritesTo(e)'
    BY <1>3 DEF WritesTo, Parts
  <1>10. StatusMeansTraces'
    <2>1. ASSUME NEW e \in Dirs, files'[e] \cap Outcomes # {} \/ traces'[e] = "partial"
          PROVE  traces'[e] = "complete" \/ WritesTo(e)' \/ e \in cut'
      <3>1. CASE e = d
        BY <3>1, <1>9
      <3>2. CASE e # d
        <4>1. files'[e] = files[e]
          BY <3>2, <1>2
        <4>2. traces[e] = "complete" \/ WritesTo(e) \/ e \in cut
          BY <4>1, <2>1 DEF DyntraceExit, IInv, StatusMeansTraces
        <4> QED
          BY <4>2, <1>8 DEF DyntraceExit
      <3> QED
        BY <3>1, <3>2
    <2> QED
      BY <2>1 DEF StatusMeansTraces
  <1>11. StatusFromSecondOn'
    BY <1>1, <1>2 DEF DyntraceExit, IInv, TypeOK, StatusFromSecondOn, FilesAreInFolders
  <1>12. ExitLeavesTraces'
    BY <1>8 DEF DyntraceExit, IInv, TypeOK, ExitLeavesTraces
  <1> QED
    BY <1>4, <1>5, <1>6, <1>7, <1>10, <1>11, <1>12 DEF IInv

\* What a step of serialize_traces_list has in common with the others: it moves one part
\* on, in its directory, and the files of other directories stay.
LEMMA WriterStep ==
  ASSUME IInv, NEW w \in Parts, NEW pc, At(w, pc), pc # "off",
         writer' \in [Parts -> Writer],
         \A v \in Parts : v # w => writer'[v] = writer[v],
         writer'[w].dir = writer[w].dir, writer'[w].pc # "off",
         writer'[w].at \in 1..Len(Path[writer[w].dir]),
         folders \subseteq folders', folders' \subseteq Folders,
         writer'[w].pc \in {"open", "write"} /\ CanBeMade(writer[w].dir)
            => writer[w].dir \in folders',
         traces' \in [Dirs -> {"absent", "partial", "complete"}],
         \A d \in Dirs : traces'[d] # traces[d] => d = writer[w].dir /\ d \in folders,
         UNCHANGED <<handle, heap, target, session, files, fault, cut, ended, last>>
  PROVE  IInv'
  <1>1. writer[w].dir \in Dirs /\ fault = "none"
    BY DEF At, IInv, TypeOK, Off, Writer
  <1>2. TypeOK'
    <2>1. \A v \in Parts : \/ writer'[v] = Off
                          \/ /\ writer'[v].pc # "off" /\ writer'[v].dir # Nowhere
                             /\ writer'[v].at \in 1..Len(Path[writer'[v].dir])
      BY <1>1, NothingAssumption DEF IInv, TypeOK
    <2> QED
      BY <2>1 DEF IInv, TypeOK
  <1>3. HandlesAreSound'
    <2>1. writer'["exit"] # Off => writer["exit"] # Off
      BY DEF At, Off, Parts
    <2> QED
      BY <2>1 DEF IInv, HandlesAreSound
  <1>4. FilesAreInFolders'
    BY <1>1 DEF IInv, FilesAreInFolders
  <1>5. (fault # "none" => target # Null)' /\ OnlyLateSignalsFault'
    BY <1>1 DEF OnlyLateSignalsFault
  <1>6. \A d \in Dirs : WritesTo(d)' <=> WritesTo(d)
    BY DEF WritesTo
  <1>7. WritesTo(writer[w].dir)
    BY DEF WritesTo
  <1>8. StatusMeansTraces'
    BY <1>6, <1>7 DEF IInv, StatusMeansTraces
  <1>9. StatusFromSecondOn'
    BY DEF IInv, StatusFromSecondOn
  <1>10. ExitLeavesTraces'
    <2>1. ended \subseteq Dirs
      BY DEF IInv, TypeOK
    <2> QED
      BY <2>1, <1>6, <1>7 DEF IInv, ExitLeavesTraces
  <1> QED
    BY <1>2, <1>3, <1>4, <1>5, <1>8, <1>9, <1>10 DEF IInv

\* The part looks whether its directory is there.
LEMMA StatStep ==
  ASSUME IInv, NEW w \in Parts, Stat(w)
  PROVE  IInv'
  <1>1. writer[w].pc = "stat" /\ writer[w].dir \in Dirs
    BY DEF Stat, At, IInv, TypeOK, Off, Writer
  <1>2. writer' = [writer EXCEPT ![w].pc = IF writer[w].dir \in folders THEN "open" ELSE "mkdir"]
    BY DEF Stat, Goto
  <1>3. writer' \in [Parts -> Writer]
    BY <1>2 DEF IInv, TypeOK, Writer
  <1>4. /\ writer'[w].pc = IF writer[w].dir \in folders THEN "open" ELSE "mkdir"
        /\ writer'[w].dir = writer[w].dir /\ writer'[w].at = writer[w].at
        /\ \A v \in Parts : v # w => writer'[v] = writer[v]
    BY <1>2 DEF IInv, TypeOK, Writer
  <1>5. writer[w].at \in 1..Len(Path[writer[w].dir])
    BY <1>1 DEF IInv, TypeOK, Off
  <1> QED
    BY <1>1, <1>3, <1>4, <1>5, WriterStep DEF Stat, disk, IInv, TypeOK

\* mkdir_p takes a step: when it is done, the directory is there if it can be.
LEMMA MkdirStep ==
  ASSUME IInv, NEW w \in Parts, Mkdir(w)
  PROVE  IInv'
  <1> DEFINE d == writer[w].dir
             at == writer[w].at
             folder == Path[d][at]
  <1>1. writer[w].pc = "mkdir" /\ d \in Dirs
    BY DEF Mkdir, At, IInv, TypeOK, Off, Writer
  <1>2. Len(Path[d]) \in Nat /\ at \in 1..Len(Path[d]) /\ Path[d][Len(Path[d])] = d
    BY <1>1, PathAssumption DEF IInv, TypeOK, Off
  <1>3. folder \in Folders
    BY <1>1, <1>2, PathAssumption
  <1>4. folders' = IF folder \in Denied THEN folders ELSE folders \cup {folder}
    BY DEF Mkdir
  <1>5. /\ folders \subseteq folders' /\ folders' \subseteq Folders
        /\ folder \notin Denied => folder \in folders'
    BY <1>3, <1>4 DEF IInv, TypeOK
  <1>6. CASE folder \in Denied \/ at = Len(Path[d])
    <2>1. writer' = [writer EXCEPT ![w].pc = "open"]
      BY <1>6 DEF Mkdir, Goto
    <2>2. writer' \in [Parts -> Writer]
      <3>1. [writer[w] EXCEPT !.pc = "open"] \in Writer
        BY DEF IInv, TypeOK, Writer
      <3> QED
        BY <2>1, <3>1 DEF IInv, TypeOK
    <2>3. /\ writer'[w].pc = "open" /\ writer'[w].dir = d /\ writer'[w].at = at
          /\ \A v \in Parts : v # w => writer'[v] = writer[v]
      BY <2>1 DEF IInv, TypeOK, Writer
    <2>4. CanBeMade(d) => d \in folders'
      BY <1>2, <1>5, <1>6 DEF CanBeMade
    <2> QED
      BY <1>1, <1>2, <1>5, <2>2, <2>3, <2>4, WriterStep DEF Mkdir, IInv, TypeOK
  <1>7. CASE ~(folder \in Denied \/ at = Len(Path[d]))
    <2>1. writer' = [writer EXCEPT ![w].at = at + 1]
      BY <1>7 DEF Mkdir
    <2>2. at + 1 \in 1..Len(Path[d]) /\ at + 1 \in Nat
      BY <1>2, <1>7
    <2>3. writer' \in [Parts -> Writer]
      <3>1. /\ [writer[w] EXCEPT !.at = at + 1] = [pc |-> "mkdir", dir |-> d, at |-> at + 1]
            /\ d \in Dirs \cup {Nowhere} /\ at + 1 \in Nat
        <4>1. writer[w] \in Writer
          BY DEF IInv, TypeOK
        <4> QED
          BY <1>1, <2>2, <4>1 DEF Writer
      <3>2. [writer[w] EXCEPT !.at = at + 1] \in Writer
        BY <3>1 DEF Writer
      <3> QED
        BY <2>1, <3>2 DEF IInv, TypeOK
    <2>4. /\ writer'[w].pc = "mkdir" /\ writer'[w].dir = d /\ writer'[w].at = at + 1
          /\ \A v \in Parts : v # w => writer'[v] = writer[v]
      BY <2>1, <1>1 DEF IInv, TypeOK, Writer
    <2> QED
      BY <1>1, <1>5, <2>2, <2>3, <2>4, WriterStep DEF Mkdir, IInv, TypeOK
  <1> QED
    BY <1>6, <1>7

\* The traces file is opened, if its directory is there.
LEMMA OpenStep ==
  ASSUME IInv, NEW w \in Parts, Open(w)
  PROVE  IInv'
  <1>1. writer[w].pc = "open" /\ writer[w].dir \in Dirs
    BY DEF Open, At, IInv, TypeOK, Off, Writer
  <1>2. writer' \in [Parts -> Writer]
    <2>1. [writer[w] EXCEPT !.pc = "write"] \in Writer
      BY DEF IInv, TypeOK, Writer
    <2> QED
      BY <2>1 DEF Open, Goto, IInv, TypeOK
  <1>3. /\ writer'[w].pc = "write" /\ writer'[w].dir = writer[w].dir
        /\ writer'[w].at = writer[w].at
        /\ \A v \in Parts : v # w => writer'[v] = writer[v]
    BY DEF Open, Goto, IInv, TypeOK, Writer
  <1>4. writer[w].at \in 1..Len(Path[writer[w].dir])
    BY <1>1 DEF IInv, TypeOK, Off
  <1>5. CanBeMade(writer[w].dir) => writer[w].dir \in folders
    BY <1>1 DEF IInv, FilesAreInFolders
  <1>6. /\ traces' \in [Dirs -> {"absent", "partial", "complete"}]
        /\ \A d \in Dirs : traces'[d] # traces[d] => d = writer[w].dir /\ d \in folders
    BY <1>1 DEF Open, IInv, TypeOK
  <1> QED
    BY <1>1, <1>2, <1>3, <1>4, <1>5, <1>6, WriterStep DEF Open, IInv, TypeOK

\* The traces are written: what waited for this part finds them complete.
LEMMA WriteStep ==
  ASSUME IInv, NEW w \in Parts, Write(w)
  PROVE  IInv'
  <1> DEFINE d == writer[w].dir
  <1>1. writer[w].pc = "write" /\ d \in Dirs /\ fault = "none" /\ fault' = "none"
    BY DEF Write, At, IInv, TypeOK, Off, Writer
  <1>2. /\ traces' \in [Dirs -> {"absent", "partial", "complete"}]
        /\ \A e \in Dirs : e # d \/ e \notin folders => traces'[e] = traces[e]
        /\ \A e \in Dirs : e = d /\ e \in folders => traces'[e] = "complete"
    BY <1>1 DEF Write, IInv, TypeOK
  <1>3. /\ writer' \in [Parts -> Writer] /\ writer'[w] = Off
        /\ \A v \in Parts : v # w => writer'[v] = writer[v]
    BY DEF Write, IInv, TypeOK, Writer, Off
  <1>4. ended' \subseteq ended \cup {d} /\ ended \subseteq Dirs /\ ended' \subseteq Dirs
    BY <1>1 DEF Write, IInv, TypeOK
  <1>5. TypeOK'
    <2>1. \A v \in Parts : \/ writer'[v] = Off
                          \/ /\ writer'[v].pc # "off" /\ writer'[v].dir # Nowhere
                             /\ writer'[v].at \in 1..Len(Path[writer'[v].dir])
      BY <1>3 DEF IInv, TypeOK
    <2> QED
      BY <1>2, <1>3, <1>4, <2>1 DEF Write, IInv, TypeOK
  <1>6. HandlesAreSound'
    <2>1. writer'["exit"] # Off => writer["exit"] # Off /\ w # "exit"
      BY <1>3 DEF Parts
    <2> QED
      BY <2>1 DEF Write, IInv, HandlesAreSound
  <1>7. FilesAreInFolders'
    <2>1. \A e \in Dirs : files'[e] # {} \/ traces'[e] # "absent" => e \in folders'
      BY <1>2 DEF Write, IInv, FilesAreInFolders
    <2>2. \A v \in Parts : writer'[v].pc \in {"open", "write"} /\ CanBeMade(writer'[v].dir)
                          => writer'[v].dir \in folders'
      BY <1>3 DEF Write, IInv, FilesAreInFolders, Off
    <2> QED
      BY <2>1, <2>2 DEF FilesAreInFolders, CanBeMade
  <1>8. \A e \in Dirs : e # d /\ WritesTo(e) => WritesTo(e)'
    BY <1>3 DEF WritesTo
  <1>9. StatusMeansTraces'
    <2>1. ASSUME NEW e \in Dirs, files'[e] \cap Outcomes # {} \/ traces'[e] = "partial"
          PROVE  traces'[e] = "complete" \/ WritesTo(e)' \/ e \in cut'
      <3>1. files' = files /\ cut' = cut \ {d}
        BY DEF Write
      <3>2. CASE e = d
        <4>1. e \in folders
          BY <2>1, <3>1, <1>2 DEF IInv, FilesAreInFolders
        <4> QED
          BY <4>1, <3>2, <1>2
      <3>3. CASE e # d
        <4>1. traces'[e] = traces[e] /\ (e \in cut => e \in cut')
          BY <3>1, <3>3, <1>2
        <4>2. traces[e] = "complete" \/ WritesTo(e) \/ e \in cut
          BY <2>1, <3>1, <4>1 DEF IInv, StatusMeansTraces
        <4> QED
          BY <3>3, <4>1, <4>2, <1>8
      <3> QED
        BY <3>2, <3>3
    <2> QED
      BY <2>1 DEF StatusMeansTraces
  <1>10. StatusFromSecondOn'
    BY DEF Write, IInv, StatusFromSecondOn
  <1>11. ExitLeavesTraces'
    <2>1. ASSUME NEW e \in ended', CanBeMade(e)
          PROVE  traces'[e] = "complete" \/ WritesTo(e)'
      <3>1. CASE e = d
        <4>1. e \in folders
          BY <2>1, <3>1, <1>1 DEF IInv, FilesAreInFolders
        <4> QED
          BY <4>1, <3>1, <1>1, <1>2
      <3>2. CASE e # d
        <4>1. e \in ended /\ e \in Dirs
          BY <2>1, <3>2, <1>4
        <4>2. traces[e] = "complete" \/ WritesTo(e)
          BY <4>1, <2>1, <1>1 DEF IInv, ExitLeavesTraces
        <4> QED
          BY <4>1, <4>2, <3>2, <1>2, <1>8
      <3> QED
        BY <3>1, <3>2
    <2> QED
      BY <2>1 DEF ExitLeavesTraces, CanBeMade
  <1> QED
    BY <1>1, <1>5, <1>6, <1>7, <1>9, <1>10, <1>11 DEF IInv, OnlyLateSignalsFault, Write

\* SIGTERM: the tracer that runs is never freed, so a freed target is another one.
LEMMA HandleSignalStep ==
  ASSUME IInv, HandleSignal
  PROVE  IInv'
  <1>1. target \in Tracers /\ writer["signal"] = Off /\ fault = "none"
    BY DEF HandleSignal, Running, IInv, TypeOK
  <1>2. CASE heap[target] = Free
    <2>1. fault' = "signal" /\ writer' = writer /\ target # session
      BY <1>1, <1>2, NothingAssumption DEF HandleSignal, IInv, HandlesAreSound
    <2>2. StatusMeansTraces'
      BY <1>2, <2>1 DEF HandleSignal, IInv, StatusMeansTraces, WritesTo, disk
    <2> QED
      BY <1>2, <2>1, <2>2 DEF HandleSignal, IInv, TypeOK, HandlesAreSound, FilesAreInFolders,
         OnlyLateSignalsFault, StatusFromSecondOn, ExitLeavesTraces, disk
  <1>3. CASE heap[target] # Free
    <2> DEFINE d == heap[target]
    <2>1. d \in Dirs /\ 1 \in 1..Len(Path[d])
      BY <1>1, <1>3, PathAssumption DEF IInv, TypeOK
    <2>2. /\ writer'["signal"] = [pc |-> "stat", dir |-> d, at |-> 1]
          /\ writer'["exit"] = writer["exit"]
          /\ writer' \in [Parts -> Writer]
      <3>1. writer' = [writer EXCEPT !["signal"] = [pc |-> "stat", dir |-> d, at |-> 1]]
        BY <1>3 DEF HandleSignal, Off
      <3>2. [pc |-> "stat", dir |-> d, at |-> 1] \in Writer
        BY <2>1 DEF Writer
      <3> QED
        BY <3>1, <3>2 DEF IInv, TypeOK, Parts
    <2>3. TypeOK'
      <3>1. \A v \in Parts : \/ writer'[v] = Off
                            \/ /\ writer'[v].pc # "off" /\ writer'[v].dir # Nowhere
                               /\ writer'[v].at \in 1..Len(Path[writer'[v].dir])
        BY <2>1, <2>2, NothingAssumption DEF Parts, IInv, TypeOK
      <3> QED
        BY <1>3, <2>2, <3>1 DEF HandleSignal, IInv, TypeOK, disk
    <2>4. HandlesAreSound'
      BY <2>2 DEF HandleSignal, IInv, HandlesAreSound
    <2>5. FilesAreInFolders'
      BY <2>2 DEF HandleSignal, IInv, FilesAreInFolders, Parts, disk
    <2>6. \A e \in Dirs : WritesTo(e) => WritesTo(e)'
      BY <1>1, <2>2, NothingAssumption DEF WritesTo, Parts, Off
    <2>7. fault' = "none"
      BY <1>1, <1>3 DEF HandleSignal
    <2>8. StatusMeansTraces'
      BY <1>1, <2>6 DEF HandleSignal, IInv, StatusMeansTraces, disk
    <2>9. StatusFromSecondOn'
      BY DEF HandleSignal, IInv, StatusFromSecondOn, disk
    <2>10. ExitLeavesTraces'
      BY <1>1, <2>6 DEF HandleSignal, IInv, TypeOK, ExitLeavesTraces, CanBeMade, disk
    <2> QED
      BY <2>3, <2>4, <2>5, <2>7, <2>8, <2>9, <2>10 DEF IInv, OnlyLateSignalsFault
  <1> QED
    BY <1>2, <1>3

\* A new process finds the disk as the old one left it.
LEMMA DieStep ==
  ASSUME IInv, Die
  PROVE  IInv'
  <1>1. \A w \in Parts : writer'[w] = Off
    BY DEF Die
  <1>2. TypeOK'
    BY <1>1 DEF Die, IInv, TypeOK, Writer, Off, Parts, disk
  <1>3. HandlesAreSound'
    BY <1>1 DEF Die, HandlesAreSound, Parts
  <1>4. FilesAreInFolders'
    BY <1>1 DEF Die, IInv, FilesAreInFolders, Off, disk
  <1>5. StatusMeansTraces' /\ StatusFromSecondOn' /\ ExitLeavesTraces'
    BY DEF Die, IInv, StatusMeansTraces, StatusFromSecondOn, ExitLeavesTraces, disk
  <1> QED
    BY <1>2, <1>3, <1>4, <1>5 DEF IInv, Die, OnlyLateSignalsFault

\* Every step keeps the invariant.
LEMMA NextStep == IInv /\ [Next]_vars => IInv'
  <1> SUFFICES ASSUME IInv, [Next]_vars PROVE IInv'
    OBVIOUS
  <1>1. CASE UNCHANGED vars
    BY <1>1 DEF vars, memory, disk, IInv, TypeOK, HandlesAreSound, FilesAreInFolders,
       OnlyLateSignalsFault, StatusMeansTraces, StatusFromSecondOn, ExitLeavesTraces, WritesTo,
       CanBeMade
  <1>2. CASE \E h \in Handles, t \in Tracers, d \in Dirs : CreateDyntracer(h, t, d)
    BY <1>2, CreateStep
  <1>3. CASE \E h \in Handles : DestroyDyntracer(h) \/ DyntraceEntry(h)
    BY <1>3, DestroyStep, EntryStep
  <1>4. CASE \E outcome \in Outcomes : DyntraceExit(outcome)
    BY <1>4, ExitStep
  <1>5. CASE \E w \in Parts : Serialize(w)
    BY <1>5, StatStep, MkdirStep, OpenStep, WriteStep DEF Serialize
  <1>6. CASE HandleSignal
    BY <1>6, HandleSignalStep
  <1>7. CASE Die
    BY <1>7, DieStep
  <1> QED
    BY <1>1, <1>2, <1>3, <1>4, <1>5, <1>6, <1>7 DEF Next

\* Types, handles, files and their folders, and what SIGTERM and a death leave behind hold
\* in every reachable state.
THEOREM Invariance == Spec => []IInv
  BY InitIInv, NextStep, PTL DEF Spec

\* Only SIGTERM after the newest tracer was destroyed uses freed memory: destroy_dyntracer
\* may be called any number of times, and SIGTERM while a tracer runs is safe.
THEOREM FreedTargetOnly == Spec => []OnlyLateSignalsFault
  <1>1. IInv => OnlyLateSignalsFault
    BY DEF IInv
  <1> QED
    BY <1>1, Invariance, PTL

\* ERROR or NOERROR stands beside complete traces, or ones that are being written, and no
\* traces file is truncated, but where a process died while it wrote and none has written
\* since: cleanup is the first thing that dyntrace_exit does.
THEOREM StatusHasTraces == Spec => []StatusMeansTraces
  <1>1. IInv => StatusMeansTraces
    BY DEF IInv
  <1> QED
    BY <1>1, Invariance, PTL

\* Every session that finds traces in its directory leaves its status there, though the
\* first one, whose status is written before mkdir_p, leaves none.
THEOREM SecondHasStatus == Spec => []StatusFromSecondOn
  <1>1. IInv => StatusFromSecondOn
    BY DEF IInv
  <1> QED
    BY <1>1, Invariance, PTL

\* mkdir_p and serialize_traces_list leave complete traces at the end of every session, if
\* the directory can be made at all, however SIGTERM interrupts them.
THEOREM ExitHasTraces == Spec => []ExitLeavesTraces
  <1>1. IInv => ExitLeavesTraces
    BY DEF IInv
  <1> QED
    BY <1>1, Invariance, PTL

\* The steps that a part has left are a number, and it is 0 at the end only.
LEMMA StepsLeftNat ==
  ASSUME IInv, NEW w \in Parts, writer[w] # Off
  PROVE  /\ Len(Path[writer[w].dir]) \in Nat
         /\ writer[w].at \in 1..Len(Path[writer[w].dir])
         /\ writer[w].pc \in {"stat", "mkdir", "open", "write"}
         /\ StepsLeft(w) \in Nat \ {0}
  <1>1. /\ writer[w].pc \in {"stat", "mkdir", "open", "write"} /\ writer[w].dir \in Dirs
        /\ writer[w].at \in 1..Len(Path[writer[w].dir])
    BY DEF IInv, TypeOK, Writer
  <1>2. Len(Path[writer[w].dir]) \in Nat
    BY <1>1, PathAssumption
  <1> DEFINE n == Len(Path[writer[w].dir])
             at == writer[w].at
  <1>3. StepsLeft(w) \in {n + 3, n - at + 3, 2, 1}
    BY <1>1 DEF StepsLeft
  <1>4. n \in Nat /\ at \in 1..n
    BY <1>1, <1>2
  <1> HIDE DEF n, at
  <1>5. n + 3 \in Nat \ {0} /\ n - at + 3 \in Nat \ {0}
    BY <1>4
  <1>6. StepsLeft(w) \in Nat \ {0}
    BY <1>3, <1>5
  <1> QED
    BY <1>1, <1>2, <1>6

\* A part that is done has no step left.
LEMMA NoStepLeft ==
  ASSUME NEW w \in Parts, writer'[w] = Off
  PROVE  StepsLeft(w)' = 0
  BY DEF StepsLeft, Off

\* Each step of serialize_traces_list, the loop of mkdir_p included, goes forward.
LEMMA SerializeAdvances ==
  ASSUME IInv, NEW w \in Parts, Serialize(w)
  PROVE  /\ StepsLeft(w)' < StepsLeft(w)
         /\ \A v \in Parts : v # w => writer'[v] = writer[v]
  <1> DEFINE path == Path[writer[w].dir]
  <1>1. writer[w] # Off
    BY DEF Serialize, Stat, Mkdir, Open, Write, At, Off
  <1>2. Len(path) \in Nat /\ writer[w].at \in 1..Len(path) /\ StepsLeft(w) \in Nat \ {0}
    BY <1>1, StepsLeftNat
  <1>3. /\ writer \in [Parts -> Writer]
        /\ writer[w] = [pc |-> writer[w].pc, dir |-> writer[w].dir, at |-> writer[w].at]
    BY DEF IInv, TypeOK, Writer
  <1>4. CASE Stat(w)
    <2>1. /\ writer'[w].pc = IF writer[w].dir \in folders THEN "open" ELSE "mkdir"
          /\ writer'[w].dir = writer[w].dir /\ writer'[w].at = writer[w].at
          /\ \A v \in Parts : v # w => writer'[v] = writer[v]
      BY <1>3, <1>4 DEF Stat, Goto
    <2>2. StepsLeft(w) = Len(path) + 3
      BY <1>4 DEF Stat, At, StepsLeft
    <2>3. StepsLeft(w)' \in {2, Len(path) - writer[w].at + 3}
      BY <2>1 DEF StepsLeft
    <2> QED
      BY <1>2, <2>1, <2>2, <2>3
  <1>5. CASE Mkdir(w)
    <2>1. StepsLeft(w) = Len(path) - writer[w].at + 3 /\ writer[w].pc = "mkdir"
      BY <1>5 DEF Mkdir, At, StepsLeft
    <2>2. CASE writer' = [writer EXCEPT ![w].pc = "open"]
      BY <1>2, <1>3, <2>1, <2>2 DEF StepsLeft
    <2>3. CASE writer' = [writer EXCEPT ![w].at = @ + 1]
      <3>1. /\ writer'[w].pc = "mkdir" /\ writer'[w].dir = writer[w].dir
            /\ writer'[w].at = writer[w].at + 1
            /\ \A v \in Parts : v # w => writer'[v] = writer[v]
        BY <1>3, <2>1, <2>3
      <3>2. StepsLeft(w)' = Len(path) - (writer[w].at + 1) + 3
        BY <3>1 DEF StepsLeft
      <3> QED
        BY <1>2, <2>1, <3>1, <3>2
    <2> QED
      BY <1>5, <2>2, <2>3 DEF Mkdir, Goto
  <1>6. CASE Open(w)
    <2>1. StepsLeft(w) = 2
      BY <1>6 DEF Open, At, StepsLeft
    <2>2. writer'[w].pc = "write" /\ \A v \in Parts : v # w => writer'[v] = writer[v]
      BY <1>3, <1>6 DEF Open, Goto
    <2> QED
      BY <2>1, <2>2 DEF StepsLeft
  <1>7. CASE Write(w)
    <2>1. writer'[w] = Off /\ \A v \in Parts : v # w => writer'[v] = writer[v]
      BY <1>3, <1>7 DEF Write
    <2> QED
      BY <1>2, <2>1, NoStepLeft
  <1> QED
    BY <1>4, <1>5, <1>6, <1>7 DEF Serialize

\* Nothing else moves a part that writes, but for a death, which ends it.
LEMMA OthersWait ==
  ASSUME IInv, NEW w \in Parts, writer[w] # Off, [Next]_vars
  PROVE  \/ writer'[w] = writer[w] \/ writer'[w] = Off
         \/ \E v \in Parts : Serialize(v)
  <1>1. CASE UNCHANGED vars
    BY <1>1 DEF vars, memory
  <1>2. ASSUME NEW h \in Handles, NEW t \in Tracers, NEW d \in Dirs, CreateDyntracer(h, t, d)
        PROVE  writer'[w] = writer[w]
    BY <1>2 DEF CreateDyntracer
  <1>3. ASSUME NEW h \in Handles, DestroyDyntracer(h) \/ DyntraceEntry(h)
        PROVE  writer'[w] = writer[w]
    BY <1>3 DEF DestroyDyntracer, DyntraceEntry
  <1>4. ASSUME NEW outcome \in Outcomes, DyntraceExit(outcome)
        PROVE  FALSE
    BY <1>4 DEF DyntraceExit, RRuns, Running, Parts
  <1>5. CASE HandleSignal
    <2>1. w = "exit"
      BY <1>5 DEF HandleSignal, Running, Parts
    <2> QED
      BY <1>5, <2>1 DEF HandleSignal, IInv, TypeOK
  <1>6. CASE Die
    BY <1>6 DEF Die
  <1> QED
    BY <1>1, <1>2, <1>3, <1>4, <1>5, <1>6 DEF Next

\* What writes the traces goes forward only: mkdir_p does not turn on one folder, no probe
\* and no signal sets dyntrace_exit back, and the handler does not interrupt itself.
THEOREM WritersGetOn == Spec => WritersAdvance
  <1> DEFINE Advance == \A w \in Parts :
                 writer[w] # Off /\ (Serialize(w) \/ writer'[w] # writer[w])
                     => StepsLeft(w)' < StepsLeft(w)
  <1>1. IInv /\ [Next]_vars => Advance
    <2> SUFFICES ASSUME IInv, [Next]_vars, NEW w \in Parts, writer[w] # Off,
                        Serialize(w) \/ writer'[w] # writer[w]
                 PROVE  StepsLeft(w)' < StepsLeft(w)
      OBVIOUS
    <2>1. CASE \E v \in Parts : Serialize(v)
      BY <2>1, SerializeAdvances
    <2>2. CASE writer'[w] = Off
      BY <2>2, NoStepLeft, StepsLeftNat
    <2> QED
      BY <2>1, <2>2, OthersWait
  <1> QED
    BY <1>1, Invariance, PTL DEF Spec, WritersAdvance
=============================================================================
