----------------------------- MODULE Lifecycle -----------------------------
(***************************************************************************)
(* The life of a tracer (tracer.cpp, R/propagatr.R) and what it leaves in  *)
(* its output directory (TracerState.h, mkdir_p of utilities.cpp):         *)
(* CONFIGURATION, ERROR, NOERROR and the traces file, across sessions,     *)
(* SIGTERM, and the death and restart of the R process.                    *)
(*                                                                         *)
(* Two parts of the program write the traces: dyntrace_exit and the        *)
(* handler of SIGTERM, which interrupts anything, that one included, and   *)
(* runs to its end unless the process dies.  What they write is the matter *)
(* of TraceStore; here a file is absent, partial or complete.              *)
(***************************************************************************)
EXTENDS Naturals, Sequences

CONSTANTS
    Handles,   \* R: external pointers to tracers
    Tracers,   \* addresses of a dyntracer_t and its TracerState
    Folders,   \* paths of folders
    Dirs,      \* output directories, some of the Folders
    Path,      \* [Dirs -> Seq(Folders)]: the folders mkdir_p makes, the directory last
    Denied,    \* folders that mkdir fails to make
    Null,      \* a null pointer
    Free,      \* unallocated memory
    Nowhere    \* no directory

ASSUME PathAssumption ==
    /\ Dirs \subseteq Folders /\ Denied \subseteq Folders
    /\ Path \in [Dirs -> Seq(Folders)]
    /\ \A d \in Dirs : Len(Path[d]) > 0 /\ Path[d][Len(Path[d])] = d

ASSUME NothingAssumption == Null \notin Tracers /\ Free \notin Dirs /\ Nowhere \notin Dirs

VARIABLES
    handle,   \* R: the tracer of each external pointer
    heap,     \* output_dirpath_ of each TracerState
    target,   \* dyntracer_; the handler is installed once this is set
    session,  \* the tracer that dyntrace runs, or Null
    writer,   \* of each part that writes traces: where it is in serialize_traces_list
    folders,  \* the folders there are
    files,    \* the small files in each directory
    traces,   \* the traces file in each directory
    fault,    \* what used memory that was freed: the program has no meaning from there
    cut,      \* ghost: directories where a death cut a writer off, and none has finished since
    ended,    \* ghost: directories of sessions that this process has ended
    last      \* ghost: how the last session ended that found traces in each directory

memory == <<handle, heap, target, session, writer, fault>>
disk == <<folders, files, traces>>
vars == <<memory, disk, cut, ended, last>>

Parts == {"exit", "signal"}
Outcomes == {"ERROR", "NOERROR"}

Writer == [pc : {"off", "stat", "mkdir", "open", "write"}, dir : Dirs \cup {Nowhere}, at : Nat]

Off == [pc |-> "off", dir |-> Nowhere, at |-> 1]
-----------------------------------------------------------------------------
\* A new process has no tracer, and SIGTERM its default action; the folders that are there
\* have their parents.
Init ==
    /\ handle = [h \in Handles |-> Null]
    /\ heap = [t \in Tracers |-> Free]
    /\ target = Null /\ session = Null
    /\ writer = [w \in Parts |-> Off]
    /\ fault = "none"
    /\ folders \in SUBSET (Folders \ Denied)
    /\ \A d \in Dirs : \A i, j \in 1..Len(Path[d]) :
          i < j /\ Path[d][j] \in folders => Path[d][i] \in folders
    /\ files = [d \in Dirs |-> {}]
    /\ traces = [d \in Dirs |-> "absent"]
    /\ cut = {} /\ ended = {}
    /\ last = [d \in Dirs |-> "none"]

\* The tracer's code runs: no signal handler does, and memory is sound.
Running == writer["signal"] = Off /\ fault = "none"

\* R code runs, traced or not.
RRuns == Running /\ writer["exit"] = Off

\* create_dyntracer: the handler turns to the new tracer, whatever the old one does.  A
\* bound of the model: tracers that live at the same time write to different directories.
CreateDyntracer(h, t, d) ==
    /\ RRuns
    /\ handle[h] = Null /\ heap[t] = Free
    /\ \A u \in Tracers : heap[u] # d
    /\ handle' = [handle EXCEPT ![h] = t]
    /\ heap' = [heap EXCEPT ![t] = d]
    /\ target' = t
    /\ UNCHANGED <<session, writer, fault, disk, cut, ended, last>>

\* BUG: the pointer is deleted without a check.
DestroyUnchecked(h) ==
    IF handle[h] = Null \/ heap[handle[h]] = Free
    THEN fault' = "destroy" /\ UNCHANGED heap
    ELSE heap' = [heap EXCEPT ![handle[h]] = Free] /\ UNCHANGED fault

\* destroy_promise_dyntracer, with its check: a second delete is a fault.
DestroyPromiseDyntracer(h) ==
    IF handle[h] = Null
    THEN UNCHANGED <<heap, fault>>
    ELSE IF heap[handle[h]] = Free
    THEN fault' = "destroy" /\ UNCHANGED heap
    ELSE heap' = [heap EXCEPT ![handle[h]] = Free] /\ UNCHANGED fault

\* destroy_dyntracer, any number of times on the same object; dyntracer_destroy_sexp
\* clears it.  dyntrace_types holds on to the tracer that runs and destroys it later.
DestroyDyntracer(h) ==
    /\ RRuns
    /\ handle[h] = Null \/ handle[h] # session
    /\ DestroyPromiseDyntracer(h)
    /\ handle' = [handle EXCEPT ![h] = Null]
    /\ UNCHANGED <<target, session, writer, disk, cut, ended, last>>

\* An ofstream in a directory that is not there writes nothing, and no one looks.
Written(d, name) ==
    files' = IF d \in folders THEN [files EXCEPT ![d] = @ \cup {name}] ELSE files

\* dyntrace_entry: serialize_configuration_.
DyntraceEntry(h) ==
    /\ RRuns
    /\ session = Null /\ handle[h] # Null
    /\ session' = handle[h]
    /\ Written(heap[handle[h]], "CONFIGURATION")
    /\ UNCHANGED <<handle, heap, target, writer, folders, traces, fault, cut, ended, last>>

\* BUG: only errors are reported.
CleanupOnlyErrors(d, outcome) ==
    IF outcome = "ERROR" THEN Written(d, outcome) ELSE UNCHANGED files

\* The end of TracerState::cleanup: the file that says how the session ended.
Cleanup(d, outcome) == Written(d, outcome)

\* dyntrace_exit: cleanup, and serialize_and_output begins.
DyntraceExit(outcome) ==
    LET d == heap[session]
    IN  /\ RRuns
        /\ session # Null
        /\ Cleanup(d, outcome)
        /\ writer' = [writer EXCEPT !["exit"] = [Off EXCEPT !.pc = "stat", !.dir = d]]
        /\ last' = [last EXCEPT ![d] = IF traces[d] = "absent" THEN "none" ELSE outcome]
        /\ UNCHANGED <<handle, heap, target, session, folders, traces, fault, cut, ended>>

\* Part w may run, and is about to do pc.
At(w, pc) == writer[w].pc = pc /\ fault = "none" /\ (w = "exit" => Running)

Goto(w, pc) == writer' = [writer EXCEPT ![w].pc = pc]

\* serialize_traces_list: does the directory exist?
Stat(w) ==
    /\ At(w, "stat")
    /\ Goto(w, IF writer[w].dir \in folders THEN "open" ELSE "mkdir")
    /\ UNCHANGED <<handle, heap, target, session, disk, fault, cut, ended, last>>

\* BUG: a folder that exists ends the loop too.
MkdirStopsAtExisting(w) ==
    LET path == Path[writer[w].dir]
        folder == path[writer[w].at]
    IN  /\ At(w, "mkdir")
        /\ folders' = IF folder \in Denied THEN folders ELSE folders \cup {folder}
        /\ IF folder \in folders \cup Denied \/ writer[w].at = Len(path)
           THEN Goto(w, "open")
           ELSE writer' = [writer EXCEPT ![w].at = @ + 1]
        /\ UNCHANGED <<handle, heap, target, session, files, traces, fault, cut, ended, last>>

\* BUG: mkdir is tried until the folder is made.
MkdirRetries(w) ==
    LET path == Path[writer[w].dir]
        folder == path[writer[w].at]
    IN  /\ At(w, "mkdir")
        /\ folders' = IF folder \in Denied THEN folders ELSE folders \cup {folder}
        /\ IF folder \in Denied
           THEN UNCHANGED writer
           ELSE IF writer[w].at = Len(path)
           THEN Goto(w, "open")
           ELSE writer' = [writer EXCEPT ![w].at = @ + 1]
        /\ UNCHANGED <<handle, heap, target, session, files, traces, fault, cut, ended, last>>

\* BUG: the loop goes past the end of the path.
MkdirOffByOne(w) ==
    LET path == Path[writer[w].dir]
        folder == path[writer[w].at]
    IN  /\ At(w, "mkdir")
        /\ folders' = IF folder \in Denied THEN folders ELSE folders \cup {folder}
        /\ IF folder \in Denied \/ writer[w].at > Len(path)
           THEN Goto(w, "open")
           ELSE writer' = [writer EXCEPT ![w].at = @ + 1]
        /\ UNCHANGED <<handle, heap, target, session, files, traces, fault, cut, ended, last>>

\* BUG: mkdir_p begins again after each folder that it makes.
MkdirFromRoot(w) ==
    LET path == Path[writer[w].dir]
        folder == path[writer[w].at]
    IN  /\ At(w, "mkdir")
        /\ folders' = IF folder \in Denied THEN folders ELSE folders \cup {folder}
        /\ IF folder \in Denied \/ writer[w].at = Len(path)
           THEN Goto(w, "open")
           ELSE writer' = [writer EXCEPT ![w].at = IF folder \in folders THEN @ + 1 ELSE 1]
        /\ UNCHANGED <<handle, heap, target, session, files, traces, fault, cut, ended, last>>

\* mkdir_p makes the next folder of the path; it goes on if that exists, and returns if it
\* fails otherwise.  No one looks at what it returns.
Mkdir(w) ==
    LET path == Path[writer[w].dir]
        folder == path[writer[w].at]
    IN  /\ At(w, "mkdir")
        /\ folders' = IF folder \in Denied THEN folders ELSE folders \cup {folder}
        /\ IF folder \in Denied \/ writer[w].at = Len(path)
           THEN Goto(w, "open")
           ELSE writer' = [writer EXCEPT ![w].at = @ + 1]
        /\ UNCHANGED <<handle, heap, target, session, files, traces, fault, cut, ended, last>>

\* The file is opened and truncated.
Open(w) ==
    LET d == writer[w].dir
    IN  /\ At(w, "open")
        /\ Goto(w, "write")
        /\ traces' = IF d \in folders THEN [traces EXCEPT ![d] = "partial"] ELSE traces
        /\ UNCHANGED <<handle, heap, target, session, folders, files, fault, cut, ended, last>>

\* BUG: the stream goes out of scope before it is flushed.
WriteUnflushed(w) ==
    /\ At(w, "write")
    /\ writer' = [writer EXCEPT ![w] = Off]
    /\ session' = IF w = "exit" THEN Null ELSE session
    /\ ended' = IF w = "exit" THEN ended \cup {writer[w].dir} ELSE ended
    /\ cut' = cut \ {writer[w].dir}
    /\ UNCHANGED <<handle, heap, target, disk, fault, last>>

\* Everything is written and the file closed; dyntrace returns, or what was interrupted
\* goes on.
Write(w) ==
    LET d == writer[w].dir
    IN  /\ At(w, "write")
        /\ traces' = IF d \in folders THEN [traces EXCEPT ![d] = "complete"] ELSE traces
        /\ writer' = [writer EXCEPT ![w] = Off]
        /\ session' = IF w = "exit" THEN Null ELSE session
        /\ ended' = IF w = "exit" THEN ended \cup {d} ELSE ended
        /\ cut' = cut \ {d}
        /\ UNCHANGED <<handle, heap, target, folders, files, fault, last>>

\* SIGTERM once a tracer was created: handleSignal serializes what dyntracer_ points to.
HandleSignal ==
    /\ Running
    /\ target # Null
    /\ IF heap[target] = Free
       THEN fault' = "signal" /\ UNCHANGED writer
       ELSE /\ writer' = [writer EXCEPT !["signal"] =
                            [Off EXCEPT !.pc = "stat", !.dir = heap[target]]]
            /\ UNCHANGED fault
    /\ UNCHANGED <<handle, heap, target, session, disk, cut, ended, last>>

WritesTo(d) == \E w \in Parts : writer[w].dir = d

\* The process dies, of SIGKILL, of SIGTERM before any tracer, of a fault, or it ends; a
\* new one starts with the disk as it is.
Die ==
    /\ handle' = [h \in Handles |-> Null]
    /\ heap' = [t \in Tracers |-> Free]
    /\ target' = Null /\ session' = Null
    /\ writer' = [w \in Parts |-> Off]
    /\ fault' = "none"
    /\ cut' = cut \cup {d \in Dirs : WritesTo(d)} /\ ended' = {}
    /\ UNCHANGED <<disk, last>>

Serialize(w) == Stat(w) \/ Mkdir(w) \/ Open(w) \/ Write(w)

Next ==
    \/ \E h \in Handles, t \in Tracers, d \in Dirs : CreateDyntracer(h, t, d)
    \/ \E h \in Handles : DestroyDyntracer(h) \/ DyntraceEntry(h)
    \/ \E outcome \in Outcomes : DyntraceExit(outcome)
    \/ \E w \in Parts : Serialize(w)
    \/ HandleSignal
    \/ Die

Spec == Init /\ [][Next]_vars

\* The operating system runs the process: the handler goes on, and so does dyntrace_exit
\* when it is not interrupted over and over again.  R owes us nothing.
FairSpec ==
    /\ Spec
    /\ WF_vars(Serialize("signal"))
    /\ SF_vars(Serialize("exit"))
-----------------------------------------------------------------------------
(***************************************************************************)
(* Properties                                                              *)
(***************************************************************************)

\* Type correctness of every variable; what writes has a directory, and mkdir_p stays in
\* its path.
TypeOK ==
    /\ handle \in [Handles -> Tracers \cup {Null}]
    /\ heap \in [Tracers -> Dirs \cup {Free}]
    /\ target \in Tracers \cup {Null} /\ session \in Tracers \cup {Null}
    /\ writer \in [Parts -> Writer]
    /\ \A w \in Parts :
          \/ writer[w] = Off
          \/ /\ writer[w].pc # "off" /\ writer[w].dir # Nowhere
             /\ writer[w].at \in 1..Len(Path[writer[w].dir])
    /\ folders \subseteq Folders
    /\ files \in [Dirs -> SUBSET ({"CONFIGURATION"} \cup Outcomes)]
    /\ traces \in [Dirs -> {"absent", "partial", "complete"}]
    /\ fault \in {"none", "destroy", "signal"}
    /\ cut \subseteq Dirs /\ ended \subseteq Dirs
    /\ last \in [Dirs -> Outcomes \cup {"none"}]

\* "multiple calls to destroy_dyntracer on the same object do not crash the process"
\* (tracer.cpp), and SIGTERM is safe but for one case, a late one: the newest tracer was
\* destroyed, and the handler still follows dyntracer_.  That is never the one that runs.
OnlyLateSignalsFault ==
    fault # "none" => fault = "signal" /\ heap[target] = Free /\ target # session

\* Only the death of a process that was writing leaves a status file without complete
\* traces, or a truncated traces file, and only until a writer of the next process has been
\* through: cleanup writes the status first, and opening the file truncates it.
StatusMeansTraces ==
    \A d \in Dirs : files[d] \cap Outcomes # {} \/ traces[d] = "partial" =>
        traces[d] = "complete" \/ WritesTo(d) \/ d \in cut

\* The first session in a new directory leaves no status, cleanup being before mkdir_p;
\* every session after one that left traces, complete or not, does.
StatusFromSecondOn ==
    \A d \in Dirs : last[d] # "none" => last[d] \in files[d]

CanBeMade(d) == \A i \in 1..Len(Path[d]) : Path[d][i] \notin Denied

\* However SIGTERM interrupted it and whatever earlier processes left, dyntrace_exit
\* leaves a complete traces file where a directory could be made.
ExitLeavesTraces ==
    \A d \in ended : CanBeMade(d) =>
        traces[d] = "complete" \/ WritesTo(d) \/ fault # "none"

\* The handles: different ones have different tracers, all allocated, as is the one that
\* runs; dyntrace_exit writes where that one says.
HandlesAreSound ==
    /\ \A h \in Handles : handle[h] # Null => heap[handle[h]] # Free
    /\ \A h, g \in Handles : handle[h] = handle[g] /\ handle[h] # Null => h = g
    /\ session # Null => heap[session] # Free
    /\ writer["exit"] # Off => session # Null

\* Files are in folders that are there, and so is what is about to be opened, if it can be.
FilesAreInFolders ==
    /\ \A d \in Dirs : files[d] # {} \/ traces[d] # "absent" => d \in folders
    /\ \A w \in Parts : writer[w].pc \in {"open", "write"} /\ CanBeMade(writer[w].dir) =>
          writer[w].dir \in folders

\* The inductive invariant.
IInv ==
    /\ TypeOK
    /\ HandlesAreSound
    /\ FilesAreInFolders
    /\ fault # "none" => target # Null
    /\ OnlyLateSignalsFault
    /\ StatusMeansTraces
    /\ StatusFromSecondOn
    /\ ExitLeavesTraces

\* At most how many steps part w has left.
StepsLeft(w) ==
    LET path == Path[writer[w].dir]
    IN  CASE writer[w].pc = "stat" -> Len(path) + 3
          [] writer[w].pc = "mkdir" -> Len(path) - writer[w].at + 3
          [] writer[w].pc = "open" -> 2
          [] writer[w].pc = "write" -> 1
          [] OTHER -> 0

\* Whatever happens while traces are written, nothing takes that back: each step of its own
\* brings dyntrace_exit nearer to its end, SIGTERM included, and so it is with the handler.
WritersAdvance ==
    [][\A w \in Parts : writer[w] # Off /\ (Serialize(w) \/ writer'[w] # writer[w]) =>
          StepsLeft(w)' < StepsLeft(w)]_vars

\* dyntrace_exit comes to its end, unless SIGTERM finds a freed tracer or the process dies.
ExitCompletes == writer["exit"] # Off ~> writer["exit"] = Off \/ fault # "none"
=============================================================================
