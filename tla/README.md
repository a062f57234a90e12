# A TLA+ model of propagatr

propagatr is an R package with a dynamic tracer in C++. An R interpreter that was built with `dyntrace` calls the
tracer's probes while it evaluates a program; the tracer records, for every call of a closure, the types of its
arguments and of its return value, and writes the distinct *call traces* with their counts to a file.

The directory has TLA+ modules that model the tracer, TLC configurations that check them on small instances, and
proofs that TLAPS checks for all instances.

```
tlc -config TracerState.cfg MCTracerState.tla      # and so on, see "Runs"
tlapm TracerState_proofs.tla                       # and the other *_proofs modules
```

## The system

Everything runs in R's one thread. R calls a probe, the probe runs to its end, R goes on: there is no concurrency
between probes. What makes the tracer hard is that the probes arrive in the order of an R evaluation, which nests,
is lazy, can be left from any depth (`return`, errors, `break`), and has a garbage collector that frees what the tracer
has pointers to, at any moment between two probes. The one thing that interrupts C++ code is SIGTERM.

| Component | State | Operations | Modelled by |
|---|---|---|---|
| Execution context stack (`ExecutionContextStack.h`, `ExecutionContext.h`) | `stack_`: calls, promises, RCNTXTs | push, pop, peek, unwind | `ExecutionStack` |
| Tracer core (`probes.cpp`, `TracerState.h`, `Call.h`, `Argument.h`, `DenotedValue.*`) | `promises_`, the heap of DenotedValues, calls with their Arguments and traces in progress | the attached probes, `create_call`, `destroy_call`, `destroy_promise`, `cleanup` | `TracerState`, abstractly `PromiseOwnership`; with the store `Propagatr`, abstractly `CallLedger` |
| Call trace store (`TracerState.h`, `CallTrace.h`, `tracer.cpp`) | `traces_`, `counts_`, the traces file | `deal_with_call_trace`, `serialize_traces_list`, `handleSignal` | `TraceStore`, with its hashing `HashedStore` |
| Function table (`TracerState.h`, `Function.*`) | `functions_`, `function_cache_`, the heap of Functions | `lookup_function`, `remove_function`, `cleanup` | `FunctionTable` |
| Use counters of a promise (`DenotedValue.*`, `Argument.h`) | twenty pairs of counters, `escape_`, the counters of Arguments | `force`, `lookup_value`, ..., `check_and_set_escape_` | `PromiseUse` |
| Type descriptions (`utilities.cpp`, `Type.h`) | none | `get_type_of_sexp` and its helpers | `TypeOf` |
| Hash of a call trace (`CallTrace.h`, `Type.h`) | a CallTrace while it is hashed | `compute_hash`, `hash_type` | `CallTrace`, its loop `HashLoop`, for the tables `HashedStore`; `TraceStore` takes any hash |
| Life cycle (`tracer.cpp`, `propagatr.R`, `TracerState.h`) | `dyntracer_`, the output directory with CONFIGURATION, ERROR, NOERROR, the traces file | `create_dyntracer`, `destroy_dyntracer`, `handleSignal`, `mkdir_p`, the status files | `Lifecycle` |
| Dependency graph (`DependencyNodeGraph.h`, `DependencyNode.h`) | a set of edges | dead code: every caller is commented out | not modelled |
| MD5 ids, base64, timers, event counters | | vendored, or written and never read | not modelled (ids as values) |

How they interact. R calls the core's probes. `closure_entry` asks the function table for the Function of the call,
makes an Argument and a DenotedValue for each value and pushes the call on the stack. `promise_force_entry` and
`promise_force_exit` push and pop the promise and write its type into the traces of the calls that it is an argument
of. `closure_exit`, or `context_jump` for each closure that it unwinds, gives the trace to the store and destroys the
call. `gc_unmark` takes promises and closures out of the two tables. `dyntrace_exit` writes the store out and cleans
up. SIGTERM makes the handler write the store out, in the middle of whatever runs.

What makes each part correct:

* **stack**: it is R's own stack at all times, since the exit probes check no more than the kind of what they pop;
* **core**: a DenotedValue is deleted when, and only when, neither the promise map nor a call holds it; no pointer to a
  deleted one is followed; the types in the traces of running calls are those of the promises now;
* **store**: the two tables agree with each other and with the number of traces that were dealt with, and a file
  that is complete says so;
* **function table**: no entry survives the function it was made for, one Function per id, none leaked or freed twice;
* **counters**: what was counted before escape and after adds up and splits at the right use;
* **types and hash**: one row for each function and shape of its arguments and value, and only one, in whatever order a
  hash table is iterated;
* **life cycle**: a status file comes with its traces, dyntrace_exit leaves complete traces wherever the directory can be
  made, memory that was freed is not used;
* **the whole**: each call of a closure that begins is counted exactly once when it ends, however it ends.

`PROJECT.json` lists the hazards line by line, with the property that is aimed at each.

## Modules

### ExecutionStack

Operators on the stack as a sequence: `Top` (peek), `Below` (pop), `UnwindPoint` (how far `unwind` pops: to the last
context equal to the target, 0 if there is none). Used by `TracerState`.

### TracerState

| Variable | Code |
|---|---|
| `phase`, `rstack`, `rprom` | the R interpreter: inside `dyntrace` or not, what it evaluates, the contents of its promises |
| `stack` | `stack_`; a call has its Arguments and the types of its trace |
| `promises` | `promises_` |
| `dvs` | the heap of DenotedValues by address: object, active bit, environment, `argument_stack_`, `non_local_return_` |
| `jump` | a `context_jump` probe in progress |
| `log` | the `dyntrace_log_error` that was called |

One action is one R event with the whole probe it runs: `DyntraceEntry`, `ClosureEntry` (create_call,
process_closure_arguments, the initial types, push), `PrimitiveEntry`, `CallExit`, `PromiseForceEntry`,
`PromiseForceExit`, `ContextEntry`, `ContextExit`, `ContextJump` with one `JumpStep` for each unwound context (so that the
properties are checked between them), `GcUnmark` and `DyntraceExit`. Heap addresses are chosen nondeterministically
among the free ones, so a deleted DenotedValue's address is reused at once if that is bad for the tracer. So are the
SEXP addresses of promises.

The guards of the actions have only what R guarantees. The assumptions on R are:

* probes arrive nested as R evaluates; a jump goes to a context that R has on its stack;
* **E1** R does not collect a promise that it is forcing;
* **E2** R does not collect a promise that two of its calls hold (a dispatch hands the caller's promises to the method,
  and the caller's context keeps them);
* **E3** the arguments of one call are distinct promises;
* R collects nothing while a probe runs (the probes allocate no R objects of their own);
* `dyntrace_log_error` does not return.

Without E2 `destroy_call` would delete an inactive value under an outer call: the code rests on it without a check.

Left out: counters and timers, `previous_*` fields, scopes, class names (nothing reads them back; the counters have
their own module; `closure_entry` does ask `is_forced` in an S3 dispatch, but the type that it then records is
overwritten by the initial guess in the same turn of the loop, or by that of `...`), and what happens to a trace after its call ends, return
type included, which is the matter of `Propagatr`.

### PromiseOwnership

The abstract specification of the core: every address has a set of holders (the promise map, and calls by their height on
the stack) and is allocated exactly while that set is not empty. It is the comment on `destroy_promise`, "we delete
a promise iff we are the only one holding a reference to it", without active bits and argument stacks. `TracerState`
implements it under the mapping `Ownership` at its end.

### TraceStore

`deal_with_call_trace` in three actions (`DealWithCallTrace`, then `Increment`, or `Insert` and `Count`), and
`serialize_traces_list` in two (open, then write), so that `HandleSignal` can come between any two operations on the
tables and on the file. The tables are keyed by hash, because `operator==` compares hashes, and several traces may have
one hash. `counts_[el]` inserts a missing key, `counts_.insert` leaves a present one alone, `counts_.at` throws; all three
matter. `seen` and `interrupted` are history: how many traces there were, and at which hash a first insertion was
interrupted. SIGTERM inside a hash table's insertion is undefined behaviour of the C++ library and not modelled.

### FunctionTable

R allocates closures at addresses, collects them, and changes their environment in place, which changes the id
but not the address. `LookupFunction` goes through the two tables; `Collect` runs `gc_closure_unmark` while R is traced and
nothing while it is not; `DyntraceExit` is `cleanup`. Assumed: R collects no function that runs; primitives are never
collected; ids of closures do not collide; primitives that share the name of a C function are of one kind.

`functions_` goes by the address and `function_cache_` by the id, and the two part when `environment<-` gives a closure that
was called another id. `first` is history: the id that each function had when this session first called it. `FunctionsFollowR`
and `CallsKnowTheirFunction` say that the session keeps to that one: all calls of one closure have one Function, two that run
at once included, and the id of the new environment counts from the next session on. A `lookup_function` that asked
`function_cache_` first would break that, as would an entry that outlives its function or is lost before it.
`CallsKnowTheirFunction` is also why the core may treat a call's kind as that of what R runs.

### PromiseUse

One DenotedValue through its life as an argument of calls: twenty pairs of counters are a function from kinds of use
to numbers, `CountUse` is `check_and_set_escape_` followed by the increment, `TellArguments` what the Arguments learn.
`history` is the record of all uses, and the properties say what the counters are in terms of it. The methods are
an interface: the model calls them in any order, though the attached probes only reach `force`, `add_argument` and
`remove_argument`. Left out: S3 and S4 dispatch, evaluation depth and the like, which store what they are given.

### Lifecycle

| Variable | Code |
|---|---|
| `handle`, `heap` | R's external pointers, and the `output_dirpath_` of each TracerState that is allocated |
| `target` | `dyntracer_`, the tracer that the handler of SIGTERM serializes |
| `session` | the tracer that `dyntrace` runs |
| `writer` | for each of the two parts that write traces, `dyntrace_exit` and the handler: where it is in `serialize_traces_list` |
| `folders`, `files`, `traces` | the disk, which outlives the process |
| `fault` | what used freed memory; nothing is said of what follows |
| `cut`, `ended`, `last` | history; `cut` has the directories where a death cut a writer off and none has finished since |

The writing is a step for `stat`, one for each folder of `mkdir_p`, one for opening and one for writing and closing. The
handler interrupts all of that and everything else and runs to its end (SIGTERM is blocked meanwhile); R and
`dyntrace_exit` wait for it. `Die` can happen anywhere and starts a new process on the disk as it is. What is in a file is
the matter of `TraceStore`; here it is absent, partial or complete. A bound of the model: tracers that live at the same time
write to different directories.

What the code does, and the properties say: the first session in a new directory leaves no CONFIGURATION and no status,
since both are opened before `mkdir_p`; every later one does, and ERROR stays beside NOERROR; a status file may be without
traces, and a traces file truncated, only where a process died while it wrote, and the next that writes there makes up for
it; SIGTERM after the newest tracer was destroyed follows a dangling pointer. Whether complete traces are those of the session
that the status is of is not told apart, since nothing on the disk tells it.

### Propagatr, with CallLedger

`Propagatr` EXTENDS `TracerState` and has an instance of `TraceStore`, whose traces are records of a function, the types of
its arguments and the type of its value. An exit probe is then several actions, as in the code: `ClosureReturns` hands the
trace of the call on top to `deal_with_call_trace`, `PrimitiveReturns` one with as many positions as R passed values,
`StoreWorks` is that function's own steps, and `CallEnds` is `destroy_call`. In a jump, `JumpDeals` does the same for each closure that is unwound, with `UnwoundType`: the type of the
value that the jump carries for the outermost of several contexts, `jumped` for all others, and an empty type for a NULL
value. `dealt`, `value` are where a probe is; `begun` is history. R does nothing while a probe runs. `NullAssumption` says that the
null pointer is neither a call trace nor a row of the file; the store's `Absent` is this pointer here.

Different traces have different hashes here and SIGTERM is not sent: `HashedStore` and `TraceStore` say what happens otherwise.

`CallLedger` is what the whole promises: a call that begins is open, and is counted once when it ends, as a trace of its own
function. A builtin or special that a jump leaves is dropped (`jump_single_context` makes no trace for it), a closure never is.
The mapping: `open` is how many calls of each function are on the stack and not counted (`OpenCalls`), `counted` is `counts_`
with 0 for a trace that it does not have.

A number of calls is the size of a set everywhere: `CallsIn(table, op)` has each call that a table stands for as a pair of its trace
and a number. A sum over a table would be a fold, about which nothing can be proved without induction.

### TypeOf, HashLoop, CallTrace and HashedStore

`TypeOf` has `get_type_of_sexp` and its helpers as operators on abstract values. A type is the sequence of the pieces that the
code appends and a name is a sequence too, of what the code looks for in it (`,`, backtick, `@`, the rest), so that the
sanitizing of names and the splitting of a type at its first `@` are done and not assumed. Class names are numbers in the
order of `std::sort`, without the backticks around them. `Shape` is the reference: what a type is meant to tell.

`get_class_names` runs before `vector_logic` and `list_logic` and has an answer for every matrix, array and data frame, so the
branches that make `integer[2,3]` or a data frame's struct are never reached and are left out; `src/README.md` has a grammar for
such types, and what is recorded for a matrix is ``class<`matrix`>``. SHORTEN_ENV is defined, which makes an
environment's type one word. `simple_type_of_value` is never called.

`HashLoop` is `compute_hash_just_for_types`: `Turn` is one turn of the loop over the `unordered_map` of positions, taken in any
order, since nobody knows that order. `factors` is what each position contributes, position xor hash of its type, which does
not change during the loop; `Product` is the product in the order of the positions. `Word` is how many values a `size_t` has.

`CallTrace` has what makes the factors (`Factor`, `HashType`) and the hash of the function, as operators. `std::hash` of a string is
a constant. `operator!=` says the same as `operator==` (CallTrace.h:75-77); nothing uses it.

`HashedStore` EXTENDS `HashLoop` with the two tables. `TraceStore` takes for granted that a call trace has one hash, but the code
keeps none: each of `traces_.count`, `counts_.at`, `insert_or_assign`, the two `insert`s and `counts_[el]` computes it anew from a
copy of the trace, whose `unordered_map` may yield the positions in another order. If the hash depended on that order,
`counts_.at` could throw after `traces_.count` had found the trace, and `counts_[el]` could insert a second key with 0. So every
operation here is a loop with its own order, and an action that ends it; `serialize_traces_list` makes its rows
one by one in the order of `traces_`, with the header growing beside them.

| Variable | Code |
|---|---|
| `pc`, `trace`, `el` | the operation whose hash is computed, and for which call trace |
| `factors`, `todo`, `hash` | the loop of `compute_hash_just_for_types` |
| `traces`, `counts` | `traces_`, `counts_`, as functions on the keys they have |
| `got` | what `counts_.at` returned |
| `rest`, `out`, `file` | the iteration over `traces_`, the stream with `max_of_max`, the traces file |
| `log` | history: the call traces that were dealt with |

It implements `TraceStore` (`ImplementsStore`), with `KeyOf`, the hash with the positions in order, for `Hash`. In `TraceStore` the
answer of `traces_.count` is there at once, so while the code still looks, the mapped `pc` (`StorePc`) has the branch that it is
going to take; and the file, which `TraceStore` writes at once, is mapped row by row only when it is closed. SIGTERM is
left out of `HashedStore`: its handler runs the same loop, and `TraceStore` has what it does to the tables.

## Runs

| Run | Instance | What it shows |
|---|---|---|
| `promises` | 2 promises, 3 addresses, `f(x)` and `g(x, ...)`, `return`, depth 3 | who holds a value, who deletes it, types of traces, the inductive invariant, the refinement |
| `deep_stack` | 1 promise, 2 addresses, all kinds of contexts, depth 5 | the stack is R's through forcing, jumps and collections; nothing is left at exit |
| `nonlocal_return` | two nested promises of one environment, search guided by `MCNestedPromises` | finding 1 (expected violation) |
| `store` | 3 traces with 2 hashes, 3 of each hash, SIGTERM anywhere | the tables, the counts and the file |
| `store_no_signals` | the same without SIGTERM | the counts are exact |
| `lost_count` | the same with SIGTERM | finding 2 (expected violation) |
| `functions` | 3 addresses of R, a closure in 2 namespaces and another closure, 2 builtins with one C function, 4 Functions, 2 calls | the tables follow R; the inductive invariant |
| `promise_use` | 3 Arguments, 4 uses of 4 kinds | the counters |
| `lifecycle` | 2 handles, 2 tracers, 2 directories of which one cannot be made, any number of sessions and processes | the disk, freed tracers, that whatever writes goes forward, that `dyntrace_exit` ends |
| `propagatr` | `f(x)` and `return`, 1 promise, depth 4, 3 calls in any number of sessions | the inductive invariant of the whole; each closure call is counted once; return types; probes go forward and end |
| `call_traces` | words of 15 bits, any two calls out of 3 functions and 48 values of all kinds, each operation with any order of positions | the order does not show in the hash; the store implements `TraceStore`; one row for each function and shape |
| `hash_lost` | words of 4 bits, two functions with 8 arguments of one type | finding 3 (expected violation) |

The bounds and why they are enough. `MaxDepth`: 3 contexts are an outer call, a dispatch that passes its promise on and
a forcing or a collection in between, which is what sharing of one value needs; 5 with one promise has call, context,
promise, call and `return` at once, so that jumps unwind each kind of context below each other one. Two promises and
three addresses have values at once that are live, freed but still held, and reused. `MaxDots` 1 gives `...` one value;
longer ones only repeat it. `MaxSeen` 3 reaches a first, a second and a third trace of a hash, on both sides of a
signal and of a new session. `MaxCalls` 2 has a function called again while it runs and another one. Four uses are one
while bound, one that escapes, one while bound again and one after.

In `lifecycle` two tracers are an old one and the newest one, which is the difference that the handler sees, and paths of two
folders have one that `mkdir_p` makes and goes on, and one that it fails at before the last; nothing else is bounded. In
`propagatr` depth 4 has a call, a promise, a call and `return` under each other, so that one jump leaves two closures and a
promise, and 3 calls are one for each of them; there is one promise and one type, since `promises` checks the types. `MaxArgs` 1 gives
`return` a value or none. In
`call_traces` two calls are enough for a property of pairs; 15 bits are the width at which the products of the instance's
hashes have no accidental collision, which a hash of any width may have and the property excludes. 4 bits and 8
arguments are the 64 bits and 66 arguments of finding 3.

Symmetry is used for addresses, promises and contexts, which no definition tells apart, the abstract specification's included;
the runs that use it have no liveness property, so it is sound. `lifecycle` and `propagatr` use none.

The invariants `IInv` and `WholeInv` are the inductive ones of the proofs; their first part is the type invariant `TypeOK` of the
module.

Every property has a mutant, a definition `BUG: ...` placed before the one that it replaces, under which TLC finds it
violated.

### Findings

1. `nonlocal_return`: the comment at `probes.cpp:706-709` says that the loop of `context_jump` breaks after the first
   promise that is held responsible for a non local return. It does not: two promises on the way, both with the
   environment that the jump returns to, are both marked.
2. `lost_count`: SIGTERM between `traces_.insert` and `counts_.insert` makes the handler's `counts_[el]` enter 0, which
   `counts_.insert` then keeps. The trace's count is one short from then on. `CountsAccount` shows that this is all that
   SIGTERM can do between operations: one count for each hash at most.
3. `hash_lost`: `compute_hash_just_for_types` multiplies `position ^ hash of the type` over the positions, modulo 2^64. With 66
   arguments of one type, at the positions 0 to 65, enough of the factors are even for the product to be 0 whatever the
   type is. The hash of the function is multiplied with it and lost: `c(1, ..., 66)` and `list(1, ..., 66)` are taken for one
   trace, and the comment at `TracerState.h:334-335`, that a trace that was not seen is saved, does not hold.

## Liveness and fairness

Most of the tracer waits for nothing: whether the next probe is called is up to the traced program, which may run for ever
or be killed, and no fairness on R's events would be justified. What the code does justify is that what has begun goes on.

* `Lifecycle!FairSpec` has weak fairness for the handler and strong fairness for `dyntrace_exit`: the operating system runs the
  process, and the handler runs to its end, but `dyntrace_exit` is stopped by each SIGTERM and can only go on between them. Strong
  fairness says that it is not interrupted over and over with no instruction of its own in between. `ExitCompletes`: it
  comes to its end, in a directory that cannot be made too, unless the handler finds a freed tracer or the process dies.
  `WritersAdvance` is the part of it that is safety, and proved: each step of `dyntrace_exit` or of the handler decreases
  `StepsLeft`, and nothing increases it.
* `Propagatr!FairSpec` has weak fairness for `Probe`, the actions that go on with a probe: R waits while one runs. `ProbesEnd`: all
  that R jumped out of is unwound, what it called is counted, and R goes on. `ProbesAdvance`, again, is proved: while a probe
  runs nothing but its own steps happens, and each of them decreases a number, four for each context on the stack and the
  stage at which the one on top is. What is left to TLC is that some step is always possible.

Deadlock is checked in all runs but `promise_use`, where a promise may simply never be used again.

## Proofs

| Module | Theorems | Inductive invariant |
|---|---|---|
| `TracerState_proofs` | `Invariance`, `TypeCorrect`, `NeverAnError`, `StackFollowsR`, `MapAgreesWithHeap`, `DeadHeldOnce`, `NoUseAfterDelete`, `CallsOfArgumentsLive`, `NoDeleteWhileForced`, `NothingLeaks` | `TracerState!IInv` |
| `Calls_proofs` | `TracesStayCurrent`, `CountsReferences` | `IInv /\ CurrentTraces`, `IInv /\ DepthBounded` |
| `TraceStore_proofs` | `StoreInvariance`, `StoreTypeCorrect`, `CountsCorrect`, `AtNeverThrows`, `FilesAreSound`, `ExitWrites`, `ExactWithoutSignals` | `TraceStore!IInv` |
| `FunctionTable_proofs` | `TableInvariance`, `TableTypeCorrect`, `FunctionsLive`, `OneFunction`, `NoStaleFunction`, `FunctionOfCall`, `NoFunctionLeaks` | `FunctionTable!IInv` |
| `PromiseUse_proofs` | `UseTypeCorrect`, `UsesAreSplit`, `ArgumentsAreTold` | `CountersOK /\ SplitAtFirstFreeUse`, `ArgumentsOK` |
| `Lifecycle_proofs` | `Invariance`, `FreedTargetOnly`, `StatusHasTraces`, `SecondHasStatus`, `ExitHasTraces`, `WritersGetOn` | `Lifecycle!IInv` |
| `HashedStore_proofs` | `HashedInvariance`, `OrderDoesNotMatter`, `StoreImplemented`, `HashedCountsExact`, `OneRowForEachShape` | `LoopInv /\ HashInv /\ Store!IInv` |
| `Propagatr_proofs` | `WholeInvariance`, `WholeRunsCore`, `WholeRunsStore`, `OutermostTyped`, `FileIsExact`, `LedgerImplemented`, `ProbesGetOn` | `Propagatr!WholeInv` |

They hold for all values of the constants that satisfy the named assumptions of the modules: that functions have a kind, a
number of formals and at most one `...`; that the null pointer, free memory and the other marks are none of the
things they mark; that `Hash` and `Id` are functions; that
a path ends with its directory; that a `size_t` has more than one value. The bounds are constants too and may be any natural numbers.

The core. No single property is inductive. That `remove_argument` finds its Argument on top needs that the entries of
an argument stack are Arguments of calls on the stack in stack order (`NoDanglingArgument`), and the converse
(`NoDanglingValue`). That `destroy_call` deletes only what nobody else holds needs `DeadHasOneHolder`; the collector
keeps that by E2, but only since R's frames hold what the tracer's calls hold (`FramesHold`), which in turn
needs that the two stacks are the same (`StackMirrorsR`) and that a value in the map is the promise's own
(`MapMatchesActive`). That a promise's context points to a live value needs E1 with `ForcedStaysAlive`. `IInv` is their
conjunction with type correctness and `WellFormedStacks`; the proof has one lemma for each action and part that
it can disturb. During a jump the stack is longer than R's: `StackMirrorsR` speaks of the part below the target, and the
parts about calls of the whole.

The traces of running calls. `TracesAreCurrent` says what the types are and not where; that an action which writes one type
leaves the others current needs that each position of an Argument is one of its call's trace, and that two Arguments have
the same position only inside `...` (`CurrentTraces`).

The refinement. Under the mapping of `TracerState` each action is one of `PromiseOwnership` or a stutter, a lemma for each. A
holder is a height, and heights must stay in `1..MaxDepth`, hence `DepthBounded`. The step that deletes is the one that needs
the invariant: `destroy_call` and `destroy_promise` look at the active bit and the argument stack, and `NoDanglingArgument`,
`DeadHasOneHolder` and `MapMatchesActive` make these the set of holders.

The store. `Accounted(h)` relates the two tables, the number of traces dealt with and the interrupted insertions, with a case for
the moment between the two insertions. `FileIsSound` is inductive with it because counts only grow and a
key's trace never changes. `ExactWithoutSignals` assumes that `Signals` is false.

The function table. `OneFunctionPerId` is what makes `cleanup` free each Function once. That a call's Function has the id of
the first call needs that `functions_` has an entry for just the functions that `first` has one for: an entry that is not there
is made under the id of now, which is then the first one. A running function is not collected, so `first` stays while a
call of it runs.

The counters. A lemma on one more use at the end of a history (`CountOneMore`) and the three cases of
`check_and_set_escape_`: escaped before, escapes now, does not.

The arguments of a promise. An Argument knows the uses between its bind and its unbind; the invariant relates what each
Argument was told to `history` at the positions where it was bound.

The life cycle. `ExitLeavesTraces` and `StatusMeansTraces` need that files are in folders that are there and that what is about to be
opened can be (`FilesAreInFolders`), `OnlyLateSignalsFault` that handles and the session have allocated tracers
(`HandlesAreSound`).

`WritersAdvance` is a count of the steps that are left: `serialize_traces_list` has at most three more than the path has folders, and
the loop of `mkdir_p` goes on by one. That nothing else moves what writes is a lemma over all actions (`OthersWait`).

The hash. The comment in `compute_hash` says that the operation is to be commutative, since the order of the positions is not known.
`LoopInv` says that the hash is the last of the partial products, in the order of the positions, of those positions that were
taken so far. A turn with position `p` multiplies all partial products from `p` on with its factor (`PartialOneMore`), which needs
that two factors can be exchanged in a product modulo `Word` (`TimesCommutes`, by the uniqueness of the remainder). That the
recursive definition of `Product` has the value of any sequence of partial products is induction over the positions, done as a
proof with a least counterexample (`LeastNumber`, from the library's theorem on minimal elements). It holds for words of any
width and calls of any length (`OrderDoesNotMatter`).

The store with its hashing. `HashInv` says that the loop is over the positions of the trace that the operation is for, so that
a loop that is done has `KeyOf` of it (`KeyIsHash`); that a row of either table is under the `KeyOf` of its trace; that what
`counts_.at` returned is still in `counts_`; that the rows made so far are those of the tables, with a header that is wide
enough and not wider; and that the keys of `traces_` are those of `log`. None of it holds alone: that `counts_.at` does not throw is
`TraceStore`'s invariant under the mapping, so the inductive invariant has `Store!IInv` as well, and the step that keeps it is
the lemma of `TraceStore_proofs`, instantiated with the mapped variables. Each action is shown to be a step of `TraceStore` or a stutter on
the way (`StoreImplemented`), and its theorems carry over (`HashedCountsExact`).
`OneRowForEachShape` says that a row is lost or doubled for no other reason than the hashes themselves: it has
`KeysTellShapes`, that two calls that were dealt with have one key exactly if they have one shape, as its hypothesis. That the
hypothesis is so for the types of R values is not proved: it rests on recursive definitions and bitwise operations (`TypeOf`, `CallTrace`),
and it is false where hashes of strings collide and in finding 3. The run `call_traces` checks it, as `RowsAreShapes` without hypothesis,
for all kinds of values.

The whole. `Propagatr` has an instance of the store beside the core, so its behaviours, without the variables of the other one, are
behaviours of each: `WholeRunsCore` and `WholeRunsStore`. The core's lemmas then apply as they are and the store's through an
instance of `TraceStore_proofs` with the constants replaced, for which the store's assumptions are proved first. `WholeInv` has
both invariants and what connects them. `ProbeStages` says where the store may be while the core waits, and that the trace that
is dealt with is of the function on top of the stack. `ClosuresAccounted` is the heart: calls of a closure that began are those that
are open and those that are counted. The step that counts (`Increment` or `Count`) moves one call from the one set to the other; the
step that pops the call later moves nothing, since `OpenCalls` leaves a call out as soon as it is counted. In a jump, this
rests on `UnwoundType` and `JumpedClosure` being the same before and after `deal_with_call_trace`. `FileIsExact` follows, since
the file has the counts when dyntrace_exit is done and the stack is empty then. `LedgerImplemented` takes the same facts as a step
simulation: the probes' steps are `Begin`, `End`, `Drop` or a stutter of `CallLedger`. `OutermostTyped` is a part of `ProbeStages`.

Only model-checked: the liveness properties `ExitCompletes` and `ProbesEnd`, which are out of the prover's reach as ENABLED is, though
the measures that decrease are proved; and `RowsAreShapes` without the hypothesis of `OneRowForEachShape`. The proved modules
have no recursive operator.

## Not modelled, and why

* Dependency graph: dead code. Every call that adds to the graph is commented out, and so is the one call of
  `serialize_dependencies`; there is no behaviour to be faithful to.
* Branches of `vector_logic` and `list_logic` for matrices and data frames, the long form of `env_logic`, `simple_type_of_value`:
  nothing reaches them, see above. Of the kinds whose type is one constant string only some are among the values.
* Class names with commas or backticks: `get_type_of_sexp` does not sanitize them as it does names; numbers stand for them here.
* MD5, base64: library code. Timers, event counters, evaluation depth: written, and read by nothing.
* S3 and S4 dispatch of a promise, its `previous_*` fields and scopes: each stores what it is given.
* SIGTERM inside an operation of the C++ library: undefined behaviour with no outcomes to choose among. The models have the
  handler between two operations.
* SIGTERM and hash collisions in the composition: `TraceStore` has both, for every order of traces; the core, which neither
  reads the tables nor is read by the handler, adds nothing to them.
* More than one tracer that writes to one directory at a time.

## State of the project

All that the repository runs on the way from a probe to the file is in a module above. The order in which it was built is
the order of the modules: the core with its abstract specification first, then the store, the function table and the
counters, then the composition, the life cycle and the types and hashes.

A change of the code has a place here: a new probe is a new action of `TracerState`, with its lemma in each of the proof
modules about it; a change of `closure_exit` or `jump_single_context`, which are to be kept alike, is one of `Propagatr`; a change of what
identifies a trace is one of `CallTrace`. If `SHORTEN_ENV` is turned off or the class of a matrix is no longer asked first, the
branches that are left out become real, and the values in `MCCallTrace` are where to begin.
