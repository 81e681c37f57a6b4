# Models of otus-course-hws

The repository is a course's worth of Go programs. Most of them are small, and
several of them are concurrent in ways that tests hardly reach: goroutines that
meet at channels and mutexes, a client whose two directions share one
connection, a storage that is called by many request handlers. This directory
holds TLA+ models of those programs, the TLC runs that check them on small
instances and TLAPS proofs of what matters most for every instance.

File and line numbers refer to the sources as they are beside this directory.

## The system's parts

### Parallel task execution - `hw05_parallel_execution/run.go`

`Run(tasks, n, m)` calls every task, at most `n` at a time, until `m` of them
failed. It starts one *sender*, `n` *workers* and one *receiver*.

* State: two unbuffered channels (`tasksChan`, `errsChan`), a buffered `resChan`
  of size 1, a `stopChan` that is only ever closed, three WaitGroups; the
  receiver's `errCounter` and `doneTasks`.
* Interaction: sender -> `tasksChan` -> workers -> `errsChan` -> receiver; the
  receiver puts the verdict into `resChan`, closes `stopChan` and is done, which
  is what makes everybody else end; `Run` waits for all and takes the verdict.
* Hard: workers run ahead of the receiver when the limit is reached; a worker calls its
  task before it looks at `stopChan`, so that tasks run after the stop and their results
  are dropped; the sender's select may hand out a task although `stopChan` is closed; the
  order of the deferred calls.
* Correct when: no task is called twice, what `Run` returns is true of the calls
  it made, no more than `n + m` tasks start when nothing succeeds, `Run` and its
  goroutines end, and no call is in progress after it.

### Doubly linked list and LRU cache - `hw04_lru_cache`

`list.go` is a list with `PushFront`, `PushBack`, `Remove`, `MoveToFront`, whose
items stay valid as handles. `cache.go` combines it with a map under one mutex:
`Set`, `Get`, `Clear`.

* State: the list's length, ends and links; the map; the mutex; per call its
  local `item`.
* Hard: links at both ends and in the middle, items removed and their memory
  used again; the map and the list changed in several steps; eviction decided by
  an equality with the capacity; a panic while the mutex is held.
* Correct when: the list represents the sequence its calls made; the cache is
  linearizable, holds exactly the keys touched last, never outgrows the capacity,
  and no call waits for ever.

### Pipeline - `hw06_pipeline_execution/pipeline.go`

`ExecutePipeline(in, done, stages...)` puts one relay goroutine before the first
stage, which gives up when `done` is closed, and chains the stages behind it.

* State: where each goroutine is, the value it holds, which channels are closed.
* Hard: `done` is closed at any moment, seen by each goroutine at another one,
  while values are on their way; a relay that has a value in hand must not wait
  for a stage that is gone.
* Correct when: the output is the ordered stream of inputs, without a gap, each
  worked on once by every stage, closed early only on `done`; no goroutine leaks.

### Telnet client - `hw11_telnet_client`

`client/telnet.go`: `Connect`, `Close`, `Send` (input to connection) and
`Receive` (connection to output). Each direction has a read worker and a select
loop; `Send` starts a further goroutine for every line it writes. `main.go` runs
both directions, and waits for the first result or for an interrupt.

* State: the connection, `t.stopChan`; per direction the worker, the channels of
  messages and errors, the result; the writers; main's select and deferred calls.
* Hard: channels closed by deferred calls while others still send on them; an
  error and an end that are ready at the same time; goroutines that outlive the
  call that started them; the single receive of `errorsChan` in main.
* Correct when: no line or message is lost, doubled or made up; a direction
  returns nil only when there is nothing left to do; `Close` makes both return;
  the program ends after an error, having closed the connection.

### Calendar service - `hw12_13_14_15_calendar`

Two implementations of one interface for events, `internal/storage/memory` (a map
and a mutex) and `internal/storage/sql` (PostgreSQL through sqlx), an HTTP server
with one route (`internal/server/http`) and the program that starts it
(`cmd/calendar/main.go`). The configuration says which storage is used.

* State: the map and its mutex; the table, shared with other instances; statements
  under way and their timeouts; the context that a signal ends, the goroutine in
  which `Start` serves, the one that calls `Stop`, the requests in flight.
* Interaction: a signal, or `cancel`, ends the context; both `Start` and the goroutine
  that stops wait for it; `Shutdown` ends `ListenAndServe`, which reports to `Start`
  by `errChan`; main waits for `stopChan` only after a failure.
* Hard: readers that do not take the mutex; an iteration of the map among writes;
  a statement that times out although it was executed; the database that never
  answers; a signal, a failure and the shutdown that reach `Start`'s select together.
* Correct when: writers exclude each other, a listing is regular, every call
  returns, and an event is refused only because one was added before, be it by a call that
  timed out; the process ends when it is asked to, with a status that tells why, and after a failure not
  before its requests are done or its time is over.

### File copying - `hw07_file_copying`

`Copy(from, to, offset, limit)` checks its arguments, opens the source, creates the
target and copies chunk by chunk, printing a progress bar.

* State: both files, the position in the source, `bytesReaden`.
* Hard: the last chunk, at the limit or at the end of the source, whichever is first;
  a failure at any call; a source that grows, or that is the target itself.
* Correct when: the target is at every moment a beginning of the piece asked for, and
  all of it when nil is returned; nothing that is refused has touched the target; the bar
  fits its width.

### Sequential programs

Each is one function, without a state between calls.

* `hw02` `Unpack`: an automaton over classes of runes. Hard: the end of the string in
  each of its states. Correct when the result is what the string means.
* `hw08` envdir: reads a directory of variables, updates the environment, runs a
  command. Hard: one bad file among good ones; an empty file, an empty line and blanks. Correct
  when the command sees what the files say or is not run.
* `hw09` `Validate`: walks a struct's fields, tags and nested structs. Hard: errors of
  two kinds, of which one discards the other. Correct when it reports every unsatisfied
  validator, in order, or that one could not be applied.
* `hw10` `GetDomainStat`: counts users per domain in a stream of lines. Hard: the
  last line, which may come together with the end. Correct when each line is counted once.
* `hw03` `Top10`: ranks words. Hard: ties, and a limit inside a group of equals.
* `hw01` prints a string.

## Modules

| Module | Models | Notes |
|---|---|---|
| `BoundedRun` | what `Run` promises its caller | abstract specification |
| `ParallelRun` | `run.go` | implements `BoundedRun` |
| `ParallelRun_proofs` | - | proofs about `ParallelRun` |
| `ListOps` | `list.go`, each method as a function from list to list | used by the next two |
| `LinkedList` | one list under any calls | |
| `LRUSpec` | the linearizable LRU cache | abstract specification |
| `LRUCache` | `cache.go` over `ListOps` | implements `LRUSpec` |
| `LRUCache_proofs` | - | proofs about `ListOps` and `LinkedList`, then about `LRUCache` |
| `OrderedStream` | what the reader of a pipeline's output sees | abstract specification |
| `Pipeline` | `pipeline.go`, with the stages of its test and README | implements `OrderedStream` |
| `Pipeline_proofs` | - | proofs about `Pipeline` |
| `TelnetConn` | connection, `Connect`, `Close`, peer | used by the next two |
| `TelnetSend`, `TelnetReceive` | `Send`, `Receive` with their workers | one direction each |
| `TelnetDuplex` | both directions side by side | composition |
| `TelnetClient` | both directions under any caller | composition |
| `TelnetMain` | both directions under `main.go` | composition |
| `Telnet_proofs` | - | proofs about `TelnetSend` and `TelnetReceive`, then both compositions |
| `EventStorage` | what both storages deal with | used by the next three |
| `MemoryStorage` | `storage/memory/storage.go` | |
| `SQLStorage` | the statements of `storage/sql/storage.go` | |
| `CalendarStorage` | the storage the configuration chose | composition |
| `CalendarStorage_proofs` | - | proofs about both storages and their composition |
| `CalendarServer` | `cmd/calendar/main.go`, `server/http/server.go`, `Connect` and `Close` of `storage/sql` | |
| `CalendarServer_proofs` | - | proofs about `CalendarServer` |
| `FileCopy` | `copy.go`, `progress_bar.go` | checked within `MCSequential` |
| `FileCopy_proofs` | - | proofs about `FileCopy` |
| `Unpack`, `DomainStat`, `EnvDir`, `TopWords`, `Validator` | hw02, hw10, hw08, hw03, hw09 | each with what its function promises |
| `Sequential_proofs` | - | proofs about these five |
| `MCSequential` | `LinkedList`, `FileCopy` and the five functions for TLC, one of them at a time | composition |

Operators named after a fault (`ReturnUnwaited`, `EvictFromQueueOnly`, ...) are
faulty forms of the definition that follows them. They are no part of any
specification; with one of them in place of the right definition a property of
the runs fails, which shows that the property notices that fault.

### How state and actions correspond to the code

*Granularity.* A goroutine's step from one blocking or shared operation to the
next is one action. An unbuffered channel is a rendezvous: one action moves both
goroutines. A `select` with several ready cases is several enabled actions. A
closed channel is the state of the goroutine that closes it, where only one does.
Deferred calls are actions of their own, in their order, where another goroutine
can see the difference (`CloseTasks` after `SenderReturn`, `TxReaderCloses` and
`TxCloses` in two steps, `MainLeaves` in four).

*ParallelRun.* `sender`, `worker[w]` and `receiver` are the three functions'
program counters. `task` is the loop variable, `outcome` what the task returned.
`SendTask` is line 58 meeting 66, `RunTask` the evaluation of `task()` that line
70's select makes before it looks at its cases, `SendResult` line 70 meeting 84
with the receiver's loop body 85-97, `WorkerStop` line 68. `Return` is the three
waits and the receive at the end of `Run`; each wait is for a condition that stays
true, so one guard stands for all.

*ListOps.* A list is a record of the three fields and of a heap: `next` and `prev`
map every item to the items its fields point to. Items removed keep their links.
`LinkedList` calls them with items of the list or nil, as `README.md:21` of hw04
asks, and remembers in `sequence` the sequence the calls stand for.

*LRUCache.* Each method is: `Lock`, `Lookup`, then `Touch`, or `Evict` and
`Insert`, or nothing, then `Unlock`; `Clear` has a step of its own. Nothing outside the
mutex is read or written, but the model does not assume that: calls of other
goroutines interleave at every step. `used` and `val` are history variables. A
panicked goroutine never calls again; the model lets the others go on, as they do
where the caller recovers. `capacity` is chosen at the start and never changes.

*Pipeline.* Relay 0 is the goroutine of `ExecutePipeline`; relays 1..K are the
stages. `hold[j]` is the value a relay took, with the number of stages that worked
on it. `doneAware` says whether the stages watch `done` (as those of the test do)
or not (as those of the README), and is chosen at the start.

*Telnet.* `txReader` and `rxReader` are the read workers, `tx` and `rx` the select
loops, `writer[m]` the goroutine that writes line m. Data are line numbers. A peer
that shut down in order (`"eof"`) may still swallow a write; after a reset reads and
writes fail. In `TelnetMain`, `wg.Wait` has no action: whichever way it is reached,
one goroutine is left that nobody receives from.

*MemoryStorage.* A write is `Begin`, `Lock`, `Write`, `Unlock`. `ListEvents` walks
the map one id at a time, in any order, without the lock, as the code does; `during`
remembers the values an id has had since the call began. A reader that meets a
writer may be answered by the runtime with a fatal error (`Throw`).

*SQLStorage.* A call sends its statement, the database executes it at one moment or
never, and the call returns the answer or its timeout. The table is shared with other
instances of the service, which use ids of their own. `taken` is a history variable:
what `AddEvent` told the callers whose events the table took.

*CalendarServer.* `main`, `serve` and `stop` are the program counters of main, of the
goroutine in `Start` and of the one that calls `Stop`. `done` is the context of
`signal.NotifyContext`, `notified` whether signals still go to it: `cancel` ends both, so
that a signal during `Drain` kills the process, and one before `NotifyContext` too. The
timers of `Stop` (its argument's and its own) and of main are one flag, `late`, which may
be set as soon as one of them runs; what they are set to is left out. A request
that is active when the process exits is `"cut"`. `why` is a history variable.

*FileCopy.* A file is the sequence of its units, each a fixed number of bytes, so
that a chunk is `Chunk` units; the source's units are distinct, which shows
repeated and skipped ones. `Open` stands for `Open` and `Seek`, `CopyChunk` for one round of
the loop; `SystemCallFails` and `CopyFails` are the failures of each call. `from` and `to`
may name one file. The bar's arithmetic is exact in the model; the float of the code
may show a character less.

*The sequential functions.* A loop is a state machine, with one action for each round:
`AfterEmpty`, `AfterSlash`, `AfterRune` and `AfterDigit` are a round of `Unpack`'s automaton in each
of its states, `CountUser` is one of `GetDomainStat`'s loop and `CountLast` what follows it, `ReadEntry`
one of `ReadDir`, `UpdateVariable` one of `getUpdatedEnvironment`, and `CountWord`, `GroupWord` and
`RankNext` are one of each loop of `Top10`. Local variables are variables of the module. The range over a map comes to its keys in
any order. `Validate` calls itself: `errs` is a stack of the errors of each call that has not returned,
`CallValidate` pushes and `ValidateReturns` pops; `SkipStruct`, `SkipField` and `FieldDone` end a round of its
loop, and `ApplyMethod` is one of `ProcessField`'s. A struct is the sequence of its fields, those of nested structs
in place and one `level` deeper, so that one index is enough for all calls. Characters are
classes (letter, blank, backslash, ...), a word is its place in the order, a user is what
the parser makes of his line. Each module ends with what the function promises, said
another way: `Unpacked` and `Meaningful` by positions instead of states, `Stops` by the first line that
stops the loop, `Documented` by
what the README of hw08 says of a file, `Reported` field
by field, where `Asks` says of a field by those around it whether it is looked at, `TopIsRanking` by pairs of words.

## Runs

TLC checks these with the bounds of the `.cfg` of the same name.

| Run | Module | Shows | Bounds, and why they are enough |
|---|---|---|---|
| `run_promise` | `ParallelRun` | the inductive invariant `IInv` (`TypeOK`, `HeldOnce`, `Shutdown`, `Accounting`), `ResultHonest`, `TaskLimit`; implements `BoundedRun`; `Terminates` | 2 workers, 6 tasks, limit 2: more tasks than n + m, so that the limit binds; both workers can hold a result when it is reached; all tasks can succeed, so that nil is returned too |
| `sequential` | `MCSequential` | `Linked`; `UnpackMeans`, `StatCounts`, `EnvdirPromised`, `ValidateReports`, `TopIsRanking`; of `FileCopy`: `CopyInv` (types, `Progress`, `TargetIsPiece`), `NilMeansCopied`, `BarFits`, `RefusedIsUntouched`, `CopyReturns` | list: 4 items, both ends and two in the middle; strings of up to 6 of 5 classes of runes; up to 4 lines of 6 kinds with 3 endings; up to 3 directory entries, contents of up to 3 characters; one field with up to 2 of 15 validators, or 3 fields and structs nested twice; texts of up to 6 of 4 words with a limit of 2; files of up to 5 units in chunks of 2: two full chunks and a short one, every offset and limit from -1 to 5, a bar of 4 characters. Every state of a loop meets every next input and every end; the list, the copy and all five functions are proved for inputs of any length |
| `lru` | `LRUCache` | `CacheIsRecencyPrefix`, `Inv` (types, `MutexHeld`, `InStep`, `Holds`, `NeverOverCapacity`), linearizability (`RefinesLRU`), `CallsReturn` | 2 goroutines, capacity 2 with 3 keys (every order of recency, and an eviction), capacity 0 (the panic); 2 values tell a stale one |
| `pipeline` | `Pipeline` | `Inv` (types, `InOrder`, `Gapless`, `EndsInTurn`), `RefinesStream`, `HeadStops`, `NoLeak` | 3 stages, 5 inputs: one more than the four relays can hold |
| `telnet_client` | `TelnetClient` | `Inv` (types, `WireAccounted`, `ReaderEnds`, `OutIsPrefix`, `ReaderStops`), `NilMeansAllLines`, `NilMeansAllOut`, `CloseReturns`, `PeerEndsReceive` | 2 lines (two writers at once), 1 message |
| `telnet_program` | `TelnetMain` | `OutIsPrefix`, `PanicIsFailure`, `ExitIsAfterClose`, `ErrorEndsProgram` | 1 line, 2 messages: a writer that fails at any moment, messages that could change places |
| `storage` | `CalendarStorage` | in memory: `Inv` (types, `WritersExclude`, `ListedSoFar`), `ListIsRegular`; SQL: `ConflictHasCause`, with the types and `RowHasCause` it follows from; both: `EveryCallReturns` | 2 callers, the storage's own id and another, 1 title: an event is there or not (more titles: see the proofs). Two callers make a refusal, a retry after a timeout and a `ModifyEvent` in between |
| `calendar` | `CalendarServer` | `Inv` (types, `Phases`, `Settled`, `StatusIsHonest`), `FailureDrains`, `EndsWhenAsked` | 2 requests: one can be done while the other is in flight; any number of signals |
| `telnet_ctrl_d` | `TelnetMain` | the program hangs after Ctrl+D (`CtrlDEnds`) | counterexample |
| `telnet_close` | `TelnetClient` | `Receive` may return an error after `Close` (`CloseIsClean`) | counterexample |
| `calendar_add` | `CalendarStorage` | `AddEvent` replaces the event added before or is refused because of it (`AddKeepsEvents`) | counterexample |
| `envdir_empty` | `MCSequential` | an empty file does not remove its variable (`EmptyFileRemoves`) | counterexample |

What a passing run shows leaves these cases open and does not depend on them.
`EnvdirPromised` compares what the command sees with the README of hw08 (`Documented`), but only for
files with content and without blanks at the end of their line (`Agreed`); `EmptyFileRemoves` is about
the empty ones, and that blanks stay is said below. `ConflictHasCause` says why an event may be refused: it
would hold with a delete that works, and of unique ids there would be no refusal at all.
`WireAccounted` counts the lines on the wire and says nothing of their order, `NilMeansAllOut` is about
the orderly end of the peer's stream, and `NilMeansCopied` takes the loss of a file copied onto itself
as given.

The runs leave deadlock checking off because the modelled programs end,
by design or, in two places, by hanging; the liveness properties say where they may not.

### Fairness

Weak fairness of a goroutine's actions: the Go scheduler runs every goroutine that can
run. Strong fairness of `Lock`: `sync.Mutex` hands the lock to a waiter that has
been starved for a millisecond. Not fair are what the environment may leave
undone: a line typed, a message or a farewell of the peer, a call of `Close`, an
interrupt, an answer of the database. In `Pipeline`, where stages do not watch `done`,
only the relay of `ExecutePipeline` is fair: producer and stages may stall.
In `SQLStorage` the only fair action is the context's timer: the driver is assumed to return
when the context of the statement ends, which is all that `EveryCallReturns` says of the SQL storage. In `CalendarServer` the three
goroutines and the clock are fair; clients and signals may stay out, and no request
need ever be finished. In `FileCopy` the steps of `Copy` are fair: a call of the system
returns. The source stops growing at `MaxSize`, as every file does some day.

### What the code does otherwise than its documents say

Where a run shows it, its name is in brackets.

* `main.go:65` (hw11): at the end of the input `Send` returns nil, main waits in
  `wg.Wait` and nobody receives the other result: the program hangs, where
  `README.md:18` says it ends [`telnet_ctrl_d`]. The same happens after an interrupt, where
  `README.md:19` says the same.
* `telnet.go:161`: after `Close`, the read error that `Close` causes and the stop are
  both ready, and the select picks one; `telnet_test.go:104-106` expects no error
  [`telnet_close`].
* `memory/storage.go:33`: all events get the one id made by `New`, so the second
  `AddEvent` replaces the first event; `docs/CALENDAR.MD:44` calls the id unique.
  In the SQL storage (`sql/storage.go:49, 85`) the second `AddEvent` is refused for the same
  reason [`calendar_add`]; the counterexample is of this one, and the property guards both.
* `sql/storage.go:154`: `rows.Close` is deferred before the query's error is looked
  at, and panics on nil, where `storage_errors.go:74` has an error for it (`Timeout` in
  `SQLStorage`).
* `telnet.go:117`: lines can change places on the wire, where `test.sh:23-26` expects them in
  order (any `Writer` of `TelnetSend` may be the next to write), and a writer that fails after `Send` returned panics on a closed channel
  (line 119).
* `run.go:84`: without tasks `Run` never returns. `run.go:50`: the sender calls
  `wg.Done` before it closes `tasksChan`, so that for an instant it outlives `Run`.
* `cache.go:47`: a `Set` on a cache of capacity 0 panics.
* `memory/storage.go:62,75`: reads without the mutex, a data race
  (`docs/12_README.md:65`).
* `sql/storage.go:115`: the placeholder of `DeleteEvent`'s statement is one that
  `ExecContext` does not bind, so it always fails, where `docs/CALENDAR.MD:62` and
  `docs/12_README.md:55` list deletion (`Delete` in `SQLStorage`). `sql/storage.go:162`: a listing cut off by
  its timeout is returned as if it were complete.
* `main.go:91` (hw12): after a signal `Start` returns nil and main returns without
  waiting for `Stop`, so that requests in flight are cut; the waiting of lines 94-100 is
  reached only by a failure (`Leave` and `Drain` in `CalendarServer`). `sql/storage.go:78`
  closes the database a second time.
* `copy.go:72` (hw07): copying a file onto itself empties it and returns nil.
* `unpack.go:59` (hw02): a backslash before a letter is kept, where `README.md:25`
  calls `qw\ne` invalid.
* `env_reader.go:66` (hw08): a variable whose file is empty is set to the empty string,
  where `README.md:10` says it is removed, `test.sh:8` calls it `SHOULD_REMOVE` and the comment at
  `env_reader.go:17` tells it from an empty line [`envdir_empty`]; blanks at the end of a value stay, where
  `README.md:9` says they are removed. `env_reader.go:32`: the working directory becomes the one
  of the variables, also for the command.
* `process.go:57` (hw09): slices are skipped, where `README.md` of hw09 asks for each element to be
  validated. Unexported fields that are no structs are validated.
* `stats.go:29` (hw10): a blank line, or one cut short, ends the counting without an error;
  `stats.go:47`: an email with the suffix but without "@" panics.

## Proofs

TLAPS proves these for all values of the constants.

*`ParallelRun_proofs`*: for any finite set of workers, any number of tasks and any
integer limit (so also for `m <= 0`, where errors are ignored):
`TypeCorrect`, `HeldOnceCorrect`, `ShutdownCorrect`, `AccountingCorrect`, together
`Inductive`, and from them `ResultIsHonest` and `TaskLimitHolds`. Neither of the last two is inductive.
What Run returns is a matter of three places it passes through (the receiver's state,
`resChan`, `ret`), and of counters that count results handed over while the claim is
about tasks called. The inductive invariant is therefore

    IInv == TypeOK /\ HeldOnce /\ Shutdown /\ Accounting

`HeldOnce` says which worker holds which task and that outcomes belong to calls that
are over; `Shutdown` in what order verdict, stop and return follow each other;
`Accounting` that `errCounter` is the number of failed tasks among the delivered ones
and `doneTasks` that of the delivered ones, less the last when the limit was hit,
because the loop returns before it counts it. Each of the four is proved to be
preserved by every action, in this order, each using those before it.
`ResultIsHonest` then follows because a failed task that was delivered has failed, and
because all tasks delivered means all called. `TaskLimitHolds` follows because the tasks
begun are those delivered and those held by a worker (`DeliveredSplit`), at most one
each, and because among the delivered ones fewer than `m` failed, or `m` exactly.
`Implements` maps every step of Run to one of `BoundedRun` or to none: `SendTask` begins a call,
which is allowed because the worker that takes it is free (`RoomToRun`) and `TaskLimit` holds
after the step; `RunTask` ends one; `Return` returns, with a result that is honest and no call
in progress.
The cardinalities need the lemmas at the head of the module.
Assumptions: `RunAssumption` (the workers are a finite set; T a natural number, M an integer).

*`LRUCache_proofs`, the list*: `AlwaysLinked`, for any set of items, finite or not: after any
calls the contract allows, length, ends and all links are those of the sequence the
calls made. One lemma per method of `list.go` states its effect on `Represents`, by
cases of where the item was. `Represents` is inductive by itself because it gives every
link of every item that is in the list, and says that no item is there twice.
Assumption: `NilAssumption` (nil is no item).

*`LRUCache_proofs`, the cache*: `InvHolds`, `CacheIsRecencyPrefixHolds` and `Implements` (the cache is
linearizable), for any set of goroutines, keys and values, a heap that is large enough and every capacity.
`CacheIsRecencyPrefix` speaks of the cache between calls; in the middle of one the list and
the map may be one key apart. The inductive invariant says by how much:

    TypeOK /\ MutexHeld /\ InStep /\ Distinct(used) /\ Holds(Kept)

`MutexHeld`: only the holder of `mu` is inside a call. `InStep`: what the branches taken so far
tell about the call, so that, for one, `Evict` finds the list full. `Holds(n)`: the list
`Represents` the items of the first `n` keys of `used`, and the map holds those keys and no other;
`Kept` is the capacity, or one less between `Evict` and `Insert`. `NeverOverCapacity` follows.
The effect of `PushFront`, `Remove` and `MoveToFront` is cited from the lemmas about the list;
`TouchedElements` says what touching a key makes of `used`. For `Implements`, the step a call
takes effect in is `LRUSpec`'s, and every other step of it stutters. Assumptions: `CacheAssumption` and
`HeapAssumption` (a finite heap has an item for each key that a cache may hold: memory
does not run out).

*`Pipeline_proofs`*: `InvHolds` and `Implements` (the consumer sees an `OrderedStream`), for any
number of stages and inputs and either kind of stage. What the stream promises is that the next
value delivered is the successor of the last; that is a matter of the whole chain.
`Gapless` therefore places producer, relays and consumer on one line: values decrease along it,
and two neighbours differ by one unless a relay that saw `done` lies between. `InOrder`
follows from it (`OrderFollows`). `EndsInTurn` is what makes an end without `done` the end of the
stream: goroutines end from the producer on. Assumption: `PipelineAssumption`.

*`Telnet_proofs`*: `ClientInvHolds`, `NilMeansAllLinesHolds`, `NilMeansAllOutHolds` of
`TelnetClient`, and `OutIsPrefixHolds`, `PanicIsFailureHolds`, `ExitIsAfterCloseHolds` of
`TelnetMain`, for any numbers of lines and messages. `SendInv` and `ReceiveInv` are proved once, of
each direction by itself. A direction is disturbed by the other only through the connection, and
all that others can do to it is in `ConnMoves`: it does not come back, and a stop is for ever
(`SendUndisturbed`, `ReceiveUndisturbed`). `NilMeansAllLines` needs `ReaderEnds` (a worker that
ended while `Send` selects has come to the end of the input) and `WireAccounted`;
`NilMeansAllOut` needs `ReaderStops` and `OutIsPrefix`. The program adds that what main heard stays
true: a direction that has returned does not change its result (`SendResultStays`,
`ReceiveResultStays`). `PanicIsFailure` looks back from a process that is gone to what brought it there. It
needs three facts that hold before: main leaves only on an error (`ExitIsAfterClose`), a
write fails only on a connection that has ended, which our own `Close` does last (`ConnIsLost`), and a line on
the wire has a writer that is done (`WireAccounted`). Assumptions: `LinesAssumption`, `MsgsAssumption`.

*`CalendarStorage_proofs`*: `StorageInv`, `ListIsRegularHolds` and `ConflictHasCauseHolds`,
for any goroutines, ids and titles, so also for the two titles the run leaves out.
For the map, `WritersExclude` is inductive beside `TypeOK`. `ListIsRegular` speaks of a listing
that is over and is not; `ListedSoFar` says the same of every id the iteration has come
to, and that the present value of each id is among those it has had, which is
what lets `ListNext` list it. For the table, `ConflictHasCause` speaks of what a caller was told,
while the database has decided before, and the row it found may be that of a call that was
told of a timeout since. `RowHasCause` therefore follows the row: from the moment it is there, an
answer "ok" is on its way to an `AddEvent` or was returned to one, as nil or as a timeout.
A step of the composition is a step of one of the two or of none (`StorageStep`).
Assumption: `IdAssumption` (the storage's id is an id; the value for "no event" is neither a title
nor a goroutine).

*`CalendarServer_proofs`*: `InvHolds` and `FailureDrainsHolds`, for any set of requests.
`StatusIsHonest` is about the end; `Phases` ties the three goroutines to each other on the way
there (`Start`'s goroutine is there once main has called it, the context is done before it
returned only after a signal, only `Shutdown` closes the listener), and `Settled` keeps what
`FailureDrains` needs: once a failed server was told of, `Stop` has returned only when no
request was active or the time was over. No assumption.

*`FileCopy_proofs`*: `CopyInvHolds`, `NilMeansCopiedHolds`, `RefusedIsUntouchedHolds` (an
action property) and `BarFitsHolds`, for any size, chunk, offset and limit and any growth of the
source. `TargetIsPiece` says that the target is a beginning of a piece whose end moves as
the source grows; `Progress` says which one: what lies between the offset and the position, with
position and counter in step until a call fails. `Inductive` proves `TypeOK /\ Progress`.
The lemmas at the head of the module are about adjacent pieces of a sequence.
Assumption: `CopyAssumption`; the bar needs a width of 2 or more (the code's is 20), since at 1 its only
character stands for all and nothing alike.

*`Sequential_proofs`*: `UnpackMeansHolds`, `StatCountsHolds`, `EnvdirPromisedHolds`,
`TopIsRankingHolds` and `ValidateReportsHolds`, for inputs of any length. What each says holds where the function returns and says nothing
before; its loop invariant says what the part of the input read so far has made of
the local variables.

* `UnpackInv`: in each state of the automaton, `built` is what the runes read so far stand for, less
  the one that is still in `previousChar`, and every count read so far had a symbol before it (`StateMeans`).
  The automaton knows by its state whether a rune is escaped; the meaning of the string says it by the length of a
  run of backslashes. `EscapedNext` is the step between them: a rune is escaped when a backslash stands before it that
  is not. What `FlattenSeq` makes of a sequence with one more element is proved from its
  recursion (`FlattenNext`), of which first has to be shown that it defines something (`FlattensExists`).
* `StatInv`: `domainStat` holds the counts of the lines before the present one, of which none stops the
  loop (`StatCounted`). `GetUserFacts` lists the ways in which a call of `getUser` can end.
* `EnvInv`: every variable in `additionalEnvs` is that of a file among the entries read, and every file read is there
  (`ReadSoFar`); a value holds no zero byte, which `Setenv` would refuse, because `Value` replaces it,
  and is the documented one where the content is `Agreed` (`ValueDocumented`); while the names are visited, the environment differs from the inherited one in the visited ones. That an error can no longer come after the
  directory is read is why the command runs if and only if nothing is wrong.
* `TopInv`: the counts are those of the fields read; each group holds the words of its number that the range
  has come to (`Grouped`); the result so far ranks the words of the numbers taken, all of which are
  greater than those left (`Ranked`).
* `ValidateInv`: the errors of all open calls, one behind the other, are those of the fields that are done, in
  order, and none of these had a validator that could not be applied (`Walked`); inside `ProcessField` the same holds of the
  validators applied (`InField`). That a field is looked at if and only if all structs around it ask for it
  (`AsksHere`) follows from the part of `Walked` about the structs that have been entered. Pushing, popping and
  appending leave the flattened stack as it should be (`PushFlattens`, `PopFlattens`, `AppendedFlattens`), and what is
  skipped adds nothing to it (`ReportedSame`). `OutcomeMeans` compares the methods with `NoVerdict` and `Satisfies`.

Where an induction is needed, for the existence of a least number or the recursion of `FlattenSeq`, it is the least
counterexample that is refuted (`LeastExists`), since the library's induction theorems cannot be used.
Assumptions: `RuneAssumption` (the backslash is no digit), `DomainAssumption` (a domain is not called as one of the other kinds of
line), `EnvAssumption` (the three special characters are characters, zero is no newline, and the bad name is no
variable's), `TopAssumption` (words are numbered, the empty one is none of them, the limit is positive),
`JunkAssumption` (the value for an argument that does not parse is no integer).

Every safety property that a passing run checks is a theorem, and the
three refinements are proved. Only model-checked is all liveness (`Terminates`, `CallsReturn`, `HeadStops`, `NoLeak`, `CloseReturns`,
`PeerEndsReceive`, `ErrorEndsProgram`, `EveryCallReturns`, `EndsWhenAsked`, `CopyReturns`), since fairness and ENABLED are beyond
the prover.

## Not modelled

Formats, texts of errors, logging, the contents of the configuration, generated code
(easyjson, mocks), durations, the size of read buffers. Memory that is shared by pointers handed out by
the in-memory storage. The calls of the storage from the server: there are none yet
(`App.CreateEvent` is a stub). A list item that is passed to the list again after its
removal, which the contract rules out. A negative cache capacity. A source that shrinks
while it is copied, or that has no end. The regular expression that cuts a word out of a
field (hw03). An argument of `Validate` that is no struct, which it refuses at once. Strings that are no UTF-8, and words and regular expressions character by
character. Arguments of the command line but those of `envdir` and `Copy`.

## Plan

1. *(done)* Concurrent core: hw05, hw04, hw06, hw11, the two storages of hw12; proofs for hw05,
   the list and the in-memory storage.
2. *(done)* `CalendarServer`, `CalendarStorage`, `FileCopy`.
3. *(done)* One module per pure algorithm, with a reference definition: `Unpack`, `DomainStat`,
   `EnvDir`, `Validator`, `TopWords`.
4. *(done)* Proofs: every safety property and every refinement of the modules with a state.
5. *(done)* The loops of `GetDomainStat`, `Top10`, `Unpack`, envdir and `Validate` as state machines, one action
   per round, and their correctness for every input as theorems.
6. Shorter forms of the longest proofs (`InsertKeeps`, `TouchKeeps` in `LRUCache_proofs`).
