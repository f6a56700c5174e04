# A verification of lom

lom is a C++ library: cooperative fibers with their own scheduler, semaphores
and non-blocking sockets on top of epoll (`src/fiber`), buffered I/O
(`src/io`), immutable containers, an LRU cache, slices, strings, a codec for
integers and small helpers. This directory holds TLA+ models of its stateful
parts, the configurations that check them with TLC, and theorems proved with
TLAPS. Paths below are those of the repository.

## 1. Inventory

| Component | State | Operations | What makes it hard |
|---|---|---|---|
| Scheduler `src/fiber/sched.cpp`, `internal.h` | `curr_fiber`, `ready_fibers`, `expire_waiting_fibers`, `io_waiting_fibers`, `sem_infos`, the epoll set | `SwitchToSchedFiber`, `Yield`, `SleepMS`, `RegRawFdToSched`, `UnregRawFdFromSched`, `RegSemToSched`, `UnregSemFromSched`, `TryAcquireSem`, `RestoreAcquiringSem`, `ReleaseSem`, the loop `Run` | a fiber waits for a time, fds and semaphores at once and sits in all their queues; fibers of one batch wake and unregister what later ones wait for; the time out of `epoll_wait` |
| Fiber life cycle `src/fiber/fiber.cpp` | `seq_`, `waiting_evs_`, the stack | `Create`, `Start`, `SwitchTo`, `Destroy` | created by a fiber or by main; destroyed while its siblings are in a batch |
| Semaphore `src/fiber/sem.cpp` | the locals of every `Acquire` | `New`, `Acquire`, `Release`, `Destroy` | acquires in portions over several parks; time out after a partial acquisition; destruction under a parked `Acquire` |
| Fd handles `src/fiber/fd.cpp` | `FdSeq` of every fd | `Reg`, `Unreg`, `Valid`, `Close` | handles are copies and outlive the fd; the kernel gives numbers out again |
| Connections `src/fiber/conn.cpp` | the locals of every call | `Read`, `Write`, `WriteAll`, `FromRawFd`, `ConnectStreamSock` | edge-triggered events; another fiber closes the fd of a parked call; a connect that is done and too late |
| Listeners `src/fiber/listener.cpp` | the same | `Accept`, `FromRawFd`, `ListenStream` | a fd that was opened must be handed out or closed |
| Buffered I/O `src/io/buf_io.cpp` | `start_`, `len_`, the buffer | `Read`, `ReadFull`, `ReadUntil`, `WriteAll`, `Flush` | a ring that wraps, partial writes, short reads, failures half way |
| LRU cache `include/lom/lru_cache.h` | the list, the map, `sz_` | `Get`, `Put`, `Erase` | two structures that name each other; sizes |
| Immutable containers `include/lom/immut` | trees whose nodes versions share | `Get`, `GetByIdx`, `AddByIdx`, `SetByIdx`, `DelByIdx`, `Build` | rotations, structural sharing, indices |
| Integer codec `src/var_int.cpp` | - | `Encode`, `Decode`, `LoadFrom`, and their unsigned forms | limits of the forms for either sign, in three functions that must agree |
| Memory `include/lom/mem.h` | `rc_` of every object, `p_` of every pointer | construction, assignment, `Reset`, destruction of `RCPtr` | threads count at once; a deletion counts on; the assigned pointer may be in the object that goes |
| Slices `include/lom/go_slice.h`, `iter.h` | arrays that slices share | `Append...`, `Slice`, `At`, `Copy`, `CopyFrom`, `Map`, `Reverse`, iterators | an append in place, whose source overlaps its target |
| Strings `include/lom/str.h`, `src/str.cpp` | short or shared long storage of `Str`, the block of a `Buf` | assign, move, `FitLen`, `Write`, `Append`; and the functions of `StrSlice`: `Split`, `Join`, `Replace`, `Trim`, parsers and the rest | slices of the very string that is assigned; blocks that change owners; the flag that 0 follows |
| Errors `src/err.cpp` | the thread's `err`, and those that protectors save | `SetErr`, `PushErrBT`, `ErrProtector` | shared arrays, protectors of several fibers |
| Token bucket `src/token_bucket.cpp` | `curr_value_`, `last_time_`, speed and capacity | `Reset`, `TryCost` | a wall clock that is set back, debt |
| Random numbers, primes, time, utilities | small | - | not modelled, see section 8 |

How they interact. One thread runs everything. A fiber calls an operation of
`conn.cpp`, `listener.cpp` or `sem.cpp`; where it would block, the operation
registers the fiber's waiting events and jumps to the scheduler
(`SwitchToSchedFiber`), and goes on when the loop `Run` jumps back. `Run` takes
the ready fibers as a batch, resumes each, wakes those whose time is over, and
waits in `epoll_wait`. `Close`, `Unreg`, `Destroy` and `Release` wake other
fibers by making them ready. A `BufReader` or `BufWriter` calls a `Conn`'s
`Read` or `Write`, and so may park in the middle of its own operation. The
fibers know no thread beside this one (the sequence counters are atomic, but all
tables are `thread_local` or belong to the thread); their interleavings are those of the
fibers, the clock and the kernel. Only the counts of `RCPtr` are atomic so that
threads may share objects. The containers build on `RCPtr`, the last error on a
`GoSlice` of strings, `Split` returns one, and the parsers report by `SetErr`.

Correctness, component by component:

- Scheduler: a live fiber is in exactly one place; queues and waiting events
  name each other; no wake-up without a cause; no sleep past work to do; ready
  fibers run and timers fire.
- Semaphore: value neither appears nor vanishes; a failed `Acquire` takes
  nothing; the acquirer is served first; a time out or a destruction ends the call.
- Fds, connections, listeners: a handle is never valid for another socket; an
  operation acts only on the socket it was called on; no edge is lost; no fd
  leaks; a connect returns established connections only.
- Buffers: bytes pass in order, each once; results are those that the header names.
- Containers: the two structures of the cache agree, and the least recently used
  go first; trees stay balanced, old versions stay as they were, and indices,
  keys and values are where they should be.
- Codec: what is encoded is decoded, and every number has one encoding.
- Pointers: a count is the number of pointers, and an object lives as long as it has one.
- Slices, errors: an append gives the one list and then the other, whatever
  shares the array; the error trace is what was reported.
- Strings: a `Str` keeps its text, each block has its owners; functions that
  undo each other do, and whole numbers are parsed and nothing else.
- Token bucket: no window of time gets more than the rate, however the clock is set.

## 2. Modules

| Module | Models | Uses |
|---|---|---|
| `Sched` | scheduler and fiber life cycle, for any program of the fibers | - |
| `Sem` | `sem.cpp`, each `Acquire` cut at the clock and at its parks | extends `Sched` |
| `AbsSem` | what a semaphore promises: `Acquire` is one step | instantiated by `Sem` |
| `Net` | `fd.cpp`, `conn.cpp`, `listener.cpp`, and the kernel's sockets | extends `Sched` |
| `BufWriter`, `BufReader` | the two classes of `buf_io.cpp` | - |
| `Pipe` | a writer and a reader at the ends of one stream | extends both |
| `LRUCache` | `lru_cache.h` | - |
| `AVL` | `avl_util.h`, `avl.h`, and map and list of `avl_ds.h` | - |
| `VarInt` | `var_int.cpp` | - |
| `RCPtr` | `mem.h`, under several threads | - |
| `SliceOps` | the operations of `go_slice.h`, as operators on a heap of arrays | - |
| `GoSlice` | a program of slice variables | extends `SliceOps` |
| `Err` | `err.cpp` | extends `SliceOps` |
| `Str` | storage of `Str` and `Str::Buf` | - |
| `StrFns` | the functions of `StrSlice`, and `FromInt64` | - |
| `TokenBucket` | `token_bucket.cpp` | - |
| `MCSched`, `MCSem`, `MCNet`, `MCData` | instances for TLC | |
| `SchedProofs`, `NetProofs` | theorems about the module of that name, and their proofs | extend it |
| `CountProofs` | theorems about `Sem` and `RCPtr` | extends them and `SchedProofs` |
| `LimitProofs` | theorems about `LRUCache`, `TokenBucket`, `VarInt`, `BufWriter`, `BufReader` and `Pipe` | extends them and `DataLemmas` |
| `AVLProofs` | theorems about `AVL` | extends it and `DataLemmas` |
| `MemoryProofs` | theorems about `SliceOps`, `Err`, `GoSlice` and `Str` | extends them and `DataLemmas` |
| `StrFnsProofs` | theorems about `StrFns` | extends it and `DataLemmas` |
| `DataLemmas` | lemmas about sequences, folds, sums and induction on numbers | |

Definitions whose names start with `Bad` are mistakes on purpose: a dropped
guard, a queue that is not emptied, a missing copy. No specification uses them.
Put in the place of the definition after them they make a property fail, which
shows that the property can tell the code from a buggy variant of it.

### Sched

State follows the globals of `sched.cpp` one to one: `ready`, `expireQ`, `ioQ`,
`sems` are its four tables, `evs` the `waiting_evs_` of all fibers, `curr` is
`curr_fiber`. `batch` and `phase` are the program counter of `Run`, `interest`
and `pending` the kernel's epoll set and its unreported events. Registration
may find an edge already there: the kernel reports the state of an fd as it is added.
Each operation of the file is one action, with its `WakeUpFibers` (operators
`...AfterWake`); `Run` is the sequence `TakeReady`, `Resume`, `CheckExpiring`,
`EnterWait`, and one of `WaitReturns`, `WaitTimedOut`, `WaitInterrupted`,
`WaitFailed`. `PollTimeout` keeps the conversion of the time out to an `int`.
A running fiber may call any operation in any order, as the callers in
`src/fiber` do; modules `Sem` and `Net` restrict this to the real callers.

### Sem and AbsSem

`frame[f]` holds the locals of the `Acquire` that fiber `f` is in: what it
still wants, what it has, when it gives up, and where it is. `AcquireStart`,
`AcquireTry`, `AcquireTimeout`, `AcquirePark` and `AcquireWoken` are the pieces
between two readings of the clock or jumps. `AbsSem` grants an `Acquire` all or
nothing in one step. The refinement maps `free` to `value + acqValue`: what an
unfinished acquirer has in hand still counts as free.

### Net

`sock` is the kernel's side of an fd: what kind of socket, how much there is to
read or accept, how much room to write, whether the peer has hung up, and a
generation that tells the sockets with the same number apart. `fdSeq` is the
array of `FdSeq`, `handles` the set of `Conn` and `Listener` objects that user
code may still have: it keeps old copies. `frame[f]` holds the blocking call of
a fiber; `IoStart`, `ReadTry`, `WriteTry`, `AcceptTry`, `IoTimeout`, `IoPark`,
`IoResumed` and the `Connect...` actions are the macro
`LOM_FIBER_CONN_ON_IO_SYS_CALL_ERR` and the code around it. Payloads are counts.
`Accept`, `ListenStream` and `ConnectStreamSock` open a socket in several steps that can each
fail, and give it back by `SilentClose`: a call that does so between two parks is one
action, and leaves behind that the kernel gave the fd out once more. A connect ends in its
first step as `ConnectNoSocket` (no address, no socket), `ConnectGivesUp` (`ioctl`,
`connect` or the registration failed) or `ConnectedAtOnce`, or it parks
(`ConnectPending`), and then fails with `Close` or succeeds. Which system call failed
does not matter; the fd of a listener or a connection that the user opened stays
the user's when `FromRawFd` fails.

### BufWriter, BufReader, Pipe

A byte is its number in the stream, so that order, loss and duplication show.
Calls are cut at `do_write_` and `do_read_`, where a fiber may park. `Pipe` puts
what the writer has sent before the reader and adds the end of the stream.

### LRUCache

`l`, `m`, `sz` are `l_`, `m_`, `sz_`; a list iterator is the number of a list
node. `uses` is a history variable: the keys by their last use. An operation is
one step.

### AVL

A tree is a value of nested records. `own` marks the nodes that the operation
in progress has made: `Assign`, a write to a field, clears `ok` when it hits a
node that is not its own, that is, one an older version shares; a failed
assertion clears it too. `Publish` ends an operation. `mapRef` and `listRef` are
history variables with what map and list must hold. `AVLSet` is a map with one
value. `h_` and the 40-bit size do not reach their limits here: with 2^40 nodes
a tree is less than 60 high.

### VarInt

A number is the sequence of its 8 bytes, so that all of 64 bits are there
although TLC's integers have 32. `Encode` and `EncodeUInt` follow the tests of
the code; the branches of the decoders are the records of `UIntForms` and
`NegForms`, and `RemainLen` is the third table, of `LoadEncodedFrom`. Numbers are
put on a stream and loaded from it; `Meet` puts any other bytes there.

### RCPtr

`p`, `rc` and `heap` are the pointers, the counts and what is allocated. An
assignment is cut at each change of a count: `AssignNew`, `AssignRaw`,
`AssignPtr` or `Reset` counts the new object, `DropOld` gives the old one back,
`DestroyMember` and `Free` are the destructors that may follow, and `Store`
writes `p_`. `released` holds the pointers whose count has been given back and
whose `p_` is still there. The source of `AssignPtr` is a reference, read again
by `Store`: in freed memory that gives anything. A thread uses its own variables
and the members of the objects they point to, and no pointer that another
thread is assigning, since `RCPtr` itself is not atomic. `Careful` says that
callers assign from a member only while they hold its object by another pointer.

### SliceOps, GoSlice, Err

A slice is an array, a start and a length; an operator gives the heap and the
slice that the operation leaves. `GoSlice` assigns results to variables, and an
array goes with the last of them. The code does not look at elements, so at
most one at a time differs from `T()`. `Err` holds `err`, `errno` and what the
protectors hold, `ErrText` is what `Err()` joins, and `trace` and `lastErrno` are history
variables with what was reported and what the last failing call gave.

### Str, StrFns

`Str` keeps the blocks with the counts of the `shared_ptr`s; a `StrSlice` is
looked up in the memory at the moment that the code copies from it. Bytes that
nobody wrote are `Junk`. `value` is a history variable. `StrFns` takes a slice of every
text over a small alphabet with every start and length, known or not known to
end with 0, and a second text. Loops are recursive functions over places of the text. `IntMax` is
the greatest `int64_t`; the run takes that of 8 bits, 127, the proofs any that is not less.
The C library's functions are modelled for the C locale.

### TokenBucket

Doubles become integers of a small unit: rounding is left out, and so is a NaN
as the cost. The clock is set to any value at any time. `since`, `granted` and
`shown` are history variables: a window that begins with any call, what it has
granted, and the latest time that was read.

## 3. Runs

| Run | Instance | Shows |
|---|---|---|
| `sched` | 2 fibers, 1 fd, 1 semaphore, clock 0..2 | placement, queues, bounds, no oversleep, no wake-up without a cause; ready fibers run, timers fire |
| `sched_far` | ints of -2..1 | finding: a far timer makes `Run` block with a ready fiber |
| `sem` | 3 fibers, 1 semaphore, values to 2, with and without time outs | the books of partial acquisitions, assertions, precedence, refinement of `AbsSem`; with fair scheduling timed and closed `Acquire`s return and the acquirer is served |
| `sem_stale` | 2 fibers | finding: an acquirer that is not acquiring |
| `sem_lost` | 3 fibers, fair | finding: a waiter is not woken for what is left over |
| `net` | 2 fibers and 1 fd that is opened twice and registered twice, or 2 fds once each; one event per `epoll_wait` | no lost edge, also with more events than places; no wake-up for the wrong way of input or output; handles, sockets, connects; no leaked fd, whichever step of accept, listen or connect fails |
| `net_live` | 2 fibers, 1 fd, writes of 2, fair | timed and closed calls return, ready fds are served |
| `net_err` | 1 fiber | finding: a connect leaves `*err_code` unset |
| `data` | pipe: rings of 3 and 2, 6 bytes; cache: 4 keys, size 4; map: 6 keys, 2 values; list: up to 13 elements; codec: 80 numbers, streams of 2, some 6000 other strings | the properties of buffers, cache, map, list and codec |
| | pointers: 2 threads, 2 objects with a member each; slices: 2 variables, capacity 3; error: 2 protectors, a trace of 4; strings: 2 `Str`, a `Buf`, length 2; functions: texts to length 3 of 6 bytes, 9 arguments, all numbers of 8 bits; bucket: times 0..3 | the properties of pointers, slices, errors, strings and buckets |
| `avl_negative` | 3 keys | finding: a negative index reaches a null pointer |
| `err_front` | 1 message, 1 position | finding: a position goes behind the error and not in front of it |
| `rc_assign` | 2 threads, 2 objects, callers not careful | finding: an assignment reads its source in an object it has deleted |

The parts in `data` have nothing in common. `MCData` puts them in one run: a
variable `part` says at the start which of them moves, and the others stay as
they are, so the states of the parts add up and do not multiply.

Deadlock is checked in every run. The clock goes on to `MaxTime`, and later
there is always a poll that returns or a call to make.

### Bounds

- Two fibers give every race between a parked call and one other actor: closer,
  releaser, timer, sibling in a batch. Precedence among semaphore users needs a
  third (`sem`, `sem_lost`).
- `MaxSem = 1`: semaphores share nothing but the queues, and a fiber waits for
  one at a time. Values up to 2 allow a partial acquisition and an overflow.
- One fd that can be opened twice is the case of a stale handle; a second fd
  comes in where `Accept` needs it. `MCNetInit` starts with either: what the kernel
  gives out no more is an fd that has been opened and closed as often as `MaxOpen` allows, and with two
  fds it is so late that only calls without a time out fit under `MaxTime`. `MaxSeq` keeps `seq_` under its wrap at 2^32. Writes
  of one byte do in `net`; in `net_live` `WriteAll` goes round its loop for the second.
- `MaxTime` 1 or 2: all that matters of times is their order.
- `PollMax` and `EvCountMax` scale the 100 ms cap and the 1024 events;
  `IntHalf = 4` keeps times in an `int` and `IntHalf = 2` lets them out of it.
- A ring of 3 wraps at every offset within 6 bytes; the reader's size is
  different, so that calls straddle fills.
- The numbers are 2^k - 1, 2^k and their complements at and next to every limit
  of a form; the strings have every first byte and up to eight more, all 0, 1 or 255.
- Two objects with a member each nest one deletion in another and make a cycle;
  two threads race for the last count.
- Slices of capacity 3 overlap before, behind and at the place that is written,
  and arrays grow twice. A `Str` of more than one byte is long (22 in the code),
  and a `Buf` of one byte grows (16 in the code).
- Texts of three bytes hold a separator of two, at both ends and twice
  overlapping; 8 bits have every limit of 64, `INT64_MIN` included. A bucket of
  3 with a cost of 5 runs into debt for longer than its clock.
- 13 list elements: a deletion that rotates at two levels needs 12. In the list
  at most one element is marked and the others are alike: the code never looks at
  elements, so where the marked one goes shows where each goes.

`SchedTypeOK`, `SemTypeOK`, `NetTypeOK` and `PipeTypeOK` are theorems and not repeated in the runs;
cache and trees are of their types by `CacheConsistent` and `Balanced`.

### Fairness

`SchedFairness`: weak fairness of the loop of `Run` (it is a loop on a thread
that the system schedules), of the clock, and of `Leave`, the calls by which a
running fiber gives up the thread. `Sem` and `Net` state it as weak fairness of
the library's own steps inside a call, which nothing keeps from running once
the fiber has control, and strong fairness of `UserLeave`: between two calls
user code gets to yield, sleep or end again and again. That is what cooperative
fibers are; without it one fiber can keep the thread, as section 1 says of `WriteAll`
on a connection that is always ready. Nothing is assumed of the peers or the
kernel's events: the liveness properties hold when no peer ever answers. The
alternative `phase = "main"` in them is the end of `Run` after `epoll_wait` failed.

## 4. Proofs

| Module | Theorem | States |
|---|---|---|
| `SchedProofs` | `SchedTypeCorrect`, `PlacementHolds`, `QueuesConsistentHolds`, `SemBoundedHolds` | the safety invariants of `Sched` |
| | `WakeUpsJustified` | `NoSpuriousWakeUp` of every step: the fiber's time is over, an event was reported or its fd is gone, or value came to its semaphore or that is gone |
| | `NoOversleepHolds` | `NoOversleep`, provided that `MaxTime < IntHalf` |
| `CountProofs` | `SemRefinesSched` | every step of `Sem` is one of `Sched` or a stutter |
| | `SemTypeCorrect`, `AcquirerAccountingHolds`, `AssertionsHoldAlways` | types, the books of partial acquisitions, the assertions of the code |
| | `SemImplementsAbsSem` | `Sem` refines `AbsSem` step by step |
| | `NoBargingHolds`, `AcquirerTakesAllHolds` | what an `Acquire` that collects may rely on |
| | `PointersAreCounted`, `AssignmentsCopy` | counts and lives of objects, provided that callers are `Careful` |
| `NetProofs` | `NetRefinesSched` | every step of `Net` is one of `Sched` or a stutter |
| | `NetTypeCorrect`, `ValidHandlesAreCurrent`, `OperationsStayOnSocket`, `NoFdLeaks` | types; handles, sockets and who owns an fd, whichever step of `accept`, `listen` or `connect` fails |
| | `IoWakeUpsJustified` | `NoSpuriousIoWakeUp` of every step: a parked operation is woken for the way it waits |
| | `NoIoWakeUpIsLost`, `ConnectsAreEstablished` | edges of epoll against parks; how a connect ends |
| `LimitProofs` | `LRUInvariant`, `LRUConsistent` | list, map and size of the cache agree after every step, and the size is within its bound |
| | `LRUEvictsLeastRecent` | what goes is what was used least recently, and only as much as must |
| | `RateIsBounded` | the rate limit, for all speeds, capacities and costs |
| | `WriterAssertionsHold`, `WriterIsFifo`, `FlushSendsAll` | the ring buffer is a queue |
| | `ReaderIsFifo`, `ReadResultsHold` | what is read is the stream, and as much of it as was promised |
| | `PipeRefinesEnds`, `PipeTypeCorrect` | both ends of a stream are used as their modules allow, which brings their theorems to `Pipe` |
| | `PipeDeliversAll` | at the end of the stream the reader has handed out all that was sent |
| | `NumbersAreKept` | numbers of any size survive the wire in both codecs, and the encoding is the shortest |
| `AVLProofs` | `AVLInvariant`, `AlwaysBalanced` | map and list are balanced trees whose heights and sizes are right, whatever was added, set, deleted and built |
| | `VersionsAreKept` | no write to a node that an older version may share, and no assertion that fails |
| | `ContainersAlwaysAgree` | keys, values, ranks and places of elements |
| `MemoryProofs` | `ErrorsAreKept` | what a protector brings back is the trace and the errno that it found, whatever was reported since |
| | `AppendsAreRight` | an append of a slice gives both contents one after the other, and disturbs no slice on another array |
| | `StringsKeepContents` | strings and buffers hold what they were given; each block is one buffer's or is counted, and goes with the last string |
| `StrFnsProofs` | `SlicesLieInTheirText` | each slice that a call is given lies in its text, and is said to end with 0 only if it does |
| | `StringsAlwaysAgree` | functions of strings that undo each other do, and searches, splits, joins, replacements and numbers agree with what they mean |

They hold for all values of the constants under the assumption of each module
(`SchedAssumption`, `SemAssumption`, `NetAssumption`, and so on): any number of fibers, fds,
semaphores, any clock, any size of the buffers, any rate, any number of threads, pointers and
objects, any keys and sizes of a cache, any finite set of integers as the keys of a map, any values, lists of any length,
any numbers and any garbage on the wire, any slices, any strings and texts, any separators,
integers of any width from 8 bits on.

The argument for `Sched` is the inductive invariant `SchedInv`: types,
`Placement`, `QueuesConsistent`, `SemBounded` and `Numbering`. None of the
parts is inductive alone. `WakeUpFibers` takes a fiber out of exactly the queues
its events name, so that it is left in none only if queues and events agree;
they go on agreeing only if a woken fiber was parked, which `Placement` says; and
that a new fiber or semaphore is in no queue takes `Numbering`. The lemmas
`ExpireWake`, `IoWake`, `SemWake` and `WakeStep` say this of `WakeUpFibers` once; each action then
has a lemma of its own, and `NextInv` puts them together. The condition of
`NoOversleepHolds` is needed: `sched_far` shows what happens without it.

`SemInv` adds to it the frames: a fiber in the middle of an `Acquire` is the
running one, what it has taken is what the semaphore says of its acquirer, and
names in frames are used ones (`FramesNamed`). `SemStepIsSchedStep` shows that `Sem` calls the
scheduler only as `Sched` allows, which brings all theorems about `Sched` to `Sem`.

`PromiseInv` adds to `SemInv` that a fiber outside of `Acquire` has an empty frame and that an
acquirer which waits, or has decided to, faces an empty semaphore (`NothingLeft`; the
property itself, `AcquirerTakesAll`, speaks of parked fibers alone and does not survive
`AcquirePark`). `Promised` is what one step must do for the three theorems, and has a lemma per
action. Under the mapping `freeBar`, which counts what an acquirer has taken as free, an
`AcquireTry` that gets all is `Grant` and one that falls short a stutter, and giving the
value back in `AcquireTimeout` leaves the abstract value as it is: `GiveUp`.

`NetInv` adds to `SchedInv` the handles. `ValidMeansCurrent` alone is not inductive: a handle
that is not valid must not become so again, hence no handle may be ahead of its fd's `seq_`
(`SeqsBehind`); an fd must not be registered while the user's code still holds it as a plain int
(`FdsApart`); an operation that runs is valid because it was tested after its park
(`FramesHold`); and the handle of a connect is nobody else's (`ConnectsAlone`), so that no other
fiber unregisters its fd. There are three kinds of steps, each with a lemma: those that leave the registered fds
as they are (`KeepFdsInv`), those that register one (`RegisterInv`) and those that unregister one
(`UnregisterInv`).

`WakeInv` adds to it, for the two theorems about waking up, that the promise covers fibers that have
seen their call block and have not parked yet (`NoneLost`): an edge which arrives in between, or
before the fd is registered, is what would be lost. The scheduler may take an edge
only by waking who waits for it (`ReportEvs`). `KindsFit` says which sockets may still be
connecting, and `ConnectsWait` that a connect is woken by its socket or by the clock, and by nothing else:
that is why one that is in time and without a socket error is established. A report takes
the edge of an fd away for both directions and wakes only who waits for one that is ready:
`ReportEvs` says that whoever it leaves asleep waits for what is not ready.

Why a fiber is woken needs no more than the queues: `WhoWakes` says that a step changes the events of
the running fiber alone, or is one of three (a timer, the end of an fd, a report), and `DueIsOver`, `UnregWakes`
and `ReportWakes` that each of them wakes exactly those it is about. For a semaphore the cause is
value: `ReleaseSignals` and `RestoreSignals` show that it rises, except in a `Release` of 0, which wakes
all the same.

`WriterInv` is the conjunction of type, assertions and order; `DoWriteRing` and
`CopyRing` are the two arguments about the wrap.

`ReaderInv` adds to `ReaderFifo` and `ReadResults` that a call that goes on has got
less than it asked for (`InProgress`), without which a fill could follow a call that has
enough. `FirstOf` says that the search of `ReadUntil` finds the first `end_ch`, so that none is
among the bytes before it, and `Concat` what appending a piece of the buffer does to a result.
`PipeInv` joins both with `WireInv`: no byte is taken before it was sent, and a call that ends at the
end of the stream leaves an empty buffer (`ReaderEnds`).

`BucketInv` says that `last_time_` is the latest time that was read, and that what a window
has granted and what the bucket still holds are together at most what it
can hold and what the time since has brought: a clock that is set back brings
nothing until it has passed `shown` again. A `Reset` begins a new window.

`RCInv` adds to `PointersCounted` what a thread in an assignment relies on. Its
target and its source are `Anchored`: they are its own variables, or members of an
object that another of its variables points to, so that the object cannot go
(`AnchorLives`). `Apart` keeps the threads off each other's pointers and destructions;
`ReleasedBy` and `FreedReleased` say which pointers do not count. `DecRCCounts` is
the step at which one object may begin to die, and `BeginInv` the first step of
all four assignments. `Careful` is needed for the source alone: `rc_assign` shows
what happens without it.

`LRUInv` holds `CacheOK`, which is `CacheConsistent` of any list, map and size with the types, and
two parts that the order of eviction needs: `uses` names no key twice (`Distinct`), and the
list is in the order of last use (`Ordered`). Erasing, evicting and inserting are
functions from one such triple to another, and each has a lemma of its own (`EraseOK`, `EvictOK`,
`AppendOK`, `InsertOK`); `PutOK` composes them in the order of the code. The sums of
sizes are folds: `DataLemmas` shows that a fold is unique and may be split (`SumSplit`), so
that what goes from the list goes from `sz_`. `Ordered` alone says that the front of the list is the least
recently used key; `FrontAndRest` and `PrefixGrows` that the loop drops no more than it has to.

`VarIntInv` adds to `NumbersSurvive` that the wire, while something is due, can be cut into
pieces, one for each number that is due and each the encoding of it (`Laid`). The rest is
about one number: the first byte tells the form, the form tells the length that
`LoadEncodedFrom` reads, the bytes that were left out are copies of the sign, and a form that decodes
is the one `Encode` takes for the number it gives, because longer forms of it are refused.

The invariant of `Err` is about who shares an array: each is named by `err` or by one protector, never by two, as
a protector takes the slice with it and leaves `err` empty. An append in place therefore
touches nothing that was saved. `GoSlice` has no such owners; its
invariant is only that every slice is within an array that there is, and the content of the theorem
is in the operators. `CopyIn` writes into the array it may be reading: `CopyStepKeeps`
says that, in the direction that the code chooses, a step reads what no earlier one has
written, and `CopyInIs` is the induction over the steps (`CopyRuns` names the heaps between
them). `GrownCapIs` says that the loop of `NewArrayAndAppend` ends with room enough.

`StrInv` splits `StrContents` into who has a block and what is in it. `Clean` says that the blocks
are those of the buffers, with count 0, and counted ones; `Counted` that each count is the
number of strings on the block (`Longs`), so that a string's block is there as long as the string
(`CountedHeld`). Every assignment is some blocks that come, some that go, and what stays with the bytes it had
(`Come`, `Gone`, `SameBytes`), and the order is the code's: `AssignText` makes the new text before
the old block goes, which is why it may be a slice of the string itself; `AssignStr` lets the old one
go first, and the count of the other string keeps a block alive that both have. `AssignBuf` may
get back, for the buffer, the place of the block that went, so that the lemmas speak of the
memory between the two (`BufferGets`). `FitIs` and `WrittenOver` are the growth of a buffer and the loop of `Write`.

`AVLInv` says of each container that it is a `Tree` with certain elements: for the list they are those that it
must hold, for the map their keys increase and they are what it must hold as a function. `Balanced` alone is
not inductive, nor are the three properties together without this: an index finds its way by sizes, a key by the
order, and a rotation is safe if the other nodes are what they should be. A tree and its elements
would be described by recursion; `Tree` says it without: there is a set of pairs of a tree and a sequence
in which every pair is justified by pairs of its subtrees (`Witness`), and every node is `Sound`. An operation is
a recursive function on the subtrees of its tree, or on these with indices, and has two kinds of lemmas. That the function
exists is shown by height (`AddExists` and its like, each written out, as the provers cannot take an operator as
a parameter of a lemma); what it gives is shown by the same induction (`HeightInduction`): `AddIs`, `SetIs`, `LastIs`, `DelIs`, `PublishIs`, `BuildIs` give a tree whose elements are
the old ones with one inserted, replaced or removed, and say how far its height may differ, `GetFromIs`,
`GetByIdxIs` and `InOrderIs` what is found. The core is `RebalanceIs`: of a root whose sides differ by
at most two, as they do after one operation below, it makes a tree with the same elements, of the same height or one less, and
every write goes to a copy that the operation has just made. `RotateOnce` and `RotateTwice` are its two cases, for
either side at once. `BuildIs` shows along with the elements that of two ranges which differ by at most one element
the longer one's tree is at most one higher, which is what `Build` asserts of the halves of a range.

`StringsAgree` is a property of each call, not of a history, and needs an invariant only for the
arguments: `CallInv`. The rest is about operators. `IsPart` says which bytes of a text a slice is,
and that its flag is right; `CutIs` that a cut keeps this. That a
recursive function exists is `RecursiveExists`, given a number at each place that falls with every call; what it gives
is shown by induction over the same number. A list of slices is described by the places that it covers: between
separators (`IsSplit`), so that joining the parts with the separator gives the text (`JoinOfSplit`), or the runs
without a space (`IsRuns`, `SplitSpacesIs`). `SplitFrom` and `ReplacedAt` are the step that the loops
of split and replace share, from which `ReplacesAgreeHolds` follows: to replace is to split and to join with the other text.
`UnhexOfHex`, `HexOfUnhex` and `ReprAgreesHolds` cut the longer text into pieces, one for each byte. For
numbers, `ReadIntIs` says that the loop reads all digits and stops at the limit in either direction,
`DecimalIs` that `FromInt64` gives a numeral of its number, of the digits with these weights (`IsNumeralOf`), and
`NumeralParsed` that such a numeral is read as that number: together `ParsedBack`, the limits included, of which the
least has no positive counterpart. `OnlyNumbersParse` is the other direction.

`DataLemmas` has what these arguments need of data: the least number of a set (`LeastNat`), from which
induction over a set of numbers follows (`InductionNat`; the theorems of the library take an operator and
cannot be used by the provers at hand), the recursive functions that folds and sums
are (`FoldExists`, `SumExists`), and a sum in any order (`SumAnyOrder`).

Only model-checked: liveness and what is enabled, which these provers cannot reason about. Every safety
invariant and every action property that a passing run checks is a theorem, two of them under a condition:
`NoOversleep` (a clock below 2^31) and those of `RCPtr` (`Careful` callers); `sched_far` and `rc_assign` show
that the code needs them.

## 5. Findings

1. `sem.cpp:47`: an `Acquire` that times out before it got anything leaves
   itself as the acquirer; nobody else can acquire until the same fiber does (`sem_stale`).
2. `sched.cpp:282`: an acquirer that completes does not wake the fibers that got
   nothing while it was collecting; with value left they sleep on (`sem_lost`).
3. `sched.cpp:432`: a first timer 2^31 to 2^32 ms away becomes a negative time
   out, and `epoll_wait` blocks with fibers ready (`sched_far`).
4. `conn.cpp:259`: a connect that had to wait leaves `*err_code` unwritten (`net_err`).
5. `immut/avl.h:203`: `FixIdx` normalises a copy of a negative index (`avl_negative`).
6. `err.cpp:12`: `PushErrBT` appends the position to the error, though `err.h:13` says that it puts it
   in front (`err_front`).
7. `mem.h:139`: the assignment of an `RCPtr` gives the old object back before it
   reads its source, which may be a member of that object, as in `p = p->next` (`rc_assign`).

Seen while reading and outside of the models: a NaN as the cost makes `curr_value_` NaN, and
every later call is granted, although `token_bucket.h:8` says that bad input is
normalised; `ParseUInt64` accepts "-1", as `strtoull` does; a base of 1 leaves
`end_ptr` uninitialised (`str.cpp:55`); `StrFTime` truncates (`time.cpp:28`);
`isspace` is called with a negative `char`.

## 6. Abstractions and external parts

Outside of `src/` and modelled from its use: the kernel's epoll set, the
sockets and their peers, the clock (under the fibers it does not go back; under the token bucket it does), the
user's own code between two calls, the context switch itself (`ucontext`, `setjmp`). Left out: payloads,
addresses, socket options, the wording of errors, stack sizes. `EINTR` is a system call
that is repeated. Arguments of the cache are copies: `Put` with a reference into
the cache itself reads what it has freed (`lru_cache.h:98`), which no comment forbids. `StrFns.Cut` has no
negative start: the branch of `FixIdx` that adds the length to one (`str.h:39-42`) is left out, and
the functions that are modelled cut with none. Of `Join` it is the branch for iterators that can be
copied; the other walks once and appends, with the same result.

## 7. Plan

Done, in the order of importance: `Sched` with proofs, `Sem` over `AbsSem` with
proofs of the refinement, `Net` with proofs, `BufWriter`, `BufReader` and `Pipe` with proofs, `LRUCache`, `AVL`, `VarInt`;
then `RCPtr` with proofs, `SliceOps`, `GoSlice`, `Err`, `Str`, `StrFns`, and
`TokenBucket` with proofs; then the proofs about `LRUCache`, `VarInt`, `Err`, `GoSlice`, `Str`, `AVL` and `StrFns`.

What is left: a clock that is set back under the scheduler.

## 8. Not modelled

- `Sprintf` and the parser of floating-point numbers: the C library's own.
- Random numbers, primes and time: pure functions, or wrappers of the system's.
- `init.cpp` and `util.cpp` of the fibers: they set up signals and format addresses.
- `Defer` and the macros that die or assert: an assertion is in the module whose code makes it.
- `test/dhrystone`: a benchmark.
