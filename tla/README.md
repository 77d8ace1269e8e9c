# Verification of webbit-asyncio

webbit-asyncio gives Java programs asynchronous file operations. Its core is
libeio (`src/libeio/eio.c`): a request is put into a queue, a worker thread
makes the system call, and the result comes back through a second queue to the
thread that polls. `src/src/main/c/asyncio.c` binds libeio to Java;
`AsyncIO.java` adds the flush loop.

This directory holds TLA+ modules of that program, TLC configurations for
small instances and TLAPS proofs. Paths below are relative to `src/`.

## 1. Inventory

| component | code | state | operations | hard behaviour |
|---|---|---|---|---|
| request queue | `eio.c:320-372` | one linked list per priority (`qs`, `qe`), `size` | `reqq_push`, `reqq_shift` | priority order, `size` against the lists, an index out of range |
| thread pool | `eio.c:208-660, 1558-1629` | `req_queue`, `res_queue`, `nreqs`, `nready`, `npending`, `started`, `idle`, `wanted`, `max_idle`, per worker `self->req` | submit, cancel, poll, worker loop, start/end a thread, set limits | three locks, unlocked counter reads, condition-variable signals, timeouts, failing thread creation |
| wake-up pipe and flush | `asyncio.c:20-64`, `AsyncIO.java:30-96` | bytes in the pipe | `want_poll`, `done_poll`, `block`, `poll`, `flush` | edge-triggered byte against a level-triggered wait |
| groups | `eio.c:546-556, 590-605, 664-734, 2025-2056` | member list, `size`, `int1` (delayed), `int2` (limit), `feed`, flags | add, feed, limit, cancel, finish of a member | a group finishes when its last member does, in whatever order |
| fork handlers | `eio.c:374-437` | all of the pool | prepare, parent, child | locks held across fork; the child resets the pool while workers are gone; the pipe is shared |
| JNI request life cycle | `asyncio.c:66-102, 361-425`, `RequestWrapper.java` | `java_data`, global references, the `eio_req` behind a `RequestWrapper` | submit and wrap, completion callback, accessors | submission races completion; the wrapper outlives the request |
| JNI operation bindings | `asyncio.c:109-359` | none | one function per operation | argument order, string lifetimes |
| native memory helpers | `jni-native-functions.c`, `NativeFunctions.java` | native heap | malloc, free, strings, bytes | lengths in characters against lengths in bytes |
| request execution | `eio.c:1558-2016` | the request's fields | `eio_execute`, the constructors | result and errno, buffers allocated on demand |
| directory scanning and sorting | `eio.c:1065-1427` | names and entries | `eio__scandir`, `eio_dent_sort` | growing buffers, radix and insertion sort |
| emulations | `eio.c:810-1063, 1444-1539` | the position of an open file, `preadwritelock` | pread/pwrite, readahead, sendfile, mtouch, page alignment, flags | partial transfers, page arithmetic, two workers on one file |

How they interact: the Java side calls the bindings on an application thread;
a binding allocates `java_data` and calls a libeio constructor, which submits.
Workers and pollers meet in the two queues, under `reqlock` and `reslock`;
`wrklock` guards thread creation. libeio calls back into the binding twice:
`want_poll`/`done_poll` under `reslock`, and `completion_callback` from
`eio_poll` with no lock held.

`PROJECT.json` lists the same components with their status, and under
"hazards" what a test would hardly reach in each, line by line.

## 2. Modules

| module | what it is |
|---|---|
| `EtpReqq` | the request queue as operators on values; the priority arithmetic of `etp_submit` |
| `EtpPool` | the thread pool, the pipe and the flush loop: the state machine |
| `EioService` | the abstract promise: a request's life without threads or queues |
| `EtpPoolProps` | the properties of the pool, and the refinement mapping to `EioService` |
| `MCEtpPool` | its instances for TLC, with `pool_core`, `pool_live`, `doc_flush_wakeup` and `doc_nthreads` |
| `EtpFork`, `MCEtpFork` | `fork ()` as a step of the pool; `pool_fork.cfg` |
| `AioOperation`, `AioOperationProps`, `MCAioOperation` | one call of an operation (its priority over `EtpReqq`): Java arguments, JNI function, constructor, `eio_execute`, the memory of the request; `aio_operations.cfg`, `doc_rename` |
| `AsyncIO`, `AsyncIOProps`, `MCAsyncIO` | `java_data`, references, wrappers and callbacks over an instance of `EioService`; `jni_core.cfg`, `doc_wrapper`, `doc_complete` |
| `EioGroup`, `EioGroupProps`, `MCEioGroup` | the groups of libeio; `group_nested.cfg` |
| `DentSort` | the radix and insertion sort of directory entries, loop by loop |
| `EioScandir` | `eio__scandir`: reading a directory into growing arrays, over `DentSort` |
| `EioEmulation` | `sendfile`, `readahead`, `sync_file_range`, `mlock`, `mlockall`, `msync`, `mtouch` as libeio makes them, and what they promise |
| `EioPreadWrite` | `pread` and `pwrite` on systems without them, several workers on one file |
| `EioHelpers`, `MCEioHelpers` | the composition of the last three and the properties of the directories; `helpers.cfg` |
| `EtpPoolProofs` | lemmas about the queue operators; the inductive invariant of the pool; types, pipe and owners |
| `EtpCountProofs` | the counters, the number of threads, signals and flush |
| `EtpServiceProofs` | the pool implements `EioService`; the pool's invariants across a fork |
| `AsyncIOProofs` | the life of `java_data`, references and wrappers |
| `EioGroupProofs` | groups, for any nesting |
| `DentSortProofs` | the inductive invariant of the sort |
| `EioHelpersProofs` | `eio__scandir` over that; `EioEmulation` and `EioPreadWrite` |
| `AioOperationProofs` | the memory and the arguments of one call |

### EtpPool and the code

A *worker* is a slot for one thread that runs `etp_proc`; `wpc` says where it
is. A *client* is an application thread; `cpc` says which call it is in, and
`after` where `etp_maybe_start_thread` returns to.

| step | code |
|---|---|
| `Fetch`, `FetchNothing` | the head of the worker loop, 1569-1605 |
| `Timeout`, `TimedOut`, `Retire` | the timed wait ends, 1581-1595; `--started` is in a second critical section |
| `Execute`, `PushResult` | 1607-1620 |
| `Submit` | a constructor and `etp_submit`; `MsWanted`, `MsThreads`, `MsPending`, `MsReqs`, `StartThread` follow it (`etp_maybe_start_thread`) |
| `Poll`, `ShiftResult`, `DecReqs`, `Finish`, `CallbackReturns`, `FinishCancelled`, `ShiftNothing` | `etp_poll`, in the order of the code |
| `Flush`, `FlushTest`, `Block` | `AsyncIO.flush` |
| `SetMaxParallel`, `EndThreadPush`, `EndThreadDec`, `EndThreadsDone` | `etp_set_max_parallel` and `etp_end_thread` |

*Granularity.* A critical section is one step: it holds a single lock, never
blocks (that `done_poll`'s read of the pipe does not is `PipeMirrorsResults`)
and changes at most one of the variables that others read without that lock.
Every such unlocked read is a step of its own, so `etp_maybe_start_thread`
is four reads, in the order in which the expression is written. A condition
wait is left by a signal, by the timeout or spuriously, and the thread then
has to get `reqlock` again: the step between is where a signal can be missed.

*Left out of the pool.* The group branches of `etp_submit` and `etp_poll`
(they are in `EioGroup`; the Java API has no groups); a
callback that calls `poll` again; a signal interrupting `block()`. The setters
of `max_poll_reqs` and `max_poll_time` appear as the values `EnterPoll` may
read. A request of type -1 is freed by nobody in the code, so it stays in
`live` here.

### EtpFork and the code

`EtpFork` has every step of `EtpPool` and one more, `Fork(c)`, which
`etp_atfork_prepare`, the system call and `etp_atfork_child` make together. The
prepare handler waits for `wrklock`, `reqlock` and `reslock`; each step of
`EtpPool` ends with all of them free, so the fork can come between any two. The
behaviour goes on in the child: its queues are empty, its workers gone, its
counters 0, the thread that forked is where it was and other clients stand for
threads the child may create. Of the parent remains `parentByte`, what it has
in the shared pipe; `ParentWantPoll` and `ParentDonePoll` change it as its
`res_queue` fills and empties. `leaked` are the requests that other threads of
the parent were finishing; the child frees everything else. Destroyed requests
are memory, so the child may submit them again. The child does not fork again.

### EioHelpers and the code

`EioScandir`: `at` is the place in `eio__scandir`. `Open` is the critical
section with `opendir` and the two `malloc`s; then, for each entry, `Read`,
`GrowNames` and `NamesMoved` as often as the name does not fit, `PutName`,
`GrowDents` and `DentsMoved`, `PutDent`, `CancelTest`. Growing is two steps, the
call of `realloc` and the assignment, because in between `req->ptr1` or `ptr2`
points to a freed block: `wrklock` is held then. `readdir` returns the entries of
one of `Directories` in any order, or fails after any. A name is its length and
the places of its dots, which is what skipping and scoring look at; the
directory's path, which `ptr1` holds before, belongs to `AioOperation`.
At the end `ReadEnd` calls the sort, and `SortStep` is a step of it.

`DentSort`: `loop` is the loop that runs. One round of it is a step, so that the
array is seen with every exchange.

| step | code |
|---|---|
| `Partition`, `DirsDone` | the loop that puts directories first, 1287-1300 |
| `Sort` | `eio_dent_sort` and the heads of the two sorts, 1079-1132, 1216-1224 |
| `TakePart`, `Partition`, `SplitDone` | the loops of `eio_dent_radix_sort`, 1134-1176 |
| `FindMinimum`, `MinimumFirst` | the sentinel, 1188-1196 |
| `Insert`, `Shift`, `Place` | the insertion loops, 1202-1211 |

`pa` and `pb` are the code's `a` and `b` (and `dir` and `oth`), `part` what
`base`, `end` and `bit` are, `stack` the three arrays `base_stk`, `end_stk` and
`bit_stk` up to `stk_idx`. A bit is a number, and `*--bit` the next smaller one
in the set `bits`; bits of the score come after those of the inode, as in the
code. The byte order of `ino_t` does not appear, and not the place of the fields
in `eio_dirent`.

`EioEmulation`: `step` is the place in one call. Bytes of a file are their
positions. The system's own `sendfile` sends any number of bytes or fails; in the
emulation `pread` and `write` do any part of what they are asked. Page
arithmetic is done modulo `SizeMod`. Flags are bits, with three assignments of
the system's bits.

`EioPreadWrite`: each worker locks, saves the position of the open file,
seeks, transfers, seeks back and unlocks.

`EioHelpers` lets one of the three run from a common idle state. They share
no variable, so its `Next` is a step of one of them that leaves the others alone.

### AioOperation and the code

The state is one call: `stage` goes from "bound" (the JNI function has its
parameters) over "submitted" (`Construct`), "executed" (`Execute`,
`ExecuteReaddir`) and "called" (`Callback`) to "destroyed" (`Destroy`), or ends
at "failed" when an allocation fails. `heap` names the blocks allocated: the
application's buffer, the pinned strings, the copies of `PATH`, the buffer of
`ALLOC`, the entries and names of `eio__scandir`. A pointer that the application
passes is its own buffer or null. `JavaParams` is the parameter
list of each Java method, `NativeArgs` what the JNI function finds in its own,
`EioArgs` what it passes on, `Fields` the constructor's parameter types and the
fields they go to, `SubmitPri` of `EtpReqq` what REQ and `etp_submit` make of the
priority, `SystemCall` what `eio_execute` does with the fields. The
property `ArgumentsArrive` compares the two ends with `Meant`, which knows only
the Java parameter list and the POSIX types. `Release` may come before or after
any step of the worker.

Left out: the results and `errno` of the system calls, the inside of the
helpers (they are in `EioHelpers`), `eio_custom`, which nothing in the
repository calls.

### AsyncIO and the code

`EioService` is instantiated as `Eio`, with the same variables: `Submit`,
`Take`, `Release`, `Call` and `Destroy` are steps of the service together with
what `asyncio.c` does at that point, and workers are steps of the service
alone. Because `EtpPool` implements `EioService` (theorem
`PoolImplementsService`), every
order that the real pool can produce is among those considered. A thread has
two program counters, `calling` for an operation and `polling` for poll, since a
callback calls operations. `pending` is the set of threads with a pending Java
exception, `refs` the global references. Undefined behaviour is a choice:
a call with an exception pending may or may not run the callback, and `Ask`, which
is `complete()`, answers anything once the memory it reads is freed.

Left out: a failing `malloc` in `alloc_java_data` (the next line writes to the
null pointer), a call of `poll` from a callback, `complete()` on the wrapper of
a failed call (it follows the pointer 0 and the process ends), the accessors other
than `complete()` (they read the fields of the same `eio_req`).

### EioGroup and the code

`stack` holds the C frames of the one thread that polls: "finish"
(`eio_finish`: start, callback, unlink, destroy), "feed" (`grp_try_feed`: test,
feeder) and "dec" (`grp_dec`, after `--size` and the feeding). Application code
runs when the stack is empty or its head is at "callback" or "feeder", and may
then call any operation, so feeders and finishes nest as they do in C. The
member list is the pointers `first`, `next`, `prev`; `ListOf` is what a walk
along them meets. A submitted request may be
taken as the next result at any time, in any order: this contains what the
workers and the priorities allow. `Destroy` also clears the fields of the freed
request, which nothing reads again. The application does not add a
request to two groups, nor a group to itself, nor anything to a group whose
callback has been called. `CallbackReturns` has no result:
`eio_finish` passes it on and only `etp_poll` looks at it (see `EtpPool`).

## 3. Runs

| run | instance | shows |
|---|---|---|
| `pool_core` | 2 requests, 2 workers, 1 client that cancels and changes the limits, 2 type -1 requests, timeouts, failing creation, poll limits, any callback result | `OneOwner`, `CallbackHasResult`, `FlushWaits`, the exact values of the wrapping counters (`RequestCounts`, `ThreadCounts`), `PipeMirrorsResults`, `TypeOK` |
| `pool_fork` | 2 requests, 3 workers, 2 clients, `wanted` 1, any callback result, a fork at any moment | what two submitting and polling threads, and a fork, may not break: `PipeServesBoth` (without a fork, `PipeMirrorsResults`), `OneOwner`, `RequestCounts`, `CallbackHasResult`, `ThreadCounts`, `ThreadBound`, `NoLostWakeup` |
| `pool_live` | fair scheduling, 2 requests, 2 priorities, poll limits, any callback result, no timeouts, no failures | `FlushTerminates`, `AllFinish`, and `ServiceSpec`: the pool implements `EioService` |
| `aio_operations` | all 39 operations; arguments at the bounds of int, priorities at those of `ETP_PRI_MIN`..`ETP_PRI_MAX` and of signed char; failing allocations | `ArgumentsArrive`, `MemoryLive`, `HeapAtEnd` |
| `jni_core` | 3 operations from the loop or from callbacks, one thread, throwing callbacks, failing allocations | `CallbackGetsWrapper`, `DataLive`, `NothingLeaks` |
| `group_nested` | 2 groups, 2 other requests, bounded and unbounded limits, cancelling, frames to a depth of 2 and what the library adds | `ListsMatch`, `MembersFirst`, `FramesLive`, `NoneLeftBehind`, `FeederFed` |
| `helpers` | 2 directories of 6 and 7 entries in every order, 7 sets of flags, failing allocations, cancelling; every call of `EioEmulation` with the arguments of the cfg; 3 workers on one open file | `ListingComplete`, `ListingOrdered`, `SentinelHolds`, `StacksFit`, `BuffersOwned`; `TransfersExact`, `RangeCovered`, `FlagsKept`; `PositionsKept` |

Five runs each check one documented claim that the code does not keep, and TLC
finds the counterexample:

| run | claim | what happens |
|---|---|---|
| `doc_flush_wakeup` | flush waits until all requests have been processed, then returns | a worker whose timed wait has elapsed waits again without looking at the queue (`eio.c:1594`); a request signalled in between is never executed |
| `doc_nthreads` | `eio_nthreads` is the number of running threads | a type -1 request and an idle timeout both lower `started` for one thread, past zero |
| `doc_wrapper` | the callback gets the request | another thread's poll finishes the request before `wrap_request` has stored its wrapper |
| `doc_complete` | `complete()` tells whether the request completed | asked after the callback it reads the freed `java_data` (`asyncio.c:364`) and answers anything |
| `doc_rename` | `ptr2` is the new name | `link`, `symlink` and `rename` copy the old name twice |

*Known disagreements that no run shows.* The models contain them (unless said
otherwise) and their properties are stated so that they allow for them:

* a failed `pthread_create` (`eio.c:471`) leaves a request in the queue with
  nobody to execute it, so flush waits for ever: `pool_live` has no such failure;
* `completion_callback` returns no value (`asyncio.c:96`), so poll may return
  while results wait (against `AsyncIO.java:33`): in the model its result is any;
* a priority is stored in a signed char, which `etp_submit` shifts before it
  clamps (`eio.c:585`): one above 123 has the lowest priority instead of the
  highest, one beyond a char any; the Java API sets no bounds. `ArgumentsArrive`
  states the nearest priority for `CharPriorities` and an existing list for all;
* `eio_nreqs` no longer counts a request whose callback has not run
  (`eio.c:543` against `eio.pod:202`), `eio_nready` is one too low for every
  thread ended (`eio.c:1600` against `eio.pod:208`): `RequestCounts` states the
  exact values;
* up to `max_idle` idle threads wait without a timeout (`eio.c:1594` against
  `eio.pod:193`);
* the native `utime` and `sync_file_range` do not have the parameters of their
  Java methods (`asyncio.c:154, 227`), so that arguments, priority and callback
  are mixed up: `Misbound` in `AioOperationProps`;
* `eio_readdir` forgets its path (`eio.c:1255`), a failing second `strdup` the
  first path: `Forgotten` in `AioOperationProps`;
* `Demo.java:40` frees its buffer before the worker may have read it; in the
  model the application waits for the callback;
* with a second polling thread a callback gets the `JNIEnv` of the thread that
  submitted (`asyncio.c:85`); a callback that throws leaves its exception
  pending for the next callback (`asyncio.c:89`);
* the accessors other than `complete()` read freed memory after the callback as
  it does (`asyncio.c:367` and on); not in the model;
* `eio_mtouch` ends its loop at the address `len` instead of `end`
  (`eio.c:1533, 1535`), so that it usually touches the first page only; `end`,
  which the code computes, is used once: `RangeCovered` says only that it stays
  inside the range;
* when a `realloc` of the names fails, the `break` (`eio.c:1322`) leaves the inner
  loop only and the name is copied to a null pointer: `Crash` in `EioScandir`;
  the old block is lost with either array;
* if no inode has a bit set and scores are not used, `eio_dent_radix_sort` has an
  empty list of bits and reads before it (`eio.c:1165`); this takes a system that
  reports no inodes, and `DirAssumption` excludes it;
* `eio.pod:54` says that `fork` first waits for all requests being executed;
  `etp_atfork_prepare` only takes the locks. The child destroys those requests,
  which is what `OneOwner` is checked with;
* `nativeString` allocates `GetStringLength` bytes, without room for a
  terminating 0 (`jni-native-functions.c:53`), and `Demo.java` calls `strlen` on
  the result; not in the model;
* the assertion of `eio_grp_add` tests for a value `int1` never has
  (`eio.c:2042`), so that adding in the group's own callback is not rejected;
  not in the model.

*Bounds.* `Workers` bounds the threads alive at once, `QuitReqs` the threads
that `eio_set_max_parallel` may end, `Reqs` the requests ever submitted;
`UIntMod` = 8 stands for 2^32 (counters of 3 bits still wrap in these
instances, and no instance counts to 8). Two requests and two workers give every
order of two transitions of `res_queue` between empty and not empty, with a
request of type -1 before, between and after them. `pool_live` has two
priorities, enough for a later request to overtake an earlier one, and the scan
over nine lists is `ShiftPri` for any number of them; what `pool_core` checks with
one is proved for any number of priorities and requests (section 4). Two clients are
enough for every pair of unlocked reads to interleave. Symmetry over requests
and workers is used only in runs without liveness properties.

`AioOperation`: int has 10 bits (`IntMod` = 1024) and long 12, so that sign
extension, truncation and unsigned conversion are different functions; every
parameter has a value of its own, and each input takes one parameter to a
boundary (-512, -1, 0, 511); int is wider than the 8 bits of a signed char, and
the priority also takes the values around -128, 127 and those where clamping
and the overflow of the shift begin. `AsyncIO`: three requests are one in a callback, one
submitted from it and one in a worker; the hazards of two threads need two
requests. `EioGroup`: two groups for nesting, and three possible members of one
of them for a list with a middle; `MaxDepth` bounds only the frames under which
the application asks for more feeding.

`EtpFork`: one fork, because a child of the child differs from the child only in
a third process at the pipe. `EioHelpers`: `Cutoff` 3 and `Fast` 4 stand for 30
and 60; directories of 5 and 6 entries are sorted by radix with parts of 0, 1
and 2 entries left to the insertion sort, smaller ones by insertion alone; inodes
have 3 bits (`InoBits`) and scores 3, so that there are up to six bits to split at.
`NamesAlloc` 4 and `DentAlloc` 2 make both arrays grow two or three times.
`BufSize` 2 with up to 5 bytes gives three rounds of the transfer loops; the
ranges of memory begin before, at and after a page boundary and end likewise.

*Deadlock.* `CHECK_DEADLOCK FALSE` appears where the program really can stop:
`flush` waits for ever after a lost wake-up or a failed thread creation, and
when the type -1 requests of an instance are used up the loop of
`etp_set_max_parallel` cannot go on. In the other runs TLC checks that no
state is stuck; `Done` is the end of the program in `AioOperation`,
`EioGroup` and `EioHelpers`.

*Fairness.* `FairSpec` assumes that the operating system runs every thread
that can run, that a callback returns, and that an application thread goes
back to its flush loop. Nothing is assumed of spurious wake-ups, timeouts,
submissions or cancellations.

## 4. Proofs

Every theorem holds for all values of the constants that the module's named
assumptions admit: any number of requests, workers, clients, groups and
threads, any limits, any width of the counters, any page size. Where a theorem
has a hypothesis of its own, the table says so and the text below says why the
code does not give more.

| module | theorems | hypothesis |
|---|---|---|
| `EtpPoolProofs` | `PoolTypes` (`TypeOK`), `PoolPipe` (`PipeMirrorsResults`), `PoolOneOwner` (`OneOwner`), `SubmitPriInRange` | |
| `EtpCountProofs` | `PoolRequestCounts` (`RequestCounts`), `PoolThreadCounts` (`ThreadCounts`) | |
| | `PoolThreadBound` (`ThreadBound`) | `eio_set_max_parallel` is not called, threads fewer than 2^w |
| | `PoolNoLostWakeup` (`NoLostWakeup`) | no `idle_timeout` elapses |
| | `PoolFlushWaits` (`FlushWaits`) | one client |
| `EtpServiceProofs` | `PoolCallbackHasResult` (`CallbackHasResult`), `PoolImplementsService` (`Spec => ServiceSpec`, the refinement) | |
| | `ForkServesBoth` (`PipeServesBoth`), `ForkOneOwner`, `ForkRequestCounts`, `ForkThreadCounts`, `ForkCallbackHasResult` | |
| | `ForkThreadBound`, `ForkNoLostWakeup` | as in the pool |
| `AsyncIOProofs` | `WrapperThere` (`CallbackGetsWrapper`), `DataAllocated` (`DataLive`), `NoLeak` (`NothingLeaks`) | the thread that submits is the one that polls |
| `EioGroupProofs` | `GroupLists` (`ListsMatch`), `GroupMembersFirst` (`MembersFirst`), `GroupFramesLive` (`FramesLive`), `GroupNoneLeft` (`NoneLeftBehind`), `GroupFed` (`FeederFed`) | |
| `EioHelpersProofs` | `ScandirListingComplete` (`ListingComplete`), `ScandirListingOrdered` (`ListingOrdered`), `SortSentinelHolds` (`SentinelHolds`), `SortStacksFit` (`StacksFit`), `ScandirBuffersOwned` (`BuffersOwned`), all from the invariant of `DentSortProofs` | |
| | `WorkersKeepPositions` (`PositionsKept`), `SendfileExact` (`TransfersExact`), `WholePages` (`RangeCovered`), `FlagsTranslated` (`FlagsKept`) | |
| `AioOperationProofs` | `OperationMemory` (`MemoryLive`), `OperationHeap` (`HeapAtEnd`), `OperationArguments` (`ArgumentsArrive`) | |

*The hypotheses.* None can be dropped. With `eio_set_max_parallel` the limit
moves below the threads that exist, and `started` is decremented twice for one
thread (run `doc_nthreads`); with 2^w threads `started` itself wraps. A worker whose timed wait
has elapsed misses a signal (run `doc_flush_wakeup`). With two clients the one
finds the last request taken by the other, and its flush returns before that
one's callback. A second polling thread finishes a request before
`wrap_request` has stored the wrapper (run `doc_wrapper`).

*The pool.* One inductive invariant, `IInv`. `OneOwner` alone is not
inductive: that a worker at "push" holds a request, or a client at "dec" a
result, is a fact about program counters (`WorkersOK`, `ClientsOK`), and that
the request shifted from `res_queue` is not in some other place needs the
disjointness of the places (`Owners`), which is stated with the positions in
the lists. `QueuesOK` says that `size` is 0 exactly when all lists are empty,
which is what `reqq_shift` relies on to find a request and what `PushIsReqq`
and `ShiftIsReqq` preserve. `NoneLost` is the converse of `Owners`: a live
request is somewhere. `ResultsOK` equates `npending` with the size of
`res_queue`. The pipe is not part of it: `PipeStep` shows that no step changes
the bytes beyond the one that announces a result (`Surplus`), because the
transition of the pipe and that of `res_queue` are the same step.

*The counters* (`CountInv`). Each is the cardinality of a set: `nreqs` of the
requests not yet finished (`Counted`), `idle` of the waiting workers
(`Idlers`), and, modulo 2^w, `nready` of the queued requests less the type -1
requests taken (`Ready`), `started` of the running workers less those told
to end and more the threads that poll for `eio_set_max_parallel` (`Threads`).
A step moves one element in or out of its set, and `IInv` says that it was not
there before. `ThreadBound` needs `Bound`, which counts the clients between
their test of `started` and `etp_start_thread`; `NoLostWakeup` is inductive as
soon as no worker is at "timedout".

*The refinement.* `Mapped` adds to `IInv` that every request is in the list of
its own priority (`PriOK`), that a result was performed or was cancelled in
time (`PerformedOK`), and that the service's `count` is that of the stages
(`StageCounts`). `InvStages` reads the stage of a request off its place;
`SamePlace` reduces each step to the places it changes, and one lemma per
action shows it to be a step of `EioService` or a stutter.

*The fork.* `ForkInv` is `IInv`, `CountInv` and `PerformedOK` again, now of the child, and
`PipeShared`: the surplus is the parent's byte. `Fork` establishes the
first three from nothing, since the handler empties the queues and resets the counters; the only
requests that live on are in the callback of the thread that forked.

*AsyncIO.* `IInv` ties the stage of a request, its `java_data`, its
wrapper and its references to the program counters of the one thread that has it
(`SubmittersOK`, `PollersOK`, `RequestsOK`, `RefsOK`). With one thread, an
operation that has not returned keeps the thread from `poll`: `Take` cannot
happen before the wrapper is stored.

*The groups.* The stack is what makes them hard, so `IInv` begins with its
discipline (`StackOK`): which frame may lie on which, and that no request is
in two of them. `PlacesOK` says that a live request is submitted, delayed or on
the stack; `PointersOK` that each pointer of the member list has its counterpart.
That walking the list from `first` meets every member, and that a nesting of
groups ends, would be an induction along pointers for each step; `ListsEnd` and
`NestingEnds` instead state the absence of cycles as "every set has a first", and
`ListOf` is defined as the smallest set closed under `next` (`Chain`).
`DelayedOK` and `FeedOK` say who will finish a delayed group and who feeds one
below its limit.

*The sort* (`SortInv`, in `DentSortProofs`). Neither `ListingOrdered` nor
`SentinelHolds` is inductive, since both rest on what the radix sort left behind. The
central notion is `Cut`: nothing from an index on is smaller than
anything before it. `StackOK` says that every part, the current one and those put
off, has a cut at both ends, that its elements agree in all bits above its own, and
that the parts follow each other without a gap. A split keeps it: elements that
agree above a bit and differ in it compare as that bit does (`BitOrders`,
`SplitCut`), and with no bit left the elements are equal (`BitsCover`: the bits
tested tell all elements apart that are sorted). `StackOK` also counts: the part
at place n of the stack has n bits above its own, which is why the stacks are
large enough. `RadixFirst` carries the argument for the sentinel: the parts are
taken from the front, so the first one that is not empty is either shorter than
`EIO_SORT_CUTOFF` or made of equal elements, and a smallest element of the
array is among the first `EIO_SORT_CUTOFF` (`MinimumNear`). With that element in
front (`Smallest`) the inner loop stops in time, and `Prefix` is the insertion
sort's own invariant: the elements before `si` are in order except for the free
place. `Array` is the array with the element that the inner loop holds put into
that place; every step permutes it (`Permuted`).

*Induction.* The sort's bits need sums of powers of two, hence induction over
numbers. The library's induction theorems are out of the prover's reach
because they take an operator as a parameter; `LeastNat`, that a set of natural
numbers which is not empty has a least one, follows from the theorem on
well-founded relations, which takes a set. A proof by induction looks at
the least counterexample.

*eio__scandir* (`ScandirInv`). `Blocks` says what each array points to at each
place, with `moved` for the new block while `wrklock` is held. `Contents` relates
the array to `Put`, the entries read and not skipped: as many, each described by
one element, with names that do not overlap. It survives the sort because the sort
only permutes (`SortContents`). `Phases` and `SortedPart` say which flags have led
to which sort, so that `InvOrdered` can read the order of the listing off `SortInv`.

*The other helpers.* `PositionInv`: who holds `preadwritelock` knows the position
before the calls. `TransferInv`: offset and count always account for what has
been sent. `RangeInv`: addresses lie on page boundaries, and nothing wraps unless
the range touches the last page (`RealRange` names the case). `FlagInv` rests on
a lemma about sums of different bits; `SystemFlagsAssumption` says they are
different by divisibility, without powers.

*One operation.* `IInv` says, for each stage of the call, which blocks are its
own: before the system call the copies of its paths (`NewRequest`), afterwards
what `eio_destroy` frees and what is forgotten (`MadeRequest`). For the
arguments, `Takes` names the parameter, C type and field of one argument; the lemmas
`TakesInt` to `TakesPointer` say what the field then holds, and the
conversions keep it because every parameter passed on as an integer is a Java
int and a long is a multiple as wide (`OperationAssumption`). `FileCalls`, `DataCalls` and
`PathCalls` compare `SystemCall` with `Meant` for each operation, and `Arriving`
carries the arguments from the method to the worker; `SubmittedPri` is the
arithmetic of the priority. The operations in
`Misbound` are excepted by the property itself.

*Model-checked only.* `FlushTerminates` and `AllFinish` are liveness under
fairness, which is out of the prover's reach; every invariant and action property
that a passing run checks has a theorem, under the hypotheses in the table. The
five runs that expect a violation are counterexamples, so there is nothing to
prove. That the sort and the loops of the emulations end is not stated: they are
sequential loops over finite data.

## 5. Definitions whose name begins with Bug

Each is a variant of the definition that follows it with a plausible mistake
(a dropped guard, an update left out). No specification uses them; they show
that a property can fail (`PROJECT.json`, "mutants").

## 6. Plan

Modelled: the queue, the pool, the pipe and flush; fork; the operations; the
Java side of a request; groups; directories and their sorting; the emulations.
Proved: every safety property of a passing run, and the refinement of `EioService`
(section 4). What could follow: `utimes`, `futimes` and `fdatasync` in
`EioEmulation`, so that the emulations are complete; and in `EtpPool` a second
thread that flushes, which may block for ever at `asyncio.c:58`.

## 7. Not modelled

* The system calls themselves, and `utimes`, `futimes` and `fdatasync` where the
  system lacks them: each is one other call, or a failure.
* `NativeFunctions`: every function is one call of `malloc`, `free`, a string
  function or `GetStringUTFRegion`, or one access to memory, and keeps no state.
* The linked lists under `etp_reqq`: `EtpReqq` has sequences. A list is only
  appended to and shifted, with the queue's lock held.
* What follows a failing `calloc` in `etp_start_thread` (an assertion) and in
  `etp_end_thread` (a null pointer): the process ends.
* Two threads that flush at the same time: the one whose last request the other
  polls blocks for ever (`asyncio.c:58`); the Java API does not support it.
* `demo.c`, the example programs and the build files.
