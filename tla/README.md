# Verification of bpftime-benchmark

TLA+ models of the programs in this repository, the TLC runs that check them on
small instances, and proofs, checked by TLAPS, of what matters most about them for
every size.  Paths are relative to the root of the repository; "the directory" of a
module is the one named in its row below.

The repository is a set of benchmarks.  Most of its text starts programs and prints
figures; what can go wrong in ways a run of the benchmark would hardly show sits in
two places:

* the **eBPF extensions** that bpftime loads into a running program and that replace
  its system calls: the four durability policies for Redis' append-only file, and the
  directory cache.  They keep state in maps that outlive the process, run in whatever
  thread makes the call, and wait on a shared ring;
* the **drivers** that start a server, follow its output, measure a client beside it
  and clean up, under asyncio or with blocking calls and timeouts.

## Inventory

### Redis durability (`benchmark/redis-durability-tuning`)

| Component | State | Operations | Status |
|---|---|---|---|
| `delayed-fsync/redis.bpf.c` | `successful_writeback_count`; bpftime's global io_uring | `start_config` (entry of `initServerConfig`), `start_fsync` (replaces `fdatasync`) | modelled, `DelayedFsync` |
| `batch_process/redis.bpf.c`, `poc-iouring-minimal/redis.bpf.c` (the same hooks, but that its write hook takes calls of five bytes only) | `current_count`, `patch_size`; the ring | `start`, `start_write`, `start_fsync` | modelled for one calling thread, `BatchIo` |
| `fsync-fast-notify/redis.bpf.c` | the ring | start hook, `start_write`, `start_fsync` | modelled, `FastNotify` |
| `benchmark.py` | running server, results | `start_redis`, `stop_redis`, `run_benchmark`, `benchmark_all` | `stop_redis` only (the kill in `DelayedFsync`) |

The server calls write and then fdatasync, in its main thread, before it replies to the
clients (`appendfsync always`, which `benchmark.py:116` sets for all custom servers);
its background threads may call fdatasync too, and the hook sits on the C library's
function.  The maps belong to the loader (`redis.c`) and outlive a server; the ring
belongs to the process.  It is made for a single issuer
(`poc-iouring-minimal/fsync_write.c:39`), the main thread, in which the start hook runs:
a submission of another thread is refused, the hooks do not look at the error, and the
entry stays in the queue.  Hard: two threads in the hook between reading the count and
clearing it, or inside a helper, none of which locks; a thread that waits for an entry
that was refused, or takes what the main thread waits for; completions that do not say
whose they are; completions that report failure and are not read; a restart with
requests in flight; entries that execute in any order; the count at the edge of the
batch.  Correct means: a bound on what a power failure takes, and that no call waits for
a completion nobody will produce.

### Directory cache and pass-through file systems (`benchmark/fuse`)

| Component | State | Operations | Status |
|---|---|---|---|
| `bpf/fs-cache.bpf.c`: getdents64 cache | `getdents64_cache_map` (`buf`, `nread`, `last_pid_tgid` per path) | enter and exit hook of getdents64 | modelled, `DirCache` |
| `bpf/fs-cache.bpf.c`: descriptor table | `dir_fd_map`, `open_args_start`, `getdents64_args_start`, `fcntl_args_start` | hooks of open, openat, close, getdents64, fcntl | modelled, `FdPaths` |
| `bpf/fs-cache.c` loader | the open filter | load, attach, write the filter, poll | not modelled |
| `fs/passthrough.c` | `op_counts` under a mutex, printing thread | FUSE handlers, SIGINT handler | not modelled |
| `fs/passthrough.py` | `op_count` | handlers, printing thread | not modelled |
| `benchmark.py`, `bench.cpp` | none beyond a run | listing loop, timed loops | the loop of `bench.cpp` drives `DirCache`; the driver is not modelled |

Hooks of different processes share the maps and interleave; the exit hook inserts an
empty entry and fills it field by field, and the enter hook reads the live value field by
field; one `last_pid_tgid` per path tells where a listing ends; the threads of a process
share its descriptors, so that one may be closed and reused in the midst of a call on
it.  Correct means: a listing gives each entry once,
comes to an end, never shows bytes that nobody has read, and is never cached under
another directory's path.  The code keeps the last two with restrictions, which the
properties name (`early` and `race`, `irregular`).

### Drivers of servers and scripts of CI

| Component | State | Operations | Status |
|---|---|---|---|
| `uprobe/benchmark.py` | server process, its pipe and stream, reader task, two events, result lists | `run_userspace_uprobe_test`, `run_kernel_uprobe_test`, `handle_stdout` | the tests with a server: `ServerTest` |
| `mpk/benchmark.py` | the same | `run_mpk_test`, `run_standard_test` | `ServerTest` |
| `deepflow/benchmark/run.py` | the same, and up to three servers | `run_vanilla_test`; the kernel and userspace probe tests | the vanilla test: `ServerTest`; the others are not modelled |
| `.github/script/run_example.py`, `run_nginx_attach_example.py` | server and agent (controller and nginx), a reader and a stream for each, the events the readers set | `handle_stdout`, `main` with its waits, requests and `finally` block | modelled, `CiRunners` |

The reader (`handle_stdout`) races a `readline` against an event and cancels the loser;
the test waits for the line that says the server is up, ten seconds at most, measures,
stops the reader, kills the server and collects what is left.  Hard: cancellation with
a line in hand; the server's death at any of these points; the end of the output taken
for an empty line; the kill of a process that is gone; a full pipe.  Correct means: no
output lost or read twice, one reader of the stream at a time, values that survive the
clean-up, and a test that ends.

The scripts of CI share that reader and give it callbacks: events that are set when a
line holds the start line of the program or the expected string, and an assertion that
the agent prints no error.  A script succeeds when `main` raises nothing, so what it
reports hangs on which of its awaits an exception meets.  Hard: children that die
between any two awaits, a clean-up that runs after every one of these and in which a
name may be unbound or a process gone, a reader that has failed long before it is
joined.  Correct means: no success without the evidence for it, nothing counted after
an error, no child forgotten, and an end.

### Blocking drivers and the rest

| Component | Status |
|---|---|
| `syscount-nginx/benchmark.py`: five tests of nginx with and without a tracer, time limits, counters of valid and failed runs, clean-ups by name, exit status | `NginxSuite`; not its preflight checks, statistics and reports |
| `ssl-nginx/benchmark.py`, `perf_stat_sslsniff.py`: preflight checks, runs, exit status | not modelled |
| `syscall/benchmark.py`, `syscall.c`, `syscall.bpf.c`, `victim.cpp`: protected pids, clean-up by pattern | not modelled |
| `gpu/run_cuda_bench.py`, `load-latency/benchmark.py`, `fuse/benchmark.py` | not modelled |
| `draw_figture.py` and other plotting scripts, Go servers of deepflow, microbenchmark programs, workflows, images, Makefiles | not modelled: no state that relates two things |

In `syscount-nginx` the tracers run under sudo beside wrk, and nginx and the tracers are
found again by their names.  Hard: a run has some ten exits that each mark it in their
own way; a tracer may outlive its run, and a test may return with its nginx alive.
Correct means: what is counted was measured with the processes of its run and no others,
no run gets lost, each run that does not clean up first finds the port free and no tracer
alive, and no tracer outlives the script.

## Modules

| Module | What it models | Checked by |
|---|---|---|
| `DurableLog` | what a durability policy for an append-only log promises; abstract | refined by `DelayedFsync` |
| `SafeUpdates` | what a hook promises that says of a write and an fsync that all went well, where updates reach the disk in any order; abstract | refined by `BatchIo` and `FastNotify` |
| `DelayedFsync` | the delayed-fsync hooks, their threads, ring, kills and power failures | runs `delayed_fsync`, `delayed_restart`; `DelayedFsyncProofs` |
| `BatchIo` | the batching hooks under one thread that writes and flushes in turn | run `batch_io`; `BatchIoProofs` |
| `FastNotify` | the submit-and-wait hooks with other threads whose submissions the ring refuses | run `fast_notify`; `FastNotifyProofs` |
| `DirCache` | the getdents64 hooks for one directory and several processes, field by field | run `dir_cache`; `DirCacheProofs` |
| `FdPaths`, `MCFdPaths` | the descriptor table; the symmetry for TLC | run `fd_paths`; `FdPathsProofs` |
| `ServerTest` | an asyncio test with a server, in the shape of three drivers | runs `server_test`, `server_test_mpk`; `ServerTestProofs` |
| `CiRunners` | the two example scripts of CI, as three: `example`, `readline` (bashreadline returns once the agent runs) and `attach` | runs `ci_runners`, `ci_runners_error`; `CiRunnersProofs` |
| `NginxSuite` | `syscount-nginx/benchmark.py` | runs `nginx_suite`, `nginx_suite_user`; `NginxSuiteProofs` |

Variables have the source's names where the source has one.  In each module a few
definitions stand before the one they vary (`StartConfigNoReset` before `StartConfig`):
a mistake the code could have made, with which the property named in `PROJECT.json`
fails.  No specification uses them.

**How state and steps correspond.**

* `DelayedFsync`: `pc[c]` is where a calling thread is in `start_fsync`: at the test of
  the count (`StartFsync`), in `io_uring_wait_and_seen` before and after it has found a
  completion (`Wait`, `Seen`), at the store and the submission (`SubmitFsync`).  The test
  and the store are separate steps, since another thread may run between.  The unit of
  data is the write, and `inflight` holds the lengths of the log that submitted fsyncs
  will cover.  An entry of another thread gets as far as `queue`, and into the ring with
  the next submission of the main thread.  `clash` is set when two threads meet inside a
  helper: from then on a wait may pass without a completion, or leave the one it took.
* `BatchIo`: one action per hook (one thread calls), one per turn of the loop of waits.
  Entries carry their call and update; the queue drops an entry it has no room for, as
  the helper does, and the hook counts it all the same.
* `FastNotify`: the submission, the wait and the taking of the completion are three steps
  of each hook, on the ring of `DelayedFsync`; a waiting thread takes any completion.
* `DirCache`: each write of the exit hook into the cached entry is a step.  So are, in
  the enter hook, the copy of `buf` (`EnterHit`), the reading of `nread` (`ReadNread`)
  and the writing of `last_pid_tgid` (`MarkLast`).  Its test of `last_pid_tgid` is one
  step with the copy: when that is not the caller's id, only the caller itself can make
  it so.  `overlap`, `abandon`, `race` and `early` record what has happened, for the
  properties to say when they hold; `early` names the listings served from a buffer
  between its insertion and its first write.  `KernelFails` is a call that ends with an
  error: the exit hook returns, and the caller gives up or goes on, as the two loops of
  `bench.cpp` do.
* `FdPaths`: enter hook, system call and exit hook are steps of their own, and any thread
  may close or list any descriptor at any of them.  The kernel gives the lowest free
  descriptor.  `irregular` records what the hooks get wrong: `openat` with a directory
  (the line that would join the paths is commented out), `fcntl`, an exit with
  descriptors still mapped, a close or a listing of a descriptor whose open has not
  returned, a listing of one whose close is under way, and the reuse of a descriptor
  while another thread is in a call on it.
* `ServerTest`: an action is what runs between two awaits.  `known` and `gone` tell the
  exit being noticed from the transport being closed: only the second makes `kill`
  raise.  `suite` selects the details in which the drivers differ: when a run of the
  measured program raises, deepflow's test goes on in its `finally` block, the others
  leave the program (`RunFails`).
* `CiRunners`: likewise, an action is what runs between two awaits; the step that leaves
  the `try` block does all of the `finally` block up to its first await (`Finally`): it
  sets `should_exit` and sends the signals, up to the first name that is unbound or
  transport that is closed.  A line of output is the set of the marks it holds, and a
  line that cannot be decoded fails its reader.  `Callbacks` is `callback_all` of each
  reader.  `outcome` is how `main` leaves the `try` block, which is how the script exits,
  as the clean-up swallows its own exceptions (except the unbound `should_exit` of
  `run_nginx_attach_example.py`, a finding).
* `NginxSuite`: an action ends where the script blocks.  `valid` and `failed` are the
  counters of `run_stats` for the test at hand.  `counted` and `rate` hold the
  circumstances (nginx, tracers) under which wrk measured, which the script does not
  know.

Code outside the repository (the io_uring helpers of bpftime, the kernel, asyncio) is
modelled by what this code needs of it and marked external in `PROJECT.json`.  The
helpers follow the reference text in `poc-iouring-minimal/fsync_write.c`.

## Runs

| Run | Bounds | States | Shows |
|---|---|---|---|
| `delayed_fsync` | 2 calling threads, 4 writes, failures and restarts | 390823 | until two threads meet inside a helper: bounded ring and, while no fsync fails, bounded loss and `DurableLog` implemented; until a request is refused besides, no wait for nothing and every write answered |
| `delayed_restart` | 1 thread, 4 writes, restarts | violation | the README's "at most 2 updates" does not survive a restart of the server alone |
| `batch_io` | 1 thread, `patch_size` 0 to 3, room for 4 entries, 6 updates, failures, 1 start | 59719 | a full batch is waited for with exactly its completions; no gap in the file between batches; loss bounded by the batch; calls return; `SafeUpdates` implemented with `patch_size` updates at risk |
| `fast_notify` | 2 threads, 2 updates, failures | 192686 | ring and queue together owe one completion to each waiting thread; every write answered until a request is refused; a reply means durable while alone on the ring: `SafeUpdates` implemented with none at risk |
| `dir_cache` | 2 processes, up to 3 entries, the cached and the callers' buffers of 2, 1 change, 1 entry beyond the limit in a listing | 551028 | a listing by itself gets what was cached, whole and once, and ends, unless its calls fail; no garbage but in a listing that reads an entry before its first write, or when two processes fill it at once |
| `fd_paths` | 2 threads, 2 directories, 2 descriptors | 1174364 | between the calls that open and close it the table names a descriptor's directory; entries are cached under the right path; both until a call the hooks get wrong |
| `server_test` | uprobe and vanilla; 2 runs, 4 lines, pipe and stream of 2 lines | 31715 | no line lost, one reader, safe clean-up, the test ends |
| `server_test_mpk` | MPK; 1 run, 1 line | violation | the test hangs when its server dies |
| `ci_runners` | the three scripts; 2 lines of each child, a stream of 1 line | 423490 | success has its evidence; nothing counts after an error; which children the clean-up reaches; the script ends |
| `ci_runners_error` | `example`; 2 lines | violation | an error in the agent's output does not fail the script |
| `nginx_suite` | 3 runs of each test, root | 56272 | runs are measured alone and accounted for; each userbpf run starts on a clean machine; the suite ends |
| `nginx_suite_user` | 1 run, another user | violation | the clean-up cannot end a tracer |

**Why the bounds are enough.**  `delayed_fsync`: the count's only values are -1 and 0
and each thread has at most one request outstanding, so two threads give every order of
test, wait and submission, and every way to meet inside a helper; four writes allow a
failure or a restart in the middle, and the bound of three is reached.  `batch_io`: four
sizes include the degenerate batch of one and the one that exactly fills the queue; six
updates are at least one and a half batches of the largest size.  `fast_notify`: two
threads share or steal completions; in two updates of two requests each a stolen
completion, or a refused entry, outlives its call and meets the next ones.  `dir_cache`:
directories that fit in the buffers and that do not; the cached buffer and the callers'
have the same size, as `DENTS_BUF_SIZE` and the buffer of `bench.cpp` have (2048); two
processes are what one `last_pid_tgid` can be disputed by, and are a filler and a
reader; a listing by itself is never given more than the directory can hold, so the
bound `MaxExtra` cuts only what overlapping listings go on with.  `fd_paths`: two
descriptors let one be reused while the other is open, by a thread in the midst of the
other's call; threads and directories are interchangeable, which the symmetry uses
(safety only).  `server_test`: four lines pass through pipe and stream of two each, so
both fill and drain. `ci_runners`: two lines let an error come before and after the
expected string, and a start line with either; the stream of one line lets the end of
the output come with and without a line unread.  `nginx_suite`: a run has one before it
and one after it, so that what one leaves behind is there for the next; the five tests
follow one another, which is the other boundary.

Deadlock is checked in the `delayed_*` runs, where something can always
happen.  In the others the model stops when its bound is reached, a test is over, or
its program has ended for the last time; there `CHECK_DEADLOCK FALSE` is set and
liveness properties say what must not stop (except in `FdPaths`, whose threads owe
nothing).

## Fairness

* Threads in a hook are scheduled (WF on their steps); nobody has to make another call,
  and the machine may be killed or not.
* The kernel answers each request it was given (WF on `Kernel`): submitted requests
  complete, well or not.
* A thread that waits gets a completion if unseen ones keep appearing (SF on `Wait` in
  `DelayedFsync` and `FastNotify`).  With WF another thread could take every one.  This
  is an assumption on the helper and the kernel, that no waiter of the ring is passed
  over for ever; with a single caller it is no stronger than WF.
* `DirCache`: a process within a call goes on with it and makes the next one until its
  listing ends.  The kernel does not fail every call of a process that goes on calling
  (SF on `Kernel`): the timed loop of `bench.cpp` looks at no error and would not end
  otherwise.
* `ServerTest`: the event loop serves ready callbacks, timers fire, the measured program
  ends (the drivers wait for it without a limit).  The server owes nothing: it may print
  or not, and die at any moment or never.
* `CiRunners`: the same of the loop and the timers; a request is answered or refused; a
  child that got SIGINT ends, and bpftime's CLI takes the program it runs with it.  A
  child that has not got it owes nothing.
* `NginxSuite`: what the script waits for ends, or its time limit does.  The tracer
  obeys the SIGTERM that reaches it.

## What is proved

For every value of the constants that the `ASSUME`s allow (finite sets of threads where
they are counted, natural bounds):

| Module | Theorem | Says |
|---|---|---|
| `DelayedFsyncProofs` | `TypeCorrect`, `Loss`, `Bounded`, `WaitsForSomething` | `TypeOK`; `LossBound`, for what is written and what is acknowledged; `RingBound`; `NoHang`, which with one calling thread always applies |
| | `Refines` | the extension implements `DurableLog` with its bounds set by the number of calling threads |
| | `PromiseMeansLoss` | whatever implements `DurableLog` with those bounds has `LossBound` |
| | `ReadmeBoundHolds` | the README's bound of two, for one calling thread, one start on a new log, and fsyncs that do not fail |
| `BatchIoProofs` | `TypeCorrect`, `BatchWaits`, `FileIsPrefix`, `BatchLoss` | `TypeOK`; `NoHang`, `PrefixBetweenBatches` and `LossBound`, these three assuming the program is started once (`MaxStarts <= 1`) and the queue has room for the batch (`RoomForBatch`) |
| | `BatchWaitsWithoutKill` | `NoHang` for any number of starts, as long as the program never ends without the machine (`[][~Kill]_vars`) |
| | `Refines` | the extension implements `SafeUpdates` with `patch_size` updates at risk, under the same two assumptions |
| `FastNotifyProofs` | `TypeCorrect`, `OwesOneEach`, `AckedIsDurable` | `TypeOK`; `OneEach`; `AckedDurable` |
| | `Refines`, `PromiseMeansDurable` | the extension implements `SafeUpdates` with no update at risk; whatever does has `AckedDurable` |
| `FdPathsProofs` | `TypeCorrect`, `MapRight`, `CacheRight` | `TypeOK`; `NamesMatch`; `CacheNames` |
| `DirCacheProofs` | `TypeCorrect`, `ServesNoGarbage`, `ListsAll` | `TypeOK`; `NoGarbage`; `ListingRight` |
| | `WrittenOnce` | no step replaces or removes a filled entry, unless two processes fill it |
| `CiRunnersProofs` | `TypeCorrect`, `SuccessIsEarned`, `ErrorsEndEvidence`, `ChildrenAreSignalled`, `CleanUpLeavesNothing` | `TypeOK`; `SuccessHasEvidence`; `NothingAfterError`; `NoChildForgotten`; `CleanEnd` |
| `NginxSuiteProofs` | `TypeCorrect`, `EveryRunCounted`, `MeasuresAlone`, `StartsClean` | `TypeOK`; `RunsAccounted`; `MeasuredAlone`, for root (`AsRoot`); `CleanStart`, whose part on tracers is for root |
| | `MeasuresKnown` | whoever runs the script, what a counted run was measured with: its nginx, its tracer, and at most one that each earlier kernel test left |
| `ServerTestProofs` | `TypeCorrect`, `ReadsAlone`, `CleanUpIsSafe`, `NoLineLost` | `TypeOK`; `OneReader`; `CleanUpKeepsResult`; `LinesInOrder` |
| | `ReportsAllOutput` | a test that returns has all its server printed: the reader's log followed by what `communicate()` read |

The arguments:

* **Delayed fsync.**  `LossBound` is not inductive: it does not say why the number of
  lengths in flight is bounded.  `IInv` adds that the count is -1 only with nothing
  outstanding and 0 only with something outstanding or about to be (`CountInv`), that
  requests, completions and threads past their wait are together no more than the
  callers (`RingBound`: each call takes a completion before it adds a request, except
  those that met -1, once per thread), and that each flushed length that is not safe is
  in flight (`LogInv`).  A refused entry in the queue counts as outstanding, which keeps
  these bounds true with any number of refusals; it is not one that a waiting thread can
  count on, and `NoHang` excludes it.  All this holds while the ring can be trusted: two
  threads past the wait at once may take one completion twice (`clash`), and both bounds
  on the loss end there, or when an fsync fails (`Sound`).  The loss is then the size of
  an interval that is a subset of a bounded set.  Restarts are part of the induction:
  `base` is the length found at the start, which no policy of this extension can answer
  for, and that is what the violated bound of the README leaves out.  `ReadmeBoundHolds`
  says the same from the other side: with one calling thread and no failing fsync,
  `base` is the only thing missing.
* **Batching.**  The step that submits a batch needs the count to be the number of
  queued entries (`CountInv`), which needs the entry of each call to be new (`FreshInv`)
  and the queue to have room.  The assumption of a single start is needed:
  `current_count` survives a restart (a finding).  For `PrefixBetweenBatches` and
  `LossBound` the calls are numbered as they are made, update n being written by call
  2n-1 and flushed by call 2n.  The queue and the requests in flight hold calls of the
  current batch only, and the file lacks just the updates that are there (`QueueInv`).
  Then the first fsync of a batch to be executed, in whatever order the kernel chooses,
  makes all earlier batches durable (`FlushInv`), and two batches hold `patch_size + 1`
  writes.  When an fsync returns, the batch being filled is empty or lacks a call, which
  makes one update fewer (`LostAfterFsync`): that is the number `Refines` promises, and
  TLC finds it reached.
* **Fast notify.**  Waiting threads and entries of ring and queue come and go in pairs
  (`OneEach`), refused ones included: a thread that hangs does so on a refused entry;
  alone on the ring, the main thread meets only its own completion (`OwnCompletion`).
  For `Refines` it is also needed that nothing is executed or replied to before it was
  made (`MadeInv`).
* **Descriptor table.**  While nothing irregular happens, what a thread leaves for its
  exit hook is what the hook needs (`Regular`).  No thread owns a descriptor: another
  may close it at any moment, which takes its entry first and leaves the exit hook
  nothing to fill.  Between the two halves of an open or a close the table and the
  kernel differ (`Halfway`); what could go wrong is that the descriptor is opened again
  while the thread is in its call (`Busy`).
* **Server tests.**  The reader's tasks exist only while it waits, the collection begins
  after the reader, and a closed transport is a noticed exit (`IInv`); the places a line
  can be in, one after the other, hold what was printed (`OrderInv`).  All but two of
  these places are empty when a test returns (`Drained`).
* **Directory cache.**  `NoGarbage` needs that only one process fills the entry and that
  it writes `buf` before `nread` (`Clean`): a copy taken after the first write holds all
  that `nread` will ever promise, one taken before it puts the listing in `early`
  (`Copied`).  `ListingRight` needs to know what the listing has been given at every
  place it can be (`State`): nothing, the kernel's answer, or what is cached; and that
  `last_pid_tgid` names the process just between its first answer and its end
  (`Settled`).
* **Scripts of CI.**  `Progress` says what each place of `main` implies: which children
  run, which events are set, which answers have come.  An event stands for a line that
  some reader has seen (`EventsHaveLines`), and a reader that has seen an error has
  failed (`ErrorStopsReader`); success then has its lines.
* **nginx suite.**  A run that has no rate when its tracer is waited for has been marked
  (`Marked`), so that the summary need not.  The tracers alive are the run's own and
  those left by earlier kernel tests, one of each (`OnMachine`): a tracer that may not
  be terminated ends its test.  Of a script of root there is none of the latter, from
  which `MeasuresAlone` follows.  A userbpf run makes no clean-up before it starts: that
  it finds neither nginx nor a tracer (`StartsClean`) rests on how the kernel tests end
  (`Machine`, `OnMachine`), between which and the userbpf tests nothing cleans up, and
  on every way out of an earlier run passing its clean-up.

**Only model-checked:** liveness (`EveryWriteAcked`, `EveryCallReturns`, `ListingEnds`,
`TestEnds`, `ScriptEnds`, `SuiteEnds`), which needs fairness and ENABLED.  That, and
induction over data, is out of the prover's reach; no module declares a RECURSIVE
operator.  Every invariant of the passing runs is a theorem.

## Disagreements

Listed in `PROJECT.json` with their lines.  Four are shown by a run: the README's bound
of two updates does not survive a restart (`delayed_restart`), the MPK test hangs when
its server dies (`server_test_mpk`), an error of the agent does not fail the example
(`ci_runners_error`), and the clean-up of syscount-nginx leaves the tracers of another
user than root (`nginx_suite_user`; `MeasuredAlone` does not hold for that user either,
and `MeasuresKnown` says what does). The others are read from the code.  Threads besides
the main one, which call fdatasync through the same hooks and whose submissions the ring
refuses, make the delayed-fsync extension wait for a completion that never comes, the
batching extension wait for a batch that only the main thread can submit, and the
fast-notify extension block or reply before the update is durable; `NoHang`,
`EveryWriteAcked` and `AckedDurable` hold up to there. `current_count` survives a
restart of the batching program; the fast-notify extension has no shared variable,
although the README describes one; a listing that copies the cached buffer before its
first write and reads `nread` after it shows bytes that nobody has read; entries are
cached under another path when their descriptor is closed and reused during the call, or
when a call on one that is being closed leaves the arguments of the thread's last call
in place; nothing invalidates the directory cache (`WrittenOnce`), the test that would
refuse too large a directory is commented out, and a descriptor duplicated by fcntl is
not in the table; `server.kill()` is called without a look at the return code in two
drivers; the uprobe driver makes its result lists in the first run only; a controller
that cannot be started makes the clean-up of `run_nginx_attach_example.py` fail on an
unbound name; and a server that has gone keeps `run_example.py` from signalling the
agent.

## What the models leave out

* File contents, descriptor numbers and buffers in the durability models: an update is
  its number.  A queued entry that points to a buffer the caller reuses is therefore not
  seen (listed as a hazard).
* The order in which the kernel writes pages back: any page may become durable at any
  time.  After a failed fsync `DelayedFsync` assumes nothing more becomes durable.
* A ring whose helper fails to initialise.  The helpers' errors are ignored by the hooks;
  the full queue and the submission of a thread that did not make the ring are modelled.
* What happens after two threads have met inside a helper: `clash` is the worst the
  models know, and the properties claim nothing from there on.
* Other threads in `BatchIo`: what they would do to a batch is a finding and a hazard.
  Writes of another length than five bytes in `poc-iouring-minimal`, which its program
  does not make on the file.
* Two listings that overlap may each put off the other's end: `ListingEnds` excludes
  them, and that hazard is covered by no property.
* Directories whose listing does not fit are modelled, and cached wrongly, but the
  properties of `DirCache` claim nothing for them.  Once a listing is over, a further
  call is answered with the listing again, not with 0; the timed loop of
  `bench.cpp` measures just that (`ReadOn`).
* The open filter, `newfstatat` and `statfs`: they change none of the maps modelled.
* In `ServerTest`: output that cannot be decoded, lines above asyncio's limit of 64 KiB,
  a signal to the driver itself, and `--iter 0` (`BoundAssumption`).  An aborted test is
  modelled up to the exception; that its server keeps running is reported as a finding.
* In `CiRunners`: lines above 64 KiB, a request that is never answered, and a signal to the
  script.  A child that blocks on a full pipe is one that prints no more.  The expected
  string may come from the server before the agent has started: the code accepts that,
  and so does `SuccessHasEvidence`.
* In `NginxSuite`: the preflight checks (a script that fails one runs no test), the
  statistics and reports but for their exceptions, the SIGKILL after a SIGTERM that is
  not obeyed, and a signal to the script.

## Not modelled

* `fs/passthrough.c`, `.py`: counters under one mutex and a thread that prints them.  The
  signal handler takes the mutex too, but libfuse blocks the signal in its worker
  threads, so that it meets a lock of its own thread only when mounted single-threaded.
* The probe tests of deepflow: the servers of `ServerTest` two and three at a time, one
  after the other; their clean-up is listed as a hazard.
* `ssl-nginx`, `syscall`, `gpu`, `load-latency`, `fuse` and `redis` drivers: blocking calls
  in sequence in the shape of `NginxSuite`, where the next step waits for the last.
* Loaders, microbenchmark programs, plotting scripts, Go servers, workflows, images and
  build files: no state that relates two things.

## Plan

1. `ProbeTest`: the kernel and userspace probe tests of deepflow: several servers with
   readers, the clean-up that uses names a time-out left unbound, the pipe nobody reads.
2. The suites of `ssl-nginx` in `NginxSuite`, where they differ.
3. An exact directory listing as an abstract specification that `DirCache` implements for
   directories that fit.

Where a question of two suites is the same, one run asks it of both (`Suites` in
`ServerTest` and `Scripts` in `CiRunners` are the pattern), so that the runs stay few.
