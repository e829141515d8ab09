# tmc-examples: a verification project

tmc-examples is the companion repository of the TooManyCooks (TMC) coroutine
library: sample programs, two pipeline headers, adapters that connect foreign
executors, callbacks and coroutine types to TMC, asio programs, benchmarks and
the library's tests. The library itself is a git submodule and not part of the
tree; channels, semaphores, bounded queues, muxes, fork groups and timers are
therefore modelled from how the code under `examples/` uses them (and from what
`tests/` says of them), and marked external in the map of `PROJECT.json`.

## 1. Inventory

All paths are under `src/examples/` unless they say otherwise.

| Component | State it keeps | Operations | Interacts with | Hard behaviour |
|---|---|---|---|---|
| **Channel pipeline** `pipeline.hpp`, `pipeline.cpp` | per stage: output channel, output semaphore; worker coroutines; a task that joins the workers and drains the channel; the driver's loop, `sum`, `count` | construct stage; worker pull / release / acquire / process+post; end worker consume; drainer close and drain; driver acquire, post, drain, join | stages share a channel and a semaphore with their neighbour; fork group joins all | workers of five stages interleave; tokens cross tasks; posting to a closed channel drops silently; orderly shutdown |
| **FIFO pipeline** `pipeline_fifo.hpp`, `pipeline_fifo.cpp` | per stage: bounded queue of fork handles; one worker; end stage: internal queue and `active` | worker pull / await / fork+push / close; end worker inline, or forking with drain and flush; driver push, close, join | bounded single-producer single-consumer queues; forked tasks | tasks end in any order, results leave in order; the in-flight bound; a consumer that must not block on its own queue |
| **External thread pool and adapter** `external/external_executor.hpp`, `.cpp` | mutex, condition variable, deque, `stop_requested`; the adapter's thread | `post`, `run`, `request_stop`; adapter `post`, `post_bulk`, constructor, destructor | any thread posts, work items post, the owner stops and joins | lost wakeups, spurious wakeups, user work with the mutex released, stop against pending work |
| **External coroutine type** `external/external_coro.hpp`, `.cpp` | `continuation`, `result_ptr`, `result` of every frame | `await_suspend`, `return_value`, `final_suspend`, `await_resume` | TMC tasks await it and are awaited by it | who resumes whom, who destroys a frame and when |
| **Batch processor** `asio/batch_processor.cpp` | mux slots, timer, `batch` | pull completes, timer completes, close | queue producers, asio thread | pull, expiry and cancellation in any order; a stranded last batch |
| **Callback awaitable** `external/callback_awaitable.hpp`, `.cpp` | stored result, continuation | initiate, callback, resume; alone or in a `spawn_tuple` | foreign threads | callback inline, or on another thread before the initiating call has returned |
| **External awaitable** `external/external_awaitable.cpp` | a thread, a lock, the continuation | start, resume, join in the destructor | foreign thread | destructor against the assignment of the thread |
| **Atomic awaitable** `src/tests/atomic_awaitable.hpp` | an atomic counter, a thread, a lock | `inc`, `await_ready`, `await_suspend`, `async_initiate`, destructor | test tasks, their threads | missed increments; destructor against the assignment of the thread |
| **Timeouts and select** `asio/mux_timeout.cpp`, `asio/select.cpp`, `asio/delay.cpp` | mux slots, timers | first completion wins, the rest are cancelled | asio | cancellation racing completion |
| **Network servers** `asio/http_server.cpp`, `asio/http_skynet.cpp`, `hwloc/asio_server_per_cache.cpp`, `hwloc/asio_thread_per_core.cpp` | acceptors, sockets, handlers | accept, read, write, close, join | clients, the operating system | errors of accept, read and write; shutdown with handlers running |
| **Braid** `braid.cpp` | a braid, a plain counter | six groups of tasks, on and off the braid | CPU executor | `v++` of many threads; what is serialised |
| **Groups from iterators** `spawn_iterator.cpp` | an iterator, results, an atomic | bounded, filtered, detached groups | CPU executor | iterators shorter and longer than the bound |
| **Priorities** `asio/prio.cpp` | none | prints priorities | library | none of its own |
| **Benchmarks** `chan_bench.cpp`, `queue_bench.cpp`, `exec_st_roundtrip_bench.cpp` | queue, counters | produce, consume, sum; go to an executor and back | library | partition with remainder, consumer termination |
| **Fork-join samples** `fib.cpp`, `skynet.cpp`, `sync.cpp` | results | recursive spawn, futures | library | index arithmetic |
| **Platform samples** `hwloc/hybrid_executor.cpp`, `hwloc/topo.cpp`, `alignment.cpp`, `asio/timer_mem_bench.cpp`, `util/`, ... | configuration | set-up, printing | OS | none of their own |
| **Library tests** `src/tests/` | | | TMC | they test the library, which is not here |
| **Build, CI** `src/cmake/`, `.github/` | | | | not program logic |

What makes each of the modelled ones correct:

- *Channel pipeline*: every element is processed once by every stage and reaches
  the consumer mapped; no channel holds more than twice its readers; tokens are
  neither lost nor made up; nothing is posted to a closed channel; the join
  happens, and only when everything has been consumed.
- *FIFO pipeline*: the same, in input order; no stage has more tasks in flight
  than its parallelism; the end worker never waits for itself; no consume
  outlives the join.
- *Thread pool*: every posted item starts once, in order; no wakeup is lost;
  `run()` leaves nothing behind; the destructor returns.
- *External coroutine*: frames form a stack, a frame is destroyed once, after
  its result was read; every awaiter is resumed.
- *Batch processor*: every element is in one batch, in order, and is processed
  before long; after close the coroutine returns with nothing unprocessed.
- *Callback, external and atomic awaitable*: the coroutine that goes on has its
  results; the waiter misses no increment; the destructor never runs ahead of
  the thread that is still inside `await_suspend()`; the coroutine does go on.
- *Timeouts and select*: only losers are cancelled; an iteration outlives every
  wait it has begun; the loop ends whatever a cancellation races with.
- *Servers*: whatever fails, when main returns no handler runs and no socket is
  open; who connected is answered or reset; a server without acceptors ends.
- *Braid, iterators, round trips*: no increment is lost, the number of tasks and
  the sums are those the samples assert, every round trip is made, and each group
  ends.
- *Benchmarks*: the shares of the producers partition the elements; every
  element is counted once; the consumers end.

`PROJECT.json` lists the hazards of the code, each at the line where it bites,
with the properties that watch it.

## 2. Modules

| Module | Models | Proofs |
|---|---|---|
| `ExternalExecutor` | the pool and the adapter | `ExternalExecutorProofs` |
| `WorkPool` | what an executor promises; abstract | |
| `Pipeline` | `pipeline.hpp` and the driver of `pipeline.cpp` | `PipelineProofs` |
| `ParallelMap` | what a pipeline promises; abstract | |
| `PipelineFifo` | `pipeline_fifo.hpp` and the driver of `pipeline_fifo.cpp` | `PipelineFifoProofs` |
| `OrderedMap` | `ParallelMap` that may have to deliver in order; abstract | |
| `BatchProcessor` | `timedBatchProcessor` and its client | `AsioProofs` |
| `ExternalCoro` | the coroutine type and the chains of `external_coro.cpp` | `ExternalCoroProofs` |
| `ForeignAwaitable` | the atomic, the external and the callback awaitable, each with the coroutine that owns it | `ForeignAwaitableProofs` |
| `Race` | an operation against a timeout: `mux_timeout.cpp`, `select.cpp`, `delay.cpp` | `AsioProofs` |
| `Server` | `accept`, `handler` and `main` of the four servers, with their clients | `AsioProofs` |
| `TaskGroup` | the groups of `braid.cpp`, `spawn_iterator.cpp` and `exec_st_roundtrip_bench.cpp` | `CountingProofs` |
| `Bench` | the producers, consumers and drivers of `chan_bench.cpp` and `queue_bench.cpp` | `CountingProofs` |
| `Sums` | the sums and powers of two that the last two add up | `SumTheorems` |
| `MC...` | values for the constants of each, for TLC | |

`ExternalExecutor` implements `WorkPool`, `Pipeline` implements `ParallelMap`, and
`PipelineFifo` implements `OrderedMap`, whose variable `ordered` says whether the
delivery is in order: the refinement gives it the value `Inline`, true of an end
stage of parallelism 1. Each refinement is stated as `INSTANCE ... WITH` at the
end of the detailed module and checked as a property; its safety part is proved.

`AsioProofs` and `CountingProofs` each speak of several modules at once; `Race`,
`Server` and `TaskGroup` therefore name their parts `RaceInit`, `ServerNext`,
`GroupSpec` and so on.

### State and actions beside the code

**ExternalExecutor.** `mut`, `queue`, `stop_requested` are the members; `pc`
says where a thread is; `work[r]` is the local `work` of runner `r` in `run()`.
`posted`, `started` and `finished` are history. A step lies between two points
where another thread can interfere: lock, test of the predicate, atomic
unlock-and-block, wakeup, pop and unlock, return of the work item, relock. In
`post()` the push under the lock and `notify_one` after it are two steps
(`Post`/`PostFromWork`, then `NotifyFromPost`/`NotifyFromWork`), and so are the
two halves of `request_stop()`. A work item may post any number of others while
it runs. `notify_one` wakes an arbitrary waiter, or nobody when nobody waits;
`SpuriousWakeup` is the freedom the standard gives to `wait`. The adapter is
the case of one runner; two are checked because the header says that each
caller of `run()` participates. A lock acquisition with nothing else in the
critical section is merged with the section it guards. A foreign thread may begin
a post until the destructor's join has returned, also while the pool is being
stopped, and its notification may come at any time after that.

**Pipeline.** `chan[k]`, `closed[k]`, `sem[k]` are the channel and the semaphore
in front of stage `k`; `held[w]` is the element in the hands of worker `w`.
`Construct` is the constructor of a stage, which grants the tokens of its input
and starts its workers while the earlier stages already run. `Pull`, `Release`,
`Acquire`, `ProcessAndPost` are the lines of the worker's loop, each a point of
suspension or of visible effect. `DrainerClose` closes the output once all
workers of the stage have returned, `DrainerDone` ends once it is empty;
`DriverClose`/`DriverDrained` do the same for the input. A `post` to a closed
channel is dropped, as the library does. `ConsumeLoad` and `ConsumeStore` are
the read and the write of `sum` and `count`. Every element carries a ghost id.

**PipelineFifo.** `parallelism` is chosen at the start among the tuples of the
constant `Parallelisms`. A slot of `queue[k]` holds an element (`k = 1`) or the handle
of the task forked for it. `fork[k][i]` is the state of that task. `Pull`,
`Await`, `Push`, `Release` are the worker's loop: the pull is a zero-copy scope,
so the slot is given back when the iteration ends (`Release`), after the push
downstream. `Close` follows the loop. The fork is evaluated inside `push`, once
a slot was obtained, and is therefore part of `Push`. `PushInternal`,
`PullInternal`, `DrainOne`, `Flush`, `FlushDone` are the parallel end worker,
`ConsumeInline` the serial one.

**BatchProcessor.** `pullSlot` and `timerSlot` are the two slots of the mux: a
slot is active until the `co_await` that returns its index. One iteration of the
loop is one step (`OnElement`, `OnClosed`, `OnTimer`, `OnEnd`), because a
completion that falls inside an iteration only makes an active slot ready, which
the code cannot tell apart. `PullCompletes`, `TimerExpires`, `CancelCompletes`
are the environment.

**ExternalCoro.** One thread of control walks up and down a chain of frames.
`Await` is `co_await` with `await_suspend`; `ReturnAndTransfer` is the return of
a frame whose `final_suspend` transfers to its continuation, `ReturnAndVanish`
that of `external_coro<void>`, which suspends never and is destroyed;
`AwaitResume` reads the result and destroys the child.

**ForeignAwaitable.** Three awaitables share one shape: an operation outside of
the executor hands the coroutine back to it, and the coroutine may destroy the
awaitable before the thread that suspended it, or the operation, is done.
`kind` says which it is; `lock`, `thread` and `value` are members of the code.
Four kinds of actor meet: the coroutine (`coro`), the thread it suspended on,
which is still inside `await_suspend()` (`initiator`), the operations (`op[t]`, a
thread or a callback, each with its local `old`), and the callers of `inc()`.
`Suspend` stores the continuation and takes the lock; `StartOperation` and
`AssignThread` are the two halves of `thread = std::thread(...)`, between which
the new thread may resume the coroutine; `Unlock` ends `await_suspend()`;
`Destroy` and `JoinThread` are the destructor, which takes the same lock. A
callback awaitable has no lock and no thread: `StartOperation` is the call of the
initiating function, and the callback runs at any time after it, so also inside
that call. The last callback of an await posts the coroutine (`PostContinuation`)
or, where the coroutine may go on, resumes it inside the callback (`ResumeInline`,
the `next.resume()` of `callback_awaitable.hpp:84`). The thread that called the
initiating function may still be inside it then. When it leaves is not modelled, as
nothing of the awaitable is used on the way out; `DestroyedAlone` therefore says of
callbacks only that none is left to be initiated. `Wait` is the
comparison of `std::atomic::wait`, which blocks only if it finds the value it was
given; `Increment` and `NotifyAll` are the two lines of `inc()`. `plan` is what the
coroutine does: "direct" is `co_await` and asks `await_ready()` first, "spawned"
goes through the trait that `spawn_*()` uses, which does not, and "pair" is a
`spawn_tuple()` of two, resumed by the second to complete.

**Race.** `op[i]` and `ec[i]` are an asynchronous wait and its error code.
`Initiate` is `async_wait` of the elements in order, all before the first
completion is received; `StartTask` is the task with the timeout, which the mux
posts. `Expire` is the environment; a completion on its way keeps its code when it
is cancelled afterwards. `OnOperation` and `OnTimeout` are the two branches of
`mux_timeout.cpp`; `SelectWinner` and `SelectLoser` are the library's `select`, which
takes the first result, cancels the others and waits for them; `End` is the end
of an iteration, at which its timers are destroyed. `Return` includes the early
returns of `delay.cpp`.

**Server.** The four programs run the same two coroutines. `Listen`, `Accept`,
`AcceptFails` and `JoinHandlers` are `accept()`, `Read`, `Write` and `Fail` are
`handler()`, `JoinAcceptors` is `main` or the join of its workers; `Connect` and
`HangUp` are the clients. An acceptor is a local of `accept()` and is destroyed when
that returns, so it goes on listening while its handlers are joined:
`JoinHandlers` resets who is still in its backlog. The check that the socket is
still open after a write is always met, because nobody but the handler closes it.

**TaskGroup.** `Fill` takes elements from the iterator, `Spawn` posts the tasks,
`Join` is the `co_await` or the `wait` of the group. A task is a sequence of steps
(`Bodies`): `Load` and `Store` are `v++`, `Increment` is `++` of an atomic. `ex` is the
executor a task is on; `TakeUp` and `End` are the serial executor, which is a
braid, an executor of one thread, or a mutex. `Enter`, `Exit`, `ResumeOnCpu`, `Call`
and `Back` move a task: entering the executor it is on already, or leaving one to
come back to the same, does nothing, while an awaited call always suspends it.
The numbers a group must end with are those of the samples' assertions; the
round-trip benchmark has none, and the `inc` of a producer is a ghost that counts
its calls of `consumer()`. `TwoTo(n)`
is the `1 << n` of `spawn_iterator.cpp`, which stays below the width of an `int` there.

**Bench.** `bench` picks one of the two programs and its three numbers at the
start. `Count` and `Base` are the division of the elements; `Produce` and
`Consume` are the loops; `ConsumerEnds` is the end of the channel for
`chan_bench` and the expected number for `queue_bench`. `ProducersJoined`,
`Drained` and `ConsumersJoined` are the awaits of the driver.

## 3. Runs

| Run | Instance | What it shows |
|---|---|---|
| `external_executor` | 2 runners, 1 poster, 3 items, 1 spurious wakeup | No wakeup is lost; the mutex is exclusive; items run once, in order; when the last runner has left nothing is queued; the destructor returns; the pool implements `WorkPool`, its liveness included |
| `pipeline` | 5 stages, 6 workers (2 in the first stage, 1 in each other), 4 elements | Tokens are conserved (that channels stay within 2 x workers follows, theorem `Backpressure`); closure follows the work; somebody can always go on; the pipeline implements `ParallelMap` and finishes |
| `pipeline_fifo` | 5 stages of parallelism 2,2,2,2,1 or 1,1,2,1,2, 4 elements | Elements keep their order through every stage; closure is complete; the in-flight bound; a push to the internal queue never waits; somebody can always go on; no task outlives the join; `OrderedMap` |
| `batch_processor` | up to 5 posts | The timer is pending exactly while a batch is; elements once and in order; return after close; nothing stranded while time passes |
| `external_coro` | chains up to depth 5 of tasks and `external_coro<int>`, optionally with an `external_coro<void>` root | The stack of frames is intact; results are complete; every awaiter is resumed |
| `external_coro_void` | chains up to depth 4 in which an `external_coro<void>` may be awaited | **Violated**: the awaiter of an `external_coro<void>` is never resumed (see Findings) |
| `foreign_awaitable` | the counter with 3 callers of `inc()`, awaited in four ways; the external awaitable; four callbacks and a pair | The coroutine goes on with its results; no increment is missed; the destructor stays behind `await_suspend()`; all of it ends |
| `foreign_awaitable_again` | 2 callers of `inc()`; a second await through `spawn_*()` | **Violated**: the second await calls `std::terminate` (see Findings) |
| `race` | 3 iterations of each of the three programs | No timer is destroyed under a wait; only losers are aborted; the loops end although the operation may never end by itself |
| `server` | 2 acceptors, 3 clients | Nothing is left when main returns; who connected is answered or reset; a server whose acceptors failed ends |
| `task_group` | the groups of `braid.cpp` with 4 tasks, those of `spawn_iterator.cpp` at their size, 5 round trips of 1 to 4 producers | Counts and sums are as `braid.cpp` and `spawn_iterator.cpp` assert, and every round trip of the benchmark, which asserts nothing, is made; every group ends |
| `bench` | every division of 0 to 5 elements among 1 to 3 producers, with 1 to 3 consumers | Count and sum come out as expected; no push meets a closed channel; the benchmark ends |

**Bounds, and why they are enough.** Two runners are the smallest number with
one asleep and one at work, which every wakeup hazard needs; three items give an
item queued behind two running ones, with posts from outside and from within.
One spurious wakeup is enough because the predicate is tested again whatever
woke the thread. In `pipeline` the first stage has two workers, so its elements
overtake each other, and a channel of a one-worker stage fills at 2: four
elements make one channel full with elements before and behind it. In
`pipeline_fifo` four elements exceed the two slots of a queue, and let a parallel
end worker drain more than once and flush at the end; its second tuple puts
narrow stages before wide ones and the reverse. Five posts allow two batches and a rest. A chain of five frames has
each kind of frame at the bottom, at the top and in between. Three increments
let one fall before the waiter loads the value, one between its load and its
wait, and one while it is blocked; four callbacks and a pair are what
`callback_awaitable.cpp` awaits. A round of `race` has nothing in common with the
one before it but the timers that might be left over, so three of them are more
than enough. Two acceptors let one fail, or return, while the other accepts, and
three clients let one of them have two connections, one served and one in the
backlog. A group of four tasks has one inside the braid, one that enters, one
that leaves and one that waits; the iterators are checked at the size of the
sample, and five round trips are shared by two, three and four producers with
each kind of remainder. In `bench`, five elements and three producers give every
case of the division: no remainder, each possible remainder, and fewer elements
than producers.

**Numbers.** `plus_half` and `times_two` produce multiples of one half, so floats
and doubles are counted in halves; the C++ conversion to `int` of the values
that occur is an exact division. Values never leave `int`.

**Fairness.** The pool's runners get weak fairness each, as OS threads do; so do
the notifications that a poster or the owner has begun, and the join. Nobody is
obliged to post, to wake spuriously or to stop the pool. The pipelines need only
that *some* coroutine that can run runs: `WF_vars(Next)`, the weakest fairness
an executor can have, is enough because no coroutine spins. The batch processor
has weak fairness of the coroutine, of the completion of a pull that can
complete and of the completion of a cancelled timer; that the timer expires
(`TimePasses`) is assumed only in `EveryElementFlushed`, so that
`ReturnsAfterClose` is shown to rest on the cancellation and not on the expiry.
A chain of coroutines runs on one thread: `WF_vars(Next)`. In `ForeignAwaitable`
the executor, the initiating thread, the operations and every caller of
`inc()` are OS threads with weak fairness each: each test makes all the calls it
waits for. In `Race` the coroutine runs, the posted task runs and a timer expires;
the operation of the mux and of `select` need never end by itself. In `Server` the
executors run what can go on, an acceptor that is still accepting takes from its
backlog, and a client that is connected hangs up some day: the handlers have no
timeout, and a client that neither sends nor leaves keeps its server from
shutting down (a hazard of `PROJECT.json`). Nothing is assumed of errors, which
may come at any time or never. In `TaskGroup` some task that can go on does, and
a detached group, which the sample gives a sleep of 100 ms, is taken to be done
after it; the sleep blocks a thread of the executor, so a second one is needed.
In `Bench` it is enough that some task runs: `WF_vars(Next)`.

**Deadlock.** Both pipelines are checked for deadlock (`Terminated` stands for
the finished program), and `SomebodyGoesOn` says the same as an invariant, which
names what everybody waits for: the guards of the actions without what they
change. That is the form in which it can be proved. It is off for the other runs, whose systems may stop: a
pool with nothing to do rests until somebody posts or destroys it, a client need
not post, connect or close, and a chain that has returned, an awaitable that is
gone, a loop or a group that has ended and a benchmark that has printed its
result are over. Liveness properties say what must happen there instead.

## 4. Proofs

TLAPS checks the following for every value of the constants that meets the named
assumptions of the module. It does not depend on fairness.

**`ExternalExecutorProofs`**, from `DistinctThreads` (a thread is a runner, a
poster or the owner) and `NoneIsNothing` (`None` is neither runner nor item):

- `TypeCorrect`: the type invariant, strengthened by `InHand` (a runner has an
  item in hand exactly while it runs it or notifies for it).
- `MutualExclusion`: from the type invariant, one step per action.
- `NoWakeupLost`: `NoLostWakeup` is not inductive. A runner that has tested the
  predicate and is about to block still counts as awake, so one must know that
  what it saw still holds: `KnowsEmpty` says that a runner at `block` or at the
  test of `stop_requested` has an empty queue before it, and no stop at `block`;
  it is preserved because only the holder of the mutex changes the queue.
- `RunsEachOnce`: `EachOnceInOrder` with the type invariant is inductive; lemmas
  about `Range` of a sequence carry the pop and the push.
- `LeavesNothing`: the action property `NoneAbandoned`, from `KnowsEmpty` and
  `EachOnceInOrder`.
- `ImplementsPool`: `Spec => Pool!Spec`, the safety part of `ImplementsWorkPool`,
  for a finite set of at least one runner (`SomeRunners`). What a post, a pop, an
  end of an item and the return of the last runner do is a step of `WorkPool`, and
  every other step a stutter. `EachOnceInOrder` shows that no item is accepted
  twice, `KnowsEmpty` that the pool closes when nothing is pending.

**`PipelineProofs`**, for any number of stages, workers, elements and any
functions of the stated types:

- `TypeCorrect`, by stages: channels, places, hands, totals.
- `BornInOrder`: the workers of a stage exist exactly when it was constructed.
- `ClosesBehindTheWork`: a closed channel has no producer left. It needs
  `BornInOrder`, because a drainer that waits for workers that do not exist yet
  would close at once.
- `TokensAreConserved`: free tokens, elements in the channel and tokens in hand
  make twice the worker count of a constructed stage. Each action is taken
  through `KeepsTokens`, and the number of workers in a place through facts
  about cardinality.
- `Backpressure`: the bound of a channel, as a corollary.
- `NeverStuck`: `SomebodyGoesOn`, the absence of deadlock, for any number of stages
  and workers. If nobody can go on, no worker of the last stage waits for a token,
  so its channel is empty and all its tokens are free (`TokensAreConserved`); then
  no worker of the stage before waits for one, and so on to the driver, which must
  be at the join. The first channel is then closed, so its workers have ended and
  its drainer is done, and so on to the last: the join can go on.
- `EveryElementOnce`: the channels, the hands of the workers and `consumed` are a
  partition of the elements posted so far (`Once`), and the value of each is what
  the functions of the stages it has passed make of it (`Processed`).
- `ImplementsMap`: `Spec => Map!Spec`, the safety part of `ImplementsParallelMap`, if
  the last stage has a single worker, as in `pipeline.cpp`. The hypothesis is
  needed: with two, `sum` and `count` lose updates. `Undisturbed` says that nobody
  stores between the load and the store of that worker; that all is consumed at
  the join is a count of the partition.

`FuncAssumption` and `StagesAssumption` (every stage has a worker, there are at
least two stages) are evaluated by TLC in every run of the module.

**`PipelineFifoProofs`**, from `FifoAssumption` (at least two stages, each of
positive parallelism), for any number of stages and elements:

- `ClosesWhenComplete`, `PushNeverBlocks`, `LeavesNothingRunning`, `KeepsTheOrder`,
  `BoundsTheTasks`: the five safety invariants of the run. None of them is
  inductive, and the code keeps no index from which one could be made. The
  invariant says that there is a *tally*: how many elements each stage has taken
  out of its queue. The queue of a stage then holds the elements from its own
  tally up to that of the stage before, the tasks a stage has forked are those
  below its tally, and those that may still run are the ones in the next queue
  or in the hand of its reader. Each step advances the tally of one stage or of
  none. That a queue never exceeds its size, and that the end worker's `active`
  counts its internal queue, complete it.
- `KeepsThePromise`: `Spec => Map!OrderedSpec`, the safety part of
  `ImplementsOrderedMap`, for any number of stages and any parallelisms. Beside the
  tally it needs `Processed`, that whatever is at a stage is what the stages before
  made of it, and `Consumption`: an inline consumer was called with 0, 1, 2, ... up to
  the tally of the end stage, and a forked one once for every task that is done.
- `NeverStuck`: `SomebodyGoesOn`, the absence of deadlock. If no task runs, a task
  that a worker waits for was forked (the tally) and is done; so everybody who is
  left waits for room or for an element. The end worker never waits for room, so
  its queue is empty, so the worker before it has room, and so on to the driver;
  closing then goes the other way. Two small invariants are needed for it: stages
  are constructed in order (`Birth`), and a worker that drains one has pushed one
  (`Draining`).

**`AsioProofs`**. Of `BatchProcessor`, from `MaxPostsIsNat`: `TypeCorrect`, with the fact that
a pull which found the queue closed found it empty; `TimerIsSet` and
`ProcessesEachOnce`, the two safety invariants of the run.

**`ExternalCoroProofs`**, from `CoroAssumption` and, named in the theorems, that
nobody awaits an `external_coro<void>`: `FramesAreAStack` and `CallCompletes`. The
invariant describes the chain from the frame that has control: those above it
await, those below are unborn, just ended or destroyed. With an awaited
`external_coro<void>` the code does something else (see Findings).

**`ForeignAwaitableProofs`**, from `AwaitAssumption` (some callers of `inc()`, and
plans that await at least once), for any plans, those that end in
`std::terminate` included: `DestructorIsAlone`, `ResultIsReady`, `NoIncrementMissed`.
The invariant adds who holds the lock, that `thread` is the handle of the last
operation unless that is being assigned, that `pending` is the number of
operations that have not completed, and that `value` counts the calls of `inc()`.

`AsioProofs` also proves, of `Race`, from `RoundsAssumption`: `Outlives` and
`AbortsLosers`; the invariant adds that an error code is there exactly once a
completion is on its way. Of `Server`, for any acceptors and clients:
`LeavesNothing`; the invariant adds that an `accept()` that has returned has joined
its handlers and lost its backlog, and that a socket is open exactly while its
handler runs.

**`CountingProofs`** proves that the numbers come out right.

- `BenchNoFail` and `BenchPushSucceeds`, from `BenchAssumption`, for any numbers of
  elements, producers and consumers: the shares of the producers partition the
  elements (`Counts`, `Base`), what was posted is counted and added up or is still
  in the channel (`Tallies`), and the driver is where its tasks let it be (`Phases`).
- `GroupAsAsserted`, from `ProgramsAssumption`, for the groups of the three samples
  at any size (`SampleGroups`): the group is made of the right elements (`Filled`); a
  task between the load and the store of `v++` is the one the serial executor
  runs, and has the current value (`Exclusive`); and `value` is the sum of what the
  tasks have done so far (`Recorded`). Integers are unbounded in the model, so this
  does not say at which size the sum of the powers of two leaves an `int`.

**`SumTheorems`** has what they rest on: induction, sums over initial segments, the
partition into shares, powers of two. Induction over the natural numbers is done
with sets of numbers that contain 0 and with each number the next (`NatBySteps`,
from the well-foundedness of `<`), because the library's own theorem takes an
operator as a parameter. In the same way a recursive function is reasoned about
through a table of its values: `Made` in the two pipelines, `PartialSums` here.

**Only model-checked.** Liveness (`JoinReturns`, `ReturnsAfterClose`,
`EveryElementFlushed`, `AwaiterResumed`, `Completes`, `LoopEnds`, `BenchEnds`,
`Answered`, `ShutsDown`, `Joins`, and the liveness part of the abstract specifications), which is out of the
prover's reach. Every safety property of the passing runs is proved.

## 5. Findings

`external_coro_void`: `aw_external_coro<void>::await_suspend`
(`external/external_coro.hpp:112`) stores its awaiter in the promise, but
`external_coro_promise<void>::final_suspend` (line 69) is `std::suspend_never`
and never looks at it. A coroutine that awaits an `external_coro<void>` is never
resumed; were it resumed, `await_resume` (line 117) would destroy a frame that
has already destroyed itself. The first line of `external_coro.cpp` says the
type can "be awaited by" TMC coroutines. The sample itself only uses the void
form at the root, where the defect does not show (`external_coro` passes).

`foreign_awaitable_again`: the comment at `src/tests/atomic_awaitable.hpp:94-96`
says that the type "is safe to await multiple times" through `spawn_*()`. The
trait's `async_initiate` does not ask `await_ready()`, and line 49 assigns a new
thread to a member that only the destructor joins. After a first await that
started a thread, a second one through `spawn_*()` assigns to a joinable
`std::thread`, which calls `std::terminate`. A second plain `co_await` is safe,
because the counter has reached its value and `await_ready()` holds
(`foreign_awaitable` passes with it). The comment of the class (line 19) calls it
one-shot, and no test awaits one twice through `spawn_*()`.

## 6. Not modelled, and why

- The TMC library, asio and the standard library: not in this tree. Channels
  are linearisable FIFO queues, a semaphore is a counter, a wait is a guard.
- The priority that `external_executor.cpp` puts into a thread local: the pool
  never reads it.
- Exceptions: the samples do not throw across these components.
- What happens to a `notify_one` that comes after the pool was destroyed. The
  model has such steps: a post begins before the destructor's join has returned,
  its item runs, the join returns, and the poster then notifies. That the pool
  outlives every call of `post()` is left to the callers, and waiting for the
  work, as `main` does, does not ensure it; no line of the repository says that
  it does.
- `workerCount` or `parallelism` of 0: excluded by assumption.
- Memory: allocation and the lifetime of shared queues, except for coroutine
  frames in `ExternalCoro`.
- The last `notify_all` of `inc()` may come after the object is destroyed
  (`atomic_awaitable.hpp:37`): the model lets it happen, and no property forbids
  it, as nothing in the repository does and implementations use only the address.
- `consumer_try_pull` of `queue_bench.cpp`, which nothing calls.
- `fib.cpp` and `skynet.cpp`: pure recursive sums over fork and join, with no
  state but their results (see the plan); `sync.cpp`: one call of the library
  after the other.
- Of the servers: the socket options, an acceptor that cannot open, bind or listen
  (which throws out of `accept()`, where nobody catches it), the configuration of executors and threads by `hwloc`, and the
  sum that is the response of `http_skynet.cpp`.
- Of `mux` and `select`: what they do inside the library. That all elements are
  initiated, in order, before a completion is received is assumed. A timer of
  0 ms is one that expires at once, which the model has anyway.
- Of `delay.cpp`: on which executor it resumes. Of `external_awaitable.cpp`:
  `test_spawn_on_external_thread`, a thread that spawns one task.
- Time: that the sleeps of the detached groups are long enough.
- That the groups of `braid.cpp` whose comments promise work in parallel (lines 59,
  81, 108, 133) are run on the braid as a whole, so that their work is serial
  (`tests/test_nested_executors.ipp:26`): no result shows it. The model takes them
  both on and off the braid.
- I/O, printing and timing of all programs; the platform and build samples.

## 7. Plan

What is left, in the order of its worth:

1. The absence of deadlock, as in `NeverStuck`, for `ExternalExecutor`, `Bench`,
   `TaskGroup` and `ForeignAwaitable`, whose ends TLC checks as liveness.
2. `WorkPool` under `Pipeline` and `PipelineFifo`: the pipelines assume that the
   executor runs what is posted to it, which is what `WorkPool` promises; a
   composition would state it.
3. `ForkJoin`: `skynet`'s sum, whose index arithmetic a reference definition can
   settle at a smaller depth than the sample's.
