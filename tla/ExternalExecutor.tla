-------------------------- MODULE ExternalExecutor --------------------------
(***************************************************************************)
(* The "3rd party" thread pool of examples/external/external_executor.hpp  *)
(* and the life cycle its TMC adapter (external_executor.cpp) gives it:    *)
(* runner threads drain one deque under one mutex, other threads and       *)
(* running work items post to it, and the destructor of the adapter        *)
(* requests a stop and joins the runners.                                  *)
(*                                                                         *)
(* A step is what one thread does between two points where another thread  *)
(* can see a difference: a critical section that takes the mutex and gives *)
(* it back (post, request_stop) is one step whose guard is that the mutex  *)
(* is free, the sections of run() that keep it are separate steps.         *)
(***************************************************************************)
EXTENDS Naturals, Sequences, FiniteSets, Functions

CONSTANTS
    Runners,      \* threads inside run()
    Posters,      \* threads of other executors that call post()
    Owner,        \* the thread that destroys the adapter
    Work,         \* work items; each is posted at most once
    None,         \* no runner, no work item
    MaxSpurious   \* bound on spurious wakeups of the condition variable

ASSUME DistinctThreads ==
    /\ Runners \cap Posters = {}
    /\ Owner \notin Runners \cup Posters
ASSUME MaxSpuriousIsNat == MaxSpurious \in Nat

ASSUME NoneIsNothing == None \notin Runners \cup Work

\* The adapter starts one thread; a pool may have more.
ASSUME SomeRunners == IsFiniteSet(Runners) /\ Runners # {}

VARIABLES
    mut,             \* the runner that holds the mutex between steps, or None
    queue,           \* std::deque of work items
    stop_requested,
    pc,              \* where each thread is
    work,            \* the local `work` of each runner, None outside the loop
    spurious,        \* spurious wakeups so far
    posted,          \* ghost: every work item, in the order it was pushed
    started,         \* ghost: every work item, in the order it was popped
    finished         \* ghost: the work items whose execution has returned

vars == <<mut, queue, stop_requested, pc, work, spurious, posted, started, finished>>

Threads == Runners \cup Posters \cup {Owner}

RunnerPC == {"enter", "test", "block", "waiting", "woken", "loop",
             "running", "notify", "relock", "testStop", "returned"}
PosterPC == {"idle", "notify"}
OwnerPC  == {"alive", "notifyAll", "join", "joined"}

Init ==
    /\ mut = None
    /\ queue = <<>>
    /\ stop_requested = FALSE
    /\ pc = [t \in Threads |-> IF t \in Runners THEN "enter"
                               ELSE IF t \in Posters THEN "idle" ELSE "alive"]
    /\ work = [r \in Runners |-> None]
    /\ spurious = 0
    /\ posted = <<>>
    /\ started = <<>>
    /\ finished = {}

-----------------------------------------------------------------------------
(* post() and request_stop() *)

\* The critical section of post(): any thread that is not a holder of the mutex.
PushBack(w) ==
    /\ mut = None
    /\ w \notin Range(posted)
    /\ queue' = Append(queue, w)
    /\ posted' = Append(posted, w)
    /\ UNCHANGED <<mut, stop_requested, work, spurious, started, finished>>

\* A thread of another executor posts a work item. It may do so as long as there is a
\* pool to post to, which is until the destructor's join has returned.
Post(p, w) ==
    /\ pc[p] = "idle"
    /\ pc[Owner] # "joined"
    /\ PushBack(w)
    /\ pc' = [pc EXCEPT ![p] = "notify"]

\* A running work item posts another one (a resumed coroutine schedules its
\* continuation); the mutex is not held here.
PostFromWork(r, w) ==
    /\ pc[r] = "running"
    /\ PushBack(w)
    /\ pc' = [pc EXCEPT ![r] = "notify"]

Waiting == {r \in Runners : pc[r] = "waiting"}

\* Mutant: post() without its notify_one().
NotifyNobody(t, next) ==
    /\ pc[t] = "notify"
    /\ pc' = [pc EXCEPT ![t] = next]
    /\ UNCHANGED <<mut, queue, stop_requested, work, spurious, posted, started, finished>>

\* work_available.notify_one(), after the mutex was released. It wakes one of
\* the waiting runners, and is lost if there is none. `t` goes on to `next`.
NotifyOne(t, next) ==
    /\ pc[t] = "notify"
    /\ \/ \E r \in Waiting : pc' = [pc EXCEPT ![r] = "woken", ![t] = next]
       \/ /\ Waiting = {}
          /\ pc' = [pc EXCEPT ![t] = next]
    /\ UNCHANGED <<mut, queue, stop_requested, work, spurious, posted, started, finished>>

NotifyFromPost(p) == NotifyOne(p, "idle")
NotifyFromWork(r) == NotifyOne(r, "running")

\* The destructor of the adapter calls request_stop().
RequestStop ==
    /\ pc[Owner] = "alive"
    /\ mut = None
    /\ stop_requested' = TRUE
    /\ pc' = [pc EXCEPT ![Owner] = "notifyAll"]
    /\ UNCHANGED <<mut, queue, work, spurious, posted, started, finished>>

\* Mutant: request_stop() with notify_one().
NotifyOneToStop ==
    /\ pc[Owner] = "notifyAll"
    /\ \/ \E r \in Waiting : pc' = [pc EXCEPT ![r] = "woken", ![Owner] = "join"]
       \/ Waiting = {} /\ pc' = [pc EXCEPT ![Owner] = "join"]
    /\ UNCHANGED <<mut, queue, stop_requested, work, spurious, posted, started, finished>>

NotifyAll ==
    /\ pc[Owner] = "notifyAll"
    /\ pc' = [t \in Threads |-> IF t \in Waiting THEN "woken"
                                ELSE IF t = Owner THEN "join" ELSE pc[t]]
    /\ UNCHANGED <<mut, queue, stop_requested, work, spurious, posted, started, finished>>

\* worker.join()
Join ==
    /\ pc[Owner] = "join"
    /\ \A r \in Runners : pc[r] = "returned"
    /\ pc' = [pc EXCEPT ![Owner] = "joined"]
    /\ UNCHANGED <<mut, queue, stop_requested, work, spurious, posted, started, finished>>

-----------------------------------------------------------------------------
(* run() *)

\* std::unique_lock lock(mut) on entry, and inside wait() after a wakeup.
LockInRun(r) ==
    /\ pc[r] \in {"enter", "woken"}
    /\ mut = None
    /\ mut' = r
    /\ pc' = [pc EXCEPT ![r] = "test"]
    /\ UNCHANGED <<queue, stop_requested, work, spurious, posted, started, finished>>

\* wait() evaluates its predicate under the mutex, and leaves the wait or blocks.
TestPredicate(r) ==
    /\ pc[r] = "test"
    /\ pc' = [pc EXCEPT ![r] = IF stop_requested \/ queue # <<>> THEN "loop" ELSE "block"]
    /\ UNCHANGED <<mut, queue, stop_requested, work, spurious, posted, started, finished>>

\* Releasing the mutex and joining the waiters is one atomic step of wait().
Block(r) ==
    /\ pc[r] = "block"
    /\ mut' = None
    /\ pc' = [pc EXCEPT ![r] = "waiting"]
    /\ UNCHANGED <<queue, stop_requested, work, spurious, posted, started, finished>>

SpuriousWakeup(r) ==
    /\ pc[r] = "waiting"
    /\ spurious < MaxSpurious
    /\ spurious' = spurious + 1
    /\ pc' = [pc EXCEPT ![r] = "woken"]
    /\ UNCHANGED <<mut, queue, stop_requested, work, posted, started, finished>>

\* Mutant: queue.pop_front() is missing.
CopyFront(r) ==
    /\ pc[r] = "loop"
    /\ queue # <<>>
    /\ work' = [work EXCEPT ![r] = Head(queue)]
    /\ started' = Append(started, Head(queue))
    /\ mut' = None
    /\ pc' = [pc EXCEPT ![r] = "running"]
    /\ UNCHANGED <<queue, stop_requested, spurious, posted, finished>>

\* while (!queue.empty()): pop the front, unlock and start running it.
PopFront(r) ==
    /\ pc[r] = "loop"
    /\ queue # <<>>
    /\ work' = [work EXCEPT ![r] = Head(queue)]
    /\ started' = Append(started, Head(queue))
    /\ queue' = Tail(queue)
    /\ mut' = None
    /\ pc' = [pc EXCEPT ![r] = "running"]
    /\ UNCHANGED <<stop_requested, spurious, posted, finished>>

\* work() returns.
WorkReturns(r) ==
    /\ pc[r] = "running"
    /\ finished' = finished \cup {work[r]}
    /\ work' = [work EXCEPT ![r] = None]
    /\ pc' = [pc EXCEPT ![r] = "relock"]
    /\ UNCHANGED <<mut, queue, stop_requested, spurious, posted, started>>

\* Mutant: lock.lock() after the work is missing.
GoOnUnlocked(r) ==
    /\ pc[r] = "relock"
    /\ pc' = [pc EXCEPT ![r] = "loop"]
    /\ UNCHANGED <<mut, queue, stop_requested, work, spurious, posted, started, finished>>

Relock(r) ==
    /\ pc[r] = "relock"
    /\ mut = None
    /\ mut' = r
    /\ pc' = [pc EXCEPT ![r] = "loop"]
    /\ UNCHANGED <<queue, stop_requested, work, spurious, posted, started, finished>>

\* Mutant: the inner while is an if.
LeaveAfterOne(r) ==
    /\ pc[r] = "loop"
    /\ pc' = [pc EXCEPT ![r] = "testStop"]
    /\ UNCHANGED <<mut, queue, stop_requested, work, spurious, posted, started, finished>>

\* The inner loop ends when it finds the queue empty.
LeaveLoop(r) ==
    /\ pc[r] = "loop"
    /\ queue = <<>>
    /\ pc' = [pc EXCEPT ![r] = "testStop"]
    /\ UNCHANGED <<mut, queue, stop_requested, work, spurious, posted, started, finished>>

\* Return (the unique_lock releases the mutex), or wait again.
ReturnFromRun(r) ==
    /\ pc[r] = "testStop"
    /\ stop_requested
    /\ mut' = None
    /\ pc' = [pc EXCEPT ![r] = "returned"]
    /\ UNCHANGED <<queue, stop_requested, work, spurious, posted, started, finished>>

WaitAgain(r) ==
    /\ pc[r] = "testStop"
    /\ ~stop_requested
    /\ pc' = [pc EXCEPT ![r] = "test"]
    /\ UNCHANGED <<mut, queue, stop_requested, work, spurious, posted, started, finished>>

-----------------------------------------------------------------------------
\* What the thread itself does once it is scheduled and holds what it waits for.
RunnerStep(r) ==
    \/ LockInRun(r) \/ TestPredicate(r) \/ Block(r) \/ PopFront(r)
    \/ NotifyFromWork(r) \/ WorkReturns(r) \/ Relock(r) \/ LeaveLoop(r)
    \/ ReturnFromRun(r) \/ WaitAgain(r)

Next ==
    \/ \E p \in Posters, w \in Work : Post(p, w)
    \/ \E p \in Posters : NotifyFromPost(p)
    \/ \E r \in Runners, w \in Work : PostFromWork(r, w)
    \/ \E r \in Runners : RunnerStep(r) \/ SpuriousWakeup(r)
    \/ RequestStop \/ NotifyAll \/ Join

\* Every runner is an OS thread that is scheduled, a work item returns, a call
\* that has begun runs on. Nobody is obliged to post or to destroy the adapter.
Fairness ==
    /\ \A r \in Runners : WF_vars(RunnerStep(r))
    /\ \A p \in Posters : WF_vars(NotifyFromPost(p))
    /\ WF_vars(NotifyAll) /\ WF_vars(Join)

Spec == Init /\ [][Next]_vars
FairSpec == Spec /\ Fairness

-----------------------------------------------------------------------------
(* The members of the pool, the place and the local `work` of every thread,  *)
(* and the history of the items.                                             *)
TypeOK ==
    /\ mut \in Runners \cup {None}
    /\ queue \in Seq(Work)
    /\ stop_requested \in BOOLEAN
    /\ pc \in [Threads -> RunnerPC \cup PosterPC \cup OwnerPC]
    /\ \A r \in Runners : pc[r] \in RunnerPC
    /\ \A p \in Posters : pc[p] \in PosterPC
    /\ pc[Owner] \in OwnerPC
    /\ work \in [Runners -> Work \cup {None}]
    /\ spurious \in 0..MaxSpurious
    /\ posted \in Seq(Work)
    /\ started \in Seq(Work)
    /\ finished \subseteq Work

\* A runner has an item in hand exactly while it runs user code.
InHand == \A r \in Runners : pc[r] \in {"running", "notify"} <=> work[r] # None

\* The work items that are being executed.
Running == {work[r] : r \in Runners} \ {None}

AllReturned == \A r \in Runners : pc[r] = "returned"

\* A runner that is neither blocked in wait() nor gone: it will look at the
\* queue again, under the mutex, before it blocks or returns.
Awake(r) == pc[r] \notin {"waiting", "returned"}

(* No wakeup is lost: while an item is queued and a runner sleeps in wait(), *)
(* some runner is awake or some thread is between its push_back and its      *)
(* notify_one() (post() notifies after it unlocked); and once a stop was     *)
(* requested and notified, no runner is asleep.                              *)
NoLostWakeup ==
    /\ queue # <<>> /\ Waiting # {} =>
        (\E r \in Runners : Awake(r)) \/ (\E p \in Posters : pc[p] = "notify")
    /\ stop_requested /\ pc[Owner] # "notifyAll" => Waiting = {}

(* run() returns only after the queue was drained: when every runner has     *)
(* returned, what is queued was pushed after the last one had left, so the   *)
(* items accepted before are exactly the started ones and all have finished. *)
(* The property holds of the state each runner leaves in.                    *)
NoneAbandoned ==
    [][ (\E r \in Runners : ReturnFromRun(r)) /\ AllReturned' =>
            finished = Range(posted) ]_vars

(* The deque hands every item to exactly one runner, first in first out:     *)
(* what was popped followed by what is queued is what was pushed, an item    *)
(* that was popped is running on one runner or has returned, never both.     *)
EachOnceInOrder ==
    /\ posted = started \o queue
    /\ \A i, j \in 1..Len(posted) : posted[i] = posted[j] => i = j
    /\ Range(started) = finished \cup Running
    /\ finished \cap Running = {}
    /\ \A r, s \in Runners : work[r] = work[s] /\ work[r] # None => r = s

(* Mutual exclusion: the mutex is held by exactly the runner that is inside  *)
(* the locked part of run(). A runner is outside it while it runs user code, *)
(* which may therefore post.                                                 *)
HoldsMutex(r) == pc[r] \in {"test", "block", "loop", "testStop"}
MutexHeldByRunner == \A r \in Runners : HoldsMutex(r) <=> mut = r

(* What a runner that holds the mutex has seen remains true until it acts.   *)
KnowsEmpty == \A r \in Runners :
    /\ pc[r] \in {"block", "testStop"} => queue = <<>>
    /\ pc[r] = "block" => ~stop_requested

(* What the pool promises its clients, whoever drives it: see WorkPool. The  *)
(* pool is closed once every runner has left run().                          *)
Pool == INSTANCE WorkPool WITH
            Capacity <- Cardinality(Runners),
            pending <- queue, running <- Running, done <- finished,
            closed <- AllReturned
ImplementsWorkPool == Pool!LiveSpec

(* The destructor's join() returns.                                          *)
JoinReturns == pc[Owner] = "join" ~> pc[Owner] = "joined"
=============================================================================
