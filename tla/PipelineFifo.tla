---------------------------- MODULE PipelineFifo ----------------------------
(***************************************************************************)
(* The FIFO pipeline of examples/pipeline_fifo.hpp, driven as in           *)
(* examples/pipeline_fifo.cpp. The worker of stage k (1..Stages) reads     *)
(* queue k; below Stages it forks one task per element and pushes the      *)
(* task's handle to queue k+1, so that tasks run in parallel and results   *)
(* are taken in order. Stage Stages is the pipeline_end_stage, which calls *)
(* the consumer inline when its parallelism is 1 and otherwise forks it,   *)
(* keeping the handles in an internal queue. Stage 0 stands for main().    *)
(*                                                                         *)
(* tmc::qu_spsc_bounded is modelled from how the code uses it: push waits  *)
(* for a free slot; pull is zero-copy, so the slot stays taken until the   *)
(* scope it returned ends with the iteration of the while loop.            *)
(***************************************************************************)
EXTENDS Integers, Sequences, FiniteSets

CONSTANTS
    NELEMS,         \* how many elements the driver pushes: 0..NELEMS-1
    Stages,         \* the number of stages, the end stage included
    Parallelisms,   \* what parallelism the stages may be given
    Func(_, _)      \* Func(k, v): the processing function of stage k < Stages

ASSUME FifoAssumption ==
    /\ Stages \in Nat \ {0, 1}
    /\ NELEMS \in Nat
    /\ Parallelisms \subseteq [1..Stages -> Nat \ {0}]

Ids == 0..NELEMS - 1
Processing == 1..Stages - 1

VARIABLES
    parallelism,\* the parallelism of each stage, from its construction
    queue,      \* the slots of each queue that are taken, oldest first
    closed,     \* which queues are closed
    pc,         \* where each stage's worker is; pc[0] is main()
    data,       \* the value a worker got from its queue
    fork,       \* the task stage k forked for element i
    internal,   \* the end stage's internalQueue
    active,     \* the end stage's count of forks in flight
    next,       \* the driver's loop variable i
    acc,        \* <<sum, count>>, the variables the consumer captures
    consumed    \* ghost: the elements the consumer was called with

vars == <<parallelism, queue, closed, pc, data, fork, internal, active, next, acc, consumed>>

\* What is in a slot: the element, or the handle of the task forked for it, with
\* the value the task was given. The id is a ghost.
Elem(i, v) == [id |-> i, val |-> v]

\* What co_await yields for an entry of queue k.
Awaited(k, m) == IF k = 1 THEN m.val ELSE Func(k - 1, m.val)

\* Mutant: one slot more than the parallelism.
CapacityPlusOne(k) == parallelism[IF k = 1 THEN 1 ELSE k - 1] + 1

\* Queue 1 and queue 2 are sized to the first stage's parallelism, queue k + 1 to
\* stage k's.
Capacity(k) == parallelism[IF k = 1 THEN 1 ELSE k - 1]

Inline == parallelism[Stages] = 1

Init ==
    /\ parallelism \in Parallelisms
    /\ queue = [k \in 1..Stages |-> <<>>]
    /\ closed = [k \in 1..Stages |-> FALSE]
    /\ pc = [k \in 0..Stages |-> IF k = 0 THEN "construct" ELSE "unborn"]
    /\ data = [k \in 1..Stages |-> 0]
    /\ fork = [k \in 1..Stages |-> [i \in Ids |-> "none"]]
    /\ internal = <<>>
    /\ active = 0
    /\ next = 0
    /\ acc = <<0, 0>>
    /\ consumed = <<>>

Goto(k, l) == pc' = [pc EXCEPT ![k] = l]

-----------------------------------------------------------------------------
(* tmc::qu_spsc_bounded *)

QueuePush(k, m) ==
    /\ Len(queue[k]) < Capacity(k)
    /\ queue' = [queue EXCEPT ![k] = Append(@, m)]

Fork(k, i) == fork' = [fork EXCEPT ![k][i] = "running"]
Forked(k, i, s) == fork[k][i] = s

-----------------------------------------------------------------------------
(* main() *)

\* The constructor of a stage makes its queues and forks its worker.
Construct(k) ==
    /\ pc[0] = "construct"
    /\ pc[k] = "unborn" /\ \A j \in 1..k - 1 : pc[j] # "unborn"
    /\ pc' = [pc EXCEPT ![k] = "pull", ![0] = IF k = Stages THEN "push" ELSE @]
    /\ UNCHANGED <<parallelism, queue, closed, data, fork, internal, active,
                   next, acc, consumed>>

\* co_await first.input_queue->push(i)
DriverPush ==
    /\ pc[0] = "push" /\ next < NELEMS
    /\ QueuePush(1, Elem(next, next))
    /\ next' = next + 1
    /\ UNCHANGED <<parallelism, closed, pc, data, fork, internal, active, acc,
                   consumed>>

DriverClose ==
    /\ pc[0] = "push" /\ next = NELEMS
    /\ closed' = [closed EXCEPT ![1] = TRUE]
    /\ Goto(0, "join")
    /\ UNCHANGED <<parallelism, queue, data, fork, internal, active, next, acc,
                   consumed>>

\* co_await std::move(fg): the workers of all stages.
DriverJoin ==
    /\ pc[0] = "join"
    /\ \A k \in 1..Stages : pc[k] = "done"
    /\ Goto(0, "done")
    /\ UNCHANGED <<parallelism, queue, closed, data, fork, internal, active,
                   next, acc, consumed>>

-----------------------------------------------------------------------------
(* The worker of any stage *)

\* inQueue->pull() returns a scope on the oldest entry.
Pull(k) ==
    /\ pc[k] = "pull" /\ queue[k] # <<>>
    /\ Goto(k, "await")
    /\ UNCHANGED <<parallelism, queue, closed, data, fork, internal, active,
                   next, acc, consumed>>

\* co_await std::move(input.value()), when the entry is a handle.
Await(k) ==
    /\ pc[k] = "await"
    /\ k > 1 => Forked(k - 1, Head(queue[k]).id, "done")
    /\ data' = [data EXCEPT ![k] = Awaited(k, Head(queue[k]))]
    /\ Goto(k, IF k < Stages THEN "push" ELSE IF Inline THEN "consume" ELSE "pushInternal")
    /\ UNCHANGED <<parallelism, queue, closed, fork, internal, active, next,
                   acc, consumed>>

\* Mutant: the scope is dropped and its slot is not freed.
ReleaseNothing(k) ==
    /\ pc[k] = "release"
    /\ Goto(k, "pull")
    /\ UNCHANGED <<parallelism, queue, closed, data, fork, internal, active,
                   next, acc, consumed>>

\* The scope "input" ends and frees its slot.
Release(k) ==
    /\ pc[k] = "release"
    /\ queue' = [queue EXCEPT ![k] = Tail(@)]
    /\ Goto(k, "pull")
    /\ UNCHANGED <<parallelism, closed, data, fork, internal, active, next,
                   acc, consumed>>

-----------------------------------------------------------------------------
(* The worker of a processing stage *)

\* co_await outQueue->push(...): the task is forked into the slot it waited for.
Push(k) ==
    /\ pc[k] = "push"
    /\ LET i == Head(queue[k]).id IN
        /\ QueuePush(k + 1, Elem(i, data[k]))
        /\ Fork(k, i)
    /\ Goto(k, "release")
    /\ UNCHANGED <<parallelism, closed, data, internal, active, next, acc, consumed>>

\* Mutant: a closed queue is taken for a drained one.
CloseUndrained(k) ==
    /\ pc[k] = "pull" /\ closed[k]
    /\ closed' = [closed EXCEPT ![k + 1] = TRUE]
    /\ Goto(k, "done")
    /\ UNCHANGED <<parallelism, queue, data, fork, internal, active, next, acc,
                   consumed>>

\* Mutant: outQueue->close() is missing.
CloseNothing(k) ==
    /\ pc[k] = "pull" /\ queue[k] = <<>> /\ closed[k]
    /\ Goto(k, "done")
    /\ UNCHANGED <<parallelism, queue, closed, data, fork, internal, active, next,
                   acc, consumed>>

\* pull() found the input closed and drained: outQueue->close().
Close(k) ==
    /\ pc[k] = "pull" /\ queue[k] = <<>> /\ closed[k]
    /\ closed' = [closed EXCEPT ![k + 1] = TRUE]
    /\ Goto(k, "done")
    /\ UNCHANGED <<parallelism, queue, data, fork, internal, active, next, acc,
                   consumed>>

\* The task that stage k forked for element i has run func.
TaskDone(k, i) ==
    /\ Forked(k, i, "running")
    /\ fork' = [fork EXCEPT ![k][i] = "done"]
    /\ UNCHANGED <<parallelism, queue, closed, pc, data, internal, active,
                   next, acc, consumed>>

-----------------------------------------------------------------------------
(* The worker of the end stage *)

\* The consumer is called with v, the value of element i. When the end stage
\* forks it, its user synchronizes what it touches.
Consume(i, v) ==
    /\ acc' = <<acc[1] + v, acc[2] + 1>>
    /\ consumed' = Append(consumed, i)

\* inline_worker: func(std::move(data))
ConsumeInline ==
    /\ pc[Stages] = "consume"
    /\ Consume(Head(queue[Stages]).id, data[Stages])
    /\ Goto(Stages, "release")
    /\ UNCHANGED <<parallelism, queue, closed, data, fork, internal, active, next>>

\* Mutant: the limit is tested with > instead of >=.
PushInternalLate ==
    /\ pc[Stages] = "pushInternal"
    /\ Len(internal) < parallelism[Stages]
    /\ LET i == Head(queue[Stages]).id IN
        /\ internal' = Append(internal, Elem(i, data[Stages]))
        /\ Fork(Stages, i)
    /\ active' = active + 1
    /\ Goto(Stages, IF active' > parallelism[Stages] THEN "drainOne" ELSE "release")
    /\ UNCHANGED <<parallelism, queue, closed, data, next, acc, consumed>>

\* worker: fork the consumer into the internal queue, ++active.
PushInternal ==
    /\ pc[Stages] = "pushInternal"
    /\ Len(internal) < parallelism[Stages]
    /\ LET i == Head(queue[Stages]).id IN
        /\ internal' = Append(internal, Elem(i, data[Stages]))
        /\ Fork(Stages, i)
    /\ active' = active + 1
    /\ Goto(Stages, IF active' >= parallelism[Stages] THEN "drainOne" ELSE "release")
    /\ UNCHANGED <<parallelism, queue, closed, data, next, acc, consumed>>

\* Pull the oldest handle of the internal queue, await it, --active.
PullInternal ==
    /\ internal # <<>> /\ Forked(Stages, Head(internal).id, "done")
    /\ internal' = Tail(internal)
    /\ active' = active - 1

DrainOne ==
    /\ pc[Stages] = "drainOne"
    /\ PullInternal
    /\ Goto(Stages, "release")
    /\ UNCHANGED <<parallelism, queue, closed, data, fork, next, acc, consumed>>

\* A forked consumer runs.
ConsumeForked(n) ==
    /\ LET m == internal[n] IN
        /\ Forked(Stages, m.id, "running")
        /\ Consume(m.id, m.val)
        /\ fork' = [fork EXCEPT ![Stages][m.id] = "done"]
    /\ UNCHANGED <<parallelism, queue, closed, pc, data, internal, active, next>>

\* Mutant: an empty queue is taken for the end of the input.
EndOnEmpty ==
    /\ pc[Stages] = "pull" /\ queue[Stages] = <<>>
    /\ Goto(Stages, IF Inline THEN "done" ELSE "flush")
    /\ UNCHANGED <<parallelism, queue, closed, data, fork, internal, active,
                   next, acc, consumed>>

\* The input is closed and drained.
EndOfInput ==
    /\ pc[Stages] = "pull" /\ queue[Stages] = <<>> /\ closed[Stages]
    /\ Goto(Stages, IF Inline THEN "done" ELSE "flush")
    /\ UNCHANGED <<parallelism, queue, closed, data, fork, internal, active,
                   next, acc, consumed>>

\* while (active > 0) drain in order
Flush ==
    /\ pc[Stages] = "flush" /\ active > 0
    /\ PullInternal
    /\ UNCHANGED <<parallelism, queue, closed, pc, data, fork, next, acc, consumed>>

\* Mutant: the handles that are left are not awaited.
FlushNothing ==
    /\ pc[Stages] = "flush"
    /\ Goto(Stages, "done")
    /\ UNCHANGED <<parallelism, queue, closed, data, fork, internal, active,
                   next, acc, consumed>>

FlushDone ==
    /\ pc[Stages] = "flush" /\ active = 0
    /\ Goto(Stages, "done")
    /\ UNCHANGED <<parallelism, queue, closed, data, fork, internal, active,
                   next, acc, consumed>>

-----------------------------------------------------------------------------
DriverStep == (\E k \in 1..Stages : Construct(k)) \/ DriverPush \/ DriverClose \/ DriverJoin

StageStep(k) ==
    \/ Pull(k) \/ Await(k) \/ Release(k)
    \/ k \in Processing /\ (Push(k) \/ Close(k))

EndStep ==
    \/ ConsumeInline \/ PushInternal \/ DrainOne \/ EndOfInput \/ Flush \/ FlushDone

TaskStep ==
    \/ \E k \in Processing, i \in Ids : TaskDone(k, i)
    \/ \E n \in DOMAIN internal : ConsumeForked(n)

\* main() has returned: not a deadlock.
Terminated == pc[0] = "done" /\ UNCHANGED vars

Next == DriverStep \/ (\E k \in 1..Stages : StageStep(k)) \/ EndStep \/ TaskStep \/ Terminated

\* The executor does not idle while some coroutine is ready; every step is progress.
Fairness == WF_vars(Next)

Spec == Init /\ [][Next]_vars
FairSpec == Spec /\ Fairness

-----------------------------------------------------------------------------
InFlight(k) == {i \in Ids : Forked(k, i, "running")}

(* "At most parallelism forked task handles can be in flight": a stage, the   *)
(* end stage too, never runs more tasks at a time than its parallelism.      *)
InFlightBound == \A k \in 1..Stages : Cardinality(InFlight(k)) <= parallelism[k]

(* "The next push() never blocks on a full queue": the end stage's worker is  *)
(* the only one that could empty the internal queue it would wait for.       *)
InternalPushNeverBlocks ==
    pc[Stages] = "pushInternal" => active < parallelism[Stages] /\ Len(internal) = active

CanDrive ==
    \/ pc[0] = "construct" /\ \E k \in 1..Stages : pc[k] = "unborn"
    \/ pc[0] = "push" /\ (next < NELEMS => Len(queue[1]) < Capacity(1))
    \/ pc[0] = "join" /\ \A k \in 1..Stages : pc[k] = "done"

CanWork(k) ==
    \/ pc[k] = "pull" /\ (queue[k] # <<>> \/ closed[k])
    \/ pc[k] = "await" /\ (k > 1 => Forked(k - 1, Head(queue[k]).id, "done"))
    \/ pc[k] = "push" /\ Len(queue[k + 1]) < Capacity(k + 1)
    \/ pc[k] \in {"consume", "release"}
    \/ pc[k] = "pushInternal" /\ Len(internal) < parallelism[Stages]
    \/ pc[k] = "flush" /\ active = 0
    \/ pc[k] \in {"flush", "drainOne"} /\ active > 0 /\ Forked(Stages, Head(internal).id, "done")

(* Never does everyone wait for everyone: until main() returns, some task     *)
(* runs, or a worker or main() has what it waits for.                        *)
SomebodyGoesOn ==
    pc[0] = "done" \/ CanDrive \/ (\E k \in 1..Stages : CanWork(k) \/ InFlight(k) # {})

(* Nothing is forked and forgotten: when main() is past co_await fg, and     *)
(* sum and count go out of scope, no task of any stage is left running.      *)
NothingRunsAfterJoin ==
    pc[0] = "done" => \A k \in 1..Stages, i \in Ids : ~Forked(k, i, "running")

(* Each queue holds consecutive elements, and what a stage has pushed ends   *)
(* where what it has still to read begins.                                   *)
Conveyor ==
    \A k \in 1..Stages :
        /\ \A n \in 1..Len(queue[k]) - 1 : queue[k][n + 1].id = queue[k][n].id + 1
        /\ k < Stages /\ queue[k] # <<>> /\ queue[k + 1] # <<>> =>
            LET last == queue[k + 1][Len(queue[k + 1])].id
            IN  Head(queue[k]).id = IF pc[k] = "release" THEN last ELSE last + 1

(* A stage closes its output behind its last element: a closed queue has     *)
(* received all there is, and its writer has ended.                          *)
ClosedWhenComplete ==
    \A k \in 1..Stages : closed[k] =>
        /\ next = NELEMS
        /\ \A j \in 1..k - 1 : pc[j] = "done" /\ queue[j] = <<>>

\* What the stages before the last make of element i.
Through(i) ==
    LET after[k \in 0..Stages - 1] == IF k = 0 THEN i ELSE Func(k, after[k - 1])
    IN  after[Stages - 1]
Composed == [i \in Ids |-> Through(i)]

Map == INSTANCE OrderedMap WITH
            N <- NELEMS, Result <- Composed,
            accepted <- next, delivered <- consumed, total <- acc,
            done <- (pc[0] = "done"), ordered <- Inline

(* Every element is consumed exactly once before main() goes on, and with an *)
(* end stage of parallelism 1 "results will appear in the same order as the  *)
(* original input"; and the pipeline ends.                                   *)
ImplementsOrderedMap == Map!LiveOrderedSpec
=============================================================================
