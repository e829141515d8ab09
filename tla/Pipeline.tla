------------------------------ MODULE Pipeline ------------------------------
(***************************************************************************)
(* The out-of-order actor pipeline of examples/pipeline.hpp, driven as in  *)
(* examples/pipeline.cpp. Stage k (1..Stages) pulls from channel k; stages *)
(* below Stages are pipeline_stage objects and post to channel k+1, stage  *)
(* Stages is the pipeline_end_stage. Semaphore k counts the free slots of  *)
(* channel k and is owned by whoever posts to it (inputSem for k = 1, the  *)
(* outSem_ of stage k-1 otherwise). The driver is the producer of channel  *)
(* 1, so it is treated as an actor of stage 0.                             *)
(*                                                                         *)
(* A step is what a coroutine does up to a point where it can suspend or   *)
(* where another thread sees what it did. tmc::channel and tmc::semaphore  *)
(* are modelled from how the code uses them.                               *)
(***************************************************************************)
EXTENDS Integers, Sequences, FiniteSets, Functions

CONSTANTS
    NELEMS,        \* how many elements the driver posts: 0..NELEMS-1
    Stages,        \* the number of stages, the end stage included
    Workers,       \* the worker coroutines of all stages
    StageOf,       \* the stage of each worker
    Driver,        \* the coroutine of main()
    ChanType,      \* the type of the values in each channel, as a set
    Func(_, _)     \* Func(k, v): the processing function of stage k < Stages

Actors == Workers \cup {Driver}
WorkersOf(k) == {w \in Workers : StageOf[w] = k}
workerCount == [k \in 1..Stages |-> Cardinality(WorkersOf(k))]

\* The stage an actor belongs to.
Stage(a) == IF a = Driver THEN 0 ELSE StageOf[a]

ASSUME StagesAssumption ==
    /\ Stages \in Nat \ {0, 1}
    /\ NELEMS \in Nat
    /\ IsFiniteSet(Workers) /\ Driver \notin Workers
    /\ StageOf \in [Workers -> 1..Stages]
    /\ \A k \in 1..Stages : WorkersOf(k) # {}
ASSUME FuncAssumption ==
    /\ 0..NELEMS - 1 \subseteq ChanType[1]
    /\ \A k \in 1..Stages - 1 : \A v \in ChanType[k] : Func(k, v) \in ChanType[k + 1]
    /\ ChanType[Stages] \subseteq Int

VARIABLES
    chan,      \* the elements in each channel, oldest first
    closed,    \* which channels are closed
    sem,       \* the count of each semaphore
    pc,        \* where each actor is
    held,      \* the element in the hands of each actor
    loaded,    \* the <<sum, count>> a worker of the end stage is about to store
    drainer,   \* the task of stage k that joins its workers and drains channel k+1
    built,     \* the stages constructed so far
    next,      \* the driver's loop variable i
    acc,       \* <<sum, count>>, the variables the end stage's lambda captures
    consumed   \* ghost: the ids the end stage processed, one entry per call

vars == <<chan, closed, sem, pc, held, loaded, drainer, built, next, acc, consumed>>

\* What travels: the value, and as a ghost the index of the element it came from.
Elem(i, v) == [id |-> i, val |-> v]
Nothing == [id |-> -1, val |-> 0]

Init ==
    /\ chan = [k \in 1..Stages |-> <<>>]
    /\ closed = [k \in 1..Stages |-> FALSE]
    /\ sem = [k \in 1..Stages |-> 0]
    /\ pc = [a \in Actors |-> IF a = Driver THEN "construct" ELSE "unborn"]
    /\ held = [a \in Actors |-> Nothing]
    /\ loaded = [w \in Workers |-> <<0, 0>>]
    /\ drainer = [k \in 1..Stages - 1 |-> "unborn"]
    /\ built = 0
    /\ next = 0
    /\ acc = <<0, 0>>
    /\ consumed = <<>>

Goto(a, l) == pc' = [pc EXCEPT ![a] = l]

-----------------------------------------------------------------------------
(* tmc::channel and tmc::semaphore *)

\* chan_tok::post: a closed channel refuses the element.
ChanPost(k, m) == chan' = IF closed[k] THEN chan ELSE [chan EXCEPT ![k] = Append(@, m)]

\* co_await semaphore: resumes with one unit less.
SemAcquire(k) == sem[k] > 0 /\ sem' = [sem EXCEPT ![k] = @ - 1]
SemRelease(k, n) == sem' = [sem EXCEPT ![k] = @ + n]

-----------------------------------------------------------------------------
(* Construction: start_pipeline, pipeline_transform and end_pipeline          *)

\* The constructor of stage k gives its input semaphore 2 units per worker,
\* starts the workers and, unless it is the end stage, the drain task.
Construct ==
    /\ pc[Driver] = "construct"
    /\ built < Stages
    /\ LET k == built + 1 IN
        /\ built' = k
        /\ SemRelease(k, 2 * workerCount[k])
        /\ pc' = [a \in Actors |->
                    IF a # Driver /\ Stage(a) = k THEN "pull"
                    ELSE IF a = Driver /\ k = Stages THEN "acquire" ELSE pc[a]]
        /\ drainer' = IF k < Stages THEN [drainer EXCEPT ![k] = "join"] ELSE drainer
    /\ UNCHANGED <<chan, closed, held, loaded, next, acc, consumed>>

-----------------------------------------------------------------------------
(* The driver *)

\* co_await inputSem
DriverAcquire ==
    /\ pc[Driver] = "acquire" /\ next < NELEMS
    /\ SemAcquire(1)
    /\ held' = [held EXCEPT ![Driver] = Elem(next, next)]
    /\ Goto(Driver, "post")
    /\ UNCHANGED <<chan, closed, loaded, drainer, built, next, acc, consumed>>

\* in.post(i); ++i
DriverPost ==
    /\ pc[Driver] = "post"
    /\ ChanPost(1, held[Driver])
    /\ held' = [held EXCEPT ![Driver] = Nothing]
    /\ next' = next + 1
    /\ Goto(Driver, "acquire")
    /\ UNCHANGED <<closed, sem, loaded, drainer, built, acc, consumed>>

\* in.drain() closes the channel and waits until it is empty.
DriverClose ==
    /\ pc[Driver] = "acquire" /\ next = NELEMS
    /\ closed' = [closed EXCEPT ![1] = TRUE]
    /\ Goto(Driver, "drain")
    /\ UNCHANGED <<chan, sem, held, loaded, drainer, built, next, acc, consumed>>

DriverDrained ==
    /\ pc[Driver] = "drain"
    /\ chan[1] = <<>>
    /\ Goto(Driver, "join")
    /\ UNCHANGED <<chan, closed, sem, held, loaded, drainer, built, next, acc, consumed>>

\* Mutant: the end stage's workers are not added to the fork group.
JoinDrainersOnly ==
    /\ pc[Driver] = "join"
    /\ \A k \in 1..Stages - 1 : drainer[k] = "done"
    /\ Goto(Driver, "done")
    /\ UNCHANGED <<chan, closed, sem, held, loaded, drainer, built, next, acc, consumed>>

\* co_await std::move(fg): the drain tasks and the end stage's workers.
DriverJoin ==
    /\ pc[Driver] = "join"
    /\ \A k \in 1..Stages - 1 : drainer[k] = "done"
    /\ \A w \in WorkersOf(Stages) : pc[w] = "done"
    /\ Goto(Driver, "done")
    /\ UNCHANGED <<chan, closed, sem, held, loaded, drainer, built, next, acc, consumed>>

-----------------------------------------------------------------------------
(* The workers *)

\* inChan.pull() returns an element ...
Pull(w) ==
    /\ pc[w] = "pull"
    /\ LET k == Stage(w) IN
        /\ chan[k] # <<>>
        /\ held' = [held EXCEPT ![w] = Head(chan[k])]
        /\ chan' = [chan EXCEPT ![k] = Tail(@)]
    /\ Goto(w, "release")
    /\ UNCHANGED <<closed, sem, loaded, drainer, built, next, acc, consumed>>

\* ... or finds the channel closed and empty: the worker ends.
PullClosed(w) ==
    /\ pc[w] = "pull"
    /\ closed[Stage(w)] /\ chan[Stage(w)] = <<>>
    /\ Goto(w, "done")
    /\ UNCHANGED <<chan, closed, sem, held, loaded, drainer, built, next, acc, consumed>>

\* Mutant: inSem->release() is missing.
ReleaseNothing(w) ==
    /\ pc[w] = "release"
    /\ Goto(w, IF Stage(w) = Stages THEN "load" ELSE "acquire")
    /\ UNCHANGED <<chan, closed, sem, held, loaded, drainer, built, next, acc, consumed>>

\* inSem->release()
Release(w) ==
    /\ pc[w] = "release"
    /\ SemRelease(Stage(w), 1)
    /\ Goto(w, IF Stage(w) = Stages THEN "load" ELSE "acquire")
    /\ UNCHANGED <<chan, closed, held, loaded, drainer, built, next, acc, consumed>>

\* co_await *outSem
Acquire(w) ==
    /\ pc[w] = "acquire"
    /\ SemAcquire(Stage(w) + 1)
    /\ Goto(w, "post")
    /\ UNCHANGED <<chan, closed, held, loaded, drainer, built, next, acc, consumed>>

\* Mutant: the element is posted without having been processed.
PostUnprocessed(w) ==
    /\ pc[w] = "post"
    /\ ChanPost(Stage(w) + 1, held[w])
    /\ held' = [held EXCEPT ![w] = Nothing]
    /\ Goto(w, "pull")
    /\ UNCHANGED <<closed, sem, loaded, drainer, built, next, acc, consumed>>

\* outChan.post(func(input))
ProcessAndPost(w) ==
    /\ pc[w] = "post"
    /\ LET m == held[w] IN
        ChanPost(Stage(w) + 1, Elem(m.id, Func(Stage(w), m.val)))
    /\ held' = [held EXCEPT ![w] = Nothing]
    /\ Goto(w, "pull")
    /\ UNCHANGED <<closed, sem, loaded, drainer, built, next, acc, consumed>>

\* The end stage's lambda is not synchronized: sum and count are read ...
ConsumeLoad(w) ==
    /\ pc[w] = "load"
    /\ loaded' = [loaded EXCEPT ![w] = <<acc[1] + held[w].val, acc[2] + 1>>]
    /\ Goto(w, "store")
    /\ UNCHANGED <<chan, closed, sem, held, drainer, built, next, acc, consumed>>

\* ... and written back, and another worker of the stage may come in between.
ConsumeStore(w) ==
    /\ pc[w] = "store"
    /\ acc' = loaded[w]
    /\ consumed' = Append(consumed, held[w].id)
    /\ held' = [held EXCEPT ![w] = Nothing]
    /\ Goto(w, "pull")
    /\ UNCHANGED <<chan, closed, sem, loaded, drainer, built, next>>

-----------------------------------------------------------------------------
(* The task that closes and drains a stage's output channel *)

\* Mutant: the drain task does not wait for the workers.
CloseAtOnce(k) ==
    /\ drainer[k] = "join"
    /\ closed' = [closed EXCEPT ![k + 1] = TRUE]
    /\ drainer' = [drainer EXCEPT ![k] = "drain"]
    /\ UNCHANGED <<chan, sem, pc, held, loaded, built, next, acc, consumed>>

\* Mutant: drain() empties the channel without closing it.
CloseNothing(k) ==
    /\ drainer[k] = "join"
    /\ \A w \in WorkersOf(k) : pc[w] = "done"
    /\ drainer' = [drainer EXCEPT ![k] = "drain"]
    /\ UNCHANGED <<chan, closed, sem, pc, held, loaded, built, next, acc, consumed>>

\* co_await SG has resumed: every worker of the stage has ended. drain() closes.
DrainerClose(k) ==
    /\ drainer[k] = "join"
    /\ \A w \in WorkersOf(k) : pc[w] = "done"
    /\ closed' = [closed EXCEPT ![k + 1] = TRUE]
    /\ drainer' = [drainer EXCEPT ![k] = "drain"]
    /\ UNCHANGED <<chan, sem, pc, held, loaded, built, next, acc, consumed>>

DrainerDone(k) ==
    /\ drainer[k] = "drain"
    /\ chan[k + 1] = <<>>
    /\ drainer' = [drainer EXCEPT ![k] = "done"]
    /\ UNCHANGED <<chan, closed, sem, pc, held, loaded, built, next, acc, consumed>>

-----------------------------------------------------------------------------
DriverStep ==
    Construct \/ DriverAcquire \/ DriverPost \/ DriverClose \/ DriverDrained \/ DriverJoin

WorkerStep(w) ==
    \/ Pull(w) \/ PullClosed(w) \/ Release(w) \/ Acquire(w) \/ ProcessAndPost(w)
    \/ ConsumeLoad(w) \/ ConsumeStore(w)

DrainerStep(k) == DrainerClose(k) \/ DrainerDone(k)

\* main() has returned: not a deadlock.
Terminated == pc[Driver] = "done" /\ UNCHANGED vars

Next ==
    \/ DriverStep
    \/ \E w \in Workers : WorkerStep(w)
    \/ \E k \in 1..Stages - 1 : DrainerStep(k)
    \/ Terminated

\* The executor does not idle while some coroutine is ready. That is enough:
\* every step brings the pipeline closer to its end, whoever takes it.
Fairness == WF_vars(Next)

Spec == Init /\ [][Next]_vars
FairSpec == Spec /\ Fairness

-----------------------------------------------------------------------------
DriverPC == {"construct", "acquire", "post", "drain", "join", "done"}
WorkerPC == {"unborn", "pull", "release", "acquire", "post", "load", "store", "done"}

\* The elements that travel through channel k.
Element(k) == [id : 0..NELEMS - 1, val : ChanType[k]]

ChannelsOK ==
    /\ chan = [k \in 1..Stages |-> chan[k]]
    /\ \A k \in 1..Stages : chan[k] \in Seq(Element(k))
    /\ closed \in [1..Stages -> BOOLEAN]
    /\ sem \in [1..Stages -> Nat]

PlacesOK ==
    /\ pc \in [Actors -> DriverPC \cup WorkerPC]
    /\ pc[Driver] \in DriverPC
    /\ \A w \in Workers :
        /\ pc[w] \in WorkerPC
        /\ pc[w] \in {"acquire", "post"} => Stage(w) < Stages
        /\ pc[w] \in {"load", "store"} => Stage(w) = Stages
    /\ drainer \in [1..Stages - 1 -> {"unborn", "join", "drain", "done"}]
    /\ built \in 0..Stages

HandsOK ==
    /\ held = [a \in Actors |-> held[a]]
    /\ pc[Driver] = "post" => held[Driver] \in Element(1)
    /\ \A w \in Workers : pc[w] \in {"release", "acquire", "post", "load", "store"} =>
                            held[w] \in Element(Stage(w))
    /\ loaded \in [Workers -> Int \X Nat]

TotalsOK ==
    /\ next \in 0..NELEMS
    /\ pc[Driver] = "post" => next < NELEMS
    /\ acc \in Int \X Nat
    /\ consumed \in Seq(0..NELEMS - 1)

(* Channels hold processed elements of the stage before, tokens are counted, *)
(* and every worker, drainer and the driver is somewhere in its code.        *)
TypeOK == ChannelsOK /\ PlacesOK /\ HandsOK /\ TotalsOK

\* The actors of stage k that are at l: an actor at "post" holds a unit of the
\* next channel's semaphore, one at "release" a unit of its own channel's.
At(l, k) == {a \in Actors : Stage(a) = k /\ pc[a] = l}

Tokens(k) == sem[k] + Len(chan[k]) + Cardinality(At("post", k - 1))
                                    + Cardinality(At("release", k))

(* Every unit of a stage's input semaphore is accounted for: it is free, or  *)
(* stands for an element about to be posted, in the channel, or just pulled. *)
TokenConservation == \A k \in 1..Stages :
    Tokens(k) = IF k <= built THEN 2 * workerCount[k] ELSE 0

CanDrive ==
    \/ pc[Driver] = "construct" /\ built < Stages
    \/ pc[Driver] = "acquire" /\ (next < NELEMS => sem[1] > 0)
    \/ pc[Driver] = "post"
    \/ pc[Driver] = "drain" /\ chan[1] = <<>>
    \/ /\ pc[Driver] = "join"
       /\ \A k \in 1..Stages - 1 : drainer[k] = "done"
       /\ \A w \in WorkersOf(Stages) : pc[w] = "done"

CanWork(w) ==
    \/ pc[w] = "pull" /\ (chan[Stage(w)] # <<>> \/ closed[Stage(w)])
    \/ pc[w] = "acquire" /\ sem[Stage(w) + 1] > 0
    \/ pc[w] \in {"release", "post", "load", "store"}

CanDrain(k) ==
    \/ drainer[k] = "join" /\ \A w \in WorkersOf(k) : pc[w] = "done"
    \/ drainer[k] = "drain" /\ chan[k + 1] = <<>>

(* Never does everyone wait for everyone: until main() returns, main(), a    *)
(* worker or a drain task has what it waits for, be it an element, a unit of *)
(* a semaphore, or the end of others.                                        *)
SomebodyGoesOn ==
    \/ pc[Driver] = "done" \/ CanDrive
    \/ \E w \in Workers : CanWork(w)
    \/ \E k \in 1..Stages - 1 : CanDrain(k)

(* "Set our input channel capacity to 2x our worker count": no channel ever  *)
(* holds more, however the workers of two adjacent stages interleave.        *)
ChannelCapacity == \A k \in 1..Stages : Len(chan[k]) <= 2 * workerCount[k]

(* A channel is closed only behind the work: everything upstream of it has   *)
(* been processed and posted, so no post can meet a closed channel; and a    *)
(* worker that has ended left nothing, and will be given nothing, to do.     *)
ClosedBehindTheWork ==
    /\ closed[1] => next = NELEMS /\ pc[Driver] \in {"drain", "join", "done"}
    /\ \A k \in 1..Stages - 1 : closed[k + 1] => \A w \in WorkersOf(k) : pc[w] = "done"
    /\ \A w \in Workers : pc[w] = "done" => closed[Stage(w)] /\ chan[Stage(w)] = <<>>

\* The workers of a stage exist once the stage is constructed.
BornWithStage ==
    /\ pc[Driver] = "construct" <=> built < Stages
    /\ \A w \in Workers : pc[w] = "unborn" <=> Stage(w) > built

\* What the stages before the last make of element i.
Through(i) ==
    LET after[k \in 0..Stages - 1] == IF k = 0 THEN i ELSE Func(k, after[k - 1])
    IN  after[Stages - 1]
Composed == [i \in 0..NELEMS - 1 |-> Through(i)]

(* What the pipeline promises its driver: see ParallelMap. main() goes past  *)
(* co_await fg only when sum and count include every element once.           *)
Map == INSTANCE ParallelMap WITH
            N <- NELEMS, Result <- Composed,
            accepted <- next, delivered <- consumed, total <- acc,
            done <- (pc[Driver] = "done")
ImplementsParallelMap == Map!LiveSpec
=============================================================================
