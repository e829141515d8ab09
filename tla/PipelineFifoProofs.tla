------------------------ MODULE PipelineFifoProofs ------------------------
(***************************************************************************)
(* Theorems about PipelineFifo for any number of stages, any parallelism   *)
(* and any number of elements. The code keeps no index, so the invariant   *)
(* states the order by a tally: how many elements each stage has taken out *)
(* of its queue. What is in the queues, which tasks were forked and which  *)
(* of them may still run all follow from the tally and the places of the   *)
(* workers.                                                                *)
(***************************************************************************)
EXTENDS PipelineFifo, SequenceTheorems, FiniteSetTheorems, SumTheorems, TLAPS

IsSeq(q) == q \in Seq({q[n] : n \in DOMAIN q})

StagePC == {"unborn", "pull", "await", "push", "release", "done"}
EndPC == {"unborn", "pull", "await", "consume", "pushInternal", "drainOne", "release",
          "flush", "done"}
DriverPC == {"construct", "push", "join", "done"}

\* A worker that has an entry in hand.
Holding == {"await", "push", "consume", "pushInternal", "drainOne", "release"}

QueuesOK ==
    /\ queue = [k \in 1..Stages |-> queue[k]]
    /\ \A k \in 1..Stages :
        /\ IsSeq(queue[k])
        /\ \A n \in 1..Len(queue[k]) : queue[k][n].id \in Ids

PlacesOK ==
    /\ pc \in [0..Stages -> StagePC \cup EndPC \cup DriverPC]
    /\ pc[0] \in DriverPC /\ pc[Stages] \in EndPC
    /\ \A k \in Processing : pc[k] \in StagePC

TasksOK ==
    /\ fork \in [1..Stages -> [Ids -> {"none", "running", "done"}]]
    /\ IsSeq(internal)
    /\ \A n \in 1..Len(internal) : internal[n].id \in Ids

TypeOK ==
    /\ parallelism \in [1..Stages -> Nat \ {0}]
    /\ QueuesOK
    /\ closed \in [1..Stages -> BOOLEAN]
    /\ PlacesOK
    /\ TasksOK
    /\ next \in 0..NELEMS

\* A worker keeps the entry it works on in its queue.
Held == \A k \in 1..Stages : pc[k] \in Holding => queue[k] # <<>>

\* No queue is longer than its capacity.
Bounded == \A k \in 1..Stages : Len(queue[k]) <= Capacity(k)

\* What the end stage has in flight is in its internal queue, below its limit but
\* while it waits for the oldest.
EndStage ==
    /\ active = Len(internal)
    /\ active <= parallelism[Stages]
    /\ ~Inline /\ pc[Stages] # "drainOne" => active < parallelism[Stages]
    /\ Inline => active = 0 /\ pc[Stages] \notin {"pushInternal", "drainOne", "flush"}
    /\ ~Inline => pc[Stages] # "consume"
    /\ pc[Stages] = "done" => active = 0

\* A queue is closed by its writer, which ends with it.
Closing ==
    /\ closed[1] <=> pc[0] \in {"join", "done"}
    /\ pc[0] \in {"join", "done"} => next = NELEMS
    /\ \A k \in Processing : closed[k + 1] <=> pc[k] = "done"
    /\ \A k \in 1..Stages : pc[k] \in {"flush", "done"} => closed[k] /\ queue[k] = <<>>
    /\ pc[0] = "done" => \A k \in 1..Stages : pc[k] = "done"

\* How many elements each stage has taken out of its queue ...
Tally == [1..Stages -> 0..NELEMS]
\* ... how many it has passed on ...
Passed(taken, k) == taken[k] + IF pc[k] \in {"drainOne", "release"} THEN 1 ELSE 0
\* ... and how many it has awaited.
Awaits(taken, k) == taken[k] + IF pc[k] \in Holding \ {"await"} THEN 1 ELSE 0

InQueues(taken) ==
    /\ taken[1] + Len(queue[1]) = next
    /\ \A k \in Processing : taken[k + 1] + Len(queue[k + 1]) = Passed(taken, k)
    /\ \A k \in 1..Stages : \A n \in 1..Len(queue[k]) : queue[k][n].id = taken[k] + n - 1

InTasks(taken) == \A k \in Processing, i \in Ids :
    /\ fork[k][i] # "none" <=> i < Passed(taken, k)
    /\ fork[k][i] = "running" => Awaits(taken, k + 1) <= i

InEndStage(taken) ==
    /\ \A n \in 1..Len(internal) : internal[n].id = Passed(taken, Stages) - Len(internal) + n - 1
    /\ \A i \in Ids :
        /\ fork[Stages][i] # "none" <=> ~Inline /\ i < Passed(taken, Stages)
        /\ fork[Stages][i] = "running" => Passed(taken, Stages) - Len(internal) <= i

Positions(taken) == InQueues(taken) /\ InTasks(taken) /\ InEndStage(taken)

Places == TypeOK /\ Held /\ Bounded /\ EndStage /\ Closing
IInv == Places /\ ClosedWhenComplete /\ \E taken \in Tally : Positions(taken)

-----------------------------------------------------------------------------
(* Sequences that are filled at the end and emptied at the front *)

\* push to a queue.
LEMMA AtAppend ==
  ASSUME NEW q, IsSeq(q), NEW x
  PROVE  /\ IsSeq(Append(q, x))
         /\ Len(q) \in Nat /\ Len(Append(q, x)) = Len(q) + 1
         /\ \A n \in 1..Len(q) : Append(q, x)[n] = q[n]
         /\ Append(q, x)[Len(q) + 1] = x
<1> DEFINE S == {q[n] : n \in DOMAIN q} \cup {x}
           t == Append(q, x)
<1>1. q \in Seq(S) /\ x \in S
  BY SeqMonotonic DEF IsSeq
<1>2. t \in Seq(S)
  BY <1>1, AppendProperties
<1>3. /\ Len(q) \in Nat /\ Len(t) = Len(q) + 1
      /\ \A n \in 1..Len(q) : t[n] = q[n]
      /\ t[Len(q) + 1] = x
  BY <1>1, AppendProperties, LenProperties
<1>4. t \in Seq({t[n] : n \in DOMAIN t})
  <2>1. t \in [1..Len(t) -> S] /\ DOMAIN t = 1..Len(t) /\ Len(t) \in Nat
    BY <1>2, LenProperties
  <2>2. t \in [1..Len(t) -> {t[n] : n \in DOMAIN t}]
    BY <2>1
  <2>3. QED BY <2>1, <2>2, SeqDef
<1>5. QED BY <1>3, <1>4 DEF IsSeq

\* The end of a scope on the oldest entry of a queue.
LEMMA AtTail ==
  ASSUME NEW q, IsSeq(q), q # <<>>
  PROVE  /\ IsSeq(Tail(q))
         /\ Len(q) \in Nat \ {0} /\ Len(Tail(q)) = Len(q) - 1
         /\ Head(q) = q[1]
         /\ \A n \in 1..Len(Tail(q)) : Tail(q)[n] = q[n + 1]
<1> DEFINE S == {q[n] : n \in DOMAIN q}
           t == Tail(q)
<1>1. q \in Seq(S)
  BY DEF IsSeq
<1>2. /\ t \in Seq(S) /\ Len(q) \in Nat \ {0} /\ Len(t) = Len(q) - 1
      /\ Head(q) = q[1]
      /\ \A n \in 1..Len(t) : t[n] = q[n + 1]
  BY <1>1, HeadTailProperties, EmptySeq
<1>3. t \in Seq({t[n] : n \in DOMAIN t})
  <2>1. t \in [1..Len(t) -> S] /\ DOMAIN t = 1..Len(t) /\ Len(t) \in Nat
    BY <1>2, LenProperties
  <2>2. t \in [1..Len(t) -> {t[n] : n \in DOMAIN t}]
    BY <2>1
  <2>3. QED BY <2>1, <2>2, SeqDef
<1>4. QED BY <1>2, <1>3 DEF IsSeq

\* An empty queue has length 0, and no other has.
LEMMA AtLen == ASSUME NEW q, IsSeq(q) PROVE Len(q) \in Nat /\ (Len(q) = 0 <=> q = <<>>)
BY LenProperties, EmptySeq DEF IsSeq

\* The queues as they are constructed.
LEMMA EmptyIsSeq == IsSeq(<<>>) /\ Len(<<>>) = 0
BY EmptySeq DEF IsSeq

-----------------------------------------------------------------------------
(* What a step does to the queues *)

\* The numbers of the driver, the processing stages and the end stage.
LEMMA StageNumbers ==
  /\ Stages \in Nat /\ Stages >= 2
  /\ Processing = 1..Stages - 1 /\ Processing \subseteq 1..Stages /\ Stages \notin Processing
  /\ 1 \in 1..Stages /\ Stages \in 1..Stages /\ 1..Stages \subseteq 0..Stages /\ 0 \in 0..Stages
  /\ \A k \in 1..Stages : k = Stages \/ k \in Processing
  /\ 1 \in Processing
BY FifoAssumption DEF Processing

\* The stages before and behind a stage.
LEMMA Neighbours ==
  /\ \A k \in Processing : k + 1 \in 1..Stages /\ k + 1 # 1
  /\ \A k \in 1..Stages : k = 1 \/ k - 1 \in Processing
BY FifoAssumption DEF Processing

\* A push to queue k.
LEMMA AtPush ==
  ASSUME TypeOK, NEW k \in 1..Stages, NEW m, m.id \in Ids, QueuePush(k, m)
  PROVE  /\ queue' = [j \in 1..Stages |-> queue'[j]]
         /\ Len(queue[k]) < Capacity(k)
         /\ Len(queue[k]) \in Nat /\ Len(queue'[k]) = Len(queue[k]) + 1
         /\ \A n \in 1..Len(queue[k]) : queue'[k][n] = queue[k][n]
         /\ queue'[k][Len(queue[k]) + 1] = m
         /\ \A j \in 1..Stages \ {k} : queue'[j] = queue[j]
         /\ \A j \in 1..Stages : /\ IsSeq(queue'[j])
                                 /\ \A n \in 1..Len(queue'[j]) : queue'[j][n].id \in Ids
<1>1. IsSeq(queue[k])
  BY DEF TypeOK, QueuesOK
<1>2. queue' = [queue EXCEPT ![k] = Append(queue[k], m)]
  BY DEF QueuePush
<1>3. queue'[k] = Append(queue[k], m) /\ \A j \in 1..Stages \ {k} : queue'[j] = queue[j]
  BY <1>2 DEF TypeOK, QueuesOK
<1>4. queue' = [j \in 1..Stages |-> queue'[j]]
  BY <1>2 DEF TypeOK, QueuesOK
<1>5. /\ IsSeq(queue'[k])
      /\ Len(queue[k]) \in Nat /\ Len(queue'[k]) = Len(queue[k]) + 1
      /\ \A n \in 1..Len(queue[k]) : queue'[k][n] = queue[k][n]
      /\ queue'[k][Len(queue[k]) + 1] = m
  BY <1>1, <1>3, AtAppend
<1>6. \A j \in 1..Stages : /\ IsSeq(queue'[j])
                           /\ \A n \in 1..Len(queue'[j]) : queue'[j][n].id \in Ids
  <2>1. \A n \in 1..Len(queue[k]) : queue[k][n].id \in Ids
    BY DEF TypeOK, QueuesOK
  <2>2. ASSUME NEW n \in 1..Len(queue'[k]) PROVE queue'[k][n].id \in Ids
    <3>1. n \in 1..Len(queue[k]) \/ n = Len(queue[k]) + 1
      BY <1>5
    <3>2. CASE n \in 1..Len(queue[k])
      <4>1. queue'[k][n] = queue[k][n]
        BY <1>5, <3>2
      <4>2. QED BY <4>1, <2>1, <3>2
    <3>3. CASE n = Len(queue[k]) + 1
      BY <1>5, <3>3
    <3>4. QED BY <3>1, <3>2, <3>3
  <2>3. ASSUME NEW j \in 1..Stages \ {k}
        PROVE  IsSeq(queue'[j]) /\ \A n \in 1..Len(queue'[j]) : queue'[j][n].id \in Ids
    <3>1. queue'[j] = queue[j]
      BY <1>3
    <3>2. QED BY <3>1 DEF TypeOK, QueuesOK
  <2>4. QED BY <1>5, <2>2, <2>3
<1>7. QED BY <1>3, <1>4, <1>5, <1>6 DEF QueuePush

\* The release of a slot of queue k.
LEMMA AtRelease ==
  ASSUME TypeOK, Held, NEW k \in 1..Stages, Release(k)
  PROVE  /\ queue' = [j \in 1..Stages |-> queue'[j]]
         /\ Len(queue[k]) \in Nat \ {0} /\ Len(queue'[k]) = Len(queue[k]) - 1
         /\ \A n \in 1..Len(queue'[k]) : queue'[k][n] = queue[k][n + 1]
         /\ Head(queue[k]) = queue[k][1]
         /\ \A j \in 1..Stages \ {k} : queue'[j] = queue[j]
         /\ \A j \in 1..Stages : /\ IsSeq(queue'[j])
                                 /\ \A n \in 1..Len(queue'[j]) : queue'[j][n].id \in Ids
<1>1. IsSeq(queue[k]) /\ queue[k] # <<>>
  BY DEF TypeOK, QueuesOK, Held, Holding, Release
<1>2. queue' = [queue EXCEPT ![k] = Tail(queue[k])]
  BY DEF Release
<1>3. queue'[k] = Tail(queue[k]) /\ \A j \in 1..Stages \ {k} : queue'[j] = queue[j]
  BY <1>2 DEF TypeOK, QueuesOK
<1>4. queue' = [j \in 1..Stages |-> queue'[j]]
  BY <1>2 DEF TypeOK, QueuesOK
<1>5. /\ IsSeq(queue'[k])
      /\ Len(queue[k]) \in Nat \ {0} /\ Len(queue'[k]) = Len(queue[k]) - 1
      /\ Head(queue[k]) = queue[k][1]
      /\ \A n \in 1..Len(queue'[k]) : queue'[k][n] = queue[k][n + 1]
  BY <1>1, <1>3, AtTail
<1>6. \A n \in 1..Len(queue'[k]) : n + 1 \in 1..Len(queue[k])
  BY <1>5
<1>7. \A j \in 1..Stages : /\ IsSeq(queue'[j])
                           /\ \A n \in 1..Len(queue'[j]) : queue'[j][n].id \in Ids
  <2>1. \A n \in 1..Len(queue[k]) : queue[k][n].id \in Ids
    BY DEF TypeOK, QueuesOK
  <2>2. ASSUME NEW n \in 1..Len(queue'[k]) PROVE queue'[k][n].id \in Ids
    <3>1. queue'[k][n] = queue[k][n + 1]
      BY <1>5
    <3>2. QED BY <3>1, <1>6, <2>1
  <2>3. ASSUME NEW j \in 1..Stages \ {k}
        PROVE  IsSeq(queue'[j]) /\ \A n \in 1..Len(queue'[j]) : queue'[j][n].id \in Ids
    <3>1. queue'[j] = queue[j]
      BY <1>3
    <3>2. QED BY <3>1 DEF TypeOK, QueuesOK
  <2>4. QED BY <1>5, <2>2, <2>3
<1>8. QED BY <1>3, <1>4, <1>5, <1>7

\* The entry a worker has in hand.
LEMMA AtHead ==
  ASSUME TypeOK, Held, NEW k \in 1..Stages, pc[k] \in Holding
  PROVE  /\ Head(queue[k]) = queue[k][1] /\ Head(queue[k]).id \in Ids
         /\ Len(queue[k]) \in Nat \ {0}
<1>1. IsSeq(queue[k]) /\ queue[k] # <<>>
  BY DEF TypeOK, QueuesOK, Held
<1>2. Head(queue[k]) = queue[k][1] /\ Len(queue[k]) \in Nat \ {0}
  BY <1>1, AtTail
<1>3. QED BY <1>2 DEF TypeOK, QueuesOK

-----------------------------------------------------------------------------
(* The places, the tasks and the lengths of the queues *)

\* The worker of the end stage, apart from the others.
LEMMA EndStageHolds ==
  ASSUME TypeOK
  PROVE  /\ pc[Stages] \in EndPC
         /\ \A k \in Processing : k # Stages /\ pc[k] \in StagePC
         /\ \A k \in 1..Stages : k # 0
BY StageNumbers DEF TypeOK, PlacesOK

\* Every step keeps the type of the queues.
LEMMA QueuesTyped ==
  ASSUME TypeOK, Held, [Next]_vars
  PROVE  QueuesOK' /\ next' \in 0..NELEMS
<1>1. CASE queue' = queue /\ next' = next
  BY <1>1 DEF TypeOK, QueuesOK
<1>2. CASE DriverPush
  <2>1. next \in Ids /\ next' = next + 1 /\ next' \in 0..NELEMS
    BY <1>2, FifoAssumption DEF DriverPush, TypeOK, Ids
  <2>2. QueuePush(1, Elem(next, next)) /\ Elem(next, next).id \in Ids
    BY <1>2, <2>1 DEF DriverPush, Elem
  <2>3. QED BY <2>1, <2>2, AtPush, StageNumbers DEF QueuesOK
<1>3. ASSUME NEW k \in 1..Stages, Release(k) PROVE QueuesOK' /\ next' \in 0..NELEMS
  BY <1>3, AtRelease DEF QueuesOK, Release, TypeOK
<1>4. ASSUME NEW k \in Processing, Push(k) PROVE QueuesOK' /\ next' \in 0..NELEMS
  <2>1. k \in 1..Stages /\ k + 1 \in 1..Stages /\ pc[k] \in Holding
    BY <1>4, StageNumbers DEF Push, Holding
  <2>2. Head(queue[k]).id \in Ids
    BY <2>1, AtHead
  <2>3. QueuePush(k + 1, Elem(Head(queue[k]).id, data[k])) /\ Elem(Head(queue[k]).id, data[k]).id \in Ids
    BY <1>4, <2>2 DEF Push, Elem
  <2>4. next' = next
    BY <1>4 DEF Push
  <2>5. QED BY <2>1, <2>3, <2>4, AtPush DEF QueuesOK, TypeOK
<1>5. QED
  BY <1>1, <1>2, <1>3, <1>4 DEF Next, vars, DriverStep, StageStep, EndStep, TaskStep, Terminated,
     Construct, DriverClose, DriverJoin, Pull, Await, Close, ConsumeInline, PushInternal, DrainOne,
     EndOfInput, Flush, FlushDone, TaskDone, ConsumeForked

\* A step of one worker leaves the others where they are.
LEMMA AtGoto ==
  ASSUME TypeOK, NEW k \in 0..Stages, NEW l, Goto(k, l)
  PROVE  /\ pc'[k] = l
         /\ \A j \in (0..Stages) \ {k} : pc'[j] = pc[j]
         /\ k = 0 /\ l \in DriverPC => PlacesOK'
         /\ k = Stages /\ l \in EndPC => PlacesOK'
         /\ k \in Processing /\ l \in StagePC => PlacesOK'
<1>1. pc'[k] = l /\ \A j \in (0..Stages) \ {k} : pc'[j] = pc[j]
  BY DEF Goto, TypeOK, PlacesOK
<1>2. /\ 0 \notin Processing /\ 0 # Stages /\ Stages \notin Processing
      /\ Processing \subseteq 0..Stages /\ 0 \in 0..Stages /\ Stages \in 0..Stages
  BY StageNumbers
<1>3. l \in StagePC \cup EndPC \cup DriverPC
      => pc' \in [0..Stages -> StagePC \cup EndPC \cup DriverPC]
  BY DEF Goto, TypeOK, PlacesOK
<1>4. k = 0 /\ l \in DriverPC => PlacesOK'
  BY <1>1, <1>2, <1>3 DEF TypeOK, PlacesOK
<1>5. k = Stages /\ l \in EndPC => PlacesOK'
  BY <1>1, <1>2, <1>3 DEF TypeOK, PlacesOK
<1>6. k \in Processing /\ l \in StagePC => PlacesOK'
  BY <1>1, <1>2, <1>3 DEF TypeOK, PlacesOK
<1>7. QED BY <1>1, <1>4, <1>5, <1>6

\* Every step keeps the type of the places.
LEMMA PlacesTyped ==
  ASSUME TypeOK, [Next]_vars
  PROVE  PlacesOK'
<1> USE StageNumbers
<1>1. CASE pc' = pc
  BY <1>1 DEF TypeOK, PlacesOK
<1>2. ASSUME NEW k \in 1..Stages, Construct(k) PROVE PlacesOK'
  <2>1. /\ pc'[k] = "pull"
        /\ pc'[0] \in {pc[0], "push"}
        /\ \A j \in 1..Stages : j # k => pc'[j] = pc[j]
        /\ pc' \in [0..Stages -> StagePC \cup EndPC \cup DriverPC]
    BY <1>2 DEF TypeOK, PlacesOK, Construct, StagePC, DriverPC
  <2>2. QED BY <2>1, EndStageHolds DEF TypeOK, PlacesOK, StagePC, EndPC, DriverPC
<1>3. CASE DriverClose \/ DriverJoin
  BY <1>3, AtGoto DEF DriverClose, DriverJoin, DriverPC
<1>4. ASSUME NEW k \in 1..Stages, Pull(k) \/ Await(k) \/ Release(k) PROVE PlacesOK'
  <2>1. CASE k = Stages
    BY <1>4, <2>1, AtGoto DEF Pull, Await, Release, EndPC
  <2>2. CASE k \in Processing
    BY <1>4, <2>2, AtGoto DEF Pull, Await, Release, StagePC
  <2>3. QED BY <2>1, <2>2
<1>5. ASSUME NEW k \in Processing, Push(k) \/ Close(k) PROVE PlacesOK'
  BY <1>5, AtGoto DEF Push, Close, StagePC
<1>6. CASE ConsumeInline \/ PushInternal \/ DrainOne \/ EndOfInput \/ FlushDone
  BY <1>6, AtGoto DEF ConsumeInline, PushInternal, DrainOne, EndOfInput, FlushDone, EndPC
<1>7. QED
  BY <1>1, <1>2, <1>3, <1>4, <1>5, <1>6 DEF Next, vars, DriverStep, StageStep, EndStep, TaskStep,
     Terminated, DriverPush, Flush, TaskDone, ConsumeForked

\* Every step keeps the types of the flags and of the configuration.
LEMMA ClosedTyped ==
  ASSUME TypeOK, [Next]_vars
  PROVE  closed' \in [1..Stages -> BOOLEAN] /\ parallelism' \in [1..Stages -> Nat \ {0}]
<1>1. parallelism' = parallelism
  BY DEF Next, vars, DriverStep, StageStep, EndStep, TaskStep, Terminated, Construct, DriverPush,
     DriverClose, DriverJoin, Pull, Await, Release, Push, Close, ConsumeInline, PushInternal,
     DrainOne, EndOfInput, Flush, FlushDone, TaskDone, ConsumeForked
<1>2. closed' = closed \/ \E k \in 1..Stages : closed' = [closed EXCEPT ![k] = TRUE]
  BY StageNumbers DEF Next, vars, DriverStep, StageStep, EndStep, TaskStep, Terminated, Construct, DriverPush,
     DriverClose, DriverJoin, Pull, Await, Release, Push, Close, ConsumeInline, PushInternal,
     DrainOne, EndOfInput, Flush, FlushDone, TaskDone, ConsumeForked
<1>3. QED BY <1>1, <1>2 DEF TypeOK

\* A step of one task leaves the others alone.
LEMMA AtFork ==
  ASSUME TypeOK, NEW k \in 1..Stages, NEW i \in Ids, NEW s \in {"none", "running", "done"},
         fork' = [fork EXCEPT ![k][i] = s]
  PROVE  /\ fork' \in [1..Stages -> [Ids -> {"none", "running", "done"}]]
         /\ fork'[k][i] = s
         /\ \A n \in Ids : n # i => fork'[k][n] = fork[k][n]
         /\ \A j \in 1..Stages, n \in Ids : j # k => fork'[j][n] = fork[j][n]
BY DEF TypeOK, TasksOK

\* ++active, with the handle at the end of the internal queue.
LEMMA AtPushInternal ==
  ASSUME TypeOK, Held, PushInternal
  PROVE  LET i == Head(queue[Stages]).id IN
         /\ i = queue[Stages][1].id /\ i \in Ids /\ fork' = [fork EXCEPT ![Stages][i] = "running"]
         /\ IsSeq(internal') /\ Len(internal) \in Nat /\ Len(internal') = Len(internal) + 1
         /\ \A n \in 1..Len(internal) : internal'[n] = internal[n]
         /\ internal'[Len(internal) + 1].id = i
<1> DEFINE i == Head(queue[Stages]).id
<1>1. pc[Stages] \in Holding /\ Stages \in 1..Stages
  BY StageNumbers DEF PushInternal, Holding
<1>2. i = queue[Stages][1].id /\ i \in Ids
  BY <1>1, AtHead
<1>3. internal' = Append(internal, Elem(i, data[Stages])) /\ fork' = [fork EXCEPT ![Stages][i] = "running"]
  BY DEF PushInternal, Fork
<1>4. IsSeq(internal) /\ Elem(i, data[Stages]).id = i
  BY DEF TypeOK, TasksOK, Elem
<1>5. QED
  BY <1>2, <1>3, <1>4, AtAppend

\* --active, with the oldest handle, whose task is done.
LEMMA AtPullInternal ==
  ASSUME TypeOK, PullInternal
  PROVE  /\ IsSeq(internal') /\ Len(internal) \in Nat \ {0} /\ Len(internal') = Len(internal) - 1
         /\ \A n \in 1..Len(internal') : internal'[n] = internal[n + 1]
         /\ internal[1].id \in Ids /\ fork[Stages][internal[1].id] = "done"
         /\ active' = active - 1
<1>1. IsSeq(internal) /\ internal # <<>> /\ internal' = Tail(internal)
  BY DEF TypeOK, TasksOK, PullInternal
<1>2. /\ IsSeq(internal') /\ Len(internal) \in Nat \ {0} /\ Len(internal') = Len(internal) - 1
      /\ Head(internal) = internal[1]
      /\ \A n \in 1..Len(internal') : internal'[n] = internal[n + 1]
  BY <1>1, AtTail
<1>3. QED BY <1>2 DEF TypeOK, TasksOK, PullInternal, Forked

\* Every step keeps the type of the tasks.
LEMMA TasksTyped ==
  ASSUME TypeOK, Held, [Next]_vars
  PROVE  TasksOK'
<1> USE StageNumbers
<1>1. CASE fork' = fork /\ internal' = internal
  BY <1>1 DEF TypeOK, TasksOK
<1>2. ASSUME NEW k \in Processing, Push(k) PROVE TasksOK'
  <2>1. k \in 1..Stages /\ pc[k] \in Holding /\ Head(queue[k]).id \in Ids
    BY <1>2, AtHead DEF Push, Holding
  <2>2. fork' = [fork EXCEPT ![k][Head(queue[k]).id] = "running"] /\ internal' = internal
    BY <1>2 DEF Push, Fork
  <2>3. fork' \in [1..Stages -> [Ids -> {"none", "running", "done"}]]
    BY <2>1, <2>2, AtFork
  <2>4. QED BY <2>2, <2>3 DEF TypeOK, TasksOK
<1>3. ASSUME NEW k \in Processing, NEW i \in Ids, TaskDone(k, i) PROVE TasksOK'
  <2>1. fork' \in [1..Stages -> [Ids -> {"none", "running", "done"}]]
    BY <1>3, AtFork DEF TaskDone
  <2>2. QED BY <1>3, <2>1 DEF TypeOK, TasksOK, TaskDone
<1>4. ASSUME NEW n \in DOMAIN internal, ConsumeForked(n) PROVE TasksOK'
  <2>1. internal[n].id \in Ids
    BY LenProperties DEF TypeOK, TasksOK, IsSeq
  <2>2. fork' \in [1..Stages -> [Ids -> {"none", "running", "done"}]]
    BY <1>4, <2>1, AtFork DEF ConsumeForked
  <2>3. QED BY <1>4, <2>2 DEF TypeOK, TasksOK, ConsumeForked
<1>5. CASE PushInternal
  <2> DEFINE i == Head(queue[Stages]).id
  <2>1. fork' \in [1..Stages -> [Ids -> {"none", "running", "done"}]]
    BY <1>5, AtPushInternal, AtFork
  <2>2. ASSUME NEW n \in 1..Len(internal') PROVE internal'[n].id \in Ids
    <3>1. n \in 1..Len(internal) \/ n = Len(internal) + 1
      BY <1>5, AtPushInternal
    <3>2. CASE n \in 1..Len(internal)
      <4>1. internal'[n] = internal[n]
        BY <1>5, <3>2, AtPushInternal
      <4>2. QED BY <3>2, <4>1 DEF TypeOK, TasksOK
    <3>3. CASE n = Len(internal) + 1
      BY <1>5, <3>3, AtPushInternal
    <3>4. QED BY <3>1, <3>2, <3>3
  <2>3. QED BY <1>5, <2>1, <2>2, AtPushInternal DEF TasksOK
<1>6. CASE DrainOne \/ Flush
  <2>1. PullInternal /\ fork' = fork
    BY <1>6 DEF DrainOne, Flush
  <2>2. ASSUME NEW n \in 1..Len(internal') PROVE internal'[n].id \in Ids
    <3>1. internal'[n] = internal[n + 1] /\ n + 1 \in 1..Len(internal)
      BY <2>1, AtPullInternal
    <3>2. QED BY <3>1 DEF TypeOK, TasksOK
  <2>3. QED BY <2>1, <2>2, AtPullInternal DEF TypeOK, TasksOK
<1>7. QED
  BY <1>1, <1>2, <1>3, <1>4, <1>5, <1>6 DEF Next, vars, DriverStep, StageStep, EndStep, TaskStep,
     Terminated, Construct, DriverPush, DriverClose, DriverJoin, Pull, Await, Release, Close,
     ConsumeInline, EndOfInput, FlushDone

\* Every step keeps the types.
LEMMA TypeKept == ASSUME TypeOK, Held, [Next]_vars PROVE TypeOK'
BY QueuesTyped, PlacesTyped, ClosedTyped, TasksTyped DEF TypeOK

\* No push empties a queue.
LEMMA PushFills ==
  ASSUME TypeOK, NEW k \in 1..Stages, NEW m, m.id \in Ids, QueuePush(k, m)
  PROVE  \A j \in 1..Stages : queue'[j] # <<>> \/ queue'[j] = queue[j]
<1>1. \A j \in (1..Stages) \ {k} : queue'[j] = queue[j]
  BY AtPush
<1>2. IsSeq(queue'[k]) /\ Len(queue'[k]) # 0
  BY AtPush
<1>3. queue'[k] # <<>>
  BY <1>2, AtLen
<1>4. QED BY <1>1, <1>3

\* What the driver and a stage push, and under which id.
LEMMA PushedIds ==
  ASSUME TypeOK, Held
  PROVE  /\ DriverPush => Elem(next, next).id \in Ids /\ QueuePush(1, Elem(next, next))
         /\ \A k \in Processing : Push(k) =>
              LET i == Head(queue[k]).id IN
              /\ i = queue[k][1].id /\ i \in Ids
              /\ Elem(i, data[k]).id = i /\ QueuePush(k + 1, Elem(i, data[k]))
              /\ fork' = [fork EXCEPT ![k][i] = "running"]
<1>1. DriverPush => Elem(next, next).id \in Ids /\ QueuePush(1, Elem(next, next))
  BY FifoAssumption DEF DriverPush, TypeOK, Ids, Elem
<1>2. ASSUME NEW k \in Processing, Push(k)
      PROVE  LET i == Head(queue[k]).id IN
              /\ i = queue[k][1].id /\ i \in Ids
              /\ Elem(i, data[k]).id = i /\ QueuePush(k + 1, Elem(i, data[k]))
              /\ fork' = [fork EXCEPT ![k][i] = "running"]
  <2>1. k \in 1..Stages /\ pc[k] \in Holding
    BY <1>2, StageNumbers DEF Push, Holding
  <2>2. QED BY <1>2, <2>1, AtHead DEF Push, Fork, Elem
<1>3. QED BY <1>1, <1>2

\* A worker keeps its entry until it releases it.
LEMMA HeldKept == ASSUME TypeOK, Held, [Next]_vars PROVE Held'
<1> USE StageNumbers
<1>1. CASE pc' = pc /\ queue' = queue
  BY <1>1 DEF Held
<1>2. CASE DriverPush
  BY <1>2, PushFills, PushedIds DEF Held, DriverPush
<1>3. ASSUME NEW k \in Processing, Push(k) PROVE Held'
  <2> DEFINE m == Elem(Head(queue[k]).id, data[k])
  <2>m. k + 1 \in 1..Stages /\ m.id \in Ids /\ QueuePush(k + 1, m)
    BY <1>3, PushedIds
  <2>1. \A j \in 1..Stages : queue'[j] # <<>> \/ queue'[j] = queue[j]
    BY <2>m, PushFills
  <2>2. \A j \in 1..Stages : pc'[j] \in Holding => pc[j] \in Holding
    BY <1>3, AtGoto DEF Push, Holding
  <2>3. QED BY <2>1, <2>2 DEF Held
<1>4. ASSUME NEW k \in 1..Stages, Release(k) PROVE Held'
  <2>1. /\ pc'[k] = "pull"
        /\ \A j \in 1..Stages : j # k => pc'[j] = pc[j]
    BY <1>4, AtGoto DEF Release
  <2>2. \A j \in 1..Stages : j # k => queue'[j] = queue[j]
    BY <1>4, AtRelease
  <2>3. QED BY <2>1, <2>2 DEF Held, Holding
<1>5. ASSUME NEW k \in 1..Stages, Pull(k) \/ Await(k) PROVE Held'
  <2>1. queue' = queue /\ queue[k] # <<>>
    BY <1>5 DEF Pull, Await, Held, Holding
  <2>2. \A j \in 1..Stages : j # k => pc'[j] = pc[j]
    BY <1>5, AtGoto DEF Pull, Await
  <2>3. QED BY <2>1, <2>2 DEF Held
<1>6. CASE ConsumeInline \/ PushInternal \/ DrainOne
  <2>1. queue' = queue /\ queue[Stages] # <<>>
    BY <1>6 DEF ConsumeInline, PushInternal, DrainOne, Held, Holding
  <2>2. \A j \in 1..Stages : j # Stages => pc'[j] = pc[j]
    BY <1>6, AtGoto DEF ConsumeInline, PushInternal, DrainOne
  <2>3. QED BY <2>1, <2>2 DEF Held
<1>7. ASSUME NEW k \in 1..Stages, Construct(k) PROVE Held'
  <2>1. \A j \in 1..Stages : pc'[j] \in Holding => pc[j] \in Holding
    BY <1>7 DEF Construct, Holding, TypeOK, PlacesOK
  <2>2. QED BY <1>7, <2>1 DEF Construct, Held
<1>8. CASE DriverClose \/ DriverJoin \/ EndOfInput \/ FlushDone \/ \E k \in Processing : Close(k)
  <2>1. \A j \in 1..Stages : pc'[j] \in Holding => pc[j] \in Holding
    BY <1>8, AtGoto DEF DriverClose, DriverJoin, EndOfInput, FlushDone, Close, Holding
  <2>2. queue' = queue
    BY <1>8 DEF DriverClose, DriverJoin, EndOfInput, FlushDone, Close
  <2>3. QED BY <2>1, <2>2 DEF Held
<1>9. QED
  BY <1>1, <1>2, <1>3, <1>4, <1>5, <1>6, <1>7, <1>8 DEF Next, vars, DriverStep, StageStep, EndStep,
     TaskStep, Terminated, Flush, TaskDone, ConsumeForked

\* A queue is pushed to only when it has a free slot.
LEMMA BoundedKept == ASSUME TypeOK, Held, Bounded, [Next]_vars PROVE Bounded'
<1>1. \A k \in 1..Stages : Capacity(k)' = Capacity(k) /\ Capacity(k) \in Nat
  <2>1. parallelism' = parallelism
    BY DEF Next, vars, DriverStep, StageStep, EndStep, TaskStep, Terminated, Construct, DriverPush,
     DriverClose, DriverJoin, Pull, Await, Release, Push, Close, ConsumeInline, PushInternal,
     DrainOne, EndOfInput, Flush, FlushDone, TaskDone, ConsumeForked
  <2>2. QED BY <2>1, StageNumbers DEF Capacity, TypeOK
<1>2. CASE queue' = queue
  BY <1>1, <1>2 DEF Bounded
<1>3. ASSUME NEW k \in 1..Stages, NEW m, m.id \in Ids, QueuePush(k, m) PROVE Bounded'
  <2>1. Len(queue'[k]) <= Capacity(k)
    BY <1>1, <1>3, AtPush
  <2>2. \A j \in 1..Stages : j # k => queue'[j] = queue[j]
    BY <1>3, AtPush
  <2>3. QED BY <1>1, <2>1, <2>2 DEF Bounded
<1>4. ASSUME NEW k \in 1..Stages, Release(k) PROVE Bounded'
  <2>1. Len(queue'[k]) <= Capacity(k)
    BY <1>1, <1>4, AtRelease DEF Bounded
  <2>2. \A j \in 1..Stages : j # k => queue'[j] = queue[j]
    BY <1>4, AtRelease
  <2>3. QED BY <1>1, <2>1, <2>2 DEF Bounded
<1>5. CASE DriverPush
  BY <1>3, <1>5, PushedIds, StageNumbers
<1>6. ASSUME NEW k \in Processing, Push(k) PROVE Bounded'
  <2> DEFINE m == Elem(Head(queue[k]).id, data[k])
  <2>1. k + 1 \in 1..Stages /\ m.id \in Ids /\ QueuePush(k + 1, m)
    BY <1>6, PushedIds, StageNumbers
  <2>2. QED BY <1>3, <2>1
<1>7. QED
  BY <1>2, <1>4, <1>5, <1>6 DEF Next, vars, DriverStep, StageStep, EndStep, TaskStep, Terminated,
     Construct, DriverClose, DriverJoin, Pull, Await, Close, ConsumeInline, PushInternal,
     DrainOne, EndOfInput, Flush, FlushDone, TaskDone, ConsumeForked

\* The end worker counts what its internal queue holds, up to its limit.
LEMMA EndStageKept == ASSUME TypeOK, Held, EndStage, [Next]_vars PROVE EndStage'
<1> USE StageNumbers
<1>t. active = Len(internal) /\ Len(internal) \in Nat /\ parallelism[Stages] \in Nat \ {0}
  BY AtLen DEF EndStage, TypeOK, TasksOK
<1>1. CASE /\ pc'[Stages] = pc[Stages] /\ active' = active /\ internal' = internal
           /\ parallelism' = parallelism
  BY <1>1 DEF EndStage, Inline
<1>2. CASE DriverClose \/ DriverJoin \/ \E k \in Processing : Push(k) \/ Close(k)
  <2>1. pc'[Stages] = pc[Stages]
    BY <1>2, AtGoto, EndStageHolds DEF DriverClose, DriverJoin, Push, Close
  <2>2. QED BY <1>1, <1>2, <2>1 DEF DriverClose, DriverJoin, Push, Close
<1>3. ASSUME NEW k \in 1..Stages, Construct(k) PROVE EndStage'
  <2>1. pc'[Stages] \in {pc[Stages], "pull"}
    BY <1>3, EndStageHolds DEF Construct, TypeOK, PlacesOK
  <2>2. pc[Stages] = "unborn" \/ pc'[Stages] = pc[Stages]
    BY <1>3, EndStageHolds DEF Construct, TypeOK, PlacesOK
  <2>3. QED BY <1>1, <1>3, <2>1, <2>2 DEF Construct, EndStage, Inline
<1>4. ASSUME NEW k \in 1..Stages, Pull(k) \/ Await(k) \/ Release(k) PROVE EndStage'
  <2>1. CASE k # Stages
    <3>1. pc'[Stages] = pc[Stages]
      BY <1>4, <2>1, AtGoto DEF Pull, Await, Release
    <3>2. QED BY <1>1, <1>4, <3>1 DEF Pull, Await, Release
  <2>2. CASE k = Stages
    <3>1. /\ pc'[Stages] \in {"await", "pull"} \/ pc'[Stages] = IF Inline THEN "consume" ELSE "pushInternal"
          /\ pc[Stages] # "drainOne"
      BY <1>4, <2>2, AtGoto DEF Pull, Await, Release
    <3>2. active' = active /\ internal' = internal /\ parallelism' = parallelism
      BY <1>4 DEF Pull, Await, Release
    <3>3. CASE pc[Stages] # "drainOne"
      BY <3>1, <3>2, <3>3 DEF EndStage, Inline
    <3>4. QED BY <3>1, <3>3
  <2>3. QED BY <2>1, <2>2
<1>5. CASE ConsumeInline
  <2>1. pc'[Stages] = "release" /\ Inline
    BY <1>5, AtGoto DEF ConsumeInline, EndStage
  <2>2. QED BY <1>5, <2>1 DEF ConsumeInline, EndStage, Inline
<1>6. CASE PushInternal
  <2>1. /\ ~Inline /\ Len(internal) < parallelism[Stages] /\ active' = active + 1
        /\ pc'[Stages] = IF active' >= parallelism[Stages] THEN "drainOne" ELSE "release"
    BY <1>6, AtGoto DEF PushInternal, EndStage
  <2>2. Len(internal') = Len(internal) + 1 /\ parallelism' = parallelism
    BY <1>6, AtPushInternal DEF PushInternal
  <2>3. QED BY <1>t, <2>1, <2>2 DEF EndStage, Inline
<1>7. CASE DrainOne \/ Flush
  <2>1. PullInternal /\ parallelism' = parallelism /\ ~Inline
    BY <1>7 DEF DrainOne, Flush, EndStage
  <2>2. active' = active - 1 /\ Len(internal') = Len(internal) - 1
    BY <2>1, AtPullInternal
  <2>3. pc'[Stages] \in {"release", "flush"}
    BY <1>7, AtGoto DEF DrainOne, Flush
  <2>4. QED BY <1>t, <2>1, <2>2, <2>3 DEF EndStage, Inline
<1>8. CASE EndOfInput \/ FlushDone
  <2>1. /\ active' = active /\ internal' = internal /\ parallelism' = parallelism
        /\ pc[Stages] # "drainOne"
    BY <1>8 DEF EndOfInput, FlushDone
  <2>2. \/ pc'[Stages] = "done" /\ active = 0
        \/ pc'[Stages] = "flush" /\ ~Inline
    <3>1. CASE EndOfInput
      <4>1. pc'[Stages] = IF Inline THEN "done" ELSE "flush"
        BY <3>1, AtGoto DEF EndOfInput
      <4>2. QED BY <4>1 DEF EndStage
    <3>2. CASE FlushDone
      BY <3>2, AtGoto DEF FlushDone
    <3>3. QED BY <1>8, <3>1, <3>2
  <2>3. QED BY <2>1, <2>2 DEF EndStage, Inline
<1>9. QED
  BY <1>1, <1>2, <1>3, <1>4, <1>5, <1>6, <1>7, <1>8 DEF Next, vars, DriverStep, StageStep, EndStep,
     TaskStep, Terminated, DriverPush, TaskDone, ConsumeForked

-----------------------------------------------------------------------------
(* The order in which the queues are closed *)

\* Closure goes from stage to stage, behind the last element.
LEMMA ClosingKept ==
  ASSUME TypeOK, Held, Closing, ClosedWhenComplete, [Next]_vars
  PROVE  Closing' /\ ClosedWhenComplete'
<1> USE StageNumbers
<1>1. CASE /\ closed' = closed /\ next' = next
           /\ \A k \in 1..Stages : queue[k] = <<>> => queue'[k] = <<>>
           /\ \A k \in 0..Stages : \/ pc'[k] = pc[k]
                                  \/ /\ pc[k] \notin {"join", "done", "flush"}
                                     /\ pc'[k] \notin {"join", "done", "flush"}
  <2>1. \A k \in 0..Stages : \A l \in {"join", "done", "flush"} : pc'[k] = l <=> pc[k] = l
    BY <1>1
  <2>2. \A k \in 1..Stages : k \in 0..Stages
    OBVIOUS
  <2>3. Closing'
    <3>1. \A k \in 1..Stages : pc'[k] \in {"flush", "done"} => closed'[k] /\ queue'[k] = <<>>
      BY <1>1, <2>1, <2>2 DEF Closing
    <3>2. \A k \in Processing : closed'[k + 1] <=> pc'[k] = "done"
      BY <1>1, <2>1, <2>2 DEF Closing
    <3>3. QED BY <1>1, <2>1, <2>2, <3>1, <3>2 DEF Closing
  <2>4. ASSUME NEW k \in 1..Stages, closed'[k]
        PROVE  /\ next' = NELEMS
               /\ \A j \in 1..k - 1 : pc'[j] = "done" /\ queue'[j] = <<>>
    <3>1. next = NELEMS /\ \A j \in 1..k - 1 : pc[j] = "done" /\ queue[j] = <<>>
      BY <1>1, <2>4 DEF ClosedWhenComplete
    <3>2. \A j \in 1..k - 1 : j \in 1..Stages
      OBVIOUS
    <3>3. QED BY <1>1, <2>1, <2>2, <3>1, <3>2
  <2>5. QED BY <2>3, <2>4 DEF ClosedWhenComplete
<1>2. CASE DriverPush
  <2>1. pc[0] = "push" /\ next < NELEMS /\ pc' = pc /\ closed' = closed
    BY <1>2 DEF DriverPush
  <2>2. \A k \in 1..Stages : ~closed[k]
    BY <2>1, FifoAssumption DEF ClosedWhenComplete, TypeOK
  <2>3. \A k \in 1..Stages : pc[k] \notin {"flush", "done"}
    BY <2>2 DEF Closing
  <2>4. QED BY <2>1, <2>2, <2>3 DEF Closing, ClosedWhenComplete
<1>3. CASE DriverClose
  <2>1. /\ pc[0] = "push" /\ next = NELEMS /\ next' = next /\ queue' = queue
        /\ pc'[0] = "join" /\ \A k \in 1..Stages : pc'[k] = pc[k]
        /\ closed'[1] /\ \A k \in 1..Stages : k # 1 => closed'[k] = closed[k]
    BY <1>3, AtGoto DEF DriverClose, TypeOK
  <2>2. Closing'
    <3>1. \A k \in Processing : closed'[k + 1] <=> pc'[k] = "done"
      BY <2>1, Neighbours DEF Closing
    <3>2. \A k \in 1..Stages : pc'[k] \in {"flush", "done"} => closed'[k] /\ queue'[k] = <<>>
      BY <2>1 DEF Closing
    <3>3. QED BY <2>1, <3>1, <3>2 DEF Closing
  <2>3. ASSUME NEW j \in 1..Stages, closed'[j]
        PROVE  /\ next' = NELEMS
               /\ \A n \in 1..j - 1 : pc'[n] = "done" /\ queue'[n] = <<>>
    <3>1. CASE j = 1
      BY <2>1, <3>1
    <3>2. CASE j # 1
      <4>1. \A n \in 1..j - 1 : pc[n] = "done" /\ queue[n] = <<>>
        BY <2>1, <2>3, <3>2 DEF ClosedWhenComplete
      <4>2. \A n \in 1..j - 1 : n \in 1..Stages
        OBVIOUS
      <4>3. QED BY <2>1, <4>1, <4>2
    <3>3. QED BY <3>1, <3>2
  <2>4. QED BY <2>2, <2>3 DEF ClosedWhenComplete
<1>4. CASE DriverJoin
  <2>1. /\ pc[0] = "join" /\ pc'[0] = "done" /\ \A k \in 1..Stages : pc'[k] = pc[k] /\ pc[k] = "done"
        /\ next' = next /\ queue' = queue /\ closed' = closed
    BY <1>4, AtGoto DEF DriverJoin
  <2>2. Closing'
    BY <2>1 DEF Closing
  <2>3. \A k \in 1..Stages : \A j \in 1..k - 1 : j \in 1..Stages
    OBVIOUS
  <2>4. ClosedWhenComplete'
    BY <2>1, <2>3 DEF ClosedWhenComplete
  <2>5. QED BY <2>2, <2>4
<1>5. ASSUME NEW k \in Processing, Push(k) PROVE Closing' /\ ClosedWhenComplete'
  <2> DEFINE m == Elem(Head(queue[k]).id, data[k])
  <2>1. k + 1 \in 1..Stages /\ m.id \in Ids /\ QueuePush(k + 1, m)
    BY <1>5, PushedIds
  <2>2. \A j \in 1..Stages : j # k + 1 => queue'[j] = queue[j]
    BY <2>1, AtPush
  <2>3. /\ pc[k] = "push" /\ pc'[k] = "release" /\ \A j \in 0..Stages : j # k => pc'[j] = pc[j]
        /\ closed' = closed /\ next' = next
    BY <1>5, AtGoto DEF Push
  <2>4. ~closed[k + 1] /\ pc[k + 1] \notin {"flush", "done"}
    BY <2>1, <2>3 DEF Closing
  <2>5. \A j \in 1..Stages : closed[j] => \A n \in 1..j - 1 : n # k /\ n # k + 1
    BY <2>3, <2>4 DEF ClosedWhenComplete
  <2>6. Closing'
    <3>1. closed'[1] = closed[1] /\ pc'[0] = pc[0] /\ next' = next /\ pc[0] # "done"
      BY <2>3 DEF Closing
    <3>2. \A j \in Processing : closed'[j + 1] <=> pc'[j] = "done"
      BY <2>3 DEF Closing
    <3>3. \A j \in 1..Stages : pc'[j] \in {"flush", "done"} => closed'[j] /\ queue'[j] = <<>>
      BY <2>2, <2>3, <2>4 DEF Closing
    <3>4. QED BY <3>1, <3>2, <3>3 DEF Closing
  <2>7. ASSUME NEW j \in 1..Stages, closed'[j]
        PROVE  /\ next' = NELEMS
               /\ \A n \in 1..j - 1 : pc'[n] = "done" /\ queue'[n] = <<>>
    <3>1. next = NELEMS /\ \A n \in 1..j - 1 : pc[n] = "done" /\ queue[n] = <<>>
      BY <2>3, <2>7 DEF ClosedWhenComplete
    <3>2. \A n \in 1..j - 1 : n \in 1..Stages /\ n # k /\ n # k + 1
      BY <2>3, <2>5, <2>7
    <3>3. QED BY <2>2, <2>3, <3>1, <3>2
  <2>8. QED BY <2>6, <2>7 DEF ClosedWhenComplete
<1>6. ASSUME NEW k \in Processing, Close(k) PROVE Closing' /\ ClosedWhenComplete'
  <2>1. /\ pc[k] = "pull" /\ pc'[k] = "done" /\ \A j \in 0..Stages : j # k => pc'[j] = pc[j]
        /\ queue[k] = <<>> /\ closed[k] /\ queue' = queue /\ next' = next
        /\ closed'[k + 1] /\ \A j \in 1..Stages : j # k + 1 => closed'[j] = closed[j]
    BY <1>6, AtGoto DEF Close, TypeOK
  <2>2. /\ next = NELEMS
        /\ \A j \in 1..k - 1 : pc[j] = "done" /\ queue[j] = <<>>
    BY <2>1 DEF ClosedWhenComplete
  <2>3. Closing'
    <3>1. closed'[1] = closed[1] /\ pc'[0] = pc[0] /\ pc[0] # "done"
      BY <2>1 DEF Closing
    <3>2. \A j \in Processing : closed'[j + 1] <=> pc'[j] = "done"
      BY <2>1 DEF Closing
    <3>3. \A j \in 1..Stages : pc'[j] \in {"flush", "done"} => closed'[j] /\ queue'[j] = <<>>
      BY <2>1 DEF Closing
    <3>4. QED BY <2>1, <3>1, <3>2, <3>3 DEF Closing
  <2>4. ASSUME NEW j \in 1..Stages, closed'[j]
        PROVE  /\ next' = NELEMS
               /\ \A n \in 1..j - 1 : pc'[n] = "done" /\ queue'[n] = <<>>
    <3>1. CASE j = k + 1
      BY <2>1, <2>2, <3>1
    <3>2. CASE j # k + 1
      BY <2>1, <2>4, <3>2 DEF ClosedWhenComplete
    <3>3. QED BY <3>1, <3>2
  <2>5. QED BY <2>3, <2>4 DEF ClosedWhenComplete
<1>7. CASE EndOfInput \/ FlushDone
  <2>1. /\ pc[Stages] \in {"pull", "flush"} /\ pc'[Stages] \in {"flush", "done"}
        /\ \A j \in 0..Stages : j # Stages => pc'[j] = pc[j]
        /\ queue' = queue /\ next' = next /\ closed' = closed
        /\ queue[Stages] = <<>> /\ closed[Stages]
    BY <1>7, AtGoto DEF EndOfInput, FlushDone, Closing
  <2>2. Closing'
    <3>1. \A j \in Processing : j \in 0..Stages /\ j # Stages
      OBVIOUS
    <3>2. \A j \in Processing : closed'[j + 1] <=> pc'[j] = "done"
      BY <2>1, <3>1 DEF Closing
    <3>3. \A j \in 1..Stages : pc'[j] \in {"flush", "done"} => closed'[j] /\ queue'[j] = <<>>
      BY <2>1 DEF Closing
    <3>4. pc'[0] = pc[0] /\ pc[0] # "done"
      BY <2>1 DEF Closing
    <3>5. QED BY <2>1, <3>2, <3>3, <3>4 DEF Closing
  <2>3. ASSUME NEW j \in 1..Stages, closed'[j]
        PROVE  /\ next' = NELEMS
               /\ \A n \in 1..j - 1 : pc'[n] = "done" /\ queue'[n] = <<>>
    <3>1. next = NELEMS /\ \A n \in 1..j - 1 : pc[n] = "done" /\ queue[n] = <<>>
      BY <2>1, <2>3 DEF ClosedWhenComplete
    <3>2. \A n \in 1..j - 1 : n \in 0..Stages /\ n # Stages
      OBVIOUS
    <3>3. QED BY <2>1, <3>1, <3>2
  <2>4. QED BY <2>2, <2>3 DEF ClosedWhenComplete
<1>8. ASSUME NEW k \in 1..Stages, Construct(k) PROVE Closing' /\ ClosedWhenComplete'
  <2>1. /\ pc[0] = "construct" /\ pc'[0] \in {"construct", "push"}
        /\ pc[k] = "unborn" /\ pc'[k] = "pull" /\ \A j \in 1..Stages : j # k => pc'[j] = pc[j]
        /\ queue' = queue /\ closed' = closed /\ next' = next
    BY <1>8 DEF Construct, TypeOK, PlacesOK
  <2>2. \A j \in 0..Stages : j = 0 \/ j \in 1..Stages
    OBVIOUS
  <2>3. QED BY <1>1, <2>1, <2>2
<1>9. ASSUME NEW k \in 1..Stages, Pull(k) \/ Await(k) \/ Release(k) PROVE Closing' /\ ClosedWhenComplete'
  <2>1. /\ pc[k] \in {"pull", "await", "release"}
        /\ pc'[k] \notin {"join", "done", "flush"} /\ \A j \in 0..Stages : j # k => pc'[j] = pc[j]
        /\ closed' = closed /\ next' = next
    BY <1>9, AtGoto DEF Pull, Await, Release
  <2>2. \A j \in 1..Stages : queue[j] = <<>> => queue'[j] = <<>>
    <3>1. CASE Pull(k) \/ Await(k)
      BY <3>1 DEF Pull, Await
    <3>2. CASE Release(k)
      <4>1. queue[k] # <<>>
        BY <3>2 DEF Release, Held, Holding
      <4>2. QED BY <3>2, <4>1, AtRelease
    <3>3. QED BY <1>9, <3>1, <3>2
  <2>3. QED BY <1>1, <2>1, <2>2
<1>10. CASE ConsumeInline \/ PushInternal \/ DrainOne
  <2>1. /\ pc[Stages] \in {"consume", "pushInternal", "drainOne"}
        /\ pc'[Stages] \in {"release", "drainOne"} /\ \A j \in 0..Stages : j # Stages => pc'[j] = pc[j]
        /\ closed' = closed /\ next' = next /\ queue' = queue
    BY <1>10, AtGoto DEF ConsumeInline, PushInternal, DrainOne
  <2>2. QED BY <1>1, <2>1
<1>11. CASE pc' = pc /\ closed' = closed /\ next' = next /\ queue' = queue
  BY <1>1, <1>11
<1>12. QED
  BY <1>2, <1>3, <1>4, <1>5, <1>6, <1>7, <1>8, <1>9, <1>10, <1>11 DEF Next, vars, DriverStep,
     StageStep, EndStep, TaskStep, Terminated, Flush, TaskDone, ConsumeForked

-----------------------------------------------------------------------------
(* The tally *)

\* What the tally counts are natural numbers.
LEMMA Numbers ==
  ASSUME NEW taken \in Tally
  PROVE  /\ \A k \in 1..Stages : /\ taken[k] \in 0..NELEMS /\ taken[k] \in Nat
                                 /\ Passed(taken, k) \in Nat /\ Awaits(taken, k) \in Nat
         /\ Ids \subseteq Nat /\ NELEMS \in Nat
BY FifoAssumption DEF Tally, Passed, Awaits, Ids

\* Steps of workers and of the driver that move no element.
LEMMA NothingMoves ==
  ASSUME NEW taken \in Tally, Positions(taken),
         queue' = queue, fork' = fork, internal' = internal, next' = next, parallelism' = parallelism,
         \A k \in 1..Stages :
            /\ pc'[k] \in {"drainOne", "release"} <=> pc[k] \in {"drainOne", "release"}
            /\ pc'[k] \in Holding \ {"await"} <=> pc[k] \in Holding \ {"await"}
  PROVE  Positions(taken)'
<1>1. \A k \in 1..Stages : Passed(taken, k)' = Passed(taken, k) /\ Awaits(taken, k)' = Awaits(taken, k)
  BY DEF Passed, Awaits
<1>2. InQueues(taken)'
  BY <1>1, StageNumbers DEF Positions, InQueues
<1>3. InTasks(taken)'
  BY <1>1, StageNumbers DEF Positions, InTasks
<1>4. InEndStage(taken)'
  BY <1>1, StageNumbers DEF Positions, InEndStage, Inline
<1>5. QED BY <1>2, <1>3, <1>4 DEF Positions

\* A handle was awaited: its task is done.
LEMMA AwaitMoves ==
  ASSUME TypeOK, Held, NEW taken \in Tally, Positions(taken), NEW k \in 1..Stages, Await(k)
  PROVE  Positions(taken)'
<1> USE StageNumbers
<1>1. /\ pc[k] = "await" /\ pc'[k] \in {"push", "consume", "pushInternal"}
      /\ \A j \in 1..Stages : j # k => pc'[j] = pc[j]
      /\ queue' = queue /\ fork' = fork /\ internal' = internal /\ next' = next
      /\ parallelism' = parallelism
  BY AtGoto DEF Await
<1>2. /\ \A j \in 1..Stages : Passed(taken, j)' = Passed(taken, j)
      /\ Awaits(taken, k) = taken[k] /\ Awaits(taken, k)' = taken[k] + 1
      /\ \A j \in 1..Stages : j # k => Awaits(taken, j)' = Awaits(taken, j)
  <2>1. taken[k] \in Nat
    BY Numbers
  <2>2. ASSUME NEW j \in 1..Stages, j # k
        PROVE  Passed(taken, j)' = Passed(taken, j) /\ Awaits(taken, j)' = Awaits(taken, j)
    BY <1>1, <2>2 DEF Passed, Awaits
  <2>3. Passed(taken, k)' = Passed(taken, k)
    BY <1>1, <2>1 DEF Passed
  <2>4. Awaits(taken, k) = taken[k] /\ Awaits(taken, k)' = taken[k] + 1
    BY <1>1, <2>1 DEF Awaits, Holding
  <2>5. QED BY <2>2, <2>3, <2>4
<1>3. InQueues(taken)'
  BY <1>1, <1>2 DEF Positions, InQueues
<1>4. ASSUME NEW j \in Processing, NEW i \in Ids
      PROVE  /\ fork'[j][i] # "none" <=> i < Passed(taken, j)'
             /\ fork'[j][i] = "running" => Awaits(taken, j + 1)' <= i
  <2>1. CASE j + 1 # k
    BY <1>1, <1>2, <2>1 DEF Positions, InTasks
  <2>2. CASE j + 1 = k
    <3>1. k > 1 /\ j = k - 1
      BY <2>2
    <3>2. fork[j][Head(queue[k]).id] = "done"
      BY <3>1 DEF Await, Forked
    <3>3. Head(queue[k]).id = taken[k]
      <4>1. Head(queue[k]) = queue[k][1] /\ 1 \in 1..Len(queue[k])
        BY <1>1, AtHead DEF Holding
      <4>2. queue[k][1].id = taken[k] + 1 - 1
        BY <4>1 DEF Positions, InQueues
      <4>3. taken[k] \in Nat
        BY Numbers
      <4>4. QED BY <4>1, <4>2, <4>3
    <3>4. fork[j][i] = "running" => taken[k] <= i /\ taken[k] # i
      BY <1>2, <2>2, <3>2, <3>3 DEF Positions, InTasks
    <3>5. fork[j][i] = "running" => taken[k] + 1 <= i
      BY <3>4, Numbers
    <3>6. QED BY <1>1, <1>2, <2>2, <3>5 DEF Positions, InTasks
  <2>3. QED BY <2>1, <2>2
<1>5. InTasks(taken)'
  BY <1>4 DEF InTasks
<1>6. InEndStage(taken)'
  BY <1>1, <1>2 DEF Positions, InEndStage, Inline
<1>7. QED BY <1>3, <1>5, <1>6 DEF Positions

\* The driver pushes the next element.
LEMMA DriverPushMoves ==
  ASSUME TypeOK, Held, NEW taken \in Tally, Positions(taken), DriverPush
  PROVE  Positions(taken)'
<1> USE StageNumbers
<1> DEFINE m == Elem(next, next)
<1>1. /\ pc' = pc /\ fork' = fork /\ internal' = internal /\ next' = next + 1
      /\ parallelism' = parallelism
  BY DEF DriverPush
<1>2. m.id = next /\ m.id \in Ids /\ QueuePush(1, m)
  BY PushedIds DEF Elem
<1> HIDE DEF m
<1>3. /\ \A j \in 1..Stages : j # 1 => queue'[j] = queue[j]
      /\ Len(queue[1]) \in Nat /\ Len(queue'[1]) = Len(queue[1]) + 1
      /\ \A n \in 1..Len(queue[1]) : queue'[1][n] = queue[1][n]
      /\ queue'[1][Len(queue[1]) + 1] = m
  BY <1>2, AtPush
<1>4. \A j \in 1..Stages : Passed(taken, j)' = Passed(taken, j) /\ Awaits(taken, j)' = Awaits(taken, j)
  BY <1>1 DEF Passed, Awaits
<1>5. taken[1] + Len(queue[1]) = next
  BY DEF Positions, InQueues
<1>6. ASSUME NEW j \in 1..Stages, NEW n \in 1..Len(queue'[j]) PROVE queue'[j][n].id = taken[j] + n - 1
  <2>1. CASE j # 1
    BY <1>3, <2>1 DEF Positions, InQueues
  <2>2. CASE j = 1 /\ n \in 1..Len(queue[1])
    <3>1. queue'[j][n] = queue[j][n]
      BY <1>3, <2>2
    <3>2. QED BY <2>2, <3>1 DEF Positions, InQueues
  <2>3. CASE j = 1 /\ n = Len(queue[1]) + 1
    <3>1. queue'[j][n].id = next
      BY <1>2, <1>3, <2>3
    <3>2. QED BY <1>3, <1>5, <2>3, <3>1, Numbers
  <2>4. QED BY <1>3, <2>1, <2>2, <2>3
<1>7. InQueues(taken)'
  <2>1. taken[1] + Len(queue'[1]) = next'
    <3>1. taken[1] \in Nat
      BY Numbers
    <3>2. QED BY <1>1, <1>3, <1>5, <3>1
  <2>2. ASSUME NEW j \in Processing PROVE taken[j + 1] + Len(queue'[j + 1]) = Passed(taken, j)'
    <3>1. queue'[j + 1] = queue[j + 1]
      BY <1>3
    <3>2. QED BY <1>4, <3>1 DEF Positions, InQueues
  <2>3. QED BY <1>6, <2>1, <2>2 DEF InQueues
<1>8. InTasks(taken)'
  BY <1>1, <1>4 DEF Positions, InTasks
<1>9. InEndStage(taken)'
  BY <1>1, <1>4 DEF Positions, InEndStage, Inline
<1>10. QED BY <1>7, <1>8, <1>9 DEF Positions

\* The entry in hand of the worker of stage k is the one it has not taken out yet.
LEMMA HeadIsNext ==
  ASSUME TypeOK, Held, NEW taken \in Tally, InQueues(taken), NEW k \in 1..Stages, pc[k] \in Holding
  PROVE  /\ queue[k][1].id = taken[k] /\ Head(queue[k]).id = taken[k]
         /\ taken[k] \in Ids /\ taken[k] \in Nat /\ Len(queue[k]) \in Nat \ {0}
<1>1. Head(queue[k]) = queue[k][1] /\ Head(queue[k]).id \in Ids /\ Len(queue[k]) \in Nat \ {0}
  BY AtHead
<1>2. queue[k][1].id = taken[k] + 1 - 1
  BY <1>1 DEF InQueues
<1>3. taken[k] \in Nat
  BY Numbers
<1>4. QED BY <1>1, <1>2, <1>3

\* The slot is given back: the element is taken out.
LEMMA ReleaseMoves ==
  ASSUME TypeOK, Held, NEW taken \in Tally, Positions(taken), NEW k \in 1..Stages, Release(k)
  PROVE  \E t \in Tally : Positions(t)'
<1> USE StageNumbers
<1> DEFINE t == [taken EXCEPT ![k] = @ + 1]
<1>1. /\ pc[k] = "release" /\ pc'[k] = "pull"
      /\ \A j \in 1..Stages : j # k => pc'[j] = pc[j]
      /\ fork' = fork /\ internal' = internal /\ next' = next /\ parallelism' = parallelism
  BY AtGoto DEF Release
<1>2. taken[k] \in Ids /\ taken[k] \in Nat
  BY <1>1, HeadIsNext DEF Holding, Positions
<1>3. /\ t \in Tally /\ t[k] = taken[k] + 1 /\ \A j \in 1..Stages : j # k => t[j] = taken[j]
  BY <1>2, FifoAssumption DEF Tally, Ids
<1>4. \A j \in 1..Stages : Passed(t, j)' = Passed(taken, j) /\ Awaits(t, j)' = Awaits(taken, j)
  <2>1. ASSUME NEW j \in 1..Stages, j # k
        PROVE  Passed(t, j)' = Passed(taken, j) /\ Awaits(t, j)' = Awaits(taken, j)
    BY <1>1, <1>3, <2>1 DEF Passed, Awaits
  <2>2. Passed(t, k)' = Passed(taken, k) /\ Awaits(t, k)' = Awaits(taken, k)
    BY <1>1, <1>2, <1>3 DEF Passed, Awaits, Holding
  <2>3. QED BY <2>1, <2>2
<1>5. /\ Len(queue[k]) \in Nat \ {0} /\ Len(queue'[k]) = Len(queue[k]) - 1
      /\ \A n \in 1..Len(queue'[k]) : queue'[k][n] = queue[k][n + 1]
      /\ \A j \in 1..Stages : j # k => queue'[j] = queue[j]
  <2>1. \A j \in (1..Stages) \ {k} : queue'[j] = queue[j]
    BY AtRelease
  <2>2. /\ Len(queue[k]) \in Nat \ {0} /\ Len(queue'[k]) = Len(queue[k]) - 1
        /\ \A n \in 1..Len(queue'[k]) : queue'[k][n] = queue[k][n + 1]
    BY AtRelease
  <2>3. QED BY <2>1, <2>2
<1>6. ASSUME NEW j \in 1..Stages PROVE t[j] + Len(queue'[j]) = taken[j] + Len(queue[j])
  <2>1. CASE j # k
    BY <1>3, <1>5, <2>1
  <2>2. CASE j = k
    <3>1. t[k] = taken[k] + 1
      BY <1>3
    <3>2. \A a \in Nat, b \in Nat : (a + 1) + (b - 1) = a + b
      OBVIOUS
    <3>3. t[k] + Len(queue'[k]) = (taken[k] + 1) + (Len(queue[k]) - 1)
      BY <1>5, <3>1
    <3>4. QED BY <1>2, <1>5, <2>2, <3>2, <3>3
  <2>3. QED BY <2>1, <2>2
<1>7. ASSUME NEW j \in 1..Stages, NEW n \in 1..Len(queue'[j]) PROVE queue'[j][n].id = t[j] + n - 1
  <2>1. CASE j # k
    <3>1. queue'[j] = queue[j] /\ t[j] = taken[j]
      BY <1>3, <1>5, <2>1
    <3> HIDE DEF t
    <3>2. QED BY <3>1 DEF Positions, InQueues
  <2>2. CASE j = k
    <3>a. n \in 1..Len(queue'[k]) /\ Len(queue[k]) \in Nat /\ Len(queue'[k]) = Len(queue[k]) - 1
      BY <1>5, <2>2
    <3>b. n + 1 \in 1..Len(queue[k])
      BY <3>a
    <3>1. queue'[k][n] = queue[k][n + 1] /\ n + 1 \in 1..Len(queue[k])
      BY <1>5, <3>a, <3>b
    <3>2. queue[k][n + 1].id = taken[k] + (n + 1) - 1
      BY <3>1 DEF Positions, InQueues
    <3>3. QED BY <1>2, <1>3, <2>2, <3>1, <3>2
  <2>3. QED BY <2>1, <2>2
<1>8. InQueues(t)'
  <2>1. t[1] + Len(queue'[1]) = next'
    BY <1>1, <1>6 DEF Positions, InQueues
  <2>2. ASSUME NEW j \in Processing PROVE t[j + 1] + Len(queue'[j + 1]) = Passed(t, j)'
    <3>1. j \in 1..Stages /\ j + 1 \in 1..Stages
      OBVIOUS
    <3>2. taken[j + 1] + Len(queue[j + 1]) = Passed(taken, j)
      BY DEF Positions, InQueues
    <3> HIDE DEF t
    <3>3. QED BY <1>4, <1>6, <3>1, <3>2
  <2>3. QED BY <1>7, <2>1, <2>2 DEF InQueues
<1>9. InTasks(t)'
  <2>1. ASSUME NEW j \in Processing, NEW i \in Ids
        PROVE  /\ fork'[j][i] # "none" <=> i < Passed(t, j)'
               /\ fork'[j][i] = "running" => Awaits(t, j + 1)' <= i
    <3>1. j \in 1..Stages /\ j + 1 \in 1..Stages
      BY Neighbours
    <3>2. /\ fork[j][i] # "none" <=> i < Passed(taken, j)
          /\ fork[j][i] = "running" => Awaits(taken, j + 1) <= i
      BY DEF Positions, InTasks
    <3>3. QED BY <1>1, <1>4, <3>1, <3>2
  <2>2. QED BY <2>1 DEF InTasks
<1>10. InEndStage(t)'
  BY <1>1, <1>4 DEF Positions, InEndStage, Inline
<1>11. Positions(t)'
  BY <1>8, <1>9, <1>10 DEF Positions
<1>12. QED BY <1>3, <1>11

\* The stage behind has awaited no more than it was passed.
LEMMA AwaitsPassed ==
  ASSUME TypeOK, Held, NEW taken \in Tally, InQueues(taken), NEW k \in Processing
  PROVE  /\ Awaits(taken, k + 1) <= Passed(taken, k)
         /\ taken[k + 1] <= Awaits(taken, k + 1)
<1>1. k + 1 \in 1..Stages /\ taken[k + 1] \in Nat
  BY StageNumbers, Numbers
<1>2. Len(queue[k + 1]) \in Nat /\ (queue[k + 1] # <<>> => Len(queue[k + 1]) >= 1)
  BY <1>1, AtLen DEF TypeOK, QueuesOK
<1>3. pc[k + 1] \in Holding => Len(queue[k + 1]) >= 1
  BY <1>1, <1>2 DEF Held
<1>4. taken[k + 1] + Len(queue[k + 1]) = Passed(taken, k)
  BY DEF InQueues
<1>5. QED BY <1>1, <1>2, <1>3, <1>4 DEF Awaits

\* A task is forked for the element that was awaited, and its handle queued.
LEMMA PushMoves ==
  ASSUME TypeOK, Held, NEW taken \in Tally, Positions(taken), NEW k \in Processing, Push(k)
  PROVE  Positions(taken)'
<1> USE StageNumbers
<1> DEFINE x == taken[k]
           m == Elem(x, data[k])
<1>1. /\ pc[k] = "push" /\ pc'[k] = "release" /\ k \in 1..Stages /\ k # Stages
      /\ \A j \in 1..Stages : j # k => pc'[j] = pc[j]
      /\ internal' = internal /\ next' = next /\ parallelism' = parallelism
  BY AtGoto DEF Push
<1>2. Head(queue[k]).id = x /\ x \in Ids /\ x \in Nat
  BY <1>1, HeadIsNext DEF Holding, Positions
<1>3. m.id = x /\ QueuePush(k + 1, m) /\ fork' = [fork EXCEPT ![k][x] = "running"]
  BY <1>2, PushedIds
<1>4. /\ \A j \in 1..Stages : j # k + 1 => queue'[j] = queue[j]
      /\ Len(queue[k + 1]) \in Nat /\ Len(queue'[k + 1]) = Len(queue[k + 1]) + 1
      /\ \A n \in 1..Len(queue[k + 1]) : queue'[k + 1][n] = queue[k + 1][n]
      /\ queue'[k + 1][Len(queue[k + 1]) + 1] = m
  <2>1. k + 1 \in 1..Stages /\ m.id \in Ids
    BY <1>2, <1>3
  <2>2. QED BY <1>3, <2>1, AtPush
<1>5. /\ \A j \in 1..Stages : Awaits(taken, j)' = Awaits(taken, j)
      /\ \A j \in 1..Stages : j # k => Passed(taken, j)' = Passed(taken, j)
      /\ Passed(taken, k) = x /\ Passed(taken, k)' = x + 1
  <2>1. ASSUME NEW j \in 1..Stages, j # k
        PROVE  Passed(taken, j)' = Passed(taken, j) /\ Awaits(taken, j)' = Awaits(taken, j)
    BY <1>1, <2>1 DEF Passed, Awaits
  <2>2. Awaits(taken, k)' = Awaits(taken, k)
    BY <1>1 DEF Awaits, Holding
  <2>3. Passed(taken, k) = x /\ Passed(taken, k)' = x + 1
    BY <1>1, <1>2 DEF Passed
  <2>4. QED BY <2>1, <2>2, <2>3
<1>6. taken[k + 1] + Len(queue[k + 1]) = x /\ taken[k + 1] \in Nat
  <2>1. taken[k + 1] + Len(queue[k + 1]) = Passed(taken, k)
    BY DEF Positions, InQueues
  <2>2. QED BY <1>5, <2>1, Numbers, Neighbours
<1>7. ASSUME NEW j \in 1..Stages, NEW n \in 1..Len(queue'[j]) PROVE queue'[j][n].id = taken[j] + n - 1
  <2>1. CASE j # k + 1
    BY <1>4, <2>1 DEF Positions, InQueues
  <2>2. CASE j = k + 1 /\ n \in 1..Len(queue[k + 1])
    <3>1. queue'[j][n] = queue[j][n]
      BY <1>4, <2>2
    <3>2. QED BY <2>2, <3>1 DEF Positions, InQueues
  <2>3. CASE j = k + 1 /\ n = Len(queue[k + 1]) + 1
    <3>1. queue'[j][n].id = x
      BY <1>3, <1>4, <2>3
    <3>2. QED BY <1>2, <1>4, <1>6, <2>3, <3>1
  <2>4. QED BY <1>4, <2>1, <2>2, <2>3
<1>8. InQueues(taken)'
  <2>1. taken[1] + Len(queue'[1]) = next'
    <3>1. 1 # k + 1
      OBVIOUS
    <3>2. QED BY <1>1, <1>4, <3>1 DEF Positions, InQueues
  <2>2. ASSUME NEW j \in Processing PROVE taken[j + 1] + Len(queue'[j + 1]) = Passed(taken, j)'
    <3>1. CASE j # k
      <4>1. j + 1 # k + 1 /\ j \in 1..Stages /\ j + 1 \in 1..Stages
        BY <3>1
      <4>2. queue'[j + 1] = queue[j + 1] /\ Passed(taken, j)' = Passed(taken, j)
        BY <1>4, <1>5, <3>1, <4>1
      <4>3. taken[j + 1] + Len(queue[j + 1]) = Passed(taken, j)
        BY DEF Positions, InQueues
      <4>4. QED BY <4>2, <4>3
    <3>2. CASE j = k
      <4>1. taken[k + 1] + Len(queue'[k + 1]) = x + 1
        <5>1. Len(queue'[k + 1]) = Len(queue[k + 1]) + 1 /\ Len(queue[k + 1]) \in Nat
          BY <1>4
        <5>2. QED BY <1>2, <1>6, <5>1
      <4>2. QED BY <1>5, <3>2, <4>1
    <3>3. QED BY <3>1, <3>2
  <2>3. QED BY <1>7, <2>1, <2>2 DEF InQueues
<1>9. /\ fork'[k][x] = "running"
      /\ \A n \in Ids : n # x => fork'[k][n] = fork[k][n]
      /\ \A j \in 1..Stages, n \in Ids : j # k => fork'[j][n] = fork[j][n]
  BY <1>1, <1>2, <1>3, AtFork
<1>10. ASSUME NEW j \in Processing, NEW i \in Ids
       PROVE  /\ fork'[j][i] # "none" <=> i < Passed(taken, j)'
              /\ fork'[j][i] = "running" => Awaits(taken, j + 1)' <= i
  <2>1. CASE j # k
    BY <1>5, <1>9, <2>1 DEF Positions, InTasks
  <2>2. CASE j = k /\ i = x
    <3>1. Awaits(taken, k + 1) <= x
      BY <1>5, AwaitsPassed DEF Positions
    <3>2. QED BY <1>2, <1>5, <1>9, <2>2, <3>1
  <2>3. CASE j = k /\ i # x
    <3>1. fork'[k][i] = fork[k][i] /\ (i < x <=> i < x + 1)
      BY <1>2, <1>9, <2>3, Numbers
    <3>2. QED BY <1>5, <2>3, <3>1 DEF Positions, InTasks
  <2>4. QED BY <2>1, <2>2, <2>3
<1>11. InTasks(taken)'
  BY <1>10 DEF InTasks
<1>12. InEndStage(taken)'
  BY <1>1, <1>5, <1>9 DEF Positions, InEndStage, Inline
<1>13. QED BY <1>8, <1>11, <1>12 DEF Positions

\* A task that has run: the order does not matter.
LEMMA TaskEndMoves ==
  ASSUME TypeOK, NEW taken \in Tally, Positions(taken),
         NEW k \in 1..Stages, NEW i \in Ids, fork[k][i] = "running",
         fork' = [fork EXCEPT ![k][i] = "done"],
         UNCHANGED <<queue, internal, next, parallelism, pc>>
  PROVE  Positions(taken)'
<1> USE StageNumbers
<1>1. \A j \in 1..Stages : Passed(taken, j)' = Passed(taken, j) /\ Awaits(taken, j)' = Awaits(taken, j)
  BY DEF Passed, Awaits
<1>2. \A j \in 1..Stages, n \in Ids : /\ fork'[j][n] # "none" <=> fork[j][n] # "none"
                                      /\ fork'[j][n] = "running" => fork[j][n] = "running"
  <2>1. /\ fork'[k][i] = "done"
        /\ \A n \in Ids : n # i => fork'[k][n] = fork[k][n]
        /\ \A j \in 1..Stages, n \in Ids : j # k => fork'[j][n] = fork[j][n]
    BY AtFork
  <2>2. QED BY <2>1
<1>3. InQueues(taken)'
  BY <1>1 DEF Positions, InQueues
<1>4. InTasks(taken)'
  BY <1>1, <1>2 DEF Positions, InTasks
<1>5. InEndStage(taken)'
  BY <1>1, <1>2 DEF Positions, InEndStage, Inline
<1>6. QED BY <1>3, <1>4, <1>5 DEF Positions

\* What the queues and the tasks before the end stage see of a step of its worker.
LEMMA EndWorkerMoves ==
  ASSUME TypeOK, NEW taken \in Tally, Positions(taken),
         UNCHANGED <<queue, next, parallelism>>,
         \A j \in 1..Stages : j # Stages => pc'[j] = pc[j],
         Awaits(taken, Stages)' = Awaits(taken, Stages),
         \A j \in Processing, i \in Ids : fork'[j][i] = fork[j][i]
  PROVE  InQueues(taken)' /\ InTasks(taken)'
<1> USE StageNumbers
<1>1. \A j \in Processing : j \in 1..Stages /\ j # Stages /\ Passed(taken, j)' = Passed(taken, j)
  BY DEF Passed
<1>2. \A j \in 1..Stages : Awaits(taken, j)' = Awaits(taken, j)
  BY DEF Awaits
<1>3. InQueues(taken)'
  BY <1>1 DEF Positions, InQueues
<1>4. InTasks(taken)'
  BY <1>1, <1>2 DEF Positions, InTasks
<1>5. QED BY <1>3, <1>4

\* The inline consumer has no tasks.
LEMMA ConsumeInlineMoves ==
  ASSUME TypeOK, EndStage, NEW taken \in Tally, Positions(taken), ConsumeInline
  PROVE  Positions(taken)'
<1> USE StageNumbers
<1>1. /\ pc[Stages] = "consume" /\ pc'[Stages] = "release"
      /\ \A j \in 1..Stages : j # Stages => pc'[j] = pc[j]
      /\ UNCHANGED <<queue, next, parallelism, fork, internal>>
  BY AtGoto DEF ConsumeInline
<1>2. Awaits(taken, Stages)' = Awaits(taken, Stages)
  BY <1>1 DEF Awaits, Holding
<1>3. InQueues(taken)' /\ InTasks(taken)'
  BY <1>1, <1>2, EndWorkerMoves
<1>4. Inline /\ Len(internal) = 0
  BY <1>1 DEF EndStage
<1>5. InEndStage(taken)'
  BY <1>1, <1>4 DEF Positions, InEndStage, Inline
<1>6. QED BY <1>3, <1>5 DEF Positions

\* The end worker forks the consumer behind the tasks it has in flight.
LEMMA PushInternalMoves ==
  ASSUME TypeOK, Held, EndStage, NEW taken \in Tally, Positions(taken), PushInternal
  PROVE  Positions(taken)'
<1> USE StageNumbers
<1> DEFINE x == taken[Stages]
<1>1. /\ pc[Stages] = "pushInternal" /\ pc'[Stages] \in {"drainOne", "release"}
      /\ \A j \in 1..Stages : j # Stages => pc'[j] = pc[j]
      /\ UNCHANGED <<queue, next, parallelism>>
  BY AtGoto DEF PushInternal
<1>2. Head(queue[Stages]).id = x /\ x \in Ids /\ x \in Nat
  BY <1>1, HeadIsNext DEF Holding, Positions
<1>3. /\ fork' = [fork EXCEPT ![Stages][x] = "running"]
      /\ Len(internal) \in Nat /\ Len(internal') = Len(internal) + 1
      /\ \A n \in 1..Len(internal) : internal'[n] = internal[n]
      /\ internal'[Len(internal) + 1].id = x
  BY <1>2, AtPushInternal
<1>4. /\ fork'[Stages][x] = "running"
      /\ \A n \in Ids : n # x => fork'[Stages][n] = fork[Stages][n]
      /\ \A j \in 1..Stages, n \in Ids : j # Stages => fork'[j][n] = fork[j][n]
  BY <1>2, <1>3, AtFork
<1>5. Awaits(taken, Stages)' = Awaits(taken, Stages)
  BY <1>1 DEF Awaits, Holding
<1>6. InQueues(taken)' /\ InTasks(taken)'
  BY <1>1, <1>4, <1>5, EndWorkerMoves
<1>7. Passed(taken, Stages) = x /\ Passed(taken, Stages)' = x + 1
  BY <1>1, <1>2 DEF Passed
<1>8. ~Inline /\ Inline' = Inline
  BY <1>1 DEF EndStage, Inline
<1>d. Passed(taken, Stages)' - Len(internal') = x - Len(internal)
  <2>1. \A a \in Nat, b \in Nat : (a + 1) - (b + 1) = a - b
    OBVIOUS
  <2>2. QED BY <1>2, <1>3, <1>7, <2>1
<1>9. ASSUME NEW n \in 1..Len(internal')
      PROVE  internal'[n].id = Passed(taken, Stages)' - Len(internal') + n - 1
  <2>1. CASE n \in 1..Len(internal)
    <3>1. internal'[n].id = x - Len(internal) + n - 1
      BY <1>3, <1>7, <2>1 DEF Positions, InEndStage
    <3>2. QED BY <1>d, <3>1
  <2>2. CASE n = Len(internal) + 1
    <3>1. internal'[n].id = x /\ x = x - Len(internal) + n - 1
      BY <1>2, <1>3, <2>2
    <3>2. QED BY <1>d, <3>1
  <2>3. QED BY <1>3, <2>1, <2>2
<1>10. ASSUME NEW i \in Ids
       PROVE  /\ fork'[Stages][i] # "none" <=> ~Inline /\ i < Passed(taken, Stages)'
              /\ fork'[Stages][i] = "running" => Passed(taken, Stages)' - Len(internal') <= i
  <2>1. CASE i = x
    BY <1>2, <1>3, <1>4, <1>7, <1>8, <2>1
  <2>2. CASE i # x
    <3>1. fork'[Stages][i] = fork[Stages][i] /\ (i < x <=> i < x + 1)
      BY <1>2, <1>4, <2>2, Numbers
    <3>2. /\ fork[Stages][i] # "none" <=> ~Inline /\ i < x
          /\ fork[Stages][i] = "running" => x - Len(internal) <= i
      BY <1>7 DEF Positions, InEndStage
    <3>3. QED BY <1>7, <1>d, <3>1, <3>2
  <2>3. QED BY <2>1, <2>2
<1>11. InEndStage(taken)'
  BY <1>8, <1>9, <1>10 DEF InEndStage
<1>12. QED BY <1>6, <1>11 DEF Positions

\* The end worker has awaited the oldest of its tasks.
LEMMA PullInternalMoves ==
  ASSUME TypeOK, NEW taken \in Tally, Positions(taken), DrainOne \/ Flush
  PROVE  Positions(taken)'
<1> USE StageNumbers
<1> DEFINE x == Passed(taken, Stages)
<1>1. /\ PullInternal /\ UNCHANGED <<queue, next, parallelism, fork>>
      /\ \A j \in 1..Stages : j # Stages => pc'[j] = pc[j]
      /\ \/ pc'[Stages] = pc[Stages]
         \/ pc[Stages] = "drainOne" /\ pc'[Stages] = "release"
  BY AtGoto DEF DrainOne, Flush
<1>2. Awaits(taken, Stages)' = Awaits(taken, Stages) /\ x' = x /\ x \in Nat /\ Inline' = Inline
  BY <1>1, Numbers DEF Awaits, Passed, Holding, Inline
<1>3. InQueues(taken)' /\ InTasks(taken)'
  BY <1>1, <1>2, EndWorkerMoves
<1>4. /\ Len(internal) \in Nat \ {0} /\ Len(internal') = Len(internal) - 1
      /\ \A n \in 1..Len(internal') : internal'[n] = internal[n + 1]
      /\ internal[1].id \in Ids /\ fork[Stages][internal[1].id] = "done"
  BY <1>1, AtPullInternal
<1>5. internal[1].id = x - Len(internal)
  <2>1. internal[1].id = x - Len(internal) + 1 - 1
    BY <1>4 DEF Positions, InEndStage
  <2>2. QED BY <1>2, <1>4, <2>1
<1>6. ASSUME NEW n \in 1..Len(internal') PROVE internal'[n].id = x - Len(internal') + n - 1
  <2>1. internal'[n] = internal[n + 1] /\ n + 1 \in 1..Len(internal)
    BY <1>4
  <2>2. internal[n + 1].id = x - Len(internal) + (n + 1) - 1
    BY <2>1 DEF Positions, InEndStage
  <2>3. QED BY <1>2, <1>4, <2>1, <2>2
<1>7. ASSUME NEW i \in Ids, fork[Stages][i] = "running" PROVE x - Len(internal') <= i
  <2>1. x - Len(internal) <= i /\ i # x - Len(internal)
    BY <1>4, <1>5, <1>7 DEF Positions, InEndStage
  <2>2. QED BY <1>2, <1>4, <2>1, Numbers
<1>8. InEndStage(taken)'
  BY <1>1, <1>2, <1>6, <1>7 DEF Positions, InEndStage
<1>9. QED BY <1>3, <1>8 DEF Positions

\* After every step there is a tally again; only a release changes it.
LEMMA PositionsKept ==
  ASSUME TypeOK, Held, EndStage, NEW taken \in Tally, Positions(taken), [Next]_vars
  PROVE  \E t \in Tally : Positions(t)'
<1> USE StageNumbers
<1>1. CASE /\ UNCHANGED <<queue, fork, internal, next, parallelism>>
           /\ \A k \in 1..Stages :
                \/ pc'[k] = pc[k]
                \/ /\ pc[k] \in {"unborn", "pull", "await", "flush", "done"}
                   /\ pc'[k] \in {"unborn", "pull", "await", "flush", "done"}
  <2>1. \A k \in 1..Stages :
            /\ pc'[k] \in {"drainOne", "release"} <=> pc[k] \in {"drainOne", "release"}
            /\ pc'[k] \in Holding \ {"await"} <=> pc[k] \in Holding \ {"await"}
    BY <1>1 DEF Holding
  <2>2. QED BY <1>1, <2>1, NothingMoves
<1>2. ASSUME NEW k \in 1..Stages, Construct(k) PROVE \E t \in Tally : Positions(t)'
  <2>1. /\ pc[k] = "unborn" /\ pc'[k] = "pull" /\ \A j \in 1..Stages : j # k => pc'[j] = pc[j]
        /\ UNCHANGED <<queue, fork, internal, next, parallelism>>
    BY <1>2 DEF Construct, TypeOK, PlacesOK
  <2>2. QED BY <1>1, <2>1
<1>3. CASE DriverClose \/ DriverJoin
  BY <1>1, <1>3, AtGoto DEF DriverClose, DriverJoin
<1>4. ASSUME NEW k \in 1..Stages, Pull(k) PROVE \E t \in Tally : Positions(t)'
  <2>1. /\ pc[k] = "pull" /\ pc'[k] = "await" /\ \A j \in 1..Stages : j # k => pc'[j] = pc[j]
        /\ UNCHANGED <<queue, fork, internal, next, parallelism>>
    BY <1>4, AtGoto DEF Pull
  <2>2. QED BY <1>1, <2>1
<1>5. ASSUME NEW k \in Processing, Close(k) PROVE \E t \in Tally : Positions(t)'
  <2>1. /\ pc[k] = "pull" /\ pc'[k] = "done" /\ \A j \in 1..Stages : j # k => pc'[j] = pc[j]
        /\ UNCHANGED <<queue, fork, internal, next, parallelism>>
    BY <1>5, AtGoto DEF Close
  <2>2. QED BY <1>1, <2>1
<1>6. CASE EndOfInput \/ FlushDone
  <2>1. /\ pc[Stages] \in {"pull", "flush"} /\ pc'[Stages] \in {"flush", "done"}
        /\ \A j \in 1..Stages : j # Stages => pc'[j] = pc[j]
        /\ UNCHANGED <<queue, fork, internal, next, parallelism>>
    BY <1>6, AtGoto DEF EndOfInput, FlushDone
  <2>2. QED BY <1>1, <2>1
<1>7. ASSUME NEW k \in Processing, NEW i \in Ids, TaskDone(k, i) PROVE \E t \in Tally : Positions(t)'
  BY <1>7, TaskEndMoves DEF TaskDone, Forked
<1>8. ASSUME NEW n \in DOMAIN internal, ConsumeForked(n) PROVE \E t \in Tally : Positions(t)'
  <2>1. internal[n].id \in Ids
    BY LenProperties DEF TypeOK, TasksOK, IsSeq
  <2>2. QED BY <1>8, <2>1, TaskEndMoves DEF ConsumeForked, Forked
<1>9. CASE UNCHANGED vars
  BY <1>1, <1>9 DEF vars
<1>10. QED
  BY <1>2, <1>3, <1>4, <1>5, <1>6, <1>7, <1>8, <1>9, DriverPushMoves, AwaitMoves, ReleaseMoves,
     PushMoves, ConsumeInlineMoves, PushInternalMoves, PullInternalMoves
     DEF Next, DriverStep, StageStep, EndStep, TaskStep, Terminated

-----------------------------------------------------------------------------
\* At the start nothing was taken.
LEMMA Initially == Init => IInv
<1> SUFFICES ASSUME Init PROVE IInv
  OBVIOUS
<1> USE StageNumbers
<1>1. /\ \A k \in 1..Stages : queue[k] = <<>> /\ pc[k] = "unborn" /\ ~closed[k]
      /\ pc[0] = "construct" /\ internal = <<>> /\ active = 0 /\ next = 0
      /\ \A k \in 1..Stages, i \in Ids : fork[k][i] = "none"
  BY DEF Init
<1>2. parallelism \in [1..Stages -> Nat \ {0}]
  BY FifoAssumption DEF Init
<1>3. TypeOK
  <2>1. QueuesOK
    BY <1>1, EmptyIsSeq DEF Init, QueuesOK
  <2>2. PlacesOK
    BY DEF Init, PlacesOK, StagePC, EndPC, DriverPC
  <2>3. TasksOK
    BY EmptyIsSeq DEF Init, TasksOK
  <2>4. QED BY <1>2, <2>1, <2>2, <2>3, FifoAssumption DEF Init, TypeOK
<1>4. Held /\ Bounded /\ EndStage /\ Closing /\ ClosedWhenComplete
  <2>1. Held /\ Closing /\ ClosedWhenComplete
    BY <1>1 DEF Held, Holding, Closing, ClosedWhenComplete
  <2>2. Bounded
    BY <1>1, <1>2, EmptyIsSeq DEF Bounded, Capacity
  <2>3. EndStage
    BY <1>1, <1>2, EmptyIsSeq DEF EndStage
  <2>4. QED BY <2>1, <2>2, <2>3
<1>5. \E taken \in Tally : Positions(taken)
  <2> DEFINE t == [k \in 1..Stages |-> 0]
  <2>1. t \in Tally /\ \A k \in 1..Stages : t[k] = 0
    BY FifoAssumption DEF Tally
  <2>2. \A k \in 1..Stages : Passed(t, k) = 0
    BY <1>1 DEF Passed
  <2>3. InQueues(t)
    BY <1>1, <2>1, <2>2, EmptyIsSeq DEF InQueues
  <2>4. InTasks(t)
    <3>1. ASSUME NEW k \in Processing, NEW i \in Ids
          PROVE  fork[k][i] = "none" /\ ~(i < Passed(t, k))
      <4>1. k \in 1..Stages /\ Passed(t, k) = 0 /\ fork[k][i] = "none"
        BY <1>1, <2>2
      <4>2. i >= 0
        BY FifoAssumption DEF Ids
      <4>3. ~(i < 0)
        BY <4>2, FifoAssumption DEF Ids
      <4>4. QED BY <4>1, <4>3
    <3>2. QED BY <3>1 DEF InTasks
  <2>5. InEndStage(t)
    BY <1>1, <2>2, EmptyIsSeq, FifoAssumption DEF InEndStage, Ids
  <2>6. QED BY <2>1, <2>3, <2>4, <2>5 DEF Positions
<1>6. QED BY <1>3, <1>4, <1>5 DEF IInv, Places

\* Every step keeps the invariant.
LEMMA Stepwise == IInv /\ [Next]_vars => IInv'
<1> SUFFICES ASSUME IInv, [Next]_vars PROVE IInv'
  OBVIOUS
<1>1. TypeOK /\ Held /\ Bounded /\ EndStage /\ Closing /\ ClosedWhenComplete
  BY DEF IInv, Places
<1>2. Places' /\ ClosedWhenComplete'
  BY <1>1, TypeKept, HeldKept, BoundedKept, EndStageKept, ClosingKept DEF Places
<1>3. PICK taken \in Tally : Positions(taken)
  BY DEF IInv
<1>4. \E t \in Tally : Positions(t)'
  BY <1>1, <1>3, PositionsKept
<1>5. QED BY <1>2, <1>4 DEF IInv

\* The invariant holds throughout.
LEMMA Invariance == Spec => []IInv
BY Initially, Stepwise, PTL DEF Spec

-----------------------------------------------------------------------------
(* What follows from the invariant *)

(* A stage closes its output behind its last element: a closed queue has    *)
(* received all there is, and every worker before it has ended.             *)
THEOREM ClosesWhenComplete == Spec => []ClosedWhenComplete
<1>1. IInv => ClosedWhenComplete
  BY DEF IInv
<1>2. QED BY <1>1, Invariance, PTL

(* The push of the end stage's worker to the queue that only it empties     *)
(* never finds that queue full, whatever its parallelism.                   *)
THEOREM PushNeverBlocks == Spec => []InternalPushNeverBlocks
<1>1. IInv => InternalPushNeverBlocks
  BY DEF IInv, Places, EndStage, InternalPushNeverBlocks
<1>2. QED BY <1>1, Invariance, PTL

(* When main() is past the join of the workers, no task that any stage has  *)
(* forked is still running.                                                 *)
THEOREM LeavesNothingRunning == Spec => []NothingRunsAfterJoin
<1>1. IInv => NothingRunsAfterJoin
  <2> SUFFICES ASSUME IInv, pc[0] = "done", NEW k \in 1..Stages, NEW i \in Ids, fork[k][i] = "running"
               PROVE  FALSE
    BY DEF NothingRunsAfterJoin, Forked
  <2> USE StageNumbers
  <2>1. TypeOK /\ Held /\ EndStage /\ \A j \in 1..Stages : pc[j] = "done" /\ queue[j] = <<>>
    BY DEF IInv, Places, Closing
  <2>2. PICK taken \in Tally : Positions(taken)
    BY DEF IInv
  <2>3. \A j \in 1..Stages : Awaits(taken, j) = taken[j] /\ Passed(taken, j) = taken[j]
    BY <2>1, Numbers DEF Awaits, Passed, Holding
  <2>4. i \in Nat /\ \A j \in 1..Stages : taken[j] \in Nat
    BY Numbers
  <2>5. CASE k \in Processing
    <3>1. taken[k + 1] + Len(queue[k + 1]) = Passed(taken, k) /\ Len(queue[k + 1]) = 0
      BY <2>1, <2>2, <2>5, EmptyIsSeq DEF Positions, InQueues
    <3>2. i < Passed(taken, k) /\ Awaits(taken, k + 1) <= i
      BY <2>2, <2>5 DEF Positions, InTasks
    <3>3. QED BY <2>3, <2>4, <2>5, <3>1, <3>2
  <2>6. CASE k = Stages
    <3>1. Len(internal) = 0
      BY <2>1 DEF EndStage
    <3>2. i < Passed(taken, Stages) /\ Passed(taken, Stages) - Len(internal) <= i
      BY <2>2, <2>6 DEF Positions, InEndStage
    <3>3. QED BY <2>3, <2>4, <3>1, <3>2
  <2>7. QED BY <2>5, <2>6
<1>2. QED BY <1>1, Invariance, PTL

(* Each queue holds consecutive elements, and a stage continues where what  *)
(* it has pushed ends: no element is lost, doubled or overtaken.            *)
THEOREM KeepsTheOrder == Spec => []Conveyor
<1>1. IInv => Conveyor
  <2> SUFFICES ASSUME IInv, NEW k \in 1..Stages
               PROVE  /\ \A n \in 1..Len(queue[k]) - 1 : queue[k][n + 1].id = queue[k][n].id + 1
                      /\ k < Stages /\ queue[k] # <<>> /\ queue[k + 1] # <<>> =>
                            Head(queue[k]).id = IF pc[k] = "release"
                                                THEN queue[k + 1][Len(queue[k + 1])].id
                                                ELSE queue[k + 1][Len(queue[k + 1])].id + 1
    BY DEF Conveyor
  <2> USE StageNumbers
  <2>1. TypeOK
    BY DEF IInv, Places
  <2>2. PICK taken \in Tally : Positions(taken)
    BY DEF IInv
  <2>3. \A j \in 1..Stages : taken[j] \in Nat /\ Len(queue[j]) \in Nat
    BY <2>1, Numbers, AtLen DEF TypeOK, QueuesOK
  <2>4. \A j \in 1..Stages : \A n \in 1..Len(queue[j]) : queue[j][n].id = taken[j] + n - 1
    BY <2>2 DEF Positions, InQueues
  <2>5. ASSUME NEW n \in 1..Len(queue[k]) - 1 PROVE queue[k][n + 1].id = queue[k][n].id + 1
    <3>1. n \in 1..Len(queue[k]) /\ n + 1 \in 1..Len(queue[k])
      BY <2>3
    <3>2. queue[k][n].id = taken[k] + n - 1 /\ queue[k][n + 1].id = taken[k] + (n + 1) - 1
      BY <2>4, <3>1
    <3>3. QED BY <2>3, <3>2
  <2>6. ASSUME k < Stages, queue[k] # <<>>, queue[k + 1] # <<>>
        PROVE  Head(queue[k]).id = IF pc[k] = "release"
                                   THEN queue[k + 1][Len(queue[k + 1])].id
                                   ELSE queue[k + 1][Len(queue[k + 1])].id + 1
    <3>1. k \in Processing /\ k + 1 \in 1..Stages /\ pc[k] # "drainOne"
      <4>1. k \in Processing /\ k + 1 \in 1..Stages
        BY <2>6
      <4>2. QED BY <2>1, <4>1 DEF TypeOK, PlacesOK, StagePC
    <3>2. Head(queue[k]) = queue[k][1] /\ 1 \in 1..Len(queue[k])
      BY <2>1, <2>6, AtTail DEF TypeOK, QueuesOK
    <3>3. queue[k][1].id = taken[k] + 1 - 1
      BY <2>4, <3>2
    <3>4. Len(queue[k + 1]) \in 1..Len(queue[k + 1])
      BY <2>1, <2>6, <3>1, AtTail DEF TypeOK, QueuesOK
    <3>5. queue[k + 1][Len(queue[k + 1])].id = taken[k + 1] + Len(queue[k + 1]) - 1
      BY <2>4, <3>1, <3>4
    <3>6. taken[k + 1] + Len(queue[k + 1]) = taken[k] + IF pc[k] = "release" THEN 1 ELSE 0
      BY <2>2, <3>1 DEF Positions, InQueues, Passed
    <3>7. taken[k] \in Nat /\ taken[k + 1] \in Nat /\ Len(queue[k + 1]) \in Nat
      BY <2>3, <3>1
    <3> DEFINE last == queue[k + 1][Len(queue[k + 1])].id
               a == taken[k + 1]
               b == Len(queue[k + 1])
    <3>l. last = a + b - 1 /\ a \in Nat /\ b \in Nat
      BY <3>5, <3>7
    <3>8. CASE pc[k] = "release"
      <4>1. a + b = taken[k] + 1
        BY <3>6, <3>8
      <4>2. last = taken[k]
        <5> HIDE DEF last, a, b
        <5>1. QED BY <3>l, <3>7, <4>1
      <4>3. QED BY <3>2, <3>3, <3>7, <3>8, <4>2
    <3>9. CASE pc[k] # "release"
      <4>1. a + b = taken[k]
        BY <3>6, <3>7, <3>9
      <4>2. last + 1 = taken[k]
        <5> HIDE DEF last, a, b
        <5>1. QED BY <3>l, <3>7, <4>1
      <4>3. QED BY <3>2, <3>3, <3>7, <3>9, <4>2
    <3>10. QED BY <3>8, <3>9
  <2>7. QED BY <2>5, <2>6
<1>2. QED BY <1>1, Invariance, PTL

(* "At most parallelism forked task handles can be in flight": a task that  *)
(* runs has its handle in the queue its stage writes to, whose capacity is  *)
(* the parallelism of that stage.                                           *)
THEOREM BoundsTheTasks == Spec => []InFlightBound
<1>1. IInv => InFlightBound
  <2> SUFFICES ASSUME IInv, NEW k \in 1..Stages
               PROVE  Cardinality(InFlight(k)) <= parallelism[k]
    BY DEF InFlightBound
  <2> USE StageNumbers
  <2>1. TypeOK /\ Held /\ Bounded /\ EndStage /\ parallelism[k] \in Nat
    BY DEF IInv, Places, TypeOK
  <2>2. PICK taken \in Tally : Positions(taken)
    BY DEF IInv
  <2>3. Ids \subseteq Nat /\ \A j \in 1..Stages : taken[j] \in Nat /\ Passed(taken, j) \in Nat
    BY Numbers
  <2>4. ASSUME NEW a \in Int, NEW b \in Int, b - a <= parallelism[k],
               \A i \in Ids : fork[k][i] = "running" => a <= i /\ i < b
        PROVE  Cardinality(InFlight(k)) <= parallelism[k]
    <3>1. InFlight(k) \subseteq a..(b - 1)
      <4>1. ASSUME NEW i \in InFlight(k) PROVE i \in a..(b - 1)
        <5>1. i \in Ids /\ fork[k][i] = "running"
          BY DEF InFlight, Forked
        <5>2. i \in Int /\ a <= i /\ i < b
          BY <2>3, <2>4, <5>1
        <5>3. QED BY <2>4, <5>2
      <4>2. QED BY <4>1
    <3>2. IsFiniteSet(a..(b - 1)) /\ Cardinality(a..(b - 1)) <= parallelism[k]
      <4>1. b - 1 \in Int
        BY <2>4
      <4>2. IsFiniteSet(a..(b - 1)) /\ Cardinality(a..(b - 1)) = IF a > b - 1 THEN 0 ELSE b - 1 - a + 1
        BY <2>4, <4>1, FS_Interval
      <4>3. QED BY <2>1, <2>4, <4>2
    <3>3. Cardinality(InFlight(k)) <= Cardinality(a..(b - 1))
      BY <3>1, <3>2, FS_Subset
    <3>4. IsFiniteSet(InFlight(k))
      BY <3>1, <3>2, FS_Subset
    <3>5. QED BY <2>1, <3>2, <3>3, <3>4, FS_CardinalityType
  <2>5. CASE k \in Processing
    <3>1. Len(queue[k + 1]) <= parallelism[k]
      BY <2>1, <2>5 DEF Bounded, Capacity
    <3>2. taken[k + 1] + Len(queue[k + 1]) = Passed(taken, k) /\ Len(queue[k + 1]) \in Nat
      BY <2>1, <2>2, <2>5, AtLen DEF Positions, InQueues, TypeOK, QueuesOK
    <3>3. ASSUME NEW i \in Ids, fork[k][i] = "running"
          PROVE  taken[k + 1] <= i /\ i < Passed(taken, k)
      <4>1. i < Passed(taken, k) /\ Awaits(taken, k + 1) <= i
        BY <2>2, <2>5, <3>3 DEF Positions, InTasks
      <4>2. taken[k + 1] <= Awaits(taken, k + 1) /\ Awaits(taken, k + 1) \in Nat
        BY <2>1, <2>2, <2>5, AwaitsPassed, Numbers DEF Positions
      <4>3. QED BY <2>3, <2>5, <4>1, <4>2
    <3>4. Passed(taken, k) - taken[k + 1] <= parallelism[k]
      BY <2>1, <2>3, <2>5, <3>1, <3>2
    <3>5. taken[k + 1] \in Int /\ Passed(taken, k) \in Int
      BY <2>3, <2>5
    <3>6. QED BY <2>4, <3>3, <3>4, <3>5
  <2>6. CASE k = Stages
    <3> DEFINE p == Passed(taken, Stages)
    <3>1. Len(internal) \in Nat /\ Len(internal) <= parallelism[k] /\ p \in Nat
      BY <2>1, <2>3, <2>6, AtLen DEF EndStage, TypeOK, TasksOK
    <3>2. \A i \in Ids : fork[k][i] = "running" => p - Len(internal) <= i /\ i < p
      BY <2>2, <2>6 DEF Positions, InEndStage
    <3>3. p - Len(internal) \in Int /\ p \in Int /\ p - (p - Len(internal)) <= parallelism[k]
      BY <2>1, <3>1
    <3> HIDE DEF p
    <3>4. QED BY <2>4, <3>2, <3>3
  <2>7. QED BY <2>5, <2>6
<1>2. QED BY <1>1, Invariance, PTL


-----------------------------------------------------------------------------
(* The pipeline as a map that keeps the order *)

(* v is what the first k stages make of element i. *)
Made(i, k, v) ==
    \E s : /\ s = [j \in 0..k |-> s[j]]
           /\ s[0] = i /\ s[k] = v /\ \A j \in 1..k : s[j] = Func(j, s[j - 1])

AllMade(q, k) == \A n \in 1..Len(q) : Made(q[n].id, k, q[n].val)

\* The functions that have been applied to the values in queue k: an entry behind the
\* first stage is a task that has still to apply the function of the stage before.
Applied(k) == IF k = 1 THEN 0 ELSE k - 2

\* The worker of a stage has the value of its oldest entry.
Ready == {"push", "consume", "pushInternal"}

(* Whatever is at stage k has been through the stages before. *)
Processed ==
    /\ data = [k \in 1..Stages |-> data[k]]
    /\ \A k \in 1..Stages : AllMade(queue[k], Applied(k))
    /\ \A k \in 1..Stages : pc[k] \in Ready => Made(Head(queue[k]).id, k - 1, data[k])
    /\ AllMade(internal, Stages - 1)

\* How many elements the inline end stage is done with.
Finished == Len(consumed) - IF pc[Stages] = "release" THEN 1 ELSE 0

(* The inline consumer was called with 0, 1, 2, ..., and as many are still   *)
(* in its queue as the stage before has forked in addition.                  *)
InOrder == Inline =>
    /\ \A j \in 1..Len(consumed) : consumed[j] = j - 1
    /\ Finished + Len(queue[Stages]) \in 0..NELEMS
    /\ \A i \in Ids : fork[Stages - 1][i] # "none" <=> i < Finished + Len(queue[Stages])

(* The consumer that is forked was called once for each task that is done. *)
ByTask == ~Inline =>
    /\ \A i, j \in 1..Len(consumed) : i # j => consumed[i] # consumed[j]
    /\ \A i \in Ids : fork[Stages][i] = "done" <=> \E j \in 1..Len(consumed) : consumed[j] = i

Consumption == consumed \in Seq(Ids) /\ InOrder /\ ByTask

\* An element as it is posted by the driver.
LEMMA MadeAtFirst == ASSUME NEW i PROVE Made(i, 0, i)
<1> DEFINE s == [j \in 0..0 |-> i]
<1>1. s = [j \in 0..0 |-> s[j]] /\ s[0] = i /\ \A j \in 1..0 : s[j] = Func(j, s[j - 1])
  OBVIOUS
<1> HIDE DEF s
<1>2. QED BY <1>1 DEF Made

\* The next stage applies its function.
LEMMA MadeNext ==
  ASSUME NEW i, NEW k \in Nat, NEW v, Made(i, k, v)
  PROVE  Made(i, k + 1, Func(k + 1, v))
<1>1. PICK s : /\ s = [j \in 0..k |-> s[j]]
               /\ s[0] = i /\ s[k] = v /\ \A j \in 1..k : s[j] = Func(j, s[j - 1])
  BY DEF Made
<1> DEFINE t == [j \in 0..k + 1 |-> IF j <= k THEN s[j] ELSE Func(k + 1, v)]
<1>2. t = [j \in 0..k + 1 |-> t[j]] /\ t[0] = i /\ t[k + 1] = Func(k + 1, v)
  BY <1>1
<1>3. ASSUME NEW j \in 1..k + 1 PROVE t[j] = Func(j, t[j - 1])
  <2>1. CASE j <= k
    <3>1. j \in 1..k /\ j - 1 \in 0..k /\ j - 1 <= k /\ j - 1 \in 0..k + 1 /\ j \in 0..k + 1
      BY <2>1
    <3>2. t[j] = s[j] /\ t[j - 1] = s[j - 1]
      BY <2>1, <3>1
    <3>3. QED BY <1>1, <3>1, <3>2
  <2>2. CASE j = k + 1
    <3>1. j - 1 = k /\ t[j - 1] = s[k]
      BY <2>2
    <3>2. QED BY <1>1, <1>2, <2>2, <3>1
  <2>3. QED BY <2>1, <2>2
<1> HIDE DEF t
<1>4. QED BY <1>2, <1>3 DEF Made

\* After the last function there is what the pipeline makes of the element.
LEMMA MadeIsThrough ==
  ASSUME NEW i, NEW v, Made(i, Stages - 1, v)
  PROVE  Through(i) = v
<1> DEFINE n == Stages - 1
           e(s) == [k \in 0..n |-> IF k = 0 THEN i ELSE Func(k, s[k - 1])]
           g == CHOOSE s : s = e(s)
<1>0. n \in Nat /\ n = Stages - 1
  BY FifoAssumption
<1>1. PICK s : /\ s = [j \in 0..n |-> s[j]]
               /\ s[0] = i /\ s[n] = v /\ \A j \in 1..n : s[j] = Func(j, s[j - 1])
  BY DEF Made
<1>2. s = e(s)
  <2> HIDE DEF n
  <2>1. s[0] = i /\ \A k \in 1..n : s[k] = Func(k, s[k - 1])
    BY <1>1
  <2>2. \A k \in 0..n : k = 0 \/ k \in 1..n
    BY <1>0
  <2>3. \A k \in 0..n : s[k] = IF k = 0 THEN i ELSE Func(k, s[k - 1])
    BY ONLY <2>1, <2>2
  <2>4. e(s) = [k \in 0..n |-> s[k]]
    BY <2>3
  <2>5. QED BY <1>1, <2>4
<1>3. g = e(g)
  BY <1>2
<1>4. \A k \in 0..n : g[k] = IF k = 0 THEN i ELSE Func(k, g[k - 1])
  BY <1>3
<1>5. Through(i) = g[n]
  BY DEF Through
<1> HIDE DEF g, n
<1> DEFINE S == {k \in Nat : k <= n => g[k] = s[k]}
<1>6. S = Nat
  <2>1. 0 \in S
    BY <1>0, <1>1, <1>4
  <2>2. ASSUME NEW k \in Nat, k \in S PROVE k + 1 \in S
    <3> SUFFICES ASSUME k + 1 <= n PROVE g[k + 1] = s[k + 1]
      OBVIOUS
    <3>1. k + 1 \in 0..n /\ k + 1 \in 1..n /\ k + 1 # 0 /\ (k + 1) - 1 = k
      BY <1>0
    <3>2. g[k] = s[k]
      BY <1>0, <2>2
    <3>3. QED BY <1>1, <1>4, <3>1, <3>2
  <2> HIDE DEF S
  <2>3. S \subseteq Nat
    BY DEF S
  <2>4. QED BY <2>1, <2>2, <2>3, NatBySteps
<1>7. n \in S
  BY <1>0, <1>6
<1>8. s[n] = v
  BY <1>1
<1>9. QED BY <1>0, <1>5, <1>7, <1>8

\* A queue to which such an entry is pushed, and one whose oldest entry is taken out.
LEMMA AllMadeKept ==
  ASSUME NEW q, IsSeq(q), NEW k, AllMade(q, k)
  PROVE  /\ \A m : Made(m.id, k, m.val) => AllMade(Append(q, m), k)
         /\ q # <<>> => /\ AllMade(Tail(q), k)
                        /\ Made(Head(q).id, k, Head(q).val)
                        /\ \A m : Head(Append(q, m)) = Head(q)
<1>1. ASSUME NEW m, Made(m.id, k, m.val) PROVE AllMade(Append(q, m), k)
  <2>1. /\ Len(q) \in Nat /\ Len(Append(q, m)) = Len(q) + 1
        /\ \A n \in 1..Len(q) : Append(q, m)[n] = q[n]
        /\ Append(q, m)[Len(q) + 1] = m
    BY AtAppend
  <2>2. \A n \in 1..Len(Append(q, m)) : n \in 1..Len(q) \/ n = Len(q) + 1
    BY <2>1
  <2>3. QED BY <1>1, <2>1, <2>2 DEF AllMade
<1>2. ASSUME q # <<>>
      PROVE  /\ AllMade(Tail(q), k)
             /\ Made(Head(q).id, k, Head(q).val)
             /\ \A m : Head(Append(q, m)) = Head(q)
  <2>1. /\ Len(q) \in Nat \ {0} /\ Len(Tail(q)) = Len(q) - 1 /\ Head(q) = q[1]
        /\ \A n \in 1..Len(Tail(q)) : Tail(q)[n] = q[n + 1]
    BY <1>2, AtTail
  <2>2. 1 \in 1..Len(q) /\ \A n \in 1..Len(Tail(q)) : n + 1 \in 1..Len(q)
    BY <2>1
  <2>3. ASSUME NEW m PROVE Head(Append(q, m)) = Head(q)
    <3>1. /\ IsSeq(Append(q, m)) /\ Len(Append(q, m)) = Len(q) + 1
          /\ \A n \in 1..Len(q) : Append(q, m)[n] = q[n]
      BY AtAppend
    <3>2. Append(q, m) # <<>>
      BY <2>1, <3>1, EmptyIsSeq
    <3>3. Head(Append(q, m)) = Append(q, m)[1]
      BY <3>1, <3>2, AtTail
    <3>4. QED BY <2>1, <2>2, <3>1, <3>3
  <2>4. QED BY <2>1, <2>2, <2>3 DEF AllMade
<1>3. QED BY <1>1, <1>2

\* Steps that leave the queues alone, and the values that workers have.
LEMMA ProcessedStays ==
  ASSUME Processed, queue' = queue, internal' = internal, data' = data,
         \A k \in 1..Stages : pc'[k] \in Ready => pc[k] \in Ready
  PROVE  Processed'
<1>1. \A k \in 1..Stages : AllMade(queue'[k], Applied(k))
  BY DEF Processed
<1>2. \A k \in 1..Stages : pc'[k] \in Ready => Made(Head(queue'[k]).id, k - 1, data'[k])
  BY DEF Processed
<1>3. AllMade(internal', Stages - 1)
  BY DEF Processed
<1>4. data' = [k \in 1..Stages |-> data'[k]]
  BY DEF Processed
<1>5. QED BY <1>1, <1>2, <1>3, <1>4 DEF Processed, AllMade, Made

\* Steps that push an element to queue k.
LEMMA ProcessedPush ==
  ASSUME TypeOK, Held, Processed, NEW k \in 1..Stages, NEW m, Made(m.id, Applied(k), m.val),
         QueuePush(k, m), internal' = internal, data' = data,
         \A j \in 1..Stages : pc'[j] \in Ready => pc[j] \in Ready
  PROVE  Processed'
<1>1. IsSeq(queue[k]) /\ queue' = [queue EXCEPT ![k] = Append(queue[k], m)]
  BY DEF TypeOK, QueuesOK, QueuePush
<1>2. queue'[k] = Append(queue[k], m) /\ \A j \in 1..Stages : j # k => queue'[j] = queue[j]
  BY <1>1 DEF TypeOK, QueuesOK
<1>3. \A j \in 1..Stages : AllMade(queue'[j], Applied(j))
  <2>1. AllMade(queue[k], Applied(k))
    BY DEF Processed
  <2>2. AllMade(queue'[k], Applied(k))
    BY <1>1, <1>2, <2>1, AllMadeKept
  <2>3. QED BY <1>2, <2>2 DEF Processed
<1>4. ASSUME NEW j \in 1..Stages, pc'[j] \in Ready
      PROVE  Made(Head(queue'[j]).id, j - 1, data'[j])
  <2>1. pc[j] \in Ready /\ Made(Head(queue[j]).id, j - 1, data[j])
    BY <1>4 DEF Processed
  <2>2. queue[j] # <<>>
    BY <2>1 DEF Held, Ready, Holding
  <2>3. Head(queue'[j]) = Head(queue[j])
    <3>1. CASE j = k
      <4>1. AllMade(queue[k], Applied(k))
        BY DEF Processed
      <4>2. QED BY <1>1, <1>2, <2>2, <3>1, <4>1, AllMadeKept
    <3>2. CASE j # k
      BY <1>2, <3>2
    <3>3. QED BY <3>1, <3>2
  <2>4. QED BY <2>1, <2>3
<1>5. AllMade(internal', Stages - 1)
  BY DEF Processed
<1>6. data' = [j \in 1..Stages |-> data'[j]]
  BY DEF Processed
<1>7. QED BY <1>3, <1>4, <1>5, <1>6 DEF Processed, AllMade, Made

\* Whatever is at stage k has been through the stages before it: the steps.
LEMMA ProcessedKept ==
  ASSUME TypeOK, Held, Processed, [Next]_vars
  PROVE  Processed'
<1> USE StageNumbers
<1>0. \A k \in 1..Stages : k \in 0..Stages /\ k # 0
  BY FifoAssumption
<1>1. CASE UNCHANGED vars
  BY <1>1, ProcessedStays DEF vars
<1>2. ASSUME NEW k \in 1..Stages, Construct(k) PROVE Processed'
  <2>1. \A j \in 1..Stages : pc'[j] = IF j = k THEN "pull" ELSE pc[j]
    BY <1>0, <1>2 DEF Construct, TypeOK, PlacesOK
  <2>2. queue' = queue /\ internal' = internal /\ data' = data
    BY <1>2 DEF Construct
  <2>3. \A j \in 1..Stages : pc'[j] \in Ready => pc[j] \in Ready
    BY <2>1 DEF Ready
  <2>4. QED BY <2>2, <2>3, ProcessedStays
<1>3. CASE DriverPush
  <2>1. QueuePush(1, Elem(next, next)) /\ internal' = internal /\ data' = data /\ pc' = pc
    BY <1>3 DEF DriverPush
  <2>2. Made(Elem(next, next).id, Applied(1), Elem(next, next).val)
    BY MadeAtFirst DEF Elem, Applied
  <2>3. QED BY <2>1, <2>2, ProcessedPush
<1>4. CASE DriverClose \/ DriverJoin
  <2>1. queue' = queue /\ internal' = internal /\ data' = data
    BY <1>4 DEF DriverClose, DriverJoin
  <2>2. \A j \in 1..Stages : pc'[j] = pc[j]
    BY <1>0, <1>4, AtGoto DEF DriverClose, DriverJoin
  <2>3. QED BY <2>1, <2>2, ProcessedStays
<1>5. ASSUME NEW k \in 1..Stages, \/ Pull(k)
                                  \/ k \in Processing /\ Close(k)
                                  \/ k = Stages /\ (ConsumeInline \/ EndOfInput \/ FlushDone)
      PROVE Processed'
  <2>1. queue' = queue /\ internal' = internal /\ data' = data
    BY <1>5 DEF Pull, Close, ConsumeInline, EndOfInput, FlushDone
  <2>2. PICK l : Goto(k, l) /\ l \notin Ready
    BY <1>5 DEF Pull, Close, ConsumeInline, EndOfInput, FlushDone, Ready
  <2>3. pc'[k] = l /\ \A j \in 1..Stages : j # k => pc'[j] = pc[j]
    BY <1>0, <2>2, AtGoto
  <2>4. QED BY <2>1, <2>2, <2>3, ProcessedStays
<1>6. ASSUME NEW k \in 1..Stages, Await(k) PROVE Processed'
  <2> DEFINE m == Head(queue[k])
  <2>1. /\ pc[k] = "await" /\ queue' = queue /\ internal' = internal
        /\ data' = [data EXCEPT ![k] = Awaited(k, m)]
        /\ \A j \in 1..Stages : j # k => pc'[j] = pc[j]
    BY <1>0, <1>6, AtGoto DEF Await
  <2>2. Made(m.id, Applied(k), m.val)
    <3>1. IsSeq(queue[k]) /\ queue[k] # <<>> /\ AllMade(queue[k], Applied(k))
      BY <2>1 DEF TypeOK, QueuesOK, Held, Holding, Processed
    <3>2. QED BY <3>1, AllMadeKept
  <2> HIDE DEF m
  <2>3. Made(m.id, k - 1, Awaited(k, m))
    <3>1. CASE k = 1
      BY <2>2, <3>1 DEF Awaited, Applied
    <3>2. CASE k # 1
      <4>1. PICK n \in Nat : n = k - 2 /\ n + 1 = k - 1
        <5>1. k - 2 \in Nat /\ (k - 2) + 1 = k - 1
          BY <3>2
        <5>2. QED BY <5>1
      <4>2. Made(m.id, n, m.val)
        BY <2>2, <3>2, <4>1 DEF Applied
      <4>3. Made(m.id, n + 1, Func(n + 1, m.val))
        BY <4>2, MadeNext
      <4>4. QED BY <3>2, <4>1, <4>3 DEF Awaited
    <3>3. QED BY <3>1, <3>2
  <2>4. \A j \in 1..Stages : pc'[j] \in Ready => Made(Head(queue'[j]).id, j - 1, data'[j])
    <3> SUFFICES ASSUME NEW j \in 1..Stages, pc'[j] \in Ready
                 PROVE  Made(Head(queue'[j]).id, j - 1, data'[j])
      OBVIOUS
    <3>1. CASE j = k
      <4>1. data'[k] = Awaited(k, m)
        BY <2>1 DEF Processed
      <4>2. QED BY <2>1, <2>3, <3>1, <4>1 DEF m
    <3>2. CASE j # k
      <4>1. data'[j] = data[j] /\ pc[j] \in Ready
        BY <2>1, <3>2 DEF Processed
      <4>2. QED BY <2>1, <4>1 DEF Processed
    <3>3. QED BY <3>1, <3>2
  <2>5. (\A j \in 1..Stages : AllMade(queue'[j], Applied(j))) /\ AllMade(internal', Stages - 1)
    BY <2>1 DEF Processed
  <2>6. data' = [j \in 1..Stages |-> data'[j]]
    BY <2>1 DEF Processed
  <2>7. QED BY <2>4, <2>5, <2>6 DEF Processed, AllMade, Made
<1>7. ASSUME NEW k \in 1..Stages, Release(k) PROVE Processed'
  <2>1. /\ pc[k] = "release" /\ pc'[k] = "pull" /\ internal' = internal /\ data' = data
        /\ queue' = [queue EXCEPT ![k] = Tail(queue[k])]
        /\ \A j \in 1..Stages : j # k => pc'[j] = pc[j]
    BY <1>0, <1>7, AtGoto DEF Release
  <2>2. queue'[k] = Tail(queue[k]) /\ \A j \in 1..Stages : j # k => queue'[j] = queue[j]
    BY <2>1 DEF TypeOK, QueuesOK
  <2>3. AllMade(queue'[k], Applied(k))
    <3>1. IsSeq(queue[k]) /\ queue[k] # <<>> /\ AllMade(queue[k], Applied(k))
      BY <2>1 DEF TypeOK, QueuesOK, Held, Holding, Processed
    <3>2. QED BY <2>2, <3>1, AllMadeKept
  <2>4. \A j \in 1..Stages : AllMade(queue'[j], Applied(j))
    BY <2>2, <2>3 DEF Processed
  <2>5. \A j \in 1..Stages : pc'[j] \in Ready => Made(Head(queue'[j]).id, j - 1, data'[j])
    BY <2>1, <2>2 DEF Processed, Ready
  <2>6. AllMade(internal', Stages - 1)
    BY <2>1 DEF Processed
  <2>7. data' = [j \in 1..Stages |-> data'[j]]
    BY <2>1 DEF Processed
  <2>8. QED BY <2>4, <2>5, <2>6, <2>7 DEF Processed, AllMade, Made
<1>8. ASSUME NEW k \in Processing, Push(k) PROVE Processed'
  <2> DEFINE m == Elem(Head(queue[k]).id, data[k])
  <2>1. /\ pc[k] = "push" /\ QueuePush(k + 1, m) /\ internal' = internal /\ data' = data
        /\ Goto(k, "release")
    BY <1>8 DEF Push
  <2>2. k \in 1..Stages /\ k + 1 \in 1..Stages /\ Applied(k + 1) = k - 1
    BY Neighbours DEF Applied
  <2>3. Made(m.id, Applied(k + 1), m.val)
    BY <2>1, <2>2 DEF Processed, Ready, Elem
  <2>4. \A j \in 1..Stages : pc'[j] \in Ready => pc[j] \in Ready
    BY <1>0, <2>1, <2>2, AtGoto DEF Ready
  <2> HIDE DEF m
  <2>5. QED BY <2>1, <2>2, <2>3, <2>4, ProcessedPush
<1>9. CASE PushInternal
  <2> DEFINE m == Elem(Head(queue[Stages]).id, data[Stages])
  <2>1. /\ pc[Stages] = "pushInternal" /\ queue' = queue /\ data' = data
        /\ internal' = Append(internal, m)
        /\ pc'[Stages] \notin Ready /\ \A j \in 1..Stages : j # Stages => pc'[j] = pc[j]
    BY <1>0, <1>9, AtGoto DEF PushInternal, Ready
  <2>2. Made(m.id, Stages - 1, m.val)
    BY <2>1 DEF Processed, Ready, Elem
  <2> HIDE DEF m
  <2>3. AllMade(internal', Stages - 1)
    BY <2>1, <2>2, AllMadeKept DEF Processed, TypeOK, TasksOK
  <2>4. \A j \in 1..Stages : AllMade(queue'[j], Applied(j))
    BY <2>1 DEF Processed
  <2>5. \A j \in 1..Stages : pc'[j] \in Ready => Made(Head(queue'[j]).id, j - 1, data'[j])
    BY <2>1 DEF Processed
  <2>6. data' = [j \in 1..Stages |-> data'[j]]
    BY <2>1 DEF Processed
  <2>7. QED BY <2>3, <2>4, <2>5, <2>6 DEF Processed, AllMade, Made
<1>10. CASE DrainOne \/ Flush
  <2>1. queue' = queue /\ data' = data /\ internal # <<>> /\ internal' = Tail(internal)
    BY <1>10 DEF DrainOne, Flush, PullInternal
  <2>2. \A j \in 1..Stages : pc'[j] \in Ready => pc[j] \in Ready
    BY <1>0, <1>10, AtGoto DEF DrainOne, Flush, Ready
  <2>3. AllMade(internal', Stages - 1)
    BY <2>1, AllMadeKept DEF Processed, TypeOK, TasksOK
  <2>4. \A j \in 1..Stages : AllMade(queue'[j], Applied(j))
    BY <2>1 DEF Processed
  <2>5. \A j \in 1..Stages : pc'[j] \in Ready => Made(Head(queue'[j]).id, j - 1, data'[j])
    BY <2>1, <2>2 DEF Processed
  <2>6. data' = [j \in 1..Stages |-> data'[j]]
    BY <2>1 DEF Processed
  <2>7. QED BY <2>3, <2>4, <2>5, <2>6 DEF Processed, AllMade, Made
<1>11. ASSUME NEW k \in Processing, NEW i \in Ids, TaskDone(k, i) PROVE Processed'
  BY <1>11, ProcessedStays DEF TaskDone
<1>12. ASSUME NEW n \in DOMAIN internal, ConsumeForked(n) PROVE Processed'
  BY <1>12, ProcessedStays DEF ConsumeForked
<1>13. QED
  BY <1>1, <1>2, <1>3, <1>4, <1>5, <1>6, <1>7, <1>8, <1>9, <1>10, <1>11, <1>12
  DEF Next, DriverStep, StageStep, EndStep, TaskStep, Terminated

-----------------------------------------------------------------------------
\* A number of elements is known by which elements are below it.
LEMMA SameBound ==
  ASSUME NEW a \in 0..NELEMS, NEW b \in 0..NELEMS, \A i \in Ids : i < a <=> i < b
  PROVE  a = b
<1>1. CASE a < b
  <2>1. a \in Ids /\ ~(a < a)
    BY <1>1, FifoAssumption DEF Ids
  <2>2. QED BY <1>1, <2>1
<1>2. CASE b < a
  <2>1. b \in Ids /\ ~(b < b)
    BY <1>2, FifoAssumption DEF Ids
  <2>2. QED BY <1>2, <2>1
<1>3. QED BY <1>1, <1>2, FifoAssumption

\* What the stage before the last has passed on is consumed or in the last queue.
LEMMA EndTally ==
  ASSUME TypeOK, Held, NEW taken \in Tally, Positions(taken), Consumption, Inline
  PROVE  /\ Finished + Len(queue[Stages]) = Passed(taken, Stages - 1)
         /\ Finished = taken[Stages] /\ Len(queue[Stages]) \in Nat /\ Len(consumed) \in Nat
<1> DEFINE k == Stages - 1
           L == Len(queue[Stages])
<1>1. k \in Processing /\ k \in 1..Stages /\ k + 1 = Stages /\ Stages \in 1..Stages
  BY StageNumbers
<1>2. L \in Nat /\ Len(consumed) \in Nat
  BY <1>1, AtLen, LenProperties DEF TypeOK, QueuesOK, Consumption
<1>3. taken[Stages] + L = Passed(taken, k)
  BY <1>1 DEF Positions, InQueues
<1> HIDE DEF k, L
<1>4. Passed(taken, k) \in 0..NELEMS
  <2>1. taken[k] \in 0..NELEMS /\ NELEMS \in Nat
    BY <1>1, Numbers
  <2>2. CASE pc[k] \in {"drainOne", "release"}
    <3>1. taken[k] \in Ids
      BY <1>1, <2>2, HeadIsNext DEF Positions, Holding
    <3>2. QED BY <2>1, <2>2, <3>1 DEF Passed, Ids
  <2>3. CASE pc[k] \notin {"drainOne", "release"}
    BY <2>1, <2>3 DEF Passed
  <2>4. QED BY <2>2, <2>3
<1>5. \A i \in Ids : fork[k][i] # "none" <=> i < Passed(taken, k)
  BY <1>1 DEF Positions, InTasks
<1>6. /\ Finished + L \in 0..NELEMS
      /\ \A i \in Ids : fork[k][i] # "none" <=> i < Finished + L
  BY DEF Consumption, InOrder, k, L
<1>7. Finished + L = Passed(taken, k)
  <2> DEFINE a == Finished + L
             b == Passed(taken, k)
  <2>1. a \in 0..NELEMS /\ b \in 0..NELEMS /\ \A i \in Ids : i < a <=> i < b
    BY <1>4, <1>5, <1>6
  <2> HIDE DEF a, b
  <2>2. a = b
    BY <2>1, SameBound
  <2>3. QED BY <2>2 DEF a, b
<1>8. Finished \in Int /\ taken[Stages] \in Nat
  BY <1>1, <1>2, Numbers DEF Finished
<1>9. QED BY <1>2, <1>3, <1>7, <1>8 DEF k, L

\* Steps that neither consume nor pass anything to the end stage.
LEMMA ConsumptionStays ==
  ASSUME Consumption, consumed' = consumed, parallelism' = parallelism,
         queue'[Stages] = queue[Stages],
         Inline => (pc'[Stages] = "release" <=> pc[Stages] = "release"),
         \A i \in Ids : /\ fork'[Stages - 1][i] # "none" <=> fork[Stages - 1][i] # "none"
                        /\ fork'[Stages][i] = "done" <=> fork[Stages][i] = "done"
  PROVE  Consumption'
<1>1. Inline' <=> Inline
  BY DEF Inline
<1>2. ASSUME Inline'
      PROVE  /\ \A j \in 1..Len(consumed') : consumed'[j] = j - 1
             /\ Finished' + Len(queue'[Stages]) \in 0..NELEMS
             /\ \A i \in Ids : fork'[Stages - 1][i] # "none" <=> i < Finished' + Len(queue'[Stages])
  <2>1. Finished' = Finished
    BY <1>1, <1>2 DEF Finished
  <2>2. QED BY <1>1, <1>2, <2>1 DEF Consumption, InOrder
<1>3. ASSUME ~Inline'
      PROVE  /\ \A i, j \in 1..Len(consumed') : i # j => consumed'[i] # consumed'[j]
             /\ \A i \in Ids : fork'[Stages][i] = "done" <=>
                                    \E j \in 1..Len(consumed') : consumed'[j] = i
  BY <1>1, <1>3 DEF Consumption, ByTask
<1>4. QED BY <1>2, <1>3 DEF Consumption, InOrder, ByTask, Ids

\* The end stage gives back the slot of an element it has consumed inline.
LEMMA ConsumptionRelease ==
  ASSUME TypeOK, Held, Consumption, Release(Stages)
  PROVE  Consumption'
<1>1. /\ pc[Stages] = "release" /\ pc'[Stages] = "pull"
      /\ consumed' = consumed /\ parallelism' = parallelism /\ fork' = fork
      /\ Len(queue[Stages]) \in Nat \ {0} /\ Len(queue'[Stages]) = Len(queue[Stages]) - 1
  BY StageNumbers, AtGoto, AtRelease DEF Release
<1>2. Len(consumed) \in Nat
  BY LenProperties DEF Consumption
<1>3. Finished' + Len(queue'[Stages]) = Finished + Len(queue[Stages])
  <2>1. Finished' = Len(consumed) - 0 /\ Finished = Len(consumed) - 1
    BY <1>1 DEF Finished
  <2>2. QED BY <1>1, <1>2, <2>1
<1>4. Inline' <=> Inline
  BY <1>1 DEF Inline
<1>5. InOrder'
  BY <1>1, <1>3, <1>4 DEF Consumption, InOrder, Ids
<1>6. ByTask'
  BY <1>1, <1>4 DEF Consumption, ByTask, Ids
<1>7. QED BY <1>1, <1>5, <1>6 DEF Consumption, Ids

\* The stage before the last passes an element on.
LEMMA ConsumptionPush ==
  ASSUME TypeOK, Held, NEW taken \in Tally, Positions(taken), Consumption, Push(Stages - 1)
  PROVE  Consumption'
<1> DEFINE k == Stages - 1
           i == Head(queue[k]).id
           m == Elem(i, data[k])
<1>1. /\ k \in Processing /\ k \in 1..Stages /\ k + 1 = Stages /\ Stages \in 1..Stages
      /\ k \in 0..Stages /\ Stages \in (0..Stages) \ {k} /\ k # Stages
  BY StageNumbers
<1>2. /\ pc[k] = "push" /\ QueuePush(Stages, m) /\ fork' = [fork EXCEPT ![k][i] = "running"]
      /\ Goto(k, "release") /\ consumed' = consumed /\ parallelism' = parallelism
  BY <1>1 DEF Push, Fork
<1>3. i = taken[k] /\ taken[k] \in Ids /\ taken[k] \in Nat
  BY <1>1, <1>2, HeadIsNext DEF Positions, Holding
<1>4. m.id \in Ids
  BY <1>3 DEF Elem
<1> HIDE DEF k, m
<1>5. Len(queue[Stages]) \in Nat /\ Len(queue'[Stages]) = Len(queue[Stages]) + 1
  BY <1>1, <1>2, <1>4, AtPush
<1>6. pc'[Stages] = pc[Stages]
  BY <1>1, <1>2, AtGoto
<1> HIDE DEF i
<1>7. /\ fork'[k][i] = "running"
      /\ \A n \in Ids : n # i => fork'[k][n] = fork[k][n]
      /\ \A n \in Ids : fork'[Stages][n] = fork[Stages][n]
  <2>1. i \in Ids
    BY <1>3
  <2>2. /\ fork'[k][i] = "running"
        /\ \A j \in 1..Stages : \A n \in Ids : j # k \/ n # i => fork'[j][n] = fork[j][n]
    BY <1>1, <1>2, <2>1 DEF TypeOK, TasksOK
  <2>3. QED BY <1>1, <2>2
<1>8. Inline' <=> Inline
  BY <1>2 DEF Inline
<1>9. Finished' = Finished
  BY <1>2, <1>6 DEF Finished
<1>10. ASSUME Inline'
       PROVE  /\ Finished' + Len(queue'[Stages]) \in 0..NELEMS
              /\ \A n \in Ids : fork'[k][n] # "none" <=> n < Finished' + Len(queue'[Stages])
  <2>1. Finished + Len(queue[Stages]) = Passed(taken, k) /\ Finished = taken[Stages]
    BY <1>8, <1>10, EndTally DEF k
  <2>2. Passed(taken, k) = i
    BY <1>2, <1>3 DEF Passed
  <2>3. taken[Stages] \in Nat /\ Ids \subseteq Nat /\ NELEMS \in Nat
    BY <1>1, Numbers
  <2>4. Finished' + Len(queue'[Stages]) = i + 1
    BY <1>5, <1>9, <2>1, <2>2, <2>3
  <2>5. \A n \in Ids : fork[k][n] # "none" <=> n < i
    BY <1>1, <2>2 DEF Positions, InTasks
  <2>6. \A n \in Ids : fork'[k][n] # "none" <=> n < i + 1
    <3> SUFFICES ASSUME NEW n \in Ids PROVE fork'[k][n] # "none" <=> n < i + 1
      OBVIOUS
    <3>1. CASE n = i
      BY <1>3, <1>7, <3>1
    <3>2. CASE n # i
      <4>1. n < i <=> n < i + 1
        BY <1>3, <2>3, <3>2
      <4>2. QED BY <1>7, <2>5, <3>2, <4>1
    <3>3. QED BY <3>1, <3>2
  <2>7. i + 1 \in 0..NELEMS
    BY <1>3, <2>3 DEF Ids
  <2>8. QED BY <2>4, <2>6, <2>7
<1>11. InOrder'
  <2>1. Inline => \A j \in 1..Len(consumed) : consumed[j] = j - 1
    BY DEF Consumption, InOrder
  <2>2. QED BY <1>2, <1>8, <1>10, <2>1 DEF InOrder, Ids, k
<1>12. ByTask'
  BY <1>2, <1>7, <1>8 DEF Consumption, ByTask, Ids
<1>13. QED BY <1>2, <1>11, <1>12 DEF Consumption, Ids

\* The inline consumer is called with the next element.
LEMMA ConsumptionInline ==
  ASSUME TypeOK, Held, EndStage, NEW taken \in Tally, Positions(taken), Consumption, ConsumeInline
  PROVE  /\ Consumption'
         /\ Inline /\ Head(queue[Stages]).id = Len(consumed)
         /\ Head(queue[Stages]).id \in Ids /\ Head(queue[Stages]).id = taken[Stages]
         /\ \A j \in 1..Len(consumed) : consumed[j] # Head(queue[Stages]).id
<1> DEFINE i == Head(queue[Stages]).id
<1>1. /\ pc[Stages] = "consume" /\ pc'[Stages] = "release" /\ consumed' = Append(consumed, i)
      /\ parallelism' = parallelism /\ fork' = fork /\ queue' = queue
  BY StageNumbers, AtGoto DEF ConsumeInline, Consume
<1>2. i = taken[Stages] /\ i \in Ids /\ i \in Nat
  BY <1>1, StageNumbers, HeadIsNext DEF Positions, Holding
<1>3. Inline
  BY <1>1 DEF EndStage
<1>4. /\ Finished = taken[Stages] /\ Len(queue[Stages]) \in Nat /\ Len(consumed) \in Nat
  BY <1>3, EndTally
<1>5. Finished = Len(consumed) - 0
  BY <1>1 DEF Finished
<1>6. i = Len(consumed)
  BY <1>2, <1>4, <1>5
<1> HIDE DEF i
<1>7. /\ consumed' \in Seq(Ids) /\ Len(consumed') = Len(consumed) + 1
      /\ consumed'[Len(consumed) + 1] = i
      /\ \A j \in 1..Len(consumed) : consumed'[j] = consumed[j]
  BY <1>1, <1>2, AppendProperties DEF Consumption
<1>8. \A j \in 1..Len(consumed) : consumed[j] = j - 1
  BY <1>3 DEF Consumption, InOrder
<1>9. \A j \in 1..Len(consumed') : consumed'[j] = j - 1
  <2> SUFFICES ASSUME NEW j \in 1..Len(consumed') PROVE consumed'[j] = j - 1
    OBVIOUS
  <2>1. CASE j \in 1..Len(consumed)
    BY <1>7, <1>8, <2>1
  <2>2. CASE j = Len(consumed) + 1
    BY <1>4, <1>6, <1>7, <2>2
  <2>3. QED BY <1>4, <1>7, <2>1, <2>2
<1>10. Finished' = Finished
  <2>1. Finished' = Len(consumed') - 1
    BY <1>1 DEF Finished
  <2>2. QED BY <1>4, <1>5, <1>7, <2>1
<1>11. InOrder'
  BY <1>1, <1>3, <1>9, <1>10 DEF Consumption, InOrder, Inline, Ids
<1>12. ByTask'
  BY <1>1, <1>3 DEF ByTask, Inline
<1>13. Consumption'
  BY <1>7, <1>11, <1>12 DEF Consumption, Ids
<1>14. \A j \in 1..Len(consumed) : consumed[j] # i
  BY <1>4, <1>6, <1>8
<1>15. QED BY <1>2, <1>3, <1>6, <1>13, <1>14 DEF i

\* A forked consumer is called, with an element that was not consumed yet.
LEMMA ConsumptionForked ==
  ASSUME TypeOK, Held, EndStage, Consumption, NEW n \in DOMAIN internal, ConsumeForked(n)
  PROVE  /\ Consumption'
         /\ ~Inline /\ internal[n].id \in Ids /\ n \in 1..Len(internal) /\ Len(internal) \in Nat
         /\ \A j \in 1..Len(consumed) : consumed[j] # internal[n].id
<1> DEFINE i == internal[n].id
<1>1. DOMAIN internal = 1..Len(internal) /\ Len(internal) \in Nat
  BY LenProperties DEF TypeOK, TasksOK, IsSeq
<1>2. i \in Ids
  BY <1>1 DEF TypeOK, TasksOK
<1>3. /\ fork[Stages][i] = "running" /\ fork' = [fork EXCEPT ![Stages][i] = "done"]
      /\ consumed' = Append(consumed, i) /\ parallelism' = parallelism /\ queue' = queue
  BY DEF ConsumeForked, Forked, Consume
<1>4. ~Inline
  <2>1. Len(internal) # 0
    BY <1>1
  <2>2. QED BY <2>1 DEF EndStage
<1> HIDE DEF i
<1>5. /\ fork'[Stages][i] = "done"
      /\ \A j \in Ids : j # i => fork'[Stages][j] = fork[Stages][j]
  BY <1>2, <1>3, StageNumbers, AtFork
<1>6. /\ \A x, y \in 1..Len(consumed) : x # y => consumed[x] # consumed[y]
      /\ \A x \in Ids : fork[Stages][x] = "done" <=> \E j \in 1..Len(consumed) : consumed[j] = x
  BY <1>4 DEF Consumption, ByTask
<1>7. \A j \in 1..Len(consumed) : consumed[j] # i
  BY <1>2, <1>3, <1>6
<1>8. /\ consumed' \in Seq(Ids) /\ Len(consumed) \in Nat /\ Len(consumed') = Len(consumed) + 1
      /\ consumed'[Len(consumed) + 1] = i
      /\ \A j \in 1..Len(consumed) : consumed'[j] = consumed[j]
  BY <1>2, <1>3, AppendProperties, LenProperties DEF Consumption
<1>9. \A j \in 1..Len(consumed') : j \in 1..Len(consumed) \/ j = Len(consumed) + 1
  BY <1>8
<1>10. Len(consumed) + 1 \in 1..Len(consumed') /\ \A j \in 1..Len(consumed) : j \in 1..Len(consumed')
  BY <1>8
<1>11. \A x, y \in 1..Len(consumed') : x # y => consumed'[x] # consumed'[y]
  BY <1>6, <1>7, <1>8, <1>9
<1>12. ASSUME NEW x \in Ids
       PROVE  fork'[Stages][x] = "done" <=> \E j \in 1..Len(consumed') : consumed'[j] = x
  <2>1. CASE x = i
    BY <1>5, <1>8, <1>10, <2>1
  <2>2. CASE x # i
    <3>1. fork'[Stages][x] = "done" <=> \E j \in 1..Len(consumed) : consumed[j] = x
      BY <1>5, <1>6, <2>2
    <3>2. ASSUME NEW j \in 1..Len(consumed'), consumed'[j] = x
          PROVE  \E l \in 1..Len(consumed) : consumed[l] = x
      BY <1>8, <1>9, <2>2, <3>2
    <3>3. ASSUME NEW j \in 1..Len(consumed), consumed[j] = x
          PROVE  \E l \in 1..Len(consumed') : consumed'[l] = x
      BY <1>8, <1>10, <3>3
    <3>4. QED BY <3>1, <3>2, <3>3
  <2>3. QED BY <2>1, <2>2
<1>13. InOrder' /\ ByTask'
  BY <1>3, <1>4, <1>11, <1>12 DEF InOrder, ByTask, Inline, Ids
<1>14. Consumption'
  BY <1>8, <1>13 DEF Consumption, Ids
<1>15. QED BY <1>1, <1>2, <1>4, <1>7, <1>14 DEF i

\* The consumer and what is still to come: the steps.
LEMMA ConsumptionKept ==
  ASSUME TypeOK, Held, EndStage, NEW taken \in Tally, Positions(taken), Consumption, [Next]_vars
  PROVE  Consumption'
<1> USE StageNumbers
<1>0. \A k \in 1..Stages : k \in 0..Stages /\ k # 0
  BY FifoAssumption
<1>1. CASE UNCHANGED vars
  BY <1>1, ConsumptionStays DEF vars
<1>2. ASSUME NEW k \in 1..Stages, Construct(k) PROVE Consumption'
  <2>1. /\ pc[k] = "unborn" /\ \A j \in 1..Stages : pc'[j] = IF j = k THEN "pull" ELSE pc[j]
        /\ UNCHANGED <<consumed, parallelism, queue, fork>>
    BY <1>0, <1>2 DEF Construct, TypeOK, PlacesOK
  <2>2. pc'[Stages] = "release" <=> pc[Stages] = "release"
    BY <2>1
  <2>3. QED BY <2>1, <2>2, ConsumptionStays
<1>3. CASE DriverPush
  <2>1. QueuePush(1, Elem(next, next)) /\ UNCHANGED <<consumed, parallelism, fork, pc>>
    BY <1>3 DEF DriverPush
  <2>2. queue'[Stages] = queue[Stages]
    BY <2>1 DEF QueuePush, TypeOK, QueuesOK
  <2>3. QED BY <2>1, <2>2, ConsumptionStays
<1>4. CASE DriverClose \/ DriverJoin
  <2>1. UNCHANGED <<consumed, parallelism, queue, fork>> /\ pc'[Stages] = pc[Stages]
    BY <1>0, <1>4, AtGoto DEF DriverClose, DriverJoin
  <2>2. QED BY <2>1, ConsumptionStays
<1>5. ASSUME NEW k \in 1..Stages, \/ Pull(k) \/ Await(k)
                                  \/ k \in Processing /\ Close(k)
                                  \/ k = Stages /\ (EndOfInput \/ FlushDone)
      PROVE Consumption'
  <2>1. UNCHANGED <<consumed, parallelism, queue, fork>> /\ pc[k] \in {"pull", "await", "flush"}
    BY <1>5 DEF Pull, Await, Close, EndOfInput, FlushDone
  <2>2. PICK l : Goto(k, l) /\ l # "release"
    BY <1>5 DEF Pull, Await, Close, EndOfInput, FlushDone
  <2>3. pc'[k] = l /\ \A j \in 1..Stages : j # k => pc'[j] = pc[j]
    BY <1>0, <2>2, AtGoto
  <2>4. pc'[Stages] = "release" <=> pc[Stages] = "release"
    BY <2>1, <2>2, <2>3
  <2>5. QED BY <2>1, <2>4, ConsumptionStays
<1>6. ASSUME NEW k \in Processing, Release(k) PROVE Consumption'
  <2>1. /\ UNCHANGED <<consumed, parallelism, fork>> /\ Goto(k, "pull")
        /\ queue' = [queue EXCEPT ![k] = Tail(@)] /\ k \in 1..Stages /\ k # Stages
    BY <1>6 DEF Release
  <2>2. pc'[Stages] = pc[Stages]
    BY <1>0, <2>1, AtGoto
  <2>3. queue'[Stages] = queue[Stages]
    BY <2>1 DEF TypeOK, QueuesOK
  <2>4. QED BY <2>1, <2>2, <2>3, ConsumptionStays
<1>7. ASSUME NEW k \in Processing, Push(k), k # Stages - 1 PROVE Consumption'
  <2>1. /\ UNCHANGED <<consumed, parallelism>> /\ Goto(k, "release")
        /\ Fork(k, Head(queue[k]).id) /\ QueuePush(k + 1, Elem(Head(queue[k]).id, data[k]))
    BY <1>7 DEF Push
  <2>2. k \in 1..Stages /\ k # Stages /\ k + 1 \in 1..Stages /\ k + 1 # Stages /\ Stages - 1 \in 1..Stages
    BY <1>7
  <2>3. pc'[Stages] = pc[Stages]
    BY <1>0, <2>1, <2>2, AtGoto
  <2>4. queue'[Stages] = queue[Stages]
    BY <2>1, <2>2 DEF QueuePush, TypeOK, QueuesOK
  <2>5. fork'[Stages - 1] = fork[Stages - 1] /\ fork'[Stages] = fork[Stages]
    BY <1>7, <2>1, <2>2 DEF Fork, TypeOK, TasksOK
  <2>6. QED BY <2>1, <2>3, <2>4, <2>5, ConsumptionStays
<1>8. ASSUME NEW k \in Processing, NEW i \in Ids, TaskDone(k, i) PROVE Consumption'
  <2>1. /\ UNCHANGED <<consumed, parallelism, queue, pc>> /\ fork[k][i] = "running"
        /\ fork' = [fork EXCEPT ![k][i] = "done"]
    BY <1>8 DEF TaskDone, Forked
  <2>2. k \in 1..Stages /\ k # Stages /\ Stages - 1 \in 1..Stages
    OBVIOUS
  <2>3. fork'[Stages] = fork[Stages]
    BY <2>1, <2>2 DEF TypeOK, TasksOK
  <2>4. \A n \in Ids : fork'[Stages - 1][n] # "none" <=> fork[Stages - 1][n] # "none"
    <3>1. fork'[k][i] = "done" /\ \A n \in Ids : n # i => fork'[k][n] = fork[k][n]
      BY <2>1, <2>2, AtFork
    <3>2. CASE k = Stages - 1
      BY <2>1, <3>1, <3>2
    <3>3. CASE k # Stages - 1
      <4>1. fork'[Stages - 1] = fork[Stages - 1]
        BY <2>1, <2>2, <3>3 DEF TypeOK, TasksOK
      <4>2. QED BY <4>1
    <3>4. QED BY <3>2, <3>3
  <2>5. QED BY <2>1, <2>3, <2>4, ConsumptionStays
<1>9. CASE PushInternal
  <2> DEFINE i == Head(queue[Stages]).id
  <2>1. /\ UNCHANGED <<consumed, parallelism, queue>> /\ pc[Stages] = "pushInternal"
        /\ fork' = [fork EXCEPT ![Stages][i] = "running"]
    BY <1>9 DEF PushInternal, Fork
  <2>2. ~Inline
    BY <2>1 DEF EndStage
  <2>3. i = taken[Stages] /\ i \in Ids /\ i \in Nat
    BY <2>1, HeadIsNext DEF Positions, Holding
  <2>4. fork[Stages][i] = "none"
    <3>1. Passed(taken, Stages) = taken[Stages]
      BY <2>1, Numbers DEF Passed
    <3>2. ~(i < i)
      BY <2>3
    <3>3. QED BY <2>3, <3>1, <3>2 DEF Positions, InEndStage
  <2> HIDE DEF i
  <2>5. /\ fork'[Stages][i] = "running"
        /\ \A n \in Ids : n # i => fork'[Stages][n] = fork[Stages][n]
    <3>1. i \in Ids
      BY <2>3
    <3>2. QED BY <2>1, <3>1 DEF TypeOK, TasksOK
  <2>6. fork'[Stages - 1] = fork[Stages - 1]
    <3>1. Stages - 1 \in 1..Stages /\ Stages - 1 # Stages
      OBVIOUS
    <3>2. QED BY <2>1, <3>1 DEF TypeOK, TasksOK
  <2>7. \A n \in Ids : fork'[Stages][n] = "done" <=> fork[Stages][n] = "done"
    BY <2>4, <2>5
  <2>8. QED BY <2>1, <2>2, <2>6, <2>7, ConsumptionStays
<1>10. CASE DrainOne
  <2>1. UNCHANGED <<consumed, parallelism, queue, fork>> /\ ~Inline
    BY <1>10 DEF DrainOne, EndStage
  <2>2. QED BY <2>1, ConsumptionStays
<1>11. CASE Flush
  BY <1>11, ConsumptionStays DEF Flush
<1>12. ASSUME NEW k \in 1..Stages, Release(k) PROVE Consumption'
  BY <1>6, <1>12, ConsumptionRelease
<1>13. ASSUME NEW k \in Processing, Push(k) PROVE Consumption'
  BY <1>7, <1>13, ConsumptionPush
<1>14. CASE ConsumeInline
  BY <1>14, ConsumptionInline
<1>15. ASSUME NEW n \in DOMAIN internal, ConsumeForked(n) PROVE Consumption'
  BY <1>15, ConsumptionForked
<1>16. QED
  BY <1>1, <1>2, <1>3, <1>4, <1>5, <1>8, <1>9, <1>10, <1>11, <1>12, <1>13, <1>14, <1>15
     DEF Next, DriverStep, StageStep, EndStep, TaskStep, Terminated

\* No stage is ahead of the driver.
LEMMA NothingAhead ==
  ASSUME TypeOK, Held, NEW taken \in Tally, InQueues(taken)
  PROVE  \A k \in 1..Stages : /\ taken[k] + Len(queue[k]) <= next
                              /\ Passed(taken, k) <= next
<1> DEFINE S == {n \in Nat : n + 1 \in 1..Stages => taken[n + 1] + Len(queue[n + 1]) <= next}
<1>1. next \in Nat /\ \A k \in 1..Stages : Len(queue[k]) \in Nat /\ taken[k] \in Nat
  BY Numbers, AtLen DEF TypeOK, QueuesOK
<1>2. ASSUME NEW k \in 1..Stages PROVE Passed(taken, k) <= taken[k] + Len(queue[k])
  <2>1. pc[k] \in {"drainOne", "release"} => Len(queue[k]) # 0
    BY AtLen DEF TypeOK, QueuesOK, Held, Holding
  <2>2. QED BY <1>1, <2>1 DEF Passed
<1>3. 0 \in S
  BY <1>1, StageNumbers DEF InQueues
<1>4. ASSUME NEW n \in Nat, n \in S PROVE n + 1 \in S
  <2> SUFFICES ASSUME n + 2 \in 1..Stages PROVE taken[n + 2] + Len(queue[n + 2]) <= next
    BY FifoAssumption
  <2>1. PICK k \in Processing : k = n + 1 /\ k + 1 = n + 2 /\ k \in 1..Stages
    BY StageNumbers
  <2>2. taken[k + 1] + Len(queue[k + 1]) = Passed(taken, k)
    BY DEF InQueues
  <2>3. taken[k] + Len(queue[k]) <= next /\ Passed(taken, k) <= taken[k] + Len(queue[k])
    BY <1>2, <1>4, <2>1
  <2>4. Passed(taken, k) \in Nat /\ taken[k] + Len(queue[k]) \in Nat
    BY <1>1, <2>1, Numbers
  <2>5. QED BY <1>1, <2>1, <2>2, <2>3, <2>4
<1>5. S = Nat
  <2> HIDE DEF S
  <2>1. S \subseteq Nat
    BY DEF S
  <2>2. QED BY ONLY <1>3, <1>4, <2>1, NatBySteps
<1>6. ASSUME NEW k \in 1..Stages PROVE taken[k] + Len(queue[k]) <= next
  <2>1. PICK n \in Nat : n + 1 = k
    <3>1. k - 1 \in Nat /\ k - 1 + 1 = k
      BY FifoAssumption
    <3>2. QED BY <3>1
  <2>2. n \in S
    BY <1>5
  <2>3. QED BY <2>1, <2>2
<1>7. ASSUME NEW k \in 1..Stages PROVE Passed(taken, k) <= next
  <2>1. Passed(taken, k) \in Nat /\ taken[k] + Len(queue[k]) \in Nat
    BY <1>1, Numbers
  <2>2. QED BY <1>1, <1>2, <1>6, <2>1
<1>8. QED BY <1>6, <1>7

\* When every worker has ended, every stage has taken all the elements.
LEMMA AllTaken ==
  ASSUME TypeOK, Closing, pc[0] = "join", \A k \in 1..Stages : pc[k] = "done",
         NEW taken \in Tally, InQueues(taken)
  PROVE  next = NELEMS /\ \A k \in 1..Stages : taken[k] = NELEMS /\ Passed(taken, k) = NELEMS
<1> DEFINE S == {n \in Nat : n + 1 \in 1..Stages => taken[n + 1] = NELEMS}
<1>1. next = NELEMS /\ NELEMS \in Nat /\ \A k \in 1..Stages : Len(queue[k]) = 0 /\ taken[k] \in Nat
  BY Numbers, EmptyIsSeq DEF Closing
<1>2. \A k \in 1..Stages : Passed(taken, k) = taken[k]
  BY <1>1 DEF Passed
<1>3. 0 \in S
  BY <1>1, StageNumbers DEF InQueues
<1>4. ASSUME NEW n \in Nat, n \in S PROVE n + 1 \in S
  <2> SUFFICES ASSUME n + 2 \in 1..Stages PROVE taken[n + 2] = NELEMS
    BY FifoAssumption
  <2>1. PICK k \in Processing : k = n + 1 /\ k + 1 = n + 2 /\ k \in 1..Stages
    BY StageNumbers
  <2>2. taken[k + 1] + Len(queue[k + 1]) = taken[k]
    BY <1>2, <2>1 DEF InQueues
  <2>3. taken[k] = NELEMS
    BY <1>4, <2>1
  <2>4. Len(queue[k + 1]) = 0 /\ taken[k + 1] \in Nat
    BY <1>1, <2>1
  <2>5. QED BY <2>1, <2>2, <2>3, <2>4
<1>5. S = Nat
  <2> HIDE DEF S
  <2>1. S \subseteq Nat
    BY DEF S
  <2>2. QED BY ONLY <1>3, <1>4, <2>1, NatBySteps
<1>6. ASSUME NEW k \in 1..Stages PROVE taken[k] = NELEMS
  <2>1. PICK n \in Nat : n + 1 = k
    <3>1. k - 1 \in Nat /\ k - 1 + 1 = k
      BY FifoAssumption
    <3>2. QED BY <3>1
  <2>2. n \in S
    BY <1>5
  <2>3. QED BY <2>1, <2>2
<1>7. QED BY <1>1, <1>2, <1>6

\* A sequence without repetition in which each element is found is as long as there are elements.
LEMMA AllCounted ==
  ASSUME consumed \in Seq(Ids),
         \A i \in Ids : \E j \in 1..Len(consumed) : consumed[j] = i,
         \A i, j \in 1..Len(consumed) : i # j => consumed[i] # consumed[j]
  PROVE  Len(consumed) = NELEMS
<1> DEFINE L == Len(consumed)
<1>1. L \in Nat /\ consumed \in [1..L -> Ids]
  BY LenProperties
<1> HIDE DEF L
<1>2. consumed \in Bijection(1..L, Ids)
  BY <1>1 DEF L, Bijection, Injection, Surjection, IsInjective
<1>3. IsFiniteSet(1..L) /\ Cardinality(1..L) = L
  <2>1. 1 \in Int /\ L \in Int
    BY <1>1
  <2>2. IsFiniteSet(1..L) /\ Cardinality(1..L) = IF 1 > L THEN 0 ELSE L - 1 + 1
    BY ONLY <2>1, FS_Interval
  <2>3. QED BY <1>1, <2>2
<1>4. Cardinality(Ids) = NELEMS
  <2>1. 0 \in Int /\ NELEMS - 1 \in Int /\ NELEMS \in Nat
    BY FifoAssumption
  <2>2. Cardinality(0..NELEMS - 1) = IF 0 > NELEMS - 1 THEN 0 ELSE NELEMS - 1 - 0 + 1
    BY ONLY <2>1, FS_Interval
  <2>3. QED BY <2>1, <2>2 DEF Ids
<1>5. Cardinality(Ids) = Cardinality(1..L)
  BY <1>2, <1>3, FS_Bijection DEF ExistsBijection
<1>6. QED BY <1>3, <1>4, <1>5 DEF L

\* When every worker has ended, every element was consumed.
LEMMA AllConsumed ==
  ASSUME IInv, Consumption, pc[0] = "join", \A k \in 1..Stages : pc[k] = "done"
  PROVE  next = NELEMS /\ Len(consumed) = NELEMS
<1>1. TypeOK /\ Held /\ EndStage /\ Closing
  BY DEF IInv, Places
<1>2. PICK taken \in Tally : Positions(taken)
  BY DEF IInv
<1>3. next = NELEMS /\ taken[Stages] = NELEMS /\ Passed(taken, Stages) = NELEMS
  BY <1>1, <1>2, AllTaken, StageNumbers DEF Positions
<1>4. CASE Inline
  <2>1. Finished = taken[Stages] /\ Len(consumed) \in Nat
    BY <1>1, <1>2, <1>4, EndTally
  <2>2. Finished = Len(consumed) - 0
    BY StageNumbers DEF Finished
  <2>3. QED BY <1>3, <2>1, <2>2
<1>5. CASE ~Inline
  <2>1. ASSUME NEW i \in Ids PROVE fork[Stages][i] = "done"
    <3>1. i < NELEMS /\ i \in Nat /\ NELEMS \in Nat
      BY FifoAssumption DEF Ids
    <3>2. Len(internal) = 0
      BY <1>1, StageNumbers DEF EndStage
    <3>3. fork[Stages][i] # "none" /\ (fork[Stages][i] = "running" => NELEMS - 0 <= i)
      BY <1>2, <1>3, <1>5, <3>1, <3>2 DEF Positions, InEndStage
    <3>4. fork[Stages][i] \in {"none", "running", "done"}
      BY <1>1, StageNumbers DEF TypeOK, TasksOK
    <3>5. QED BY <3>1, <3>3, <3>4
  <2>2. /\ consumed \in Seq(Ids)
        /\ \A i, j \in 1..Len(consumed) : i # j => consumed[i] # consumed[j]
        /\ \A i \in Ids : \E j \in 1..Len(consumed) : consumed[j] = i
    BY <1>5, <2>1 DEF Consumption, ByTask
  <2>3. QED BY <1>3, <2>2, AllCounted
<1>6. QED BY <1>4, <1>5

\* At the start nothing was pushed, and nothing consumed.
LEMMA InitiallyNone == Init => Processed /\ Consumption /\ Map!InitOrdered
<1> SUFFICES ASSUME Init PROVE Processed /\ Consumption /\ Map!InitOrdered
  OBVIOUS
<1> USE StageNumbers
<1>1. /\ \A k \in 1..Stages : queue[k] = <<>> /\ pc[k] = "unborn"
      /\ pc[0] = "construct" /\ internal = <<>> /\ next = 0 /\ consumed = <<>> /\ acc = <<0, 0>>
      /\ \A k \in 1..Stages, i \in Ids : fork[k][i] = "none"
      /\ Stages - 1 \in 1..Stages
  BY DEF Init
<1>2. Processed
  <2>1. \A k \in 1..Stages : AllMade(queue[k], Applied(k))
    BY <1>1, EmptyIsSeq DEF AllMade
  <2>2. AllMade(internal, Stages - 1)
    BY <1>1, EmptyIsSeq DEF AllMade
  <2>3. \A k \in 1..Stages : pc[k] \notin Ready
    BY <1>1 DEF Ready
  <2>4. data = [k \in 1..Stages |-> data[k]]
    BY DEF Init
  <2>5. QED BY <2>1, <2>2, <2>3, <2>4 DEF Processed
<1>3. Consumption
  <2>1. consumed \in Seq(Ids)
    BY <1>1
  <2>2. Finished + Len(queue[Stages]) = 0
    BY <1>1, EmptyIsSeq DEF Finished
  <2>3. \A i \in Ids : ~(i < 0)
    BY FifoAssumption DEF Ids
  <2>4. InOrder
    BY <1>1, <2>2, <2>3, EmptyIsSeq, FifoAssumption DEF InOrder
  <2>5. ByTask
    BY <1>1, EmptyIsSeq DEF ByTask
  <2>6. QED BY <2>1, <2>4, <2>5 DEF Consumption
<1>4. Map!InitOrdered
  BY <1>1 DEF Map!InitOrdered, Map!Init, Inline
<1>5. QED BY <1>2, <1>3, <1>4

\* The delivery of an element to the consumer.
LEMMA Delivers ==
  ASSUME NEW i \in Ids, NEW v, Made(i, Stages - 1, v), i < next, consumed \in Seq(Ids),
         \A j \in 1..Len(consumed) : consumed[j] # i, Inline => i = Len(consumed),
         Consume(i, v), next' = next, pc' = pc \/ pc'[0] = pc[0], parallelism' = parallelism
  PROVE  Map!NextOrdered
<1>1. Composed[i] = v
  BY MadeIsThrough DEF Composed
<1>2. i \notin Map!Range(consumed)
  <2>1. DOMAIN consumed = 1..Len(consumed)
    BY LenProperties
  <2>2. QED BY <2>1 DEF Map!Range
<1>3. consumed' = Append(consumed, i) /\ acc' = <<acc[1] + Composed[i], acc[2] + 1>>
  BY <1>1 DEF Consume
<1>4. (pc[0] = "done")' <=> pc[0] = "done"
  OBVIOUS
<1>5. Map!Deliver(i)
  BY <1>2, <1>3, <1>4 DEF Map!Deliver
<1>6. Map!DeliverNext(i)
  BY <1>5 DEF Map!DeliverNext
<1>7. (Inline)' <=> Inline
  BY DEF Inline
<1>8. QED BY <1>6, <1>7 DEF Map!NextOrdered, Ids

\* Every step of the pipeline is one of the map or none.
LEMMA StepsOfTheMap ==
  ASSUME IInv, Processed, Consumption, [Next]_vars
  PROVE  [Map!NextOrdered]_<<Map!mapVars, Inline>>
<1> USE StageNumbers
<1>0. \A k \in 1..Stages : k \in 0..Stages /\ k # 0
  BY FifoAssumption
<1>a. TypeOK /\ Held /\ EndStage /\ Closing
  BY DEF IInv, Places
<1>b. PICK taken \in Tally : Positions(taken)
  BY DEF IInv
<1>c. next \in Nat /\ \A k \in 1..Stages : Passed(taken, k) \in Nat /\ Passed(taken, k) <= next
  BY <1>a, <1>b, NothingAhead, Numbers DEF Positions, TypeOK
<1>d. ASSUME UNCHANGED <<next, consumed, acc, parallelism>>, pc'[0] = "done" <=> pc[0] = "done"
      PROVE  UNCHANGED <<Map!mapVars, Inline>>
  BY <1>d DEF Map!mapVars, Inline
<1>1. CASE UNCHANGED vars
  BY <1>1, <1>d DEF vars
<1>2. ASSUME NEW k \in 1..Stages, Construct(k) PROVE UNCHANGED <<Map!mapVars, Inline>>
  <2>1. UNCHANGED <<next, consumed, acc, parallelism>>
    BY <1>2 DEF Construct
  <2>2. pc'[0] # "done" /\ pc[0] # "done"
    BY <1>0, <1>2, <1>a DEF Construct, TypeOK, PlacesOK
  <2>3. QED BY <1>d, <2>1, <2>2
<1>3. CASE DriverPush
  <2>1. /\ next < NELEMS /\ next' = next + 1
        /\ UNCHANGED <<consumed, acc, pc, parallelism>>
    BY <1>3 DEF DriverPush
  <2>2. Map!Accept
    BY <2>1 DEF Map!Accept
  <2>3. QED BY <2>1, <2>2 DEF Map!NextOrdered, Inline
<1>4. CASE DriverClose
  <2>1. UNCHANGED <<next, consumed, acc, parallelism>>
    BY <1>4 DEF DriverClose
  <2>2. pc'[0] # "done" /\ pc[0] # "done"
    BY <1>4, <1>a, AtGoto DEF DriverClose
  <2>3. QED BY <1>d, <2>1, <2>2
<1>5. CASE DriverJoin
  <2>1. /\ pc[0] = "join" /\ pc'[0] = "done" /\ \A k \in 1..Stages : pc[k] = "done"
        /\ UNCHANGED <<next, consumed, acc, parallelism>>
    BY <1>5, <1>a, AtGoto DEF DriverJoin
  <2>2. next = NELEMS /\ Len(consumed) = NELEMS
    BY <2>1, AllConsumed
  <2>3. Map!Finish
    BY <2>1, <2>2 DEF Map!Finish
  <2>4. QED BY <2>1, <2>3 DEF Map!NextOrdered, Inline
<1>6. ASSUME NEW k \in 1..Stages,
             \/ Pull(k) \/ Await(k) \/ Release(k)
             \/ k \in Processing /\ (Push(k) \/ Close(k))
             \/ k = Stages /\ (PushInternal \/ DrainOne \/ EndOfInput \/ FlushDone)
      PROVE  UNCHANGED <<Map!mapVars, Inline>>
  <2>1. UNCHANGED <<next, consumed, acc, parallelism>>
    BY <1>6 DEF Pull, Await, Release, Push, Close, PushInternal, DrainOne, EndOfInput, FlushDone
  <2>2. \E l : Goto(k, l)
    BY <1>6 DEF Pull, Await, Release, Push, Close, PushInternal, DrainOne, EndOfInput, FlushDone
  <2>3. pc'[0] = pc[0]
    BY <1>0, <1>a, <2>2, AtGoto
  <2>4. QED BY <1>d, <2>1, <2>3
<1>7. ASSUME Flush \/ \E k \in Processing, i \in Ids : TaskDone(k, i)
      PROVE  UNCHANGED <<Map!mapVars, Inline>>
  BY <1>7, <1>d DEF Flush, TaskDone
<1>8. CASE ConsumeInline
  <2> DEFINE i == Head(queue[Stages]).id
             v == data[Stages]
  <2>1. /\ pc[Stages] = "consume" /\ Consume(i, v) /\ Goto(Stages, "release")
        /\ UNCHANGED <<next, parallelism>>
    BY <1>8 DEF ConsumeInline
  <2>2. pc'[0] = pc[0]
    BY <1>0, <1>a, <2>1, AtGoto
  <2>3. /\ i = Len(consumed) /\ i \in Ids /\ i = taken[Stages]
        /\ \A j \in 1..Len(consumed) : consumed[j] # i
    BY <1>8, <1>a, <1>b, ConsumptionInline
  <2>4. Made(i, Stages - 1, v)
    BY <2>1 DEF Processed, Ready
  <2>5. i < next
    <3>1. taken[Stages] + Len(queue[Stages]) <= next
      BY <1>a, <1>b, NothingAhead DEF Positions
    <3>2. Len(queue[Stages]) \in Nat \ {0} /\ taken[Stages] \in Nat
      BY <1>a, <2>1, AtHead, Numbers DEF Holding
    <3>3. QED BY <1>c, <2>3, <3>1, <3>2
  <2>6. consumed \in Seq(Ids)
    BY DEF Consumption
  <2> HIDE DEF i, v
  <2>7. Map!NextOrdered
    BY <2>1, <2>2, <2>3, <2>4, <2>5, <2>6, Delivers
  <2>8. QED BY <2>7
<1>9. ASSUME NEW n \in DOMAIN internal, ConsumeForked(n) PROVE Map!NextOrdered
  <2> DEFINE i == internal[n].id
             v == internal[n].val
  <2>1. Consume(i, v) /\ UNCHANGED <<next, parallelism, pc>>
    BY <1>9 DEF ConsumeForked
  <2>2. /\ ~Inline /\ i \in Ids /\ n \in 1..Len(internal) /\ Len(internal) \in Nat
        /\ \A j \in 1..Len(consumed) : consumed[j] # i
    BY <1>9, <1>a, ConsumptionForked
  <2>3. Made(i, Stages - 1, v)
    BY <2>2 DEF Processed, AllMade
  <2>4. i < next
    <3>1. i = Passed(taken, Stages) - Len(internal) + n - 1
      BY <1>b, <2>2 DEF Positions, InEndStage
    <3>2. Passed(taken, Stages) \in Nat /\ Passed(taken, Stages) <= next
      BY <1>c
    <3> HIDE DEF i
    <3>3. QED BY <1>c, <2>2, <3>1, <3>2
  <2>5. consumed \in Seq(Ids)
    BY DEF Consumption
  <2> HIDE DEF i, v
  <2>6. QED BY <2>1, <2>2, <2>3, <2>4, <2>5, Delivers
<1>10. QED
  BY <1>1, <1>2, <1>3, <1>4, <1>5, <1>6, <1>7, <1>8, <1>9
     DEF Next, DriverStep, StageStep, EndStep, TaskStep, Terminated

(* With an end stage of parallelism 1 "results will appear in the same order *)
(* as the original input"; with any other, each element is consumed once;    *)
(* and in both cases as the functions of all the stages before made it, it   *)
(* is in the sum and the count, and main() is past co_await fg only when all *)
(* of them are. This holds for any number of stages and any parallelisms.    *)
THEOREM KeepsThePromise == Spec => Map!OrderedSpec
<1> DEFINE Inv == IInv /\ Processed /\ Consumption
<1>1. Init => Inv /\ Map!InitOrdered
  BY Initially, InitiallyNone
<1>2. Inv /\ [Next]_vars => Inv'
  <2> SUFFICES ASSUME Inv, [Next]_vars PROVE Inv'
    OBVIOUS
  <2>1. TypeOK /\ Held /\ EndStage
    BY DEF IInv, Places
  <2>2. IInv'
    BY Stepwise
  <2>3. Processed'
    BY <2>1, ProcessedKept
  <2>4. PICK taken \in Tally : Positions(taken)
    BY DEF IInv
  <2>5. Consumption'
    BY <2>1, <2>4, ConsumptionKept
  <2>6. QED BY <2>2, <2>3, <2>5
<1>3. Inv /\ [Next]_vars => [Map!NextOrdered]_<<Map!mapVars, Inline>>
  BY StepsOfTheMap
<1> HIDE DEF Inv
<1>4. QED BY <1>1, <1>2, <1>3, PTL DEF Spec, Map!OrderedSpec

-----------------------------------------------------------------------------
(* No deadlock *)

\* The first n stages are constructed, and main() goes on when all are.
Birth ==
    \E n \in 0..Stages :
        /\ pc[0] = "construct" <=> n < Stages
        /\ \A k \in 1..Stages : pc[k] = "unborn" <=> k > n

\* Stages are constructed one after the other.
LEMMA BirthKept ==
  ASSUME TypeOK, Birth, [Next]_vars
  PROVE  Birth'
<1> USE StageNumbers
<1>0. \A k \in 1..Stages : k \in 0..Stages /\ k # 0
  BY FifoAssumption
<1>1. PICK n \in 0..Stages : /\ pc[0] = "construct" <=> n < Stages
                             /\ \A k \in 1..Stages : pc[k] = "unborn" <=> k > n
  BY DEF Birth
<1>2. ASSUME pc'[0] = "construct" <=> pc[0] = "construct",
             \A k \in 1..Stages : pc'[k] = "unborn" <=> pc[k] = "unborn"
      PROVE  Birth'
  BY <1>1, <1>2 DEF Birth
<1>3. ASSUME NEW k \in 1..Stages, Construct(k) PROVE Birth'
  <2>1. /\ pc[0] = "construct" /\ pc[k] = "unborn" /\ \A j \in 1..k - 1 : pc[j] # "unborn"
        /\ pc'[0] = IF k = Stages THEN "push" ELSE pc[0]
        /\ \A j \in 1..Stages : pc'[j] = IF j = k THEN "pull" ELSE pc[j]
    BY <1>0, <1>3 DEF Construct, TypeOK, PlacesOK
  <2>2. n = k - 1
    <3>1. k > n /\ n \in Nat
      BY <1>1, <2>1
    <3>2. CASE n = k - 1
      BY <3>2
    <3>3. CASE n < k - 1
      <4>1. n + 1 \in 1..k - 1 /\ n + 1 \in 1..Stages /\ n + 1 > n
        BY <3>1, <3>3
      <4>2. QED BY <1>1, <2>1, <4>1
    <3>4. QED BY <3>1, <3>2, <3>3
  <2>3. k \in 0..Stages /\ (pc'[0] = "construct" <=> k < Stages)
    BY <2>1
  <2>4. \A j \in 1..Stages : pc'[j] = "unborn" <=> j > k
    <3> SUFFICES ASSUME NEW j \in 1..Stages PROVE pc'[j] = "unborn" <=> j > k
      OBVIOUS
    <3>1. CASE j = k
      BY <2>1, <3>1
    <3>2. CASE j # k
      <4>1. j > n <=> j > k
        BY <2>2, <3>2
      <4>2. QED BY <1>1, <2>1, <3>2, <4>1
    <3>3. QED BY <3>1, <3>2
  <2>5. QED BY <2>3, <2>4 DEF Birth
<1>4. ASSUME NEW k \in 0..Stages, NEW l, Goto(k, l), pc[k] \notin {"construct", "unborn"},
             l \notin {"construct", "unborn"}
      PROVE  Birth'
  <2>1. pc'[k] = l /\ \A j \in (0..Stages) \ {k} : pc'[j] = pc[j]
    BY <1>4, AtGoto
  <2>2. QED BY <1>0, <1>2, <1>4, <2>1
<1>5. CASE pc' = pc
  BY <1>2, <1>5
<1>6. ASSUME NEW k \in 1..Stages,
             \/ Pull(k) \/ Await(k) \/ Release(k)
             \/ k \in Processing /\ (Push(k) \/ Close(k))
             \/ k = Stages /\ (ConsumeInline \/ PushInternal \/ DrainOne \/ EndOfInput \/ FlushDone)
      PROVE  Birth'
  <2>1. /\ \E l : Goto(k, l) /\ l \notin {"construct", "unborn"}
        /\ pc[k] \notin {"construct", "unborn"}
    BY <1>6 DEF Pull, Await, Release, Push, Close, ConsumeInline, PushInternal, DrainOne,
       EndOfInput, FlushDone
  <2>2. QED BY <1>0, <1>4, <2>1
<1>7. CASE DriverClose \/ DriverJoin
  BY <1>4, <1>7 DEF DriverClose, DriverJoin
<1>8. CASE DriverPush \/ Flush
  BY <1>5, <1>8 DEF DriverPush, Flush
<1>9. ASSUME NEW k \in Processing, NEW i \in Ids, TaskDone(k, i) PROVE Birth'
  BY <1>5, <1>9 DEF TaskDone
<1>10. ASSUME NEW m \in DOMAIN internal, ConsumeForked(m) PROVE Birth'
  BY <1>5, <1>10 DEF ConsumeForked
<1>11. CASE UNCHANGED vars
  BY <1>5, <1>11 DEF vars
<1>12. QED
  BY <1>3, <1>6, <1>7, <1>8, <1>9, <1>10, <1>11
     DEF Next, DriverStep, StageStep, EndStep, TaskStep, Terminated

\* The worker that drains one has something to drain.
Draining == pc[Stages] = "drainOne" => active > 0

\* It has just pushed.
LEMMA DrainingKept ==
  ASSUME TypeOK, EndStage, Draining, [Next]_vars
  PROVE  Draining'
<1> USE StageNumbers
<1>0. active \in Nat /\ \A k \in 1..Stages : k \in 0..Stages /\ k # 0
  BY AtLen, FifoAssumption DEF EndStage, TypeOK, TasksOK
<1>1. CASE pc'[Stages] # "drainOne"
  BY <1>1 DEF Draining
<1>2. CASE PushInternal
  <2>1. active' = active + 1
    BY <1>2 DEF PushInternal
  <2>2. QED BY <1>0, <2>1 DEF Draining
<1>3. CASE pc'[Stages] = pc[Stages] /\ active' = active
  BY <1>3 DEF Draining
<1>4. ASSUME NEW k \in 1..Stages, Construct(k) PROVE Draining'
  <2>1. active' = active /\ pc'[Stages] \in {"pull", pc[Stages]}
    BY <1>0, <1>4 DEF Construct, TypeOK, PlacesOK
  <2>2. QED BY <2>1 DEF Draining
<1>5. CASE DriverPush \/ UNCHANGED vars \/ TaskStep
  BY <1>3, <1>5 DEF DriverPush, vars, TaskStep, TaskDone, ConsumeForked
<1>6. CASE DriverClose \/ DriverJoin
  <2>1. active' = active /\ pc'[Stages] = pc[Stages]
    BY <1>0, <1>6, AtGoto DEF DriverClose, DriverJoin
  <2>2. QED BY <1>3, <2>1
<1>7. ASSUME NEW k \in 1..Stages, StageStep(k) PROVE Draining'
  <2>1. active' = active /\ \E l : Goto(k, l) /\ l # "drainOne"
    BY <1>7 DEF StageStep, Pull, Await, Release, Push, Close
  <2>2. PICK l : Goto(k, l) /\ l # "drainOne"
    BY <2>1
  <2>3. pc'[k] = l /\ \A j \in (0..Stages) \ {k} : pc'[j] = pc[j]
    BY <1>0, <2>2, AtGoto
  <2>4. QED BY <1>0, <1>1, <1>3, <2>1, <2>2, <2>3
<1>8. CASE ConsumeInline \/ DrainOne \/ EndOfInput \/ FlushDone
  <2>1. \E l : Goto(Stages, l) /\ l # "drainOne"
    BY <1>8 DEF ConsumeInline, DrainOne, EndOfInput, FlushDone
  <2>2. QED BY <1>0, <1>1, <2>1, AtGoto
<1>9. CASE Flush
  BY <1>1, <1>9 DEF Flush
<1>10. QED
  BY <1>2, <1>4, <1>5, <1>6, <1>7, <1>8, <1>9 DEF Next, DriverStep, EndStep, Terminated

\* The task that a worker waits for was forked: when no task runs, it is done.
LEMMA AwaitsForked ==
  ASSUME TypeOK, Held, EndStage, NEW taken \in Tally, Positions(taken),
         \A k \in 1..Stages : InFlight(k) = {}
  PROVE  /\ \A k \in 1..Stages : pc[k] = "await" => CanWork(k)
         /\ active > 0 => Forked(Stages, Head(internal).id, "done")
<1> USE StageNumbers
<1>1. ASSUME NEW k \in 1..Stages, NEW i \in Ids, fork[k][i] # "none" PROVE fork[k][i] = "done"
  <2>1. fork[k][i] \in {"none", "running", "done"} /\ i \notin InFlight(k)
    BY DEF TypeOK, TasksOK
  <2>2. QED BY <1>1, <2>1 DEF InFlight, Forked
<1>2. ASSUME NEW k \in 1..Stages, pc[k] = "await", k > 1
      PROVE  Forked(k - 1, Head(queue[k]).id, "done")
  <2>1. PICK j \in Processing : j = k - 1 /\ j + 1 = k /\ j \in 1..Stages
    BY <1>2
  <2>2. Head(queue[k]).id = taken[k] /\ taken[k] \in Ids /\ taken[k] \in Nat /\ Len(queue[k]) \in Nat \ {0}
    BY <1>2, HeadIsNext DEF Positions, Holding
  <2>3. taken[k] < Passed(taken, j)
    <3>1. taken[k] + Len(queue[k]) = Passed(taken, j)
      BY <2>1 DEF Positions, InQueues
    <3>2. QED BY <2>2, <3>1
  <2>4. fork[j][taken[k]] # "none"
    BY <2>1, <2>2, <2>3 DEF Positions, InTasks
  <2>5. QED BY <1>1, <2>1, <2>2, <2>4 DEF Forked
<1>3. ASSUME active > 0 PROVE Forked(Stages, Head(internal).id, "done")
  <2>1. ~Inline /\ Len(internal) > 0 /\ Len(internal) \in Nat
    BY <1>3, AtLen DEF EndStage, TypeOK, TasksOK
  <2>2. Head(internal) = internal[1] /\ 1 \in 1..Len(internal)
    <3>1. IsSeq(internal) /\ internal # <<>>
      BY <2>1, EmptyIsSeq DEF TypeOK, TasksOK
    <3>2. QED BY <2>1, <3>1, AtTail
  <2>3. internal[1].id \in Ids /\ internal[1].id = Passed(taken, Stages) - Len(internal) + 1 - 1
    BY <2>2 DEF Positions, InEndStage, TypeOK, TasksOK
  <2>4. internal[1].id < Passed(taken, Stages)
    BY <2>1, <2>3, Numbers
  <2>5. fork[Stages][internal[1].id] # "none"
    BY <2>1, <2>3, <2>4 DEF Positions, InEndStage
  <2>6. QED BY <1>1, <2>2, <2>3, <2>5 DEF Forked
<1>4. QED BY <1>2, <1>3 DEF CanWork

(* However many stages there are, and however narrow they are, the pipeline *)
(* cannot get stuck: until main() returns, a task runs, or a worker or       *)
(* main() itself has what it waits for.                                      *)
THEOREM NeverStuck == Spec => []SomebodyGoesOn
<1> USE StageNumbers
<1>1. Init => Birth /\ Draining
  <2> SUFFICES ASSUME Init PROVE Birth /\ Draining
    OBVIOUS
  <2>1. pc[0] = "construct" /\ \A k \in 1..Stages : pc[k] = "unborn" /\ k > 0
    BY DEF Init
  <2>2. QED BY <2>1 DEF Birth, Draining
<1>2. IInv /\ Birth /\ Draining /\ [Next]_vars => Birth' /\ Draining'
  BY BirthKept, DrainingKept DEF IInv, Places
<1>3. IInv /\ Birth /\ Draining => SomebodyGoesOn
  <2> SUFFICES ASSUME IInv, Birth, Draining, pc[0] # "done", ~CanDrive,
                      \A k \in 1..Stages : ~CanWork(k) /\ InFlight(k) = {}
               PROVE  FALSE
    BY DEF SomebodyGoesOn
  <2>1. TypeOK /\ Held /\ Bounded /\ EndStage /\ Closing
    BY DEF IInv, Places
  <2>2. PICK taken \in Tally : Positions(taken)
    BY DEF IInv
  <2>3. pc[0] # "construct" /\ \A k \in 1..Stages : pc[k] # "unborn"
    <3>1. PICK n \in 0..Stages : /\ pc[0] = "construct" <=> n < Stages
                                 /\ \A k \in 1..Stages : pc[k] = "unborn" <=> k > n
      BY DEF Birth
    <3>2. CASE n < Stages
      BY <3>1, <3>2 DEF CanDrive
    <3>3. CASE n = Stages
      BY <3>1, <3>3
    <3>4. QED BY <3>2, <3>3
  <2>4. \A k \in 1..Stages : pc[k] # "await"
    BY <2>1, <2>2, AwaitsForked
  <2>5. active > 0 => Forked(Stages, Head(internal).id, "done")
    BY <2>1, <2>2, AwaitsForked
  <2>6. ASSUME NEW k \in 1..Stages
        PROVE  /\ pc[k] = "pull" => queue[k] = <<>> /\ ~closed[k]
               /\ pc[k] = "done" => queue[k] = <<>>
               /\ pc[k] = "push" => ~(Len(queue[k + 1]) < Capacity(k + 1))
               /\ pc[k] \notin {"unborn", "await", "consume", "release"}
    BY <2>1, <2>3, <2>4 DEF CanWork, Closing
  <2>7. ASSUME NEW k \in 1..Stages PROVE Capacity(k) > 0
    <3>1. parallelism[IF k = 1 THEN 1 ELSE k - 1] \in Nat \ {0}
      BY <2>1 DEF TypeOK
    <3>2. QED BY <3>1 DEF Capacity
  <2>8. pc[Stages] \in {"pull", "done"}
    <3>1. pc[Stages] \in EndPC
      BY <2>1 DEF TypeOK, PlacesOK
    <3>2. active \in Nat
      BY <2>1, AtLen DEF EndStage, TypeOK, TasksOK
    <3>3. pc[Stages] # "flush"
      BY <2>5, <3>2 DEF CanWork
    <3>4. pc[Stages] # "drainOne"
      <4> SUFFICES ASSUME pc[Stages] = "drainOne" PROVE FALSE
        OBVIOUS
      <4>1. active = 0
        BY <2>5, <3>2 DEF CanWork
      <4>2. QED BY <4>1 DEF Draining
    <3>5. pc[Stages] # "pushInternal"
      <4> SUFFICES ASSUME pc[Stages] = "pushInternal" PROVE FALSE
        OBVIOUS
      <4>1. active < parallelism[Stages] /\ active = Len(internal)
        BY <2>1 DEF EndStage
      <4>2. QED BY <4>1 DEF CanWork
    <3>6. QED BY <2>6, <3>1, <3>3, <3>4, <3>5 DEF EndPC
  <2> DEFINE S == {n \in Nat : Stages - n \in 1..Stages => pc[Stages - n] \in {"pull", "done"}}
             T == {n \in Nat : n + 1 \in 1..Stages => pc[n + 1] = "done"}
  <2>9. S = Nat
    <3>1. 0 \in S
      BY <2>8
    <3>2. ASSUME NEW n \in Nat, n \in S PROVE n + 1 \in S
      <4> SUFFICES ASSUME Stages - (n + 1) \in 1..Stages
                   PROVE  pc[Stages - (n + 1)] \in {"pull", "done"}
        OBVIOUS
      <4>1. PICK k \in Processing : k = Stages - (n + 1) /\ k + 1 = Stages - n
        BY FifoAssumption
      <4>2. k \in 1..Stages /\ k + 1 \in 1..Stages /\ pc[k] \in StagePC
        BY <2>1, <4>1 DEF TypeOK, PlacesOK
      <4>3. pc[k + 1] \in {"pull", "done"}
        BY <3>2, <4>1, <4>2
      <4>4. queue[k + 1] = <<>>
        BY <2>6, <4>2, <4>3
      <4>5. pc[k] # "push"
        BY <2>6, <2>7, <4>2, <4>4, EmptyIsSeq
      <4>6. QED BY <2>6, <4>1, <4>2, <4>5 DEF StagePC
    <3> HIDE DEF S
    <3>3. S \subseteq Nat
      BY DEF S
    <3>4. QED BY ONLY <3>1, <3>2, <3>3, NatBySteps
  <2>10. ASSUME NEW k \in 1..Stages PROVE pc[k] \in {"pull", "done"} /\ queue[k] = <<>>
    <3>1. PICK n \in Nat : Stages - n = k
      <4>1. Stages - k \in Nat /\ Stages - (Stages - k) = k
        BY FifoAssumption
      <4>2. QED BY <4>1
    <3>2. n \in S
      BY <2>9
    <3>3. pc[k] \in {"pull", "done"}
      BY <3>1, <3>2
    <3>4. QED BY <2>6, <3>3
  <2> HIDE DEF S
  <2>11. pc[0] = "join" /\ closed[1]
    <3>1. pc[0] \in DriverPC
      BY <2>1 DEF TypeOK, PlacesOK
    <3>2. pc[0] # "push"
      <4>1. Len(queue[1]) < Capacity(1)
        BY <2>7, <2>10, EmptyIsSeq
      <4>2. QED BY <4>1 DEF CanDrive
    <3>3. QED BY <2>1, <2>3, <3>1, <3>2 DEF DriverPC, Closing
  <2>12. T = Nat
    <3>1. 0 \in T
      BY <2>6, <2>10, <2>11
    <3>2. ASSUME NEW n \in Nat, n \in T PROVE n + 1 \in T
      <4> SUFFICES ASSUME n + 2 \in 1..Stages PROVE pc[n + 2] = "done"
        OBVIOUS
      <4>1. PICK k \in Processing : k = n + 1 /\ k + 1 = n + 2
        BY FifoAssumption
      <4>2. k \in 1..Stages /\ k + 1 \in 1..Stages
        BY <4>1
      <4>3. closed[k + 1]
        BY <2>1, <3>2, <4>1, <4>2 DEF Closing
      <4>4. pc[k + 1] = "done"
        BY <2>6, <2>10, <4>2, <4>3
      <4>5. QED BY <4>1, <4>4
    <3> HIDE DEF T
    <3>3. T \subseteq Nat
      BY DEF T
    <3>4. QED BY ONLY <3>1, <3>2, <3>3, NatBySteps
  <2>13. ASSUME NEW k \in 1..Stages PROVE pc[k] = "done"
    <3>1. PICK n \in Nat : n + 1 = k
      <4>1. k - 1 \in Nat /\ k - 1 + 1 = k
        BY FifoAssumption
      <4>2. QED BY <4>1
    <3>2. n \in T
      BY <2>12
    <3>3. QED BY <3>1, <3>2
  <2>14. QED BY <2>11, <2>13 DEF CanDrive
<1>4. QED BY <1>1, <1>2, <1>3, Invariance, PTL DEF Spec
=============================================================================
