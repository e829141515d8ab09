--------------------------- MODULE PipelineProofs ---------------------------
(***************************************************************************)
(* Theorems about Pipeline for any number of elements, stages and workers, *)
(* whatever the functions are.                                             *)
(***************************************************************************)
EXTENDS Pipeline, FiniteSetTheorems, SumTheorems, TLAPS

USE StagesAssumption

(* What Stage returns: the driver is the producer of the first channel. *)
LEMMA StageType ==
  /\ Stage(Driver) = 0
  /\ \A w \in Workers : Stage(w) = StageOf[w] /\ Stage(w) \in 1..Stages /\ w # Driver
  /\ \A k \in 1..Stages : WorkersOf(k) = {w \in Workers : Stage(w) = k}
  BY DEF Stage, WorkersOf

\* The number of workers of a stage.
LEMMA CountType ==
  /\ workerCount \in [1..Stages -> Nat]
  /\ \A k \in 1..Stages : workerCount[k] = Cardinality(WorkersOf(k))
<1>1. ASSUME NEW k \in 1..Stages PROVE Cardinality(WorkersOf(k)) \in Nat
  <2>1. WorkersOf(k) \in SUBSET Workers
    BY DEF WorkersOf
  <2>2. IsFiniteSet(WorkersOf(k))
    BY <2>1, FS_Subset
  <2>3. QED BY <2>2, FS_CardinalityType
<1>2. QED BY <1>1 DEF workerCount

(* What is posted to channel k has the type of channel k. *)
LEMMA PostedTyped ==
  ASSUME TypeOK
  PROVE  /\ pc[Driver] = "post" => held[Driver] \in Element(1)
         /\ \A w \in Workers : pc[w] = "post" =>
                Elem(held[w].id, Func(Stage(w), held[w].val)) \in Element(Stage(w) + 1)
<1>1. ASSUME NEW w \in Workers, pc[w] = "post"
      PROVE  Elem(held[w].id, Func(Stage(w), held[w].val)) \in Element(Stage(w) + 1)
  <2>1. held[w] \in Element(Stage(w))
    BY <1>1 DEF TypeOK, HandsOK
  <2>5. Stage(w) \in 1..Stages /\ Stage(w) < Stages
    BY <1>1, StageType DEF TypeOK, PlacesOK
  <2>6. Stage(w) \in 1..Stages - 1
    BY <2>5
  <2>2. held[w].id \in 0..NELEMS - 1 /\ held[w].val \in ChanType[Stage(w)]
    BY <2>1 DEF Element
  <2>3. Func(Stage(w), held[w].val) \in ChanType[Stage(w) + 1]
    BY <2>6, <2>2, FuncAssumption
  <2>4. QED BY <2>2, <2>3 DEF Elem, Element
<1>2. QED BY <1>1 DEF TypeOK, HandsOK

\* post() keeps the types of the channels.
LEMMA ChanPostTyped ==
  ASSUME ChannelsOK, NEW k \in 1..Stages, NEW m \in Element(k), ChanPost(k, m)
  PROVE  /\ chan' = [j \in 1..Stages |-> chan'[j]]
         /\ \A j \in 1..Stages : chan'[j] \in Seq(Element(j))
<1>1. Append(chan[k], m) \in Seq(Element(k))
  BY DEF ChannelsOK
<1>2. QED BY <1>1 DEF ChannelsOK, ChanPost

\* Every step keeps the type of the places.
LEMMA PlacesTyped == TypeOK /\ [Next]_vars => PlacesOK'
<1> SUFFICES ASSUME TypeOK, [Next]_vars PROVE PlacesOK'
  OBVIOUS
<1> USE StageType DEF TypeOK, PlacesOK, Goto, Actors, DriverPC, WorkerPC
<1>1. CASE Construct
  BY <1>1 DEF Construct
<1>2. CASE DriverAcquire
  BY <1>2 DEF DriverAcquire
<1>3. CASE DriverPost
  BY <1>3 DEF DriverPost
<1>4. CASE DriverClose \/ DriverDrained \/ DriverJoin
  BY <1>4 DEF DriverClose, DriverDrained, DriverJoin
<1>5. ASSUME NEW w \in Workers, Pull(w) PROVE PlacesOK'
  BY <1>5 DEF Pull
<1>6. ASSUME NEW w \in Workers, PullClosed(w) PROVE PlacesOK'
  BY <1>6 DEF PullClosed
<1>7. ASSUME NEW w \in Workers, Release(w) PROVE PlacesOK'
  BY <1>7 DEF Release
<1>8. ASSUME NEW w \in Workers, Acquire(w) PROVE PlacesOK'
  BY <1>8 DEF Acquire
<1>9. ASSUME NEW w \in Workers, ProcessAndPost(w) PROVE PlacesOK'
  BY <1>9 DEF ProcessAndPost
<1>10. ASSUME NEW w \in Workers, ConsumeLoad(w) PROVE PlacesOK'
  BY <1>10 DEF ConsumeLoad
<1>11. ASSUME NEW w \in Workers, ConsumeStore(w) PROVE PlacesOK'
  BY <1>11 DEF ConsumeStore
<1>12. ASSUME NEW k \in 1..Stages - 1, DrainerStep(k) PROVE PlacesOK'
  BY <1>12 DEF DrainerStep, DrainerClose, DrainerDone
<1>13. CASE UNCHANGED vars
  BY <1>13 DEF vars
<1>14. QED
  BY <1>1, <1>2, <1>3, <1>4, <1>5, <1>6, <1>7, <1>8, <1>9, <1>10, <1>11, <1>12, <1>13
  DEF Next, DriverStep, WorkerStep, Terminated

\* Every step keeps the type of the channels.
LEMMA ChannelsTyped == TypeOK /\ [Next]_vars => ChannelsOK'
<1> SUFFICES ASSUME TypeOK, [Next]_vars PROVE ChannelsOK'
  OBVIOUS
<1> USE StageType DEF TypeOK, ChannelsOK, ChanPost, SemAcquire, SemRelease
<1>1. CASE Construct
  <2>1. built + 1 \in 1..Stages /\ workerCount[built + 1] \in Nat
    BY <1>1, CountType DEF Construct, PlacesOK
  <2>2. QED BY <1>1, <2>1 DEF Construct
<1>2. CASE DriverAcquire
  BY <1>2 DEF DriverAcquire
<1>3. CASE DriverPost
  <2>1. held[Driver] \in Element(1) /\ ChanPost(1, held[Driver])
    BY <1>3, PostedTyped DEF DriverPost
  <2>2. ChannelsOK /\ 1 \in 1..Stages
    OBVIOUS
  <2>3. QED BY <1>3, <2>1, <2>2, ChanPostTyped DEF DriverPost
<1>4. CASE DriverClose \/ DriverDrained \/ DriverJoin
  BY <1>4 DEF DriverClose, DriverDrained, DriverJoin
<1>5. ASSUME NEW w \in Workers, Pull(w) PROVE ChannelsOK'
  <2>1. Tail(chan[Stage(w)]) \in Seq(Element(Stage(w)))
    BY <1>5 DEF Pull
  <2>2. QED BY <1>5, <2>1 DEF Pull
<1>6. ASSUME NEW w \in Workers, PullClosed(w) PROVE ChannelsOK'
  BY <1>6 DEF PullClosed
<1>7. ASSUME NEW w \in Workers, Release(w) PROVE ChannelsOK'
  BY <1>7 DEF Release
<1>8. ASSUME NEW w \in Workers, Acquire(w) PROVE ChannelsOK'
  <2>1. Stage(w) \in 1..Stages /\ Stage(w) < Stages
    BY <1>8 DEF Acquire, PlacesOK
  <2>2. QED BY <1>8, <2>1 DEF Acquire
<1>9. ASSUME NEW w \in Workers, ProcessAndPost(w) PROVE ChannelsOK'
  <2> DEFINE m == Elem(held[w].id, Func(Stage(w), held[w].val))
  <2>5. pc[w] = "post" /\ ChanPost(Stage(w) + 1, m)
    BY <1>9 DEF ProcessAndPost
  <2>1. m \in Element(Stage(w) + 1)
    BY <2>5, PostedTyped
  <2>2. ChannelsOK
    OBVIOUS
  <2>4. Stage(w) + 1 \in 1..Stages
    <3>1. Stage(w) \in 1..Stages /\ Stage(w) < Stages
      BY <1>9 DEF ProcessAndPost, PlacesOK
    <3>2. QED BY <3>1
  <2>3. QED BY <1>9, <2>1, <2>2, <2>4, <2>5, ChanPostTyped DEF ProcessAndPost
<1>10. ASSUME NEW w \in Workers, ConsumeLoad(w) PROVE ChannelsOK'
  BY <1>10 DEF ConsumeLoad
<1>11. ASSUME NEW w \in Workers, ConsumeStore(w) PROVE ChannelsOK'
  BY <1>11 DEF ConsumeStore
<1>12. ASSUME NEW k \in 1..Stages - 1, DrainerStep(k) PROVE ChannelsOK'
  BY <1>12 DEF DrainerStep, DrainerClose, DrainerDone
<1>13. CASE UNCHANGED vars
  BY <1>13 DEF vars
<1>14. QED
  BY <1>1, <1>2, <1>3, <1>4, <1>5, <1>6, <1>7, <1>8, <1>9, <1>10, <1>11, <1>12, <1>13
  DEF Next, DriverStep, WorkerStep, Terminated

\* Every step keeps the type of what workers hold.
LEMMA HandsTyped == TypeOK /\ [Next]_vars => HandsOK'
<1> SUFFICES ASSUME TypeOK, [Next]_vars PROVE HandsOK'
  OBVIOUS
<1> USE StageType DEF TypeOK, HandsOK, PlacesOK, Goto, Actors
<1>1. CASE Construct
  BY <1>1 DEF Construct
<1>2. CASE DriverAcquire
  <2>1. next \in 0..NELEMS - 1
    BY <1>2 DEF DriverAcquire, TotalsOK
  <2>2. Elem(next, next) \in Element(1)
    BY <2>1, FuncAssumption DEF Elem, Element
  <2>3. QED BY <1>2, <2>2 DEF DriverAcquire
<1>3. CASE DriverPost
  BY <1>3 DEF DriverPost
<1>4. CASE DriverClose \/ DriverDrained \/ DriverJoin
  BY <1>4 DEF DriverClose, DriverDrained, DriverJoin
<1>5. ASSUME NEW w \in Workers, Pull(w) PROVE HandsOK'
  <2>1. Head(chan[Stage(w)]) \in Element(Stage(w))
    BY <1>5 DEF Pull, ChannelsOK
  <2>2. QED BY <1>5, <2>1 DEF Pull
<1>6. ASSUME NEW w \in Workers, PullClosed(w) PROVE HandsOK'
  BY <1>6 DEF PullClosed
<1>7. ASSUME NEW w \in Workers, Release(w) PROVE HandsOK'
  BY <1>7 DEF Release
<1>8. ASSUME NEW w \in Workers, Acquire(w) PROVE HandsOK'
  BY <1>8 DEF Acquire
<1>9. ASSUME NEW w \in Workers, ProcessAndPost(w) PROVE HandsOK'
  <2>1. /\ held' = [held EXCEPT ![w] = Nothing] /\ pc' = [pc EXCEPT ![w] = "pull"]
        /\ loaded' = loaded
    BY <1>9 DEF ProcessAndPost
  <2>2. QED BY <2>1
<1>10. ASSUME NEW w \in Workers, ConsumeLoad(w) PROVE HandsOK'
  <2>1. held[w].val \in Int
    BY <1>10, FuncAssumption DEF ConsumeLoad, Element
  <2>2. <<acc[1] + held[w].val, acc[2] + 1>> \in Int \X Nat
    <3>1. acc[1] \in Int /\ acc[2] \in Nat
      BY DEF TotalsOK
    <3>2. acc[1] + held[w].val \in Int /\ acc[2] + 1 \in Nat
      BY ONLY <2>1, <3>1
    <3>3. QED BY ONLY <3>2
  <2>3. QED BY <1>10, <2>2 DEF ConsumeLoad
<1>11. ASSUME NEW w \in Workers, ConsumeStore(w) PROVE HandsOK'
  BY <1>11 DEF ConsumeStore
<1>12. ASSUME NEW k \in 1..Stages - 1, DrainerStep(k) PROVE HandsOK'
  BY <1>12 DEF DrainerStep, DrainerClose, DrainerDone
<1>13. CASE UNCHANGED vars
  BY <1>13 DEF vars
<1>14. QED
  BY <1>1, <1>2, <1>3, <1>4, <1>5, <1>6, <1>7, <1>8, <1>9, <1>10, <1>11, <1>12, <1>13
  DEF Next, DriverStep, WorkerStep, Terminated

\* Every step keeps the types of the driver's variables.
LEMMA TotalsTyped == TypeOK /\ [Next]_vars => TotalsOK'
<1> SUFFICES ASSUME TypeOK, [Next]_vars PROVE TotalsOK'
  OBVIOUS
<1> USE StageType DEF TypeOK, TotalsOK, PlacesOK, Goto, Actors
<1>1. CASE Construct
  BY <1>1 DEF Construct
<1>2. CASE DriverAcquire
  BY <1>2 DEF DriverAcquire
<1>3. CASE DriverPost
  BY <1>3 DEF DriverPost
<1>4. CASE DriverClose \/ DriverDrained \/ DriverJoin
  BY <1>4 DEF DriverClose, DriverDrained, DriverJoin
<1>5. ASSUME NEW w \in Workers, Pull(w) PROVE TotalsOK'
  BY <1>5 DEF Pull
<1>6. ASSUME NEW w \in Workers, PullClosed(w) PROVE TotalsOK'
  BY <1>6 DEF PullClosed
<1>7. ASSUME NEW w \in Workers, Release(w) PROVE TotalsOK'
  BY <1>7 DEF Release
<1>8. ASSUME NEW w \in Workers, Acquire(w) PROVE TotalsOK'
  BY <1>8 DEF Acquire
<1>9. ASSUME NEW w \in Workers, ProcessAndPost(w) PROVE TotalsOK'
  BY <1>9 DEF ProcessAndPost
<1>10. ASSUME NEW w \in Workers, ConsumeLoad(w) PROVE TotalsOK'
  BY <1>10 DEF ConsumeLoad
<1>11. ASSUME NEW w \in Workers, ConsumeStore(w) PROVE TotalsOK'
  <2>1. held[w].id \in 0..NELEMS - 1 /\ loaded[w] \in Int \X Nat
    BY <1>11 DEF ConsumeStore, HandsOK, Element
  <2>2. QED BY <1>11, <2>1 DEF ConsumeStore
<1>12. ASSUME NEW k \in 1..Stages - 1, DrainerStep(k) PROVE TotalsOK'
  BY <1>12 DEF DrainerStep, DrainerClose, DrainerDone
<1>13. CASE UNCHANGED vars
  BY <1>13 DEF vars
<1>14. QED
  BY <1>1, <1>2, <1>3, <1>4, <1>5, <1>6, <1>7, <1>8, <1>9, <1>10, <1>11, <1>12, <1>13
  DEF Next, DriverStep, WorkerStep, Terminated

(* Type correctness: every element has the type of the channel it is in. *)
THEOREM TypeCorrect == Spec => []TypeOK
<1>1. Init => TypeOK
  <2> SUFFICES ASSUME Init PROVE TypeOK
    OBVIOUS
  <2>1. pc[Driver] = "construct" /\ \A w \in Workers : pc[w] = "unborn"
    BY DEF Init, Actors
  <2>2. PlacesOK
    BY <2>1 DEF Init, PlacesOK, DriverPC, WorkerPC
  <2>3. <<>> \in Seq(0..NELEMS - 1) /\ \A k \in 1..Stages : <<>> \in Seq(Element(k))
    OBVIOUS
  <2>4. ChannelsOK
    BY <2>3 DEF Init, ChannelsOK
  <2>5. HandsOK
    <3>1. <<0, 0>> \in Int \X Nat
      OBVIOUS
    <3>2. QED BY <2>1, <3>1 DEF Init, HandsOK
  <2>6. TotalsOK
    BY <2>1, <2>3 DEF Init, TotalsOK
  <2>7. QED BY <2>2, <2>4, <2>5, <2>6 DEF TypeOK
<1>2. TypeOK /\ [Next]_vars => TypeOK'
  BY PlacesTyped, ChannelsTyped, HandsTyped, TotalsTyped DEF TypeOK
<1>3. QED BY <1>1, <1>2, PTL DEF Spec

-----------------------------------------------------------------------------
(* Counting actors. *)

\* The workers in a place can be counted.
LEMMA AtIsFinite ==
  ASSUME NEW l, NEW k
  PROVE  IsFiniteSet(At(l, k)) /\ Cardinality(At(l, k)) \in Nat
<1>1. IsFiniteSet(Actors)
  BY FS_AddElement DEF Actors
<1>2. At(l, k) \in SUBSET Actors
  BY DEF At
<1>3. QED BY <1>1, <1>2, FS_Subset, FS_CardinalityType

(* An actor that goes from one place to another is counted at the second     *)
(* instead of the first, and nowhere else does a count change.               *)
LEMMA GotoCounts ==
  ASSUME PlacesOK, NEW a \in Actors, NEW to, Goto(a, to), pc[a] # to
  PROVE  \A l, k : Cardinality(At(l, k)') = Cardinality(At(l, k)) +
            (IF k = Stage(a) /\ l = to THEN 1
             ELSE IF k = Stage(a) /\ l = pc[a] THEN -1 ELSE 0)
<1> SUFFICES ASSUME NEW l, NEW k
             PROVE  Cardinality(At(l, k)') = Cardinality(At(l, k)) +
                      (IF k = Stage(a) /\ l = to THEN 1
                       ELSE IF k = Stage(a) /\ l = pc[a] THEN -1 ELSE 0)
  OBVIOUS
<1>1. pc'[a] = to /\ \A b \in Actors \ {a} : pc'[b] = pc[b]
  BY DEF Goto, PlacesOK
<1>2. Cardinality(At(l, k)) \in Nat /\ IsFiniteSet(At(l, k))
  BY AtIsFinite
<1>3. CASE k = Stage(a) /\ l = to
  <2>1. At(l, k)' = At(l, k) \cup {a} /\ a \notin At(l, k)
    BY <1>1, <1>3 DEF At
  <2>2. Cardinality(At(l, k) \cup {a}) = Cardinality(At(l, k)) + 1
    BY ONLY <1>2, <2>1, FS_AddElement
  <2>3. QED BY ONLY <1>3, <2>1, <2>2
<1>4. CASE k = Stage(a) /\ l = pc[a]
  <2>1. At(l, k)' = At(l, k) \ {a} /\ a \in At(l, k)
    BY <1>1, <1>4 DEF At
  <2>2. Cardinality(At(l, k) \ {a}) = Cardinality(At(l, k)) - 1
    BY ONLY <1>2, <2>1, FS_RemoveElement
  <2>3. pc[a] # to
    OBVIOUS
  <2>4. QED BY ONLY <1>4, <2>1, <2>2, <2>3
<1>5. CASE ~(k = Stage(a) /\ l \in {to, pc[a]})
  <2>1. At(l, k)' = At(l, k)
    BY <1>1, <1>5 DEF At
  <2>2. QED BY <1>2, <1>5, <2>1
<1>6. QED BY <1>3, <1>4, <1>5

-----------------------------------------------------------------------------
(* The workers of a stage are started by its constructor. *)
LEMMA BornInOrder == Spec => []BornWithStage
<1>1. Init => BornWithStage
  BY StageType DEF Init, BornWithStage, Actors
<1>2. TypeOK /\ BornWithStage /\ [Next]_vars => BornWithStage'
  <2> SUFFICES ASSUME TypeOK, BornWithStage, [Next]_vars PROVE BornWithStage'
    OBVIOUS
  <2> USE StageType DEF TypeOK, PlacesOK, BornWithStage, Goto, Actors, DriverPC, WorkerPC
  <2>1. CASE Construct
    BY <2>1 DEF Construct
  <2>2. CASE DriverAcquire \/ DriverPost \/ DriverClose \/ DriverDrained \/ DriverJoin
    BY <2>2 DEF DriverAcquire, DriverPost, DriverClose, DriverDrained, DriverJoin
  <2>3. ASSUME NEW w \in Workers, Pull(w) \/ PullClosed(w) \/ Release(w) \/ Acquire(w)
        PROVE BornWithStage'
    BY <2>3 DEF Pull, PullClosed, Release, Acquire
  <2>4. ASSUME NEW w \in Workers, ProcessAndPost(w) \/ ConsumeLoad(w) \/ ConsumeStore(w)
        PROVE BornWithStage'
    BY <2>4 DEF ProcessAndPost, ConsumeLoad, ConsumeStore
  <2>5. ASSUME NEW k \in 1..Stages - 1, DrainerStep(k) PROVE BornWithStage'
    BY <2>5 DEF DrainerStep, DrainerClose, DrainerDone
  <2>6. CASE UNCHANGED vars
    BY <2>6 DEF vars
  <2>7. QED BY <2>1, <2>2, <2>3, <2>4, <2>5, <2>6
            DEF Next, DriverStep, WorkerStep, Terminated
<1>3. QED BY <1>1, <1>2, TypeCorrect, PTL DEF Spec

(* While an actor of stage k can still post, channel k+1 is open. *)
LEMMA OpenWhilePosting ==
  ASSUME TypeOK, ClosedBehindTheWork
  PROVE  /\ pc[Driver] \in {"construct", "acquire", "post"} => ~closed[1]
         /\ \A w \in Workers : Stage(w) < Stages /\ pc[w] # "done" => ~closed[Stage(w) + 1]
<1>1. pc[Driver] \in {"construct", "acquire", "post"} => ~closed[1]
  BY DEF ClosedBehindTheWork
<1>2. ASSUME NEW w \in Workers, Stage(w) < Stages, pc[w] # "done"
      PROVE  ~closed[Stage(w) + 1]
  <2>1. Stage(w) \in 1..Stages - 1
    BY <1>2, StageType
  <2>2. w \in WorkersOf(Stage(w))
    BY <2>1, StageType
  <2>3. QED BY <1>2, <2>1, <2>2 DEF ClosedBehindTheWork
<1>3. QED BY <1>1, <1>2

(* A step keeps ClosedBehindTheWork when ended workers stay ended, a worker   *)
(* ends only at a closed empty channel, nothing enters a closed channel, and *)
(* channels are closed, for good, only behind ended workers.                 *)
LEMMA KeepsClosed ==
  ASSUME TypeOK, ClosedBehindTheWork,
         \A w \in Workers : pc[w] = "done" => pc'[w] = "done",
         \A w \in Workers : pc'[w] = "done" /\ pc[w] # "done" =>
                closed[Stage(w)] /\ chan[Stage(w)] = <<>>,
         \A k \in 1..Stages : closed[k] /\ chan[k] = <<>> => chan'[k] = <<>>,
         \A k \in 1..Stages : closed[k] => closed'[k],
         \A k \in 1..Stages - 1 : closed'[k + 1] /\ ~closed[k + 1] =>
                \A w \in WorkersOf(k) : pc[w] = "done",
         closed'[1] => next' = NELEMS /\ pc'[Driver] \in {"drain", "join", "done"}
  PROVE  ClosedBehindTheWork'
<1>1. \A k \in 1..Stages - 1 : closed'[k + 1] => \A w \in WorkersOf(k) : pc'[w] = "done"
  BY StageType DEF ClosedBehindTheWork, WorkersOf
<1>2. ASSUME NEW w \in Workers, pc'[w] = "done"
      PROVE  closed'[Stage(w)] /\ chan'[Stage(w)] = <<>>
  <2>1. Stage(w) \in 1..Stages
    BY StageType
  <2>2. closed[Stage(w)] /\ chan[Stage(w)] = <<>>
    BY <1>2 DEF ClosedBehindTheWork
  <2>3. QED BY <2>1, <2>2
<1>3. QED BY <1>1, <1>2 DEF ClosedBehindTheWork

(* A channel is closed only when everything upstream is finished, for any    *)
(* number of stages and workers.                                             *)
THEOREM ClosesBehindTheWork == Spec => []ClosedBehindTheWork
<1>1. Init => ClosedBehindTheWork
  BY StageType DEF Init, ClosedBehindTheWork, Actors
<1>2. TypeOK /\ BornWithStage /\ ClosedBehindTheWork /\ [Next]_vars => ClosedBehindTheWork'
  <2> SUFFICES ASSUME TypeOK, BornWithStage, ClosedBehindTheWork, [Next]_vars
               PROVE  ClosedBehindTheWork'
    OBVIOUS
  <2>0. /\ pc[Driver] \in {"construct", "acquire", "post"} => ~closed[1]
        /\ \A w \in Workers : Stage(w) < Stages /\ pc[w] # "done" => ~closed[Stage(w) + 1]
    BY OpenWhilePosting
  <2>a. /\ pc \in [Actors -> DriverPC \cup WorkerPC] /\ Driver \in Actors
        /\ \A w \in Workers : w \in Actors /\ w # Driver /\ Stage(w) \in 1..Stages
        /\ closed \in [1..Stages -> BOOLEAN]
        /\ closed[1] => next = NELEMS /\ pc[Driver] \in {"drain", "join", "done"}
    BY StageType DEF TypeOK, ChannelsOK, PlacesOK, Actors, ClosedBehindTheWork
  <2>1. CASE Construct
    <3>1. \A w \in Workers : pc'[w] = IF Stage(w) = built + 1 THEN "pull" ELSE pc[w]
      BY <2>1, <2>a DEF Construct
    <3>2. \A w \in Workers : pc[w] = "done" => Stage(w) # built + 1
      BY <2>1, <2>a DEF Construct, BornWithStage, TypeOK, PlacesOK
    <3>3. ~closed[1] /\ closed' = closed /\ chan' = chan
      BY <2>0, <2>1 DEF Construct
    <3>4. QED BY <3>1, <3>2, <3>3, KeepsClosed
  <2>2. CASE DriverAcquire \/ DriverClose \/ DriverDrained \/ DriverJoin
    <3>1. /\ \A w \in Workers : pc'[w] = pc[w]
          /\ chan' = chan
          /\ closed' = closed \/ closed' = [closed EXCEPT ![1] = TRUE]
          /\ closed'[1] => next' = NELEMS /\ pc'[Driver] \in {"drain", "join", "done"}
      BY <2>2, <2>0, <2>a DEF DriverAcquire, DriverClose, DriverDrained, DriverJoin, Goto
    <3>2. QED BY <3>1, <2>a, KeepsClosed
  <2>3. CASE DriverPost
    <3>1. /\ \A w \in Workers : pc'[w] = pc[w]
          /\ \A k \in 1..Stages : k # 1 => chan'[k] = chan[k]
          /\ closed' = closed /\ ~closed[1]
      BY <2>3, <2>0, <2>a DEF DriverPost, ChanPost, Goto, TypeOK, ChannelsOK
    <3>2. QED BY <3>1, KeepsClosed
  <2>4. ASSUME NEW w \in Workers, Pull(w) PROVE ClosedBehindTheWork'
    <3>1. /\ \A v \in Workers : pc'[v] = IF v = w THEN "release" ELSE pc[v]
          /\ pc[w] = "pull" /\ pc'[Driver] = pc[Driver] /\ next' = next
          /\ \A k \in 1..Stages : k # Stage(w) => chan'[k] = chan[k]
          /\ closed' = closed /\ chan[Stage(w)] # <<>>
      BY <2>4, <2>a DEF Pull, Goto, TypeOK, ChannelsOK
    <3>2. QED BY <3>1, <2>a, KeepsClosed
  <2>5. ASSUME NEW w \in Workers,
               \/ PullClosed(w) \/ Release(w) \/ Acquire(w)
               \/ ConsumeLoad(w) \/ ConsumeStore(w)
        PROVE ClosedBehindTheWork'
    <3>1. /\ \A v \in Workers \ {w} : pc'[v] = pc[v]
          /\ pc[w] # "done" /\ pc'[Driver] = pc[Driver] /\ next' = next
          /\ pc'[w] = "done" => closed[Stage(w)] /\ chan[Stage(w)] = <<>>
          /\ closed' = closed /\ chan' = chan
      BY <2>5, <2>a DEF PullClosed, Release, Acquire, ConsumeLoad, ConsumeStore, Goto
    <3>2. QED BY <3>1, <2>a, KeepsClosed
  <2>6. ASSUME NEW w \in Workers, ProcessAndPost(w) PROVE ClosedBehindTheWork'
    <3>1. /\ \A v \in Workers : pc'[v] = IF v = w THEN "pull" ELSE pc[v]
          /\ pc[w] = "post" /\ pc'[Driver] = pc[Driver] /\ next' = next
          /\ \A k \in 1..Stages : k # Stage(w) + 1 => chan'[k] = chan[k]
          /\ closed' = closed /\ ~closed[Stage(w) + 1]
      BY <2>6, <2>0, <2>a DEF ProcessAndPost, ChanPost, Goto, TypeOK, ChannelsOK, PlacesOK
    <3>2. QED BY <3>1, <2>a, KeepsClosed
  <2>7. ASSUME NEW k \in 1..Stages - 1, DrainerStep(k) PROVE ClosedBehindTheWork'
    <3>1. /\ pc' = pc /\ next' = next /\ chan' = chan
          /\ \/ closed' = closed
             \/ /\ closed' = [closed EXCEPT ![k + 1] = TRUE]
                /\ \A w \in WorkersOf(k) : pc[w] = "done"
      BY <2>7 DEF DrainerStep, DrainerClose, DrainerDone
    <3>2. k + 1 \in 1..Stages /\ k + 1 # 1
      OBVIOUS
    <3>3. \A j \in 1..Stages : j # k + 1 => closed'[j] = closed[j]
      BY <3>1, <2>a
    <3>4. \A j \in 1..Stages : closed[j] => closed'[j]
      BY <3>1, <2>a
    <3>5. \A j \in 1..Stages - 1 : closed'[j + 1] /\ ~closed[j + 1] =>
                \A w \in WorkersOf(j) : pc[w] = "done"
      BY <3>1, <2>a
    <3>6. closed'[1] => next' = NELEMS /\ pc'[Driver] \in {"drain", "join", "done"}
      BY <3>1, <3>2, <3>3, <2>a
    <3>7. QED BY <3>1, <3>4, <3>5, <3>6, KeepsClosed
  <2>8. CASE UNCHANGED vars
    BY <2>8 DEF vars, ClosedBehindTheWork
  <2>9. QED BY <2>1, <2>2, <2>3, <2>4, <2>5, <2>6, <2>7, <2>8
            DEF Next, DriverStep, WorkerStep, Terminated
<1>3. QED BY <1>1, <1>2, TypeCorrect, BornInOrder, PTL DEF Spec

-----------------------------------------------------------------------------
\* What the semaphore and the channel of stage k must gain, together, when actor
\* a moves to the place "to".
Drift(a, to, k) ==
    IF Stage(a) = k - 1 /\ to = "post" THEN -1
    ELSE IF Stage(a) = k - 1 /\ pc[a] = "post" THEN 1
    ELSE IF Stage(a) = k /\ to = "release" THEN -1
    ELSE IF Stage(a) = k /\ pc[a] = "release" THEN 1 ELSE 0

(* A step that moves one actor from one place to another keeps the tokens of *)
(* every channel when the semaphore and the channel make up for the move.    *)
LEMMA KeepsTokens ==
  ASSUME TypeOK, TokenConservation, NEW a \in Actors, NEW to, Goto(a, to), pc[a] # to,
         built' = built,
         \A k \in 1..Stages :
            sem'[k] + Len(chan'[k]) = sem[k] + Len(chan[k]) + Drift(a, to, k),
         sem' \in [1..Stages -> Nat], \A k \in 1..Stages : Len(chan'[k]) \in Nat
  PROVE  TokenConservation'
<1> SUFFICES ASSUME NEW k \in 1..Stages
             PROVE  Tokens(k)' = IF k <= built THEN 2 * workerCount[k] ELSE 0
  BY DEF TokenConservation
<1> DEFINE P == Cardinality(At("post", k - 1))
           R == Cardinality(At("release", k))
<1>1. P \in Nat /\ R \in Nat
  BY AtIsFinite
<1>2. P' = P + (IF k - 1 = Stage(a) /\ "post" = to THEN 1
                ELSE IF k - 1 = Stage(a) /\ "post" = pc[a] THEN -1 ELSE 0)
  BY GotoCounts DEF TypeOK
<1>3. R' = R + (IF k = Stage(a) /\ "release" = to THEN 1
                ELSE IF k = Stage(a) /\ "release" = pc[a] THEN -1 ELSE 0)
  BY GotoCounts DEF TypeOK
<1>4. sem[k] \in Nat /\ Len(chan[k]) \in Nat /\ sem'[k] \in Nat /\ Len(chan'[k]) \in Nat
  BY DEF TypeOK, ChannelsOK
<1>5. PICK s \in Nat, c \in Nat, p \in Nat, r \in Nat, s2 \in Nat, c2 \in Nat :
        /\ s = sem[k] /\ c = Len(chan[k]) /\ p = P /\ r = R
        /\ s2 = sem'[k] /\ c2 = Len(chan'[k])
  BY <1>1, <1>4
<1>6. PICK p2 \in Int, r2 \in Int : p2 = P' /\ r2 = R'
  BY <1>1, <1>2, <1>3
<1>7. s2 + c2 + p2 + r2 = s + c + p + r
  <2>1. s2 + c2 = s + c + (IF Stage(a) = k - 1 /\ to = "post" THEN -1
                           ELSE IF Stage(a) = k - 1 /\ pc[a] = "post" THEN 1
                           ELSE IF Stage(a) = k /\ to = "release" THEN -1
                           ELSE IF Stage(a) = k /\ pc[a] = "release" THEN 1 ELSE 0)
    BY <1>5 DEF Drift
  <2>2. p2 = p + (IF k - 1 = Stage(a) /\ "post" = to THEN 1
                  ELSE IF k - 1 = Stage(a) /\ "post" = pc[a] THEN -1 ELSE 0)
    BY <1>2, <1>5, <1>6
  <2>3. r2 = r + (IF k = Stage(a) /\ "release" = to THEN 1
                  ELSE IF k = Stage(a) /\ "release" = pc[a] THEN -1 ELSE 0)
    BY <1>3, <1>5, <1>6
  <2>4. Stage(a) \in Nat /\ k \in Nat
    BY StageType DEF Actors
  <2>5. QED BY <2>1, <2>2, <2>3, <2>4
<1>8. Tokens(k)' = Tokens(k)
  BY <1>5, <1>6, <1>7 DEF Tokens
<1>9. QED BY <1>8 DEF TokenConservation

(* The length of a channel after an element was posted to or pulled from it. *)
LEMMA ChannelLengths ==
  ASSUME TypeOK, NEW k \in 1..Stages
  PROVE  /\ \A m \in Element(k) : ~closed[k] /\ ChanPost(k, m) =>
              \A j \in 1..Stages : Len(chan'[j]) = Len(chan[j]) + (IF j = k THEN 1 ELSE 0)
         /\ chan[k] # <<>> /\ chan' = [chan EXCEPT ![k] = Tail(@)] =>
              \A j \in 1..Stages : Len(chan'[j]) = Len(chan[j]) + (IF j = k THEN -1 ELSE 0)
<1> USE DEF TypeOK, ChannelsOK
<1>1. ASSUME NEW m \in Element(k), ~closed[k], ChanPost(k, m), NEW j \in 1..Stages
      PROVE  Len(chan'[j]) = Len(chan[j]) + (IF j = k THEN 1 ELSE 0)
  <2>1. chan'[j] = IF j = k THEN Append(chan[k], m) ELSE chan[j]
    BY <1>1 DEF ChanPost
  <2>2. Len(Append(chan[k], m)) = Len(chan[k]) + 1
    BY <1>1
  <2>3. QED BY <2>1, <2>2
<1>2. ASSUME chan[k] # <<>>, chan' = [chan EXCEPT ![k] = Tail(@)], NEW j \in 1..Stages
      PROVE  Len(chan'[j]) = Len(chan[j]) + (IF j = k THEN -1 ELSE 0)
  <2>1. chan'[j] = IF j = k THEN Tail(chan[k]) ELSE chan[j]
    BY <1>2
  <2>2. Len(Tail(chan[k])) = Len(chan[k]) - 1
    BY <1>2
  <2>3. Len(chan[k]) \in Nat /\ Len(chan[j]) \in Nat
    OBVIOUS
  <2>4. PICK c \in Nat : c = Len(chan[k])
    BY <2>3
  <2>5. QED BY <2>1, <2>2, <2>3, <2>4
<1>3. QED BY <1>1, <1>2

\* A constructor grants the tokens of its stage.
LEMMA ConstructKeepsTokens ==
  ASSUME TypeOK, BornWithStage, TokenConservation, Construct
  PROVE  TokenConservation'
<1> USE StageType DEF TypeOK, PlacesOK, ChannelsOK
<1>1. /\ built + 1 \in 1..Stages /\ built' = built + 1
      /\ sem' = [sem EXCEPT ![built + 1] = @ + 2 * workerCount[built + 1]]
      /\ chan' = chan /\ pc[Driver] = "construct"
      /\ \A w \in Workers : Stage(w) = built + 1 => pc[w] = "unborn"
  BY DEF Construct, SemRelease, BornWithStage
<1>2. \A a \in Actors, l \in {"post", "release"} : pc'[a] = l <=> pc[a] = l
  <2>1. \A a \in Actors : pc'[a] = IF a # Driver /\ Stage(a) = built + 1 THEN "pull"
                                   ELSE IF a = Driver /\ built + 1 = Stages
                                        THEN "acquire" ELSE pc[a]
    BY DEF Construct
  <2>2. QED BY <1>1, <2>1 DEF Actors
<1>3. \A k : At("post", k)' = At("post", k) /\ At("release", k)' = At("release", k)
  BY <1>2 DEF At
<1>4. ASSUME NEW k \in 1..Stages
      PROVE  Tokens(k)' = IF k <= built' THEN 2 * workerCount[k] ELSE 0
  <2>1. Tokens(k) = IF k <= built THEN 2 * workerCount[k] ELSE 0
    BY DEF TokenConservation
  <2>0. /\ sem[k] \in Nat /\ Len(chan[k]) \in Nat /\ workerCount[k] \in Nat
        /\ Cardinality(At("post", k - 1)) \in Nat /\ Cardinality(At("release", k)) \in Nat
    BY AtIsFinite, CountType
  <2>2. PICK s \in Nat, c \in Nat, p \in Nat, r \in Nat, n \in Nat :
          /\ s = sem[k] /\ c = Len(chan[k]) /\ n = workerCount[k]
          /\ p = Cardinality(At("post", k - 1)) /\ r = Cardinality(At("release", k))
    BY <2>0
  <2>3. Tokens(k) = s + c + p + r
    BY <2>2 DEF Tokens
  <2>4. Tokens(k)' = sem'[k] + c + p + r
    BY <1>1, <1>3, <2>2 DEF Tokens
  <2>5. CASE k = built + 1
    <3>1. s + c + p + r = 0
      BY <2>1, <2>3, <2>5
    <3>2. sem'[k] = s + 2 * n
      BY <1>1, <2>2, <2>5
    <3>3. (s + 2 * n) + c + p + r = 2 * n
      BY ONLY <3>1, s \in Nat, c \in Nat, p \in Nat, r \in Nat, n \in Nat
    <3>4. QED BY <1>1, <2>2, <2>4, <2>5, <3>2, <3>3
  <2>6. CASE k # built + 1
    <3>1. sem'[k] = s
      BY <1>1, <2>2, <2>6
    <3>2. k <= built' <=> k <= built
      BY <1>1, <2>6
    <3>3. QED BY <2>1, <2>3, <2>4, <3>1, <3>2
  <2>7. QED BY <2>5, <2>6
<1>5. QED BY <1>4 DEF TokenConservation

(* No unit of any semaphore is lost or made up, whatever the number of       *)
(* elements, stages and workers and however they are scheduled.              *)
THEOREM TokensAreConserved == Spec => []TokenConservation
<1>1. Init => TokenConservation
  <2> SUFFICES ASSUME Init, NEW k \in 1..Stages PROVE Tokens(k) = 0
    BY DEF TokenConservation, Init
  <2>1. At("post", k - 1) = {} /\ At("release", k) = {}
    BY DEF Init, At
  <2>2. Cardinality({}) = 0
    BY FS_EmptySet
  <2>3. sem[k] = 0 /\ Len(chan[k]) = 0
    BY DEF Init
  <2>4. Tokens(k) = 0 + 0 + 0 + 0
    BY <2>1, <2>2, <2>3, Zenon DEF Tokens
  <2>5. QED BY <2>4
<1>2. TypeOK /\ BornWithStage /\ ClosedBehindTheWork /\ TokenConservation /\ [Next]_vars
        /\ TypeOK' => TokenConservation'
  <2> SUFFICES ASSUME TypeOK, BornWithStage, ClosedBehindTheWork, TokenConservation,
                      [Next]_vars, TypeOK'
               PROVE  TokenConservation'
    OBVIOUS
  <2>a. /\ Driver \in Actors /\ Stage(Driver) = 0
        /\ \A w \in Workers : w \in Actors /\ Stage(w) \in 1..Stages
        /\ sem \in [1..Stages -> Nat] /\ sem' \in [1..Stages -> Nat]
        /\ \A k \in 1..Stages : Len(chan[k]) \in Nat /\ Len(chan'[k]) \in Nat
    BY StageType DEF TypeOK, ChannelsOK, Actors
  <2>1. CASE Construct
    BY <2>1, ConstructKeepsTokens
  <2>2. CASE DriverAcquire
    <3>1. /\ Goto(Driver, "post") /\ pc[Driver] = "acquire" /\ built' = built
          /\ sem' = [sem EXCEPT ![1] = @ - 1] /\ chan' = chan
      BY <2>2 DEF DriverAcquire, SemAcquire
    <3>2. ASSUME NEW k \in 1..Stages
          PROVE  sem'[k] + Len(chan'[k]) = sem[k] + Len(chan[k]) + Drift(Driver, "post", k)
      <4>1. PICK s \in Nat, c \in Nat : s = sem[k] /\ c = Len(chan[k])
        BY <2>a
      <4>2. sem'[k] = s + (IF k = 1 THEN -1 ELSE 0) /\ Len(chan'[k]) = c
        BY <2>a, <3>1, <4>1
      <4>3. Drift(Driver, "post", k) = IF k = 1 THEN -1 ELSE 0
        BY <2>a, <3>1 DEF Drift
      <4>4. QED BY <4>1, <4>2, <4>3
    <3>3. pc[Driver] # "post" /\ Goto(Driver, "post") /\ built' = built
      BY <3>1
    <3>4. /\ sem' \in [1..Stages -> Nat] /\ \A k \in 1..Stages : Len(chan'[k]) \in Nat
          /\ Driver \in Actors
      BY <2>a
    <3>5. QED BY <3>2, <3>3, <3>4, KeepsTokens
  <2>3. CASE DriverPost
    <3>1. /\ Goto(Driver, "acquire") /\ pc[Driver] = "post" /\ built' = built /\ sem' = sem
          /\ ChanPost(1, held[Driver])
      BY <2>3 DEF DriverPost
    <3>2. 1 \in 1..Stages /\ held[Driver] \in Element(1) /\ ~closed[1]
      BY <3>1, PostedTyped, OpenWhilePosting
    <3>3. \A k \in 1..Stages : Len(chan'[k]) = Len(chan[k]) + (IF k = 1 THEN 1 ELSE 0)
      BY <3>1, <3>2, ChannelLengths
    <3>4. ASSUME NEW k \in 1..Stages
          PROVE  sem'[k] + Len(chan'[k]) = sem[k] + Len(chan[k]) + Drift(Driver, "acquire", k)
      <4>1. PICK s \in Nat, c \in Nat : s = sem[k] /\ c = Len(chan[k])
        BY <2>a
      <4>2. sem'[k] = s /\ Len(chan'[k]) = c + (IF k = 1 THEN 1 ELSE 0)
        BY <2>a, <3>1, <3>3, <4>1
      <4>3. Drift(Driver, "acquire", k) = IF k = 1 THEN 1 ELSE 0
        <5>1. Stage(Driver) = 0 /\ pc[Driver] = "post" /\ k \in Nat
          BY <2>a, <3>1
        <5>2. CASE k = 1
          BY <5>1, <5>2 DEF Drift
        <5>3. CASE ~(k = 1)
          BY <5>1, <5>3 DEF Drift
        <5>4. QED BY <5>2, <5>3
      <4>4. PICK d \in Int : d = IF k = 1 THEN 1 ELSE 0
        OBVIOUS
      <4>5. s + (c + d) = s + c + d
        OBVIOUS
      <4>6. QED BY <4>1, <4>2, <4>3, <4>4, <4>5
    <3>5. pc[Driver] # "acquire" /\ Goto(Driver, "acquire") /\ built' = built
      BY <3>1
    <3>6. /\ sem' \in [1..Stages -> Nat] /\ \A k \in 1..Stages : Len(chan'[k]) \in Nat
          /\ Driver \in Actors
      BY <2>a
    <3>7. QED BY <3>4, <3>5, <3>6, KeepsTokens
  <2>4. CASE DriverClose \/ DriverDrained \/ DriverJoin
    <3>1. /\ pc[Driver] \in {"acquire", "drain", "join"}
          /\ built' = built /\ sem' = sem /\ chan' = chan
      BY <2>4 DEF DriverClose, DriverDrained, DriverJoin
    <3>2. PICK l \in {"drain", "join", "done"} : Goto(Driver, l) /\ pc[Driver] # l
      BY <2>4 DEF DriverClose, DriverDrained, DriverJoin
    <3>3. ASSUME NEW k \in 1..Stages
          PROVE  sem'[k] + Len(chan'[k]) = sem[k] + Len(chan[k]) + Drift(Driver, l, k)
      <4>1. PICK s \in Nat, c \in Nat : s = sem[k] /\ c = Len(chan[k])
        BY <2>a
      <4>2. sem'[k] = s /\ Len(chan'[k]) = c
        BY <2>a, <3>1, <3>2, <4>1
      <4>3. Drift(Driver, l, k) = 0
        BY <2>a, <3>1, <3>2 DEF Drift
      <4>4. QED BY <4>1, <4>2, <4>3
    <3>4. pc[Driver] # l /\ Goto(Driver, l) /\ built' = built
      BY <3>1, <3>2
    <3>5. /\ sem' \in [1..Stages -> Nat] /\ \A k \in 1..Stages : Len(chan'[k]) \in Nat
          /\ Driver \in Actors
      BY <2>a
    <3>6. QED BY <3>3, <3>4, <3>5, KeepsTokens
  <2>5. ASSUME NEW w \in Workers, Pull(w) PROVE TokenConservation'
    <3>1. /\ Goto(w, "release") /\ pc[w] = "pull" /\ built' = built /\ sem' = sem
          /\ chan[Stage(w)] # <<>> /\ chan' = [chan EXCEPT ![Stage(w)] = Tail(@)]
      BY <2>5 DEF Pull
    <3>2. \A k \in 1..Stages : Len(chan'[k]) = Len(chan[k]) + (IF k = Stage(w) THEN -1 ELSE 0)
      BY <2>a, <3>1, ChannelLengths
    <3>3. ASSUME NEW k \in 1..Stages
          PROVE  sem'[k] + Len(chan'[k]) = sem[k] + Len(chan[k]) + Drift(w, "release", k)
      <4>1. PICK s \in Nat, c \in Nat : s = sem[k] /\ c = Len(chan[k])
        BY <2>a
      <4>2. sem'[k] = s /\ Len(chan'[k]) = c + (IF k = Stage(w) THEN -1 ELSE 0)
        BY <2>a, <3>1, <3>2, <4>1
      <4>3. Drift(w, "release", k) = IF k = Stage(w) THEN -1 ELSE 0
        <5>1. Stage(w) \in Nat /\ pc[w] = "pull" /\ k \in Nat
          BY <2>a, <3>1
        <5>2. CASE k = Stage(w)
          BY <5>1, <5>2 DEF Drift
        <5>3. CASE ~(k = Stage(w))
          BY <5>1, <5>3 DEF Drift
        <5>4. QED BY <5>2, <5>3
      <4>4. PICK d \in Int : d = IF k = Stage(w) THEN -1 ELSE 0
        OBVIOUS
      <4>5. s + (c + d) = s + c + d
        OBVIOUS
      <4>6. QED BY <4>1, <4>2, <4>3, <4>4, <4>5
    <3>4. pc[w] # "release" /\ Goto(w, "release") /\ built' = built
      BY <3>1
    <3>5. /\ sem' \in [1..Stages -> Nat] /\ \A k \in 1..Stages : Len(chan'[k]) \in Nat
          /\ w \in Actors
      BY <2>a
    <3>6. QED BY <3>3, <3>4, <3>5, KeepsTokens
  <2>6. ASSUME NEW w \in Workers, PullClosed(w) \/ ConsumeLoad(w) \/ ConsumeStore(w)
        PROVE TokenConservation'
    <3>1. /\ pc[w] \in {"pull", "load", "store"}
          /\ built' = built /\ sem' = sem /\ chan' = chan
      BY <2>6 DEF PullClosed, ConsumeLoad, ConsumeStore
    <3>2. PICK l \in {"done", "store", "pull"} : Goto(w, l) /\ pc[w] # l
      BY <2>6 DEF PullClosed, ConsumeLoad, ConsumeStore
    <3>3. ASSUME NEW k \in 1..Stages
          PROVE  sem'[k] + Len(chan'[k]) = sem[k] + Len(chan[k]) + Drift(w, l, k)
      <4>1. PICK s \in Nat, c \in Nat : s = sem[k] /\ c = Len(chan[k])
        BY <2>a
      <4>2. sem'[k] = s /\ Len(chan'[k]) = c
        BY <2>a, <3>1, <3>2, <4>1
      <4>3. Drift(w, l, k) = 0
        BY <2>a, <3>1, <3>2 DEF Drift
      <4>4. QED BY <4>1, <4>2, <4>3
    <3>4. pc[w] # l /\ Goto(w, l) /\ built' = built
      BY <3>1, <3>2
    <3>5. /\ sem' \in [1..Stages -> Nat] /\ \A k \in 1..Stages : Len(chan'[k]) \in Nat
          /\ w \in Actors
      BY <2>a
    <3>6. QED BY <3>3, <3>4, <3>5, KeepsTokens
  <2>7. ASSUME NEW w \in Workers, Release(w) PROVE TokenConservation'
    <3>1. /\ pc[w] = "release" /\ built' = built /\ chan' = chan
          /\ sem' = [sem EXCEPT ![Stage(w)] = @ + 1]
      BY <2>7 DEF Release, SemRelease
    <3>2. PICK l \in {"load", "acquire"} : Goto(w, l) /\ pc[w] # l
      BY <2>7 DEF Release
    <3>3. ASSUME NEW k \in 1..Stages
          PROVE  sem'[k] + Len(chan'[k]) = sem[k] + Len(chan[k]) + Drift(w, l, k)
      <4>1. PICK s \in Nat, c \in Nat : s = sem[k] /\ c = Len(chan[k])
        BY <2>a
      <4>2. sem'[k] = s + (IF k = Stage(w) THEN 1 ELSE 0) /\ Len(chan'[k]) = c
        BY <2>a, <3>1, <3>2, <4>1
      <4>3. Drift(w, l, k) = IF k = Stage(w) THEN 1 ELSE 0
        BY <2>a, <3>1, <3>2 DEF Drift
      <4>4. QED BY <4>1, <4>2, <4>3
    <3>4. pc[w] # l /\ Goto(w, l) /\ built' = built
      BY <3>1, <3>2
    <3>5. /\ sem' \in [1..Stages -> Nat] /\ \A k \in 1..Stages : Len(chan'[k]) \in Nat
          /\ w \in Actors
      BY <2>a
    <3>6. QED BY <3>3, <3>4, <3>5, KeepsTokens
  <2>8. ASSUME NEW w \in Workers, Acquire(w) PROVE TokenConservation'
    <3>1. /\ Goto(w, "post") /\ pc[w] = "acquire" /\ built' = built /\ chan' = chan
          /\ sem' = [sem EXCEPT ![Stage(w) + 1] = @ - 1]
      BY <2>8 DEF Acquire, SemAcquire
    <3>2. Stage(w) < Stages
      BY <3>1 DEF TypeOK, PlacesOK
    <3>3. ASSUME NEW k \in 1..Stages
          PROVE  sem'[k] + Len(chan'[k]) = sem[k] + Len(chan[k]) + Drift(w, "post", k)
      <4>1. PICK s \in Nat, c \in Nat : s = sem[k] /\ c = Len(chan[k])
        BY <2>a
      <4>2. sem'[k] = s + (IF k = Stage(w) + 1 THEN -1 ELSE 0) /\ Len(chan'[k]) = c
        BY <2>a, <3>1, <3>2, <4>1
      <4>3. Drift(w, "post", k) = IF k = Stage(w) + 1 THEN -1 ELSE 0
        BY <2>a, <3>1, <3>2 DEF Drift
      <4>4. QED BY <4>1, <4>2, <4>3
    <3>4. pc[w] # "post" /\ Goto(w, "post") /\ built' = built
      BY <3>1
    <3>5. /\ sem' \in [1..Stages -> Nat] /\ \A k \in 1..Stages : Len(chan'[k]) \in Nat
          /\ w \in Actors
      BY <2>a
    <3>6. QED BY <3>3, <3>4, <3>5, KeepsTokens
  <2>9. ASSUME NEW w \in Workers, ProcessAndPost(w) PROVE TokenConservation'
    <3> DEFINE m == Elem(held[w].id, Func(Stage(w), held[w].val))
    <3>1. /\ Goto(w, "pull") /\ pc[w] = "post" /\ built' = built /\ sem' = sem
          /\ ChanPost(Stage(w) + 1, m)
      BY <2>9 DEF ProcessAndPost
    <3>2. Stage(w) < Stages
      BY <3>1 DEF TypeOK, PlacesOK
    <3>3. Stage(w) + 1 \in 1..Stages
      BY <2>a, <3>2
    <3>4. m \in Element(Stage(w) + 1) /\ ~closed[Stage(w) + 1]
      BY <3>1, <3>2, PostedTyped, OpenWhilePosting
    <3> HIDE DEF m
    <3>5. \A k \in 1..Stages :
            Len(chan'[k]) = Len(chan[k]) + (IF k = Stage(w) + 1 THEN 1 ELSE 0)
      BY <3>1, <3>3, <3>4, ChannelLengths
    <3>6. ASSUME NEW k \in 1..Stages
          PROVE  sem'[k] + Len(chan'[k]) = sem[k] + Len(chan[k]) + Drift(w, "pull", k)
      <4>1. PICK s \in Nat, c \in Nat : s = sem[k] /\ c = Len(chan[k])
        BY <2>a
      <4>2. sem'[k] = s /\ Len(chan'[k]) = c + (IF k = Stage(w) + 1 THEN 1 ELSE 0)
        BY <2>a, <3>1, <3>3, <3>5, <4>1
      <4>3. Drift(w, "pull", k) = IF k = Stage(w) + 1 THEN 1 ELSE 0
        <5>1. Stage(w) \in Nat /\ pc[w] = "post" /\ k \in Nat
          BY <2>a, <3>1
        <5>2. CASE k = Stage(w) + 1
          BY <5>1, <5>2 DEF Drift
        <5>3. CASE ~(k = Stage(w) + 1)
          BY <5>1, <5>3 DEF Drift
        <5>4. QED BY <5>2, <5>3
      <4>4. PICK d \in Int : d = IF k = Stage(w) + 1 THEN 1 ELSE 0
        OBVIOUS
      <4>5. s + (c + d) = s + c + d
        OBVIOUS
      <4>6. QED BY <4>1, <4>2, <4>3, <4>4, <4>5
    <3>7. pc[w] # "pull" /\ Goto(w, "pull") /\ built' = built
      BY <3>1
    <3>8. /\ sem' \in [1..Stages -> Nat] /\ \A k \in 1..Stages : Len(chan'[k]) \in Nat
          /\ w \in Actors
      BY <2>a
    <3>9. QED BY <3>6, <3>7, <3>8, KeepsTokens
  <2>10. ASSUME NEW k \in 1..Stages - 1, DrainerStep(k) PROVE TokenConservation'
    BY <2>10 DEF DrainerStep, DrainerClose, DrainerDone, TokenConservation, Tokens, At
  <2>11. CASE UNCHANGED vars
    BY <2>11 DEF vars, TokenConservation, Tokens, At
  <2>12. QED BY <2>1, <2>2, <2>3, <2>4, <2>5, <2>6, <2>7, <2>8, <2>9, <2>10, <2>11
             DEF Next, DriverStep, WorkerStep, Terminated
<1>3. QED BY <1>1, <1>2, TypeCorrect, BornInOrder, ClosesBehindTheWork, PTL DEF Spec

(* The backpressure the source documents: no channel holds more than twice   *)
(* its stage's workers.                                                      *)
THEOREM Backpressure == Spec => []ChannelCapacity
<1>1. TypeOK /\ TokenConservation => ChannelCapacity
  <2> SUFFICES ASSUME TypeOK, TokenConservation, NEW k \in 1..Stages
               PROVE  Len(chan[k]) <= 2 * workerCount[k]
    BY DEF ChannelCapacity
  <2>0. /\ sem[k] \in Nat /\ Len(chan[k]) \in Nat /\ workerCount[k] \in Nat
        /\ Cardinality(At("post", k - 1)) \in Nat /\ Cardinality(At("release", k)) \in Nat
    BY AtIsFinite, CountType DEF TypeOK, ChannelsOK
  <2>1. PICK s \in Nat, c \in Nat, p \in Nat, r \in Nat, n \in Nat :
          /\ s = sem[k] /\ c = Len(chan[k]) /\ n = workerCount[k]
          /\ p = Cardinality(At("post", k - 1)) /\ r = Cardinality(At("release", k))
    BY <2>0
  <2>2. s + c + p + r = IF k <= built THEN 2 * n ELSE 0
    BY <2>1 DEF TokenConservation, Tokens
  <2>3. c <= 2 * n
    BY <2>2
  <2>4. QED BY <2>1, <2>3
<1>2. QED BY <1>1, TypeCorrect, TokensAreConserved, PTL

-----------------------------------------------------------------------------
(* The pipeline as a map: every element is in one place, as its stages made *)
(* it, until it is consumed once.                                            *)

Working == {"release", "acquire", "post", "load", "store"}
IdsIn(s) == {s[j].id : j \in 1..Len(s)}

\* Where an element can be: in a channel, in the hands of a worker, consumed.
Places == {<<"channel", k>> : k \in 1..Stages} \cup {<<"hand", w>> : w \in Workers}
            \cup {<<"consumed", 0>>}
IdsAt(p) ==
    IF p[1] = "channel" THEN IdsIn(chan[p[2]])
    ELSE IF p[1] = "hand" THEN IF pc[p[2]] \in Working THEN {held[p[2]].id} ELSE {}
    ELSE {consumed[j] : j \in 1..Len(consumed)}
Whereabouts == [p \in Places |-> IdsAt(p)]

Partition(F, P, S) ==
    /\ \A p \in P : F[p] \subseteq S
    /\ \A x \in S : \E p \in P : x \in F[p]
    /\ \A p, q \in P : p # q => F[p] \cap F[q] = {}

Distinct(s) == \A i, j \in 1..Len(s) : i # j => s[i].id # s[j].id

(* Every element posted is in exactly one place, once. *)
Once ==
    /\ Partition(Whereabouts, Places, 0..next - 1)
    /\ \A k \in 1..Stages : Distinct(chan[k])
    /\ \A i, j \in 1..Len(consumed) : i # j => consumed[i] # consumed[j]

(* v is what the first k stages make of element i. *)
Values == UNION {ChanType[k] : k \in 1..Stages}
Made(i, k, v) ==
    \E s \in [0..k -> Values] :
        s[0] = i /\ s[k] = v /\ \A j \in 1..k : s[j] = Func(j, s[j - 1])

(* Whatever is at stage k has been through the stages before. *)
Processed ==
    /\ pc[Driver] = "post" => held[Driver] = Elem(next, next)
    /\ \A k \in 1..Stages : \A j \in 1..Len(chan[k]) :
            Made(chan[k][j].id, k - 1, chan[k][j].val)
    /\ \A w \in Workers : pc[w] \in Working => Made(held[w].id, Stage(w) - 1, held[w].val)

(* The one worker of the last stage stores what it loaded, and nobody has    *)
(* stored since; a drainer has joined its workers.                           *)
Undisturbed ==
    /\ \A w \in Workers : pc[w] = "store" => loaded[w] = <<acc[1] + held[w].val, acc[2] + 1>>
    /\ \A k \in 1..Stages - 1 : drainer[k] \in {"drain", "done"} =>
            \A w \in WorkersOf(k) : pc[w] = "done"

\* What moves from one place to another stays in exactly one.
LEMMA Moves ==
  ASSUME NEW P, NEW S, NEW F, NEW G, Partition(F, P, S),
         NEW a \in P, NEW b \in P, a # b, NEW x \in F[a],
         G[a] = F[a] \ {x}, G[b] = F[b] \cup {x},
         \A p \in P \ {a, b} : G[p] = F[p]
  PROVE  Partition(G, P, S)
<1>1. \A p \in P : p # a => x \notin F[p]
  BY DEF Partition
<1>2. \A p \in P : G[p] = IF p = a THEN F[p] \ {x} ELSE IF p = b THEN F[p] \cup {x} ELSE F[p]
  OBVIOUS
<1>3. \A p \in P : G[p] \subseteq S
  BY <1>2 DEF Partition
<1>4. ASSUME NEW y \in S PROVE \E p \in P : y \in G[p]
  <2>1. PICK p \in P : y \in F[p]
    BY DEF Partition
  <2>2. CASE y = x
    BY <1>2, <2>2
  <2>3. CASE y # x
    BY <1>2, <2>1, <2>3
  <2>4. QED BY <2>2, <2>3
<1>5. ASSUME NEW p \in P, NEW q \in P, p # q, NEW y, y \in G[p], y \in G[q] PROVE FALSE
  <2>1. F[p] \cap F[q] = {}
    BY <1>5 DEF Partition
  <2>2. y = x
    BY <1>2, <1>5, <2>1
  <2>3. \A r \in P : x \in G[r] => r = b
    BY <1>1, <1>2
  <2>4. QED BY <1>5, <2>2, <2>3
<1>6. QED BY <1>3, <1>4, <1>5 DEF Partition

\* What is new and is put in one place is in exactly one.
LEMMA Arrives ==
  ASSUME NEW P, NEW S, NEW F, NEW G, Partition(F, P, S),
         NEW b \in P, NEW x, x \notin S,
         G[b] = F[b] \cup {x}, \A p \in P \ {b} : G[p] = F[p]
  PROVE  Partition(G, P, S \cup {x})
<1>1. \A p \in P : x \notin F[p]
  BY DEF Partition
<1>2. \A p \in P : G[p] = IF p = b THEN F[p] \cup {x} ELSE F[p]
  OBVIOUS
<1>3. \A p \in P : G[p] \subseteq S \cup {x}
  BY <1>2 DEF Partition
<1>4. \A y \in S \cup {x} : \E p \in P : y \in G[p]
  BY <1>2 DEF Partition
<1>5. \A p, q \in P : p # q => G[p] \cap G[q] = {}
  BY <1>1, <1>2 DEF Partition
<1>6. QED BY <1>3, <1>4, <1>5 DEF Partition

\* pull() takes one element out of a channel.
LEMMA TakingOut ==
  ASSUME NEW T, NEW s \in Seq(T), s # <<>>, Distinct(s)
  PROVE  /\ Head(s).id \in IdsIn(s)
         /\ IdsIn(Tail(s)) = IdsIn(s) \ {Head(s).id}
         /\ Distinct(Tail(s))
<1>1. /\ Len(s) \in Nat \ {0} /\ Len(Tail(s)) = Len(s) - 1 /\ Head(s) = s[1]
      /\ \A j \in 1..Len(s) - 1 : Tail(s)[j] = s[j + 1]
  OBVIOUS
<1>2. Head(s).id \in IdsIn(s)
  BY <1>1 DEF IdsIn
<1>3. ASSUME NEW j \in 1..Len(Tail(s))
      PROVE  Tail(s)[j].id \in IdsIn(s) /\ Tail(s)[j].id # Head(s).id
  <2>1. j + 1 \in 1..Len(s) /\ 1 \in 1..Len(s) /\ j + 1 # 1 /\ Tail(s)[j] = s[j + 1]
    BY <1>1
  <2>2. QED BY <1>1, <2>1 DEF Distinct, IdsIn
<1>4. ASSUME NEW x \in IdsIn(s), x # Head(s).id PROVE x \in IdsIn(Tail(s))
  <2>1. PICK j \in 1..Len(s) : x = s[j].id
    BY DEF IdsIn
  <2>2. j # 1
    BY <1>1, <1>4, <2>1
  <2>3. j - 1 \in 1..Len(Tail(s)) /\ j - 1 \in 1..Len(s) - 1 /\ (j - 1) + 1 = j
    BY <1>1, <2>2
  <2>4. Tail(s)[j - 1] = s[j]
    BY <1>1, <2>3
  <2>5. QED BY <2>1, <2>3, <2>4 DEF IdsIn
<1>5. IdsIn(Tail(s)) = IdsIn(s) \ {Head(s).id}
  <2>1. \A x \in IdsIn(Tail(s)) : x \in IdsIn(s) /\ x # Head(s).id
    BY <1>3 DEF IdsIn
  <2>2. QED BY <1>4, <2>1
<1>6. ASSUME NEW i \in 1..Len(Tail(s)), NEW j \in 1..Len(Tail(s)), i # j
      PROVE  Tail(s)[i].id # Tail(s)[j].id
  <2>1. i + 1 \in 1..Len(s) /\ j + 1 \in 1..Len(s) /\ i + 1 # j + 1
    BY <1>1, <1>6
  <2>2. Tail(s)[i] = s[i + 1] /\ Tail(s)[j] = s[j + 1]
    BY <1>1
  <2>3. QED BY <2>1, <2>2 DEF Distinct
<1>7. QED BY <1>2, <1>5, <1>6 DEF Distinct

\* post() puts one element into a channel.
LEMMA PuttingIn ==
  ASSUME NEW T, NEW s \in Seq(T), NEW m \in T, Distinct(s), m.id \notin IdsIn(s)
  PROVE  /\ IdsIn(Append(s, m)) = IdsIn(s) \cup {m.id}
         /\ Distinct(Append(s, m))
<1> DEFINE t == Append(s, m)
<1>1. /\ Len(s) \in Nat /\ Len(t) = Len(s) + 1 /\ t[Len(s) + 1] = m
      /\ \A j \in 1..Len(s) : t[j] = s[j]
  BY AppendProperties
<1>2. \A j \in 1..Len(t) : j = Len(s) + 1 \/ j \in 1..Len(s)
  BY <1>1
<1>3. Len(s) + 1 \in 1..Len(t) /\ \A j \in 1..Len(s) : j \in 1..Len(t)
  BY <1>1
<1> HIDE DEF t
<1>4. \A x \in IdsIn(t) : x \in IdsIn(s) \cup {m.id}
  BY <1>1, <1>2 DEF IdsIn
<1>5. \A x \in IdsIn(s) \cup {m.id} : x \in IdsIn(t)
  BY <1>1, <1>3 DEF IdsIn
<1>6. \A j \in 1..Len(s) : s[j].id # m.id
  BY DEF IdsIn
<1>7. Distinct(t)
  <2> SUFFICES ASSUME NEW i \in 1..Len(t), NEW j \in 1..Len(t), i # j
               PROVE  t[i].id # t[j].id
    BY DEF Distinct
  <2>1. CASE i \in 1..Len(s) /\ j \in 1..Len(s)
    BY <1>1, <2>1 DEF Distinct
  <2>2. CASE i = Len(s) + 1 /\ j \in 1..Len(s)
    BY <1>1, <1>6, <2>2
  <2>3. CASE j = Len(s) + 1 /\ i \in 1..Len(s)
    BY <1>1, <1>6, <2>3
  <2>4. QED BY <1>2, <2>1, <2>2, <2>3
<1>8. QED BY <1>4, <1>5, <1>7 DEF t

-----------------------------------------------------------------------------
\* An element as it is posted by the driver.
LEMMA MadeAtFirst ==
  ASSUME NEW i \in 0..NELEMS - 1
  PROVE  Made(i, 0, i)
<1>1. i \in Values
  BY FuncAssumption DEF Values
<1> DEFINE s == [j \in 0..0 |-> i]
<1>2. s \in [0..0 -> Values] /\ s[0] = i
  BY <1>1
<1>3. \A j \in 1..0 : s[j] = Func(j, s[j - 1])
  OBVIOUS
<1> HIDE DEF s
<1>4. QED BY <1>2, <1>3 DEF Made

\* The next stage applies its function.
LEMMA MadeNext ==
  ASSUME NEW i, NEW k \in 0..Stages - 2, NEW v \in ChanType[k + 1], Made(i, k, v)
  PROVE  Made(i, k + 1, Func(k + 1, v))
<1>1. k + 1 \in 1..Stages - 1 /\ k + 2 \in 1..Stages
  OBVIOUS
<1>2. Func(k + 1, v) \in ChanType[(k + 1) + 1]
  BY <1>1, FuncAssumption
<1>3. Func(k + 1, v) \in Values
  BY <1>1, <1>2 DEF Values
<1>4. PICK s \in [0..k -> Values] :
        s[0] = i /\ s[k] = v /\ \A j \in 1..k : s[j] = Func(j, s[j - 1])
  BY DEF Made
<1> DEFINE t == [j \in 0..k + 1 |-> IF j <= k THEN s[j] ELSE Func(k + 1, v)]
<1>5. t \in [0..k + 1 -> Values] /\ t[0] = i /\ t[k + 1] = Func(k + 1, v)
  BY <1>3, <1>4
<1>6. ASSUME NEW j \in 1..k + 1 PROVE t[j] = Func(j, t[j - 1])
  <2>1. CASE j <= k
    <3>1. j \in 1..k /\ j - 1 \in 0..k /\ j - 1 <= k /\ j - 1 \in 0..k + 1 /\ j \in 0..k + 1
      BY <2>1
    <3>2. t[j] = s[j] /\ t[j - 1] = s[j - 1]
      BY <2>1, <3>1
    <3>3. QED BY <1>4, <3>1, <3>2
  <2>2. CASE j = k + 1
    <3>1. j - 1 = k /\ t[j - 1] = s[k]
      BY <2>2
    <3>2. QED BY <1>4, <1>5, <2>2, <3>1
  <2>3. QED BY <2>1, <2>2
<1> HIDE DEF t
<1>7. QED BY <1>5, <1>6 DEF Made

\* After the last function there is what the pipeline makes of the element.
LEMMA MadeIsThrough ==
  ASSUME NEW i, NEW v, Made(i, Stages - 1, v)
  PROVE  Through(i) = v
<1> DEFINE n == Stages - 1
           e(s) == [k \in 0..n |-> IF k = 0 THEN i ELSE Func(k, s[k - 1])]
           g == CHOOSE s : s = e(s)
<1>0. n \in Nat /\ n = Stages - 1
  OBVIOUS
<1>1. PICK s \in [0..n -> Values] :
        s[0] = i /\ s[n] = v /\ \A j \in 1..n : s[j] = Func(j, s[j - 1])
  BY DEF Made
<1>2. s = e(s)
  <2>1. \A k \in 0..n : s[k] = IF k = 0 THEN i ELSE Func(k, s[k - 1])
    BY <1>0, <1>1
  <2>2. QED BY <1>1, <2>1
<1>3. g = e(g)
  BY <1>2
<1>4. \A k \in 0..n : g[k] = IF k = 0 THEN i ELSE Func(k, g[k - 1])
  BY <1>3
<1>5. Through(i) = g[n]
  BY DEF Through
<1> HIDE DEF g, n
<1> DEFINE S == {k \in Nat : k <= n => g[k] = s[k]}
<1>6. S = Nat
  <2>1. 0 \in S
    BY <1>0, <1>1, <1>4
  <2>2. ASSUME NEW k \in Nat, k \in S PROVE k + 1 \in S
    <3> SUFFICES ASSUME k + 1 <= n PROVE g[k + 1] = s[k + 1]
      OBVIOUS
    <3>1. k + 1 \in 0..n /\ k + 1 \in 1..n /\ k + 1 # 0 /\ (k + 1) - 1 = k
      BY <1>0
    <3>2. g[k] = s[k]
      BY <1>0, <2>2
    <3>3. QED BY <1>1, <1>4, <3>1, <3>2
  <2> HIDE DEF S
  <2>3. S \subseteq Nat
    BY DEF S
  <2>4. QED BY <2>1, <2>2, <2>3, NatBySteps
<1>7. QED BY <1>0, <1>1, <1>5, <1>6

-----------------------------------------------------------------------------
\* The places and what is there, before a step ...
LEMMA WhatIsWhere ==
  /\ \A k \in 1..Stages : <<"channel", k>> \in Places
                            /\ Whereabouts[<<"channel", k>>] = IdsIn(chan[k])
  /\ \A w \in Workers : <<"hand", w>> \in Places
        /\ Whereabouts[<<"hand", w>>] = IF pc[w] \in Working THEN {held[w].id} ELSE {}
  /\ <<"consumed", 0>> \in Places
  /\ Whereabouts[<<"consumed", 0>>] = {consumed[j] : j \in 1..Len(consumed)}
BY DEF Whereabouts, Places, IdsAt

\* ... and after it.
LEMMA WhatIsWhereNext ==
  /\ \A k \in 1..Stages : Whereabouts'[<<"channel", k>>] = IdsIn(chan'[k])
  /\ \A w \in Workers :
        Whereabouts'[<<"hand", w>>] = IF pc'[w] \in Working THEN {held'[w].id} ELSE {}
  /\ Whereabouts'[<<"consumed", 0>>] = {consumed'[j] : j \in 1..Len(consumed')}
<1>1. Whereabouts' = [p \in Places |-> IdsAt(p)']
  BY DEF Whereabouts, Places
<1>2. QED BY <1>1 DEF Places, IdsAt, IdsIn

\* There are no other places.
LEMMA ThreeKinds ==
  ASSUME NEW p \in Places
  PROVE  \/ \E k \in 1..Stages : p = <<"channel", k>>
         \/ \E w \in Workers : p = <<"hand", w>>
         \/ p = <<"consumed", 0>>
BY DEF Places

\* Hands that neither take nor give.
LEMMA SameHands ==
  ASSUME NEW v \in Workers, pc'[v] \in Working <=> pc[v] \in Working,
         pc[v] \in Working => held'[v] = held[v]
  PROVE  Whereabouts'[<<"hand", v>>] = Whereabouts[<<"hand", v>>]
<1>1. CASE pc[v] \in Working
  BY <1>1, WhatIsWhere, WhatIsWhereNext
<1>2. CASE pc[v] \notin Working
  BY <1>2, WhatIsWhere, WhatIsWhereNext
<1>3. QED BY <1>1, <1>2

\* A step that moves no element.
LEMMA OnceStays ==
  ASSUME Once, chan' = chan, consumed' = consumed, next' = next,
         \A w \in Workers : /\ pc'[w] \in Working <=> pc[w] \in Working
                            /\ pc[w] \in Working => held'[w] = held[w]
  PROVE  Once'
<1>1. ASSUME NEW p \in Places PROVE Whereabouts'[p] = Whereabouts[p]
  <2>1. CASE \E k \in 1..Stages : p = <<"channel", k>>
    BY <2>1, WhatIsWhere, WhatIsWhereNext
  <2>2. CASE \E w \in Workers : p = <<"hand", w>>
    BY <2>2, SameHands
  <2>3. CASE p = <<"consumed", 0>>
    BY <2>3, WhatIsWhere, WhatIsWhereNext
  <2>4. QED BY <2>1, <2>2, <2>3, ThreeKinds
<1>2. Partition(Whereabouts', Places, 0..next - 1)
  BY <1>1 DEF Once, Partition
<1>3. QED BY <1>2 DEF Once, Places, Partition

\* A post by the driver: the next element arrives in the first channel.
LEMMA OncePosted ==
  ASSUME TypeOK, ClosedBehindTheWork, Processed, Once, DriverPost
  PROVE  Once'
<1> DEFINE m == held[Driver]
           F == Whereabouts
           G == Whereabouts'
           b == <<"channel", 1>>
<1>1. /\ m \in Element(1) /\ m.id = next /\ ~closed[1] /\ 1 \in 1..Stages
      /\ chan' = [chan EXCEPT ![1] = Append(@, m)]
      /\ consumed' = consumed /\ next' = next + 1 /\ next \in Nat
      /\ \A w \in Workers : pc'[w] = pc[w] /\ held'[w] = held[w]
  <2>1. pc[Driver] = "post" /\ ChanPost(1, m) /\ Goto(Driver, "acquire")
    BY DEF DriverPost
  <2>2. m \in Element(1) /\ ~closed[1] /\ m = Elem(next, next)
    BY <2>1, PostedTyped, OpenWhilePosting DEF Processed
  <2>3. \A w \in Workers : w # Driver
    BY StageType
  <2>4. m.id = next
    BY <2>2 DEF Elem
  <2> HIDE DEF m
  <2>5. chan' = [chan EXCEPT ![1] = Append(@, m)] /\ consumed' = consumed /\ next' = next + 1
    BY <2>2 DEF DriverPost, ChanPost, m
  <2>6. \A w \in Workers : pc'[w] = pc[w] /\ held'[w] = held[w]
    BY <2>3 DEF DriverPost, Goto, TypeOK, PlacesOK, HandsOK, Actors
  <2>7. next \in Nat
    BY DEF TypeOK, TotalsOK
  <2>8. QED BY <2>2, <2>4, <2>5, <2>6, <2>7
<1>2. chan[1] \in Seq(Element(1)) /\ chan'[1] = Append(chan[1], m)
      /\ \A k \in 1..Stages : k # 1 => chan'[k] = chan[k]
  BY <1>1 DEF TypeOK, ChannelsOK
<1> HIDE DEF m
<1>3. b \in Places /\ F[b] = IdsIn(chan[1]) /\ G[b] = IdsIn(chan'[1])
  BY <1>1, WhatIsWhere, WhatIsWhereNext
<1>4. next \notin 0..next - 1 /\ next \notin IdsIn(chan[1]) /\ (0..next - 1) \cup {next} = 0..next' - 1
  <2>1. F[b] \subseteq 0..next - 1
    BY <1>3 DEF Once, Partition
  <2>2. QED BY <1>1, <1>3, <2>1
<1>5. G[b] = F[b] \cup {next} /\ Distinct(chan'[1])
  <2>1. Distinct(chan[1])
    BY <1>1 DEF Once
  <2>2. QED BY <1>1, <1>2, <1>3, <1>4, <2>1, PuttingIn
<1>6. ASSUME NEW p \in Places, p # b PROVE G[p] = F[p]
  <2>1. CASE \E k \in 1..Stages : p = <<"channel", k>>
    BY <1>2, <1>6, <2>1, WhatIsWhere, WhatIsWhereNext
  <2>2. CASE \E w \in Workers : p = <<"hand", w>>
    BY <1>1, <2>2, SameHands
  <2>3. CASE p = <<"consumed", 0>>
    BY <1>1, <2>3, WhatIsWhere, WhatIsWhereNext
  <2>4. QED BY <2>1, <2>2, <2>3, ThreeKinds
<1> DEFINE S == 0..next - 1
<1>7. Partition(F, Places, S) /\ next \notin S
  BY <1>4 DEF Once
<1> HIDE DEF F, G, b, S
<1>8. Partition(G, Places, S \cup {next})
  <2>1. \A p \in Places \ {b} : G[p] = F[p]
    BY <1>6
  <2>2. b \in Places /\ G[b] = F[b] \cup {next}
    BY <1>3, <1>5
  <2>3. QED BY ONLY <1>7, <2>1, <2>2, Arrives
<1>9. Partition(G, Places, 0..next' - 1)
  BY <1>4, <1>8 DEF S
<1>10. \A k \in 1..Stages : Distinct(chan'[k])
  BY <1>2, <1>5 DEF Once
<1>11. \A i, j \in 1..Len(consumed') : i # j => consumed'[i] # consumed'[j]
  BY <1>1 DEF Once
<1>12. QED BY <1>9, <1>10, <1>11 DEF Once, G, Places, Distinct, Partition

\* A pull: the first element of the channel goes to the worker's hands.
LEMMA OncePulled ==
  ASSUME TypeOK, Once, NEW w \in Workers, Pull(w)
  PROVE  Once'
<1> DEFINE n == Stage(w)
           m == Head(chan[n])
           F == Whereabouts
           G == Whereabouts'
           a == <<"channel", n>>
           b == <<"hand", w>>
<1>1. /\ n \in 1..Stages /\ chan[n] # <<>> /\ chan[n] \in Seq(Element(n))
      /\ chan'[n] = Tail(chan[n]) /\ \A k \in 1..Stages : k # n => chan'[k] = chan[k]
      /\ consumed' = consumed /\ next' = next
      /\ pc[w] \notin Working /\ pc'[w] \in Working /\ held'[w] = m
      /\ \A v \in Workers : v # w => pc'[v] = pc[v] /\ held'[v] = held[v]
  <2>1. /\ pc[w] = "pull" /\ pc' = [pc EXCEPT ![w] = "release"] /\ w \in Actors
        /\ held' = [held EXCEPT ![w] = m] /\ chan' = [chan EXCEPT ![n] = Tail(@)]
    BY DEF Pull, Goto, Actors
  <2>2. n \in 1..Stages /\ pc \in [Actors -> DriverPC \cup WorkerPC]
        /\ held = [x \in Actors |-> held[x]] /\ chan = [k \in 1..Stages |-> chan[k]]
        /\ chan[n] \in Seq(Element(n))
    BY StageType DEF TypeOK, PlacesOK, HandsOK, ChannelsOK
  <2> HIDE DEF n, m
  <2>3. pc'[w] = "release" /\ held'[w] = m /\ chan'[n] = Tail(chan[n])
    BY <2>1, <2>2
  <2>4. \A k \in 1..Stages : k # n => chan'[k] = chan[k]
    BY <2>1, <2>2
  <2>5. \A v \in Workers : v # w => pc'[v] = pc[v] /\ held'[v] = held[v]
    BY <2>1, <2>2 DEF Actors
  <2>6. chan[n] # <<>> /\ consumed' = consumed /\ next' = next
    BY DEF Pull, n
  <2>7. QED BY <2>1, <2>2, <2>3, <2>4, <2>5, <2>6 DEF Working
<1> HIDE DEF n, m
<1>2. /\ a \in Places /\ b \in Places /\ a # b
      /\ F[a] = IdsIn(chan[n]) /\ G[a] = IdsIn(chan'[n]) /\ F[b] = {} /\ G[b] = {m.id}
  BY <1>1, WhatIsWhere, WhatIsWhereNext
<1>3. m.id \in F[a] /\ G[a] = F[a] \ {m.id} /\ G[b] = F[b] \cup {m.id} /\ Distinct(chan'[n])
  <2>1. Distinct(chan[n])
    BY <1>1 DEF Once
  <2>2. QED BY <1>1, <1>2, <2>1, TakingOut DEF m
<1>4. ASSUME NEW p \in Places, p # a, p # b PROVE G[p] = F[p]
  <2>1. CASE \E k \in 1..Stages : p = <<"channel", k>>
    BY <1>1, <1>4, <2>1, WhatIsWhere, WhatIsWhereNext
  <2>2. CASE \E v \in Workers : p = <<"hand", v>>
    BY <1>1, <1>4, <2>2, SameHands
  <2>3. CASE p = <<"consumed", 0>>
    BY <1>1, <2>3, WhatIsWhere, WhatIsWhereNext
  <2>4. QED BY <2>1, <2>2, <2>3, ThreeKinds
<1>5. Partition(F, Places, 0..next - 1)
  BY DEF Once
<1> HIDE DEF F, G, a, b
<1>6. Partition(G, Places, 0..next - 1)
  <2>1. \A p \in Places \ {a, b} : G[p] = F[p]
    BY <1>4
  <2>2. QED BY ONLY <1>2, <1>3, <1>5, <2>1, Moves
<1>7. \A k \in 1..Stages : Distinct(chan'[k])
  BY <1>1, <1>3 DEF Once
<1>8. \A i, j \in 1..Len(consumed') : i # j => consumed'[i] # consumed'[j]
  BY <1>1 DEF Once
<1>9. QED BY <1>1, <1>6, <1>7, <1>8 DEF Once, G, Places, Distinct, Partition

\* A post by a worker: what it held goes to the next channel.
LEMMA OncePassedOn ==
  ASSUME TypeOK, ClosedBehindTheWork, Once, NEW w \in Workers, ProcessAndPost(w)
  PROVE  Once'
<1> DEFINE n == Stage(w) + 1
           m == Elem(held[w].id, Func(Stage(w), held[w].val))
           F == Whereabouts
           G == Whereabouts'
           a == <<"hand", w>>
           b == <<"channel", n>>
<1>1. /\ n \in 1..Stages /\ chan[n] \in Seq(Element(n)) /\ m \in Element(n) /\ m.id = held[w].id
      /\ chan'[n] = Append(chan[n], m) /\ \A k \in 1..Stages : k # n => chan'[k] = chan[k]
      /\ consumed' = consumed /\ next' = next
      /\ pc[w] \in Working /\ pc'[w] \notin Working
      /\ \A v \in Workers : v # w => pc'[v] = pc[v] /\ held'[v] = held[v]
  <2>1. /\ pc[w] = "post" /\ pc' = [pc EXCEPT ![w] = "pull"] /\ w \in Actors
        /\ held' = [held EXCEPT ![w] = Nothing] /\ ChanPost(n, m)
        /\ consumed' = consumed /\ next' = next
    BY DEF ProcessAndPost, Goto, Actors
  <2>2. Stage(w) \in 1..Stages /\ Stage(w) < Stages
    BY <2>1, StageType DEF TypeOK, PlacesOK
  <2>3. n \in 1..Stages /\ m \in Element(n) /\ ~closed[n] /\ m.id = held[w].id
    <3>1. n \in 1..Stages
      BY <2>2
    <3>2. m \in Element(n)
      BY <2>1, PostedTyped
    <3>3. pc[w] # "done" /\ Stage(w) < Stages
      BY <2>1, <2>2
    <3>4. ~closed[n]
      BY <3>3, OpenWhilePosting
    <3>5. m.id = held[w].id
      BY DEF Elem
    <3>6. QED BY ONLY <3>1, <3>2, <3>4, <3>5
  <2> HIDE DEF n, m
  <2>4. pc \in [Actors -> DriverPC \cup WorkerPC]
        /\ held = [x \in Actors |-> held[x]] /\ chan = [k \in 1..Stages |-> chan[k]]
        /\ chan[n] \in Seq(Element(n))
    BY <2>3 DEF TypeOK, PlacesOK, HandsOK, ChannelsOK
  <2>5. chan' = [chan EXCEPT ![n] = Append(@, m)]
    BY <2>1, <2>3 DEF ChanPost
  <2>6. chan'[n] = Append(chan[n], m) /\ \A k \in 1..Stages : k # n => chan'[k] = chan[k]
    BY <2>3, <2>4, <2>5
  <2>7. pc'[w] = "pull" /\ \A v \in Workers : v # w => pc'[v] = pc[v] /\ held'[v] = held[v]
    BY <2>1, <2>4 DEF Actors
  <2>8. QED BY <2>1, <2>3, <2>4, <2>6, <2>7 DEF Working
<1> HIDE DEF n, m
<1>2. /\ a \in Places /\ b \in Places /\ a # b
      /\ F[a] = {m.id} /\ G[a] = {} /\ F[b] = IdsIn(chan[n]) /\ G[b] = IdsIn(chan'[n])
  BY <1>1, WhatIsWhere, WhatIsWhereNext
<1>3. m.id \notin F[b]
  <2>1. F[a] \cap F[b] = {}
    BY <1>2 DEF Once, Partition
  <2>2. QED BY <1>2, <2>1
<1>4. m.id \in F[a] /\ G[a] = F[a] \ {m.id} /\ G[b] = F[b] \cup {m.id} /\ Distinct(chan'[n])
  <2>1. Distinct(chan[n])
    BY <1>1 DEF Once
  <2>2. IdsIn(chan'[n]) = IdsIn(chan[n]) \cup {m.id} /\ Distinct(chan'[n])
    <3>1. m.id \notin IdsIn(chan[n])
      BY <1>2, <1>3
    <3>2. QED BY <1>1, <2>1, <3>1, PuttingIn
  <2>3. QED BY <1>2, <2>2
<1>5. ASSUME NEW p \in Places, p # a, p # b PROVE G[p] = F[p]
  <2>1. CASE \E k \in 1..Stages : p = <<"channel", k>>
    BY <1>1, <1>5, <2>1, WhatIsWhere, WhatIsWhereNext
  <2>2. CASE \E v \in Workers : p = <<"hand", v>>
    BY <1>1, <1>5, <2>2, SameHands
  <2>3. CASE p = <<"consumed", 0>>
    BY <1>1, <2>3, WhatIsWhere, WhatIsWhereNext
  <2>4. QED BY <2>1, <2>2, <2>3, ThreeKinds
<1>6. Partition(F, Places, 0..next - 1)
  BY DEF Once
<1> HIDE DEF F, G, a, b
<1>7. Partition(G, Places, 0..next - 1)
  <2>1. \A p \in Places \ {a, b} : G[p] = F[p]
    BY <1>5
  <2>2. QED BY ONLY <1>2, <1>4, <1>6, <2>1, Moves
<1>8. \A k \in 1..Stages : Distinct(chan'[k])
  BY <1>1, <1>4 DEF Once
<1>9. \A i, j \in 1..Len(consumed') : i # j => consumed'[i] # consumed'[j]
  BY <1>1 DEF Once
<1>10. QED BY <1>1, <1>7, <1>8, <1>9 DEF Once, G, Places, Distinct, Partition

\* The last stage: what its worker held counts as consumed.
LEMMA OnceConsumed ==
  ASSUME TypeOK, Once, NEW w \in Workers, ConsumeStore(w)
  PROVE  /\ Once'
         /\ \A j \in 1..Len(consumed) : consumed[j] # held[w].id
<1> DEFINE x == held[w].id
           F == Whereabouts
           G == Whereabouts'
           a == <<"hand", w>>
           b == <<"consumed", 0>>
<1>1. /\ x \in 0..NELEMS - 1 /\ consumed \in Seq(0..NELEMS - 1)
      /\ chan' = chan /\ next' = next /\ consumed' = Append(consumed, x)
      /\ pc[w] \in Working /\ pc'[w] \notin Working
      /\ \A v \in Workers : v # w => pc'[v] = pc[v] /\ held'[v] = held[v]
  <2>1. /\ pc[w] = "store" /\ pc' = [pc EXCEPT ![w] = "pull"] /\ w \in Actors
        /\ held' = [held EXCEPT ![w] = Nothing] /\ consumed' = Append(consumed, x)
        /\ chan' = chan /\ next' = next
    BY DEF ConsumeStore, Goto, Actors
  <2>2. x \in 0..NELEMS - 1 /\ consumed \in Seq(0..NELEMS - 1)
    BY <2>1 DEF TypeOK, HandsOK, TotalsOK, Element
  <2>3. pc \in [Actors -> DriverPC \cup WorkerPC] /\ held = [y \in Actors |-> held[y]]
    BY DEF TypeOK, PlacesOK, HandsOK
  <2>4. pc'[w] = "pull" /\ \A v \in Workers : v # w => pc'[v] = pc[v] /\ held'[v] = held[v]
    BY <2>1, <2>3 DEF Actors
  <2>5. QED BY <2>1, <2>2, <2>4 DEF Working
<1> HIDE DEF x
<1>2. /\ a \in Places /\ b \in Places /\ a # b /\ F[a] = {x} /\ G[a] = {}
      /\ F[b] = {consumed[j] : j \in 1..Len(consumed)}
      /\ G[b] = {consumed'[j] : j \in 1..Len(consumed')}
  <2>1. F[a] = {x}
    BY <1>1, WhatIsWhere DEF x
  <2>2. QED BY <1>1, <2>1, WhatIsWhere, WhatIsWhereNext
<1>3. \A j \in 1..Len(consumed) : consumed[j] # x
  <2>1. F[a] \cap F[b] = {}
    BY <1>2 DEF Once, Partition
  <2>2. QED BY <1>2, <2>1
<1>4. /\ Len(consumed) \in Nat /\ Len(consumed') = Len(consumed) + 1
      /\ consumed'[Len(consumed) + 1] = x
      /\ \A j \in 1..Len(consumed) : consumed'[j] = consumed[j]
  BY <1>1, AppendProperties
<1>5. \A j \in 1..Len(consumed') : j = Len(consumed) + 1 \/ j \in 1..Len(consumed)
  BY <1>4
<1>6. Len(consumed) + 1 \in 1..Len(consumed') /\ \A j \in 1..Len(consumed) : j \in 1..Len(consumed')
  BY <1>4
<1>7. x \in F[a] /\ G[a] = F[a] \ {x} /\ G[b] = F[b] \cup {x}
  <2>1. \A y \in G[b] : y \in F[b] \cup {x}
    BY <1>2, <1>4, <1>5
  <2>2. \A y \in F[b] \cup {x} : y \in G[b]
    BY <1>2, <1>4, <1>6
  <2>3. QED BY <1>2, <2>1, <2>2
<1>8. \A i, j \in 1..Len(consumed') : i # j => consumed'[i] # consumed'[j]
  <2>1. \A i, j \in 1..Len(consumed) : i # j => consumed[i] # consumed[j]
    BY DEF Once
  <2>2. QED BY <1>3, <1>4, <1>5, <2>1
<1>9. ASSUME NEW p \in Places, p # a, p # b PROVE G[p] = F[p]
  <2>1. CASE \E k \in 1..Stages : p = <<"channel", k>>
    BY <1>1, <1>9, <2>1, WhatIsWhere, WhatIsWhereNext
  <2>2. CASE \E v \in Workers : p = <<"hand", v>>
    BY <1>1, <1>9, <2>2, SameHands
  <2>3. QED BY <1>9, <2>1, <2>2, ThreeKinds
<1>10. Partition(F, Places, 0..next - 1)
  BY DEF Once
<1> HIDE DEF F, G, a, b
<1>11. Partition(G, Places, 0..next - 1)
  <2>1. \A p \in Places \ {a, b} : G[p] = F[p]
    BY <1>9
  <2>2. QED BY ONLY <1>2, <1>7, <1>10, <2>1, Moves
<1>12. \A k \in 1..Stages : Distinct(chan'[k])
  BY <1>1 DEF Once
<1>13. Once'
  BY <1>1, <1>8, <1>11, <1>12 DEF Once, G, Places, Distinct, Partition
<1>14. QED BY <1>3, <1>13 DEF x

-----------------------------------------------------------------------------
\* Whatever is at stage k has been through the stages before it: the steps.
LEMMA KeepsProcessed ==
  TypeOK /\ BornWithStage /\ ClosedBehindTheWork /\ Processed /\ [Next]_vars => Processed'
<1> SUFFICES ASSUME TypeOK, BornWithStage, ClosedBehindTheWork, Processed, [Next]_vars
             PROVE  Processed'
  OBVIOUS
<1>a. /\ pc \in [Actors -> DriverPC \cup WorkerPC] /\ held = [x \in Actors |-> held[x]]
      /\ chan = [k \in 1..Stages |-> chan[k]] /\ Driver \in Actors
      /\ \A k \in 1..Stages : chan[k] \in Seq(Element(k))
      /\ \A w \in Workers : w \in Actors /\ w # Driver /\ Stage(w) \in 1..Stages
  BY StageType DEF TypeOK, PlacesOK, HandsOK, ChannelsOK, Actors
<1>b. ASSUME chan' = chan, pc'[Driver] = "post" => held'[Driver] = Elem(next', next'),
             \A w \in Workers : pc'[w] \in Working => pc[w] \in Working /\ held'[w] = held[w]
      PROVE  Processed'
  <2>1. \A k \in 1..Stages : \A j \in 1..Len(chan'[k]) :
            Made(chan'[k][j].id, k - 1, chan'[k][j].val)
    BY <1>b DEF Processed
  <2>2. \A w \in Workers : pc'[w] \in Working => Made(held'[w].id, Stage(w) - 1, held'[w].val)
    BY <1>b DEF Processed
  <2>3. QED BY <1>b, <2>1, <2>2 DEF Processed, Made, Stage
<1>1. CASE Construct
  <2>1. chan' = chan /\ held' = held /\ pc'[Driver] # "post"
    BY <1>1, <1>a DEF Construct
  <2>2. \A w \in Workers : pc'[w] \in Working => pc[w] \in Working
    BY <1>1, <1>a DEF Construct, Working
  <2>3. QED BY <1>b, <2>1, <2>2
<1>2. CASE DriverAcquire
  <2>1. chan' = chan /\ next' = next /\ held'[Driver] = Elem(next, next)
    BY <1>2, <1>a DEF DriverAcquire
  <2>2. \A w \in Workers : pc'[w] = pc[w] /\ held'[w] = held[w]
    BY <1>2, <1>a DEF DriverAcquire, Goto
  <2>3. QED BY <1>b, <2>1, <2>2
<1>3. CASE DriverPost
  <2> DEFINE m == held[Driver]
  <2>1. pc[Driver] = "post" /\ ChanPost(1, m) /\ pc'[Driver] = "acquire"
    BY <1>3, <1>a DEF DriverPost, Goto
  <2>2. m \in Element(1) /\ ~closed[1] /\ m = Elem(next, next) /\ next \in 0..NELEMS - 1
    BY <2>1, PostedTyped, OpenWhilePosting DEF Processed, TypeOK, TotalsOK
  <2>3. Made(m.id, 0, m.val)
    BY <2>2, MadeAtFirst DEF Elem
  <2>4. \A w \in Workers : pc'[w] = pc[w] /\ held'[w] = held[w]
    BY <1>3, <1>a DEF DriverPost, Goto
  <2> HIDE DEF m
  <2>5. 1 \in 1..Stages /\ chan' = [chan EXCEPT ![1] = Append(@, m)]
    BY <2>1, <2>2 DEF ChanPost
  <2>6. chan'[1] = Append(chan[1], m) /\ \A k \in 1..Stages : k # 1 => chan'[k] = chan[k]
    BY <1>a, <2>5
  <2>7. \A j \in 1..Len(chan'[1]) : Made(chan'[1][j].id, 0, chan'[1][j].val)
    <3>1. /\ Len(chan[1]) \in Nat /\ Len(chan'[1]) = Len(chan[1]) + 1
          /\ chan'[1][Len(chan[1]) + 1] = m
          /\ \A j \in 1..Len(chan[1]) : chan'[1][j] = chan[1][j]
      BY <1>a, <2>2, <2>5, <2>6, AppendProperties
    <3>2. \A j \in 1..Len(chan'[1]) : j = Len(chan[1]) + 1 \/ j \in 1..Len(chan[1])
      BY <3>1
    <3>3. \A j \in 1..Len(chan[1]) : Made(chan[1][j].id, 0, chan[1][j].val)
      BY <2>5 DEF Processed
    <3>4. QED BY <2>3, <3>1, <3>2, <3>3
  <2>8. \A k \in 1..Stages : \A j \in 1..Len(chan'[k]) :
            Made(chan'[k][j].id, k - 1, chan'[k][j].val)
    <3> SUFFICES ASSUME NEW k \in 1..Stages
                 PROVE  \A j \in 1..Len(chan'[k]) : Made(chan'[k][j].id, k - 1, chan'[k][j].val)
      OBVIOUS
    <3>1. CASE k = 1
      <4>1. k - 1 = 0
        BY <3>1
      <4>2. QED BY <2>7, <3>1, <4>1
    <3>2. CASE k # 1
      BY <2>6, <3>2 DEF Processed
    <3>3. QED BY <3>1, <3>2
  <2>9. \A w \in Workers : pc'[w] \in Working => Made(held'[w].id, Stage(w) - 1, held'[w].val)
    BY <2>4 DEF Processed
  <2>10. QED BY <2>1, <2>8, <2>9 DEF Processed, Made, Stage
<1>4. CASE DriverClose \/ DriverDrained \/ DriverJoin
  <2>1. chan' = chan /\ held' = held /\ pc'[Driver] # "post"
    BY <1>4, <1>a DEF DriverClose, DriverDrained, DriverJoin, Goto
  <2>2. \A w \in Workers : pc'[w] = pc[w]
    BY <1>4, <1>a DEF DriverClose, DriverDrained, DriverJoin, Goto
  <2>3. QED BY <1>b, <2>1, <2>2
<1>5. ASSUME NEW w \in Workers, Pull(w) PROVE Processed'
  <2> DEFINE n == Stage(w)
  <2>1. /\ pc' = [pc EXCEPT ![w] = "release"] /\ chan[n] # <<>>
        /\ held' = [held EXCEPT ![w] = Head(chan[n])] /\ chan' = [chan EXCEPT ![n] = Tail(@)]
        /\ next' = next
    BY <1>5 DEF Pull, Goto
  <2>2. n \in 1..Stages /\ chan[n] \in Seq(Element(n))
    BY <1>a
  <2>3. \A j \in 1..Len(chan[n]) : Made(chan[n][j].id, n - 1, chan[n][j].val)
    BY <2>2 DEF Processed
  <2> HIDE DEF n
  <2>4. /\ Head(chan[n]) = chan[n][1] /\ 1 \in 1..Len(chan[n])
        /\ \A j \in 1..Len(Tail(chan[n])) :
                j + 1 \in 1..Len(chan[n]) /\ Tail(chan[n])[j] = chan[n][j + 1]
    BY <2>1, <2>2
  <2>5. /\ held'[w] = Head(chan[n]) /\ chan'[n] = Tail(chan[n])
        /\ \A k \in 1..Stages : k # n => chan'[k] = chan[k]
    BY <1>a, <2>1, <2>2
  <2>6. /\ pc'[Driver] = pc[Driver] /\ held'[Driver] = held[Driver]
        /\ \A v \in Workers : v # w => pc'[v] = pc[v] /\ held'[v] = held[v]
    BY <1>a, <2>1
  <2>7. \A k \in 1..Stages : \A j \in 1..Len(chan'[k]) :
            Made(chan'[k][j].id, k - 1, chan'[k][j].val)
    <3>1. \A j \in 1..Len(chan'[n]) : Made(chan'[n][j].id, n - 1, chan'[n][j].val)
      BY <2>3, <2>4, <2>5
    <3>2. QED BY <2>5, <3>1 DEF Processed
  <2>8. Made(held'[w].id, Stage(w) - 1, held'[w].val)
    BY <2>3, <2>4, <2>5 DEF n
  <2>9. \A v \in Workers : pc'[v] \in Working => Made(held'[v].id, Stage(v) - 1, held'[v].val)
    BY <2>6, <2>8 DEF Processed
  <2>10. pc'[Driver] = "post" => held'[Driver] = Elem(next', next')
    BY <2>1, <2>6 DEF Processed
  <2>11. QED BY <2>7, <2>9, <2>10 DEF Processed, Made, Stage
<1>6. ASSUME NEW w \in Workers, PullClosed(w) \/ Release(w) \/ Acquire(w) \/ ConsumeLoad(w)
      PROVE  Processed'
  <2>1. chan' = chan /\ held' = held /\ next' = next /\ pc'[Driver] = pc[Driver]
    BY <1>6, <1>a DEF PullClosed, Release, Acquire, ConsumeLoad, Goto
  <2>2. \A v \in Workers : pc'[v] \in Working => pc[v] \in Working
    BY <1>6, <1>a DEF PullClosed, Release, Acquire, ConsumeLoad, Goto, Working
  <2>3. QED BY <1>b, <2>1, <2>2 DEF Processed
<1>7. ASSUME NEW w \in Workers, ProcessAndPost(w) PROVE Processed'
  <2> DEFINE n == Stage(w) + 1
             m == Elem(held[w].id, Func(Stage(w), held[w].val))
  <2>1. /\ pc[w] = "post" /\ pc' = [pc EXCEPT ![w] = "pull"] /\ next' = next
        /\ held' = [held EXCEPT ![w] = Nothing] /\ ChanPost(n, m)
    BY <1>7 DEF ProcessAndPost, Goto
  <2>2. Stage(w) \in 1..Stages /\ Stage(w) < Stages /\ held[w] \in Element(Stage(w))
    BY <2>1, <1>a DEF TypeOK, PlacesOK, HandsOK
  <2>3. n \in 1..Stages /\ m \in Element(n) /\ n - 1 = Stage(w)
    BY <2>1, <2>2, PostedTyped
  <2>4. ~closed[n]
    BY <2>1, <2>2, OpenWhilePosting
  <2>5. Made(m.id, n - 1, m.val)
    <3> DEFINE i == held[w].id
               v == held[w].val
    <3>1. PICK k \in 0..Stages - 2 : k = Stage(w) - 1 /\ Stage(w) = k + 1
      <4>1. Stage(w) - 1 \in 0..Stages - 2 /\ Stage(w) = (Stage(w) - 1) + 1
        BY <2>2
      <4>2. QED BY <4>1
    <3>2. Made(i, k, v)
      BY <2>1, <3>1 DEF Processed, Working
    <3>3. v \in ChanType[k + 1]
      BY <2>2, <3>1 DEF Element
    <3> HIDE DEF i, v
    <3>4. Made(i, k + 1, Func(k + 1, v))
      BY <3>2, <3>3, MadeNext
    <3>5. m.id = i /\ m.val = Func(k + 1, v)
      BY <3>1 DEF Elem, i, v
    <3>6. QED BY <2>3, <3>1, <3>4, <3>5
  <2> HIDE DEF n, m
  <2>6. chan' = [chan EXCEPT ![n] = Append(@, m)]
    BY <2>1, <2>4 DEF ChanPost
  <2>7. chan'[n] = Append(chan[n], m) /\ \A k \in 1..Stages : k # n => chan'[k] = chan[k]
    BY <1>a, <2>3, <2>6
  <2>8. \A j \in 1..Len(chan'[n]) : Made(chan'[n][j].id, n - 1, chan'[n][j].val)
    <3>1. /\ Len(chan[n]) \in Nat /\ Len(chan'[n]) = Len(chan[n]) + 1
          /\ chan'[n][Len(chan[n]) + 1] = m
          /\ \A j \in 1..Len(chan[n]) : chan'[n][j] = chan[n][j]
      BY <1>a, <2>3, <2>7, AppendProperties
    <3>2. \A j \in 1..Len(chan'[n]) : j = Len(chan[n]) + 1 \/ j \in 1..Len(chan[n])
      BY <3>1
    <3>3. \A j \in 1..Len(chan[n]) : Made(chan[n][j].id, n - 1, chan[n][j].val)
      BY <2>3 DEF Processed
    <3>4. QED BY <2>5, <3>1, <3>2, <3>3
  <2>9. \A k \in 1..Stages : \A j \in 1..Len(chan'[k]) :
            Made(chan'[k][j].id, k - 1, chan'[k][j].val)
    BY <2>7, <2>8 DEF Processed
  <2>10. pc'[w] = "pull" /\ pc'[Driver] = pc[Driver] /\ held'[Driver] = held[Driver]
         /\ \A v \in Workers : v # w => pc'[v] = pc[v] /\ held'[v] = held[v]
    BY <1>a, <2>1
  <2>11. \A v \in Workers : pc'[v] \in Working => Made(held'[v].id, Stage(v) - 1, held'[v].val)
    BY <2>10 DEF Processed, Working
  <2>12. pc'[Driver] = "post" => held'[Driver] = Elem(next', next')
    BY <2>1, <2>10 DEF Processed
  <2>13. QED BY <2>9, <2>11, <2>12 DEF Processed, Made, Stage
<1>8. ASSUME NEW w \in Workers, ConsumeStore(w) PROVE Processed'
  <2>1. /\ chan' = chan /\ next' = next /\ pc'[Driver] = pc[Driver]
        /\ held'[Driver] = held[Driver] /\ pc'[w] = "pull"
        /\ \A v \in Workers : v # w => pc'[v] = pc[v] /\ held'[v] = held[v]
    BY <1>8, <1>a DEF ConsumeStore, Goto
  <2>2. \A v \in Workers : pc'[v] \in Working => pc[v] \in Working /\ held'[v] = held[v]
    BY <2>1 DEF Working
  <2>3. QED BY <1>b, <2>1, <2>2 DEF Processed
<1>9. ASSUME NEW k \in 1..Stages - 1, DrainerStep(k) PROVE Processed'
  BY <1>9, <1>b DEF DrainerStep, DrainerClose, DrainerDone, Processed
<1>10. CASE UNCHANGED vars
  BY <1>10, <1>b DEF vars, Processed
<1>11. QED
  BY <1>1, <1>2, <1>3, <1>4, <1>5, <1>6, <1>7, <1>8, <1>9, <1>10
  DEF Next, DriverStep, WorkerStep, Terminated

\* Every element posted is in one place: the steps.
LEMMA KeepsOnce ==
  TypeOK /\ BornWithStage /\ ClosedBehindTheWork /\ Processed /\ Once /\ [Next]_vars => Once'
<1> SUFFICES ASSUME TypeOK, BornWithStage, ClosedBehindTheWork, Processed, Once, [Next]_vars
             PROVE  Once'
  OBVIOUS
<1>a. /\ pc \in [Actors -> DriverPC \cup WorkerPC] /\ held = [x \in Actors |-> held[x]]
      /\ \A w \in Workers : w \in Actors /\ w # Driver
  BY StageType DEF TypeOK, PlacesOK, HandsOK, Actors
<1>1. CASE Construct
  <2>1. \A w \in Workers : Stage(w) = built + 1 => pc[w] = "unborn"
    BY <1>1 DEF Construct, BornWithStage, TypeOK, PlacesOK
  <2>2. \A w \in Workers : pc'[w] = IF Stage(w) = built + 1 THEN "pull" ELSE pc[w]
    BY <1>1, <1>a DEF Construct
  <2>3. \A w \in Workers : pc'[w] \in Working <=> pc[w] \in Working
    BY <2>1, <2>2 DEF Working
  <2>4. chan' = chan /\ consumed' = consumed /\ next' = next /\ held' = held
    BY <1>1 DEF Construct
  <2>5. QED BY <2>3, <2>4, OnceStays
<1>2. CASE DriverAcquire \/ DriverClose \/ DriverDrained \/ DriverJoin
  <2>1. chan' = chan /\ consumed' = consumed /\ next' = next
    BY <1>2 DEF DriverAcquire, DriverClose, DriverDrained, DriverJoin
  <2>2. \A w \in Workers : pc'[w] = pc[w] /\ held'[w] = held[w]
    BY <1>2, <1>a DEF DriverAcquire, DriverClose, DriverDrained, DriverJoin, Goto
  <2>3. QED BY <2>1, <2>2, OnceStays
<1>3. CASE DriverPost
  BY <1>3, OncePosted
<1>4. ASSUME NEW w \in Workers, Pull(w) PROVE Once'
  BY <1>4, OncePulled
<1>5. ASSUME NEW w \in Workers, PullClosed(w) \/ Release(w) \/ Acquire(w) \/ ConsumeLoad(w)
      PROVE  Once'
  <2>1. chan' = chan /\ consumed' = consumed /\ next' = next /\ held' = held
    BY <1>5 DEF PullClosed, Release, Acquire, ConsumeLoad
  <2>2. /\ pc'[w] \in Working <=> pc[w] \in Working
        /\ \A v \in Workers : v # w => pc'[v] = pc[v]
    BY <1>5, <1>a DEF PullClosed, Release, Acquire, ConsumeLoad, Goto, Working
  <2>3. QED BY <2>1, <2>2, OnceStays
<1>6. ASSUME NEW w \in Workers, ProcessAndPost(w) PROVE Once'
  BY <1>6, OncePassedOn
<1>7. ASSUME NEW w \in Workers, ConsumeStore(w) PROVE Once'
  BY <1>7, OnceConsumed
<1>8. ASSUME NEW k \in 1..Stages - 1, DrainerStep(k) PROVE Once'
  <2>1. /\ chan' = chan /\ consumed' = consumed /\ next' = next /\ held' = held /\ pc' = pc
    BY <1>8 DEF DrainerStep, DrainerClose, DrainerDone
  <2>2. QED BY <2>1, OnceStays
<1>9. CASE UNCHANGED vars
  BY <1>9, OnceStays DEF vars
<1>10. QED
  BY <1>1, <1>2, <1>3, <1>4, <1>5, <1>6, <1>7, <1>8, <1>9
  DEF Next, DriverStep, WorkerStep, Terminated

(* No element is lost, duplicated or processed by a stage twice, whatever    *)
(* the numbers of elements, stages and workers: from its post by the driver  *)
(* to the end stage it is in one channel or one worker's hands at a time,    *)
(* and there it is what the stages before have made of it.                   *)
THEOREM EveryElementOnce == Spec => [](Once /\ Processed)
<1>1. Init => Once /\ Processed
  <2> SUFFICES ASSUME Init PROVE Once /\ Processed
    OBVIOUS
  <2>1. /\ \A k \in 1..Stages : chan[k] = <<>>
        /\ next = 0 /\ consumed = <<>>
        /\ pc[Driver] # "post" /\ \A w \in Workers : pc[w] \notin Working
    BY StageType DEF Init, Actors, Working
  <2>2. \A p \in Places : Whereabouts[p] = {}
    <3>1. \A k \in 1..Stages : IdsIn(chan[k]) = {}
      BY <2>1 DEF IdsIn
    <3>2. {consumed[j] : j \in 1..Len(consumed)} = {}
      BY <2>1
    <3>3. QED BY <2>1, <3>1, <3>2, WhatIsWhere, ThreeKinds
  <2>3. 0..next - 1 = {}
    BY <2>1
  <2>4. Partition(Whereabouts, Places, 0..next - 1)
    BY <2>2, <2>3 DEF Partition
  <2>5. /\ \A k \in 1..Stages : Distinct(chan[k])
        /\ \A i, j \in 1..Len(consumed) : i # j => consumed[i] # consumed[j]
    BY <2>1 DEF Distinct
  <2>6. Processed
    BY <2>1 DEF Processed
  <2>7. QED BY <2>4, <2>5, <2>6 DEF Once
<1>2. QED
  BY <1>1, KeepsOnce, KeepsProcessed, TypeCorrect, BornInOrder, ClosesBehindTheWork, PTL DEF Spec

-----------------------------------------------------------------------------
\* What the single worker of the last stage loaded is still so when it stores.
LEMMA KeepsUndisturbed ==
  ASSUME \A v, w \in WorkersOf(Stages) : v = w
  PROVE  TypeOK /\ BornWithStage /\ Undisturbed /\ [Next]_vars => Undisturbed'
<1> SUFFICES ASSUME TypeOK, BornWithStage, Undisturbed, [Next]_vars
             PROVE  Undisturbed'
  OBVIOUS
<1>a. /\ pc \in [Actors -> DriverPC \cup WorkerPC] /\ held = [x \in Actors |-> held[x]]
      /\ loaded \in [Workers -> Int \X Nat] /\ Stages \in 1..Stages
      /\ drainer \in [1..Stages - 1 -> {"unborn", "join", "drain", "done"}]
      /\ \A w \in Workers : w \in Actors /\ w # Driver /\ Stage(w) \in 1..Stages
  BY StageType DEF TypeOK, PlacesOK, HandsOK, Actors
<1>b. \A w \in Workers : pc[w] \in {"load", "store"} => w \in WorkersOf(Stages)
  BY <1>a, StageType DEF TypeOK, PlacesOK
<1>c. \A k \in 1..Stages - 1 : WorkersOf(k) \subseteq Workers
  BY DEF WorkersOf
<1>d. ASSUME loaded' = loaded, acc' = acc, drainer' = drainer,
             \A w \in Workers : pc'[w] = "store" => pc[w] = "store" /\ held'[w] = held[w],
             \A w \in Workers : pc[w] = "done" => pc'[w] = "done"
      PROVE  Undisturbed'
  <2>1. \A w \in Workers : pc'[w] = "store" => loaded'[w] = <<acc'[1] + held'[w].val, acc'[2] + 1>>
    BY <1>d DEF Undisturbed
  <2>2. \A k \in 1..Stages - 1 : drainer'[k] \in {"drain", "done"} =>
            \A w \in WorkersOf(k) : pc'[w] = "done"
    BY <1>c, <1>d DEF Undisturbed
  <2>3. QED BY <2>1, <2>2 DEF Undisturbed, WorkersOf
<1>1. CASE Construct
  <2>1. loaded' = loaded /\ acc' = acc /\ held' = held
    BY <1>1 DEF Construct
  <2>2. \A w \in Workers : pc'[w] = IF Stage(w) = built + 1 THEN "pull" ELSE pc[w]
    BY <1>1, <1>a DEF Construct
  <2>3. \A w \in Workers : Stage(w) = built + 1 => pc[w] = "unborn"
    BY <1>1 DEF Construct, BornWithStage, TypeOK, PlacesOK
  <2>4. \A k \in 1..Stages - 1 : drainer'[k] \in {"drain", "done"} => drainer'[k] = drainer[k]
    BY <1>1, <1>a DEF Construct
  <2>5. \A w \in Workers : pc'[w] = "store" => loaded'[w] = <<acc'[1] + held'[w].val, acc'[2] + 1>>
    BY <2>1, <2>2 DEF Undisturbed
  <2>6. \A k \in 1..Stages - 1 : drainer'[k] \in {"drain", "done"} =>
            \A w \in WorkersOf(k) : pc'[w] = "done"
    <3> SUFFICES ASSUME NEW k \in 1..Stages - 1, drainer'[k] \in {"drain", "done"},
                        NEW w \in WorkersOf(k)
                 PROVE  pc'[w] = "done"
      OBVIOUS
    <3>1. w \in Workers /\ pc[w] = "done"
      BY <1>c, <2>4 DEF Undisturbed
    <3>2. QED BY <2>2, <2>3, <3>1
  <2>7. QED BY <2>5, <2>6 DEF Undisturbed, WorkersOf
<1>2. CASE DriverAcquire \/ DriverPost \/ DriverClose \/ DriverDrained \/ DriverJoin
  <2>1. loaded' = loaded /\ acc' = acc /\ drainer' = drainer
    BY <1>2 DEF DriverAcquire, DriverPost, DriverClose, DriverDrained, DriverJoin
  <2>2. \A w \in Workers : pc'[w] = pc[w] /\ held'[w] = held[w]
    BY <1>2, <1>a DEF DriverAcquire, DriverPost, DriverClose, DriverDrained, DriverJoin, Goto
  <2>3. QED BY <1>d, <2>1, <2>2
<1>3. ASSUME NEW w \in Workers,
             Pull(w) \/ PullClosed(w) \/ Release(w) \/ Acquire(w) \/ ProcessAndPost(w)
      PROVE  Undisturbed'
  <2>1. loaded' = loaded /\ acc' = acc /\ drainer' = drainer /\ pc[w] # "done"
    BY <1>3 DEF Pull, PullClosed, Release, Acquire, ProcessAndPost
  <2>2. /\ pc'[w] # "store"
        /\ \A v \in Workers : v # w => pc'[v] = pc[v] /\ held'[v] = held[v]
    BY <1>3, <1>a DEF Pull, PullClosed, Release, Acquire, ProcessAndPost, Goto
  <2>3. QED BY <1>d, <2>1, <2>2
<1>4. ASSUME NEW w \in Workers, ConsumeLoad(w) \/ ConsumeStore(w) PROVE Undisturbed'
  <2>1. /\ w \in WorkersOf(Stages) /\ pc[w] # "done" /\ drainer' = drainer
        /\ \A v \in Workers : v # w => pc'[v] = pc[v]
    BY <1>4, <1>a, <1>b DEF ConsumeLoad, ConsumeStore, Goto
  <2>2. \A v \in Workers : v # w => pc'[v] # "store"
    BY <1>b, <2>1
  <2>3. pc'[w] = "store" => loaded'[w] = <<acc'[1] + held'[w].val, acc'[2] + 1>>
    <3>1. CASE ConsumeLoad(w)
      BY <1>a, <3>1 DEF ConsumeLoad
    <3>2. CASE ConsumeStore(w)
      BY <1>a, <3>2 DEF ConsumeStore, Goto
    <3>3. QED BY <1>4, <3>1, <3>2
  <2>4. \A v \in Workers : pc'[v] = "store" => loaded'[v] = <<acc'[1] + held'[v].val, acc'[2] + 1>>
    BY <2>2, <2>3
  <2>5. \A k \in 1..Stages - 1 : drainer'[k] \in {"drain", "done"} =>
            \A v \in WorkersOf(k) : pc'[v] = "done"
    BY <1>c, <2>1 DEF Undisturbed
  <2>6. QED BY <2>4, <2>5 DEF Undisturbed, WorkersOf
<1>5. ASSUME NEW k \in 1..Stages - 1, DrainerStep(k) PROVE Undisturbed'
  <2>1. loaded' = loaded /\ acc' = acc /\ held' = held /\ pc' = pc
    BY <1>5 DEF DrainerStep, DrainerClose, DrainerDone
  <2>2. \A j \in 1..Stages - 1 : j # k => drainer'[j] = drainer[j]
    BY <1>5, <1>a DEF DrainerStep, DrainerClose, DrainerDone
  <2>3. \A w \in WorkersOf(k) : pc[w] = "done"
    BY <1>5 DEF DrainerStep, DrainerClose, DrainerDone, Undisturbed
  <2>4. \A j \in 1..Stages - 1 : drainer'[j] \in {"drain", "done"} =>
            \A w \in WorkersOf(j) : pc'[w] = "done"
    BY <2>1, <2>2, <2>3 DEF Undisturbed
  <2>5. \A w \in Workers : pc'[w] = "store" => loaded'[w] = <<acc'[1] + held'[w].val, acc'[2] + 1>>
    BY <2>1 DEF Undisturbed
  <2>6. QED BY <2>4, <2>5 DEF Undisturbed, WorkersOf
<1>6. CASE UNCHANGED vars
  BY <1>6, <1>d DEF vars
<1>7. QED
  BY <1>1, <1>2, <1>3, <1>4, <1>5, <1>6 DEF Next, DriverStep, WorkerStep, Terminated

\* When all workers have ended everything has been posted and consumed.
LEMMA AllConsumed ==
  ASSUME TypeOK, ClosedBehindTheWork, Once, \A w \in Workers : pc[w] = "done"
  PROVE  next = NELEMS /\ Len(consumed) = NELEMS
<1>1. ASSUME NEW k \in 1..Stages PROVE closed[k] /\ chan[k] = <<>>
  <2>1. PICK w \in Workers : Stage(w) = k
    BY StageType
  <2>2. QED BY <2>1 DEF ClosedBehindTheWork
<1>2. next = NELEMS
  BY <1>1 DEF ClosedBehindTheWork
<1> DEFINE ids == 0..NELEMS - 1
           L == Len(consumed)
<1>3. consumed \in Seq(ids) /\ L \in Nat /\ consumed \in [1..L -> ids]
  BY DEF TypeOK, TotalsOK
<1>4. \A x \in ids : \E j \in 1..L : consumed[j] = x
  <2> SUFFICES ASSUME NEW x \in ids PROVE \E j \in 1..L : consumed[j] = x
    OBVIOUS
  <2>1. PICK p \in Places : x \in Whereabouts[p]
    BY <1>2 DEF Once, Partition
  <2>2. ~(\E k \in 1..Stages : p = <<"channel", k>>)
    <3> SUFFICES ASSUME NEW k \in 1..Stages, p = <<"channel", k>> PROVE FALSE
      OBVIOUS
    <3>1. Whereabouts[p] = IdsIn(<<>>)
      BY <1>1, WhatIsWhere
    <3>2. IdsIn(<<>>) = {}
      BY DEF IdsIn
    <3>3. QED BY <2>1, <3>1, <3>2
  <2>3. ~(\E w \in Workers : p = <<"hand", w>>)
    <3> SUFFICES ASSUME NEW w \in Workers, p = <<"hand", w>> PROVE FALSE
      OBVIOUS
    <3>1. pc[w] \notin Working
      BY DEF Working
    <3>2. QED BY <2>1, <3>1, WhatIsWhere
  <2>4. Whereabouts[p] = {consumed[j] : j \in 1..Len(consumed)}
    BY <2>2, <2>3, ThreeKinds, WhatIsWhere
  <2>5. QED BY <2>1, <2>4
<1>5. \A i, j \in 1..L : i # j => consumed[i] # consumed[j]
  BY DEF Once
<1> HIDE DEF L, ids
<1>6. consumed \in Bijection(1..L, ids)
  BY <1>3, <1>4, <1>5 DEF Bijection, Injection, Surjection, IsInjective
<1>7. IsFiniteSet(1..L) /\ Cardinality(1..L) = L
  <2>1. 1 \in Int /\ L \in Int
    BY <1>3
  <2>2. IsFiniteSet(1..L) /\ Cardinality(1..L) = IF 1 > L THEN 0 ELSE L - 1 + 1
    BY ONLY <2>1, FS_Interval
  <2>3. QED BY <1>3, <2>2
<1>8. Cardinality(ids) = NELEMS
  <2>1. 0 \in Int /\ NELEMS - 1 \in Int
    OBVIOUS
  <2>2. Cardinality(0..NELEMS - 1) = IF 0 > NELEMS - 1 THEN 0 ELSE NELEMS - 1 - 0 + 1
    BY ONLY <2>1, FS_Interval
  <2>3. QED BY <2>2 DEF ids
<1>9. Cardinality(ids) = Cardinality(1..L)
  BY <1>6, <1>7, FS_Bijection DEF ExistsBijection
<1>10. QED BY <1>2, <1>7, <1>8, <1>9 DEF L

(* With one worker in the last stage, as in pipeline.cpp, the pipeline is a  *)
(* map: each element the driver posts is given to the last stage once, as    *)
(* the functions of the stages before it made it, and is in the sum and the  *)
(* count; and co_await fg is passed only when all of them are. With two such *)
(* workers an update of the sum may be lost, and it is no map.               *)
THEOREM ImplementsMap == (\A v, w \in WorkersOf(Stages) : v = w) => (Spec => Map!Spec)
<1> SUFFICES ASSUME \A v, w \in WorkersOf(Stages) : v = w PROVE Spec => Map!Spec
  OBVIOUS
<1>1. Init => Map!Init /\ Undisturbed
  <2> SUFFICES ASSUME Init PROVE Map!Init /\ Undisturbed
    OBVIOUS
  <2>1. /\ next = 0 /\ consumed = <<>> /\ acc = <<0, 0>> /\ pc[Driver] = "construct"
        /\ \A w \in Workers : pc[w] = "unborn"
        /\ \A k \in 1..Stages - 1 : drainer[k] = "unborn"
    BY StageType DEF Init, Actors
  <2>2. QED BY <2>1 DEF Map!Init, Undisturbed
<1>2. TypeOK /\ BornWithStage /\ ClosedBehindTheWork /\ Once /\ Processed /\ Undisturbed
        /\ [Next]_vars => [Map!Next]_(Map!mapVars)
  <2> SUFFICES ASSUME TypeOK, BornWithStage, ClosedBehindTheWork, Once, Processed, Undisturbed,
                      [Next]_vars
               PROVE  [Map!Next]_(Map!mapVars)
    OBVIOUS
  <2>a. /\ pc \in [Actors -> DriverPC \cup WorkerPC] /\ Driver \in Actors
        /\ \A w \in Workers : w \in Actors /\ w # Driver /\ Stage(w) \in 1..Stages
    BY StageType DEF TypeOK, PlacesOK, Actors
  <2>b. ASSUME next' = next, consumed' = consumed, acc' = acc,
               pc'[Driver] = "done" <=> pc[Driver] = "done"
        PROVE  UNCHANGED Map!mapVars
    BY <2>b DEF Map!mapVars
  <2>1. CASE Construct \/ DriverAcquire \/ DriverClose \/ DriverDrained
    <3>1. next' = next /\ consumed' = consumed /\ acc' = acc
      BY <2>1 DEF Construct, DriverAcquire, DriverClose, DriverDrained
    <3>2. pc'[Driver] # "done" /\ pc[Driver] # "done"
      BY <2>1, <2>a DEF Construct, DriverAcquire, DriverClose, DriverDrained, Goto
    <3>3. QED BY <2>b, <3>1, <3>2
  <2>2. CASE DriverPost
    <3>1. next < NELEMS /\ next' = next + 1 /\ consumed' = consumed /\ acc' = acc
      BY <2>2 DEF DriverPost, TypeOK, TotalsOK
    <3>2. pc'[Driver] # "done" /\ pc[Driver] # "done"
      BY <2>2, <2>a DEF DriverPost, Goto
    <3>3. Map!Accept
      BY <3>1, <3>2 DEF Map!Accept
    <3>4. QED BY <3>3 DEF Map!Next
  <2>3. CASE DriverJoin
    <3>1. /\ pc[Driver] = "join" /\ pc'[Driver] = "done"
          /\ next' = next /\ consumed' = consumed /\ acc' = acc
      BY <2>3, <2>a DEF DriverJoin, Goto
    <3>2. \A w \in Workers : pc[w] = "done"
      <4> SUFFICES ASSUME NEW w \in Workers PROVE pc[w] = "done"
        OBVIOUS
      <4>1. w \in WorkersOf(Stage(w)) /\ Stage(w) \in 1..Stages
        BY <2>a, StageType
      <4>2. CASE Stage(w) = Stages
        BY <2>3, <4>1, <4>2 DEF DriverJoin
      <4>3. CASE Stage(w) # Stages
        <5>1. Stage(w) \in 1..Stages - 1
          BY <4>1, <4>3
        <5>2. drainer[Stage(w)] = "done"
          BY <2>3, <5>1 DEF DriverJoin
        <5>3. QED BY <4>1, <5>1, <5>2 DEF Undisturbed
      <4>4. QED BY <4>2, <4>3
    <3>3. next = NELEMS /\ Len(consumed) = NELEMS
      BY <3>2, AllConsumed
    <3>4. Map!Finish
      BY <3>1, <3>3 DEF Map!Finish
    <3>5. QED BY <3>4 DEF Map!Next
  <2>4. ASSUME NEW w \in Workers,
               \/ Pull(w) \/ PullClosed(w) \/ Release(w) \/ Acquire(w)
               \/ ProcessAndPost(w) \/ ConsumeLoad(w)
        PROVE  UNCHANGED Map!mapVars
    <3>1. next' = next /\ consumed' = consumed /\ acc' = acc
      BY <2>4 DEF Pull, PullClosed, Release, Acquire, ProcessAndPost, ConsumeLoad
    <3>2. pc'[Driver] = pc[Driver]
      BY <2>4, <2>a DEF Pull, PullClosed, Release, Acquire, ProcessAndPost, ConsumeLoad, Goto
    <3>3. QED BY <2>b, <3>1, <3>2
  <2>5. ASSUME NEW w \in Workers, ConsumeStore(w) PROVE Map!Next
    <3> DEFINE i == held[w].id
    <3>1. /\ pc[w] = "store" /\ acc' = loaded[w] /\ consumed' = Append(consumed, i)
          /\ next' = next /\ pc'[Driver] = pc[Driver]
      BY <2>5, <2>a DEF ConsumeStore, Goto
    <3>2. loaded[w] = <<acc[1] + held[w].val, acc[2] + 1>> /\ Stage(w) = Stages
      BY <3>1 DEF Undisturbed, TypeOK, PlacesOK
    <3>3. i \in 0..NELEMS - 1 /\ i \in 0..next - 1
      <4>1. i \in 0..NELEMS - 1
        BY <3>1 DEF TypeOK, HandsOK, Element
      <4>2. <<"hand", w>> \in Places /\ i \in Whereabouts[<<"hand", w>>]
        BY <3>1, WhatIsWhere DEF Working
      <4>3. i \in 0..next - 1
        BY <4>2 DEF Once, Partition
      <4>4. QED BY <4>1, <4>3
    <3>4. i \notin Range(consumed)
      <4>1. \A j \in 1..Len(consumed) : consumed[j] # i
        BY <2>5, OnceConsumed
      <4>2. DOMAIN consumed = 1..Len(consumed)
        BY DEF TypeOK, TotalsOK
      <4>3. QED BY <4>1, <4>2 DEF Range
    <3>5. Composed[i] = held[w].val
      <4>1. Made(i, Stages - 1, held[w].val)
        BY <3>1, <3>2 DEF Processed, Working
      <4>2. Through(i) = held[w].val
        BY <4>1, MadeIsThrough
      <4>3. QED BY <3>3, <4>2 DEF Composed
    <3> HIDE DEF i
    <3>6. i < next
      BY <3>3 DEF TypeOK, TotalsOK
    <3>7. acc' = <<acc[1] + Composed[i], acc[2] + 1>>
      BY <3>1, <3>2, <3>5
    <3>8. Map!Deliver(i)
      BY <3>1, <3>4, <3>6, <3>7 DEF Map!Deliver, Map!Range, Range
    <3>9. QED BY <3>3, <3>8 DEF Map!Next
  <2>6. ASSUME NEW k \in 1..Stages - 1, DrainerStep(k) PROVE UNCHANGED Map!mapVars
    BY <2>6, <2>b DEF DrainerStep, DrainerClose, DrainerDone
  <2>7. CASE UNCHANGED vars
    BY <2>7, <2>b DEF vars
  <2>8. QED BY <2>1, <2>2, <2>3, <2>4, <2>5, <2>6, <2>7
            DEF Next, DriverStep, WorkerStep, Terminated
<1>3. TypeOK /\ BornWithStage /\ Undisturbed /\ [Next]_vars => Undisturbed'
  BY KeepsUndisturbed
<1>4. QED
  BY <1>1, <1>2, <1>3, TypeCorrect, BornInOrder, ClosesBehindTheWork, EveryElementOnce, PTL
  DEF Spec, Map!Spec

-----------------------------------------------------------------------------
(* No deadlock *)

\* Each channel is closed by who drains it, and each stage but the last has a drainer.
Drainers ==
    /\ pc[Driver] \in {"drain", "join", "done"} => closed[1]
    /\ \A k \in 1..Stages - 1 :
        /\ drainer[k] = "unborn" <=> k > built
        /\ drainer[k] \in {"drain", "done"} => closed[k + 1]

\* drain() closes first, and a closed channel stays closed.
LEMMA KeepsDrainers ==
  ASSUME TypeOK, BornWithStage, Drainers, [Next]_vars
  PROVE  Drainers'
<1>a. /\ pc \in [Actors -> DriverPC \cup WorkerPC] /\ Driver \in Actors
      /\ closed \in [1..Stages -> BOOLEAN]
      /\ drainer \in [1..Stages - 1 -> {"unborn", "join", "drain", "done"}]
      /\ \A w \in Workers : w \in Actors /\ w # Driver
      /\ 1 \in 1..Stages /\ \A k \in 1..Stages - 1 : k + 1 \in 1..Stages /\ k + 1 # 1
      /\ built \in 0..Stages
  BY StageType DEF TypeOK, PlacesOK, ChannelsOK, Actors
<1>b. ASSUME pc'[Driver] \in {"drain", "join", "done"} => pc[Driver] \in {"drain", "join", "done"},
             closed' = closed, drainer' = drainer, built' = built
      PROVE  Drainers'
  BY <1>b DEF Drainers
<1>1. CASE Construct
  <2>1. closed' = closed /\ built' = built + 1 /\ built < Stages /\ pc[Driver] = "construct"
    BY <1>1 DEF Construct
  <2>2. pc'[Driver] \in {"construct", "acquire"}
    BY <1>1, <1>a DEF Construct
  <2>3. \A k \in 1..Stages - 1 : drainer'[k] = IF k = built + 1 THEN "join" ELSE drainer[k]
    BY <1>1, <1>a DEF Construct
  <2>4. ASSUME NEW k \in 1..Stages - 1
        PROVE  /\ drainer'[k] = "unborn" <=> k > built'
               /\ drainer'[k] \in {"drain", "done"} => closed'[k + 1]
    <3>1. CASE k = built + 1
      BY <2>1, <2>3, <3>1
    <3>2. CASE k # built + 1
      <4>1. k > built <=> k > built + 1
        BY <1>a, <3>2
      <4>2. QED BY <2>1, <2>3, <3>2, <4>1 DEF Drainers
    <3>3. QED BY <3>1, <3>2
  <2>5. QED BY <2>2, <2>4 DEF Drainers
<1>2. CASE DriverAcquire \/ DriverPost \/ DriverDrained \/ DriverJoin
  <2>1. UNCHANGED <<closed, drainer, built>>
    BY <1>2 DEF DriverAcquire, DriverPost, DriverDrained, DriverJoin
  <2>2. pc'[Driver] \in {"drain", "join", "done"} => pc[Driver] \in {"drain", "join", "done"}
    BY <1>2, <1>a DEF DriverAcquire, DriverPost, DriverDrained, DriverJoin, Goto
  <2>3. QED BY <1>b, <2>1, <2>2
<1>3. CASE DriverClose
  <2>1. /\ UNCHANGED <<drainer, built>> /\ closed'[1]
        /\ \A k \in 1..Stages - 1 : closed'[k + 1] = closed[k + 1]
    BY <1>3, <1>a DEF DriverClose
  <2>2. QED BY <2>1 DEF Drainers
<1>4. ASSUME NEW w \in Workers, WorkerStep(w) PROVE Drainers'
  <2>1. UNCHANGED <<closed, drainer, built>> /\ \E l : Goto(w, l)
    BY <1>4 DEF WorkerStep, Pull, PullClosed, Release, Acquire, ProcessAndPost, ConsumeLoad,
       ConsumeStore
  <2>2. pc'[Driver] = pc[Driver]
    BY <1>a, <2>1 DEF Goto
  <2>3. QED BY <1>b, <2>1, <2>2
<1>5. ASSUME NEW k \in 1..Stages - 1, DrainerClose(k) PROVE Drainers'
  <2>1. /\ UNCHANGED <<pc, built>> /\ drainer[k] = "join" /\ drainer'[k] = "drain"
        /\ \A j \in 1..Stages - 1 : j # k => drainer'[j] = drainer[j]
        /\ closed'[k + 1] /\ \A j \in 1..Stages : closed[j] => closed'[j]
    BY <1>5, <1>a DEF DrainerClose
  <2>2. QED BY <1>a, <2>1 DEF Drainers
<1>6. ASSUME NEW k \in 1..Stages - 1, DrainerDone(k) PROVE Drainers'
  <2>1. /\ UNCHANGED <<pc, built, closed>> /\ drainer[k] = "drain" /\ drainer'[k] = "done"
        /\ \A j \in 1..Stages - 1 : j # k => drainer'[j] = drainer[j]
    BY <1>6, <1>a DEF DrainerDone
  <2>2. QED BY <1>a, <2>1 DEF Drainers
<1>7. CASE UNCHANGED vars
  BY <1>b, <1>7 DEF vars
<1>8. QED
  BY <1>1, <1>2, <1>3, <1>4, <1>5, <1>6, <1>7 DEF Next, DriverStep, DrainerStep, Terminated

\* The units of a stage's semaphore are free when its channel is empty and nobody is about
\* to post to it or to give one back.
LEMMA UnitsAreFree ==
  ASSUME TypeOK, TokenConservation, built = Stages, NEW k \in 1..Stages, chan[k] = <<>>,
         \A a \in Actors : pc[a] \notin {"post", "release"}
  PROVE  sem[k] > 0
<1>1. At("post", k - 1) = {} /\ At("release", k) = {}
  BY DEF At
<1>2. Cardinality({}) = 0
  BY FS_EmptySet
<1>3. Tokens(k) = sem[k] + 0 + 0 + 0
  BY <1>1, <1>2, Zenon DEF Tokens
<1>4. Tokens(k) = 2 * workerCount[k]
  BY DEF TokenConservation
<1>5. workerCount[k] \in Nat /\ workerCount[k] # 0
  <2>1. workerCount[k] = Cardinality(WorkersOf(k)) /\ WorkersOf(k) # {} /\ WorkersOf(k) \subseteq Workers
    BY CountType DEF WorkersOf
  <2>2. IsFiniteSet(WorkersOf(k))
    BY <2>1, FS_Subset
  <2>3. QED BY <2>1, <2>2, FS_EmptySet, FS_CardinalityType
<1>6. sem[k] \in Nat
  BY DEF TypeOK, ChannelsOK
<1>7. QED BY <1>3, <1>4, <1>5, <1>6

(* However many stages and workers there are, the tokens of the channels     *)
(* cannot be used up in a circle: until main() returns, main(), a worker or  *)
(* a drain task has what it waits for.                                       *)
THEOREM NeverStuck == Spec => []SomebodyGoesOn
<1>1. Init => Drainers
  <2> SUFFICES ASSUME Init PROVE Drainers
    OBVIOUS
  <2>1. /\ pc[Driver] = "construct" /\ built = 0
        /\ \A k \in 1..Stages - 1 : drainer[k] = "unborn" /\ k > 0
    BY DEF Init, Actors
  <2>2. QED BY <2>1 DEF Drainers
<1>2. TypeOK /\ BornWithStage /\ Drainers /\ [Next]_vars => Drainers'
  BY KeepsDrainers
<1>3. TypeOK /\ BornWithStage /\ ClosedBehindTheWork /\ TokenConservation /\ Drainers
        => SomebodyGoesOn
  <2> SUFFICES ASSUME TypeOK, BornWithStage, ClosedBehindTheWork, TokenConservation, Drainers,
                      pc[Driver] # "done", ~CanDrive, \A w \in Workers : ~CanWork(w),
                      \A k \in 1..Stages - 1 : ~CanDrain(k)
               PROVE  FALSE
    BY DEF SomebodyGoesOn
  <2>1. /\ built = Stages /\ pc[Driver] \in DriverPC \ {"construct", "post", "done"}
        /\ \A w \in Workers : pc[w] \in {"pull", "acquire", "done"}
    <3>1. built \in 0..Stages /\ pc[Driver] \in DriverPC /\ \A w \in Workers : pc[w] \in WorkerPC
      BY DEF TypeOK, PlacesOK
    <3>2. pc[Driver] \notin {"construct", "post"}
      BY DEF CanDrive, BornWithStage
    <3>3. built = Stages
      BY <3>1, <3>2 DEF BornWithStage
    <3>4. ASSUME NEW w \in Workers PROVE pc[w] \notin {"unborn", "release", "post", "load", "store"}
      <4>1. ~(Stage(w) > Stages)
        BY StageType
      <4>2. pc[w] # "unborn"
        BY <3>3, <4>1 DEF BornWithStage
      <4>3. QED BY <4>2 DEF CanWork
    <3>5. QED BY <3>1, <3>2, <3>3, <3>4 DEF WorkerPC
  <2>2. \A a \in Actors : pc[a] \notin {"post", "release"}
    BY <2>1 DEF Actors, DriverPC
  <2>3. ASSUME NEW w \in Workers, pc[w] # "acquire" PROVE chan[Stage(w)] = <<>>
    <3>1. CASE pc[w] = "pull"
      BY <3>1 DEF CanWork
    <3>2. CASE pc[w] = "done"
      BY <3>2 DEF ClosedBehindTheWork
    <3>3. QED BY <2>1, <2>3, <3>1, <3>2
  <2>4. ASSUME NEW k \in 1..Stages, \A w \in WorkersOf(k) : pc[w] # "acquire"
        PROVE  chan[k] = <<>> /\ sem[k] > 0
    <3>1. PICK w \in WorkersOf(k) : TRUE
      OBVIOUS
    <3>2. w \in Workers /\ Stage(w) = k
      BY StageType
    <3>3. chan[k] = <<>>
      BY <2>3, <2>4, <3>2
    <3>4. QED BY <2>1, <2>2, <3>3, UnitsAreFree
  <2> DEFINE S == {n \in Nat : Stages - n \in 1..Stages =>
                                    \A w \in WorkersOf(Stages - n) : pc[w] # "acquire"}
  <2>5. S = Nat
    <3>1. 0 \in S
      <4>1. ASSUME NEW w \in WorkersOf(Stages) PROVE pc[w] # "acquire"
        <5>1. w \in Workers /\ Stage(w) = Stages
          BY StageType
        <5>2. QED BY <5>1 DEF TypeOK, PlacesOK
      <4>2. Stages - 0 = Stages
        OBVIOUS
      <4>3. QED BY <4>1, <4>2
    <3>2. ASSUME NEW n \in Nat, n \in S PROVE n + 1 \in S
      <4> SUFFICES ASSUME Stages - (n + 1) \in 1..Stages, NEW w \in WorkersOf(Stages - (n + 1))
                   PROVE  pc[w] # "acquire"
        OBVIOUS
      <4>1. PICK k \in 1..Stages - 1 : k = Stages - (n + 1) /\ k + 1 = Stages - n
        OBVIOUS
      <4>2. k + 1 \in 1..Stages /\ k \in 1..Stages
        BY <4>1
      <4>3. w \in Workers /\ Stage(w) = k
        BY <4>1, <4>2, StageType
      <4>4. \A v \in WorkersOf(k + 1) : pc[v] # "acquire"
        BY <3>2, <4>1, <4>2
      <4>5. sem[k + 1] > 0
        BY <2>4, <4>2, <4>4
      <4>6. QED BY <4>3, <4>5 DEF CanWork
    <3> HIDE DEF S
    <3>3. S \subseteq Nat
      BY DEF S
    <3>4. QED BY ONLY <3>1, <3>2, <3>3, NatBySteps
  <2>6. ASSUME NEW k \in 1..Stages
        PROVE  chan[k] = <<>> /\ sem[k] > 0 /\ \A w \in WorkersOf(k) : pc[w] \in {"pull", "done"}
    <3>1. PICK n \in Nat : Stages - n = k
      <4>1. Stages - k \in Nat /\ Stages - (Stages - k) = k
        OBVIOUS
      <4>2. QED BY <4>1
    <3>2. n \in S
      BY <2>5
    <3>3. \A w \in WorkersOf(k) : pc[w] # "acquire"
      BY <3>1, <3>2
    <3>4. \A w \in WorkersOf(k) : w \in Workers
      BY DEF WorkersOf
    <3>5. QED BY <2>1, <2>4, <3>3, <3>4
  <2> HIDE DEF S
  <2>7. pc[Driver] = "join" /\ closed[1]
    <3>1. 1 \in 1..Stages
      OBVIOUS
    <3>2. chan[1] = <<>> /\ sem[1] > 0
      BY <2>6, <3>1
    <3>3. pc[Driver] \notin {"acquire", "drain"}
      BY <3>2 DEF CanDrive
    <3>4. QED BY <2>1, <3>3 DEF DriverPC, Drainers
  <2>8. ASSUME NEW k \in 1..Stages, closed[k]
        PROVE  \A w \in WorkersOf(k) : pc[w] = "done"
    <3> SUFFICES ASSUME NEW w \in WorkersOf(k) PROVE pc[w] = "done"
      OBVIOUS
    <3>1. w \in Workers /\ Stage(w) = k
      BY StageType
    <3>2. pc[w] # "pull"
      BY <2>8, <3>1 DEF CanWork
    <3>3. QED BY <2>6, <3>2
  <2>9. ASSUME NEW k \in 1..Stages - 1, closed[k] PROVE drainer[k] = "done" /\ closed[k + 1]
    <3>1. k \in 1..Stages /\ k + 1 \in 1..Stages /\ ~(k > built)
      BY <2>1
    <3>2. drainer[k] \in {"join", "drain", "done"}
      BY <3>1 DEF TypeOK, PlacesOK, Drainers
    <3>3. drainer[k] # "join"
      BY <2>8, <2>9, <3>1 DEF CanDrain
    <3>4. drainer[k] # "drain"
      BY <2>6, <3>1 DEF CanDrain
    <3>5. QED BY <3>2, <3>3, <3>4 DEF Drainers
  <2> DEFINE T == {n \in Nat : n + 1 \in 1..Stages => closed[n + 1]}
  <2>10. T = Nat
    <3>1. 0 \in T
      BY <2>7
    <3>2. ASSUME NEW n \in Nat, n \in T PROVE n + 1 \in T
      <4> SUFFICES ASSUME n + 2 \in 1..Stages PROVE closed[n + 2]
        OBVIOUS
      <4>1. PICK k \in 1..Stages - 1 : k = n + 1 /\ k + 1 = n + 2
        OBVIOUS
      <4>2. closed[k]
        BY <3>2, <4>1
      <4>3. QED BY <2>9, <4>1, <4>2
    <3> HIDE DEF T
    <3>3. T \subseteq Nat
      BY DEF T
    <3>4. QED BY ONLY <3>1, <3>2, <3>3, NatBySteps
  <2>11. ASSUME NEW k \in 1..Stages PROVE closed[k]
    <3>1. PICK n \in Nat : n + 1 = k
      <4>1. k - 1 \in Nat /\ k - 1 + 1 = k
        OBVIOUS
      <4>2. QED BY <4>1
    <3>2. n \in T
      BY <2>10
    <3>3. QED BY <3>1, <3>2
  <2> HIDE DEF T
  <2>12. \A k \in 1..Stages - 1 : drainer[k] = "done"
    BY <2>9, <2>11
  <2>13. \A w \in WorkersOf(Stages) : pc[w] = "done"
    BY <2>8, <2>11
  <2>14. QED BY <2>7, <2>12, <2>13 DEF CanDrive
<1>4. QED
  BY <1>1, <1>2, <1>3, TypeCorrect, BornInOrder, ClosesBehindTheWork, TokensAreConserved, PTL DEF Spec
=============================================================================
