---------------------- MODULE ExternalExecutorProofs ----------------------
(***************************************************************************)
(* Theorems about ExternalExecutor for any number of runners, posters and  *)
(* work items. The inductive invariant adds to the checked properties what *)
(* a runner that holds the mutex knows: the predicate it evaluated still   *)
(* holds when it blocks or returns.                                        *)
(***************************************************************************)
EXTENDS ExternalExecutor, SequenceTheorems, FiniteSetTheorems, TLAPS

(* Type correctness: no step takes a variable out of its type. *)
THEOREM TypeCorrect == Spec => [](TypeOK /\ InHand)
<1>1. Init => TypeOK /\ InHand
  <2> SUFFICES ASSUME Init PROVE TypeOK /\ InHand
    OBVIOUS
  <2>1. /\ \A r \in Runners : pc[r] = "enter"
        /\ \A p \in Posters : pc[p] = "idle"
        /\ pc[Owner] = "alive"
    BY DistinctThreads DEF Init, Threads
  <2>2. pc \in [Threads -> RunnerPC \cup PosterPC \cup OwnerPC]
    BY DEF Init, RunnerPC, PosterPC, OwnerPC
  <2>3. InHand
    BY <2>1 DEF Init, InHand
  <2>4. /\ <<>> \in Seq(Work)
        /\ work \in [Runners -> Work \cup {None}]
        /\ spurious \in 0..MaxSpurious
    BY MaxSpuriousIsNat DEF Init
  <2>5. QED
    BY <2>1, <2>2, <2>3, <2>4 DEF Init, TypeOK, RunnerPC, PosterPC, OwnerPC
<1>2. TypeOK /\ InHand /\ [Next]_vars => TypeOK' /\ InHand'
  <2> SUFFICES ASSUME TypeOK, InHand, [Next]_vars PROVE TypeOK' /\ InHand'
    OBVIOUS
  <2> USE DistinctThreads, MaxSpuriousIsNat, NoneIsNothing DEF TypeOK, InHand, Threads, RunnerPC, PosterPC, OwnerPC
  <2>1. ASSUME NEW p \in Posters, NEW w \in Work, Post(p, w) PROVE TypeOK' /\ InHand'
    BY <2>1 DEF Post, PushBack
  <2>2. ASSUME NEW p \in Posters, NotifyFromPost(p) PROVE TypeOK' /\ InHand'
    BY <2>2 DEF NotifyFromPost, NotifyOne, Waiting
  <2>3. ASSUME NEW r \in Runners, NEW w \in Work, PostFromWork(r, w) PROVE TypeOK' /\ InHand'
    BY <2>3 DEF PostFromWork, PushBack
  <2>4. ASSUME NEW r \in Runners, NotifyFromWork(r) PROVE TypeOK' /\ InHand'
    BY <2>4 DEF NotifyFromWork, NotifyOne, Waiting
  <2>5. ASSUME NEW r \in Runners, LockInRun(r) \/ Relock(r) PROVE TypeOK' /\ InHand'
    BY <2>5 DEF LockInRun, Relock
  <2>6. ASSUME NEW r \in Runners, TestPredicate(r) PROVE TypeOK' /\ InHand'
    BY <2>6 DEF TestPredicate
  <2>7. ASSUME NEW r \in Runners, Block(r) PROVE TypeOK' /\ InHand'
    BY <2>7 DEF Block
  <2>8. ASSUME NEW r \in Runners, PopFront(r) PROVE TypeOK' /\ InHand'
    BY <2>8, HeadTailProperties DEF PopFront
  <2>9. ASSUME NEW r \in Runners, WorkReturns(r) PROVE TypeOK' /\ InHand'
    <3>1. finished' \subseteq Work
      BY <2>9 DEF WorkReturns
    <3>2. QED BY <2>9, <3>1 DEF WorkReturns
  <2>10. ASSUME NEW r \in Runners, LeaveLoop(r) \/ ReturnFromRun(r) \/ WaitAgain(r)
         PROVE TypeOK' /\ InHand'
    BY <2>10 DEF LeaveLoop, ReturnFromRun, WaitAgain
  <2>11. ASSUME NEW r \in Runners, SpuriousWakeup(r) PROVE TypeOK' /\ InHand'
    BY <2>11 DEF SpuriousWakeup
  <2>12. CASE RequestStop \/ Join
    BY <2>12 DEF RequestStop, Join
  <2>13. CASE NotifyAll
    BY <2>13 DEF NotifyAll, Waiting
  <2>14. CASE UNCHANGED vars
    BY <2>14 DEF vars
  <2>15. QED
    BY <2>1, <2>2, <2>3, <2>4, <2>5, <2>6, <2>7, <2>8, <2>9, <2>10, <2>11, <2>12,
       <2>13, <2>14 DEF Next, RunnerStep
<1>3. QED BY <1>1, <1>2, PTL DEF Spec

-----------------------------------------------------------------------------
(* Sequence facts about a queue that is filled at one end and emptied at the *)
(* other, next to the history of what left it.                               *)

\* Moving the front of the queue behind what was started keeps the order.
LEMMA PopKeepsHistory ==
  ASSUME NEW S, NEW h \in Seq(S), NEW q \in Seq(S), q # <<>>
  PROVE  Append(h, Head(q)) \o Tail(q) = h \o q
<1>1. q = <<Head(q)>> \o Tail(q)
  BY HeadTailProperties
<1>2. Append(h, Head(q)) = h \o <<Head(q)>>
  BY AppendIsConcat, HeadTailProperties
<1>3. <<Head(q)>> \in Seq(S) /\ Tail(q) \in Seq(S)
  BY HeadTailProperties
<1>4. (h \o <<Head(q)>>) \o Tail(q) = h \o (<<Head(q)>> \o Tail(q))
  BY <1>3, ConcatAssociative
<1>5. QED BY <1>1, <1>2, <1>4

\* What an appended sequence contains.
LEMMA RangeOfAppend ==
  ASSUME NEW S, NEW h \in Seq(S), NEW x \in S
  PROVE  Range(Append(h, x)) = Range(h) \cup {x}
<1>1. /\ DOMAIN h = 1..Len(h) /\ Len(h) \in Nat
      /\ DOMAIN Append(h, x) = 1..(Len(h) + 1)
      /\ \A i \in 1..Len(h) : Append(h, x)[i] = h[i]
      /\ Append(h, x)[Len(h) + 1] = x
  BY AppendProperties
<1>2. Len(h) + 1 \in DOMAIN Append(h, x)
  BY <1>1
<1>3. ASSUME NEW y \in Range(h) PROVE y \in Range(Append(h, x))
  BY <1>1, <1>3 DEF Range
<1>4. ASSUME NEW y \in Range(Append(h, x)), y # x PROVE y \in Range(h)
  <2>1. PICK i \in DOMAIN Append(h, x) : Append(h, x)[i] = y
    BY <1>4 DEF Range
  <2>2. i \in 1..Len(h)
    BY <1>1, <1>4, <2>1
  <2>3. QED BY <1>1, <2>1, <2>2 DEF Range
<1>5. x \in Range(Append(h, x))
  BY <1>1, <1>2 DEF Range
<1>6. QED BY <1>3, <1>4, <1>5

\* What was posted was started or is queued.
LEMMA RangeOfHistory ==
  ASSUME NEW S, NEW h \in Seq(S), NEW q \in Seq(S), q # <<>>,
         \A i, j \in 1..Len(h \o q) : (h \o q)[i] = (h \o q)[j] => i = j
  PROVE  Head(q) \notin Range(h)
<1>1. /\ Len(h \o q) = Len(h) + Len(q)
      /\ \A i \in 1..Len(h) : (h \o q)[i] = h[i]
      /\ (h \o q)[Len(h) + 1] = q[1]
      /\ Head(q) = q[1] /\ Len(q) \in Nat \ {0} /\ Len(h) \in Nat
  BY ConcatProperties, EmptySeq, LenProperties
<1>2. ASSUME NEW i \in 1..Len(h), h[i] = q[1] PROVE FALSE
  <2>1. i \in 1..Len(h \o q) /\ Len(h) + 1 \in 1..Len(h \o q)
    BY <1>1
  <2>2. i = Len(h) + 1
    BY <1>1, <1>2, <2>1
  <2>3. QED BY <1>1, <2>2
<1>3. DOMAIN h = 1..Len(h)
  OBVIOUS
<1>4. QED BY <1>1, <1>2, <1>3 DEF Range

\* A new item keeps a sequence without repetitions.
LEMMA AppendKeepsDistinct ==
  ASSUME NEW S, NEW h \in Seq(S), NEW x \in S, x \notin Range(h),
         \A i, j \in 1..Len(h) : h[i] = h[j] => i = j
  PROVE  \A i, j \in 1..Len(Append(h, x)) : Append(h, x)[i] = Append(h, x)[j] => i = j
<1>1. DOMAIN h = 1..Len(h) /\ Len(h) \in Nat
  OBVIOUS
<1>2. \A i \in 1..Len(h) : h[i] # x
  BY <1>1 DEF Range
<1>3. QED BY <1>1, <1>2

-----------------------------------------------------------------------------
(* Only the runner that holds the mutex is in the locked part of run(). *)
THEOREM MutualExclusion == Spec => []MutexHeldByRunner
<1>1. Init => MutexHeldByRunner
  BY NoneIsNothing DEF Init, MutexHeldByRunner, HoldsMutex, Threads
<1>2. TypeOK /\ MutexHeldByRunner /\ [Next]_vars => MutexHeldByRunner'
  <2> SUFFICES ASSUME TypeOK, MutexHeldByRunner, [Next]_vars PROVE MutexHeldByRunner'
    OBVIOUS
  <2> USE DistinctThreads, NoneIsNothing DEF TypeOK, Threads, MutexHeldByRunner, HoldsMutex
  <2>1. ASSUME NEW p \in Posters, NEW w \in Work, Post(p, w) PROVE MutexHeldByRunner'
    BY <2>1 DEF Post, PushBack
  <2>2. ASSUME NEW r \in Runners, NEW w \in Work, PostFromWork(r, w)
        PROVE MutexHeldByRunner'
    BY <2>2 DEF PostFromWork, PushBack
  <2>3. ASSUME NEW p \in Posters, NotifyFromPost(p) PROVE MutexHeldByRunner'
    BY <2>3 DEF NotifyFromPost, NotifyOne, Waiting
  <2>12. ASSUME NEW r \in Runners, NotifyFromWork(r) PROVE MutexHeldByRunner'
    BY <2>12 DEF NotifyFromWork, NotifyOne, Waiting
  <2>4. ASSUME NEW r \in Runners, LockInRun(r) \/ Relock(r) PROVE MutexHeldByRunner'
    BY <2>4 DEF LockInRun, Relock
  <2>5. ASSUME NEW r \in Runners, TestPredicate(r) \/ LeaveLoop(r) \/ WaitAgain(r)
        PROVE MutexHeldByRunner'
    BY <2>5 DEF TestPredicate, LeaveLoop, WaitAgain
  <2>6. ASSUME NEW r \in Runners, Block(r) \/ PopFront(r) \/ ReturnFromRun(r)
        PROVE MutexHeldByRunner'
    BY <2>6 DEF Block, PopFront, ReturnFromRun
  <2>7. ASSUME NEW r \in Runners, WorkReturns(r) \/ SpuriousWakeup(r)
        PROVE MutexHeldByRunner'
    BY <2>7 DEF WorkReturns, SpuriousWakeup
  <2>8. CASE RequestStop \/ Join
    BY <2>8 DEF RequestStop, Join
  <2>9. CASE NotifyAll
    BY <2>9 DEF NotifyAll, Waiting
  <2>10. CASE UNCHANGED vars
    BY <2>10 DEF vars
  <2>11. QED
    BY <2>1, <2>2, <2>3, <2>4, <2>5, <2>6, <2>7, <2>8, <2>9, <2>10,
       <2>12 DEF Next, RunnerStep
<1>3. QED BY <1>1, <1>2, TypeCorrect, PTL DEF Spec

-----------------------------------------------------------------------------
(* What a runner saw under the mutex is still so when it acts: nobody else   *)
(* can push, or request a stop, while it holds the mutex.                    *)
LEMMA SeenStaysTrue == Spec => []KnowsEmpty
<1>1. Init => KnowsEmpty
  BY DEF Init, KnowsEmpty, Threads
<1>2. TypeOK /\ MutexHeldByRunner /\ KnowsEmpty /\ [Next]_vars => KnowsEmpty'
  <2> SUFFICES ASSUME TypeOK, MutexHeldByRunner, KnowsEmpty, [Next]_vars PROVE KnowsEmpty'
    OBVIOUS
  <2> USE DistinctThreads, NoneIsNothing
      DEF TypeOK, Threads, MutexHeldByRunner, HoldsMutex, KnowsEmpty
  <2>1. ASSUME NEW p \in Posters, NEW w \in Work, Post(p, w) PROVE KnowsEmpty'
    BY <2>1 DEF Post, PushBack
  <2>2. ASSUME NEW r \in Runners, NEW w \in Work, PostFromWork(r, w) PROVE KnowsEmpty'
    BY <2>2 DEF PostFromWork, PushBack
  <2>3. ASSUME NEW p \in Posters, NotifyFromPost(p) PROVE KnowsEmpty'
    BY <2>3 DEF NotifyFromPost, NotifyOne, Waiting
  <2>4. ASSUME NEW r \in Runners, NotifyFromWork(r) PROVE KnowsEmpty'
    BY <2>4 DEF NotifyFromWork, NotifyOne, Waiting
  <2>5. ASSUME NEW r \in Runners, LockInRun(r) \/ Relock(r) PROVE KnowsEmpty'
    BY <2>5 DEF LockInRun, Relock
  <2>6. ASSUME NEW r \in Runners, TestPredicate(r) \/ LeaveLoop(r) \/ WaitAgain(r)
        PROVE KnowsEmpty'
    BY <2>6 DEF TestPredicate, LeaveLoop, WaitAgain
  <2>7. ASSUME NEW r \in Runners, Block(r) \/ ReturnFromRun(r) PROVE KnowsEmpty'
    BY <2>7 DEF Block, ReturnFromRun
  <2>8. ASSUME NEW r \in Runners, PopFront(r) PROVE KnowsEmpty'
    BY <2>8 DEF PopFront
  <2>9. ASSUME NEW r \in Runners, WorkReturns(r) \/ SpuriousWakeup(r) PROVE KnowsEmpty'
    BY <2>9 DEF WorkReturns, SpuriousWakeup
  <2>10. CASE RequestStop \/ Join
    BY <2>10 DEF RequestStop, Join
  <2>11. CASE NotifyAll
    BY <2>11 DEF NotifyAll, Waiting
  <2>12. CASE UNCHANGED vars
    BY <2>12 DEF vars
  <2>13. QED
    BY <2>1, <2>2, <2>3, <2>4, <2>5, <2>6, <2>7, <2>8, <2>9, <2>10, <2>11, <2>12
       DEF Next, RunnerStep
<1>3. QED BY <1>1, <1>2, TypeCorrect, MutualExclusion, PTL DEF Spec

(* No wakeup is lost, for any number of threads and any schedule. *)
THEOREM NoWakeupLost == Spec => []NoLostWakeup
<1>1. Init => NoLostWakeup
  BY DEF Init, NoLostWakeup, Waiting
<1>2. TypeOK /\ KnowsEmpty /\ NoLostWakeup /\ [Next]_vars => NoLostWakeup'
  <2> SUFFICES ASSUME TypeOK, KnowsEmpty, NoLostWakeup, [Next]_vars PROVE NoLostWakeup'
    OBVIOUS
  <2> USE DistinctThreads DEF TypeOK, Threads, NoLostWakeup, Waiting, Awake
  <2>1. ASSUME NEW p \in Posters, NEW w \in Work, Post(p, w) PROVE NoLostWakeup'
    BY <2>1 DEF Post, PushBack
  <2>2. ASSUME NEW r \in Runners, NEW w \in Work, PostFromWork(r, w) PROVE NoLostWakeup'
    BY <2>2 DEF PostFromWork, PushBack
  <2>3. ASSUME NEW p \in Posters, NotifyFromPost(p) PROVE NoLostWakeup'
    BY <2>3 DEF NotifyFromPost, NotifyOne
  <2>4. ASSUME NEW r \in Runners, NotifyFromWork(r) PROVE NoLostWakeup'
    BY <2>4 DEF NotifyFromWork, NotifyOne
  <2>5. ASSUME NEW r \in Runners, LockInRun(r) \/ Relock(r) PROVE NoLostWakeup'
    BY <2>5 DEF LockInRun, Relock
  <2>6. ASSUME NEW r \in Runners, TestPredicate(r) \/ LeaveLoop(r) \/ WaitAgain(r)
        PROVE NoLostWakeup'
    BY <2>6 DEF TestPredicate, LeaveLoop, WaitAgain
  <2>7. ASSUME NEW r \in Runners, Block(r) \/ ReturnFromRun(r) PROVE NoLostWakeup'
    BY <2>7 DEF Block, ReturnFromRun, KnowsEmpty
  <2>8. ASSUME NEW r \in Runners, PopFront(r) PROVE NoLostWakeup'
    BY <2>8 DEF PopFront
  <2>9. ASSUME NEW r \in Runners, WorkReturns(r) \/ SpuriousWakeup(r) PROVE NoLostWakeup'
    BY <2>9 DEF WorkReturns, SpuriousWakeup
  <2>10. CASE RequestStop \/ Join
    BY <2>10 DEF RequestStop, Join
  <2>11. CASE NotifyAll
    BY <2>11 DEF NotifyAll
  <2>12. CASE UNCHANGED vars
    BY <2>12 DEF vars
  <2>13. QED
    BY <2>1, <2>2, <2>3, <2>4, <2>5, <2>6, <2>7, <2>8, <2>9, <2>10, <2>11, <2>12
       DEF Next, RunnerStep
<1>3. QED BY <1>1, <1>2, TypeCorrect, SeenStaysTrue, PTL DEF Spec

-----------------------------------------------------------------------------
\* push_back in post().
LEMMA PushKeepsEachOnce ==
  ASSUME TypeOK, EachOnceInOrder, NEW w \in Work, PushBack(w)
  PROVE  EachOnceInOrder'
<1> USE DEF TypeOK
<1>1. /\ posted' = Append(posted, w) /\ queue' = Append(queue, w)
      /\ started' = started /\ finished' = finished /\ work' = work
      /\ w \notin Range(posted)
  BY DEF PushBack
<1>2. posted = started \o queue
  BY DEF EachOnceInOrder
<1>3. posted' = started' \o queue'
  <2>1. Append(started \o queue, w) = started \o Append(queue, w)
    <3>1. started \in Seq(Work) /\ queue \in Seq(Work)
      OBVIOUS
    <3>2. QED BY ONLY <3>1, w \in Work
  <2>2. QED BY <1>1, <1>2, <2>1
<1>4. \A i, j \in 1..Len(posted') : posted'[i] = posted'[j] => i = j
  <2>1. \A i, j \in 1..Len(posted) : posted[i] = posted[j] => i = j
    BY DEF EachOnceInOrder
  <2>2. posted \in Seq(Work) /\ w \notin Range(posted)
    BY <1>1
  <2>3. \A i, j \in 1..Len(Append(posted, w)) :
            Append(posted, w)[i] = Append(posted, w)[j] => i = j
    BY ONLY w \in Work, <2>1, <2>2, AppendKeepsDistinct
  <2>4. QED BY ONLY <1>1, <2>3
<1>5. Running' = Running
  BY <1>1 DEF Running
<1>6. QED BY <1>1, <1>3, <1>4, <1>5 DEF EachOnceInOrder

\* pop_front in run().
LEMMA PopKeepsEachOnce ==
  ASSUME TypeOK, InHand, EachOnceInOrder, NEW r \in Runners, PopFront(r)
  PROVE  EachOnceInOrder'
<1> USE DEF TypeOK
<1> DEFINE w == Head(queue)
<1>1. /\ w \in Work /\ w # None /\ Tail(queue) \in Seq(Work)
      /\ queue # <<>> /\ work[r] = None
      /\ work' = [work EXCEPT ![r] = w] /\ started' = Append(started, w)
      /\ queue' = Tail(queue) /\ posted' = posted /\ finished' = finished
  BY NoneIsNothing, HeadTailProperties DEF PopFront, InHand
<1>2. w \notin Range(started)
  BY <1>1, RangeOfHistory DEF EachOnceInOrder
<1>3. posted' = started' \o queue'
  BY <1>1, PopKeepsHistory DEF EachOnceInOrder
<1>4. Range(started') = Range(started) \cup {w}
  BY <1>1, RangeOfAppend
<1>5. Running' = Running \cup {w}
  <2>1. work'[r] = w /\ \A s \in Runners \ {r} : work'[s] = work[s]
    BY <1>1
  <2>2. QED BY <1>1, <2>1 DEF Running
<1>6. w \notin finished /\ w \notin Running
  BY <1>2 DEF EachOnceInOrder
<1>7. \A s \in Runners : work[s] # w
  BY <1>1, <1>6 DEF Running
<1>8. \A s, t \in Runners : work'[s] = work'[t] /\ work'[s] # None => s = t
  BY <1>1, <1>7 DEF EachOnceInOrder
<1>9. Range(started') = finished' \cup Running' /\ finished' \cap Running' = {}
  BY <1>1, <1>4, <1>5, <1>6 DEF EachOnceInOrder
<1>10. QED BY <1>1, <1>3, <1>8, <1>9 DEF EachOnceInOrder

\* The return of a work item.
LEMMA ReturnKeepsEachOnce ==
  ASSUME TypeOK, InHand, EachOnceInOrder, NEW r \in Runners, WorkReturns(r)
  PROVE  EachOnceInOrder'
<1> USE DEF TypeOK
<1>1. /\ work[r] \in Work /\ work[r] # None
      /\ work' = [work EXCEPT ![r] = None] /\ finished' = finished \cup {work[r]}
      /\ queue' = queue /\ posted' = posted /\ started' = started
  BY DEF WorkReturns, InHand
<1>2. \A s \in Runners \ {r} : work[s] # work[r]
  BY <1>1 DEF EachOnceInOrder
<1>3. Running' = Running \ {work[r]}
  <2>1. work'[r] = None /\ \A s \in Runners \ {r} : work'[s] = work[s]
    BY <1>1
  <2>2. QED BY <1>1, <1>2, <2>1 DEF Running
<1>4. work[r] \in Running
  BY <1>1 DEF Running
<1>5. Range(started') = finished' \cup Running' /\ finished' \cap Running' = {}
  BY <1>1, <1>3, <1>4 DEF EachOnceInOrder
<1>6. \A s, t \in Runners : work'[s] = work'[t] /\ work'[s] # None => s = t
  BY <1>1 DEF EachOnceInOrder
<1>7. QED BY <1>1, <1>5, <1>6 DEF EachOnceInOrder

(* Each item is started once, in the order of the posts, by one runner. *)
THEOREM RunsEachOnce == Spec => []EachOnceInOrder
<1>1. Init => EachOnceInOrder
  <2> SUFFICES ASSUME Init PROVE EachOnceInOrder
    OBVIOUS
  <2>1. Range(<<>>) = {} /\ <<>> \o <<>> = <<>>
    BY DEF Range
  <2>2. Running = {}
    BY DEF Init, Running
  <2>3. QED BY <2>1, <2>2 DEF Init, EachOnceInOrder
<1>2. TypeOK /\ InHand /\ EachOnceInOrder /\ [Next]_vars => EachOnceInOrder'
  <2> SUFFICES ASSUME TypeOK, InHand, EachOnceInOrder, [Next]_vars PROVE EachOnceInOrder'
    OBVIOUS
  <2>1. ASSUME NEW w \in Work, PushBack(w) PROVE EachOnceInOrder'
    BY <2>1, PushKeepsEachOnce
  <2>2. ASSUME NEW r \in Runners, PopFront(r) PROVE EachOnceInOrder'
    BY <2>2, PopKeepsEachOnce
  <2>3. ASSUME NEW r \in Runners, WorkReturns(r) PROVE EachOnceInOrder'
    BY <2>3, ReturnKeepsEachOnce
  <2>4. ASSUME UNCHANGED <<queue, work, posted, started, finished>> PROVE EachOnceInOrder'
    BY <2>4 DEF EachOnceInOrder, Running
  <2>5. ASSUME NEW r \in Runners,
               \/ LockInRun(r) \/ TestPredicate(r) \/ Block(r) \/ SpuriousWakeup(r)
               \/ Relock(r) \/ LeaveLoop(r) \/ ReturnFromRun(r) \/ WaitAgain(r)
        PROVE EachOnceInOrder'
    BY <2>4, <2>5 DEF LockInRun, TestPredicate, Block, SpuriousWakeup, Relock,
                      LeaveLoop, ReturnFromRun, WaitAgain
  <2>6. ASSUME NEW t, NEW next, NotifyOne(t, next) PROVE EachOnceInOrder'
    BY <2>4, <2>6 DEF NotifyOne
  <2>7. CASE RequestStop \/ NotifyAll \/ Join \/ UNCHANGED vars
    BY <2>4, <2>7 DEF RequestStop, NotifyAll, Join, vars
  <2>8. QED
    BY <2>1, <2>2, <2>3, <2>5, <2>6, <2>7
    DEF Next, RunnerStep, Post, PostFromWork, NotifyFromPost, NotifyFromWork
<1>3. QED BY <1>1, <1>2, TypeCorrect, PTL DEF Spec

(* run() never leaves an accepted item behind. *)
THEOREM LeavesNothing == Spec => NoneAbandoned
<1> DEFINE LastReturns == (\E r \in Runners : ReturnFromRun(r)) /\ AllReturned'
<1>1. TypeOK /\ InHand /\ KnowsEmpty /\ EachOnceInOrder /\ [Next]_vars
        => [LastReturns => finished = Range(posted)]_vars
  <2> SUFFICES ASSUME TypeOK, InHand, KnowsEmpty, EachOnceInOrder,
                      NEW r \in Runners, ReturnFromRun(r), AllReturned'
               PROVE  finished = Range(posted)
    OBVIOUS
  <2>1. \A s \in Runners : pc[s] \notin {"running", "notify"}
    BY DEF AllReturned, ReturnFromRun, TypeOK, Threads
  <2>2. Running = {}
    BY <2>1 DEF InHand, Running
  <2>3. posted = started
    BY DEF EachOnceInOrder, KnowsEmpty, ReturnFromRun, TypeOK
  <2>4. QED BY <2>2, <2>3 DEF EachOnceInOrder
<1>2. QED
  BY <1>1, TypeCorrect, SeenStaysTrue, RunsEachOnce, PTL DEF Spec, NoneAbandoned
-----------------------------------------------------------------------------
(* The pool implements WorkPool: the steps that push, pop, return from an    *)
(* item and leave run() last are steps of WorkPool, all others stutter.      *)

\* A runner without an item leaves room for one more.
LEMMA FewerRunning ==
  ASSUME TypeOK, InHand, EachOnceInOrder, NEW r \in Runners, work[r] = None
  PROVE  Cardinality(Running) < Cardinality(Runners)
<1> DEFINE Idle == Runners \ {r}
           holder == [w \in Running |-> CHOOSE s \in Runners : work[s] = w]
<1>1. ASSUME NEW w \in Running
      PROVE  holder[w] \in Idle /\ work[holder[w]] = w
  <2>1. \E s \in Runners : work[s] = w
    BY DEF Running
  <2>2. holder[w] \in Runners /\ work[holder[w]] = w
    BY <2>1
  <2>3. w # None
    BY DEF Running
  <2>4. QED BY <2>2, <2>3
<1>2. \A v, w \in Running : holder[v] = holder[w] => v = w
  BY <1>1
<1>3. holder \in Injection(Running, Idle)
  BY <1>1, <1>2 DEF Injection, IsInjective
<1>4. IsFiniteSet(Idle) /\ Cardinality(Idle) = Cardinality(Runners) - 1
  BY SomeRunners, FS_RemoveElement
<1>5. Cardinality(Running) <= Cardinality(Idle)
  BY <1>3, <1>4, FS_Injection
<1>6. Cardinality(Runners) \in Nat /\ Cardinality(Running) \in Nat
  BY <1>3, <1>4, SomeRunners, FS_Injection, FS_CardinalityType
<1>7. QED BY <1>4, <1>5, <1>6

\* WorkPool's copies of two standard operators.
LEMMA SameRange == \A f : Pool!Range(f) = Range(f)
BY DEF Range, Pool!Range

LEMMA SameCardinality == \A S : Pool!Cardinality(S) = Cardinality(S)
BY DEF Cardinality, Pool!Cardinality

\* What a step that neither pops nor returns an item keeps of the mapping.
LEMMA SameHands == UNCHANGED work => Running' = Running
BY DEF Running

\* push_back is a Post of WorkPool.
LEMMA PushIsPost ==
  ASSUME TypeOK, EachOnceInOrder, NEW w \in Work, PushBack(w), AllReturned' = AllReturned
  PROVE  Pool!Post(w)
<1>1. Range(posted) = Range(started) \cup Range(queue)
  BY RangeConcatenation DEF TypeOK, EachOnceInOrder
<1>2. Range(started) = finished \cup Running
  BY DEF EachOnceInOrder
<1>3. w \notin Range(queue) \cup Running \cup finished
  BY <1>1, <1>2 DEF PushBack
<1>4. Running' = Running
  BY SameHands DEF PushBack
<1>5. QED BY <1>3, <1>4, SameRange DEF PushBack, Pool!Post

\* pop_front is a Start of WorkPool.
LEMMA PopIsStart ==
  ASSUME TypeOK, InHand, EachOnceInOrder, NEW r \in Runners, PopFront(r)
  PROVE  Pool!Start
<1>1. /\ Head(queue) \in Work /\ Head(queue) # None /\ work[r] = None /\ queue # <<>>
      /\ work' = [work EXCEPT ![r] = Head(queue)]
  BY NoneIsNothing, HeadTailProperties DEF PopFront, InHand, TypeOK
<1>2. ~AllReturned /\ AllReturned' = AllReturned
  BY DEF PopFront, AllReturned, TypeOK, Threads
<1>3. Running' = Running \cup {Head(queue)}
  <2>1. work'[r] = Head(queue) /\ \A s \in Runners \ {r} : work'[s] = work[s]
    BY <1>1 DEF TypeOK
  <2>2. QED BY <1>1, <2>1 DEF Running
<1>4. Cardinality(Running) < Cardinality(Runners)
  BY <1>1, FewerRunning
<1>5. QED BY <1>1, <1>2, <1>3, <1>4, SameCardinality DEF PopFront, Pool!Start

\* The return of an item is a Finish of WorkPool.
LEMMA ReturnIsFinish ==
  ASSUME TypeOK, InHand, EachOnceInOrder, NEW r \in Runners, WorkReturns(r)
  PROVE  work[r] \in Work /\ Pool!Finish(work[r])
<1>1. /\ work[r] \in Work /\ work[r] # None
      /\ work' = [work EXCEPT ![r] = None]
  BY DEF WorkReturns, InHand, TypeOK
<1>2. \A s \in Runners \ {r} : work[s] # work[r]
  BY <1>1 DEF EachOnceInOrder
<1>3. Running' = Running \ {work[r]}
  <2>1. work'[r] = None /\ \A s \in Runners \ {r} : work'[s] = work[s]
    BY <1>1 DEF TypeOK
  <2>2. QED BY <1>1, <1>2, <2>1 DEF Running
<1>4. work[r] \in Running
  BY <1>1 DEF Running
<1>5. AllReturned' = AllReturned
  BY DEF WorkReturns, AllReturned, TypeOK, Threads
<1>6. QED BY <1>1, <1>3, <1>4, <1>5 DEF WorkReturns, Pool!Finish

\* The last return from run() is the Close of WorkPool.
LEMMA LastReturnIsClose ==
  ASSUME TypeOK, InHand, KnowsEmpty, NEW r \in Runners, ReturnFromRun(r), AllReturned'
  PROVE  Pool!Close
<1>1. \A s \in Runners : pc[s] \notin {"running", "notify"}
  BY DEF AllReturned, ReturnFromRun, TypeOK, Threads
<1>2. Running = {}
  BY <1>1 DEF InHand, Running
<1>3. queue = <<>> /\ ~AllReturned
  BY DEF KnowsEmpty, ReturnFromRun, AllReturned
<1>4. Running' = Running
  BY SameHands DEF ReturnFromRun
<1>5. QED BY <1>2, <1>3, <1>4 DEF ReturnFromRun, Pool!Close

\* Every other step changes nothing that WorkPool sees.
LEMMA OthersStutter ==
  ASSUME UNCHANGED <<queue, work, finished>>, AllReturned' = AllReturned
  PROVE  UNCHANGED Pool!poolVars
BY SameHands DEF Pool!poolVars

(* Whoever posts to the pool may rely on WorkPool: each item runs once, in   *)
(* order, no more of them at a time than there are runners, and the pool     *)
(* closes only when nothing is pending or running.                           *)
THEOREM ImplementsPool == Spec => Pool!Spec
<1>1. Init => Pool!Init
  <2> SUFFICES ASSUME Init PROVE Pool!Init
    OBVIOUS
  <2>1. Running = {}
    BY DEF Init, Running
  <2>2. PICK r \in Runners : TRUE
    BY SomeRunners
  <2>3. pc[r] = "enter"
    BY DEF Init, Threads
  <2>4. ~AllReturned
    BY <2>3 DEF AllReturned
  <2>5. QED BY <2>1, <2>4 DEF Init, Pool!Init
<1>2. TypeOK /\ InHand /\ KnowsEmpty /\ EachOnceInOrder /\ [Next]_vars
        => [Pool!Next]_(Pool!poolVars)
  <2> SUFFICES ASSUME TypeOK, InHand, KnowsEmpty, EachOnceInOrder, [Next]_vars
               PROVE  [Pool!Next]_(Pool!poolVars)
    OBVIOUS
  <2> USE DistinctThreads
  <2>1. ASSUME NEW p \in Posters, NEW w \in Work, Post(p, w) PROVE Pool!Next
    <3>1. AllReturned' = AllReturned
      BY <2>1 DEF Post, AllReturned, TypeOK, Threads
    <3>2. QED BY <2>1, <3>1, PushIsPost DEF Post, Pool!Next
  <2>2. ASSUME NEW r \in Runners, NEW w \in Work, PostFromWork(r, w) PROVE Pool!Next
    <3>1. AllReturned' = AllReturned
      BY <2>2 DEF PostFromWork, AllReturned, TypeOK, Threads
    <3>2. QED BY <2>2, <3>1, PushIsPost DEF PostFromWork, Pool!Next
  <2>3. ASSUME NEW r \in Runners, PopFront(r) PROVE Pool!Next
    BY <2>3, PopIsStart DEF Pool!Next
  <2>4. ASSUME NEW r \in Runners, WorkReturns(r) PROVE Pool!Next
    BY <2>4, ReturnIsFinish DEF Pool!Next
  <2>5. ASSUME NEW r \in Runners, ReturnFromRun(r) PROVE [Pool!Next]_(Pool!poolVars)
    <3>1. CASE AllReturned'
      BY <2>5, <3>1, LastReturnIsClose DEF Pool!Next
    <3>2. CASE ~AllReturned'
      <4>1. AllReturned' = AllReturned
        BY <2>5, <3>2 DEF ReturnFromRun, AllReturned
      <4>2. QED BY <2>5, <4>1, OthersStutter DEF ReturnFromRun
    <3>3. QED BY <3>1, <3>2
  <2>6. ASSUME NEW r \in Runners,
               \/ LockInRun(r) \/ TestPredicate(r) \/ Block(r) \/ SpuriousWakeup(r)
               \/ Relock(r) \/ LeaveLoop(r) \/ WaitAgain(r) \/ NotifyFromWork(r)
        PROVE UNCHANGED Pool!poolVars
    <3>1. pc[r] # "returned" /\ pc'[r] # "returned"
      BY <2>6 DEF LockInRun, TestPredicate, Block, SpuriousWakeup, Relock, LeaveLoop,
                  WaitAgain, NotifyFromWork, NotifyOne, Waiting, TypeOK, Threads
    <3>2. AllReturned' = AllReturned
      BY <3>1 DEF AllReturned
    <3>3. UNCHANGED <<queue, work, finished>>
      BY <2>6 DEF LockInRun, TestPredicate, Block, SpuriousWakeup, Relock, LeaveLoop,
                  WaitAgain, NotifyFromWork, NotifyOne
    <3>4. QED BY <3>2, <3>3, OthersStutter
  <2>7. ASSUME NEW p \in Posters, NotifyFromPost(p) PROVE UNCHANGED Pool!poolVars
    <3>1. \A r \in Runners : pc[r] = "returned" <=> pc'[r] = "returned"
      BY <2>7 DEF NotifyFromPost, NotifyOne, Waiting, TypeOK, Threads
    <3>2. AllReturned' = AllReturned
      BY <3>1 DEF AllReturned
    <3>3. QED BY <2>7, <3>2, OthersStutter DEF NotifyFromPost, NotifyOne
  <2>8. CASE RequestStop \/ NotifyAll \/ Join \/ UNCHANGED vars
    <3>1. \A r \in Runners : pc[r] = "returned" <=> pc'[r] = "returned"
      BY <2>8 DEF RequestStop, NotifyAll, Join, vars, Waiting, TypeOK, Threads
    <3>2. AllReturned' = AllReturned
      BY <3>1 DEF AllReturned
    <3>3. QED BY <2>8, <3>2, OthersStutter DEF RequestStop, NotifyAll, Join, vars
  <2>9. QED
    BY <2>1, <2>2, <2>3, <2>4, <2>5, <2>6, <2>7, <2>8 DEF Next, RunnerStep
<1>3. QED
  BY <1>1, <1>2, TypeCorrect, SeenStaysTrue, RunsEachOnce, PTL DEF Spec, Pool!Spec
=============================================================================
