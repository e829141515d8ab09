----------------------------- MODULE AsioProofs -----------------------------
(***************************************************************************)
(* Theorems about the programs over Asio: the batch processor, the races   *)
(* of operations with timeouts, and the servers.                           *)
(***************************************************************************)
EXTENDS BatchProcessor, Race, Server, SequenceTheorems, TLAPS

-----------------------------------------------------------------------------
(* The batch processor loses and repeats no element, for any number of posts *)
(* and every order of arrivals, expiries and cancellations. The invariant    *)
(* adds that the pull which found the queue closed found it empty, and that  *)
(* it stays so.                                                              *)

Elements == 1..MaxPosts

\* Nothing is left behind a pull that found the queue closed.
ClosedIsEmpty == pullSlot \in {"closed", "idle"} => qClosed /\ q = <<>>

(* Type correctness, with what the mux knows of the queue: no step of the    *)
(* processor or of the threads around it takes a variable out of its type.   *)
THEOREM TypeCorrect == Spec => [](TypeOK /\ ClosedIsEmpty)
<1>1. Init => TypeOK /\ ClosedIsEmpty
  <2>1. <<>> \in Seq(1..MaxPosts)
    BY EmptySeq
  <2>2. 0 \in 0..MaxPosts
    BY MaxPostsIsNat
  <2>3. QED BY <2>1, <2>2 DEF Init, TypeOK, ClosedIsEmpty
<1>2. TypeOK /\ ClosedIsEmpty /\ [Next]_vars => TypeOK' /\ ClosedIsEmpty'
  <2> SUFFICES ASSUME TypeOK, ClosedIsEmpty, [Next]_vars PROVE TypeOK' /\ ClosedIsEmpty'
    OBVIOUS
  <2> USE MaxPostsIsNat DEF TypeOK, ClosedIsEmpty
  <2>1. CASE Post
    <3>1. posts + 1 \in 1..MaxPosts
      BY <2>1 DEF Post
    <3>2. Append(q, posts + 1) \in Seq(1..MaxPosts)
      BY <3>1, AppendProperties
    <3>3. QED BY <2>1, <3>1, <3>2 DEF Post
  <2>2. CASE Close \/ TimerExpires \/ CancelCompletes \/ OnClosed \/ OnEnd
    BY <2>2 DEF Close, TimerExpires, CancelCompletes, OnClosed, OnEnd
  <2>3. CASE PullCompletes
    <3>1. CASE q # <<>>
      <4>1. Head(q) \in 1..MaxPosts /\ Tail(q) \in Seq(1..MaxPosts)
        BY <3>1, HeadTailProperties
      <4>2. Head(q) \in 0..MaxPosts /\ Head(q) # 0
        BY <4>1
      <4>3. pullSlot' = "element" /\ elem' = Head(q) /\ q' = Tail(q)
        BY <2>3, <3>1 DEF PullCompletes
      <4>4. QED BY <2>3, <4>1, <4>2, <4>3 DEF PullCompletes
    <3>2. QED BY <2>3, <3>1 DEF PullCompletes
  <2>4. CASE OnElement
    <3>1. Append(batch, elem) \in Seq(1..MaxPosts)
      BY <2>4, AppendProperties DEF OnElement
    <3>2. QED BY <2>4, <3>1 DEF OnElement
  <2>5. CASE OnTimer
    <3>1. processed \o batch \in Seq(1..MaxPosts)
      BY ConcatProperties
    <3>2. <<>> \in Seq(1..MaxPosts)
      BY EmptySeq
    <3>3. QED BY <2>5, <3>1, <3>2 DEF OnTimer
  <2>6. CASE UNCHANGED vars
    BY <2>6 DEF vars
  <2>7. QED BY <2>1, <2>2, <2>3, <2>4, <2>5, <2>6 DEF Next, Processor
<1>3. QED BY <1>1, <1>2, PTL DEF Spec

-----------------------------------------------------------------------------
(* A batch that is collected has its timer, and only such a one. *)
THEOREM TimerIsSet == Spec => []TimerGuardsBatch
<1>1. Init => TimerGuardsBatch
  BY DEF Init, TimerGuardsBatch
<1>2. TypeOK /\ TimerGuardsBatch /\ [Next]_vars => TimerGuardsBatch'
  <2> SUFFICES ASSUME TypeOK, TimerGuardsBatch, [Next]_vars PROVE TimerGuardsBatch'
    OBVIOUS
  <2> USE DEF TypeOK, TimerGuardsBatch
  <2>1. CASE Post \/ Close \/ PullCompletes \/ OnEnd \/ UNCHANGED vars
    BY <2>1 DEF Post, Close, PullCompletes, OnEnd, vars
  <2>2. CASE TimerExpires \/ CancelCompletes \/ OnClosed \/ OnTimer
    BY <2>2 DEF TimerExpires, CancelCompletes, OnClosed, OnTimer
  <2>3. CASE OnElement
    <3>1. Append(batch, elem) # <<>>
      BY <2>3, MaxPostsIsNat, AppendProperties DEF OnElement
    <3>2. QED BY <2>3, <3>1 DEF OnElement
  <2>4. QED BY <2>1, <2>2, <2>3 DEF Next, Processor
<1>3. QED BY TypeCorrect, <1>1, <1>2, PTL DEF Spec

-----------------------------------------------------------------------------
(* The way of the elements: from the queue into the mux's slot, from there   *)
(* into the batch, and with it to process().                                 *)

UpTo(n) == [i \in 1..n |-> i]
InSlot == IF elem = 0 THEN <<>> ELSE <<elem>>
Way == processed \o batch \o InSlot \o q

\* The posted elements, one more.
LEMMA UpToGrows ==
  ASSUME NEW n \in Nat
  PROVE  Append(UpTo(n), n + 1) = UpTo(n + 1)
<1> DEFINE s == UpTo(n)
           t == UpTo(n + 1)
<1>1. s \in Seq(Nat) /\ Len(s) = n
  BY DEF UpTo
<1>2. t \in Seq(Nat) /\ Len(t) = n + 1
  BY DEF UpTo
<1>3. /\ Append(s, n + 1) \in Seq(Nat) /\ Len(Append(s, n + 1)) = n + 1
      /\ \A i \in 1..n : Append(s, n + 1)[i] = s[i]
      /\ Append(s, n + 1)[n + 1] = n + 1
  BY <1>1, AppendProperties
<1>4. \A i \in 1..(n + 1) : Append(s, n + 1)[i] = t[i]
  BY <1>3 DEF UpTo
<1>5. QED BY <1>2, <1>3, <1>4, SeqEqual

\* Appending to the right part of a concatenation appends to the whole.
LEMMA AppendBehind ==
  ASSUME NEW S, NEW s \in Seq(S), NEW t \in Seq(S), NEW x \in S
  PROVE  s \o Append(t, x) = Append(s \o t, x)
<1>1. <<x>> \in Seq(S) /\ s \o t \in Seq(S)
  BY ConcatProperties
<1>2. s \o Append(t, x) = s \o (t \o <<x>>)
  BY AppendIsConcat
<1>3. Append(s \o t, x) = (s \o t) \o <<x>>
  BY <1>1, AppendIsConcat
<1>4. QED BY <1>1, <1>2, <1>3, ConcatAssociative

\* What is processed, batched and queued are sequences of elements.
LEMMA TypesOnTheWay ==
  ASSUME TypeOK
  PROVE  /\ InSlot \in Seq(Elements)
         /\ processed \o batch \in Seq(Elements)
         /\ processed \o batch \o InSlot \in Seq(Elements)
<1>1. InSlot \in Seq(Elements)
  <2>1. CASE elem = 0
    BY <2>1, EmptySeq DEF InSlot
  <2>2. CASE elem # 0
    BY <2>2, MaxPostsIsNat DEF InSlot, TypeOK, Elements
  <2>3. QED BY <2>1, <2>2
<1>2. processed \o batch \in Seq(Elements)
  BY ConcatProperties DEF TypeOK, Elements
<1>3. QED BY <1>1, <1>2, ConcatProperties

(* Every element is in one place, in the order of posting, and all are       *)
(* processed when the coroutine returns.                                     *)
THEOREM ProcessesEachOnce == Spec => []ElementsInOrder
<1> DEFINE Inv == Way = UpTo(posts) /\ (returned => qClosed /\ Len(processed) = posts)
<1>1. Init => Inv
  <2> SUFFICES ASSUME Init PROVE Inv
    OBVIOUS
  <2>1. Way = <<>> \o <<>> \o <<>> \o <<>>
    BY DEF Init, Way, InSlot
  <2>2. <<>> \o <<>> \o <<>> \o <<>> = <<>>
    BY EmptySeq, ConcatEmptySeq
  <2>3. UpTo(0) = <<>>
    BY DEF UpTo
  <2>4. QED BY <2>1, <2>2, <2>3 DEF Init
<1>2. TypeOK /\ ClosedIsEmpty /\ TimerGuardsBatch /\ Inv /\ [Next]_vars => Inv'
  <2> SUFFICES ASSUME TypeOK, ClosedIsEmpty, TimerGuardsBatch, Inv, [Next]_vars PROVE Inv'
    OBVIOUS
  <2> DEFINE P == processed
             B == batch
             W == processed \o batch \o InSlot
  <2>t. /\ P \in Seq(Elements) /\ B \in Seq(Elements) /\ q \in Seq(Elements)
        /\ InSlot \in Seq(Elements) /\ P \o B \in Seq(Elements) /\ W \in Seq(Elements)
        /\ posts \in Nat
    BY TypesOnTheWay, MaxPostsIsNat DEF TypeOK, Elements
  <2>1. CASE Post
    <3>1. posts + 1 \in Elements /\ ~returned'
      BY <2>1, <2>t, MaxPostsIsNat DEF Post, Elements, TypeOK
    <3>2. Way' = W \o Append(q, posts + 1)
      BY <2>1 DEF Post, Way, InSlot
    <3>3. W \o Append(q, posts + 1) = Append(W \o q, posts + 1)
      BY <2>t, <3>1, AppendBehind
    <3>4. Append(UpTo(posts), posts + 1) = UpTo(posts + 1)
      BY <2>t, UpToGrows
    <3>5. QED BY <2>1, <3>1, <3>2, <3>3, <3>4 DEF Post, Way
  <2>2. CASE PullCompletes
    <3>1. UNCHANGED <<processed, batch, posts, returned, qClosed>>
      BY <2>2 DEF PullCompletes
    <3>2. CASE UNCHANGED <<elem, q>>
      BY <3>1, <3>2 DEF Way, InSlot
    <3>3. CASE q # <<>> /\ elem' = Head(q) /\ q' = Tail(q)
      <4>1. Head(q) \in Elements /\ Tail(q) \in Seq(Elements) /\ q = <<Head(q)>> \o Tail(q)
        BY <2>t, <3>3, HeadTailProperties
      <4>2. InSlot = <<>> /\ InSlot' = <<Head(q)>>
        <5>1. elem = 0
          BY <2>2 DEF PullCompletes, TypeOK
        <5>2. Head(q) # 0
          BY <4>1, MaxPostsIsNat DEF Elements
        <5>3. QED BY <3>3, <5>1, <5>2 DEF InSlot
      <4>3. P \o B \in Seq(Elements) /\ <<Head(q)>> \in Seq(Elements) /\ Tail(q) \in Seq(Elements)
        BY <2>t, <4>1
      <4>4. Way = (P \o B) \o q
        BY <2>t, <4>2, ConcatEmptySeq DEF Way
      <4>5. Way' = ((P \o B) \o <<Head(q)>>) \o Tail(q)
        BY <3>1, <3>3, <4>2 DEF Way
      <4>6. ((P \o B) \o <<Head(q)>>) \o Tail(q) = (P \o B) \o (<<Head(q)>> \o Tail(q))
        BY <4>3, ConcatAssociative
      <4>7. QED BY <3>1, <4>1, <4>4, <4>5, <4>6
    <3>4. QED BY <2>2, <3>2, <3>3 DEF PullCompletes
  <2>3. CASE OnElement
    <3>1. elem \in Elements /\ InSlot = <<elem>> /\ <<elem>> \in Seq(Elements)
      <4>1. elem \in Elements /\ elem # 0
        BY <2>3, MaxPostsIsNat DEF OnElement, TypeOK, Elements
      <4>2. QED BY <4>1 DEF InSlot
    <3>2. Way' = ((P \o Append(B, elem)) \o <<>>) \o q
      BY <2>3 DEF OnElement, Way, InSlot
    <3>3. Append(B, elem) \in Seq(Elements) /\ P \o Append(B, elem) \in Seq(Elements)
      BY <2>t, <3>1, AppendProperties, ConcatProperties
    <3>4. P \o Append(B, elem) = Append(P \o B, elem)
      BY <2>t, <3>1, AppendBehind
    <3>5. Append(P \o B, elem) = (P \o B) \o <<elem>>
      BY <2>t, <3>1, AppendIsConcat
    <3>6. Way' = Way
      BY <3>1, <3>2, <3>3, <3>4, <3>5, ConcatEmptySeq DEF Way
    <3>7. QED BY <2>3, <3>6 DEF OnElement
  <2>4. CASE OnTimer
    <3>1. Way' = (((P \o B) \o <<>>) \o InSlot) \o q
      BY <2>4 DEF OnTimer, Way, InSlot
    <3>2. Way' = Way
      BY <2>t, <3>1, ConcatEmptySeq DEF Way
    <3>3. returned => B = <<>> /\ P \o B = P
      <4>1. ASSUME returned PROVE B = <<>>
        <5>1. Len(Way) = Len(P) + Len(B) + Len(InSlot) + Len(q) /\ Len(UpTo(posts)) = posts
          BY <2>t, ConcatProperties DEF Way, UpTo
        <5>2. Len(P) = posts /\ Len(InSlot) \in Nat /\ Len(q) \in Nat /\ Len(B) \in Nat
          BY <2>t, <4>1, LenProperties
        <5>3. Len(B) = 0
          BY <2>t, <5>1, <5>2
        <5>4. QED BY <2>t, <5>3, EmptySeq
      <4>2. QED BY <2>t, <4>1, ConcatEmptySeq
    <3>4. QED BY <2>4, <3>2, <3>3 DEF OnTimer
  <2>5. CASE OnEnd
    <3>1. InSlot = <<>> /\ B = <<>> /\ q = <<>> /\ qClosed
      BY <2>5 DEF OnEnd, TypeOK, InSlot, TimerGuardsBatch, ClosedIsEmpty
    <3>2. Way = P
      BY <2>t, <3>1, ConcatEmptySeq DEF Way
    <3>3. Len(UpTo(posts)) = posts
      BY <2>t DEF UpTo
    <3>4. UNCHANGED Way
      BY <2>5 DEF OnEnd, Way, InSlot
    <3>5. QED BY <2>5, <3>1, <3>2, <3>3, <3>4 DEF OnEnd
  <2>6. CASE Close \/ TimerExpires \/ CancelCompletes \/ OnClosed \/ UNCHANGED vars
    <3>1. UNCHANGED <<processed, batch, elem, q, posts, returned>> /\ (qClosed => qClosed')
      BY <2>6 DEF Close, TimerExpires, CancelCompletes, OnClosed, vars
    <3>2. Way' = Way
      BY <3>1 DEF Way, InSlot
    <3>3. QED BY <3>1, <3>2
  <2>7. QED BY <2>1, <2>2, <2>3, <2>4, <2>5, <2>6 DEF Next, Processor
<1>3. Inv => ElementsInOrder
  BY DEF ElementsInOrder, Way, InSlot, UpTo
<1>4. QED BY TypeCorrect, TimerIsSet, <1>1, <1>2, <1>3, PTL DEF Spec

-----------------------------------------------------------------------------
(* An iteration of a race outlives what it waits for, and aborts losers      *)
(* only, for any number of iterations. The invariant adds what an error code *)
(* says: it is there once a completion is on its way, and "aborted" names    *)
(* the one who cancelled.                                                    *)

Both == {Operation, Timeout}

RaceTypeOK ==
    /\ program \in {"mux", "select", "delay"}
    /\ round \in Nat
    /\ pc \in {"begin", "initiate", "await", "over"}
    /\ op \in [Both -> {"off", "posted", "armed", "completing", "done"}]
    /\ ec \in [Both -> {"none", "ok", "operation_aborted"}]
    /\ winner \in {0, Operation, Timeout}

\* An operation has an error code once its completion is on its way.
CodeOnCompletion == \A i \in Both : ec[i] # "none" <=> op[i] \in {"completing", "done"}

\* The timeout cancels the operation of a mux, the winner the loser of a select.
AbortedBy(i) == \/ program = "mux" /\ i = Operation /\ op[Timeout] = "done"
                \/ program = "select" /\ winner \in Both \ {i}

\* An aborted operation has its canceller, and the winner was received, uncancelled.
Canceller ==
    /\ \A i \in Both : ec[i] = "operation_aborted" => AbortedBy(i)
    /\ winner # 0 => program = "select" /\ op[winner] = "done" /\ ec[winner] = "ok"
    /\ program = "select" /\ winner = 0 => \A i \in Both : op[i] # "done"

RaceInv == RaceTypeOK /\ CodeOnCompletion /\ Canceller /\ TimersOutliveTheirWaits

\* The invariant holds at the start.
LEMMA RaceBegins == RaceInit => RaceInv
BY DEF RaceInit, RaceInv, RaceTypeOK, CodeOnCompletion, Canceller, AbortedBy, Both, Operation, Timeout,
       TimersOutliveTheirWaits, Ops

\* Every step keeps the invariant.
LEMMA RaceGoesOn == RaceInv /\ [RaceNext]_raceVars => RaceInv'
<1> SUFFICES ASSUME RaceInv, [RaceNext]_raceVars PROVE RaceInv'
  OBVIOUS
<1> USE DEF RaceInv, RaceTypeOK, CodeOnCompletion, Canceller, AbortedBy, Both,
        Operation, Timeout, TimersOutliveTheirWaits, Ops
<1>1. CASE Begin
  BY <1>1 DEF Begin
<1>2. ASSUME NEW i \in Ops, Initiate(i) PROVE RaceInv'
  BY <1>2 DEF Initiate
<1>3. CASE StartTask
  BY <1>3 DEF StartTask
<1>4. ASSUME NEW i \in Ops, Expire(i) PROVE RaceInv'
  BY <1>4 DEF Expire
<1>5. CASE OnOperation
  BY <1>5 DEF OnOperation, ReceiveAndCancel
<1>6. CASE OnTimeout
  BY <1>6 DEF OnTimeout, ReceiveAndCancel
<1>7. ASSUME NEW i \in Ops, SelectWinner(i) PROVE RaceInv'
  BY <1>7 DEF SelectWinner, ReceiveAndCancel
<1>8. ASSUME NEW i \in Ops, SelectLoser(i) PROVE RaceInv'
  BY <1>8 DEF SelectLoser, ReceiveAndCancel
<1>9. CASE End \/ Return \/ UNCHANGED raceVars
  BY <1>9 DEF End, Return, raceVars
<1>10. QED BY <1>1, <1>2, <1>3, <1>4, <1>5, <1>6, <1>7, <1>8, <1>9 DEF RaceNext, Main

(* The timers of an iteration are destroyed behind every wait for them. *)
THEOREM Outlives == RaceSpec => []TimersOutliveTheirWaits
<1>1. RaceInv => TimersOutliveTheirWaits
  BY DEF RaceInv
<1>2. QED BY RaceBegins, RaceGoesOn, <1>1, PTL DEF RaceSpec

(* Only a loser is aborted, by one that completed by itself; the result of *)
(* select() is that of such a one.                                         *)
THEOREM AbortsLosers == RaceSpec => []OnlyLosersAborted
<1>1. RaceInv => OnlyLosersAborted
  BY DEF RaceInv, RaceTypeOK, CodeOnCompletion, Canceller, AbortedBy, OnlyLosersAborted, Ops, Both,
         Operation, Timeout
<1>2. QED BY RaceBegins, RaceGoesOn, <1>1, PTL DEF RaceSpec

-----------------------------------------------------------------------------
(* A server leaves nothing behind, for any number of acceptors and           *)
(* connections. NothingLeft speaks of the end only; the invariant adds what  *)
(* makes it true before: an accept() that has returned has joined its        *)
(* handlers and lost its backlog, and a socket is open exactly while its     *)
(* handler runs.                                                             *)

ServerTypeOK ==
    /\ accept \in [Acceptors -> {"posted", "accepting", "joining", "returned"}]
    /\ main \in {"waiting", "returned"}
    /\ conn \in [Clients -> {"none", "backlog", "open", "closed", "refused"}]
    /\ acceptor \in [Clients -> Acceptors]
    /\ handler \in [Clients -> {"none", "read", "write", "done"}]

\* A handler exists for a socket that was accepted, and closes it when it ends.
SocketHandled == \A c \in Clients :
    /\ handler[c] \in {"read", "write"} <=> conn[c] = "open"
    /\ handler[c] = "done" <=> conn[c] = "closed"

\* An accept() that has returned has no handler and no backlog left.
ReturnedClean == \A c \in Clients : accept[acceptor[c]] = "returned" =>
    handler[c] \in {"none", "done"} /\ conn[c] # "backlog"

\* main returns behind every accept().
MainLast == main = "returned" => \A a \in Acceptors : accept[a] = "returned"

ServerInv == ServerTypeOK /\ SocketHandled /\ ReturnedClean /\ MainLast

\* The invariant holds at the start.
LEMMA ServerBegins == ServerInit => ServerInv
BY DEF ServerInit, ServerInv, ServerTypeOK, SocketHandled, ReturnedClean, MainLast

\* Steps of clients and handlers keep it.
LEMMA ByClients ==
  ASSUME ServerInv, NEW c \in Clients, ClientStep(c) \/ HandlerStep(c)
  PROVE  ServerInv'
<1> USE DEF ServerInv, ServerTypeOK, SocketHandled, ReturnedClean, MainLast
<1>1. CASE Connect(c)
  BY <1>1 DEF Connect, Listening
<1>2. CASE HangUp(c)
  BY <1>2 DEF HangUp
<1>3. CASE Read(c)
  BY <1>3 DEF Read
<1>4. CASE Write(c)
  BY <1>4 DEF Write
<1>5. CASE Fail(c)
  BY <1>5 DEF Fail
<1>6. QED BY <1>1, <1>2, <1>3, <1>4, <1>5 DEF ClientStep, HandlerStep

\* Steps of acceptors keep it.
LEMMA ByAcceptors ==
  ASSUME ServerInv, NEW a \in Acceptors, AcceptorStep(a)
  PROVE  ServerInv'
<1> USE DEF ServerInv, ServerTypeOK, SocketHandled, ReturnedClean, MainLast
<1>1. CASE Listen(a)
  BY <1>1 DEF Listen
<1>2. CASE Accept(a)
  <2>1. PICK c \in Clients :
          /\ accept[a] = "accepting"
          /\ conn[c] = "backlog" /\ acceptor[c] = a
          /\ conn' = [conn EXCEPT ![c] = "open"]
          /\ handler' = [handler EXCEPT ![c] = "read"]
          /\ UNCHANGED <<accept, main, acceptor, gone>>
    BY <1>2 DEF Accept
  <2>2. QED BY <2>1
<1>3. CASE AcceptFails(a)
  BY <1>3 DEF AcceptFails
<1>4. CASE JoinHandlers(a)
  <2>1. ServerTypeOK' /\ MainLast'
    BY <1>4 DEF JoinHandlers
  <2>2. SocketHandled'
    BY <1>4 DEF JoinHandlers
  <2>3. ReturnedClean'
    BY <1>4 DEF JoinHandlers, HandlersDone
  <2>4. QED BY <2>1, <2>2, <2>3
<1>5. QED BY <1>1, <1>2, <1>3, <1>4 DEF AcceptorStep

\* Every step keeps the invariant.
LEMMA ServerGoesOn == ServerInv /\ [ServerNext]_serverVars => ServerInv'
<1>1. CASE JoinAcceptors
  BY <1>1 DEF JoinAcceptors, ServerInv, ServerTypeOK, SocketHandled, ReturnedClean, MainLast
<1>2. CASE UNCHANGED serverVars
  BY <1>2 DEF serverVars, ServerInv, ServerTypeOK, SocketHandled, ReturnedClean, MainLast
<1>3. QED BY <1>1, <1>2, ByClients, ByAcceptors DEF ServerNext

(* When main returns, every accept() has returned, and with it every handler *)
(* it forked, which closed its socket, and every connection it never took.   *)
THEOREM LeavesNothing == ServerSpec => []NothingLeft
<1>1. ServerInv => NothingLeft
  BY DEF ServerInv, ServerTypeOK, SocketHandled, ReturnedClean, MainLast, NothingLeft
<1>2. QED BY ServerBegins, ServerGoesOn, <1>1, PTL DEF ServerSpec
=============================================================================
