--------------------------- MODULE BatchProcessor ---------------------------
(***************************************************************************)
(* The timed batch processor of examples/asio/batch_processor.cpp: one     *)
(* coroutine awaits a mux of two awaitables, a pull from a queue (slot 0)  *)
(* and a timer (slot 1). The first element of a batch starts the timer;    *)
(* the batch is processed when the timer completes, whether it expired or  *)
(* was cancelled because the queue was closed.                             *)
(*                                                                         *)
(* The queue is closed and filled by other threads, the timer completes on *)
(* the asio thread: both interleave with the coroutine. An iteration of    *)
(* the loop is one step, because a completion that falls into it only      *)
(* turns a slot from active to ready, which is_active() does not tell      *)
(* apart: a slot's bit is cleared by the co_await that returns it.         *)
(***************************************************************************)
EXTENDS Naturals, Sequences

CONSTANTS
    MaxPosts    \* bound on the elements that are posted

ASSUME MaxPostsIsNat == MaxPosts \in Nat

VARIABLES
    q,          \* posted elements that were not pulled
    qClosed,    \* the queue is closed
    posts,      \* how many elements were posted: they are 1..posts
    pullSlot,   \* mux slot 0: "active", "element", "closed" or "idle"
    elem,       \* the element slot 0 completed with, 0 if none
    timerSlot,  \* mux slot 1: "active", "cancelled" (still to complete), "ready" or "idle"
    batch,      \* std::vector<data> batch
    processed,  \* ghost: the elements of the batches given to process()
    returned    \* the coroutine has returned

vars == <<q, qClosed, posts, pullSlot, elem, timerSlot, batch, processed, returned>>

Init ==
    /\ q = <<>>
    /\ qClosed = FALSE
    /\ posts = 0
    /\ pullSlot = "active"
    /\ elem = 0
    /\ timerSlot = "idle"
    /\ batch = <<>>
    /\ processed = <<>>
    /\ returned = FALSE

-----------------------------------------------------------------------------
(* The other threads *)

Post ==
    /\ ~qClosed /\ posts < MaxPosts
    /\ posts' = posts + 1
    /\ q' = Append(q, posts')
    /\ UNCHANGED <<qClosed, pullSlot, elem, timerSlot, batch, processed, returned>>

Close ==
    /\ ~qClosed
    /\ qClosed' = TRUE
    /\ UNCHANGED <<q, posts, pullSlot, elem, timerSlot, batch, processed, returned>>

\* The pull of slot 0 completes: with the oldest element, or empty.
PullCompletes ==
    /\ pullSlot = "active"
    /\ \/ /\ q # <<>>
          /\ pullSlot' = "element" /\ elem' = Head(q) /\ q' = Tail(q)
       \/ /\ q = <<>> /\ qClosed
          /\ pullSlot' = "closed" /\ UNCHANGED <<elem, q>>
    /\ UNCHANGED <<qClosed, posts, timerSlot, batch, processed, returned>>

\* The timer expires, or its cancellation is delivered.
TimerExpires ==
    /\ timerSlot = "active"
    /\ timerSlot' = "ready"
    /\ UNCHANGED <<q, qClosed, posts, pullSlot, elem, batch, processed, returned>>

CancelCompletes ==
    /\ timerSlot = "cancelled"
    /\ timerSlot' = "ready"
    /\ UNCHANGED <<q, qClosed, posts, pullSlot, elem, batch, processed, returned>>

-----------------------------------------------------------------------------
(* timedBatchProcessor *)

\* Mutant: the timer is not started.
OnElementNoTimer ==
    /\ pullSlot = "element"
    /\ batch' = Append(batch, elem)
    /\ pullSlot' = "active" /\ elem' = 0
    /\ UNCHANGED <<q, qClosed, posts, timerSlot, processed, returned>>

\* Mutant: the queue is pulled only once.
OnElementNoPull ==
    /\ pullSlot = "element"
    /\ batch' = Append(batch, elem)
    /\ pullSlot' = "idle" /\ elem' = 0
    /\ timerSlot' = IF timerSlot = "idle" THEN "active" ELSE timerSlot
    /\ UNCHANGED <<q, qClosed, posts, processed, returned>>

\* case 0 with an element: keep it, pull again, start the timer if it is not
\* active. A timer that has expired but was not returned by the mux is active.
OnElement ==
    /\ pullSlot = "element"
    /\ batch' = Append(batch, elem)
    /\ pullSlot' = "active" /\ elem' = 0
    /\ timerSlot' = IF timerSlot = "idle" THEN "active" ELSE timerSlot
    /\ UNCHANGED <<q, qClosed, posts, processed, returned>>

\* Mutant: the timer is not cancelled.
OnClosedNoCancel ==
    /\ pullSlot = "closed"
    /\ pullSlot' = "idle"
    /\ UNCHANGED <<q, qClosed, posts, elem, timerSlot, batch, processed, returned>>

\* case 0 without one: the queue was closed. Cancel the timer if it is active.
OnClosed ==
    /\ pullSlot = "closed"
    /\ pullSlot' = "idle"
    /\ timerSlot' = IF timerSlot = "active" THEN "cancelled" ELSE timerSlot
    /\ UNCHANGED <<q, qClosed, posts, elem, batch, processed, returned>>

\* Mutant: the batch is not processed if the timer was cancelled.
OnTimerUnlessCancelled ==
    /\ timerSlot = "ready"
    /\ timerSlot' = "idle"
    /\ processed' = IF pullSlot = "idle" THEN processed ELSE processed \o batch
    /\ batch' = IF pullSlot = "idle" THEN batch ELSE <<>>
    /\ UNCHANGED <<q, qClosed, posts, pullSlot, elem, returned>>

\* case 1: the timer fired or was cancelled.
OnTimer ==
    /\ timerSlot = "ready"
    /\ timerSlot' = "idle"
    /\ processed' = processed \o batch
    /\ batch' = <<>>
    /\ UNCHANGED <<q, qClosed, posts, pullSlot, elem, returned>>

\* mux.end(): no slot is active.
OnEnd ==
    /\ pullSlot = "idle" /\ timerSlot = "idle"
    /\ ~returned
    /\ returned' = TRUE
    /\ UNCHANGED <<q, qClosed, posts, pullSlot, elem, timerSlot, batch, processed>>

-----------------------------------------------------------------------------
Processor == OnElement \/ OnClosed \/ OnTimer \/ OnEnd

Next ==
    \/ Post \/ Close \/ PullCompletes \/ TimerExpires \/ CancelCompletes
    \/ Processor

\* The coroutine runs while the mux has something for it, and completions are
\* delivered. Nobody is obliged to post or to close, and the clock is apart.
Fairness == WF_vars(Processor) /\ WF_vars(PullCompletes) /\ WF_vars(CancelCompletes)
TimePasses == WF_vars(TimerExpires)

Spec == Init /\ [][Next]_vars
FairSpec == Spec /\ Fairness

-----------------------------------------------------------------------------
(* The mux has two slots and the processor one batch, and neither holds      *)
(* anything that was not posted.                                             *)
TypeOK ==
    /\ q \in Seq(1..MaxPosts) /\ batch \in Seq(1..MaxPosts) /\ processed \in Seq(1..MaxPosts)
    /\ qClosed \in BOOLEAN /\ returned \in BOOLEAN
    /\ posts \in 0..MaxPosts
    /\ pullSlot \in {"active", "element", "closed", "idle"}
    /\ elem \in 0..MaxPosts
    /\ elem # 0 <=> pullSlot = "element"
    /\ timerSlot \in {"active", "cancelled", "ready", "idle"}

(* The timer runs exactly while a batch is being collected, in every order   *)
(* of arrivals, expiries and cancellations: no element waits in a batch that *)
(* nothing will flush, and no empty batch is processed.                      *)
TimerGuardsBatch == batch # <<>> <=> timerSlot # "idle"

(* Every posted element is in exactly one place, in the order of posting:    *)
(* processed, in the batch, in the mux's slot or in the queue; and when the  *)
(* coroutine returns, all are processed.                                     *)
ElementsInOrder ==
    /\ processed \o batch \o (IF elem = 0 THEN <<>> ELSE <<elem>>) \o q = [n \in 1..posts |-> n]
    /\ returned => qClosed /\ Len(processed) = posts

(* Once the queue is closed the coroutine returns, without waiting for the   *)
(* timer to expire: "Queue was closed. Cancel the timer if it's active."     *)
ReturnsAfterClose == qClosed ~> returned

(* If time passes, every element is processed, closed queue or not.          *)
EveryElementFlushed ==
    TimePasses => \A n \in 1..MaxPosts : posts >= n ~> Len(processed) >= n
=============================================================================
