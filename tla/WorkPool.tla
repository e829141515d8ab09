------------------------------ MODULE WorkPool ------------------------------
(***************************************************************************)
(* What an executor promises the code that posts to it: a work item that   *)
(* is posted while the executor is open runs exactly once, items start in  *)
(* the order they were posted, at most Capacity of them run at a time, and *)
(* the executor closes only when nothing is pending or running. An item    *)
(* posted after that stays pending for ever.                               *)
(***************************************************************************)
EXTENDS Naturals, Sequences, FiniteSets, Functions

CONSTANTS
    Work,       \* work items
    Capacity    \* how many may run at a time

VARIABLES
    pending,    \* posted and not started, oldest first
    running,    \* the items being executed
    done,       \* the items that have returned
    closed      \* no item starts any more

poolVars == <<pending, running, done, closed>>

Init ==
    /\ pending = <<>>
    /\ running = {}
    /\ done = {}
    /\ closed = FALSE

Post(w) ==
    /\ w \notin Range(pending) \cup running \cup done
    /\ pending' = Append(pending, w)
    /\ UNCHANGED <<running, done, closed>>

Start ==
    /\ ~closed
    /\ pending # <<>>
    /\ Cardinality(running) < Capacity
    /\ running' = running \cup {Head(pending)}
    /\ pending' = Tail(pending)
    /\ UNCHANGED <<done, closed>>

Finish(w) ==
    /\ w \in running
    /\ running' = running \ {w}
    /\ done' = done \cup {w}
    /\ UNCHANGED <<pending, closed>>

Close ==
    /\ ~closed
    /\ pending = <<>> /\ running = {}
    /\ closed' = TRUE
    /\ UNCHANGED <<pending, running, done>>

Next == Start \/ Close \/ \E w \in Work : Post(w) \/ Finish(w)

Spec == Init /\ [][Next]_poolVars

\* What is pending in an open executor is executed.
Executed == \A w \in Work : (w \in Range(pending) /\ ~closed) ~> (w \in done)

LiveSpec == Spec /\ Executed
=============================================================================
