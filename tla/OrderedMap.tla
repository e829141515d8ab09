----------------------------- MODULE OrderedMap -----------------------------
(***************************************************************************)
(* A pipeline that, if it was made so, delivers in the order in which it   *)
(* accepted: the next element to be delivered is the first that has not    *)
(* been.                                                                   *)
(***************************************************************************)
EXTENDS ParallelMap

VARIABLE ordered    \* the pipeline keeps the order

InitOrdered == Init /\ ordered \in BOOLEAN

DeliverNext(i) == (ordered => i = Len(delivered)) /\ Deliver(i)

NextOrdered ==
    /\ Accept \/ Finish \/ \E i \in 0..N - 1 : DeliverNext(i)
    /\ UNCHANGED ordered

OrderedSpec == InitOrdered /\ [][NextOrdered]_<<mapVars, ordered>>
LiveOrderedSpec == OrderedSpec /\ Finishes
=============================================================================
