---------------------------- MODULE ParallelMap ----------------------------
(***************************************************************************)
(* What a pipeline promises the code that drives it: elements 0..N-1 are   *)
(* accepted in order, each accepted element is delivered exactly once to   *)
(* the consumer as Result[i], in any order, and the pipeline is done when  *)
(* all have been accepted and delivered. The consumer keeps the sum and    *)
(* the count of what it was given.                                         *)
(***************************************************************************)
EXTENDS Integers, Sequences, Functions

CONSTANTS
    N,          \* the number of elements
    Result      \* what the pipeline makes of each element

VARIABLES
    accepted,   \* how many elements were put in
    delivered,  \* the elements handed to the consumer, in that order
    total,      \* <<sum, count>> of what was delivered
    done        \* the pipeline has been joined

mapVars == <<accepted, delivered, total, done>>

Init ==
    /\ accepted = 0
    /\ delivered = <<>>
    /\ total = <<0, 0>>
    /\ done = FALSE

Accept ==
    /\ accepted < N
    /\ accepted' = accepted + 1
    /\ UNCHANGED <<delivered, total, done>>

Deliver(i) ==
    /\ i < accepted
    /\ i \notin Range(delivered)
    /\ delivered' = Append(delivered, i)
    /\ total' = <<total[1] + Result[i], total[2] + 1>>
    /\ UNCHANGED <<accepted, done>>

Finish ==
    /\ ~done
    /\ accepted = N /\ Len(delivered) = N
    /\ done' = TRUE
    /\ UNCHANGED <<accepted, delivered, total>>

Next == Accept \/ Finish \/ \E i \in 0..N - 1 : Deliver(i)

Spec == Init /\ [][Next]_mapVars

Finishes == <>done
LiveSpec == Spec /\ Finishes
=============================================================================
