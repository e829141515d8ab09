----------------------------- MODULE MCPipeline -----------------------------
(***************************************************************************)
(* The functions of examples/pipeline.cpp on five stages. A float or       *)
(* double is counted in halves, which represents every value that occurs.  *)
(***************************************************************************)
EXTENDS Pipeline, TLC

CONSTANTS w1, w2, w3, w4, w5, w6

plus_half(i) == 2 * i + 1
times_two(h) == 2 * h
minus_one(h) == h \div 2 - 1
as_bool(i)   == IF i > 2 THEN 1 ELSE 0

MCFunc(k, v) == CASE k = 1 -> plus_half(v)
                  [] k = 2 -> times_two(v)
                  [] k = 3 -> minus_one(v)
                  [] k = 4 -> as_bool(v)

MCChanType ==
    LET ints == 0..NELEMS - 1
        halves == {plus_half(i) : i \in ints}
        doubles == {times_two(h) : h \in halves}
    IN  <<ints, halves, doubles, {minus_one(h) : h \in doubles}, {0, 1}>>

MCStageOf == w1 :> 1 @@ w2 :> 2 @@ w3 :> 3 @@ w4 :> 4 @@ w5 :> 5 @@ w6 :> 1
=============================================================================
