--------------------------- MODULE MCPipelineFifo ---------------------------
(***************************************************************************)
(* The functions of examples/pipeline_fifo.cpp. A float or double is       *)
(* counted in halves, which represents every value that occurs.            *)
(***************************************************************************)
EXTENDS PipelineFifo, TLC

plus_half(i) == 2 * i + 1
times_two(h) == 2 * h
minus_one(h) == h \div 2 - 1
as_bool(i)   == IF i > 2 THEN 1 ELSE 0

MCFunc(k, v) == CASE k = 1 -> plus_half(v)
                  [] k = 2 -> times_two(v)
                  [] k = 3 -> minus_one(v)
                  [] k = 4 -> as_bool(v)

\* pipeline_fifo.cpp, all stages in parallel but the end stage; and a parallel end
\* stage behind stages of different parallelism.
MCParallelisms == {<<2, 2, 2, 2, 1>>, <<1, 1, 2, 1, 2>>}
=============================================================================
