---------------------------- MODULE MCTaskGroup ----------------------------
(* The groups of TaskGroup: TASK_COUNT is 4, IterMax 5 as in the code, and 5 *)
(* elements go round one to four producers.                                  *)
EXTENDS TaskGroup

MCPrograms ==
    run_on_braid(4) \cup off_braid(4)
    \cup static_sized_iterator(5) \cup bounded_iterator(5) \cup dynamic_sized_iterator(5)
    \cup detach_maxCount \cup detach_uncountable_iter
    \cup {run_bench(5, n) : n \in 1..4}
=============================================================================
