----------------------------- MODULE TaskGroup -----------------------------
(***************************************************************************)
(* A coroutine that spawns a group of tasks and goes on when all of them   *)
(* are done: the shape of braid.cpp, spawn_iterator.cpp and                *)
(* exec_st_roundtrip_bench.cpp.                                            *)
(*                                                                         *)
(* The tasks come from an iterator, perhaps filtered, of which at most a   *)
(* given number is taken. They start on the CPU executor, where any number *)
(* of them runs at the same time, or on a serial executor (a braid, an     *)
(* executor of one thread, or a mutex), which runs one until that ends or  *)
(* is suspended. A task goes from one to the other as its body says.       *)
(*                                                                         *)
(* A detached group is not awaited: the sample sleeps and takes its tasks  *)
(* to be done then. The model takes them to be done as well, which needs a *)
(* second thread: the sleep blocks one of the executor's own.              *)
(***************************************************************************)
EXTENDS Naturals, Sequences, Sums

\* The bodies of the tasks. "load" and "store" are v++, "inc" is ++ of an atomic;
\* "enter" and "resume_on_cpu" do nothing on the executor they name, "exit" nothing on
\* the one the task came from; "call" and "back" suspend the task whatever it is on.
\* The "inc" of a producer is a ghost: it counts the calls of consumer().
Bodies == [
    value                   |-> <<"return">>,
    detached                |-> <<"inc">>,
    child_tasks             |-> <<"load", "store">>,
    braid_lock              |-> <<"enter", "load", "store">>,
    braid_lock_middle       |-> <<"enter", "load", "store", "exit">>,
    middle_resume_on        |-> <<"enter", "load", "store", "resume_on_cpu">>,
    middle_child            |-> <<"call", "load", "store", "back">>,
    producer                |-> <<"call", "inc", "back">>]

-----------------------------------------------------------------------------
(* The groups of the samples, with the numbers the samples assert: how many  *)
(* tasks there are, and the counter or the sum of the results. Producers     *)
(* share out `sum` elements.                                                 *)

Group(body, on, items, count, sum) ==
    [body |-> body, on |-> on, items |-> items, filter |-> FALSE, bound |-> items,
     count |-> count, sum |-> sum]

\* braid.cpp: every group is run on the braid ...
run_on_braid(n) == {Group(b, "serial", n, n, n) : b \in
    {"child_tasks", "braid_lock", "braid_lock_middle", "middle_resume_on", "middle_child"}}

\* ... and those that enter it might not be, as the "work in parallel" of its comments
\* has it.
off_braid(n) == {Group(b, "cpu", n, n, n) : b \in
    {"braid_lock", "braid_lock_middle", "middle_resume_on", "middle_child"}}

\* spawn_iterator.cpp: at most `bound` tasks of an iterator.
UpTo(bound, filter, group) == [group EXCEPT !.bound = bound, !.filter = filter]

static_sized_iterator(n) == {Group("value", "cpu", n, n, TwoTo(n) - 1)}

bounded_iterator(n) ==
    {UpTo(n, TRUE, Group("value", "cpu", n, n - 1, TwoTo(n) - 1 - 8)),
     UpTo(n, TRUE, Group("value", "cpu", n + 20, n, TwoTo(n) - 1 - 8 + TwoTo(n)))}

dynamic_sized_iterator(n) ==
    {UpTo(n, TRUE, Group("value", "cpu", n, n - 1, TwoTo(n) - 1 - 8))}

detach_maxCount ==
    {UpTo(5, FALSE, Group("detached", "cpu", 10, 5, 5)),
     UpTo(15, FALSE, Group("detached", "cpu", 10, 10, 10))}

detach_uncountable_iter ==
    {UpTo(5, TRUE, Group("detached", "cpu", 10, 5, 5)),
     UpTo(15, TRUE, Group("detached", "cpu", 10, 9, 9))}

\* exec_st_roundtrip_bench.cpp, with a number of producers.
run_bench(nelems, prodCount) == Group("producer", "cpu", prodCount, prodCount, nelems)

-----------------------------------------------------------------------------
CONSTANT Programs   \* the groups that are run

ASSUME ProgramsAssumption == \A p \in Programs :
    /\ p.body \in DOMAIN Bodies
    /\ p.on \in {"cpu", "serial"}
    /\ {p.items, p.bound, p.count, p.sum} \subseteq Nat
    /\ p.filter \in BOOLEAN

VARIABLES
    prog,       \* the program
    next,       \* the iterator
    tasks,      \* the element each task was made of
    pc,         \* the coroutine: "fill", "wait" or "joined"
    ex,         \* the executor each task is on or posted to
    at,         \* its place in its body
    serial,     \* the task the serial executor runs, 0 if it is idle
    local,      \* what it loaded
    value,      \* the counter
    results     \* what it returned

place == <<ex, at, serial>>
data == <<local, value, results>>
groupVars == <<prog, next, tasks, pc, place, data>>

Tasks == DOMAIN tasks

GroupInit ==
    /\ prog \in Programs
    /\ next = 0
    /\ tasks = <<>>
    /\ pc = "fill"
    /\ ex = <<>> /\ at = <<>> /\ serial = 0
    /\ local = <<>> /\ value = 0 /\ results = <<>>

-----------------------------------------------------------------------------
(* The coroutine *)

unpredictable_filter(i) == i # 3

\* How often a producer repeats its body: its share of the elements.
Share(k) == prog.sum \div prog.items + (IF k <= prog.sum % prog.items THEN 1 ELSE 0)

Repeat(s, n) == [k \in 1..n * Len(s) |-> s[((k - 1) % Len(s)) + 1]]

Body(t) ==
    LET b == Bodies[prog.body]
    IN IF prog.body = "producer" THEN Repeat(b, Share(t)) ELSE b

Take(i) ==
    /\ tasks' = Append(tasks, i)
    /\ ex' = Append(ex, prog.on)
    /\ at' = Append(at, 1)
    /\ local' = Append(local, 0)
    /\ results' = Append(results, 0)

\* An element of the iterator, while there are any and the bound is not reached.
Fill ==
    /\ pc = "fill"
    /\ next < prog.items /\ Len(tasks) < prog.bound
    /\ next' = next + 1
    /\ IF prog.filter => unpredictable_filter(next)
        THEN Take(next)
        ELSE UNCHANGED <<tasks, ex, at, local, results>>
    /\ UNCHANGED <<prog, pc, serial, value>>

\* The tasks are posted to their executor.
Spawn ==
    /\ pc = "fill"
    /\ next = prog.items \/ Len(tasks) = prog.bound
    /\ pc' = "wait"
    /\ UNCHANGED <<prog, next, tasks, place, data>>

Done(t) == at[t] > Len(Body(t))

\* Mutant: the coroutine waits for as many tasks as the bound allows.
JoinBound ==
    /\ pc = "wait"
    /\ Len(tasks) = prog.bound /\ \A t \in Tasks : Done(t) /\ serial # t
    /\ pc' = "joined"
    /\ UNCHANGED <<prog, next, tasks, place, data>>

\* The last task is done: the coroutine, or the future, goes on.
Join ==
    /\ pc = "wait"
    /\ \A t \in Tasks : Done(t) /\ serial # t
    /\ pc' = "joined"
    /\ UNCHANGED <<prog, next, tasks, place, data>>

-----------------------------------------------------------------------------
(* The tasks *)

Runs(t) == pc = "wait" /\ (ex[t] = "serial" => serial = t)
Step(t, s) == Runs(t) /\ ~Done(t) /\ Body(t)[at[t]] = s
Advance(t) == at' = [at EXCEPT ![t] = @ + 1]

\* Mutant: the serial executor takes up a task while it runs another.
TakeUpAnother(t) ==
    /\ pc = "wait"
    /\ ex[t] = "serial" /\ ~Done(t) /\ serial # t
    /\ serial' = t
    /\ UNCHANGED <<prog, next, tasks, pc, ex, at, data>>

\* The serial executor takes up a task that was posted to it.
TakeUp(t) ==
    /\ pc = "wait"
    /\ ex[t] = "serial" /\ ~Done(t) /\ serial = 0
    /\ serial' = t
    /\ UNCHANGED <<prog, next, tasks, pc, ex, at, data>>

\* A task ends on the serial executor.
End(t) ==
    /\ serial = t /\ Done(t)
    /\ serial' = 0
    /\ UNCHANGED <<prog, next, tasks, pc, ex, at, data>>

\* The task goes to executor e, unless it may stay where it is.
Go(t, e, stay) ==
    /\ Advance(t)
    /\ IF stay /\ ex[t] = e
        THEN UNCHANGED <<ex, serial>>
        ELSE /\ ex' = [ex EXCEPT ![t] = e]
             /\ serial' = IF serial = t THEN 0 ELSE serial
    /\ UNCHANGED <<prog, next, tasks, pc, data>>

Enter(t) == Step(t, "enter") /\ Go(t, "serial", TRUE)
Exit(t) == Step(t, "exit") /\ Go(t, prog.on, TRUE)
ResumeOnCpu(t) == Step(t, "resume_on_cpu") /\ Go(t, "cpu", TRUE)
Call(t) == Step(t, "call") /\ Go(t, "serial", FALSE)
Back(t) == Step(t, "back") /\ Go(t, prog.on, FALSE)

Load(t) ==
    /\ Step(t, "load") /\ Advance(t)
    /\ local' = [local EXCEPT ![t] = value]
    /\ UNCHANGED <<prog, next, tasks, pc, ex, serial, value, results>>

Store(t) ==
    /\ Step(t, "store") /\ Advance(t)
    /\ value' = local[t] + 1
    /\ UNCHANGED <<prog, next, tasks, pc, ex, serial, local, results>>

Increment(t) ==
    /\ Step(t, "inc") /\ Advance(t)
    /\ value' = value + 1
    /\ UNCHANGED <<prog, next, tasks, pc, ex, serial, local, results>>

\* work(): co_return 1 << i
Return(t) ==
    /\ Step(t, "return") /\ Advance(t)
    /\ results' = [results EXCEPT ![t] = TwoTo(tasks[t])]
    /\ UNCHANGED <<prog, next, tasks, pc, ex, serial, local, value>>

-----------------------------------------------------------------------------
Coroutine == Fill \/ Spawn \/ Join
Task(t) ==
    \/ TakeUp(t) \/ End(t)
    \/ Enter(t) \/ Exit(t) \/ ResumeOnCpu(t) \/ Call(t) \/ Back(t)
    \/ Load(t) \/ Store(t) \/ Increment(t) \/ Return(t)

GroupNext == Coroutine \/ \E t \in Tasks : Task(t)

\* Every task that can go on runs; the serial executor takes up its tasks in some order.
GroupSpec == GroupInit /\ [][GroupNext]_groupVars
FairGroupSpec == GroupSpec /\ WF_groupVars(Coroutine) /\ WF_groupVars(\E t \in Tasks : Task(t))

-----------------------------------------------------------------------------
(* What braid.cpp and spawn_iterator.cpp assert when the group is done: the  *)
(* number of tasks, the counter (no increment is lost, and none is still to  *)
(* come), and the sum of the results. exec_st_roundtrip_bench.cpp asserts    *)
(* nothing: of it this says that every element has made its round trip.      *)
AsAsserted == pc = "joined" =>
    /\ Len(tasks) = prog.count
    /\ IF prog.body = "value" THEN SumOf(results) = prog.sum ELSE value = prog.sum

(* The group comes to an end, however its tasks go to and fro and how many   *)
(* of them the iterator had.                                                 *)
Joins == <>(pc = "joined")
=============================================================================
