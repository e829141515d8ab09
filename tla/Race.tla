-------------------------------- MODULE Race --------------------------------
(***************************************************************************)
(* Operations against a timeout, over Asio timers:                         *)
(*                                                                         *)
(*   "mux"     asio/mux_timeout.cpp: tmc::mux_tuple() of the operation and *)
(*             of a task that waits for a shorter timer; the coroutine     *)
(*             cancels the operation when that task is ready and goes on   *)
(*             until both are;                                             *)
(*   "select"  asio/select.cpp: tmc::select() of two timers, which takes   *)
(*             the first, cancels the other and waits for it;              *)
(*   "delay"   asio/delay.cpp: waits for one timer after the other.        *)
(*                                                                         *)
(* A completion, once on its way, keeps its error code whatever is         *)
(* cancelled after it. The operation stands for one that may never end by  *)
(* itself. mux and select are the library's, and so are the timers.        *)
(***************************************************************************)
EXTENDS Naturals, FiniteSets

CONSTANT Rounds     \* how often a program's loop runs

ASSUME RoundsAssumption == Rounds \in Nat \ {0}

VARIABLES
    program,    \* "mux", "select" or "delay"
    round,      \* iterations begun
    pc,         \* main: "begin", "initiate", "await" or "over"
    op,         \* each operation: "off", "posted", "armed", "completing" or "done"
    ec,         \* its error code: "none", "ok" or "operation_aborted"
    winner      \* the index of the result of select(), 0 before

raceVars == <<program, round, pc, op, ec, winner>>

Operation == 1
Timeout == 2
Ops == IF program = "delay" THEN {Operation} ELSE {Operation, Timeout}

\* The early returns of delay.cpp.
Failed == program = "delay" /\ ec[Operation] = "operation_aborted"

RaceInit ==
    /\ program \in {"mux", "select", "delay"}
    /\ round = 0
    /\ pc = "begin"
    /\ op = [i \in {Operation, Timeout} |-> "off"]
    /\ ec = [i \in {Operation, Timeout} |-> "none"]
    /\ winner = 0

-----------------------------------------------------------------------------
(* Asio *)

\* A timer expires, or the operation ends: the completion is on its way.
Expire(i) ==
    /\ op[i] = "armed"
    /\ op' = [op EXCEPT ![i] = "completing"]
    /\ ec' = [ec EXCEPT ![i] = "ok"]
    /\ UNCHANGED <<program, round, pc, winner>>

\* i is received, and cancel() completes those of `others` that are pending.
ReceiveAndCancel(i, others) ==
    LET pending == {j \in others : op[j] = "armed"} IN
        /\ op' = [j \in DOMAIN op |-> IF j = i THEN "done"
                                      ELSE IF j \in pending THEN "completing" ELSE op[j]]
        /\ ec' = [j \in DOMAIN ec |-> IF j \in pending THEN "operation_aborted" ELSE ec[j]]

-----------------------------------------------------------------------------
(* main *)

\* The timers of an iteration are made.
Begin ==
    /\ pc = "begin" /\ round < Rounds /\ ~Failed
    /\ round' = round + 1
    /\ pc' = "initiate"
    /\ op' = [i \in DOMAIN op |-> "off"]
    /\ ec' = [i \in DOMAIN ec |-> "none"]
    /\ winner' = 0
    /\ UNCHANGED program

\* async_wait() of each, in the order of the arguments; the timeout of the mux is a
\* task, which is posted and waits when it runs.
Initiate(i) ==
    /\ pc = "initiate"
    /\ i = Timeout => op[Operation] # "off"
    /\ op[i] = "off"
    /\ op' = [op EXCEPT ![i] = IF program = "mux" /\ i = Timeout THEN "posted" ELSE "armed"]
    /\ pc' = IF \E j \in Ops : j > i THEN pc ELSE "await"
    /\ UNCHANGED <<program, round, ec, winner>>

\* The task of the timeout runs up to its co_await.
StartTask ==
    /\ op[Timeout] = "posted"
    /\ op' = [op EXCEPT ![Timeout] = "armed"]
    /\ UNCHANGED <<program, round, pc, ec, winner>>

\* The operation is ready: its error code is printed.
OnOperation ==
    /\ pc = "await" /\ program # "select"
    /\ op[Operation] = "completing"
    /\ ReceiveAndCancel(Operation, {})
    /\ UNCHANGED <<program, round, pc, winner>>

\* Mutant: the operation is not cancelled.
OnTimeoutOnly ==
    /\ pc = "await" /\ program = "mux"
    /\ op[Timeout] = "completing"
    /\ ReceiveAndCancel(Timeout, {})
    /\ UNCHANGED <<program, round, pc, winner>>

\* Mutant: the task of the timeout returns without having awaited its timer.
OnTimeoutUnawaited ==
    /\ pc = "await" /\ program = "mux"
    /\ op[Timeout] \in {"posted", "completing"}
    /\ ReceiveAndCancel(Timeout, {Operation})
    /\ UNCHANGED <<program, round, pc, winner>>

\* The timeout is ready: the operation is cancelled.
OnTimeout ==
    /\ pc = "await" /\ program = "mux"
    /\ op[Timeout] = "completing"
    /\ ReceiveAndCancel(Timeout, {Operation})
    /\ UNCHANGED <<program, round, pc, winner>>

\* select() has its first completion and cancels the other ...
SelectWinner(i) ==
    /\ pc = "await" /\ program = "select"
    /\ winner = 0
    /\ op[i] = "completing"
    /\ winner' = i
    /\ ReceiveAndCancel(i, Ops \ {i})
    /\ UNCHANGED <<program, round, pc>>

\* ... whose result it drops.
SelectLoser(i) ==
    /\ pc = "await" /\ program = "select"
    /\ winner \notin {0, i}
    /\ op[i] = "completing"
    /\ ReceiveAndCancel(i, {})
    /\ UNCHANGED <<program, round, pc, winner>>

\* Mutant: the loop ends with the first result.
EndOnFirst ==
    /\ pc = "await"
    /\ \E i \in Ops : op[i] = "done"
    /\ pc' = "begin"
    /\ UNCHANGED <<program, round, op, ec, winner>>

\* Every operation is done: the timers go out of scope.
End ==
    /\ pc = "await"
    /\ \A i \in Ops : op[i] = "done"
    /\ pc' = "begin"
    /\ UNCHANGED <<program, round, op, ec, winner>>

\* co_return
Return ==
    /\ pc = "begin"
    /\ round = Rounds \/ Failed
    /\ pc' = "over"
    /\ UNCHANGED <<program, round, op, ec, winner>>

-----------------------------------------------------------------------------
Main ==
    \/ Begin \/ OnOperation \/ OnTimeout \/ End \/ Return
    \/ \E i \in Ops : Initiate(i) \/ SelectWinner(i) \/ SelectLoser(i)

RaceNext == Main \/ StartTask \/ \E i \in Ops : Expire(i)

\* The executor runs what is posted to it, and timers expire: all but the operation.
RaceFairness ==
    /\ WF_raceVars(Main)
    /\ WF_raceVars(StartTask)
    /\ WF_raceVars(Expire(Timeout))
    /\ WF_raceVars(program = "delay" /\ Expire(Operation))

RaceSpec == RaceInit /\ [][RaceNext]_raceVars
FairRaceSpec == RaceSpec /\ RaceFairness

-----------------------------------------------------------------------------
(* "We must wait for all operations to complete before returning"            *)
(* (mux_timeout.cpp:93): when an iteration ends and its timers are           *)
(* destroyed, no task and no completion that refers to them is left.         *)
TimersOutliveTheirWaits == pc \in {"begin", "over"} =>
    \A i \in Ops : op[i] \in {"off", "done"}

(* Nothing is aborted but by a timeout or a winner that completed by itself  *)
(* and was received first, so the result of select() is never that of a      *)
(* cancelled operation, and delay.cpp never meets an error.                  *)
OnlyLosersAborted ==
    /\ \A i \in Ops : ec[i] = "operation_aborted" =>
        \E j \in Ops \ {i} : op[j] = "done" /\ ec[j] = "ok"
    /\ winner # 0 => ec[winner] = "ok"

(* The program ends, though the operation may never end by itself: the       *)
(* cancellation reaches it, whatever it races with.                          *)
LoopEnds == <>(pc = "over")
=============================================================================
