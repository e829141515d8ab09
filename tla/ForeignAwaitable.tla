-------------------------- MODULE ForeignAwaitable --------------------------
(***************************************************************************)
(* Awaitables that complete outside of the executor, and the coroutine     *)
(* that owns one of them: it awaits it as its plan says, then destroys it. *)
(*                                                                         *)
(*   "atomic"    tests/atomic_awaitable.hpp: the operation is a thread     *)
(*               that blocks until inc() has counted to `until`;           *)
(*   "external"  examples/external/external_awaitable.cpp: the operation   *)
(*               is a thread that stores a result;                         *)
(*   "callback"  examples/external/callback_awaitable.hpp: the operation   *)
(*               is the call of a callback, inside the initiating function *)
(*               or on a thread of the library that makes the call.        *)
(*                                                                         *)
(* An operation hands the coroutine back to its executor, so the coroutine *)
(* may run, and destroy the awaitable, before the thread that suspended it *)
(* has left await_suspend() and before the operation itself has ended.     *)
(***************************************************************************)
EXTENDS Naturals, Sequences, FiniteSets

CONSTANTS
    Incrementers,   \* the threads that call inc(), once each
    Programs        \* what a coroutine awaits: the kind, and how, await by await

\* "direct" is co_await aw, "spawned" wraps aw, "pair" is a spawn_tuple() of two.
How == {"direct", "spawned", "pair"}

ASSUME AwaitAssumption ==
    /\ IsFiniteSet(Incrementers) /\ Incrementers # {}
    /\ \A p \in Programs :
        /\ p.kind \in {"atomic", "external", "callback"}
        /\ p.plan \in Seq(How) /\ p.plan # <<>>

\* Every test counts the calls of inc() it waits for.
until == Cardinality(Incrementers)

VARIABLES
    kind,       \* the awaitable the program uses
    plan,       \* the awaits the coroutine has still to do, the current one first
    coro,       \* the coroutine: "running", "suspended", "posted", "joining" or "gone"
    initiator,  \* the thread inside await_suspend(): "idle", "start", "assign", "unlock"
    toStart,    \* operations of the current await that are still to be initiated
    lock,       \* tmc::tiny_lock
    thread,     \* std::thread: the operation it is the handle of, 0 if not joinable
    op,         \* the operations started so far, and where each is
    old,        \* the local `old` of the thread of each
    stored,     \* the operations whose result has been written
    pending,    \* operations of the current await that have not completed
    value,      \* std::atomic<T> value
    inc,        \* each incrementer: "idle", "notify" or "done"
    terminated  \* std::terminate() was called

coroVars == <<plan, coro>>
startVars == <<initiator, toStart, lock, thread>>
opVars == <<op, old, stored, pending>>
incVars == <<value, inc>>
vars == <<kind, coroVars, startVars, opVars, incVars, terminated>>

Init ==
    /\ \E p \in Programs : kind = p.kind /\ plan = p.plan
    /\ coro = "running"
    /\ initiator = "idle" /\ toStart = 0 /\ lock = FALSE /\ thread = 0
    /\ op = <<>> /\ old = <<>> /\ stored = {} /\ pending = 0
    /\ value = 0
    /\ inc = [i \in Incrementers |-> "idle"]
    /\ terminated = FALSE

HasThread == kind # "callback"
Operations == DOMAIN op
Width == IF Head(plan) = "pair" THEN 2 ELSE 1

-----------------------------------------------------------------------------
(* The coroutine and the thread it suspends on *)

\* await_ready() holds, which only the counter ever says.
AwaitReady ==
    /\ coro = "running" /\ plan # <<>>
    /\ kind = "atomic" /\ Head(plan) = "direct" /\ value = until
    /\ plan' = Tail(plan)
    /\ UNCHANGED <<kind, coro, startVars, opVars, incVars, terminated>>

SuspendUnder(guarded) ==
    /\ coro = "running" /\ plan # <<>>
    /\ kind = "atomic" /\ Head(plan) = "direct" => value # until
    /\ ~lock
    /\ lock' = guarded
    /\ coro' = "suspended"
    /\ initiator' = "start"
    /\ toStart' = Width
    /\ pending' = Width
    /\ UNCHANGED <<kind, plan, thread, op, old, stored, incVars, terminated>>

\* Mutant: the thread is started without the lock.
SuspendUnlocked == SuspendUnder(FALSE)

\* await_suspend(): the continuation is stored; what has a thread takes the lock.
Suspend == SuspendUnder(HasThread)

\* The temporary std::thread(...) starts to run, or the initiating function is called.
\* Nothing of a callback awaitable is used once the last of these calls has been made,
\* but by the callback; so the initiator of callbacks is then done with the await.
StartOperation ==
    /\ initiator = "start"
    /\ op' = Append(op, IF kind = "atomic" THEN "load" ELSE "store")
    /\ old' = Append(old, 0)
    /\ toStart' = toStart - 1
    /\ initiator' = IF HasThread THEN "assign" ELSE IF toStart > 1 THEN "start" ELSE "idle"
    /\ UNCHANGED <<kind, coroVars, lock, thread, stored, pending, incVars, terminated>>

\* The thread is moved into the member, which std::thread refuses when that is joinable.
AssignThread ==
    /\ initiator = "assign"
    /\ IF thread = 0
        THEN thread' = Len(op) /\ UNCHANGED terminated
        ELSE terminated' = TRUE /\ UNCHANGED thread
    /\ initiator' = "unlock"
    /\ UNCHANGED <<kind, coroVars, toStart, lock, opVars, incVars>>

Unlock ==
    /\ initiator = "unlock"
    /\ lock' = FALSE
    /\ initiator' = "idle"
    /\ UNCHANGED <<kind, coroVars, toStart, thread, opVars, incVars, terminated>>

\* The executor resumes the coroutine: await_resume(). A callback awaitable was a
\* temporary of the co_await expression and is destroyed here.
Resume ==
    /\ coro = "posted"
    /\ coro' = "running"
    /\ plan' = Tail(plan)
    /\ UNCHANGED <<kind, startVars, opVars, incVars, terminated>>

\* The destructor takes the lock ...
Destroy ==
    /\ coro = "running" /\ plan = <<>>
    /\ ~lock
    /\ lock' = HasThread
    /\ coro' = "joining"
    /\ UNCHANGED <<kind, plan, initiator, toStart, thread, opVars, incVars, terminated>>

\* ... and joins the thread, if there is one.
JoinThread ==
    /\ coro = "joining"
    /\ thread # 0 => op[thread] = "ended"
    /\ thread' = 0
    /\ lock' = FALSE
    /\ coro' = "gone"
    /\ UNCHANGED <<kind, plan, initiator, toStart, opVars, incVars, terminated>>

-----------------------------------------------------------------------------
(* The operations *)

Goto(t, l) == op' = [op EXCEPT ![t] = l]

\* old = value.load(), and the test of the loop.
Load(t) ==
    /\ op[t] = "load"
    /\ old' = [old EXCEPT ![t] = value]
    /\ Goto(t, IF value = until THEN "resume" ELSE "wait")
    /\ UNCHANGED <<kind, coroVars, startVars, stored, pending, incVars, terminated>>

\* value.wait(old) returns if the value differs and blocks if it does not.
Wait(t) ==
    /\ op[t] = "wait"
    /\ Goto(t, IF value # old[t] THEN "load" ELSE "blocked")
    /\ UNCHANGED <<kind, coroVars, startVars, old, stored, pending, incVars,
                   terminated>>

\* The thread, or the callback, writes the result where the awaiter reads it.
StoreResult(t) ==
    /\ op[t] = "store"
    /\ stored' = stored \cup {t}
    /\ Goto(t, "resume")
    /\ UNCHANGED <<kind, coroVars, startVars, old, pending, incVars, terminated>>

\* Mutant: each operation posts the coroutine.
PostEach(t) ==
    /\ op[t] = "resume"
    /\ Goto(t, "exit")
    /\ pending' = pending - 1
    /\ coro' = "posted"
    /\ UNCHANGED <<kind, plan, startVars, old, stored, incVars, terminated>>

\* A callback that runs where the coroutine may go on resumes it inside its own call,
\* which is inside the initiating function if the callback was called there. When that
\* call returns is left open: it touches the awaitable no more.
ResumeInline(t) ==
    /\ kind = "callback"
    /\ op[t] = "resume" /\ pending = 1
    /\ Goto(t, "exit")
    /\ pending' = 0
    /\ coro' = "running"
    /\ plan' = Tail(plan)
    /\ UNCHANGED <<kind, startVars, old, stored, incVars, terminated>>

\* The operation completes; the last of an await posts the coroutine to its executor.
PostContinuation(t) ==
    /\ op[t] = "resume"
    /\ Goto(t, "exit")
    /\ pending' = pending - 1
    /\ coro' = IF pending = 1 THEN "posted" ELSE coro
    /\ UNCHANGED <<kind, plan, startVars, old, stored, incVars, terminated>>

\* Mutant: the thread runs the coroutine itself, and so ends after it.
ExitAfterCoroutine(t) ==
    /\ op[t] = "exit"
    /\ coro = "gone"
    /\ Goto(t, "ended")
    /\ UNCHANGED <<kind, coroVars, startVars, old, stored, pending, incVars,
                   terminated>>

\* The thread ends, or the callback returns to its caller.
Exit(t) ==
    /\ op[t] = "exit"
    /\ Goto(t, "ended")
    /\ UNCHANGED <<kind, coroVars, startVars, old, stored, pending, incVars,
                   terminated>>

-----------------------------------------------------------------------------
(* inc() *)

\* ++value
Increment(i) ==
    /\ kind = "atomic"
    /\ inc[i] = "idle"
    /\ value' = value + 1
    /\ inc' = [inc EXCEPT ![i] = "notify"]
    /\ UNCHANGED <<kind, coroVars, startVars, opVars, terminated>>

\* Mutant: the notification is given before the increment, to nobody.
NotifyNobody(i) ==
    /\ inc[i] = "notify"
    /\ inc' = [inc EXCEPT ![i] = "done"]
    /\ UNCHANGED <<kind, coroVars, startVars, opVars, value, terminated>>

\* value.notify_all(): a thread that blocked compares again.
NotifyAll(i) ==
    /\ inc[i] = "notify"
    /\ inc' = [inc EXCEPT ![i] = "done"]
    /\ op' = [t \in Operations |-> IF op[t] = "blocked" THEN "wait" ELSE op[t]]
    /\ UNCHANGED <<kind, coroVars, startVars, old, stored, pending, value, terminated>>

-----------------------------------------------------------------------------
CoroStep == AwaitReady \/ Suspend \/ Resume \/ Destroy \/ JoinThread
InitiatorStep == StartOperation \/ AssignThread \/ Unlock
OpStep(t) ==
    \/ Load(t) \/ Wait(t) \/ StoreResult(t)
    \/ ResumeInline(t) \/ PostContinuation(t) \/ Exit(t)
IncStep(i) == Increment(i) \/ NotifyAll(i)

Next ==
    /\ ~terminated
    /\ \/ CoroStep
       \/ InitiatorStep
       \/ \E t \in Operations : OpStep(t)
       \/ \E i \in Incrementers : IncStep(i)

\* Every thread, and the executor, runs; every test makes all its calls of inc().
Fairness ==
    /\ WF_vars(~terminated /\ CoroStep)
    /\ WF_vars(~terminated /\ InitiatorStep)
    /\ WF_vars(~terminated /\ \E t \in Operations : OpStep(t))
    /\ \A i \in Incrementers : WF_vars(~terminated /\ IncStep(i))

Spec == Init /\ [][Next]_vars
FairSpec == Spec /\ Fairness

-----------------------------------------------------------------------------
(* "The lock here prevents it from running the destructor until after the    *)
(* thread variable has been populated" (external_awaitable.cpp:45,           *)
(* atomic_awaitable.hpp:45): once the object is gone, nobody is inside       *)
(* await_suspend() and every operation that uses it has ended. Callbacks     *)
(* have no lock: of them it says that all were initiated.                    *)
DestroyedAlone == coro = "gone" =>
    /\ initiator = "idle" /\ toStart = 0
    /\ HasThread => \A t \in Operations : op[t] = "ended"

(* A coroutine that goes on after an await finds what it waited for: the     *)
(* count reached, or the result of every operation, none of which touches    *)
(* its awaitable, a temporary of the expression, any more.                   *)
ResultReady == coro = "posted" \/ (coro = "running" /\ op # <<>>) =>
    /\ toStart = 0
    /\ \A t \in Operations : op[t] \in {"exit", "ended"}
    /\ IF kind = "atomic" THEN value = until ELSE stored = Operations

(* A thread that sleeps on a value that is no longer current is about to be  *)
(* notified: inc() changes the value before it notifies.                     *)
NoMissedIncrement == \A t \in Operations :
    op[t] = "blocked" /\ value # old[t] => \E i \in Incrementers : inc[i] = "notify"

(* Whatever the order of inc(), await, notification and callback, the        *)
(* coroutine gets through its awaits and the destructor returns.             *)
Completes == <>(coro = "gone")

(* "This type is safe to await multiple times, so spawn_*() should borrow it *)
(* (forward an lvalue) rather than consume it."                              *)
SafeToAwaitAgain == ~terminated
=============================================================================
