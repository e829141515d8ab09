---------------------------- MODULE ExternalCoro ----------------------------
(***************************************************************************)
(* Symmetric transfer between TMC tasks and the external coroutine type of *)
(* examples/external/external_coro.hpp, in the call chains that            *)
(* external_coro.cpp builds: frame n awaits frame n+1, the last frame      *)
(* returns Max and each of the others returns what it was given. An        *)
(* external coroutine knows no executor: who runs next is only what        *)
(* await_suspend and final_suspend return.                                 *)
(***************************************************************************)
EXTENDS Naturals

CONSTANTS
    MaxDepth,       \* bound on the length of a chain
    AwaitedKinds,   \* the kinds of coroutine that are awaited
    Executor        \* the loop of the worker thread that resumed the root

\* A tmc::task<int>, an external_coro<int> or an external_coro<void>.
Kinds == {"task", "int", "void"}

ASSUME CoroAssumption ==
    /\ MaxDepth \in Nat \ {0}
    /\ AwaitedKinds \subseteq Kinds
    /\ Executor \notin 0..MaxDepth

VARIABLES
    Max,            \* the argument of the call: the length of the chain
    kind,           \* the kind of each frame
    state,          \* the life of each frame
    continuation,   \* promise().continuation, 0 if it was not set
    result,         \* the awaitable's `result` in each awaiting frame, 0 if not set
    promised,       \* the value of the std::promise that main() waits for, 0 if not set
    control         \* the frame the thread is executing, or Executor

vars == <<Max, kind, state, continuation, result, promised, control>>

Frames == 1..Max

\* The root is submitted with post_waitable (a task) or with post (an
\* external_coro<void>); "external_coro<int>" is "not currently supported" there.
Init ==
    /\ Max \in 1..MaxDepth
    /\ kind \in {f \in [Frames -> Kinds] :
                    f[1] \in {"task", "void"} /\ \A n \in 2..Max : f[n] \in AwaitedKinds}
    /\ state = [n \in Frames |-> IF n = 1 THEN "running" ELSE "unborn"]
    /\ continuation = [n \in Frames |-> 0]
    /\ result = [n \in Frames |-> 0]
    /\ promised = 0
    /\ control = 1

-----------------------------------------------------------------------------
\* co_await: the child is created suspended, told who awaits it, and runs next.
Await(n) ==
    /\ control = n /\ state[n] = "running"
    /\ n < Max
    /\ state' = [state EXCEPT ![n] = "awaiting", ![n + 1] = "running"]
    /\ continuation' = [continuation EXCEPT ![n + 1] = n]
    /\ control' = n + 1
    /\ UNCHANGED <<Max, kind, result, promised>>

\* The value a frame returns: Max where the recursion ends, the child's otherwise.
Returned(n) == IF n = Max THEN Max ELSE result[n]

\* The frame returns, at the end of the recursion or after its child has.
MayReturn(n) ==
    /\ control = n
    /\ (n = Max /\ state[n] = "running") \/ state[n] = "resumed"

\* Where the value goes: to the awaiting frame, or to main() from the root, which
\* sets the promise itself when it is an external_coro<void>.
GiveResult(n, v) ==
    IF n = 1
    THEN promised' = v /\ UNCHANGED result
    ELSE /\ result' = IF kind[n] = "void" THEN result
                      ELSE [result EXCEPT ![continuation[n]] = v]
         /\ UNCHANGED promised

\* Mutant: the frame suspends at its end and transfers to nobody.
SuspendForGood(n) ==
    /\ MayReturn(n) /\ kind[n] # "void"
    /\ GiveResult(n, Returned(n))
    /\ state' = [state EXCEPT ![n] = "final"]
    /\ control' = Executor
    /\ UNCHANGED <<Max, kind, continuation>>

\* Mutant: the frame does not suspend at its end.
ReturnAndDestroy(n) ==
    /\ MayReturn(n) /\ kind[n] # "void"
    /\ GiveResult(n, Returned(n))
    /\ state' = [state EXCEPT ![n] = "destroyed"]
    /\ control' = IF n = 1 THEN Executor ELSE continuation[n]
    /\ UNCHANGED <<Max, kind, continuation>>

\* return_value and final_suspend of a task or an external_coro<int>: store the
\* result, suspend, and transfer to the continuation. The root task is the
\* library's to complete and destroy.
ReturnAndTransfer(n) ==
    /\ MayReturn(n) /\ kind[n] # "void"
    /\ GiveResult(n, Returned(n))
    /\ state' = [state EXCEPT ![n] = IF n = 1 THEN "destroyed" ELSE "final"]
    /\ control' = IF n = 1 THEN Executor ELSE continuation[n]
    /\ UNCHANGED <<Max, kind, continuation>>

\* return_void and final_suspend of external_coro<void>: std::suspend_never. The
\* frame is destroyed and control goes back to whoever resumed the thread's chain.
ReturnAndVanish(n) ==
    /\ MayReturn(n) /\ kind[n] = "void"
    /\ GiveResult(n, Returned(n))
    /\ state' = [state EXCEPT ![n] = "destroyed"]
    /\ control' = Executor
    /\ UNCHANGED <<Max, kind, continuation>>

\* Mutant: await_resume does not destroy the frame.
AwaitResumeOnly(n) ==
    /\ control = n /\ state[n] = "awaiting"
    /\ state' = [state EXCEPT ![n] = "resumed"]
    /\ UNCHANGED <<Max, kind, continuation, result, promised, control>>

\* await_resume: handle.destroy(), and the awaiting frame goes on.
AwaitResume(n) ==
    /\ control = n /\ state[n] = "awaiting"
    /\ state' = [state EXCEPT ![n] = "resumed", ![n + 1] = "destroyed"]
    /\ UNCHANGED <<Max, kind, continuation, result, promised, control>>

-----------------------------------------------------------------------------
Next == \E n \in Frames :
    Await(n) \/ ReturnAndTransfer(n) \/ ReturnAndVanish(n) \/ AwaitResume(n)

\* The thread runs.
Fairness == WF_vars(Next)

Spec == Init /\ [][Next]_vars
FairSpec == Spec /\ Fairness

-----------------------------------------------------------------------------
Awaiting(n) == n \in Frames /\ state[n] = "awaiting"

(* The frames form one stack: everything above the running frame awaits its  *)
(* child, the child alone can give control back, and a frame is destroyed    *)
(* only when it has ended and nobody can transfer to it.                     *)
StackIntact ==
    \A n \in Frames :
        /\ state[n] = "awaiting" /\ control # n => state[n + 1] \in {"running", "awaiting", "resumed"}
        /\ state[n] = "awaiting" /\ control = n => state[n + 1] = "final"
        /\ state[n] \in {"running", "resumed"} => control = n
        /\ n > 1 /\ state[n] # "unborn" => continuation[n] = n - 1

(* When control is back with the executor the call is complete: no frame of  *)
(* the chain is left suspended, each was destroyed, and main() is answered.  *)
CompleteOnReturn ==
    control = Executor => /\ \A n \in Frames : state[n] = "destroyed"
                          /\ promised = Max

(* "An external coroutine that can await, and be awaited by, TMC             *)
(* coroutines": who awaits one is resumed.                                   *)
AwaiterResumed == \A n \in 1..MaxDepth : Awaiting(n) ~> ~Awaiting(n)
=============================================================================
