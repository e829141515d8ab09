----------------------- MODULE ForeignAwaitableProofs -----------------------
(***************************************************************************)
(* Theorems about ForeignAwaitable for any number of callers of inc() and  *)
(* any programs, also those that end in std::terminate(). The invariant    *)
(* adds who is inside the lock, which operation the member `thread` stands *)
(* for, and what the counter of an await counts.                           *)
(***************************************************************************)
EXTENDS ForeignAwaitable, SequenceTheorems, FiniteSetTheorems, TLAPS

OpPC == {"load", "wait", "blocked", "store", "resume", "exit", "ended"}

TypeOK ==
    /\ kind \in {"atomic", "external", "callback"}
    /\ plan \in Seq(How)
    /\ coro \in {"running", "suspended", "posted", "joining", "gone"}
    /\ initiator \in {"idle", "start", "assign", "unlock"}
    /\ toStart \in Nat /\ pending \in Nat
    /\ lock \in BOOLEAN /\ terminated \in BOOLEAN
    /\ thread \in {0, 1}
    /\ op \in Seq(OpPC) /\ old \in Seq(Nat) /\ Len(old) = Len(op)
    /\ stored \subseteq Operations
    /\ value \in Nat
    /\ inc \in [Incrementers -> {"idle", "notify", "done"}]

\* The lock is held from await_suspend() on until the member is assigned, and by the
\* destructor; the coroutine stops at a call that terminates the program.
Locked ==
    /\ lock <=> HasThread /\ (initiator # "idle" \/ coro = "joining")
    /\ HasThread /\ coro \in {"joining", "gone"} => initiator = "idle"
    /\ ~HasThread => initiator \in {"idle", "start"}
    /\ initiator = "start" => toStart > 0
    /\ ~HasThread /\ toStart > 0 => initiator = "start"
    /\ plan = <<>> => coro # "suspended" /\ coro # "posted"
    /\ terminated => initiator = "unlock"

\* The member is the handle of the last operation, unless that is being assigned, or
\* refused; the destructor leaves no operation running.
Handle == HasThread =>
    /\ initiator = "assign" => Len(op) = thread + 1
    /\ initiator # "assign" /\ ~terminated /\ coro # "gone" => Len(op) = thread
    /\ coro = "gone" => \A t \in Operations : op[t] = "ended"

\* An await counts the operations that were not started or have not completed.
Live == {t \in Operations : op[t] \notin {"exit", "ended"}}
Counted ==
    /\ pending = toStart + Cardinality(Live)
    /\ coro # "suspended" => pending = 0

\* Every call of inc() has counted once.
Called == {i \in Incrementers : inc[i] # "idle"}
CountsCalls == value = Cardinality(Called)

\* An operation completes when what it waits for is there.
Completed == \A t \in Operations :
    /\ op[t] \in {"load", "wait", "blocked"} => kind = "atomic"
    /\ op[t] = "store" => kind # "atomic"
    /\ op[t] \in {"resume", "exit", "ended"} =>
        IF kind = "atomic" THEN value = until ELSE t \in stored

\* Only an operation posts the coroutine.
PostedByOne == coro = "posted" => Operations # {}

IInv ==
    /\ TypeOK /\ Locked /\ Handle /\ Counted /\ CountsCalls /\ Completed
    /\ PostedByOne /\ NoMissedIncrement

-----------------------------------------------------------------------------
(* What the steps do to the sequence of operations *)

\* A step of one operation leaves the others alone.
LEMMA AtGoto ==
  ASSUME TypeOK, NEW t \in Operations, NEW l \in OpPC, Goto(t, l)
  PROVE  /\ op' \in Seq(OpPC) /\ Len(op') = Len(op) /\ Operations' = Operations
         /\ op'[t] = l /\ \A s \in Operations \ {t} : op'[s] = op[s]
<1>1. op \in Seq(OpPC) /\ t \in 1..Len(op)
  BY DEF TypeOK, Operations
<1>2. op' = [op EXCEPT ![t] = l]
  BY DEF Goto
<1>3. op' \in Seq(OpPC) /\ Len(op') = Len(op)
  BY <1>1, <1>2, ExceptSeq
<1>4. Operations' = Operations
  BY <1>1, <1>3 DEF Operations
<1>5. QED BY <1>1, <1>2, <1>3, <1>4 DEF Operations

\* A new operation is the last one.
LEMMA AtStart ==
  ASSUME TypeOK, StartOperation
  PROVE  /\ op' \in Seq(OpPC) /\ Len(op') = Len(op) + 1
         /\ Operations' = Operations \cup {Len(op) + 1} /\ Len(op) + 1 \notin Operations
         /\ op'[Len(op) + 1] = IF kind = "atomic" THEN "load" ELSE "store"
         /\ \A s \in Operations : op'[s] = op[s]
<1> DEFINE l == IF kind = "atomic" THEN "load" ELSE "store"
<1>1. op \in Seq(OpPC) /\ l \in OpPC /\ op' = Append(op, l)
  BY DEF TypeOK, OpPC, StartOperation
<1>2. /\ op' \in Seq(OpPC) /\ Len(op') = Len(op) + 1 /\ op'[Len(op) + 1] = l
      /\ \A i \in 1..Len(op) : op'[i] = op[i]
  BY <1>1, AppendProperties
<1>3. DOMAIN op = 1..Len(op) /\ DOMAIN op' = 1..(Len(op) + 1) /\ Len(op) \in Nat
  BY <1>1, <1>2, LenProperties
<1>4. QED BY <1>2, <1>3 DEF Operations

\* notify_all() wakes every waiter that is blocked.
LEMMA AtNotify ==
  ASSUME TypeOK, NEW i \in Incrementers, NotifyAll(i)
  PROVE  /\ op' \in Seq(OpPC) /\ Len(op') = Len(op) /\ Operations' = Operations
         /\ \A s \in Operations : op'[s] = IF op[s] = "blocked" THEN "wait" ELSE op[s]
<1>1. op \in Seq(OpPC) /\ Operations = 1..Len(op) /\ Len(op) \in Nat
  BY DEF TypeOK, Operations
<1>2. op' = [t \in 1..Len(op) |-> IF op[t] = "blocked" THEN "wait" ELSE op[t]]
  BY <1>1 DEF NotifyAll
<1>3. \A t \in 1..Len(op) : (IF op[t] = "blocked" THEN "wait" ELSE op[t]) \in OpPC
  BY <1>1 DEF OpPC
<1>4. op' \in [1..Len(op) -> OpPC]
  BY <1>2, <1>3
<1>5. op' \in Seq(OpPC) /\ Len(op') = Len(op)
  BY <1>1, <1>4
<1>6. QED BY <1>1, <1>2, <1>5 DEF Operations

\* The operations that have not completed can be counted.
LEMMA LiveIsFinite ==
  ASSUME TypeOK
  PROVE  IsFiniteSet(Live) /\ Cardinality(Live) \in Nat
<1>1. Operations = 1..Len(op) /\ Len(op) \in Nat
  BY DEF TypeOK, Operations
<1>2. IsFiniteSet(Operations)
  BY <1>1, FS_Interval
<1>3. Live \subseteq Operations
  BY DEF Live
<1>4. QED BY <1>2, <1>3, FS_Subset, FS_CardinalityType

\* A coroutine that is not suspended has nothing outstanding.
LEMMA NoneLive ==
  ASSUME TypeOK, Counted, coro # "suspended"
  PROVE  /\ pending = 0 /\ toStart = 0
         /\ \A t \in Operations : op[t] \in {"exit", "ended"}
<1>1. pending = 0 /\ toStart = 0 /\ Cardinality(Live) = 0
  BY LiveIsFinite DEF TypeOK, Counted
<1>2. Live = {}
  BY <1>1, LiveIsFinite, FS_EmptySet
<1>3. QED BY <1>1, <1>2 DEF Live

\* The steps of an operation, and what they leave alone.
LEMMA AtOpStep ==
  ASSUME TypeOK, NEW t \in Operations, OpStep(t)
  PROVE  /\ op' \in Seq(OpPC) /\ Len(op') = Len(op) /\ Operations' = Operations
         /\ \A s \in Operations \ {t} : op'[s] = op[s]
         /\ op[t] # "ended"
         /\ UNCHANGED <<kind, initiator, toStart, lock, thread, value, inc, terminated>>
<1>1. ASSUME NEW l \in OpPC, Goto(t, l)
      PROVE  /\ op' \in Seq(OpPC) /\ Len(op') = Len(op) /\ Operations' = Operations
             /\ \A s \in Operations \ {t} : op'[s] = op[s]
  BY <1>1, AtGoto
<1>2. CASE Load(t)
  <2>1. \E l \in OpPC : Goto(t, l)
    BY <1>2 DEF Load, OpPC
  <2>2. QED BY <1>1, <1>2, <2>1 DEF Load, coroVars, startVars, incVars
<1>3. CASE Wait(t)
  <2>1. \E l \in OpPC : Goto(t, l)
    BY <1>3 DEF Wait, OpPC
  <2>2. QED BY <1>1, <1>3, <2>1 DEF Wait, coroVars, startVars, incVars
<1>4. CASE StoreResult(t) \/ ResumeInline(t) \/ PostContinuation(t) \/ Exit(t)
  <2>1. \E l \in OpPC : Goto(t, l)
    BY <1>4 DEF StoreResult, ResumeInline, PostContinuation, Exit, OpPC
  <2>2. QED BY <1>1, <1>4, <2>1 DEF StoreResult, ResumeInline, PostContinuation, Exit,
                                    coroVars, startVars, incVars
<1>5. QED BY <1>2, <1>3, <1>4 DEF OpStep

\* An operation leaves the coroutine alone, posts it, or goes on with it in the next
\* await of its plan.
LEMMA AtContinuation ==
  ASSUME TypeOK, Counted, NEW t \in Operations, OpStep(t)
  PROVE  \/ UNCHANGED <<plan, coro>>
         \/ coro = "suspended" /\ coro' = "posted" /\ plan' = plan
         \/ coro = "suspended" /\ coro' = "running" /\ plan' = Tail(plan) /\ ~HasThread
<1>1. CASE ResumeInline(t) \/ PostContinuation(t)
  <2>1. op[t] = "resume"
    BY <1>1 DEF ResumeInline, PostContinuation
  <2>2. coro = "suspended"
    BY <2>1, NoneLive
  <2>3. QED BY <1>1, <2>2 DEF ResumeInline, PostContinuation, HasThread
<1>2. CASE Load(t) \/ Wait(t) \/ StoreResult(t) \/ Exit(t)
  BY <1>2 DEF Load, Wait, StoreResult, Exit, coroVars
<1>3. QED BY <1>1, <1>2 DEF OpStep

-----------------------------------------------------------------------------
(* The invariant, conjunct by conjunct *)

\* The invariant holds at the start.
LEMMA Initially == Init => IInv
<1> SUFFICES ASSUME Init PROVE IInv
  OBVIOUS
<1>1. PICK p \in Programs : kind = p.kind /\ plan = p.plan
  BY DEF Init
<1>2. op = <<>> /\ old = <<>> /\ Operations = {} /\ <<>> \in Seq(OpPC) /\ <<>> \in Seq(Nat)
  BY EmptySeq DEF Init, Operations
<1>3. TypeOK /\ Locked /\ Handle
  <2>1. kind \in {"atomic", "external", "callback"} /\ plan \in Seq(How) /\ plan # <<>>
    BY <1>1, AwaitAssumption
  <2>2. Len(op) = 0 /\ Len(old) = 0
    BY <1>2
  <2>3. TypeOK
    BY <1>2, <2>1, <2>2 DEF Init, TypeOK
  <2>4. Locked
    BY DEF Init, Locked, HasThread
  <2>5. Handle
    BY <2>2 DEF Init, Handle
  <2>6. QED BY <2>3, <2>4, <2>5
<1>4. Live = {} /\ Called = {}
  BY <1>2 DEF Init, Live, Called
<1>5. Counted /\ CountsCalls
  BY <1>4, FS_EmptySet DEF Init, Counted, CountsCalls
<1>6. Completed /\ NoMissedIncrement
  BY <1>2 DEF Completed, NoMissedIncrement
<1>7. PostedByOne
  BY DEF Init, PostedByOne
<1>8. QED BY <1>3, <1>5, <1>6, <1>7 DEF IInv

\* Every step keeps the types.
LEMMA TypeKept == IInv /\ [Next]_vars => TypeOK'
<1> SUFFICES ASSUME IInv, [Next]_vars PROVE TypeOK'
  OBVIOUS
<1>t. TypeOK
  BY DEF IInv
<1>1. CASE AwaitReady \/ Suspend \/ Resume \/ Destroy \/ JoinThread
  <2>1. plan # <<>> => Tail(plan) \in Seq(How)
    BY <1>t DEF TypeOK
  <2>2. plan = <<>> => coro # "posted"
    BY DEF IInv, Locked
  <2>3. Width \in Nat
    BY DEF Width
  <2>4. UNCHANGED <<op, old, stored, kind, terminated, value, inc>>
    BY <1>1 DEF AwaitReady, Suspend, SuspendUnder, Resume, Destroy, JoinThread, opVars,
                incVars, startVars
  <2>5. CASE AwaitReady \/ Resume
    BY <1>t, <2>1, <2>2, <2>4, <2>5 DEF AwaitReady, Resume, startVars, opVars, TypeOK, Operations
  <2>6. CASE Suspend
    BY <1>t, <2>3, <2>4, <2>6 DEF Suspend, SuspendUnder, TypeOK, HasThread, Operations
  <2>7. CASE Destroy \/ JoinThread
    BY <1>t, <2>4, <2>7 DEF Destroy, JoinThread, opVars, TypeOK, HasThread, Operations
  <2>8. QED BY <1>1, <2>5, <2>6, <2>7
<1>2. CASE StartOperation
  <2>1. toStart - 1 \in Nat
    BY <1>2, <1>t DEF IInv, Locked, StartOperation, TypeOK
  <2>2. old' \in Seq(Nat) /\ Len(old') = Len(old) + 1
    BY <1>2, <1>t, AppendProperties DEF StartOperation, TypeOK
  <2>3. stored' \subseteq Operations'
    BY <1>2, <1>t, AtStart DEF StartOperation, TypeOK
  <2>4. op' \in Seq(OpPC) /\ Len(op') = Len(op) + 1
    BY <1>2, <1>t, AtStart
  <2>5. QED BY <1>2, <1>t, <2>1, <2>2, <2>3, <2>4 DEF StartOperation, TypeOK, coroVars, incVars
<1>3. CASE AssignThread \/ Unlock
  <2>1. UNCHANGED <<kind, plan, coro, toStart, op, old, stored, pending, value, inc>>
    BY <1>3 DEF AssignThread, Unlock, coroVars, opVars, incVars
  <2>2. initiator = "assign" => HasThread /\ Len(op) = thread + 1
    BY DEF IInv, Locked, Handle
  <2>3. thread' \in {0, 1} /\ terminated' \in BOOLEAN /\ lock' \in BOOLEAN
    <3>1. CASE AssignThread /\ thread = 0
      BY <1>t, <2>2, <3>1 DEF AssignThread, TypeOK
    <3>2. CASE AssignThread /\ thread # 0
      BY <1>t, <3>2 DEF AssignThread, TypeOK
    <3>3. CASE Unlock
      BY <1>t, <3>3 DEF Unlock, TypeOK
    <3>4. QED BY <1>3, <3>1, <3>2, <3>3
  <2>4. initiator' \in {"idle", "unlock"}
    BY <1>3 DEF AssignThread, Unlock
  <2>5. QED BY <1>t, <2>1, <2>3, <2>4 DEF TypeOK, Operations
<1>4. ASSUME NEW t \in Operations, OpStep(t) PROVE TypeOK'
  <2>1. /\ op' \in Seq(OpPC) /\ Len(op') = Len(op) /\ Operations' = Operations
        /\ UNCHANGED <<kind, initiator, toStart, lock, thread, value, inc, terminated>>
    BY <1>4, <1>t, AtOpStep
  <2>2. t \in 1..Len(old) /\ old \in Seq(Nat) /\ value \in Nat
    BY <1>t DEF TypeOK, Operations
  <2>3. old' \in Seq(Nat) /\ Len(old') = Len(old)
    <3>1. CASE Load(t)
      BY <3>1, <2>2, ExceptSeq DEF Load
    <3>2. CASE ~Load(t)
      BY <1>4, <3>2, <2>2 DEF OpStep, Wait, StoreResult, ResumeInline, PostContinuation, Exit
    <3>3. QED BY <3>1, <3>2
  <2>4. stored' \subseteq Operations
    BY <1>4, <1>t DEF OpStep, Load, Wait, StoreResult, ResumeInline, PostContinuation, Exit, TypeOK
  <2>5. pending' \in Nat
    <3>1. CASE PostContinuation(t)
      <4>1. t \in Live
        BY <3>1 DEF PostContinuation, Live
      <4>2. Cardinality(Live) # 0
        BY <1>t, <4>1, LiveIsFinite, FS_EmptySet
      <4>3. pending # 0
        BY <1>t, <4>2, LiveIsFinite DEF IInv, Counted, TypeOK
      <4>4. QED BY <1>t, <3>1, <4>3 DEF PostContinuation, TypeOK
    <3>2. CASE ~PostContinuation(t)
      BY <1>t, <1>4, <3>2 DEF OpStep, Load, Wait, StoreResult, ResumeInline, Exit, TypeOK
    <3>3. QED BY <3>1, <3>2
  <2>6. plan' \in Seq(How) /\ coro' \in {coro, "posted", "running"}
    <3>1. coro = "suspended" => plan # <<>> /\ Tail(plan) \in Seq(How)
      BY <1>t DEF IInv, Locked, TypeOK
    <3>2. QED BY <1>t, <1>4, <3>1, AtContinuation DEF IInv, TypeOK
  <2>7. QED BY <1>t, <2>1, <2>3, <2>4, <2>5, <2>6 DEF TypeOK
<1>5. ASSUME NEW i \in Incrementers, IncStep(i) PROVE TypeOK'
  <2>1. CASE Increment(i)
    BY <1>t, <2>1 DEF Increment, TypeOK, coroVars, startVars, opVars, Operations
  <2>2. CASE NotifyAll(i)
    <3>1. op' \in Seq(OpPC) /\ Len(op') = Len(op) /\ Operations' = Operations
      BY <1>t, <2>2, AtNotify
    <3>2. QED BY <1>t, <2>2, <3>1 DEF NotifyAll, TypeOK, coroVars, startVars
  <2>3. QED BY <1>5, <2>1, <2>2 DEF IncStep
<1>6. CASE UNCHANGED vars
  BY <1>t, <1>6 DEF TypeOK, vars, coroVars, startVars, opVars, incVars, Operations
<1>7. QED BY <1>1, <1>2, <1>3, <1>4, <1>5, <1>6 DEF Next, CoroStep, InitiatorStep

\* Every step keeps who is inside the lock.
LEMMA LockedKept == IInv /\ [Next]_vars => Locked'
<1> SUFFICES ASSUME IInv, [Next]_vars PROVE Locked'
  OBVIOUS
<1>t. TypeOK /\ Locked /\ (coro # "suspended" => toStart = 0)
  BY NoneLive DEF IInv
<1> USE <1>t DEF TypeOK, Locked, HasThread
<1>1. CASE AwaitReady
  BY <1>1 DEF AwaitReady, startVars
<1>2. CASE Suspend /\ ~terminated
  <2>1. Width \in Nat \ {0}
    BY DEF Width
  <2>2. /\ coro' = "suspended" /\ initiator' = "start" /\ toStart' = Width
        /\ plan # <<>> /\ UNCHANGED <<kind, plan, terminated>>
    BY <1>2 DEF Suspend, SuspendUnder
  <2>3. lock' <=> HasThread
    BY <1>2 DEF Suspend, SuspendUnder
  <2>4. QED BY <1>2, <2>1, <2>2, <2>3
<1>3. CASE Resume
  BY <1>3 DEF Resume, startVars
<1>4. CASE Destroy
  BY <1>4 DEF Destroy
<1>5. CASE JoinThread
  BY <1>5 DEF JoinThread
<1>6. CASE StartOperation
  BY <1>6 DEF StartOperation, coroVars
<1>7. CASE AssignThread
  BY <1>7 DEF AssignThread, coroVars
<1>8. CASE Unlock /\ ~terminated
  BY <1>8 DEF Unlock, coroVars
<1>9. ASSUME NEW t \in Operations, OpStep(t) PROVE Locked'
  <2>1. UNCHANGED <<kind, initiator, toStart, lock, thread, terminated>>
    BY <1>9, AtOpStep
  <2>2. \/ UNCHANGED <<plan, coro>>
        \/ coro = "suspended" /\ coro' = "posted" /\ plan' = plan
        \/ coro = "suspended" /\ coro' = "running"
    BY <1>9, AtContinuation DEF IInv
  <2>3. QED BY <2>1, <2>2
<1>10. ASSUME NEW i \in Incrementers, IncStep(i) PROVE Locked'
  BY <1>10 DEF IncStep, Increment, NotifyAll, coroVars, startVars
<1>11. CASE UNCHANGED vars
  BY <1>11 DEF vars, coroVars, startVars
<1>12. QED BY <1>1, <1>2, <1>3, <1>4, <1>5, <1>6, <1>7, <1>8, <1>9, <1>10, <1>11
           DEF Next, CoroStep, InitiatorStep

\* An awaitable keeps its kind.
LEMMA KindKept == TypeOK /\ [Next]_vars => kind' = kind
<1> SUFFICES ASSUME TypeOK, [Next]_vars PROVE kind' = kind
  OBVIOUS
<1>1. CASE CoroStep
  BY <1>1 DEF CoroStep, AwaitReady, Suspend, SuspendUnder, Resume, Destroy, JoinThread
<1>2. CASE InitiatorStep
  BY <1>2 DEF InitiatorStep, StartOperation, AssignThread, Unlock
<1>3. ASSUME NEW t \in Operations, OpStep(t) PROVE kind' = kind
  BY <1>3, AtOpStep
<1>4. ASSUME NEW i \in Incrementers, IncStep(i) PROVE kind' = kind
  BY <1>4 DEF IncStep, Increment, NotifyAll
<1>5. CASE UNCHANGED vars
  BY <1>5 DEF vars
<1>6. QED BY <1>1, <1>2, <1>3, <1>4, <1>5 DEF Next

\* Every step keeps what the member `thread` stands for.
LEMMA HandleKept == IInv /\ [Next]_vars => Handle'
<1> SUFFICES ASSUME IInv, [Next]_vars PROVE Handle'
  OBVIOUS
<1>k. kind' = kind
  BY KindKept DEF IInv
<1> SUFFICES ASSUME HasThread
             PROVE  /\ initiator' = "assign" => Len(op') = thread' + 1
                    /\ initiator' # "assign" /\ ~terminated' /\ coro' # "gone" => Len(op') = thread'
                    /\ coro' = "gone" => \A t \in Operations' : op'[t] = "ended"
  BY <1>k DEF Handle, HasThread
<1>t. TypeOK /\ Locked /\ Handle /\ Counted
  BY DEF IInv
<1>g. coro = "gone" => initiator = "idle" /\ \A t \in Operations : op[t] = "ended"
  BY <1>t DEF Locked, Handle
<1> USE DEF Handle
<1>1. CASE AwaitReady \/ Resume \/ Destroy
  BY <1>t, <1>1 DEF AwaitReady, Resume, Destroy, startVars, opVars, Operations
<1>2. CASE Suspend /\ ~terminated
  <2>1. initiator = "idle"
    BY <1>t, <1>2 DEF Suspend, SuspendUnder, Locked
  <2>2. QED BY <1>t, <1>2, <2>1 DEF Suspend, SuspendUnder
<1>3. CASE JoinThread /\ ~terminated
  <2>1. initiator = "idle" /\ coro = "joining" /\ coro' = "gone" /\ initiator' = "idle" /\ op' = op
    BY <1>t, <1>3 DEF JoinThread, opVars, Locked
  <2>2. Len(op) = thread
    BY <1>t, <1>3, <2>1
  <2>3. Operations = 1..thread
    BY <1>t, <2>2 DEF TypeOK, Operations
  <2>4. \A t \in Operations : op[t] = "ended"
    BY <1>t, <1>3, <2>3 DEF JoinThread, TypeOK
  <2>5. QED BY <2>1, <2>4 DEF Operations
<1>4. CASE StartOperation /\ ~terminated
  <2>1. Len(op') = Len(op) + 1
    BY <1>t, <1>4, AtStart
  <2>2. coro # "gone"
    BY <1>4, <1>g DEF StartOperation
  <2>3. initiator' = "assign" /\ thread' = thread /\ coro' = coro /\ Len(op) = thread
    BY <1>t, <1>4, <2>2 DEF StartOperation, coroVars
  <2>4. QED BY <2>1, <2>2, <2>3
<1>5. CASE AssignThread
  <2>1. coro # "gone"
    BY <1>5, <1>g DEF AssignThread
  <2>2. initiator' = "unlock" /\ op' = op /\ coro' = coro
    BY <1>5 DEF AssignThread, opVars, coroVars
  <2>3. ~terminated' => thread' = Len(op)
    BY <1>5 DEF AssignThread
  <2>4. QED BY <2>1, <2>2, <2>3
<1>6. CASE Unlock
  <2>1. coro # "gone"
    BY <1>6, <1>g DEF Unlock
  <2>2. QED BY <1>t, <1>6, <2>1 DEF Unlock, opVars, coroVars
<1>7. ASSUME NEW t \in Operations, OpStep(t)
      PROVE  /\ initiator' = "assign" => Len(op') = thread' + 1
             /\ initiator' # "assign" /\ ~terminated' /\ coro' # "gone" => Len(op') = thread'
             /\ coro' = "gone" => \A s \in Operations' : op'[s] = "ended"
  <2>1. Len(op') = Len(op) /\ op[t] # "ended" /\ UNCHANGED <<initiator, thread, terminated>>
    BY <1>t, <1>7, AtOpStep
  <2>2. coro # "gone"
    BY <2>1, <1>g
  <2>3. coro' # "gone"
    BY <1>t, <1>7, <2>2, AtContinuation
  <2>4. QED BY <1>t, <2>1, <2>2, <2>3
<1>8. ASSUME NEW i \in Incrementers, IncStep(i)
      PROVE  /\ initiator' = "assign" => Len(op') = thread' + 1
             /\ initiator' # "assign" /\ ~terminated' /\ coro' # "gone" => Len(op') = thread'
             /\ coro' = "gone" => \A s \in Operations' : op'[s] = "ended"
  <2>1. UNCHANGED <<coro, initiator, thread, terminated>>
    BY <1>8 DEF IncStep, Increment, NotifyAll, coroVars, startVars
  <2>2. /\ Len(op') = Len(op) /\ Operations' = Operations
        /\ \A s \in Operations : op[s] = "ended" => op'[s] = "ended"
    <3>1. CASE Increment(i)
      BY <3>1 DEF Increment, opVars, Operations
    <3>2. CASE NotifyAll(i)
      BY <3>2, <1>t, AtNotify
    <3>3. QED BY <1>8, <3>1, <3>2 DEF IncStep
  <2>3. QED BY <1>t, <1>g, <2>1, <2>2
<1>9. CASE UNCHANGED vars
  BY <1>t, <1>9 DEF vars, coroVars, startVars, opVars, Operations
<1>10. QED BY <1>1, <1>2, <1>3, <1>4, <1>5, <1>6, <1>7, <1>8, <1>9
           DEF Next, CoroStep, InitiatorStep

\* Every step keeps the count of an await.
LEMMA CountedKept == IInv /\ [Next]_vars => Counted'
<1> SUFFICES ASSUME IInv, [Next]_vars PROVE Counted'
  OBVIOUS
<1>t. TypeOK /\ Counted /\ IsFiniteSet(Live) /\ Cardinality(Live) \in Nat
  BY LiveIsFinite DEF IInv
<1>1. ASSUME Operations' = Operations,
             \A t \in Operations : op'[t] \in {"exit", "ended"} <=> op[t] \in {"exit", "ended"},
             UNCHANGED <<toStart, pending>>, coro = "suspended" => coro' = "suspended" \/ pending = 0
      PROVE  Counted'
  <2>1. Live' = Live
    BY <1>1 DEF Live
  <2>2. QED BY <1>t, <1>1, <2>1 DEF Counted
<1>2. CASE AwaitReady \/ Resume \/ Destroy \/ JoinThread \/ AssignThread \/ Unlock \/ UNCHANGED vars
  <2>1. UNCHANGED <<op, toStart, pending>> /\ (coro = "suspended" => coro' = "suspended")
    BY <1>2 DEF AwaitReady, Resume, Destroy, JoinThread, AssignThread, Unlock, vars, coroVars,
                startVars, opVars
  <2>2. QED BY <1>1, <2>1 DEF Operations
<1>3. CASE Suspend
  <2>1. toStart = 0 /\ Live = {}
    BY <1>t, <1>3, NoneLive DEF Suspend, SuspendUnder, Live
  <2>2. Live' = {}
    BY <1>3, <2>1 DEF Suspend, SuspendUnder, Live, Operations
  <2>3. Width \in Nat /\ pending' = Width /\ toStart' = Width /\ coro' = "suspended"
    BY <1>3 DEF Suspend, SuspendUnder, Width
  <2>4. QED BY <2>2, <2>3, FS_EmptySet DEF Counted
<1>4. CASE StartOperation
  <2>1. Live' = Live \cup {Len(op) + 1} /\ Len(op) + 1 \notin Live
    BY <1>t, <1>4, AtStart DEF Live
  <2>2. Cardinality(Live') = Cardinality(Live) + 1
    BY <1>t, <2>1, FS_AddElement
  <2>3. toStart' = toStart - 1 /\ UNCHANGED <<pending, coro>>
    BY <1>4 DEF StartOperation, coroVars
  <2>4. QED BY <1>t, <2>2, <2>3 DEF Counted, TypeOK
<1>5. ASSUME NEW t \in Operations, PostContinuation(t) PROVE Counted'
  <2>1. /\ Operations' = Operations /\ op'[t] = "exit" /\ op[t] = "resume"
        /\ \A s \in Operations \ {t} : op'[s] = op[s]
    BY <1>t, <1>5, AtGoto DEF PostContinuation, OpPC
  <2>2. Live' = Live \ {t} /\ t \in Live
    BY <2>1 DEF Live
  <2>3. Cardinality(Live') = Cardinality(Live) - 1
    BY <1>t, <2>2, FS_RemoveElement
  <2>4. pending' = pending - 1 /\ toStart' = toStart
    BY <1>5 DEF PostContinuation, startVars
  <2>5. pending # 0
    BY <1>t, <2>2, FS_EmptySet DEF Counted, TypeOK
  <2>6. coro = "suspended" /\ (coro' # "suspended" => pending = 1)
    BY <1>t, <1>5, <2>5 DEF Counted, PostContinuation
  <2>7. QED BY <1>t, <2>3, <2>4, <2>6 DEF Counted, TypeOK
<1>6. ASSUME NEW t \in Operations, Load(t) \/ Wait(t) \/ StoreResult(t) \/ Exit(t) PROVE Counted'
  <2>1. OpStep(t)
    BY <1>6 DEF OpStep
  <2>2. Operations' = Operations /\ (\A s \in Operations \ {t} : op'[s] = op[s]) /\ toStart' = toStart
    BY <1>t, <2>1, AtOpStep
  <2>3. pending' = pending /\ coro' = coro
    BY <1>6 DEF Load, Wait, StoreResult, Exit, coroVars
  <2>4. op'[t] \in {"exit", "ended"} <=> op[t] \in {"exit", "ended"}
    <3>1. op \in Seq(OpPC) /\ t \in 1..Len(op)
      BY <1>t DEF TypeOK, Operations
    <3>2. QED BY <1>6, <3>1 DEF Load, Wait, StoreResult, Exit, Goto
  <2>5. QED BY <1>1, <2>2, <2>3, <2>4
<1>7. ASSUME NEW i \in Incrementers, IncStep(i) PROVE Counted'
  <2>1. UNCHANGED <<coro, toStart, pending>>
    BY <1>7 DEF IncStep, Increment, NotifyAll, coroVars, startVars, opVars
  <2>2. CASE Increment(i)
    BY <1>1, <2>1, <2>2 DEF Increment, opVars, Operations
  <2>3. CASE NotifyAll(i)
    <3>1. /\ Operations' = Operations
          /\ \A s \in Operations : op'[s] = IF op[s] = "blocked" THEN "wait" ELSE op[s]
      BY <1>t, <2>3, AtNotify
    <3>2. QED BY <1>1, <2>1, <3>1
  <2>4. QED BY <1>7, <2>2, <2>3 DEF IncStep
<1>8. ASSUME NEW t \in Operations, ResumeInline(t) PROVE Counted'
  <2>1. /\ Operations' = Operations /\ op'[t] = "exit" /\ op[t] = "resume"
        /\ \A s \in Operations \ {t} : op'[s] = op[s]
    BY <1>t, <1>8, AtGoto DEF ResumeInline, OpPC
  <2>2. Live' = Live \ {t} /\ t \in Live
    BY <2>1 DEF Live
  <2>3. Cardinality(Live') = Cardinality(Live) - 1 /\ Cardinality(Live) # 0
    BY <1>t, <2>2, FS_RemoveElement, FS_EmptySet
  <2>4. pending = 1 /\ pending' = 0 /\ toStart' = toStart
    BY <1>8 DEF ResumeInline, startVars
  <2>5. QED BY <1>t, <2>3, <2>4 DEF Counted, TypeOK
<1>9. QED BY <1>2, <1>3, <1>4, <1>5, <1>6, <1>7, <1>8 DEF Next, CoroStep, InitiatorStep, OpStep

\* The counter is at its limit when every caller has called.
LEMMA AllCalled ==
  ASSUME TypeOK, CountsCalls
  PROVE  /\ IsFiniteSet(Called) /\ until \in Nat
         /\ value = until => \A i \in Incrementers : inc[i] # "idle"
<1>1. IsFiniteSet(Incrementers) /\ Called \in SUBSET Incrementers
  BY AwaitAssumption DEF Called
<1>2. IsFiniteSet(Called) /\ (Cardinality(Incrementers) = Cardinality(Called) => Incrementers = Called)
  BY <1>1, FS_Subset
<1>3. until \in Nat
  BY <1>1, FS_CardinalityType DEF until
<1>4. QED BY <1>2, <1>3 DEF CountsCalls, Called, until

\* Every step keeps the counter equal to the calls.
LEMMA CallsKept == IInv /\ [Next]_vars => CountsCalls'
<1> SUFFICES ASSUME IInv, [Next]_vars PROVE CountsCalls'
  OBVIOUS
<1>t. TypeOK /\ CountsCalls
  BY DEF IInv
<1>1. ASSUME NEW i \in Incrementers, Increment(i) PROVE CountsCalls'
  <2>1. Called' = Called \cup {i} /\ i \notin Called
    BY <1>t, <1>1 DEF Increment, Called, TypeOK
  <2>2. Cardinality(Called') = Cardinality(Called) + 1
    BY <1>t, <2>1, AllCalled, FS_AddElement
  <2>3. QED BY <1>t, <1>1, <2>2 DEF CountsCalls, Increment
<1>2. ASSUME NEW i \in Incrementers, NotifyAll(i) PROVE CountsCalls'
  <2>1. Called' = Called
    BY <1>t, <1>2 DEF NotifyAll, Called, TypeOK
  <2>2. QED BY <1>t, <1>2, <2>1 DEF CountsCalls, NotifyAll
<1>3. ASSUME UNCHANGED <<value, inc>> PROVE CountsCalls'
  BY <1>t, <1>3 DEF CountsCalls, Called
<1>4. CASE CoroStep \/ InitiatorStep \/ UNCHANGED vars
  BY <1>3, <1>4 DEF CoroStep, InitiatorStep, AwaitReady, Suspend, SuspendUnder, Resume, Destroy,
                    JoinThread, StartOperation, AssignThread, Unlock, vars, incVars
<1>5. ASSUME NEW t \in Operations, OpStep(t) PROVE CountsCalls'
  BY <1>t, <1>3, <1>5, AtOpStep
<1>6. QED BY <1>1, <1>2, <1>4, <1>5 DEF Next, IncStep

\* Every step keeps what a completed operation waited for.
LEMMA CompletedKept == IInv /\ [Next]_vars => Completed'
<1> SUFFICES ASSUME IInv, [Next]_vars PROVE Completed'
  OBVIOUS
<1>t. TypeOK /\ Completed /\ kind' = kind
  BY KindKept DEF IInv
<1>1. ASSUME UNCHANGED <<op, stored, value>> PROVE Completed'
  BY <1>t, <1>1 DEF Completed, Operations, until
<1>2. CASE AwaitReady \/ Suspend \/ Resume \/ Destroy \/ JoinThread \/ AssignThread \/ Unlock
           \/ UNCHANGED vars
  BY <1>1, <1>2 DEF AwaitReady, Suspend, SuspendUnder, Resume, Destroy, JoinThread, AssignThread,
                    Unlock, vars, opVars, incVars
<1>3. CASE StartOperation
  <2>1. UNCHANGED <<stored, value>>
    BY <1>3 DEF StartOperation, incVars
  <2>2. QED BY <1>t, <1>3, <2>1, AtStart DEF Completed, until
<1>4. ASSUME NEW t \in Operations, OpStep(t) PROVE Completed'
  <2>1. /\ Operations' = Operations /\ value' = value
        /\ \A s \in Operations \ {t} : op'[s] = op[s]
    BY <1>t, <1>4, AtOpStep
  <2>2. stored \subseteq stored'
    BY <1>4 DEF OpStep, Load, Wait, StoreResult, ResumeInline, PostContinuation, Exit
  <2>3. op \in Seq(OpPC) /\ t \in 1..Len(op)
    BY <1>t DEF TypeOK, Operations
  <2>4. /\ op'[t] # "store"
        /\ op'[t] \in {"load", "wait", "blocked"} => kind = "atomic"
    BY <1>t, <1>4, <2>3 DEF Completed, OpStep, Load, Wait, StoreResult, ResumeInline,
                            PostContinuation, Exit, Goto
  <2>5. op'[t] \in {"resume", "exit", "ended"} =>
          IF kind = "atomic" THEN value = until ELSE t \in stored'
    <3>1. CASE Load(t)
      <4>1. kind = "atomic"
        BY <1>t, <3>1 DEF Load, Completed
      <4>2. QED BY <3>1, <2>3, <4>1 DEF Load, Goto
    <3>2. CASE Wait(t)
      BY <3>2, <2>3 DEF Wait, Goto
    <3>3. CASE StoreResult(t)
      BY <1>t, <3>3 DEF StoreResult, Completed
    <3>4. CASE ResumeInline(t) \/ PostContinuation(t) \/ Exit(t)
      BY <1>t, <2>2, <3>4 DEF ResumeInline, PostContinuation, Exit, Completed
    <3>5. QED BY <1>4, <3>1, <3>2, <3>3, <3>4 DEF OpStep
  <2>6. QED BY <1>t, <2>1, <2>2, <2>4, <2>5 DEF Completed, until
<1>5. ASSUME NEW i \in Incrementers, Increment(i) PROVE Completed'
  <2>1. value # until
    BY <1>t, <1>5, AllCalled DEF IInv, Increment
  <2>2. UNCHANGED <<op, stored>>
    BY <1>5 DEF Increment, opVars
  <2>3. kind = "atomic"
    BY <1>5 DEF Increment
  <2>4. QED BY <1>t, <2>1, <2>2, <2>3 DEF Completed, Operations
<1>6. ASSUME NEW i \in Incrementers, NotifyAll(i) PROVE Completed'
  <2>1. /\ Operations' = Operations /\ UNCHANGED <<stored, value>>
        /\ \A s \in Operations : op'[s] = IF op[s] = "blocked" THEN "wait" ELSE op[s]
    BY <1>t, <1>6, AtNotify DEF NotifyAll
  <2>2. QED BY <1>t, <2>1 DEF Completed, until
<1>7. QED BY <1>2, <1>3, <1>4, <1>5, <1>6 DEF Next, CoroStep, InitiatorStep, IncStep

\* The coroutine is posted by operations only.
LEMMA PostedKept == IInv /\ [Next]_vars => PostedByOne'
<1> SUFFICES ASSUME IInv, [Next]_vars PROVE PostedByOne'
  OBVIOUS
<1>t. TypeOK /\ PostedByOne
  BY DEF IInv
<1>1. CASE CoroStep \/ AssignThread \/ Unlock \/ UNCHANGED vars
  <2>1. op' = op /\ (coro' = "posted" => coro = "posted")
    BY <1>1 DEF CoroStep, AwaitReady, Suspend, SuspendUnder, Resume, Destroy, JoinThread,
                AssignThread, Unlock, vars, coroVars, opVars
  <2>2. QED BY <1>t, <2>1 DEF PostedByOne, Operations
<1>2. CASE StartOperation
  BY <1>t, <1>2, AtStart DEF PostedByOne
<1>3. ASSUME NEW t \in Operations, OpStep(t) PROVE PostedByOne'
  BY <1>t, <1>3, AtOpStep DEF PostedByOne
<1>4. ASSUME NEW i \in Incrementers, IncStep(i) PROVE PostedByOne'
  <2>1. coro' = coro /\ Operations' = Operations
    <3>1. CASE Increment(i)
      BY <3>1 DEF Increment, coroVars, opVars, Operations
    <3>2. CASE NotifyAll(i)
      BY <1>t, <3>2, AtNotify DEF NotifyAll, coroVars
    <3>3. QED BY <1>4, <3>1, <3>2 DEF IncStep
  <2>2. QED BY <1>t, <2>1 DEF PostedByOne
<1>5. QED BY <1>1, <1>2, <1>3, <1>4 DEF Next, InitiatorStep

\* Every step keeps the notification of a blocked waiter.
LEMMA NotifiedKept == IInv /\ [Next]_vars => NoMissedIncrement'
<1> SUFFICES ASSUME IInv, [Next]_vars PROVE NoMissedIncrement'
  OBVIOUS
<1>t. TypeOK /\ NoMissedIncrement
  BY DEF IInv
<1>1. ASSUME UNCHANGED <<op, old, value, inc>> PROVE NoMissedIncrement'
  BY <1>t, <1>1 DEF NoMissedIncrement, Operations
<1>2. CASE AwaitReady \/ Suspend \/ Resume \/ Destroy \/ JoinThread \/ AssignThread \/ Unlock
           \/ UNCHANGED vars
  BY <1>1, <1>2 DEF AwaitReady, Suspend, SuspendUnder, Resume, Destroy, JoinThread, AssignThread,
                    Unlock, vars, opVars, incVars
<1>3. CASE StartOperation
  <2>1. UNCHANGED <<value, inc>>
    BY <1>3 DEF StartOperation, incVars
  <2>2. \A t \in Operations : old'[t] = old[t]
    BY <1>t, <1>3 DEF StartOperation, TypeOK, Operations
  <2>3. op'[Len(op) + 1] # "blocked"
    BY <1>t, <1>3, AtStart
  <2>4. QED BY <1>t, <1>3, <2>1, <2>2, <2>3, AtStart DEF NoMissedIncrement
<1>4. ASSUME NEW t \in Operations, OpStep(t) PROVE NoMissedIncrement'
  <2>1. /\ Operations' = Operations /\ UNCHANGED <<value, inc>>
        /\ \A s \in Operations \ {t} : op'[s] = op[s]
    BY <1>t, <1>4, AtOpStep
  <2>2. op \in Seq(OpPC) /\ t \in 1..Len(op)
    BY <1>t DEF TypeOK, Operations
  <2>3. \A s \in Operations \ {t} : old'[s] = old[s]
    BY <1>t, <1>4 DEF OpStep, Load, Wait, StoreResult, ResumeInline, PostContinuation, Exit, TypeOK,
                      Operations
  <2>4. op'[t] = "blocked" => old'[t] = value
    BY <1>4, <2>2 DEF OpStep, Load, Wait, StoreResult, ResumeInline, PostContinuation, Exit, Goto
  <2>5. QED BY <1>t, <2>1, <2>3, <2>4 DEF NoMissedIncrement
<1>5. ASSUME NEW i \in Incrementers, Increment(i) PROVE NoMissedIncrement'
  BY <1>t, <1>5 DEF Increment, NoMissedIncrement, TypeOK, opVars, Operations
<1>6. ASSUME NEW i \in Incrementers, NotifyAll(i) PROVE NoMissedIncrement'
  BY <1>t, <1>6, AtNotify DEF NoMissedIncrement
<1>7. QED BY <1>2, <1>3, <1>4, <1>5, <1>6 DEF Next, CoroStep, InitiatorStep, IncStep

\* The invariant holds throughout.
LEMMA Invariance == Spec => []IInv
<1>1. IInv /\ [Next]_vars => IInv'
  BY TypeKept, LockedKept, HandleKept, CountedKept, CallsKept, CompletedKept, PostedKept,
     NotifiedKept DEF IInv
<1>2. QED BY Initially, <1>1, PTL DEF Spec

-----------------------------------------------------------------------------
(* The destructor finds nobody inside: the lock holds it back until the      *)
(* member is assigned, and it joins the only thread there can be.            *)
THEOREM DestructorIsAlone == Spec => []DestroyedAlone
<1>1. IInv => DestroyedAlone
  <2> SUFFICES ASSUME IInv, coro = "gone"
               PROVE  /\ initiator = "idle" /\ toStart = 0
                      /\ HasThread => \A t \in Operations : op[t] = "ended"
    BY DEF DestroyedAlone
  <2>1. toStart = 0
    BY NoneLive DEF IInv
  <2>2. initiator = "idle"
    BY <2>1 DEF IInv, Locked, TypeOK
  <2>3. QED BY <2>1, <2>2 DEF IInv, Handle
<1>2. QED BY Invariance, <1>1, PTL

(* The coroutine goes on only when all it awaited is there. *)
THEOREM ResultIsReady == Spec => []ResultReady
<1>1. IInv => ResultReady
  <2> SUFFICES ASSUME IInv, coro \in {"posted", "running"}, coro = "posted" \/ op # <<>>
               PROVE  /\ toStart = 0
                      /\ \A t \in Operations : op[t] \in {"exit", "ended"}
                      /\ IF kind = "atomic" THEN value = until ELSE stored = Operations
    BY DEF ResultReady
  <2>1. toStart = 0 /\ \A t \in Operations : op[t] \in {"exit", "ended"}
    BY NoneLive DEF IInv
  <2>2. kind # "atomic" => stored = Operations
    BY <2>1 DEF IInv, Completed, TypeOK
  <2>3. CASE op # <<>>
    <3>1. 1 \in Operations
      BY <2>3 DEF IInv, TypeOK, Operations
    <3>2. QED BY <2>1, <2>2, <3>1 DEF IInv, Completed
  <2>4. CASE coro = "posted" /\ op = <<>>
    BY <2>4 DEF IInv, PostedByOne, Operations
  <2>5. QED BY <2>3, <2>4
<1>2. QED BY Invariance, <1>1, PTL

(* No increment is missed, whoever makes it and when. *)
THEOREM NoIncrementMissed == Spec => []NoMissedIncrement
<1>1. IInv => NoMissedIncrement
  BY DEF IInv
<1>2. QED BY Invariance, <1>1, PTL

=============================================================================
