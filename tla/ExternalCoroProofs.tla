------------------------- MODULE ExternalCoroProofs -------------------------
(***************************************************************************)
(* Theorems about chains of coroutines of any length in which nobody       *)
(* awaits an external_coro<void>, which is the case the code gets wrong.   *)
(* The invariant describes the chain from the frame that has control: what *)
(* is above it waits, what is below it was not born, has just ended, or is *)
(* gone.                                                                   *)
(***************************************************************************)
EXTENDS ExternalCoro, TLAPS

\* No frame but the root is an external_coro<void>.
Chain ==
    /\ Max \in 1..MaxDepth
    /\ kind \in [Frames -> Kinds]
    /\ \A n \in 2..Max : kind[n] # "void"

TypeOK ==
    /\ state \in [Frames -> {"unborn", "running", "awaiting", "resumed", "final", "destroyed"}]
    /\ continuation \in [Frames -> 0..MaxDepth]
    /\ result \in [Frames -> 0..MaxDepth]
    /\ promised \in 0..MaxDepth
    /\ control \in Frames \cup {Executor}

\* Every frame that was born knows who awaits it.
Linked == \A n \in Frames : n > 1 /\ state[n] # "unborn" => continuation[n] = n - 1

\* What lies on either side of the frame that has control.
Stacked == control \in Frames =>
    /\ \A n \in Frames : n < control => state[n] = "awaiting"
    /\ state[control] \in {"running", "awaiting", "resumed"}
    /\ state[control] = "running" => \A n \in Frames : n > control => state[n] = "unborn"
    /\ state[control] = "awaiting" =>
        /\ control < Max /\ state[control + 1] = "final"
        /\ \A n \in Frames : n > control + 1 => state[n] = "destroyed"
    /\ state[control] = "resumed" =>
        control < Max /\ \A n \in Frames : n > control => state[n] = "destroyed"

\* The result is there when control comes back.
Answered == control \in Frames /\ state[control] \in {"awaiting", "resumed"} => result[control] = Max

IInv == Chain /\ TypeOK /\ Linked /\ Stacked /\ Answered /\ CompleteOnReturn

-----------------------------------------------------------------------------
\* The bounds of a chain.
LEMMA Lengths ==
  ASSUME Chain
  PROVE  /\ MaxDepth \in Nat \ {0} /\ Max \in 1..MaxDepth /\ Max \in 0..MaxDepth
         /\ Frames = 1..Max /\ 1 \in Frames /\ Executor \notin Frames
         /\ \A n \in Frames : n \in 0..MaxDepth /\ n \in Nat
BY CoroAssumption DEF Chain, Frames

\* At the start the root runs.
LEMMA Initially ==
  ASSUME "void" \notin AwaitedKinds
  PROVE  Init => IInv
<1> SUFFICES ASSUME Init PROVE IInv
  OBVIOUS
<1>1. Chain
  BY CoroAssumption DEF Init, Chain
<1>2. TypeOK /\ Linked /\ Stacked /\ Answered /\ CompleteOnReturn
  BY <1>1, Lengths DEF Init, TypeOK, Linked, Stacked, Answered, CompleteOnReturn
<1>3. QED BY <1>1, <1>2 DEF IInv

\* co_await goes one frame down.
LEMMA AwaitKeeps == ASSUME IInv, NEW n \in Frames, Await(n) PROVE IInv'
<1> USE DEF IInv
<1>1. Chain'
  BY DEF Await, Chain, Frames
<1>2. n + 1 \in Frames /\ control = n /\ state[n] = "running" /\ n \in 0..MaxDepth
  BY Lengths DEF Await
<1>3. TypeOK'
  BY <1>2 DEF Await, TypeOK, Frames
<1>4. /\ state'[n] = "awaiting" /\ state'[n + 1] = "running" /\ control' = n + 1
      /\ \A m \in Frames : m # n /\ m # n + 1 => state'[m] = state[m]
      /\ Max' = Max /\ Frames' = Frames /\ result' = result
      /\ continuation'[n + 1] = n /\ \A m \in Frames : m # n + 1 => continuation'[m] = continuation[m]
  BY <1>2, Lengths DEF Await, TypeOK, Frames
<1>5. Linked'
  BY <1>2, <1>4, Lengths DEF Linked
<1>6. Stacked'
  BY <1>2, <1>4, Lengths DEF Stacked
<1>7. Answered' /\ CompleteOnReturn'
  BY <1>2, <1>4, Lengths DEF Answered, CompleteOnReturn
<1>8. QED BY <1>1, <1>3, <1>5, <1>6, <1>7

\* A return gives its value to the frame above, or to main() from the root.
LEMMA ReturnKeeps ==
  ASSUME IInv, NEW n \in Frames, ReturnAndTransfer(n) \/ ReturnAndVanish(n)
  PROVE  IInv'
<1> USE DEF IInv
<1>1. Chain' /\ Max' = Max /\ Frames' = Frames /\ continuation' = continuation
  BY DEF ReturnAndTransfer, ReturnAndVanish, Chain, Frames
<1>2. control = n /\ MayReturn(n) /\ GiveResult(n, Returned(n)) /\ n \in Nat
  BY Lengths DEF ReturnAndTransfer, ReturnAndVanish, MayReturn
<1>3. Returned(n) = Max
  BY <1>2 DEF MayReturn, Returned, Answered
<1>4. \A m \in Frames : m > n => state[m] = "destroyed"
  BY <1>2, Lengths DEF MayReturn, Stacked
<1>5. CASE n = 1
  <2>1. control' = Executor /\ promised' = Max /\ result' = result
        /\ state' = [state EXCEPT ![1] = "destroyed"]
    BY <1>2, <1>3, <1>5 DEF ReturnAndTransfer, ReturnAndVanish, GiveResult
  <2>2. state'[1] = "destroyed" /\ \A m \in Frames : m # 1 => state'[m] = state[m]
    BY <2>1, Lengths DEF TypeOK
  <2>3. TypeOK'
    BY <1>1, <2>1, Lengths DEF TypeOK
  <2>4. Linked' /\ Stacked' /\ Answered'
    BY <1>1, <1>5, <2>1, <2>2, Lengths DEF Linked, Stacked, Answered
  <2>5. CompleteOnReturn'
    BY <1>1, <1>4, <1>5, <2>1, <2>2, Lengths DEF CompleteOnReturn
  <2>6. QED BY <1>1, <2>3, <2>4, <2>5
<1>6. CASE n # 1
  <2>1. n > 1 /\ n - 1 \in Frames /\ kind[n] # "void" /\ state[n] # "unborn"
    BY <1>2, <1>6, Lengths DEF Chain, MayReturn
  <2>2. continuation[n] = n - 1
    BY <2>1 DEF Linked
  <2>3. /\ control' = n - 1 /\ promised' = promised
        /\ result' = [result EXCEPT ![n - 1] = Max]
        /\ state' = [state EXCEPT ![n] = "final"]
    BY <1>2, <1>3, <1>6, <2>1, <2>2 DEF ReturnAndTransfer, ReturnAndVanish, GiveResult
  <2>4. state'[n] = "final" /\ (\A m \in Frames : m # n => state'[m] = state[m]) /\ result'[n - 1] = Max
    BY <2>1, <2>3 DEF TypeOK
  <2>5. TypeOK'
    BY <1>1, <2>1, <2>3, Lengths DEF TypeOK
  <2>6. Linked'
    BY <1>1, <2>2, <2>4 DEF Linked
  <2>7. state[n - 1] = "awaiting" /\ \A m \in Frames : m < n => state[m] = "awaiting"
    BY <1>2, <2>1, Lengths DEF Stacked
  <2>8. Stacked'
    BY <1>1, <1>2, <1>4, <2>1, <2>3, <2>4, <2>7, Lengths DEF Stacked
  <2>9. Answered' /\ CompleteOnReturn'
    BY <1>1, <2>1, <2>3, <2>4, Lengths DEF Answered, CompleteOnReturn
  <2>10. QED BY <1>1, <2>5, <2>6, <2>8, <2>9
<1>7. QED BY <1>5, <1>6

\* await_resume destroys the frame below.
LEMMA ResumeKeeps == ASSUME IInv, NEW n \in Frames, AwaitResume(n) PROVE IInv'
<1> USE DEF IInv
<1>1. Chain' /\ Max' = Max /\ Frames' = Frames
  BY DEF AwaitResume, Chain, Frames
<1>2. /\ control = n /\ control' = n /\ state[n] = "awaiting" /\ n \in Nat
      /\ continuation' = continuation /\ result' = result /\ promised' = promised
  BY Lengths DEF AwaitResume
<1>3. n < Max /\ n + 1 \in Frames /\ state[n + 1] = "final" /\ continuation[n + 1] = n
  BY <1>2, Lengths DEF Stacked, Linked
<1>4. /\ state'[n] = "resumed" /\ state'[n + 1] = "destroyed"
      /\ \A m \in Frames : m # n /\ m # n + 1 => state'[m] = state[m]
  BY <1>2, <1>3 DEF AwaitResume, TypeOK
<1>5. TypeOK'
  BY <1>1, <1>2, <1>3 DEF AwaitResume, TypeOK
<1>6. Linked'
  BY <1>1, <1>2, <1>3, <1>4, Lengths DEF Linked
<1>7. Stacked'
  BY <1>1, <1>2, <1>3, <1>4, Lengths DEF Stacked
<1>8. Answered' /\ CompleteOnReturn'
  BY <1>1, <1>2, <1>4, Lengths DEF Answered, CompleteOnReturn
<1>9. QED BY <1>1, <1>5, <1>6, <1>7, <1>8

\* The invariant holds throughout.
LEMMA Invariance ==
  ASSUME "void" \notin AwaitedKinds
  PROVE  Spec => []IInv
<1>1. Init => IInv
  BY Initially
<1>2. IInv /\ [Next]_vars => IInv'
  <2>1. IInv /\ UNCHANGED vars => IInv'
    BY DEF IInv, Chain, TypeOK, Linked, Stacked, Answered, CompleteOnReturn, Frames, vars
  <2>2. QED BY <2>1, AwaitKeeps, ReturnKeeps, ResumeKeeps DEF Next
<1>3. QED BY <1>1, <1>2, PTL DEF Spec

-----------------------------------------------------------------------------
(* Where no external_coro<void> is awaited, the frames form one stack: who   *)
(* waits is resumed by its child alone, and a frame is destroyed only when   *)
(* it has ended.                                                             *)
THEOREM FramesAreAStack ==
  ASSUME "void" \notin AwaitedKinds
  PROVE  Spec => []StackIntact
<1>1. IInv => StackIntact
  <2> SUFFICES ASSUME IInv, NEW n \in Frames
               PROVE  /\ state[n] = "awaiting" /\ control # n
                            => state[n + 1] \in {"running", "awaiting", "resumed"}
                      /\ state[n] = "awaiting" /\ control = n => state[n + 1] = "final"
                      /\ state[n] \in {"running", "resumed"} => control = n
                      /\ n > 1 /\ state[n] # "unborn" => continuation[n] = n - 1
    BY DEF StackIntact
  <2> USE DEF IInv
  <2>1. CASE control = Executor
    BY <2>1, Lengths DEF CompleteOnReturn, Linked
  <2>2. CASE control \in Frames
    <3>1. n < control \/ n = control \/ n > control
      BY <2>2, Lengths
    <3>2. n < control => n + 1 \in Frames /\ (n + 1 < control \/ n + 1 = control)
      BY <2>2, Lengths
    <3>3. n > control => state[n] \in {"unborn", "final", "destroyed"}
      <4>1. n > control => n = control + 1 \/ n > control + 1
        BY <2>2, Lengths
      <4>2. QED BY <2>2, <4>1 DEF Stacked
    <3>4. QED BY <2>2, <3>1, <3>2, <3>3 DEF Stacked, Linked
  <2>3. QED BY <2>1, <2>2 DEF TypeOK
<1>2. QED BY <1>1, Invariance, PTL

(* Where no external_coro<void> is awaited, every frame is destroyed and     *)
(* main() answered when the thread is back in its executor.                  *)
THEOREM CallCompletes ==
  ASSUME "void" \notin AwaitedKinds
  PROVE  Spec => []CompleteOnReturn
<1>1. IInv => CompleteOnReturn
  BY DEF IInv
<1>2. QED BY <1>1, Invariance, PTL
=============================================================================
