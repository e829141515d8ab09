--------------------------- MODULE CountingProofs ---------------------------
(***************************************************************************)
(* The numbers that the benchmarks and the samples check when they are     *)
(* done come out right, however many tasks there are and however they are  *)
(* interleaved: the theorems of Bench and TaskGroup.                       *)
(***************************************************************************)
EXTENDS Bench, TaskGroup, SumTheorems

-----------------------------------------------------------------------------
(* The benchmarks: the inductive invariant of Bench.                        *)

Counts == [p \in Producers |-> Count(p)]
countOf == [c \in Consumers |-> result[c][1]]
sumOf == [c \in Consumers |-> result[c][2]]

\* What producer p has posted, and what all of them have, together.
PostedBy(p, n) == SumTo([j \in 0..n - 1 |-> Base(p) + j], n)
Posted == [p \in Producers |-> PostedBy(p, sent[p])]

BenchTypes ==
    /\ bench.kind \in {"chan", "queue"}
    /\ NELEMS \in Nat
    /\ bench.prodCount \in Nat \ {0}
    /\ bench.consCount \in Nat \ {0}
    /\ bench.kind = "queue" => bench.consCount = 1
    /\ chan \in Seq(Int)
    /\ closed \in BOOLEAN
    /\ sent \in [Producers -> Nat]
    /\ \A p \in Producers : sent[p] <= Count(p)
    /\ result \in [Consumers -> Nat \X Int]
    /\ ended \subseteq Consumers
    /\ main \in {"produce", "drain", "join", "done"}

\* How far the driver is says how far its tasks are.
Phases ==
    /\ main # "produce" => ProducersDone
    /\ closed => main # "produce" /\ bench.kind = "chan"
    /\ main = "done" => ended = Consumers
    /\ \A c \in ended : IF bench.kind = "chan" THEN closed /\ chan = <<>>
                                               ELSE result[c][1] >= NELEMS

\* What was posted has been counted and added up, or is still in the channel.
Tallies ==
    /\ count + Len(chan) = SumTo(sent, bench.prodCount)
    /\ sum + SumOf(chan) = SumTo(Posted, bench.prodCount)

BenchInv == BenchTypes /\ Phases /\ Tallies

\* The division is one in equal shares.
LEMMA CountsAreShares ==
  ASSUME NELEMS \in Nat, bench.prodCount \in Nat \ {0}
  PROVE  /\ Counts = Shares(NELEMS, bench.prodCount)
         /\ \A p \in Producers : Counts[p] = Count(p) /\ Count(p) \in Nat
         /\ \A i \in 0..bench.prodCount : Base(i) \in 0..NELEMS
         /\ Base(0) = 0
         /\ \A p \in Producers : Base(p + 1) = Base(p) + Count(p)
         /\ Base(bench.prodCount) = NELEMS
<1> DEFINE P == bench.prodCount
<1>1. Counts = Shares(NELEMS, P)
  BY DEF Counts, Count, rem, per_task, Shares, Producers
<1>2. /\ \A i \in 0..P - 1 : Counts[i] \in Nat
      /\ \A i \in 0..P : SumTo(Counts, i) \in 0..NELEMS
      /\ SumTo(Counts, P) = NELEMS
  BY <1>1, SharesAddUp
<1>3. \A i : Base(i) = SumTo(Counts, i)
  BY DEF Base, Counts
<1>4. \A p \in Producers : Counts[p] = Count(p)
  BY DEF Counts
<1>5. SumTo(Counts, 0) = 0
  BY SumStep
<1>6. ASSUME NEW p \in Producers
      PROVE  SumTo(Counts, p + 1) = SumTo(Counts, p) + Counts[p]
  <2>1. p \in Nat /\ \A i \in 0..p : i \in 0..P - 1
    BY DEF Producers
  <2>2. \A i \in 0..p : Counts[i] \in Int
    BY <1>2, <2>1
  <2>3. QED BY <2>1, <2>2, SumStep
<1>7. QED BY <1>1, <1>2, <1>3, <1>4, <1>5, <1>6 DEF Producers

\* One element more is the last of those posted so far.
LEMMA PostedStep ==
  ASSUME NEW p, Base(p) \in Int, NEW n \in Nat
  PROVE  PostedBy(p, n) \in Int /\ PostedBy(p, n + 1) = PostedBy(p, n) + (Base(p) + n)
<1> DEFINE f == [j \in 0..n - 1 |-> Base(p) + j]
           g == [j \in 0..(n + 1) - 1 |-> Base(p) + j]
<1>1. (\A i \in 0..n - 1 : f[i] \in Int /\ g[i] = f[i]) /\ (\A i \in 0..n : g[i] \in Int)
      /\ g[n] = Base(p) + n
  OBVIOUS
<1> HIDE DEF f, g
<1>2. SumTo(f, n) \in Int /\ SumTo(g, n) = SumTo(f, n)
  BY <1>1, SumInt, SumSame
<1>3. SumTo(g, n + 1) = SumTo(g, n) + g[n]
  BY <1>1, SumStep
<1>4. QED BY <1>1, <1>2, <1>3 DEF PostedBy, f, g

\* When all have posted their shares, all the numbers have been posted.
LEMMA AllPosted ==
  ASSUME NELEMS \in Nat, bench.prodCount \in Nat \ {0}, ProducersDone,
         sent \in [Producers -> Nat]
  PROVE  /\ SumTo(sent, bench.prodCount) = NELEMS
         /\ SumTo(Posted, bench.prodCount) = expectedSum
<1> DEFINE P == bench.prodCount
           all == [i \in 0..NELEMS - 1 |-> i]
           S == {k \in Nat : k <= P => SumTo(Posted, k) = SumTo(all, Base(k))}
<1>1. /\ \A p \in Producers : sent[p] = Count(p) /\ Count(p) \in Nat
      /\ \A i \in 0..P : Base(i) \in 0..NELEMS
      /\ Base(0) = 0
      /\ \A p \in Producers : Base(p + 1) = Base(p) + Count(p)
      /\ Base(P) = NELEMS
  BY CountsAreShares DEF ProducersDone
<1>2. SumTo(sent, P) = NELEMS
  <2>1. \A p \in 0..P - 1 : Counts[p] \in Int /\ sent[p] = Counts[p]
    BY CountsAreShares, <1>1 DEF Producers
  <2>2. SumTo(sent, P) = SumTo(Counts, P)
    <3> HIDE DEF P
    <3>1. P \in Nat
      BY DEF P
    <3>2. QED BY <2>1, <3>1, SumSame
  <2>3. QED BY <1>1, <2>2 DEF Base, Counts
<1>3. 0 \in S
  BY <1>1, SumStep
<1>4. ASSUME NEW k \in Nat, k \in S PROVE k + 1 \in S
  <2> SUFFICES ASSUME k + 1 <= P PROVE SumTo(Posted, k + 1) = SumTo(all, Base(k + 1))
    OBVIOUS
  <2>1. k \in Producers /\ \A i \in 0..k : i \in Producers
    BY DEF Producers
  <2>2. \A i \in 0..k : Posted[i] \in Int
    <3> SUFFICES ASSUME NEW i \in 0..k PROVE PostedBy(i, sent[i]) \in Int
      BY <2>1 DEF Posted
    <3>1. Base(i) \in Int /\ sent[i] \in Nat
      BY <1>1, <2>1 DEF Producers
    <3>2. QED BY <3>1, PostedStep
  <2>3. SumTo(Posted, k + 1) = SumTo(Posted, k) + Posted[k]
    BY <2>2, SumStep
  <2> DEFINE a == Base(k)
             b == Count(k)
             g == [j \in 0..b - 1 |-> a + j]
  <2>4. a \in Nat /\ b \in Nat /\ a + b <= NELEMS /\ Base(k + 1) = a + b
    BY <1>1, <2>1 DEF Producers
  <2>5. Posted[k] = SumTo(g, b)
    BY <1>1, <2>1 DEF Posted, PostedBy
  <2>6. SumTo(all, a + b) = SumTo(all, a) + SumTo(g, b)
    <3>1. \A i \in 0..a + b - 1 : all[i] \in Int
      BY <2>4
    <3>2. \A i \in 0..b - 1 : g[i] = all[a + i]
      BY <2>4
    <3> HIDE DEF a, b, g, all
    <3>3. QED BY <2>4, <3>1, <3>2, SumInParts
  <2>7. SumTo(Posted, k) = SumTo(all, a)
    BY <1>4
  <2>8. QED BY <2>3, <2>4, <2>5, <2>6, <2>7
<1>5. S = Nat
  <2> HIDE DEF S
  <2>1. S \subseteq Nat
    BY DEF S
  <2>2. QED BY <1>3, <1>4, <2>1, NatBySteps
<1>6. SumTo(Posted, P) = SumTo(all, NELEMS)
  BY <1>1, <1>5
<1>7. QED BY <1>2, <1>6 DEF expectedSum
\* The totals of the consumers are numbers.
LEMMA ResultsAdd ==
  ASSUME BenchTypes
  PROVE  /\ count \in Int /\ sum \in Int
         /\ \A c \in Consumers : countOf[c] \in Int /\ sumOf[c] \in Int
<1>1. \A c \in Consumers : countOf[c] \in Int /\ sumOf[c] \in Int
  BY DEF BenchTypes, countOf, sumOf
<1>2. bench.consCount \in Nat /\ \A i \in 0..bench.consCount - 1 : i \in Consumers
  BY DEF BenchTypes, Consumers
<1>3. SumTo(countOf, bench.consCount) \in Int /\ SumTo(sumOf, bench.consCount) \in Int
  BY <1>1, <1>2, SumInt
<1>4. QED BY <1>1, <1>3 DEF count, sum, countOf, sumOf

-----------------------------------------------------------------------------
\* The invariant holds before anything is posted.
LEMMA BenchInitially == BenchAssumption /\ Init => BenchInv
<1> SUFFICES ASSUME BenchAssumption, Init PROVE BenchInv
  OBVIOUS
<1>1. /\ bench.kind \in {"chan", "queue"} /\ NELEMS \in Nat
      /\ bench.prodCount \in Nat \ {0} /\ bench.consCount \in Nat \ {0}
      /\ bench.kind = "queue" => bench.consCount = 1
  BY DEF Init, BenchAssumption, NELEMS
<1>2. BenchTypes
  <2>1. \A p \in Producers : Count(p) \in Nat /\ sent[p] = 0
    BY <1>1, CountsAreShares DEF Init
  <2>2. sent \in [Producers -> Nat] /\ \A p \in Producers : sent[p] <= Count(p)
    BY <2>1 DEF Init
  <2>3. chan = <<>> /\ closed = FALSE /\ ended = {} /\ main = "produce"
    BY DEF Init
  <2>6. <<>> \in Seq(Int) /\ FALSE \in BOOLEAN
    OBVIOUS
  <2>4. result \in [Consumers -> Nat \X Int]
    BY DEF Init
  <2>5. QED BY <1>1, <2>2, <2>3, <2>4, <2>6 DEF BenchTypes
<1>3. Phases
  BY DEF Phases, Init
<1>4. count = 0 /\ sum = 0
  <2>1. \A c \in 0..bench.consCount - 1 : countOf[c] = 0 /\ sumOf[c] = 0
    BY DEF Init, countOf, sumOf, Consumers
  <2>2. SumTo(countOf, bench.consCount) = bench.consCount * 0
        /\ SumTo(sumOf, bench.consCount) = bench.consCount * 0
    BY <1>1, <2>1, SumOfEqual, 0 \in Int
  <2>3. QED BY <1>1, <2>2 DEF count, sum, countOf, sumOf
<1>5. SumTo(sent, bench.prodCount) = 0
  <2>1. \A p \in 0..bench.prodCount - 1 : sent[p] = 0
    BY DEF Init, Producers
  <2>2. SumTo(sent, bench.prodCount) = bench.prodCount * 0
    BY <1>1, <2>1, SumOfEqual, 0 \in Int
  <2>3. QED BY <1>1, <2>2
<1>6. SumTo(Posted, bench.prodCount) = 0
  <2>1. \A p \in 0..bench.prodCount - 1 : Posted[p] = 0
    BY SumStep DEF Init, Posted, PostedBy, Producers
  <2>2. SumTo(Posted, bench.prodCount) = bench.prodCount * 0
    BY <1>1, <2>1, SumOfEqual, 0 \in Int
  <2>3. QED BY <1>1, <2>2
<1>7. Len(chan) = 0 /\ SumOf(chan) = 0
  BY <1>2, SumOfChanges DEF Init, BenchTypes
<1>8. QED BY <1>2, <1>3, <1>4, <1>5, <1>6, <1>7 DEF BenchInv, Tallies

\* A push adds its element to the channel and to what its producer has posted.
LEMMA ProduceKeeps ==
  ASSUME BenchInv, NEW p \in Producers, Produce(p)
  PROVE  BenchInv'
<1> DEFINE P == bench.prodCount
           x == Base(p) + sent[p]
<1>1. BenchTypes /\ Phases /\ Tallies
  BY DEF BenchInv
<1>2. /\ UNCHANGED <<bench, closed, result, ended, main>>
      /\ UNCHANGED <<NELEMS, Producers, Consumers, count, sum>>
      /\ \A i : UNCHANGED <<Count(i), Base(i)>>
  BY DEF Produce, NELEMS, Producers, Consumers, count, sum, Base, Count, per_task, rem
<1>3. /\ sent[p] < Count(p) /\ ~closed
      /\ chan' = Append(chan, x) /\ sent' = [sent EXCEPT ![p] = @ + 1]
  BY DEF Produce
<1>4. /\ sent[p] \in Nat /\ x \in Int /\ p \in 0..P - 1 /\ P \in Nat
      /\ \A i \in Producers : Count(i) \in Nat /\ Base(i) \in Int
  <2>1. P \in Nat \ {0} /\ NELEMS \in Nat /\ sent[p] \in Nat
    BY <1>1 DEF BenchTypes
  <2>2. \A i \in Producers : Count(i) \in Nat /\ i \in 0..P
    BY <2>1, CountsAreShares DEF Producers
  <2>3. \A i \in Producers : Base(i) \in Int
    BY <2>1, <2>2, CountsAreShares
  <2>4. QED BY <2>1, <2>2, <2>3 DEF Producers
<1>13. main = "produce"
  BY <1>1, <1>3, <1>4 DEF Phases, ProducersDone
<1> HIDE DEF x
<1>5. BenchTypes'
  BY <1>1, <1>2, <1>3, <1>4 DEF BenchTypes
<1>6. Phases'
  BY <1>1, <1>2, <1>3, <1>13 DEF Phases, ProducersDone
<1>7. Len(chan') = Len(chan) + 1 /\ SumOf(chan') = SumOf(chan) + x /\ SumOf(chan) \in Int
  BY <1>1, <1>3, <1>4, SumOfChanges, AppendProperties DEF BenchTypes
<1>8. SumTo(sent', P) = SumTo(sent, P) + 1
  <2>1. \A i \in 0..P - 1 : sent[i] \in Int /\ sent'[i] \in Int /\ (i # p => sent'[i] = sent[i])
    <3>1. \A i \in Producers : sent[i] \in Int /\ sent'[i] \in Int /\ (i # p => sent'[i] = sent[i])
      BY <1>1, <1>3 DEF BenchTypes
    <3>2. QED BY <3>1 DEF Producers
  <2>2. sent'[p] = sent[p] + 1
    BY <1>1, <1>3 DEF BenchTypes
  <2>3. SumTo(sent, P) \in Int /\ SumTo(sent', P) = SumTo(sent, P) + (sent'[p] - sent[p])
    <3> HIDE DEF P
    <3>1. SumTo(sent, P) \in Int
      BY <1>4, <2>1, SumInt
    <3>2. QED BY <1>4, <2>1, <3>1, SumChange
  <2>4. QED BY <1>4, <2>2, <2>3
<1>9. SumTo(Posted', P) = SumTo(Posted, P) + x
  <2>1. Posted' = [i \in Producers |-> PostedBy(i, sent'[i])]
    BY <1>2 DEF Posted, PostedBy
  <2>2. ASSUME NEW i \in Producers
        PROVE  /\ Posted[i] = PostedBy(i, sent[i]) /\ Posted'[i] = PostedBy(i, sent'[i])
               /\ Posted[i] \in Int /\ Posted'[i] \in Int
    <3>1. sent[i] \in Nat /\ sent'[i] \in Nat /\ Base(i) \in Int
      BY <1>1, <1>3, <1>4 DEF BenchTypes
    <3>2. Posted[i] = PostedBy(i, sent[i]) /\ Posted'[i] = PostedBy(i, sent'[i])
      BY <2>1 DEF Posted
    <3>3. QED BY <3>1, <3>2, PostedStep
  <2>3. \A i \in Producers : i # p => Posted'[i] = Posted[i]
    BY <1>1, <1>3, <2>2 DEF BenchTypes
  <2>4. Posted'[p] = Posted[p] + x
    <3>1. sent'[p] = sent[p] + 1
      BY <1>1, <1>3 DEF BenchTypes
    <3>2. QED BY <1>4, <2>2, <3>1, PostedStep DEF x
  <2>5. \A i \in 0..P - 1 : i \in Producers
    BY DEF Producers
  <2>6. SumTo(Posted, P) \in Int /\ SumTo(Posted', P) = SumTo(Posted, P) + (Posted'[p] - Posted[p])
    <3> HIDE DEF P
    <3>1. SumTo(Posted, P) \in Int
      BY <1>4, <2>2, <2>5, SumInt
    <3>2. \A i \in 0..P - 1 : Posted[i] \in Int /\ Posted'[i] \in Int
                               /\ (i # p => Posted'[i] = Posted[i])
      BY <2>2, <2>3, <2>5
    <3>3. QED BY <1>4, <3>1, <3>2, SumChange
  <2>7. QED BY <1>4, <2>2, <2>4, <2>6
<1>10. count \in Int /\ sum \in Int
  BY <1>1, ResultsAdd
<1>11. Tallies'
  <2>1. Len(chan) \in Nat
    BY <1>1 DEF BenchTypes
  <2>2. QED BY <1>1, <1>2, <1>4, <1>7, <1>8, <1>9, <1>10, <2>1 DEF Tallies
<1>12. QED BY <1>5, <1>6, <1>11 DEF BenchInv

\* A pull takes an element off the channel and adds it to what its consumer has.
LEMMA ConsumeKeeps ==
  ASSUME BenchInv, NEW c \in Consumers, Consume(c)
  PROVE  BenchInv'
<1> DEFINE K == bench.consCount
           x == Head(chan)
<1>1. BenchTypes /\ Phases /\ Tallies
  BY DEF BenchInv
<1>2. /\ UNCHANGED <<bench, closed, sent, ended, main>>
      /\ UNCHANGED <<NELEMS, Producers, Consumers, Posted, ProducersDone>>
      /\ \A i : UNCHANGED Count(i)
  BY DEF Consume, NELEMS, Producers, Consumers, Posted, PostedBy, ProducersDone, Base, Count,
         per_task, rem
<1>3. /\ c \notin ended /\ chan # <<>> /\ chan' = Tail(chan)
      /\ result' = [result EXCEPT ![c] = <<@[1] + 1, @[2] + x>>]
  BY DEF Consume
<1>4. /\ chan \in Seq(Int) /\ x \in Int /\ Tail(chan) \in Seq(Int)
      /\ Len(chan) \in Nat /\ Len(Tail(chan)) = Len(chan) - 1
  BY <1>1, <1>3 DEF BenchTypes
<1> HIDE DEF x
<1>5. /\ result'[c] = <<result[c][1] + 1, result[c][2] + x>>
      /\ \A i \in Consumers : i # c => result'[i] = result[i]
      /\ \A i \in Consumers : result[i] \in Nat \X Int
      /\ result' \in [Consumers -> Nat \X Int]
  <2>1. result \in [Consumers -> Nat \X Int]
    BY <1>1 DEF BenchTypes
  <2>2. <<result[c][1] + 1, result[c][2] + x>> \in Nat \X Int
    BY <1>4, <2>1
  <2>3. QED BY <1>3, <2>1, <2>2
<1>6. BenchTypes'
  BY <1>1, <1>2, <1>3, <1>4, <1>5 DEF BenchTypes
<1>7. Phases'
  BY <1>1, <1>2, <1>3, <1>5 DEF Phases
<1>8. SumOf(chan) = x + SumOf(chan') /\ SumOf(chan') \in Int
  BY <1>3, <1>4, SumOfChanges DEF x
<1>9. /\ \A i \in Consumers : countOf[i] = result[i][1] /\ sumOf[i] = result[i][2]
      /\ \A i \in Consumers : countOf'[i] = result'[i][1] /\ sumOf'[i] = result'[i][2]
  BY <1>2 DEF countOf, sumOf
<1>10. /\ \A i \in 0..K - 1 : countOf[i] \in Int /\ sumOf[i] \in Int
       /\ \A i \in 0..K - 1 : countOf'[i] \in Int /\ sumOf'[i] \in Int
       /\ \A i \in 0..K - 1 : i # c => countOf'[i] = countOf[i] /\ sumOf'[i] = sumOf[i]
       /\ countOf'[c] = countOf[c] + 1 /\ sumOf'[c] = sumOf[c] + x
       /\ c \in 0..K - 1 /\ K \in Nat
  <2>1. \A i \in Consumers : result[i] \in Nat \X Int /\ result'[i] \in Nat \X Int
    BY <1>5
  <2>2. /\ \A i \in Consumers : countOf[i] \in Int /\ sumOf[i] \in Int
        /\ \A i \in Consumers : countOf'[i] \in Int /\ sumOf'[i] \in Int
    BY <1>9, <2>1
  <2>3. \A i \in Consumers : i # c => countOf'[i] = countOf[i] /\ sumOf'[i] = sumOf[i]
    BY <1>5, <1>9
  <2>4. countOf'[c] = countOf[c] + 1 /\ sumOf'[c] = sumOf[c] + x
    BY <1>5, <1>9
  <2>5. Consumers = 0..K - 1 /\ K \in Nat
    BY <1>1 DEF BenchTypes, Consumers
  <2>6. QED BY <2>2, <2>3, <2>4, <2>5
<1>11. count' = count + 1 /\ sum' = sum + x /\ count \in Int /\ sum \in Int
  <2> HIDE DEF K
  <2>1. SumTo(countOf', K) = SumTo(countOf, K) + (countOf'[c] - countOf[c])
    BY <1>10, SumChange
  <2>2. SumTo(sumOf', K) = SumTo(sumOf, K) + (sumOf'[c] - sumOf[c])
    BY <1>10, SumChange
  <2>3. SumTo(countOf, K) \in Int /\ SumTo(sumOf, K) \in Int
    BY <1>10, SumInt
  <2>4. /\ count = SumTo(countOf, K) /\ count' = SumTo(countOf', K)
        /\ sum = SumTo(sumOf, K) /\ sum' = SumTo(sumOf', K)
    BY <1>2 DEF count, sum, countOf, sumOf, K
  <2>5. QED BY <1>4, <1>10, <2>1, <2>2, <2>3, <2>4
<1>12. Tallies'
  BY <1>1, <1>2, <1>3, <1>4, <1>8, <1>11 DEF Tallies
<1>14. QED BY <1>6, <1>7, <1>12 DEF BenchInv

\* The other steps move no element.
LEMMA BenchStepKeeps == BenchInv /\ [Next]_vars => BenchInv'
<1> SUFFICES ASSUME BenchInv, [Next]_vars PROVE BenchInv'
  OBVIOUS
<1>1. CASE UNCHANGED <<bench, chan, sent, result>>
  <2>1. /\ UNCHANGED <<NELEMS, Producers, Consumers, Posted, ProducersDone, count, sum>>
        /\ \A i : UNCHANGED <<Count(i), Expects(i)>>
    BY <1>1 DEF NELEMS, Producers, Consumers, Posted, PostedBy, ProducersDone, Base, Count,
                per_task, rem, count, sum, Expects
  <2>2. Tallies'
    BY <1>1, <2>1 DEF BenchInv, Tallies
  <2>3. ASSUME NEW c \in Consumers, ConsumerEnds(c) PROVE BenchInv'
    <3>1. BenchTypes'
      BY <1>1, <2>1, <2>3 DEF BenchInv, BenchTypes, ConsumerEnds
    <3>2. bench.kind = "queue" => result[c][1] >= NELEMS
      BY <2>3 DEF BenchInv, BenchTypes, ConsumerEnds, Expects
    <3>3. Phases'
      BY <1>1, <2>1, <2>3, <3>2 DEF BenchInv, BenchTypes, Phases, ConsumerEnds
    <3>4. QED BY <2>2, <3>1, <3>3 DEF BenchInv
  <2>4. CASE ProducersJoined
    <3>1. BenchTypes'
      BY <1>1, <2>1, <2>4 DEF BenchInv, BenchTypes, ProducersJoined
    <3>2. Phases'
      BY <1>1, <2>1, <2>4 DEF BenchInv, BenchTypes, Phases, ProducersJoined
    <3>3. QED BY <2>2, <3>1, <3>2 DEF BenchInv
  <2>5. CASE Drained
    <3>1. BenchTypes'
      BY <1>1, <2>1, <2>5 DEF BenchInv, BenchTypes, Drained
    <3>2. Phases'
      BY <1>1, <2>1, <2>5 DEF BenchInv, BenchTypes, Phases, Drained
    <3>3. QED BY <2>2, <3>1, <3>2 DEF BenchInv
  <2>6. CASE ConsumersJoined
    <3>1. BenchTypes'
      BY <1>1, <2>1, <2>6 DEF BenchInv, BenchTypes, ConsumersJoined
    <3>2. Phases'
      BY <1>1, <2>1, <2>6 DEF BenchInv, BenchTypes, Phases, ConsumersJoined
    <3>3. QED BY <2>2, <3>1, <3>2 DEF BenchInv
  <2>7. CASE UNCHANGED vars
    BY <1>1, <2>1, <2>2, <2>7 DEF BenchInv, BenchTypes, Phases, vars
  <2>8. ASSUME NEW p \in Producers, Produce(p) PROVE BenchInv'
    BY <2>8, ProduceKeeps
  <2>9. ASSUME NEW c \in Consumers, Consume(c) PROVE BenchInv'
    BY <2>9, ConsumeKeeps
  <2>10. QED BY <2>3, <2>4, <2>5, <2>6, <2>7, <2>8, <2>9 DEF Next
<1>2. CASE ~UNCHANGED <<bench, chan, sent, result>>
  <2>1. (\E p \in Producers : Produce(p)) \/ (\E c \in Consumers : Consume(c))
    BY <1>2 DEF Next, vars, ConsumerEnds, ProducersJoined, Drained, ConsumersJoined
  <2>2. QED BY <2>1, ProduceKeeps, ConsumeKeeps
<1>3. QED BY <1>1, <1>2

\* The invariant says that the totals are right when all tasks are done.
LEMMA InvImpliesNoFail == BenchInv => NoFail /\ PushSucceeds
<1> SUFFICES ASSUME BenchInv PROVE NoFail /\ PushSucceeds
  OBVIOUS
<1>1. BenchTypes /\ Phases /\ Tallies
  BY DEF BenchInv
<1>2. PushSucceeds
  BY <1>1 DEF PushSucceeds, Phases
<1>3. ASSUME main = "done" PROVE count = NELEMS /\ sum = expectedSum
  <2>1. ProducersDone /\ ended = Consumers
    BY <1>1, <1>3 DEF Phases
  <2>2. NELEMS \in Nat /\ bench.prodCount \in Nat \ {0} /\ sent \in [Producers -> Nat]
    BY <1>1 DEF BenchTypes
  <2>3. count + Len(chan) = NELEMS /\ sum + SumOf(chan) = expectedSum
    BY <1>1, <2>1, <2>2, AllPosted DEF Tallies
  <2>4. /\ count \in Int /\ sum \in Int /\ Len(chan) \in Nat /\ chan \in Seq(Int)
        /\ (Len(chan) = 0 => chan = <<>>)
    BY <1>1, ResultsAdd DEF BenchTypes
  <2>5. 0 \in Consumers
    BY <1>1 DEF BenchTypes, Consumers
  <2>6. chan = <<>>
    <3>1. CASE bench.kind = "chan"
      BY <1>1, <2>1, <2>5, <3>1 DEF Phases
    <3>2. CASE bench.kind = "queue"
      <4>1. bench.consCount = 1 /\ result[0][1] >= NELEMS
        BY <1>1, <2>1, <2>5, <3>2 DEF Phases, BenchTypes
      <4>2. countOf[0] = result[0][1] /\ countOf[0] \in Int
        BY <1>1, <2>5, ResultsAdd DEF countOf
      <4>3. SumTo(countOf, 0) = 0 /\ SumTo(countOf, 0 + 1) = SumTo(countOf, 0) + countOf[0]
        <5>1. \A i \in 0..0 : countOf[i] \in Int
          BY <4>2
        <5>2. QED BY <5>1, SumStep
      <4>4. count = result[0][1]
        BY <4>1, <4>2, <4>3 DEF count, countOf
      <4>5. QED BY <2>2, <2>3, <2>4, <4>1, <4>4
    <3>3. QED BY <1>1, <3>1, <3>2 DEF BenchTypes
  <2>7. SumOf(chan) = 0 /\ Len(chan) = 0
    BY <2>4, <2>6, SumOfChanges
  <2>8. QED BY <2>2, <2>3, <2>4, <2>7
<1>4. QED BY <1>2, <1>3 DEF NoFail

\* Whatever the numbers of elements, producers and consumers are, and whoever pulls
\* what, no run prints "FAIL: Expected ... elements" or "FAIL: Expected ... sum".
THEOREM BenchNoFail == Spec => []NoFail
<1>1. BenchAssumption
  BY BenchAssumption
<1>2. Spec => []BenchInv
  BY <1>1, BenchInitially, BenchStepKeeps, PTL DEF Spec
<1>3. QED BY <1>2, InvImpliesNoFail, PTL

\* The driver closes the channel only when every push is done: assert(ok) holds.
THEOREM BenchPushSucceeds == Spec => []PushSucceeds
<1>1. BenchAssumption
  BY BenchAssumption
<1>2. Spec => []BenchInv
  BY <1>1, BenchInitially, BenchStepKeeps, PTL DEF Spec
<1>3. QED BY <1>2, InvImpliesNoFail, PTL

-----------------------------------------------------------------------------
(* The groups: the inductive invariant of TaskGroup.                        *)

\* The groups of the samples, whatever their sizes: from braid.cpp, spawn_iterator.cpp
\* (whose iterators go past the element 3 that the filter drops) and
\* exec_st_roundtrip_bench.cpp.
SampleGroups ==
    (UNION {run_on_braid(n) \cup off_braid(n) \cup static_sized_iterator(n) : n \in Nat})
    \cup (UNION {bounded_iterator(n) \cup dynamic_sized_iterator(n) : n \in Nat \ 0..3})
    \cup detach_maxCount \cup detach_uncountable_iter
    \cup {run_bench(m, k) : m \in Nat, k \in Nat \ {0}}

\* How many tasks are made of the first m elements, and of which element the task is
\* made that i tasks precede.
Made(m) == IF prog.filter /\ m > 3 THEN m - 1 ELSE m
Element(i) == IF prog.filter /\ i >= 3 THEN i + 1 ELSE i

\* How often a task that is at place k of its body has incremented the counter.
IncsAt(k) ==
    IF prog.body = "producer" THEN k \div 3
    ELSE IF k > (CASE prog.body = "detached" -> 1
                   [] prog.body = "child_tasks" -> 2
                   [] OTHER -> 3) THEN 1 ELSE 0

AllIncs == [i \in 0..Len(tasks) - 1 |-> IncsAt(at[i + 1])]

IsAt(t, s) == ~Done(t) /\ Body(t)[at[t]] = s

GroupTypes ==
    /\ prog \in Programs
    /\ next \in 0..prog.items
    /\ tasks \in Seq(Nat) /\ ex \in Seq({"cpu", "serial"}) /\ at \in Seq(Nat)
    /\ local \in Seq(Nat) /\ results \in Seq(Nat)
    /\ Len(ex) = Len(tasks) /\ Len(at) = Len(tasks)
    /\ Len(local) = Len(tasks) /\ Len(results) = Len(tasks)
    /\ pc \in {"fill", "wait", "joined"}
    /\ serial \in 0..Len(tasks)
    /\ value \in Nat

\* The group is made of the elements that are taken, and is complete when it is spawned.
Filled ==
    /\ Len(tasks) = Made(next) /\ Len(tasks) <= prog.bound
    /\ \A t \in Tasks : tasks[t] = Element(t - 1)
    /\ pc = "fill" => serial = 0 /\ \A t \in Tasks : at[t] = 1 /\ ex[t] = prog.on
    /\ pc # "fill" => Len(tasks) = prog.count
    /\ pc = "joined" => \A t \in Tasks : Done(t)

\* Every task is at a place of its body; the counter is read and written on the serial
\* executor only, and nothing comes between the two.
Exclusive == \A t \in Tasks :
    /\ at[t] \in 1..Len(Body(t)) + 1
    /\ IsAt(t, "load") \/ IsAt(t, "store") => ex[t] = "serial"
    /\ IsAt(t, "store") => serial = t /\ local[t] = value

\* What has been done so far shows in the counter and in the results.
Recorded ==
    /\ prog.body # "value" => value = SumTo(AllIncs, Len(tasks))
    /\ prog.body = "value" => \A t \in Tasks : Done(t) => results[t] = TwoTo(tasks[t])

GroupInv == GroupTypes /\ Filled /\ Exclusive /\ Recorded

\* What the invariant needs of a group: its numbers are those of the samples.
Numbers ==
    /\ prog.body \in DOMAIN Bodies /\ prog.on \in {"cpu", "serial"} /\ prog.filter \in BOOLEAN
    /\ prog.items \in Nat /\ prog.bound \in Nat /\ prog.count \in Nat /\ prog.sum \in Nat
    /\ prog.body = "child_tasks" => prog.on = "serial"
    /\ prog.body = "producer" => prog.items = prog.count /\ prog.items # 0
    /\ prog.body \notin {"value", "producer"} => prog.sum = prog.count
    /\ prog.body = "value" =>
        IF prog.filter THEN prog.count >= 3 /\ prog.sum = TwoTo(prog.count + 1) - 9
                       ELSE prog.sum = TwoTo(prog.count) - 1
    /\ \A m \in 0..prog.items :
        Made(m) <= prog.bound /\ (m = prog.items \/ Made(m) = prog.bound) => Made(m) = prog.count

\* They are.
LEMMA SampleNumbers == Programs \subseteq SampleGroups /\ prog \in Programs => Numbers
<1> SUFFICES ASSUME prog \in SampleGroups, ProgramsAssumption, prog \in Programs PROVE Numbers
  BY ProgramsAssumption
<1>1. /\ prog.body \in DOMAIN Bodies /\ prog.on \in {"cpu", "serial"} /\ prog.filter \in BOOLEAN
      /\ prog.items \in Nat /\ prog.bound \in Nat /\ prog.count \in Nat /\ prog.sum \in Nat
  BY DEF ProgramsAssumption
<1>2. ASSUME NEW n \in Nat, prog \in run_on_braid(n) \cup off_braid(n) PROVE Numbers
  <2>1. /\ prog.items = n /\ prog.bound = n /\ prog.count = n /\ prog.sum = n /\ prog.filter = FALSE
        /\ prog.body \notin {"value", "producer"} /\ (prog.body = "child_tasks" => prog.on = "serial")
    BY <1>2 DEF run_on_braid, off_braid, Group
  <2>2. QED BY <1>1, <2>1 DEF Numbers, Made
<1>3. ASSUME NEW n \in Nat, prog \in static_sized_iterator(n) PROVE Numbers
  <2>1. /\ prog.items = n /\ prog.bound = n /\ prog.count = n /\ prog.sum = TwoTo(n) - 1
        /\ prog.filter = FALSE /\ prog.body = "value"
    BY <1>3 DEF static_sized_iterator, Group
  <2>2. QED BY <1>1, <2>1 DEF Numbers, Made
<1>4. ASSUME NEW n \in Nat \ 0..3, prog \in bounded_iterator(n) \cup dynamic_sized_iterator(n)
      PROVE  Numbers
  <2>1. TwoTo(n) \in Nat /\ TwoTo(n + 1) = 2 * TwoTo(n)
    BY TwoToStep
  <2>2. CASE prog = UpTo(n, TRUE, Group("value", "cpu", n, n - 1, TwoTo(n) - 1 - 8))
    <3>1. /\ prog.items = n /\ prog.bound = n /\ prog.count = n - 1 /\ prog.sum = TwoTo(n) - 1 - 8
          /\ prog.filter = TRUE /\ prog.body = "value"
      BY <2>2 DEF UpTo, Group
    <3>2. (n - 1) + 1 = n /\ n - 1 >= 3
      OBVIOUS
    <3>3. QED BY <1>1, <2>1, <3>1, <3>2 DEF Numbers, Made
  <2>3. CASE prog = UpTo(n, TRUE, Group("value", "cpu", n + 20, n, TwoTo(n) - 1 - 8 + TwoTo(n)))
    <3>1. /\ prog.items = n + 20 /\ prog.bound = n /\ prog.count = n
          /\ prog.sum = TwoTo(n) - 1 - 8 + TwoTo(n) /\ prog.filter = TRUE /\ prog.body = "value"
      BY <2>3 DEF UpTo, Group
    <3>2. QED BY <1>1, <2>1, <3>1 DEF Numbers, Made
  <2>4. QED BY <1>4, <2>2, <2>3 DEF bounded_iterator, dynamic_sized_iterator
<1>5. ASSUME prog \in detach_maxCount \cup detach_uncountable_iter PROVE Numbers
  <2>1. /\ prog.items = 10 /\ prog.body = "detached" /\ prog.sum = prog.count
        /\ \/ prog.bound = 5 /\ prog.count = 5
           \/ prog.bound = 15 /\ prog.count = 10 /\ prog.filter = FALSE
           \/ prog.bound = 15 /\ prog.count = 9 /\ prog.filter = TRUE
    BY <1>5 DEF detach_maxCount, detach_uncountable_iter, UpTo, Group
  <2>2. QED BY <1>1, <2>1 DEF Numbers, Made
<1>6. ASSUME NEW m \in Nat, NEW k \in Nat \ {0}, prog = run_bench(m, k) PROVE Numbers
  <2>1. /\ prog.items = k /\ prog.bound = k /\ prog.count = k /\ prog.filter = FALSE
        /\ prog.body = "producer"
    BY <1>6 DEF run_bench, Group
  <2>2. k # 0 /\ \A m1 \in 0..k : Made(m1) = m1
    BY <2>1 DEF Made
  <2>3. \A m1 \in 0..prog.items :
          Made(m1) <= prog.bound /\ (m1 = prog.items \/ Made(m1) = prog.bound) => Made(m1) = prog.count
    BY <2>1, <2>2
  <2>4. prog.items = prog.count /\ prog.items # 0 /\ prog.body = "producer"
    BY <2>1, <2>2
  <2>5. QED BY <1>1, <2>3, <2>4 DEF Numbers
<1>7. QED BY <1>2, <1>3, <1>4, <1>5, <1>6 DEF SampleGroups

\* What a body is: where the counter is incremented, and what comes before that.
Placed(t) ==
    /\ Len(Body(t)) \in Nat
    /\ \A k \in 1..Len(Body(t)) :
        /\ IncsAt(k + 1) = IncsAt(k) + (IF Body(t)[k] \in {"store", "inc"} THEN 1 ELSE 0)
        /\ Body(t)[k] = "store" => k > 1 /\ Body(t)[k - 1] = "load"
        /\ Body(t)[k] = "load" =>
            (k = 1 /\ prog.on = "serial") \/ (k > 1 /\ Body(t)[k - 1] \in {"enter", "call"})
        /\ Body(t)[k] = "inc" => prog.body \in {"detached", "producer"}
        /\ Body(t)[k] \in {"load", "store"} => prog.body \notin {"detached", "producer"}
        /\ prog.body = "value" => Body(t)[k] = "return"
    /\ IncsAt(1) = 0
    /\ prog.body = "value" => Len(Body(t)) = 1
    /\ prog.body # "value" =>
        IncsAt(Len(Body(t)) + 1) = IF prog.body = "producer" THEN Share(t) ELSE 1

\* That is what the bodies of the samples are.
LEMMA Places ==
  ASSUME Numbers, NEW t \in Nat, prog.body = "producer" => t \in 1..prog.items
  PROVE  Placed(t)
<1>1. CASE prog.body = "producer"
  <2> DEFINE b == <<"call", "inc", "back">>
             n == Share(t)
  <2>1. n \in Nat
    BY <1>1 DEF Numbers, Share
  <2>2. Body(t) = [k \in 1..n * 3 |-> b[((k - 1) % 3) + 1]]
    BY <1>1 DEF Body, Bodies, Repeat
  <2>3. Len(Body(t)) = n * 3
    BY <2>1, <2>2
  <2>4. ASSUME NEW k \in 1..n * 3
        PROVE  /\ Body(t)[k] = (IF k % 3 = 1 THEN "call" ELSE IF k % 3 = 2 THEN "inc" ELSE "back")
               /\ (k + 1) \div 3 = (k \div 3) + (IF k % 3 = 2 THEN 1 ELSE 0)
    <3>1. Body(t)[k] = b[((k - 1) % 3) + 1] /\ k \in Nat
      BY <2>1, <2>2
    <3>2. ((k - 1) % 3) + 1 = IF k % 3 = 0 THEN 3 ELSE k % 3
      BY <3>1
    <3>3. QED BY <3>1, <3>2
  <2>5. (n * 3 + 1) \div 3 = n
    BY <2>1
  <2> HIDE DEF n
  <2>6. IncsAt(1) = 0 /\ IncsAt(n * 3 + 1) = n
    BY <1>1, <2>5 DEF IncsAt
  <2>7. ASSUME NEW k \in 1..n * 3
        PROVE  /\ Body(t)[k] \in {"call", "inc", "back"}
               /\ IncsAt(k + 1) = IncsAt(k) + (IF Body(t)[k] = "inc" THEN 1 ELSE 0)
    BY <1>1, <2>4 DEF IncsAt
  <2>8. QED BY <1>1, <2>1, <2>3, <2>6, <2>7 DEF Placed, n
<1>2. CASE prog.body # "producer"
  <2>1. Body(t) = Bodies[prog.body]
    BY <1>2 DEF Body
  <2>0. prog.body = "child_tasks" => prog.on = "serial"
    BY DEF Numbers
  <2>2. CASE prog.body = "value"
    <3>1. Len(Body(t)) = 1 /\ Body(t)[1] = "return"
      BY <2>1, <2>2 DEF Bodies
    <3>2. \A k \in 1..1 : k = 1
      OBVIOUS
    <3>3. QED BY <2>2, <3>1, <3>2 DEF IncsAt, Placed
  <2>3. CASE prog.body = "detached"
    <3>1. Len(Body(t)) = 1 /\ Body(t)[1] = "inc"
      BY <2>1, <2>3 DEF Bodies
    <3>2. \A k \in 1..1 : k = 1
      OBVIOUS
    <3>3. QED BY <2>3, <3>1, <3>2 DEF IncsAt, Placed
  <2>4. CASE prog.body = "child_tasks"
    <3>1. Len(Body(t)) = 2 /\ Body(t)[1] = "load" /\ Body(t)[2] = "store"
      BY <2>1, <2>4 DEF Bodies
    <3>2. \A k \in 1..2 : k = 1 \/ k = 2
      OBVIOUS
    <3>3. \A k : IncsAt(k) = IF k > 2 THEN 1 ELSE 0
      BY <2>4 DEF IncsAt
    <3>4. prog.on = "serial"
      BY <2>0, <2>4
    <3>5. QED BY <2>4, <3>1, <3>2, <3>3, <3>4 DEF Placed
  <2>5. CASE prog.body = "braid_lock"
    <3>1. Len(Body(t)) = 3 /\ Body(t)[1] = "enter" /\ Body(t)[2] = "load" /\ Body(t)[3] = "store"
      BY <2>1, <2>5 DEF Bodies
    <3>2. \A k \in 1..3 : k = 1 \/ k = 2 \/ k = 3
      OBVIOUS
    <3>3. QED BY <2>5, <3>1, <3>2 DEF IncsAt, Placed
  <2>6. CASE prog.body = "braid_lock_middle"
    <3>1. Len(Body(t)) = 4 /\ Body(t)[1] = "enter" /\ Body(t)[2] = "load"
          /\ Body(t)[3] = "store" /\ Body(t)[4] = "exit"
      BY <2>1, <2>6 DEF Bodies
    <3>2. \A k \in 1..4 : k = 1 \/ k = 2 \/ k = 3 \/ k = 4
      OBVIOUS
    <3>3. QED BY <2>6, <3>1, <3>2 DEF IncsAt, Placed
  <2>7. CASE prog.body = "middle_resume_on"
    <3>1. Len(Body(t)) = 4 /\ Body(t)[1] = "enter" /\ Body(t)[2] = "load"
          /\ Body(t)[3] = "store" /\ Body(t)[4] = "resume_on_cpu"
      BY <2>1, <2>7 DEF Bodies
    <3>2. \A k \in 1..4 : k = 1 \/ k = 2 \/ k = 3 \/ k = 4
      OBVIOUS
    <3>3. QED BY <2>7, <3>1, <3>2 DEF IncsAt, Placed
  <2>8. CASE prog.body = "middle_child"
    <3>1. Len(Body(t)) = 4 /\ Body(t)[1] = "call" /\ Body(t)[2] = "load"
          /\ Body(t)[3] = "store" /\ Body(t)[4] = "back"
      BY <2>1, <2>8 DEF Bodies
    <3>2. \A k \in 1..4 : k = 1 \/ k = 2 \/ k = 3 \/ k = 4
      OBVIOUS
    <3>3. QED BY <2>8, <3>1, <3>2 DEF IncsAt, Placed
  <2>9. prog.body \in {"value", "detached", "child_tasks", "braid_lock", "braid_lock_middle",
                       "middle_resume_on", "middle_child"}
    BY <1>2 DEF Numbers, Bodies
  <2>10. QED BY <2>2, <2>3, <2>4, <2>5, <2>6, <2>7, <2>8, <2>9
<1>3. QED BY <1>1, <1>2

\* What the invariant says of the shape of the state.
LEMMA Shapes ==
  ASSUME Programs \subseteq SampleGroups, GroupInv
  PROVE  /\ GroupTypes /\ Filled /\ Exclusive /\ Recorded /\ Numbers
         /\ Tasks = 1..Len(tasks) /\ Len(tasks) \in Nat
         /\ DOMAIN ex = Tasks /\ DOMAIN at = Tasks /\ DOMAIN local = Tasks /\ DOMAIN results = Tasks
         /\ \A t \in Tasks : t \in Nat /\ t # 0 /\ at[t] \in Nat /\ Len(Body(t)) \in Nat /\ Placed(t)
         /\ prog.body = "producer" => Tasks \subseteq 1..prog.items
<1>1. GroupTypes /\ Filled /\ Exclusive /\ Recorded
  BY DEF GroupInv
<1>2. Numbers
  BY <1>1, SampleNumbers DEF GroupTypes
<1>3. Tasks = 1..Len(tasks) /\ Len(tasks) \in Nat
  BY <1>1 DEF GroupTypes, Tasks
<1>4. DOMAIN ex = Tasks /\ DOMAIN at = Tasks /\ DOMAIN local = Tasks /\ DOMAIN results = Tasks
  BY <1>1, <1>3 DEF GroupTypes
<1>5. prog.body = "producer" => Tasks \subseteq 1..prog.items
  <2>1. next \in Nat /\ next <= prog.items /\ prog.items \in Nat /\ Len(tasks) = Made(next)
    BY <1>1, <1>2 DEF GroupTypes, Filled, Numbers
  <2>2. Len(tasks) <= prog.items
    BY <2>1 DEF Made
  <2>3. QED BY <1>2, <1>3, <2>2 DEF Numbers
<1>6. ASSUME NEW t \in Tasks
      PROVE  t \in Nat /\ t # 0 /\ at[t] \in Nat /\ Len(Body(t)) \in Nat /\ Placed(t)
  <2>1. t \in Nat /\ t # 0
    BY <1>3
  <2>2. at[t] \in Nat
    BY <1>1, <1>4 DEF GroupTypes
  <2>3. Placed(t)
    BY <1>2, <1>5, <2>1, Places
  <2>4. QED BY <2>1, <2>2, <2>3 DEF Placed
<1>7. QED BY <1>1, <1>2, <1>3, <1>4, <1>5, <1>6

\* A task that takes the next step of its body, which changes nothing of another task and
\* records what it is to record, keeps the invariant.
LEMMA AdvanceKeeps ==
  ASSUME Programs \subseteq SampleGroups, GroupInv,
         NEW t \in Tasks, NEW s, Step(t, s), Advance(t),
         UNCHANGED <<prog, next, tasks, pc>>,
         ex' \in Seq({"cpu", "serial"}), local' \in Seq(Nat), results' \in Seq(Nat),
         Len(ex') = Len(ex), Len(local') = Len(local), Len(results') = Len(results),
         \A u \in Tasks : u # t =>
             ex'[u] = ex[u] /\ local'[u] = local[u] /\ results'[u] = results[u],
         serial' = serial \/ (serial = t /\ serial' = 0),
         value' = IF s \in {"store", "inc"} THEN value + 1 ELSE value,
         s \in {"enter", "call"} => ex'[t] = "serial",
         s = "load" => ex' = ex /\ serial' = serial /\ local'[t] = value,
         s = "return" => results'[t] = TwoTo(tasks[t])
  PROVE  GroupInv'
<1>1. /\ GroupTypes /\ Filled /\ Exclusive /\ Recorded /\ Numbers
      /\ Tasks = 1..Len(tasks) /\ Len(tasks) \in Nat
      /\ DOMAIN ex = Tasks /\ DOMAIN at = Tasks /\ DOMAIN local = Tasks /\ DOMAIN results = Tasks
      /\ \A u \in Tasks : u \in Nat /\ u # 0 /\ at[u] \in Nat /\ Len(Body(u)) \in Nat /\ Placed(u)
      /\ prog.body = "producer" => Tasks \subseteq 1..prog.items
  BY Shapes
<1>2. /\ UNCHANGED <<Tasks, Len(tasks)>>
      /\ \A u : UNCHANGED <<Body(u), IncsAt(u)>>
  BY DEF Tasks, Body, Share, Repeat, IncsAt
<1> DEFINE k == at[t]
           n == Len(Body(t))
<1>3. /\ k \in 1..n /\ k \in Nat /\ n \in Nat /\ Body(t)[k] = s
      /\ pc = "wait" /\ (ex[t] = "serial" => serial = t)
  <2>1. k \in 1..n + 1 /\ k \in Nat /\ n \in Nat
    BY <1>1 DEF Exclusive
  <2>2. QED BY <2>1 DEF Step, Runs, Done
<1>4. /\ at' \in Seq(Nat) /\ Len(at') = Len(at) /\ at'[t] = k + 1
      /\ \A u \in Tasks : u # t => at'[u] = at[u]
  <2>1. at \in Seq(Nat) /\ t \in 1..Len(at) /\ k + 1 \in Nat
    <3>1. at \in Seq(Nat) /\ Len(at) = Len(tasks)
      BY <1>1 DEF GroupTypes
    <3>2. t \in 1..Len(tasks)
      BY <1>1
    <3>3. k + 1 \in Nat
      BY <1>3
    <3>4. QED BY <3>1, <3>2, <3>3
  <2>2. at' = [at EXCEPT ![t] = k + 1]
    BY DEF Advance
  <2>3. QED BY <1>1, <2>1, <2>2, ExceptSeq
<1>5. /\ IncsAt(k + 1) = IncsAt(k) + (IF s \in {"store", "inc"} THEN 1 ELSE 0)
      /\ s = "inc" => prog.body \in {"detached", "producer"}
      /\ prog.body = "value" => s = "return" /\ n = 1
  BY <1>1, <1>3 DEF Placed
<1>6. \A u \in Tasks : u # t => (Done(u)' <=> Done(u)) /\ \A x : IsAt(u, x)' <=> IsAt(u, x)
  BY <1>2, <1>4 DEF Done, IsAt
<1>7. GroupTypes'
  <2>1. /\ prog \in Programs /\ next \in 0..prog.items /\ tasks \in Seq(Nat)
        /\ Len(ex) = Len(tasks) /\ Len(at) = Len(tasks)
        /\ Len(local) = Len(tasks) /\ Len(results) = Len(tasks)
        /\ pc \in {"fill", "wait", "joined"} /\ serial \in 0..Len(tasks) /\ value \in Nat
    BY <1>1 DEF GroupTypes
  <2>2. serial' \in 0..Len(tasks) /\ value' \in Nat
    <3>1. serial' \in 0..Len(tasks)
      BY <2>1
    <3>2. value' \in Nat
      BY <2>1
    <3>3. QED BY <3>1, <3>2
  <2>3. QED BY <1>4, <2>1, <2>2 DEF GroupTypes
<1>8. Filled'
  BY <1>1, <1>2, <1>3 DEF Filled, Made, Element
<1>9. Exclusive'
  <2>1. ASSUME NEW u \in Tasks, u # t
        PROVE  /\ at'[u] \in 1..Len(Body(u)) + 1
               /\ IsAt(u, "load")' \/ IsAt(u, "store")' => ex'[u] = "serial"
               /\ IsAt(u, "store")' => serial' = u /\ local'[u] = value'
    <3>1. /\ at[u] \in 1..Len(Body(u)) + 1
          /\ IsAt(u, "load") \/ IsAt(u, "store") => ex[u] = "serial"
          /\ IsAt(u, "store") => serial = u /\ local[u] = value
      BY <1>1 DEF Exclusive
    <3>2. ASSUME IsAt(u, "store") PROVE serial' = u /\ local'[u] = value'
      <4>1. serial = u /\ local[u] = value
        BY <3>1, <3>2
      <4>2. s # "store"
        <5>1. ASSUME s = "store" PROVE IsAt(t, "store")
          BY <1>3, <5>1 DEF IsAt, Done
        <5>2. s = "store" => serial = t
          BY <1>1, <5>1 DEF Exclusive
        <5>3. QED BY <2>1, <4>1, <5>2
      <4>3. s # "inc"
        <5>1. at[u] \in 1..Len(Body(u)) /\ Body(u)[at[u]] = "store"
          BY <1>1, <3>1, <3>2 DEF IsAt, Done
        <5>2. prog.body \notin {"detached", "producer"}
          BY <1>1, <5>1 DEF Placed
        <5>3. QED BY <1>5, <5>2
      <4>4. QED BY <2>1, <4>1, <4>2, <4>3
    <3>3. QED BY <1>4, <1>6, <2>1, <3>1, <3>2
  <2>2. /\ at'[t] \in 1..n + 1
        /\ IsAt(t, "load")' \/ IsAt(t, "store")' => ex'[t] = "serial"
        /\ IsAt(t, "store")' => serial' = t /\ local'[t] = value'
    <3>1. at'[t] \in 1..n + 1
      BY <1>3, <1>4
    <3>2. ASSUME NEW x, IsAt(t, x)'
          PROVE  k + 1 \in 1..n /\ Body(t)[k + 1] = x /\ k + 1 # 1 /\ (k + 1) - 1 = k
      BY <1>2, <1>3, <1>4, <3>2 DEF IsAt, Done
    <3>3. ASSUME IsAt(t, "load")' PROVE ex'[t] = "serial"
      <4>1. k + 1 \in 1..n /\ Body(t)[k + 1] = "load" /\ k + 1 # 1 /\ (k + 1) - 1 = k
        BY <3>2, <3>3
      <4>2. s \in {"enter", "call"}
        BY <1>1, <1>3, <4>1 DEF Placed
      <4>3. QED BY <4>2
    <3>4. ASSUME IsAt(t, "store")' PROVE ex'[t] = "serial" /\ serial' = t /\ local'[t] = value'
      <4>1. k + 1 \in 1..n /\ Body(t)[k + 1] = "store" /\ k + 1 # 1 /\ (k + 1) - 1 = k
        BY <3>2, <3>4
      <4>2. s = "load"
        BY <1>1, <1>3, <4>1 DEF Placed
      <4>3. IsAt(t, "load")
        BY <1>3, <4>2 DEF IsAt, Done
      <4>4. ex[t] = "serial" /\ serial = t
        BY <1>1, <1>3, <4>3 DEF Exclusive
      <4>5. QED BY <4>2, <4>4
    <3>5. QED BY <3>1, <3>3, <3>4
  <2>3. QED BY <1>2, <2>1, <2>2 DEF Exclusive
<1>10. Recorded'
  <2>1. ASSUME prog.body # "value" PROVE value' = SumTo(AllIncs', Len(tasks))
    <3> DEFINE m == Len(tasks)
    <3>1. /\ AllIncs = [i \in 0..m - 1 |-> IncsAt(at[i + 1])]
          /\ AllIncs' = [i \in 0..m - 1 |-> IncsAt(at'[i + 1])]
      BY <1>2 DEF AllIncs
    <3>2. \A i \in 0..m - 1 : i + 1 \in Tasks /\ IncsAt(at[i + 1]) \in Int /\ IncsAt(at'[i + 1]) \in Int
      <4>1. \A j \in Nat : IncsAt(j) \in Int
        BY DEF IncsAt
      <4>2. \A i \in 0..m - 1 : i + 1 \in Tasks
        BY <1>1
      <4>3. \A u \in Tasks : at'[u] \in Nat
        <5>1. at'[t] \in Nat
          BY <1>3, <1>4
        <5>2. QED BY <1>1, <1>4, <5>1
      <4>4. QED BY <1>1, <4>1, <4>2, <4>3
    <3>3. t - 1 \in 0..m - 1 /\ (t - 1) + 1 = t /\ \A i \in 0..m - 1 : i # t - 1 => i + 1 # t
      BY <1>1
    <3>4. \A i \in 0..m - 1 : i # t - 1 => AllIncs'[i] = AllIncs[i]
      BY <1>4, <3>1, <3>2, <3>3
    <3>5. AllIncs'[t - 1] - AllIncs[t - 1] = IF s \in {"store", "inc"} THEN 1 ELSE 0
      <4>1. AllIncs[t - 1] = IncsAt(k) /\ AllIncs'[t - 1] = IncsAt(k + 1)
        BY <1>4, <3>1, <3>3
      <4>2. IncsAt(k) \in Int
        BY <1>3 DEF IncsAt
      <4>3. QED BY <1>5, <4>1, <4>2
    <3>6. SumTo(AllIncs', m) = SumTo(AllIncs, m) + (AllIncs'[t - 1] - AllIncs[t - 1])
      <4>1. \A i \in 0..m - 1 : AllIncs[i] \in Int /\ AllIncs'[i] \in Int
        BY <3>1, <3>2
      <4>2. t - 1 \in 0..m - 1 /\ m \in Nat
        BY <1>1, <3>3
      <4> HIDE DEF m
      <4>3. QED BY <3>4, <4>1, <4>2, SumChange
    <3>7. s = "store" => value' = value + 1
      OBVIOUS
    <3>8. SumTo(AllIncs, m) = value /\ value \in Nat
      BY <1>1, <2>1 DEF Recorded, GroupTypes
    <3>9. QED BY <3>5, <3>6, <3>8
  <2>2. ASSUME prog.body = "value", NEW u \in Tasks, Done(u)' PROVE results'[u] = TwoTo(tasks[u])
    BY <1>1, <1>5, <1>6, <2>2 DEF Recorded
  <2>3. QED BY <1>2, <2>1, <2>2 DEF Recorded
<1>11. QED BY <1>7, <1>8, <1>9, <1>10 DEF GroupInv

\* Before the iterator is advanced there is no task.
LEMMA GroupInitially ==
  ASSUME Programs \subseteq SampleGroups, GroupInit PROVE GroupInv
<1>1. /\ prog \in Programs /\ next = 0 /\ tasks = <<>> /\ pc = "fill" /\ serial = 0 /\ value = 0
      /\ ex = <<>> /\ at = <<>> /\ local = <<>> /\ results = <<>>
  BY DEF GroupInit
<1>2. Numbers
  BY <1>1, SampleNumbers
<1>3. Tasks = {} /\ Len(tasks) = 0
  BY <1>1 DEF Tasks
<1>4. GroupTypes
  BY <1>1, <1>2 DEF GroupTypes, Numbers
<1>5. Filled
  BY <1>1, <1>2, <1>3 DEF Filled, Made, Numbers
<1>6. Exclusive
  BY <1>3 DEF Exclusive
<1>7. SumTo(AllIncs, Len(tasks)) = 0
  BY <1>3, SumStep
<1>8. Recorded
  BY <1>1, <1>3, <1>7 DEF Recorded
<1>9. QED BY <1>4, <1>5, <1>6, <1>8 DEF GroupInv

\* While the group is filled, nothing has been counted.
LEMMA NothingCounted ==
  ASSUME Numbers, Len(tasks) \in Nat, \A t \in 1..Len(tasks) : at[t] = 1 /\ Placed(t)
  PROVE  SumTo(AllIncs, Len(tasks)) = 0
<1> DEFINE m == Len(tasks)
<1>1. \A i \in 0..m - 1 : i + 1 \in 1..m
  OBVIOUS
<1>2. \A i \in 0..m - 1 : AllIncs[i] = 0
  BY <1>1 DEF AllIncs, Placed
<1>3. SumTo(AllIncs, m) = m * 0
  <2> HIDE DEF m
  <2>1. m \in Nat /\ 0 \in Int
    BY DEF m
  <2>2. QED BY <1>2, <2>1, SumOfEqual
<1>4. QED BY <1>3

\* The iterator is advanced, and a task is made of the element or it is skipped.
LEMMA FillKeeps ==
  ASSUME Programs \subseteq SampleGroups, GroupInv, Fill
  PROVE  GroupInv'
<1>1. /\ GroupTypes /\ Filled /\ Exclusive /\ Recorded /\ Numbers
      /\ Tasks = 1..Len(tasks) /\ Len(tasks) \in Nat
      /\ \A u \in Tasks : u \in Nat /\ u # 0 /\ at[u] \in Nat /\ Len(Body(u)) \in Nat /\ Placed(u)
  BY Shapes
<1>2. /\ pc = "fill" /\ next < prog.items /\ Len(tasks) < prog.bound /\ next' = next + 1
      /\ UNCHANGED <<prog, pc, serial, value>>
  BY DEF Fill
<1>3. /\ \A u : UNCHANGED <<Body(u), IncsAt(u), Made(u), Element(u), Placed(u)>>
      /\ UNCHANGED Numbers
  BY <1>2 DEF Body, Share, Repeat, IncsAt, Made, Element, Placed, Numbers
<1>4. /\ next \in Nat /\ prog.items \in Nat /\ prog.bound \in Nat /\ prog.filter \in BOOLEAN
      /\ next' \in 0..prog.items /\ Len(tasks) = Made(next) /\ Len(tasks) <= prog.bound
      /\ value \in Nat /\ serial = 0 /\ prog \in Programs
      /\ \A t \in Tasks : tasks[t] = Element(t - 1) /\ at[t] = 1 /\ ex[t] = prog.on
  BY <1>1, <1>2 DEF GroupTypes, Filled, Numbers
<1>5. prog.body # "value" => value = 0
  BY <1>1, <1>4, NothingCounted DEF Recorded
<1>6. CASE prog.filter /\ next = 3
  <2>1. UNCHANGED <<tasks, ex, at, local, results>>
    BY <1>6 DEF Fill, unpredictable_filter
  <2>2. Made(next') = Made(next)
    BY <1>2, <1>6 DEF Made
  <2>3. UNCHANGED Tasks /\ \A u : UNCHANGED <<Done(u), IsAt(u, "load"), IsAt(u, "store")>>
    BY <1>3, <2>1 DEF Tasks, Done, IsAt
  <2>4. UNCHANGED AllIncs
    BY <1>3, <2>1 DEF AllIncs
  <2>5. GroupTypes'
    BY <1>1, <1>2, <1>4, <2>1 DEF GroupTypes
  <2>6. Filled'
    BY <1>1, <1>2, <1>3, <1>4, <2>1, <2>2, <2>3 DEF Filled
  <2>7. Exclusive'
    BY <1>1, <1>2, <1>3, <2>1, <2>3 DEF Exclusive
  <2>8. Recorded'
    BY <1>1, <1>2, <2>1, <2>3, <2>4 DEF Recorded
  <2>9. QED BY <2>5, <2>6, <2>7, <2>8 DEF GroupInv
<1>7. CASE ~(prog.filter /\ next = 3)
  <2> DEFINE n == Len(tasks)
  <2>1. /\ tasks' = Append(tasks, next) /\ ex' = Append(ex, prog.on) /\ at' = Append(at, 1)
        /\ local' = Append(local, 0) /\ results' = Append(results, 0)
    BY <1>7 DEF Fill, Take, unpredictable_filter
  <2>2. /\ n \in Nat /\ prog.on \in {"cpu", "serial"}
        /\ tasks \in Seq(Nat) /\ ex \in Seq({"cpu", "serial"}) /\ at \in Seq(Nat)
        /\ local \in Seq(Nat) /\ results \in Seq(Nat)
        /\ Len(ex) = n /\ Len(at) = n /\ Len(local) = n /\ Len(results) = n
    BY <1>1 DEF GroupTypes, Numbers
  <2>3. /\ tasks' \in Seq(Nat) /\ Len(tasks') = n + 1 /\ tasks'[n + 1] = next
        /\ \A u \in 1..n : tasks'[u] = tasks[u]
    BY <1>4, <2>1, <2>2, AppendProperties
  <2>4. /\ ex' \in Seq({"cpu", "serial"}) /\ Len(ex') = n + 1 /\ ex'[n + 1] = prog.on
        /\ \A u \in 1..n : ex'[u] = ex[u]
    BY <2>1, <2>2, AppendProperties
  <2>5. /\ at' \in Seq(Nat) /\ Len(at') = n + 1 /\ at'[n + 1] = 1
        /\ \A u \in 1..n : at'[u] = at[u]
    BY <2>1, <2>2, AppendProperties, 1 \in Nat
  <2>6. /\ local' \in Seq(Nat) /\ Len(local') = n + 1
        /\ results' \in Seq(Nat) /\ Len(results') = n + 1
    BY <2>1, <2>2, AppendProperties, 0 \in Nat
  <2>7. Tasks = 1..n /\ Tasks' = 1..n + 1
    BY <1>1, <2>2, <2>3 DEF Tasks
  <2>8. GroupTypes'
    BY <1>2, <1>4, <2>2, <2>3, <2>4, <2>5, <2>6, <1>1 DEF GroupTypes
  <2>9. Made(next') = n + 1 /\ next = Element(n)
    BY <1>2, <1>4, <1>7 DEF Made, Element
  <2>10. \A t \in Tasks' : at'[t] = 1 /\ ex'[t] = prog.on /\ tasks'[t] = Element(t - 1)
    <3>1. ASSUME NEW t \in 1..n PROVE at'[t] = 1 /\ ex'[t] = prog.on /\ tasks'[t] = Element(t - 1)
      BY <1>4, <2>3, <2>4, <2>5, <2>7
    <3>2. at'[n + 1] = 1 /\ ex'[n + 1] = prog.on /\ tasks'[n + 1] = Element((n + 1) - 1)
      BY <2>2, <2>3, <2>4, <2>5, <2>9
    <3>3. \A t \in Tasks' : t \in 1..n \/ t = n + 1
      BY <2>2, <2>7
    <3>4. QED BY <3>1, <3>2, <3>3
  <2>11. Filled'
    BY <1>2, <1>3, <1>4, <2>2, <2>3, <2>7, <2>9, <2>10 DEF Filled
  <2>13. \A t \in Tasks' : Placed(t)
    <3>1. ASSUME prog.body = "producer" PROVE n + 1 \in 1..prog.items
      <4>1. n + 1 = Made(next') /\ next' \in 0..prog.items
        BY <1>4, <2>9
      <4>2. next' \in Nat /\ next' <= prog.items
        BY <1>4
      <4>3. \A m \in Nat : Made(m) <= m
        BY DEF Made
      <4>4. QED BY <1>4, <2>2, <4>1, <4>2, <4>3
    <3>2. Placed(n + 1)
      BY <1>1, <2>2, <3>1, Places
    <3>3. QED BY <1>1, <2>2, <2>7, <3>2
  <2>14. Exclusive'
    <3>1. SUFFICES ASSUME NEW t \in Tasks'
                   PROVE  /\ at'[t] \in 1..Len(Body(t)) + 1
                          /\ IsAt(t, "load")' => ex'[t] = "serial"
                          /\ ~IsAt(t, "store")'
      BY <1>3 DEF Exclusive
    <3>2. at'[t] = 1 /\ ex'[t] = prog.on /\ Placed(t)
      BY <2>10, <2>13
    <3>3. Len(Body(t)) \in Nat
      BY <3>2 DEF Placed
    <3>4. ASSUME NEW x, IsAt(t, x)' PROVE 1 \in 1..Len(Body(t)) /\ Body(t)[1] = x
      BY <1>3, <3>2, <3>3, <3>4 DEF IsAt, Done
    <3>5. QED BY <3>2, <3>3, <3>4 DEF Placed
  <2>15. Recorded'
    <3>1. SumTo(AllIncs', Len(tasks')) = 0
      <4>1. AllIncs' = [i \in 0..(n + 1) - 1 |-> IncsAt(at'[i + 1])]
        BY <1>3, <2>3 DEF AllIncs
      <4>2. \A i \in 0..(n + 1) - 1 : i + 1 \in Tasks'
        BY <2>2, <2>7
      <4>3. \A i \in 0..(n + 1) - 1 : AllIncs'[i] = 0
        BY <2>10, <2>13, <4>1, <4>2 DEF Placed
      <4>4. SumTo(AllIncs', n + 1) = (n + 1) * 0
        <5>1. n + 1 \in Nat /\ 0 \in Int
          BY <2>2
        <5> HIDE DEF n
        <5>2. QED BY <4>3, <5>1, SumOfEqual
      <4>5. QED BY <2>2, <2>3, <4>4
    <3>2. ASSUME prog.body = "value", NEW t \in Tasks' PROVE ~Done(t)'
      <4>1. Len(Body(t)) = 1 /\ at'[t] = 1
        BY <2>10, <2>13, <3>2 DEF Placed
      <4>2. Done(t)' <=> at'[t] > Len(Body(t))
        BY <1>3 DEF Done
      <4>3. ~(at'[t] > Len(Body(t)))
        BY <4>1
      <4>4. QED BY <4>2, <4>3
    <3>3. QED BY <1>2, <1>5, <3>1, <3>2 DEF Recorded
  <2>16. QED BY <2>8, <2>11, <2>14, <2>15 DEF GroupInv
<1>8. QED BY <1>6, <1>7

\* The steps that move no task along its body, and change nothing it has done.
LEMMA StandStillKeeps ==
  ASSUME Programs \subseteq SampleGroups, GroupInv, UNCHANGED <<prog, next, tasks, ex, at, data>>,
         pc' \in {"fill", "wait", "joined"}, serial' \in 0..Len(tasks),
         pc' = "fill" => pc = "fill" /\ serial' = 0,
         pc' # "fill" => Len(tasks) = prog.count,
         pc' = "joined" => \A t \in Tasks : Done(t),
         \A t \in Tasks : IsAt(t, "store") => serial' = t
  PROVE  GroupInv'
<1>1. /\ GroupTypes /\ Filled /\ Exclusive /\ Recorded
      /\ UNCHANGED <<prog, next, tasks, ex, at, local, value, results>>
  BY DEF GroupInv, data
<1>2. /\ UNCHANGED <<Tasks, AllIncs>>
      /\ \A u : UNCHANGED <<Body(u), Made(u), Element(u)>>
  BY <1>1 DEF Tasks, AllIncs, IncsAt, Body, Share, Repeat, Made, Element
<1>3. \A u : UNCHANGED <<Done(u), IsAt(u, "load"), IsAt(u, "store")>>
  BY <1>1, <1>2 DEF Done, IsAt
<1>4. GroupTypes'
  BY <1>1 DEF GroupTypes
<1>5. Filled'
  BY <1>1, <1>2, <1>3 DEF Filled
<1>6. Exclusive'
  BY <1>1, <1>2, <1>3 DEF Exclusive
<1>7. Recorded'
  BY <1>1, <1>2, <1>3 DEF Recorded
<1>8. QED BY <1>4, <1>5, <1>6, <1>7 DEF GroupInv

\* The group is complete when it is spawned, and all of it is done when it is joined.
LEMMA CoroutineKeeps ==
  ASSUME Programs \subseteq SampleGroups, GroupInv, Spawn \/ Join
  PROVE  GroupInv'
<1>1. GroupTypes /\ Filled /\ Exclusive /\ Numbers
  BY Shapes
<1>2. UNCHANGED <<prog, next, tasks, ex, at, serial, data>> /\ serial \in 0..Len(tasks)
  BY <1>1 DEF Spawn, Join, place, GroupTypes
<1>3. \A t \in Tasks : IsAt(t, "store") => serial = t
  BY <1>1 DEF Exclusive
<1>4. CASE Spawn
  <2>1. Len(tasks) = prog.count
    BY <1>1, <1>4 DEF Spawn, Filled, GroupTypes, Numbers
  <2>2. pc' = "wait"
    BY <1>4 DEF Spawn
  <2>3. QED BY <1>2, <1>3, <2>1, <2>2, StandStillKeeps
<1>5. CASE Join
  <2>1. pc' = "joined" /\ Len(tasks) = prog.count /\ \A t \in Tasks : Done(t)
    BY <1>1, <1>5 DEF Join, Filled
  <2>2. QED BY <1>2, <1>3, <2>1, StandStillKeeps
<1>6. QED BY <1>4, <1>5

\* The serial executor takes up a task when it has none, and leaves one that is done.
LEMMA SerialKeeps ==
  ASSUME Programs \subseteq SampleGroups, GroupInv, NEW t \in Tasks, TakeUp(t) \/ End(t)
  PROVE  GroupInv'
<1>1. GroupTypes /\ Filled /\ Exclusive /\ Tasks = 1..Len(tasks) /\ Len(tasks) \in Nat
      /\ \A u \in Tasks : u # 0
  BY Shapes
<1>2. UNCHANGED <<prog, next, tasks, pc, ex, at, data>> /\ serial' \in 0..Len(tasks)
  BY <1>1 DEF TakeUp, End
<1>3. \A u \in Tasks : IsAt(u, "store") => serial = u
  BY <1>1 DEF Exclusive
<1>4. pc # "fill" \/ serial' = 0
  BY DEF TakeUp, End
<1>5. \A u \in Tasks : ~IsAt(u, "store")
  BY <1>1, <1>3 DEF TakeUp, End, IsAt
<1>6. pc \in {"fill", "wait", "joined"} /\ (pc # "fill" => Len(tasks) = prog.count)
      /\ (pc = "joined" => \A u \in Tasks : Done(u))
  BY <1>1 DEF GroupTypes, Filled
<1>7. QED BY <1>2, <1>4, <1>5, <1>6, StandStillKeeps

Goes(t, e) == Go(t, e, TRUE) \/ Go(t, e, FALSE)

\* A task that goes to another executor leaves the serial one.
LEMMA GoKeeps ==
  ASSUME Programs \subseteq SampleGroups, GroupInv, NEW t \in Tasks, NEW s, NEW e,
         s \in {"enter", "exit", "resume_on_cpu", "call", "back"},
         s \in {"enter", "call"} => e = "serial",
         e \in {"cpu", "serial"}, Step(t, s), Goes(t, e)
  PROVE  GroupInv'
<1>1. /\ GroupTypes /\ Tasks = 1..Len(tasks) /\ DOMAIN ex = Tasks
  BY Shapes
<1>2. Advance(t) /\ UNCHANGED <<prog, next, tasks, pc, local, value, results>>
  BY DEF Goes, Go, data
<1>3. ex \in Seq({"cpu", "serial"}) /\ t \in 1..Len(ex) /\ local \in Seq(Nat) /\ results \in Seq(Nat)
  BY <1>1 DEF GroupTypes
<1>4. \/ ex' = ex /\ serial' = serial /\ ex[t] = e
      \/ ex' = [ex EXCEPT ![t] = e] /\ (serial' = serial \/ (serial = t /\ serial' = 0))
  BY DEF Goes, Go
<1>5. [ex EXCEPT ![t] = e] \in Seq({"cpu", "serial"}) /\ Len([ex EXCEPT ![t] = e]) = Len(ex)
  BY <1>3, ExceptSeq
<1>6. /\ ex' \in Seq({"cpu", "serial"}) /\ Len(ex') = Len(ex) /\ ex'[t] = e
      /\ \A u \in Tasks : u # t => ex'[u] = ex[u]
      /\ serial' = serial \/ (serial = t /\ serial' = 0)
  BY <1>1, <1>3, <1>4, <1>5
<1>7. s \notin {"store", "inc", "load", "return"}
  OBVIOUS
<1>8. QED BY <1>2, <1>3, <1>6, <1>7, AdvanceKeeps

\* The steps of a task.
LEMMA TaskKeeps ==
  ASSUME Programs \subseteq SampleGroups, GroupInv, NEW t \in Tasks, Task(t)
  PROVE  GroupInv'
<1>1. /\ GroupTypes /\ Exclusive /\ Numbers /\ Tasks = 1..Len(tasks)
      /\ DOMAIN local = Tasks /\ DOMAIN results = Tasks
  BY Shapes
<1>2. /\ ex \in Seq({"cpu", "serial"}) /\ local \in Seq(Nat) /\ results \in Seq(Nat)
      /\ tasks \in Seq(Nat) /\ tasks[t] \in Nat
      /\ t \in 1..Len(local) /\ t \in 1..Len(results) /\ value \in Nat /\ prog.on \in {"cpu", "serial"}
  <2>1. /\ ex \in Seq({"cpu", "serial"}) /\ local \in Seq(Nat) /\ results \in Seq(Nat)
        /\ tasks \in Seq(Nat) /\ Len(local) = Len(tasks) /\ Len(results) = Len(tasks) /\ value \in Nat
    BY <1>1 DEF GroupTypes
  <2>2. prog.on \in {"cpu", "serial"}
    BY <1>1 DEF Numbers
  <2>3. t \in 1..Len(tasks)
    BY <1>1
  <2>4. QED BY <2>1, <2>2, <2>3
<1>3. CASE TakeUp(t) \/ End(t)
  BY <1>3, SerialKeeps
<1>4. CASE Enter(t)
  <2>1. Step(t, "enter") /\ Goes(t, "serial")
    BY <1>4, Zenon DEF Enter, Goes
  <2>2. QED BY <1>2, <2>1, GoKeeps
<1>5. CASE Exit(t)
  <2>1. Step(t, "exit") /\ Goes(t, prog.on)
    BY <1>5, Zenon DEF Exit, Goes
  <2>2. PICK e \in {"cpu", "serial"} : e = prog.on
    BY <1>2
  <2>3. Step(t, "exit") /\ Goes(t, e)
    BY <2>1, <2>2
  <2>4. QED BY <2>3, GoKeeps
<1>6. CASE ResumeOnCpu(t)
  <2>1. Step(t, "resume_on_cpu") /\ Goes(t, "cpu")
    BY <1>6, Zenon DEF ResumeOnCpu, Goes
  <2>2. QED BY <1>2, <2>1, GoKeeps
<1>7. CASE Call(t)
  <2>1. Step(t, "call") /\ Goes(t, "serial")
    BY <1>7, Zenon DEF Call, Goes
  <2>2. QED BY <1>2, <2>1, GoKeeps
<1>8. CASE Back(t)
  <2>1. Step(t, "back") /\ Goes(t, prog.on)
    BY <1>8, Zenon DEF Back, Goes
  <2>2. PICK e \in {"cpu", "serial"} : e = prog.on
    BY <1>2
  <2>3. Step(t, "back") /\ Goes(t, e)
    BY <2>1, <2>2
  <2>4. QED BY <2>3, GoKeeps
<1>9. CASE Load(t)
  <2>1. /\ Step(t, "load") /\ Advance(t) /\ local' = [local EXCEPT ![t] = value]
        /\ UNCHANGED <<prog, next, tasks, pc, ex, serial, value, results>>
    BY <1>9 DEF Load
  <2>2. /\ local' \in Seq(Nat) /\ Len(local') = Len(local) /\ local'[t] = value
        /\ \A u \in Tasks : u # t => local'[u] = local[u]
    BY <1>1, <1>2, <2>1, ExceptSeq
  <2>3. QED BY <1>2, <2>1, <2>2, AdvanceKeeps
<1>10. CASE Store(t)
  <2>1. /\ Step(t, "store") /\ Advance(t) /\ value' = local[t] + 1
        /\ UNCHANGED <<prog, next, tasks, pc, ex, serial, local, results>>
    BY <1>10 DEF Store
  <2>2. local[t] = value
    BY <1>1, <2>1 DEF Step, IsAt, Exclusive
  <2>3. QED BY <1>2, <2>1, <2>2, AdvanceKeeps
<1>11. CASE Increment(t)
  <2>1. /\ Step(t, "inc") /\ Advance(t) /\ value' = value + 1
        /\ UNCHANGED <<prog, next, tasks, pc, ex, serial, local, results>>
    BY <1>11 DEF Increment
  <2>2. QED BY <1>2, <2>1, AdvanceKeeps
<1>12. CASE Return(t)
  <2>1. /\ Step(t, "return") /\ Advance(t) /\ results' = [results EXCEPT ![t] = TwoTo(tasks[t])]
        /\ UNCHANGED <<prog, next, tasks, pc, ex, serial, local, value>>
    BY <1>12 DEF Return
  <2>2. TwoTo(tasks[t]) \in Nat
    BY <1>2, TwoToStep
  <2>3. /\ results' \in Seq(Nat) /\ Len(results') = Len(results) /\ results'[t] = TwoTo(tasks[t])
        /\ \A u \in Tasks : u # t => results'[u] = results[u]
    BY <1>1, <1>2, <2>1, <2>2, ExceptSeq
  <2>4. QED BY <1>2, <2>1, <2>3, AdvanceKeeps
<1>13. QED BY <1>3, <1>4, <1>5, <1>6, <1>7, <1>8, <1>9, <1>10, <1>11, <1>12 DEF Task

\* Every step keeps the invariant.
LEMMA GroupStepKeeps ==
  Programs \subseteq SampleGroups /\ GroupInv /\ [GroupNext]_groupVars => GroupInv'
<1> SUFFICES ASSUME Programs \subseteq SampleGroups, GroupInv, [GroupNext]_groupVars
             PROVE  GroupInv'
  OBVIOUS
<1>1. CASE UNCHANGED groupVars
  <2>1. /\ GroupTypes /\ Filled /\ Exclusive /\ UNCHANGED <<prog, next, tasks, pc, ex, at, serial, data>>
    BY <1>1 DEF GroupInv, groupVars, place
  <2>2. /\ pc \in {"fill", "wait", "joined"} /\ serial \in 0..Len(tasks)
        /\ (pc = "fill" => serial = 0) /\ (pc # "fill" => Len(tasks) = prog.count)
        /\ (pc = "joined" => \A t \in Tasks : Done(t))
        /\ \A t \in Tasks : IsAt(t, "store") => serial = t
    BY <2>1 DEF GroupTypes, Filled, Exclusive
  <2>3. QED BY <2>1, <2>2, StandStillKeeps
<1>2. QED BY <1>1, FillKeeps, CoroutineKeeps, TaskKeeps DEF GroupNext, Coroutine

\* The invariant says that the numbers are those asserted when all tasks are done.
LEMMA InvImpliesAsAsserted ==
  ASSUME Programs \subseteq SampleGroups, GroupInv PROVE AsAsserted
<1> SUFFICES ASSUME pc = "joined"
             PROVE  /\ Len(tasks) = prog.count
                    /\ IF prog.body = "value" THEN SumOf(results) = prog.sum ELSE value = prog.sum
  BY DEF AsAsserted
<1> DEFINE m == Len(tasks)
<1>1. /\ GroupTypes /\ Filled /\ Exclusive /\ Recorded /\ Numbers
      /\ Tasks = 1..m /\ m \in Nat
      /\ \A u \in Tasks : u \in Nat /\ u # 0 /\ at[u] \in Nat /\ Len(Body(u)) \in Nat /\ Placed(u)
  BY Shapes
<1>2. m = prog.count /\ \A t \in Tasks : Done(t)
  BY <1>1 DEF Filled
<1>3. \A t \in Tasks : at[t] = Len(Body(t)) + 1
  BY <1>1, <1>2 DEF Exclusive, Done
<1>4. \A i \in 0..m - 1 : i + 1 \in Tasks /\ (i + 1) - 1 = i
  BY <1>1
<1>5. CASE prog.body = "value"
  <2> DEFINE f == [i \in 0..Len(results) - 1 |-> results[i + 1]]
  <2>1. Len(results) = m
    BY <1>1 DEF GroupTypes
  <2>2. \A i \in 0..m - 1 : f[i] = TwoTo(Element(i))
    BY <1>1, <1>2, <1>4, <1>5, <2>1 DEF Recorded, Filled
  <2>3. SumOf(results) = SumTo(f, m)
    BY <2>1 DEF SumOf
  <2>4. CASE prog.filter
    <3>1. m >= 3 /\ prog.sum = TwoTo(m + 1) - 9
      BY <1>1, <1>2, <1>5, <2>4 DEF Numbers
    <3>2. \A i \in 0..m - 1 : f[i] = TwoTo(IF i < 3 THEN i ELSE i + 1)
      <4>1. \A i \in 0..m - 1 : Element(i) = IF i < 3 THEN i ELSE i + 1
        BY <2>4 DEF Element
      <4>2. QED BY <2>2, <4>1
    <3>3. SumTo(f, m) = TwoTo(m + 1) - 9
      <4> HIDE DEF m, f
      <4>1. QED BY <1>1, <3>1, <3>2, TwosWithoutAdd
    <3>4. QED BY <1>2, <1>5, <2>3, <3>1, <3>3
  <2>5. CASE ~prog.filter
    <3>1. prog.sum = TwoTo(m) - 1
      BY <1>1, <1>2, <1>5, <2>5 DEF Numbers
    <3>2. \A i \in 0..m - 1 : f[i] = TwoTo(i)
      BY <2>2, <2>5 DEF Element
    <3>3. SumTo(f, m) = TwoTo(m) - 1
      <4> HIDE DEF m, f
      <4>1. QED BY <1>1, <3>2, TwosAddUp
    <3>4. QED BY <1>2, <1>5, <2>3, <3>1, <3>3
  <2>6. QED BY <2>4, <2>5
<1>6. CASE prog.body # "value"
  <2>1. value = SumTo(AllIncs, m)
    BY <1>1, <1>6 DEF Recorded
  <2>2. \A i \in 0..m - 1 : AllIncs[i] = IF prog.body = "producer" THEN Share(i + 1) ELSE 1
    BY <1>1, <1>3, <1>4, <1>6 DEF AllIncs, Placed
  <2>3. CASE prog.body = "producer"
    <3>1. prog.items = m /\ m # 0 /\ prog.sum \in Nat
      BY <1>1, <1>2, <2>3 DEF Numbers
    <3>2. \A i \in 0..m - 1 : AllIncs[i] = Shares(prog.sum, m)[i]
      <4> SUFFICES ASSUME NEW i \in 0..m - 1 PROVE Share(i + 1) = Shares(prog.sum, m)[i]
        BY <2>2, <2>3
      <4>1. prog.sum % m \in Int /\ (i + 1 <= prog.sum % m <=> i < prog.sum % m)
        BY <1>1, <3>1
      <4>2. prog.sum \div m \in Int
        BY <1>1, <3>1
      <4>3. QED BY <3>1, <4>1, <4>2 DEF Share, Shares
    <3>3. (\A i \in 0..m - 1 : Shares(prog.sum, m)[i] \in Int) /\ SumTo(Shares(prog.sum, m), m) = prog.sum
      <4>1. m \in Nat \ {0}
        BY <1>1, <3>1
      <4>2. \A i \in 0..m - 1 : Shares(prog.sum, m)[i] \in Nat
        <5> HIDE DEF m
        <5>1. QED BY <3>1, <4>1, SharesAddUp
      <4>3. SumTo(Shares(prog.sum, m), m) = prog.sum
        <5> HIDE DEF m
        <5>1. QED BY <3>1, <4>1, SharesAddUp
      <4>4. QED BY <4>2, <4>3
    <3>4. SumTo(AllIncs, m) = SumTo(Shares(prog.sum, m), m)
      <4> HIDE DEF m
      <4>1. QED BY <1>1, <3>2, <3>3, SumSame
    <3>5. QED BY <1>2, <2>1, <2>3, <3>3, <3>4
  <2>4. CASE prog.body # "producer"
    <3>1. \A i \in 0..m - 1 : AllIncs[i] = 1
      BY <2>2, <2>4
    <3>2. SumTo(AllIncs, m) = m * 1
      <4> HIDE DEF m
      <4>1. QED BY <1>1, <3>1, SumOfEqual, 1 \in Int
    <3>3. prog.sum = m
      BY <1>1, <1>2, <1>6, <2>4 DEF Numbers
    <3>4. QED BY <1>1, <1>2, <1>6, <2>1, <3>2, <3>3
  <2>5. QED BY <2>3, <2>4
<1>7. QED BY <1>5, <1>6

\* Whatever the sizes of the groups are and however their tasks go from executor to
\* executor, no increment on a braid or under a lock is lost, and the numbers that the
\* samples assert are right when the group is joined.
THEOREM GroupAsAsserted == Programs \subseteq SampleGroups => (GroupSpec => []AsAsserted)
<1> SUFFICES ASSUME Programs \subseteq SampleGroups PROVE GroupSpec => []AsAsserted
  OBVIOUS
<1>1. GroupInit => GroupInv
  BY GroupInitially
<1>2. GroupInv /\ [GroupNext]_groupVars => GroupInv'
  BY GroupStepKeeps
<1>3. GroupInv => AsAsserted
  BY InvImpliesAsAsserted
<1>4. QED BY <1>1, <1>2, <1>3, PTL DEF GroupSpec
=============================================================================
