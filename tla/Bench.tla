------------------------------- MODULE Bench -------------------------------
(***************************************************************************)
(* The throughput benchmarks examples/chan_bench.cpp and queue_bench.cpp.  *)
(* The numbers 0..NELEMS-1 are divided among the producers, which post     *)
(* them one at a time; the consumers count and add up what they pull. In   *)
(* chan_bench the consumers run until the channel is closed and empty, and *)
(* the driver closes and drains it when the producers have returned; in    *)
(* queue_bench the one consumer stops at NELEMS elements.                  *)
(***************************************************************************)
EXTENDS Integers, Sequences, Sums

CONSTANTS
    MaxElems,   \* bound on NELEMS
    MaxTasks    \* bound on the number of producers and of consumers

ASSUME BenchAssumption == MaxElems \in Nat /\ MaxTasks \in Nat \ {0}

VARIABLES
    bench,      \* [kind, NELEMS, prodCount, consCount]: the benchmark that runs
    chan,       \* the channel, or the queue
    closed,     \* the channel is closed
    sent,       \* the loop variable i of each producer
    result,     \* <<count, sum>> of each consumer
    ended,      \* the consumers that have returned
    main        \* "produce", "drain", "join" or "done"

vars == <<bench, chan, closed, sent, result, ended, main>>

NELEMS == bench.NELEMS
Producers == 0..bench.prodCount - 1
Consumers == 0..bench.consCount - 1

-----------------------------------------------------------------------------
(* The division of the elements *)

per_task == NELEMS \div bench.prodCount
rem == NELEMS % bench.prodCount

\* Mutant: everyone gets per_task, and the remainder nobody.
CountWithoutRemainder(i) == per_task

\* How many elements producer i posts.
Count(i) == IF i < rem THEN per_task + 1 ELSE per_task

\* The first of them.
Base(i) == SumTo([j \in Producers |-> Count(j)], i)

-----------------------------------------------------------------------------
Init ==
    /\ bench \in
        [kind : {"chan"}, NELEMS : 0..MaxElems, prodCount : 1..MaxTasks, consCount : 1..MaxTasks]
        \cup
        [kind : {"queue"}, NELEMS : 0..MaxElems, prodCount : 1..MaxTasks, consCount : {1}]
    /\ chan = <<>>
    /\ closed = FALSE
    /\ sent = [p \in Producers |-> 0]
    /\ result = [c \in Consumers |-> <<0, 0>>]
    /\ ended = {}
    /\ main = "produce"

\* chan.push(base + i), queue.post(base + i)
Produce(p) ==
    /\ sent[p] < Count(p)
    /\ ~closed
    /\ chan' = Append(chan, Base(p) + sent[p])
    /\ sent' = [sent EXCEPT ![p] = @ + 1]
    /\ UNCHANGED <<bench, closed, result, ended, main>>

ProducersDone == \A p \in Producers : sent[p] = Count(p)

\* A consumer of queue_bench pulls only what it still expects.
Expects(c) == bench.kind = "queue" => result[c][1] < NELEMS

\* data = co_await pull(), ++count, sum += *data
Consume(c) ==
    /\ c \notin ended /\ Expects(c)
    /\ chan # <<>>
    /\ chan' = Tail(chan)
    /\ result' = [result EXCEPT ![c] = <<@[1] + 1, @[2] + Head(chan)>>]
    /\ UNCHANGED <<bench, closed, sent, ended, main>>

\* Mutant: the consumer takes an empty channel for a closed one.
ConsumerEndsOnEmpty(c) ==
    /\ c \notin ended
    /\ IF bench.kind = "chan" THEN chan = <<>> ELSE ~Expects(c)
    /\ ended' = ended \cup {c}
    /\ UNCHANGED <<bench, chan, closed, sent, result, main>>

\* The loop of the consumer ends.
ConsumerEnds(c) ==
    /\ c \notin ended
    /\ IF bench.kind = "chan" THEN closed /\ chan = <<>> ELSE ~Expects(c)
    /\ ended' = ended \cup {c}
    /\ UNCHANGED <<bench, chan, closed, sent, result, main>>

\* Mutant: the driver closes as soon as it has started the producers.
CloseWithoutJoin ==
    /\ main = "produce"
    /\ closed' = (bench.kind = "chan")
    /\ main' = IF bench.kind = "chan" THEN "drain" ELSE "join"
    /\ UNCHANGED <<bench, chan, sent, result, ended>>

\* co_await tmc::spawn_many(prod), and chan.close() in chan_bench.
ProducersJoined ==
    /\ main = "produce" /\ ProducersDone
    /\ closed' = (bench.kind = "chan")
    /\ main' = IF bench.kind = "chan" THEN "drain" ELSE "join"
    /\ UNCHANGED <<bench, chan, sent, result, ended>>

\* co_await chan.drain()
Drained ==
    /\ main = "drain" /\ chan = <<>>
    /\ main' = "join"
    /\ UNCHANGED <<bench, chan, closed, sent, result, ended>>

\* auto consResults = co_await std::move(c)
ConsumersJoined ==
    /\ main = "join" /\ ended = Consumers
    /\ main' = "done"
    /\ UNCHANGED <<bench, chan, closed, sent, result, ended>>

Next ==
    \/ \E p \in Producers : Produce(p)
    \/ \E c \in Consumers : Consume(c) \/ ConsumerEnds(c)
    \/ ProducersJoined \/ Drained \/ ConsumersJoined

\* Some task that can run runs: no task of these benchmarks spins.
Fairness == WF_vars(Next)

Spec == Init /\ [][Next]_vars
FairSpec == Spec /\ Fairness

-----------------------------------------------------------------------------
count == SumTo([c \in Consumers |-> result[c][1]], bench.consCount)
sum == SumTo([c \in Consumers |-> result[c][2]], bench.consCount)
expectedSum == SumTo([i \in 0..NELEMS - 1 |-> i], NELEMS)

(* Neither "FAIL: Expected ... elements" nor "FAIL: Expected ... sum" is     *)
(* printed, however the division comes out and whoever pulls what.           *)
NoFail == main = "done" => count = NELEMS /\ sum = expectedSum

(* assert(ok): no push meets a closed channel.                               *)
PushSucceeds == closed => ProducersDone

(* Every benchmark ends: the consumers learn that nothing more will come.    *)
BenchEnds == <>(main = "done")
=============================================================================
