------------------------------- MODULE Server -------------------------------
(***************************************************************************)
(* The HTTP servers of the samples: asio/http_server.cpp and               *)
(* asio/http_skynet.cpp (a fork group of acceptors, each with its port),   *)
(* hwloc/asio_server_per_cache.cpp and hwloc/asio_thread_per_core.cpp (a   *)
(* worker for each executor, all of them listening on one port).           *)
(*                                                                         *)
(* Each runs the same two coroutines. accept() listens and forks a handler *)
(* for every connection until an accept fails, and then waits for its      *)
(* handlers. handler() reads a request and writes the response until one   *)
(* of the two fails, and then closes the socket. main waits for accept().  *)
(*                                                                         *)
(* An acceptor is a local variable of accept(), so it listens as long as   *)
(* accept() runs: also while it only waits for its handlers. Sockets, the  *)
(* backlog and the clients are the operating system's. What a response is  *)
(* made of (the sum of http_skynet.cpp) is left out.                       *)
(***************************************************************************)
EXTENDS Naturals

CONSTANTS
    Acceptors,  \* the calls of accept(): ports, or executors that share a port
    Clients     \* the connections that are made, each by a client of its own

VARIABLES
    accept,     \* each accept(): "posted", "accepting", "joining" or "returned"
    main,       \* "waiting" or "returned", which destroys the executors
    conn,       \* each connection: "none", "backlog", "open", "closed" or "refused"
    acceptor,   \* the acceptor the operating system gave it to
    handler,    \* its handler: "none", "read", "write" or "done"
    gone        \* the clients that have hung up

serverVars == <<accept, main, conn, acceptor, handler, gone>>

ServerInit ==
    /\ accept = [a \in Acceptors |-> "posted"]
    /\ main = "waiting"
    /\ conn = [c \in Clients |-> "none"]
    /\ acceptor \in [Clients -> Acceptors]
    /\ handler = [c \in Clients |-> "none"]
    /\ gone = {}

Listening(a) == accept[a] \in {"accepting", "joining"}

-----------------------------------------------------------------------------
(* Clients *)

\* A connection is queued while somebody listens, accepted or not.
Connect(c) ==
    /\ conn[c] = "none"
    /\ conn' = [conn EXCEPT ![c] = IF Listening(acceptor[c]) THEN "backlog" ELSE "refused"]
    /\ UNCHANGED <<accept, main, acceptor, handler, gone>>

HangUp(c) ==
    /\ conn[c] = "open" /\ c \notin gone
    /\ gone' = gone \cup {c}
    /\ UNCHANGED <<accept, main, conn, acceptor, handler>>

-----------------------------------------------------------------------------
(* handler() *)

\* async_read_some() has a request.
Read(c) ==
    /\ handler[c] = "read" /\ c \notin gone
    /\ handler' = [handler EXCEPT ![c] = "write"]
    /\ UNCHANGED <<accept, main, conn, acceptor, gone>>

\* The response is written, and the socket still open.
Write(c) ==
    /\ handler[c] = "write"
    /\ handler' = [handler EXCEPT ![c] = "read"]
    /\ UNCHANGED <<accept, main, conn, acceptor, gone>>

\* Mutant: the error of a read is ignored.
FailToWrite(c) ==
    /\ handler[c] = "write"
    /\ handler' = [handler EXCEPT ![c] = "done"]
    /\ conn' = [conn EXCEPT ![c] = "closed"]
    /\ UNCHANGED <<accept, main, acceptor, gone>>

\* Either fails: the socket is closed. A read from a client that is gone always does.
Fail(c) ==
    /\ handler[c] \in {"read", "write"}
    /\ handler' = [handler EXCEPT ![c] = "done"]
    /\ conn' = [conn EXCEPT ![c] = "closed"]
    /\ UNCHANGED <<accept, main, acceptor, gone>>

-----------------------------------------------------------------------------
(* accept() *)

\* The acceptor is bound to the port and listens. One that cannot be throws, which
\* nobody catches: what the library does then is outside of the model.
Listen(a) ==
    /\ accept[a] = "posted"
    /\ accept' = [accept EXCEPT ![a] = "accepting"]
    /\ UNCHANGED <<main, conn, acceptor, handler, gone>>

\* async_accept() has a connection: a handler is forked for it.
Accept(a) == \E c \in Clients :
    /\ accept[a] = "accepting"
    /\ conn[c] = "backlog" /\ acceptor[c] = a
    /\ conn' = [conn EXCEPT ![c] = "open"]
    /\ handler' = [handler EXCEPT ![c] = "read"]
    /\ UNCHANGED <<accept, main, acceptor, gone>>

\* async_accept() fails: the loop ends.
AcceptFails(a) ==
    /\ accept[a] = "accepting"
    /\ accept' = [accept EXCEPT ![a] = "joining"]
    /\ UNCHANGED <<main, conn, acceptor, handler, gone>>

HandlersDone(a) == \A c \in Clients : acceptor[c] = a => handler[c] \in {"none", "done"}

\* Mutant: the acceptor is not destroyed.
ReturnListening(a) ==
    /\ accept[a] = "joining"
    /\ HandlersDone(a)
    /\ accept' = [accept EXCEPT ![a] = "returned"]
    /\ UNCHANGED <<main, conn, acceptor, handler, gone>>

\* Its handlers are done: accept() returns, and destroys the acceptor and its backlog.
JoinHandlers(a) ==
    /\ accept[a] = "joining"
    /\ HandlersDone(a)
    /\ accept' = [accept EXCEPT ![a] = "returned"]
    /\ conn' = [c \in Clients |->
                    IF conn[c] = "backlog" /\ acceptor[c] = a THEN "refused" ELSE conn[c]]
    /\ UNCHANGED <<main, acceptor, handler, gone>>

-----------------------------------------------------------------------------
(* main *)

\* Mutant: main waits for the first acceptor that returns.
JoinOneAcceptor ==
    /\ main = "waiting"
    /\ \E a \in Acceptors : accept[a] = "returned"
    /\ main' = "returned"
    /\ UNCHANGED <<accept, conn, acceptor, handler, gone>>

\* Every accept() has returned.
JoinAcceptors ==
    /\ main = "waiting"
    /\ \A a \in Acceptors : accept[a] = "returned"
    /\ main' = "returned"
    /\ UNCHANGED <<accept, conn, acceptor, handler, gone>>

-----------------------------------------------------------------------------
ClientStep(c) == Connect(c) \/ HangUp(c)
HandlerStep(c) == Read(c) \/ Write(c) \/ Fail(c)
AcceptorStep(a) == Listen(a) \/ Accept(a) \/ AcceptFails(a) \/ JoinHandlers(a)

ServerNext ==
    \/ \E c \in Clients : ClientStep(c) \/ HandlerStep(c)
    \/ \E a \in Acceptors : AcceptorStep(a)
    \/ JoinAcceptors

\* The executors run every coroutine that can go on. A client that is connected hangs
\* up some day, after any number of requests; nothing is assumed of accept errors.
ServerFairness ==
    /\ \A c \in Clients : WF_serverVars(HangUp(c)) /\ WF_serverVars(HandlerStep(c))
    /\ \A a \in Acceptors : WF_serverVars(Listen(a)) /\ WF_serverVars(Accept(a)) /\ WF_serverVars(JoinHandlers(a))
    /\ WF_serverVars(JoinAcceptors)

ServerSpec == ServerInit /\ [][ServerNext]_serverVars
FairServerSpec == ServerSpec /\ ServerFairness

-----------------------------------------------------------------------------
(* "Wait for all running handlers to complete": when main returns, and the   *)
(* executors are destroyed, no handler is left in them, every socket that    *)
(* was accepted has been closed and nobody is left in a backlog.             *)
NothingLeft == main = "returned" => \A c \in Clients :
    handler[c] \in {"none", "done"} /\ conn[c] \in {"none", "closed", "refused"}

(* A client that has connected gets an answer, if only that its connection   *)
(* is reset: also one that connects to an acceptor whose loop has ended, and *)
(* whatever fails in the meantime for others.                                *)
Answered == \A c \in Clients : conn[c] = "backlog" ~> conn[c] \in {"open", "closed", "refused"}

(* A server all of whose acceptors have failed comes to an end.              *)
ShutsDown == (\A a \in Acceptors : accept[a] \in {"joining", "returned"}) ~> main = "returned"
=============================================================================
