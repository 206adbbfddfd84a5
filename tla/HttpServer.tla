----------------------------- MODULE HttpServer -----------------------------
(***************************************************************************)
(* rpc::http::detail::cThreadedHttpServer and the cRPCServer derived from  *)
(* it (src/pkg_rpc/threaded_http_server.cpp, http_rpc_server.cpp): an      *)
(* accept thread that starts a detached thread per connection, a counter   *)
(* of those threads, and an owner that starts, stops and destroys the      *)
(* server.  The accept loop and process_request are httplib's; what a      *)
(* request does in the object registry is in RpcRegistry.                  *)
(***************************************************************************)
EXTENDS Naturals, Sequences, FiniteSets

CONSTANTS Connections,    \* incoming connections, each accepted at most once at a time
          StopsFirst      \* the owner calls StopListening before it destroys the server

ASSUME ConnectionsAssumption ==
    IsFiniteSet(Connections) /\ "none" \notin Connections /\ StopsFirst \in BOOLEAN

VARIABLES listening,     \* the server socket is open
          keepAccepting, \* httplib's keep_accepting
          acceptThread,  \* m_pAcceptThread: "none", "accepting", "pushed" (a
                         \* connection is queued but not yet counted),
                         \* "counted" (its thread not yet started), "exited"
          queue,         \* m_queueRequest
          counter,       \* _counter
          request,       \* where the thread of each connection is
          current,       \* the connection each request thread popped
          owner,         \* where the owner is
          server         \* "alive", "derived_gone" (~cRPCServer has run),
                         \* "destroyed"

httpVars == <<listening, keepAccepting, acceptThread, queue, counter, request, current,
              owner, server>>
acceptVars == <<listening, keepAccepting, acceptThread>>
workVars == <<queue, counter, request, current>>

RequestPcs == {"none", "pop", "read", "handle", "count", "notify"}

HttpTypeOK ==
    /\ listening \in BOOLEAN /\ keepAccepting \in BOOLEAN
    /\ acceptThread \in {"none", "accepting", "pushed", "counted", "exited"}
    /\ queue \in Seq(Connections) /\ Len(queue) <= Cardinality(Connections)
    /\ counter \in 0 .. Cardinality(Connections)
    /\ request \in [Connections -> RequestPcs]
    /\ current \in [Connections -> Connections \cup {"none"}]
    /\ owner \in {"ready", "joining", "waiting", "gone"}
    /\ server \in {"alive", "derived_gone", "destroyed"}

HttpInit ==
    /\ listening = FALSE /\ keepAccepting = TRUE
    /\ acceptThread = "none"
    /\ queue = <<>> /\ counter = 0
    /\ request = [c \in Connections |-> "none"]
    /\ current = [c \in Connections |-> "none"]
    /\ owner = "ready"
    /\ server = "alive"

-----------------------------------------------------------------------------
(* The owner *)

\* A listen() that fails, as for an invalid URL or a port in use, changes
\* nothing; starting a server that listens already is misuse.
StartListening ==
    /\ owner = "ready" /\ server = "alive" /\ acceptThread = "none"
    /\ listening' = TRUE /\ keepAccepting' = TRUE
    /\ acceptThread' = "accepting"
    /\ UNCHANGED <<workVars, owner, server>>

\* StopListening() up to the join: httplib's stop().
StopListening ==
    /\ owner = "ready" /\ server # "destroyed"
    /\ acceptThread # "none"
    /\ keepAccepting' = FALSE /\ listening' = FALSE
    /\ owner' = "joining"
    /\ UNCHANGED <<acceptThread, workVars, server>>

JoinAccept ==
    /\ owner = "joining"
    /\ acceptThread = "exited"
    /\ owner' = "waiting"
    /\ UNCHANGED <<acceptVars, workVars, server>>

\* Bug: StopListening() does not wait for the detached threads.
WaitForDetachedThreads_NoWait ==
    /\ owner = "waiting"
    /\ acceptThread' = "none"
    /\ owner' = "ready"
    /\ UNCHANGED <<listening, keepAccepting, workVars, server>>

WaitForDetachedThreads ==
    /\ owner = "waiting"
    /\ counter = 0
    /\ acceptThread' = "none"
    /\ owner' = "ready"
    /\ UNCHANGED <<listening, keepAccepting, workVars, server>>

\* ~cRPCServer: its members go, and virtual calls end at the base class, before
\* the base class destructor stops the server.
DestroyDerived ==
    /\ owner = "ready" /\ server = "alive"
    /\ StopsFirst => acceptThread = "none"
    /\ server' = "derived_gone"
    /\ UNCHANGED <<acceptVars, workVars, owner>>

DestroyBase ==
    /\ owner = "ready" /\ server = "derived_gone" /\ acceptThread = "none"
    /\ server' = "destroyed"
    /\ owner' = "gone"
    /\ UNCHANGED <<acceptVars, workVars>>

-----------------------------------------------------------------------------
(* The accept thread *)

\* A connection arrives and AcceptFunc queues it.  The thread that will be
\* started for it is named after it, whichever connection it then pops.
Accept(c) ==
    /\ acceptThread = "accepting" /\ listening
    /\ request[c] = "none" /\ c \notin {queue[i] : i \in DOMAIN queue}
    /\ c \notin {current[d] : d \in Connections}
    /\ queue' = Append(queue, c)
    /\ acceptThread' = "pushed"
    /\ UNCHANGED <<listening, keepAccepting, counter, request, current, owner, server>>

\* Bug: the thread is not counted.
Count_Forgotten ==
    /\ acceptThread = "pushed"
    /\ acceptThread' = "counted"
    /\ UNCHANGED <<listening, keepAccepting, workVars, owner, server>>

Count ==
    /\ acceptThread = "pushed"
    /\ counter' = counter + 1
    /\ acceptThread' = "counted"
    /\ UNCHANGED <<listening, keepAccepting, queue, request, current, owner, server>>

Spawn(c) ==
    /\ acceptThread = "counted"
    /\ request[c] = "none"
    /\ request' = [request EXCEPT ![c] = "pop"]
    /\ acceptThread' = "accepting"
    /\ UNCHANGED <<listening, keepAccepting, queue, counter, current, owner, server>>

\* Bug: the accept loop ends only when accept() fails.
AcceptLoopEnds_OnErrorOnly ==
    /\ acceptThread = "accepting" /\ ~listening /\ keepAccepting
    /\ acceptThread' = "exited"
    /\ UNCHANGED <<listening, keepAccepting, workVars, owner, server>>

AcceptLoopEnds ==
    /\ acceptThread = "accepting" /\ ~keepAccepting
    /\ acceptThread' = "exited"
    /\ UNCHANGED <<listening, keepAccepting, workVars, owner, server>>

\* accept() on the open socket fails, as it does when descriptors run out: the
\* loop closes the socket and ends without having been asked to.
AcceptFails ==
    /\ acceptThread = "accepting" /\ listening
    /\ listening' = FALSE
    /\ acceptThread' = "exited"
    /\ UNCHANGED <<keepAccepting, workVars, owner, server>>

-----------------------------------------------------------------------------
(* A request thread *)

At(c, loc) == request[c] = loc

Move(c, loc) == request' = [request EXCEPT ![c] = loc]

\* Bug: the thread takes the connection that was queued last.
Pop_Newest(c) ==
    /\ At(c, "pop") /\ queue # <<>>
    /\ current' = [current EXCEPT ![c] = queue[Len(queue)]]
    /\ queue' = SubSeq(queue, 1, Len(queue) - 1)
    /\ Move(c, "read")
    /\ UNCHANGED <<acceptVars, counter, owner, server>>

Pop(c) ==
    /\ At(c, "pop") /\ queue # <<>>
    /\ current' = [current EXCEPT ![c] = Head(queue)]
    /\ queue' = Tail(queue)
    /\ Move(c, "read")
    /\ UNCHANGED <<acceptVars, counter, owner, server>>

\* process_request serves the requests of a connection one by one, until the
\* peer closes it or stays silent.
ReadRequest(c) ==
    /\ At(c, "read")
    /\ Move(c, "handle")
    /\ UNCHANGED <<acceptVars, queue, counter, current, owner, server>>

HandleRequest(c) ==
    /\ At(c, "handle")
    /\ Move(c, "read")
    /\ UNCHANGED <<acceptVars, queue, counter, current, owner, server>>

CloseConnection(c) ==
    /\ At(c, "read")
    /\ Move(c, "count")
    /\ current' = [current EXCEPT ![c] = "none"]
    /\ UNCHANGED <<acceptVars, queue, counter, owner, server>>

CountDown(c) ==
    /\ At(c, "count")
    /\ counter' = counter - 1
    /\ Move(c, "notify")
    /\ UNCHANGED <<acceptVars, queue, current, owner, server>>

\* _cv.notify_all() after the mutex has been released.
NotifyAll(c) ==
    /\ At(c, "notify")
    /\ Move(c, "none")
    /\ UNCHANGED <<acceptVars, queue, counter, current, owner, server>>

-----------------------------------------------------------------------------

OwnerWaits == JoinAccept \/ WaitForDetachedThreads

OwnerStep == StartListening \/ StopListening \/ OwnerWaits \/ DestroyDerived \/ DestroyBase

AcceptStep == Count \/ AcceptLoopEnds \/ \E c \in Connections : Spawn(c)

RequestStep(c) == Pop(c) \/ HandleRequest(c) \/ CountDown(c) \/ NotifyAll(c)

HttpNext ==
    \/ OwnerStep \/ AcceptStep \/ AcceptFails
    \/ \E c \in Connections :
         Accept(c) \/ RequestStep(c) \/ ReadRequest(c) \/ CloseConnection(c)

\* Threads run on; a peer may send many requests but closes its connection, or
\* falls silent, in the end.
HttpSpec ==
    /\ HttpInit /\ [][HttpNext]_httpVars
    /\ WF_httpVars(OwnerWaits) /\ WF_httpVars(AcceptStep)
    /\ \A c \in Connections : WF_httpVars(RequestStep(c)) /\ SF_httpVars(CloseConnection(c))

-----------------------------------------------------------------------------
(* Properties *)

Uncounted == {c \in Connections : request[c] \in {"pop", "read", "handle", "count"}}

\* _counter is the number of threads that have yet to count themselves down,
\* the one about to be started included: waiting for zero waits for them all.
CounterMatchesThreads ==
    counter = Cardinality(Uncounted) + (IF acceptThread = "counted" THEN 1 ELSE 0)

\* Every thread that is about to pop finds a connection in the queue.
QueueFeedsThreads ==
    Cardinality({c \in Connections : request[c] = "pop"}) <= Len(queue)

\* Both hold: what the server counts is what its threads do.
CountsMatchThreads == CounterMatchesThreads /\ QueueFeedsThreads

\* Once StopListening has returned no connection is being served, queued or
\* handed over.
StopListeningDrains ==
    acceptThread = "none" => Uncounted = {} /\ queue = <<>>

\* Every connection that was accepted is taken up by some request thread, not
\* necessarily the one started for it, however many connections come after it
\* and whether or not the server is being stopped: none is overtaken for ever.
ConnectionsServed ==
    \A c \in Connections :
        c \in {queue[i] : i \in DOMAIN queue} ~> \E d \in Connections : current[d] = c

\* StopListening returns.
StopListeningReturns == owner \in {"joining", "waiting"} ~> owner = "ready"

=============================================================================
