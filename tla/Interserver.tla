------------------------------ MODULE Interserver ------------------------------
(***************************************************************************)
(* One connection between two servers: the object at the connector's end   *)
(* ("client") and the one at the acceptor's end ("server").                *)
(*                                                                         *)
(* Four kinds of threads meet at an object: the dispatcher, which sends    *)
(* requests and performs Request_message_jobs; the workhorse, whose queue  *)
(* for the object encodes what goes out and decodes what has come in, one  *)
(* at a time in order; the epoll thread, which receives, answers control   *)
(* frames and calls layer4_on_close; and whoever shuts the object down.    *)
(* m_mutex protects the UUID, the options and the promises, not the flags. *)
(*                                                                         *)
(* The connector's end is the connector of this repository, which says     *)
(* hello before anything else, or any other program made with the class,   *)
(* which asks for that but does not enforce it.                            *)
(***************************************************************************)
EXTENDS Naturals, Sequences

CONSTANTS
    ClientRequests, \* bounds on the requests the ends send
    ServerRequests,
    MaxPings        \* bound on the PING frames of the connector's timer

ASSUME BoundsAssumption == {ClientRequests, ServerRequests, MaxPings} \subseteq Nat

VARIABLES
    keysMatch,      \* both servers are configured with the same application key
    announces,      \* the connector's end says hello before it sends anything else
    mutex,          \* mutex[e]: who holds m_mutex of e between two steps
    uuid,           \* uuid[e]: m_connection_uuid is set
    authenticated,  \* authenticated[e]: m_authenticated
    registered,     \* the session is in the acceptor's map
    down,           \* down[e]: has_been_shutdown()
    closed,         \* closed[e]: layer4_on_close has been called
    camp,           \* camp[e]: the workhorse's queue for e
    busy,           \* busy[e]: the workhorse is in the middle of a hello
    wire,           \* wire[e]: frames travelling to e
    status,         \* status[e]: the status frame that travels to e behind them, the last one
    encoder,        \* encoder[e], decoder[e]: what the ciphers were seeded with
    decoder,
    promises,       \* promises[e]: serials in m_weak_promises
    outcome,        \* outcome[e][s]: what became of request s of e
    jobs,           \* jobs[e]: Request_message_jobs of e, as serials
    doomed,         \* doomed[e]: a job of e has failed and is about to shut it down
    pings,          \* PING frames sent
    performed,      \* history: performed[e], requests that e has performed
    faults          \* history: assertions that failed and messages that were garbled

vars == <<keysMatch, announces, mutex, uuid, authenticated, registered, down, closed, camp, busy,
          wire, status, encoder, decoder, promises, outcome, jobs, doomed, pings, performed, faults>>

handshakeVars == <<keysMatch, announces, uuid, authenticated, registered, busy, encoder, decoder>>
requestVars   == <<promises, outcome, jobs, doomed, performed>>

-------------------------------------------------------------------------------
Ends == {"client", "server"}

Peer(e) == IF e = "client" THEN "server" ELSE "client"

Requests(e) == IF e = "client" THEN ClientRequests ELSE ServerRequests

Serials == (1..ClientRequests) \cup (1..ServerRequests)

\* Salts of the checksums that seed the ciphers.
Seeds == {"authentication", "normal_data"}

\* No status frame, that of an error, and status_shutdown.
Statuses == {"none", "error", "shutdown"}

Hello == [kind: {"client_hello", "server_hello"}]
Control == [kind: {"ping", "pong"}]
User == [kind: {"request", "response"}, serial: Serials]
Encoded == [kind: {"request", "response"}, serial: Serials, seed: Seeds]

ClientHello == [kind |-> "client_hello"]
ServerHello == [kind |-> "server_hello"]
Request(s)  == [kind |-> "request", serial |-> s]
Response(s) == [kind |-> "response", serial |-> s]

Out(m) == [dir |-> "out", msg |-> m]
In(m)  == [dir |-> "in", msg |-> m]

TypeOK ==
    /\ keysMatch \in BOOLEAN
    /\ announces \in BOOLEAN
    /\ mutex \in [Ends -> {"free", "hello", "request"}]
    /\ uuid \in [Ends -> BOOLEAN]
    /\ authenticated \in [Ends -> BOOLEAN]
    /\ registered \in BOOLEAN
    /\ down \in [Ends -> BOOLEAN]
    /\ closed \in [Ends -> BOOLEAN]
    /\ camp \in [Ends -> Seq([dir: {"out"}, msg: Hello \cup User]
                             \cup [dir: {"in"}, msg: Hello \cup Encoded])]
    /\ busy \in [Ends -> BOOLEAN]
    /\ wire \in [Ends -> Seq(Hello \cup Control \cup Encoded)]
    /\ status \in [Ends -> Statuses]
    /\ encoder \in [Ends -> Seeds]
    /\ decoder \in [Ends -> Seeds]
    /\ promises \in [Ends -> SUBSET Serials]
    /\ outcome \in [Ends -> [Serials -> {"unsent", "waiting", "answered", "lost"}]]
    /\ jobs \in [Ends -> SUBSET Serials]
    /\ doomed \in [Ends -> BOOLEAN]
    /\ pings \in 0..MaxPings
    /\ performed \in [Ends -> SUBSET Serials]
    /\ faults \subseteq {"uuid", "hello", "control", "status", "garbled"}

Init ==
    /\ keysMatch \in BOOLEAN
    /\ announces \in BOOLEAN
    /\ mutex = [e \in Ends |-> "free"]
    /\ uuid = [e \in Ends |-> FALSE]
    /\ authenticated = [e \in Ends |-> FALSE]
    /\ registered = FALSE
    /\ down = [e \in Ends |-> FALSE]
    /\ closed = [e \in Ends |-> FALSE]
    /\ camp = [e \in Ends |-> <<>>]
    /\ busy = [e \in Ends |-> FALSE]
    /\ wire = [e \in Ends |-> <<>>]
    /\ status = [e \in Ends |-> "none"]
    /\ encoder = [e \in Ends |-> "authentication"]
    /\ decoder = [e \in Ends |-> "authentication"]
    /\ promises = [e \in Ends |-> {}]
    /\ outcome = [e \in Ends |-> [s \in Serials |-> "unsent"]]
    /\ jobs = [e \in Ends |-> {}]
    /\ doomed = [e \in Ends |-> FALSE]
    /\ pings = 0
    /\ performed = [e \in Ends |-> {}]
    /\ faults = {}

-------------------------------------------------------------------------------
\* Helpers

MutexFree(e) == mutex[e] = "free"

launch_deflate_and_send(e, m) == camp' = [camp EXCEPT ![e] = Append(@, Out(m))]

\* What is sent to an end that has been closed is lost.
SendFrame(e, f) == wire' = [wire EXCEPT ![Peer(e)] = IF closed[Peer(e)] THEN @ ELSE Append(@, f)]

\* Shutting e down sends its peer a status frame, if code is one; only the
\* first time, and nothing is sent after it.
StatusAfter(e, code) ==
    IF down[e] \/ closed[Peer(e)] THEN status ELSE [status EXCEPT ![Peer(e)] = code]

shutdown(e, code) ==
    /\ down' = [down EXCEPT ![e] = TRUE]
    /\ status' = StatusAfter(e, code)

\* The workhorse catches the exception and reports it to the peer.
Fail(e, what) ==
    /\ faults' = faults \cup {what}
    /\ shutdown(e, "error")

CampDone(e) == camp' = [camp EXCEPT ![e] = Tail(@)]

\* The workhorse takes the next job of e, and it is m in direction dir.
Takes(e, dir, kind) ==
    /\ ~busy[e]
    /\ camp[e] # <<>>
    /\ Head(camp[e]).dir = dir
    /\ Head(camp[e]).msg.kind = kind

HeadMsg(e) == Head(camp[e]).msg

-------------------------------------------------------------------------------
\* The dispatcher: hello, requests and jobs

\* layer7_client_say_hello launches the hello before it sets the UUID, with
\* m_mutex held throughout. It is called once, by who announces before anything
\* else, by others at any time or never.
SayHello ==
    /\ ~uuid["client"]
    /\ MutexFree("client")
    /\ mutex' = [mutex EXCEPT !["client"] = "hello"]
    /\ launch_deflate_and_send("client", ClientHello)
    /\ UNCHANGED <<handshakeVars, requestVars, down, status, closed, wire, pings, faults>>

HelloSaid ==
    /\ mutex["client"] = "hello"
    /\ mutex' = [mutex EXCEPT !["client"] = "free"]
    /\ uuid' = [uuid EXCEPT !["client"] = TRUE]
    /\ UNCHANGED <<keysMatch, announces, authenticated, registered, busy, encoder, decoder,
                   requestVars, down, status, closed, camp, wire, pings, faults>>

\* Who can get hold of the object: the connector publishes it after the hello,
\* the acceptor when the hello has been accepted. send_request itself does not
\* ask for a hello.
Reachable(e) ==
    IF e = "client" THEN (announces => uuid["client"]) /\ MutexFree("client") ELSE registered

\* Mutated: a request may be begun on a connection that has been shut down.
BeginRequestUnchecked(e) ==
    /\ Reachable(e)
    /\ MutexFree(e)
    /\ \E s \in 1..Requests(e) : outcome[e][s] = "unsent"
    /\ mutex' = [mutex EXCEPT ![e] = "request"]
    /\ UNCHANGED <<handshakeVars, requestVars, down, status, closed, camp, wire, pings, faults>>

\* send_request checks has_been_shutdown() with m_mutex held ...
BeginRequest(e) ==
    /\ Reachable(e)
    /\ MutexFree(e)
    /\ ~down[e]
    /\ \E s \in 1..Requests(e) : outcome[e][s] = "unsent"
    /\ mutex' = [mutex EXCEPT ![e] = "request"]
    /\ UNCHANGED <<handshakeVars, requestVars, down, status, closed, camp, wire, pings, faults>>

\* ... and inserts the promise and launches the message before releasing it.
EndRequest(e) ==
    /\ mutex[e] = "request"
    /\ mutex' = [mutex EXCEPT ![e] = "free"]
    /\ \E s \in 1..Requests(e) :
        /\ outcome[e][s] = "unsent"
        /\ \A t \in 1..(s - 1) : outcome[e][t] # "unsent"
        /\ promises' = [promises EXCEPT ![e] = @ \cup {s}]
        /\ outcome' = [outcome EXCEPT ![e][s] = "waiting"]
        /\ launch_deflate_and_send(e, Request(s))
    /\ UNCHANGED <<handshakeVars, jobs, doomed, performed, down, status, closed, wire, pings, faults>>

\* Mutated: the job stays in the queue.
PerformJobAgain(e) ==
    \E s \in jobs[e], fatal \in BOOLEAN :
        /\ Len(camp[e]) <= Requests(e)
        /\ performed' = [performed EXCEPT ![e] = @ \cup {s}]
        /\ launch_deflate_and_send(e, Response(s))
        /\ doomed' = [doomed EXCEPT ![e] = @ \/ fatal]
        /\ UNCHANGED <<handshakeVars, promises, outcome, jobs,
                       mutex, down, status, closed, wire, pings, faults>>

\* A Request_message_job calls the servlet and sends the response; a negative
\* status code then shuts the connection down.
PerformJob(e) ==
    \E s \in jobs[e], fatal \in BOOLEAN :
        /\ jobs' = [jobs EXCEPT ![e] = @ \ {s}]
        /\ performed' = [performed EXCEPT ![e] = @ \cup {s}]
        /\ launch_deflate_and_send(e, Response(s))
        /\ doomed' = [doomed EXCEPT ![e] = @ \/ fatal]
        /\ UNCHANGED <<handshakeVars, promises, outcome,
                       mutex, down, status, closed, wire, pings, faults>>

ShutdownAfterJob(e) ==
    /\ doomed[e]
    /\ doomed' = [doomed EXCEPT ![e] = FALSE]
    /\ shutdown(e, "error")
    /\ UNCHANGED <<handshakeVars, promises, outcome, jobs, performed, mutex, closed, camp, wire, pings, faults>>

\* The object is gone by the time its job is performed.
DropJob(e) ==
    \E s \in jobs[e] :
        /\ closed[e]
        /\ jobs' = [jobs EXCEPT ![e] = @ \ {s}]
        /\ UNCHANGED <<handshakeVars, promises, outcome, doomed, performed,
                       mutex, down, status, closed, camp, wire, pings, faults>>

\* The connector's timer pings a client that has authenticated.
Ping ==
    /\ authenticated["client"]
    /\ ~down["client"]
    /\ pings < MaxPings
    /\ pings' = pings + 1
    /\ SendFrame("client", [kind |-> "ping"])
    /\ UNCHANGED <<handshakeVars, requestVars, mutex, down, status, closed, camp, faults>>

-------------------------------------------------------------------------------
\* The workhorse: deflate_and_send, inflate_and_dispatch

\* Both return at once if the connection has been shut down.
DropTask(e) ==
    /\ ~busy[e]
    /\ camp[e] # <<>>
    /\ down[e]
    /\ CampDone(e)
    /\ UNCHANGED <<handshakeVars, requestVars, mutex, down, status, closed, wire, pings, faults>>

\* A hello is sent as it is; the client's reseeds its encoder. The assertion on
\* the UUID waits for m_mutex.
DeflateHello(e, kind) ==
    /\ Takes(e, "out", kind)
    /\ ~down[e]
    /\ MutexFree(e)
    /\ CampDone(e)
    /\ IF uuid[e]
       THEN /\ SendFrame(e, HeadMsg(e))
            /\ encoder' = IF kind = "client_hello"
                          THEN [encoder EXCEPT ![e] = "normal_data"] ELSE encoder
            /\ UNCHANGED <<down, status, faults>>
       ELSE Fail(e, "uuid") /\ UNCHANGED <<wire, encoder>>
    /\ UNCHANGED <<keysMatch, announces, uuid, authenticated, registered, busy, decoder,
                   requestVars, mutex, closed, pings>>

\* Mutated: the message is sent as it is.
DeflateUserPlain(e, kind) ==
    /\ Takes(e, "out", kind)
    /\ ~down[e]
    /\ CampDone(e)
    /\ SendFrame(e, HeadMsg(e))
    /\ UNCHANGED <<handshakeVars, requestVars, mutex, down, status, closed, pings, faults>>

DeflateUser(e, kind) ==
    /\ Takes(e, "out", kind)
    /\ ~down[e]
    /\ CampDone(e)
    /\ SendFrame(e, [kind |-> kind, serial |-> HeadMsg(e).serial, seed |-> encoder[e]])
    /\ UNCHANGED <<handshakeVars, requestVars, mutex, down, status, closed, pings, faults>>

\* The checksum of a hello verifies if it was made with the same key.
ChecksumVerifies == keysMatch

\* The checksum of the client's hello does not verify.
RefuseHello ==
    /\ Takes("server", "in", "client_hello")
    /\ ~down["server"]
    /\ ~ChecksumVerifies
    /\ CampDone("server")
    /\ shutdown("server", "error")
    /\ UNCHANGED <<handshakeVars, requestVars, mutex, closed, wire, pings, faults>>

\* server_accept_hello: launch the server's hello, set the UUID, register the
\* session with the acceptor, all with m_mutex held.
server_accept_hello ==
    /\ Takes("server", "in", "client_hello")
    /\ ~down["server"]
    /\ ChecksumVerifies
    /\ MutexFree("server")
    /\ IF uuid["server"]
       THEN /\ Fail("server", "hello")
            /\ CampDone("server")
            /\ UNCHANGED <<uuid, registered, busy>>
       ELSE /\ camp' = [camp EXCEPT !["server"] = Append(Tail(@), Out(ServerHello))]
            /\ uuid' = [uuid EXCEPT !["server"] = TRUE]
            /\ registered' = TRUE
            /\ busy' = [busy EXCEPT !["server"] = TRUE]
            /\ UNCHANGED <<down, status, faults>>
    /\ UNCHANGED <<keysMatch, announces, authenticated, encoder, decoder, requestVars,
                   mutex, closed, wire, pings>>

\* Mutated: the decoder keeps its seed.
AuthenticateOnly ==
    /\ busy["server"]
    /\ busy' = [busy EXCEPT !["server"] = FALSE]
    /\ authenticated' = [authenticated EXCEPT !["server"] = TRUE]
    /\ UNCHANGED <<keysMatch, announces, uuid, registered, encoder, decoder, requestVars,
                   mutex, down, status, closed, camp, wire, pings, faults>>

\* ... and then, without it, reseed the decoder and set the flag.
Authenticate ==
    /\ busy["server"]
    /\ busy' = [busy EXCEPT !["server"] = FALSE]
    /\ decoder' = [decoder EXCEPT !["server"] = "normal_data"]
    /\ authenticated' = [authenticated EXCEPT !["server"] = TRUE]
    /\ UNCHANGED <<keysMatch, announces, uuid, registered, encoder, requestVars,
                   mutex, down, status, closed, camp, wire, pings, faults>>

client_accept_hello ==
    /\ Takes("client", "in", "server_hello")
    /\ ~down["client"]
    /\ MutexFree("client")
    /\ CampDone("client")
    /\ IF uuid["client"]
       THEN /\ authenticated' = [authenticated EXCEPT !["client"] = TRUE]
            /\ UNCHANGED <<down, status, faults>>
       ELSE Fail("client", "uuid") /\ UNCHANGED authenticated
    /\ UNCHANGED <<keysMatch, announces, uuid, registered, busy, encoder, decoder, requestVars,
                   mutex, closed, wire, pings>>

\* Mutated: the seeds do not depend on the application key.
SeedsDiffer(e) == HeadMsg(e).seed # decoder[e]

\* A message encrypted with another seed than the decoder's cannot be inflated;
\* every seed is a checksum of the application key, too.
Garbled(e) == ~keysMatch \/ HeadMsg(e).seed # decoder[e]

\* What else inflating a message does, if it is not garbled: nothing asks
\* whether the peer has authenticated.
InflateOrFail(e, Inflated) ==
    IF Garbled(e)
    THEN Fail(e, "garbled") /\ UNCHANGED requestVars
    ELSE Inflated /\ UNCHANGED <<down, status, faults>>

InflateRequest(e) ==
    /\ Takes(e, "in", "request")
    /\ ~down[e]
    /\ CampDone(e)
    /\ InflateOrFail(e,
          /\ jobs' = [jobs EXCEPT ![e] = @ \cup {HeadMsg(e).serial}]
          /\ UNCHANGED <<promises, outcome, doomed, performed>>)
    /\ UNCHANGED <<handshakeVars, mutex, closed, wire, pings>>

\* The promise is taken out of the map and satisfied.
SatisfyPromise(e) ==
    /\ promises' = [promises EXCEPT ![e] = @ \ {HeadMsg(e).serial}]
    /\ outcome' = IF HeadMsg(e).serial \in promises[e]
                  THEN [outcome EXCEPT ![e][HeadMsg(e).serial] = "answered"] ELSE outcome
    /\ UNCHANGED <<jobs, doomed, performed>>

\* Whoever takes the promise out of the map, with m_mutex held, satisfies it.
InflateResponse(e) ==
    /\ Takes(e, "in", "response")
    /\ ~down[e]
    /\ MutexFree(e)
    /\ CampDone(e)
    /\ InflateOrFail(e, SatisfyPromise(e))
    /\ UNCHANGED <<handshakeVars, mutex, closed, wire, pings>>

-------------------------------------------------------------------------------
\* The epoll thread

\* The connector has its socket polled once the hello has been said.
Polled(e) == ~closed[e] /\ (e = "client" /\ announces => uuid["client"])

layer5_on_receive_data(e) ==
    /\ Polled(e)
    /\ wire[e] # <<>>
    /\ Head(wire[e]) \notin Control
    /\ wire' = [wire EXCEPT ![e] = Tail(@)]
    /\ camp' = [camp EXCEPT ![e] = Append(@, In(Head(wire[e])))]
    /\ UNCHANGED <<handshakeVars, requestVars, mutex, down, status, closed, pings, faults>>

\* The assertion has_authenticated() fails; whoever catches the exception shuts
\* the end down.
FailControl(e, what) ==
    /\ faults' = faults \cup {what}
    /\ down' = [down EXCEPT ![e] = TRUE]

\* A PING is answered with a PONG, which goes out unless e has been shut down.
ReceiveHeartbeat(e) ==
    /\ wire[e] # <<>>
    /\ Head(wire[e]) \in Control
    /\ \/ /\ ~authenticated[e]
          /\ FailControl(e, "control")
          /\ \E code \in {"none", "error"} : status' = StatusAfter(e, code)
          /\ wire' = [wire EXCEPT ![e] = Tail(@)]
       \/ /\ authenticated[e]
          /\ wire' = IF Head(wire[e]).kind = "ping" /\ ~down[e] /\ ~closed[Peer(e)]
                     THEN [wire EXCEPT ![e] = Tail(@), ![Peer(e)] = Append(@, [kind |-> "pong"])]
                     ELSE [wire EXCEPT ![e] = Tail(@)]
          /\ UNCHANGED <<down, status, faults>>

\* status_shutdown is answered with the same, an error is only logged.
ReceiveStatus(e) ==
    /\ wire[e] = <<>>
    /\ status[e] # "none"
    /\ \/ /\ ~authenticated[e]
          /\ FailControl(e, "status")
          /\ \E code \in {"none", "error"} :
                status' = [StatusAfter(e, code) EXCEPT ![e] = "none"]
       \/ /\ authenticated[e]
          /\ status[e] = "shutdown"
          /\ down' = [down EXCEPT ![e] = TRUE]
          /\ status' = [StatusAfter(e, "shutdown") EXCEPT ![e] = "none"]
          /\ UNCHANGED faults
       \/ /\ authenticated[e]
          /\ status[e] = "error"
          /\ status' = [status EXCEPT ![e] = "none"]
          /\ UNCHANGED <<down, faults>>
    /\ UNCHANGED wire

\* Control frames are handled at once, not in the order of the workhorse.
layer5_on_receive_control(e) ==
    /\ Polled(e)
    /\ ReceiveHeartbeat(e) \/ ReceiveStatus(e)
    /\ UNCHANGED <<handshakeVars, requestVars, mutex, closed, camp, pings>>

\* Mutated: the promises are dropped without an exception.
CloseForgetting(e) ==
    /\ down[e]
    /\ ~closed[e]
    /\ MutexFree(e)
    /\ closed' = [closed EXCEPT ![e] = TRUE]
    /\ wire' = [wire EXCEPT ![e] = <<>>]
    /\ status' = [status EXCEPT ![e] = "none"]
    /\ promises' = [promises EXCEPT ![e] = {}]
    /\ UNCHANGED <<handshakeVars, outcome, jobs, doomed, performed, mutex, down, camp, pings, faults>>

\* Take all the promises with m_mutex held, then fail them.
layer4_on_close(e) ==
    /\ down[e]
    /\ ~closed[e]
    /\ MutexFree(e)
    /\ closed' = [closed EXCEPT ![e] = TRUE]
    /\ wire' = [wire EXCEPT ![e] = <<>>]
    /\ status' = [status EXCEPT ![e] = "none"]
    /\ promises' = [promises EXCEPT ![e] = {}]
    /\ outcome' = [outcome EXCEPT ![e] =
            [s \in Serials |-> IF s \in promises[e] THEN "lost" ELSE @[s]]]
    /\ UNCHANGED <<handshakeVars, jobs, doomed, performed, mutex, down, camp, pings, faults>>

\* The peer has closed: what is on the wire may or may not be read before.
HangUp(e) ==
    /\ Polled(e)
    /\ ~down[e]
    /\ closed[Peer(e)]
    /\ shutdown(e, "none")
    /\ UNCHANGED <<handshakeVars, requestVars, mutex, closed, camp, wire, pings, faults>>

\* Somebody shuts the connection down, with a status or by force, or the
\* network fails.
ShutdownByOthers(e) ==
    /\ Polled(e)
    /\ ~down[e]
    /\ \E code \in Statuses : shutdown(e, code)
    /\ UNCHANGED <<handshakeVars, requestVars, mutex, closed, camp, wire, pings, faults>>

-------------------------------------------------------------------------------
Dispatcher(e) == EndRequest(e) \/ PerformJob(e) \/ ShutdownAfterJob(e) \/ DropJob(e)

Workhorse(e) ==
    \/ DropTask(e)
    \/ \E kind \in {"client_hello", "server_hello"} : DeflateHello(e, kind)
    \/ \E kind \in {"request", "response"} : DeflateUser(e, kind)
    \/ e = "server" /\ (RefuseHello \/ server_accept_hello \/ Authenticate)
    \/ e = "client" /\ client_accept_hello
    \/ InflateRequest(e)
    \/ InflateResponse(e)

Epoll(e) ==
    \/ layer5_on_receive_data(e)
    \/ layer5_on_receive_control(e)
    \/ layer4_on_close(e)
    \/ HangUp(e)

Next ==
    \/ SayHello
    \/ HelloSaid
    \/ Ping
    \/ \E e \in Ends : BeginRequest(e)
    \/ \E e \in Ends : ShutdownByOthers(e)
    \/ \E e \in Ends : Dispatcher(e)
    \/ \E e \in Ends : Workhorse(e)
    \/ \E e \in Ends : Epoll(e)

\* Threads do not stop: what the dispatcher has begun it finishes, jobs are
\* performed, the workhorse empties its queues and epoll reports its events.
Fairness ==
    /\ WF_vars(HelloSaid)
    /\ \A e \in Ends : WF_vars(Dispatcher(e)) /\ WF_vars(Workhorse(e)) /\ WF_vars(Epoll(e))

Spec == Init /\ [][Next]_vars

FairSpec == Spec /\ Fairness

-------------------------------------------------------------------------------
(***************************************************************************)
(* Properties                                                              *)
(***************************************************************************)

\* If the connector's end says hello first, as the class asks of it
\* (interserver_connection.hpp:95), the two ends never disagree about the state
\* of the handshake, however the threads interleave.  The UUID is set before a
\* hello is sent, only one hello is accepted, no PING arrives before the server
\* has authenticated, although control frames bypass the queue in which the
\* hello waits; and every message is decoded with the seed it was encoded with,
\* although the ends switch seeds at different moments.  The one assertion of the
\* handshake that can fail is has_authenticated() on a status frame, and it then
\* shuts down an end whose peer has been shut down already.
EndsAgree ==
    /\ announces => faults \subseteq {"status"}
    /\ "status" \in faults => \A e \in Ends : down[e]

\* Only a peer that has the application key is served, although messages carry
\* no proof and are not checked for one: nobody else's can be decoded.  If the
\* connector's end says hello first, an end serves only after it has verified
\* the hello of the other.
ServesOnlyAuthenticated ==
    \A e \in Ends :
        jobs[e] # {} \/ performed[e] # {} => keysMatch /\ (announces => authenticated[e])

\* A request somebody waits for is in the map from which a response or the
\* closing will take it; once the connection is closed nobody waits.
NoOrphanedPromise ==
    \A e \in Ends :
        /\ promises[e] = {s \in Serials : outcome[e][s] = "waiting"}
        /\ closed[e] => promises[e] = {}

\* No request is performed twice, and no promise is satisfied twice.
AtMostOnce ==
    [][\A e \in Ends, s \in Serials :
        /\ s \in performed[e] => s \notin jobs'[e]
        /\ outcome[e][s] \in {"answered", "lost"} => outcome'[e][s] = outcome[e][s]]_vars

\* Whoever waits for a response is woken, with the response or the loss of the
\* connection; and a hello is not left unanswered: the client's end becomes
\* authenticated or is closed, also when the server has refused.
NobodyWaitsForEver ==
    /\ \A e \in Ends, s \in Serials :
        outcome[e][s] = "waiting" ~> outcome[e][s] \in {"answered", "lost"}
    /\ uuid["client"] ~> authenticated["client"] \/ closed["client"]
================================================================================
