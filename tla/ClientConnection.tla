---------------------------- MODULE ClientConnection ---------------------------
(***************************************************************************)
(* A client's connection to a gate, from the first HTTP request to the end *)
(* of the WebSocket session it may become, with what the connection makes  *)
(* the auth server, the foyer and the box do.                              *)
(*                                                                         *)
(* The epoll thread reads requests and queues jobs; the primary thread     *)
(* performs the jobs of the connection one after another.  A job waits for *)
(* the auth server and for the box, and meanwhile the client may leave,    *)
(* the box may kill the session and connections between servers may be     *)
(* lost.  A WebSocket session shares the socket of its HTTP session: they  *)
(* are shut down together.  As the library has it, a job of a connection   *)
(* that is shut down is dropped, and an exception in one shuts it down.    *)
(*                                                                         *)
(* Whether the address is banned is left open, it is the matter of         *)
(* IpBanList; delivery of messages after establishment that of Delivery.   *)
(***************************************************************************)
EXTENDS Naturals, Sequences

CONSTANTS
    MaxRequests,    \* bound on HTTP requests
    MaxMessages     \* bound on WebSocket messages of the client

ASSUME BoundsAssumption == MaxRequests \in Nat /\ MaxMessages \in Nat

VARIABLES
    conn,       \* "open", or "down" once has_been_shutdown_write()
    banned,     \* get_ban_time_remaining() # 0
    first,      \* m_first_request
    requests,   \* the requests received
    reading,    \* the headers of the last one have been read, but not its end
    messages,   \* WebSocket messages received
    jobs,       \* jobs queued for the connection
    job,        \* the job being performed, and what it waits for
    uri,        \* m_decoded_uri: the request it was decoded from, 0 if unset
    token,      \* m_auth_token: the request it was given for, 0 if unset
    answered,   \* requests that have been answered
    forwarded,  \* history: what has been sent to the box, with URI and token
    ws,         \* the WebSocket session: "none", "alive", "destroyed"
    wsToken,    \* m_auth_token of the WebSocket session is set
    foyerSet,   \* m_weak_foyer_conn and m_box_uuid of it are set
    unproven,   \* history: messages accepted before the client was authenticated
    link,       \* link["gate"], link["box"]: the foyer's connections to them
    wait,       \* what has come back of the establishment
    request,    \* the establishment request, on its way and at the box
    shadow,     \* the shadow session at the box
    shutdown,   \* m_shutdown of it
    kill,       \* kill notifications on their way to the gate
    closure     \* a closure notification is on its way to the box

vars == <<conn, banned, first, requests, reading, messages, jobs, job, uri, token, answered,
          forwarded, ws, wsToken, foyerSet, unproven, link, wait, request, shadow, shutdown,
          kill, closure>>

readVars   == <<banned, first, requests, reading, messages>>
jobVars    == <<jobs, job>>
httpVars   == <<uri, token, answered, forwarded>>
wsVars     == <<ws, wsToken, foyerSet, unproven>>
boxVars    == <<request, shadow, shutdown>>
routeVars  == <<link, kill, closure>>

-------------------------------------------------------------------------------
\* What a request is.  One that is "bad" has a verb that is not implemented, a
\* URI that cannot be decoded, or accepts no encoding of the response.
Kinds == {"options", "get", "bad", "websocket", "upgrade"}

RequestIds == 1..MaxRequests

Jobs == [type: {"expect", "request", "handshake"}, req: RequestIds] \cup [type: {"message"}]

NoJob == [type |-> "none"]

TypeOK ==
    /\ conn \in {"open", "down"}
    /\ banned \in BOOLEAN
    /\ first \in BOOLEAN
    /\ requests \in Seq([kind: Kinds, expect: BOOLEAN]) /\ Len(requests) <= MaxRequests
    /\ reading \in BOOLEAN
    /\ messages \in 0..MaxMessages
    /\ jobs \in Seq(Jobs)
    /\ job \in [type: {"expect", "request", "handshake"}, req: RequestIds, at: {"auth", "box"}]
               \cup {NoJob}
    /\ uri \in 0..MaxRequests
    /\ token \in 0..MaxRequests
    /\ answered \subseteq RequestIds
    /\ forwarded \subseteq [req: RequestIds, uri: RequestIds, token: RequestIds]
    /\ ws \in {"none", "alive", "destroyed"}
    /\ wsToken \in BOOLEAN
    /\ foyerSet \in BOOLEAN
    /\ unproven \in BOOLEAN
    /\ link \in [{"gate", "box"} -> BOOLEAN]
    /\ wait \in {"none", "waiting", "success", "failure"}
    /\ request \in {"none", "sent", "at_box", "running", "done"}
    /\ shadow \in {"none", "made", "attached", "closed"}
    /\ shutdown \in BOOLEAN
    /\ kill \in {"none", "at_foyer", "at_gate"}
    /\ closure \in BOOLEAN

Init ==
    /\ conn = "open"
    /\ banned \in BOOLEAN
    /\ first = TRUE
    /\ requests = <<>>
    /\ reading = FALSE
    /\ messages = 0
    /\ jobs = <<>>
    /\ job = NoJob
    /\ uri = 0
    /\ token = 0
    /\ answered = {}
    /\ forwarded = {}
    /\ ws = "none"
    /\ wsToken = FALSE
    /\ foyerSet = FALSE
    /\ unproven = FALSE
    /\ link = [l \in {"gate", "box"} |-> TRUE]
    /\ wait = "none"
    /\ request = "none"
    /\ shadow = "none"
    /\ shutdown = FALSE
    /\ kill = "none"
    /\ closure = FALSE

-------------------------------------------------------------------------------
\* The epoll thread

Last == Len(requests)

\* The headers of a request; with an Expect header the primary thread is to say
\* whether it is welcome.
ReadHeaders(kind, expect) ==
    /\ conn = "open" /\ ws = "none" /\ ~reading
    /\ Last < MaxRequests
    /\ requests' = Append(requests, [kind |-> kind, expect |-> expect])
    /\ reading' = TRUE
    /\ jobs' = IF expect THEN Append(jobs, [type |-> "expect", req |-> Last + 1]) ELSE jobs
    /\ UNCHANGED <<conn, banned, first, messages, job, httpVars, wsVars, wait, boxVars, routeVars>>

\* on_low_level_request_end() sends a banned client away at its first request,
\* and throws when there are too many requests or an upgrade is not known.
RefuseAtEnd ==
    /\ reading /\ conn = "open"
    /\ \/ first /\ banned
       \/ requests[Last].kind # "websocket"
    /\ conn' = "down"
    /\ reading' = FALSE
    /\ first' = IF banned THEN first ELSE FALSE
    /\ UNCHANGED <<banned, requests, messages, jobVars, httpVars, wsVars, wait, boxVars, routeVars>>

\* on_low_level_request_end() queues a job, and makes a session for a WebSocket.
ReadEnd ==
    /\ reading /\ conn = "open"
    /\ ~(first /\ banned)
    /\ requests[Last].kind # "upgrade"
    /\ first' = FALSE
    /\ reading' = FALSE
    /\ IF requests[Last].kind = "websocket"
       THEN /\ ws' = "alive"
            /\ jobs' = Append(jobs, [type |-> "handshake", req |-> Last])
       ELSE /\ ws' = ws
            /\ jobs' = Append(jobs, [type |-> "request", req |-> Last])
    /\ UNCHANGED <<conn, banned, requests, messages, job, httpVars, wsToken, foyerSet, unproven,
                   wait, boxVars, routeVars>>

\* A message arrives on the WebSocket, or there were too many, which throws.
ReadMessage ==
    /\ conn = "open" /\ ws = "alive"
    /\ messages < MaxMessages
    /\ messages' = messages + 1
    /\ \/ jobs' = Append(jobs, [type |-> "message"]) /\ conn' = conn
       \/ jobs' = jobs /\ conn' = "down"
    /\ UNCHANGED <<banned, first, requests, reading, job, httpVars, wsVars, wait, boxVars, routeVars>>

\* The client closes the connection, or it is lost.
HangUp ==
    /\ conn = "open"
    /\ conn' = "down"
    /\ UNCHANGED <<readVars, jobVars, httpVars, wsVars, wait, boxVars, routeVars>>

\* Bans are imposed and end.
BanChanges ==
    /\ banned' = ~banned
    /\ UNCHANGED <<conn, first, requests, reading, messages, jobVars, httpVars, wsVars, wait,
                   boxVars, routeVars>>

-------------------------------------------------------------------------------
\* HTTP jobs

\* Mutated: messages have a category of their own.
TakesConcurrently(type) ==
    /\ jobs # <<>> /\ Head(jobs).type = type
    /\ job = NoJob \/ type = "message"

\* The primary thread takes the next job of the connection, if it is of this type.
Takes(type) == job = NoJob /\ jobs # <<>> /\ Head(jobs).type = type

Kind(j) == requests[j.req].kind

Drop == jobs' = Tail(jobs)

\* A connection that has been shut down ignores its jobs.
DropJob ==
    /\ \E type \in {"expect", "request", "handshake", "message"} : Takes(type)
    /\ conn = "down"
    /\ Drop
    /\ UNCHANGED <<conn, readVars, job, httpVars, wsVars, wait, boxVars, routeVars>>

\* The job waits for the auth server or, with no server or HTTP not enabled, fails.
Authenticate(j) ==
    \/ job' = [type |-> j.type, req |-> j.req, at |-> "auth"] /\ conn' = conn
    \/ job' = NoJob /\ conn' = "down"

\* on_sync_expect().
PerformExpect ==
    LET j == Head(jobs) IN
    /\ Takes("expect") /\ conn = "open"
    /\ Drop
    /\ CASE Kind(j) = "options" -> UNCHANGED <<conn, job, uri>>
         [] Kind(j) = "bad"     -> conn' = "down" /\ UNCHANGED <<job, uri>>
         [] OTHER               -> uri' = j.req /\ Authenticate(j)
    /\ UNCHANGED <<readVars, token, answered, forwarded, wsVars, wait, boxVars, routeVars>>

\* The request goes to the box with the URI u and the token t or, if there is no
\* foyer, fails.
SendToBox(j, u, t) ==
    \/ /\ job' = [type |-> "request", req |-> j.req, at |-> "box"]
       /\ forwarded' = forwarded \cup {[req |-> j.req, uri |-> u, token |-> t]}
       /\ conn' = conn
    \/ job' = NoJob /\ conn' = "down" /\ forwarded' = forwarded

Or(old, new) == IF old = 0 THEN new ELSE old

\* on_sync_request(), as far as to the first wait.
PerformRequest ==
    LET j == Head(jobs) IN
    /\ Takes("request") /\ conn = "open"
    /\ Drop
    /\ \/ /\ banned \/ Kind(j) = "bad"
          /\ conn' = "down"
          /\ UNCHANGED <<job, httpVars>>
       \/ /\ ~banned /\ Kind(j) = "options"
          /\ answered' = answered \cup {j.req}
          /\ uri' = 0 /\ token' = 0
          /\ UNCHANGED <<conn, job, forwarded>>
       \/ /\ ~banned /\ Kind(j) = "get"
          /\ uri' = Or(uri, j.req)
          /\ IF token = 0 THEN Authenticate(j) /\ UNCHANGED forwarded ELSE SendToBox(j, uri', token)
          /\ UNCHANGED <<token, answered>>
    /\ UNCHANGED <<readVars, wsVars, wait, boxVars, routeVars>>

\* What the servlets of the auth server pass on from the business code.
Verdicts == {"token", "no_token"}

\* The rest of sync_authenticate(): with a token, and if the connection is still
\* there, a request goes on; without one, or if the auth server is lost, the
\* connection is shut down.
AuthAnswers ==
    /\ job # NoJob /\ job.type # "handshake" /\ job.at = "auth"
    /\ \E verdict \in Verdicts :
        IF verdict = "token" /\ conn = "open"
        THEN /\ token' = job.req
             /\ IF job.type = "request" THEN SendToBox(job, uri, job.req)
                ELSE job' = NoJob /\ UNCHANGED <<conn, forwarded>>
        ELSE /\ conn' = "down"
             /\ job' = NoJob
             /\ UNCHANGED <<token, forwarded>>
    /\ UNCHANGED <<readVars, jobs, uri, answered, wsVars, wait, boxVars, routeVars>>

\* Mutated: the session keeps what it knows about the client.
BoxAnswersKeeping ==
    /\ job # NoJob /\ job.type = "request" /\ job.at = "box"
    /\ job' = NoJob
    /\ answered' = IF conn = "open" THEN answered \cup {job.req} ELSE answered
    /\ conn' = conn
    /\ UNCHANGED <<uri, token, readVars, jobs, forwarded, wsVars, wait, boxVars, routeVars>>

\* The box has answered the request, which is the end of it ("HTTP is stateless"),
\* or an error has come back, which throws.
BoxAnswers ==
    /\ job # NoJob /\ job.type = "request" /\ job.at = "box"
    /\ job' = NoJob
    /\ \/ /\ answered' = IF conn = "open" THEN answered \cup {job.req} ELSE answered
          /\ conn' = conn
          /\ uri' = 0 /\ token' = 0
       \/ /\ conn' = "down"
          /\ UNCHANGED <<answered, uri, token>>
    /\ UNCHANGED <<readVars, jobs, forwarded, wsVars, wait, boxVars, routeVars>>

-------------------------------------------------------------------------------
\* The handshake of a WebSocket session

\* Websocket_handshake_job up to the authentication.  It sets m_decoded_uri and
\* fails when the session is gone, or its URI or headers are not right, or there
\* is no auth server.
BeginHandshake ==
    LET j == Head(jobs) IN
    /\ Takes("handshake") /\ conn = "open"
    /\ Drop
    /\ IF ws = "destroyed" THEN conn' = "down" /\ UNCHANGED <<job, uri>>
       ELSE uri' = j.req /\ Authenticate(j)
    /\ UNCHANGED <<readVars, token, answered, forwarded, wsVars, wait, boxVars, routeVars>>

\* The auth server lets the client in, and the establishment is requested of a
\* foyer; or it does not, or there is no foyer.
EstablishOrFail ==
    /\ job # NoJob /\ job.type = "handshake" /\ job.at = "auth"
    /\ \E verdict \in Verdicts :
        IF verdict = "token" /\ link["gate"]
        THEN /\ job' = [job EXCEPT !.at = "box"]
             /\ wait' = "waiting"
             /\ request' = "sent"
             /\ conn' = conn
        ELSE /\ job' = NoJob
             /\ conn' = "down"
             /\ UNCHANGED <<wait, request>>
    /\ UNCHANGED <<readVars, jobs, httpVars, wsVars, shadow, shutdown, routeVars>>

\* Mutated: whether the client is still there is asked before the foyer is noted.
NoteFoyerIfOpen == foyerSet' = (conn = "open")

\* m_weak_foyer_conn and m_box_uuid are set whether the client is there or not.
NoteFoyer == foyerSet' = TRUE

Established ==
    /\ wait = "success"
    /\ wait' = "none"
    /\ job' = NoJob
    /\ NoteFoyer
    /\ wsToken' = (conn = "open")
    /\ UNCHANGED <<conn, readVars, jobs, httpVars, ws, unproven, boxVars, routeVars>>

\* Mutated: the exception is only logged.
IgnoreFailure ==
    /\ wait = "failure"
    /\ wait' = "none"
    /\ job' = NoJob
    /\ UNCHANGED <<conn, readVars, jobs, httpVars, wsVars, boxVars, routeVars>>

\* The establishment has failed: the session is shut down.
EstablishmentFails ==
    /\ wait = "failure"
    /\ wait' = "none"
    /\ job' = NoJob
    /\ conn' = "down"
    /\ UNCHANGED <<readVars, jobs, httpVars, wsVars, boxVars, routeVars>>

\* on_sync_data_message() accepts a message for delivery to the box.
PerformMessage ==
    /\ Takes("message") /\ conn = "open"
    /\ Drop
    /\ unproven' = (unproven \/ ~wsToken)
    /\ UNCHANGED <<conn, readVars, job, httpVars, ws, wsToken, foyerSet, wait, boxVars, routeVars>>

\* The WebSocket session is destroyed once the socket is closed and no job holds
\* it; if it knows the foyer, it tells the box, as long as the connections hold.
DestroyWebSocket ==
    /\ conn = "down" /\ ws = "alive"
    /\ job # NoJob => job.type # "handshake"
    /\ ws' = "destroyed"
    /\ closure' = (foyerSet /\ link["gate"] /\ link["box"])
    /\ UNCHANGED <<conn, readVars, jobVars, httpVars, wsToken, foyerSet, unproven, wait, boxVars,
                   link, kill>>

-------------------------------------------------------------------------------
\* The foyer and the box

\* The foyer passes the request on to a box, if it is connected to one.
ForwardEstablishment ==
    /\ request = "sent"
    /\ IF link["box"] THEN request' = "at_box" /\ wait' = wait
       ELSE request' = "done" /\ wait' = IF wait = "waiting" THEN "failure" ELSE wait
    /\ UNCHANGED <<conn, readVars, jobVars, httpVars, wsVars, shadow, shutdown, routeVars>>

\* The box makes a shadow session and calls the business code.
BeginEstablishment ==
    /\ request = "at_box"
    /\ request' = "running"
    /\ shadow' = "made"
    /\ UNCHANGED <<conn, readVars, jobVars, httpVars, wsVars, wait, shutdown, routeVars>>

\* The shadow session is shut down, by the business code or because it threw; the
\* first time a kill is sent to the gate.
KillAfterShutdown == IF ~shutdown /\ link["box"] THEN "at_foyer" ELSE kill

ShutDownShadow ==
    /\ shadow \in {"made", "attached"} /\ request \in {"running", "done"} /\ ~shutdown
    /\ shutdown' = TRUE
    /\ kill' = KillAfterShutdown
    /\ UNCHANGED <<conn, readVars, jobVars, httpVars, wsVars, wait, request, shadow, link, closure>>

\* The business code returns and the session is attached, or it throws and the
\* session is shut down; the request is answered as a success in either case.
EndEstablishment ==
    /\ request = "running"
    /\ request' = "done"
    /\ wait' = IF wait = "waiting" THEN "success" ELSE wait
    /\ \/ shadow' = "attached" /\ UNCHANGED <<shutdown, kill>>
       \/ shadow' = "none" /\ shutdown' = TRUE /\ kill' = KillAfterShutdown
    /\ UNCHANGED <<conn, readVars, jobVars, httpVars, wsVars, link, closure>>

\* The acceptor finds the session by the UUID of its client.
WebSocketFound == ws = "alive"

\* The foyer passes a kill on, and the gate shuts the session down.
ForwardKill ==
    /\ kill = "at_foyer"
    /\ kill' = IF link["gate"] THEN "at_gate" ELSE "none"
    /\ UNCHANGED <<conn, readVars, jobVars, httpVars, wsVars, wait, boxVars, link, closure>>

HandleKill ==
    /\ kill = "at_gate"
    /\ kill' = "none"
    /\ conn' = IF WebSocketFound THEN "down" ELSE conn
    /\ UNCHANGED <<readVars, jobVars, httpVars, wsVars, wait, boxVars, link, closure>>

\* The closure detaches the shadow session, if it is attached.
HandleClosure ==
    /\ closure
    /\ closure' = FALSE
    /\ shadow' = IF shadow = "attached" THEN "closed" ELSE shadow
    /\ shutdown' = (shutdown \/ shadow = "attached")
    /\ UNCHANGED <<conn, readVars, jobVars, httpVars, wsVars, wait, request, link, kill>>

\* The timer detaches the sessions of a gate or a foyer it no longer finds.
PingTimer ==
    /\ shadow = "attached"
    /\ ~link["gate"] \/ ~link["box"]
    /\ shadow' = "closed"
    /\ shutdown' = TRUE
    /\ UNCHANGED <<conn, readVars, jobVars, httpVars, wsVars, wait, request, routeVars>>

\* The request, and its answer, need the connection l.
Needs(l) == IF l = "gate" THEN request # "none" ELSE request \in {"at_box", "running"}

\* A connection between servers is lost: who waits for an answer over it sees the
\* request fail.  What has been received is performed nevertheless, the rest is lost.
LoseLink(l) ==
    /\ link[l]
    /\ link' = [link EXCEPT ![l] = FALSE]
    /\ wait' = IF wait = "waiting" /\ Needs(l) THEN "failure" ELSE wait
    /\ \/ request' = request
       \/ request = (IF l = "gate" THEN "sent" ELSE "at_box") /\ request' = "done"
    /\ kill' = IF (l = "box" /\ kill = "at_foyer") \/ (l = "gate" /\ kill = "at_gate")
               THEN "none" ELSE kill
    /\ closure' = FALSE
    /\ UNCHANGED <<conn, readVars, jobVars, httpVars, wsVars, shadow, shutdown>>

-------------------------------------------------------------------------------
Client == (\E k \in Kinds, e \in BOOLEAN : ReadHeaders(k, e)) \/ ReadEnd \/ RefuseAtEnd \/ ReadMessage \/ HangUp

PrimaryThread ==
    \/ DropJob \/ PerformExpect \/ PerformRequest \/ AuthAnswers \/ BoxAnswers
    \/ BeginHandshake \/ EstablishOrFail \/ Established \/ EstablishmentFails \/ PerformMessage

Box == BeginEstablishment \/ EndEstablishment

Next ==
    \/ Client \/ BanChanges \/ PrimaryThread \/ DestroyWebSocket
    \/ ForwardEstablishment \/ Box \/ ShutDownShadow
    \/ ForwardKill \/ HandleKill \/ HandleClosure \/ PingTimer
    \/ \E l \in {"gate", "box"} : LoseLink(l)

Spec == Init /\ [][Next]_vars

\* The servers go on working, and each answers what it is asked or is lost;
\* nothing is asked of the client, and connections need not be lost.
Fairness ==
    /\ WF_vars(PrimaryThread) /\ WF_vars(DestroyWebSocket)
    /\ WF_vars(ForwardEstablishment) /\ WF_vars(Box)
    /\ WF_vars(ForwardKill) /\ WF_vars(HandleKill) /\ WF_vars(HandleClosure) /\ WF_vars(PingTimer)

FairSpec == Spec /\ Fairness

-------------------------------------------------------------------------------
(***************************************************************************)
(* Properties                                                              *)
(***************************************************************************)

(***************************************************************************)
(* A request goes to the box with its own URI and with a token that was    *)
(* given for it, on a connection that is kept alive and whether or not the *)
(* client asked first whether the request would be welcome.                *)
(***************************************************************************)
OwnCredentials == \A f \in forwarded : f.uri = f.req /\ f.token = f.req

(***************************************************************************)
(* No WebSocket message is accepted from a client before it has been       *)
(* authenticated and established, although messages may arrive while the   *)
(* handshake waits and nothing looks at the token when they do.            *)
(***************************************************************************)
NoMessageUnproven == ~unproven

(***************************************************************************)
(* Every request is answered, or becomes an established WebSocket session, *)
(* unless the connection is shut down.                                     *)
(***************************************************************************)
RequestsEnd ==
    \A i \in RequestIds :
        Len(requests) >= i /\ ~reading ~> i \in answered \/ wsToken \/ conn = "down"

(***************************************************************************)
(* The business code of the box learns of the end of every session that it *)
(* was shown, also when the client leaves, the box kills it or the answer  *)
(* is lost in the middle of the establishment.                             *)
(***************************************************************************)
ShadowIsClosed == shadow = "attached" /\ ws = "destroyed" ~> shadow = "closed"
===============================================================================
