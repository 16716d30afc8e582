-------------------------------- MODULE Delivery -------------------------------
(***************************************************************************)
(* The messages of one established WebSocket connection, both ways: from   *)
(* the client's session at the gate to the shadow session at the box, and  *)
(* back.  Each side queues its messages, and at most one Delivery_job of   *)
(* the side carries them off in batches, one request to the other side,    *)
(* through the foyer, at a time.                                           *)
(*                                                                         *)
(* m_delivery_mutex is held from the check of m_delivery_job_active to the *)
(* end of the append, and by the job except while it waits; each of these  *)
(* is one step.  Jobs of one category run one at a time; the events of the *)
(* client may, or may not, be of the category of the gate's jobs: messages *)
(* are offered here whatever the job is at.                                *)
(*                                                                         *)
(* A connection between servers that is lost is lost for good: another one *)
(* to the same server has another UUID, and nothing looks for that.        *)
(***************************************************************************)
EXTENDS Naturals, Sequences, SequencesExt, FiniteSets

CONSTANTS
    MaxMessages,    \* MaxMessages[s]: bound on the messages offered at side s
    MaxPending      \* client_websocket_max_requests_pending

Sides == {"gate", "box"}

ASSUME BoundsAssumption == MaxMessages \in [Sides -> Nat] /\ MaxPending \in Nat

VARIABLES
    session,    \* session[s]: the session object of s; "gone" once it is destroyed
    attached,   \* the supervisor of the box knows the shadow session
    link,       \* link[s]: the connection between s and the foyer is up
    offered,    \* offered[s]: how many messages have been offered; they are 1, 2, ...
    sending,    \* the box is in send(), past the check of has_been_shutdown()
    accepted,   \* accepted[s]: the messages that were queued
    pending,    \* pending[s]: m_messages_pending
    spare,      \* spare[s]: m_delivery_job_spare exists
    active,     \* active[s]: m_delivery_job_active
    jobs,       \* jobs[s]: how often the spare job is in the dispatcher's queue
    job,        \* job[s]: where the job being performed stands
    batch,      \* batch[s]: the messages it has swapped out
    phase,      \* phase[s]: where the request of s stands
    todo,       \* todo[s]: what the other side has yet to handle of it
    handled,    \* handled[s]: messages of s the other side has handled, in order
    dropped,    \* dropped[s]: messages of s the other side has dropped
    kill,       \* a kill notification is on its way to the gate
    closure,    \* the closure of the gate's session, as the box learns of it
    faults      \* history: assertions that failed, messages handled after the closure

vars == <<session, attached, link, offered, sending, accepted, pending, spare, active, jobs,
          job, batch, phase, todo, handled, dropped, kill, closure, faults>>

queueVars  == <<offered, sending, accepted, pending, spare, active, jobs>>
jobVars    == <<job, batch>>
peerVars   == <<phase, todo, handled, dropped>>
statusVars == <<session, attached, link, kill, closure, faults>>

-------------------------------------------------------------------------------
Other(s) == IF s = "gate" THEN "box" ELSE "gate"

Messages(s) == 1..MaxMessages[s]

TypeOK ==
    /\ session \in [Sides -> {"open", "down", "gone"}]
    /\ attached \in BOOLEAN
    /\ link \in [Sides -> BOOLEAN]
    /\ \A s \in Sides :
        /\ offered[s] \in 0..MaxMessages[s]
        /\ accepted[s] \subseteq Messages(s)
        /\ pending[s] \in Seq(Messages(s))
        /\ batch[s] \in Seq(Messages(s))
        /\ todo[s] \in Seq(Messages(s))
        /\ handled[s] \in Seq(Messages(s))
        /\ dropped[s] \subseteq Messages(s)
    /\ Len(pending["gate"]) <= MaxPending
    /\ sending \in BOOLEAN
    /\ spare \in [Sides -> BOOLEAN]
    /\ active \in [Sides -> BOOLEAN]
    /\ jobs \in [Sides -> Nat]
    /\ job \in [Sides -> {"none", "ready", "waiting"}]
    /\ phase \in [Sides -> {"idle", "at_foyer", "arriving", "handling", "answered", "lost"}]
    /\ kill \in BOOLEAN
    /\ closure \in {"none", "sent", "detached", "handled"}
    /\ faults \subseteq {"assertion", "late"}

\* m_delivery_job_active of both classes is not initialised.
Init ==
    /\ session = [s \in Sides |-> "open"]
    /\ attached = TRUE
    /\ link = [s \in Sides |-> TRUE]
    /\ offered = [s \in Sides |-> 0]
    /\ sending = FALSE
    /\ accepted = [s \in Sides |-> {}]
    /\ pending = [s \in Sides |-> <<>>]
    /\ spare = [s \in Sides |-> FALSE]
    /\ active \in [Sides -> BOOLEAN]
    /\ jobs = [s \in Sides |-> 0]
    /\ job = [s \in Sides |-> "none"]
    /\ batch = [s \in Sides |-> <<>>]
    /\ phase = [s \in Sides |-> "idle"]
    /\ todo = [s \in Sides |-> <<>>]
    /\ handled = [s \in Sides |-> <<>>]
    /\ dropped = [s \in Sides |-> {}]
    /\ kill = FALSE
    /\ closure = "none"
    /\ faults = {}

-------------------------------------------------------------------------------
\* Helpers

SetDown(s) == [session EXCEPT ![s] = IF @ = "open" THEN "down" ELSE @]

\* Mutated: the gate is not told.
NoKillAfterShutdown(s) == kill

\* Shutting the shadow session down makes a Shutdown_job, which tells the gate.
KillAfterShutdown(s) == kill \/ (s = "box" /\ session[s] = "open" /\ link["box"])

Shutdown(s) ==
    /\ session' = SetDown(s)
    /\ kill' = KillAfterShutdown(s)

\* Mutated: m_delivery_job_active is not looked at.
EnsureJobAlways(s) ==
    /\ spare' = [spare EXCEPT ![s] = TRUE]
    /\ active' = [active EXCEPT ![s] = TRUE]
    /\ jobs' = [jobs EXCEPT ![s] = @ + 1]

\* Make sure that a job will be performed.
EnsureJob(s) ==
    /\ spare' = [spare EXCEPT ![s] = TRUE]
    /\ active' = [active EXCEPT ![s] = TRUE]
    /\ jobs' = IF spare[s] /\ active[s] THEN jobs ELSE [jobs EXCEPT ![s] = @ + 1]

Enqueue(s, m) ==
    /\ pending' = [pending EXCEPT ![s] = Append(@, m)]
    /\ accepted' = [accepted EXCEPT ![s] = @ \cup {m}]

-------------------------------------------------------------------------------
\* Messages are offered.

\* Mutated: an off-by-one.
HasRoomForOneMore == Len(pending["gate"]) <= MaxPending

HasRoom == Len(pending["gate"]) < MaxPending

\* A message of the client. Its session may have been shut down while the
\* message was waiting to be handled.
on_sync_data_message ==
    LET m == offered["gate"] + 1 IN
    /\ session["gate"] # "gone"
    /\ m \in Messages("gate")
    /\ offered' = [offered EXCEPT !["gate"] = m]
    /\ EnsureJob("gate")
    /\ IF HasRoom
       THEN Enqueue("gate", m) /\ UNCHANGED <<session, kill>>
       ELSE \* Max number of requests pending exceeded.
            Shutdown("gate") /\ UNCHANGED <<pending, accepted>>
    /\ UNCHANGED <<attached, link, closure, faults, sending, jobVars, peerVars>>

\* The business code of the box sends a message: the check ...
BeginSend ==
    /\ session["box"] = "open"
    /\ ~sending
    /\ offered["box"] < MaxMessages["box"]
    /\ sending' = TRUE
    /\ UNCHANGED <<offered, accepted, pending, spare, active, jobs, jobVars, peerVars, statusVars>>

\* ... and the rest of send(), under the mutex; true is returned.
EndSend ==
    /\ sending
    /\ sending' = FALSE
    /\ offered' = [offered EXCEPT !["box"] = @ + 1]
    /\ EnsureJob("box")
    /\ Enqueue("box", offered["box"] + 1)
    /\ UNCHANGED <<jobVars, peerVars, statusVars>>

-------------------------------------------------------------------------------
\* Delivery_job::perform

\* An exception ends the job; m_delivery_job_active stays as it is.
FailJob(s) ==
    /\ Shutdown(s)
    /\ job' = [job EXCEPT ![s] = "none"]
    /\ batch' = [batch EXCEPT ![s] = <<>>]

\* Mutated: the queue is copied, and what it holds is sent again.
CopyPending(s) ==
    /\ batch' = [batch EXCEPT ![s] = pending[s]]
    /\ job' = [job EXCEPT ![s] = IF pending[s] = <<>> THEN "none" ELSE "ready"]
    /\ active' = [active EXCEPT ![s] = pending[s] # <<>>]
    /\ UNCHANGED pending

\* Swap the messages out, to send them if there are any.
SwapPending(s) ==
    /\ pending' = [pending EXCEPT ![s] = <<>>]
    /\ batch' = [batch EXCEPT ![s] = pending[s]]
    /\ job' = [job EXCEPT ![s] = IF pending[s] = <<>> THEN "none" ELSE "ready"]
    /\ active' = [active EXCEPT ![s] = pending[s] # <<>>]

BeginJob(s) ==
    /\ jobs[s] > 0
    /\ job[s] = "none"
    /\ jobs' = [jobs EXCEPT ![s] = @ - 1]
    /\ \/ /\ session[s] = "gone"
          /\ UNCHANGED <<job, batch, pending, active, session, kill, faults>>
       \/ /\ session[s] # "gone"
          /\ ~link[s]
          /\ FailJob(s)
          /\ UNCHANGED <<pending, active, faults>>
       \/ /\ session[s] # "gone"
          \* The object of a connection may outlive it.
          /\ IF active[s]
             THEN SwapPending(s) /\ UNCHANGED <<session, kill, faults>>
             ELSE \* The assertion fails, and throws.
                  FailJob(s) /\ faults' = faults \cup {"assertion"} /\ UNCHANGED <<pending, active>>
    /\ UNCHANGED <<attached, link, closure, offered, sending, accepted, spare, peerVars>>

SendBatch(s) ==
    /\ job[s] = "ready"
    /\ IF link[s]
       THEN /\ job' = [job EXCEPT ![s] = "waiting"]
            /\ phase' = [phase EXCEPT ![s] = "at_foyer"]
            /\ todo' = [todo EXCEPT ![s] = batch[s]]
            /\ UNCHANGED <<session, kill, batch>>
       ELSE FailJob(s) /\ UNCHANGED <<phase, todo>>
    /\ UNCHANGED <<attached, link, closure, faults, handled, dropped, queueVars>>

\* Mutated: the job ends without another look at the queue.
FinishAfterResponse(s) ==
    /\ job[s] = "waiting"
    /\ phase[s] = "answered"
    /\ phase' = [phase EXCEPT ![s] = "idle"]
    /\ job' = [job EXCEPT ![s] = "none"]
    /\ active' = [active EXCEPT ![s] = FALSE]
    /\ batch' = [batch EXCEPT ![s] = <<>>]
    /\ UNCHANGED <<todo, handled, dropped, offered, sending, accepted, pending, spare, jobs, statusVars>>

\* A response has arrived: lock the mutex again and look for more.
ReceiveResponse(s) ==
    /\ job[s] = "waiting"
    /\ phase[s] = "answered"
    /\ phase' = [phase EXCEPT ![s] = "idle"]
    /\ SwapPending(s)
    /\ UNCHANGED <<todo, handled, dropped, offered, sending, accepted, spare, jobs, statusVars>>

\* The foyer has answered with an error, or a connection on the way was lost.
ReceiveFailure(s) ==
    /\ job[s] = "waiting"
    /\ phase[s] = "lost" \/ ~link[s] \/ ~link[Other(s)]
    /\ FailJob(s)
    /\ UNCHANGED <<attached, link, closure, faults, peerVars, queueVars>>

-------------------------------------------------------------------------------
\* The foyer and the receiving side

Forward(s) ==
    /\ phase[s] = "at_foyer"
    /\ phase' = [phase EXCEPT ![s] = IF link[Other(s)] THEN "arriving" ELSE "lost"]
    /\ UNCHANGED <<todo, handled, dropped, jobVars, queueVars, statusVars>>

\* A request on a connection that goes down may be lost with it.
LoseRequest(s) ==
    /\ \/ phase[s] = "at_foyer" /\ ~link[s]
       \/ phase[s] = "arriving" /\ ~link[Other(s)]
    /\ phase' = [phase EXCEPT ![s] = "lost"]
    /\ UNCHANGED <<todo, handled, dropped, jobVars, queueVars, statusVars>>

\* The receiver finds the session for the client's UUID.
Found(s) == IF s = "gate" THEN attached ELSE session["gate"] # "gone"

\* The servlet of the receiver: without a session, the messages are dropped
\* and the request is answered as if they had been handled.
Arrive(s) ==
    /\ phase[s] = "arriving"
    /\ IF Found(s)
       THEN /\ phase' = [phase EXCEPT ![s] = "handling"]
            /\ UNCHANGED <<todo, dropped>>
       ELSE /\ phase' = [phase EXCEPT ![s] = "answered"]
            /\ dropped' = [dropped EXCEPT ![s] = @ \cup ToSet(todo[s])]
            /\ todo' = [todo EXCEPT ![s] = <<>>]
    /\ UNCHANGED <<handled, jobVars, queueVars, statusVars>>

\* The receiver takes the next message: the box calls the business code, the
\* gate sends it to the client unless the connection has been shut down.
HandleMessage(s) ==
    /\ phase[s] = "handling"
    /\ todo[s] # <<>>
    /\ todo' = [todo EXCEPT ![s] = Tail(@)]
    /\ IF s = "box" /\ session["gate"] # "open"
       THEN /\ dropped' = [dropped EXCEPT ![s] = @ \cup {Head(todo[s])}]
            /\ UNCHANGED <<handled, faults>>
       ELSE /\ handled' = [handled EXCEPT ![s] = Append(@, Head(todo[s]))]
            /\ faults' = IF s = "gate" /\ closure = "handled" THEN faults \cup {"late"} ELSE faults
            /\ UNCHANGED dropped
    /\ UNCHANGED <<phase, session, attached, link, kill, closure, jobVars, queueVars>>

\* Mutated: the session is not shut down.
HandlerThrowsQuietly(s) ==
    /\ phase[s] = "handling"
    /\ todo[s] # <<>>
    /\ todo' = [todo EXCEPT ![s] = <<>>]
    /\ dropped' = [dropped EXCEPT ![s] = @ \cup ToSet(todo[s])]
    /\ UNCHANGED <<phase, handled, jobVars, queueVars, statusVars>>

\* Handling a message throws: the rest is dropped and the session shut down,
\* but the request is answered all the same.
HandlerThrows(s) ==
    /\ phase[s] = "handling"
    /\ todo[s] # <<>>
    /\ todo' = [todo EXCEPT ![s] = <<>>]
    /\ dropped' = [dropped EXCEPT ![s] = @ \cup ToSet(todo[s])]
    /\ Shutdown(Other(s))
    /\ UNCHANGED <<phase, handled, attached, link, closure, faults, jobVars, queueVars>>

HandleDone(s) ==
    /\ phase[s] = "handling"
    /\ todo[s] = <<>>
    /\ phase' = [phase EXCEPT ![s] = "answered"]
    /\ UNCHANGED <<todo, handled, dropped, jobVars, queueVars, statusVars>>

-------------------------------------------------------------------------------
\* The sessions and the connections between the servers

\* The client, or something else at the gate, shuts the connection down; or
\* the business code shuts the shadow session down.
ShutdownByOthers(s) ==
    /\ session[s] = "open"
    /\ Shutdown(s)
    /\ UNCHANGED <<attached, link, closure, faults, queueVars, jobVars, peerVars>>

LoseLink(s) ==
    /\ link[s]
    /\ link' = [link EXCEPT ![s] = FALSE]
    /\ UNCHANGED <<session, attached, kill, closure, faults, queueVars, jobVars, peerVars>>

\* The kill notification reaches the gate, or is lost.
Websocket_kill_notification ==
    /\ kill
    /\ kill' = FALSE
    /\ \/ link["gate"] /\ link["box"] /\ session' = SetDown("gate")
       \/ ~(link["gate"] /\ link["box"]) /\ UNCHANGED session
    /\ UNCHANGED <<attached, link, closure, faults, queueVars, jobVars, peerVars>>

\* Mutated: a job does not keep the session it works for.
DestroyDespiteJob ==
    /\ session["gate"] = "down"
    /\ phase["box"] # "handling"
    /\ session' = [session EXCEPT !["gate"] = "gone"]
    /\ closure' = IF link["gate"] /\ closure = "none" THEN "sent" ELSE closure
    /\ UNCHANGED <<attached, link, kill, faults, queueVars, jobVars, peerVars>>

\* The gate's session is destroyed once nothing refers to it: a job that is
\* being performed does, and so does a servlet that sends to the client. The
\* destructor tells the box.
DestroyGateSession ==
    /\ session["gate"] = "down"
    /\ job["gate"] = "none"
    /\ phase["box"] # "handling"
    /\ session' = [session EXCEPT !["gate"] = "gone"]
    /\ closure' = IF link["gate"] /\ closure = "none" THEN "sent" ELSE closure
    /\ UNCHANGED <<attached, link, kill, faults, queueVars, jobVars, peerVars>>

\* The closure reaches the box through the foyer: detach, mark, call back.
Websocket_closure_notification ==
    /\ closure = "sent"
    /\ link["box"]
    /\ closure' = "handled"
    /\ attached' = FALSE
    /\ session' = SetDown("box")
    /\ UNCHANGED <<link, kill, faults, queueVars, jobVars, peerVars>>

\* Mutated: only the connection to the foyer is checked.
DetachIfFoyerLost ==
    /\ ~link["box"]
    /\ attached
    /\ attached' = FALSE
    /\ closure' = "detached"
    /\ UNCHANGED <<session, link, kill, faults, queueVars, jobVars, peerVars>>

\* The timer of the box has found that the gate cannot be reached: it detaches
\* the shadow session, ...
ping_timer_detach ==
    /\ ~(link["gate"] /\ link["box"])
    /\ attached
    /\ attached' = FALSE
    /\ closure' = "detached"
    /\ UNCHANGED <<session, link, kill, faults, queueVars, jobVars, peerVars>>

\* ... and, when the business code is done with the sessions detached before
\* it, marks it and calls back.
ping_timer_close ==
    /\ closure = "detached"
    /\ closure' = "handled"
    /\ session' = SetDown("box")
    /\ UNCHANGED <<attached, link, kill, faults, queueVars, jobVars, peerVars>>

-------------------------------------------------------------------------------
Performing(s) == BeginJob(s) \/ SendBatch(s) \/ ReceiveResponse(s) \/ ReceiveFailure(s)

Receiving(s) ==
    Forward(s) \/ LoseRequest(s) \/ Arrive(s) \/ HandleMessage(s) \/ HandlerThrows(s) \/ HandleDone(s)

Closing ==
    \/ Websocket_kill_notification
    \/ DestroyGateSession
    \/ Websocket_closure_notification
    \/ ping_timer_detach
    \/ ping_timer_close

Next ==
    \/ on_sync_data_message
    \/ BeginSend
    \/ EndSend
    \/ \E s \in Sides : Performing(s)
    \/ \E s \in Sides : Receiving(s)
    \/ \E s \in Sides : ShutdownByOthers(s)
    \/ \E s \in Sides : LoseLink(s)
    \/ Closing

Spec == Init /\ [][Next]_vars

\* The dispatchers perform the jobs they have, callbacks return, references go
\* and the timer comes round.
Fairness ==
    /\ WF_vars(EndSend)
    /\ \A s \in Sides : WF_vars(Performing(s)) /\ WF_vars(Receiving(s))
    /\ WF_vars(Websocket_kill_notification)
    /\ WF_vars(DestroyGateSession)
    /\ WF_vars(Websocket_closure_notification)
    /\ WF_vars(ping_timer_detach)
    /\ WF_vars(ping_timer_close)

FairSpec == Spec /\ Fairness

-------------------------------------------------------------------------------
\* Properties

LinksUp == link["gate"] /\ link["box"]

(***************************************************************************)
(* m_delivery_job_active, whatever it is at first, tells whether the spare *)
(* job is queued or being performed: it is never queued twice, the job     *)
(* never finds the flag cleared, and only the job of a session that has    *)
(* been shut down, having failed, leaves it set.  So a message that has    *)
(* been accepted is never left in the queue of an open session with no job *)
(* to take it: the job looks again, under the mutex, before it clears the  *)
(* flag.                                                                   *)
(***************************************************************************)
NothingStranded ==
    /\ "assertion" \notin faults
    /\ \A s \in Sides :
        LET queued == jobs[s] + (IF job[s] = "none" THEN 0 ELSE 1) IN
        /\ queued <= 1
        /\ queued = 1 => spare[s] /\ active[s]
        /\ session[s] = "open" =>
            /\ spare[s] /\ active[s] => queued = 1
            /\ pending[s] # <<>> => queued = 1

(***************************************************************************)
(* Messages are handled in the order they were accepted in, each once, and *)
(* none is skipped: a message is dropped only when the receiving session   *)
(* has been shut down or is not there, although the request that carried   *)
(* it has then been answered as a success.                                 *)
(***************************************************************************)
InOrder ==
    \A s \in Sides :
        /\ \A i, j \in DOMAIN handled[s] : i < j => handled[s][i] < handled[s][j]
        /\ \A i \in DOMAIN handled[s] : \A m \in accepted[s] :
            m < handled[s][i] => m \in ToSet(handled[s]) \cup dropped[s]
        /\ ToSet(handled[s]) \cap dropped[s] = {}
        /\ dropped[s] # {} => session[Other(s)] # "open" \/ (s = "gate" /\ ~attached)

\* The messages of s on their way: what its request still carries, what its job
\* is about to send, and what waits for the next one.
InTransit(s) == todo[s] \o (IF job[s] = "ready" THEN batch[s] ELSE <<>>) \o pending[s]

\* Both sessions are open and, for the messages of the client, the box finds its.
Up(s) == session["gate"] = "open" /\ session["box"] = "open" /\ (s = "gate" => attached)

Channel(s) ==
    INSTANCE MessageChannel WITH
        Data     <- Messages(s),
        sent     <- accepted[s],
        queue    <- InTransit(s),
        received <- handled[s],
        up       <- Up(s)

(***************************************************************************)
(* Each way is a message channel: every step takes a message into it, or   *)
(* out of it at the other end, or breaks it, or leaves it as it is.  Jobs  *)
(* and batches, requests and their answers do not show, and a batch that a *)
(* job has lost is never overtaken by what was accepted before it.         *)
(***************************************************************************)
ImplementsChannel ==
    /\ \A s \in Sides : Channel(s)!Init
    /\ [][\A s \in Sides : Channel(s)!Next \/ UNCHANGED Channel(s)!vars]_vars

(***************************************************************************)
(* While the servers stay connected, no message of the client is handled   *)
(* by the box after the closure of its connection was: the job that waits  *)
(* for the box keeps the session at the gate, whose destructor sends the   *)
(* closure.                                                                *)
(***************************************************************************)
ClosureComesLast == "late" \in faults => ~LinksUp

(***************************************************************************)
(* A message that has been accepted is handled by the other side, unless   *)
(* one of the two sessions is shut down.                                   *)
(***************************************************************************)
AcceptedIsHandled ==
    \A s \in Sides : \A m \in Messages(s) :
        m \in accepted[s] ~>
            \/ m \in ToSet(handled[s])
            \/ \E t \in Sides : session[t] # "open"

(***************************************************************************)
(* The business code of the box learns of every session that is destroyed  *)
(* at the gate, from its closure or, if that is lost, from the timer.      *)
(***************************************************************************)
ClosureIsReported == session["gate"] = "gone" ~> closure = "handled"

(***************************************************************************)
(* A shadow session that has been shut down takes the client's session     *)
(* with it, while the servers stay connected.                              *)
(***************************************************************************)
ShutdownReachesGate == session["box"] = "down" ~> session["gate"] # "open" \/ ~LinksUp

===============================================================================
