----------------------------- MODULE DeliveryProofs -----------------------------
(***************************************************************************)
(* However many messages are sent, whichever of the two sessions is shut   *)
(* down and whichever connection is lost: no accepted message is left in   *)
(* the queue of an open session with no job to take it, messages are       *)
(* handled in order, none is skipped without a reason, and none is handled *)
(* after the closure while the servers stay connected.  Each way is a      *)
(* MessageChannel.                                                         *)
(***************************************************************************)
EXTENDS Delivery, SequenceTheorems, TLAPS

\* TypeOK in three parts: what says where things stand, the data of each side,
\* and that the data are functions of the sides.
StatusType ==
    /\ session \in [Sides -> {"open", "down", "gone"}]
    /\ attached \in BOOLEAN
    /\ link \in [Sides -> BOOLEAN]
    /\ sending \in BOOLEAN
    /\ spare \in [Sides -> BOOLEAN]
    /\ active \in [Sides -> BOOLEAN]
    /\ jobs \in [Sides -> Nat]
    /\ job \in [Sides -> {"none", "ready", "waiting"}]
    /\ phase \in [Sides -> {"idle", "at_foyer", "arriving", "handling", "answered", "lost"}]
    /\ kill \in BOOLEAN
    /\ closure \in {"none", "sent", "detached", "handled"}
    /\ faults \subseteq {"assertion", "late"}

DataType(s) ==
    /\ offered[s] \in 0..MaxMessages[s]
    /\ accepted[s] \subseteq Messages(s)
    /\ pending[s] \in Seq(Messages(s))
    /\ batch[s] \in Seq(Messages(s))
    /\ todo[s] \in Seq(Messages(s))
    /\ handled[s] \in Seq(Messages(s))
    /\ dropped[s] \subseteq Messages(s)

Domains ==
    /\ offered \in [Sides -> Nat]
    /\ accepted \in [Sides -> SUBSET Nat]
    /\ dropped \in [Sides -> SUBSET Nat]
    /\ pending \in [Sides -> Seq(Nat)]
    /\ batch \in [Sides -> Seq(Nat)]
    /\ todo \in [Sides -> Seq(Nat)]
    /\ handled \in [Sides -> Seq(Nat)]

\* A queue is never longer than the code allows, and send() never offers more
\* than the bound.
WithinBounds ==
    /\ Len(pending["gate"]) <= MaxPending
    /\ sending => offered["box"] < MaxMessages["box"]

TypeInv == StatusType /\ Domains /\ WithinBounds /\ \A s \in Sides : DataType(s)

\* How many jobs of s are queued or being performed.
Queued(s) == jobs[s] + (IF job[s] = "none" THEN 0 ELSE 1)

\* NothingStranded, side by side.
Accounted(s) ==
    /\ Queued(s) <= 1
    /\ Queued(s) = 1 => spare[s] /\ active[s]
    /\ session[s] = "open" =>
        /\ spare[s] /\ active[s] => Queued(s) = 1
        /\ pending[s] # <<>> => Queued(s) = 1

\* While the servers are connected, a request of the gate has its job, and a
\* closure the end of its session.
LastInv ==
    /\ LinksUp =>
        /\ \A s \in Sides : phase[s] # "lost"
        /\ job["gate"] = "none" => phase["gate"] = "idle"
        /\ closure # "none" => session["gate"] = "gone"
        /\ "late" \notin faults
    /\ session["gate"] = "gone" => job["gate"] = "none"

-------------------------------------------------------------------------------
\* The parts of TypeInv make TypeOK.
LEMMA TypesSuffice == TypeInv => TypeOK
BY DEF TypeInv, StatusType, DataType, WithinBounds, TypeOK

\* The initial states are typed.
LEMMA TypeInit == Init => TypeInv
<1> SUFFICES ASSUME Init PROVE TypeInv
  OBVIOUS
<1>1. \A S : <<>> \in Seq(S) /\ Len(<<>>) = 0
  OBVIOUS
<1>2. <<>> \in Seq(Nat) /\ {} \in SUBSET Nat
  OBVIOUS
<1>3. MaxMessages \in [Sides -> Nat] /\ MaxPending \in Nat
  BY BoundsAssumption
<1>4. StatusType
  BY DEF Init, StatusType, Sides
<1>5. Domains
  BY <1>2 DEF Init, Domains, Sides
<1>6. WithinBounds
  BY <1>1, <1>3 DEF Init, WithinBounds, Sides
<1>7. ASSUME NEW s \in Sides PROVE DataType(s)
  BY <1>1, <1>3 DEF Init, DataType, Messages
<1>8. QED
  BY <1>4, <1>5, <1>6, <1>7 DEF TypeInv

\* What shutting a session down does to the types.
LEMMA ShutdownType ==
    ASSUME NEW s \in Sides, StatusType, Shutdown(s)
    PROVE  session' \in [Sides -> {"open", "down", "gone"}] /\ kill' \in BOOLEAN
<1>1. KillAfterShutdown(s) \in BOOLEAN
  BY DEF KillAfterShutdown
<1>2. QED
  BY <1>1 DEF Shutdown, SetDown, StatusType

\* What making sure of a job does to the types.
LEMMA EnsureJobType ==
    ASSUME NEW s \in Sides, StatusType, EnsureJob(s)
    PROVE  /\ spare' \in [Sides -> BOOLEAN]
           /\ active' \in [Sides -> BOOLEAN]
           /\ jobs' \in [Sides -> Nat]
BY DEF EnsureJob, StatusType

\* What a job that fails does to the types.
LEMMA FailJobType ==
    ASSUME NEW s \in Sides, StatusType, FailJob(s)
    PROVE  /\ session' \in [Sides -> {"open", "down", "gone"}]
           /\ kill' \in BOOLEAN
           /\ job' \in [Sides -> {"none", "ready", "waiting"}]
<1>1. job' \in [Sides -> {"none", "ready", "waiting"}]
  BY DEF FailJob, StatusType
<1>2. QED
  BY <1>1, ShutdownType DEF FailJob

\* Every step keeps the types of what says where things stand, ...
LEMMA StatusStep == TypeInv /\ NothingStranded /\ [Next]_vars => StatusType'
<1> SUFFICES ASSUME TypeInv, NothingStranded, [Next]_vars PROVE StatusType'
  OBVIOUS
<1> USE DEF Sides, StatusType
<1>t. StatusType
  BY DEF TypeInv
<1>2. CASE on_sync_data_message
  <2>1. /\ spare' \in [Sides -> BOOLEAN]
        /\ active' \in [Sides -> BOOLEAN]
        /\ jobs' \in [Sides -> Nat]
    BY <1>t, <1>2, EnsureJobType DEF on_sync_data_message
  <2>2. session' \in [Sides -> {"open", "down", "gone"}] /\ kill' \in BOOLEAN
    <3>1. CASE Shutdown("gate")
      BY <1>t, <3>1, ShutdownType
    <3>2. CASE UNCHANGED <<session, kill>>
      BY <1>t, <3>2
    <3>3. QED
      BY <1>2, <3>1, <3>2 DEF on_sync_data_message
  <2>3. QED
    BY <1>t, <1>2, <2>1, <2>2 DEF on_sync_data_message, jobVars, peerVars
<1>3. CASE BeginSend
  BY <1>t, <1>3 DEF BeginSend, jobVars, statusVars, peerVars
<1>4. CASE EndSend
  <2>1. /\ spare' \in [Sides -> BOOLEAN]
        /\ active' \in [Sides -> BOOLEAN]
        /\ jobs' \in [Sides -> Nat]
    BY <1>t, <1>4, EnsureJobType DEF EndSend
  <2>2. QED
    BY <1>t, <1>4, <2>1 DEF EndSend, jobVars, statusVars, peerVars
<1>5. CASE \E s \in Sides : BeginJob(s)
  <2>1. PICK s \in Sides : BeginJob(s)
    BY <1>5
  <2>2. CASE SwapPending(s) /\ UNCHANGED <<session, kill, faults>>
    <3>1. active' \in [Sides -> BOOLEAN]
      BY <1>t, <2>2 DEF SwapPending
    <3>2. job' \in [Sides -> {"none", "ready", "waiting"}]
      BY <1>t, <2>2 DEF SwapPending
    <3>3. QED
      BY <1>t, <2>1, <2>2, <3>1, <3>2 DEF BeginJob, peerVars
  <2>3. CASE FailJob(s) /\ UNCHANGED <<pending, active>> /\ faults' \subseteq faults \cup {"assertion"}
    <3>1. /\ session' \in [Sides -> {"open", "down", "gone"}]
          /\ kill' \in BOOLEAN
          /\ job' \in [Sides -> {"none", "ready", "waiting"}]
      BY <1>t, <2>3, FailJobType
    <3>2. QED
      BY <1>t, <2>1, <2>3, <3>1 DEF BeginJob, peerVars
  <2>4. CASE UNCHANGED <<job, batch, pending, active, session, kill, faults>>
    BY <1>t, <2>1, <2>4 DEF BeginJob, peerVars
  <2>5. QED
    BY <2>1, <2>2, <2>3, <2>4 DEF BeginJob
<1>6. CASE \E s \in Sides : SendBatch(s)
  <2>1. PICK s \in Sides : SendBatch(s)
    BY <1>6
  <2>2. CASE FailJob(s) /\ UNCHANGED <<phase, todo>>
    <3>1. /\ session' \in [Sides -> {"open", "down", "gone"}]
          /\ kill' \in BOOLEAN
          /\ job' \in [Sides -> {"none", "ready", "waiting"}]
      BY <1>t, <2>2, FailJobType
    <3>2. QED
      BY <1>t, <2>1, <2>2, <3>1 DEF SendBatch, queueVars
  <2>3. CASE ~(FailJob(s) /\ UNCHANGED <<phase, todo>>)
    BY <1>t, <2>1, <2>3 DEF SendBatch, queueVars
  <2>4. QED
    BY <2>2, <2>3
<1>7. CASE \E s \in Sides : ReceiveResponse(s)
  <2>1. PICK s \in Sides : ReceiveResponse(s)
    BY <1>7
  <2>2. active' \in [Sides -> BOOLEAN]
    BY <1>t, <2>1 DEF ReceiveResponse, SwapPending
  <2>3. job' \in [Sides -> {"none", "ready", "waiting"}]
    BY <1>t, <2>1 DEF ReceiveResponse, SwapPending
  <2>4. QED
    BY <1>t, <2>1, <2>2, <2>3 DEF ReceiveResponse, statusVars
<1>8. CASE \E s \in Sides : ReceiveFailure(s)
  <2>1. PICK s \in Sides : ReceiveFailure(s)
    BY <1>8
  <2>2. /\ session' \in [Sides -> {"open", "down", "gone"}]
        /\ kill' \in BOOLEAN
        /\ job' \in [Sides -> {"none", "ready", "waiting"}]
    BY <1>t, <2>1, FailJobType DEF ReceiveFailure
  <2>3. QED
    BY <1>t, <2>1, <2>2 DEF ReceiveFailure, peerVars, queueVars
<1>9. CASE \E s \in Sides : Receiving(s)
  <2>1. PICK s \in Sides : Receiving(s)
    BY <1>9
  <2>2. CASE HandleMessage(s)
    BY <1>t, <2>2 DEF HandleMessage, queueVars, jobVars
  <2>3. CASE HandlerThrows(s)
    <3>1. Other(s) \in Sides
      BY DEF Other
    <3>2. session' \in [Sides -> {"open", "down", "gone"}] /\ kill' \in BOOLEAN
      BY <1>t, <2>3, <3>1, ShutdownType DEF HandlerThrows
    <3>3. QED
      BY <1>t, <2>3, <3>2 DEF HandlerThrows, queueVars, jobVars
  <2>4. CASE Forward(s)
    BY <1>t, <2>4 DEF Forward, queueVars, jobVars, statusVars
  <2>5. CASE LoseRequest(s)
    BY <1>t, <2>5 DEF LoseRequest, queueVars, jobVars, statusVars
  <2>6. CASE HandleDone(s)
    BY <1>t, <2>6 DEF HandleDone, queueVars, jobVars, statusVars
  <2>7. CASE Arrive(s)
    BY <1>t, <2>7 DEF Arrive, queueVars, jobVars, statusVars
  <2>8. QED
    BY <2>1, <2>2, <2>3, <2>4, <2>5, <2>6, <2>7 DEF Receiving
<1>10. CASE \E s \in Sides : ShutdownByOthers(s) \/ LoseLink(s)
  <2>1. PICK s \in Sides : ShutdownByOthers(s) \/ LoseLink(s)
    BY <1>10
  <2>2. CASE ShutdownByOthers(s)
    <3>1. session' \in [Sides -> {"open", "down", "gone"}] /\ kill' \in BOOLEAN
      BY <1>t, <2>2, ShutdownType DEF ShutdownByOthers
    <3>2. QED
      BY <1>t, <2>2, <3>1 DEF ShutdownByOthers, queueVars, jobVars, peerVars
  <2>3. CASE LoseLink(s)
    BY <1>t, <2>3 DEF LoseLink, queueVars, jobVars, peerVars
  <2>4. QED
    BY <2>1, <2>2, <2>3
<1>11. CASE Closing
  <2>1. CASE Websocket_kill_notification
    BY <1>t, <2>1 DEF Websocket_kill_notification, SetDown, queueVars, jobVars, peerVars
  <2>2. CASE DestroyGateSession
    BY <1>t, <2>2 DEF DestroyGateSession, queueVars, jobVars, peerVars
  <2>3. CASE Websocket_closure_notification
    BY <1>t, <2>3 DEF Websocket_closure_notification, SetDown, queueVars, jobVars, peerVars
  <2>4. CASE ping_timer_detach
    BY <1>t, <2>4 DEF ping_timer_detach, queueVars, jobVars, peerVars
  <2>5. CASE ping_timer_close
    BY <1>t, <2>5 DEF ping_timer_close, SetDown, queueVars, jobVars, peerVars
  <2>6. QED
    BY <1>11, <2>1, <2>2, <2>3, <2>4, <2>5 DEF Closing
<1>12. CASE UNCHANGED vars
  BY <1>t, <1>12 DEF vars
<1>13. QED
  BY <1>2, <1>3, <1>4, <1>5, <1>6, <1>7, <1>8, <1>9, <1>10, <1>11, <1>12 DEF Next, Performing

\* ... the data functions of the sides, ...
LEMMA DomainsStep == TypeInv /\ [Next]_vars => Domains'
<1> SUFFICES ASSUME TypeInv, [Next]_vars PROVE Domains'
  OBVIOUS
<1> USE DEF Sides, Domains
<1>t. Domains
  BY DEF TypeInv
<1>q. <<>> \in Seq(Nat)
  OBVIOUS
<1>2. CASE on_sync_data_message
  <2> DEFINE m == offered["gate"] + 1
  <2>1. m \in Nat /\ Append(pending["gate"], m) \in Seq(Nat)
    BY <1>t
  <2>2. pending' \in [Sides -> Seq(Nat)]
    BY <1>t, <1>2, <2>1 DEF on_sync_data_message, Enqueue
  <2>3. accepted' \in [Sides -> SUBSET Nat]
    BY <1>t, <1>2, <2>1 DEF on_sync_data_message, Enqueue
  <2>4. QED
    BY <1>t, <1>2, <2>1, <2>2, <2>3 DEF on_sync_data_message, jobVars, peerVars
<1>3. CASE BeginSend
  BY <1>t, <1>3 DEF BeginSend, jobVars, peerVars
<1>4. CASE EndSend
  BY <1>t, <1>4 DEF EndSend, Enqueue, jobVars, peerVars
<1>5. CASE \E s \in Sides : BeginJob(s)
  <2>1. PICK s \in Sides : BeginJob(s)
    BY <1>5
  <2>2. pending' \in [Sides -> Seq(Nat)]
    BY <1>t, <1>q, <2>1 DEF BeginJob, SwapPending
  <2>3. batch' \in [Sides -> Seq(Nat)]
    BY <1>t, <1>q, <2>1 DEF BeginJob, FailJob, SwapPending
  <2>4. QED
    BY <1>t, <2>1, <2>2, <2>3 DEF BeginJob, peerVars
<1>6. CASE \E s \in Sides : SendBatch(s)
  BY <1>t, <1>q, <1>6 DEF SendBatch, FailJob, queueVars
<1>7. CASE \E s \in Sides : ReceiveResponse(s)
  BY <1>t, <1>q, <1>7 DEF ReceiveResponse, SwapPending
<1>8. CASE \E s \in Sides : ReceiveFailure(s)
  BY <1>t, <1>q, <1>8 DEF ReceiveFailure, FailJob, peerVars, queueVars
<1>9. CASE \E s \in Sides : Receiving(s)
  <2>1. PICK s \in Sides : Receiving(s)
    BY <1>9
  <2>2. ToSet(todo[s]) \subseteq Nat
    BY <1>t DEF ToSet
  <2>3. todo[s] # <<>> => Head(todo[s]) \in Nat /\ Tail(todo[s]) \in Seq(Nat)
    BY <1>t
  <2>4. CASE HandleMessage(s)
    <3>1. todo[s] # <<>> /\ Append(handled[s], Head(todo[s])) \in Seq(Nat)
      BY <1>t, <2>3, <2>4 DEF HandleMessage
    <3>2. todo' \in [Sides -> Seq(Nat)]
      BY <1>t, <2>3, <2>4, <3>1 DEF HandleMessage
    <3>3. handled' \in [Sides -> Seq(Nat)]
      BY <1>t, <2>4, <3>1 DEF HandleMessage
    <3>4. dropped' \in [Sides -> SUBSET Nat]
      BY <1>t, <2>3, <2>4, <3>1 DEF HandleMessage
    <3>5. QED
      BY <1>t, <2>4, <3>2, <3>3, <3>4 DEF HandleMessage, jobVars, queueVars
  <2>5. CASE HandlerThrows(s)
    BY <1>t, <1>q, <2>2, <2>5 DEF HandlerThrows, jobVars, queueVars
  <2>6. CASE Arrive(s)
    <3>1. todo' \in [Sides -> Seq(Nat)]
      BY <1>t, <1>q, <2>6 DEF Arrive
    <3>2. dropped' \in [Sides -> SUBSET Nat]
      BY <1>t, <2>2, <2>6 DEF Arrive
    <3>3. QED
      BY <1>t, <2>6, <3>1, <3>2 DEF Arrive, jobVars, queueVars
  <2>7. CASE Forward(s) \/ LoseRequest(s) \/ HandleDone(s)
    BY <1>t, <2>7 DEF Forward, LoseRequest, HandleDone, jobVars, queueVars
  <2>8. QED
    BY <2>1, <2>4, <2>5, <2>6, <2>7 DEF Receiving
<1>10. CASE \E s \in Sides : ShutdownByOthers(s) \/ LoseLink(s)
  BY <1>t, <1>10 DEF ShutdownByOthers, LoseLink, queueVars, jobVars, peerVars
<1>11. CASE Closing
  BY <1>t, <1>11 DEF Closing, Websocket_kill_notification, DestroyGateSession,
     Websocket_closure_notification, ping_timer_detach, ping_timer_close, queueVars, jobVars, peerVars
<1>12. CASE UNCHANGED vars
  BY <1>t, <1>12 DEF vars
<1>13. QED
  BY <1>2, <1>3, <1>4, <1>5, <1>6, <1>7, <1>8, <1>9, <1>10, <1>11, <1>12 DEF Next, Performing

\* ... the queues within their bounds ...
LEMMA BoundsStep == TypeInv /\ [Next]_vars => WithinBounds'
<1> SUFFICES ASSUME TypeInv, [Next]_vars PROVE WithinBounds'
  OBVIOUS
<1> USE DEF Sides, WithinBounds
<1>t. WithinBounds /\ Domains
  BY DEF TypeInv
<1>b. MaxMessages \in [Sides -> Nat] /\ MaxPending \in Nat
  BY BoundsAssumption
<1>e. Len(<<>>) = 0
  OBVIOUS
<1>2. CASE on_sync_data_message
  <2>1. \A m : Len(Append(pending["gate"], m)) = Len(pending["gate"]) + 1
    BY <1>t DEF Domains
  <2>2. Len(pending["gate"]) \in Nat
    BY <1>t DEF Domains
  <2>3. QED
    BY <1>t, <1>b, <1>2, <2>1, <2>2 DEF on_sync_data_message, Enqueue, HasRoom, Domains
<1>3. CASE BeginSend
  BY <1>t, <1>3 DEF BeginSend
<1>4. CASE EndSend
  BY <1>t, <1>4 DEF EndSend, Enqueue, Domains
<1>5. CASE \E s \in Sides : BeginJob(s)
  BY <1>t, <1>b, <1>e, <1>5 DEF BeginJob, SwapPending, Domains
<1>6. CASE \E s \in Sides : SendBatch(s)
  BY <1>t, <1>6 DEF SendBatch, queueVars
<1>7. CASE \E s \in Sides : ReceiveResponse(s)
  BY <1>t, <1>b, <1>e, <1>7 DEF ReceiveResponse, SwapPending, Domains
<1>8. CASE \E s \in Sides : ReceiveFailure(s)
  BY <1>t, <1>8 DEF ReceiveFailure, queueVars
<1>9. CASE \E s \in Sides : Receiving(s)
  BY <1>t, <1>9
     DEF Receiving, HandleMessage, HandlerThrows, Arrive, Forward, LoseRequest, HandleDone, queueVars
<1>10. CASE \E s \in Sides : ShutdownByOthers(s) \/ LoseLink(s)
  BY <1>t, <1>10 DEF ShutdownByOthers, LoseLink, queueVars
<1>11. CASE Closing
  BY <1>t, <1>11 DEF Closing, Websocket_kill_notification, DestroyGateSession,
     Websocket_closure_notification, ping_timer_detach, ping_timer_close, queueVars
<1>12. CASE UNCHANGED vars
  BY <1>t, <1>12 DEF vars
<1>13. QED
  BY <1>2, <1>3, <1>4, <1>5, <1>6, <1>7, <1>8, <1>9, <1>10, <1>11, <1>12 DEF Next, Performing

\* ... and the data of each side messages that were offered.
LEMMA DataStep ==
    ASSUME TypeInv, [Next]_vars, NEW u \in Sides
    PROVE  DataType(u)'
<1> USE DEF DataType
<1>t. DataType(u) /\ Domains
  BY DEF TypeInv
<1>b. MaxMessages \in [Sides -> Nat]
  BY BoundsAssumption
<1>q. \A S : <<>> \in Seq(S)
  OBVIOUS
<1>2. CASE on_sync_data_message \/ EndSend
  <2> DEFINE m == offered[u] + 1
  <2>1. CASE /\ m \in Messages(u)
             /\ offered' = [offered EXCEPT ![u] = m]
             /\ Enqueue(u, m)
             /\ UNCHANGED <<jobVars, peerVars>>
    <3>1. offered'[u] \in 0..MaxMessages[u]
      BY <1>t, <1>b, <2>1 DEF Domains, Messages
    <3>2. pending'[u] \in Seq(Messages(u))
      BY <1>t, <2>1 DEF Domains, Enqueue
    <3>3. accepted'[u] \subseteq Messages(u)
      BY <1>t, <2>1 DEF Domains, Enqueue
    <3>4. QED
      BY <1>t, <2>1, <3>1, <3>2, <3>3 DEF jobVars, peerVars
  <2>2. CASE UNCHANGED <<pending, accepted, jobVars, peerVars>> /\ offered'[u] \in 0..MaxMessages[u]
    BY <1>t, <2>2 DEF jobVars, peerVars
  <2>3. CASE offered'[u] = offered[u] /\ pending'[u] = pending[u] /\ accepted'[u] = accepted[u]
             /\ UNCHANGED <<jobVars, peerVars>>
    BY <1>t, <2>3 DEF jobVars, peerVars
  <2>4. CASE on_sync_data_message
    <3>1. CASE u = "gate"
      BY <1>t, <1>b, <2>1, <2>2, <2>4, <3>1 DEF on_sync_data_message, Messages, Domains
    <3>2. CASE u # "gate"
      BY <1>t, <2>3, <2>4, <3>2 DEF on_sync_data_message, Enqueue, Domains
    <3>3. QED
      BY <3>1, <3>2
  <2>5. CASE EndSend
    <3>1. CASE u = "box"
      <4>1. m \in Messages(u)
        BY <1>t, <1>b, <2>5, <3>1 DEF EndSend, Messages, Domains, TypeInv, WithinBounds
      <4>2. QED
        BY <2>1, <2>5, <3>1, <4>1 DEF EndSend
    <3>2. CASE u # "box"
      BY <1>t, <2>3, <2>5, <3>2 DEF EndSend, Enqueue, Domains
    <3>3. QED
      BY <3>1, <3>2
  <2>6. QED
    BY <1>2, <2>4, <2>5
<1>3. CASE BeginSend
  BY <1>t, <1>3 DEF BeginSend, jobVars, peerVars
<1>5. CASE \E s \in Sides : BeginJob(s)
  <2>1. PICK s \in Sides : BeginJob(s)
    BY <1>5
  <2>2. pending'[u] \in Seq(Messages(u))
    <3>1. pending'[u] \in {pending[u], <<>>}
      BY <1>t, <2>1 DEF BeginJob, SwapPending, Domains
    <3>2. <<>> \in Seq(Messages(u))
      BY <1>q
    <3>3. QED
      BY <1>t, <3>1, <3>2
  <2>3. batch'[u] \in Seq(Messages(u))
    BY <1>t, <1>q, <2>1 DEF BeginJob, FailJob, SwapPending, Domains
  <2>4. QED
    BY <1>t, <2>1, <2>2, <2>3 DEF BeginJob, peerVars
<1>6. CASE \E s \in Sides : SendBatch(s)
  BY <1>t, <1>q, <1>6 DEF SendBatch, FailJob, Domains, queueVars
<1>7. CASE \E s \in Sides : ReceiveResponse(s)
  BY <1>t, <1>q, <1>7 DEF ReceiveResponse, SwapPending, Domains
<1>8. CASE \E s \in Sides : ReceiveFailure(s)
  BY <1>t, <1>q, <1>8 DEF ReceiveFailure, FailJob, Domains, peerVars, queueVars
<1>9. CASE \E s \in Sides : Receiving(s)
  <2>1. PICK s \in Sides : Receiving(s)
    BY <1>9
  <2>2. ToSet(todo[u]) \subseteq Messages(u)
    BY <1>t DEF ToSet
  <2>3. todo[u] # <<>> => Head(todo[u]) \in Messages(u) /\ Tail(todo[u]) \in Seq(Messages(u))
    BY <1>t
  <2>4. CASE HandleMessage(s)
    <3>1. CASE u = s
      <4>1. todo'[u] \in Seq(Messages(u)) /\ dropped'[u] \subseteq Messages(u)
        BY <1>t, <2>3, <2>4, <3>1 DEF HandleMessage, Domains
      <4>2. Append(handled[u], Head(todo[u])) \in Seq(Messages(u))
        BY <1>t, <2>3, <2>4, <3>1 DEF HandleMessage
      <4>3. handled'[u] \in Seq(Messages(u))
        BY <1>t, <2>4, <3>1, <4>2 DEF HandleMessage, Domains
      <4>4. QED
        BY <1>t, <2>4, <4>1, <4>3 DEF HandleMessage, jobVars, queueVars
    <3>2. CASE u # s
      BY <1>t, <2>4, <3>2 DEF HandleMessage, Domains, jobVars, queueVars
    <3>3. QED
      BY <3>1, <3>2
  <2>5. CASE HandlerThrows(s)
    BY <1>t, <1>q, <2>2, <2>5 DEF HandlerThrows, Domains, jobVars, queueVars
  <2>6. CASE Arrive(s)
    BY <1>t, <1>q, <2>2, <2>6 DEF Arrive, Domains, jobVars, queueVars
  <2>7. CASE Forward(s) \/ LoseRequest(s) \/ HandleDone(s)
    BY <1>t, <2>7 DEF Forward, LoseRequest, HandleDone, jobVars, queueVars
  <2>8. QED
    BY <2>1, <2>4, <2>5, <2>6, <2>7 DEF Receiving
<1>10. CASE \E s \in Sides : ShutdownByOthers(s) \/ LoseLink(s)
  BY <1>t, <1>10 DEF ShutdownByOthers, LoseLink, queueVars, jobVars, peerVars
<1>11. CASE Closing
  BY <1>t, <1>11 DEF Closing, Websocket_kill_notification, DestroyGateSession,
     Websocket_closure_notification, ping_timer_detach, ping_timer_close, queueVars, jobVars, peerVars
<1>12. CASE UNCHANGED vars
  BY <1>t, <1>12 DEF vars
<1>13. QED
  BY <1>2, <1>3, <1>5, <1>6, <1>7, <1>8, <1>9, <1>10, <1>11, <1>12 DEF Next, Performing

\* Every step keeps the types.
LEMMA TypeStep == TypeInv /\ NothingStranded /\ [Next]_vars => TypeInv'
BY StatusStep, DomainsStep, BoundsStep, DataStep DEF TypeInv

\* Nothing is stranded at first.
LEMMA JobsInit == Init => NothingStranded
BY DEF Init, NothingStranded, Sides

\* No request has been made at first.
LEMMA LastInit == Init => LastInv
BY DEF Init, LastInv, Sides, LinksUp

\* A job that looks at the queue goes on if there is something in it, or clears
\* the flag.
LEMMA JobsOfSwap ==
    ASSUME NEW s \in Sides, SwapPending(s), jobs'[s] = 0, spare'[s],
           pending \in [Sides -> Seq(Nat)], active \in [Sides -> BOOLEAN],
           job \in [Sides -> {"none", "ready", "waiting"}]
    PROVE  Accounted(s)'
<1>1. pending'[s] = <<>>
  BY DEF SwapPending
<1>2. CASE pending[s] = <<>>
  <2>1. job'[s] = "none" /\ active'[s] = FALSE
    BY <1>2 DEF SwapPending
  <2>2. QED
    BY <1>1, <2>1 DEF Accounted, Queued
<1>3. CASE pending[s] # <<>>
  <2>1. job'[s] = "ready"
    BY <1>3 DEF SwapPending
  <2>2. active'[s] = TRUE
    BY <1>3 DEF SwapPending
  <2>3. QED
    BY <1>1, <2>1, <2>2 DEF Accounted, Queued
<1>4. QED
  BY <1>2, <1>3

\* Every step keeps the count of the jobs.
LEMMA JobsStep == TypeInv /\ NothingStranded /\ [Next]_vars => NothingStranded'
<1> SUFFICES ASSUME TypeInv, NothingStranded, [Next]_vars PROVE NothingStranded'
  OBVIOUS
<1> USE DEF Sides
<1>0. \A s \in Sides : Accounted(s)
  BY DEF NothingStranded, Accounted, Queued
<1>1. SUFFICES "assertion" \notin faults' /\ \A s \in Sides : Accounted(s)'
  BY DEF NothingStranded, Accounted, Queued
<1>a. "assertion" \notin faults
  BY DEF NothingStranded
<1>t. /\ jobs \in [Sides -> Nat] /\ spare \in [Sides -> BOOLEAN] /\ active \in [Sides -> BOOLEAN]
      /\ job \in [Sides -> {"none", "ready", "waiting"}]
      /\ session \in [Sides -> {"open", "down", "gone"}]
      /\ pending \in [Sides -> Seq(Nat)]
  BY DEF TypeInv, StatusType, Domains
<1>2. CASE on_sync_data_message
  BY <1>0, <1>a, <1>t, <1>2
     DEF on_sync_data_message, EnsureJob, Enqueue, Shutdown, SetDown, Accounted, Queued, jobVars
<1>3. CASE BeginSend
  BY <1>0, <1>a, <1>t, <1>3 DEF BeginSend, Accounted, Queued, jobVars, statusVars
<1>4. CASE EndSend
  BY <1>0, <1>a, <1>t, <1>4 DEF EndSend, EnsureJob, Enqueue, Accounted, Queued, jobVars, statusVars
<1>5. CASE \E s \in Sides : BeginJob(s)
  <2>1. PICK s \in Sides : BeginJob(s)
    BY <1>5
  <2>2. Queued(s) = 1 /\ active[s] /\ spare[s]
    BY <1>0, <1>t, <2>1 DEF BeginJob, Accounted, Queued
  <2>3. "assertion" \notin faults'
    BY <1>a, <2>1, <2>2 DEF BeginJob
  <2>4. \A u \in Sides : u # s => Accounted(u)'
    BY <1>0, <1>t, <2>1 DEF BeginJob, FailJob, SwapPending, Shutdown, SetDown, Accounted, Queued
  <2>5. Accounted(s)'
    <3>1. CASE SwapPending(s) /\ UNCHANGED <<session, kill, faults>>
      BY <1>t, <2>1, <2>2, <3>1, JobsOfSwap DEF BeginJob, Queued
    <3>2. CASE FailJob(s)
      BY <1>t, <2>1, <2>2, <3>2 DEF BeginJob, FailJob, Shutdown, SetDown, Accounted, Queued
    <3>3. CASE session[s] = "gone" /\ UNCHANGED <<job, batch, pending, active, session, kill, faults>>
      BY <1>t, <2>1, <2>2, <3>3 DEF BeginJob, Accounted, Queued
    <3>4. QED
      BY <2>1, <2>2, <3>1, <3>2, <3>3 DEF BeginJob
  <2>6. QED
    BY <2>3, <2>4, <2>5
<1>6. CASE \E s \in Sides : SendBatch(s)
  BY <1>0, <1>a, <1>t, <1>6 DEF SendBatch, FailJob, Shutdown, SetDown, Accounted, Queued, queueVars
<1>7. CASE \E s \in Sides : ReceiveResponse(s)
  <2>1. PICK s \in Sides : ReceiveResponse(s)
    BY <1>7
  <2>2. jobs[s] = 0 /\ spare[s]
    BY <1>0, <1>t, <2>1 DEF ReceiveResponse, Accounted, Queued
  <2>3. \A u \in Sides : u # s => Accounted(u)'
    BY <1>0, <1>t, <2>1 DEF ReceiveResponse, SwapPending, Accounted, Queued, statusVars
  <2>4. Accounted(s)'
    BY <1>t, <2>1, <2>2, JobsOfSwap DEF ReceiveResponse
  <2>5. "assertion" \notin faults'
    BY <1>a, <2>1 DEF ReceiveResponse, statusVars
  <2>6. QED
    BY <2>3, <2>4, <2>5
<1>8. CASE \E s \in Sides : ReceiveFailure(s)
  BY <1>0, <1>a, <1>t, <1>8 DEF ReceiveFailure, FailJob, Shutdown, SetDown, Accounted, Queued, queueVars
<1>9. CASE \E s \in Sides : Receiving(s)
  <2>1. CASE \E s \in Sides : HandleMessage(s) \/ HandlerThrows(s)
    BY <1>0, <1>a, <1>t, <2>1
       DEF HandleMessage, HandlerThrows, Shutdown, SetDown, Accounted, Queued, queueVars, jobVars
  <2>2. CASE \E s \in Sides : Forward(s) \/ LoseRequest(s) \/ Arrive(s) \/ HandleDone(s)
    BY <1>0, <1>a, <1>t, <2>2
       DEF Forward, LoseRequest, Arrive, HandleDone, Accounted, Queued, queueVars, jobVars, statusVars
  <2>3. QED
    BY <1>9, <2>1, <2>2 DEF Receiving
<1>10. CASE \E s \in Sides : ShutdownByOthers(s) \/ LoseLink(s)
  BY <1>0, <1>a, <1>t, <1>10
     DEF ShutdownByOthers, LoseLink, Shutdown, SetDown, Accounted, Queued, queueVars, jobVars
<1>11. CASE Closing
  BY <1>0, <1>a, <1>t, <1>11 DEF Closing, Websocket_kill_notification, DestroyGateSession,
     Websocket_closure_notification, ping_timer_detach, ping_timer_close, SetDown, Accounted, Queued, queueVars, jobVars
<1>12. CASE UNCHANGED vars
  BY <1>0, <1>a, <1>12 DEF vars, Accounted, Queued
<1>13. QED
  BY <1>2, <1>3, <1>4, <1>5, <1>6, <1>7, <1>8, <1>9, <1>10, <1>11, <1>12 DEF Next, Performing

\* Every step keeps the closure behind the requests.
LEMMA LastStep == TypeInv /\ LastInv /\ [Next]_vars => LastInv'
<1> SUFFICES ASSUME TypeInv, LastInv, [Next]_vars PROVE LastInv'
  OBVIOUS
<1> USE DEF Sides, LastInv, LinksUp
<1>t. /\ job \in [Sides -> {"none", "ready", "waiting"}]
      /\ session \in [Sides -> {"open", "down", "gone"}]
      /\ link \in [Sides -> BOOLEAN]
      /\ phase \in [Sides -> {"idle", "at_foyer", "arriving", "handling", "answered", "lost"}]
  BY DEF TypeInv, StatusType, Domains
<1>2. CASE on_sync_data_message
  BY <1>t, <1>2 DEF on_sync_data_message, Shutdown, SetDown, jobVars, peerVars
<1>3. CASE BeginSend
  BY <1>t, <1>3 DEF BeginSend, jobVars, statusVars, peerVars
<1>4. CASE EndSend
  BY <1>t, <1>4 DEF EndSend, jobVars, statusVars, peerVars
<1>5. CASE \E s \in Sides : BeginJob(s)
  BY <1>t, <1>5 DEF BeginJob, FailJob, SwapPending, Shutdown, SetDown, peerVars
<1>6. CASE \E s \in Sides : SendBatch(s)
  BY <1>t, <1>6 DEF SendBatch, FailJob, Shutdown, SetDown, queueVars
<1>7. CASE \E s \in Sides : ReceiveResponse(s)
  BY <1>t, <1>7 DEF ReceiveResponse, SwapPending, statusVars
<1>8. CASE \E s \in Sides : ReceiveFailure(s)
  BY <1>t, <1>8 DEF ReceiveFailure, FailJob, Shutdown, SetDown, peerVars, queueVars, Other
<1>9. CASE \E s \in Sides : Receiving(s)
  <2>1. CASE \E s \in Sides : HandleMessage(s)
    BY <1>t, <2>1 DEF HandleMessage, jobVars
  <2>2. CASE \E s \in Sides : HandlerThrows(s)
    BY <1>t, <2>2 DEF HandlerThrows, Shutdown, SetDown, Other, jobVars
  <2>3. CASE \E s \in Sides : Forward(s) \/ LoseRequest(s) \/ Arrive(s) \/ HandleDone(s)
    BY <1>t, <2>3 DEF Forward, LoseRequest, Arrive, HandleDone, jobVars, statusVars, Other
  <2>4. QED
    BY <1>9, <2>1, <2>2, <2>3 DEF Receiving
<1>10. CASE \E s \in Sides : ShutdownByOthers(s) \/ LoseLink(s)
  BY <1>t, <1>10 DEF ShutdownByOthers, LoseLink, Shutdown, SetDown, jobVars, peerVars
<1>11. CASE Closing
  BY <1>t, <1>11 DEF Closing, Websocket_kill_notification, DestroyGateSession,
     Websocket_closure_notification, ping_timer_detach, ping_timer_close, SetDown, jobVars, peerVars
<1>12. CASE UNCHANGED vars
  BY <1>12 DEF vars
<1>13. QED
  BY <1>2, <1>3, <1>4, <1>5, <1>6, <1>7, <1>8, <1>9, <1>10, <1>11, <1>12 DEF Next, Performing

-------------------------------------------------------------------------------
\* Messages keep their order.

\* Eldest first.
Increasing(q) == \A i, j \in DOMAIN q : i < j => q[i] < q[j]

AllBelow(A, B) == \A x \in A, y \in B : x < y

\* The messages of s that have left, and those a job is about to send.
Settled(s) == ToSet(handled[s]) \cup dropped[s]
InBatch(s) == IF job[s] = "ready" THEN ToSet(batch[s]) ELSE {}

\* No job of s is left, and none will be made.
Gone(s) == session[s] # "open" /\ spare[s] /\ active[s] /\ Queued(s) = 0

\* A job and its request, which may outlive it.
Stages(s) ==
    /\ job[s] = "ready" => phase[s] = "idle"
    /\ job[s] = "waiting" => phase[s] # "idle"
    /\ job[s] = "none" /\ phase[s] # "idle" => Gone(s)
    /\ phase[s] \in {"idle", "answered"} => todo[s] = <<>>

\* From the receiver back to the queue, messages only get younger.
Ordered(s) ==
    /\ Increasing(handled[s]) /\ Increasing(todo[s])
    /\ Increasing(batch[s]) /\ Increasing(pending[s])
    /\ AllBelow(Settled(s), ToSet(todo[s]))
    /\ AllBelow(Settled(s) \cup ToSet(todo[s]), InBatch(s))
    /\ AllBelow(Settled(s) \cup ToSet(todo[s]) \cup InBatch(s), ToSet(pending[s]))
    /\ ToSet(handled[s]) \cap dropped[s] = {}
    /\ Settled(s) \cup ToSet(todo[s]) \cup InBatch(s) \cup ToSet(pending[s]) \subseteq 1..offered[s]
    /\ accepted[s] \subseteq 1..offered[s]

\* What was accepted and has not left is still to be sent, unless its job has
\* failed; then nothing younger has left or will.
Complete(s) ==
    \A m \in accepted[s] \ (Settled(s) \cup ToSet(todo[s])) :
        /\ m \in InBatch(s) \cup ToSet(pending[s]) \/ Gone(s)
        /\ \A x \in ToSet(handled[s]) \cup ToSet(todo[s]) : x < m

\* Messages are dropped for a reason.
Excused(s) == dropped[s] # {} => session[Other(s)] # "open" \/ (s = "gate" /\ ~attached)

Flow(s) == Stages(s) /\ Ordered(s) /\ Complete(s) /\ Excused(s)

\* A session that has been shut down stays so, and so does one that is detached.
Fading ==
    /\ \A s \in Sides : session[s] # "open" => session'[s] # "open"
    /\ ~attached => ~attached'

\* The data of s stay, and where its job and its request stand.
DataKept(s) ==
    /\ offered'[s] = offered[s] /\ accepted'[s] = accepted[s]
    /\ pending'[s] = pending[s] /\ batch'[s] = batch[s] /\ todo'[s] = todo[s]
    /\ handled'[s] = handled[s] /\ dropped'[s] = dropped[s]
JobKept(s) ==
    /\ job'[s] = job[s] /\ phase'[s] = phase[s]
    /\ jobs'[s] = jobs[s] /\ spare'[s] = spare[s] /\ active'[s] = active[s]

\* The empty sequence.
LEMMA EmptyFacts == Increasing(<<>>) /\ ToSet(<<>>) = {}
BY DEF Increasing, ToSet

\* A younger message at the end of a sequence.
LEMMA AppendFacts ==
    ASSUME NEW q \in Seq(Nat), NEW m \in Nat
    PROVE  /\ ToSet(Append(q, m)) = ToSet(q) \cup {m}
           /\ Increasing(q) /\ AllBelow(ToSet(q), {m}) => Increasing(Append(q, m))
<1> DEFINE a == Append(q, m)
<1>1. /\ a \in Seq(Nat) /\ Len(a) = Len(q) + 1 /\ Len(q) \in Nat
      /\ \A i \in 1..Len(q) : a[i] = q[i]
      /\ a[Len(q) + 1] = m
      /\ DOMAIN a = 1..(Len(q) + 1) /\ DOMAIN q = 1..Len(q)
  BY AppendProperties
<1>2. ToSet(a) = ToSet(q) \cup {m}
  BY <1>1 DEF ToSet
<1>3. ASSUME Increasing(q), AllBelow(ToSet(q), {m}) PROVE Increasing(a)
  <2>1. \A i \in DOMAIN q : q[i] < m
    BY <1>3 DEF AllBelow, ToSet
  <2>2. SUFFICES ASSUME NEW i \in DOMAIN a, NEW j \in DOMAIN a, i < j PROVE a[i] < a[j]
    BY DEF Increasing
  <2>3. i \in DOMAIN q
    BY <1>1, <2>2
  <2>4. CASE j = Len(q) + 1
    BY <1>1, <2>1, <2>3, <2>4
  <2>5. CASE j # Len(q) + 1
    BY <1>1, <1>3, <2>2, <2>3, <2>5 DEF Increasing
  <2>6. QED
    BY <2>4, <2>5
<1>4. QED
  BY <1>2, <1>3

\* The head of an increasing sequence is its eldest message.
LEMMA TailFacts ==
    ASSUME NEW q \in Seq(Nat), q # <<>>
    PROVE  /\ ToSet(q) = {Head(q)} \cup ToSet(Tail(q))
           /\ Increasing(q) => Increasing(Tail(q)) /\ AllBelow({Head(q)}, ToSet(Tail(q)))
<1> DEFINE t == Tail(q)
<1>1. /\ Len(q) \in Nat /\ Len(q) # 0 /\ DOMAIN q = 1..Len(q)
      /\ Head(q) = q[1] /\ DOMAIN t = 1..(Len(q) - 1)
      /\ \A i \in 1..(Len(q) - 1) : t[i] = q[i + 1]
  BY HeadTailProperties, EmptySeq, LenProperties
<1>2. ToSet(q) = {Head(q)} \cup ToSet(t)
  <2>1. ASSUME NEW i \in DOMAIN q PROVE q[i] \in {Head(q)} \cup ToSet(t)
    <3>1. CASE i = 1
      BY <1>1, <3>1
    <3>2. CASE i # 1
      <4>1. i - 1 \in DOMAIN t /\ t[i - 1] = q[i]
        BY <1>1, <3>2
      <4>2. QED
        BY <4>1 DEF ToSet
    <3>3. QED
      BY <3>1, <3>2
  <2>2. ASSUME NEW i \in DOMAIN t PROVE t[i] \in ToSet(q)
    <3>1. i + 1 \in DOMAIN q /\ t[i] = q[i + 1]
      BY <1>1
    <3>2. QED
      BY <3>1 DEF ToSet
  <2>3. Head(q) \in ToSet(q)
    BY <1>1 DEF ToSet
  <2>4. QED
    BY <2>1, <2>2, <2>3 DEF ToSet
<1>3. ASSUME Increasing(q) PROVE Increasing(t) /\ AllBelow({Head(q)}, ToSet(t))
  <2>1. \A i, j \in DOMAIN q : i < j => q[i] < q[j]
    BY <1>3 DEF Increasing
  <2>2. Increasing(t)
    BY <1>1, <2>1 DEF Increasing
  <2>3. \A i \in DOMAIN t : Head(q) < t[i]
    BY <1>1, <2>1
  <2>4. QED
    BY <2>2, <2>3 DEF AllBelow, ToSet
<1>4. QED
  BY <1>2, <1>3

\* A step that leaves the messages of s alone.
LEMMA FlowKept ==
    ASSUME NEW s \in Sides, Flow(s), DataKept(s), JobKept(s), Fading
    PROVE  Flow(s)'
<1>1. Gone(s) => Gone(s)'
  BY DEF Fading, JobKept, Gone, Queued
<1>2. Settled(s)' = Settled(s) /\ InBatch(s)' = InBatch(s)
  BY DEF DataKept, JobKept, Settled, InBatch, ToSet
<1>3. /\ ToSet(todo[s])' = ToSet(todo[s]) /\ ToSet(pending[s])' = ToSet(pending[s])
      /\ ToSet(handled[s])' = ToSet(handled[s])
  BY DEF DataKept, ToSet
<1>4. Stages(s)'
  BY <1>1 DEF Flow, Stages, DataKept, JobKept
<1>5. Ordered(s)'
  BY <1>2, <1>3 DEF Flow, Ordered, DataKept
<1>6. Complete(s)'
  BY <1>1, <1>2, <1>3 DEF Flow, Complete, DataKept
<1>7. Excused(s)'
  BY DEF Flow, Excused, Fading, DataKept, Other, Sides
<1>8. QED
  BY <1>4, <1>5, <1>6, <1>7 DEF Flow

\* No message has been offered at first.
LEMMA FlowInit == Init => \A s \in Sides : Flow(s)
<1> SUFFICES ASSUME Init, NEW s \in Sides PROVE Flow(s)
  OBVIOUS
<1>1. /\ pending[s] = <<>> /\ batch[s] = <<>> /\ todo[s] = <<>> /\ handled[s] = <<>>
      /\ accepted[s] = {} /\ dropped[s] = {} /\ offered[s] = 0
      /\ job[s] = "none" /\ phase[s] = "idle"
  BY DEF Init
<1>2. Settled(s) = {} /\ InBatch(s) = {}
  BY <1>1, EmptyFacts DEF Settled, InBatch
<1>3. Stages(s) /\ Complete(s) /\ Excused(s)
  BY <1>1 DEF Stages, Complete, Excused
<1>4. Ordered(s)
  BY <1>1, <1>2, EmptyFacts DEF Ordered, AllBelow
<1>5. QED
  BY <1>3, <1>4 DEF Flow

\* Sessions only ever go.
LEMMA FadingStep == TypeInv /\ [Next]_vars => Fading
<1> SUFFICES ASSUME TypeInv, [Next]_vars PROVE Fading
  OBVIOUS
<1> USE DEF Sides, Fading
<1>t. session \in [Sides -> {"open", "down", "gone"}]
  BY DEF TypeInv, StatusType
<1>1. ASSUME NEW s \in Sides, Shutdown(s) PROVE \A u \in Sides : session[u] # "open" => session'[u] # "open"
  BY <1>t, <1>1 DEF Shutdown, SetDown
<1>2. CASE on_sync_data_message
  BY <1>1, <1>2 DEF on_sync_data_message
<1>3. CASE BeginSend \/ EndSend
  BY <1>3 DEF BeginSend, EndSend, statusVars
<1>4. CASE \E s \in Sides : Performing(s)
  <2>1. PICK s \in Sides : Performing(s)
    BY <1>4
  <2>2. UNCHANGED attached /\ (Shutdown(s) \/ UNCHANGED session)
    BY <2>1 DEF Performing, BeginJob, SendBatch, ReceiveResponse, ReceiveFailure, FailJob, statusVars
  <2>3. QED
    BY <1>1, <2>2
<1>5. CASE \E s \in Sides : Receiving(s)
  <2>1. PICK s \in Sides : Receiving(s)
    BY <1>5
  <2>2. Other(s) \in Sides
    BY DEF Other
  <2>3. UNCHANGED attached /\ (Shutdown(Other(s)) \/ UNCHANGED session)
    BY <2>1
       DEF Receiving, Forward, LoseRequest, Arrive, HandleMessage, HandlerThrows, HandleDone, statusVars
  <2>4. QED
    BY <1>1, <2>2, <2>3
<1>6. CASE \E s \in Sides : ShutdownByOthers(s) \/ LoseLink(s)
  BY <1>1, <1>6 DEF ShutdownByOthers, LoseLink
<1>7. CASE Closing
  BY <1>t, <1>7 DEF Closing, Websocket_kill_notification, DestroyGateSession,
     Websocket_closure_notification, ping_timer_detach, ping_timer_close, SetDown
<1>8. CASE UNCHANGED vars
  BY <1>8 DEF vars
<1>9. QED
  BY <1>2, <1>3, <1>4, <1>5, <1>6, <1>7, <1>8 DEF Next

\* A message joins the queue of s.
LEMMA FlowEnqueued ==
    ASSUME NEW s \in Sides, TypeInv, Flow(s), Fading, EnsureJob(s),
           offered' = [offered EXCEPT ![s] = offered[s] + 1],
           Enqueue(s, offered[s] + 1),
           UNCHANGED <<jobVars, peerVars>>
    PROVE  Flow(s)'
<1> DEFINE m == offered[s] + 1
<1>t. Domains /\ StatusType
  BY DEF TypeInv
<1>1. /\ pending[s] \in Seq(Nat) /\ m \in Nat /\ offered[s] \in Nat
      /\ pending'[s] = Append(pending[s], m)
      /\ accepted'[s] = accepted[s] \cup {m}
      /\ offered'[s] = m
  BY <1>t DEF Domains, Enqueue
<1>2. Gone(s) => Gone(s)'
  BY <1>t DEF Gone, Queued, Fading, EnsureJob, StatusType, jobVars
<1>3. Settled(s)' = Settled(s) /\ InBatch(s)' = InBatch(s)
  BY DEF Settled, InBatch, ToSet, jobVars, peerVars
<1>4. ToSet(todo[s])' = ToSet(todo[s]) /\ ToSet(handled[s])' = ToSet(handled[s])
  BY DEF ToSet, peerVars
<1>5. \A x \in 1..offered[s] : x < m /\ x \in 1..m
  BY <1>1
<1>6. Settled(s) \cup ToSet(todo[s]) \cup InBatch(s) \cup ToSet(pending[s]) \subseteq 1..offered[s]
  BY DEF Flow, Ordered
<1>7. AllBelow(ToSet(pending[s]), {m}) /\ Increasing(pending[s])
  BY <1>5, <1>6 DEF AllBelow, Flow, Ordered
<1>8. Increasing(pending'[s]) /\ ToSet(pending'[s]) = ToSet(pending[s]) \cup {m}
  BY <1>1, <1>7, AppendFacts
<1>9. Stages(s)'
  BY <1>2 DEF Flow, Stages, jobVars, peerVars
<1>10. Ordered(s)'
  <2>1. AllBelow(Settled(s) \cup ToSet(todo[s]) \cup InBatch(s), ToSet(pending'[s]))
    BY <1>5, <1>6, <1>8 DEF AllBelow, Flow, Ordered
  <2>2. accepted'[s] \subseteq 1..m
    BY <1>1, <1>5 DEF Flow, Ordered
  <2>3. Settled(s) \cup ToSet(todo[s]) \cup InBatch(s) \cup ToSet(pending'[s]) \subseteq 1..m
    BY <1>1, <1>5, <1>6, <1>8
  <2>4. UNCHANGED <<handled, todo, batch, dropped>>
    BY DEF jobVars, peerVars
  <2>5. QED
    BY <1>1, <1>3, <1>4, <1>8, <2>1, <2>2, <2>3, <2>4 DEF Flow, Ordered
<1>11. Complete(s)'
  <2>1. \A x \in ToSet(handled[s]) \cup ToSet(todo[s]) : x < m
    BY <1>5, <1>6 DEF Settled
  <2>2. QED
    BY <1>1, <1>2, <1>3, <1>4, <1>8, <2>1 DEF Flow, Complete
<1>12. Excused(s)'
  BY DEF Flow, Excused, Fading, Other, Sides, peerVars
<1>13. QED
  BY <1>9, <1>10, <1>11, <1>12 DEF Flow

\* A message of the client is refused.
LEMMA FlowRefused ==
    ASSUME NEW s \in Sides, TypeInv, Flow(s), Fading, EnsureJob(s),
           offered' = [offered EXCEPT ![s] = offered[s] + 1],
           UNCHANGED <<pending, accepted, jobVars, peerVars>>
    PROVE  Flow(s)'
<1>t. Domains /\ StatusType
  BY DEF TypeInv
<1>1. offered[s] \in Nat /\ offered'[s] = offered[s] + 1
  BY <1>t DEF Domains
<1>2. Gone(s) => Gone(s)'
  BY <1>t DEF Gone, Queued, Fading, EnsureJob, StatusType, jobVars
<1>3. Settled(s)' = Settled(s) /\ InBatch(s)' = InBatch(s)
  BY DEF Settled, InBatch, ToSet, jobVars, peerVars
<1>4. UNCHANGED <<handled, todo, batch, dropped>>
  BY DEF jobVars, peerVars
<1>5. 1..offered[s] \subseteq 1..(offered[s] + 1)
  BY <1>1
<1>6. Stages(s)'
  BY <1>2 DEF Flow, Stages, jobVars, peerVars
<1>7. Ordered(s)'
  <2>1. Settled(s) \cup ToSet(todo[s]) \cup InBatch(s) \cup ToSet(pending[s]) \subseteq 1..(offered[s] + 1)
    BY <1>5 DEF Flow, Ordered
  <2>2. accepted[s] \subseteq 1..(offered[s] + 1)
    BY <1>5 DEF Flow, Ordered
  <2>3. QED
    BY <1>1, <1>3, <1>4, <2>1, <2>2 DEF Flow, Ordered
<1>8. Complete(s)'
  BY <1>2, <1>3, <1>4 DEF Flow, Complete
<1>9. Excused(s)'
  BY DEF Flow, Excused, Fading, Other, Sides, peerVars
<1>10. QED
  BY <1>6, <1>7, <1>8, <1>9 DEF Flow

\* The job of s swaps the queue out; its request, if it had one, is answered.
LEMMA FlowSwapped ==
    ASSUME NEW s \in Sides, TypeInv, Flow(s), Fading, SwapPending(s),
           job[s] # "ready", ~Gone(s), phase[s] \in {"idle", "answered"},
           phase'[s] = "idle",
           UNCHANGED <<offered, accepted, todo, handled, dropped>>
    PROVE  Flow(s)'
<1>t. Domains /\ StatusType
  BY DEF TypeInv
<1>1. /\ pending'[s] = <<>> /\ batch'[s] = pending[s]
      /\ job'[s] = IF pending[s] = <<>> THEN "none" ELSE "ready"
  BY <1>t DEF Domains, StatusType, SwapPending
<1>2. Settled(s)' = Settled(s) /\ InBatch(s) = {}
  BY DEF Settled, InBatch, ToSet
<1>3. InBatch(s)' = ToSet(pending[s])
  BY <1>1, EmptyFacts DEF InBatch
<1>4. ToSet(pending'[s]) = {} /\ Increasing(pending'[s])
  BY <1>1, EmptyFacts
<1>5. todo[s] = <<>> /\ ToSet(todo[s]) = {}
  BY EmptyFacts DEF Flow, Stages
<1>6. Stages(s)'
  BY <1>1, <1>5 DEF Stages
<1>7. Ordered(s)'
  BY <1>1, <1>2, <1>3, <1>4 DEF Flow, Ordered, AllBelow
<1>8. Complete(s)'
  BY <1>1, <1>2, <1>3, <1>4 DEF Flow, Complete
<1>9. Excused(s)'
  BY DEF Flow, Excused, Fading, Other, Sides
<1>10. QED
  BY <1>6, <1>7, <1>8, <1>9 DEF Flow

\* The job of s fails: what it had not sent is lost, and nothing is sent any more.
LEMMA FlowFailed ==
    ASSUME NEW s \in Sides, TypeInv, Flow(s), Fading, FailJob(s),
           Accounted(s), spare[s] /\ active[s], jobs'[s] = 0,
           UNCHANGED <<phase, todo, handled, dropped, offered, accepted, pending, spare, active>>
    PROVE  Flow(s)'
<1>t. Domains /\ StatusType
  BY DEF TypeInv
<1>1. job'[s] = "none" /\ batch'[s] = <<>> /\ session'[s] # "open"
  BY <1>t DEF Domains, StatusType, FailJob, Shutdown, SetDown
<1>2. Gone(s)'
  BY <1>1 DEF Gone, Queued
<1>3. Settled(s)' = Settled(s) /\ InBatch(s)' = {}
  BY <1>1 DEF Settled, InBatch, ToSet
<1>4. Increasing(batch'[s])
  BY <1>1, EmptyFacts
<1>5. Stages(s)'
  BY <1>1, <1>2 DEF Flow, Stages
<1>6. Ordered(s)'
  BY <1>3, <1>4 DEF Flow, Ordered, AllBelow
<1>7. Complete(s)'
  BY <1>2, <1>3 DEF Flow, Complete
<1>8. Excused(s)'
  BY DEF Flow, Excused, Fading, Other, Sides
<1>9. QED
  BY <1>5, <1>6, <1>7, <1>8 DEF Flow

\* The job of s sends its batch.
LEMMA FlowSent ==
    ASSUME NEW s \in Sides, TypeInv, Flow(s), Fading, job[s] = "ready",
           job'[s] = "waiting", phase'[s] = "at_foyer", todo'[s] = batch[s],
           UNCHANGED <<batch, handled, dropped, queueVars>>
    PROVE  Flow(s)'
<1>1. UNCHANGED <<offered, accepted, pending>>
  BY DEF queueVars
<1>2. Settled(s)' = Settled(s) /\ InBatch(s) = ToSet(batch[s]) /\ InBatch(s)' = {}
  BY DEF Settled, InBatch, ToSet
<1>3. todo[s] = <<>> /\ ToSet(todo[s]) = {}
  BY EmptyFacts DEF Flow, Stages
<1>4. ~Gone(s)
  BY DEF Gone, Queued, TypeInv, StatusType
<1>5. Stages(s)'
  BY DEF Stages
<1>6. Ordered(s)'
  BY <1>1, <1>2, <1>3 DEF Flow, Ordered, AllBelow
<1>7. Complete(s)'
  <2>1. SUFFICES ASSUME NEW m \in accepted[s] \ (Settled(s) \cup ToSet(batch[s]))
        PROVE  m \in ToSet(pending[s]) /\ \A x \in ToSet(handled[s]) \cup ToSet(batch[s]) : x < m
    BY <1>1, <1>2 DEF Complete
  <2>2. m \in ToSet(pending[s]) /\ \A x \in ToSet(handled[s]) : x < m
    BY <1>2, <1>3, <1>4 DEF Flow, Complete
  <2>3. \A x \in ToSet(batch[s]) : x < m
    BY <1>2, <2>2 DEF Flow, Ordered, AllBelow
  <2>4. QED
    BY <2>2, <2>3
<1>8. Excused(s)'
  BY DEF Flow, Excused, Fading, Other, Sides
<1>9. QED
  BY <1>5, <1>6, <1>7, <1>8 DEF Flow

\* The request of s goes on: nothing it carries is handled or dropped.
LEMMA FlowMoved ==
    ASSUME NEW s \in Sides, Flow(s), Fading, DataKept(s),
           phase[s] # "idle", phase'[s] # "idle", phase'[s] = "answered" => todo[s] = <<>>,
           UNCHANGED <<jobVars, queueVars>>
    PROVE  Flow(s)'
<1>1. Gone(s) => Gone(s)'
  BY DEF Fading, Gone, Queued, jobVars, queueVars
<1>2. Settled(s)' = Settled(s) /\ InBatch(s)' = InBatch(s)
  BY DEF DataKept, Settled, InBatch, ToSet, jobVars
<1>3. /\ ToSet(todo[s])' = ToSet(todo[s]) /\ ToSet(pending[s])' = ToSet(pending[s])
      /\ ToSet(handled[s])' = ToSet(handled[s])
  BY DEF DataKept, ToSet
<1>4. Stages(s)'
  BY <1>1 DEF Flow, Stages, DataKept, jobVars
<1>5. Ordered(s)'
  BY <1>2, <1>3 DEF Flow, Ordered, DataKept
<1>6. Complete(s)'
  BY <1>1, <1>2, <1>3 DEF Flow, Complete, DataKept
<1>7. Excused(s)'
  BY DEF Flow, Excused, Fading, DataKept, Other, Sides
<1>8. QED
  BY <1>4, <1>5, <1>6, <1>7 DEF Flow

\* What the request of s still carries is dropped, with a reason.
LEMMA FlowDropped ==
    ASSUME NEW s \in Sides, TypeInv, Flow(s), Fading,
           phase[s] # "idle", phase'[s] # "idle", todo'[s] = <<>>,
           dropped'[s] = dropped[s] \cup ToSet(todo[s]),
           session'[Other(s)] # "open" \/ (s = "gate" /\ ~attached'),
           UNCHANGED <<handled, jobVars, queueVars>>
    PROVE  Flow(s)'
<1>1. Gone(s) => Gone(s)'
  BY DEF Fading, Gone, Queued, jobVars, queueVars
<1>2. UNCHANGED <<offered, accepted, pending, batch>>
  BY DEF queueVars, jobVars
<1>3. Settled(s)' = Settled(s) \cup ToSet(todo[s]) /\ InBatch(s)' = InBatch(s) /\ ToSet(todo'[s]) = {}
  BY EmptyFacts DEF Settled, InBatch, ToSet, jobVars
<1>4. Increasing(todo'[s])
  BY EmptyFacts
<1>5. ToSet(handled[s]) \cap ToSet(todo[s]) = {}
  <2>1. ToSet(todo[s]) \subseteq Nat
    BY DEF TypeInv, Domains, ToSet
  <2>2. \A x \in ToSet(handled[s]), y \in ToSet(todo[s]) : x < y
    BY DEF Flow, Ordered, AllBelow, Settled
  <2>3. QED
    BY <2>1, <2>2
<1>6. Stages(s)'
  BY <1>1 DEF Flow, Stages, jobVars
<1>7. Ordered(s)'
  BY <1>2, <1>3, <1>4, <1>5 DEF Flow, Ordered, AllBelow
<1>8. Complete(s)'
  BY <1>1, <1>2, <1>3 DEF Flow, Complete
<1>9. Excused(s)'
  BY DEF Excused
<1>10. QED
  BY <1>6, <1>7, <1>8, <1>9 DEF Flow

\* The receiver takes one message off the request of s.
LEMMA FlowTaken ==
    ASSUME NEW s \in Sides, TypeInv, Flow(s), Fading, HandleMessage(s)
    PROVE  Flow(s)'
<1> DEFINE h == Head(todo[s])
<1>t. Domains /\ StatusType
  BY DEF TypeInv
<1>1. todo[s] # <<>> /\ todo[s] \in Seq(Nat) /\ handled[s] \in Seq(Nat) /\ dropped[s] \subseteq Nat /\ h \in Nat
  BY <1>t DEF Domains, HandleMessage
<1>2. /\ ToSet(todo[s]) = {h} \cup ToSet(Tail(todo[s]))
      /\ Increasing(Tail(todo[s])) /\ AllBelow({h}, ToSet(Tail(todo[s])))
  BY <1>1, TailFacts DEF Flow, Ordered
<1>3. todo'[s] = Tail(todo[s])
  BY <1>t DEF Domains, HandleMessage
<1>4. UNCHANGED <<phase, offered, accepted, pending, batch, job, jobs, spare, active>>
  BY DEF HandleMessage, queueVars, jobVars
<1>5. \A x \in Settled(s) : x < h
  BY <1>2 DEF Flow, Ordered, AllBelow
<1>6. AllBelow(ToSet(handled[s]), {h}) /\ h \notin Settled(s)
  BY <1>1, <1>5 DEF AllBelow, Settled
<1>7. \/ handled'[s] = Append(handled[s], h) /\ dropped'[s] = dropped[s]
      \/ handled'[s] = handled[s] /\ dropped'[s] = dropped[s] \cup {h} /\ s = "box" /\ session["gate"] # "open"
  BY <1>t DEF Domains, HandleMessage
<1>8. /\ ToSet(Append(handled[s], h)) = ToSet(handled[s]) \cup {h}
      /\ Increasing(Append(handled[s], h))
  BY <1>1, <1>6, AppendFacts DEF Flow, Ordered
<1>9. /\ Settled(s)' = Settled(s) \cup {h}
      /\ Increasing(handled'[s])
      /\ ToSet(handled'[s]) \cap dropped'[s] = {}
      /\ ToSet(handled'[s]) \subseteq ToSet(handled[s]) \cup {h}
  BY <1>6, <1>7, <1>8 DEF Settled, Flow, Ordered
<1>10. InBatch(s)' = InBatch(s) /\ (Gone(s) => Gone(s)')
  BY <1>4 DEF InBatch, Gone, Queued, Fading
<1>11. Stages(s)'
  BY <1>4, <1>10 DEF Flow, Stages, HandleMessage
<1>12. Ordered(s)'
  <2>1. AllBelow(Settled(s)', ToSet(todo'[s]))
    BY <1>2, <1>3, <1>9 DEF AllBelow, Flow, Ordered
  <2>2. Settled(s)' \cup ToSet(todo'[s]) = Settled(s) \cup ToSet(todo[s])
    BY <1>2, <1>3, <1>9
  <2>3. QED
    BY <1>2, <1>3, <1>4, <1>9, <1>10, <2>1, <2>2 DEF Flow, Ordered
<1>13. Complete(s)'
  <2>1. Settled(s)' \cup ToSet(todo'[s]) = Settled(s) \cup ToSet(todo[s])
    BY <1>2, <1>3, <1>9
  <2>2. ToSet(handled'[s]) \cup ToSet(todo'[s]) \subseteq ToSet(handled[s]) \cup ToSet(todo[s])
    BY <1>2, <1>3, <1>9
  <2>3. QED
    BY <1>4, <1>10, <2>1, <2>2 DEF Flow, Complete
<1>14. Excused(s)'
  BY <1>7 DEF Flow, Excused, Fading, Other, Sides
<1>15. QED
  BY <1>11, <1>12, <1>13, <1>14 DEF Flow

\* Of both sides.
FlowInv == \A s \in Sides : Flow(s)

\* Every step keeps the order of the messages of both sides.
LEMMA FlowStep == TypeInv /\ NothingStranded /\ FlowInv /\ [Next]_vars => FlowInv'
<1> SUFFICES ASSUME TypeInv, NothingStranded, FlowInv, [Next]_vars, NEW u \in Sides
             PROVE  Flow(u)'
  BY DEF FlowInv
<1>t. Domains /\ StatusType
  BY DEF TypeInv
<1>a. \A s \in Sides : Accounted(s)
  BY DEF NothingStranded, Accounted, Queued
<1>f. Fading
  BY FadingStep
<1>u. Flow(u)
  BY DEF FlowInv
<1>k. DataKept(u) /\ JobKept(u) => Flow(u)'
  BY <1>f, <1>u, FlowKept
<1>2. CASE on_sync_data_message
  <2>1. CASE u = "gate"
    <3>1. EnsureJob(u) /\ offered' = [offered EXCEPT ![u] = offered[u] + 1] /\ UNCHANGED <<jobVars, peerVars>>
      BY <1>2, <2>1 DEF on_sync_data_message
    <3>2. CASE Enqueue(u, offered[u] + 1)
      BY <1>f, <1>u, <3>1, <3>2, FlowEnqueued
    <3>3. CASE UNCHANGED <<pending, accepted>>
      BY <1>f, <1>u, <3>1, <3>3, FlowRefused
    <3>4. QED
      BY <1>2, <2>1, <3>2, <3>3 DEF on_sync_data_message
  <2>2. CASE u # "gate"
    BY <1>t, <1>k, <1>2, <2>2 DEF on_sync_data_message, EnsureJob, Enqueue, DataKept, JobKept,
       Domains, StatusType, jobVars, peerVars
  <2>3. QED
    BY <2>1, <2>2
<1>3. CASE BeginSend
  BY <1>k, <1>3 DEF BeginSend, DataKept, JobKept, jobVars, peerVars
<1>4. CASE EndSend
  <2>1. CASE u = "box"
    BY <1>f, <1>u, <1>4, <2>1, FlowEnqueued DEF EndSend
  <2>2. CASE u # "box"
    BY <1>t, <1>k, <1>4, <2>2 DEF EndSend, EnsureJob, Enqueue, DataKept, JobKept,
       Domains, StatusType, jobVars, peerVars
  <2>3. QED
    BY <2>1, <2>2
<1>5. CASE \E s \in Sides : BeginJob(s)
  <2>1. PICK s \in Sides : BeginJob(s)
    BY <1>5
  <2>2. CASE u = s
    <3>1. Queued(u) = 1 /\ spare[u] /\ active[u] /\ jobs[u] = 1 /\ job[u] = "none"
      BY <1>a, <1>t, <2>1, <2>2 DEF BeginJob, Accounted, Queued, StatusType
    <3>2. ~Gone(u) /\ phase[u] = "idle"
      BY <1>u, <3>1 DEF Gone, Flow, Stages
    <3>3. jobs'[u] = 0
      BY <1>t, <2>1, <2>2, <3>1 DEF BeginJob, StatusType
    <3>4. UNCHANGED <<offered, accepted, spare, phase, todo, handled, dropped>>
      BY <2>1 DEF BeginJob, peerVars
    <3>5. CASE SwapPending(u)
      BY <1>f, <1>u, <3>1, <3>2, <3>4, <3>5, FlowSwapped
    <3>6. CASE FailJob(u) /\ UNCHANGED <<pending, active>>
      BY <1>a, <1>f, <1>u, <3>1, <3>3, <3>4, <3>6, FlowFailed
    <3>7. CASE session[u] = "gone" /\ UNCHANGED <<job, batch, pending, active, session>>
      <4>1. DataKept(u) /\ InBatch(u)' = InBatch(u) /\ Settled(u)' = Settled(u)
        BY <3>4, <3>7 DEF DataKept, InBatch, Settled, ToSet
      <4>2. Gone(u)' /\ UNCHANGED <<job, phase>>
        BY <3>1, <3>3, <3>4, <3>7 DEF Gone, Queued
      <4>3. Stages(u)' /\ Ordered(u)' /\ Complete(u)' /\ Excused(u)'
        BY <1>f, <1>u, <3>4, <3>7, <4>1, <4>2
           DEF Flow, Stages, Ordered, Complete, Excused, Fading, Other, Sides
      <4>4. QED
        BY <4>3 DEF Flow
    <3>8. QED
      BY <2>1, <2>2, <3>5, <3>6, <3>7 DEF BeginJob
  <2>3. CASE u # s
    BY <1>t, <1>k, <2>1, <2>3
       DEF BeginJob, FailJob, SwapPending, DataKept, JobKept, Domains, StatusType, peerVars
  <2>4. QED
    BY <2>2, <2>3
<1>6. CASE \E s \in Sides : SendBatch(s)
  <2>1. PICK s \in Sides : SendBatch(s)
    BY <1>6
  <2>2. CASE u = s
    <3>1. job[u] = "ready" /\ UNCHANGED <<handled, dropped, queueVars>>
      BY <2>1, <2>2 DEF SendBatch
    <3>2. CASE job'[u] = "waiting" /\ phase'[u] = "at_foyer" /\ todo'[u] = batch[u] /\ UNCHANGED batch
      BY <1>f, <1>u, <3>1, <3>2, FlowSent
    <3>3. CASE FailJob(u) /\ UNCHANGED <<phase, todo>>
      <4>1. spare[u] /\ active[u] /\ jobs[u] = 0
        BY <1>a, <1>t, <3>1 DEF Accounted, Queued, StatusType
      <4>2. QED
        BY <1>a, <1>f, <1>u, <3>1, <3>3, <4>1, FlowFailed DEF queueVars
    <3>4. QED
      BY <1>t, <2>1, <2>2, <3>2, <3>3 DEF SendBatch, Domains, StatusType
  <2>3. CASE u # s
    BY <1>t, <1>k, <2>1, <2>3 DEF SendBatch, FailJob, DataKept, JobKept, Domains, StatusType, queueVars
  <2>4. QED
    BY <2>2, <2>3
<1>7. CASE \E s \in Sides : ReceiveResponse(s)
  <2>1. PICK s \in Sides : ReceiveResponse(s)
    BY <1>7
  <2>2. CASE u = s
    <3>1. /\ job[u] = "waiting" /\ phase[u] = "answered" /\ phase'[u] = "idle" /\ SwapPending(u)
          /\ UNCHANGED <<offered, accepted, todo, handled, dropped>>
      BY <1>t, <2>1, <2>2 DEF ReceiveResponse, StatusType
    <3>2. ~Gone(u)
      BY <1>t, <3>1 DEF Gone, Queued, StatusType
    <3>3. QED
      BY <1>f, <1>u, <3>1, <3>2, FlowSwapped
  <2>3. CASE u # s
    BY <1>t, <1>k, <2>1, <2>3 DEF ReceiveResponse, SwapPending, DataKept, JobKept, Domains, StatusType
  <2>4. QED
    BY <2>2, <2>3
<1>8. CASE \E s \in Sides : ReceiveFailure(s)
  <2>1. PICK s \in Sides : ReceiveFailure(s)
    BY <1>8
  <2>2. CASE u = s
    <3>1. job[u] = "waiting" /\ FailJob(u) /\ UNCHANGED <<peerVars, queueVars>>
      BY <2>1, <2>2 DEF ReceiveFailure
    <3>2. spare[u] /\ active[u] /\ jobs[u] = 0
      BY <1>a, <1>t, <3>1 DEF Accounted, Queued, StatusType
    <3>3. QED
      BY <1>a, <1>f, <1>u, <3>1, <3>2, FlowFailed DEF queueVars, peerVars
  <2>3. CASE u # s
    BY <1>t, <1>k, <2>1, <2>3
       DEF ReceiveFailure, FailJob, DataKept, JobKept, Domains, StatusType, queueVars, peerVars
  <2>4. QED
    BY <2>2, <2>3
<1>9. CASE \E s \in Sides : Receiving(s)
  <2>1. PICK s \in Sides : Receiving(s)
    BY <1>9
  <2>2. CASE u # s
    BY <1>t, <1>k, <2>1, <2>2
       DEF Receiving, Forward, LoseRequest, Arrive, HandleMessage, HandlerThrows, HandleDone,
       DataKept, JobKept, Domains, StatusType, jobVars, queueVars
  <2>3. CASE u = s
    <3>1. CASE Forward(u) \/ LoseRequest(u) \/ HandleDone(u)
      <4>1. /\ DataKept(u) /\ phase[u] # "idle" /\ phase'[u] # "idle"
            /\ phase'[u] = "answered" => todo[u] = <<>>
            /\ UNCHANGED <<jobVars, queueVars>>
        BY <1>t, <3>1 DEF Forward, LoseRequest, HandleDone, DataKept, StatusType, jobVars, queueVars
      <4>2. QED
        BY <1>f, <1>u, <4>1, FlowMoved
    <3>2. CASE Arrive(u)
      <4>1. phase[u] # "idle" /\ phase'[u] # "idle" /\ UNCHANGED <<handled, jobVars, queueVars, session, attached>>
        BY <1>t, <3>2 DEF Arrive, StatusType, statusVars
      <4>2. CASE Found(u)
        BY <1>t, <1>f, <1>u, <3>2, <4>1, <4>2, FlowMoved
           DEF Arrive, DataKept, StatusType, jobVars, queueVars
      <4>3. CASE ~Found(u)
        <5>1. session'[Other(u)] # "open" \/ (u = "gate" /\ ~attached')
          BY <4>1, <4>3 DEF Found, Other, Sides
        <5>2. todo'[u] = <<>> /\ dropped'[u] = dropped[u] \cup ToSet(todo[u])
          BY <1>t, <3>2, <4>3 DEF Arrive, Domains
        <5>3. QED
          BY <1>f, <1>u, <4>1, <5>1, <5>2, FlowDropped
      <4>4. QED
        BY <4>2, <4>3
    <3>3. CASE HandleMessage(u)
      BY <1>f, <1>u, <3>3, FlowTaken
    <3>4. CASE HandlerThrows(u)
      <4>1. /\ phase[u] # "idle" /\ phase'[u] # "idle" /\ UNCHANGED <<handled, jobVars, queueVars>>
            /\ todo'[u] = <<>> /\ dropped'[u] = dropped[u] \cup ToSet(todo[u])
        BY <1>t, <3>4 DEF HandlerThrows, Domains
      <4>2. session'[Other(u)] # "open"
        BY <1>t, <3>4 DEF HandlerThrows, Shutdown, SetDown, StatusType, Other, Sides
      <4>3. QED
        BY <1>f, <1>u, <4>1, <4>2, FlowDropped
    <3>5. QED
      BY <2>1, <2>3, <3>1, <3>2, <3>3, <3>4 DEF Receiving
  <2>4. QED
    BY <2>2, <2>3
<1>10. CASE \E s \in Sides : ShutdownByOthers(s) \/ LoseLink(s)
  BY <1>k, <1>10 DEF ShutdownByOthers, LoseLink, DataKept, JobKept, queueVars, jobVars, peerVars
<1>11. CASE Closing
  BY <1>k, <1>11 DEF Closing, Websocket_kill_notification, DestroyGateSession,
     Websocket_closure_notification, ping_timer_detach, ping_timer_close, DataKept, JobKept, queueVars, jobVars, peerVars
<1>12. CASE UNCHANGED vars
  BY <1>k, <1>12 DEF vars, DataKept, JobKept
<1>13. QED
  BY <1>2, <1>3, <1>4, <1>5, <1>6, <1>7, <1>8, <1>9, <1>10, <1>11, <1>12 DEF Next, Performing

\* What is eldest first everywhere is handled in order.
LEMMA OrderSuffices == TypeInv /\ FlowInv => InOrder
<1> SUFFICES ASSUME TypeInv, FlowInv, NEW s \in Sides
    PROVE  /\ \A i, j \in DOMAIN handled[s] : i < j => handled[s][i] < handled[s][j]
           /\ \A i \in DOMAIN handled[s] : \A m \in accepted[s] :
                m < handled[s][i] => m \in ToSet(handled[s]) \cup dropped[s]
           /\ ToSet(handled[s]) \cap dropped[s] = {}
           /\ dropped[s] # {} => session[Other(s)] # "open" \/ (s = "gate" /\ ~attached)
  BY DEF InOrder
<1>1. Flow(s)
  BY DEF FlowInv
<1>2. ASSUME NEW i \in DOMAIN handled[s], NEW m \in accepted[s], m < handled[s][i], m \notin Settled(s)
      PROVE  FALSE
  <2>1. handled[s][i] \in ToSet(handled[s]) /\ handled[s][i] \in Nat /\ m \in Nat
    BY DEF ToSet, TypeInv, Domains
  <2>2. handled[s][i] < m
    <3>1. CASE m \in ToSet(todo[s])
      BY <1>1, <2>1, <3>1 DEF Flow, Ordered, AllBelow, Settled
    <3>2. CASE m \notin ToSet(todo[s])
      BY <1>1, <1>2, <2>1, <3>2 DEF Flow, Complete
    <3>3. QED
      BY <3>1, <3>2
  <2>3. QED
    BY <1>2, <2>1, <2>2
<1>3. QED
  BY <1>1, <1>2 DEF Flow, Ordered, Increasing, Excused, Settled

-------------------------------------------------------------------------------
\* Theorems

\* The inductive invariant: the order of the messages rests on the count of the
\* jobs, which says that a request whose job has failed is the last of its side.
IInv == TypeInv /\ NothingStranded /\ LastInv /\ FlowInv

\* The inductive invariant.
LEMMA Invariance == Spec => []IInv
<1>1. Init => IInv
  BY TypeInit, JobsInit, LastInit, FlowInit DEF IInv, FlowInv
<1>2. IInv /\ [Next]_vars => IInv'
  BY TypeStep, JobsStep, LastStep, FlowStep DEF IInv
<1>3. QED
  BY <1>1, <1>2, PTL DEF Spec

\* The queues stay within client_websocket_max_requests_pending, and every
\* variable within its type.
THEOREM TypeCorrect == Spec => []TypeOK
BY Invariance, TypesSuffice, PTL DEF IInv

\* No message that has been accepted waits in an open session without a job, no
\* job is made twice, and the assertion of Delivery_job::perform never fails.
THEOREM NothingIsStranded == Spec => []NothingStranded
BY Invariance, PTL DEF IInv

\* Messages are handled in the order they were accepted in, once, and none is
\* skipped but for a session that is shut down or not there.
THEOREM MessagesKeepOrder == Spec => []InOrder
BY Invariance, OrderSuffices, PTL DEF IInv

\* While the servers stay connected, the box handles no message after the closure.
THEOREM NothingFollowsClosure == Spec => []ClosureComesLast
<1>1. IInv => ClosureComesLast
  BY DEF IInv, LastInv, ClosureComesLast
<1>2. QED
  BY Invariance, <1>1, PTL
-------------------------------------------------------------------------------
\* Each way is a message channel

\* A sequence taken off the front of another one.
LEMMA FrontOff ==
    ASSUME NEW S, NEW a \in Seq(S), NEW q \in Seq(S)
    PROVE  /\ Len(a) \in 0..Len(a \o q)
           /\ SubSeq(a \o q, Len(a) + 1, Len(a \o q)) = q
<1>1. /\ a \o q \in Seq(S) /\ Len(a) \in Nat /\ Len(q) \in Nat
      /\ Len(a \o q) = Len(a) + Len(q)
  BY ConcatProperties, LenProperties
<1>2. CASE q = <<>>
  <2>1. Len(q) = 0
    BY <1>2
  <2>2. SubSeq(a \o q, Len(a) + 1, Len(a \o q)) = <<>>
    BY <1>1, <2>1, SubSeqEmpty
  <2>3. QED
    BY <1>1, <1>2, <2>2
<1>3. CASE q # <<>>
  <2>1. Len(q) > 0
    BY <1>1, <1>3, EmptySeq
  <2>2. SubSeq(a \o q, Len(a) + 1, Len(a) + Len(q)) = SubSeq(q, 1, Len(q))
    <3>1. Len(a) + 1 \in Len(a)+1 .. Len(a)+Len(q) /\ Len(a) + Len(q) \in Len(a)+1 .. Len(a)+Len(q)
      BY <1>1, <2>1
    <3>2. SubSeq(a \o q, Len(a) + 1, Len(a) + Len(q))
            = SubSeq(q, (Len(a) + 1) - Len(a), (Len(a) + Len(q)) - Len(a))
      BY <3>1, SubSeqOfConcat2
    <3>3. (Len(a) + 1) - Len(a) = 1 /\ (Len(a) + Len(q)) - Len(a) = Len(q)
      BY <1>1
    <3>4. QED
      BY <3>2, <3>3
  <2>3. SubSeq(q, 1, Len(q)) = q
    BY SubSeqFull
  <2>4. QED
    BY <1>1, <2>2, <2>3
<1>4. QED
  BY <1>2, <1>3

\* The first element of a sequence is the first one of what begins with it.
LEMMA HeadOff ==
    ASSUME NEW S, NEW a \in Seq(S), NEW q \in Seq(S), a # <<>>
    PROVE  /\ a \o q # <<>>
           /\ Head(a \o q) = Head(a)
           /\ Tail(a \o q) = Tail(a) \o q
           /\ a \o q = <<Head(a)>> \o (Tail(a) \o q)
<1>1. Head(a) \in S /\ Tail(a) \in Seq(S) /\ a = <<Head(a)>> \o Tail(a)
  <2>1. Head(a) \in S /\ Tail(a) \in Seq(S)
    BY HeadTailProperties
  <2>2. a = <<Head(a)>> \o Tail(a)
    <3>1. Len(a) \in Nat /\ Len(a) > 0
      BY LenProperties, EmptySeq
    <3>2. SubSeq(a, 1, Len(a)) = <<a[1]>> \o SubSeq(a, 2, Len(a))
      BY <3>1, SubSeqRecursiveFirst
    <3>3. QED
      BY <3>2, SubSeqFull, TailIsSubSeq
  <2>3. QED
    BY <2>1, <2>2
<1>2. <<Head(a)>> \in Seq(S) /\ Tail(a) \o q \in Seq(S)
  BY <1>1, ConcatProperties
<1>3. a \o q = <<Head(a)>> \o (Tail(a) \o q)
  BY <1>1, <1>2, ConcatAssociative
<1>4. QED
  BY <1>1, <1>2, <1>3

\* Messages that follow each other.
LEMMA Joined ==
    ASSUME NEW a \in Seq(Nat), NEW b \in Seq(Nat), NEW c \in Seq(Nat)
    PROVE  a \o b \in Seq(Nat) /\ (a \o b) \o c = a \o (b \o c)
<1>1. a \o b \in Seq(Nat)
  BY ConcatProperties
<1>2. (a \o b) \o c = a \o (b \o c)
  BY ConcatAssociative
<1>3. QED
  BY <1>1, <1>2

\* What the job of s is about to send.
ToSend(s) == IF job[s] = "ready" THEN batch[s] ELSE <<>>

\* What the type invariant says of the parts of InTransit.
LEMMA TransitType ==
    ASSUME NEW s \in Sides, Domains
    PROVE  /\ todo[s] \in Seq(Nat) /\ batch[s] \in Seq(Nat) /\ pending[s] \in Seq(Nat)
           /\ ToSend(s) \in Seq(Nat) /\ <<>> \in Seq(Nat)
           /\ ToSend(s) \o pending[s] \in Seq(Nat)
           /\ InTransit(s) = todo[s] \o (ToSend(s) \o pending[s])
           /\ InTransit(s) \in Seq(Nat)
<1>1. /\ todo[s] \in Seq(Nat) /\ batch[s] \in Seq(Nat) /\ pending[s] \in Seq(Nat)
      /\ ToSend(s) \in Seq(Nat) /\ <<>> \in Seq(Nat)
  BY DEF Domains, ToSend
<1>2. InTransit(s) = todo[s] \o ToSend(s) \o pending[s]
  BY DEF InTransit, ToSend
<1>3. ToSend(s) \o pending[s] \in Seq(Nat)
  BY <1>1, Joined
<1>4. todo[s] \o (ToSend(s) \o pending[s]) \in Seq(Nat)
  BY <1>1, <1>3, Joined
<1>5. (todo[s] \o ToSend(s)) \o pending[s] = todo[s] \o (ToSend(s) \o pending[s])
  <2>1. \A a, b, c \in Seq(Nat) : (a \o b) \o c = a \o (b \o c)
    BY Joined
  <2>2. QED
    BY <1>1, <2>1, Zenon
<1>6. QED
  BY <1>1, <1>2, <1>3, <1>4, <1>5

\* A step of the channel, or none.
ChannelStep(s) == Channel(s)!Next \/ UNCHANGED Channel(s)!vars

\* Nothing is taken into the channel or out of it; it may break.
LEMMA ChannelKept ==
    ASSUME NEW s \in Sides, Domains, Fading,
           InTransit(s)' = InTransit(s), handled'[s] = handled[s], accepted'[s] = accepted[s]
    PROVE  ChannelStep(s)
<1>1. Up(s)' => Up(s)
  BY DEF Up, Fading, Sides
<1>2. CASE Up(s)' = Up(s)
  BY <1>2 DEF ChannelStep, Channel!vars
<1>3. CASE Up(s)' # Up(s)
  <2>1. Up(s)' = FALSE
    BY <1>1, <1>3 DEF Up
  <2>2. InTransit(s) \in Seq(Nat)
    BY TransitType
  <2>3. Len(InTransit(s)) \in Nat /\ SubSeq(InTransit(s), 0 + 1, Len(InTransit(s))) = InTransit(s)
    BY <2>2, LenProperties, SubSeqFull
  <2>4. 0 \in 0..Len(InTransit(s))
    BY <2>3
  <2>5. Channel(s)!Break
    BY <2>1, <2>3, <2>4 DEF Channel!Break
  <2>6. QED
    BY <2>5 DEF ChannelStep, Channel!Next
<1>4. QED
  BY <1>2, <1>3

\* The eldest messages in it are lost with one of the sessions.
LEMMA ChannelBroken ==
    ASSUME NEW s \in Sides, NEW a \in Seq(Nat), NEW q \in Seq(Nat),
           InTransit(s) = a \o q, InTransit(s)' = q, ~Up(s)',
           handled'[s] = handled[s], accepted'[s] = accepted[s]
    PROVE  ChannelStep(s)
<1>1. Up(s)' = FALSE
  BY DEF Up
<1>2. Channel(s)!Break
  BY <1>1, FrontOff DEF Channel!Break
<1>3. QED
  BY <1>2 DEF ChannelStep, Channel!Next

\* A message is put into it.
LEMMA ChannelSend ==
    ASSUME NEW s \in Sides, TypeInv, Flow(s), EnsureJob(s), offered[s] + 1 \in Messages(s),
           Enqueue(s, offered[s] + 1), UNCHANGED <<jobVars, peerVars, session, attached>>
    PROVE  ChannelStep(s)
<1> DEFINE m == offered[s] + 1
<1>t. Domains
  BY DEF TypeInv
<1>1. m \in Nat /\ pending'[s] = Append(pending[s], m)
  BY <1>t DEF Domains, Enqueue
<1>2. Up(s)' = Up(s) /\ handled'[s] = handled[s]
  BY DEF Up, peerVars
<1>a. accepted'[s] = accepted[s] \cup {m} /\ m \notin accepted[s]
  <2>1. accepted[s] \subseteq 1..offered[s] /\ offered[s] \in Nat
    BY <1>t DEF Flow, Ordered, Domains
  <2>2. offered[s] + 1 \notin 1..offered[s]
    BY <2>1
  <2>3. accepted'[s] = accepted[s] \cup {m}
    BY <1>t DEF Domains, Enqueue
  <2>4. QED
    BY <2>1, <2>2, <2>3
<1>3. todo'[s] = todo[s] /\ ToSend(s)' = ToSend(s)
  BY DEF ToSend, jobVars, peerVars
<1> DEFINE front == todo[s] \o ToSend(s)
<1>4. /\ InTransit(s) = front \o pending[s]
      /\ InTransit(s)' = front \o Append(pending[s], m)
  BY <1>1, <1>3 DEF InTransit, ToSend
<1>5. front \in Seq(Nat) /\ pending[s] \in Seq(Nat) /\ <<m>> \in Seq(Nat)
  <2>1. todo[s] \in Seq(Nat) /\ ToSend(s) \in Seq(Nat) /\ pending[s] \in Seq(Nat)
    BY <1>t, TransitType
  <2>2. QED
    BY <1>1, <2>1, Joined
<1> HIDE DEF front, m
<1>6. front \o Append(pending[s], m) = Append(front \o pending[s], m)
  <2>1. Append(pending[s], m) = pending[s] \o <<m>>
    BY <1>1, <1>5, AppendIsConcat
  <2>2. front \o pending[s] \in Seq(Nat)
    BY <1>5, Joined
  <2>3. Append(front \o pending[s], m) = (front \o pending[s]) \o <<m>>
    BY <1>1, <2>2, AppendIsConcat
  <2>4. (front \o pending[s]) \o <<m>> = front \o (pending[s] \o <<m>>)
    BY <1>5, Joined
  <2>5. QED
    BY <2>1, <2>3, <2>4
<1>7. Channel(s)!Send(m)
  BY <1>2, <1>a, <1>4, <1>6 DEF Channel!Send
<1>8. m \in Messages(s)
  BY DEF m
<1>9. QED
  BY <1>7, <1>8 DEF ChannelStep, Channel!Next

\* The parts of InTransit that are empty do not show.
LEMMA Empties ==
    ASSUME NEW q \in Seq(Nat)
    PROVE  q \o <<>> = q /\ <<>> \o q = q /\ <<>> \o <<>> \o q = q /\ <<>> \o q \o <<>> = q
<1>1. q \o <<>> = q /\ <<>> \o q = q
  BY ConcatEmptySeq
<1>2. <<>> \in Seq(Nat)
  OBVIOUS
<1>3. <<>> \o <<>> = <<>>
  BY <1>2, ConcatEmptySeq
<1>4. QED
  BY <1>1, <1>3

\* What has not changed of InTransit.
LEMMA ChannelIdle ==
    ASSUME NEW s \in Sides, Domains, Fading,
           pending'[s] = pending[s], todo'[s] = todo[s], ToSend(s)' = ToSend(s),
           handled'[s] = handled[s], accepted'[s] = accepted[s]
    PROVE  ChannelStep(s)
<1>1. InTransit(s)' = InTransit(s)
  BY DEF InTransit, ToSend
<1>2. QED
  BY <1>1, ChannelKept

\* The job of s swaps the queue out: its messages stay in order.
LEMMA ChannelSwapped ==
    ASSUME NEW s \in Sides, TypeInv, Fading, SwapPending(s), job[s] # "ready", todo[s] = <<>>,
           UNCHANGED <<todo, handled, accepted>>
    PROVE  ChannelStep(s)
<1>t. Domains /\ StatusType
  BY DEF TypeInv
<1>1. /\ pending'[s] = <<>> /\ batch'[s] = pending[s]
      /\ job'[s] = IF pending[s] = <<>> THEN "none" ELSE "ready"
  BY <1>t DEF Domains, StatusType, SwapPending
<1>2. InTransit(s) = <<>> \o <<>> \o pending[s]
  BY DEF InTransit
<1>3. InTransit(s)' = <<>> \o pending[s] \o <<>>
  BY <1>1 DEF InTransit
<1>4. pending[s] \in Seq(Nat)
  BY <1>t, TransitType
<1>5. InTransit(s)' = InTransit(s)
  BY <1>2, <1>3, <1>4, Empties
<1>6. QED
  BY <1>t, <1>5, ChannelKept

\* The job of s sends its batch: the same messages are under way.
LEMMA ChannelSent ==
    ASSUME NEW s \in Sides, TypeInv, Fading, job[s] = "ready", job'[s] = "waiting",
           todo[s] = <<>>, todo'[s] = batch[s], UNCHANGED <<pending, handled, accepted>>
    PROVE  ChannelStep(s)
<1>t. Domains
  BY DEF TypeInv
<1>1. batch[s] \in Seq(Nat)
  BY <1>t, TransitType
<1>2. InTransit(s) = <<>> \o batch[s] \o pending[s] /\ InTransit(s)' = batch[s] \o <<>> \o pending[s]
  BY DEF InTransit
<1>3. <<>> \o batch[s] = batch[s] \o <<>>
  BY <1>1, Empties
<1>4. InTransit(s)' = InTransit(s)
  BY <1>2, <1>3
<1>5. QED
  BY <1>t, <1>4, ChannelKept

\* The job of s fails: what it was about to send is lost, with its session.
LEMMA ChannelFailed ==
    ASSUME NEW s \in Sides, TypeInv, Fading, FailJob(s), job[s] = "ready" => todo[s] = <<>>,
           UNCHANGED <<todo, pending, handled, accepted>>
    PROVE  ChannelStep(s)
<1>t. Domains /\ StatusType
  BY DEF TypeInv
<1>1. job'[s] = "none" /\ session'[s] # "open"
  BY <1>t DEF StatusType, FailJob, Shutdown, SetDown
<1>2. ToSend(s)' = <<>>
  BY <1>1 DEF ToSend
<1>3. CASE job[s] = "ready"
  <2>1. batch[s] \in Seq(Nat) /\ pending[s] \in Seq(Nat)
    BY <1>t, TransitType
  <2>2. InTransit(s) = <<>> \o batch[s] \o pending[s] /\ InTransit(s)' = <<>> \o <<>> \o pending[s]
    BY <1>1, <1>3 DEF InTransit
  <2>3. InTransit(s) = batch[s] \o pending[s] /\ InTransit(s)' = pending[s]
    BY <2>1, <2>2, Empties
  <2>4. ~Up(s)'
    BY <1>1 DEF Up, Sides
  <2>5. QED
    BY <2>1, <2>3, <2>4, ChannelBroken
<1>4. CASE job[s] # "ready"
  BY <1>t, <1>2, <1>4, ChannelIdle DEF ToSend
<1>5. QED
  BY <1>3, <1>4

\* What the request of s still carries is lost, with the other session.
LEMMA ChannelDropped ==
    ASSUME NEW s \in Sides, TypeInv, todo'[s] = <<>>, ~Up(s)',
           UNCHANGED <<handled, jobVars, queueVars>>
    PROVE  ChannelStep(s)
<1>t. Domains
  BY DEF TypeInv
<1> DEFINE rest == ToSend(s) \o pending[s]
<1>1. todo[s] \in Seq(Nat) /\ rest \in Seq(Nat) /\ InTransit(s) = todo[s] \o rest
  BY <1>t, TransitType
<1>2. InTransit(s)' = rest
  <2>1. InTransit(s)' = <<>> \o ToSend(s) \o pending[s]
    BY DEF InTransit, ToSend, jobVars, queueVars
  <2>2. <<>> \o ToSend(s) = ToSend(s)
    BY <1>t, TransitType, Empties
  <2>3. QED
    BY <2>1, <2>2
<1> HIDE DEF rest
<1>3. accepted'[s] = accepted[s] /\ handled'[s] = handled[s]
  BY DEF queueVars
<1>4. QED
  BY <1>1, <1>2, <1>3, ChannelBroken

\* The receiver takes the eldest message, and handles it if its session is open.
LEMMA ChannelTaken ==
    ASSUME NEW s \in Sides, TypeInv, HandleMessage(s)
    PROVE  ChannelStep(s)
<1>t. Domains
  BY DEF TypeInv
<1> DEFINE rest == ToSend(s) \o pending[s]
           h == Head(todo[s])
           others == Tail(todo[s])
<1>1. todo[s] # <<>> /\ todo'[s] = others
  BY <1>t DEF Domains, HandleMessage
<1>2. todo[s] \in Seq(Nat) /\ rest \in Seq(Nat) /\ InTransit(s) = todo[s] \o rest
  BY <1>t, TransitType
<1>3. h \in Nat /\ others \in Seq(Nat)
  BY <1>1, <1>2, HeadTailProperties
<1>4. InTransit(s)' = others \o rest
  <2>1. InTransit(s)' = others \o ToSend(s) \o pending[s]
    BY <1>1 DEF InTransit, ToSend, HandleMessage, jobVars, queueVars
  <2>2. ToSend(s) \in Seq(Nat) /\ pending[s] \in Seq(Nat)
    BY <1>t, TransitType
  <2>3. (others \o ToSend(s)) \o pending[s] = others \o (ToSend(s) \o pending[s])
    BY <1>3, <2>2, Joined
  <2>4. QED
    BY <2>1, <2>3
<1>5. UNCHANGED <<session, attached, accepted>>
  BY DEF HandleMessage, queueVars
<1>6. \/ handled'[s] = Append(handled[s], h)
      \/ handled'[s] = handled[s] /\ s = "box" /\ session["gate"] # "open"
  BY <1>t DEF Domains, HandleMessage
<1> HIDE DEF rest, h, others
<1>7. /\ todo[s] \o rest # <<>> /\ Head(todo[s] \o rest) = Head(todo[s])
      /\ Tail(todo[s] \o rest) = Tail(todo[s]) \o rest
      /\ todo[s] \o rest = <<Head(todo[s])>> \o (Tail(todo[s]) \o rest)
  BY <1>1, <1>2, HeadOff
<1>8. /\ InTransit(s) # <<>> /\ Head(InTransit(s)) = h
      /\ InTransit(s)' = Tail(InTransit(s))
      /\ InTransit(s) = <<h>> \o InTransit(s)'
  BY <1>2, <1>4, <1>7 DEF h, others
<1>9. CASE handled'[s] = Append(handled[s], h)
  <2>1. Up(s)' = Up(s)
    BY <1>5 DEF Up
  <2>2. Channel(s)!Receive
    BY <1>5, <1>8, <1>9, <2>1 DEF Channel!Receive
  <2>3. QED
    BY <2>2 DEF ChannelStep, Channel!Next
<1>10. CASE handled'[s] = handled[s] /\ s = "box" /\ session["gate"] # "open"
  <2>1. ~Up(s)'
    BY <1>5, <1>10 DEF Up
  <2>2. <<h>> \in Seq(Nat) /\ InTransit(s)' \in Seq(Nat)
    BY <1>2, <1>3, <1>4, Joined
  <2>3. QED
    BY <1>5, <1>8, <1>10, <2>1, <2>2, ChannelBroken
<1>11. QED
  BY <1>6, <1>9, <1>10

\* Every step is one of the channel of u, or leaves it as it is.
LEMMA EveryStepOfChannel ==
    ASSUME IInv, [Next]_vars, NEW u \in Sides
    PROVE  ChannelStep(u)
<1>i. TypeInv /\ NothingStranded /\ FlowInv
  BY DEF IInv
<1>t. Domains /\ StatusType
  BY <1>i DEF TypeInv
<1>f. Fading
  BY <1>i, FadingStep
<1>s. Flow(u) /\ Stages(u)
  BY <1>i DEF FlowInv, Flow
<1>a. \A s \in Sides : Accounted(s)
  BY <1>i DEF NothingStranded, Accounted, Queued
<1>k. ASSUME pending'[u] = pending[u], todo'[u] = todo[u], batch'[u] = batch[u], job'[u] = job[u],
             handled'[u] = handled[u], accepted'[u] = accepted[u]
      PROVE  ChannelStep(u)
  <2>1. ToSend(u)' = ToSend(u)
    BY <1>k DEF ToSend
  <2>2. QED
    BY <1>t, <1>f, <1>k, <2>1, ChannelIdle
<1>2. CASE on_sync_data_message
  <2>1. CASE u = "gate" /\ Enqueue("gate", offered["gate"] + 1) /\ UNCHANGED session
    BY <1>i, <1>s, <1>2, <2>1, ChannelSend DEF on_sync_data_message
  <2>2. CASE u # "gate" \/ UNCHANGED <<pending, accepted>>
    BY <1>t, <1>k, <1>2, <2>2 DEF on_sync_data_message, Enqueue, Domains, jobVars, peerVars
  <2>3. QED
    BY <1>2, <2>1, <2>2 DEF on_sync_data_message
<1>3. CASE BeginSend
  BY <1>k, <1>3 DEF BeginSend, jobVars, peerVars
<1>4. CASE EndSend
  <2>1. CASE u = "box"
    <3>1. offered["box"] + 1 \in Messages("box")
      <4>1. offered["box"] < MaxMessages["box"]
        BY <1>i, <1>4 DEF TypeInv, WithinBounds, EndSend
      <4>2. offered["box"] \in Nat /\ MaxMessages["box"] \in Nat
        BY <1>t, BoundsAssumption DEF Domains, Sides
      <4>3. QED
        BY <4>1, <4>2 DEF Messages
    <3>2. QED
      BY <1>i, <1>s, <1>4, <2>1, <3>1, ChannelSend DEF EndSend, statusVars
  <2>2. CASE u # "box"
    BY <1>t, <1>k, <1>4, <2>2 DEF EndSend, Enqueue, Domains, jobVars, peerVars
  <2>3. QED
    BY <2>1, <2>2
<1>5. CASE \E s \in Sides : BeginJob(s)
  <2>1. PICK s \in Sides : BeginJob(s)
    BY <1>5
  <2>2. CASE u = s
    <3>1. jobs[u] > 0 /\ job[u] = "none" /\ UNCHANGED <<todo, handled, accepted>>
      BY <2>1, <2>2 DEF BeginJob, peerVars
    <3>2. todo[u] = <<>>
      BY <1>a, <1>s, <1>t, <3>1 DEF Stages, Gone, Queued, StatusType
    <3>3. CASE SwapPending(u)
      BY <1>i, <1>f, <3>1, <3>2, <3>3, ChannelSwapped
    <3>4. CASE FailJob(u) /\ UNCHANGED pending
      BY <1>i, <1>f, <3>1, <3>2, <3>4, ChannelFailed
    <3>5. CASE UNCHANGED <<job, batch, pending>>
      BY <1>k, <3>1, <3>5
    <3>6. QED
      BY <2>1, <2>2, <3>3, <3>4, <3>5 DEF BeginJob
  <2>3. CASE u # s
    BY <1>t, <1>k, <2>1, <2>3 DEF BeginJob, FailJob, SwapPending, Domains, StatusType, peerVars
  <2>4. QED
    BY <2>2, <2>3
<1>6. CASE \E s \in Sides : SendBatch(s)
  <2>1. PICK s \in Sides : SendBatch(s)
    BY <1>6
  <2>2. CASE u = s
    <3>1. job[u] = "ready" /\ todo[u] = <<>> /\ UNCHANGED <<pending, handled, accepted>>
      BY <1>s, <2>1, <2>2 DEF SendBatch, Stages, queueVars
    <3>2. CASE job'[u] = "waiting" /\ todo'[u] = batch[u]
      BY <1>i, <1>f, <3>1, <3>2, ChannelSent
    <3>3. CASE FailJob(u) /\ UNCHANGED todo
      BY <1>i, <1>f, <3>1, <3>3, ChannelFailed
    <3>4. QED
      BY <1>t, <2>1, <2>2, <3>2, <3>3 DEF SendBatch, Domains, StatusType
  <2>3. CASE u # s
    BY <1>t, <1>k, <2>1, <2>3 DEF SendBatch, FailJob, Domains, StatusType, queueVars
  <2>4. QED
    BY <2>2, <2>3
<1>7. CASE \E s \in Sides : ReceiveResponse(s)
  <2>1. PICK s \in Sides : ReceiveResponse(s)
    BY <1>7
  <2>2. CASE u = s
    <3>1. /\ job[u] = "waiting" /\ todo[u] = <<>> /\ SwapPending(u)
          /\ UNCHANGED <<todo, handled, accepted>>
      BY <1>s, <2>1, <2>2 DEF ReceiveResponse, Stages
    <3>2. QED
      BY <1>i, <1>f, <3>1, ChannelSwapped
  <2>3. CASE u # s
    BY <1>t, <1>k, <2>1, <2>3 DEF ReceiveResponse, SwapPending, Domains, StatusType
  <2>4. QED
    BY <2>2, <2>3
<1>8. CASE \E s \in Sides : ReceiveFailure(s)
  <2>1. PICK s \in Sides : ReceiveFailure(s)
    BY <1>8
  <2>2. CASE u = s
    <3>1. job[u] = "waiting" /\ FailJob(u) /\ UNCHANGED <<todo, pending, handled, accepted>>
      BY <2>1, <2>2 DEF ReceiveFailure, peerVars, queueVars
    <3>2. QED
      BY <1>i, <1>f, <3>1, ChannelFailed
  <2>3. CASE u # s
    BY <1>t, <1>k, <2>1, <2>3 DEF ReceiveFailure, FailJob, Domains, StatusType, peerVars, queueVars
  <2>4. QED
    BY <2>2, <2>3
<1>9. CASE \E s \in Sides : Receiving(s)
  <2>1. PICK s \in Sides : Receiving(s)
    BY <1>9
  <2>2. CASE u # s
    BY <1>t, <1>k, <2>1, <2>2
       DEF Receiving, Forward, LoseRequest, Arrive, HandleMessage, HandlerThrows, HandleDone,
       Domains, jobVars, queueVars
  <2>3. CASE u = s
    <3>1. CASE Forward(u) \/ LoseRequest(u) \/ HandleDone(u)
      BY <1>k, <3>1 DEF Forward, LoseRequest, HandleDone, jobVars, queueVars
    <3>2. CASE Arrive(u)
      <4>1. UNCHANGED <<handled, jobVars, queueVars, session, attached>>
        BY <3>2 DEF Arrive, statusVars
      <4>2. CASE Found(u)
        BY <1>k, <3>2, <4>1, <4>2 DEF Arrive, jobVars, queueVars
      <4>3. CASE ~Found(u)
        <5>1. ~Up(u)'
          BY <4>1, <4>3 DEF Found, Up, Sides
        <5>2. todo'[u] = <<>>
          BY <1>t, <3>2, <4>3 DEF Arrive, Domains
        <5>3. QED
          BY <1>i, <4>1, <5>1, <5>2, ChannelDropped
      <4>4. QED
        BY <4>2, <4>3
    <3>3. CASE HandleMessage(u)
      BY <1>i, <3>3, ChannelTaken
    <3>4. CASE HandlerThrows(u)
      <4>1. todo'[u] = <<>> /\ UNCHANGED <<handled, jobVars, queueVars>>
        BY <1>t, <3>4 DEF HandlerThrows, Domains
      <4>2. ~Up(u)'
        BY <1>t, <3>4 DEF HandlerThrows, Shutdown, SetDown, StatusType, Other, Sides, Up
      <4>3. QED
        BY <1>i, <4>1, <4>2, ChannelDropped
    <3>5. QED
      BY <2>1, <2>3, <3>1, <3>2, <3>3, <3>4 DEF Receiving
  <2>4. QED
    BY <2>2, <2>3
<1>10. CASE \E s \in Sides : ShutdownByOthers(s) \/ LoseLink(s)
  BY <1>k, <1>10 DEF ShutdownByOthers, LoseLink, queueVars, jobVars, peerVars
<1>11. CASE Closing
  BY <1>k, <1>11 DEF Closing, Websocket_kill_notification, DestroyGateSession,
     Websocket_closure_notification, ping_timer_detach, ping_timer_close, queueVars, jobVars, peerVars
<1>12. CASE UNCHANGED vars
  BY <1>k, <1>12 DEF vars
<1>13. QED
  BY <1>2, <1>3, <1>4, <1>5, <1>6, <1>7, <1>8, <1>9, <1>10, <1>11, <1>12 DEF Next, Performing

\* Both channels are empty at first, and up.
LEMMA ChannelInit ==
    ASSUME Init, NEW s \in Sides
    PROVE  Channel(s)!Init
<1>1. /\ pending[s] = <<>> /\ todo[s] = <<>> /\ handled[s] = <<>> /\ job[s] = "none"
      /\ accepted[s] = {} /\ session["gate"] = "open" /\ session["box"] = "open" /\ attached
  BY DEF Init, Sides
<1>2. <<>> \in Seq(Nat)
  OBVIOUS
<1>3. InTransit(s) = <<>> \o <<>> \o <<>>
  BY <1>1 DEF InTransit
<1>4. InTransit(s) = <<>>
  BY <1>2, <1>3, Empties
<1>5. Up(s) = TRUE
  BY <1>1 DEF Up
<1>6. QED
  BY <1>1, <1>4, <1>5 DEF Channel!Init

\* To the client and to the business code of the box, each way is a channel
\* that keeps messages in order, each once, and loses none while both sessions
\* are open: jobs, batches, requests and their answers do not show, and what is
\* lost when a session ends was accepted before all that may still arrive.
THEOREM SessionsAreChannels == Spec => ImplementsChannel
<1> DEFINE Start == \A s \in Sides : Channel(s)!Init
           Step  == \A s \in Sides : Channel(s)!Next \/ UNCHANGED Channel(s)!vars
<1>1. Init => Start
  BY ChannelInit
<1>2. IInv /\ [Next]_vars => [Step]_vars
  <2> SUFFICES ASSUME IInv, [Next]_vars, NEW s \in Sides
               PROVE  Channel(s)!Next \/ UNCHANGED Channel(s)!vars
    OBVIOUS
  <2>1. QED
    BY EveryStepOfChannel DEF ChannelStep
<1>3. Spec => Start /\ [][Step]_vars
  <2> HIDE DEF Step, Start
  <2>1. QED
    BY <1>1, <1>2, Invariance, PTL DEF Spec
<1>4. QED
  BY <1>3 DEF ImplementsChannel
===============================================================================
