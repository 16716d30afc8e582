----------------------------- MODULE ShadowSessions -----------------------------
(***************************************************************************)
(* The box's supervisor of shadow sessions, which stand for the WebSocket  *)
(* connections of clients at the gates: their establishment, their closure *)
(* as a gate reports it, and the timer that finds the gates that are gone  *)
(* and closes what they have left behind.                                  *)
(*                                                                         *)
(* The mutex is held within each operation on the container, and given up  *)
(* between them: the timer waits for a foyer to answer, and the business   *)
(* code it calls may wait for anything.  One run of the timer follows      *)
(* another.                                                                *)
(***************************************************************************)
EXTENDS Naturals, Sequences, SequencesExt, FiniteSets

CONSTANTS
    Clients,        \* UUIDs of clients; one has at most one session
    Pairs,          \* pairs of the UUIDs of a foyer and a gate, in their order
    PairOf          \* PairOf[c]: the foyer and the gate of c

ASSUME PairsAssumption == Pairs \subseteq Nat /\ PairOf \in [Clients -> Pairs]

VARIABLES
    session,        \* session[c]: where the shadow session of c stands
    shutdown,       \* shutdown[c]: its m_shutdown
    up,             \* up[p]: both connections are there, for as long as they last
    closure,        \* closure[c]: the closure notification of the gate
    told,           \* told[c]: how often handle_websocket_closure was called
    stage,          \* where the timer stands
    expired,        \* foyer_gate_uuids_expired
    index,          \* the position of the iterator in it
    victims,        \* sessions_detached, without those that have been closed
    collected,      \* history: the sessions there were when the run began
    missed          \* history: the pairs the last run found gone, and left

vars == <<session, shutdown, up, closure, told, stage, expired, index, victims, collected, missed>>

timerVars == <<stage, expired, index, victims, collected, missed>>

-------------------------------------------------------------------------------
TypeOK ==
    /\ session \in [Clients -> {"none", "establishing", "attached", "refused", "detached"}]
    /\ shutdown \in [Clients -> BOOLEAN]
    /\ up \in [Pairs -> BOOLEAN]
    /\ closure \in [Clients -> {"none", "sent", "over"}]
    /\ told \in [Clients -> Nat]
    /\ stage \in {"idle", "checking", "removing"}
    /\ expired \in Seq(Pairs) /\ index \in 1..(Len(expired) + 1)
    /\ victims \subseteq Clients /\ collected \subseteq Clients
    /\ missed \subseteq Pairs

Init ==
    /\ session = [c \in Clients |-> "none"]
    /\ shutdown = [c \in Clients |-> FALSE]
    /\ up = [p \in Pairs |-> TRUE]
    /\ closure = [c \in Clients |-> "none"]
    /\ told = [c \in Clients |-> 0]
    /\ stage = "idle"
    /\ expired = <<>> /\ index = 1
    /\ victims = {} /\ collected = {}
    /\ missed = {}

Attached == {c \in Clients : session[c] = "attached"}

-------------------------------------------------------------------------------
\* Sessions

\* A gate asks for a session; the business code decides, and may take its time.
Websocket_establishment_request(c) ==
    /\ session[c] = "none"
    /\ up[PairOf[c]]
    /\ session' = [session EXCEPT ![c] = "establishing"]
    /\ UNCHANGED <<shutdown, up, closure, told, timerVars>>

attach_session(c) ==
    /\ session[c] = "establishing"
    /\ session' = [session EXCEPT ![c] = "attached"]
    /\ UNCHANGED <<shutdown, up, closure, told, timerVars>>

\* The business code throws.
RefuseSession(c) ==
    /\ session[c] = "establishing"
    /\ session' = [session EXCEPT ![c] = "refused"]
    /\ shutdown' = [shutdown EXCEPT ![c] = TRUE]
    /\ UNCHANGED <<up, closure, told, timerVars>>

\* The business code shuts a session down.
Shutdown(c) ==
    /\ session[c] \in {"attached", "detached"}
    /\ ~shutdown[c]
    /\ shutdown' = [shutdown EXCEPT ![c] = TRUE]
    /\ UNCHANGED <<session, up, closure, told, timerVars>>

\* The gate, having got the response, destroys its session.
SendClosure(c) ==
    /\ session[c] \in {"attached", "refused"}
    /\ up[PairOf[c]]
    /\ closure[c] = "none"
    /\ closure' = [closure EXCEPT ![c] = "sent"]
    /\ UNCHANGED <<session, shutdown, up, told, timerVars>>

\* Mutated: the session is looked up, and stays.
ClosureWithoutDetaching(c) ==
    /\ closure[c] = "sent"
    /\ closure' = [closure EXCEPT ![c] = "over"]
    /\ IF session[c] = "attached"
       THEN /\ shutdown' = [shutdown EXCEPT ![c] = TRUE]
            /\ told' = [told EXCEPT ![c] = @ + 1]
       ELSE UNCHANGED <<shutdown, told>>
    /\ UNCHANGED <<session, up, timerVars>>

\* Detach the session, if it is still there, mark it and call back.
Websocket_closure_notification(c) ==
    /\ closure[c] = "sent"
    /\ closure' = [closure EXCEPT ![c] = "over"]
    /\ IF session[c] = "attached"
       THEN /\ session' = [session EXCEPT ![c] = "detached"]
            /\ shutdown' = [shutdown EXCEPT ![c] = TRUE]
            /\ told' = [told EXCEPT ![c] = @ + 1]
       ELSE UNCHANGED <<session, shutdown, told>>
    /\ UNCHANGED <<up, timerVars>>

\* A closure is lost with a connection it travels by.
LoseClosure(c) ==
    /\ closure[c] = "sent"
    /\ ~up[PairOf[c]]
    /\ closure' = [closure EXCEPT ![c] = "over"]
    /\ UNCHANGED <<session, shutdown, up, told, timerVars>>

LosePair(p) ==
    /\ up[p]
    /\ up' = [up EXCEPT ![p] = FALSE]
    /\ UNCHANGED <<session, shutdown, closure, told, timerVars>>

-------------------------------------------------------------------------------
\* ping_timer_proc

\* The members of S in their order, each once: how an index of the container
\* is walked through.
InOrder(S) == {s \in SetToSeqs(S) : \A i, j \in 1..Len(s) : i < j => s[i] < s[j]}

\* Collect gate servers.
Collect ==
    /\ stage = "idle"
    /\ stage' = "checking"
    /\ expired' \in InOrder({PairOf[c] : c \in Attached})
    /\ index' = 1
    /\ collected' = Attached
    /\ missed' = {}
    /\ UNCHANGED <<session, shutdown, up, closure, told, victims>>

\* Mutated: the loop advances past what it has erased.
CheckSkipping ==
    /\ stage = "checking"
    /\ index <= Len(expired)
    /\ IF up[expired[index]]
       THEN /\ expired' = RemoveAt(expired, index)
            /\ index' = index + 1
       ELSE index' = index + 1 /\ UNCHANGED expired
    /\ UNCHANGED <<session, shutdown, up, closure, told, stage, victims, collected, missed>>

\* Mutated: an error counts as an answer.
CheckNothing ==
    /\ stage = "checking"
    /\ index <= Len(expired)
    /\ expired' = RemoveAt(expired, index)
    /\ UNCHANGED <<session, shutdown, up, closure, told, stage, index, victims, collected, missed>>

\* Ask the foyer for the next gate; a server that is alive is erased.
Check ==
    /\ stage = "checking"
    /\ index <= Len(expired)
    /\ IF up[expired[index]]
       THEN expired' = RemoveAt(expired, index) /\ UNCHANGED index
       ELSE index' = index + 1 /\ UNCHANGED expired
    /\ UNCHANGED <<session, shutdown, up, closure, told, stage, victims, collected, missed>>

EndChecks ==
    /\ stage = "checking"
    /\ index > Len(expired)
    /\ stage' = "removing"
    /\ index' = 1
    /\ UNCHANGED <<session, shutdown, up, closure, told, expired, victims, collected, missed>>

\* For each pair there is: detach the sessions of the last one.
RemoveNext ==
    LET gone == {c \in Attached : PairOf[c] = Last(expired)} IN
    /\ stage = "removing"
    /\ victims = {}
    /\ index <= Len(expired)
    /\ victims' = gone
    /\ session' = [c \in Clients |-> IF c \in gone THEN "detached" ELSE session[c]]
    /\ index' = index + 1
    /\ UNCHANGED <<shutdown, up, closure, told, stage, expired, collected, missed>>

\* Mutated: a callback that throws ends the loop over the sessions.
CloseOnlyOne(c) ==
    /\ c \in victims
    /\ victims' = {}
    /\ shutdown' = [shutdown EXCEPT ![c] = TRUE]
    /\ told' = [told EXCEPT ![c] = @ + 1]
    /\ UNCHANGED <<session, up, closure, stage, expired, index, collected, missed>>

\* Mark one of them and call back; an exception is caught.
CloseVictim(c) ==
    /\ c \in victims
    /\ victims' = victims \ {c}
    /\ shutdown' = [shutdown EXCEPT ![c] = TRUE]
    /\ told' = [told EXCEPT ![c] = @ + 1]
    /\ UNCHANGED <<session, up, closure, stage, expired, index, collected, missed>>

EndRun ==
    /\ stage = "removing"
    /\ victims = {}
    /\ index > Len(expired)
    /\ stage' = "idle"
    /\ missed' = {PairOf[c] : c \in collected \cap Attached} \cap ToSet(expired)
    /\ UNCHANGED <<session, shutdown, up, closure, told, expired, index, victims, collected>>

ping_timer_proc ==
    Collect \/ Check \/ EndChecks \/ RemoveNext \/ EndRun \/ \E c \in Clients : CloseVictim(c)

-------------------------------------------------------------------------------
Establishing(c) == attach_session(c) \/ RefuseSession(c)

Session(c) ==
    \/ Websocket_establishment_request(c)
    \/ Establishing(c)
    \/ Shutdown(c)
    \/ SendClosure(c)
    \/ Websocket_closure_notification(c)
    \/ LoseClosure(c)

Next ==
    \/ \E c \in Clients : Session(c)
    \/ \E p \in Pairs : LosePair(p)
    \/ ping_timer_proc

Spec == Init /\ [][Next]_vars

\* The timer comes round, and its calls return.
FairSpec == Spec /\ WF_vars(ping_timer_proc)

-------------------------------------------------------------------------------
\* Properties

(***************************************************************************)
(* A session is detached only when its gate has reported its closure or    *)
(* cannot be reached: a gate found alive in the checks, between which      *)
(* sessions come and go, loses none to the timer.                          *)
(***************************************************************************)
OnlyGoneAreDetached ==
    \A c \in Clients : session[c] = "detached" => closure[c] = "over" \/ ~up[PairOf[c]]

(***************************************************************************)
(* The business code is told of a closure once, however the notification   *)
(* and the timer race for the session, never for a session it has refused, *)
(* and finds the session shut down.                                        *)
(***************************************************************************)
ToldOnce ==
    \A c \in Clients :
        /\ told[c] <= 1
        /\ told[c] = 1 => session[c] = "detached" /\ shutdown[c]

(***************************************************************************)
(* A session that is no longer attached will be closed: only sessions the  *)
(* timer is about to close are detached with nobody told.                  *)
(***************************************************************************)
NoneForgotten ==
    \A c \in Clients : session[c] = "detached" /\ told[c] = 0 => c \in victims

(***************************************************************************)
(* The business code learns that a gate is gone, for every session it had  *)
(* there, although one run removes the sessions of one gate only.          *)
(***************************************************************************)
GoneAreClosed ==
    \A c \in Clients : session[c] = "attached" /\ ~up[PairOf[c]] ~> told[c] = 1

(***************************************************************************)
(* A run of the timer removes the sessions whose gate servers it has found *)
(* to exist no longer, as the comment in ping_timer_proc says.             *)
(***************************************************************************)
RunRemovesAll == missed = {}

===============================================================================
