------------------------------- MODULE Broadcast -------------------------------
(***************************************************************************)
(* A broadcast of the business code of a box to WebSocket clients.  The    *)
(* box sends it to every foyer that its Interserver_acceptor knows; a      *)
(* foyer sends it on to the gates it finds among its own sessions, once    *)
(* for each gate; a gate sends it to the clients.                          *)
(*                                                                         *)
(* The acceptor keeps its sessions under a mutex.  A session registers     *)
(* itself with its own mutex held; a broadcast and a look-up hold the      *)
(* acceptor's and take the session's: three kinds of threads take two      *)
(* mutexes in two orders.  The jobs of a connection are context-free and   *)
(* may be performed in any order, so messages are kept in sets.            *)
(***************************************************************************)
EXTENDS Naturals, Sequences, SequencesExt

CONSTANTS
    Sessions,       \* objects of class Interserver_session at the box
    Foyers, Gates, Clients,
    FoyerOf,        \* FoyerOf[s]: the foyer the session s is connected with
    GateOf,         \* GateOf[c]: the gate the client c is connected with
    EntryOf,        \* EntryOf[c]: the foyer through which c was established: its
                    \* gate is known to the box by the UUID of their connection
    MaxBroadcasts

ASSUME ConstantsAssumption ==
    /\ FoyerOf \in [Sessions -> Foyers]
    /\ GateOf \in [Clients -> Gates]
    /\ EntryOf \in [Clients -> Foyers]
    /\ MaxBroadcasts \in Nat

VARIABLES
    session,    \* session[s]: the state of the session object s of the box
    known,      \* m_weak_sessions of the acceptor
    acceptor,   \* who holds the acceptor's m_mutex between two steps
    held,       \* held[s]: who holds m_mutex of the session s
    current,    \* the broadcast under way at the box, 0 if there is none
    todo,       \* sessions it has yet to visit, in the order of the map
    started,    \* broadcasts that have been started; they are 1, 2, ...
    toFoyer,    \* toFoyer[s]: broadcasts on their way over s
    linked,     \* pairs <<f, g>>: the gate g has an open connection to the foyer f
    toGate,     \* toGate[<<f, g>>]: notifications on their way over it
    open,       \* clients whose sessions are open
    got         \* history: got[c], the broadcasts the client c has been sent

vars == <<session, known, acceptor, held, current, todo, started, toFoyer, linked, toGate, open, got>>

sessionVars == <<session, known, held>>
castVars    == <<acceptor, current, todo, started>>
routeVars   == <<linked, toGate, open, got>>

-------------------------------------------------------------------------------
Casts == 1..MaxBroadcasts

Links == Foyers \X Gates

Notification == [cast: Casts, clients: SUBSET Clients, body: BOOLEAN]

TypeOK ==
    /\ session \in [Sessions -> {"none", "connected", "accepting", "registered", "down", "destroyed"}]
    /\ known \subseteq Sessions
    /\ acceptor \in {"free", "broadcast", "lookup"}
    /\ held \in [Sessions -> {"free", "hello", "sender"}]
    /\ current \in 0..MaxBroadcasts
    /\ todo \in Seq(Sessions)
    /\ started \in 0..MaxBroadcasts
    /\ toFoyer \in [Sessions -> SUBSET Casts]
    /\ linked \subseteq Links
    /\ toGate \in [Links -> SUBSET Notification]
    /\ open \subseteq Clients
    /\ got \in [Clients -> Seq(Casts)]

Init ==
    /\ session = [s \in Sessions |-> "none"]
    /\ known = {}
    /\ acceptor = "free"
    /\ held = [s \in Sessions |-> "free"]
    /\ current = 0
    /\ todo = <<>>
    /\ started = 0
    /\ toFoyer = [s \in Sessions |-> {}]
    /\ linked = Links
    /\ toGate = [l \in Links |-> {}]
    /\ open = Clients
    /\ got = [c \in Clients |-> <<>>]

-------------------------------------------------------------------------------
\* Sessions of the acceptor

\* The connector of a foyer keeps at most one connection to the box.
FoyerIsFree(f) ==
    \A s \in Sessions : FoyerOf[s] = f => session[s] \in {"none", "down", "destroyed"}

\* Mutated: the session is registered when it is made.
ConnectKnown(s) ==
    /\ session[s] = "none"
    /\ FoyerIsFree(FoyerOf[s])
    /\ acceptor = "free"
    /\ session' = [session EXCEPT ![s] = "connected"]
    /\ known' = known \cup {s}
    /\ UNCHANGED <<held, castVars, toFoyer, routeVars>>

\* on_client_connect() makes a session, under the acceptor's mutex.
Connect(s) ==
    /\ session[s] = "none"
    /\ FoyerIsFree(FoyerOf[s])
    /\ acceptor = "free"
    /\ session' = [session EXCEPT ![s] = "connected"]
    /\ UNCHANGED <<known, held, castVars, toFoyer, routeVars>>

\* The workhorse takes the session's mutex to accept the foyer's hello.
BeginHello(s) ==
    /\ session[s] = "connected"
    /\ held[s] = "free"
    /\ session' = [session EXCEPT ![s] = "accepting"]
    /\ held' = [held EXCEPT ![s] = "hello"]
    /\ UNCHANGED <<known, castVars, toFoyer, routeVars>>

Expired(s) == session[s] = "destroyed"

\* With it held, the session drops the entries that have expired and adds its
\* own, under the acceptor's mutex.
Register(s) ==
    /\ held[s] = "hello"
    /\ acceptor = "free"
    /\ known' = {x \in known : ~Expired(x)} \cup {s}
    /\ held' = [held EXCEPT ![s] = "free"]
    /\ session' = [session EXCEPT ![s] = IF @ = "accepting" THEN "registered" ELSE @]
    /\ UNCHANGED <<castVars, toFoyer, routeVars>>

\* A fiber sends a message of its own over the session.
BeginSend(s) ==
    /\ session[s] = "registered"
    /\ held[s] = "free"
    /\ held' = [held EXCEPT ![s] = "sender"]
    /\ UNCHANGED <<session, known, castVars, toFoyer, routeVars>>

EndSend(s) ==
    /\ held[s] = "sender"
    /\ held' = [held EXCEPT ![s] = "free"]
    /\ UNCHANGED <<session, known, castVars, toFoyer, routeVars>>

\* The connection is lost, and with it what has not been handled yet: jobs that
\* have been received and are performed later might as well be performed before.
Lose(s) ==
    /\ session[s] \in {"connected", "accepting", "registered"}
    /\ session' = [session EXCEPT ![s] = "down"]
    /\ toFoyer' = [toFoyer EXCEPT ![s] = {}]
    /\ UNCHANGED <<known, held, castVars, routeVars>>

\* The last reference to it is dropped; the entry in the map expires.
Destroy(s) ==
    /\ session[s] = "down"
    /\ held[s] = "free"
    /\ session' = [session EXCEPT ![s] = "destroyed"]
    /\ UNCHANGED <<known, held, castVars, toFoyer, routeVars>>

-------------------------------------------------------------------------------
\* The acceptor

\* get_session() has found s and holds the acceptor's mutex while it waits for
\* the session's, to compare the UUID.
BeginLookUp(s) ==
    /\ acceptor = "free"
    /\ s \in known /\ ~Expired(s)
    /\ acceptor' = "lookup"
    /\ todo' = <<s>>
    /\ UNCHANGED <<sessionVars, current, started, toFoyer, routeVars>>

EndLookUp(s) ==
    /\ acceptor = "lookup"
    /\ todo = <<s>>
    /\ held[s] = "free"
    /\ acceptor' = "free"
    /\ todo' = <<>>
    /\ UNCHANGED <<sessionVars, current, started, toFoyer, routeVars>>

\* safe_broadcast_notification() is called with the UUIDs of all clients.  The map
\* is ordered by the UUIDs of the connections, which are random.
BeginBroadcast ==
    /\ acceptor = "free"
    /\ started < MaxBroadcasts
    /\ acceptor' = "broadcast"
    /\ started' = started + 1
    /\ current' = started + 1
    /\ todo' \in SetToSeqs(known)
    /\ UNCHANGED <<sessionVars, toFoyer, routeVars>>

\* It sends to one session after another, except those that have expired.  A
\* session that has been shut down throws, which ends its turn and no other.
Visit(s) ==
    /\ acceptor = "broadcast"
    /\ todo # <<>> /\ s = Head(todo)
    /\ Expired(s) \/ held[s] = "free"
    /\ todo' = Tail(todo)
    /\ toFoyer' = IF Expired(s) \/ session[s] = "down" THEN toFoyer
                  ELSE [toFoyer EXCEPT ![s] = @ \cup {current}]
    /\ UNCHANGED <<sessionVars, acceptor, current, started, routeVars>>

EndBroadcast ==
    /\ acceptor = "broadcast"
    /\ todo = <<>>
    /\ acceptor' = "free"
    /\ current' = 0
    /\ UNCHANGED <<sessionVars, todo, started, toFoyer, routeVars>>

-------------------------------------------------------------------------------
\* The foyer and the gate

\* Mutated: a foyer takes any gate it knows for the client's.
ClientsAnywhere(f, g) == {c \in Clients : GateOf[c] = g}

\* The clients whose gate f finds as g: the UUID is that of its connection.
ClientsAt(f, g) == {c \in Clients : GateOf[c] = g /\ EntryOf[c] = f}

Receivers(f) == {g \in Gates : <<f, g>> \in linked /\ ClientsAt(f, g) # {}}

\* Gates whose connections are down, but whose sessions may be found all the same.
Lost(f) == {g \in Gates : <<f, g>> \notin linked /\ ClientsAt(f, g) # {}}

\* The loop moves the messages into the notification when it still finds them in
\* what it was sent: at the first gate, whether sending then throws or not.
MovesBody(i) == i = 1

\* Mutated: sending moves them on, so that the notification loses them again.
HasBodyOnce(i) == MovesBody(i)

\* There they stay for the gates that follow.
HasBody(i) == \E j \in 1..i : MovesBody(j)

\* The notification for the gate g, if the gates come in this order.
Packed(n, f, g, order) ==
    [cast |-> n, clients |-> ClientsAt(f, g),
     body |-> \E i \in DOMAIN order : order[i] = g /\ HasBody(i)]

\* The foyer groups the clients by gate and sends each gate one notification, in
\* the order of UUIDs.  A gate that is not found is left out, one whose connection
\* is down throws, which ends its turn and no other.
Forward(s, n) ==
    LET f == FoyerOf[s] IN
    /\ n \in toFoyer[s]
    /\ toFoyer' = [toFoyer EXCEPT ![s] = @ \ {n}]
    /\ \E lost \in SUBSET Lost(f) : \E order \in SetToSeqs(Receivers(f) \cup lost) :
        toGate' = [l \in Links |->
            IF l[1] = f /\ l[2] \in Receivers(f)
            THEN toGate[l] \cup {Packed(n, f, l[2], order)} ELSE toGate[l]]
    /\ UNCHANGED <<sessionVars, castVars, linked, open, got>>

\* The gate sends the messages to those of the clients that it still has.
Deliver(l, m) ==
    /\ m \in toGate[l]
    /\ toGate' = [toGate EXCEPT ![l] = @ \ {m}]
    /\ got' = [c \in Clients |->
            IF c \in m.clients \cap open /\ m.body THEN Append(got[c], m.cast) ELSE got[c]]
    /\ UNCHANGED <<sessionVars, castVars, toFoyer, linked, open>>

\* A gate loses its connection to a foyer.
LoseLink(l) ==
    /\ l \in linked
    /\ linked' = linked \ {l}
    /\ toGate' = [toGate EXCEPT ![l] = {}]
    /\ UNCHANGED <<sessionVars, castVars, toFoyer, open, got>>

Leave(c) ==
    /\ c \in open
    /\ open' = open \ {c}
    /\ UNCHANGED <<sessionVars, castVars, toFoyer, linked, toGate, got>>

-------------------------------------------------------------------------------
Next ==
    \/ \E s \in Sessions :
        \/ Connect(s) \/ BeginHello(s) \/ Register(s) \/ BeginSend(s) \/ EndSend(s)
        \/ Lose(s) \/ Destroy(s) \/ BeginLookUp(s) \/ EndLookUp(s) \/ Visit(s)
        \/ \E n \in toFoyer[s] : Forward(s, n)
    \/ BeginBroadcast \/ EndBroadcast
    \/ \E l \in Links :
        \/ LoseLink(l)
        \/ \E m \in toGate[l] : Deliver(l, m)
    \/ \E c \in Clients : Leave(c)

Spec == Init /\ [][Next]_vars

\* A thread that waits for a mutex gets it in the end, whoever else wants it,
\* and messages arrive on connections that stay up.
Fairness ==
    /\ \A s \in Sessions :
        /\ SF_vars(Register(s)) /\ WF_vars(EndSend(s)) /\ SF_vars(EndLookUp(s)) /\ SF_vars(Visit(s))
        /\ WF_vars(\E n \in toFoyer[s] : Forward(s, n))
    /\ WF_vars(EndBroadcast)
    /\ \A l \in Links : WF_vars(\E m \in toGate[l] : Deliver(l, m))

FairSpec == Spec /\ Fairness

-------------------------------------------------------------------------------
(***************************************************************************)
(* Properties                                                              *)
(***************************************************************************)

(***************************************************************************)
(* No client is sent a broadcast twice, although every foyer gets the      *)
(* whole list of clients and a gate is connected to several foyers.        *)
(***************************************************************************)
BroadcastOnce == \A c \in Clients : IsInjective(got[c])

PathIsUp(c) ==
    /\ \E s \in Sessions : FoyerOf[s] = EntryOf[c] /\ session[s] = "registered"
    /\ <<EntryOf[c], GateOf[c]>> \in linked
    /\ c \in open

(***************************************************************************)
(* A broadcast arrives, with its messages, at every client whose path      *)
(* stays up, although other sessions are registered, looked up, used and   *)
(* lost at the same time and sending to some of them fails: the threads    *)
(* never wait for each other's mutexes in a circle.                        *)
(***************************************************************************)
BroadcastsArrive ==
    \A c \in Clients, n \in Casts :
        current = n /\ PathIsUp(c) ~> n \in ToSet(got[c]) \/ ~PathIsUp(c)
===============================================================================
