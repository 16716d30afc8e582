------------------------------- MODULE Connector -------------------------------
(***************************************************************************)
(* An Interserver_connector: a timer that keeps one client connected to    *)
(* each of the configured hosts, and the map through which the clients are *)
(* found.                                                                  *)
(*                                                                         *)
(* m_mutex is held while the timer walks over the hosts, but not while it  *)
(* waits for a name to be resolved; the walk from one wait to the next is  *)
(* one step.  The library may start a run of the timer while another one   *)
(* is waiting.  The map holds weak pointers: a client that has been shut   *)
(* down is still found until the last of its users has let it go.  What    *)
(* travels over a connection is the matter of Interserver.                 *)
(*                                                                         *)
(* NetworkProofs extends this module along with Broadcast, so the names of *)
(* the specification as a whole begin with Connector.                      *)
(***************************************************************************)
EXTENDS Naturals, FiniteSetsExt

CONSTANTS
    NumHosts,   \* the configured hosts are 1..NumHosts, in this order
    Objects,    \* objects of class Interserver_client, used again once destroyed
    Runs,       \* runs of the timer that may overlap
    NoClient

ASSUME ConnectorAssumption == NumHosts \in Nat \ {0} /\ NoClient \notin Objects

Hosts == 1..NumHosts

VARIABLES
    clients,    \* clients[h]: what m_weak_clients[h] locks to
    state,      \* state[c]: the state of the object c
    host,       \* host[c]: the host c is, or was last, connected to
    users,      \* clients that a fiber has found, and still holds
    waiting,    \* waiting[r]: the host whose name the run r waits for, 0 if it does not
    resolvable  \* hosts whose names can be resolved at the moment

connectorVars == <<clients, state, host, users, waiting, resolvable>>

-------------------------------------------------------------------------------
ConnectorTypeOK ==
    /\ clients \in [Hosts -> Objects \cup {NoClient}]
    /\ state \in [Objects -> {"destroyed", "hello", "authenticated", "down"}]
    /\ host \in [Objects -> Hosts]
    /\ users \subseteq Objects
    /\ waiting \in [Runs -> 0..NumHosts]
    /\ resolvable \subseteq Hosts

ConnectorInit ==
    /\ clients = [h \in Hosts |-> NoClient]
    /\ state = [c \in Objects |-> "destroyed"]
    /\ host = [c \in Objects |-> 1]
    /\ users = {}
    /\ waiting = [r \in Runs |-> 0]
    /\ resolvable \in SUBSET Hosts

-------------------------------------------------------------------------------
\* Helpers

Open(c) == state[c] \in {"hello", "authenticated"}

\* A client that is not shut down yet is shut down, any other stays as it is.
Downed(c) == IF Open(c) THEN "down" ELSE state[c]

\* The first host from h on, in the map m, for which there is no client; 0 if
\* there is one for each of them.  Clients that are found are only sent a PING.
NextMissing(h, m) ==
    LET missing == {i \in h..NumHosts : m[i] = NoClient}
    IN IF missing = {} THEN 0 ELSE Min(missing)

-------------------------------------------------------------------------------
\* The timer

\* Mutated: the timer is registered without a period.
FireOnce(r) ==
    /\ waiting[r] = 0
    /\ \A c \in Objects : state[c] = "destroyed"
    /\ waiting' = [waiting EXCEPT ![r] = NextMissing(1, clients)]
    /\ UNCHANGED <<clients, state, host, users, resolvable>>

\* The timer fires and a run walks to the first name that has to be looked up.
Fire(r) ==
    /\ waiting[r] = 0
    /\ waiting' = [waiting EXCEPT ![r] = NextMissing(1, clients)]
    /\ UNCHANGED <<clients, state, host, users, resolvable>>

\* Mutated: the client is not looked up again after the wait.
KeepOld(h) == state

\* An old client, made by another run during the wait, is killed.
KillOld(h) ==
    IF clients[h] = NoClient THEN state
    ELSE [state EXCEPT ![clients[h]] = Downed(clients[h])]

\* The name has been resolved: the client of the host is looked up once more and
\* killed if there is one; a new one says hello and takes its place; the walk
\* goes on with the next host.
LookUpSucceeds(r) ==
    LET h == waiting[r] IN
    /\ h \in resolvable
    /\ \E c \in Objects :
        /\ state[c] = "destroyed"
        /\ state' = [KillOld(h) EXCEPT ![c] = "hello"]
        /\ host' = [host EXCEPT ![c] = h]
        /\ clients' = [clients EXCEPT ![h] = c]
        /\ waiting' = [waiting EXCEPT ![r] = NextMissing(h + 1, clients')]
    /\ UNCHANGED <<users, resolvable>>

\* The name cannot be resolved: the exception ends the run, and the hosts that
\* come after are not visited.
LookUpFails(r) ==
    /\ waiting[r] \in Hosts \ resolvable
    /\ waiting' = [waiting EXCEPT ![r] = 0]
    /\ UNCHANGED <<clients, state, host, users, resolvable>>

-------------------------------------------------------------------------------
\* Users of the connector

\* get_client(), get_all_clients(): what the map locks to, whatever its state.
GetClient(h) ==
    /\ clients[h] # NoClient
    /\ users' = users \cup {clients[h]}
    /\ UNCHANGED <<clients, state, host, waiting, resolvable>>

\* A fiber lets go of a client, at the latest when its connection is lost.
Release(c) ==
    /\ c \in users
    /\ users' = users \ {c}
    /\ UNCHANGED <<clients, state, host, waiting, resolvable>>

\* safe_broadcast_notification() shuts down the clients it fails to send to.
FailBroadcast(h) ==
    /\ clients[h] # NoClient
    /\ state' = [state EXCEPT ![clients[h]] = Downed(clients[h])]
    /\ UNCHANGED <<clients, host, users, waiting, resolvable>>

\* clear(): all clients are shut down and forgotten.
Clear ==
    /\ state' = [c \in Objects |-> IF \E h \in Hosts : clients[h] = c THEN Downed(c) ELSE state[c]]
    /\ clients' = [h \in Hosts |-> NoClient]
    /\ UNCHANGED <<host, users, waiting, resolvable>>

-------------------------------------------------------------------------------
\* Connections and names

\* The server's hello arrives.
Authenticate(c) ==
    /\ state[c] = "hello"
    /\ state' = [state EXCEPT ![c] = "authenticated"]
    /\ UNCHANGED <<clients, host, users, waiting, resolvable>>

\* The connection is refused or lost.
LoseConnection(c) ==
    /\ Open(c)
    /\ state' = [state EXCEPT ![c] = "down"]
    /\ UNCHANGED <<clients, host, users, waiting, resolvable>>

\* The epoll daemon has dropped a client that is shut down, and nobody else
\* holds it: the weak pointer expires.
DestroyObject(c) ==
    /\ state[c] = "down"
    /\ c \notin users
    /\ state' = [state EXCEPT ![c] = "destroyed"]
    /\ clients' = [h \in Hosts |-> IF clients[h] = c THEN NoClient ELSE clients[h]]
    /\ UNCHANGED <<host, users, waiting, resolvable>>

\* Whether a name can be resolved changes with time.
NameChanges(h) ==
    /\ resolvable' \in {resolvable \cup {h}, resolvable \ {h}}
    /\ resolvable' # resolvable
    /\ UNCHANGED <<clients, state, host, users, waiting>>

-------------------------------------------------------------------------------
ConnectorNext ==
    \/ \E r \in Runs : Fire(r) \/ LookUpSucceeds(r) \/ LookUpFails(r)
    \/ \E h \in Hosts : GetClient(h) \/ FailBroadcast(h) \/ NameChanges(h)
    \/ \E c \in Objects : Release(c) \/ Authenticate(c) \/ LoseConnection(c) \/ DestroyObject(c)
    \/ Clear

ConnectorSpec == ConnectorInit /\ [][ConnectorNext]_connectorVars

\* The timer fires every five seconds, look-ups end, and what is shut down is
\* let go and destroyed.  Strong fairness of a look-up that succeeds is for the
\* bound on the objects, which the other run may use up for a while.
ConnectorFairness ==
    /\ WF_connectorVars(\E r \in Runs : Fire(r))
    /\ \A r \in Runs : SF_connectorVars(LookUpSucceeds(r)) /\ WF_connectorVars(LookUpFails(r))
    /\ \A c \in Objects : WF_connectorVars(state[c] = "down" /\ Release(c)) /\ SF_connectorVars(DestroyObject(c))

ConnectorFairSpec == ConnectorSpec /\ ConnectorFairness

-------------------------------------------------------------------------------
(***************************************************************************)
(* Properties                                                              *)
(***************************************************************************)

(***************************************************************************)
(* A host is never connected to twice: of the clients of a host at most    *)
(* one is open, and it is the one that the map finds, even when two runs   *)
(* of the timer have looked the host's name up at the same time.           *)
(***************************************************************************)
OneClientPerHost == \A c \in Objects : Open(c) => clients[host[c]] = c

(***************************************************************************)
(* As long as the name of a host, and the names of the hosts before it,    *)
(* can be resolved, the host is connected to, again and again if the       *)
(* connection is lost.  Nothing like it holds for a host that comes after  *)
(* one whose name cannot be resolved.                                      *)
(***************************************************************************)
HostsAreConnected ==
    \A h \in Hosts :
        <>[](1..h \subseteq resolvable) => []<>(\E c \in Objects : host[c] = h /\ Open(c))
===============================================================================
