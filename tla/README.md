# A verification project for Circe

Circe is a framework for clustered servers, written in C++ on the Poseidon
library. Five kinds of server make up a cluster:

    clients --HTTP, WebSocket--> gate --> auth
                                 gate --> foyer --> box --> pilot

A *gate* talks to clients, *auth* says who they are, *foyers* route between
gates and *boxes*, which run the business code, and the *pilot* keeps small
values and locks for the boxes. Servers talk over *interserver connections*,
which carry encrypted requests, responses and notifications.

This project models the parts of Circe with state and concurrency of their own
in TLA+, checks them with TLC on small instances, and proves with TLAPS, for every
value of the constants, the invariants, that the pilot implements a register with a
lock, and that a WebSocket connection implements a message channel each way.
`PROJECT.json` maps
each definition to the lines it stands for, and lists components, runs, mutants,
hazards, findings and theorems. Directories of the sources are abbreviated
below: `pilot/` is `src/circe-pilot/circe-pilot/src/`, and so on.

## 1. Inventory

### Scheduling

Poseidon runs *jobs* in the fibers of its primary thread: a job runs until it
yields, normally in `Common::wait_for_response`, and jobs of one category run
one after another. Timers run as jobs. An epoll thread reads and writes sockets
and calls `layer5_on_*` and `layer4_on_close`; a workhorse thread encodes and
decodes the messages of each connection in order. Objects are kept by
`shared_ptr` and found through `weak_ptr`, so a destructor may run in any
thread that drops the last reference.

### Components

| Component | State | Operations | What makes it correct |
|---|---|---|---|
| Compass lock (`pilot/compass_lock.cpp`) | entries of readers and of the writer, as weak pointers | try-lock and release, shared and exclusive, recursive; collection of dead entries | readers and a writer of different connections never meet |
| Compass, repository, watchers, servlets (`pilot/compass.cpp`, `singletons/compass_repository.cpp`, `compass_watcher_map.cpp`, `servlets.cpp`) | values with versions, locks, watchers, an index by access time | Compare_exchange, Exchange, Add_watch, Remove_watch; the collector | a key is a register with a lock; answers tell the truth about locks; watchers learn the last value |
| Pilot's database objects (`pilot/compass.cpp`, `orm.cpp`, `singletons/compass_repository.cpp`) | the row of a compass, the queue of Poseidon's MySQL daemon | assign a field, save, delete; load at start | a compass in memory is as its row is, or a save of it is queued; a crash mixes no two writes |
| Interserver connection (`common/interserver_connection.cpp`) | `m_connection_uuid`, `m_authenticated`, ciphers, `m_weak_promises`, mutex | hello both ways, requests, responses, notifications, pings, status frames, shutdown, close | no garbled message, no fiber left waiting, nobody served without the key |
| Interserver connector (`common/interserver_connector.cpp`) | hosts, map of clients by address, mutex | the reconnecting timer with its DNS waits, look-up, broadcast, clear | one client per host, and every host is connected to again |
| Interserver acceptor (`common/interserver_acceptor.cpp`) | sessions by UUID, as weak pointers; mutex | registration after the hello, look-up, broadcast | its mutex and the connections' never wait for each other; a broadcast reaches each session |
| Gate: IP ban list (`gate/singletons/ip_ban_list.cpp`) | per address: counters, deadline, end of the ban | count, query, lift | bans last as long as imposed; only those who deserve it are banned |
| Gate: HTTP session and acceptor (`gate/client_http_session.cpp`, `gate/singletons/client_http_acceptor.cpp`) | decoded URI, authentication token, upgraded session | `Expect`, authentication, request through a foyer to a box, upgrade | each request is made under its own URI and token, and ends |
| Gate: WebSocket session (`gate/client_websocket_session.cpp`) | token, queue of messages, delivery job, foyer connection, reason of closure | authentication, establishment, delivery, kill, closure by the destructor | no message of a stranger, messages in order, none stranded; the box learns of the end |
| Box: shadow session (`box/websocket_shadow_session.cpp`) | queue, delivery job, `m_shutdown` | send, delivery, shutdown, mark_shutdown | the same, the other way |
| Box: shadow session supervisor (`box/singletons/websocket_shadow_session_supervisor.cpp`) | sessions by client and by (foyer, gate) | attach, detach, look up; the ping timer | each closure told once, also when a gate dies |
| Foyer servlets (`foyer/servlets.cpp`) | none | forward requests, notifications, grouped broadcasts; check a gate | answers and errors go back to whom they belong |
| Auth servlets (`auth/servlets.cpp`) | none | call the business code | - |

### How they interact

A WebSocket connection goes through: handshake at the gate; authentication at
auth; establishment through a foyer at a box, where the business code accepts
and the shadow session is attached; messages both ways, in batches, each a
request through the foyer; a kill notification if the box ends it; a closure
notification when the gate's session is destroyed. All of it travels over
interserver connections; a connection that is lost is replaced by one with
another UUID, and sessions keep the UUIDs they began with, so to them a
connection once lost is lost for good.

### What is hard

* Three threads per connection: the hello goes through the workhorse while
  control frames bypass it, each end switches cipher seeds at its own moment,
  and closing races requests and responses for the promises.
* Yields: the timer of the supervisor and that of the connector, every servlet
  of the foyer, authentication, establishment and delivery jobs wait in the
  middle of what they do, and connections, sessions and clients go meanwhile.
* Weak pointers: connections vanish from locks, watchers and maps between two
  operations; closures are sent by destructors.
* Mutexes taken in two orders, the acceptor's and a session's.
* Loss: a request, a kill or a closure is lost with its connection, and timers
  have to clean up.
* Shared deadlines and indices that are copies of the state they order: the ban
  list and the compass repository.
* Crashes of the pilot between a write, its save and its execution.

`PROJECT.json` lists these hazards line by line with the properties that cover
them.

## 2. Plan

The project was built in this order, the most important behaviour first.

1. **Pilot**: `CompassLock`, `Compass`, `LockedRegister`, their proofs; then
   `CompassStore` for crashes. Done, with every invariant and the refinement
   proved.
2. **Interserver connection**: `Interserver`. Done, with its safety proved.
3. **Delivery** of WebSocket messages, **ShadowSessions**, and **ClientConnection**
   for what comes before: HTTP, authentication, establishment; **MessageChannel**,
   which `Delivery` implements. Done, with their safety and the refinement proved.
4. **IpBanList**. Done, with its invariants proved.
5. **Connector** and **Broadcast** for the registries of connections. Done, with
   their invariants proved.

Left for whoever continues: notifications in `Interserver`;
an abstract request and answer that `Interserver` would implement, as
`RequestsHappenOnce` and `PromisesAreKept` say in part.

Modules that compose: `Compass` uses the operators of `CompassLock` and implements
one `LockedRegister` per key; `Delivery` implements one `MessageChannel` per way.
`Broadcast` takes it that a foyer has one connection to a box at a time
(`FoyerIsFree`), which `Connector` shows (`OneClientPerHost`); `NetworkProofs` proves
about both. The stages of a client's connection are in three
modules that meet at states: `ClientConnection` ends where a session is
established, `Delivery` starts there, and both hand over to `ShadowSessions` what
the loss of a gate leaves behind. A connection between servers is `Interserver`
seen from inside and a `link` that is up or lost to all others, which is what its
properties (`NobodyWaitsForEver`, `AtMostOnce`) justify.

## 3. Modules

**`CompassLock`** holds the operators of the recursive try-lock: collecting
entries whose connection is gone, `CanLock...`, adding and removing entries, and
what a disposition of a request does. An entry is kept as a count per connection.

**`Compass`** is the pilot. A servlet runs without yielding, so each is one
action: open the compass (creating or loading it), take the temporary lock,
compare, write, notify, apply the lock disposition, answer. Another thread may
destroy connections at any moment, so the connections that expire in the middle of
a servlet are chosen with it. `gc_timer_proc` is the timer; `Connect`,
`Shutdown`, `Expire` and `Tick` are the environment. History variables record what answers have told clients (`granted`,
`view`), and they are what the properties compare the pilot with.

**`LockedRegister`** is the abstraction of one key: a value with a version, and
steps that change it only under a lock that excludes the others. `Compass`
instantiates it for every key and implements it.

**`CompassStore`** takes one compass down to the database: the fields in memory,
the row, and the queue of operations between them. `SetValue` and `SetVersion` are
the two assignments of `Compass::set_value`, each of which saves; the daemon is a
thread of its own and `Execute` may run between them, with the fields as they
stand. `Crash` empties memory and queue, `Restart` loads.

**`Interserver`** has both ends of a connection, each with the epoll thread, the
workhorse and the dispatcher interleaved. Mutexes that are held across steps are
variables. A message is its kind and the seed it was encoded with; decoding with
another seed is garbage. The checksum of a hello is right when both servers have
the same application key, and so is every seed, which is a checksum of the key, too.
That they have it is left open at the start. So is whether the connector's end
`announces` itself: the connector of this repository says hello before anything
else, as the class asks (`interserver_connection.hpp:95`), but the class does not
enforce it, so another user of it may send requests first, or say no hello at all.
`shutdown` sends a status frame (`status`), which reaches the peer after all that has
been sent before and, like a PING, is handled by the epoll thread
(`layer5_on_receive_control`): `status_shutdown` is answered with the same, any other
is logged, and either fails an assertion of an end that has not authenticated.

**`Connector`** is the timer's walk over the hosts. `m_mutex` is held but for the
waits for DNS, so a step is the walk from one wait to the next; two runs of the
timer overlap, and users keep clients alive that the map only knows weakly. Its clients
are its `Objects`, and the names of the whole specification begin with `Connector`, so
that `NetworkProofs` can extend it beside `Broadcast`.

**`Broadcast`** follows a broadcast from the business code over foyers and gates to
the clients. At the box, registration, sending, look-ups and the broadcast are
split where they take and give up the acceptor's mutex and a session's.

**`IpBanList`** has one element per address, with the deadline that orders the
index. Every operation holds `g_mutex` and is one action. History variables keep
the events of the last window, a set of pairs of a moment and a number, and the last
ban.

**`ClientConnection`** is a client's connection from its first request on. The epoll
thread reads (`ReadHeaders`, `ReadEnd`, `ReadMessage`), the jobs of the connection run one by one and wait for auth and box, and while they wait the
client leaves, the box kills, links are lost. Establishment is seen from gate,
foyer and box, so that a kill may overtake the answer and a failed one has to be
undone. Whether an address is banned is left open. A request that is refused for its
form is refused at once, also where the code would authenticate an `Expect` first and
refuse the request after it: no property tells the two apart.

**`Delivery`** follows the messages of one established connection both ways. The
module is symmetric in the two sides where the code is: `EnsureJob`, `BeginJob`,
`SendBatch`, `ReceiveResponse`, `ReceiveFailure` are `Delivery_job` of either,
`Forward` is the foyer, `Arrive` to `HandleDone` the servlet of the receiver. What
differs is by action: the bound on the gate's queue, the check of `m_shutdown`
before the mutex in the box's `send()` (`BeginSend`, `EndSend`), the kill, the
destructor, the closure, the timer. Whether the events of a client share the
category of the gate's jobs is the library's affair: the model lets a message come
whatever the job is at, which includes both.

**`MessageChannel`** is the abstraction of one way of it: a queue that messages are
put in at one end, each once, and taken off at the other, which is up until it breaks,
and then may lose its eldest messages, never one from the middle without those before
it. In `Delivery` what has been sent is what was accepted; the queue is what the request
still carries, what the job is about to send and what is pending, one after the other
(`InTransit`); it is up while both sessions are open and, for messages of the client,
the box still finds its session (`Up`).

**`ShadowSessions`** is the supervisor with several sessions and gates. The timer
is split where it gives up the mutex: `Collect`, which lists the pairs of foyer and
gate in the order of the container's keys (`InOrder`), one `Check` per gate, one
`RemoveNext` per pair left, one `CloseVictim` per session detached. One run follows
another here, while `Connector` lets runs overlap: runs of this timer share nothing but
the container, which they change under `g_mutex`, so to one run another is what a
closure notification is, somebody who may take sessions away first.

`MC*` modules give values to constants that a configuration cannot write, and
symmetry. `*Proofs` modules hold theorems.

## 4. Runs

| Run | Question | Bounds |
|---|---|---|
| `compass` | do locks exclude, do answers tell the truth, what takes a granted lock away, do watchers know the last value, do commits complete, is a key a locked register? | 2 clients, 1 key, 2 values, 2 entries per client, a watcher, 2 versions, clock 2..3 |
| `compass_gc` (violation) | are only expired compasses deleted? | 2 clients |
| `compass_store` | is each compass in memory backed by its row or a save, and what may a crash mix? | 1 compass, 3 writes, 3 queued operations, clock to 4 with an expiry of 1, 1 crash |
| `interserver` | assertions, seeds, promises, authentication; does every request and hello come to an end? | 1 request each way, 1 ping, status frames and shutdown of either end at any moment, same key or not, hello first or not |
| `connector` | is there one client per host, and is each host connected to again? | 2 hosts, 3 client objects, 2 overlapping runs of the timer |
| `broadcast` | does a broadcast reach everybody once, whatever the mutexes? | 2 sessions at the box, 2 foyers, 2 gates, 2 clients, 1 broadcast |
| `ip_bans` | do bans last, and who is banned? | 2 addresses, 2 counters, window 3, ban 4, clock to 6, 1 event of a kind per tick |
| `ip_ban_maximum` (violation) | does a ban need more events than the maximum? | the same |
| `client_connection` | whose credentials does a request use, who may send messages, is either end forgotten? | 2 requests, 1 message |
| `delivery` | order, stranding, the job's flag, the closure's place; is each way a message channel; do messages, closures and shutdowns arrive? | 2 messages of the client, 1 of the box, 1 pending |
| `shadow_sessions` | is each closure told once, only when due, and for all sessions of lost gates? | 3 sessions, 2 gates |
| `shadow_removal` (violation) | does a run remove all it found gone? | the same |

Why the bounds suffice: two clients hold, are refused and take over a lock from each
other, and one dies while the other is in a servlet; two entries per client are the
first recursion and its undoing. A third client is left to the proofs, which are for
any number. With a request each way one end waits while it serves the other, and both
may be closed or refused; more requests of one end are left to the proofs, too. Three writes make a save that is overtaken by the next and one after
the expiry; three queued operations a delete between two saves. Two overlapping
runs and three clients are a client that is replaced while the other run still
looks at it. Two foyers to two gates make a client whose gate is reached twice. A
window of three ticks, each with an event of either kind of either address, lets
windows, bans and their boundaries fall in every order. The second of two requests
finds what the first one left behind, and its message comes before, during or
after establishment. One pending message makes a message that arrives during a
batch and a full queue. Two sessions of one gate and one of another make removal loops of each
length. For the invariants that section 5 lists as proved, the bounds only matter to
the mutants: the proofs cover every value.

Symmetry is used in the runs of `Compass` and `IpBanList`, over clients and over
addresses, which these modules and their properties treat alike; these runs check no
liveness.

`CHECK_DEADLOCK FALSE`: clients may have nothing more to do, counters reach
their bounds, and a cluster whose connections are lost is at rest. `compass_store`
and `connector` never stop and are checked for deadlock.

### Fairness

Mostly weak fairness of what the dispatcher, the workhorse, the epoll thread and
timers do: each of these serves its queue for ever, so a step that stays possible
is taken. A callback of the business code returns. Nothing is assumed of clients
or of the network: losses happen or do not.

* `interserver`: both servers' threads run; that a hello is answered or ends in a
  closed connection is asked of those that are said. A peer that stays silent is not
  covered: no timeout of the code would help against it.
* `delivery`: jobs are performed, callbacks return, the last reference to a session
  that is shut down goes, the box's timer comes round.
* `shadow_sessions`: the timer comes round and its requests are answered or fail.
* `client_connection`: jobs are performed, and auth, foyer and box answer or their
  connections are lost; a session that nobody refers to is destroyed.
* `broadcast`: strong fairness of taking a mutex: whoever holds one gives it up,
  and a mutex that is free again and again is taken at last. That the threads
  do not block each other for good is what the run shows.
* `compass_store`: the daemon executes its queue, and a servlet that has begun goes
  on; strong fairness of `Sync`: however often an object is modified meanwhile, its
  save is not put off for ever.
* `connector`: the timer fires; strong fairness of a look-up that succeeds (a name
  that can be resolved again and again is resolved), and of destroying a client,
  because objects are a bounded set that the model uses again.

### What the runs found

* `compass_gc`: a compass that was never written has no database object, so its
  access time is 0 and the collector drops it at its next run, however recently
  it was opened, with its locks and watchers. Two connected clients may then both
  have been told that they hold its lock; `GrantsLostOnlyToExpiry` compares each
  client's grants before and after every step and says when one is lost.
* `ip_ban_maximum`: the event that reaches the configured maximum brings the ban
  (`>=`, `ip_ban_list.cpp:61`), although the comment (`:58`) has it that the maximum
  must be exceeded. A maximum of 0 and one of 1 come to the same: the first event
  brings the ban.
* `shadow_removal`: the removal loop of the ping timer uses `.back()` where the
  iterator is meant. When several gates are lost in one run, only the sessions of
  the last one are closed, once per iteration; the others wait for later runs.
  `GoneAreClosed` shows that they are all closed in the end.

Observations that contradict no statement of the repository, but that a reader of
the properties should know:

* A write assigns the value, which saves the row, and then the version, which saves
  it again (`compass.cpp:68-69`). The daemon may execute the first save in between,
  so a crash may leave a new value under the version before; `RowsAreVersioned` says
  that nothing worse is left.
* A batch for a session that is not there is answered as a success, so a message
  accepted by `send()` or from a client may vanish silently at the end of a session
  (`InOrder` says when).
* `mark_shutdown` by the timer sends no kill, so the gate keeps such a client until
  it next sends something (`ShutdownReachesGate` is about connected servers only).
* An end whose hello has been refused is sent a status frame by `shutdown(err_code,
  err_msg)` (`interserver_connection.cpp:459`). It has not authenticated, so
  `layer5_on_receive_control` fails its assertion (`:515`) instead of logging the error,
  and the exception shuts the end down. `EndsAgree` says that this is the only assertion
  of the handshake that fails, on a connection whose connector says hello first, and
  that both ends have then been shut down.
* Nothing asks whether a peer has authenticated before a request is decoded and
  performed (`:418-456`). A peer that has the key and sends its request before its
  hello, or without one, is served; one without the key is kept out by the seed alone.
  `ServesOnlyAuthenticated` says both.
* Bans are looked up when a request has ended and when it is performed, not
  at the upgrade nor after a wait: a banned client that sends `Expect` is
  authenticated first.
* An auth server that is down, a client that leaves and a kill during establishment
  all end in the same `catch (...)` and count as failed authentications.
* A session is established in `ClientConnection` when the gate takes it to be: a box
  whose business code refuses a client answers as a success all the same, and shuts the
  session down, so the gate learns of the refusal by the kill.

## 5. Proofs

All proofs are checked by `tlapm` to the last leaf, from the named ASSUMEs of the
modules and nothing else. Each module proves one inductive invariant, or a few on
top of each other, and derives its theorems.

* **`CompassProofs`**: first, laws of the lock's operators: collection, locking and
  releasing keep a lock well-formed and `Compatible`, and a disposition parsed as
  permissible can be committed. Then `TypeCorrect`, `LocksExclude`,
  `CommitsComplete`, `HeldLocksWereGranted`: the invariant is the conjunction of
  the four with `StrangersHoldNothing` (a connection that has not been accepted yet
  has no entries). The commit's assertion can only be excluded knowing that the
  lock is compatible and no deeper than what was granted, and that is kept only if
  strangers hold nothing. On top of it:
  `LockStatesAreBacked` (`Truthful`: a lock state that was told is that of the
  lock), `WatchersAreTold` (`WatchInv`: watchers' UUIDs are fresh and their
  connections accepted), `GrantsAreLostToExpiry` (`IndexInv`: the collector's index
  holds the access times of the compasses) and `PilotIsRegister`, the refinement:
  every action, with the connections that die in the middle of it, is a step
  of each key's `LockedRegister` or a stutter. The proof follows the code: a lemma
  per outcome of a servlet, then one per action.
* **`InterserverProofs`**: `TypeCorrect`, `EndsNeverDisagree`, `StrangersAreNotServed`,
  `PromisesAreKept`, `RequestsHappenOnce`. Of every connection the invariant says:
  types; `StatusInv` and `Blame` (a status frame comes from an end that is down, so an
  assertion that fails on one fails between two ends that are); `Keyed` (who serves
  has the peer's key); `Promised`; and `OnceInv` (each serial is in one place: with the
  sender, on the way, in a job, answered). What only holds if the connector's end says
  hello first stands under `Announced`: `HandshakeInv` (which flags, seeds and messages
  go together at each stage of the hello), `Served` (only an end that has authenticated
  serves), and that no assertion failed but on a status frame. Seeds agree only because a message encoded before the
  switch is also decoded before it, which is what `HandshakeInv` says of the two queues.
* **`DeliveryProofs`**: `TypeCorrect`, `NothingIsStranded`, `MessagesKeepOrder`,
  `NothingFollowsClosure`, `SessionsAreChannels`. `NothingStranded` is inductive, given
  types. Order rests on it: `Flow` says that messages are younger from the receiver back
  to the queue, and that what a failed job has lost is younger than all that has left,
  with `Gone`: no job of that side will ever run again. That is known because the
  flag stays set and the job is counted. `LastInv` ties the closure to the job that
  keeps the session. `SessionsAreChannels` is the refinement: every step is one of the
  `MessageChannel` of each way, or leaves it as it is. Swapping the queue out, sending a
  batch and answering it only move messages within `InTransit`, because a job that has
  not sent its batch has no request (`Stages`): without that a batch could be put before
  what an earlier request still carries. A job that fails, a session that is not found
  and business code that throws are losses of what is eldest, and each of them comes
  with a session that is no longer open, or no longer found, which stays so (`Fading`).
* **`ClientConnectionProofs`**: `RequestsKeepCredentials`, `MessagesAreProven`, and
  `TypeCorrect` on top of them, from `StageInv` (a connection turns into a WebSocket once), `QueueInv` (which jobs
  follow each other), `CredentialsInv` (between two jobs a session knows nothing,
  or what it knows is of the next request) and `ProvenInv` (messages wait behind
  the handshake).
* **`CompassStoreProofs`**: `CompassesAreBacked`, `RowsKeepVersions`, from `StoreInv`
  (what a servlet has assigned, what the index knows, where a save is queued) and,
  for versions, `ValuesInv` and `VersionsInv`.
* **`NetworkProofs`**: `HostsAreConnectedOnce` and `ConnectorTypes` of `Connector`, with
  `MapAgrees`: a client that is up is the one in the map, which the timer, looking up
  after a DNS wait, relies on. `BroadcastsReachClientsOnce` and `TypeCorrect` of
  `Broadcast`: its invariant follows a broadcast on its way. `OneAlive` and `KnownAreMade`
  say that the sessions a broadcast sets out to visit are of different foyers, or down,
  and that none of them comes to life later; `TodoOnce` that it visits each once;
  `OnceToFoyer` that what is on its way to a foyer, or still to be sent there, has not
  been through it; `OnceToGate` that of what a foyer has sent, each gate's clients have
  had none; `NoneToCome` that nothing is there of the next broadcast. A connection that
  is lost during a broadcast, and made again, is new to the acceptor, so the foyer is
  not visited a second time.
* **`IpBanListProofs`**: `TypeCorrect`, `BansLast`, `BansAreDeserved`, `RatesAreLimited`.
  `Remembered` says that while a ban lasts the element is there and its deadline, by
  which the index would erase it, is the end of the ban. Without the part about the
  deadline the erasure by another address's event could not be excluded. The other two
  theorems count: `Accounted` says which of the events of the last window the counter of
  an element holds. Without a ban (`Windowed`), those since the window began, all of
  them until it ends; with one (`BanDated`), those after the ban, if any; and what is
  left of earlier windows is no more than one window has room for (`Room`), which is
  where the factor two comes from. `RatesAreLimited` needs `BanDuration >= Window`,
  which the configuration does not ensure: it is in the formula, `RateIsLimited`, that no run
  checks, because two full windows of events are more than TLC can go through.
* **`ShadowSessionsProofs`**: `TypeCorrect`, `ClosuresAreToldOnce`,
  `SessionsAreNotForgotten`, `TheReachableStay`. `Accounted` puts each session in exactly
  one of three places: the container, the timer's list, or closed. `CheckedAreGone` says
  what the timer knows at each stage of its run: the gates it has checked and kept in
  its list are lost, and a gate that is lost does not come back under its UUID.

So every invariant of every passing run, the action property `GrantsLostOnlyToExpiry`
and both refinements are theorems. Only model-checked: liveness, since fairness and
ENABLED are beyond the prover. The two violations are behaviours that TLC exhibits.

## 6. Not modelled

* The Poseidon library, cryptography and compression: their use is in the models
  (jobs, timers, seeds that match or do not), their insides are not. What is
  assumed of it: jobs of a category run in order, an exception in a connection's
  job shuts it down, the MySQL daemon executes a table's operations in order and
  replaces rows.
* `interserver_hello_timeout` is configured and read by nobody: there is no
  behaviour to check, and a peer that never answers is left out of liveness.
* In `Interserver`: notifications (requests without a promise), options of the
  hello, message sizes.
* In the gate: headers and compression of responses, control frames and the text of
  a closure's reason.
* Functions nothing calls, or that only destructors call: `clear()` of acceptors and
  supervisor, `get_all_sessions`, `get_compass`, `remove_compass`,
  `set_ban_time_remaining`.
* Compass keys: that two of them differ is the strength of SHA-256. The singletons
  of the servers forward to the modelled classes.
* Messages' fields and serialisation, most of the sample business code, start-up,
  build files and the project template: no behaviour of their own, or an input that
  the models leave open.
