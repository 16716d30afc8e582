-------------------------------- MODULE Compass --------------------------------
(***************************************************************************)
(* The pilot server: a repository of compasses (keyed, versioned values    *)
(* with a lock and watchers each) and the four servlets that serve them.   *)
(*                                                                         *)
(* A servlet runs as one job of the single-threaded job dispatcher and     *)
(* never yields, so it is one step here; so is the garbage collection      *)
(* timer.  What interleaves with them, even in the middle of one, is the   *)
(* death of OTHER connections, which other threads shut down and destroy.  *)
(***************************************************************************)
EXTENDS CompassLock, Sequences, FiniteSets

CONSTANTS
    Keys,               \* hashed compass keys
    Values,             \* values of a compass, the empty string included
    EmptyValue,
    Criteria,           \* lists of comparison criteria clients may send
    WatcherIds,         \* random UUIDs of watchers, never repeated
    ExpiryDuration,     \* compass_expiry_duration
    StartTime,          \* the clock when the process starts
    MaxTime,            \* bound on the clock
    MaxVersion,         \* bound on versions
    MaxEntries          \* bound on the locks granted to one connection, of either kind

ASSUME ValuesAssumption == EmptyValue \in Values
ASSUME CriteriaAssumption == Criteria \subseteq Seq([value_cmp: Values, value_new: Values])
ASSUME TimeAssumption ==
    /\ ExpiryDuration \in Nat
    /\ StartTime \in Nat
    /\ MaxTime \in Nat
    /\ ExpiryDuration < StartTime
ASSUME BoundAssumption == MaxVersion \in Nat /\ MaxEntries \in Nat

VARIABLES
    conn,       \* conn[c]: life cycle of the connection object
    container,  \* keys of the compasses the repository holds
    compass,    \* compass[k]: the compass of key k, NewCompass if there is none
    now,        \* the clock
    issued,     \* watcher UUIDs handed out
    granted,    \* history: granted[k][c], the locks of k that responses have told c it holds
    touched,    \* history: touched[k], when k was last opened by a servlet
    view,       \* history: view[w], the value last reported to watcher w, or when w was placed
    reply       \* history: the outcome of the last servlet

vars == <<conn, container, compass, now, issued, granted, touched, view, reply>>

-------------------------------------------------------------------------------
\* Types

Watchers == [id: WatcherIds, conn: Conns]

Compasses ==
    [written: BOOLEAN, value: Values, version: Nat, last_access_time: Nat,
     index: Nat, lock: Lock, watchers: SUBSET Watchers]

\* Mutated: a compass that was never accessed has an access time of its own.
CompassNeverAccessed ==
    [written |-> FALSE, value |-> EmptyValue, version |-> 0,
     last_access_time |-> -1, index |-> -1, lock |-> FreeLock, watchers |-> {}]

\* A compass just created for a key: no database object yet, so its getters
\* answer with the empty string, version 0 and access time 0.
NewCompass ==
    [written |-> FALSE, value |-> EmptyValue, version |-> 0,
     last_access_time |-> 0, index |-> 0, lock |-> FreeLock, watchers |-> {}]

Grants == [Conns -> [shared: Int, exclusive: Int]]

NoGrant == [shared |-> 0, exclusive |-> 0]

NoReply == [status |-> "none"]

Replies == [status: {"succeeded", "refused"}, conn: Conns, key: Keys, lock_state: LockStates]
           \cup {NoReply, [status |-> "partial"]}

TypeOK ==
    /\ conn \in [Conns -> {"absent", "open", "closing", "gone"}]
    /\ container \subseteq Keys
    /\ compass \in [Keys -> Compasses]
    /\ now \in Nat
    /\ issued \subseteq WatcherIds
    /\ granted \in [Keys -> Grants]
    /\ touched \in [Keys -> Nat]
    /\ view \in [WatcherIds -> Values]
    /\ reply \in Replies

-------------------------------------------------------------------------------
\* Connections

\* A connection object exists until its last reference goes; a shut-down one
\* still serves the requests it has queued.
IsLive(state) == state \in {"open", "closing"}

Live == {c \in Conns : IsLive(conn[c])}

Open == {c \in Conns : conn[c] = "open"}

\* The connections after those in dying have been destroyed and c, if it
\* failed, has been shut down.
ConnAfter(dying, failed) ==
    [c \in Conns |-> CASE c \in dying -> "gone"
                       [] c \in failed \ dying /\ conn[c] = "open" -> "closing"
                       [] OTHER -> conn[c]]

LiveAfter(dying) == Live \ dying

\* A client whose connection object is destroyed has been disconnected: what
\* it was granted no longer counts.
GrantsAfter(dying) ==
    [k \in Keys |-> [c \in Conns |-> IF c \in dying THEN NoGrant ELSE granted[k][c]]]

\* Shut-down connections other than c may be destroyed while c is served.
MayDieDuring(c) == {x \in Conns : conn[x] = "closing"} \ {c}

\* A client connects and says hello.
Connect(c) ==
    /\ conn[c] = "absent"
    /\ conn' = [conn EXCEPT ![c] = "open"]
    /\ reply' = NoReply
    /\ UNCHANGED <<container, compass, now, issued, granted, touched, view>>

\* Either side shuts the connection down.
Shutdown(c) ==
    /\ conn[c] = "open"
    /\ conn' = [conn EXCEPT ![c] = "closing"]
    /\ reply' = NoReply
    /\ UNCHANGED <<container, compass, now, issued, granted, touched, view>>

\* The last reference to the connection goes; its lock entries and watchers
\* stay behind as expired weak pointers.
Expire(c) ==
    /\ conn[c] = "closing"
    /\ conn' = [conn EXCEPT ![c] = "gone"]
    /\ granted' = GrantsAfter({c})
    /\ reply' = NoReply
    /\ UNCHANGED <<container, compass, now, issued, touched, view>>

-------------------------------------------------------------------------------
\* Parts of servlets

\* The lock of k as any operation sees it.
CurrentLock(k) == collect_expired_connections(compass[k].lock, Live)

\* Store cx as the compass of k, creating its element if there is none.
open_compass(k, cx) ==
    /\ container' = container \cup {k}
    /\ compass' = [compass EXCEPT ![k] = cx]
    /\ touched' = [touched EXCEPT ![k] = now]

\* Mutated: the index of the element is not updated.
UpdateWithoutIndex(cx) ==
    IF cx.written THEN [cx EXCEPT !.last_access_time = now] ELSE cx

\* Only a compass with a database object remembers when it was accessed.
update_last_access_time(cx) ==
    IF cx.written THEN [cx EXCEPT !.last_access_time = now, !.index = now] ELSE cx

\* Mutated: the first write, which creates the database object, tells nobody.
NotifiedIfWritten(k, dying) ==
    {w \in compass[k].watchers : w.conn \in Open \ dying /\ compass[k].written}

\* The watchers of k that a value change is reported to: sending fails if the
\* connection has been shut down.
Notified(k, dying) ==
    {w \in compass[k].watchers : w.conn \in Open \ dying}

ReportedView(k, dying, v) ==
    [w \in WatcherIds |-> IF \E x \in Notified(k, dying) : x.id = w THEN v ELSE view[w]]

\* Mutated: the version stays.
SetValueOnly(cx, values) ==
    IF values = <<>> THEN cx ELSE [cx EXCEPT !.written = TRUE, !.value = values[1]]

\* set_value on a compass: values is the new value, or empty for no change.
set_value(cx, values) ==
    IF values = <<>> THEN cx
    ELSE [cx EXCEPT !.written = TRUE, !.value = values[1], !.version = @ + 1]

\* The value did not match or the lock was not available.
Refused(c, k, dying) ==
    /\ open_compass(k, update_last_access_time(
            [compass[k] EXCEPT !.lock =
                collect_expired_connections(CurrentLock(k), LiveAfter(dying))]))
    /\ conn' = ConnAfter(dying, {})
    /\ reply' = [status |-> "refused", conn |-> c, key |-> k,
                 lock_state |-> get_compass_lock_state(
                     collect_expired_connections(CurrentLock(k), LiveAfter(dying)), c)]
    /\ granted' = GrantsAfter(dying)
    /\ UNCHANGED <<now, issued, view>>

\* The disposition is unknown or releases a lock that c does not hold: the
\* exception becomes a fatal status code, which shuts the connection down.
Throws(c, k, d) ==
    /\ ~ParsesFor(CurrentLock(k), c, d)
    /\ open_compass(k, [compass[k] EXCEPT !.lock = CurrentLock(k)])
    /\ conn' = ConnAfter({}, {c})
    /\ reply' = NoReply
    /\ UNCHANGED <<now, issued, granted, view>>

\* The lock has been acquired (held is the lock with the new entry of c):
\* write, then bring the lock to the disposition that was asked for, of which
\* shared and exclusive remain to be done.
Performed(c, k, d, held, values, shared, exclusive, dying) ==
    LET cx   == set_value(compass[k], values)
        kept == collect_expired_connections(
                    commit_lock_disposition(held, c, shared, exclusive), LiveAfter(dying))
        told == [shared    |-> granted[k][c].shared + Disposition[d].shared,
                 exclusive |-> granted[k][c].exclusive + Disposition[d].exclusive]
    IN
    /\ cx.version <= MaxVersion /\ told.shared + told.exclusive <= MaxEntries
    /\ view' = IF values = <<>> THEN view ELSE ReportedView(k, dying, values[1])
    /\ IF Committable(held, c, shared, exclusive)
       THEN /\ open_compass(k, update_last_access_time([cx EXCEPT !.lock = kept]))
            /\ conn' = ConnAfter(dying, {})
            /\ granted' = [GrantsAfter(dying) EXCEPT ![k][c] = told]
            /\ reply' = [status |-> "succeeded", conn |-> c, key |-> k,
                         lock_state |-> get_compass_lock_state(kept, c)]
       ELSE \* An assertion fails half-way: the value is already written.
            /\ open_compass(k, [cx EXCEPT !.lock = held])
            /\ conn' = ConnAfter(dying, {c})
            /\ granted' = GrantsAfter(dying)
            /\ reply' = [status |-> "partial"]
    /\ UNCHANGED <<now, issued>>

\* Mutated: the temporary lock is not given back.
WithSharedKept(c, k, d, values, dying) ==
    /\ CanLockShared(CurrentLock(k), c)
    /\ Performed(c, k, d, LockShared(CurrentLock(k), c), values,
                 Disposition[d].shared, Disposition[d].exclusive, dying)

WithShared(c, k, d, values, dying) ==
    /\ CanLockShared(CurrentLock(k), c)
    /\ Performed(c, k, d, LockShared(CurrentLock(k), c), values,
                 Disposition[d].shared - 1, Disposition[d].exclusive, dying)

WithExclusive(c, k, d, values, dying) ==
    /\ CanLockExclusive(CurrentLock(k), c)
    /\ Performed(c, k, d, LockExclusive(CurrentLock(k), c), values,
                 Disposition[d].shared, Disposition[d].exclusive - 1, dying)

-------------------------------------------------------------------------------
\* The servlets

\* The first criterion that the value meets, none if it is past the end.
Matches(criteria, i, v) ==
    /\ i \in 1..Len(criteria)
    /\ criteria[i].value_cmp = v
    /\ \A j \in 1..(i - 1) : criteria[j].value_cmp # v

Unmatched(criteria, v) == \A i \in 1..Len(criteria) : criteria[i].value_cmp # v

Compare_exchange_request(c, k, criteria, d, dying) ==
    /\ ParsesFor(CurrentLock(k), c, d)
    /\ \* Don't lock the value if the comparison fails.
       \/ /\ criteria # <<>>
          /\ Unmatched(criteria, compass[k].value)
          /\ Refused(c, k, dying)
       \* Ask for shared locking if the value isn't to be modified.
       \/ /\ criteria = <<>>
          /\ Disposition[d].exclusive <= 0
          /\ \/ WithShared(c, k, d, <<>>, dying)
             \/ ~CanLockShared(CurrentLock(k), c) /\ Refused(c, k, dying)
       \* Otherwise, ask for exclusive locking.
       \/ /\ criteria = <<>>
          /\ Disposition[d].exclusive > 0
          /\ \/ WithExclusive(c, k, d, <<>>, dying)
             \/ ~CanLockExclusive(CurrentLock(k), c) /\ Refused(c, k, dying)
       \/ \E i \in 1..Len(criteria) :
          /\ Matches(criteria, i, compass[k].value)
          /\ \/ WithExclusive(c, k, d, <<criteria[i].value_new>>, dying)
             \/ ~CanLockExclusive(CurrentLock(k), c) /\ Refused(c, k, dying)

Exchange_request(c, k, value_new, d, dying) ==
    /\ ParsesFor(CurrentLock(k), c, d)
    /\ \/ WithExclusive(c, k, d, <<value_new>>, dying)
       \/ ~CanLockExclusive(CurrentLock(k), c) /\ Refused(c, k, dying)

\* Watching does not count as an access.
Add_watch_request(c, k, w) ==
    /\ w \notin issued
    /\ open_compass(k, [compass[k] EXCEPT !.watchers =
            {x \in @ : x.conn \in Live} \cup {[id |-> w, conn |-> c]}])
    /\ issued' = issued \cup {w}
    /\ view' = [view EXCEPT ![w] = compass[k].value]
    /\ reply' = NoReply
    /\ UNCHANGED <<conn, now, granted>>

\* Any connection that knows the UUID may remove the watcher.
Remove_watch_notification(c, k, w) ==
    /\ w \in issued
    /\ open_compass(k, [compass[k] EXCEPT !.watchers = {x \in @ : x.id # w}])
    /\ reply' = NoReply
    /\ UNCHANGED <<conn, now, issued, granted, view>>

Serve(c) ==
    \E k \in Keys :
        \/ \E d \in DOMAIN Disposition, dying \in SUBSET MayDieDuring(c) :
              \/ \E criteria \in Criteria : Compare_exchange_request(c, k, criteria, d, dying)
              \/ \E v \in Values : Exchange_request(c, k, v, d, dying)
        \/ \E d \in DOMAIN Disposition \cup {"unknown"} : Throws(c, k, d)
        \/ \E w \in WatcherIds : Add_watch_request(c, k, w)
        \/ \E w \in WatcherIds : Remove_watch_notification(c, k, w)

-------------------------------------------------------------------------------
\* Time and garbage collection

Tick ==
    /\ now < MaxTime
    /\ now' = now + 1
    /\ reply' = NoReply
    /\ UNCHANGED <<conn, container, compass, issued, granted, touched, view>>

\* What the timer takes for expired: it goes by the index of the element,
\* and holding a lock or being watched does not matter.
Expired(k) == compass[k].index <= now - ExpiryDuration

gc_timer_proc ==
    /\ container' = {k \in container : ~Expired(k)}
    /\ compass' = [k \in Keys |-> IF Expired(k) THEN NewCompass ELSE compass[k]]
    /\ reply' = NoReply
    /\ UNCHANGED <<conn, now, issued, granted, touched, view>>

-------------------------------------------------------------------------------
\* Compasses are loaded from the database when the process starts.
LoadedCompass(v, t) ==
    [written |-> TRUE, value |-> v, version |-> 1,
     last_access_time |-> t, index |-> t, lock |-> FreeLock, watchers |-> {}]

InitialCompasses ==
    {NewCompass} \cup
    {LoadedCompass(v, t) : v \in Values, t \in {StartTime - ExpiryDuration, StartTime}}

Init ==
    /\ conn = [c \in Conns |-> "absent"]
    /\ compass \in [Keys -> InitialCompasses]
    /\ container = {k \in Keys : compass[k].written}
    /\ now = StartTime
    /\ issued = {}
    /\ granted = [k \in Keys |-> [c \in Conns |-> NoGrant]]
    /\ touched = [k \in Keys |-> compass[k].last_access_time]
    /\ view = [w \in WatcherIds |-> EmptyValue]
    /\ reply = NoReply

Next ==
    \/ \E c \in Conns : Connect(c)
    \/ \E c \in Conns : Shutdown(c)
    \/ \E c \in Conns : Expire(c)
    \/ \E c \in Live : Serve(c)
    \/ Tick
    \/ gc_timer_proc

Spec == Init /\ [][Next]_vars

-------------------------------------------------------------------------------
(***************************************************************************)
(* Properties                                                              *)
(***************************************************************************)

\* No two live connections hold conflicting locks of a compass, and no stale
\* entry of a dead one ever sits beside a conflicting live one: try_lock_*
\* check after collecting, for any mix of recursion, upgrade and downgrade.
LockExclusion == \A k \in Keys : Compatible(compass[k].lock)

\* The assertions of commit_lock_disposition, which run after the value has
\* been written and its watchers notified, never fail.
NoPartialCommit == reply.status # "partial"

\* The pilot never holds a lock on behalf of a live connection beyond what its
\* responses have told that connection: temporary locks are all given back.
HeldIsGranted ==
    \A k \in Keys, c \in Live :
        /\ compass[k].lock.readers[c] <= granted[k][c].shared
        /\ compass[k].lock.writers[c] <= granted[k][c].exclusive

\* The lock state in a response is backed by what other responses have said:
\* a lock is reported as somebody's only if it was granted to them, and as
\* free only if no live connection is in it.
LockStateIsBacked ==
    reply.status \in {"succeeded", "refused"} =>
        LET k == reply.key
            c == reply.conn
            me == granted[k][c]
        IN CASE reply.lock_state = "exclusive_by_me" -> me.exclusive > 0
             [] reply.lock_state = "shared_by_me" -> me.shared > 0
             [] reply.lock_state = "exclusive_by_others" ->
                    \E x \in Live \ {c} : granted[k][x].exclusive > 0
             [] reply.lock_state = "shared_by_others" ->
                    \E x \in Live \ {c} : granted[k][x].shared > 0
             [] OTHER -> (Readers(compass[k].lock) \cup Writers(compass[k].lock)) \cap Live = {}

\* A watcher that the repository still has, of a connection not shut down, has
\* been told the current value, unless it has not changed since the watch was
\* placed.
WatchersAreCurrent ==
    \A k \in Keys : \A w \in compass[k].watchers :
        w.conn \in Open => view[w.id] = compass[k].value

\* No step takes an entry of the lock from a connection that lives on and whose
\* own grant the step leaves alone - not a grant to, a release by or the death
\* of another connection - unless it is the collector dropping a compass that
\* was never written or was last accessed long ago.
GrantsLostOnlyToExpiry ==
    [][\A k \in Keys, c \in Live :
        LET lost == /\ granted'[k][c] = granted[k][c]
                    /\ conn'[c] = conn[c]
                    /\ \/ compass'[k].lock.readers[c] < compass[k].lock.readers[c]
                       \/ compass'[k].lock.writers[c] < compass[k].lock.writers[c]
        IN lost => /\ k \notin container'
                   /\ ~compass[k].written \/ now - compass[k].last_access_time >= ExpiryDuration]_vars

\* Each key is a locked register: every step of the pilot is a step of the
\* register of each key, or leaves it as it is.
Register(k) ==
    INSTANCE LockedRegister WITH
        value   <- compass[k].value,
        version <- compass[k].version,
        readers <- Readers(compass[k].lock) \cap Live,
        writers <- Writers(compass[k].lock) \cap Live

ImplementsRegister ==
    /\ \A k \in Keys : Register(k)!Init
    /\ [][\A k \in Keys : Register(k)!Next \/ UNCHANGED Register(k)!vars]_vars

\* "Delete expired compasses from memory..." (compass_repository.cpp:44): only
\* a compass that nobody has accessed for the expiry duration is deleted.
OnlyExpiredAreDeleted ==
    [][\A k \in container \ container' : now - touched[k] >= ExpiryDuration]_vars
===============================================================================
