----------------------------- MODULE CompassProofs -----------------------------
(***************************************************************************)
(* The pilot is type correct, its locks exclude each other, it holds no    *)
(* lock that it did not grant, no request fails after it has written, it   *)
(* implements a locked register per key, tells the truth about its locks   *)
(* and keeps its watchers up to date, for every number of connections,     *)
(* keys, values and recursive locks.                                       *)
(***************************************************************************)
EXTENDS Compass, TLAPS

-------------------------------------------------------------------------------
\* The lock operators

\* Dropping expired entries leaves a lock.
LEMMA CollectType ==
    ASSUME NEW l \in Lock, NEW live
    PROVE  collect_expired_connections(l, live) \in Lock
BY DEF Lock, collect_expired_connections

\* Adding or removing entries that are there leaves a lock.
LEMMA AddType ==
    ASSUME NEW l \in Lock, NEW c \in Conns, NEW n \in Int, NEW m \in Int,
           l.readers[c] + n >= 0, l.writers[c] + m >= 0
    PROVE  AddEntries(l, c, n, m) \in Lock
BY DEF Lock, AddEntries

\* A lock nobody holds is a compatible lock.
LEMMA FreeLockCompatible == FreeLock \in Lock /\ Compatible(FreeLock)
BY DEF FreeLock, Lock, NoLocks, Compatible, Writers, Readers

\* Dropping expired entries keeps the lock compatible.
LEMMA CollectCompatible ==
    ASSUME NEW l \in Lock, NEW live, Compatible(l)
    PROVE  Compatible(collect_expired_connections(l, live))
<1> DEFINE m == collect_expired_connections(l, live)
<1>1. Writers(m) \subseteq Writers(l) /\ Readers(m) \subseteq Readers(l)
  BY DEF Lock, collect_expired_connections, Writers, Readers
<1>2. QED
  BY <1>1 DEF Compatible

\* After an acquisition that the code allows, or a release, or both at once,
\* a compatible lock is compatible.
LEMMA AddCompatible ==
    ASSUME NEW l \in Lock, Compatible(l), NEW c \in Conns,
           NEW n \in Int, NEW m \in Int,
           l.readers[c] + n >= 0, l.writers[c] + m >= 0,
           n > 0 => CanLockShared(l, c),
           m > 0 => CanLockExclusive(l, c)
    PROVE  Compatible(AddEntries(l, c, n, m))
<1> DEFINE a == AddEntries(l, c, n, m)
<1>1. \A x \in Conns : x # c => a.readers[x] = l.readers[x] /\ a.writers[x] = l.writers[x]
  BY DEF AddEntries, Lock
<1>2. a.readers[c] = l.readers[c] + n /\ a.writers[c] = l.writers[c] + m
  BY DEF AddEntries, Lock
<1>3. Writers(a) \subseteq Writers(l) \cup {c} /\ Readers(a) \subseteq Readers(l) \cup {c}
  BY <1>1 DEF Writers, Readers
<1>4. CASE m > 0
  <2>1. Writers(l) \cup Readers(l) \subseteq {c}
    BY <1>4 DEF CanLockExclusive, Compatible
  <2>2. QED
    BY <2>1, <1>3 DEF Compatible
<1>5. CASE ~(m > 0)
  <2>1. Writers(a) \subseteq Writers(l)
    BY <1>1, <1>2, <1>5 DEF Writers, Lock
  <2>2. CASE n > 0
    <3>1. CASE Writers(l) \subseteq {c}
      BY <3>1, <2>1, <1>3 DEF Compatible
    <3>2. CASE c \in Readers(l)
      BY <3>2, <2>1, <1>3 DEF Compatible
    <3>3. QED
      BY <3>1, <3>2, <2>2 DEF CanLockShared
  <2>3. CASE ~(n > 0)
    <3>1. Readers(a) \subseteq Readers(l)
      BY <1>1, <1>2, <2>3 DEF Readers, Lock
    <3>2. QED
      BY <3>1, <2>1 DEF Compatible
  <2>4. QED
    BY <2>2, <2>3
<1>6. QED
  BY <1>4, <1>5

\* The dispositions only ever ask for one entry more or less.
LEMMA DispositionType ==
    ASSUME NEW d \in DOMAIN Disposition
    PROVE  /\ Disposition[d].shared \in {-1, 0, 1}
           /\ Disposition[d].exclusive \in {-1, 0, 1}
BY DEF Disposition

\* After the temporary shared lock of a request that asks for no exclusive
\* one, no assertion of commit_lock_disposition can fail.
LEMMA SharedCommittable ==
    ASSUME NEW l \in Lock, NEW c \in Conns, NEW d \in DOMAIN Disposition,
           ParsesFor(l, c, d), Disposition[d].exclusive <= 0
    PROVE  Committable(LockShared(l, c), c,
                       Disposition[d].shared - 1, Disposition[d].exclusive)
<1> DEFINE a == LockShared(l, c)
<1>1. a.readers[c] = l.readers[c] + 1 /\ a.writers[c] = l.writers[c]
  BY DEF LockShared, AddEntries, Lock
<1>2. l.readers[c] \in Nat /\ l.writers[c] \in Nat
  BY DEF Lock
<1>3. Disposition[d].shared < 0 => l.readers[c] > 0
  BY DEF ParsesFor, is_locked_shared_by, Readers
<1>4. Disposition[d].exclusive < 0 => l.writers[c] > 0
  BY DEF ParsesFor, is_locked_exclusive_by, Writers
<1>5. QED
  BY <1>1, <1>2, <1>3, <1>4, DispositionType DEF Committable

\* After the temporary exclusive lock, none can fail either: a shared lock is
\* always available to the only writer.
LEMMA ExclusiveCommittable ==
    ASSUME NEW l \in Lock, NEW c \in Conns, NEW d \in DOMAIN Disposition,
           Compatible(l), CanLockExclusive(l, c), ParsesFor(l, c, d)
    PROVE  Committable(LockExclusive(l, c), c,
                       Disposition[d].shared, Disposition[d].exclusive - 1)
<1> DEFINE a == LockExclusive(l, c)
<1>1. a.readers[c] = l.readers[c] /\ a.writers[c] = l.writers[c] + 1
  BY DEF LockExclusive, AddEntries, Lock
<1>2. l.readers[c] \in Nat /\ l.writers[c] \in Nat
  BY DEF Lock
<1>3. Disposition[d].shared < 0 => l.readers[c] > 0
  BY DEF ParsesFor, is_locked_shared_by, Readers
<1>4. Disposition[d].exclusive < 0 => l.writers[c] > 0
  BY DEF ParsesFor, is_locked_exclusive_by, Writers
<1>5. Writers(l) \subseteq {c}
  BY DEF CanLockExclusive, Compatible
<1>6. Writers(a) \subseteq {c}
  BY <1>5 DEF Writers, LockExclusive, AddEntries, Lock
<1>7. CanLockShared(a, c)
  BY <1>6 DEF CanLockShared
<1>8. QED
  BY <1>1, <1>2, <1>3, <1>4, <1>7, DispositionType DEF Committable

-------------------------------------------------------------------------------
\* The inductive invariant

\* What is told, beside what is held: nothing was granted to a connection that
\* has not been accepted yet, nor is it in a lock.
StrangersHoldNothing ==
    \A k \in Keys, c \in Conns : conn[c] = "absent" =>
        /\ compass[k].lock.readers[c] = 0
        /\ compass[k].lock.writers[c] = 0
        /\ granted[k][c] = NoGrant

IInv == TypeOK /\ LockExclusion /\ NoPartialCommit /\ HeldIsGranted /\ StrangersHoldNothing

-------------------------------------------------------------------------------
\* Helpers

\* A compass that does not exist yet is a compass.
LEMMA NewCompassType == NewCompass \in Compasses /\ Compatible(NewCompass.lock)
BY ValuesAssumption, FreeLockCompatible DEF NewCompass, Compasses

\* The initial state satisfies the inductive invariant.
LEMMA InitIInv == Init => IInv
<1> SUFFICES ASSUME Init PROVE IInv
  OBVIOUS
<1>1. \A x \in InitialCompasses : x \in Compasses /\ x.lock = FreeLock
  <2>1. NewCompass \in Compasses /\ NewCompass.lock = FreeLock
    BY NewCompassType DEF NewCompass
  <2>2. \A v \in Values, t \in Nat :
           LoadedCompass(v, t) \in Compasses /\ LoadedCompass(v, t).lock = FreeLock
    BY FreeLockCompatible DEF LoadedCompass, Compasses
  <2>3. StartTime - ExpiryDuration \in Nat /\ StartTime \in Nat
    BY TimeAssumption
  <2>4. QED
    BY <2>1, <2>2, <2>3 DEF InitialCompasses
<1>2. TypeOK
  BY <1>1, ValuesAssumption, TimeAssumption
  DEF TypeOK, Init, Grants, NoGrant, Replies, NoReply, Compasses
<1>3. \A k \in Keys : compass[k].lock = FreeLock
  BY <1>1 DEF Init
<1>4. LockExclusion
  BY <1>3, FreeLockCompatible DEF LockExclusion
<1>5. NoPartialCommit
  BY DEF NoPartialCommit, Init, NoReply
<1>6. HeldIsGranted /\ StrangersHoldNothing
  BY <1>3 DEF HeldIsGranted, StrangersHoldNothing, Init, NoGrant, FreeLock, NoLocks, Live, IsLive
<1>7. QED
  BY <1>2, <1>4, <1>5, <1>6 DEF IInv

\* Collecting on behalf of a servlet finds the lock well typed and compatible,
\* and the entries of a live connection unchanged.
LEMMA CurrentLockFacts ==
    ASSUME IInv, NEW k \in Keys
    PROVE  /\ CurrentLock(k) \in Lock
           /\ Compatible(CurrentLock(k))
           /\ \A c \in Live : /\ CurrentLock(k).readers[c] = compass[k].lock.readers[c]
                              /\ CurrentLock(k).writers[c] = compass[k].lock.writers[c]
<1>1. compass[k].lock \in Lock /\ Compatible(compass[k].lock)
  BY DEF IInv, TypeOK, Compasses, LockExclusion
<1>2. CurrentLock(k) \in Lock /\ Compatible(CurrentLock(k))
  BY <1>1, CollectType, CollectCompatible DEF CurrentLock
<1>3. QED
  BY <1>1, <1>2 DEF CurrentLock, collect_expired_connections, Lock, Live

\* The connections that may die while c is served leave c alive, and every
\* connection that is live afterwards was live before.
LEMMA ConnAfterFacts ==
    ASSUME IInv, NEW c \in Live, NEW dying \in SUBSET MayDieDuring(c),
           NEW failed \in SUBSET {c}, conn' = ConnAfter(dying, failed)
    PROVE  /\ conn' \in [Conns -> {"absent", "open", "closing", "gone"}]
           /\ Live' = LiveAfter(dying)
           /\ c \in LiveAfter(dying)
           /\ \A x \in Conns : conn'[x] = "absent" => conn[x] = "absent"
<1>1. c \notin dying /\ \A x \in dying : x \in Conns /\ conn[x] = "closing"
  BY DEF MayDieDuring
<1>2. \A x \in Conns : conn[x] \in {"absent", "open", "closing", "gone"}
  BY DEF IInv, TypeOK
<1>3. \A x \in Conns : conn'[x] = CASE x \in dying -> "gone"
                       [] x \in failed \ dying /\ conn[x] = "open" -> "closing"
                       [] OTHER -> conn[x]
  BY DEF ConnAfter
<1>4. \A x \in Conns : /\ x \in dying => conn'[x] = "gone"
                       /\ x \notin dying => IF x \in failed /\ conn[x] = "open"
                                            THEN conn'[x] = "closing" ELSE conn'[x] = conn[x]
  BY <1>3
<1>5. conn' \in [Conns -> {"absent", "open", "closing", "gone"}]
  <2>1. conn' = [x \in Conns |-> conn'[x]]
    BY DEF ConnAfter
  <2>2. QED
    BY <2>1, <1>2, <1>4
<1>6. \A x \in Conns : IsLive(conn'[x]) <=> (IsLive(conn[x]) /\ x \notin dying)
  BY <1>1, <1>2, <1>4 DEF IsLive
<1>7. Live' = LiveAfter(dying)
  BY <1>6 DEF Live, LiveAfter
<1>8. QED
  BY <1>1, <1>2, <1>4, <1>5, <1>7 DEF LiveAfter

\* A servlet's grants: those of the dying are forgotten, the others stay.
LEMMA GrantsAfterFacts ==
    ASSUME IInv, NEW dying
    PROVE  /\ GrantsAfter(dying) \in [Keys -> Grants]
           /\ \A k \in Keys, x \in Conns :
                 GrantsAfter(dying)[k][x] = IF x \in dying THEN NoGrant ELSE granted[k][x]
BY DEF IInv, TypeOK, Grants, GrantsAfter, NoGrant

\* What every servlet does to the rest of the pilot: if the lock of k comes out
\* well typed and compatible, no other connection has gained an entry and c has
\* no more than it has been granted, the invariant is preserved.
LEMMA ServletStep ==
    ASSUME IInv, NEW c \in Live, NEW k \in Keys,
           NEW dying \in SUBSET MayDieDuring(c), NEW failed \in SUBSET {c},
           NEW cx \in Compasses, Compatible(cx.lock),
           NEW told \in [shared: Int, exclusive: Int],
           open_compass(k, cx),
           conn' = ConnAfter(dying, failed),
           granted' \in [Keys -> Grants],
           \A j \in Keys, x \in Conns :
               granted'[j][x] = IF j = k /\ x = c THEN told
                                ELSE IF x \in dying THEN NoGrant ELSE granted[j][x],
           cx.lock.readers[c] <= told.shared, cx.lock.writers[c] <= told.exclusive,
           \A x \in Conns \ {c} : /\ cx.lock.readers[x] <= compass[k].lock.readers[x]
                                  /\ cx.lock.writers[x] <= compass[k].lock.writers[x],
           now' = now, issued' \in SUBSET WatcherIds, view' \in [WatcherIds -> Values],
           reply' \in Replies, NoPartialCommit'
    PROVE  IInv'
<1>1. /\ conn' \in [Conns -> {"absent", "open", "closing", "gone"}]
      /\ Live' = LiveAfter(dying)
      /\ c \in LiveAfter(dying)
      /\ \A x \in Conns : conn'[x] = "absent" => conn[x] = "absent"
  BY ConnAfterFacts
<1>3. c \in Conns /\ conn[c] # "absent"
  BY DEF Live, IsLive
<1>4. compass' \in [Keys -> Compasses] /\ compass'[k] = cx
      /\ \A j \in Keys \ {k} : compass'[j] = compass[j]
  BY DEF open_compass, IInv, TypeOK
<1>5. granted' \in [Keys -> Grants] /\ granted'[k][c] = told
      /\ \A j \in Keys, x \in Conns : j # k \/ x # c =>
            granted'[j][x] = IF x \in dying THEN NoGrant ELSE granted[j][x]
  BY <1>3
<1>6. TypeOK'
  <2>1. container' \subseteq Keys /\ touched' \in [Keys -> Nat] /\ now' \in Nat
    BY DEF open_compass, IInv, TypeOK
  <2>2. QED
    BY <2>1, <1>1, <1>4, <1>5 DEF TypeOK
<1>7. LockExclusion'
  BY <1>4 DEF LockExclusion, IInv
<1>8. HeldIsGranted'
  <2> SUFFICES ASSUME NEW j \in Keys, NEW x \in LiveAfter(dying)
               PROVE  /\ compass'[j].lock.readers[x] <= granted'[j][x].shared
                      /\ compass'[j].lock.writers[x] <= granted'[j][x].exclusive
    BY <1>1 DEF HeldIsGranted
  <2>1. x \in Live /\ x \notin dying /\ x \in Conns
    BY DEF LiveAfter, Live
  <2>2. /\ compass[j].lock.readers[x] <= granted[j][x].shared
        /\ compass[j].lock.writers[x] <= granted[j][x].exclusive
    BY <2>1 DEF IInv, HeldIsGranted
  <2>3. CASE j = k /\ x = c
    BY <2>3, <1>4, <1>5
  <2>4. CASE j = k /\ x # c
    <3>1. granted'[j][x] = granted[j][x] /\ granted[j][x] \in [shared: Int, exclusive: Int]
      BY <2>1, <2>4, <1>5 DEF IInv, TypeOK, Grants
    <3>2. /\ cx.lock.readers[x] <= compass[k].lock.readers[x]
          /\ cx.lock.writers[x] <= compass[k].lock.writers[x]
      BY <2>1, <2>4
    <3>3. cx.lock \in Lock /\ compass[k].lock \in Lock
      BY DEF IInv, TypeOK, Compasses
    <3>4. QED
      BY <3>1, <3>2, <3>3, <2>1, <2>2, <2>4, <1>4 DEF Lock
  <2>5. CASE j # k
    BY <2>1, <2>2, <2>5, <1>4, <1>5
  <2>6. QED
    BY <2>3, <2>4, <2>5
<1>9. StrangersHoldNothing'
  <2> SUFFICES ASSUME NEW j \in Keys, NEW x \in Conns, conn'[x] = "absent"
               PROVE  /\ compass'[j].lock.readers[x] = 0
                      /\ compass'[j].lock.writers[x] = 0
                      /\ granted'[j][x] = NoGrant
    BY DEF StrangersHoldNothing
  <2>1. conn[x] = "absent" /\ x # c
    BY <1>1, <1>3
  <2>2. /\ compass[j].lock.readers[x] = 0
        /\ compass[j].lock.writers[x] = 0
        /\ granted[j][x] = NoGrant
    BY <2>1 DEF IInv, StrangersHoldNothing
  <2>3. granted'[j][x] = NoGrant
    BY <2>1, <2>2, <1>5
  <2>4. CASE j = k
    <3>1. cx.lock.readers[x] <= 0 /\ cx.lock.writers[x] <= 0
      BY <2>1, <2>2, <2>4
    <3>2. cx.lock.readers[x] \in Nat /\ cx.lock.writers[x] \in Nat
      BY DEF Compasses, Lock
    <3>3. QED
      BY <3>1, <3>2, <2>3, <2>4, <1>4
  <2>5. CASE j # k
    BY <2>2, <2>3, <2>5, <1>4
  <2>6. QED
    BY <2>4, <2>5
<1>10. QED
  BY <1>6, <1>7, <1>8, <1>9 DEF IInv

-------------------------------------------------------------------------------
\* The compass that a servlet stores

\* Putting a lock into a compass.
LEMMA WithLockType ==
    ASSUME NEW cx \in Compasses, NEW l \in Lock
    PROVE  [cx EXCEPT !.lock = l] \in Compasses /\ [cx EXCEPT !.lock = l].lock = l
BY DEF Compasses

\* Noting an access leaves the lock alone.
LEMMA UpdateType ==
    ASSUME NEW cx \in Compasses, now \in Nat
    PROVE  /\ update_last_access_time(cx) \in Compasses
           /\ update_last_access_time(cx).lock = cx.lock
BY DEF Compasses, update_last_access_time

\* Writing a value leaves the lock alone.
LEMMA SetValueType ==
    ASSUME NEW cx \in Compasses, NEW values \in {<<>>} \cup {<<v>> : v \in Values}
    PROVE  set_value(cx, values) \in Compasses /\ set_value(cx, values).lock = cx.lock
<1>1. CASE values = <<>>
  BY <1>1 DEF set_value
<1>2. CASE values # <<>>
  <2>1. PICK v \in Values : values = <<v>>
    BY <1>2
  <2>2. values[1] \in Values
    BY <2>1
  <2>3. cx.version + 1 \in Nat
    BY DEF Compasses
  <2>4. QED
    BY <1>2, <2>2, <2>3 DEF set_value, Compasses
<1>3. QED
  BY <1>1, <1>2

\* The collected lock of another connection has no entry that the lock of the
\* compass does not have.
LEMMA CollectShrinks ==
    ASSUME NEW l \in Lock, NEW live
    PROVE  \A x \in Conns :
              /\ collect_expired_connections(l, live).readers[x] <= l.readers[x]
              /\ collect_expired_connections(l, live).writers[x] <= l.writers[x]
BY DEF collect_expired_connections, Lock

\* The lock state told to a client is one of the five.
LEMMA LockStateType ==
    ASSUME NEW l, NEW c
    PROVE  get_compass_lock_state(l, c) \in LockStates
BY DEF get_compass_lock_state, LockStates

\* A compass's parts are well typed.
LEMMA CompassType ==
    ASSUME IInv, NEW k \in Keys
    PROVE  /\ compass[k] \in Compasses
           /\ compass[k].lock \in Lock
           /\ Compatible(compass[k].lock)
           /\ now \in Nat
BY DEF IInv, TypeOK, Compasses, LockExclusion

-------------------------------------------------------------------------------
\* The servlets

\* A refused request preserves the invariant.
LEMMA RefusedStep ==
    ASSUME IInv, NEW c \in Live, NEW k \in Keys, NEW dying \in SUBSET MayDieDuring(c),
           Refused(c, k, dying)
    PROVE  IInv'
<1> DEFINE l  == collect_expired_connections(CurrentLock(k), LiveAfter(dying))
           cx == update_last_access_time([compass[k] EXCEPT !.lock = l])
<1>1. CurrentLock(k) \in Lock /\ Compatible(CurrentLock(k))
  BY CurrentLockFacts
<1>2. l \in Lock /\ Compatible(l)
  BY <1>1, CollectType, CollectCompatible
<1>3. cx \in Compasses /\ cx.lock = l
  BY <1>2, CompassType, WithLockType, UpdateType
<1>4. \A x \in Conns : /\ l.readers[x] <= compass[k].lock.readers[x]
                       /\ l.writers[x] <= compass[k].lock.writers[x]
  <2>1. \A x \in Conns : /\ l.readers[x] <= CurrentLock(k).readers[x]
                         /\ l.writers[x] <= CurrentLock(k).writers[x]
    BY <1>1, CollectShrinks
  <2>2. \A x \in Conns : /\ CurrentLock(k).readers[x] <= compass[k].lock.readers[x]
                         /\ CurrentLock(k).writers[x] <= compass[k].lock.writers[x]
    BY CompassType, CollectShrinks DEF CurrentLock
  <2>3. compass[k].lock \in Lock
    BY CompassType
  <2> HIDE DEF l
  <2> SUFFICES ASSUME NEW x \in Conns
               PROVE  /\ l.readers[x] <= compass[k].lock.readers[x]
                      /\ l.writers[x] <= compass[k].lock.writers[x]
    OBVIOUS
  <2>4. /\ l.readers[x] \in Nat /\ l.writers[x] \in Nat
        /\ CurrentLock(k).readers[x] \in Nat /\ CurrentLock(k).writers[x] \in Nat
        /\ compass[k].lock.readers[x] \in Nat /\ compass[k].lock.writers[x] \in Nat
    BY <1>1, <1>2, <2>3 DEF Lock
  <2>5. QED
    BY <2>1, <2>2, <2>4
<1>5. c \in Conns /\ c \notin dying
  BY DEF Live, MayDieDuring
<1>6. granted[k][c] \in [shared: Int, exclusive: Int]
  BY <1>5 DEF IInv, TypeOK, Grants
<1>7. /\ granted' \in [Keys -> Grants]
      /\ \A j \in Keys, x \in Conns :
            granted'[j][x] = IF j = k /\ x = c THEN granted[k][c]
                             ELSE IF x \in dying THEN NoGrant ELSE granted[j][x]
  BY <1>5, GrantsAfterFacts DEF Refused
<1>8. l.readers[c] <= granted[k][c].shared /\ l.writers[c] <= granted[k][c].exclusive
  <2>1. /\ compass[k].lock.readers[c] <= granted[k][c].shared
        /\ compass[k].lock.writers[c] <= granted[k][c].exclusive
    BY DEF IInv, HeldIsGranted
  <2>2. compass[k].lock \in Lock
    BY CompassType
  <2>3. QED
    BY <1>2, <1>4, <1>5, <1>6, <2>1, <2>2 DEF Lock
<1>9. reply' \in Replies /\ NoPartialCommit'
  BY <1>5, LockStateType DEF Refused, Replies, NoPartialCommit
<1>10. open_compass(k, cx) /\ conn' = ConnAfter(dying, {})
  BY DEF Refused
<1>11. now' = now /\ issued' \in SUBSET WatcherIds /\ view' \in [WatcherIds -> Values]
  BY DEF Refused, IInv, TypeOK
<1> HIDE DEF l, cx
<1>12. QED
  BY <1>2, <1>3, <1>4, <1>6, <1>7, <1>8, <1>9, <1>10, <1>11, ServletStep

\* A servlet that grants nothing and lets nobody die leaves the grants alone.
LEMMA SameGrants ==
    ASSUME IInv, NEW c \in Conns, NEW k \in Keys,
           granted' = granted \/ granted' = GrantsAfter({})
    PROVE  /\ granted' \in [Keys -> Grants]
           /\ \A j \in Keys, x \in Conns :
                 granted'[j][x] = IF j = k /\ x = c THEN granted[k][c]
                                  ELSE IF x \in {} THEN NoGrant ELSE granted[j][x]
<1>1. granted \in [Keys -> Grants]
  BY DEF IInv, TypeOK
<1>2. CASE granted' = granted
  BY <1>1, <1>2
<1>3. CASE granted' = GrantsAfter({})
  BY <1>3, GrantsAfterFacts
<1>4. QED
  BY <1>2, <1>3

\* With nobody dying and nobody shut down, the connections stay as they are.
LEMMA SameConns == ASSUME IInv PROVE conn = ConnAfter({}, {})
BY DEF IInv, TypeOK, ConnAfter

\* A servlet that fails to parse its disposition preserves the invariant.
LEMMA ThrowsStep ==
    ASSUME IInv, NEW c \in Live, NEW k \in Keys, NEW d, Throws(c, k, d)
    PROVE  IInv'
<1> DEFINE l  == CurrentLock(k)
           cx == [compass[k] EXCEPT !.lock = l]
<1>1. l \in Lock /\ Compatible(l)
  BY CurrentLockFacts
<1>2. cx \in Compasses /\ cx.lock = l
  BY <1>1, CompassType, WithLockType
<1>3. \A x \in Conns : /\ l.readers[x] <= compass[k].lock.readers[x]
                       /\ l.writers[x] <= compass[k].lock.writers[x]
  BY CompassType, CollectShrinks DEF CurrentLock
<1>4. /\ l.readers[c] = compass[k].lock.readers[c]
      /\ l.writers[c] = compass[k].lock.writers[c]
  BY CurrentLockFacts
<1>5. c \in Conns /\ {} \in SUBSET MayDieDuring(c)
  BY DEF Live
<1>6. granted[k][c] \in [shared: Int, exclusive: Int]
  BY <1>5 DEF IInv, TypeOK, Grants
<1>7. /\ granted' \in [Keys -> Grants]
      /\ \A j \in Keys, x \in Conns :
            granted'[j][x] = IF j = k /\ x = c THEN granted[k][c]
                             ELSE IF x \in {} THEN NoGrant ELSE granted[j][x]
  BY <1>5, SameGrants DEF Throws
<1>8. l.readers[c] <= granted[k][c].shared /\ l.writers[c] <= granted[k][c].exclusive
  BY <1>4 DEF IInv, HeldIsGranted
<1>9. /\ now' = now /\ issued' \in SUBSET WatcherIds /\ view' \in [WatcherIds -> Values]
      /\ reply' \in Replies /\ NoPartialCommit'
  BY DEF Throws, IInv, TypeOK, Replies, NoReply, NoPartialCommit
<1>10. open_compass(k, cx) /\ conn' = ConnAfter({}, {c})
  BY DEF Throws
<1> HIDE DEF l, cx
<1>11. QED
  BY <1>1, <1>2, <1>3, <1>5, <1>6, <1>7, <1>8, <1>9, <1>10, ServletStep

\* A servlet that only touches the watchers preserves the invariant.
LEMMA WatchersStep ==
    ASSUME IInv, NEW c \in Live, NEW k \in Keys, NEW ws \in SUBSET Watchers,
           open_compass(k, [compass[k] EXCEPT !.watchers = ws]),
           UNCHANGED <<conn, now, granted>>,
           issued' \in SUBSET WatcherIds, view' \in [WatcherIds -> Values], reply' = NoReply
    PROVE  IInv'
<1> DEFINE cx == [compass[k] EXCEPT !.watchers = ws]
<1>1. cx \in Compasses /\ cx.lock = compass[k].lock
  BY CompassType DEF Compasses
<1>2. compass[k].lock \in Lock /\ Compatible(compass[k].lock)
  BY CompassType
<1>3. c \in Conns /\ {} \in SUBSET MayDieDuring(c)
  BY DEF Live
<1>4. granted[k][c] \in [shared: Int, exclusive: Int]
  BY <1>3 DEF IInv, TypeOK, Grants
<1>5. /\ granted' \in [Keys -> Grants]
      /\ \A j \in Keys, x \in Conns :
            granted'[j][x] = IF j = k /\ x = c THEN granted[k][c]
                             ELSE IF x \in {} THEN NoGrant ELSE granted[j][x]
  BY <1>3, SameGrants
<1>6. /\ cx.lock.readers[c] <= granted[k][c].shared
      /\ cx.lock.writers[c] <= granted[k][c].exclusive
  BY <1>1 DEF IInv, HeldIsGranted
<1>7. \A x \in Conns : /\ cx.lock.readers[x] <= compass[k].lock.readers[x]
                       /\ cx.lock.writers[x] <= compass[k].lock.writers[x]
  BY <1>1, <1>2 DEF Lock
<1>8. reply' \in Replies /\ NoPartialCommit'
  BY DEF Replies, NoReply, NoPartialCommit
<1>9. conn' = ConnAfter({}, {})
  BY SameConns
<1> HIDE DEF cx
<1>10. open_compass(k, cx)
  BY DEF cx
<1>11. QED
  BY <1>1, <1>2, <1>3, <1>4, <1>5, <1>6, <1>7, <1>8, <1>9, <1>10, ServletStep

\* Placing and removing a watch preserve the invariant.
LEMMA WatchStep ==
    ASSUME IInv, NEW c \in Live, NEW k \in Keys, NEW w \in WatcherIds,
           Add_watch_request(c, k, w) \/ Remove_watch_notification(c, k, w)
    PROVE  IInv'
<1>1. compass[k].watchers \in SUBSET Watchers
  BY CompassType DEF Compasses
<1>2. CASE Add_watch_request(c, k, w)
  <2> DEFINE ws == {x \in compass[k].watchers : x.conn \in Live} \cup {[id |-> w, conn |-> c]}
  <2>1. ws \in SUBSET Watchers
    BY <1>1 DEF Watchers, Live
  <2>2. open_compass(k, [compass[k] EXCEPT !.watchers = ws])
    BY <1>2 DEF Add_watch_request
  <2>3. compass[k].value \in Values
    BY CompassType DEF Compasses
  <2>4. /\ UNCHANGED <<conn, now, granted>> /\ reply' = NoReply
        /\ issued' \in SUBSET WatcherIds /\ view' \in [WatcherIds -> Values]
    BY <1>2, <2>3 DEF Add_watch_request, IInv, TypeOK
  <2> HIDE DEF ws
  <2>5. QED
    BY <2>1, <2>2, <2>4, WatchersStep
<1>3. CASE Remove_watch_notification(c, k, w)
  <2> DEFINE ws == {x \in compass[k].watchers : x.id # w}
  <2>1. ws \in SUBSET Watchers
    BY <1>1
  <2>2. open_compass(k, [compass[k] EXCEPT !.watchers = ws])
    BY <1>3 DEF Remove_watch_notification
  <2>3. /\ UNCHANGED <<conn, now, granted>> /\ reply' = NoReply
        /\ issued' \in SUBSET WatcherIds /\ view' \in [WatcherIds -> Values]
    BY <1>3 DEF Remove_watch_notification, IInv, TypeOK
  <2> HIDE DEF ws
  <2>4. QED
    BY <2>1, <2>2, <2>3, WatchersStep
<1>4. QED
  BY <1>2, <1>3

\* Arithmetic: what is bounded stays bounded when both sides change alike.
LEMMA BoundAdd ==
    ASSUME NEW a \in Nat, NEW b \in Nat, NEW g \in Int, NEW n \in Int, a <= b + n, b <= g
    PROVE  a <= g + n
OBVIOUS

\* Once a request has its lock, it completes, and preserves the invariant.
LEMMA PerformedStep ==
    ASSUME IInv, NEW c \in Live, NEW k \in Keys, NEW d \in DOMAIN Disposition,
           NEW dying \in SUBSET MayDieDuring(c),
           NEW values \in {<<>>} \cup {<<v>> : v \in Values},
           NEW shared \in Int, NEW exclusive \in Int,
           NEW held \in Lock, Compatible(held), Committable(held, c, shared, exclusive),
           \A x \in Conns \ {c} : /\ held.readers[x] <= compass[k].lock.readers[x]
                                  /\ held.writers[x] <= compass[k].lock.writers[x],
           held.readers[c] + shared = compass[k].lock.readers[c] + Disposition[d].shared,
           held.writers[c] + exclusive = compass[k].lock.writers[c] + Disposition[d].exclusive,
           Performed(c, k, d, held, values, shared, exclusive, dying)
    PROVE  IInv'
<1> DEFINE done == commit_lock_disposition(held, c, shared, exclusive)
           kept == collect_expired_connections(done, LiveAfter(dying))
           cx   == set_value(compass[k], values)
           cz   == update_last_access_time([cx EXCEPT !.lock = kept])
           told == [shared    |-> granted[k][c].shared + Disposition[d].shared,
                    exclusive |-> granted[k][c].exclusive + Disposition[d].exclusive]
<1>1. c \in Conns /\ c \notin dying
  BY DEF Live, MayDieDuring
<1>2. done \in Lock /\ Compatible(done)
  BY <1>1, AddType, AddCompatible DEF commit_lock_disposition, Committable
<1>3. kept \in Lock /\ Compatible(kept)
  <2> HIDE DEF done
  <2>1. QED
    BY <1>2, CollectType, CollectCompatible
<1>4. \A x \in Conns : kept.readers[x] <= done.readers[x] /\ kept.writers[x] <= done.writers[x]
  <2> HIDE DEF done
  <2>1. QED
    BY <1>2, CollectShrinks
<1>5. /\ done.readers[c] = held.readers[c] + shared
      /\ done.writers[c] = held.writers[c] + exclusive
      /\ \A x \in Conns \ {c} : done.readers[x] = held.readers[x] /\ done.writers[x] = held.writers[x]
  BY <1>1 DEF commit_lock_disposition, AddEntries, Lock
<1>6. cx \in Compasses
  BY CompassType, SetValueType
<1>7. cz \in Compasses /\ cz.lock = kept
  <2> HIDE DEF cx, kept
  <2>1. QED
    BY <1>3, <1>6, CompassType, WithLockType, UpdateType
<1>8. granted[k][c] \in [shared: Int, exclusive: Int]
  BY <1>1 DEF IInv, TypeOK, Grants
<1>9. told \in [shared: Int, exclusive: Int]
  <2>1. Disposition[d].shared \in Int /\ Disposition[d].exclusive \in Int
    BY DispositionType
  <2>2. granted[k][c].shared \in Int /\ granted[k][c].exclusive \in Int
    BY <1>8
  <2>3. QED
    BY <2>1, <2>2
<1>10. open_compass(k, cz) /\ conn' = ConnAfter(dying, {})
       /\ granted' = [GrantsAfter(dying) EXCEPT ![k][c] = told]
       /\ reply' = [status |-> "succeeded", conn |-> c, key |-> k,
                    lock_state |-> get_compass_lock_state(kept, c)]
       /\ view' = (IF values = <<>> THEN view ELSE ReportedView(k, dying, values[1]))
       /\ now' = now /\ issued' = issued
  BY DEF Performed
<1>11. /\ granted' \in [Keys -> Grants]
       /\ \A j \in Keys, x \in Conns :
             granted'[j][x] = IF j = k /\ x = c THEN told
                              ELSE IF x \in dying THEN NoGrant ELSE granted[j][x]
  <2> HIDE DEF told
  <2>1. QED
    BY <1>1, <1>9, <1>10, GrantsAfterFacts DEF Grants
<1>12. /\ compass[k].lock.readers[c] <= granted[k][c].shared
       /\ compass[k].lock.writers[c] <= granted[k][c].exclusive
  BY DEF IInv, HeldIsGranted
<1>13. compass[k].lock \in Lock
  BY CompassType
<1>14. kept.readers[c] <= told.shared /\ kept.writers[c] <= told.exclusive
  <2>1. /\ told.shared = granted[k][c].shared + Disposition[d].shared
        /\ told.exclusive = granted[k][c].exclusive + Disposition[d].exclusive
    OBVIOUS
  <2>2. /\ kept.readers[c] \in Nat /\ kept.writers[c] \in Nat
        /\ done.readers[c] \in Nat /\ done.writers[c] \in Nat
        /\ compass[k].lock.readers[c] \in Nat /\ compass[k].lock.writers[c] \in Nat
    <3> HIDE DEF kept, done
    <3>1. QED
      BY <1>1, <1>2, <1>3, <1>13 DEF Lock
  <2>3. /\ Disposition[d].shared \in Int /\ Disposition[d].exclusive \in Int
        /\ granted[k][c].shared \in Int /\ granted[k][c].exclusive \in Int
    BY <1>8, DispositionType
  <2>4. /\ kept.readers[c] <= compass[k].lock.readers[c] + Disposition[d].shared
        /\ kept.writers[c] <= compass[k].lock.writers[c] + Disposition[d].exclusive
    <3> HIDE DEF kept, done
    <3>1. QED
      BY <1>1, <1>4, <1>5
  <2>5. /\ kept.readers[c] <= granted[k][c].shared + Disposition[d].shared
        /\ kept.writers[c] <= granted[k][c].exclusive + Disposition[d].exclusive
    <3> DEFINE n == compass[k].lock.readers[c]
               m == compass[k].lock.writers[c]
    <3>1. n \in Nat /\ m \in Nat /\ n <= granted[k][c].shared /\ m <= granted[k][c].exclusive
      BY <1>12, <2>2
    <3>2. /\ kept.readers[c] <= n + Disposition[d].shared
          /\ kept.writers[c] <= m + Disposition[d].exclusive
          /\ kept.readers[c] \in Nat /\ kept.writers[c] \in Nat
      BY <2>2, <2>4
    <3> HIDE DEF kept, n, m
    <3>3. kept.readers[c] <= granted[k][c].shared + Disposition[d].shared
      BY <2>3, <3>1, <3>2, BoundAdd
    <3>4. kept.writers[c] <= granted[k][c].exclusive + Disposition[d].exclusive
      BY <2>3, <3>1, <3>2, BoundAdd
    <3>5. QED
      BY <3>3, <3>4
  <2> HIDE DEF kept, told
  <2>6. QED
    BY <2>1, <2>5
<1>15. \A x \in Conns \ {c} : /\ kept.readers[x] <= compass[k].lock.readers[x]
                              /\ kept.writers[x] <= compass[k].lock.writers[x]
  <2> HIDE DEF kept, done
  <2> SUFFICES ASSUME NEW x \in Conns \ {c}
               PROVE  /\ kept.readers[x] <= compass[k].lock.readers[x]
                      /\ kept.writers[x] <= compass[k].lock.writers[x]
    OBVIOUS
  <2>1. /\ kept.readers[x] \in Nat /\ kept.writers[x] \in Nat
        /\ done.readers[x] \in Nat /\ done.writers[x] \in Nat
        /\ compass[k].lock.readers[x] \in Nat /\ compass[k].lock.writers[x] \in Nat
    BY <1>2, <1>3, <1>13 DEF Lock
  <2>2. QED
    BY <1>4, <1>5, <2>1
<1>16. reply' \in Replies /\ NoPartialCommit'
  <2>1. get_compass_lock_state(kept, c) \in LockStates
    BY LockStateType
  <2> HIDE DEF kept
  <2>2. QED
    BY <1>1, <1>10, <2>1 DEF Replies, NoPartialCommit
<1>17. view' \in [WatcherIds -> Values]
  <2>1. view \in [WatcherIds -> Values]
    BY DEF IInv, TypeOK
  <2>2. values # <<>> => values[1] \in Values
    OBVIOUS
  <2>3. QED
    BY <1>10, <2>1, <2>2 DEF ReportedView
<1>18. now' = now /\ issued' \in SUBSET WatcherIds
  BY <1>10 DEF IInv, TypeOK
<1>19. open_compass(k, cz) /\ conn' = ConnAfter(dying, {})
  BY <1>10
<1> HIDE DEF kept, done, cx, cz, told
<1>20. /\ Compatible(cz.lock)
       /\ cz.lock.readers[c] <= told.shared /\ cz.lock.writers[c] <= told.exclusive
       /\ \A x \in Conns \ {c} : /\ cz.lock.readers[x] <= compass[k].lock.readers[x]
                                 /\ cz.lock.writers[x] <= compass[k].lock.writers[x]
  BY <1>3, <1>7, <1>14, <1>15
<1>21. QED
  BY <1>7, <1>9, <1>11, <1>16, <1>17, <1>18, <1>19, <1>20, ServletStep

\* A request that takes the shared lock for a moment preserves the invariant.
LEMMA WithSharedStep ==
    ASSUME IInv, NEW c \in Live, NEW k \in Keys, NEW d \in DOMAIN Disposition,
           NEW dying \in SUBSET MayDieDuring(c),
           ParsesFor(CurrentLock(k), c, d), Disposition[d].exclusive <= 0,
           WithShared(c, k, d, <<>>, dying)
    PROVE  IInv'
<1> DEFINE l == CurrentLock(k)
           held == LockShared(l, c)
<1>1. /\ l \in Lock /\ Compatible(l)
      /\ l.readers[c] = compass[k].lock.readers[c]
      /\ l.writers[c] = compass[k].lock.writers[c]
  BY CurrentLockFacts
<1>2. \A x \in Conns : /\ l.readers[x] <= compass[k].lock.readers[x]
                       /\ l.writers[x] <= compass[k].lock.writers[x]
  BY CompassType, CollectShrinks DEF CurrentLock
<1>3. c \in Conns /\ CanLockShared(l, c)
  BY DEF Live, WithShared
<1>4. Performed(c, k, d, held, <<>>, Disposition[d].shared - 1, Disposition[d].exclusive, dying)
  BY DEF WithShared
<1>5. ParsesFor(l, c, d)
  OBVIOUS
<1> HIDE DEF l
<1>6. held \in Lock /\ Compatible(held)
  <2>1. l.readers[c] \in Nat /\ l.writers[c] \in Nat
    BY <1>1, <1>3 DEF Lock
  <2>2. QED
    BY <1>1, <1>3, <2>1, AddType, AddCompatible DEF LockShared
<1>7. Committable(held, c, Disposition[d].shared - 1, Disposition[d].exclusive)
  BY <1>1, <1>3, <1>5, SharedCommittable
<1>8. /\ held.readers[c] = l.readers[c] + 1 /\ held.writers[c] = l.writers[c]
      /\ \A x \in Conns \ {c} : held.readers[x] = l.readers[x] /\ held.writers[x] = l.writers[x]
  BY <1>1, <1>3 DEF LockShared, AddEntries, Lock
<1>9. Disposition[d].shared - 1 \in Int /\ Disposition[d].exclusive \in Int
      /\ Disposition[d].shared \in Int
  BY DispositionType
<1>10. l.readers[c] \in Nat /\ l.writers[c] \in Nat
  BY <1>1, <1>3 DEF Lock
<1> HIDE DEF held
<1>11. /\ held.readers[c] + (Disposition[d].shared - 1)
            = compass[k].lock.readers[c] + Disposition[d].shared
       /\ held.writers[c] + Disposition[d].exclusive
            = compass[k].lock.writers[c] + Disposition[d].exclusive
  BY <1>1, <1>8, <1>9, <1>10
<1>12. QED
  BY <1>2, <1>4, <1>6, <1>7, <1>8, <1>9, <1>11, PerformedStep

\* A request that takes the exclusive lock for a moment preserves the invariant.
LEMMA WithExclusiveStep ==
    ASSUME IInv, NEW c \in Live, NEW k \in Keys, NEW d \in DOMAIN Disposition,
           NEW dying \in SUBSET MayDieDuring(c),
           NEW values \in {<<>>} \cup {<<v>> : v \in Values},
           ParsesFor(CurrentLock(k), c, d),
           WithExclusive(c, k, d, values, dying)
    PROVE  IInv'
<1> DEFINE l == CurrentLock(k)
           held == LockExclusive(l, c)
<1>1. /\ l \in Lock /\ Compatible(l)
      /\ l.readers[c] = compass[k].lock.readers[c]
      /\ l.writers[c] = compass[k].lock.writers[c]
  BY CurrentLockFacts
<1>2. \A x \in Conns : /\ l.readers[x] <= compass[k].lock.readers[x]
                       /\ l.writers[x] <= compass[k].lock.writers[x]
  BY CompassType, CollectShrinks DEF CurrentLock
<1>3. c \in Conns /\ CanLockExclusive(l, c)
  BY DEF Live, WithExclusive
<1>4. Performed(c, k, d, held, values, Disposition[d].shared, Disposition[d].exclusive - 1, dying)
  BY DEF WithExclusive
<1>5. ParsesFor(l, c, d)
  OBVIOUS
<1> HIDE DEF l
<1>6. held \in Lock /\ Compatible(held)
  <2>1. l.readers[c] \in Nat /\ l.writers[c] \in Nat
    BY <1>1, <1>3 DEF Lock
  <2>2. QED
    BY <1>1, <1>3, <2>1, AddType, AddCompatible DEF LockExclusive
<1>7. Committable(held, c, Disposition[d].shared, Disposition[d].exclusive - 1)
  BY <1>1, <1>3, <1>5, ExclusiveCommittable
<1>8. /\ held.readers[c] = l.readers[c] /\ held.writers[c] = l.writers[c] + 1
      /\ \A x \in Conns \ {c} : held.readers[x] = l.readers[x] /\ held.writers[x] = l.writers[x]
  BY <1>1, <1>3 DEF LockExclusive, AddEntries, Lock
<1>9. Disposition[d].shared \in Int /\ Disposition[d].exclusive - 1 \in Int
      /\ Disposition[d].exclusive \in Int
  BY DispositionType
<1>10. l.readers[c] \in Nat /\ l.writers[c] \in Nat
  BY <1>1, <1>3 DEF Lock
<1> HIDE DEF held
<1>11. /\ held.readers[c] + Disposition[d].shared
            = compass[k].lock.readers[c] + Disposition[d].shared
       /\ held.writers[c] + (Disposition[d].exclusive - 1)
            = compass[k].lock.writers[c] + Disposition[d].exclusive
  BY <1>1, <1>8, <1>9, <1>10
<1>12. QED
  BY <1>2, <1>4, <1>6, <1>7, <1>8, <1>9, <1>11, PerformedStep

\* Serving any request preserves the invariant.
LEMMA ServeStep ==
    ASSUME IInv, NEW c \in Live, Serve(c)
    PROVE  IInv'
<1>1. PICK k \in Keys :
        \/ \E d \in DOMAIN Disposition, dying \in SUBSET MayDieDuring(c) :
              \/ \E criteria \in Criteria : Compare_exchange_request(c, k, criteria, d, dying)
              \/ \E v \in Values : Exchange_request(c, k, v, d, dying)
        \/ \E d \in DOMAIN Disposition \cup {"unknown"} : Throws(c, k, d)
        \/ \E w \in WatcherIds : Add_watch_request(c, k, w)
        \/ \E w \in WatcherIds : Remove_watch_notification(c, k, w)
  BY DEF Serve
<1>2. ASSUME NEW d \in DOMAIN Disposition, NEW dying \in SUBSET MayDieDuring(c),
             NEW criteria \in Criteria, Compare_exchange_request(c, k, criteria, d, dying)
      PROVE  IInv'
  <2>1. ParsesFor(CurrentLock(k), c, d)
    BY <1>2 DEF Compare_exchange_request
  <2>2. CASE Refused(c, k, dying)
    BY <2>2, RefusedStep
  <2>3. CASE Disposition[d].exclusive <= 0 /\ WithShared(c, k, d, <<>>, dying)
    BY <2>1, <2>3, WithSharedStep
  <2>4. CASE WithExclusive(c, k, d, <<>>, dying)
    BY <2>1, <2>4, WithExclusiveStep
  <2>5. ASSUME NEW i \in 1..Len(criteria),
               WithExclusive(c, k, d, <<criteria[i].value_new>>, dying)
        PROVE  IInv'
    <3>1. criteria \in Seq([value_cmp: Values, value_new: Values])
      BY CriteriaAssumption
    <3>2. criteria[i].value_new \in Values
      <4> DEFINE S == [value_cmp: Values, value_new: Values]
      <4>1. criteria[i] \in S
        <5> HIDE DEF S
        <5>1. criteria \in Seq(S)
          BY <3>1 DEF S
        <5>2. QED
          BY <5>1
      <4>2. QED
        BY <4>1
    <3>3. QED
      BY <2>1, <2>5, <3>2, WithExclusiveStep
  <2>6. QED
    BY <1>2, <2>2, <2>3, <2>4, <2>5 DEF Compare_exchange_request
<1>3. ASSUME NEW d \in DOMAIN Disposition, NEW dying \in SUBSET MayDieDuring(c),
             NEW v \in Values, Exchange_request(c, k, v, d, dying)
      PROVE  IInv'
  BY <1>3, RefusedStep, WithExclusiveStep DEF Exchange_request
<1>4. QED
  BY <1>1, <1>2, <1>3, ThrowsStep, WatchStep

-------------------------------------------------------------------------------
\* Connections, time and garbage collection

\* The invariant does not depend on how a live connection is doing.
LEMMA ConnStep ==
    ASSUME IInv, NEW c \in Conns, Connect(c) \/ Shutdown(c)
    PROVE  IInv'
<1>1. /\ conn' \in [Conns -> {"absent", "open", "closing", "gone"}]
      /\ \A x \in Conns : conn'[x] = "absent" => conn[x] = "absent"
      /\ \A x \in Conns : IsLive(conn'[x]) => IsLive(conn[x]) \/ conn[x] = "absent"
  BY DEF Connect, Shutdown, IsLive, IInv, TypeOK
<1>2. UNCHANGED <<container, compass, now, issued, granted, touched, view>> /\ reply' = NoReply
  BY DEF Connect, Shutdown
<1>3. TypeOK'
  BY <1>1, <1>2 DEF IInv, TypeOK, Replies
<1>4. LockExclusion' /\ NoPartialCommit'
  BY <1>2 DEF IInv, LockExclusion, NoPartialCommit, NoReply
<1>5. HeldIsGranted'
  <2> SUFFICES ASSUME NEW k \in Keys, NEW x \in Conns, IsLive(conn'[x])
               PROVE  /\ compass[k].lock.readers[x] <= granted[k][x].shared
                      /\ compass[k].lock.writers[x] <= granted[k][x].exclusive
    BY <1>2 DEF HeldIsGranted, Live
  <2>2. CASE IsLive(conn[x])
    <3>1. x \in Live
      BY <2>2 DEF Live
    <3>2. QED
      BY <3>1 DEF IInv, HeldIsGranted
  <2>3. CASE conn[x] = "absent"
    <3>1. compass[k].lock.readers[x] = 0 /\ compass[k].lock.writers[x] = 0 /\ granted[k][x] = NoGrant
      BY <2>3 DEF IInv, StrangersHoldNothing
    <3>2. QED
      BY <3>1 DEF NoGrant
  <2>4. QED
    BY <1>1, <2>2, <2>3 DEF IsLive
<1>6. StrangersHoldNothing'
  BY <1>1, <1>2 DEF IInv, StrangersHoldNothing
<1>7. QED
  BY <1>3, <1>4, <1>5, <1>6 DEF IInv

\* The death of a connection preserves the invariant.
LEMMA ExpireStep ==
    ASSUME IInv, NEW c \in Conns, Expire(c)
    PROVE  IInv'
<1>1. /\ conn' \in [Conns -> {"absent", "open", "closing", "gone"}]
      /\ \A x \in Conns : conn'[x] = "absent" => conn[x] = "absent"
      /\ \A x \in Conns : IsLive(conn'[x]) => IsLive(conn[x]) /\ x # c
  BY DEF Expire, IsLive, IInv, TypeOK
<1>2. /\ granted' \in [Keys -> Grants]
      /\ \A k \in Keys, x \in Conns : granted'[k][x] = IF x = c THEN NoGrant ELSE granted[k][x]
  BY GrantsAfterFacts DEF Expire
<1>3. UNCHANGED <<container, compass, now, issued, touched, view>> /\ reply' = NoReply
  BY DEF Expire
<1>4. TypeOK'
  BY <1>1, <1>2, <1>3 DEF IInv, TypeOK, Replies
<1>5. LockExclusion' /\ NoPartialCommit'
  BY <1>3 DEF IInv, LockExclusion, NoPartialCommit, NoReply
<1>6. HeldIsGranted'
  <2>1. Live \subseteq Conns /\ Live' \subseteq Conns
    BY DEF Live
  <2>2. \A x \in Live' : x \in Live /\ x # c
    BY <1>1 DEF Live, IsLive
  <2>3. \A k \in Keys, x \in Live' :
          granted'[k][x] = granted[k][x] /\ compass'[k] = compass[k]
    BY <1>2, <1>3, <2>1, <2>2
  <2>4. QED
    BY <2>2, <2>3 DEF IInv, HeldIsGranted
<1>7. StrangersHoldNothing'
  BY <1>1, <1>2, <1>3 DEF IInv, StrangersHoldNothing
<1>8. QED
  BY <1>4, <1>5, <1>6, <1>7 DEF IInv

\* So does the clock.
LEMMA TickStep ==
    ASSUME IInv, Tick
    PROVE  IInv'
<1>1. TypeOK'
  BY DEF Tick, IInv, TypeOK, Replies
<1>2. LockExclusion' /\ NoPartialCommit'
  BY DEF Tick, IInv, LockExclusion, NoPartialCommit, NoReply
<1>3. HeldIsGranted' /\ StrangersHoldNothing'
  BY DEF Tick, IInv, HeldIsGranted, StrangersHoldNothing, Live
<1>4. QED
  BY <1>1, <1>2, <1>3 DEF IInv

\* So does the garbage collector: a dropped compass leaves a free lock.
LEMMA GcStep ==
    ASSUME IInv, gc_timer_proc
    PROVE  IInv'
<1>1. UNCHANGED <<conn, now, issued, granted, touched, view>> /\ reply' = NoReply
      /\ container' \subseteq container
  BY DEF gc_timer_proc
<1>2. \A k \in Keys : compass'[k] = compass[k] \/ compass'[k] = NewCompass
  BY DEF gc_timer_proc
<1>3. compass' \in [Keys -> Compasses]
  BY NewCompassType DEF gc_timer_proc, IInv, TypeOK
<1>4. TypeOK'
  BY <1>1, <1>3 DEF IInv, TypeOK, Replies
<1>5. LockExclusion' /\ NoPartialCommit'
  BY <1>1, <1>2, NewCompassType DEF IInv, LockExclusion, NoPartialCommit, NoReply
<1>6. \A x \in Conns : NewCompass.lock.readers[x] = 0 /\ NewCompass.lock.writers[x] = 0
  BY DEF NewCompass, FreeLock, NoLocks
<1>7. HeldIsGranted'
  <2> SUFFICES ASSUME NEW k \in Keys, NEW x \in Live
               PROVE  /\ compass'[k].lock.readers[x] <= granted[k][x].shared
                      /\ compass'[k].lock.writers[x] <= granted[k][x].exclusive
    BY <1>1 DEF HeldIsGranted, Live
  <2>1. /\ compass[k].lock.readers[x] <= granted[k][x].shared
        /\ compass[k].lock.writers[x] <= granted[k][x].exclusive
    BY DEF IInv, HeldIsGranted
  <2>2. x \in Conns
    BY DEF Live
  <2>3. compass[k].lock.readers[x] \in Nat /\ compass[k].lock.writers[x] \in Nat
    BY <2>2, CompassType DEF Lock
  <2>4. granted[k][x].shared \in Int /\ granted[k][x].exclusive \in Int
    BY <2>2 DEF IInv, TypeOK, Grants
  <2>5. 0 <= granted[k][x].shared /\ 0 <= granted[k][x].exclusive
    BY <2>1, <2>3, <2>4
  <2>6. QED
    BY <1>2, <1>6, <2>1, <2>2, <2>5
<1>8. StrangersHoldNothing'
  BY <1>1, <1>2, <1>6 DEF IInv, StrangersHoldNothing
<1>9. QED
  BY <1>4, <1>5, <1>7, <1>8 DEF IInv

\* Stuttering changes nothing.
LEMMA StutterStep ==
    ASSUME IInv, UNCHANGED vars
    PROVE  IInv'
BY DEF vars, IInv, TypeOK, LockExclusion, NoPartialCommit, HeldIsGranted, StrangersHoldNothing, Live

-------------------------------------------------------------------------------
\* The inductive invariant holds in every reachable state.
THEOREM Invariance == Spec => []IInv
<1>1. Init => IInv
  BY InitIInv
<1>2. IInv /\ [Next]_vars => IInv'
  <2> SUFFICES ASSUME IInv, [Next]_vars PROVE IInv'
    OBVIOUS
  <2>1. ASSUME NEW c \in Conns, Connect(c) \/ Shutdown(c) PROVE IInv'
    BY <2>1, ConnStep
  <2>2. ASSUME NEW c \in Conns, Expire(c) PROVE IInv'
    BY <2>2, ExpireStep
  <2>3. ASSUME NEW c \in Live, Serve(c) PROVE IInv'
    BY <2>3, ServeStep
  <2>4. CASE Tick
    BY <2>4, TickStep
  <2>5. CASE gc_timer_proc
    BY <2>5, GcStep
  <2>6. CASE UNCHANGED vars
    BY <2>6, StutterStep
  <2>7. QED
    BY <2>1, <2>2, <2>3, <2>4, <2>5, <2>6 DEF Next
<1>3. QED
  BY <1>1, <1>2, PTL DEF Spec

\* The pilot's state is always well typed.
THEOREM TypeCorrect == Spec => []TypeOK
<1>1. IInv => TypeOK
  BY DEF IInv
<1>2. QED
  BY <1>1, Invariance, PTL

\* Locks of a compass exclude each other, whatever mix of recursive, upgraded
\* and downgraded acquisitions the clients try.
THEOREM LocksExclude == Spec => []LockExclusion
<1>1. IInv => LockExclusion
  BY DEF IInv
<1>2. QED
  BY <1>1, Invariance, PTL

\* No request throws after it has written the value: the assertions of
\* commit_lock_disposition always hold.
THEOREM CommitsComplete == Spec => []NoPartialCommit
<1>1. IInv => NoPartialCommit
  BY DEF IInv
<1>2. QED
  BY <1>1, Invariance, PTL

\* The pilot holds no lock for a live connection that it has not told it of.
THEOREM HeldLocksWereGranted == Spec => []HeldIsGranted
<1>1. IInv => HeldIsGranted
  BY DEF IInv
<1>2. QED
  BY <1>1, Invariance, PTL

-------------------------------------------------------------------------------
\* The register

\* Who is in the lock of k, as the register has it.
ReadersOf(k) == Readers(compass[k].lock) \cap Live
WritersOf(k) == Writers(compass[k].lock) \cap Live

\* Connections leave the lock, or nothing happens to it.
LEMMA LeaveRegister ==
    ASSUME NEW k \in Keys,
           compass'[k].value = compass[k].value, compass'[k].version = compass[k].version,
           ReadersOf(k)' \subseteq ReadersOf(k), WritersOf(k)' \subseteq WritersOf(k)
    PROVE  Register(k)!Next
BY DEF Register!Next, Register!Leave, ReadersOf, WritersOf

\* What neither touches the compass nor lets anybody in is nothing to it.
LEMMA UntouchedRegister ==
    ASSUME NEW k \in Keys, compass'[k] = compass[k], Live' \subseteq Live
    PROVE  Register(k)!Next
<1>1. ReadersOf(k)' \subseteq ReadersOf(k) /\ WritersOf(k)' \subseteq WritersOf(k)
  BY DEF ReadersOf, WritersOf, Readers, Writers
<1>2. QED
  BY <1>1, LeaveRegister

\* Neither the lock nor the time of an access is part of the value.
LEMMA ValueFacts ==
    ASSUME NEW cx \in Compasses, NEW l
    PROVE  /\ update_last_access_time([cx EXCEPT !.lock = l]).value = cx.value
           /\ update_last_access_time([cx EXCEPT !.lock = l]).version = cx.version
           /\ update_last_access_time([cx EXCEPT !.lock = l]).lock = l
           /\ [cx EXCEPT !.lock = l].value = cx.value
           /\ [cx EXCEPT !.lock = l].version = cx.version
           /\ [cx EXCEPT !.lock = l].lock = l
BY DEF Compasses, update_last_access_time

\* Storing a compass touches no other.
LEMMA OpenFacts ==
    ASSUME IInv, NEW k \in Keys, NEW cx, open_compass(k, cx)
    PROVE  compass'[k] = cx /\ \A j \in Keys \ {k} : compass'[j] = compass[j]
BY DEF IInv, TypeOK, open_compass

\* Who is in the lock after the expired entries have been dropped.
LEMMA CollectMembers ==
    ASSUME NEW l \in Lock, NEW live
    PROVE  /\ Readers(collect_expired_connections(l, live)) = Readers(l) \cap live
           /\ Writers(collect_expired_connections(l, live)) = Writers(l) \cap live
<1> DEFINE m == collect_expired_connections(l, live)
<1>1. \A x \in Conns : /\ m.readers[x] = IF x \in live THEN l.readers[x] ELSE 0
                       /\ m.writers[x] = IF x \in live THEN l.writers[x] ELSE 0
  BY DEF collect_expired_connections
<1> HIDE DEF m
<1>2. Readers(m) = Readers(l) \cap live /\ Writers(m) = Writers(l) \cap live
  BY <1>1 DEF Readers, Writers
<1>3. QED
  BY <1>2 DEF m

\* A request that is refused, or fails, or is about watchers, lets nobody in.
LEMMA RefusedRegister ==
    ASSUME IInv, NEW c \in Live, NEW k \in Keys, NEW dying \in SUBSET MayDieDuring(c),
           Refused(c, k, dying), NEW j \in Keys
    PROVE  Register(j)!Next
<1> DEFINE l == collect_expired_connections(CurrentLock(k), LiveAfter(dying))
<1>1. Live' = LiveAfter(dying)
  BY ConnAfterFacts DEF Refused
<1>2. Readers(l) \subseteq Readers(compass[k].lock) /\ Writers(l) \subseteq Writers(compass[k].lock)
  BY CurrentLockFacts, CompassType, CollectMembers DEF CurrentLock
<1> HIDE DEF l
<1>3. open_compass(k, update_last_access_time([compass[k] EXCEPT !.lock = l]))
  BY DEF Refused, l
<1>4. /\ compass'[k] = update_last_access_time([compass[k] EXCEPT !.lock = l])
      /\ j # k => compass'[j] = compass[j]
  BY <1>3, OpenFacts
<1>5. CASE j # k
  BY <1>1, <1>4, <1>5, UntouchedRegister DEF LiveAfter
<1>6. CASE j = k
  <2>1. /\ compass'[k].value = compass[k].value /\ compass'[k].version = compass[k].version
        /\ compass'[k].lock = l
    <3>1. compass[k] \in Compasses
      BY CompassType
    <3>2. QED
      BY <1>4, <3>1, ValueFacts
  <2>2. ReadersOf(k)' \subseteq ReadersOf(k) /\ WritersOf(k)' \subseteq WritersOf(k)
    BY <1>1, <1>2, <2>1 DEF ReadersOf, WritersOf, LiveAfter
  <2>3. QED
    BY <1>6, <2>1, <2>2, LeaveRegister
<1>7. QED
  BY <1>5, <1>6

\* The same of a request that fails.
LEMMA ThrowsRegister ==
    ASSUME IInv, NEW c \in Live, NEW k \in Keys, NEW d, Throws(c, k, d), NEW j \in Keys
    PROVE  Register(j)!Next
<1>1. Live' \subseteq Live
  <2>1. {} \in SUBSET MayDieDuring(c)
    OBVIOUS
  <2>2. QED
    BY <2>1, ConnAfterFacts DEF Throws, LiveAfter
<1>2. /\ compass'[k] = [compass[k] EXCEPT !.lock = CurrentLock(k)]
      /\ j # k => compass'[j] = compass[j]
  BY OpenFacts DEF Throws
<1>3. CASE j # k
  BY <1>1, <1>2, <1>3, UntouchedRegister
<1>4. CASE j = k
  <2>1. /\ compass'[k].value = compass[k].value /\ compass'[k].version = compass[k].version
        /\ compass'[k].lock = CurrentLock(k)
    BY <1>2, CompassType, ValueFacts
  <2>2. /\ Readers(CurrentLock(k)) \subseteq Readers(compass[k].lock)
        /\ Writers(CurrentLock(k)) \subseteq Writers(compass[k].lock)
    BY CompassType, CollectMembers DEF CurrentLock
  <2>3. ReadersOf(k)' \subseteq ReadersOf(k) /\ WritersOf(k)' \subseteq WritersOf(k)
    BY <1>1, <2>1, <2>2 DEF ReadersOf, WritersOf
  <2>4. QED
    BY <1>4, <2>1, <2>3, LeaveRegister
<1>5. QED
  BY <1>3, <1>4

\* The same of one about watchers.
LEMMA WatchRegister ==
    ASSUME IInv, NEW c \in Live, NEW k \in Keys, NEW w \in WatcherIds,
           Add_watch_request(c, k, w) \/ Remove_watch_notification(c, k, w), NEW j \in Keys
    PROVE  Register(j)!Next
<1>1. Live' = Live
  BY DEF Add_watch_request, Remove_watch_notification, Live
<1>2. \E ws : open_compass(k, [compass[k] EXCEPT !.watchers = ws])
  BY DEF Add_watch_request, Remove_watch_notification
<1>3. PICK ws : /\ compass'[k] = [compass[k] EXCEPT !.watchers = ws]
                /\ j # k => compass'[j] = compass[j]
  BY <1>2, OpenFacts
<1>4. CASE j # k
  BY <1>1, <1>3, <1>4, UntouchedRegister
<1>5. CASE j = k
  <2>1. /\ compass'[k].value = compass[k].value /\ compass'[k].version = compass[k].version
        /\ compass'[k].lock = compass[k].lock
    BY <1>3, CompassType DEF Compasses
  <2>2. ReadersOf(k)' \subseteq ReadersOf(k) /\ WritersOf(k)' \subseteq WritersOf(k)
    BY <1>1, <2>1 DEF ReadersOf, WritersOf
  <2>3. QED
    BY <1>5, <2>1, <2>2, LeaveRegister
<1>6. QED
  BY <1>4, <1>5

\* What a request of c that had the lock held leaves behind.
Entered(c, k, held, values, shared, exclusive, dying) ==
    /\ Live' = LiveAfter(dying) /\ c \in Conns /\ c \in LiveAfter(dying)
    /\ \A j \in Keys \ {k} : compass'[j] = compass[j]
    /\ compass'[k].value = set_value(compass[k], values).value
    /\ compass'[k].version = set_value(compass[k], values).version
    /\ ReadersOf(k)' \ {c} = (Readers(held) \cap LiveAfter(dying)) \ {c}
    /\ WritersOf(k)' \ {c} = (Writers(held) \cap LiveAfter(dying)) \ {c}
    /\ c \in ReadersOf(k)' => held.readers[c] + shared > 0
    /\ c \in WritersOf(k)' => held.writers[c] + exclusive > 0

\* What a request that has its lock does to it: c gets or gives up entries, and
\* some of the others may die.
LEMMA PerformedFacts ==
    ASSUME IInv, NEW c \in Live, NEW k \in Keys, NEW d, NEW dying \in SUBSET MayDieDuring(c),
           NEW values \in {<<>>} \cup {<<v>> : v \in Values},
           NEW shared \in Int, NEW exclusive \in Int,
           NEW held \in Lock, Committable(held, c, shared, exclusive),
           Performed(c, k, d, held, values, shared, exclusive, dying)
    PROVE  Entered(c, k, held, values, shared, exclusive, dying)
<1> DEFINE done == commit_lock_disposition(held, c, shared, exclusive)
           kept == collect_expired_connections(done, LiveAfter(dying))
           cx   == set_value(compass[k], values)
<1>1. /\ open_compass(k, update_last_access_time([cx EXCEPT !.lock = kept]))
      /\ conn' = ConnAfter(dying, {})
  BY DEF Performed
<1>2. Live' = LiveAfter(dying) /\ c \in LiveAfter(dying) /\ c \in Conns
  <2>1. {} \in SUBSET {c}
    OBVIOUS
  <2>2. QED
    BY <1>1, <2>1, ConnAfterFacts DEF Live
<1>3. done \in Lock
  BY <1>2, AddType DEF commit_lock_disposition, Committable
<1>4. /\ done.readers[c] = held.readers[c] + shared
      /\ done.writers[c] = held.writers[c] + exclusive
      /\ \A x \in Conns \ {c} : done.readers[x] = held.readers[x] /\ done.writers[x] = held.writers[x]
  BY <1>2 DEF commit_lock_disposition, AddEntries, Lock
<1> HIDE DEF done
<1>5. /\ Readers(kept) = Readers(done) \cap LiveAfter(dying)
      /\ Writers(kept) = Writers(done) \cap LiveAfter(dying)
  BY <1>3, CollectMembers
<1> HIDE DEF kept
<1>6. cx \in Compasses
  BY CompassType, SetValueType
<1> HIDE DEF cx
<1>7. /\ compass'[k] = update_last_access_time([cx EXCEPT !.lock = kept])
      /\ \A j \in Keys \ {k} : compass'[j] = compass[j]
  BY <1>1, OpenFacts
<1>8. compass'[k].value = cx.value /\ compass'[k].version = cx.version /\ compass'[k].lock = kept
  BY <1>6, <1>7, ValueFacts
<1>9. /\ ReadersOf(k)' = Readers(done) \cap LiveAfter(dying)
      /\ WritersOf(k)' = Writers(done) \cap LiveAfter(dying)
  BY <1>2, <1>5, <1>8 DEF ReadersOf, WritersOf
<1>10. Readers(done) \ {c} = Readers(held) \ {c} /\ Writers(done) \ {c} = Writers(held) \ {c}
  BY <1>4 DEF Readers, Writers
<1>11. /\ c \in Readers(done) => held.readers[c] + shared > 0
       /\ c \in Writers(done) => held.writers[c] + exclusive > 0
  BY <1>4 DEF Readers, Writers
<1>12. QED
  BY <1>2, <1>7, <1>8, <1>9, <1>10, <1>11 DEF cx, Entered

\* Whether a value is written is up to the request.
LEMMA SetValueFacts ==
    ASSUME NEW cx \in Compasses, NEW values \in {<<>>} \cup {<<v>> : v \in Values}
    PROVE  \/ /\ values = <<>>
              /\ set_value(cx, values).value = cx.value
              /\ set_value(cx, values).version = cx.version
           \/ /\ values # <<>>
              /\ set_value(cx, values).value \in Values
              /\ set_value(cx, values).version = cx.version + 1
<1>1. CASE values = <<>>
  BY <1>1 DEF set_value
<1>2. CASE values # <<>>
  <2>1. PICK v \in Values : values = <<v>>
    BY <1>2
  <2>2. set_value(cx, values) = [cx EXCEPT !.written = TRUE, !.value = v, !.version = @ + 1]
    BY <1>2, <2>1 DEF set_value
  <2>3. QED
    BY <1>2, <2>2 DEF Compasses
<1>3. QED
  BY <1>1, <1>2

\* The lock as a servlet sees it has those in it that the register has.
LEMMA CurrentMembers ==
    ASSUME IInv, NEW k \in Keys
    PROVE  Readers(CurrentLock(k)) = ReadersOf(k) /\ Writers(CurrentLock(k)) = WritersOf(k)
BY CompassType, CollectMembers DEF CurrentLock, ReadersOf, WritersOf

\* A request that has taken the shared lock reads.
LEMMA WithSharedRegister ==
    ASSUME IInv, NEW c \in Live, NEW k \in Keys, NEW d \in DOMAIN Disposition,
           NEW dying \in SUBSET MayDieDuring(c),
           ParsesFor(CurrentLock(k), c, d), Disposition[d].exclusive <= 0,
           WithShared(c, k, d, <<>>, dying), NEW j \in Keys
    PROVE  Register(j)!Next
<1> DEFINE l == CurrentLock(k)
           held == LockShared(l, c)
           n == Disposition[d].shared - 1
           m == Disposition[d].exclusive
           values == <<>>
<1>1. l \in Lock /\ c \in Conns /\ CanLockShared(l, c)
  BY CurrentLockFacts DEF Live, WithShared
<1>2. Readers(l) = ReadersOf(k) /\ Writers(l) = WritersOf(k)
  BY CurrentMembers
<1>3. Performed(c, k, d, held, <<>>, n, m, dying)
  BY DEF WithShared
<1>4. ParsesFor(l, c, d) /\ n \in Int /\ m \in Int /\ m <= 0
  BY DispositionType
<1> HIDE DEF l
<1>5. Committable(held, c, n, m)
  BY <1>1, <1>4, SharedCommittable
<1>6. /\ held \in Lock /\ held.readers[c] = l.readers[c] + 1 /\ held.writers[c] = l.writers[c]
      /\ \A x \in Conns \ {c} : held.readers[x] = l.readers[x] /\ held.writers[x] = l.writers[x]
  BY <1>1 DEF LockShared, AddEntries, Lock
<1> HIDE DEF held, n, m
<1>7. values \in {<<>>} \cup {<<v>> : v \in Values} /\ Performed(c, k, d, held, values, n, m, dying)
  BY <1>3
<1> HIDE DEF values
<1>8. Entered(c, k, held, values, n, m, dying)
  BY <1>4, <1>5, <1>6, <1>7, PerformedFacts
<1>9. CASE j # k
  BY <1>8, <1>9, UntouchedRegister DEF Entered, LiveAfter
<1>10. CASE j = k
  <2>1. compass'[k].value = compass[k].value /\ compass'[k].version = compass[k].version
    BY <1>7, <1>8, CompassType, SetValueFacts DEF Entered, values
  <2>2. Readers(held) \ {c} = ReadersOf(k) \ {c} /\ Writers(held) \ {c} = WritersOf(k) \ {c}
    BY <1>2, <1>6 DEF Readers, Writers
  <2>3. ReadersOf(k) \subseteq Live /\ WritersOf(k) \subseteq Live
    BY DEF ReadersOf, WritersOf
  <2>4. /\ ReadersOf(k)' \ {c} = (ReadersOf(k) \ dying) \ {c}
        /\ WritersOf(k)' \ {c} = (WritersOf(k) \ dying) \ {c}
    BY <1>8, <2>2, <2>3 DEF Entered, LiveAfter
  <2>5. dying \in SUBSET (Conns \ {c})
    BY DEF MayDieDuring
  <2>6. c \in ReadersOf(k)' \ ReadersOf(k) => WritersOf(k) \subseteq {c}
    BY <1>1, <1>2 DEF CanLockShared
  <2>7. c \in WritersOf(k)' => c \in WritersOf(k)
    <3>1. l.writers[c] \in Nat
      BY <1>1 DEF Lock
    <3>2. c \in WritersOf(k)' => l.writers[c] > 0
      BY <1>4, <1>6, <1>8, <3>1 DEF Entered
    <3>3. QED
      BY <1>1, <1>2, <3>2 DEF Writers
  <2>8. Register(k)!Read(c)
    BY <2>1, <2>4, <2>5, <2>6, <2>7 DEF Register!Read, Register!OthersOnlyLeave, ReadersOf, WritersOf
  <2>9. QED
    BY <1>1, <1>10, <2>8 DEF Register!Next
<1>11. QED
  BY <1>9, <1>10

\* One that has taken the exclusive lock reads or writes, alone.
LEMMA WithExclusiveRegister ==
    ASSUME IInv, NEW c \in Live, NEW k \in Keys, NEW d \in DOMAIN Disposition,
           NEW dying \in SUBSET MayDieDuring(c),
           NEW values \in {<<>>} \cup {<<v>> : v \in Values},
           ParsesFor(CurrentLock(k), c, d),
           WithExclusive(c, k, d, values, dying), NEW j \in Keys
    PROVE  Register(j)!Next
<1> DEFINE l == CurrentLock(k)
           held == LockExclusive(l, c)
           n == Disposition[d].shared
           m == Disposition[d].exclusive - 1
<1>1. l \in Lock /\ Compatible(l) /\ c \in Conns /\ CanLockExclusive(l, c)
  BY CurrentLockFacts DEF Live, WithExclusive
<1>2. Readers(l) = ReadersOf(k) /\ Writers(l) = WritersOf(k)
  BY CurrentMembers
<1>3. Performed(c, k, d, held, values, n, m, dying)
  BY DEF WithExclusive
<1>4. ParsesFor(l, c, d) /\ n \in Int /\ m \in Int
  BY DispositionType
<1> HIDE DEF l
<1>5. Committable(held, c, n, m)
  BY <1>1, <1>4, ExclusiveCommittable
<1>6. /\ held \in Lock
      /\ \A x \in Conns \ {c} : held.readers[x] = l.readers[x] /\ held.writers[x] = l.writers[x]
  BY <1>1 DEF LockExclusive, AddEntries, Lock
<1> HIDE DEF held, n, m
<1>7. Entered(c, k, held, values, n, m, dying)
  BY <1>3, <1>4, <1>5, <1>6, PerformedFacts
<1>8. CASE j # k
  BY <1>7, <1>8, UntouchedRegister DEF Entered, LiveAfter
<1>9. CASE j = k
  <2>1. ReadersOf(k) \subseteq {c} /\ WritersOf(k) \subseteq {c}
    BY <1>1, <1>2 DEF CanLockExclusive, Compatible
  <2>2. Readers(held) \subseteq {c} /\ Writers(held) \subseteq {c}
    BY <1>2, <1>6, <2>1 DEF Readers, Writers
  <2>3. ReadersOf(k)' \subseteq {c} /\ WritersOf(k)' \subseteq {c}
    BY <1>7, <2>2 DEF Entered
  <2>4. {} \in SUBSET (Conns \ {c})
    OBVIOUS
  <2>5. CASE values = <<>>
    <3>1. compass'[k].value = compass[k].value /\ compass'[k].version = compass[k].version
      BY <1>7, <2>5, CompassType, SetValueFacts DEF Entered
    <3>2. Register(k)!Read(c)
      BY <2>1, <2>3, <2>4, <3>1
         DEF Register!Read, Register!OthersOnlyLeave, Register!Others, ReadersOf, WritersOf
    <3>3. QED
      BY <1>1, <1>9, <3>2 DEF Register!Next
  <2>6. CASE values # <<>>
    <3>1. compass'[k].value \in Values /\ compass'[k].version = compass[k].version + 1
      BY <1>7, <2>6, CompassType, SetValueFacts DEF Entered
    <3>2. Register(k)!Write(c)
      BY <2>1, <2>3, <3>1 DEF Register!Write, Register!Others, ReadersOf, WritersOf
    <3>3. QED
      BY <1>1, <1>9, <3>2 DEF Register!Next
  <2>7. QED
    BY <2>5, <2>6
<1>10. QED
  BY <1>8, <1>9


\* Whatever request is served, the register of every key takes a step.
LEMMA ServeRegister ==
    ASSUME IInv, NEW c \in Live, Serve(c), NEW j \in Keys
    PROVE  Register(j)!Next
<1>1. PICK k \in Keys :
        \/ \E d \in DOMAIN Disposition, dying \in SUBSET MayDieDuring(c) :
              \/ \E criteria \in Criteria : Compare_exchange_request(c, k, criteria, d, dying)
              \/ \E v \in Values : Exchange_request(c, k, v, d, dying)
        \/ \E d \in DOMAIN Disposition \cup {"unknown"} : Throws(c, k, d)
        \/ \E w \in WatcherIds : Add_watch_request(c, k, w)
        \/ \E w \in WatcherIds : Remove_watch_notification(c, k, w)
  BY DEF Serve
<1>2. ASSUME NEW d \in DOMAIN Disposition, NEW dying \in SUBSET MayDieDuring(c),
             NEW criteria \in Criteria, Compare_exchange_request(c, k, criteria, d, dying)
      PROVE  Register(j)!Next
  <2>1. ParsesFor(CurrentLock(k), c, d)
    BY <1>2 DEF Compare_exchange_request
  <2>2. CASE Refused(c, k, dying)
    BY <2>2, RefusedRegister
  <2>3. CASE Disposition[d].exclusive <= 0 /\ WithShared(c, k, d, <<>>, dying)
    BY <2>1, <2>3, WithSharedRegister
  <2>4. CASE WithExclusive(c, k, d, <<>>, dying)
    BY <2>1, <2>4, WithExclusiveRegister
  <2>5. ASSUME NEW i \in 1..Len(criteria),
               WithExclusive(c, k, d, <<criteria[i].value_new>>, dying)
        PROVE  Register(j)!Next
    <3> DEFINE S == [value_cmp: Values, value_new: Values]
    <3>1. criteria \in Seq(S)
      BY CriteriaAssumption
    <3>2. criteria[i] \in S
      <4> HIDE DEF S
      <4>1. QED
        BY <3>1
    <3>3. criteria[i].value_new \in Values
      BY <3>2
    <3>4. QED
      BY <2>1, <2>5, <3>3, WithExclusiveRegister
  <2>6. QED
    BY <1>2, <2>2, <2>3, <2>4, <2>5 DEF Compare_exchange_request
<1>3. ASSUME NEW d \in DOMAIN Disposition, NEW dying \in SUBSET MayDieDuring(c),
             NEW v \in Values, Exchange_request(c, k, v, d, dying)
      PROVE  Register(j)!Next
  BY <1>3, RefusedRegister, WithExclusiveRegister DEF Exchange_request
<1>4. QED
  BY <1>1, <1>2, <1>3, ThrowsRegister, WatchRegister

\* A connection that comes is in no lock yet; one that goes leaves the locks.
LEMMA ConnRegister ==
    ASSUME IInv, NEW c \in Conns, Connect(c) \/ Shutdown(c) \/ Expire(c), NEW j \in Keys
    PROVE  Register(j)!Next
<1>1. compass'[j] = compass[j]
  BY DEF Connect, Shutdown, Expire
<1>2. \A x \in Live' : x \in Live \/ conn[x] = "absent"
  BY DEF Connect, Shutdown, Expire, Live, IsLive, IInv, TypeOK
<1>3. \A x \in Conns : conn[x] = "absent" =>
          x \notin Readers(compass[j].lock) /\ x \notin Writers(compass[j].lock)
  BY DEF IInv, StrangersHoldNothing, Readers, Writers
<1>4. Live' \subseteq Conns
  BY DEF Live
<1>5. ReadersOf(j)' \subseteq ReadersOf(j) /\ WritersOf(j)' \subseteq WritersOf(j)
  <2>1. Readers(compass'[j].lock) = Readers(compass[j].lock)
        /\ Writers(compass'[j].lock) = Writers(compass[j].lock)
    BY <1>1
  <2>2. QED
    BY <1>2, <1>3, <1>4, <2>1 DEF ReadersOf, WritersOf
<1>6. QED
  BY <1>1, <1>5, LeaveRegister

\* A compass that is dropped is forgotten, locks and all.
LEMMA GcRegister ==
    ASSUME IInv, gc_timer_proc, NEW j \in Keys
    PROVE  Register(j)!Next
<1>1. compass'[j] = IF Expired(j) THEN NewCompass ELSE compass[j]
  BY DEF gc_timer_proc
<1>2. Live' = Live
  BY DEF gc_timer_proc, Live
<1>3. CASE Expired(j)
  <2>1. Readers(NewCompass.lock) = {} /\ Writers(NewCompass.lock) = {}
    BY DEF NewCompass, FreeLock, NoLocks, Readers, Writers
  <2>2. /\ compass'[j].value = EmptyValue /\ compass'[j].version = 0
        /\ Readers(compass'[j].lock) \cap Live' = {}
        /\ Writers(compass'[j].lock) \cap Live' = {}
    BY <1>1, <1>3, <2>1 DEF NewCompass
  <2>3. QED
    BY <2>2 DEF Register!Next, Register!Forget
<1>4. CASE ~Expired(j)
  BY <1>1, <1>2, <1>4, UntouchedRegister
<1>5. QED
  BY <1>3, <1>4

\* The registers start as those of a repository just loaded.
LEMMA InitRegister ==
    ASSUME Init, NEW j \in Keys
    PROVE  Register(j)!Init
<1>1. IInv
  BY InitIInv
<1>2. compass[j].value \in Values /\ compass[j].version \in Nat
  BY <1>1, CompassType DEF Compasses
<1>3. Live = {}
  BY DEF Init, Live, IsLive
<1>4. QED
  BY <1>2, <1>3 DEF Register!Init

\* To each client the pilot is a register with a readers-writer lock per key:
\* whatever servlets, the collector and connections that die do, in whatever
\* order, a value is written only by a connection alone in the lock, its
\* version counts the writes, and nobody enters beside a writer.
THEOREM PilotIsRegister == Spec => ImplementsRegister
<1> DEFINE Step == \A k \in Keys : Register(k)!Next \/ UNCHANGED Register(k)!vars
           Start == \A k \in Keys : Register(k)!Init
<1>1. Init => Start
  BY InitRegister
<1>2. IInv /\ [Next]_vars => [Step]_vars
  <2> SUFFICES ASSUME IInv, Next, NEW j \in Keys PROVE Register(j)!Next
    OBVIOUS
  <2>1. ASSUME NEW c \in Conns, Connect(c) \/ Shutdown(c) \/ Expire(c) PROVE Register(j)!Next
    BY <2>1, ConnRegister
  <2>2. ASSUME NEW c \in Live, Serve(c) PROVE Register(j)!Next
    BY <2>2, ServeRegister
  <2>3. CASE Tick
    <3>1. compass'[j] = compass[j] /\ Live' \subseteq Live
      BY <2>3 DEF Tick, Live
    <3>2. QED
      BY <3>1, UntouchedRegister
  <2>4. CASE gc_timer_proc
    BY <2>4, GcRegister
  <2>5. QED
    BY <2>1, <2>2, <2>3, <2>4 DEF Next
<1>3. Spec => Start /\ [][Step]_vars
  <2> HIDE DEF Step, Start
  <2>1. QED
    BY <1>1, <1>2, Invariance, PTL DEF Spec
<1>4. QED
  BY <1>3 DEF ImplementsRegister

-------------------------------------------------------------------------------
\* What responses say of a lock

\* A response just sent gives the state of the lock as it is.
Truthful ==
    reply.status \in {"succeeded", "refused"} =>
        /\ reply.key \in Keys
        /\ reply.conn \in Conns
        /\ Readers(compass[reply.key].lock) \subseteq Live
        /\ Writers(compass[reply.key].lock) \subseteq Live
        /\ reply.lock_state = get_compass_lock_state(compass[reply.key].lock, reply.conn)

\* The state of a lock that holds no more than was granted is backed by grants.
LEMMA TruthfulIsBacked ==
    ASSUME IInv, Truthful
    PROVE  LockStateIsBacked
<1> SUFFICES ASSUME reply.status \in {"succeeded", "refused"} PROVE LockStateIsBacked
  BY DEF LockStateIsBacked
<1> DEFINE k == reply.key
           c == reply.conn
           l == compass[k].lock
<1>1. /\ k \in Keys /\ c \in Conns
      /\ Readers(l) \subseteq Live /\ Writers(l) \subseteq Live
      /\ reply.lock_state = get_compass_lock_state(l, c)
  BY DEF Truthful
<1> HIDE DEF k, c
<1>2. l \in Lock
  BY <1>1, CompassType
<1>3. \A x \in Live : l.readers[x] <= granted[k][x].shared /\ l.writers[x] <= granted[k][x].exclusive
  BY <1>1 DEF IInv, HeldIsGranted
<1>4. \A x \in Conns : granted[k][x].shared \in Int /\ granted[k][x].exclusive \in Int
  BY <1>1 DEF IInv, TypeOK, Grants
<1> HIDE DEF l
<1>5. \A x \in Readers(l) : x \in Live /\ granted[k][x].shared > 0
  <2> SUFFICES ASSUME NEW x \in Readers(l) PROVE granted[k][x].shared > 0
    BY <1>1
  <2>1. x \in Conns /\ x \in Live /\ l.readers[x] > 0 /\ l.readers[x] \in Nat
    BY <1>1, <1>2 DEF Readers, Lock
  <2>2. QED
    BY <1>3, <1>4, <2>1
<1>6. \A x \in Writers(l) : x \in Live /\ granted[k][x].exclusive > 0
  <2> SUFFICES ASSUME NEW x \in Writers(l) PROVE granted[k][x].exclusive > 0
    BY <1>1
  <2>1. x \in Conns /\ x \in Live /\ l.writers[x] > 0 /\ l.writers[x] \in Nat
    BY <1>1, <1>2 DEF Writers, Lock
  <2>2. QED
    BY <1>3, <1>4, <2>1
<1> DEFINE s == reply.lock_state
<1>7. \/ s = "exclusive_by_me" /\ c \in Writers(l)
      \/ s = "exclusive_by_others" /\ Writers(l) # {} /\ c \notin Writers(l)
      \/ s = "shared_by_me" /\ c \in Readers(l)
      \/ s = "shared_by_others" /\ Readers(l) # {} /\ c \notin Readers(l)
      \/ s = "free_for_acquisition" /\ Readers(l) = {} /\ Writers(l) = {}
  BY <1>1 DEF get_compass_lock_state, is_locked_exclusive_by, is_locked_exclusive,
              is_locked_shared_by, is_locked_shared
<1>8. /\ s = "exclusive_by_me" => granted[k][c].exclusive > 0
      /\ s = "shared_by_me" => granted[k][c].shared > 0
      /\ s = "exclusive_by_others" => \E x \in Live \ {c} : granted[k][x].exclusive > 0
      /\ s = "shared_by_others" => \E x \in Live \ {c} : granted[k][x].shared > 0
      /\ s = "free_for_acquisition" => (Readers(l) \cup Writers(l)) \cap Live = {}
  BY <1>5, <1>6, <1>7
<1>9. QED
  BY <1>7, <1>8 DEF LockStateIsBacked, k, c, l

\* A request that is refused or succeeds is told the lock that it leaves.
LEMMA ServedTruth ==
    ASSUME IInv, NEW c \in Live, NEW k \in Keys, NEW dying \in SUBSET MayDieDuring(c),
           NEW cx \in Compasses, NEW l \in Lock, NEW status,
           compass' = [compass EXCEPT ![k] = update_last_access_time(
               [cx EXCEPT !.lock = collect_expired_connections(l, LiveAfter(dying))])],
           conn' = ConnAfter(dying, {}),
           reply' = [status |-> status, conn |-> c, key |-> k,
                     lock_state |-> get_compass_lock_state(
                         collect_expired_connections(l, LiveAfter(dying)), c)]
    PROVE  Truthful'
<1> DEFINE kept == collect_expired_connections(l, LiveAfter(dying))
<1>1. Live' = LiveAfter(dying)
  BY ConnAfterFacts
<1>2. Readers(kept) \subseteq Live' /\ Writers(kept) \subseteq Live'
  BY <1>1, CollectMembers
<1>3. compass' = [compass EXCEPT ![k] = update_last_access_time([cx EXCEPT !.lock = kept])]
      /\ reply' = [status |-> status, conn |-> c, key |-> k,
                   lock_state |-> get_compass_lock_state(kept, c)]
  OBVIOUS
<1> HIDE DEF kept
<1>4. compass'[k].lock = kept
  <2>1. compass'[k] = update_last_access_time([cx EXCEPT !.lock = kept])
    BY <1>3 DEF IInv, TypeOK
  <2>2. update_last_access_time([cx EXCEPT !.lock = kept]).lock = kept
    BY ValueFacts
  <2>3. QED
    BY <2>1, <2>2
<1>5. c \in Conns
  BY DEF Live
<1>6. QED
  BY <1>2, <1>3, <1>4, <1>5 DEF Truthful

\* A request that is refused.
LEMMA RefusedTruth ==
    ASSUME IInv, NEW c \in Live, NEW k \in Keys, NEW dying \in SUBSET MayDieDuring(c),
           Refused(c, k, dying)
    PROVE  Truthful'
<1>1. compass[k] \in Compasses /\ CurrentLock(k) \in Lock
  BY CompassType, CurrentLockFacts
<1>2. QED
  BY <1>1, ServedTruth DEF Refused, open_compass

\* One that has its lock.
LEMMA PerformedTruth ==
    ASSUME IInv, NEW c \in Live, NEW k \in Keys, NEW d, NEW dying \in SUBSET MayDieDuring(c),
           NEW values \in {<<>>} \cup {<<v>> : v \in Values},
           NEW shared \in Int, NEW exclusive \in Int, NEW held \in Lock,
           Performed(c, k, d, held, values, shared, exclusive, dying)
    PROVE  Truthful'
<1>1. CASE Committable(held, c, shared, exclusive)
  <2> DEFINE done == commit_lock_disposition(held, c, shared, exclusive)
             cx == set_value(compass[k], values)
  <2>1. c \in Conns
    BY DEF Live
  <2>2. done \in Lock
    BY <1>1, <2>1, AddType DEF commit_lock_disposition, Committable
  <2>3. cx \in Compasses
    BY CompassType, SetValueType
  <2>4. /\ compass' = [compass EXCEPT ![k] = update_last_access_time(
               [cx EXCEPT !.lock = collect_expired_connections(done, LiveAfter(dying))])]
        /\ conn' = ConnAfter(dying, {})
        /\ reply' = [status |-> "succeeded", conn |-> c, key |-> k,
                     lock_state |-> get_compass_lock_state(
                         collect_expired_connections(done, LiveAfter(dying)), c)]
    BY <1>1 DEF Performed, open_compass
  <2> HIDE DEF done, cx
  <2>5. QED
    BY <2>2, <2>3, <2>4, ServedTruth
<1>2. CASE ~Committable(held, c, shared, exclusive)
  <2>1. reply'.status = "partial"
    BY <1>2 DEF Performed
  <2>2. QED
    BY <2>1 DEF Truthful
<1>3. QED
  BY <1>1, <1>2

\* One that is served with either lock.
LEMMA WithLockTruth ==
    ASSUME IInv, NEW c \in Live, NEW k \in Keys, NEW d \in DOMAIN Disposition,
           NEW dying \in SUBSET MayDieDuring(c),
           NEW values \in {<<>>} \cup {<<v>> : v \in Values},
           WithShared(c, k, d, values, dying) \/ WithExclusive(c, k, d, values, dying)
    PROVE  Truthful'
<1> DEFINE l == CurrentLock(k)
<1>1. l \in Lock /\ c \in Conns
  BY CurrentLockFacts DEF Live
<1>2. Disposition[d].shared \in Int /\ Disposition[d].exclusive \in Int
  BY DispositionType
<1> DEFINE n == Disposition[d].shared
           m == Disposition[d].exclusive
<1>3. \/ Performed(c, k, d, LockShared(l, c), values, n - 1, m, dying)
      \/ Performed(c, k, d, LockExclusive(l, c), values, n, m - 1, dying)
  BY DEF WithShared, WithExclusive
<1> HIDE DEF l
<1>4. LockShared(l, c) \in Lock /\ LockExclusive(l, c) \in Lock
  BY <1>1 DEF LockShared, LockExclusive, AddEntries, Lock
<1>5. n - 1 \in Int /\ m - 1 \in Int /\ n \in Int /\ m \in Int
  BY <1>2
<1> HIDE DEF n, m
<1>6. QED
  BY <1>3, <1>4, <1>5, PerformedTruth

\* Whatever is served, the response is truthful, or there is none.
LEMMA ServeTruth ==
    ASSUME IInv, NEW c \in Live, Serve(c)
    PROVE  Truthful'
<1>1. PICK k \in Keys :
        \/ \E d \in DOMAIN Disposition, dying \in SUBSET MayDieDuring(c) :
              \/ \E criteria \in Criteria : Compare_exchange_request(c, k, criteria, d, dying)
              \/ \E v \in Values : Exchange_request(c, k, v, d, dying)
        \/ \E d \in DOMAIN Disposition \cup {"unknown"} : Throws(c, k, d)
        \/ \E w \in WatcherIds : Add_watch_request(c, k, w)
        \/ \E w \in WatcherIds : Remove_watch_notification(c, k, w)
  BY DEF Serve
<1>2. ASSUME NEW d \in DOMAIN Disposition, NEW dying \in SUBSET MayDieDuring(c),
             NEW criteria \in Criteria, Compare_exchange_request(c, k, criteria, d, dying)
      PROVE  Truthful'
  <2>1. CASE Refused(c, k, dying)
    BY <2>1, RefusedTruth
  <2>2. CASE WithShared(c, k, d, <<>>, dying) \/ WithExclusive(c, k, d, <<>>, dying)
    BY <2>2, WithLockTruth
  <2>3. ASSUME NEW i \in 1..Len(criteria),
               WithExclusive(c, k, d, <<criteria[i].value_new>>, dying)
        PROVE  Truthful'
    <3> DEFINE S == [value_cmp: Values, value_new: Values]
    <3>1. criteria \in Seq(S)
      BY CriteriaAssumption
    <3>2. criteria[i] \in S
      <4> HIDE DEF S
      <4>1. QED
        BY <3>1
    <3>3. criteria[i].value_new \in Values
      BY <3>2
    <3>4. QED
      BY <2>3, <3>3, WithLockTruth
  <2>4. QED
    BY <1>2, <2>1, <2>2, <2>3 DEF Compare_exchange_request
<1>3. ASSUME NEW d \in DOMAIN Disposition, NEW dying \in SUBSET MayDieDuring(c),
             NEW v \in Values, Exchange_request(c, k, v, d, dying)
      PROVE  Truthful'
  BY <1>3, RefusedTruth, WithLockTruth DEF Exchange_request
<1>4. reply' = NoReply => Truthful'
  BY DEF NoReply, Truthful
<1>5. QED
  BY <1>1, <1>2, <1>3, <1>4 DEF Throws, Add_watch_request, Remove_watch_notification

\* What a response says of a lock is backed by what the connections have been
\* granted, however many there are: nobody is told that a lock is theirs or
\* somebody's when it is not, or that it is free when it is held.
THEOREM LockStatesAreBacked == Spec => []LockStateIsBacked
<1>1. Init => Truthful
  BY DEF Init, NoReply, Truthful
<1>2. IInv /\ Truthful /\ [Next]_vars => Truthful'
  <2> SUFFICES ASSUME IInv, Truthful, [Next]_vars PROVE Truthful'
    OBVIOUS
  <2>1. CASE \E c \in Live : Serve(c)
    BY <2>1, ServeTruth
  <2>2. CASE reply' = NoReply
    BY <2>2 DEF NoReply, Truthful
  <2>3. CASE UNCHANGED vars
    BY <2>3 DEF vars, Truthful, Live
  <2>4. QED
    BY <2>1, <2>2, <2>3 DEF Next, Connect, Shutdown, Expire, Tick, gc_timer_proc
<1>3. IInv /\ Truthful => LockStateIsBacked
  BY TruthfulIsBacked
<1>4. QED
  BY <1>1, <1>2, <1>3, Invariance, PTL DEF Spec

-------------------------------------------------------------------------------
\* What watchers have been told

\* A watcher has a UUID that was issued, which no other watcher has, and a
\* connection that has been accepted; it has been told the current value.
WatchInv ==
    /\ \A k \in Keys : \A w \in compass[k].watchers :
          w.id \in issued /\ w.conn \in Conns /\ conn[w.conn] # "absent"
    /\ \A j, k \in Keys : \A x \in compass[j].watchers, y \in compass[k].watchers :
          x.id = y.id => j = k /\ x = y
    /\ WatchersAreCurrent

\* Watchers leave, a value is forgotten with its watchers, or connections shut down.
WatchersOnlyLeave ==
    /\ \A k \in Keys : /\ compass'[k].watchers \subseteq compass[k].watchers
                       /\ compass'[k].value = compass[k].value \/ compass'[k].watchers = {}
    /\ \A w \in issued : w \in issued'
    /\ view' = view
    /\ \A x \in Conns : /\ conn'[x] = "absent" => conn[x] = "absent"
                        /\ conn'[x] = "open" => conn[x] \in {"open", "absent"}

\* That preserves it.
LEMMA WatchersLeave ==
    ASSUME WatchInv, WatchersOnlyLeave
    PROVE  WatchInv'
<1>1. \A k \in Keys : \A w \in compass'[k].watchers :
          /\ w \in compass[k].watchers /\ compass'[k].value = compass[k].value
          /\ w.id \in issued' /\ w.conn \in Conns /\ conn'[w.conn] # "absent"
          /\ conn'[w.conn] = "open" => conn[w.conn] = "open"
  BY DEF WatchInv, WatchersOnlyLeave
<1>2. \A j, k \in Keys : \A x \in compass'[j].watchers, y \in compass'[k].watchers :
          x.id = y.id => j = k /\ x = y
  BY <1>1 DEF WatchInv
<1>3. WatchersAreCurrent'
  BY <1>1 DEF WatchInv, WatchersOnlyLeave, WatchersAreCurrent, Open
<1>4. QED
  BY <1>1, <1>2, <1>3 DEF WatchInv

\* Storing a compass of k with the watchers that it had, or fewer.
LEMMA SameValueWatch ==
    ASSUME IInv, WatchInv, NEW c \in Live, NEW k \in Keys, NEW cx,
           NEW dying \in SUBSET MayDieDuring(c), NEW failed \in SUBSET {c},
           open_compass(k, cx), conn' = ConnAfter(dying, failed),
           cx.value = compass[k].value, cx.watchers \subseteq compass[k].watchers,
           issued' = issued, view' = view
    PROVE  WatchInv'
<1>1. compass'[k] = cx /\ \A j \in Keys \ {k} : compass'[j] = compass[j]
  BY OpenFacts
<1>2. \A x \in Conns : /\ conn'[x] = "absent" => conn[x] = "absent"
                       /\ conn'[x] = "open" => conn[x] \in {"open", "absent"}
  BY DEF ConnAfter
<1>3. \A j \in Keys : /\ compass'[j].watchers \subseteq compass[j].watchers
                      /\ compass'[j].value = compass[j].value \/ compass'[j].watchers = {}
  BY <1>1
<1>4. \A w \in issued : w \in issued'
  OBVIOUS
<1>5. WatchersOnlyLeave
  BY <1>2, <1>3, <1>4 DEF WatchersOnlyLeave
<1>6. QED
  BY <1>5, WatchersLeave

\* Neither the lock nor the time of an access is about watchers.
LEMMA WatcherFacts ==
    ASSUME NEW cx \in Compasses, NEW l
    PROVE  /\ update_last_access_time([cx EXCEPT !.lock = l]).watchers = cx.watchers
           /\ update_last_access_time([cx EXCEPT !.lock = l]).value = cx.value
           /\ [cx EXCEPT !.lock = l].watchers = cx.watchers
           /\ [cx EXCEPT !.lock = l].value = cx.value
BY DEF Compasses, update_last_access_time

\* A value is written and its watchers are notified.
LEMMA WriteWatch ==
    ASSUME IInv, WatchInv, NEW c \in Live, NEW k \in Keys, NEW cx, NEW v \in Values,
           NEW dying \in SUBSET MayDieDuring(c), NEW failed \in SUBSET {c},
           open_compass(k, cx), conn' = ConnAfter(dying, failed),
           cx.value = v, cx.watchers = compass[k].watchers,
           issued' = issued, view' = ReportedView(k, dying, v)
    PROVE  WatchInv'
<1>1. compass'[k] = cx /\ \A j \in Keys \ {k} : compass'[j] = compass[j]
  BY OpenFacts
<1>2. \A x \in Conns : /\ conn'[x] = "absent" => conn[x] = "absent"
                       /\ conn'[x] = "open" => conn[x] = "open" /\ x \notin dying
  BY DEF ConnAfter
<1>3. \A j \in Keys : compass'[j].watchers = compass[j].watchers
  BY <1>1
<1>4. /\ \A j \in Keys : \A w \in compass'[j].watchers :
            w.id \in issued' /\ w.conn \in Conns /\ conn'[w.conn] # "absent"
      /\ \A i, j \in Keys : \A x \in compass'[i].watchers, y \in compass'[j].watchers :
            x.id = y.id => i = j /\ x = y
  <2>1. ASSUME NEW j \in Keys, NEW w \in compass'[j].watchers
        PROVE  w.id \in issued' /\ w.conn \in Conns /\ conn'[w.conn] # "absent"
    <3>1. w.id \in issued /\ w.conn \in Conns /\ conn[w.conn] # "absent"
      BY <1>3 DEF WatchInv
    <3>2. conn'[w.conn] # "absent"
      BY <1>2, <3>1
    <3>3. QED
      BY <3>1, <3>2
  <2>2. \A i, j \in Keys : \A x \in compass'[i].watchers, y \in compass'[j].watchers :
            x.id = y.id => i = j /\ x = y
    BY <1>3 DEF WatchInv
  <2>3. QED
    BY <2>1, <2>2
<1>5. ASSUME NEW j \in Keys, NEW w \in compass[j].watchers, w.conn \in Open'
      PROVE  view'[w.id] = compass'[j].value
  <2>1. w.conn \in Open \ dying /\ w.id \in WatcherIds
    <3>1. w.conn \in Conns /\ conn'[w.conn] = "open"
      BY <1>5 DEF Open
    <3>2. compass[j].watchers \subseteq Watchers
      BY CompassType DEF Compasses
    <3>3. QED
      BY <1>2, <3>1, <3>2 DEF Open, Watchers
  <2>2. view'[w.id] = IF \E x \in Notified(k, dying) : x.id = w.id THEN v ELSE view[w.id]
    BY <2>1 DEF ReportedView
  <2>3. CASE j = k
    <3>1. w \in Notified(k, dying)
      BY <2>1, <2>3 DEF Notified
    <3>2. QED
      BY <1>1, <2>2, <2>3, <3>1
  <2>4. CASE j # k
    <3>1. ~\E x \in Notified(k, dying) : x.id = w.id
      BY <2>4 DEF Notified, WatchInv
    <3>2. view[w.id] = compass[j].value
      BY <2>1 DEF WatchInv, WatchersAreCurrent
    <3>3. QED
      BY <1>1, <2>2, <2>4, <3>1, <3>2
  <2>5. QED
    BY <2>3, <2>4
<1>6. WatchersAreCurrent'
  BY <1>3, <1>5 DEF WatchersAreCurrent
<1>7. QED
  BY <1>4, <1>6 DEF WatchInv

\* A request that has its lock, whether it writes or not.
LEMMA PerformedWatch ==
    ASSUME IInv, WatchInv, NEW c \in Live, NEW k \in Keys, NEW d,
           NEW dying \in SUBSET MayDieDuring(c),
           NEW values \in {<<>>} \cup {<<v>> : v \in Values},
           NEW shared, NEW exclusive, NEW held,
           Performed(c, k, d, held, values, shared, exclusive, dying)
    PROVE  WatchInv'
<1> DEFINE cx == set_value(compass[k], values)
           kept == collect_expired_connections(
                       commit_lock_disposition(held, c, shared, exclusive), LiveAfter(dying))
<1>1. PICK failed \in SUBSET {c},
           cz \in {update_last_access_time([cx EXCEPT !.lock = kept]), [cx EXCEPT !.lock = held]} :
        open_compass(k, cz) /\ conn' = ConnAfter(dying, failed)
  <2>1. {c} \in SUBSET {c} /\ {} \in SUBSET {c}
    OBVIOUS
  <2>2. QED
    BY <2>1 DEF Performed
<1>2. issued' = issued /\ view' = IF values = <<>> THEN view ELSE ReportedView(k, dying, values[1])
  BY DEF Performed
<1>3. compass[k] \in Compasses /\ cx \in Compasses
  BY CompassType, SetValueType
<1>4. cx.watchers = compass[k].watchers
  BY <1>3 DEF set_value, Compasses
<1> HIDE DEF cx, kept
<1>5. cz.watchers = compass[k].watchers /\ cz.value = cx.value
  <2>1. CASE cz = update_last_access_time([cx EXCEPT !.lock = kept])
    BY <1>3, <1>4, <2>1, WatcherFacts
  <2>2. CASE cz = [cx EXCEPT !.lock = held]
    BY <1>3, <1>4, <2>2 DEF Compasses
  <2>3. QED
    BY <1>1, <2>1, <2>2
<1>6. CASE values = <<>>
  <2>1. cz.value = compass[k].value /\ view' = view
    BY <1>2, <1>5, <1>6 DEF cx, set_value
  <2>2. QED
    BY <1>1, <1>2, <1>5, <2>1, SameValueWatch
<1>7. CASE values # <<>>
  <2>1. PICK v \in Values : values = <<v>>
    BY <1>7
  <2>2. cz.value = v /\ view' = ReportedView(k, dying, v)
    BY <1>2, <1>3, <1>5, <1>7, <2>1 DEF cx, set_value, Compasses
  <2>3. QED
    BY <1>1, <1>2, <1>5, <2>2, WriteWatch
<1>8. QED
  BY <1>6, <1>7

\* A request that is refused or fails.
LEMMA RefusedWatch ==
    ASSUME IInv, WatchInv, NEW c \in Live, NEW k \in Keys
    PROVE  /\ \A dying \in SUBSET MayDieDuring(c) : Refused(c, k, dying) => WatchInv'
           /\ \A d : Throws(c, k, d) => WatchInv'
<1>1. compass[k] \in Compasses
  BY CompassType
<1>2. {} \in SUBSET {c} /\ {c} \in SUBSET {c} /\ {} \in SUBSET MayDieDuring(c)
  OBVIOUS
<1>3. ASSUME NEW dying \in SUBSET MayDieDuring(c), Refused(c, k, dying) PROVE WatchInv'
  <2> DEFINE l == collect_expired_connections(CurrentLock(k), LiveAfter(dying))
             cx == update_last_access_time([compass[k] EXCEPT !.lock = l])
  <2>1. open_compass(k, cx) /\ conn' = ConnAfter(dying, {}) /\ issued' = issued /\ view' = view
    BY <1>3 DEF Refused
  <2> HIDE DEF l
  <2>2. cx.value = compass[k].value /\ cx.watchers = compass[k].watchers
    BY <1>1, WatcherFacts
  <2> HIDE DEF cx
  <2>3. QED
    BY <1>2, <2>1, <2>2, SameValueWatch
<1>4. ASSUME NEW d, Throws(c, k, d) PROVE WatchInv'
  <2> DEFINE cx == [compass[k] EXCEPT !.lock = CurrentLock(k)]
  <2>1. open_compass(k, cx) /\ conn' = ConnAfter({}, {c}) /\ issued' = issued /\ view' = view
    BY <1>4 DEF Throws
  <2>2. cx.value = compass[k].value /\ cx.watchers = compass[k].watchers
    BY <1>1, WatcherFacts
  <2> HIDE DEF cx
  <2>3. QED
    BY <1>2, <2>1, <2>2, SameValueWatch
<1>5. QED
  BY <1>3, <1>4

\* A request about watchers.
LEMMA WatcherWatch ==
    ASSUME IInv, WatchInv, NEW c \in Live, NEW k \in Keys, NEW w \in WatcherIds,
           Add_watch_request(c, k, w) \/ Remove_watch_notification(c, k, w)
    PROVE  WatchInv'
<1>1. compass[k] \in Compasses /\ c \in Conns /\ conn[c] # "absent"
  BY CompassType DEF Live, IsLive
<1>2. CASE Remove_watch_notification(c, k, w)
  <2> DEFINE cx == [compass[k] EXCEPT !.watchers = {x \in @ : x.id # w}]
  <2>1. open_compass(k, cx) /\ conn' = conn /\ issued' = issued /\ view' = view
    BY <1>2 DEF Remove_watch_notification
  <2>2. cx.value = compass[k].value /\ cx.watchers \subseteq compass[k].watchers
    BY <1>1 DEF Compasses
  <2> HIDE DEF cx
  <2>3. {} \in SUBSET {c} /\ {} \in SUBSET MayDieDuring(c) /\ conn' = ConnAfter({}, {})
    BY <2>1, SameConns
  <2>4. QED
    BY <2>1, <2>2, <2>3, SameValueWatch
<1>3. CASE Add_watch_request(c, k, w)
  <2> DEFINE new == [id |-> w, conn |-> c]
             cx == [compass[k] EXCEPT !.watchers = {x \in @ : x.conn \in Live} \cup {new}]
  <2>1. /\ w \notin issued /\ open_compass(k, cx) /\ conn' = conn
        /\ issued' = issued \cup {w} /\ view' = [view EXCEPT ![w] = compass[k].value]
    BY <1>3 DEF Add_watch_request
  <2>2. cx.value = compass[k].value /\ cx.watchers \subseteq compass[k].watchers \cup {new}
    BY <1>1 DEF Compasses
  <2>3. new.id = w /\ new.conn = c
    OBVIOUS
  <2> HIDE DEF cx, new
  <2>4. compass'[k] = cx /\ \A j \in Keys \ {k} : compass'[j] = compass[j]
    BY <2>1, OpenFacts
  <2>5. \A j \in Keys : /\ compass'[j].value = compass[j].value
                        /\ \A x \in compass'[j].watchers :
                              x \in compass[j].watchers \/ (j = k /\ x = new)
    BY <2>2, <2>4
  <2>6. \A j \in Keys : \A x \in compass[j].watchers : x.id # w /\ x.id \in issued
    BY <2>1 DEF WatchInv
  <2>7. \A j \in Keys : \A x \in compass'[j].watchers :
           x.id \in issued' /\ x.conn \in Conns /\ conn'[x.conn] # "absent"
    BY <1>1, <2>1, <2>3, <2>5 DEF WatchInv
  <2>8. \A i, j \in Keys : \A x \in compass'[i].watchers, y \in compass'[j].watchers :
           x.id = y.id => i = j /\ x = y
    <3> SUFFICES ASSUME NEW i \in Keys, NEW j \in Keys, NEW x \in compass'[i].watchers,
                        NEW y \in compass'[j].watchers, x.id = y.id
                 PROVE  i = j /\ x = y
      OBVIOUS
    <3>1. \/ x \in compass[i].watchers /\ x.id # w
          \/ i = k /\ x = new /\ x.id = w
      BY <2>3, <2>5, <2>6
    <3>2. \/ y \in compass[j].watchers /\ y.id # w
          \/ j = k /\ y = new /\ y.id = w
      BY <2>3, <2>5, <2>6
    <3>3. QED
      BY <3>1, <3>2 DEF WatchInv
  <2>9. WatchersAreCurrent'
    <3> SUFFICES ASSUME NEW j \in Keys, NEW x \in compass'[j].watchers, x.conn \in Open'
                 PROVE  view'[x.id] = compass'[j].value
      BY DEF WatchersAreCurrent
    <3>1. view \in [WatcherIds -> Values]
      BY DEF IInv, TypeOK
    <3>2. CASE x \in compass[j].watchers
      <4>1. x.id # w /\ x.conn \in Open
        BY <2>1, <2>6, <3>2 DEF Open
      <4>2. view'[x.id] = view[x.id]
        BY <2>1, <3>1, <4>1
      <4>3. QED
        BY <2>5, <3>2, <4>1, <4>2 DEF WatchInv, WatchersAreCurrent
    <3>3. CASE j = k /\ x = new
      BY <2>1, <2>3, <2>5, <3>1, <3>3
    <3>4. QED
      BY <2>5, <3>2, <3>3
  <2>10. QED
    BY <2>7, <2>8, <2>9 DEF WatchInv
<1>4. QED
  BY <1>2, <1>3

\* Any request.
LEMMA ServeWatch ==
    ASSUME IInv, WatchInv, NEW c \in Live, Serve(c)
    PROVE  WatchInv'
<1>1. PICK k \in Keys :
        \/ \E d \in DOMAIN Disposition, dying \in SUBSET MayDieDuring(c) :
              \/ \E criteria \in Criteria : Compare_exchange_request(c, k, criteria, d, dying)
              \/ \E v \in Values : Exchange_request(c, k, v, d, dying)
        \/ \E d \in DOMAIN Disposition \cup {"unknown"} : Throws(c, k, d)
        \/ \E w \in WatcherIds : Add_watch_request(c, k, w)
        \/ \E w \in WatcherIds : Remove_watch_notification(c, k, w)
  BY DEF Serve
<1>2. ASSUME NEW d \in DOMAIN Disposition, NEW dying \in SUBSET MayDieDuring(c),
             NEW values \in {<<>>} \cup {<<v>> : v \in Values},
             WithShared(c, k, d, values, dying) \/ WithExclusive(c, k, d, values, dying)
      PROVE  WatchInv'
  BY <1>2, PerformedWatch DEF WithShared, WithExclusive
<1>3. ASSUME NEW d \in DOMAIN Disposition, NEW dying \in SUBSET MayDieDuring(c),
             NEW criteria \in Criteria, Compare_exchange_request(c, k, criteria, d, dying)
      PROVE  WatchInv'
  <2>1. CASE Refused(c, k, dying)
    BY <2>1, RefusedWatch
  <2>2. CASE WithShared(c, k, d, <<>>, dying) \/ WithExclusive(c, k, d, <<>>, dying)
    BY <2>2, <1>2
  <2>3. ASSUME NEW i \in 1..Len(criteria),
               WithExclusive(c, k, d, <<criteria[i].value_new>>, dying)
        PROVE  WatchInv'
    <3> DEFINE S == [value_cmp: Values, value_new: Values]
    <3>1. criteria \in Seq(S)
      BY CriteriaAssumption
    <3>2. criteria[i] \in S
      <4> HIDE DEF S
      <4>1. QED
        BY <3>1
    <3>3. criteria[i].value_new \in Values
      BY <3>2
    <3>4. QED
      BY <1>2, <2>3, <3>3
  <2>4. QED
    BY <1>3, <2>1, <2>2, <2>3 DEF Compare_exchange_request
<1>4. ASSUME NEW d \in DOMAIN Disposition, NEW dying \in SUBSET MayDieDuring(c),
             NEW v \in Values, Exchange_request(c, k, v, d, dying)
      PROVE  WatchInv'
  <2>1. CASE Refused(c, k, dying)
    BY <2>1, RefusedWatch
  <2>2. CASE WithExclusive(c, k, d, <<v>>, dying)
    BY <2>2, <1>2
  <2>3. QED
    BY <1>4, <2>1, <2>2 DEF Exchange_request
<1>5. QED
  BY <1>1, <1>3, <1>4, RefusedWatch, WatcherWatch

\* A watcher that the pilot keeps for a connection not shut down has been told
\* the current value, whichever writes, other watches, removals and drops of
\* compasses came between.
THEOREM WatchersAreTold == Spec => []WatchersAreCurrent
<1>1. Init => WatchInv
  <2> SUFFICES ASSUME Init PROVE WatchInv
    OBVIOUS
  <2>1. \A k \in Keys : compass[k].watchers = {}
    BY DEF Init, InitialCompasses, NewCompass, LoadedCompass
  <2>2. QED
    BY <2>1 DEF WatchInv, WatchersAreCurrent
<1>2. IInv /\ WatchInv /\ [Next]_vars => WatchInv'
  <2> SUFFICES ASSUME IInv, WatchInv, [Next]_vars PROVE WatchInv'
    OBVIOUS
  <2>1. CASE \E c \in Live : Serve(c)
    BY <2>1, ServeWatch
  <2>2. CASE \E c \in Conns : Connect(c) \/ Shutdown(c) \/ Expire(c)
    <3>1. /\ \A k \in Keys : /\ compass'[k].watchers \subseteq compass[k].watchers
                             /\ compass'[k].value = compass[k].value \/ compass'[k].watchers = {}
          /\ \A w \in issued : w \in issued'
          /\ view' = view
      BY <2>2 DEF Connect, Shutdown, Expire
    <3>2. \A x \in Conns : /\ conn'[x] = "absent" => conn[x] = "absent"
                           /\ conn'[x] = "open" => conn[x] \in {"open", "absent"}
      BY <2>2 DEF Connect, Shutdown, Expire, IInv, TypeOK
    <3>3. WatchersOnlyLeave
      BY <3>1, <3>2 DEF WatchersOnlyLeave
    <3>4. QED
      BY <3>3, WatchersLeave
  <2>3. CASE gc_timer_proc
    <3>1. /\ \A w \in issued : w \in issued'
          /\ view' = view
          /\ \A x \in Conns : /\ conn'[x] = "absent" => conn[x] = "absent"
                              /\ conn'[x] = "open" => conn[x] \in {"open", "absent"}
      BY <2>3 DEF gc_timer_proc
    <3>2. \A k \in Keys : /\ compass'[k].watchers \subseteq compass[k].watchers
                          /\ compass'[k].value = compass[k].value \/ compass'[k].watchers = {}
      BY <2>3 DEF gc_timer_proc, NewCompass
    <3>3. WatchersOnlyLeave
      BY <3>1, <3>2 DEF WatchersOnlyLeave
    <3>4. QED
      BY <3>3, WatchersLeave
  <2>4. CASE Tick \/ UNCHANGED vars
    BY <2>4 DEF Tick, vars, WatchInv, WatchersAreCurrent, Open
  <2>5. QED
    BY <2>1, <2>2, <2>3, <2>4 DEF Next
<1>3. WatchInv => WatchersAreCurrent
  BY DEF WatchInv
<1>4. QED
  BY <1>1, <1>2, <1>3, Invariance, PTL DEF Spec

-------------------------------------------------------------------------------
\* How locks are lost

\* The index of an element is the access time of its compass.
IndexInv == \A k \in Keys : compass[k].index = compass[k].last_access_time

\* A connection that stays as it is, and is granted nothing and releases
\* nothing, keeps its entries in the lock of k.
KeepsEntries(k, x) ==
    granted'[k][x] = granted[k][x] /\ conn'[x] = conn[x] =>
        /\ compass'[k].lock.readers[x] >= compass[k].lock.readers[x]
        /\ compass'[k].lock.writers[x] >= compass[k].lock.writers[x]

\* Servlets keep the entries and the index of every compass.
Keeps == IndexInv' /\ \A j \in Keys, x \in Live : KeepsEntries(j, x)

\* What holds of the one compass that a servlet stores holds of all.
LEMMA StoredKeeps ==
    ASSUME IInv, IndexInv, NEW k \in Keys, NEW cx, open_compass(k, cx),
           cx.index = cx.last_access_time,
           \A x \in Live : granted'[k][x] = granted[k][x] /\ conn'[x] = conn[x] =>
               /\ cx.lock.readers[x] >= compass[k].lock.readers[x]
               /\ cx.lock.writers[x] >= compass[k].lock.writers[x]
    PROVE  Keeps
<1>1. compass'[k] = cx /\ \A j \in Keys \ {k} : compass'[j] = compass[j]
  BY OpenFacts
<1>2. IndexInv'
  BY <1>1 DEF IndexInv
<1>3. ASSUME NEW j \in Keys, NEW x \in Live PROVE KeepsEntries(j, x)
  <2>1. CASE j = k
    BY <1>1, <2>1 DEF KeepsEntries
  <2>2. CASE j # k
    <3>1. compass[j].lock.readers[x] \in Nat /\ compass[j].lock.writers[x] \in Nat
      BY CompassType DEF Lock, Live
    <3>2. QED
      BY <1>1, <2>2, <3>1 DEF KeepsEntries
  <2>3. QED
    BY <2>1, <2>2
<1>4. QED
  BY <1>2, <1>3 DEF Keeps

\* Noting an access keeps index and access time together.
LEMMA IndexFacts ==
    ASSUME NEW cx \in Compasses, cx.index = cx.last_access_time, NEW l, now \in Nat
    PROVE  /\ update_last_access_time([cx EXCEPT !.lock = l]).index
              = update_last_access_time([cx EXCEPT !.lock = l]).last_access_time
           /\ [cx EXCEPT !.lock = l].index = [cx EXCEPT !.lock = l].last_access_time
BY DEF Compasses, update_last_access_time

\* Collecting takes nothing from those who live.
LEMMA CollectKeeps ==
    ASSUME NEW l \in Lock, NEW live
    PROVE  \A x \in live \cap Conns :
              /\ collect_expired_connections(l, live).readers[x] = l.readers[x]
              /\ collect_expired_connections(l, live).writers[x] = l.writers[x]
BY DEF collect_expired_connections, Lock

\* Who is as alive as before is among those who live.
LEMMA StillLive ==
    ASSUME IInv, NEW c \in Live, NEW dying \in SUBSET MayDieDuring(c),
           NEW failed \in SUBSET {c}, conn' = ConnAfter(dying, failed)
    PROVE  \A x \in Live : conn'[x] = conn[x] => x \in LiveAfter(dying) \cap Conns
<1>1. Live' = LiveAfter(dying) /\ Live \subseteq Conns
  BY ConnAfterFacts DEF Live
<1>2. \A x \in Live : conn'[x] = conn[x] => x \in Live'
  BY <1>1 DEF Live
<1>3. QED
  BY <1>1, <1>2

\* A request that is refused.
LEMMA RefusedKeeps ==
    ASSUME IInv, IndexInv, NEW c \in Live, NEW k \in Keys,
           NEW dying \in SUBSET MayDieDuring(c), Refused(c, k, dying)
    PROVE  Keeps
<1> DEFINE l == collect_expired_connections(CurrentLock(k), LiveAfter(dying))
           cx == update_last_access_time([compass[k] EXCEPT !.lock = l])
<1>1. open_compass(k, cx) /\ conn' = ConnAfter(dying, {}) /\ {} \in SUBSET {c}
  BY DEF Refused
<1>2. CurrentLock(k) \in Lock
      /\ \A x \in Live : /\ CurrentLock(k).readers[x] = compass[k].lock.readers[x]
                         /\ CurrentLock(k).writers[x] = compass[k].lock.writers[x]
  BY CurrentLockFacts
<1>3. \A x \in LiveAfter(dying) \cap Conns :
         /\ l.readers[x] = CurrentLock(k).readers[x]
         /\ l.writers[x] = CurrentLock(k).writers[x]
  BY <1>2, CollectKeeps
<1>4. \A x \in Live : conn'[x] = conn[x] => x \in LiveAfter(dying) \cap Conns
  BY <1>1, StillLive
<1>5. \A x \in Conns : compass[k].lock.readers[x] \in Nat /\ compass[k].lock.writers[x] \in Nat
  BY CompassType DEF Lock
<1> HIDE DEF l
<1>6. cx.lock = l /\ cx.index = cx.last_access_time
  <2>1. compass[k] \in Compasses /\ compass[k].index = compass[k].last_access_time /\ now \in Nat
    BY CompassType DEF IndexInv
  <2>2. cx.lock = l
    BY <2>1, ValueFacts
  <2>3. cx.index = cx.last_access_time
    BY <2>1, IndexFacts
  <2>4. QED
    BY <2>2, <2>3
<1> HIDE DEF cx
<1>7. \A x \in Live : granted'[k][x] = granted[k][x] /\ conn'[x] = conn[x] =>
         /\ cx.lock.readers[x] >= compass[k].lock.readers[x]
         /\ cx.lock.writers[x] >= compass[k].lock.writers[x]
  BY <1>2, <1>3, <1>4, <1>5, <1>6
<1>8. QED
  BY <1>1, <1>6, <1>7, StoredKeeps

\* One that fails, or is about watchers.
LEMMA OtherKeeps ==
    ASSUME IInv, IndexInv, NEW c \in Live, NEW k \in Keys
    PROVE  /\ \A d : Throws(c, k, d) => Keeps
           /\ \A w : Add_watch_request(c, k, w) => Keeps
           /\ \A w : Remove_watch_notification(c, k, w) => Keeps
<1>1. compass[k] \in Compasses /\ compass[k].index = compass[k].last_access_time /\ now \in Nat
  BY CompassType DEF IndexInv
<1>2. \A x \in Live : compass[k].lock.readers[x] \in Nat /\ compass[k].lock.writers[x] \in Nat
  BY CompassType DEF Lock, Live
<1>3. ASSUME NEW d, Throws(c, k, d) PROVE Keeps
  <2> DEFINE l == CurrentLock(k)
             cx == [compass[k] EXCEPT !.lock = l]
  <2>1. open_compass(k, cx)
    BY <1>3 DEF Throws
  <2>2. \A x \in Live : /\ l.readers[x] = compass[k].lock.readers[x]
                        /\ l.writers[x] = compass[k].lock.writers[x]
    BY CurrentLockFacts
  <2> HIDE DEF l
  <2>3. cx.lock = l /\ cx.index = cx.last_access_time
    BY <1>1 DEF Compasses
  <2> HIDE DEF cx
  <2>4. \A x \in Live : granted'[k][x] = granted[k][x] /\ conn'[x] = conn[x] =>
           /\ cx.lock.readers[x] >= compass[k].lock.readers[x]
           /\ cx.lock.writers[x] >= compass[k].lock.writers[x]
    BY <1>2, <2>2, <2>3
  <2>5. QED
    BY <2>1, <2>3, <2>4, StoredKeeps
<1>4. ASSUME NEW ws, open_compass(k, [compass[k] EXCEPT !.watchers = ws]) PROVE Keeps
  <2> DEFINE cx == [compass[k] EXCEPT !.watchers = ws]
  <2>1. cx.lock = compass[k].lock /\ cx.index = cx.last_access_time
    BY <1>1 DEF Compasses
  <2>2. open_compass(k, cx)
    BY <1>4
  <2> HIDE DEF cx
  <2>3. \A x \in Live : granted'[k][x] = granted[k][x] /\ conn'[x] = conn[x] =>
           /\ cx.lock.readers[x] >= compass[k].lock.readers[x]
           /\ cx.lock.writers[x] >= compass[k].lock.writers[x]
    BY <1>2, <2>1
  <2>4. QED
    BY <2>1, <2>2, <2>3, StoredKeeps
<1>5. QED
  BY <1>3, <1>4 DEF Add_watch_request, Remove_watch_notification

\* One that has its lock, unless it releases some.
LEMMA PerformedKeeps ==
    ASSUME IInv, IndexInv, NoPartialCommit', NEW c \in Live, NEW k \in Keys,
           NEW d \in DOMAIN Disposition, NEW dying \in SUBSET MayDieDuring(c),
           NEW values \in {<<>>} \cup {<<v>> : v \in Values},
           NEW shared \in Int, NEW exclusive \in Int, NEW held \in Lock,
           \A x \in Live \ {c} : /\ held.readers[x] = compass[k].lock.readers[x]
                                 /\ held.writers[x] = compass[k].lock.writers[x],
           held.readers[c] + shared = compass[k].lock.readers[c] + Disposition[d].shared,
           held.writers[c] + exclusive = compass[k].lock.writers[c] + Disposition[d].exclusive,
           Performed(c, k, d, held, values, shared, exclusive, dying)
    PROVE  Keeps
<1> DEFINE done == commit_lock_disposition(held, c, shared, exclusive)
           kept == collect_expired_connections(done, LiveAfter(dying))
           cz   == set_value(compass[k], values)
           cx   == update_last_access_time([cz EXCEPT !.lock = kept])
           told == [shared    |-> granted[k][c].shared + Disposition[d].shared,
                    exclusive |-> granted[k][c].exclusive + Disposition[d].exclusive]
<1>1. Committable(held, c, shared, exclusive)
  BY DEF Performed, NoPartialCommit
<1>2. /\ open_compass(k, cx) /\ conn' = ConnAfter(dying, {}) /\ {} \in SUBSET {c}
      /\ granted' = [GrantsAfter(dying) EXCEPT ![k][c] = told]
  BY <1>1 DEF Performed
<1>3. c \in Conns
  BY DEF Live
<1>4. done \in Lock
  BY <1>1, <1>3, AddType DEF commit_lock_disposition, Committable
<1>5. /\ done.readers[c] = held.readers[c] + shared
      /\ done.writers[c] = held.writers[c] + exclusive
      /\ \A x \in Conns \ {c} : done.readers[x] = held.readers[x] /\ done.writers[x] = held.writers[x]
  BY <1>3 DEF commit_lock_disposition, AddEntries, Lock
<1> HIDE DEF done
<1>6. \A x \in LiveAfter(dying) \cap Conns :
         kept.readers[x] = done.readers[x] /\ kept.writers[x] = done.writers[x]
  BY <1>4, CollectKeeps
<1>7. \A x \in Live : conn'[x] = conn[x] => x \in LiveAfter(dying) \cap Conns
  BY <1>2, StillLive
<1>8. \A x \in Conns : compass[k].lock.readers[x] \in Nat /\ compass[k].lock.writers[x] \in Nat
  BY CompassType DEF Lock
<1>9. granted'[k][c] = granted[k][c] => Disposition[d].shared = 0 /\ Disposition[d].exclusive = 0
  <2>1. granted[k][c] \in [shared: Int, exclusive: Int]
    BY <1>3 DEF IInv, TypeOK, Grants
  <2>2. Disposition[d].shared \in Int /\ Disposition[d].exclusive \in Int
    BY DispositionType
  <2>3. /\ told.shared = granted[k][c].shared + Disposition[d].shared
        /\ told.exclusive = granted[k][c].exclusive + Disposition[d].exclusive
    OBVIOUS
  <2> HIDE DEF told
  <2>4. granted'[k][c] = told
    BY <1>2, <1>3, GrantsAfterFacts DEF Grants
  <2>5. QED
    BY <2>1, <2>2, <2>3, <2>4
<1> HIDE DEF kept, told
<1>10. cz \in Compasses /\ cz.index = cz.last_access_time
  <2>1. compass[k] \in Compasses /\ compass[k].index = compass[k].last_access_time
    BY CompassType DEF IndexInv
  <2>2. cz \in Compasses
    BY <2>1, SetValueType
  <2>3. cz.index = cz.last_access_time
    BY <2>1 DEF set_value, Compasses
  <2>4. QED
    BY <2>2, <2>3
<1> HIDE DEF cz
<1>11. cx.lock = kept /\ cx.index = cx.last_access_time
  <2>1. now \in Nat
    BY CompassType
  <2>2. cx.lock = kept
    BY <1>10, ValueFacts
  <2>3. cx.index = cx.last_access_time
    BY <1>10, <2>1, IndexFacts
  <2>4. QED
    BY <2>2, <2>3
<1> HIDE DEF cx
<1>12. ASSUME NEW x \in Live, granted'[k][x] = granted[k][x], conn'[x] = conn[x]
       PROVE  /\ cx.lock.readers[x] >= compass[k].lock.readers[x]
              /\ cx.lock.writers[x] >= compass[k].lock.writers[x]
  <2>1. x \in Conns /\ kept.readers[x] = done.readers[x] /\ kept.writers[x] = done.writers[x]
    BY <1>6, <1>7, <1>12
  <2>2. CASE x = c
    BY <1>3, <1>5, <1>8, <1>9, <1>11, <1>12, <2>1, <2>2
  <2>3. CASE x # c
    BY <1>5, <1>8, <1>11, <2>1, <2>3
  <2>4. QED
    BY <2>2, <2>3
<1>13. QED
  BY <1>2, <1>11, <1>12, StoredKeeps

\* One that is served with either lock.
LEMMA WithLockKeeps ==
    ASSUME IInv, IndexInv, NoPartialCommit', NEW c \in Live, NEW k \in Keys,
           NEW d \in DOMAIN Disposition, NEW dying \in SUBSET MayDieDuring(c),
           NEW values \in {<<>>} \cup {<<v>> : v \in Values},
           WithShared(c, k, d, values, dying) \/ WithExclusive(c, k, d, values, dying)
    PROVE  Keeps
<1> DEFINE l == CurrentLock(k)
           n == Disposition[d].shared
           m == Disposition[d].exclusive
<1>1. /\ l \in Lock
      /\ \A x \in Live : /\ l.readers[x] = compass[k].lock.readers[x]
                         /\ l.writers[x] = compass[k].lock.writers[x]
  BY CurrentLockFacts
<1>2. Live \subseteq Conns /\ c \in Conns
  BY DEF Live
<1>3. n \in Int /\ m \in Int
  BY DispositionType
<1>4. \/ Performed(c, k, d, LockShared(l, c), values, n - 1, m, dying)
      \/ Performed(c, k, d, LockExclusive(l, c), values, n, m - 1, dying)
  BY DEF WithShared, WithExclusive
<1> HIDE DEF l
<1>5. ASSUME NEW i \in {0, 1}, NEW held, held = AddEntries(l, c, i, 1 - i),
             Performed(c, k, d, held, values, n - i, m - (1 - i), dying)
      PROVE  Keeps
  <2>1. l.readers[c] \in Nat /\ l.writers[c] \in Nat
    BY <1>1, <1>2 DEF Lock
  <2>2. /\ held.readers[c] = l.readers[c] + i /\ held.writers[c] = l.writers[c] + (1 - i)
        /\ \A x \in Conns \ {c} : held.readers[x] = l.readers[x] /\ held.writers[x] = l.writers[x]
    BY <1>1, <1>2, <1>5 DEF AddEntries, Lock
  <2>3. held \in Lock
    BY <1>1, <1>2, <1>5 DEF AddEntries, Lock
  <2>4. /\ held.readers[c] + (n - i) = compass[k].lock.readers[c] + n
        /\ held.writers[c] + (m - (1 - i)) = compass[k].lock.writers[c] + m
    <3> HIDE DEF n, m
    <3>1. QED
      BY <1>1, <1>3, <2>1, <2>2
  <2>5. \A x \in Live \ {c} : /\ held.readers[x] = compass[k].lock.readers[x]
                              /\ held.writers[x] = compass[k].lock.writers[x]
    BY <1>1, <1>2, <2>2
  <2>6. n - i \in Int /\ m - (1 - i) \in Int
    BY <1>3
  <2> DEFINE shared == n - i
             exclusive == m - (1 - i)
  <2>7. /\ shared \in Int /\ exclusive \in Int
        /\ held.readers[c] + shared = compass[k].lock.readers[c] + Disposition[d].shared
        /\ held.writers[c] + exclusive = compass[k].lock.writers[c] + Disposition[d].exclusive
        /\ Performed(c, k, d, held, values, shared, exclusive, dying)
    BY <1>5, <2>4, <2>6
  <2> HIDE DEF shared, exclusive
  <2>8. QED
    BY <2>3, <2>5, <2>7, PerformedKeeps
<1>6. 1 - 1 = 0 /\ 1 - 0 = 1 /\ n - 0 = n /\ m - 0 = m
  BY <1>3
<1>7. CASE Performed(c, k, d, LockShared(l, c), values, n - 1, m, dying)
  <2>1. Performed(c, k, d, AddEntries(l, c, 1, 1 - 1), values, n - 1, m - (1 - 1), dying)
    BY <1>6, <1>7 DEF LockShared
  <2>2. QED
    BY <1>5, <2>1
<1>8. CASE Performed(c, k, d, LockExclusive(l, c), values, n, m - 1, dying)
  <2>1. Performed(c, k, d, AddEntries(l, c, 0, 1 - 0), values, n - 0, m - (1 - 0), dying)
    BY <1>6, <1>8 DEF LockExclusive
  <2>2. QED
    BY <1>5, <2>1
<1>9. QED
  BY <1>4, <1>7, <1>8

\* Any request.
LEMMA ServeKeeps ==
    ASSUME IInv, IndexInv, NEW c \in Live, Serve(c)
    PROVE  Keeps
<1>1. PICK k \in Keys :
        \/ \E d \in DOMAIN Disposition, dying \in SUBSET MayDieDuring(c) :
              \/ \E criteria \in Criteria : Compare_exchange_request(c, k, criteria, d, dying)
              \/ \E v \in Values : Exchange_request(c, k, v, d, dying)
        \/ \E d \in DOMAIN Disposition \cup {"unknown"} : Throws(c, k, d)
        \/ \E w \in WatcherIds : Add_watch_request(c, k, w)
        \/ \E w \in WatcherIds : Remove_watch_notification(c, k, w)
  BY DEF Serve
<1>2. NoPartialCommit'
  BY ServeStep DEF IInv
<1>3. ASSUME NEW d \in DOMAIN Disposition, NEW dying \in SUBSET MayDieDuring(c),
             NEW criteria \in Criteria, Compare_exchange_request(c, k, criteria, d, dying)
      PROVE  Keeps
  <2>1. CASE Refused(c, k, dying)
    BY <2>1, RefusedKeeps
  <2>2. CASE WithShared(c, k, d, <<>>, dying) \/ WithExclusive(c, k, d, <<>>, dying)
    BY <1>2, <2>2, WithLockKeeps
  <2>3. ASSUME NEW i \in 1..Len(criteria),
               WithExclusive(c, k, d, <<criteria[i].value_new>>, dying)
        PROVE  Keeps
    <3> DEFINE S == [value_cmp: Values, value_new: Values]
    <3>1. criteria \in Seq(S)
      BY CriteriaAssumption
    <3>2. criteria[i] \in S
      <4> HIDE DEF S
      <4>1. QED
        BY <3>1
    <3>3. criteria[i].value_new \in Values
      BY <3>2
    <3>4. QED
      BY <1>2, <2>3, <3>3, WithLockKeeps
  <2>4. QED
    BY <1>3, <2>1, <2>2, <2>3 DEF Compare_exchange_request
<1>4. ASSUME NEW d \in DOMAIN Disposition, NEW dying \in SUBSET MayDieDuring(c),
             NEW v \in Values, Exchange_request(c, k, v, d, dying)
      PROVE  Keeps
  <2>1. CASE Refused(c, k, dying)
    BY <2>1, RefusedKeeps
  <2>2. CASE WithExclusive(c, k, d, <<v>>, dying)
    BY <1>2, <2>2, WithLockKeeps
  <2>3. QED
    BY <1>4, <2>1, <2>2 DEF Exchange_request
<1>5. QED
  BY <1>1, <1>3, <1>4, OtherKeeps

\* Whatever a step grants to other connections, takes back from them or lets
\* die, a connection that it leaves as it was keeps its entries in every lock,
\* unless the collector drops the compass, which then was never written or not
\* accessed for long.
THEOREM GrantsAreLostToExpiry == Spec => GrantsLostOnlyToExpiry
<1> DEFINE Only ==
              \A k \in Keys, c \in Live :
                LET lost == /\ granted'[k][c] = granted[k][c]
                            /\ conn'[c] = conn[c]
                            /\ \/ compass'[k].lock.readers[c] < compass[k].lock.readers[c]
                               \/ compass'[k].lock.writers[c] < compass[k].lock.writers[c]
                IN lost => /\ k \notin container'
                           /\ ~compass[k].written \/ now - compass[k].last_access_time >= ExpiryDuration
<1>1. Init => IndexInv
  BY DEF Init, IndexInv, InitialCompasses, NewCompass, LoadedCompass
<1>2. IInv /\ IndexInv /\ [Next]_vars => IndexInv' /\ [Only]_vars
  <2> SUFFICES ASSUME IInv, IndexInv, [Next]_vars PROVE IndexInv' /\ [Only]_vars
    OBVIOUS
  <2>1. \A k \in Keys, x \in Live :
           compass[k].lock.readers[x] \in Nat /\ compass[k].lock.writers[x] \in Nat
    BY CompassType DEF Lock, Live
  <2>2. CASE \E c \in Live : Serve(c)
    <3>1. IInv' /\ Keeps
      BY <2>2, ServeStep, ServeKeeps
    <3>2. \A k \in Keys, x \in Live :
             compass'[k].lock.readers[x] \in Nat /\ compass'[k].lock.writers[x] \in Nat
      <4>1. \A k \in Keys : compass'[k].lock \in Lock
        BY <3>1 DEF IInv, TypeOK, Compasses
      <4>2. QED
        BY <4>1 DEF Lock, Live
    <3>3. \A k \in Keys, x \in Live : KeepsEntries(k, x)
      BY <3>1 DEF Keeps
    <3>4. Only
      BY <2>1, <3>2, <3>3 DEF KeepsEntries
    <3>5. QED
      BY <3>1, <3>4 DEF Keeps
  <2>3. CASE gc_timer_proc
    <3>1. \A k \in Keys : \/ compass'[k] = compass[k]
                          \/ Expired(k) /\ compass'[k] = NewCompass /\ k \notin container'
      BY <2>3 DEF gc_timer_proc
    <3>2. \A k \in Keys : Expired(k) => now - compass[k].last_access_time >= ExpiryDuration
      <4> SUFFICES ASSUME NEW k \in Keys, Expired(k)
                   PROVE  now - compass[k].last_access_time >= ExpiryDuration
        OBVIOUS
      <4>1. compass[k].index = compass[k].last_access_time /\ compass[k].index \in Nat /\ now \in Nat
        BY CompassType DEF IndexInv, Compasses
      <4>2. compass[k].index <= now - ExpiryDuration /\ ExpiryDuration \in Nat
        BY TimeAssumption DEF Expired
      <4>3. QED
        BY <4>1, <4>2
    <3>3. Only
      BY <2>1, <3>1, <3>2
    <3>4. IndexInv'
      BY <3>1 DEF IndexInv, NewCompass
    <3>5. QED
      BY <3>3, <3>4
  <2>4. CASE \/ \E c \in Conns : Connect(c) \/ Shutdown(c) \/ Expire(c)
             \/ Tick \/ UNCHANGED vars
    <3>1. compass' = compass
      BY <2>4 DEF Connect, Shutdown, Expire, Tick, vars
    <3>2. IndexInv'
      BY <3>1 DEF IndexInv
    <3>3. Only
      BY <2>1, <3>1
    <3>4. QED
      BY <3>2, <3>3
  <2>5. QED
    BY <2>2, <2>3, <2>4 DEF Next
<1>3. Spec => [][Only]_vars
  <2> HIDE DEF Only
  <2>1. QED
    BY <1>1, <1>2, Invariance, PTL DEF Spec
<1>4. QED
  BY <1>3 DEF GrantsLostOnlyToExpiry
===============================================================================
