---------------------------- MODULE CompassStoreProofs ----------------------------
(***************************************************************************)
(* Whatever is written, collected and executed in which order, and when-   *)
(* ever the pilot crashes: a compass in memory is never lost from the      *)
(* table, and a row never has a value under the version of another write.  *)
(***************************************************************************)
EXTENDS CompassStore, SequenceTheorems, TLAPS

InMemory == compass # NoDao
InTable  == row # NoDao

\* The pilot is in the middle of a write only if it runs, on a compass.
ServletInv ==
    /\ now >= ExpiryDuration
    /\ ~up => servlet = "idle" /\ queue = <<>>
    /\ servlet \in {"version", "access"} => InMemory

IsSave(i)   == queue[i].op = "save"
IsDelete(i) == queue[i].op = "delete"

\* No object has been accessed in the future.
AccessInv ==
    /\ InMemory => compass.last_access_time <= now
    /\ InTable => row.last_access_time <= now
    /\ \A i \in DOMAIN queue : IsSave(i) => queue[i].dao.last_access_time <= now

\* Only objects in memory wait to be synchronized.
SyncInv == ~InMemory => \A i \in DOMAIN queue : queue[i] # Sync

SyncedAfter(i) == \E j \in DOMAIN queue : i < j /\ queue[j] = Sync

\* A DELETE that does not match the object in memory.
Harmless(i) == IsDelete(i) /\ queue[i].expiry_time < compass.last_access_time

\* What is queued before the object in memory is saved, or instead of it, does
\* it no harm.
BackedInv ==
    InMemory =>
        /\ compass = row \/ \E i \in DOMAIN queue : queue[i] = Sync
        /\ \A i \in DOMAIN queue : queue[i] = Sync \/ Harmless(i) \/ SyncedAfter(i)

\* The committed versions of the value of the object d are its own or the next.
Follows(d) ==
    \A c \in committed : c.value = d.value => d.version <= c.version /\ c.version <= d.version + 1

\* Values are numbered, and an old object that is yet to be saved is of a write
\* before that of the object in memory.
ValuesInv ==
    /\ \A c \in committed : c.value <= writes
    /\ InMemory => compass.value <= writes /\ Follows(compass)
    /\ InTable => row.value <= writes /\ Follows(row)
    /\ \A i \in DOMAIN queue : IsSave(i) =>
            /\ queue[i].dao.value <= writes
            /\ Follows(queue[i].dao)
            /\ InMemory => queue[i].dao.value # compass.value

\* The row of the write the object in memory is of.
VersionsInv ==
    /\ InMemory /\ InTable /\ row.value = compass.value =>
        /\ row.version <= compass.version /\ compass.version <= row.version + 1
        /\ servlet = "version" => row.version = compass.version
    /\ servlet = "version" => \A c \in committed : c.value # compass.value

StoreInv == TypeOK /\ ServletInv /\ AccessInv /\ SyncInv /\ BackedInv

IInv == StoreInv /\ ValuesInv /\ VersionsInv

-------------------------------------------------------------------------------
\* An object that is not there is not one.
LEMMA NoDaoIsNone == NoDao \notin Daos
<1>1. DOMAIN NoDao = {"value", "version"}
  BY DEF NoDao
<1>2. \A d \in Daos : DOMAIN d = {"value", "version", "last_access_time"}
  BY DEF Daos
<1> QED BY <1>1, <1>2

\* What an operation is, by its kind.
LEMMA OperationsType ==
  /\ \A x \in Operations : x = Sync \/ x.op = "save" \/ x.op = "delete"
  /\ \A x \in Operations : x.op = "save" => x # Sync /\ x.dao \in Daos
  /\ \A x \in Operations : x.op = "delete" => x # Sync /\ x.expiry_time \in Nat
  /\ Sync \in Operations
  /\ \A d \in Daos : Save(d) \in Operations /\ Save(d).op = "save" /\ Save(d).dao = d
  /\ \A t \in Nat : Delete(t) \in Operations /\ Delete(t).op = "delete" /\ Delete(t).expiry_time = t
BY DEF Operations, Sync, Save, Delete

\* Afterwards a save of the object is queued behind everything that is new, and
\* nothing else is.
LEMMA InvalidateFacts ==
  ASSUME queue \in Seq(Operations), Invalidate
  PROVE  /\ queue' \in Seq(Operations)
         /\ \E i \in DOMAIN queue' : queue'[i] = Sync
         /\ \A i \in DOMAIN queue' : queue'[i] = Sync \/ \E j \in DOMAIN queue : queue'[i] = queue[j]
         /\ \/ UNCHANGED queue
            \/ \A i \in DOMAIN queue' :
                    queue'[i] = Sync \/ \E j \in DOMAIN queue' : i < j /\ queue'[j] = Sync
<1> USE OperationsType
<1>1. CASE queue' = Append(queue, Sync)
  BY <1>1, AppendProperties
<1>2. CASE Contains(queue, Sync) /\ UNCHANGED queue
  BY <1>2 DEF Contains
<1>3. ASSUME NEW i \in DOMAIN queue, queue' = Append(RemoveAt(queue, i), Sync)
      PROVE  /\ queue' \in Seq(Operations)
             /\ \E k \in DOMAIN queue' : queue'[k] = Sync
             /\ \A k \in DOMAIN queue' : queue'[k] = Sync \/ \E j \in DOMAIN queue : queue'[k] = queue[j]
             /\ \A k \in DOMAIN queue' :
                    queue'[k] = Sync \/ \E j \in DOMAIN queue' : k < j /\ queue'[j] = Sync
  <2> DEFINE front == SubSeq(queue, 1, i - 1)
             back  == SubSeq(queue, i + 1, Len(queue))
             rest  == front \o back
  <2>1. i \in 1..Len(queue) /\ Len(queue) \in Nat
    BY LenProperties
  <2>2. /\ front \in Seq(Operations) /\ Len(front) = i - 1
        /\ \A k \in 1..Len(front) : front[k] = queue[k]
    <3>1. \A k \in 1..(i - 1) : queue[k] \in Operations
      BY <2>1, ElementOfSeq
    <3> QED BY <2>1, <3>1, SubSeqProperties
  <2>3. /\ back \in Seq(Operations) /\ Len(back) = Len(queue) - i
        /\ \A k \in 1..Len(back) : back[k] = queue[k + i]
    <3>1. \A k \in (i + 1)..Len(queue) : queue[k] \in Operations
      BY <2>1, ElementOfSeq
    <3> QED BY <2>1, <3>1, SubSeqProperties
  <2> HIDE DEF front, back
  <2>4. /\ rest \in Seq(Operations) /\ Len(rest) = Len(queue) - 1
        /\ \A k \in 1..Len(rest) : \E j \in DOMAIN queue : rest[k] = queue[j]
    <3>1. /\ rest \in Seq(Operations) /\ Len(rest) = Len(queue) - 1
          /\ \A k \in 1..Len(rest) :
                rest[k] = IF k <= Len(front) THEN front[k] ELSE back[k - Len(front)]
      BY <2>1, <2>2, <2>3, ConcatProperties
    <3>2. ASSUME NEW k \in 1..Len(rest) PROVE \E j \in DOMAIN queue : rest[k] = queue[j]
      <4>1. CASE k <= Len(front)
        BY <2>1, <2>2, <3>1, <4>1
      <4>2. CASE k > Len(front)
        <5>1. k - Len(front) \in 1..Len(back)
          BY <2>1, <2>2, <2>3, <3>1, <4>2
        <5>2. rest[k] = queue[(k - Len(front)) + i]
          BY <2>1, <2>2, <2>3, <3>1, <4>2, <5>1
        <5>3. (k - Len(front)) + i \in DOMAIN queue
          BY <2>1, <2>2, <2>3, <5>1, LenProperties
        <5> QED BY <5>2, <5>3
      <4> QED BY <2>2, <4>1, <4>2
    <3> QED BY <3>1, <3>2
  <2>5. queue' = Append(rest, Sync)
    BY <1>3 DEF RemoveAt, front, back
  <2> HIDE DEF rest
  <2>6. /\ queue' \in Seq(Operations) /\ Len(queue') = Len(rest) + 1 /\ Len(rest) \in Nat
        /\ DOMAIN queue' = 1..(Len(rest) + 1)
        /\ queue'[Len(rest) + 1] = Sync
        /\ \A k \in 1..Len(rest) : queue'[k] = rest[k]
    BY <2>4, <2>5, AppendProperties, LenProperties
  <2>7. \A k \in DOMAIN queue' : k = Len(rest) + 1 \/ k \in 1..Len(rest)
    BY <2>6
  <2>8. \A k \in DOMAIN queue' : queue'[k] = Sync \/ \E j \in DOMAIN queue : queue'[k] = queue[j]
    BY <2>4, <2>6, <2>7
  <2>9. \A k \in DOMAIN queue' : queue'[k] = Sync \/ \E j \in DOMAIN queue' : k < j /\ queue'[j] = Sync
    BY <2>6, <2>7
  <2> QED BY <2>6, <2>8, <2>9
<1> QED BY <1>1, <1>2, <1>3 DEF Invalidate

\* Assigning a field of the object in memory, or of a new one, keeps the table
\* and the queue in line with it.
LEMMA AssignKeepsBacked ==
  ASSUME TypeOK, AccessInv, SyncInv, BackedInv, Invalidate,
         compass' \in Daos, UNCHANGED <<now, row>>,
         compass'.last_access_time <= now,
         InMemory => compass.last_access_time <= compass'.last_access_time
  PROVE  queue' \in Seq(Operations) /\ AccessInv' /\ SyncInv' /\ BackedInv'
<1>1. InMemory'
  BY NoDaoIsNone DEF InMemory
<1>2. queue \in Seq(Operations)
  BY DEF TypeOK
<1>3. /\ queue' \in Seq(Operations)
      /\ \E i \in DOMAIN queue' : queue'[i] = Sync
      /\ \A i \in DOMAIN queue' : queue'[i] = Sync \/ \E j \in DOMAIN queue : queue'[i] = queue[j]
      /\ \/ UNCHANGED queue
         \/ \A i \in DOMAIN queue' : queue'[i] = Sync \/ SyncedAfter(i)'
  BY <1>2, InvalidateFacts DEF SyncedAfter
<1>4. AccessInv'
  <2>1. ASSUME NEW i \in DOMAIN queue', IsSave(i)'
        PROVE  queue'[i].dao.last_access_time <= now'
    BY <1>3, <2>1, OperationsType DEF AccessInv, IsSave
  <2> QED BY <1>1, <2>1 DEF AccessInv, InTable
<1>5. BackedInv'
  <2>1. CASE UNCHANGED queue
    <3>1. InMemory
      BY <1>3, <2>1 DEF SyncInv
    <3>2. ASSUME NEW i \in DOMAIN queue, Harmless(i) PROVE Harmless(i)'
      <4>1. queue[i] \in Operations
        BY <1>2, ElementOfSeq, LenProperties
      <4>2. queue[i].expiry_time \in Nat
        BY <3>2, <4>1, OperationsType DEF Harmless, IsDelete
      <4>3. compass \in Daos
        BY <3>1 DEF TypeOK, InMemory
      <4> QED BY <2>1, <3>1, <3>2, <4>2, <4>3 DEF Harmless, IsDelete, Daos
    <3> QED BY <1>3, <2>1, <3>1, <3>2 DEF BackedInv, SyncedAfter
  <2>2. CASE \A i \in DOMAIN queue' : queue'[i] = Sync \/ SyncedAfter(i)'
    BY <1>3, <2>2 DEF BackedInv
  <2> QED BY <1>3, <2>1, <2>2
<1> QED BY <1>1, <1>3, <1>4, <1>5 DEF SyncInv

-------------------------------------------------------------------------------
\* The steps of the servlets

\* The object set_value works on.
LEMMA SynchronizedType ==
  ASSUME TypeOK
  PROVE  /\ Synchronized \in Daos
         /\ InMemory => Synchronized = compass
         /\ ~InMemory => Synchronized.last_access_time = 0
BY DEF TypeOK, Synchronized, InMemory, Daos

\* The value is assigned, and with it the object made if there is none.
LEMMA SetValueStore ==
  ASSUME StoreInv, SetValue
  PROVE  StoreInv'
<1>1. TypeOK /\ AccessInv /\ SyncInv /\ BackedInv /\ Invalidate
  BY DEF StoreInv, SetValue
<1>2. writes + 1 \in Nat /\ now \in Nat
  BY <1>1 DEF TypeOK
<1>3. /\ compass' \in Daos
      /\ compass'.last_access_time = Synchronized.last_access_time
  BY <1>1, <1>2, SynchronizedType DEF SetValue, Daos
<1>4. /\ compass'.last_access_time <= now
      /\ InMemory => compass.last_access_time <= compass'.last_access_time
  BY <1>1, <1>2, <1>3, SynchronizedType DEF AccessInv, Daos
<1>5. queue' \in Seq(Operations) /\ AccessInv' /\ SyncInv' /\ BackedInv'
  BY <1>1, <1>3, <1>4, AssignKeepsBacked DEF SetValue
<1>6. TypeOK'
  BY <1>1, <1>2, <1>3, <1>5 DEF TypeOK, SetValue
<1>7. ServletInv'
  BY <1>3, NoDaoIsNone DEF StoreInv, ServletInv, SetValue, InMemory
<1> QED BY <1>5, <1>6, <1>7 DEF StoreInv

\* The version is assigned.
LEMMA SetVersionStore ==
  ASSUME StoreInv, SetVersion
  PROVE  StoreInv'
<1>1. TypeOK /\ AccessInv /\ SyncInv /\ BackedInv /\ Invalidate
  BY DEF StoreInv, SetVersion
<1>2. InMemory /\ compass \in Daos
  BY DEF StoreInv, ServletInv, SetVersion, TypeOK, InMemory
<1>3. /\ compass' \in Daos
      /\ compass'.last_access_time = compass.last_access_time
  BY <1>2 DEF SetVersion, Daos
<1>4. /\ compass'.last_access_time <= now
      /\ InMemory => compass.last_access_time <= compass'.last_access_time
  BY <1>1, <1>2, <1>3 DEF AccessInv, Daos
<1>5. queue' \in Seq(Operations) /\ AccessInv' /\ SyncInv' /\ BackedInv'
  BY <1>1, <1>3, <1>4, AssignKeepsBacked DEF SetVersion
<1>6. TypeOK'
  BY <1>1, <1>3, <1>5 DEF TypeOK, SetVersion
<1>7. ServletInv'
  BY <1>3, NoDaoIsNone DEF StoreInv, ServletInv, SetVersion, InMemory
<1> QED BY <1>5, <1>6, <1>7 DEF StoreInv

\* The access time is assigned; DELETEs that were harmless remain so.
LEMMA UpdateLastAccessTimeStore ==
  ASSUME StoreInv, UpdateLastAccessTime
  PROVE  StoreInv'
<1>1. TypeOK /\ AccessInv /\ SyncInv /\ BackedInv /\ Invalidate
  BY DEF StoreInv, UpdateLastAccessTime
<1>2. InMemory /\ compass \in Daos /\ now \in Nat
  BY DEF StoreInv, ServletInv, UpdateLastAccessTime, TypeOK, InMemory
<1>3. compass' \in Daos /\ compass'.last_access_time = now
  BY <1>2 DEF UpdateLastAccessTime, Daos
<1>4. /\ compass'.last_access_time <= now
      /\ InMemory => compass.last_access_time <= compass'.last_access_time
  BY <1>1, <1>2, <1>3 DEF AccessInv
<1>5. queue' \in Seq(Operations) /\ AccessInv' /\ SyncInv' /\ BackedInv'
  BY <1>1, <1>3, <1>4, AssignKeepsBacked DEF UpdateLastAccessTime
<1>6. TypeOK'
  <2>1. compass.value \in Nat /\ compass.version \in Nat
    BY <1>2 DEF Daos
  <2> QED BY <1>1, <1>3, <1>5, <2>1 DEF TypeOK, UpdateLastAccessTime
<1>7. ServletInv'
  BY DEF StoreInv, ServletInv, UpdateLastAccessTime
<1> QED BY <1>5, <1>6, <1>7 DEF StoreInv

-------------------------------------------------------------------------------
\* The steps of the collector and the daemon

\* What is queued when the collector is done: what was, with saves of the object
\* where it waited to be synchronized if it is erased; and the DELETE.
LEMMA CollectFacts ==
  ASSUME TypeOK, ServletInv, gc_timer_proc
  PROVE  LET time == now - ExpiryDuration
             erased == InMemory /\ Expires(compass, time)
         IN /\ time \in Nat
            /\ queue' \in Seq(Operations)
            /\ compass' = IF erased THEN NoDao ELSE compass
            /\ ~erased => \A i \in DOMAIN queue : i \in DOMAIN queue' /\ queue'[i] = queue[i]
            /\ ~erased => \A i \in DOMAIN queue' :
                    queue'[i] = Delete(time) \/ (i \in DOMAIN queue /\ queue'[i] = queue[i])
            /\ erased => \A i \in DOMAIN queue' :
                    queue'[i] = Delete(time) \/ (i \in DOMAIN queue /\ queue'[i] = Orphaned[i])
<1> DEFINE time == now - ExpiryDuration
           erased == InMemory /\ Expires(compass, time)
           rest   == IF erased THEN Orphaned ELSE queue
<1>1. time \in Nat
  BY StoreAssumption DEF TypeOK, ServletInv
<1>2. queue \in Seq(Operations) /\ Delete(time) \in Operations
  BY <1>1, OperationsType DEF TypeOK
<1>3. erased => Orphaned \in Seq(Operations) /\ DOMAIN Orphaned = DOMAIN queue
  <2>1. SUFFICES ASSUME erased PROVE Orphaned \in Seq(Operations) /\ DOMAIN Orphaned = DOMAIN queue
    OBVIOUS
  <2>2. compass \in Daos
    BY <2>1 DEF TypeOK, InMemory
  <2>3. Save(compass) \in Operations
    BY <2>2, OperationsType
  <2>4. DOMAIN queue = 1..Len(queue) /\ Len(queue) \in Nat
    BY <1>2, LenProperties
  <2>5. \A i \in 1..Len(queue) : queue[i] \in Operations
    BY <1>2, ElementOfSeq
  <2>6. Orphaned \in [1..Len(queue) -> Operations]
    BY <2>3, <2>4, <2>5 DEF Orphaned
  <2> QED BY <2>4, <2>6
<1>4. /\ rest \in Seq(Operations)
      /\ DOMAIN rest = DOMAIN queue
  BY <1>2, <1>3
<1>5. /\ compass' = IF erased THEN NoDao ELSE compass
      /\ queue' = rest \/ queue' = Append(rest, Delete(time))
  BY DEF gc_timer_proc, InMemory
<1> HIDE DEF time, erased, rest
<1>6. /\ queue' \in Seq(Operations)
      /\ \A i \in DOMAIN rest : i \in DOMAIN queue' /\ queue'[i] = rest[i]
      /\ \A i \in DOMAIN queue' : i \in DOMAIN rest \/ queue'[i] = Delete(time)
  <2>1. CASE queue' = rest
    BY <1>4, <2>1
  <2>2. CASE queue' = Append(rest, Delete(time))
    BY <1>2, <1>4, <2>2, AppendProperties, LenProperties
  <2> QED BY <1>5, <2>1, <2>2
<1>7. /\ ~erased => \A i \in DOMAIN queue : i \in DOMAIN queue' /\ queue'[i] = queue[i]
      /\ erased => \A i \in DOMAIN queue' :
              queue'[i] = Delete(time) \/ (i \in DOMAIN queue /\ queue'[i] = Orphaned[i])
      /\ ~erased => \A i \in DOMAIN queue' :
              queue'[i] = Delete(time) \/ (i \in DOMAIN queue /\ queue'[i] = queue[i])
  BY <1>4, <1>6 DEF rest
<1> QED BY <1>1, <1>5, <1>6, <1>7 DEF time, erased

\* The DELETE does not match an object that memory keeps.
LEMMA CollectStore ==
  ASSUME StoreInv, gc_timer_proc
  PROVE  StoreInv'
<1> DEFINE time == now - ExpiryDuration
           erased == InMemory /\ Expires(compass, time)
<1>1. TypeOK /\ ServletInv /\ AccessInv /\ SyncInv /\ BackedInv
  BY DEF StoreInv
<1>2. /\ time \in Nat
      /\ queue' \in Seq(Operations)
      /\ compass' = IF erased THEN NoDao ELSE compass
      /\ ~erased => \A i \in DOMAIN queue : i \in DOMAIN queue' /\ queue'[i] = queue[i]
      /\ ~erased => \A i \in DOMAIN queue' :
              queue'[i] = Delete(time) \/ (i \in DOMAIN queue /\ queue'[i] = queue[i])
      /\ erased => \A i \in DOMAIN queue' :
              queue'[i] = Delete(time) \/ (i \in DOMAIN queue /\ queue'[i] = Orphaned[i])
  BY <1>1, CollectFacts
<1>3. /\ up /\ servlet = "idle"
      /\ UNCHANGED <<up, crashes, now, servlet, row, writes, committed>>
  BY DEF gc_timer_proc
<1>4. InMemory => compass \in Daos
  BY <1>1 DEF TypeOK, InMemory
<1>5. Delete(time).op = "delete" /\ Delete(time) # Sync /\ Delete(time).expiry_time = time
  BY <1>2, OperationsType
<1>6. \A i \in DOMAIN queue : queue[i] \in Operations
  BY <1>1, ElementOfSeq, LenProperties DEF TypeOK
<1>7. \A i \in DOMAIN queue : Orphaned[i] = IF queue[i] = Sync THEN Save(compass) ELSE queue[i]
  BY DEF Orphaned
<1> HIDE DEF time
<1>8. CASE erased
  <2>1. InMemory /\ ~InMemory' /\ compass \in Daos
    BY <1>2, <1>4, <1>8 DEF InMemory
  <2>2. Save(compass).op = "save" /\ Save(compass).dao = compass /\ Save(compass) # Sync
    BY <2>1, OperationsType
  <2>3. SyncInv' /\ BackedInv'
    <3>1. \A i \in DOMAIN queue' : queue'[i] # Sync
      BY <1>2, <1>5, <1>7, <1>8, <2>2
    <3> QED BY <2>1, <3>1 DEF SyncInv, BackedInv
  <2>4. AccessInv'
    <3>1. ASSUME NEW i \in DOMAIN queue', queue'[i].op = "save"
          PROVE  queue'[i].dao.last_access_time <= now
      <4>1. i \in DOMAIN queue /\ queue'[i] = Orphaned[i]
        BY <1>2, <1>5, <1>8, <3>1
      <4> QED BY <1>1, <1>7, <2>1, <2>2, <3>1, <4>1 DEF AccessInv, IsSave
    <3> QED BY <1>1, <1>3, <2>1, <3>1 DEF AccessInv, IsSave, InTable
  <2>5. TypeOK' /\ ServletInv'
    BY <1>1, <1>2, <1>3, <1>8 DEF TypeOK, ServletInv
  <2> QED BY <2>3, <2>4, <2>5 DEF StoreInv
<1>9. CASE ~erased
  <2>1. UNCHANGED compass
    BY <1>2, <1>9
  <2>2. SyncInv'
    BY <1>1, <1>2, <1>5, <1>9, <2>1 DEF SyncInv, InMemory
  <2>3. AccessInv'
    <3>1. ASSUME NEW i \in DOMAIN queue', queue'[i].op = "save"
          PROVE  queue'[i].dao.last_access_time <= now
      BY <1>1, <1>2, <1>5, <1>9, <3>1 DEF AccessInv, IsSave
    <3> QED BY <1>1, <1>3, <2>1, <3>1 DEF AccessInv, IsSave, InTable, InMemory
  <2>4. BackedInv'
    <3> SUFFICES ASSUME InMemory
        PROVE  /\ compass = row \/ \E i \in DOMAIN queue' : queue'[i] = Sync
               /\ \A i \in DOMAIN queue' : queue'[i] = Sync \/ Harmless(i)' \/ SyncedAfter(i)'
      BY <1>3, <2>1 DEF BackedInv, InMemory
    <3>1. time < compass.last_access_time
      BY <1>2, <1>4, <1>9 DEF Expires, Daos
    <3>2. ASSUME NEW i \in DOMAIN queue'
          PROVE  queue'[i] = Sync \/ Harmless(i)' \/ SyncedAfter(i)'
      <4>1. CASE queue'[i] = Delete(time)
        BY <1>5, <2>1, <3>1, <4>1 DEF Harmless, IsDelete
      <4>2. CASE i \in DOMAIN queue /\ queue'[i] = queue[i]
        BY <1>1, <1>2, <1>9, <2>1, <4>2 DEF BackedInv, Harmless, IsDelete, SyncedAfter
      <4> QED BY <1>2, <1>9, <4>1, <4>2
    <3>3. compass = row \/ \E i \in DOMAIN queue' : queue'[i] = Sync
      BY <1>1, <1>2, <1>9 DEF BackedInv
    <3> QED BY <3>2, <3>3
  <2>5. TypeOK' /\ ServletInv'
    BY <1>1, <1>2, <1>3, <2>1 DEF TypeOK, ServletInv
  <2> QED BY <2>2, <2>3, <2>4, <2>5 DEF StoreInv
<1> QED BY <1>8, <1>9

\* The queue moves up, and the row is what the first operation makes of it.
LEMMA ExecuteFacts ==
  ASSUME TypeOK, SyncInv, Execute
  PROVE  /\ Len(queue) \in Nat \ {0} /\ queue[1] \in Operations
         /\ DOMAIN queue = 1..Len(queue)
         /\ queue' \in Seq(Operations)
         /\ DOMAIN queue' = 1..(Len(queue) - 1)
         /\ \A i \in DOMAIN queue' : i + 1 \in DOMAIN queue /\ queue'[i] = queue[i + 1]
         /\ queue[1] = Sync => row' = compass /\ InMemory
         /\ queue[1].op = "save" => queue[1].dao \in Daos /\ row' = queue[1].dao
         /\ queue[1].op = "delete" =>
                /\ queue[1].expiry_time \in Nat
                /\ \/ row' = row
                   \/ row' = NoDao /\ InTable /\ Matches(row, queue[1].expiry_time)
<1>1. queue \in Seq(Operations) /\ queue # <<>>
  BY DEF TypeOK, Execute
<1>2. Len(queue) \in Nat \ {0} /\ DOMAIN queue = 1..Len(queue)
  BY <1>1, EmptySeq, LenProperties
<1>3. Head(queue) = queue[1] /\ queue[1] \in Operations
  BY <1>1, <1>2, ElementOfSeq
<1>4. /\ queue' \in Seq(Operations) /\ Len(queue') = Len(queue) - 1
      /\ \A i \in 1..Len(queue') : queue'[i] = queue[i + 1]
  BY <1>1, HeadTailProperties DEF Execute
<1>5. DOMAIN queue' = 1..(Len(queue) - 1)
  BY <1>4, LenProperties
<1>6. queue[1] = Sync => row' = compass /\ InMemory
  BY <1>2, <1>3, OperationsType DEF Execute, SyncInv
<1>7. queue[1].op = "save" => queue[1].dao \in Daos /\ row' = queue[1].dao
  BY <1>3, OperationsType DEF Execute
<1>8. queue[1].op = "delete" =>
        /\ queue[1].expiry_time \in Nat
        /\ row' = row \/ (row' = NoDao /\ InTable /\ Matches(row, queue[1].expiry_time))
  BY <1>3, OperationsType DEF Execute, InTable
<1> QED BY <1>2, <1>3, <1>4, <1>5, <1>6, <1>7, <1>8

\* No operation takes the row of an object in memory from it for good.
LEMMA ExecuteStore ==
  ASSUME StoreInv, Execute
  PROVE  StoreInv'
<1>1. TypeOK /\ ServletInv /\ AccessInv /\ SyncInv /\ BackedInv
  BY DEF StoreInv
<1>2. up /\ UNCHANGED <<up, crashes, now, servlet, compass, writes, committed>>
  BY DEF Execute
<1>3. Len(queue) \in Nat \ {0} /\ queue[1] \in Operations /\ DOMAIN queue = 1..Len(queue)
  BY <1>1, ExecuteFacts
<1>4. /\ queue' \in Seq(Operations)
      /\ DOMAIN queue' = 1..(Len(queue) - 1)
      /\ \A i \in DOMAIN queue' : i + 1 \in DOMAIN queue /\ queue'[i] = queue[i + 1]
  BY <1>1, ExecuteFacts
<1>5. queue[1] = Sync \/ queue[1].op = "save" \/ queue[1].op = "delete"
  BY <1>3, OperationsType
<1>6. SyncInv'
  BY <1>1, <1>2, <1>4 DEF SyncInv, InMemory
<1>7. \A i \in DOMAIN queue : 1 < i => i - 1 \in DOMAIN queue' /\ queue'[i - 1] = queue[i]
  BY <1>3, <1>4
<1>8. row' \in Daos \cup {NoDao} /\ (InTable' => row'.last_access_time <= now)
  <2>1. CASE queue[1] = Sync
    BY <1>1, <2>1, ExecuteFacts DEF TypeOK, AccessInv, InMemory, InTable
  <2>2. CASE queue[1].op = "save"
    BY <1>1, <1>3, <2>2, ExecuteFacts DEF AccessInv, IsSave
  <2>3. CASE queue[1].op = "delete"
    BY <1>1, <2>3, ExecuteFacts DEF TypeOK, AccessInv, InTable
  <2> QED BY <1>5, <2>1, <2>2, <2>3
<1>9. AccessInv'
  BY <1>1, <1>2, <1>4, <1>8 DEF AccessInv, IsSave, InMemory
<1>10. BackedInv'
  <2> SUFFICES ASSUME InMemory
      PROVE  /\ compass = row' \/ \E i \in DOMAIN queue' : queue'[i] = Sync
             /\ \A i \in DOMAIN queue' : queue'[i] = Sync \/ Harmless(i)' \/ SyncedAfter(i)'
    BY <1>2 DEF BackedInv, InMemory
  <2>1. ASSUME NEW i \in DOMAIN queue'
        PROVE  queue'[i] = Sync \/ Harmless(i)' \/ SyncedAfter(i)'
    <3>1. i + 1 \in DOMAIN queue /\ queue'[i] = queue[i + 1] /\ i \in Nat
      BY <1>3, <1>4
    <3>2. queue[i + 1] = Sync \/ Harmless(i + 1) \/ SyncedAfter(i + 1)
      BY <1>1, <3>1 DEF BackedInv
    <3>3. CASE SyncedAfter(i + 1)
      <4>1. PICK j \in DOMAIN queue : i + 1 < j /\ queue[j] = Sync
        BY <3>3 DEF SyncedAfter
      <4>2. j - 1 \in DOMAIN queue' /\ queue'[j - 1] = Sync /\ i < j - 1
        BY <1>3, <1>7, <3>1, <4>1
      <4> QED BY <4>2 DEF SyncedAfter
    <3> QED BY <1>2, <3>1, <3>2, <3>3 DEF Harmless, IsDelete
  <2>2. ASSUME \A i \in DOMAIN queue' : queue'[i] # Sync
        PROVE  compass = row'
    <3>1. ~SyncedAfter(1)
      BY <1>3, <1>7, <2>2 DEF SyncedAfter
    <3>2. queue[1] = Sync \/ Harmless(1)
      BY <1>1, <1>3, <3>1 DEF BackedInv
    <3>3. CASE queue[1] = Sync
      BY <1>1, <3>3, ExecuteFacts
    <3>4. CASE Harmless(1)
      <4>1. queue[1].op = "delete" /\ queue[1] # Sync
        BY <1>3, <3>4, OperationsType DEF Harmless, IsDelete
      <4>2. \A i \in DOMAIN queue : queue[i] # Sync
        BY <1>3, <1>7, <2>2, <4>1
      <4>3. compass = row /\ compass \in Daos
        BY <1>1, <4>2 DEF BackedInv, TypeOK, InMemory
      <4>4. queue[1].expiry_time \in Nat
        BY <1>1, <4>1, ExecuteFacts
      <4>5. ~Matches(row, queue[1].expiry_time)
        BY <3>4, <4>3, <4>4 DEF Harmless, Matches, Daos
      <4> QED BY <1>1, <4>1, <4>3, <4>5, ExecuteFacts
    <3> QED BY <3>2, <3>3, <3>4
  <2> QED BY <2>1, <2>2
<1>11. TypeOK'
  BY <1>1, <1>2, <1>4, <1>8 DEF TypeOK
<1>12. ServletInv'
  BY <1>1, <1>2 DEF ServletInv, InMemory
<1> QED BY <1>6, <1>9, <1>10, <1>11, <1>12 DEF StoreInv

-------------------------------------------------------------------------------
\* Crash and restart, and the steps that change neither objects nor queue.
LEMMA OtherStore ==
  ASSUME StoreInv, OpenCompass \/ Tick \/ Crash \/ Restart \/ UNCHANGED vars
  PROVE  StoreInv'
<1>1. TypeOK /\ ServletInv /\ AccessInv /\ SyncInv /\ BackedInv
  BY DEF StoreInv
<1>2. CASE OpenCompass
  <2>1. TypeOK' /\ ServletInv'
    BY <1>1, <1>2 DEF TypeOK, ServletInv, InMemory, OpenCompass
  <2>2. AccessInv' /\ SyncInv' /\ BackedInv'
    BY <1>1, <1>2 DEF AccessInv, SyncInv, BackedInv, InMemory, InTable, IsSave, IsDelete,
                      Harmless, SyncedAfter, OpenCompass
  <2> QED BY <2>1, <2>2 DEF StoreInv
<1>3. CASE Tick
  <2>1. now \in Nat /\ now' = now + 1 /\ ExpiryDuration \in Nat
        /\ UNCHANGED <<up, crashes, servlet, compass, row, queue, writes, committed>>
    BY <1>1, <1>3, StoreAssumption DEF TypeOK, Tick
  <2>2. TypeOK' /\ ServletInv'
    BY <1>1, <2>1 DEF TypeOK, ServletInv, InMemory
  <2>3. \A i \in DOMAIN queue : IsSave(i) => queue[i].dao.last_access_time \in Nat
    <3>1. ASSUME NEW i \in DOMAIN queue, IsSave(i) PROVE queue[i].dao \in Daos
      BY <1>1, <3>1, OperationsType, ElementOfSeq, LenProperties DEF TypeOK, IsSave
    <3> QED BY <3>1 DEF Daos
  <2>4. /\ InMemory => compass.last_access_time \in Nat
        /\ InTable => row.last_access_time \in Nat
    BY <1>1 DEF TypeOK, InMemory, InTable, Daos
  <2>5. AccessInv'
    BY <1>1, <2>1, <2>3, <2>4 DEF AccessInv, InMemory, InTable, IsSave
  <2>6. SyncInv' /\ BackedInv'
    BY <1>1, <2>1 DEF SyncInv, BackedInv, InMemory, IsDelete, Harmless, SyncedAfter
  <2> QED BY <2>2, <2>5, <2>6 DEF StoreInv
<1>4. CASE Crash
  <2>1. <<>> \in Seq(Operations) /\ DOMAIN <<>> = {}
    OBVIOUS
  <2>2. crashes + 1 \in Nat
    BY <1>1 DEF TypeOK
  <2>3. TypeOK' /\ ServletInv'
    BY <1>1, <1>4, <2>1, <2>2 DEF TypeOK, ServletInv, Crash
  <2>4. AccessInv' /\ SyncInv' /\ BackedInv'
    BY <1>1, <1>4, <2>1 DEF AccessInv, SyncInv, BackedInv, InMemory, InTable, Crash
  <2> QED BY <2>3, <2>4 DEF StoreInv
<1>5. CASE Restart
  <2>1. queue = <<>> /\ queue' = <<>> /\ DOMAIN <<>> = {} /\ compass' = row /\ row' = row
    BY <1>1, <1>5 DEF ServletInv, Restart, Load
  <2>2. TypeOK' /\ ServletInv'
    BY <1>1, <1>5, <2>1 DEF TypeOK, ServletInv, Restart
  <2>3. AccessInv' /\ SyncInv' /\ BackedInv'
    BY <1>1, <1>5, <2>1 DEF AccessInv, SyncInv, BackedInv, InMemory, InTable, Restart
  <2> QED BY <2>2, <2>3 DEF StoreInv
<1>6. CASE UNCHANGED vars
  <2>1. TypeOK' /\ ServletInv' /\ AccessInv'
    BY <1>1, <1>6 DEF vars, TypeOK, ServletInv, AccessInv, InMemory, InTable, IsSave
  <2>2. SyncInv' /\ BackedInv'
    BY <1>1, <1>6 DEF vars, SyncInv, BackedInv, InMemory, IsDelete, Harmless, SyncedAfter
  <2> QED BY <2>1, <2>2 DEF StoreInv
<1> QED BY <1>2, <1>3, <1>4, <1>5, <1>6

-------------------------------------------------------------------------------
\* The values and their versions

\* A save that is queued after an assignment was queued before.
LEMMA InvalidateSaves ==
  ASSUME TypeOK, Invalidate
  PROVE  \A i \in DOMAIN queue' :
            queue'[i].op = "save" =>
                \E j \in DOMAIN queue : queue[j].op = "save" /\ queue'[i] = queue[j]
BY InvalidateFacts, OperationsType DEF TypeOK

\* What the saves of the queue refer to are objects.
LEMMA SavesType ==
  ASSUME TypeOK
  PROVE  /\ \A i \in DOMAIN queue : queue[i] \in Operations
         /\ \A i \in DOMAIN queue : queue[i].op = "save" => queue[i].dao \in Daos
<1>1. \A i \in DOMAIN queue : queue[i] \in Operations
  BY ElementOfSeq, LenProperties DEF TypeOK
<1> QED BY <1>1, OperationsType

\* A new value is greater than any that has been committed, stored or queued.
LEMMA SetValueVersions ==
  ASSUME IInv, SetValue
  PROVE  ValuesInv' /\ VersionsInv'
<1>1. TypeOK /\ ValuesInv /\ Invalidate /\ writes \in Nat
  BY DEF IInv, StoreInv, TypeOK, SetValue
<1>2. /\ compass' \in Daos /\ compass'.value = writes + 1 /\ writes' = writes + 1
      /\ servlet' = "version" /\ UNCHANGED <<row, committed>>
  BY <1>1, SynchronizedType DEF SetValue, Daos
<1>3. \A c \in committed : c.value \in Nat /\ c.value <= writes
  BY <1>1 DEF TypeOK, ValuesInv
<1>4. InTable => row.value \in Nat /\ row.value <= writes /\ Follows(row)
  BY <1>1 DEF TypeOK, ValuesInv, InTable, Daos
<1>5. InMemory'
  BY <1>2, NoDaoIsNone DEF InMemory
<1>6. ASSUME NEW i \in DOMAIN queue', queue'[i].op = "save"
      PROVE  /\ queue'[i].dao.value <= writes /\ queue'[i].dao.value \in Nat
             /\ Follows(queue'[i].dao)
  <2>1. PICK j \in DOMAIN queue : queue[j].op = "save" /\ queue'[i] = queue[j]
    BY <1>1, <1>6, InvalidateSaves
  <2>2. queue[j].dao \in Daos
    BY <1>1, <2>1, SavesType
  <2> QED BY <1>1, <2>1, <2>2 DEF ValuesInv, IsSave, Daos
<1>7. ValuesInv'
  <2>1. Follows(compass)'
    BY <1>1, <1>2, <1>3 DEF Follows
  <2>2. \A c \in committed' : c.value <= writes'
    BY <1>1, <1>2, <1>3
  <2>3. InTable' => row'.value <= writes' /\ Follows(row)'
    BY <1>1, <1>2, <1>4 DEF InTable, Follows
  <2>4. ASSUME NEW i \in DOMAIN queue', queue'[i].op = "save"
        PROVE  /\ queue'[i].dao.value <= writes'
               /\ Follows(queue[i].dao)'
               /\ queue'[i].dao.value # compass'.value
    BY <1>1, <1>2, <1>6, <2>4 DEF Follows
  <2> QED BY <1>1, <1>2, <2>1, <2>2, <2>3, <2>4 DEF ValuesInv, IsSave
<1>8. VersionsInv'
  <2>1. \A c \in committed' : c.value # compass'.value
    BY <1>1, <1>2, <1>3
  <2>2. ~(InTable' /\ row'.value = compass'.value)
    BY <1>1, <1>2, <1>4 DEF InTable
  <2> QED BY <2>1, <2>2 DEF VersionsInv
<1> QED BY <1>7, <1>8

\* The version grows by one before anything of the write is committed.
LEMMA SetVersionVersions ==
  ASSUME IInv, SetVersion
  PROVE  ValuesInv' /\ VersionsInv'
<1>1. TypeOK /\ ValuesInv /\ VersionsInv /\ Invalidate /\ servlet = "version"
  BY DEF IInv, StoreInv, SetVersion
<1>2. InMemory /\ compass \in Daos
  BY DEF IInv, StoreInv, ServletInv, SetVersion, TypeOK, InMemory
<1>3. /\ compass' \in Daos /\ compass'.value = compass.value
      /\ compass'.version = compass.version + 1
      /\ servlet' = "access" /\ UNCHANGED <<row, committed, writes>>
  BY <1>2 DEF SetVersion, Daos
<1>4. ValuesInv'
  <2>1. \A c \in committed : c.value # compass.value
    BY <1>1 DEF VersionsInv
  <2>2. Follows(compass)'
    BY <1>3, <2>1 DEF Follows
  <2>3. ASSUME NEW i \in DOMAIN queue', queue'[i].op = "save"
        PROVE  /\ queue'[i].dao.value <= writes
               /\ Follows(queue'[i].dao)
               /\ queue'[i].dao.value # compass.value
    BY <1>1, <1>2, <2>3, InvalidateSaves DEF ValuesInv, IsSave
  <2> QED BY <1>1, <1>2, <1>3, <2>2, <2>3 DEF ValuesInv, IsSave, Follows, InTable
<1>5. VersionsInv'
  <2>1. InTable /\ row.value = compass.value => row.version = compass.version
    BY <1>1, <1>2 DEF VersionsInv
  <2>2. compass.version \in Nat
    BY <1>2 DEF Daos
  <2> QED BY <1>3, <2>1, <2>2 DEF VersionsInv, InTable
<1> QED BY <1>4, <1>5

\* What is committed is the object in memory; the row of the same write is it,
\* or has the version before.
LEMMA UpdateLastAccessTimeVersions ==
  ASSUME IInv, UpdateLastAccessTime
  PROVE  ValuesInv' /\ VersionsInv'
<1> DEFINE new == [value |-> compass.value, version |-> compass.version]
<1>1. TypeOK /\ ValuesInv /\ VersionsInv /\ Invalidate /\ servlet = "access" /\ now \in Nat
  BY DEF IInv, StoreInv, UpdateLastAccessTime, TypeOK
<1>2. InMemory /\ compass \in Daos
  BY DEF IInv, StoreInv, ServletInv, UpdateLastAccessTime, TypeOK, InMemory
<1>3. /\ compass' \in Daos /\ compass'.value = compass.value
      /\ compass'.version = compass.version
      /\ servlet' = "idle" /\ UNCHANGED <<row, writes>>
      /\ committed' = committed \cup {new}
  BY <1>1, <1>2 DEF UpdateLastAccessTime, Daos
<1>4. new.value = compass.value /\ new.version = compass.version
      /\ compass.value \in Nat /\ compass.version \in Nat
  BY <1>2 DEF Daos
<1> HIDE DEF new
<1>5. ValuesInv'
  <2>1. Follows(compass)'
    BY <1>1, <1>2, <1>3, <1>4 DEF ValuesInv, Follows
  <2>2. ASSUME NEW i \in DOMAIN queue', queue'[i].op = "save"
        PROVE  /\ queue'[i].dao.value <= writes
               /\ Follows(queue[i].dao)'
               /\ queue'[i].dao.value # compass.value
    <3>1. PICK j \in DOMAIN queue : queue[j].op = "save" /\ queue'[i] = queue[j]
      BY <1>1, <2>2, InvalidateSaves
    <3>2. /\ queue[j].dao.value <= writes /\ Follows(queue[j].dao)
          /\ queue[j].dao.value # compass.value
      BY <1>1, <1>2, <3>1 DEF ValuesInv, IsSave
    <3> QED BY <1>3, <1>4, <3>1, <3>2 DEF Follows
  <2>3. InTable' => row'.value <= writes' /\ Follows(row)'
    <3>1. SUFFICES ASSUME InTable PROVE row.value <= writes /\ Follows(row)'
      BY <1>3 DEF InTable
    <3>2. row.value <= writes /\ Follows(row)
      BY <1>1, <3>1 DEF ValuesInv
    <3>3. row.value = compass.value =>
            row.version <= compass.version /\ compass.version <= row.version + 1
      BY <1>1, <1>2, <3>1 DEF VersionsInv
    <3> QED BY <1>3, <1>4, <3>2, <3>3 DEF Follows
  <2>4. \A c \in committed' : c.value <= writes'
    BY <1>1, <1>2, <1>3, <1>4 DEF ValuesInv
  <2> QED BY <1>2, <1>3, <1>1, <2>1, <2>2, <2>3, <2>4 DEF ValuesInv, IsSave
<1>6. VersionsInv'
  BY <1>1, <1>2, <1>3 DEF VersionsInv, InTable
<1> QED BY <1>5, <1>6

\* An object that is erased is as good as it was in memory.
LEMMA CollectVersions ==
  ASSUME IInv, gc_timer_proc
  PROVE  ValuesInv' /\ VersionsInv'
<1> DEFINE time == now - ExpiryDuration
           erased == InMemory /\ Expires(compass, time)
<1>1. TypeOK /\ ServletInv /\ ValuesInv /\ VersionsInv
  BY DEF IInv, StoreInv
<1>2. /\ time \in Nat
      /\ compass' = IF erased THEN NoDao ELSE compass
      /\ ~erased => \A i \in DOMAIN queue' :
              queue'[i] = Delete(time) \/ (i \in DOMAIN queue /\ queue'[i] = queue[i])
      /\ erased => \A i \in DOMAIN queue' :
              queue'[i] = Delete(time) \/ (i \in DOMAIN queue /\ queue'[i] = Orphaned[i])
  BY <1>1, CollectFacts
<1>3. servlet = "idle" /\ UNCHANGED <<servlet, row, writes, committed>>
  BY DEF gc_timer_proc
<1>4. Delete(time).op # "save"
  BY DEF Delete
<1>5. \A i \in DOMAIN queue : Orphaned[i] = IF queue[i] = Sync THEN Save(compass) ELSE queue[i]
  BY DEF Orphaned
<1> HIDE DEF time
<1>6. CASE erased
  <2>1. ~InMemory' /\ InMemory
    BY <1>2, <1>6 DEF InMemory
  <2>2. ASSUME NEW i \in DOMAIN queue', queue'[i].op = "save"
        PROVE  queue'[i].dao.value <= writes /\ Follows(queue'[i].dao)
    <3>1. i \in DOMAIN queue /\ queue'[i] = Orphaned[i]
      BY <1>2, <1>4, <1>6, <2>2
    <3>2. CASE queue[i] = Sync
      <4>1. queue'[i].dao = compass
        BY <1>5, <3>1, <3>2 DEF Save
      <4> QED BY <1>1, <2>1, <4>1 DEF ValuesInv
    <3>3. CASE queue[i] # Sync
      BY <1>1, <1>5, <2>2, <3>1, <3>3 DEF ValuesInv, IsSave
    <3> QED BY <3>2, <3>3
  <2> QED BY <1>1, <1>3, <2>1, <2>2 DEF ValuesInv, VersionsInv, IsSave, InTable, Follows
<1>7. CASE ~erased
  <2>1. UNCHANGED compass
    BY <1>2, <1>7
  <2>2. \A i \in DOMAIN queue' : queue'[i].op = "save" => i \in DOMAIN queue /\ queue'[i] = queue[i]
    BY <1>2, <1>4, <1>7
  <2>3. ValuesInv'
    BY <1>1, <1>3, <2>1, <2>2 DEF ValuesInv, IsSave, InTable, InMemory, Follows
  <2>4. VersionsInv'
    BY <1>1, <1>3, <2>1 DEF VersionsInv, InTable, InMemory
  <2> QED BY <2>3, <2>4
<1> QED BY <1>6, <1>7

\* The row becomes the object in memory, one of an earlier write, or goes.
LEMMA ExecuteVersions ==
  ASSUME IInv, Execute
  PROVE  ValuesInv' /\ VersionsInv'
<1>1. TypeOK /\ SyncInv /\ ValuesInv /\ VersionsInv
  BY DEF IInv, StoreInv
<1>2. UNCHANGED <<servlet, compass, writes, committed>>
  BY DEF Execute
<1>3. /\ queue[1] \in Operations /\ 1 \in DOMAIN queue
      /\ \A i \in DOMAIN queue' : i + 1 \in DOMAIN queue /\ queue'[i] = queue[i + 1]
  BY <1>1, ExecuteFacts
<1>4. queue[1] = Sync \/ queue[1].op = "save" \/ queue[1].op = "delete"
  BY <1>3, OperationsType
<1>5. InTable' =>
        \/ row' = compass /\ InMemory
        \/ row' = row /\ InTable
        \/ row' = queue[1].dao /\ IsSave(1)
  BY <1>1, <1>4, ExecuteFacts DEF IsSave, InTable
<1>6. ValuesInv'
  <2>1. InTable' => row'.value <= writes /\ Follows(row')
    BY <1>1, <1>3, <1>5 DEF ValuesInv
  <2>2. \A i \in DOMAIN queue' : queue'[i].op = "save" =>
            /\ queue'[i].dao.value <= writes
            /\ Follows(queue'[i].dao)
            /\ InMemory => queue'[i].dao.value # compass.value
    BY <1>1, <1>3 DEF ValuesInv, IsSave
  <2> QED BY <1>1, <1>2, <2>1, <2>2 DEF ValuesInv, IsSave, InMemory, Follows
<1>7. VersionsInv'
  <2>1. SUFFICES ASSUME InMemory, InTable', row'.value = compass.value
                 PROVE  /\ row'.version <= compass.version /\ compass.version <= row'.version + 1
                        /\ servlet = "version" => row'.version = compass.version
    BY <1>1, <1>2 DEF VersionsInv, InMemory
  <2>2. compass.version \in Nat
    BY <1>1, <2>1 DEF TypeOK, InMemory, Daos
  <2>3. CASE row' = compass
    BY <2>2, <2>3
  <2>4. CASE row' = row /\ InTable
    BY <1>1, <2>1, <2>4 DEF VersionsInv
  <2>5. CASE row' = queue[1].dao /\ IsSave(1)
    BY <1>1, <1>3, <2>1, <2>5 DEF ValuesInv
  <2> QED BY <1>5, <2>1, <2>3, <2>4, <2>5
<1> QED BY <1>6, <1>7

\* Crash and restart, and the steps that change neither objects nor queue.
LEMMA OtherVersions ==
  ASSUME IInv, OpenCompass \/ Tick \/ Crash \/ Restart \/ UNCHANGED vars
  PROVE  ValuesInv' /\ VersionsInv'
<1>1. TypeOK /\ ServletInv /\ ValuesInv /\ VersionsInv
  BY DEF IInv, StoreInv
<1>2. CASE OpenCompass
  BY <1>1, <1>2 DEF ValuesInv, VersionsInv, InMemory, InTable, IsSave, Follows, OpenCompass
<1>3. CASE Tick
  BY <1>1, <1>3 DEF ValuesInv, VersionsInv, InMemory, InTable, IsSave, Follows, Tick
<1>4. CASE Crash
  <2>1. DOMAIN <<>> = {}
    OBVIOUS
  <2> QED BY <1>1, <1>4, <2>1 DEF ValuesInv, VersionsInv, InMemory, InTable, Follows, Crash
<1>5. CASE Restart
  <2>1. /\ servlet' = "idle" /\ compass' = row /\ DOMAIN queue' = {}
        /\ UNCHANGED <<row, writes, committed>>
    BY <1>1, <1>5 DEF ServletInv, Restart, Load
  <2>2. ValuesInv'
    BY <1>1, <2>1 DEF ValuesInv, InMemory, InTable, Follows
  <2>3. InTable => row.version \in Nat
    BY <1>1 DEF TypeOK, InTable, Daos
  <2>4. VersionsInv'
    BY <2>1, <2>3 DEF VersionsInv, InMemory, InTable
  <2> QED BY <2>2, <2>4
<1>6. CASE UNCHANGED vars
  BY <1>1, <1>6 DEF vars, ValuesInv, VersionsInv, InMemory, InTable, IsSave, Follows
<1> QED BY <1>2, <1>3, <1>4, <1>5, <1>6

-------------------------------------------------------------------------------
\* At first there is neither object nor row.
LEMMA InitIInv == Init => IInv
<1> SUFFICES ASSUME Init PROVE IInv
  OBVIOUS
<1>1. <<>> \in Seq(Operations) /\ DOMAIN <<>> = {}
  OBVIOUS
<1>2. ExpiryDuration \in Nat
  BY StoreAssumption
<1>3. TypeOK /\ ServletInv
  BY <1>1, <1>2 DEF Init, TypeOK, ServletInv
<1>4. AccessInv /\ SyncInv /\ BackedInv
  BY <1>1 DEF Init, AccessInv, SyncInv, BackedInv, InMemory, InTable
<1>5. ValuesInv /\ VersionsInv
  BY <1>1 DEF Init, ValuesInv, VersionsInv, InMemory, InTable
<1> QED BY <1>3, <1>4, <1>5 DEF IInv, StoreInv

\* Every step of a servlet, the collector, the daemon and of a crash keeps
\* memory, table and queue in line.
THEOREM Invariance == Spec => []IInv
<1>1. IInv /\ [Next]_vars => IInv'
  <2> SUFFICES ASSUME IInv, [Next]_vars PROVE IInv'
    OBVIOUS
  <2>1. StoreInv
    BY DEF IInv
  <2>2. CASE SetValue
    BY <2>1, <2>2, SetValueStore, SetValueVersions DEF IInv
  <2>3. CASE SetVersion
    BY <2>1, <2>3, SetVersionStore, SetVersionVersions DEF IInv
  <2>4. CASE UpdateLastAccessTime
    BY <2>1, <2>4, UpdateLastAccessTimeStore, UpdateLastAccessTimeVersions DEF IInv
  <2>5. CASE gc_timer_proc
    BY <2>1, <2>5, CollectStore, CollectVersions DEF IInv
  <2>6. CASE Execute
    BY <2>1, <2>6, ExecuteStore, ExecuteVersions DEF IInv
  <2>7. CASE OpenCompass \/ Tick \/ Crash \/ Restart \/ UNCHANGED vars
    BY <2>1, <2>7, OtherStore, OtherVersions DEF IInv
  <2> QED BY <2>2, <2>3, <2>4, <2>5, <2>6, <2>7 DEF Next, Servlet
<1> QED BY InitIInv, <1>1, PTL DEF Spec

\* Object, row and queue keep their types.
THEOREM TypeCorrect == Spec => []TypeOK
<1>1. IInv => TypeOK
  BY DEF IInv, StoreInv
<1> QED BY <1>1, Invariance, PTL

(***************************************************************************)
(* A compass in memory is in the table as it is, or a save of it is        *)
(* queued, for any expiry duration and any bounds: no DELETE that the      *)
(* collector has queued takes its row for good.                            *)
(***************************************************************************)
THEOREM CompassesAreBacked == Spec => []CompassIsBacked
<1>1. IInv => CompassIsBacked
  <2> SUFFICES ASSUME IInv, InMemory PROVE compass = row \/ Contains(queue, Sync)
    BY DEF CompassIsBacked, InMemory
  <2>1. DOMAIN queue = 1..Len(queue)
    BY LenProperties DEF IInv, StoreInv, TypeOK
  <2> QED BY <2>1 DEF IInv, StoreInv, BackedInv, Contains
<1> QED BY <1>1, Invariance, PTL

(***************************************************************************)
(* A row has the value of a write under the version it was committed with, *)
(* or the one before, however often the pilot has crashed since.           *)
(***************************************************************************)
THEOREM RowsKeepVersions == Spec => []RowsAreVersioned
<1>1. IInv => RowsAreVersioned
  BY DEF IInv, ValuesInv, InTable, Follows, RowsAreVersioned
<1> QED BY <1>1, Invariance, PTL

===================================================================================
