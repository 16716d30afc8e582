------------------------------ MODULE CompassStore ------------------------------
(***************************************************************************)
(* What the pilot keeps of one compass across a crash: the compass in      *)
(* memory, its row in the table `Pilot::Compass`, and the MySQL daemon     *)
(* between them, which executes the queued operations of the table in      *)
(* order, each some time later, on a thread of its own.                    *)
(*                                                                         *)
(* Servlets and the collector are jobs of one thread and exclude each      *)
(* other; the daemon runs beside them, so a save sees whatever fields the  *)
(* servlet has assigned so far.                                            *)
(***************************************************************************)
EXTENDS Naturals, Sequences, SequencesExt

CONSTANTS
    ExpiryDuration,  \* compass_expiry_duration
    MaxTime,         \* bound on the clock
    MaxWrites,       \* bound on writes
    MaxQueue,        \* bound on the operations queued
    MaxCrashes       \* bound on crashes

ASSUME StoreAssumption ==
    /\ ExpiryDuration \in Nat
    /\ {MaxTime, MaxWrites, MaxQueue, MaxCrashes} \subseteq Nat
    /\ ExpiryDuration < MaxTime

VARIABLES
    up,         \* the pilot is running
    crashes,    \* crashes so far
    now,        \* the clock
    servlet,    \* how far the servlet that writes the compass has come
    compass,    \* the database object in memory, NoDao if there is none
    row,        \* the row of the compass, NoDao if there is none
    queue,      \* the operations the daemon has yet to execute
    writes,     \* writes so far, which number the values
    committed   \* history: the versions of finished servlets, with their values

memory == <<servlet, compass>>
vars == <<up, crashes, now, servlet, compass, row, queue, writes, committed>>

-------------------------------------------------------------------------------

\* The fields of the object; the value of a write is its number.
Daos == [value: Nat, version: Nat, last_access_time: Nat]

NoDao == [value |-> 0, version |-> 0]

\* Save the object the pilot has in memory, as it will be by then.
Sync == [op |-> "sync"]

\* Save an object only the operation still refers to.
Save(dao) == [op |-> "save", dao |-> dao]

Delete(time) == [op |-> "delete", expiry_time |-> time]

Operations == {Sync} \cup [op: {"save"}, dao: Daos] \cup [op: {"delete"}, expiry_time: Nat]

TypeOK ==
    /\ up \in BOOLEAN
    /\ crashes \in Nat /\ now \in Nat /\ writes \in Nat
    /\ servlet \in {"idle", "value", "version", "access"}
    /\ compass \in Daos \cup {NoDao}
    /\ row \in Daos \cup {NoDao}
    /\ queue \in Seq(Operations)
    /\ committed \subseteq [value: Nat, version: Nat]

-------------------------------------------------------------------------------
\* The servlets

\* An assignment to a field queues a save unless one is queued; whether it
\* then moves to the end is the daemon's affair.
Invalidate ==
    \/ ~Contains(queue, Sync) /\ queue' = Append(queue, Sync)
    \/ \E i \in DOMAIN queue : queue[i] = Sync /\ queue' = Append(RemoveAt(queue, i), Sync)
    \/ Contains(queue, Sync) /\ UNCHANGED queue

HasRoom == Len(queue) < MaxQueue

\* A servlet opens the compass; it writes it if the lock and the criteria
\* allow, and if not it only accesses it.
OpenCompass ==
    /\ up /\ servlet = "idle" /\ HasRoom
    /\ \/ writes < MaxWrites /\ servlet' = "value"
       \/ compass # NoDao /\ servlet' = "access"
    /\ UNCHANGED <<up, crashes, now, compass, row, queue, writes, committed>>

\* The object that set_value works on: a new one has never been accessed.
Synchronized ==
    IF compass = NoDao THEN [value |-> 0, version |-> 0, last_access_time |-> 0] ELSE compass

SetValue ==
    /\ up /\ servlet = "value"
    /\ writes' = writes + 1
    /\ compass' = [Synchronized EXCEPT !.value = writes + 1]
    /\ Invalidate
    /\ servlet' = "version"
    /\ UNCHANGED <<up, crashes, now, row, committed>>

SetVersion ==
    /\ up /\ servlet = "version"
    /\ compass' = [compass EXCEPT !.version = @ + 1]
    /\ Invalidate
    /\ servlet' = "access"
    /\ UNCHANGED <<up, crashes, now, row, writes, committed>>

UpdateLastAccessTime ==
    /\ up /\ servlet = "access"
    /\ compass' = [compass EXCEPT !.last_access_time = now]
    /\ Invalidate
    /\ servlet' = "idle"
    /\ committed' = committed \cup {[value |-> compass.value, version |-> compass.version]}
    /\ UNCHANGED <<up, crashes, now, row, writes>>

-------------------------------------------------------------------------------
\* The collector

\* Mutated: memory keeps what expires this very moment.
ExpiresAfter(dao, time) == dao.last_access_time < time

\* Memory and table go by the same comparison.
Expires(dao, time) == dao.last_access_time <= time

\* Mutated: the table keeps what expires this very moment.
MatchesBefore(dao, time) == dao.last_access_time < time

Matches(dao, time) == dao.last_access_time <= time

\* What remains in the queue of an object erased from memory.
Orphaned == [i \in DOMAIN queue |-> IF queue[i] = Sync THEN Save(compass) ELSE queue[i]]

gc_timer_proc ==
    LET expiry_time == now - ExpiryDuration
        erased == compass # NoDao /\ Expires(compass, expiry_time)
        rest   == IF erased THEN Orphaned ELSE queue
    IN
    /\ up /\ servlet = "idle" /\ HasRoom
    /\ compass' = IF erased THEN NoDao ELSE compass
    /\ queue' = IF rest # <<>> /\ Last(rest) = Delete(expiry_time) THEN rest
                ELSE Append(rest, Delete(expiry_time))
    /\ UNCHANGED <<up, crashes, now, servlet, row, writes, committed>>

Tick ==
    /\ now < MaxTime
    /\ now' = now + 1
    /\ UNCHANGED <<up, crashes, servlet, compass, row, queue, writes, committed>>

-------------------------------------------------------------------------------
\* The MySQL daemon

Execute ==
    /\ up /\ queue # <<>>
    /\ row' = CASE Head(queue) = Sync -> compass
                [] Head(queue).op = "save" -> Head(queue).dao
                [] OTHER -> IF row # NoDao /\ Matches(row, Head(queue).expiry_time)
                            THEN NoDao ELSE row
    /\ queue' = Tail(queue)
    /\ UNCHANGED <<up, crashes, now, servlet, compass, writes, committed>>

\* Memory and queue are gone.
Crash ==
    /\ up /\ crashes < MaxCrashes
    /\ up' = FALSE
    /\ crashes' = crashes + 1
    /\ servlet' = "idle" /\ compass' = NoDao /\ queue' = <<>>
    /\ UNCHANGED <<now, row, writes, committed>>

\* Mutated: the version of a compass that is loaded starts anew.
LoadUnversioned == IF row = NoDao THEN NoDao ELSE [row EXCEPT !.version = 0]

\* Every row becomes a compass, with nothing to save.
Load == row

Restart ==
    /\ ~up
    /\ up' = TRUE
    /\ compass' = Load
    /\ UNCHANGED <<crashes, now, servlet, row, queue, writes, committed>>

Init ==
    /\ up = TRUE
    /\ crashes = 0
    /\ now = ExpiryDuration + 1
    /\ servlet = "idle"
    /\ compass = NoDao /\ row = NoDao
    /\ queue = <<>>
    /\ writes = 0
    /\ committed = {}

Servlet == OpenCompass \/ SetValue \/ SetVersion \/ UpdateLastAccessTime

Next == Servlet \/ gc_timer_proc \/ Tick \/ Execute \/ Crash \/ Restart

Spec == Init /\ [][Next]_vars

\* The daemon's thread keeps executing and, however often the object is
\* modified meanwhile, does not put its save off for ever; a servlet that has
\* begun goes on.
Fairness ==
    /\ WF_vars(Execute)
    /\ SF_vars(queue # <<>> /\ Head(queue) = Sync /\ Execute)
    /\ WF_vars(SetValue \/ SetVersion \/ UpdateLastAccessTime)

FairSpec == Spec /\ Fairness

-------------------------------------------------------------------------------
(***************************************************************************)
(* Properties                                                              *)
(***************************************************************************)

\* A compass in memory is in the table as it is, or a save of it is queued:
\* the DELETE of the collector, which runs later and goes by the table's access
\* time, never leaves a compass that memory kept without its row.
CompassIsBacked ==
    up /\ compass # NoDao => compass = row \/ Contains(queue, Sync)

\* What a crash leaves behind goes together: the value of a write stands in the
\* table under the version it was committed with or, torn between the two
\* assignments of set_value, under the version before; never under a later one,
\* however often the compass has been loaded, written and erased since.
RowsAreVersioned ==
    row # NoDao =>
        \A c \in committed : c.value = row.value =>
            row.version <= c.version /\ c.version <= row.version + 1

\* In the end the table has what memory has, with no further access needed:
\* written compasses have been saved, erased ones have been deleted and are not
\* brought back by a save that was still queued, and what a crash left is what
\* the restarted pilot serves.
TableCatchesUp == <>[](up => row = compass)
================================================================================
