------------------------------ MODULE CompassLock ------------------------------
(***************************************************************************)
(* The recursive readers-writer try-lock of one compass, as a value and    *)
(* the operators on it.  The two multimaps from connection to weak pointer *)
(* are counted: readers[c] and writers[c] say how often connection c is in *)
(* each.  "live" is the set of connections whose object still exists, that *)
(* is whose weak pointers have not expired.                                *)
(***************************************************************************)
EXTENDS Integers

CONSTANT Conns      \* the connections ever accepted, each with its own UUID

NoLocks == [c \in Conns |-> 0]

Lock == [readers: [Conns -> Nat], writers: [Conns -> Nat]]

FreeLock == [readers |-> NoLocks, writers |-> NoLocks]

Readers(l) == {c \in Conns : l.readers[c] > 0}

Writers(l) == {c \in Conns : l.writers[c] > 0}

\* Every operation of the lock starts by dropping the expired weak pointers.
collect_expired_connections(l, live) ==
    [readers |-> [c \in Conns |-> IF c \in live THEN l.readers[c] ELSE 0],
     writers |-> [c \in Conns |-> IF c \in live THEN l.writers[c] ELSE 0]]

is_locked_shared(l) == Readers(l) # {} /\ Writers(l) = {}

is_locked_shared_by(l, c) == c \in Readers(l)

is_locked_exclusive(l) == Writers(l) # {}

is_locked_exclusive_by(l, c) == c \in Writers(l)

\* try_lock_shared succeeds: a recursive acquisition, or every writer is c.
CanLockShared(l, c) == c \in Readers(l) \/ Writers(l) \subseteq {c}

\* Mutated: readers do not keep a writer out.
CanLockAmongReaders(l, c) == c \in Writers(l) \/ Writers(l) = {}

\* try_lock_exclusive succeeds: a recursive acquisition, or there is no
\* writer and every reader is c.
CanLockExclusive(l, c) ==
    \/ c \in Writers(l)
    \/ /\ Readers(l) \subseteq {c}
       /\ Writers(l) = {}

\* The lock with n more (fewer, if negative) entries of c among the readers
\* and m more among the writers.
AddEntries(l, c, n, m) ==
    [readers |-> [l.readers EXCEPT ![c] = @ + n],
     writers |-> [l.writers EXCEPT ![c] = @ + m]]

LockShared(l, c) == AddEntries(l, c, 1, 0)

LockExclusive(l, c) == AddEntries(l, c, 0, 1)

-------------------------------------------------------------------------------
\* Dispositions: what a request wants done with the lock it has taken.

Disposition ==
    [leave_alone           |-> [shared |->  0, exclusive |->  0],
     try_acquire_shared    |-> [shared |->  1, exclusive |->  0],
     try_acquire_exclusive |-> [shared |->  0, exclusive |->  1],
     release_shared        |-> [shared |-> -1, exclusive |->  0],
     release_exclusive     |-> [shared |->  0, exclusive |-> -1]]

\* Mutated: a release is not checked against what is held.
ParsesUnchecked(l, c, d) == d \in DOMAIN Disposition

\* parse_lock_disposition does not throw: the disposition is a known one and
\* the connection holds what it asks to release.
ParsesFor(l, c, d) ==
    /\ d \in DOMAIN Disposition
    /\ Disposition[d].shared < 0 => is_locked_shared_by(l, c)
    /\ Disposition[d].exclusive < 0 => is_locked_exclusive_by(l, c)

\* No assertion of commit_lock_disposition fails: the acquisitions, exclusive
\* first, find the lock available, and the releases find an entry each.
Committable(l, c, shared, exclusive) ==
    /\ exclusive > 0 => CanLockExclusive(l, c)
    /\ shared > 0 => CanLockShared(l, c)
    /\ l.writers[c] + exclusive >= 0
    /\ l.readers[c] + shared >= 0

commit_lock_disposition(l, c, shared, exclusive) == AddEntries(l, c, shared, exclusive)

LockStates == {"free_for_acquisition", "shared_by_me", "shared_by_others",
               "exclusive_by_me", "exclusive_by_others"}

\* Mutated: the cases are tried in another order.
LockStateOthersFirst(l, c) ==
    CASE is_locked_exclusive(l) -> "exclusive_by_others"
      [] ~is_locked_exclusive(l) /\ is_locked_shared_by(l, c) -> "shared_by_me"
      [] is_locked_shared(l) /\ ~is_locked_shared_by(l, c) -> "shared_by_others"
      [] OTHER -> "free_for_acquisition"

get_compass_lock_state(l, c) ==
    CASE is_locked_exclusive_by(l, c) -> "exclusive_by_me"
      [] is_locked_exclusive(l) /\ ~is_locked_exclusive_by(l, c) -> "exclusive_by_others"
      [] ~is_locked_exclusive(l) /\ is_locked_shared_by(l, c) -> "shared_by_me"
      [] is_locked_shared(l) /\ ~is_locked_shared_by(l, c) -> "shared_by_others"
      [] OTHER -> "free_for_acquisition"

-------------------------------------------------------------------------------
\* The lock excludes: there is at most one writer, and while there is one
\* nobody else reads.
Compatible(l) ==
    \A c \in Writers(l) : Writers(l) \cup Readers(l) \subseteq {c}
===============================================================================
