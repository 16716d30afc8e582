----------------------------- MODULE LockedRegister -----------------------------
(***************************************************************************)
(* What the pilot promises for one key: a versioned register with a        *)
(* readers-writer lock held by connections.  A request of a connection     *)
(* takes the lock for a moment at least; it may keep or give up locks in   *)
(* the same step, and writes only while nobody else is in the lock.  The   *)
(* register may be forgotten, locks and all.                               *)
(***************************************************************************)
EXTENDS Naturals

CONSTANTS Conns, Values, EmptyValue

VARIABLES value, version, readers, writers

vars == <<value, version, readers, writers>>

TypeOK ==
    /\ value \in Values
    /\ version \in Nat
    /\ readers \subseteq Conns
    /\ writers \subseteq Conns

\* The connections other than c that are in the lock.
Others(c) == (readers \cup writers) \ {c}

\* Connections in gone, not c, leave; c may enter or leave.
OthersOnlyLeave(c, gone) ==
    /\ readers' \ {c} = (readers \ gone) \ {c}
    /\ writers' \ {c} = (writers \ gone) \ {c}

Read(c) ==
    /\ \E gone \in SUBSET (Conns \ {c}) : OthersOnlyLeave(c, gone)
    /\ c \in readers' \ readers => writers \subseteq {c}
    /\ c \in writers' \ writers => Others(c) = {}
    /\ UNCHANGED <<value, version>>

Write(c) ==
    /\ Others(c) = {}
    /\ readers' \subseteq {c}
    /\ writers' \subseteq {c}
    /\ value' \in Values
    /\ version' = version + 1

\* Connections are destroyed.
Leave ==
    /\ readers' \subseteq readers
    /\ writers' \subseteq writers
    /\ UNCHANGED <<value, version>>

Forget ==
    /\ value' = EmptyValue
    /\ version' = 0
    /\ readers' = {}
    /\ writers' = {}

Init ==
    /\ value \in Values
    /\ version \in Nat
    /\ readers = {}
    /\ writers = {}

Next == (\E c \in Conns : Read(c) \/ Write(c)) \/ Leave \/ Forget

Spec == Init /\ [][Next]_vars

\* While a connection is a writer, no other is a reader or a writer.
Exclusion == \A c \in writers : Others(c) = {}
===============================================================================
