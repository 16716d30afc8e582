----------------------------- MODULE MessageChannel ----------------------------
(***************************************************************************)
(* What a WebSocket connection promises for the messages that travel one   *)
(* way: a queue from which they are received in the order they were sent   *)
(* in, each once.  As long as the channel is up nothing is lost.  When it  *)
(* breaks, which may be at any time, and any number of times later, the    *)
(* eldest of the messages under way may be lost, never one from the middle *)
(* without those before it; and what has not been lost may still arrive.   *)
(***************************************************************************)
EXTENDS Naturals, Sequences

CONSTANT Data   \* the messages there may be

VARIABLES
    sent,       \* messages that have been sent
    queue,      \* those under way, the eldest first
    received,   \* those that have been received, in order
    up          \* both ends are there

vars == <<sent, queue, received, up>>

TypeOK ==
    /\ sent \subseteq Data
    /\ queue \in Seq(Data)
    /\ received \in Seq(Data)
    /\ up \in BOOLEAN

Init ==
    /\ sent = {}
    /\ queue = <<>>
    /\ received = <<>>
    /\ up = TRUE

\* A new message; nothing else comes into the queue.
Send(m) ==
    /\ m \notin sent
    /\ sent' = sent \cup {m}
    /\ queue' = Append(queue, m)
    /\ UNCHANGED <<received, up>>

Receive ==
    /\ queue # <<>>
    /\ queue' = Tail(queue)
    /\ received' = Append(received, Head(queue))
    /\ UNCHANGED <<sent, up>>

Break ==
    /\ up' = FALSE
    /\ \E lost \in 0..Len(queue) : queue' = SubSeq(queue, lost + 1, Len(queue))
    /\ UNCHANGED <<sent, received>>

Next == (\E m \in Data : Send(m)) \/ Receive \/ Break

Spec == Init /\ [][Next]_vars
================================================================================
