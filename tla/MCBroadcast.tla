------------------------------ MODULE MCBroadcast ------------------------------
(***************************************************************************)
(* A small instance of Broadcast: two foyers, each with one session at the *)
(* box, and two gates, both connected to both foyers; one client at each   *)
(* gate, both established through the first foyer, so that the second one, *)
(* which is sent the same list, has to leave them alone.                   *)
(***************************************************************************)
EXTENDS Broadcast

CONSTANTS s1, s2, f1, f2, g1, g2, a, b

MCFoyerOf == [s \in Sessions |-> IF s = s2 THEN f2 ELSE f1]
MCGateOf  == [c \in Clients |-> IF c = a THEN g1 ELSE g2]
MCEntryOf == [c \in Clients |-> f1]
===============================================================================
