------------------------------- MODULE MCCompass -------------------------------
(* Small instances of Compass. *)
EXTENDS Compass, TLC

CONSTANTS c1, c2, k1, v0, v1, w1

MCSymmetry == Permutations(Conns)

\* No criterion, one that tells the values apart, and two in sequence.
MCCriteria ==
    {<<>>,
     <<[value_cmp |-> v0, value_new |-> v1]>>,
     <<[value_cmp |-> v1, value_new |-> v0], [value_cmp |-> v0, value_new |-> v1]>>}
===============================================================================
