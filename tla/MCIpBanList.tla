------------------------------ MODULE MCIpBanList ------------------------------
(* Small instances of IpBanList. *)
EXTENDS IpBanList, TLC

CONSTANTS ip1, ip2, http, auth

MCSymmetry == Permutations(Ips)

MCCounterMax == [c \in Counters |-> IF c = auth THEN 2 ELSE 3]
===============================================================================
