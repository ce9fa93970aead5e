---------------------------- MODULE MCIPUpdate ----------------------------
(* Small instances of IPUpdate for TLC. *)
EXTENDS IPUpdate, TLC

CONSTANTS a, b, ip, d1, d2, lag0, lag1, lag2, nic

\* Both names stand for the same address, one after the other.
SharedAddr == [c \in CR |-> ip]

\* d1 has LAG0 and LAG1, d2 has LAG1; nic is no LAG.
Lag(i) == CASE i = lag0 -> 0 [] i = lag1 -> 1 [] i = lag2 -> 1 [] OTHER -> NoLag
MCLagNum == [i \in Iface |-> Lag(i)]
MCInitOwner == [i \in Iface |-> IF i = lag2 THEN d2 ELSE d1]

\* The names are interchangeable: they start alike and share the address.
Names == Permutations(CR)
===========================================================================
