----------------------------- MODULE MCMetal3 -----------------------------
(* Small instances of Metal3 for TLC. *)
EXTENDS Metal3

CONSTANTS x, y, metal3

OneDevice == <<x>>
TwoDevices == <<x, y>>

\* One active device.
Active == [d \in Device |-> {"active"}]

\* The first device may hold up the loop, the second one has no MAC address.
BrokenThenNoMAC == [d \in Device |-> IF d = x THEN {"active", "broken"} ELSE {"noMAC"}]
===========================================================================
