-------------------------- MODULE MCDeviceUpdate --------------------------
(* Small instances of DeviceUpdate for TLC. *)
EXTENDS DeviceUpdate

CONSTANTS x, y, board, extra, yboard, a, b, c

TwoDevices == <<x, y>>

\* x has a board and a vmk interface with an address each, y has a board.
MCDeviceOf == [i \in Iface |-> IF i = yboard THEN y ELSE x]
\* y may have its platform without its OOB address; x has neither.
MCInitGarden == [d \in Device |-> IF d = y THEN BOOLEAN ELSE {FALSE}]
MCInitNames == [i \in Iface |-> CASE i = board -> {"vendor"}
                                  [] i = extra -> {"vmk"}
                                  [] OTHER -> {"remoteboard"}]
MCInitIface == [z \in Addr |-> CASE z = a -> board [] z = b -> yboard [] OTHER -> extra]
===========================================================================
