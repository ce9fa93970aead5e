---------------------------- MODULE MCIronCore ----------------------------
(* Small instances of IronCore for TLC. *)
EXTENDS IronCore

CONSTANTS x, y, l1, l2

OneDevice == <<x>>
TwoDevices == <<x, y>>

\* Any status; all labels are alike at first.
MCInitDevice == {s \in DeviceState : s.label = l1}
===========================================================================
