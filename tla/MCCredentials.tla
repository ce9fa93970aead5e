--------------------------- MODULE MCCredentials ---------------------------
(* Small instances of Credentials for TLC. *)
EXTENDS Credentials

CONSTANTS ironcore, ipupdate
===========================================================================
