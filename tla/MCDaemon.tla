------------------------------ MODULE MCDaemon ------------------------------
(***************************************************************************)
(* Two connections, one of them to the LDAPS port, or both to the other.   *)
(***************************************************************************)
EXTENDS Daemon

CONSTANTS c1, c2

mcTwo == {c1, c2}
mcPlain == [c \in {c1, c2} |-> "ldap"]
mcOneTls == [c \in {c1, c2} |-> IF c = c2 THEN "ldaps" ELSE "ldap"]
=============================================================================
