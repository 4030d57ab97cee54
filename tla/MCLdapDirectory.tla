--------------------------- MODULE MCLdapDirectory ---------------------------
(* An instance of LdapDirectory for TLC.                                   *)
EXTENDS LdapDirectory

CONSTANTS u1, u2, d1, d2, p1

TwoUsers   == {u1, u2}
TwoDomains == {d1, d2}
OnePhoto   == {p1}

AllFaults == {"database", "crash"}
=============================================================================
