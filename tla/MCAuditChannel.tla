--------------------------- MODULE MCAuditChannel ---------------------------
(* Instances of AuditChannel for TLC.                                      *)
EXTENDS AuditChannel

CONSTANTS a, b   \* a client that stays and reads, and one that may not

Clients == {a, b}
Stays == {a}
Verdicts == {"accepted", "rejected"}
=============================================================================
