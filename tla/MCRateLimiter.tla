--------------------------- MODULE MCRateLimiter ---------------------------
(* An instance of RateLimiter for TLC.                                     *)
EXTENDS RateLimiter

(* A rate that is raised to 1, one that divides the second and two that do *)
(* not, and one permit per clock unit.                                     *)
Rates == {0, 2, 4, 5, 8}
=============================================================================
