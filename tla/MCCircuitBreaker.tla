-------------------------- MODULE MCCircuitBreaker --------------------------
(* Instances of CircuitBreaker for TLC.                                    *)
EXTENDS CircuitBreaker

CONSTANTS r, a, b   \* the background refresher and two API requests

Three == {r, a, b}
=============================================================================
