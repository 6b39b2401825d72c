---------------------------- MODULE MCCachedJwks ----------------------------
(* Instances of CachedJwks for TLC.                                        *)
EXTENDS CachedJwks

CONSTANTS r, a   \* the background refresher and an API request

Two == {r, a}
=============================================================================
