------------------------------- MODULE MCNode -------------------------------
(* An instance of Node for TLC.                                            *)
EXTENDS Node

CONSTANTS r, a   \* the refresher and a request

OneRequest == {a}

(* Timeouts of 3 units, sleeps of 1 and 2: a refresh takes up to 12.       *)
Default == [attempts |-> 3, initial |-> 1, multiplier |-> 2, max |-> 3]

(* Besides: no retry, with a power that outgrows U32 (the second of 3 is   *)
(* 9) at the cap; a single sleep; and a power far above the cap, of which  *)
(* the product (10 * 7) outgrows U64 and would be 6 if it were cut down to *)
(* it before the cap.                                                      *)
SomePolicies ==
  {Default,
   [attempts |-> 0, initial |-> 1, multiplier |-> 3, max |-> 7],
   [attempts |-> 2, initial |-> 2, multiplier |-> 1, max |-> 3],
   [attempts |-> 1, initial |-> 10, multiplier |-> 3, max |-> 9]}

SomePeriods == {1, 13}
SomeDelays == {0, 5, 6}
=============================================================================
