---------------------------- MODULE TokenBucket ----------------------------
(***************************************************************************)
(* What the rate limiter's documentation promises: "a direct (non-keyed)   *)
(* token-bucket rate limiter" (rate_limit.rs).  A bucket holds up to       *)
(* capacity permits and starts full; a call takes one or, if there is      *)
(* none, is refused; permits come back one by one.                         *)
(***************************************************************************)
EXTENDS Integers

VARIABLES
  capacity,  \* permits the bucket can hold
  permits,   \* permits it holds
  answer     \* what the last call got

vars == <<capacity, permits, answer>>

Answers == {"none", "ok", "limited"}

Init ==
  /\ capacity \in Nat \ {0}
  /\ permits = capacity
  /\ answer = "none"

Take ==
  /\ permits > 0
  /\ permits' = permits - 1
  /\ answer' = "ok"
  /\ UNCHANGED capacity

Refuse ==
  /\ permits = 0
  /\ answer' = "limited"
  /\ UNCHANGED <<capacity, permits>>

Refill ==
  /\ permits < capacity
  /\ permits' = permits + 1
  /\ UNCHANGED <<capacity, answer>>

Next == Take \/ Refuse \/ Refill

Spec == Init /\ [][Next]_vars
=============================================================================
