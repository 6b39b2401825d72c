--------------------------- MODULE MCEdgeService ---------------------------
(* Instances of EdgeService for TLC: one for the decisions and the audit   *)
(* stream, one for the counters and the stats query.                       *)
EXTENDS EdgeService, TLC

CONSTANTS k1, k2, r1, r2, s, q

Keys == {k1, k2}
TwoRequests == {r1, r2}
OneQuery == {q}
OneClient == {s}
None == {}

(* A token that expires within Times, the credential of an issuer, and a   *)
(* document that is no credential.                                         *)
Token ==
  [kind |-> "jwt", parses |-> TRUE, alg |-> "EdDSA", kid |-> {}, signer |-> {k1},
   iss |-> {"i1"}, aud |-> {}, exp |-> {2}, nbf |-> {}, jti |-> {}, scope |-> {}]

Credential ==
  [kind |-> "vc", parses |-> TRUE, id |-> "t1", issuer |-> k1, issued |-> 2,
   expires |-> {}, proof |-> {[method |-> k1, signer |-> {k1}]}]

TokenAndCredential == {Token, Credential}
Presented == {Token, Credential, [Credential EXCEPT !.parses = FALSE]}

NoOverrides == {NoOverride}
AnyOverride == {NoOverride, [audience |-> {}, scopes |-> {"s1"}]}
Open == Permissive

OldSet == <<[kid |-> {"a"}, key |-> k1]>>
NewSet == <<[kid |-> {"b"}, key |-> k2]>>
Rotation == {OldSet, NewSet}
Unrotated == {OldSet}
Clock == 1..2
OneTime == {1}

RequestSymmetry == Permutations(TwoRequests)
=============================================================================
