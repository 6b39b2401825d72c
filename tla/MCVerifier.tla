----------------------------- MODULE MCVerifier -----------------------------
(* An instance of VerifierCalls for TLC: cases that vary what concerns the *)
(* keys, the time and the other claims.                                    *)
EXTENDS VerifierCalls

CONSTANTS k1, k2, bad   \* two keys, and a JWK or DID that encodes none

Keys == {k1, k2}

SomeJwt ==
  [kind |-> "jwt", parses |-> TRUE, alg |-> "EdDSA", kid |-> {"a"}, signer |-> {k1},
   iss |-> {"i1"}, aud |-> {}, exp |-> {}, nbf |-> {}, jti |-> {}, scope |-> {}]

SomeVc ==
  [kind |-> "vc", parses |-> TRUE, id |-> "t1", issuer |-> k1, issued |-> 0,
   expires |-> {}, proof |-> {[method |-> k1, signer |-> {k1}]}]

TwoKeys == <<[kid |-> {"a"}, key |-> k1], [kid |-> {"b"}, key |-> k2]>>

CasesOf(docs, keysets, policies) == [doc : docs, jwks : keysets, policy : policies]

(* Keys: who signed what, under which kid, against which key set.          *)
SignedDocuments ==
  {[SomeJwt EXCEPT !.parses = FALSE], [SomeVc EXCEPT !.parses = FALSE]}
  \union
  {[SomeJwt EXCEPT !.alg = g, !.kid = i, !.signer = s] :
     g \in {"EdDSA", "HS256"}, i \in Option({"a", "b"}), s \in Option(Keys)}
  \union
  {[SomeVc EXCEPT !.issuer = d, !.proof = f] :
     d \in {k1, bad}, f \in Option([method : {k1, k2, bad}, signer : Option(Keys)])}

SomeJwks == [kid : Option({"a", "b"}), key : Keys \union {bad}]
SomeKeySets == UNION {[1..n -> SomeJwks] : n \in 0..2}

(* Time: validity windows and leeways, against every clock.  A leeway of 6 *)
(* or 7 takes the sum with a later clock beyond an i64 of 4 bits, and the  *)
(* first instant of an i64 lies further back than one can tell.            *)
Ends == Option({-8} \union 0..4)

TimedDocuments ==
  {[SomeJwt EXCEPT !.exp = e, !.nbf = n] : e \in Ends, n \in Option(0..4)}
  \union
  {[SomeVc EXCEPT !.expires = e, !.issued = n] : e \in Ends, n \in 0..4}

Leeways == {[Permissive EXCEPT !.leeway = l] : l \in {0, 1, 2, 3, 6, 7}}
Clock == 0..4

(* Claims: what a policy and a request's override ask for.                 *)
ClaimDocuments ==
  {[SomeJwt EXCEPT !.iss = i, !.aud = a, !.scope = s, !.jti = j] :
     i \in Option({"i1", "i2"}), a \in Option({{}, {"a1"}, {"a1", "a2"}}),
     s \in SUBSET {"s1", "s2"}, j \in Option({"t1"})}
  \union
  {SomeVc, [SomeVc EXCEPT !.id = "t2"]}

SomePolicies ==
  [trusted : {{}, {"i1"}, {k1}}, audience : Option({"a1"}), scopes : {{}, {"s1"}},
   revoked : {{}, {"t1"}}, leeway : {0}]

SomeCases ==
  CasesOf(SignedDocuments, SomeKeySets, {Permissive})
  \union CasesOf(TimedDocuments, {TwoKeys}, Leeways)
  \union CasesOf(ClaimDocuments, {TwoKeys}, SomePolicies)

SomeOverrides == [audience : Option({"a1", "a2"}), scopes : {{}, {"s2"}}]
=============================================================================
