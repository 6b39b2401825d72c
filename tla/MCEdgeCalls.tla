---------------------------- MODULE MCEdgeCalls -----------------------------
(* An instance of EdgeCalls for TLC: texts mixed up from a few issued ones *)
(* against every small key set, and whole ones against configurations,     *)
(* hosts and times.                                                        *)
EXTENDS EdgeCalls

CONSTANTS k0, k1, k2, k3, i1, i2

Keys == {k0, k1, k2, k3}

SomeSigner == [s \in 0 .. 3 |-> CASE s = 0 -> k0 [] s = 1 -> k1 [] s = 2 -> k2 [] s = 3 -> k3]

-----------------------------------------------------------------------------
(* Tokens: two issuers, a header of another algorithm, one without kid.    *)
Header(alg, kid) == [form |-> "header", alg |-> alg, kid |-> kid]

Claims1 ==
  [NoClaims EXCEPT !.iss = {i1}, !.aud = {<<"edge-api">>}, !.nbf = {2}, !.exp = {3},
                   !.jti = {"t1"}, !.scope = {<<"s1", "s2">>}]
Claims2 == [NoClaims EXCEPT !.iss = {i2}, !.aud = {<<"other-api", "edge-api">>}]

Tokens ==
  {EncodeJwt(Header("EdDSA", {"a"}), Claims1, k0), EncodeJwt(Header("EdDSA", {"b"}), Claims2, k1),
   EncodeJwt(Header("HS256", {"a"}), Claims1, k0), EncodeJwt(Header("EdDSA", {}), Claims1, k0)}

Unread == {Garbled, [form |-> "bytes"]}
Part(i) == {t.segments[i] : t \in Tokens}

TokensMixed ==
  {[kind |-> "jwt", segments |-> s] :
     s \in ((Part(1) \union Part(2) \union Unread)
            \X (Part(2) \union {Header("EdDSA", {"a"})} \union Unread)
            \X (Part(3) \union Unread))}

TokensCut ==
  {[kind |-> "jwt", segments |-> SubSeq(t.segments, 1, 2)] : t \in Tokens}
  \union {[kind |-> "jwt", segments |-> Append(t.segments, Garbled)] : t \in Tokens}

-----------------------------------------------------------------------------
(* Credentials: two, and what mixing up their parts makes of them.         *)
Vc(id, key, level, issued, expires) ==
  [kind |-> "vc", json |-> TRUE, id |-> id, subject |-> [id |-> DidOf(k2), kyc_level |-> level],
   issuer |-> DidOf(key), issued |-> issued, expires |-> expires, proof |-> {}]

Vc1 == SignVc(Vc("c1", k1, "gold", 2, {3}), k1, 5)
Vc2 == SignVc(Vc("c2", k3, "none", 0, {}), k3, 6)

FlawedDids == {[flaws |-> f, key |-> k1] : f \in {{x} : x \in DidFlaws} \union {{"codec", "point"}}}

Proofs ==
  UNION {v.proof : v \in {Vc1, Vc2}}
  \union {[p EXCEPT !.method = DidOf(k3)] : p \in Vc1.proof}
  \union {[p EXCEPT !.created = 9] : p \in Vc1.proof}
  \union {[p EXCEPT !.signature = g] : p \in Vc1.proof, g \in Unread}

VcsMixed ==
  {[Vc1 EXCEPT !.proof = p] : p \in Option(Proofs)}
  \union {[Vc1 EXCEPT !.id = Vc2.id], [Vc1 EXCEPT !.subject = Vc2.subject],
          [Vc1 EXCEPT !.issued = Vc2.issued], [Vc1 EXCEPT !.expires = Vc2.expires],
          [Vc1 EXCEPT !.issuer = Vc2.issuer], [Vc1 EXCEPT !.json = FALSE], Vc2}
  \union {[Vc1 EXCEPT !.issuer = d, !.proof = {[p EXCEPT !.method = d] : p \in Vc1.proof}] :
            d \in FlawedDids}

(* What nobody issued: signed with keys of one's own.                      *)
Forged ==
  {EncodeJwt(Header("EdDSA", {"a"}), Claims1, k3),
   SignVc(Vc1, k3, 5),
   [Vc1 EXCEPT !.proof = {[method |-> DidOf(k3), created |-> 5,
                           signature |-> Sign(k3, Payload(Vc1))]}]}

SomeIssued == Tokens \union {Vc1, Vc2}

-----------------------------------------------------------------------------
SomeJwks ==
  {JwkOf(k0, "a"), JwkOf(k1, "b"), JwkOf(k1, "a"), [JwkOf(k0, "a") EXCEPT !.kid = {}],
   [JwkOf(k0, "a") EXCEPT !.flaws = {"base64", "point"}]}

BothKeys == <<JwkOf(k0, "a"), JwkOf(k1, "b")>>

WholeHost == [policy |-> "whole", jwks |-> "whole"]
SomeHosts == [policy : {"whole", "empty", "cut"}, jwks : {"whole", "cut"}]

DefaultArgs == [seed |-> 0, issuer |-> i1, trusted |-> {DidOf(k1)}, audience |-> {}, leeway |-> 0]

(* Seed 3 wraps around: its credentials are signed with the key of seed 0. *)
SomeArgs ==
  [seed : {0, 3}, issuer : {i1, i2}, trusted : {{}, {DidOf(k1)}, {i2, DidOf(k0), DidOf(k3)}},
   audience : Option({"edge-api", "other-api"}), leeway : {0, 1}]

(* Texts mixed up are first seen when the issued ones are valid, and by a  *)
(* node that has no key yet.                                               *)
SomeCases ==
  [text : TokensMixed \union TokensCut \union Forged, jwks : {<<>>},
   args : {DefaultArgs}, host : {WholeHost}, instant : {4}]
  \union
  [text : SomeIssued, jwks : {BothKeys}, args : SomeArgs, host : {WholeHost}, instant : {0}]
  \union
  [text : Tokens \union VcsMixed, jwks : {BothKeys}, args : {DefaultArgs},
   host : SomeHosts, instant : {4}]

SomeOverrides ==
  {NoOverride, [audience |-> {"other-api"}, scopes |-> {}],
   [audience |-> {"edge-api"}, scopes |-> {"s1"}]}

(* Half seconds, around the start and the end of the validity of texts.    *)
SomeInstants == {0, 3, 4, 5, 6, 7}
=============================================================================
