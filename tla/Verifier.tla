------------------------------ MODULE Verifier ------------------------------
(***************************************************************************)
(* The verification engine (edgeauth-verifier and the edgeauth-types it    *)
(* decides on): pure functions from an artifact, a key set, a policy and   *)
(* the caller's time to an outcome.                                        *)
(*                                                                         *)
(* An Option is the set of at most one element, so is_none_or is \A and    *)
(* is_some_and is \E.  Encodings are abstracted to what they decide: an    *)
(* artifact parses or not; a signature is the key that made it over        *)
(* exactly the bytes that are checked, and no key if there is none; a      *)
(* did:key identifier is the key it encodes, and anything outside Key is   *)
(* an identifier or a JWK that encodes none.  Subject, roles and the other *)
(* claims that are only copied to the outcome are left out.                *)
(*                                                                         *)
(*   jwt     [kind, parses, alg, kid, signer, iss, aud, exp, nbf, jti,     *)
(*           scope]                                                        *)
(*           kid, signer, iss, aud, exp, nbf, jti are Options, an aud is a *)
(*           set of audiences, scope a set of scopes                       *)
(*   vc      [kind, parses, id, issuer, issued, expires, proof]            *)
(*           expires and proof are Options; a proof is [method, signer]    *)
(*   jwks    sequence of [kid, key], kid an Option                         *)
(*   policy  [trusted, audience, scopes, revoked, leeway]                  *)
(*           audience is an Option, trusted, scopes and revoked are sets   *)
(***************************************************************************)
EXTENDS Integers, Sequences

CONSTANTS
  Key,   \* Ed25519 verifying keys
  Half   \* 2^63 in the code: an i64 is in -Half .. Half-1

ASSUME HalfAssumption == Half \in Nat \ {0}

I64 == -Half .. Half - 1

Option(S) == {{}} \union {{x} : x \in S}

(* The sum or difference of two i64 as a release build computes it: the    *)
(* workspace's release profile has no overflow checks, so it wraps.        *)
Wrap(n) ==
  IF n >= Half THEN n - 2 * Half ELSE IF n < -Half THEN n + 2 * Half ELSE n

-----------------------------------------------------------------------------
(* The result of a verification.                                           *)

(* The checks in the order first_failure reports them.                     *)
CheckOrder ==
  <<"signature", "issuer_trusted", "not_before", "not_expired", "audience",
    "scopes", "not_revoked">>

Check == {CheckOrder[i] : i \in DOMAIN CheckOrder}

VerificationChecks ==
  [signature : BOOLEAN, not_expired : BOOLEAN, not_before : BOOLEAN,
   issuer_trusted : BOOLEAN, audience : BOOLEAN, scopes : BOOLEAN,
   not_revoked : BOOLEAN]

HardFailure ==
  [signature |-> FALSE, not_expired |-> FALSE, not_before |-> FALSE,
   issuer_trusted |-> FALSE, audience |-> FALSE, scopes |-> FALSE,
   not_revoked |-> FALSE]

(* VerificationChecks::all                                                 *)
All(checks) == \A c \in Check : checks[c]

AnyFailure(checks) == {c \in Check : ~checks[c]}   \* mutant: all of them

FirstFailure(checks) ==
  {CheckOrder[i] : i \in {i \in DOMAIN CheckOrder :
     ~checks[CheckOrder[i]] /\ \A j \in 1..(i - 1) : checks[CheckOrder[j]]}}

(* VerificationOutcome::rejected: nothing of the artifact is trusted.      *)
Rejected ==
  [valid |-> FALSE, checks |-> HardFailure, issuer |-> {},
   reason |-> {"hard failure"}]

Outcome(issuer, checks) ==
  [valid |-> All(checks), checks |-> checks, issuer |-> issuer,
   reason |-> FirstFailure(checks)]

-----------------------------------------------------------------------------
(* The checks.                                                             *)

(* TrustPolicy::issuer_trusted: an empty list trusts everyone.             *)
IssuerTrusted(policy, issuer) ==
  policy.trusted = {} \/ \E i \in issuer : i \in policy.trusted

NotExpiredClosed(exp, leeway, now) ==   \* mutant: valid in its last second too
  \A e \in exp : Wrap(now - leeway) <= e

NotExpiredRemaining(exp, leeway, now) ==   \* mutant: by the time that remains
  \A e \in exp : Wrap(e - now) > -leeway

(* Expiry and start of validity, of both kinds of artifact.                *)
NotExpired(exp, leeway, now) == \A e \in exp : Wrap(now - leeway) < e

NotBefore(nbf, leeway, now) == \A n \in nbf : Wrap(now + leeway) >= n

AnyNamed(jwks, kid) ==   \* mutant: a token without kid may use any key
  {jwks[i] : i \in {i \in DOMAIN jwks : kid \subseteq jwks[i].kid}}

LastNamed(jwks, kid) ==   \* mutant: a later key of the same kid wins
  {jwks[i] : i \in {i \in DOMAIN jwks :
     \/ kid = {} /\ Len(jwks) = 1
     \/ /\ kid # {} /\ jwks[i].kid = kid
        /\ \A j \in (i + 1)..Len(jwks) : jwks[j].kid # kid}}

(* Jwks::find: the first key of that kid, or the only key if the header    *)
(* names none.                                                             *)
Find(jwks, kid) ==
  {jwks[i] : i \in {i \in DOMAIN jwks :
     \/ kid = {} /\ Len(jwks) = 1
     \/ /\ kid # {} /\ jwks[i].kid = kid
        /\ \A j \in 1..(i - 1) : jwks[j].kid # kid}}

(* SignedJwt::verify_with                                                  *)
JwtSigned(jwt, jwks) ==
  /\ jwt.alg = "EdDSA"
  /\ \E jwk \in Find(jwks, jwt.kid) : jwk.key \in Key /\ jwt.signer = {jwk.key}

AudienceOK(policy, jwt) ==
  \A a \in policy.audience : \E aud \in jwt.aud : a \in aud

JwtChecks(jwt, policy, now) ==
  [signature |-> TRUE,
   not_expired |-> NotExpired(jwt.exp, policy.leeway, now),
   not_before |-> NotBefore(jwt.nbf, policy.leeway, now),
   issuer_trusted |-> IssuerTrusted(policy, jwt.iss),
   audience |-> AudienceOK(policy, jwt),
   scopes |-> policy.scopes \subseteq jwt.scope,
   not_revoked |-> jwt.jti \cap policy.revoked = {}]

VerifyJwt(jwt, jwks, policy, now) ==
  IF jwt.parses /\ JwtSigned(jwt, jwks)
    THEN Outcome(jwt.iss, JwtChecks(jwt, policy, now))
    ELSE Rejected

(* VerifiableCredential::verify_signature                                  *)
VcSigned(vc) ==
  \E p \in vc.proof :
    p.method = vc.issuer /\ vc.issuer \in Key /\ p.signer = {vc.issuer}

(* Audience and scopes do not apply to a credential.                       *)
VcChecks(vc, policy, now) ==
  [signature |-> TRUE,
   not_expired |-> NotExpired(vc.expires, policy.leeway, now),
   not_before |-> NotBefore({vc.issued}, policy.leeway, now),
   issuer_trusted |-> IssuerTrusted(policy, {vc.issuer}),
   audience |-> TRUE,
   scopes |-> TRUE,
   not_revoked |-> vc.id \notin policy.revoked]

VerifyCredential(vc, policy, now) ==
  IF VcSigned(vc)
    THEN Outcome({vc.issuer}, VcChecks(vc, policy, now))
    ELSE Rejected

(* verify_credential_json: {} is Err(VerifyError::Json).                   *)
VerifyCredentialJson(vc, policy, now) ==
  IF vc.parses THEN {VerifyCredential(vc, policy, now)} ELSE {}

-----------------------------------------------------------------------------
(* Policies.                                                               *)

(* TrustPolicy::permissive                                                 *)
Permissive ==
  [trusted |-> {}, audience |-> {}, scopes |-> {}, revoked |-> {}, leeway |-> 0]

ScopesReplaced(policy, over) ==   \* mutant: the override's scopes replace
  IF over.audience = {} /\ over.scopes = {} THEN policy
  ELSE [policy EXCEPT !.audience = IF over.audience = {} THEN @ ELSE over.audience,
                      !.scopes = over.scopes]

(* EdgeVerifier::effective_policy: scopes add up, an audience replaces.    *)
EffectivePolicy(policy, over) ==
  [policy EXCEPT !.audience = IF over.audience = {} THEN @ ELSE over.audience,
                 !.scopes = @ \union over.scopes]

NoOverride == [audience |-> {}, scopes |-> {}]
=============================================================================
