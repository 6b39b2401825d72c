--------------------------- MODULE VerifierCalls ---------------------------
(***************************************************************************)
(* One artifact decided again and again, as the caller's inputs change:    *)
(* time passes, the key set gains a key, a request brings another          *)
(* override.  The engine is stateless, so a call is a step and its outcome *)
(* a function of the inputs; what relates one call to the next is what a   *)
(* host of the engine relies on.                                           *)
(***************************************************************************)
EXTENDS Verifier

CONSTANTS
  Cases,      \* first calls: an artifact of either kind, a key set, a base policy
  Jwk,        \* the entries of key sets
  MaxKeys,    \* bound: entries of a key set
  Overrides,  \* what requests may ask on top of the base policy
  Times       \* bound: values of the caller's clock

Documents == {c.doc : c \in Cases}
KeySets == {c.jwks : c \in Cases}
Policies == {c.policy : c \in Cases}

(* What deserializing an artifact and a configuration guarantees.          *)
ASSUME DocumentsAssumption ==
  \A d \in Documents :
    \/ /\ d.kind = "jwt"
       /\ d.signer \in Option(Key)
       /\ d.exp \in Option(I64) /\ d.nbf \in Option(I64)
    \/ /\ d.kind = "vc"
       /\ \A p \in d.proof : p.signer \in Option(Key)
       /\ d.expires \in Option(I64) /\ d.issued \in I64

ASSUME InputsAssumption ==
  /\ KeySets \subseteq Seq(Jwk)
  /\ \A p \in Policies : p.leeway \in I64
  /\ Times \subseteq I64

VARIABLES
  doc,      \* the artifact
  jwks,     \* JwksProvider::current(), or the host's jwks_json
  policy,   \* the base policy
  over,     \* the request's PolicyOverride
  now,      \* the caller's clock
  outcome   \* the outcome of the last call; {} is an Err

vars == <<doc, jwks, policy, over, now, outcome>>

(* EdgeVerifier::verify_jwt and verify_credential_json; a credential is    *)
(* always decided without an override.                                     *)
Decide(o) ==
  IF doc.kind = "jwt"
    THEN {VerifyJwt(doc, jwks, EffectivePolicy(policy, o), now)}
    ELSE VerifyCredentialJson(doc, EffectivePolicy(policy, NoOverride), now)

Init ==
  /\ \E c \in Cases : doc = c.doc /\ jwks = c.jwks /\ policy = c.policy
  /\ over = NoOverride
  /\ now \in Times
  /\ outcome = Decide(over)

(* The next call is made later, ...                                        *)
Later(t) ==
  /\ t > now
  /\ now' = t
  /\ UNCHANGED <<doc, jwks, policy, over>>

(* ... or after the issuer published one more key, ...                     *)
AddKey(k) ==
  /\ Len(jwks) < MaxKeys
  /\ jwks' = Append(jwks, k)
  /\ UNCHANGED <<doc, policy, over, now>>

(* ... or by a request with an override of its own, or the same again.     *)
Ask(o) ==
  /\ over' = o
  /\ UNCHANGED <<doc, jwks, policy, now>>

Next ==
  /\ \/ \E t \in Times : Later(t)
     \/ \E k \in Jwk : AddKey(k)
     \/ \E o \in Overrides : Ask(o)
  /\ outcome' = Decide(over)'

Spec == Init /\ [][Next]_vars

-----------------------------------------------------------------------------
Accepted == \E o \in outcome : o.valid
SignatureOK == \E o \in outcome : o.checks["signature"]

(* Type invariant of an outcome: a verdict comes with exactly one reason   *)
(* when it is a rejection and with none when it is not.                    *)
TypeOK ==
  \A o \in outcome :
    /\ o.valid \in BOOLEAN
    /\ o.checks \in VerificationChecks
    /\ o.reason \in {{}} \union {{r} : r \in Check \union {"hard failure"}}
    /\ o.valid <=> o.reason = {}

(* The artifact is what its issuer signed, with a key the caller trusts    *)
(* for it: under the kid it names, or the only key if it names none.  A    *)
(* credential is signed by the key that is its issuer.                     *)
Authentic ==
  IF doc.kind = "jwt"
    THEN /\ doc.parses /\ doc.alg = "EdDSA"
         /\ \E i \in DOMAIN jwks :
              /\ doc.signer = {jwks[i].key}
              /\ IF doc.kid = {} THEN Len(jwks) = 1 ELSE doc.kid = jwks[i].kid
    ELSE \E p \in doc.proof : p.signer = {doc.issuer} /\ p.method = doc.issuer

(* Key ids a set uses once only.                                           *)
DistinctKids ==
  \A i, j \in DOMAIN jwks : jwks[i].kid = jwks[j].kid => i = j

(* An artifact's claims are trusted only if it is authentic; and it is     *)
(* never taken for a forgery if the key set uses each kid once.            *)
SignatureIffAuthentic ==
  /\ SignatureOK \/ (\E o \in outcome : o.valid \/ o.issuer # {}) => Authentic
  /\ Authentic /\ DistinctKids /\ outcome # {} => SignatureOK

ValidFrom == IF doc.kind = "jwt" THEN doc.nbf ELSE {doc.issued}
ValidUntil == IF doc.kind = "jwt" THEN doc.exp ELSE doc.expires

(* What leeway is for: an authentic artifact is within its time exactly if *)
(* some clock, at most leeway away from the caller's, shows an instant at  *)
(* which it is valid.  Stated for artifacts that are valid at some instant *)
(* and for sums that an i64 can hold.                                      *)
SkewTolerated ==
  LET shown == now - policy.leeway .. now + policy.leeway
      fits(t) == (\A n \in ValidFrom : n <= t) /\ (\A e \in ValidUntil : t < e)
  IN  /\ SignatureOK
      /\ \A n \in ValidFrom, e \in ValidUntil : n < e
      /\ policy.leeway >= 0 /\ shown \subseteq I64
      => \A o \in outcome :
           o.checks["not_before"] /\ o.checks["not_expired"] <=> \E t \in shown : fits(t)

(* Whatever the leeway, a sum that wraps around never admits an artifact   *)
(* out of its time: of a clock after 1970 and a leeway that is one, the    *)
(* code accepts only what unbounded arithmetic accepts.                    *)
WrapNeverAdmits ==
  Accepted /\ now >= 0 /\ policy.leeway >= 0 =>
    /\ \A n \in ValidFrom : now + policy.leeway >= n
    /\ \A e \in ValidUntil : now - policy.leeway < e

(* A request's override never loosens anything but the audience: what it   *)
(* accepts, the base policy would reject for the audience at most.         *)
OverrideKeepsRest ==
  Accepted =>
    \A o \in Decide(NoOverride), c \in Check \ {"audience"} : o.checks[c]

(* A key that joins the set never changes the verdict on a token that a    *)
(* key of the set already verified under the kid it names: keys can be     *)
(* published ahead of their use.                                           *)
NewKeyKeepsVerdicts ==
  [][\A k \in Jwk :
        AddKey(k) /\ Accepted /\ (doc.kind = "jwt" => doc.kid # {}) => Accepted']_vars

=============================================================================
