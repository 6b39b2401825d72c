--------------------------- MODULE VerifierProofs ---------------------------
(* Theorems about the engine, for every set of artifacts, key sets,        *)
(* policies, overrides and times that deserialization can produce.         *)
EXTENDS VerifierCalls, TLAPS

(* The inputs keep their types, and the outcome is always that of the      *)
(* current inputs; the properties then follow state by state.              *)
InputsTyped ==
  /\ doc \in Documents
  /\ jwks \in Seq(Jwk)
  /\ policy \in Policies
  /\ now \in Times

IInv == InputsTyped /\ outcome = Decide(over)

-----------------------------------------------------------------------------
LEMMA InitInvariant == Init => IInv
  BY InputsAssumption DEF Init, IInv, InputsTyped, Documents, KeySets, Policies

LEMMA NextInvariant == IInv /\ [Next]_vars => IInv'
<1> SUFFICES ASSUME IInv, [Next]_vars PROVE IInv'
  OBVIOUS
<1>1. CASE Next
  <2>1. outcome' = Decide(over)'
    BY <1>1 DEF Next
  <2>2. InputsTyped'
    BY <1>1 DEF Next, Later, AddKey, Ask, IInv, InputsTyped
  <2> QED
    BY <2>1, <2>2 DEF IInv
<1>2. CASE UNCHANGED vars
  BY <1>2 DEF vars, IInv, InputsTyped, Decide
<1> QED
  BY <1>1, <1>2

LEMMA Invariance == Spec => []IInv
  BY InitInvariant, NextInvariant, PTL DEF Spec

-----------------------------------------------------------------------------
(* What an outcome says, by the kind of artifact.                          *)

LEMMA Checks == Check = {"signature", "issuer_trusted", "not_before", "not_expired",
                         "audience", "scopes", "not_revoked"}
  BY DEF Check, CheckOrder

LEMMA JwtOutcome ==
  ASSUME NEW d, NEW ks, NEW p, NEW t
  PROVE  LET o == VerifyJwt(d, ks, p, t)
         IN  /\ d.parses /\ JwtSigned(d, ks) =>
                  /\ o.checks["signature"]
                  /\ o.checks = JwtChecks(d, p, t)
                  /\ o.valid = All(JwtChecks(d, p, t))
             /\ o.checks["signature"] \/ o.valid \/ o.issuer # {} =>
                  d.parses /\ JwtSigned(d, ks)
  BY Checks DEF VerifyJwt, Outcome, Rejected, HardFailure, JwtChecks

LEMMA VcOutcome ==
  ASSUME NEW d, NEW p, NEW t
  PROVE  LET o == VerifyCredential(d, p, t)
         IN  /\ VcSigned(d) =>
                  /\ o.checks["signature"]
                  /\ o.checks = VcChecks(d, p, t)
                  /\ o.valid = All(VcChecks(d, p, t))
             /\ o.checks["signature"] \/ o.valid \/ o.issuer # {} => VcSigned(d)
  BY Checks DEF VerifyCredential, Outcome, Rejected, HardFailure, VcChecks

(* What find returns has the kid that was asked for, or stands alone; and  *)
(* where kids are distinct, it is found if it is there.                    *)
LEMMA FindSound ==
  ASSUME NEW ks \in Seq(Jwk), NEW kid, NEW jwk \in Find(ks, kid)
  PROVE  \E i \in DOMAIN ks :
           /\ jwk = ks[i]
           /\ IF kid = {} THEN Len(ks) = 1 ELSE kid = ks[i].kid
  BY DEF Find

LEMMA FindComplete ==
  ASSUME NEW ks \in Seq(Jwk), NEW kid, NEW i \in DOMAIN ks,
         IF kid = {} THEN Len(ks) = 1 ELSE kid = ks[i].kid,
         \A m, n \in DOMAIN ks : ks[m].kid = ks[n].kid => m = n
  PROVE  ks[i] \in Find(ks, kid)
<1>1. CASE kid = {}
  BY <1>1 DEF Find
<1>2. CASE kid # {}
  <2>1. ASSUME NEW j \in 1..(i - 1) PROVE ks[j].kid # kid
    BY <1>2, <2>1
  <2> QED
    BY <1>2, <2>1 DEF Find
<1> QED
  BY <1>1, <1>2

LEMMA DocumentKinds == InputsTyped => doc.kind \in {"jwt", "vc"}
  BY DocumentsAssumption DEF InputsTyped

(* The state's outcome, by the kind of the artifact.                       *)
LEMMA OutcomeOf ==
  ASSUME IInv
  PROVE  /\ doc.kind = "jwt" =>
              outcome = {VerifyJwt(doc, jwks, EffectivePolicy(policy, over), now)}
         /\ doc.kind = "vc" /\ outcome # {} =>
              outcome = {VerifyCredential(doc, EffectivePolicy(policy, NoOverride), now)}
  BY DEF IInv, Decide, VerifyCredentialJson

-----------------------------------------------------------------------------
LEMMA SignatureFact == IInv => SignatureIffAuthentic
<1> SUFFICES ASSUME IInv PROVE SignatureIffAuthentic
  OBVIOUS
<1> USE DEF IInv, InputsTyped
<1>1. CASE doc.kind = "jwt"
  <2> DEFINE o == VerifyJwt(doc, jwks, EffectivePolicy(policy, over), now)
  <2>1. outcome = {o}
    BY <1>1, OutcomeOf
  <2>2. o.checks["signature"] \/ o.valid \/ o.issuer # {} => Authentic
    <3> SUFFICES ASSUME doc.parses, JwtSigned(doc, jwks) PROVE Authentic
      BY JwtOutcome
    <3>1. PICK jwk \in Find(jwks, doc.kid) : doc.signer = {jwk.key}
      BY DEF JwtSigned
    <3> QED
      BY <1>1, <3>1, FindSound DEF JwtSigned, Authentic
  <2>3. ASSUME Authentic, DistinctKids PROVE o.checks["signature"]
    <3>1. PICK i \in DOMAIN jwks :
            /\ doc.signer = {jwks[i].key}
            /\ IF doc.kid = {} THEN Len(jwks) = 1 ELSE doc.kid = jwks[i].kid
      BY <1>1, <2>3 DEF Authentic
    <3>2. jwks[i] \in Find(jwks, doc.kid)
      BY <2>3, <3>1, FindComplete DEF DistinctKids
    <3>3. jwks[i].key \in Key
      BY <1>1, <3>1, DocumentsAssumption DEF Option
    <3>4. doc.parses /\ JwtSigned(doc, jwks)
      BY <1>1, <2>3, <3>1, <3>2, <3>3 DEF Authentic, JwtSigned
    <3> QED
      BY <3>4, JwtOutcome
  <2> QED
    BY <2>1, <2>2, <2>3 DEF SignatureIffAuthentic, SignatureOK
<1>2. CASE doc.kind = "vc" /\ outcome # {}
  <2> DEFINE o == VerifyCredential(doc, EffectivePolicy(policy, NoOverride), now)
  <2>1. outcome = {o}
    BY <1>2, OutcomeOf
  <2>2. o.checks["signature"] \/ o.valid \/ o.issuer # {} => Authentic
    BY <1>2, VcOutcome DEF VcSigned, Authentic
  <2>3. ASSUME Authentic PROVE o.checks["signature"]
    <3>1. PICK p \in doc.proof : p.signer = {doc.issuer} /\ p.method = doc.issuer
      BY <1>2, <2>3 DEF Authentic
    <3>2. p.signer \in Option(Key)
      BY <1>2, <3>1, DocumentsAssumption
    <3>3. doc.issuer \in Key
      BY <3>1, <3>2 DEF Option
    <3> QED
      BY <3>1, <3>3, VcOutcome DEF VcSigned
  <2> QED
    BY <2>1, <2>2, <2>3 DEF SignatureIffAuthentic, SignatureOK
<1>3. CASE outcome = {}
  BY <1>3 DEF SignatureIffAuthentic, SignatureOK
<1> QED
  BY <1>1, <1>2, <1>3, DocumentKinds

(* An artifact's claims are trusted only if it is authentic, and it is     *)
(* never taken for a forgery where the key set uses each kid once.         *)
THEOREM SignatureSound == Spec => []SignatureIffAuthentic
  BY Invariance, SignatureFact, PTL

-----------------------------------------------------------------------------
LEMMA ShownFacts ==
  ASSUME InputsTyped
  PROVE  /\ now \in Int /\ policy.leeway \in Int
         /\ policy.leeway >= 0 /\ (now - policy.leeway .. now + policy.leeway) \subseteq I64
              => /\ Wrap(now - policy.leeway) = now - policy.leeway
                 /\ Wrap(now + policy.leeway) = now + policy.leeway
<1>1. now \in Int /\ policy.leeway \in Int
  BY InputsAssumption, HalfAssumption DEF InputsTyped, I64
<1>2. ASSUME policy.leeway >= 0, (now - policy.leeway .. now + policy.leeway) \subseteq I64
      PROVE  /\ Wrap(now - policy.leeway) = now - policy.leeway
             /\ Wrap(now + policy.leeway) = now + policy.leeway
  <2>1. now - policy.leeway \in I64 /\ now + policy.leeway \in I64
    BY <1>1, <1>2
  <2> QED
    BY <1>1, <2>1, HalfAssumption DEF Wrap, I64
<1> QED
  BY <1>1, <1>2

(* The arithmetic of the leeway: of two bounds that leave some instant     *)
(* between them, both hold with the leeway iff one shown instant meets     *)
(* both.                                                                   *)
LEMMA SkewArithmetic ==
  ASSUME NEW from \in Option(Int), NEW until \in Option(Int),
         \A n \in from, e \in until : n < e,
         NEW t \in Int, NEW l \in Nat
  PROVE  /\ \A n \in from : t + l >= n
         /\ \A e \in until : t - l < e
         <=> \E s \in t - l .. t + l :
               (\A n \in from : n <= s) /\ (\A e \in until : s < e)
<1> SUFFICES ASSUME \A n \in from : t + l >= n, \A e \in until : t - l < e
             PROVE  \E s \in t - l .. t + l :
                      (\A n \in from : n <= s) /\ (\A e \in until : s < e)
  BY DEF Option
<1>1. CASE \A n \in from : n <= t - l
  BY <1>1
<1>2. CASE \E n \in from : n > t - l
  <2>1. PICK n \in Int : from = {n} /\ n > t - l
    BY <1>2 DEF Option
  <2> QED
    BY <2>1
<1> QED
  BY <1>1, <1>2 DEF Option

LEMMA SkewFact == IInv => SkewTolerated
<1> SUFFICES ASSUME IInv, SignatureOK,
                    \A n \in ValidFrom, e \in ValidUntil : n < e,
                    policy.leeway >= 0,
                    (now - policy.leeway .. now + policy.leeway) \subseteq I64,
                    NEW o \in outcome
             PROVE  o.checks["not_before"] /\ o.checks["not_expired"] <=>
                      \E s \in now - policy.leeway .. now + policy.leeway :
                        (\A n \in ValidFrom : n <= s) /\ (\A e \in ValidUntil : s < e)
  BY DEF SkewTolerated
<1> USE DEF IInv
<1> DEFINE l == policy.leeway
<1>1. /\ now \in Int /\ l \in Nat
      /\ Wrap(now - l) = now - l /\ Wrap(now + l) = now + l
  BY ShownFacts
<1>2. I64 \subseteq Int
  BY HalfAssumption DEF I64
<1>3. ValidFrom \in Option(Int) /\ ValidUntil \in Option(Int)
  <2>1. CASE doc.kind = "jwt"
    BY <1>2, <2>1, DocumentsAssumption DEF InputsTyped, ValidFrom, ValidUntil, Option
  <2>2. CASE doc.kind = "vc"
    BY <1>2, <2>2, DocumentsAssumption DEF InputsTyped, ValidFrom, ValidUntil, Option
  <2> QED
    BY <2>1, <2>2, DocumentKinds
<1>4. /\ o.checks["not_before"] = NotBefore(ValidFrom, l, now)
      /\ o.checks["not_expired"] = NotExpired(ValidUntil, l, now)
  <2>1. CASE doc.kind = "jwt"
    <3>1. o.checks = JwtChecks(doc, EffectivePolicy(policy, over), now)
      BY <2>1, OutcomeOf, JwtOutcome DEF SignatureOK
    <3>2. EffectivePolicy(policy, over).leeway = l
      BY DEF EffectivePolicy
    <3> QED
      BY <2>1, <3>1, <3>2 DEF JwtChecks, ValidFrom, ValidUntil
  <2>2. CASE doc.kind = "vc"
    <3>1. o.checks = VcChecks(doc, EffectivePolicy(policy, NoOverride), now)
      BY <2>2, OutcomeOf, VcOutcome DEF SignatureOK
    <3>2. EffectivePolicy(policy, NoOverride).leeway = l
      BY DEF EffectivePolicy
    <3> QED
      BY <2>2, <3>1, <3>2 DEF VcChecks, ValidFrom, ValidUntil
  <2> QED
    BY <2>1, <2>2, DocumentKinds
<1>5. /\ NotBefore(ValidFrom, l, now) <=> \A n \in ValidFrom : now + l >= n
      /\ NotExpired(ValidUntil, l, now) <=> \A e \in ValidUntil : now - l < e
  BY <1>1 DEF NotBefore, NotExpired
<1> HIDE DEF l
<1>6. /\ \A n \in ValidFrom : now + l >= n
      /\ \A e \in ValidUntil : now - l < e
      <=> \E s \in now - l .. now + l :
            (\A n \in ValidFrom : n <= s) /\ (\A e \in ValidUntil : s < e)
  BY <1>1, <1>3, SkewArithmetic
<1> QED
  BY <1>4, <1>5, <1>6 DEF l

(* An artifact is within its time exactly if some clock at most leeway     *)
(* away from the caller's shows an instant at which it is valid.           *)
THEOREM SkewSound == Spec => []SkewTolerated
  BY Invariance, SkewFact, PTL

-----------------------------------------------------------------------------
(* A sum of two i64, not negative, either fits or wraps below zero; their  *)
(* difference always fits.                                                 *)
LEMMA WrapArithmetic ==
  ASSUME NEW t \in Int, NEW l \in Int, 0 <= t, t < Half, 0 <= l, l < Half
  PROVE  /\ \A n \in Int : Wrap(t + l) >= n => t + l >= n
         /\ Wrap(t - l) = t - l
BY HalfAssumption DEF Wrap

LEMMA WrapFact == IInv => WrapNeverAdmits
<1> SUFFICES ASSUME IInv, Accepted, now >= 0, policy.leeway >= 0
             PROVE  /\ \A n \in ValidFrom : now + policy.leeway >= n
                    /\ \A e \in ValidUntil : now - policy.leeway < e
  BY DEF WrapNeverAdmits
<1> USE DEF IInv
<1> DEFINE l == policy.leeway
<1>1. now \in Int /\ l \in Int /\ now < Half /\ l < Half
  BY InputsAssumption, HalfAssumption DEF InputsTyped, I64
<1>2. ValidFrom \subseteq Int
  <2>1. I64 \subseteq Int
    BY HalfAssumption DEF I64
  <2> QED
    BY <2>1, DocumentsAssumption, DocumentKinds DEF InputsTyped, ValidFrom, Option
<1>3. NotBefore(ValidFrom, l, now) /\ NotExpired(ValidUntil, l, now)
  <2>1. PICK o \in outcome : o.valid
    BY DEF Accepted
  <2>2. CASE doc.kind = "jwt"
    <3> DEFINE p == EffectivePolicy(policy, over)
               checks == JwtChecks(doc, p, now)
    <3>1. o = VerifyJwt(doc, jwks, p, now)
      BY <2>1, <2>2, OutcomeOf
    <3>2. p.leeway = l
      BY DEF EffectivePolicy
    <3> HIDE DEF p
    <3>3. All(checks)
      BY <2>1, <3>1, JwtOutcome
    <3>4. checks["not_before"] /\ checks["not_expired"]
      BY <3>3, Checks DEF All
    <3>5. /\ checks["not_before"] = NotBefore(doc.nbf, p.leeway, now)
          /\ checks["not_expired"] = NotExpired(doc.exp, p.leeway, now)
      BY DEF JwtChecks
    <3> QED
      BY <2>2, <3>2, <3>4, <3>5 DEF ValidFrom, ValidUntil
  <2>3. CASE doc.kind = "vc"
    <3> DEFINE p == EffectivePolicy(policy, NoOverride)
               checks == VcChecks(doc, p, now)
    <3>1. o = VerifyCredential(doc, p, now)
      BY <2>1, <2>3, OutcomeOf
    <3>2. p.leeway = l
      BY DEF EffectivePolicy
    <3> HIDE DEF p
    <3>3. All(checks)
      BY <2>1, <3>1, VcOutcome
    <3>4. checks["not_before"] /\ checks["not_expired"]
      BY <3>3, Checks DEF All
    <3>5. /\ checks["not_before"] = NotBefore({doc.issued}, p.leeway, now)
          /\ checks["not_expired"] = NotExpired(doc.expires, p.leeway, now)
      BY DEF VcChecks
    <3> QED
      BY <2>3, <3>2, <3>4, <3>5 DEF ValidFrom, ValidUntil
  <2> QED
    BY <2>2, <2>3, DocumentKinds
<1> HIDE DEF l
<1>4. /\ \A n \in Int : Wrap(now + l) >= n => now + l >= n
      /\ Wrap(now - l) = now - l
  BY <1>1, WrapArithmetic DEF l
<1> QED
  BY <1>2, <1>3, <1>4 DEF NotBefore, NotExpired, l

(* A sum that wraps around never admits an artifact out of its time, for   *)
(* every width of the integers.                                            *)
THEOREM WrapSafe == Spec => []WrapNeverAdmits
  BY Invariance, WrapFact, PTL

-----------------------------------------------------------------------------
(* An override shares all but the audience and the scopes with the base    *)
(* policy, whose scopes it contains.                                       *)
LEMMA OverrideShares ==
  ASSUME NEW p, NEW o
  PROVE  LET q == EffectivePolicy(p, o)
         IN  /\ q.trusted = p.trusted /\ q.revoked = p.revoked /\ q.leeway = p.leeway
             /\ p.scopes \subseteq q.scopes
  BY DEF EffectivePolicy

LEMMA OverrideFact == IInv => OverrideKeepsRest
<1> SUFFICES ASSUME IInv, Accepted,
                    NEW o \in Decide(NoOverride), NEW c \in Check \ {"audience"}
             PROVE  o.checks[c]
  BY DEF OverrideKeepsRest
<1> USE DEF IInv
<1>1. CASE doc.kind = "jwt"
  <2> DEFINE asked == EffectivePolicy(policy, over)
             base == EffectivePolicy(policy, NoOverride)
  <2>1. /\ doc.parses /\ JwtSigned(doc, jwks)
        /\ All(JwtChecks(doc, asked, now))
    BY <1>1, OutcomeOf, JwtOutcome DEF Accepted
  <2>2. o.checks = JwtChecks(doc, base, now)
    BY <1>1, <2>1, JwtOutcome DEF Decide
  <2>3. /\ asked.trusted = base.trusted /\ asked.revoked = base.revoked
        /\ asked.leeway = base.leeway
        /\ base.scopes \subseteq asked.scopes
    BY OverrideShares DEF EffectivePolicy, NoOverride
  <2>4. \A k \in Check : JwtChecks(doc, asked, now)[k]
    BY <2>1 DEF All
  <2> HIDE DEF asked, base
  <2>5. /\ NotExpired(doc.exp, asked.leeway, now) /\ NotBefore(doc.nbf, asked.leeway, now)
        /\ IssuerTrusted(asked, doc.iss)
        /\ asked.scopes \subseteq doc.scope
        /\ doc.jti \cap asked.revoked = {}
    BY <2>4, Checks DEF JwtChecks
  <2>6. /\ NotExpired(doc.exp, base.leeway, now) /\ NotBefore(doc.nbf, base.leeway, now)
        /\ IssuerTrusted(base, doc.iss)
        /\ base.scopes \subseteq doc.scope
        /\ doc.jti \cap base.revoked = {}
    BY <2>3, <2>5 DEF IssuerTrusted
  <2>7. /\ o.checks["signature"] /\ o.checks["not_expired"] /\ o.checks["not_before"]
        /\ o.checks["issuer_trusted"] /\ o.checks["scopes"] /\ o.checks["not_revoked"]
    <3> DEFINE r == JwtChecks(doc, base, now)
    <3>1. r["signature"]
      BY DEF JwtChecks
    <3>2. r["not_expired"]
      BY <2>6 DEF JwtChecks
    <3>3. r["not_before"]
      BY <2>6 DEF JwtChecks
    <3>4. r["issuer_trusted"]
      BY <2>6 DEF JwtChecks
    <3>5. r["scopes"]
      BY <2>6 DEF JwtChecks
    <3>6. r["not_revoked"]
      BY <2>6 DEF JwtChecks
    <3> HIDE DEF r
    <3> QED
      BY <2>2, <3>1, <3>2, <3>3, <3>4, <3>5, <3>6 DEF r
  <2> QED
    BY <2>7, Checks
<1>2. CASE doc.kind = "vc"
  <2>1. o \in outcome /\ outcome = {o}
    BY <1>2, OutcomeOf DEF Decide, Accepted, VerifyCredentialJson
  <2>2. o.valid /\ VcSigned(doc)
    BY <1>2, <2>1, OutcomeOf, VcOutcome DEF Accepted
  <2>3. \A k \in Check : o.checks[k]
    BY <1>2, <2>1, <2>2, OutcomeOf, VcOutcome DEF All
  <2> QED
    BY <2>3
<1> QED
  BY <1>1, <1>2, DocumentKinds

(* A request's override never loosens anything but the audience.           *)
THEOREM OverrideSound == Spec => []OverrideKeepsRest
  BY Invariance, OverrideFact, PTL

-----------------------------------------------------------------------------
(* Appending keeps what a kid finds.                                       *)
LEMMA FindAppend ==
  ASSUME NEW ks \in Seq(Jwk), NEW k \in Jwk, NEW kid, kid # {},
         NEW jwk \in Find(ks, kid)
  PROVE  jwk \in Find(Append(ks, k), kid)
<1>1. PICK i \in DOMAIN ks : /\ jwk = ks[i] /\ ks[i].kid = kid
                             /\ \A j \in 1..(i - 1) : ks[j].kid # kid
  BY DEF Find
<1>2. /\ i \in DOMAIN Append(ks, k) /\ Append(ks, k)[i] = ks[i]
      /\ \A j \in 1..(i - 1) : Append(ks, k)[j] = ks[j]
  OBVIOUS
<1> QED
  BY <1>1, <1>2 DEF Find

LEMMA NewKeyFact ==
  ASSUME IInv, IInv', NEW k \in Jwk, AddKey(k), Accepted,
         doc.kind = "jwt" => doc.kid # {}
  PROVE  Accepted'
<1> USE DEF IInv
<1>0. UNCHANGED <<doc, policy, over, now>>
  BY DEF AddKey
<1>1. CASE doc.kind = "jwt"
  <2> DEFINE p == EffectivePolicy(policy, over)
  <2>1. doc.parses /\ JwtSigned(doc, jwks) /\ All(JwtChecks(doc, p, now))
    BY <1>1, OutcomeOf, JwtOutcome DEF Accepted
  <2>2. jwks' = Append(jwks, k) /\ jwks \in Seq(Jwk)
    BY DEF AddKey, InputsTyped
  <2>3. JwtSigned(doc, jwks')
    BY <1>1, <2>1, <2>2, FindAppend DEF JwtSigned
  <2>4. VerifyJwt(doc, jwks', p, now).valid
    BY <2>1, <2>3, JwtOutcome
  <2>5. outcome' = {VerifyJwt(doc, jwks', p, now)}
    BY <1>0, <1>1 DEF Decide
  <2> QED
    BY <2>4, <2>5 DEF Accepted
<1>2. CASE doc.kind = "vc"
  <2>1. outcome' = outcome
    BY <1>0, <1>2 DEF Decide
  <2> QED
    BY <2>1 DEF Accepted
<1> QED
  BY <1>1, <1>2, DocumentKinds

(* A key that joins the set never changes the verdict on an accepted token *)
(* that names its kid.                                                     *)
THEOREM NewKeySafe == Spec => NewKeyKeepsVerdicts
<1>1. IInv /\ IInv' /\ [Next]_vars =>
        [\A k \in Jwk :
           AddKey(k) /\ Accepted /\ (doc.kind = "jwt" => doc.kid # {}) => Accepted']_vars
  BY NewKeyFact
<1> QED
  BY <1>1, Invariance, PTL DEF Spec, NewKeyKeepsVerdicts

-----------------------------------------------------------------------------
(* What first_failure returns: one failing check if there is any.          *)
LEMMA FirstFailureUnique ==
  ASSUME NEW checks
  PROVE  /\ FirstFailure(checks) \in {{}} \union {{c} : c \in Check}
         /\ All(checks) <=> FirstFailure(checks) = {}
<1> DEFINE fails(i) == ~checks[CheckOrder[i]]
           first(i) == fails(i) /\ \A j \in 1..(i - 1) : ~fails(j)
<1>1. DOMAIN CheckOrder = 1..7
  BY DEF CheckOrder
<1>2. FirstFailure(checks) = {CheckOrder[i] : i \in {i \in 1..7 : first(i)}}
  BY <1>1 DEF FirstFailure
<1>3. Check = {CheckOrder[i] : i \in 1..7}
  BY <1>1 DEF Check
<1>4. ASSUME NEW i \in 1..7, NEW k \in 1..7, first(i), first(k) PROVE i = k
  <2>1. ~(i < k) /\ ~(k < i)
    BY <1>4
  <2> QED
    BY <2>1
<1>5. CASE All(checks)
  BY <1>2, <1>3, <1>5 DEF All
<1>6. CASE ~All(checks)
  <2>1. PICK k \in 1..7 : fails(k)
    BY <1>3, <1>6 DEF All
  <2>2. PICK i \in 1..7 : first(i)
    <3>1. 1..7 = {1, 2, 3, 4, 5, 6, 7}
      OBVIOUS
    <3>2. ASSUME \A i \in 1..7 : ~first(i) PROVE \A i \in 1..7 : ~fails(i)
      <4> HIDE DEF fails
      <4>1. ~fails(1)
        BY <3>2
      <4>2. ~fails(2)
        BY <3>2, <4>1
      <4>3. ~fails(3)
        BY <3>2, <4>1, <4>2
      <4>4. ~fails(4)
        BY <3>2, <4>1, <4>2, <4>3
      <4>5. ~fails(5)
        BY <3>2, <4>1, <4>2, <4>3, <4>4
      <4>6. ~fails(6)
        BY <3>2, <4>1, <4>2, <4>3, <4>4, <4>5
      <4>7. ~fails(7)
        BY <3>2, <4>1, <4>2, <4>3, <4>4, <4>5, <4>6
      <4> QED
        BY <3>1, <4>1, <4>2, <4>3, <4>4, <4>5, <4>6, <4>7
    <3> QED
      BY <2>1, <3>2
  <2> HIDE DEF first
  <2>3. FirstFailure(checks) = {CheckOrder[i]}
    BY <1>2, <1>4, <2>2
  <2> QED
    BY <1>3, <1>6, <2>3
<1> QED
  BY <1>5, <1>6

(* The same, in the form that an instance of this module can use.          *)
LEMMA FirstFailureForm ==
  \A checks : /\ FirstFailure(checks) \in {{}} \union {{c} : c \in Check}
              /\ All(checks) <=> FirstFailure(checks) = {}
  BY FirstFailureUnique

LEMMA ChecksTyped ==
  \A d, p, t : /\ JwtChecks(d, p, t) \in VerificationChecks
               /\ VcChecks(d, p, t) \in VerificationChecks
<1> TAKE d, p, t
<1>1. \A exp, nbf, l : NotExpired(exp, l, t) \in BOOLEAN /\ NotBefore(nbf, l, t) \in BOOLEAN
  BY DEF NotExpired, NotBefore
<1>2. \A i : IssuerTrusted(p, i) \in BOOLEAN
  BY DEF IssuerTrusted
<1>3. AudienceOK(p, d) \in BOOLEAN
  BY DEF AudienceOK
<1> QED
  BY <1>1, <1>2, <1>3 DEF JwtChecks, VcChecks, VerificationChecks

LEMMA OutcomeTyped ==
  ASSUME NEW issuer, NEW checks \in VerificationChecks, NEW o,
         o = Rejected \/ o = Outcome(issuer, checks)
  PROVE  /\ o.valid \in BOOLEAN
         /\ o.checks \in VerificationChecks
         /\ o.reason \in {{}} \union {{r} : r \in Check \union {"hard failure"}}
         /\ o.valid <=> o.reason = {}
<1>1. CASE o = Rejected
  BY <1>1 DEF Rejected, HardFailure, VerificationChecks
<1>2. CASE o = Outcome(issuer, checks)
  <2>1. /\ o.valid = All(checks) /\ o.checks = checks /\ o.reason = FirstFailure(checks)
    BY <1>2 DEF Outcome
  <2>2. All(checks) \in BOOLEAN
    BY DEF All
  <2>3. o.valid <=> o.reason = {}
    <3>1. All(checks) <=> FirstFailure(checks) = {}
      BY FirstFailureUnique
    <3> QED
      BY <2>1, <3>1 DEF All
  <2>4. o.reason \in {{}} \union {{r} : r \in Check}
    BY <2>1, FirstFailureUnique
  <2> QED
    BY <2>1, <2>2, <2>3, <2>4
<1> QED
  BY <1>1, <1>2

LEMMA TypeFact == IInv => TypeOK
<1> SUFFICES ASSUME IInv, NEW o \in outcome
             PROVE  /\ o.valid \in BOOLEAN
                    /\ o.checks \in VerificationChecks
                    /\ o.reason \in {{}} \union {{r} : r \in Check \union {"hard failure"}}
                    /\ o.valid <=> o.reason = {}
  BY DEF TypeOK
<1> USE DEF IInv
<1>1. CASE doc.kind = "jwt"
  <2> DEFINE checks == JwtChecks(doc, EffectivePolicy(policy, over), now)
  <2>1. checks \in VerificationChecks
    BY ChecksTyped
  <2>2. o = Rejected \/ o = Outcome(doc.iss, checks)
    BY <1>1, OutcomeOf DEF VerifyJwt
  <2> QED
    BY <2>1, <2>2, OutcomeTyped
<1>2. CASE doc.kind = "vc"
  <2> DEFINE checks == VcChecks(doc, EffectivePolicy(policy, NoOverride), now)
  <2>1. checks \in VerificationChecks
    BY ChecksTyped
  <2>2. o = Rejected \/ o = Outcome({doc.issuer}, checks)
    BY <1>2, OutcomeOf DEF VerifyCredential
  <2> QED
    BY <2>1, <2>2, OutcomeTyped
<1> QED
  BY <1>1, <1>2, DocumentKinds

(* Every verdict is well formed: a rejection has exactly one reason, the   *)
(* first check that failed, and an acceptance has none.                    *)
THEOREM TypeCorrect == Spec => []TypeOK
  BY Invariance, TypeFact, PTL
=============================================================================
