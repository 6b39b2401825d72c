-------------------------- MODULE EdgeCallsProofs ---------------------------
(* Theorems about EdgeCalls, for every set of texts, key sets, node        *)
(* configurations, hosts, overrides and instants.                          *)
EXTENDS EdgeCalls, FiniteSetTheorems, TLAPS

(* The theorems about the engine, for what texts say.                      *)
EngineProofs == INSTANCE VerifierProofs WITH
  Cases <- AbsCases,
  Jwk <- {AbsJwk(k) : k \in Jwks},
  Times <- {t \div Second : t \in Instants},
  doc <- AbsDoc(text),
  jwks <- AbsJwks(jwks),
  policy <- AbsPolicy(BuildPolicy(args)),
  now <- NowUnix,
  outcome <- {AbsOutcome(o) : o \in outcome}

(* The outcomes are always those of the current inputs, and these come     *)
(* from the cases and what joined them.                                    *)
FromCases ==
  /\ \E c \in Cases : text = c.text /\ args = c.args /\ host = c.host
  /\ jwks \in Seq(Jwks)
  /\ instant \in Instants

IInv == FromCases /\ outcome = Native(over) /\ edge = Edge

-----------------------------------------------------------------------------
LEMMA InitInvariant == Init => IInv
  BY CasesAssumption DEF Init, IInv, FromCases

LEMMA NextInvariant == IInv /\ [Next]_vars => IInv'
<1> SUFFICES ASSUME IInv, [Next]_vars PROVE IInv'
  OBVIOUS
<1>1. CASE Next
  <2>1. outcome' = Native(over)' /\ edge' = Edge'
    BY <1>1 DEF Next
  <2>2. FromCases'
    BY <1>1 DEF Next, Later, AddKey, Ask, IInv, FromCases
  <2> QED
    BY <2>1, <2>2 DEF IInv
<1>2. CASE UNCHANGED vars
  BY <1>2 DEF vars, IInv, FromCases, Native, Edge, EdgeJwt, EdgeVc, ParsePolicy, NowUnix,
       NowSecs
<1> QED
  BY <1>1, <1>2

LEMMA Invariance == Spec => []IInv
  BY InitInvariant, NextInvariant, PTL DEF Spec

-----------------------------------------------------------------------------
(* The assumption on times, in its parts.                                  *)
LEMMA SecondFact == Second \in Nat \ {0} /\ Instants \subseteq Nat
  BY TimeAssumption

(* A call's time in seconds, and a day from it, are of 64 bits.            *)
LEMMA SecondsFact ==
  ASSUME NEW t \in Instants
  PROVE  /\ t \div Second \in Nat /\ t \div Second \in I64
         /\ t \div Second + Day < Half
<1>1. t \div Second + Day \in I64
  BY TimeAssumption
<1>2. t \div Second \in Nat
  BY SecondFact
<1>3. Day \in Nat
  BY DEF Day
<1> QED
  BY <1>1, <1>2, <1>3, HalfAssumption DEF I64

LEMMA CaseTimes ==
  ASSUME NEW c \in Cases
  PROVE  /\ c.args.leeway \in I64
         /\ ValidFrom(c.text) \in Option(I64) /\ ValidUntil(c.text) \in Option(I64)
<1>1. /\ c.args.leeway \in I64
      /\ \A dates \in {ValidFrom(c.text), ValidUntil(c.text)} :
           dates \subseteq I64 /\ \A m, n \in dates : m = n
  BY TimeAssumption
<1>2. ASSUME NEW S, S \subseteq I64, \A m, n \in S : m = n PROVE S \in Option(I64)
  <2>1. CASE S = {}
    BY <2>1 DEF Option
  <2>2. CASE S # {}
    <3>1. PICK x \in S : TRUE
      BY <2>2
    <3>2. S = {x}
      BY <1>2, <3>1
    <3> QED
      BY <1>2, <3>1, <3>2 DEF Option
  <2> QED
    BY <2>1, <2>2
<1> QED
  BY <1>1, <1>2, Zenon

-----------------------------------------------------------------------------
(* Both hosts decide alike.                                                *)

LEMMA NoOverrideKeeps ==
  ASSUME NEW p \in {BuildPolicy(a) : a \in {args}}
  PROVE  EffectivePolicy(p, NoOverride) = p
  BY DEF EffectivePolicy, NoOverride, BuildPolicy, Permissive

LEMMA Agreement == IInv => HostsAgree
<1> SUFFICES ASSUME IInv, host.policy # "empty" PROVE HostsAgree
  BY DEF HostsAgree
<1> DEFINE p == BuildPolicy(args)
<1>1. EffectivePolicy(p, NoOverride) = p
  BY NoOverrideKeeps
<1>2. NowSecs = NowUnix
  BY DEF NowSecs, NowUnix
<1>3. ASSUME NEW e PROVE ~RejectedFor(e).valid
  BY DEF RejectedFor, Rejected
<1>4. CASE host.policy = "whole"
  <2>1. ParsePolicy = {p} /\ ParsePolicy # {}
    BY <1>4 DEF ParsePolicy
  <2>2. CASE text.kind = "jwt"
    <3>1. Native(NoOverride) = {JwtOutcome(text, jwks, p, NowSecs)}
      BY <1>1, <1>2, <2>2 DEF Native
    <3>2. edge = EdgeJwt
      BY <2>1, <2>2 DEF IInv, Edge
    <3>3. CASE host.jwks = "cut"
      <4>1. edge = {RejectedFor({"invalid JWKS JSON"})}
        BY <2>1, <3>2, <3>3 DEF EdgeJwt
      <4> QED
        BY <1>3, <2>2, <3>3, <4>1 DEF HostsAgree, Accepts
    <3>4. CASE host.jwks # "cut"
      <4>1. edge = {JwtOutcome(text, jwks, p, NowSecs)}
        BY <2>1, <3>2, <3>4 DEF EdgeJwt
      <4> QED
        BY <3>1, <4>1 DEF HostsAgree, Accepts
    <3> QED
      BY <3>3, <3>4
  <2>3. CASE text.kind # "jwt"
    <3>1. edge = EdgeVc
      BY <2>1, <2>3 DEF IInv, Edge
    <3>2. CASE text.json
      <4>1. edge = {VcOutcome(text, p, NowSecs)}
        BY <2>1, <3>1, <3>2 DEF EdgeVc
      <4>2. Native(NoOverride) = {VcOutcome(text, p, NowSecs)}
        BY <1>1, <1>2, <2>3, <3>2 DEF Native
      <4> QED
        BY <4>1, <4>2 DEF HostsAgree, Accepts
    <3>3. CASE ~text.json
      <4>1. edge = {RejectedFor({"Json"})}
        BY <2>1, <3>1, <3>3 DEF EdgeVc
      <4>2. Native(NoOverride) = {}
        BY <2>3, <3>3 DEF Native
      <4> QED
        BY <1>3, <4>1, <4>2 DEF HostsAgree, Accepts
    <3> QED
      BY <3>2, <3>3
  <2> QED
    BY <2>2, <2>3
<1>5. CASE host.policy # "whole"
  <2>1. \A o \in edge : ~o.valid
    <3>1. host.policy = "cut"
      BY <1>5, CasesAssumption DEF IInv, FromCases
    <3>2. ParsePolicy = {}
      BY <3>1 DEF ParsePolicy
    <3> QED
      BY <1>3, <3>2 DEF IInv, Edge
  <2> QED
    BY <1>5, <2>1 DEF HostsAgree, Accepts
<1> QED
  BY <1>4, <1>5

-----------------------------------------------------------------------------
(* The node implements VerifierCalls.  First, what the two share.          *)

LEMMA SameChecks ==
  /\ \A d, p, t : Engine!JwtChecks(d, p, t) = JwtChecks(d, p, t)
  /\ \A d, p, t : Engine!VcChecks(d, p, t) = VcChecks(d, p, t)
  /\ \A i, c : Engine!Outcome(i, c) = Outcome(i, c)
  /\ Engine!Rejected = Rejected
  /\ \A ks, i : Engine!Find(ks, i) = Find(ks, i)
  /\ \A p, o : Engine!EffectivePolicy(p, o) = EffectivePolicy(p, o)
  /\ Engine!NoOverride = NoOverride
<1>1. \A d, p, t : Engine!JwtChecks(d, p, t) = JwtChecks(d, p, t)
  BY DEF Engine!JwtChecks, JwtChecks, Engine!NotExpired, NotExpired, Engine!NotBefore,
     NotBefore, Engine!IssuerTrusted, IssuerTrusted, Engine!AudienceOK, AudienceOK,
     Engine!Wrap, Wrap
<1>2. \A d, p, t : Engine!VcChecks(d, p, t) = VcChecks(d, p, t)
  BY DEF Engine!VcChecks, VcChecks, Engine!NotExpired, NotExpired, Engine!NotBefore,
     NotBefore, Engine!IssuerTrusted, IssuerTrusted, Engine!Wrap, Wrap
<1>3. \A i, c : Engine!Outcome(i, c) = Outcome(i, c)
  BY DEF Engine!Outcome, Outcome, Engine!All, All, Engine!FirstFailure, FirstFailure,
     Engine!Check, Check, Engine!CheckOrder, CheckOrder
<1>4. Engine!Rejected = Rejected
  BY DEF Engine!Rejected, Rejected, Engine!HardFailure, HardFailure
<1>5. \A ks, i : Engine!Find(ks, i) = Find(ks, i)
  BY DEF Engine!Find, Find
<1>6. \A p, o : Engine!EffectivePolicy(p, o) = EffectivePolicy(p, o)
  BY DEF Engine!EffectivePolicy, EffectivePolicy
<1>7. Engine!NoOverride = NoOverride
  BY DEF Engine!NoOverride, NoOverride
<1> QED
  BY <1>1, <1>2, <1>3, <1>4, <1>5, <1>6, <1>7

LEMMA Checks == Check = {"signature", "issuer_trusted", "not_before", "not_expired",
                         "audience", "scopes", "not_revoked"}
  BY DEF Check, CheckOrder

(* Every error is one to VerifierCalls, and a verdict stays as it is.      *)
LEMMA AbsRejected ==
  ASSUME NEW e, e # {}, e \cap Check = {}
  PROVE  AbsOutcome(RejectedFor(e)) = Rejected
<1>1. ~(e \subseteq Check)
  OBVIOUS
<1>2. {AbsName(i) : i \in {}} = {}
  OBVIOUS
<1> DEFINE o == RejectedFor(e)
<1>3. /\ o.valid = Rejected.valid /\ o.checks = Rejected.checks
      /\ o.issuer = {} /\ o.reason = e
  BY DEF RejectedFor, Rejected
<1>4. AbsOutcome(o) = [valid |-> Rejected.valid, checks |-> Rejected.checks,
                       issuer |-> {}, reason |-> {"hard failure"}]
  BY <1>1, <1>2, <1>3 DEF AbsOutcome
<1> QED
  BY <1>4 DEF Rejected

LEMMA AbsVerdict ==
  ASSUME NEW i, NEW c
  PROVE  AbsOutcome(Outcome(i, c)) = Outcome({AbsName(n) : n \in i}, c)
<1>1. FirstFailure(c) \subseteq Check
  BY DEF FirstFailure, Check
<1> DEFINE o == Outcome(i, c)
<1>2. /\ o.valid = All(c) /\ o.checks = c
      /\ o.issuer = i /\ o.reason = FirstFailure(c)
  BY DEF Outcome
<1>3. AbsOutcome(o) = [valid |-> All(c), checks |-> c,
                       issuer |-> {AbsName(n) : n \in i}, reason |-> FirstFailure(c)]
  BY <1>1, <1>2, Zenon DEF AbsOutcome
<1> QED
  BY <1>3, Zenon DEF Outcome

(* Names that are no keys are told apart by what they stand for.           *)
LEMMA AbsNameInjective ==
  ASSUME NEW a, NEW b, a \notin Key, b \notin Key, AbsName(a) = AbsName(b)
  PROVE  a = b
<1> DEFINE WellFormed(d) == d \in Dids /\ DidError(d) = {}
<1>1. ASSUME NEW d, WellFormed(d)
      PROVE  d = DidOf(d.key) /\ d.key \in Key /\ AbsName(d) = d.key
  <2>1. d.flaws = {}
    BY <1>1 DEF Dids, DidError, DidFlaws
  <2> QED
    BY <1>1, <2>1 DEF Dids, DidOf, AbsName
<1>2. ASSUME NEW d, ~WellFormed(d) PROVE AbsName(d) = d
  BY <1>2 DEF AbsName
<1>3. CASE WellFormed(a) /\ WellFormed(b)
  BY <1>1, <1>3
<1>4. CASE ~(WellFormed(a) /\ WellFormed(b))
  BY <1>1, <1>2, <1>4
<1> QED
  BY <1>3, <1>4

LEMMA AbsTrusted ==
  ASSUME NEW p, NEW S, p.trusted \cap Key = {}, S \cap Key = {},
         "trusted" \in DOMAIN p
  PROVE  IssuerTrusted(AbsPolicy(p), {AbsName(n) : n \in S}) = IssuerTrusted(p, S)
<1>1. AbsPolicy(p).trusted = {AbsName(n) : n \in p.trusted}
  BY DEF AbsPolicy
<1>2. (AbsPolicy(p).trusted = {}) <=> (p.trusted = {})
  BY <1>1
<1>3. (\E i \in {AbsName(n) : n \in S} : i \in AbsPolicy(p).trusted)
      <=> \E i \in S : i \in p.trusted
  <2>1. ASSUME NEW i \in S, NEW j \in p.trusted, AbsName(i) = AbsName(j) PROVE i = j
    BY <2>1, AbsNameInjective
  <2> QED
    BY <1>1, <2>1
<1> QED
  BY <1>2, <1>3 DEF IssuerTrusted

(* Key lookup: at most one entry, and the same one.                        *)
LEMMA FindOne ==
  ASSUME NEW ks \in Seq(Jwks), NEW kid
  PROVE  /\ Find(ks, kid) \subseteq Jwks
         /\ \A a, b \in Find(ks, kid) : a = b
<1>1. CASE kid = {}
  BY <1>1 DEF Find
<1>2. CASE kid # {}
  <2>1. Find(ks, kid) = {ks[i] : i \in {i \in DOMAIN ks :
            ks[i].kid = kid /\ \A j \in 1..(i - 1) : ks[j].kid # kid}}
    BY <1>2 DEF Find
  <2>2. ASSUME NEW i \in DOMAIN ks, NEW j \in DOMAIN ks,
               ks[i].kid = kid, \A m \in 1..(i - 1) : ks[m].kid # kid,
               ks[j].kid = kid, \A m \in 1..(j - 1) : ks[m].kid # kid
        PROVE  i = j
    <3>1. i \in 1..Len(ks) /\ j \in 1..Len(ks)
      OBVIOUS
    <3>2. ~(i < j) /\ ~(j < i)
      BY <2>2, <3>1
    <3> QED
      BY <3>1, <3>2
  <2> QED
    BY <2>1, <2>2
<1> QED
  BY <1>1, <1>2

LEMMA FindAbs ==
  ASSUME NEW ks \in Seq(Jwks), NEW kid
  PROVE  Find(AbsJwks(ks), kid) = {AbsJwk(k) : k \in Find(ks, kid)}
<1>1. /\ DOMAIN AbsJwks(ks) = DOMAIN ks /\ Len(AbsJwks(ks)) = Len(ks)
      /\ AbsJwks(ks) \in Seq({AbsJwk(k) : k \in Jwks})
  BY DEF AbsJwks
<1>2. \A i \in DOMAIN ks : AbsJwks(ks)[i] = AbsJwk(ks[i]) /\ AbsJwk(ks[i]).kid = ks[i].kid
  BY DEF AbsJwks, AbsJwk
<1> DEFINE Is(l, i) ==
      \/ kid = {} /\ Len(l) = 1
      \/ /\ kid # {} /\ l[i].kid = kid
         /\ \A j \in 1..(i - 1) : l[j].kid # kid
<1>3. \A i \in DOMAIN ks : Is(AbsJwks(ks), i) <=> Is(ks, i)
  <2> TAKE i \in DOMAIN ks
  <2>1. \A j \in 1..(i - 1) : j \in DOMAIN ks
    OBVIOUS
  <2> QED
    BY <1>1, <1>2, <2>1
<1>4. {i \in DOMAIN AbsJwks(ks) : Is(AbsJwks(ks), i)} = {i \in DOMAIN ks : Is(ks, i)}
  BY <1>1, <1>3
<1>5. Find(AbsJwks(ks), kid)
        = {AbsJwks(ks)[i] : i \in {i \in DOMAIN AbsJwks(ks) : Is(AbsJwks(ks), i)}}
  BY DEF Find
<1>6. Find(ks, kid) = {ks[i] : i \in {i \in DOMAIN ks : Is(ks, i)}}
  BY DEF Find
<1> HIDE DEF Is
<1> QED
  BY <1>2, <1>4, <1>5, <1>6

LEMMA ErrorsAreNoChecks ==
  ASSUME NEW t, NEW ks, NEW v
  PROVE  /\ ParseError(t) \cap Check = {}
         /\ SignatureError(t, ks) \cap Check = {}
         /\ ProofError(v) \cap Check = {}
<1> USE Checks
<1>1. ParseError(t) \cap Check = {}
  BY DEF ParseError
<1>2. \A j : JwkError(j) \cap Check = {}
  BY DEF JwkError
<1>3. SignatureError(t, ks) \cap Check = {}
  <2>1. \A F : (UNION {JwkError(j) : j \in F}) \cap Check = {}
    BY <1>2
  <2> QED
    BY <2>1 DEF SignatureError
<1>4. \A d : DidError(d) \cap Check = {}
  BY DEF DidError
<1>5. \A p : HexError(p) \cap Check = {}
  BY DEF HexError
<1>6. ProofError(v) \cap Check = {}
  <2>1. (UNION {HexError(p) : p \in v.proof}) \cap Check = {}
    BY <1>5
  <2> QED
    BY <1>4, <2>1 DEF ProofError
<1> QED
  BY <1>1, <1>3, <1>6

(* A signature is that of one key.                                         *)
LEMMA SignerIs ==
  ASSUME NEW payload, NEW sig, NEW k \in Key
  PROVE  SignerOf(payload, sig) = {k} <=> Signs(k, payload, sig)
<1>1. \A j \in Key : Signs(j, payload, sig) => j = sig.by
  BY DEF Signs, Sign
<1> QED
  BY <1>1 DEF SignerOf

LEMMA JwtSignedAlike ==
  ASSUME NEW t, t.kind = "jwt", NEW ks \in Seq(Jwks)
  PROVE  Engine!JwtSigned(AbsDoc(t), AbsJwks(ks)) <=> SignatureError(t, ks) = {}
<1> DEFINE h == HeaderOf(t)
           found == Find(ks, h.kid)
           signs(k) == Signs(k.key, SigningInput(t), Segment(t, 3))
<1>1. /\ AbsDoc(t).alg = h.alg /\ AbsDoc(t).kid = h.kid
      /\ AbsDoc(t).signer = SignerOf(SigningInput(t), Segment(t, 3))
  BY DEF AbsDoc
<1>2. found \subseteq Jwks /\ \A a, b \in found : a = b
  BY FindOne
<1>3. Engine!JwtSigned(AbsDoc(t), AbsJwks(ks))
        <=> /\ h.alg = "EdDSA"
            /\ \E k \in found : AbsJwk(k).key \in Key
                                /\ AbsDoc(t).signer = {AbsJwk(k).key}
  BY <1>1, FindAbs, SameChecks DEF Engine!JwtSigned
<1>4. ASSUME NEW k \in found
      PROVE  AbsJwk(k).key \in Key /\ AbsDoc(t).signer = {AbsJwk(k).key}
               <=> JwkError(k) = {} /\ signs(k)
  <2>1. k.key \in Key
    BY <1>2, KeysAssumption
  <2>2. CASE JwkError(k) = {}
    BY <1>1, <2>1, <2>2, SignerIs DEF AbsJwk
  <2>3. CASE JwkError(k) # {}
    BY <2>3, KeysAssumption DEF AbsJwk
  <2> QED
    BY <2>2, <2>3
<1>5. SignatureError(t, ks) = {}
        <=> h.alg = "EdDSA" /\ \E k \in found : JwkError(k) = {} /\ signs(k)
  <2>1. ASSUME NEW k \in found
        PROVE  UNION {JwkError(j) : j \in found} = JwkError(k)
    BY <1>2, <2>1
  <2> QED
    BY <1>2, <2>1 DEF SignatureError
<1> QED
  BY <1>3, <1>4, <1>5

LEMMA VcSignedAlike ==
  ASSUME NEW t, t.kind # "jwt", t.issuer \in Dids, \A p, q \in t.proof : p = q,
         NamesOf(t) \cap Key = {}
  PROVE  Engine!VcSigned(AbsDoc(t)) <=> ProofError(t) = {}
<1> DEFINE d == AbsDoc(t)
           signs(p) == Signs(t.issuer.key, Payload(t), p.signature)
           abs(p) == [method |-> AbsName(p.method),
                      signer |-> SignerOf(Payload(t), p.signature)]
<1>1. d.issuer = AbsName(t.issuer) /\ d.proof = {abs(p) : p \in t.proof}
  BY DEF AbsDoc
<1>2. Engine!VcSigned(d)
        <=> \E p \in t.proof : /\ AbsName(p.method) = AbsName(t.issuer)
                               /\ AbsName(t.issuer) \in Key
                               /\ SignerOf(Payload(t), p.signature) = {AbsName(t.issuer)}
  <2>1. \A p : abs(p).method = AbsName(p.method)
             /\ abs(p).signer = SignerOf(Payload(t), p.signature)
    OBVIOUS
  <2> HIDE DEF abs, d
  <2> QED
    BY <1>1, <2>1 DEF Engine!VcSigned
<1>3. AbsName(t.issuer) \in Key <=> DidError(t.issuer) = {}
  BY DEF AbsName, NamesOf, Dids
<1>4. DidError(t.issuer) = {} => AbsName(t.issuer) = t.issuer.key
  BY DEF AbsName
<1>5. \A p \in t.proof : AbsName(p.method) = AbsName(t.issuer) <=> p.method = t.issuer
  BY AbsNameInjective DEF NamesOf
<1>6. Engine!VcSigned(d)
        <=> \E p \in t.proof : p.method = t.issuer /\ DidError(t.issuer) = {} /\ signs(p)
  <2>1. CASE DidError(t.issuer) = {}
    <3>1. AbsName(t.issuer) = t.issuer.key /\ t.issuer.key \in Key
      BY <1>3, <1>4, <2>1
    <3>2. \A p \in t.proof :
            SignerOf(Payload(t), p.signature) = {t.issuer.key} <=> signs(p)
      BY <3>1, SignerIs
    <3> HIDE DEF signs
    <3> QED
      BY <1>2, <1>5, <2>1, <3>1, <3>2
  <2>2. CASE DidError(t.issuer) # {}
    BY <1>2, <1>3, <2>2
  <2> QED
    BY <2>1, <2>2
<1>7. \A p \in t.proof : signs(p) => HexError(p) = {}
  BY DEF Signs, Sign, HexError
<1>8. ProofError(t) = {}
        <=> \E p \in t.proof : p.method = t.issuer /\ DidError(t.issuer) = {} /\ signs(p)
  <2>1. ASSUME NEW p \in t.proof
        PROVE  UNION {HexError(q) : q \in t.proof} = HexError(p)
    BY <2>1
  <2> QED
    BY <1>7, <2>1 DEF ProofError
<1> QED
  BY <1>6, <1>8

-----------------------------------------------------------------------------
(* The verdicts.                                                           *)

LEMMA JwtVerdict ==
  ASSUME NEW t, t.kind = "jwt", NEW ks \in Seq(Jwks), NEW p, NEW now,
         "trusted" \in DOMAIN p, p.trusted \cap Key = {}, NamesOf(t) \cap Key = {}
  PROVE  AbsOutcome(JwtOutcome(t, ks, p, now))
           = Engine!VerifyJwt(AbsDoc(t), AbsJwks(ks), AbsPolicy(p), now)
<1> DEFINE d == AbsDoc(t)
           c == CheckedClaims(ClaimsOf(t))
<1>1. /\ d.parses = (ParseError(t) = {})
      /\ d.iss = {AbsName(i) : i \in c.iss}
      /\ d.aud = c.aud /\ d.exp = c.exp /\ d.nbf = c.nbf /\ d.jti = c.jti
      /\ d.scope = c.scope
  BY DEF AbsDoc
<1>2. c.iss = ClaimsOf(t).iss
  BY DEF CheckedClaims
<1>3. CASE ParseError(t) # {}
  BY <1>1, <1>3, ErrorsAreNoChecks, AbsRejected, SameChecks DEF JwtOutcome, Engine!VerifyJwt
<1>4. CASE ParseError(t) = {} /\ SignatureError(t, ks) # {}
  BY <1>1, <1>4, ErrorsAreNoChecks, AbsRejected, JwtSignedAlike, SameChecks
  DEF JwtOutcome, Engine!VerifyJwt
<1>5. CASE ParseError(t) = {} /\ SignatureError(t, ks) = {}
  <2>1. IssuerTrusted(AbsPolicy(p), d.iss) = IssuerTrusted(p, c.iss)
    BY <1>1, <1>2, AbsTrusted DEF NamesOf
  <2>2. /\ AbsPolicy(p).leeway = p.leeway /\ AbsPolicy(p).audience = p.audience
        /\ AbsPolicy(p).scopes = p.scopes /\ AbsPolicy(p).revoked = p.revoked
    BY DEF AbsPolicy
  <2>3. JwtChecks(d, AbsPolicy(p), now) = JwtChecks(c, p, now)
    BY <1>1, <2>1, <2>2 DEF JwtChecks, AudienceOK
  <2>4. JwtOutcome(t, ks, p, now) = Outcome(c.iss, JwtChecks(c, p, now))
    BY <1>2, <1>5 DEF JwtOutcome
  <2>5. Engine!VerifyJwt(d, AbsJwks(ks), AbsPolicy(p), now)
          = Outcome(d.iss, JwtChecks(d, AbsPolicy(p), now))
    BY <1>1, <1>5, JwtSignedAlike, SameChecks DEF Engine!VerifyJwt
  <2> QED
    BY <1>1, <2>3, <2>4, <2>5, AbsVerdict
<1> QED
  BY <1>3, <1>4, <1>5

LEMMA VcVerdict ==
  ASSUME NEW t, t.kind # "jwt", t.issuer \in Dids, \A m, n \in t.proof : m = n,
         NEW p, NEW now,
         "trusted" \in DOMAIN p, p.trusted \cap Key = {}, NamesOf(t) \cap Key = {}
  PROVE  AbsOutcome(VcOutcome(t, p, now))
           = Engine!VerifyCredential(AbsDoc(t), AbsPolicy(p), now)
<1> DEFINE d == AbsDoc(t)
<1>1. /\ d.issuer = AbsName(t.issuer) /\ d.id = t.id
      /\ d.expires = t.expires /\ d.issued = t.issued
  BY DEF AbsDoc
<1>2. CASE ProofError(t) # {}
  BY <1>2, ErrorsAreNoChecks, AbsRejected, VcSignedAlike, SameChecks
  DEF VcOutcome, Engine!VerifyCredential
<1>3. CASE ProofError(t) = {}
  <2>1. {d.issuer} = {AbsName(i) : i \in {t.issuer}}
    BY <1>1
  <2>2. IssuerTrusted(AbsPolicy(p), {d.issuer}) = IssuerTrusted(p, {t.issuer})
    BY <2>1, AbsTrusted DEF NamesOf
  <2>3. AbsPolicy(p).leeway = p.leeway /\ AbsPolicy(p).revoked = p.revoked
    BY DEF AbsPolicy
  <2>4. VcChecks(d, AbsPolicy(p), now) = VcChecks(t, p, now)
    BY <1>1, <2>2, <2>3 DEF VcChecks
  <2>5. VcOutcome(t, p, now) = Outcome({t.issuer}, VcChecks(t, p, now))
    BY <1>3 DEF VcOutcome
  <2>6. Engine!VerifyCredential(d, AbsPolicy(p), now)
          = Outcome({d.issuer}, VcChecks(d, AbsPolicy(p), now))
    BY <1>3, VcSignedAlike, SameChecks DEF Engine!VerifyCredential
  <2> QED
    BY <2>1, <2>4, <2>5, <2>6, AbsVerdict
<1> QED
  BY <1>2, <1>3

LEMMA PolicyFacts ==
  ASSUME NEW a, NEW o
  PROVE  LET p == BuildPolicy(a)
         IN  /\ "trusted" \in DOMAIN EffectivePolicy(p, o)
             /\ EffectivePolicy(p, o).trusted = {a.issuer} \union a.trusted
             /\ AbsPolicy(EffectivePolicy(p, o)) = EffectivePolicy(AbsPolicy(p), o)
  BY DEF BuildPolicy, Permissive, EffectivePolicy, AbsPolicy

LEMMA DecidedAlike ==
  ASSUME FromCases, NEW o
  PROVE  {AbsOutcome(n) : n \in Native(o)} = Engine!Decide(o)
<1> DEFINE p(r) == EffectivePolicy(BuildPolicy(args), r)
<1>1. PICK c \in Cases : text = c.text /\ args = c.args
  BY DEF FromCases
<1>2. /\ NamesOf(text) \cap Key = {}
      /\ ({args.issuer} \union args.trusted) \cap Key = {}
      /\ text.kind # "jwt" => text.issuer \in Dids /\ \A m, n \in text.proof : m = n
  BY <1>1, CasesAssumption
<1>3. \A r : /\ "trusted" \in DOMAIN p(r) /\ p(r).trusted \cap Key = {}
            /\ AbsPolicy(p(r)) = Engine!EffectivePolicy(AbsPolicy(BuildPolicy(args)), r)
  BY <1>2, PolicyFacts, SameChecks
<1>4. AbsDoc(text).kind = "jwt" <=> text.kind = "jwt"
  BY DEF AbsDoc
<1> HIDE DEF p
<1>5. CASE text.kind = "jwt"
  <2>1. Native(o) = {JwtOutcome(text, jwks, p(o), NowUnix)}
    BY <1>5 DEF Native, p
  <2>2. Engine!Decide(o)
          = {Engine!VerifyJwt(AbsDoc(text), AbsJwks(jwks), AbsPolicy(p(o)), NowUnix)}
    BY <1>3, <1>4, <1>5 DEF Engine!Decide
  <2>3. AbsOutcome(JwtOutcome(text, jwks, p(o), NowUnix))
          = Engine!VerifyJwt(AbsDoc(text), AbsJwks(jwks), AbsPolicy(p(o)), NowUnix)
    BY <1>2, <1>3, <1>5, JwtVerdict DEF FromCases
  <2> QED
    BY <2>1, <2>2, <2>3
<1>6. CASE text.kind # "jwt"
  <2>1. AbsDoc(text).parses = text.json
    BY <1>6 DEF AbsDoc
  <2>2. Engine!Decide(o) = Engine!VerifyCredentialJson(AbsDoc(text), AbsPolicy(p(NoOverride)), NowUnix)
    BY <1>3, <1>4, <1>6, SameChecks DEF Engine!Decide
  <2>3. CASE text.json
    <3>1. Native(o) = {VcOutcome(text, p(NoOverride), NowUnix)}
      BY <1>6, <2>3 DEF Native, p
    <3>2. AbsOutcome(VcOutcome(text, p(NoOverride), NowUnix))
            = Engine!VerifyCredential(AbsDoc(text), AbsPolicy(p(NoOverride)), NowUnix)
      BY <1>2, <1>3, <1>6, VcVerdict
    <3> QED
      BY <2>1, <2>2, <2>3, <3>1, <3>2 DEF Engine!VerifyCredentialJson
  <2>4. CASE ~text.json
    BY <1>6, <2>1, <2>2, <2>4 DEF Native, Engine!VerifyCredentialJson
  <2> QED
    BY <2>3, <2>4
<1> QED
  BY <1>5, <1>6

(* The state of VerifierCalls that a state stands for.                     *)
LEMMA EngineOutcome ==
  IInv => {AbsOutcome(o) : o \in outcome} = Engine!Decide(over)
  BY DecidedAlike DEF IInv

LEMMA EngineInit == Init => Engine!Init
<1> SUFFICES ASSUME Init PROVE Engine!Init
  OBVIOUS
<1>1. PICK c \in Cases : /\ text = c.text /\ jwks = c.jwks /\ args = c.args
                        /\ instant = c.instant
  BY DEF Init
<1>2. AbsCase(c) \in AbsCases
  BY DEF AbsCases
<1>3. /\ AbsDoc(text) = AbsCase(c).doc /\ AbsJwks(jwks) = AbsCase(c).jwks
      /\ AbsPolicy(BuildPolicy(args)) = AbsCase(c).policy
  BY <1>1 DEF AbsCase
<1>4. NowUnix \in {t \div Second : t \in Instants}
  BY <1>1, CasesAssumption DEF NowUnix
<1>5. over = Engine!NoOverride
  BY SameChecks DEF Init
<1>6. {AbsOutcome(o) : o \in outcome} = Engine!Decide(over)
  BY InitInvariant, EngineOutcome
<1> QED
  BY <1>2, <1>3, <1>4, <1>5, <1>6 DEF Engine!Init

LEMMA Quotients ==
  ASSUME NEW a \in Nat, NEW b \in Nat, NEW d \in Nat \ {0}, a < b
  PROVE  /\ a \div d \in Nat /\ b \div d \in Nat
         /\ a \div d <= b \div d
<1>1. /\ d * (a \div d) <= a /\ a < d * (a \div d) + d /\ a \div d \in Nat
      /\ d * (b \div d) <= b /\ b < d * (b \div d) + d /\ b \div d \in Nat
  BY SMT
<1>2. \A m, n \in Nat, q \in Nat \ {0} : m > n => q * n + q <= q * m
  BY SMT
<1> QED
  BY <1>1, <1>2

LEMMA AbsAppend ==
  ASSUME NEW ks \in Seq(Jwks), NEW k \in Jwks
  PROVE  /\ AbsJwks(Append(ks, k)) = Append(AbsJwks(ks), AbsJwk(k))
         /\ Len(AbsJwks(ks)) = Len(ks)
  BY DEF AbsJwks

(* Every step of the node is one of the engine's, or, when the clock moves *)
(* within a second, none.                                                  *)
LEMMA EngineStep == IInv /\ IInv' /\ [Next]_vars => [Engine!Next]_(Engine!vars)
<1> SUFFICES ASSUME IInv, IInv', [Next]_vars PROVE [Engine!Next]_(Engine!vars)
  OBVIOUS
<1> DEFINE abs == {AbsOutcome(o) : o \in outcome}
<1>1. abs = Engine!Decide(over) /\ abs' = Engine!Decide(over)'
  <2>1. abs = Engine!Decide(over)
    BY EngineOutcome
  <2>2. (IInv => abs = Engine!Decide(over))'
    BY EngineOutcome, PTL
  <2> QED
    BY <2>1, <2>2
<1>2. ASSUME NEW t \in Instants, Later(t) PROVE [Engine!Next]_(Engine!vars)
  <2>1. /\ AbsDoc(text)' = AbsDoc(text) /\ AbsJwks(jwks)' = AbsJwks(jwks)
        /\ AbsPolicy(BuildPolicy(args))' = AbsPolicy(BuildPolicy(args)) /\ over' = over
    BY <1>2 DEF Later
  <2>2. NowUnix' = t \div Second /\ NowUnix' \in {i \div Second : i \in Instants}
    BY <1>2 DEF Later, NowUnix
  <2>3. NowUnix \in Nat /\ NowUnix' \in Nat /\ NowUnix <= NowUnix'
    BY <1>2, <2>2, Quotients, SecondFact DEF Later, NowUnix, IInv, FromCases
  <2>4. CASE NowUnix' = NowUnix
    <3>1. abs' = abs
      BY <1>1, <2>1, <2>4 DEF Engine!Decide
    <3> QED
      BY <2>1, <2>4, <3>1 DEF Engine!vars
  <2>5. CASE NowUnix' > NowUnix
    <3>1. Engine!Later(NowUnix')
      BY <2>1, <2>5 DEF Engine!Later
    <3> QED
      BY <1>1, <2>2, <3>1 DEF Engine!Next
  <2> QED
    BY <2>3, <2>4, <2>5
<1>3. ASSUME NEW k \in Jwks, AddKey(k) PROVE Engine!Next
  <2>1. /\ AbsDoc(text)' = AbsDoc(text) /\ NowUnix' = NowUnix
        /\ AbsPolicy(BuildPolicy(args))' = AbsPolicy(BuildPolicy(args)) /\ over' = over
    BY <1>3 DEF AddKey, NowUnix
  <2>2. /\ AbsJwks(jwks)' = Append(AbsJwks(jwks), AbsJwk(k))
        /\ Len(AbsJwks(jwks)) < MaxKeys
    BY <1>3, AbsAppend DEF AddKey, IInv, FromCases
  <2>3. Engine!AddKey(AbsJwk(k))
    BY <2>1, <2>2 DEF Engine!AddKey
  <2> QED
    BY <1>1, <2>3 DEF Engine!Next
<1>4. ASSUME NEW o \in Overrides, Ask(o) PROVE Engine!Next
  <2>1. /\ AbsDoc(text)' = AbsDoc(text) /\ NowUnix' = NowUnix
        /\ AbsJwks(jwks)' = AbsJwks(jwks)
        /\ AbsPolicy(BuildPolicy(args))' = AbsPolicy(BuildPolicy(args)) /\ over' = o
    BY <1>4 DEF Ask, NowUnix
  <2>2. Engine!Ask(o)
    BY <2>1 DEF Engine!Ask
  <2> QED
    BY <1>1, <2>2 DEF Engine!Next
<1>5. CASE UNCHANGED vars
  BY <1>5 DEF vars, Engine!vars, NowUnix
<1> QED
  BY <1>2, <1>3, <1>4, <1>5 DEF Next

-----------------------------------------------------------------------------
(* Acceptance, by either host and under any policy.                        *)

LEMMA JwtAsIssued ==
  ASSUME NEW c \in Cases, NEW ks \in Seq(Jwks), NEW p, NEW now,
         c.text.kind = "jwt", JwtOutcome(c.text, ks, p, now).valid
  PROVE  \E t \in Issued : Undated(t) = Undated(c.text)
<1> DEFINE s == c.text
           found == Find(ks, HeaderOf(s).kid)
<1>1. ParseError(s) = {} /\ SignatureError(s, ks) = {}
  BY DEF JwtOutcome, RejectedFor, Rejected
<1>2. PICK k \in found : Signs(k.key, SigningInput(s), Segment(s, 3))
  BY <1>1 DEF SignatureError
<1>3. k.key \in CheckedFor(s) /\ SignedBy(s, k.key)
  BY <1>2, FindOne DEF CheckedFor, SignedBy
<1>4. PICK t \in Issued : /\ t.kind = "jwt" /\ Signed(t) = Signed(s)
                         /\ SignedBy(t, k.key)
  BY <1>3, UnforgeableAssumption
<1>5. /\ SigningInput(t) = SigningInput(s)
      /\ Segment(t, 3) = Segment(s, 3)
  BY <1>2, <1>4 DEF Signed, SignedBy, Signs
<1>6. \A u \in {s, t} :
        /\ Len(u.segments) = 3
        /\ u = [kind |-> "jwt", segments |-> [i \in 1 .. 3 |-> u.segments[i]]]
  <2> TAKE u \in {s, t}
  <2>1. WellShaped(u) /\ u.kind = "jwt" /\ ParseError(u) = {}
    BY <1>1, <1>4, UnforgeableAssumption
  <2>2. Len(u.segments) = 3
    BY <2>1 DEF ParseError
  <2>3. u = [kind |-> "jwt",
             segments |-> [i \in 1 .. Len(u.segments) |-> u.segments[i]]]
    BY <2>1 DEF WellShaped
  <2> QED
    BY <2>2, <2>3
<1>7. \A u \in {s, t} : \A i \in 1 .. 3 : Segment(u, i) = u.segments[i]
  <2>1. \A u \in {s, t} : DOMAIN u.segments = 1 .. 3
    BY <1>6
  <2> QED
    BY <2>1 DEF Segment
<1>8. \A i \in 1 .. 3 : t.segments[i] = s.segments[i]
  <2>1. Segment(t, 1) = Segment(s, 1) /\ Segment(t, 2) = Segment(s, 2)
    BY <1>5 DEF SigningInput
  <2> QED
    BY <1>5, <1>7, <2>1
<1>9. t = s
  BY <1>6, <1>8
<1> QED
  BY <1>9

LEMMA ReplaceProof ==
  ASSUME NEW json, NEW id, NEW subject, NEW issuer, NEW issued, NEW expires,
         NEW x, NEW y
  PROVE  [[kind |-> "vc", json |-> json, id |-> id, subject |-> subject,
           issuer |-> issuer, issued |-> issued, expires |-> expires,
           proof |-> x] EXCEPT !.proof = y]
         = [kind |-> "vc", json |-> json, id |-> id, subject |-> subject,
            issuer |-> issuer, issued |-> issued, expires |-> expires, proof |-> y]
  OBVIOUS

LEMMA ReplaceSubject ==
  ASSUME NEW json, NEW id, NEW issuer, NEW issued, NEW expires, NEW proof,
         NEW x, NEW y
  PROVE  [[kind |-> "vc", json |-> json, id |-> id, subject |-> x,
           issuer |-> issuer, issued |-> issued, expires |-> expires,
           proof |-> proof] EXCEPT !.subject = y]
         = [kind |-> "vc", json |-> json, id |-> id, subject |-> y,
            issuer |-> issuer, issued |-> issued, expires |-> expires, proof |-> proof]
  OBVIOUS

LEMMA VcAsIssued ==
  ASSUME NEW c \in Cases, NEW p, NEW now,
         c.text.kind # "jwt", c.text.json, VcOutcome(c.text, p, now).valid
  PROVE  \E t \in Issued : Undated(t) = Undated(c.text)
<1> DEFINE s == c.text
<1>1. ProofError(s) = {}
  BY DEF VcOutcome, RejectedFor, Rejected
<1>2. PICK q \in s.proof : q.method = s.issuer /\ Signs(s.issuer.key, Payload(s), q.signature)
  BY <1>1 DEF ProofError
<1>3. s.proof = {q}
  BY <1>2, CasesAssumption
<1>4. PICK t \in Issued : t.kind = s.kind /\ Payload(t) = Payload(s)
  BY <1>2, UnforgeableAssumption DEF CheckedFor, SignedBy, Signed
<1>5. /\ t.id = s.id /\ t.subject = s.subject /\ t.issuer = s.issuer
      /\ t.issued = s.issued /\ t.expires = s.expires
  BY <1>4 DEF Payload
<1>6. ProofError(t) = {} /\ t.json
  BY <1>4, UnforgeableAssumption
<1>7. t.proof # {} /\ \A r \in t.proof :
        r.method = s.issuer /\ Signs(s.issuer.key, Payload(s), r.signature)
  BY <1>4, <1>5, <1>6 DEF ProofError
<1> DEFINE undated(r) == [r EXCEPT !.created = 0]
           made == [method |-> s.issuer, created |-> 0, signature |-> q.signature]
<1>8. \A u \in {s, t} : WellShaped(u) /\ u.kind # "jwt"
  BY <1>4, UnforgeableAssumption
<1>9. \A r \in s.proof \union t.proof :
        /\ r = [method |-> r.method, created |-> r.created, signature |-> r.signature]
        /\ r.method = s.issuer /\ r.signature = q.signature
  BY <1>2, <1>3, <1>7, <1>8 DEF WellShaped, Signs
<1>10. \A r \in s.proof \union t.proof : undated(r) = made
  BY <1>9
<1>11. /\ {undated(r) : r \in s.proof} = {made}
       /\ {undated(r) : r \in t.proof} = {made}
  <2> HIDE DEF undated, made
  <2>1. s.proof # {} /\ t.proof # {}
    BY <1>2, <1>7
  <2> QED
    BY <1>10, <2>1
<1>j. PICK json : s.json = json
  OBVIOUS
<1>12. \A u \in {s, t} :
         Undated(u) = [kind |-> "vc", json |-> json, id |-> s.id, subject |-> s.subject,
                       issuer |-> s.issuer, issued |-> s.issued, expires |-> s.expires,
                       proof |-> {made}]
  <2> TAKE u \in {s, t}
  <2>1. /\ u.kind = "vc" /\ u.json = json /\ u.id = s.id /\ u.subject = s.subject
        /\ u.issuer = s.issuer /\ u.issued = s.issued /\ u.expires = s.expires
    BY <1>5, <1>6, <1>8, <1>j DEF WellShaped
  <2> DEFINE vc(proof) ==
        [kind |-> "vc", json |-> json, id |-> s.id, subject |-> s.subject,
         issuer |-> s.issuer, issued |-> s.issued, expires |-> s.expires, proof |-> proof]
  <2>2. u = vc(u.proof)
    BY <1>8, <2>1 DEF WellShaped
  <2>3. {undated(r) : r \in u.proof} = {made}
    BY <1>11
  <2>4. Undated(u) = [u EXCEPT !.proof = {undated(r) : r \in u.proof}]
    BY <2>1 DEF Undated
  <2>5. Undated(u) = [u EXCEPT !.proof = {made}]
    BY <2>3, <2>4
  <2>6. \A x, y : [vc(x) EXCEPT !.proof = y] = vc(y)
    BY ReplaceProof
  <2>7. Undated(u) = vc({made})
    <3> HIDE DEF vc, made
    <3> QED
      BY <2>2, <2>5, <2>6
  <2> QED
    BY <2>7
<1> QED
  BY <1>12

LEMMA Acceptance == IInv => AcceptedAsIssued
<1> SUFFICES ASSUME IInv, Accepts(outcome) \/ Accepts(edge)
             PROVE  \E t \in Issued : Undated(t) = Undated(text)
  BY DEF AcceptedAsIssued
<1>1. PICK c \in Cases : text = c.text
  BY DEF IInv, FromCases
<1>2. ASSUME NEW e PROVE ~RejectedFor(e).valid
  BY DEF RejectedFor, Rejected
<1>3. \/ text.kind = "jwt" /\ \E p, now : JwtOutcome(text, jwks, p, now).valid
      \/ text.kind # "jwt" /\ text.json /\ \E p, now : VcOutcome(text, p, now).valid
  <2>1. CASE Accepts(outcome)
    BY <2>1 DEF IInv, Native, Accepts
  <2>2. CASE Accepts(edge)
    <3>1. PICK o \in edge : o.valid
      BY <2>2 DEF Accepts
    <3>2. CASE text.kind = "jwt"
      <4>1. ParsePolicy # {} /\ edge = EdgeJwt
        BY <1>2, <3>1, <3>2 DEF IInv, Edge
      <4>2. PICK p \in ParsePolicy :
              o \in IF host.jwks = "cut" THEN {RejectedFor({"invalid JWKS JSON"})}
                  ELSE {JwtOutcome(text, jwks, p, NowSecs)}
        BY <3>1, <4>1 DEF EdgeJwt
      <4>3. JwtOutcome(text, jwks, p, NowSecs).valid
        BY <1>2, <3>1, <4>2
      <4> QED
        BY <3>2, <4>3
    <3>3. CASE text.kind # "jwt"
      <4>1. ParsePolicy # {} /\ edge = EdgeVc
        BY <1>2, <3>1, <3>3 DEF IInv, Edge
      <4>2. PICK p \in ParsePolicy :
              o \in IF text.json THEN {VcOutcome(text, p, NowSecs)}
                  ELSE {RejectedFor({"Json"})}
        BY <3>1, <4>1 DEF EdgeVc
      <4>3. text.json /\ VcOutcome(text, p, NowSecs).valid
        BY <1>2, <3>1, <4>2
      <4> QED
        BY <3>3, <4>3
    <3> QED
      BY <3>2, <3>3
  <2> QED
    BY <2>1, <2>2
<1> QED
  BY <1>1, <1>3, JwtAsIssued, VcAsIssued DEF IInv, FromCases

-----------------------------------------------------------------------------
(* Time, to the fraction of a second.                                      *)

LEMMA Fractions ==
  ASSUME NEW x \in Nat, NEW s \in Nat \ {0}, NEW k \in Int
  PROVE  /\ x \div s \in Int
         /\ x \div s >= k <=> x >= k * s
<1> DEFINE q == x \div s
<1>1. q \in Int /\ s * q <= x /\ x < s * q + s
  BY SMT
<1> HIDE DEF q
<1>2. CASE q >= k
  <2>1. s * q >= s * k
    BY <1>1, <1>2, SMT
  <2> QED
    BY <1>1, <1>2, <2>1 DEF q
<1>3. CASE q < k
  <2>1. q + 1 <= k
    BY <1>1, <1>3
  <2>2. s * (q + 1) <= s * k
    BY <1>1, <2>1, SMT
  <2>3. s * (q + 1) = s * q + s
    BY <1>1, SMT
  <2> QED
    BY <1>1, <1>3, <2>2, <2>3 DEF q
<1> QED
  BY <1>1, <1>2, <1>3

(* What the module decides on is a chain of rejections or these checks.    *)
LEMMA EdgeChecks ==
  ASSUME IInv, NEW p \in ParsePolicy, NEW o \in edge, o.checks["signature"]
  PROVE  /\ o.checks["not_before"] = NotBefore(ValidFrom(text), p.leeway, NowSecs)
         /\ o.checks["not_expired"] = NotExpired(ValidUntil(text), p.leeway, NowSecs)
<1>1. ASSUME NEW e PROVE ~RejectedFor(e).checks["signature"]
  BY DEF RejectedFor, Rejected, HardFailure
<1>2. ParsePolicy = {p}
  BY CasesAssumption DEF ParsePolicy, IInv, FromCases
<1>3. CASE text.kind = "jwt"
  <2>1. edge = EdgeJwt
    BY <1>2, <1>3 DEF IInv, Edge
  <2>2. edge = {JwtOutcome(text, jwks, p, NowSecs)}
    <3>1. CASE host.jwks = "cut"
      <4>1. EdgeJwt = {RejectedFor({"invalid JWKS JSON"})}
        BY <1>2, <3>1 DEF EdgeJwt
      <4> QED
        BY <1>1, <2>1, <4>1
    <3>2. CASE host.jwks # "cut"
      BY <1>2, <2>1, <3>2 DEF EdgeJwt
    <3> QED
      BY <3>1, <3>2
  <2>3. o = Outcome(ClaimsOf(text).iss, JwtChecks(CheckedClaims(ClaimsOf(text)), p, NowSecs))
    BY <1>1, <2>2 DEF JwtOutcome
  <2>4. o.checks = JwtChecks(CheckedClaims(ClaimsOf(text)), p, NowSecs)
    BY <2>3 DEF Outcome
  <2> QED
    BY <1>3, <2>4 DEF JwtChecks, CheckedClaims, ValidFrom, ValidUntil
<1>4. CASE text.kind # "jwt"
  <2>1. edge = EdgeVc
    BY <1>2, <1>4 DEF IInv, Edge
  <2>2. edge = {VcOutcome(text, p, NowSecs)}
    BY <1>1, <1>2, <2>1 DEF EdgeVc
  <2>3. o = Outcome({text.issuer}, VcChecks(text, p, NowSecs))
    BY <1>1, <2>2 DEF VcOutcome
  <2>4. o.checks = VcChecks(text, p, NowSecs)
    BY <2>3 DEF Outcome
  <2> QED
    BY <1>4, <2>4 DEF VcChecks, ValidFrom, ValidUntil
<1> QED
  BY <1>3, <1>4

LEMMA Exactness == IInv => ExactTime
<1> SUFFICES ASSUME IInv, NEW p \in ParsePolicy, NEW o \in edge, o.checks["signature"],
                    {NowSecs - p.leeway, NowSecs + p.leeway} \subseteq I64
             PROVE  /\ o.checks["not_before"]
                         <=> \A n \in ValidFrom(text) : instant >= (n - p.leeway) * Second
                    /\ o.checks["not_expired"]
                         <=> \A e \in ValidUntil(text) : instant < (e + p.leeway) * Second
  BY DEF ExactTime
<1> DEFINE l == p.leeway
           now == NowSecs
<1>1. PICK c \in Cases : text = c.text /\ args = c.args /\ host = c.host
  BY DEF IInv, FromCases
<1>2. I64 \subseteq Int
  BY HalfAssumption DEF I64
<1>3. /\ Second \in Nat \ {0} /\ instant \in Nat
      /\ ValidFrom(text) \subseteq Int /\ ValidUntil(text) \subseteq Int
  BY <1>1, <1>2, SecondFact, CaseTimes DEF IInv, FromCases, Option
<1>4. l \in Int
  <2>1. p = BuildPolicy(args) \/ p = Permissive
    BY <1>1, CasesAssumption DEF ParsePolicy
  <2>2. args.leeway \in Int
    BY <1>1, <1>2, CaseTimes
  <2>3. BuildPolicy(args).leeway = args.leeway /\ Permissive.leeway = 0
    BY DEF BuildPolicy, Permissive
  <2> QED
    BY <2>1, <2>2, <2>3
<1>5. now \in Int
  BY <1>3, Fractions DEF NowSecs
<1>6. Wrap(now - l) = now - l /\ Wrap(now + l) = now + l
  BY <1>4, <1>5, HalfAssumption DEF Wrap, I64
<1>7. ASSUME NEW k \in Int PROVE now >= k <=> instant >= k * Second
  BY <1>3, Fractions DEF NowSecs
<1> HIDE DEF l, now
<1>8. ASSUME NEW n \in ValidFrom(text)
      PROVE  now + l >= n <=> instant >= (n - l) * Second
  <2>1. n \in Int /\ n - l \in Int
    BY <1>3, <1>4
  <2>2. now >= n - l <=> instant >= (n - l) * Second
    BY <1>7, <2>1
  <2> QED
    BY <1>4, <1>5, <2>1, <2>2
<1>9. ASSUME NEW e \in ValidUntil(text)
      PROVE  now - l < e <=> instant < (e + l) * Second
  <2>1. e \in Int /\ e + l \in Int
    BY <1>3, <1>4
  <2>2. now >= e + l <=> instant >= (e + l) * Second
    BY <1>7, <2>1
  <2>3. (e + l) * Second \in Int /\ instant \in Int
    BY <1>3, <2>1
  <2> QED
    BY <1>4, <1>5, <2>1, <2>2, <2>3
<1>10. /\ o.checks["not_before"] = \A n \in ValidFrom(text) : now + l >= n
       /\ o.checks["not_expired"] = \A e \in ValidUntil(text) : now - l < e
  BY <1>6, EdgeChecks DEF NotBefore, NotExpired, l, now
<1> QED
  BY <1>8, <1>9, <1>10 DEF l

-----------------------------------------------------------------------------
(* What the theorems about the engine assume holds of what texts say.      *)

LEMMA SignerTyped ==
  ASSUME NEW payload, NEW sig PROVE SignerOf(payload, sig) \in Option(Key)
<1>1. \A j, k \in SignerOf(payload, sig) : j = k
  BY DEF SignerOf, Signs, Sign
<1>2. SignerOf(payload, sig) \subseteq Key
  BY DEF SignerOf
<1>3. CASE SignerOf(payload, sig) = {}
  BY <1>3 DEF Option
<1>4. CASE SignerOf(payload, sig) # {}
  <2>1. PICK k \in SignerOf(payload, sig) : TRUE
    BY <1>4
  <2>2. SignerOf(payload, sig) = {k} /\ k \in Key
    BY <1>1, <1>2, <2>1
  <2> QED
    BY <2>2 DEF Option
<1> QED
  BY <1>3, <1>4

LEMMA EngineDocuments == EngineProofs!DocumentsAssumption
<1>1. ASSUME NEW c \in Cases
      PROVE  LET d == AbsDoc(c.text)
             IN  \/ /\ d.kind = "jwt"
                    /\ d.signer \in Option(Key)
                    /\ d.exp \in Option(I64) /\ d.nbf \in Option(I64)
                 \/ /\ d.kind = "vc"
                    /\ \A p \in d.proof : p.signer \in Option(Key)
                    /\ d.expires \in Option(I64) /\ d.issued \in I64
  <2> DEFINE t == c.text
             d == AbsDoc(t)
  <2>1. ValidFrom(t) \in Option(I64) /\ ValidUntil(t) \in Option(I64)
    BY CaseTimes
  <2>2. CASE t.kind = "jwt"
    <3>1. /\ d.kind = "jwt" /\ d.signer = SignerOf(SigningInput(t), Segment(t, 3))
          /\ d.exp = CheckedClaims(ClaimsOf(t)).exp
          /\ d.nbf = CheckedClaims(ClaimsOf(t)).nbf
      BY <2>2 DEF AbsDoc
    <3>2. d.exp = ValidUntil(t) /\ d.nbf = ValidFrom(t)
      BY <2>2, <3>1 DEF CheckedClaims, ValidUntil, ValidFrom
    <3> QED
      BY <2>1, <3>1, <3>2, SignerTyped
  <2>3. CASE t.kind # "jwt"
    <3>1. /\ d.kind = "vc" /\ d.expires = t.expires /\ d.issued = t.issued
          /\ d.proof = {[method |-> AbsName(p.method),
                         signer |-> SignerOf(Payload(t), p.signature)] : p \in t.proof}
      BY <2>3 DEF AbsDoc
    <3>2. d.expires \in Option(I64) /\ d.issued \in I64
      BY <2>1, <2>3, <3>1 DEF ValidUntil, ValidFrom, Option
    <3>3. \A p \in d.proof : p.signer \in Option(Key)
      BY <3>1, SignerTyped
    <3> QED
      BY <3>1, <3>2, <3>3
  <2> QED
    BY <2>2, <2>3
<1>2. \A e \in AbsCases : \E c \in Cases : e.doc = AbsDoc(c.text)
  BY DEF AbsCases, AbsCase
<1>3. \A S : EngineProofs!Option(S) = Option(S)
  BY DEF EngineProofs!Option, Option
<1>4. EngineProofs!I64 = I64
  BY DEF EngineProofs!I64, I64
<1> QED
  BY <1>1, <1>2, <1>3, <1>4 DEF EngineProofs!DocumentsAssumption, EngineProofs!Documents

LEMMA EngineInputs == EngineProofs!InputsAssumption
<1>1. ASSUME NEW c \in Cases
      PROVE  /\ AbsJwks(c.jwks) \in Seq({AbsJwk(k) : k \in Jwks})
             /\ AbsPolicy(BuildPolicy(c.args)).leeway \in I64
  <2>1. c.jwks \in Seq(Jwks) /\ c.args.leeway \in I64
    BY CasesAssumption, CaseTimes
  <2>2. AbsPolicy(BuildPolicy(c.args)).leeway = c.args.leeway
    BY DEF AbsPolicy, BuildPolicy, Permissive
  <2>3. AbsJwks(c.jwks) \in Seq({AbsJwk(k) : k \in Jwks})
    BY <2>1 DEF AbsJwks
  <2> QED
    BY <2>1, <2>2, <2>3
<1>2. ASSUME NEW t \in Instants PROVE t \div Second \in I64
  BY SecondsFact
<1>3. EngineProofs!I64 = I64
  BY DEF EngineProofs!I64, I64
<1>4. \A e \in AbsCases : \E c \in Cases : e = AbsCase(c)
  BY DEF AbsCases
<1>5. EngineProofs!KeySets \subseteq Seq({AbsJwk(k) : k \in Jwks})
  BY <1>1, <1>4 DEF EngineProofs!KeySets, AbsCase
<1>6. \A p \in EngineProofs!Policies : p.leeway \in I64
  <2>1. \A c \in Cases : AbsCase(c).policy = AbsPolicy(BuildPolicy(c.args))
    BY DEF AbsCase
  <2>2. \A e \in AbsCases : e.policy \in {AbsCase(c).policy : c \in Cases}
    BY <1>4
  <2>3. \A e \in AbsCases : e.policy.leeway \in I64
    BY <1>1, <2>1, <2>2
  <2> QED
    BY <2>3 DEF EngineProofs!Policies
<1> QED
  BY <1>2, <1>3, <1>5, <1>6 DEF EngineProofs!InputsAssumption

LEMMA EngineAssumptions ==
  /\ EngineProofs!HalfAssumption
  /\ EngineProofs!DocumentsAssumption
  /\ EngineProofs!InputsAssumption
  BY HalfAssumption, EngineDocuments, EngineInputs DEF EngineProofs!HalfAssumption

(* The two instances of VerifierCalls are one.                             *)
LEMMA SameEngine ==
  /\ Engine!Init <=> EngineProofs!Init
  /\ [Engine!Next]_(Engine!vars) <=> [EngineProofs!Next]_(EngineProofs!vars)
  /\ Engine!SignatureIffAuthentic <=> EngineProofs!SignatureIffAuthentic
  /\ Engine!SkewTolerated <=> EngineProofs!SkewTolerated
  /\ Engine!WrapNeverAdmits <=> EngineProofs!WrapNeverAdmits
  /\ Engine!OverrideKeepsRest <=> EngineProofs!OverrideKeepsRest
<1> USE DEF Engine!Decide, EngineProofs!Decide,
            Engine!VerifyJwt, EngineProofs!VerifyJwt,
            Engine!VerifyCredentialJson, EngineProofs!VerifyCredentialJson,
            Engine!VerifyCredential, EngineProofs!VerifyCredential,
            Engine!JwtSigned, EngineProofs!JwtSigned,
            Engine!VcSigned, EngineProofs!VcSigned,
            Engine!Find, EngineProofs!Find,
            Engine!Outcome, EngineProofs!Outcome,
            Engine!Rejected, EngineProofs!Rejected,
            Engine!HardFailure, EngineProofs!HardFailure,
            Engine!All, EngineProofs!All,
            Engine!FirstFailure, EngineProofs!FirstFailure,
            Engine!Check, EngineProofs!Check,
            Engine!CheckOrder, EngineProofs!CheckOrder,
            Engine!JwtChecks, EngineProofs!JwtChecks,
            Engine!VcChecks, EngineProofs!VcChecks,
            Engine!NotExpired, EngineProofs!NotExpired,
            Engine!NotBefore, EngineProofs!NotBefore,
            Engine!IssuerTrusted, EngineProofs!IssuerTrusted,
            Engine!AudienceOK, EngineProofs!AudienceOK,
            Engine!Wrap, EngineProofs!Wrap,
            Engine!EffectivePolicy, EngineProofs!EffectivePolicy,
            Engine!NoOverride, EngineProofs!NoOverride
<1>1. Engine!Init <=> EngineProofs!Init
  BY DEF Engine!Init, EngineProofs!Init
<1>2. [Engine!Next]_(Engine!vars) <=> [EngineProofs!Next]_(EngineProofs!vars)
  BY DEF Engine!Next, EngineProofs!Next, Engine!vars, EngineProofs!vars,
     Engine!Later, EngineProofs!Later, Engine!AddKey, EngineProofs!AddKey,
     Engine!Ask, EngineProofs!Ask
<1>3. Engine!SignatureIffAuthentic <=> EngineProofs!SignatureIffAuthentic
  BY DEF Engine!SignatureIffAuthentic, EngineProofs!SignatureIffAuthentic,
     Engine!SignatureOK, EngineProofs!SignatureOK, Engine!Authentic, EngineProofs!Authentic,
     Engine!DistinctKids, EngineProofs!DistinctKids
<1>4. Engine!SkewTolerated <=> EngineProofs!SkewTolerated
  BY DEF Engine!SkewTolerated, EngineProofs!SkewTolerated,
     Engine!SignatureOK, EngineProofs!SignatureOK, Engine!I64, EngineProofs!I64,
     Engine!ValidFrom, EngineProofs!ValidFrom, Engine!ValidUntil, EngineProofs!ValidUntil
<1>5. Engine!WrapNeverAdmits <=> EngineProofs!WrapNeverAdmits
  BY DEF Engine!WrapNeverAdmits, EngineProofs!WrapNeverAdmits,
     Engine!Accepted, EngineProofs!Accepted,
     Engine!ValidFrom, EngineProofs!ValidFrom, Engine!ValidUntil, EngineProofs!ValidUntil
<1>6. Engine!OverrideKeepsRest <=> EngineProofs!OverrideKeepsRest
  BY DEF Engine!OverrideKeepsRest, EngineProofs!OverrideKeepsRest,
     Engine!Accepted, EngineProofs!Accepted
<1> QED
  BY <1>1, <1>2, <1>3, <1>4, <1>5, <1>6

LEMMA SameNewKey ==
  [\A k \in {AbsJwk(k) : k \in Jwks} :
     Engine!AddKey(k) /\ Engine!Accepted
     /\ (AbsDoc(text).kind = "jwt" => AbsDoc(text).kid # {})
     => Engine!Accepted']_(Engine!vars)
  <=>
  [\A k \in {AbsJwk(k) : k \in Jwks} :
     EngineProofs!AddKey(k) /\ EngineProofs!Accepted
     /\ (AbsDoc(text).kind = "jwt" => AbsDoc(text).kid # {})
     => EngineProofs!Accepted']_(EngineProofs!vars)
  BY DEF Engine!AddKey, EngineProofs!AddKey, Engine!Accepted, EngineProofs!Accepted,
     Engine!vars, EngineProofs!vars

-----------------------------------------------------------------------------
(* Every verdict is well formed.                                           *)

LEMMA EngineForms ==
  /\ \A checks : /\ FirstFailure(checks) \in {{}} \union {{c} : c \in Check}
                 /\ All(checks) <=> FirstFailure(checks) = {}
  /\ \A d, p, t : /\ JwtChecks(d, p, t) \in VerificationChecks
                  /\ VcChecks(d, p, t) \in VerificationChecks
<1>1. /\ \A checks : EngineProofs!FirstFailure(checks) = FirstFailure(checks)
      /\ \A checks : EngineProofs!All(checks) = All(checks)
      /\ EngineProofs!Check = Check
  BY DEF EngineProofs!FirstFailure, FirstFailure, EngineProofs!All, All,
     EngineProofs!Check, Check, EngineProofs!CheckOrder, CheckOrder
<1>2. /\ \A d, p, t : EngineProofs!JwtChecks(d, p, t) = JwtChecks(d, p, t)
      /\ \A d, p, t : EngineProofs!VcChecks(d, p, t) = VcChecks(d, p, t)
      /\ EngineProofs!VerificationChecks = VerificationChecks
  BY DEF EngineProofs!JwtChecks, JwtChecks, EngineProofs!VcChecks, VcChecks,
     EngineProofs!NotExpired, NotExpired, EngineProofs!NotBefore, NotBefore,
     EngineProofs!IssuerTrusted, IssuerTrusted, EngineProofs!AudienceOK, AudienceOK,
     EngineProofs!Wrap, Wrap, EngineProofs!VerificationChecks, VerificationChecks
<1>3. \A checks :
        /\ EngineProofs!FirstFailure(checks) \in {{}} \union {{c} : c \in EngineProofs!Check}
        /\ EngineProofs!All(checks) <=> EngineProofs!FirstFailure(checks) = {}
  BY EngineAssumptions, EngineProofs!FirstFailureForm
<1>4. \A d, p, t :
        /\ EngineProofs!JwtChecks(d, p, t) \in EngineProofs!VerificationChecks
        /\ EngineProofs!VcChecks(d, p, t) \in EngineProofs!VerificationChecks
  BY EngineAssumptions, EngineProofs!ChecksTyped
<1>5. \A checks : /\ FirstFailure(checks) \in {{}} \union {{c} : c \in Check}
                  /\ All(checks) <=> FirstFailure(checks) = {}
  BY <1>1, <1>3
<1> QED
  BY <1>2, <1>4, <1>5

WellFormed(o) ==
  /\ o.checks \in VerificationChecks
  /\ o.valid <=> o.reason = {}
  /\ o.reason \in Option(Check \union Errors)

LEMMA RejectionForm == \A e \in Errors : WellFormed(RejectedFor({e}))
<1> TAKE e \in Errors
<1>1. /\ RejectedFor({e}).checks = HardFailure /\ RejectedFor({e}).valid = FALSE
      /\ RejectedFor({e}).reason = {e}
  BY DEF RejectedFor, Rejected
<1>2. HardFailure \in VerificationChecks
  BY DEF HardFailure, VerificationChecks
<1> QED
  BY <1>1, <1>2 DEF WellFormed, Option

LEMMA VerdictForm ==
  ASSUME NEW i, NEW c \in VerificationChecks PROVE WellFormed(Outcome(i, c))
<1>1. /\ Outcome(i, c).checks = c /\ Outcome(i, c).valid = All(c)
      /\ Outcome(i, c).reason = FirstFailure(c)
  BY DEF Outcome
<1>2. /\ FirstFailure(c) \in {{}} \union {{x} : x \in Check}
      /\ All(c) <=> FirstFailure(c) = {}
  BY EngineForms
<1>3. FirstFailure(c) \in Option(Check \union Errors)
  BY <1>2 DEF Option
<1> QED
  BY <1>1, <1>2, <1>3 DEF WellFormed

(* One error at a time: of a text, of its signature, of a proof.           *)
LEMMA OneError ==
  /\ \A t : \/ ParseError(t) = {}
            \/ \E e \in Errors : ParseError(t) = {e}
  /\ \A t : \A ks \in Seq(Jwks) : \/ SignatureError(t, ks) = {}
                                  \/ \E e \in Errors : SignatureError(t, ks) = {e}
  /\ \A t : (\A m, n \in t.proof : m = n) => \/ ProofError(t) = {}
                                             \/ \E e \in Errors : ProofError(t) = {e}
<1>1. ASSUME NEW t PROVE ParseError(t) = {} \/ \E e \in Errors : ParseError(t) = {e}
  BY DEF ParseError, Errors
<1>2. ASSUME NEW t, NEW ks \in Seq(Jwks)
      PROVE  SignatureError(t, ks) = {} \/ \E e \in Errors : SignatureError(t, ks) = {e}
  <2> DEFINE found == Find(ks, HeaderOf(t).kid)
  <2>1. ASSUME NEW j PROVE JwkError(j) = {} \/ \E e \in Errors : JwkError(j) = {e}
    BY DEF JwkError, Errors
  <2>2. ASSUME NEW k \in found PROVE UNION {JwkError(j) : j \in found} = JwkError(k)
    <3>1. \A j \in found : j = k
      BY FindOne
    <3> QED
      BY <2>2, <3>1
  <2>3. {"UnsupportedAlgorithm", "UnknownKeyId", "SignatureInvalid"} \subseteq Errors
    BY DEF Errors
  <2> QED
    BY <2>1, <2>2, <2>3 DEF SignatureError
<1>3. ASSUME NEW t, \A m, n \in t.proof : m = n
      PROVE  ProofError(t) = {} \/ \E e \in Errors : ProofError(t) = {e}
  <2>1. ASSUME NEW p PROVE HexError(p) = {} \/ \E e \in Errors : HexError(p) = {e}
    BY DEF HexError, Errors
  <2>2. ASSUME NEW q \in t.proof PROVE UNION {HexError(p) : p \in t.proof} = HexError(q)
    BY <1>3, <2>2
  <2>3. DidError(t.issuer) = {} \/ \E e \in Errors : DidError(t.issuer) = {e}
    BY DEF DidError, Errors
  <2>4. {"MissingProof", "IssuerMismatch", "SignatureInvalid"} \subseteq Errors
    BY DEF Errors
  <2> QED
    BY <2>1, <2>2, <2>3, <2>4 DEF ProofError
<1> QED
  BY <1>1, <1>2, <1>3

LEMMA JwtForm ==
  ASSUME NEW t, NEW ks \in Seq(Jwks), NEW p, NEW now
  PROVE  WellFormed(JwtOutcome(t, ks, p, now))
  BY OneError, RejectionForm, EngineForms, VerdictForm DEF JwtOutcome

LEMMA VcForm ==
  ASSUME NEW t, \A m, n \in t.proof : m = n, NEW p, NEW now
  PROVE  WellFormed(VcOutcome(t, p, now))
  BY OneError, RejectionForm, EngineForms, VerdictForm DEF VcOutcome

LEMMA TypeFact == IInv => TypeOK
<1> SUFFICES ASSUME IInv PROVE TypeOK
  OBVIOUS
<1>1. PICK c \in Cases : text = c.text /\ host = c.host
  BY DEF IInv, FromCases
<1>2. jwks \in Seq(Jwks) /\ (text.kind # "jwt" => \A m, n \in text.proof : m = n)
  BY <1>1, CasesAssumption DEF IInv, FromCases
<1>3. /\ outcome = {} => text.kind = "vc"
      /\ \A o \in outcome : WellFormed(o)
  <2>1. CASE text.kind = "jwt"
    BY <1>2, <2>1, JwtForm DEF IInv, Native
  <2>2. CASE text.kind # "jwt"
    <3>1. text.kind = "vc"
      BY <1>1, <2>2, CasesAssumption
    <3> QED
      BY <1>2, <2>2, <3>1, VcForm DEF IInv, Native
  <2> QED
    BY <2>1, <2>2
<1>4. \E o : edge = {o} /\ WellFormed(o)
  <2>1. {"invalid JWKS JSON", "invalid trust policy JSON", "Json"} \subseteq Errors
    BY DEF Errors
  <2>2. CASE ParsePolicy = {}
    BY <2>1, <2>2, RejectionForm DEF IInv, Edge
  <2>3. CASE ParsePolicy # {}
    <3>1. PICK p : ParsePolicy = {p}
      BY <1>1, <2>3, CasesAssumption DEF ParsePolicy
    <3>2. CASE text.kind = "jwt"
      <4>1. edge = EdgeJwt
        BY <2>3, <3>2 DEF IInv, Edge
      <4>2. edge = IF host.jwks = "cut" THEN {RejectedFor({"invalid JWKS JSON"})}
                   ELSE {JwtOutcome(text, jwks, p, NowSecs)}
        BY <3>1, <4>1 DEF EdgeJwt
      <4> QED
        BY <1>2, <2>1, <4>2, RejectionForm, JwtForm
    <3>3. CASE text.kind # "jwt"
      <4>1. edge = EdgeVc
        BY <2>3, <3>3 DEF IInv, Edge
      <4>2. edge = IF text.json THEN {VcOutcome(text, p, NowSecs)}
                   ELSE {RejectedFor({"Json"})}
        BY <3>1, <4>1 DEF EdgeVc
      <4> QED
        BY <1>2, <2>1, <3>3, <4>2, RejectionForm, VcForm
    <3> QED
      BY <3>2, <3>3
  <2> QED
    BY <2>2, <2>3
<1>5. Cardinality(edge) = 1
  BY <1>4, FS_Singleton
<1> QED
  BY <1>3, <1>4, <1>5 DEF TypeOK, WellFormed

-----------------------------------------------------------------------------
(* What a node makes itself.                                               *)

LEMMA SignerKeys ==
  ASSUME NEW seed \in Seeds
  PROVE  /\ Signer[seed] \in Key
         /\ \A n \in Nat : SeedAdd(seed, n) \in Seeds
         /\ VcKey(seed) \in Key /\ VcIssuer(seed) \in Dids
<1>1. Signer \in [Seeds -> Key] /\ U8 \in Nat \ {0}
  BY SignerAssumption
<1>2. ASSUME NEW n \in Nat PROVE SeedAdd(seed, n) \in Seeds
  <2>1. seed + n \in Nat
    BY <1>1 DEF Seeds
  <2> QED
    BY <1>1, <2>1 DEF SeedAdd, Seeds
<1>3. VcKey(seed) \in Key
  BY <1>1, <1>2 DEF VcKey, LocalSigner
<1>4. VcIssuer(seed) \in Dids
  BY <1>3 DEF VcIssuer, DidOf, Dids
<1> QED
  BY <1>1, <1>2, <1>3, <1>4

(* What the checks see of an artifact by one issuer for one audience.      *)
Claimed(checked, iss, aud, nbf, exp) ==
  /\ checked.iss = {iss} /\ checked.aud = {{aud}}
  /\ checked.nbf = {nbf} /\ checked.exp = {exp}

Stated(v, issuer, issued, expires) ==
  v.issuer = issuer /\ v.issued = issued /\ v.expires = {expires}

Changed(v) == [v EXCEPT !.subject.kyc_level = "platinum"]

(* A token as mint_jwt makes it verifies with its own key and no other.    *)
LEMMA MintedVerdict ==
  ASSUME NEW key \in Key, NEW iss, NEW aud, NEW nbf, NEW exp,
         NEW seed \in Seeds, NEW p, NEW now,
         NEW t, t = MintJwt(key, iss, aud, nbf, exp),
         NEW checked, checked = CheckedClaims(ClaimsOf(t))
  PROVE  /\ JwtOutcome(t, LocalJwks(seed), p, now)
              = IF LocalSigner(seed) = key THEN Outcome({iss}, JwtChecks(checked, p, now))
                ELSE RejectedFor({"SignatureInvalid"})
         /\ Claimed(checked, iss, aud, nbf, exp)
<1> DEFINE h == [form |-> "header", alg |-> "EdDSA", kid |-> {LocalKid}]
           c == [form |-> "claims", iss |-> {iss}, aud |-> {<<aud>>}, exp |-> {exp},
                 nbf |-> {nbf}, jti |-> {"jti"}, scope |-> {<<"openid", "profile">>}]
           jwk == JwkOf(LocalSigner(seed), LocalKid)
<1>1. t = [kind |-> "jwt", segments |-> <<h, c, Sign(key, <<h, c>>)>>]
  BY DEF MintJwt, EncodeJwt
<1>2. /\ Segment(t, 1) = h /\ Segment(t, 2) = c /\ Segment(t, 3) = Sign(key, <<h, c>>)
      /\ Len(t.segments) = 3
  BY <1>1 DEF Segment
<1>3. h.form = "header" /\ c.form = "claims" /\ Segment(t, 3).form = "signature"
  BY <1>2 DEF Sign
<1>4. h.alg = "EdDSA" /\ h.kid = {LocalKid} /\ c.iss = {iss}
  OBVIOUS
<1>5. /\ CheckedClaims(c).iss = {iss} /\ CheckedClaims(c).exp = {exp}
      /\ CheckedClaims(c).nbf = {nbf} /\ CheckedClaims(c).aud = {{aud}}
  <2>1. Words(<<aud>>) = {aud}
    BY DEF Words
  <2> QED
    BY <2>1 DEF CheckedClaims
<1> HIDE DEF h, c
<1>6. ParseError(t) = {}
  BY <1>2, <1>3 DEF ParseError
<1>7. HeaderOf(t) = h /\ ClaimsOf(t) = c /\ SigningInput(t) = <<h, c>>
  BY <1>2, <1>3 DEF HeaderOf, ClaimsOf, SigningInput
<1>8. Find(LocalJwks(seed), {LocalKid}) = {jwk}
  <2>1. jwk.kid = {LocalKid}
    BY DEF JwkOf
  <2>2. LocalJwks(seed) = <<jwk>>
    BY DEF LocalJwks
  <2> HIDE DEF jwk
  <2> QED
    BY <2>1, <2>2 DEF Find
<1>9. JwkError(jwk) = {} /\ jwk.key = LocalSigner(seed)
  BY DEF JwkError, JwkOf
<1>10. Signs(LocalSigner(seed), <<h, c>>, Sign(key, <<h, c>>)) <=> LocalSigner(seed) = key
  BY DEF Signs, Sign
<1>11. SignatureError(t, LocalJwks(seed))
         = IF LocalSigner(seed) = key THEN {} ELSE {"SignatureInvalid"}
  <2> HIDE DEF jwk
  <2>1. Find(LocalJwks(seed), HeaderOf(t).kid) = {jwk} /\ HeaderOf(t).alg = "EdDSA"
    BY <1>4, <1>7, <1>8
  <2>2. ~(\E j \in {jwk} : JwkError(j) # {})
    BY <1>9
  <2>3. (\E j \in {jwk} : ~Signs(j.key, SigningInput(t), Segment(t, 3)))
          <=> LocalSigner(seed) # key
    BY <1>2, <1>7, <1>9, <1>10
  <2> QED
    BY <2>1, <2>2, <2>3 DEF SignatureError
<1>12. JwtOutcome(t, LocalJwks(seed), p, now)
         = IF LocalSigner(seed) = key THEN Outcome({iss}, JwtChecks(CheckedClaims(c), p, now))
           ELSE RejectedFor({"SignatureInvalid"})
  BY <1>4, <1>6, <1>7, <1>11 DEF JwtOutcome
<1> QED
  BY <1>5, <1>7, <1>12 DEF Claimed

(* A credential that its issuer's key has signed, and what becomes of one  *)
(* whose subject is changed afterwards.                                    *)
LEMMA SignedVerdict ==
  ASSUME NEW seed \in Seeds, NEW issued, NEW expires, NEW created, NEW p, NEW now,
         NEW v, v = SignVc(Credential(seed, issued, expires), VcKey(seed), created)
  PROVE  /\ VcOutcome(v, p, now) = Outcome({VcIssuer(seed)}, VcChecks(v, p, now))
         /\ VcOutcome(Changed(v), p, now) = RejectedFor({"SignatureInvalid"})
         /\ Stated(v, VcIssuer(seed), issued, expires)
<1>j. PICK json : json = TRUE
  OBVIOUS
<1> DEFINE k == VcKey(seed)
           cred == Credential(seed, issued, expires)
           w == Changed(v)
           made == [method |-> DidOf(k), created |-> created,
                    signature |-> Sign(k, Payload(cred))]
           gold == [id |-> DidOf(LocalSigner(SeedAdd(seed, 2))), kyc_level |-> "gold"]
           platinum == [id |-> DidOf(LocalSigner(SeedAdd(seed, 2))), kyc_level |-> "platinum"]
           vc(subject, proof) ==
             [kind |-> "vc", json |-> json, id |-> "urn:cred", subject |-> subject,
              issuer |-> DidOf(k), issued |-> issued, expires |-> {expires},
              proof |-> proof]
<1>1. cred = vc(gold, {})
  BY <1>j, Zenon DEF Credential, VcIssuer
<1>2. v = vc(gold, {made})
  <2>1. v = [cred EXCEPT !.proof = {made}]
    BY <1>1 DEF SignVc
  <2>2. \A x, y, z : [vc(x, y) EXCEPT !.proof = z] = vc(x, z)
    BY ReplaceProof
  <2> HIDE DEF vc, cred, gold, made
  <2> QED
    BY <1>1, <2>1, <2>2
<1>3. w = vc(platinum, {made})
  <2>1. w = [v EXCEPT !.subject = [v.subject EXCEPT !.kyc_level = "platinum"]]
    BY DEF Changed
  <2>2. v.subject = gold
    BY <1>2
  <2>3. [gold EXCEPT !.kyc_level = "platinum"] = platinum
    OBVIOUS
  <2>4. \A x, y, z : [vc(x, y) EXCEPT !.subject = z] = vc(z, y)
    BY ReplaceSubject
  <2> HIDE DEF vc, w, gold, platinum
  <2> QED
    BY <1>2, <2>1, <2>2, <2>3, <2>4
<1>4. Payload(v) = Payload(cred) /\ Payload(w) # Payload(cred)
  <2>1. Payload(v).subject = gold /\ Payload(w).subject = platinum
    BY <1>2, <1>3 DEF Payload
  <2>2. Payload(v) = Payload(cred)
    <3> HIDE DEF cred, gold, made
    <3> QED
      BY <1>1, <1>2 DEF Payload
  <2>3. gold # platinum
    OBVIOUS
  <2> QED
    BY <2>1, <2>2, <2>3
<1>5. /\ made.method = DidOf(k) /\ made.signature = Sign(k, Payload(cred))
      /\ HexError(made) = {}
  BY DEF HexError, Sign
<1>6. DidError(DidOf(k)) = {} /\ DidOf(k).key = k
  BY DEF DidError, DidOf
<1>7. /\ Signs(k, Payload(v), made.signature)
      /\ ~Signs(k, Payload(w), made.signature)
  <2> HIDE DEF made, w, cred
  <2> QED
    BY <1>4, <1>5 DEF Signs, Sign
<1>8. \A u \in {v, w} : u.proof = {made} /\ u.issuer = DidOf(k)
  BY <1>2, <1>3
<1>9. v.issued = issued /\ v.expires = {expires}
  BY <1>2
<1> HIDE DEF made, w
<1>10. ProofError(v) = {} /\ ProofError(w) = {"SignatureInvalid"}
  BY <1>5, <1>6, <1>7, <1>8 DEF ProofError
<1>11. /\ VcOutcome(v, p, now) = Outcome({DidOf(k)}, VcChecks(v, p, now))
       /\ VcOutcome(w, p, now) = RejectedFor({"SignatureInvalid"})
  BY <1>8, <1>10 DEF VcOutcome
<1> QED
  BY <1>8, <1>9, <1>11 DEF w, VcIssuer, Stated

LEMMA OnlyFailure ==
  ASSUME NEW checks, NEW c \in Check, ~checks[c], \A d \in Check \ {c} : checks[d]
  PROVE  FirstFailure(checks) = {c}
<1>1. ~All(checks)
  BY DEF All
<1>2. PICK x \in Check : FirstFailure(checks) = {x}
  BY <1>1, EngineForms
<1>3. ~checks[x]
  BY <1>2 DEF FirstFailure
<1> QED
  BY <1>2, <1>3

LEMMA NoFailure ==
  ASSUME NEW checks, \A c \in Check : checks[c] PROVE FirstFailure(checks) = {}
  BY EngineForms DEF All

LEMMA CallFacts ==
  ASSUME IInv
  PROVE  /\ args.seed \in Seeds /\ args.leeway \in I64
         /\ NowUnix \in Nat /\ NowUnix \in I64 /\ NowUnix + Day < Half
<1>1. PICK c \in Cases : args = c.args
  BY DEF IInv, FromCases
<1> QED
  BY <1>1, CasesAssumption, CaseTimes, SecondsFact DEF IInv, FromCases, NowUnix

(* A policy without scopes, revocations and sums that wrap, and what it    *)
(* checks of an artifact that one issuer made for one audience.            *)
Plain(p, now) ==
  /\ p.scopes = {} /\ p.revoked = {} /\ now \in Int /\ p.leeway \in Int
  /\ now - p.leeway \in I64 /\ now + p.leeway \in I64

PlainlyChecked(checks, p, now, from, until, issuer, heard) ==
  /\ checks["signature"] /\ checks["scopes"] /\ checks["not_revoked"]
  /\ checks["not_expired"] <=> now - p.leeway < until
  /\ checks["not_before"] <=> now + p.leeway >= from
  /\ checks["issuer_trusted"] <=> p.trusted = {} \/ issuer \in p.trusted
  /\ checks["audience"] <=> heard

LEMMA PlainTimes ==
  ASSUME NEW p, NEW now, Plain(p, now), NEW from \in Int, NEW until \in Int
  PROVE  /\ NotExpired({until}, p.leeway, now) <=> now - p.leeway < until
         /\ NotBefore({from}, p.leeway, now) <=> now + p.leeway >= from
<1>1. Wrap(now - p.leeway) = now - p.leeway /\ Wrap(now + p.leeway) = now + p.leeway
  BY HalfAssumption DEF Plain, Wrap, I64
<1> QED
  BY <1>1 DEF NotExpired, NotBefore

LEMMA PlainJwt ==
  ASSUME NEW p, NEW now, Plain(p, now), NEW from \in Int, NEW until \in Int,
         NEW c, NEW issuer, NEW audience, Claimed(c, issuer, audience, from, until)
  PROVE  PlainlyChecked(JwtChecks(c, p, now), p, now, from, until, issuer,
                        p.audience \subseteq {audience})
<1> DEFINE checks == JwtChecks(c, p, now)
<1> USE DEF Claimed
<1>1. /\ checks["signature"] /\ checks["scopes"] = (p.scopes \subseteq c.scope)
      /\ checks["not_revoked"] = (c.jti \cap p.revoked = {})
  BY DEF JwtChecks
<1>2. checks["not_expired"] = NotExpired({until}, p.leeway, now)
  BY DEF JwtChecks
<1>3. checks["not_before"] = NotBefore({from}, p.leeway, now)
  BY DEF JwtChecks
<1>4. checks["issuer_trusted"] = IssuerTrusted(p, {issuer})
  BY DEF JwtChecks
<1>5. checks["audience"] = AudienceOK(p, c)
  BY DEF JwtChecks
<1>6. AudienceOK(p, c) <=> p.audience \subseteq {audience}
  BY DEF AudienceOK
<1>7. IssuerTrusted(p, {issuer}) <=> p.trusted = {} \/ issuer \in p.trusted
  BY DEF IssuerTrusted
<1>8. checks["scopes"] /\ checks["not_revoked"]
  BY <1>1 DEF Plain
<1> HIDE DEF checks
<1> QED
  BY <1>1, <1>2, <1>3, <1>4, <1>5, <1>6, <1>7, <1>8, PlainTimes DEF PlainlyChecked, checks

LEMMA PlainVc ==
  ASSUME NEW p, NEW now, Plain(p, now), NEW from \in Int, NEW until \in Int,
         NEW v, NEW issuer, Stated(v, issuer, from, until)
  PROVE  PlainlyChecked(VcChecks(v, p, now), p, now, from, until, issuer, TRUE)
<1>1. IssuerTrusted(p, {issuer}) <=> p.trusted = {} \/ issuer \in p.trusted
  BY DEF IssuerTrusted
<1> QED
  BY <1>1, PlainTimes DEF VcChecks, PlainlyChecked, Plain, Stated

LEMMA FixturesFact == IInv => FixturesAccepted
<1> DEFINE p == BuildPolicy(args)
           now == NowUnix
           token(seed) == JwtOutcome(MintedJwt(args), LocalJwks(seed), p, now)
           minted == VcOutcome(MintedVc(args), p, now)
<1> SUFFICES ASSUME IInv, args.leeway >= 0, now + args.leeway \in I64, now < FixtureExp
             PROVE  /\ \A seed \in Seeds :
                         token(seed).valid
                           <=> seed = args.seed /\ args.audience \subseteq {"edge-api"}
                    /\ minted.valid
                         <=> VcIssuer(args.seed) \in {args.issuer} \union args.trusted
  BY DEF FixturesAccepted
<1>1. /\ args.seed \in Seeds /\ args.leeway \in Nat /\ now \in Nat
      /\ 0 \in Int /\ FixtureExp \in Int
  BY CallFacts, HalfAssumption, SignerAssumption DEF I64
<1>2. /\ p.trusted = {args.issuer} \union args.trusted /\ p.audience = args.audience
      /\ p.leeway = args.leeway /\ p.scopes = {} /\ p.revoked = {}
  BY DEF BuildPolicy, Permissive
<1>3. /\ now - p.leeway \in I64 /\ now + p.leeway \in I64 /\ p.leeway \in Int
      /\ now - p.leeway < FixtureExp /\ now + p.leeway >= 0
  BY <1>1, <1>2, CallFacts, HalfAssumption DEF I64
<1>p. Plain(p, now)
  BY <1>1, <1>2, <1>3 DEF Plain
<1> HIDE DEF p, now
<1>s. args.seed \in Seeds
  BY <1>1
<1>4. ASSUME NEW seed \in Seeds
      PROVE  token(seed).valid
               <=> seed = args.seed /\ args.audience \subseteq {"edge-api"}
  <2> DEFINE key == LocalSigner(args.seed)
             t == MintJwt(key, args.issuer, "edge-api", 0, FixtureExp)
             c == CheckedClaims(ClaimsOf(t))
             checks == JwtChecks(c, p, now)
  <2>k. key \in Key
    BY <1>1, SignerKeys DEF LocalSigner
  <2>1. LocalSigner(seed) = key <=> seed = args.seed
    BY <1>1, SignerAssumption DEF LocalSigner
  <2>2. /\ token(seed) = IF LocalSigner(seed) = key THEN Outcome({args.issuer}, checks)
                         ELSE RejectedFor({"SignatureInvalid"})
        /\ Claimed(c, args.issuer, "edge-api", 0, FixtureExp)
    <3>1. MintedJwt(args) = t
      BY DEF MintedJwt
    <3>2. token(seed) = JwtOutcome(t, LocalJwks(seed), p, now)
      BY <3>1
    <3>3. /\ t = MintJwt(key, args.issuer, "edge-api", 0, FixtureExp)
          /\ c = CheckedClaims(ClaimsOf(t)) /\ checks = JwtChecks(c, p, now)
      OBVIOUS
    <3> HIDE DEF key, token, t, c, checks
    <3> QED
      BY <2>k, <3>2, <3>3, MintedVerdict
  <2>3. /\ checks["signature"] /\ checks["scopes"] /\ checks["not_revoked"]
        /\ checks["not_expired"] /\ checks["not_before"] /\ checks["issuer_trusted"]
        /\ checks["audience"] <=> args.audience \subseteq {"edge-api"}
    <3> HIDE DEF c
    <3>1. PlainlyChecked(checks, p, now, 0, FixtureExp, args.issuer,
                         p.audience \subseteq {"edge-api"})
      BY <1>1, <1>p, <2>2, PlainJwt
    <3> HIDE DEF checks
    <3> QED
      BY <1>2, <1>3, <3>1 DEF PlainlyChecked
  <2> HIDE DEF checks
  <2>4. All(checks) <=> args.audience \subseteq {"edge-api"}
    BY <2>3, Checks DEF All
  <2>5. Outcome({args.issuer}, checks).valid = All(checks)
    BY DEF Outcome
  <2>6. ~RejectedFor({"SignatureInvalid"}).valid
    BY DEF RejectedFor, Rejected
  <2> QED
    BY <2>1, <2>2, <2>4, <2>5, <2>6
<1>5. minted.valid <=> VcIssuer(args.seed) \in {args.issuer} \union args.trusted
  <2> DEFINE v == MintedVc(args)
             checks == VcChecks(v, p, now)
  <2>1. /\ minted = Outcome({VcIssuer(args.seed)}, checks)
        /\ Stated(v, VcIssuer(args.seed), 0, FixtureExp)
    <3>1. v = SignVc(Credential(args.seed, 0, FixtureExp), VcKey(args.seed), 0)
      BY DEF MintedVc
    <3>2. minted = VcOutcome(v, p, now) /\ checks = VcChecks(v, p, now)
      OBVIOUS
    <3> HIDE DEF v, minted, checks
    <3> QED
      BY <1>s, <3>1, <3>2, SignedVerdict
  <2>2. /\ checks["signature"] /\ checks["scopes"] /\ checks["not_revoked"]
        /\ checks["audience"] /\ checks["not_expired"] /\ checks["not_before"]
        /\ checks["issuer_trusted"]
             <=> VcIssuer(args.seed) \in {args.issuer} \union args.trusted
    <3> HIDE DEF v
    <3>1. PlainlyChecked(checks, p, now, 0, FixtureExp, VcIssuer(args.seed), TRUE)
      BY <1>1, <1>p, <2>1, PlainVc
    <3> HIDE DEF checks
    <3> QED
      BY <1>2, <1>3, <2>1, <3>1 DEF PlainlyChecked
  <2> HIDE DEF checks
  <2>3. All(checks) <=> VcIssuer(args.seed) \in {args.issuer} \union args.trusted
    BY <2>2, Checks DEF All
  <2>4. Outcome({VcIssuer(args.seed)}, checks).valid = All(checks)
    BY DEF Outcome
  <2> QED
    BY <2>1, <2>3, <2>4
<1> QED
  BY <1>4, <1>5

LEMMA DemoPlain ==
  ASSUME IInv
  PROVE  LET p == DemoPolicy(args)
         IN  /\ Plain(p, NowUnix)
             /\ p.trusted = {args.issuer, VcIssuer(args.seed)}
             /\ p.audience = {"edge-api"} /\ p.leeway = 60
<1> DEFINE p == DemoPolicy(args)
<1>1. /\ p.trusted = {args.issuer, VcIssuer(args.seed)} /\ p.audience = {"edge-api"}
      /\ p.leeway = 60 /\ p.scopes = {} /\ p.revoked = {}
  BY DEF DemoPolicy, Permissive
<1> HIDE DEF p
<1>2. NowUnix \in Nat /\ NowUnix + 86400 < Half
  BY CallFacts DEF Day
<1>3. NowUnix - 60 \in I64 /\ NowUnix + 60 \in I64
  BY <1>2, HalfAssumption DEF I64
<1> QED
  BY <1>1, <1>2, <1>3 DEF Plain, p

LEMMA DemoToken ==
  ASSUME IInv, NEW issuer, NEW audience, NEW nbf \in Int, NEW exp \in Int
  PROVE  \E checks :
           /\ DemoJwt(args, issuer, audience, nbf, exp, NowUnix).reason = FirstFailure(checks)
           /\ PlainlyChecked(checks, DemoPolicy(args), NowUnix, nbf, exp, issuer,
                             {"edge-api"} \subseteq {audience})
<1> DEFINE p == DemoPolicy(args)
           now == NowUnix
           key == LocalSigner(args.seed)
           t == MintJwt(key, issuer, audience, nbf, exp)
           c == CheckedClaims(ClaimsOf(t))
           checks == JwtChecks(c, p, now)
           o == JwtOutcome(t, LocalJwks(args.seed), p, now)
<1>1. args.seed \in Seeds
  BY CallFacts
<1>2. key \in Key
  BY <1>1, SignerKeys DEF LocalSigner
<1>3. Plain(p, now) /\ p.audience = {"edge-api"}
  BY DemoPlain
<1>4. o = DemoJwt(args, issuer, audience, nbf, exp, now)
  BY DEF DemoJwt
<1>5. /\ t = MintJwt(key, issuer, audience, nbf, exp) /\ c = CheckedClaims(ClaimsOf(t))
      /\ o = JwtOutcome(t, LocalJwks(args.seed), p, now) /\ checks = JwtChecks(c, p, now)
      /\ key = LocalSigner(args.seed)
  OBVIOUS
<1> HIDE DEF p, now, key, t, c, checks, o
<1>6. o = Outcome({issuer}, checks) /\ Claimed(c, issuer, audience, nbf, exp)
  BY <1>1, <1>2, <1>5, MintedVerdict
<1>7. PlainlyChecked(checks, p, now, nbf, exp, issuer, p.audience \subseteq {audience})
  BY <1>3, <1>5, <1>6, PlainJwt
<1>8. o.reason = FirstFailure(checks)
  BY <1>6 DEF Outcome
<1> QED
  BY <1>3, <1>4, <1>7, <1>8 DEF p, now

LEMMA DemoCredential ==
  ASSUME IInv
  PROVE  /\ \E checks :
              /\ VcOutcome(DemoVc(args, NowUnix), DemoPolicy(args), NowUnix).reason
                   = FirstFailure(checks)
              /\ PlainlyChecked(checks, DemoPolicy(args), NowUnix, NowUnix - Hour,
                                NowUnix + Day, VcIssuer(args.seed), TRUE)
         /\ VcOutcome(Changed(DemoVc(args, NowUnix)), DemoPolicy(args), NowUnix).reason
              = {"SignatureInvalid"}
<1> DEFINE p == DemoPolicy(args)
           now == NowUnix
           v == DemoVc(args, now)
           checks == VcChecks(v, p, now)
           o == VcOutcome(v, p, now)
<1>1. args.seed \in Seeds
  BY CallFacts
<1>2. now \in Nat /\ now - Hour \in Int /\ now + Day \in Int
  BY CallFacts DEF Hour, Day
<1>3. Plain(p, now)
  BY DemoPlain
<1>4. v = SignVc(Credential(args.seed, now - Hour, now + Day), VcKey(args.seed), now)
  BY DEF DemoVc
<1>5. checks = VcChecks(v, p, now) /\ o = VcOutcome(v, p, now)
  OBVIOUS
<1> HIDE DEF p, now, v, checks, o
<1>6. /\ o = Outcome({VcIssuer(args.seed)}, checks)
      /\ VcOutcome(Changed(v), p, now) = RejectedFor({"SignatureInvalid"})
      /\ Stated(v, VcIssuer(args.seed), now - Hour, now + Day)
  BY <1>1, <1>4, <1>5, SignedVerdict
<1>7. PlainlyChecked(checks, p, now, now - Hour, now + Day, VcIssuer(args.seed), TRUE)
  BY <1>2, <1>3, <1>5, <1>6, PlainVc
<1>8. o.reason = FirstFailure(checks)
  BY <1>6 DEF Outcome
<1>9. RejectedFor({"SignatureInvalid"}).reason = {"SignatureInvalid"}
  BY DEF RejectedFor, Rejected
<1> QED
  BY <1>5, <1>6, <1>7, <1>8, <1>9 DEF p, now, v

(* The first check of a report's line that fails, as its label says.       *)
LEMMA DemoFact == IInv => DemoAsLabelled
<1> DEFINE p == DemoPolicy(args)
           now == NowUnix
           d == Demo(args, now)
           own(issuer, audience, nbf, exp) ==
             DemoJwt(args, issuer, audience, nbf, exp, now).reason
<1> SUFFICES ASSUME IInv, args.issuer # Stranger
             PROVE  [i \in 1..6 |-> d[i].reason] =
                      <<{}, {"not_expired"}, {"issuer_trusted"}, {"audience"}, {},
                        {"SignatureInvalid"}>>
  BY DEF DemoAsLabelled
<1>1. now \in Nat /\ Hour = 3600 /\ Day = 86400
  BY CallFacts DEF Hour, Day
<1>i. /\ now - 60 \in Int /\ now + Hour \in Int
      /\ now - 2 * Hour \in Int /\ now - Hour \in Int
  BY <1>1
<1>2. /\ p.trusted = {args.issuer, VcIssuer(args.seed)} /\ p.leeway = 60
  BY DemoPlain
<1>3. Stranger # VcIssuer(args.seed)
  BY CallFacts, SignerKeys, SignerAssumption
<1>c. ASSUME NEW issuer, NEW audience, NEW nbf \in Int, NEW exp \in Int
      PROVE  \E checks :
               /\ own(issuer, audience, nbf, exp) = FirstFailure(checks)
               /\ PlainlyChecked(checks, p, now, nbf, exp, issuer,
                                 {"edge-api"} \subseteq {audience})
  BY DemoToken
<1> HIDE DEF p, now, own
<1>4. own(args.issuer, "edge-api", now - 60, now + Hour) = {}
  <2>1. PICK checks :
          /\ own(args.issuer, "edge-api", now - 60, now + Hour) = FirstFailure(checks)
          /\ PlainlyChecked(checks, p, now, now - 60, now + Hour, args.issuer,
                            {"edge-api"} \subseteq {"edge-api"})
    BY <1>i, <1>c
  <2>2. \A c \in Check : checks[c]
    BY <1>1, <1>2, <2>1, Checks DEF PlainlyChecked
  <2> QED
    BY <2>1, <2>2, NoFailure
<1>5. own(args.issuer, "edge-api", now - 2 * Hour, now - Hour) = {"not_expired"}
  <2>1. PICK checks :
          /\ own(args.issuer, "edge-api", now - 2 * Hour, now - Hour) = FirstFailure(checks)
          /\ PlainlyChecked(checks, p, now, now - 2 * Hour, now - Hour, args.issuer,
                            {"edge-api"} \subseteq {"edge-api"})
    BY <1>i, <1>c
  <2>2. ~checks["not_expired"] /\ \A c \in Check \ {"not_expired"} : checks[c]
    BY <1>1, <1>2, <2>1, Checks DEF PlainlyChecked
  <2> QED
    BY <2>1, <2>2, Checks, OnlyFailure
<1>6. own(Stranger, "edge-api", now - 60, now + Hour) = {"issuer_trusted"}
  <2>1. PICK checks :
          /\ own(Stranger, "edge-api", now - 60, now + Hour) = FirstFailure(checks)
          /\ PlainlyChecked(checks, p, now, now - 60, now + Hour, Stranger,
                            {"edge-api"} \subseteq {"edge-api"})
    BY <1>i, <1>c
  <2>2. ~checks["issuer_trusted"] /\ \A c \in Check \ {"issuer_trusted"} : checks[c]
    BY <1>1, <1>2, <1>3, <2>1, Checks DEF PlainlyChecked
  <2> QED
    BY <2>1, <2>2, Checks, OnlyFailure
<1>7. own(args.issuer, "other-api", now - 60, now + Hour) = {"audience"}
  <2>1. PICK checks :
          /\ own(args.issuer, "other-api", now - 60, now + Hour) = FirstFailure(checks)
          /\ PlainlyChecked(checks, p, now, now - 60, now + Hour, args.issuer,
                            {"edge-api"} \subseteq {"other-api"})
    BY <1>i, <1>c
  <2>2. ~checks["audience"] /\ \A c \in Check \ {"audience"} : checks[c]
    BY <1>1, <1>2, <2>1, Checks DEF PlainlyChecked
  <2> QED
    BY <2>1, <2>2, Checks, OnlyFailure
<1>8. VcOutcome(DemoVc(args, now), p, now).reason = {}
  <2>1. PICK checks :
          /\ VcOutcome(DemoVc(args, now), p, now).reason = FirstFailure(checks)
          /\ PlainlyChecked(checks, p, now, now - Hour, now + Day, VcIssuer(args.seed), TRUE)
    BY DemoCredential DEF p, now
  <2>2. \A c \in Check : checks[c]
    BY <1>1, <1>2, <2>1, Checks DEF PlainlyChecked
  <2> QED
    BY <2>1, <2>2, NoFailure
<1>9. VcOutcome(Changed(DemoVc(args, now)), p, now).reason = {"SignatureInvalid"}
  BY DemoCredential DEF p, now
<1>10. /\ d[1].reason = own(args.issuer, "edge-api", now - 60, now + Hour)
       /\ d[2].reason = own(args.issuer, "edge-api", now - 2 * Hour, now - Hour)
       /\ d[3].reason = own(Stranger, "edge-api", now - 60, now + Hour)
       /\ d[4].reason = own(args.issuer, "other-api", now - 60, now + Hour)
       /\ d[5].reason = VcOutcome(DemoVc(args, now), p, now).reason
       /\ d[6].reason = VcOutcome(Changed(DemoVc(args, now)), p, now).reason
  BY DEF Demo, Changed, own, p
<1> DEFINE labels == <<{}, {"not_expired"}, {"issuer_trusted"}, {"audience"}, {},
                       {"SignatureInvalid"}>>
<1> HIDE DEF d
<1>11. \A i \in 1..6 : d[i].reason = labels[i]
  <2>1. /\ labels[1] = {} /\ labels[2] = {"not_expired"}
        /\ labels[3] = {"issuer_trusted"} /\ labels[4] = {"audience"}
        /\ labels[5] = {} /\ labels[6] = {"SignatureInvalid"}
    OBVIOUS
  <2> HIDE DEF labels
  <2>2. /\ d[1].reason = labels[1] /\ d[2].reason = labels[2]
        /\ d[3].reason = labels[3] /\ d[4].reason = labels[4]
        /\ d[5].reason = labels[5] /\ d[6].reason = labels[6]
    BY <1>4, <1>5, <1>6, <1>7, <1>8, <1>9, <1>10, <2>1
  <2>3. \A i \in 1..6 : i = 1 \/ i = 2 \/ i = 3 \/ i = 4 \/ i = 5 \/ i = 6
    OBVIOUS
  <2> QED
    BY <2>2, <2>3
<1>12. labels = [i \in 1..6 |-> labels[i]]
  OBVIOUS
<1> HIDE DEF labels
<1>13. [i \in 1..6 |-> d[i].reason] = labels
  BY <1>11, <1>12
<1> QED
  BY <1>13 DEF labels

-----------------------------------------------------------------------------
(* A node and the module give the same documents the same answer, and      *)
(* documents cut short never make for a yes: HostsAgree.                   *)
THEOREM HostsAlwaysAgree == Spec => []HostsAgree
  BY Invariance, Agreement, PTL

(* Whatever either host accepts was issued whole, if no signature is       *)
(* forged: AcceptedAsIssued.                                               *)
THEOREM AcceptsOnlyIssued == Spec => []AcceptedAsIssued
  BY Invariance, Acceptance, PTL

(* The module cuts off fractions of a second and still accepts an artifact *)
(* within its time to the fraction: ExactTime.                             *)
THEOREM TimeSound == Spec => []ExactTime
  BY Invariance, Exactness, PTL

(* What the node decides of texts is what VerifierCalls decides of what    *)
(* they say: error chains, encodings and fractions of seconds add nothing. *)
THEOREM RefinesEngine == Spec => ImplementsEngine
<1>1. Spec => Engine!Spec
  BY Invariance, EngineInit, EngineStep, PTL DEF Spec, Engine!Spec
<1> QED
  BY <1>1 DEF ImplementsEngine

(* Both hosts always come to a verdict, with exactly one reason if it is   *)
(* no and none if it is yes: TypeOK.                                       *)
THEOREM TypeCorrect == Spec => []TypeOK
  BY Invariance, TypeFact, PTL

(* What holds of the engine's verdicts on artifacts holds of the node's    *)
(* verdicts on texts: a text is taken for signed exactly if it is          *)
(* authentic, leeway tolerates that much skew, no wrapped sum admits       *)
(* anything, an override loosens the audience at most, and a key that is   *)
(* published changes no verdict on a token that names its kid.             *)
THEOREM EngineOnTexts ==
  Spec => /\ []Engine!SignatureIffAuthentic
          /\ []Engine!SkewTolerated
          /\ []Engine!WrapNeverAdmits
          /\ []Engine!OverrideKeepsRest
          /\ Engine!NewKeyKeepsVerdicts
<1>1. Spec => EngineProofs!Spec
  <2>1. Spec => Engine!Spec
    BY RefinesEngine DEF ImplementsEngine
  <2> QED
    BY <2>1, SameEngine, PTL DEF Engine!Spec, EngineProofs!Spec
<1>2. /\ EngineProofs!Spec => []EngineProofs!SignatureIffAuthentic
      /\ EngineProofs!Spec => []EngineProofs!SkewTolerated
      /\ EngineProofs!Spec => []EngineProofs!WrapNeverAdmits
      /\ EngineProofs!Spec => []EngineProofs!OverrideKeepsRest
      /\ EngineProofs!Spec => EngineProofs!NewKeyKeepsVerdicts
  BY EngineAssumptions, EngineProofs!SignatureSound, EngineProofs!SkewSound,
     EngineProofs!WrapSafe, EngineProofs!OverrideSound, EngineProofs!NewKeySafe
<1> QED
  <2>1. EngineProofs!NewKeyKeepsVerdicts => Engine!NewKeyKeepsVerdicts
    BY SameNewKey, PTL DEF Engine!NewKeyKeepsVerdicts, EngineProofs!NewKeyKeepsVerdicts
  <2> QED
    BY <1>1, <1>2, <2>1, SameEngine, PTL

(* What "mint" makes is accepted by the node it is for and no other, and   *)
(* the report of "demo" shows what its labels say: OwnArtifacts.           *)
THEOREM OwnArtifactsSound == Spec => []OwnArtifacts
<1>1. IInv => OwnArtifacts
  BY FixturesFact, DemoFact DEF OwnArtifacts
<1> QED
  BY <1>1, Invariance, PTL
=============================================================================
