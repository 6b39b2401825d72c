----------------------------- MODULE EdgeCalls ------------------------------
(***************************************************************************)
(* The same text given to the two hosts of the engine: a node              *)
(* (EdgeVerifier, behind "serve" or "verify") and the WebAssembly module   *)
(* (edgeauth-wasm), which keeps no state and is handed its key set, its    *)
(* policy and the time as texts and a number on every call.                *)
(*                                                                         *)
(* The node's side implements VerifierCalls: what that module decides of   *)
(* parsed artifacts is decided here of texts.                              *)
(***************************************************************************)
EXTENDS Fixtures, FiniteSets

CONSTANTS
  Cases,      \* first calls: a text, a key set, a configuration, a host, an instant
  Jwks,       \* the entries of key sets
  MaxKeys,    \* bound: entries of a key set
  Overrides,  \* what requests may ask on top of the node's policy
  Instants,   \* bound: the instants of a call, ...
  Second,     \* ... of which a second has this many
  Issued,     \* the texts issuers have signed
  NoKey       \* what a JWK stands for that encodes no key

(* The names in a text, of issuers and of keys.                            *)
NamesOf(t) ==
  IF t.kind = "jwt" THEN ClaimsOf(t).iss
  ELSE {t.issuer} \union {p.method : p \in t.proof}

(* When a text is valid, in seconds: not before, and until.                *)
ValidFrom(t) == IF t.kind = "jwt" THEN ClaimsOf(t).nbf ELSE {t.issued}
ValidUntil(t) == IF t.kind = "jwt" THEN ClaimsOf(t).exp ELSE t.expires

ASSUME KeysAssumption ==
  NoKey \notin Key /\ \A k \in Jwks : k.key \in Key

(* Clocks are after 1970, and have more than a day left until i64 ends.    *)
ASSUME TimeAssumption ==
  /\ Second \in Nat \ {0} /\ Instants \subseteq Nat
  /\ \A t \in Instants : t \div Second + Day \in I64
  /\ \A c \in Cases :
       /\ c.args.leeway \in I64
       /\ \A dates \in {ValidFrom(c.text), ValidUntil(c.text)} :
            dates \subseteq I64 /\ \A m, n \in dates : m = n

(* A key is what a name encodes and never a name itself; whatever a        *)
(* credential calls its issuer is taken for a did, if need be a flawed     *)
(* one; it has one proof or none.                                          *)
ASSUME CasesAssumption ==
  \A c \in Cases :
    /\ c.text.kind \in {"jwt", "vc"}
    /\ c.jwks \in Seq(Jwks) /\ c.instant \in Instants /\ c.args.seed \in Seeds
    /\ c.host.policy \in {"whole", "empty", "cut"}
    /\ (NamesOf(c.text) \union {c.args.issuer} \union c.args.trusted) \cap Key = {}
    /\ c.text.kind # "jwt" =>
         /\ c.text.issuer \in Dids
         /\ \A p, q \in c.text.proof : p = q

(* Texts are records of their parts and no more.                           *)
WellShaped(t) ==
  \/ /\ t.kind = "jwt"
     /\ t = [kind |-> "jwt", segments |-> [i \in 1 .. Len(t.segments) |-> t.segments[i]]]
     /\ Len(t.segments) \in Nat
  \/ /\ t.kind = "vc"
     /\ t = [kind |-> "vc", json |-> t.json, id |-> t.id, subject |-> t.subject,
             issuer |-> t.issuer, issued |-> t.issued, expires |-> t.expires,
             proof |-> t.proof]
     /\ t.json \in BOOLEAN
     /\ \A p \in t.proof :
          p = [method |-> p.method, created |-> p.created, signature |-> p.signature]

(* The keys a text is checked for, and whether one of them has signed it.  *)
CheckedFor(t) == IF t.kind = "jwt" THEN {k.key : k \in Jwks} ELSE {t.issuer.key}

SignedBy(t, key) ==
  IF t.kind = "jwt" THEN Signs(key, SigningInput(t), Segment(t, 3))
  ELSE \E p \in t.proof : Signs(key, Payload(t), p.signature)

Signed(t) == IF t.kind = "jwt" THEN SigningInput(t) ELSE Payload(t)

(* No signature is forged: what a key that texts are checked for has       *)
(* signed are issued texts, and these are whole.                           *)
ASSUME UnforgeableAssumption ==
  /\ \A c \in Cases, t \in Issued : WellShaped(c.text) /\ WellShaped(t)
  /\ \A t \in Issued :
       IF t.kind = "jwt" THEN ParseError(t) = {} ELSE ProofError(t) = {} /\ t.json
  /\ \A c \in Cases : \A key \in CheckedFor(c.text) :
       SignedBy(c.text, key) =>
         \E t \in Issued : /\ t.kind = c.text.kind /\ Signed(t) = Signed(c.text)
                          /\ SignedBy(t, key)

VARIABLES
  text,     \* the artifact
  jwks,     \* the key set, in the node and in the host's jwks_json
  args,     \* the configuration of the node
  host,     \* the documents the module is handed, as texts
  over,     \* the override of the request to the node
  instant,  \* the time of the call
  outcome,  \* the node's; {} is an Err
  edge      \* the module's

vars == <<text, jwks, args, host, over, instant, outcome, edge>>

-----------------------------------------------------------------------------
(* The node.                                                               *)

(* SystemClock::now_unix                                                   *)
NowUnix == instant \div Second

Native(o) ==
  LET policy == BuildPolicy(args)
  IN  IF text.kind = "jwt"
        THEN {JwtOutcome(text, jwks, EffectivePolicy(policy, o), NowUnix)}
        ELSE IF text.json
          THEN {VcOutcome(text, EffectivePolicy(policy, NoOverride), NowUnix)}
          ELSE {}

(* The module.                                                             *)

NearestSecond == (instant + Second \div 2) \div Second   \* mutant: rounded

(* now_secs as i64, of an instant after 1970                               *)
NowSecs == instant \div Second

ParsePolicyDefault ==   \* mutant: what does not parse is taken for no policy
  IF host.policy = "whole" THEN {BuildPolicy(args)} ELSE {Permissive}

(* parse_policy; {} is an Err                                              *)
ParsePolicy ==
  CASE host.policy = "whole" -> {BuildPolicy(args)}
    [] host.policy = "empty" -> {Permissive}
    [] host.policy = "cut" -> {}

(* verify_jwt of edgeauth-wasm                                             *)
EdgeJwt ==
  UNION {IF host.jwks = "cut" THEN {RejectedFor({"invalid JWKS JSON"})}
         ELSE {JwtOutcome(text, jwks, p, NowSecs)} : p \in ParsePolicy}

(* verify_credential of edgeauth-wasm                                      *)
EdgeVc ==
  UNION {IF text.json THEN {VcOutcome(text, p, NowSecs)} ELSE {RejectedFor({"Json"})}
         : p \in ParsePolicy}

Edge ==
  IF ParsePolicy = {} THEN {RejectedFor({"invalid trust policy JSON"})}
  ELSE IF text.kind = "jwt" THEN EdgeJwt ELSE EdgeVc

-----------------------------------------------------------------------------
Init ==
  /\ \E c \in Cases : /\ text = c.text /\ jwks = c.jwks /\ args = c.args
                     /\ host = c.host /\ instant = c.instant
  /\ over = NoOverride
  /\ outcome = Native(over)
  /\ edge = Edge

(* The next call is made later, maybe within the same second, ...          *)
Later(t) ==
  /\ t > instant
  /\ instant' = t
  /\ UNCHANGED <<text, jwks, args, host, over>>

(* ... or after the issuer published one more key, ...                     *)
AddKey(k) ==
  /\ Len(jwks) < MaxKeys
  /\ jwks' = Append(jwks, k)
  /\ UNCHANGED <<text, args, host, over, instant>>

(* ... or by a request with an override of its own, or the same again.     *)
Ask(o) ==
  /\ over' = o
  /\ UNCHANGED <<text, jwks, args, host, instant>>

Next ==
  /\ \/ \E t \in Instants : Later(t)
     \/ \E k \in Jwks : AddKey(k)
     \/ \E o \in Overrides : Ask(o)
  /\ outcome' = Native(over)'
  /\ edge' = Edge'

Spec == Init /\ [][Next]_vars

-----------------------------------------------------------------------------
(* What a text is to VerifierCalls.                                        *)

(* A did:key is the key it encodes, and itself if it encodes none.         *)
AbsName(name) == IF name \in Dids /\ DidError(name) = {} THEN name.key ELSE name

AbsJwk(jwk) == [kid |-> jwk.kid, key |-> IF JwkError(jwk) = {} THEN jwk.key ELSE NoKey]

AbsJwks(keys) == [i \in DOMAIN keys |-> AbsJwk(keys[i])]

SignerOf(payload, sig) == {k \in Key : Signs(k, payload, sig)}

AbsDoc(t) ==
  IF t.kind = "jwt"
    THEN LET c == CheckedClaims(ClaimsOf(t))
         IN  [kind |-> "jwt", parses |-> ParseError(t) = {},
              alg |-> HeaderOf(t).alg, kid |-> HeaderOf(t).kid,
              signer |-> SignerOf(SigningInput(t), Segment(t, 3)),
              iss |-> {AbsName(i) : i \in c.iss}, aud |-> c.aud, exp |-> c.exp,
              nbf |-> c.nbf, jti |-> c.jti, scope |-> c.scope]
    ELSE [kind |-> "vc", parses |-> t.json, id |-> t.id, issuer |-> AbsName(t.issuer),
          issued |-> t.issued, expires |-> t.expires,
          proof |-> {[method |-> AbsName(p.method),
                      signer |-> SignerOf(Payload(t), p.signature)] : p \in t.proof}]

AbsPolicy(policy) ==
  [policy EXCEPT !.trusted = {AbsName(n) : n \in policy.trusted}]

(* All errors are one to VerifierCalls.                                    *)
AbsOutcome(o) ==
  [valid |-> o.valid, checks |-> o.checks, issuer |-> {AbsName(i) : i \in o.issuer},
   reason |-> IF o.reason \subseteq Check THEN o.reason ELSE {"hard failure"}]

AbsCase(c) ==
  [doc |-> AbsDoc(c.text), jwks |-> AbsJwks(c.jwks), policy |-> AbsPolicy(BuildPolicy(c.args))]

AbsCases == {AbsCase(c) : c \in Cases}

Engine == INSTANCE VerifierCalls WITH
  Cases <- AbsCases,
  Jwk <- {AbsJwk(k) : k \in Jwks},
  Times <- {t \div Second : t \in Instants},
  doc <- AbsDoc(text),
  jwks <- AbsJwks(jwks),
  policy <- AbsPolicy(BuildPolicy(args)),
  now <- NowUnix,
  outcome <- {AbsOutcome(o) : o \in outcome}

(* The node decides a text as the engine decides what the text says.       *)
ImplementsEngine == Engine!Spec

-----------------------------------------------------------------------------
Accepts(outcomes) == \E o \in outcomes : o.valid

Errors ==
  {"MalformedJwt", "UnsupportedAlgorithm", "UnknownKeyId", "InvalidKey", "SignatureInvalid",
   "Base64", "Json", "MalformedDid", "UnsupportedKeyType", "InvalidKeyLength",
   "InvalidSignatureLength", "MissingProof", "IssuerMismatch",
   "invalid JWKS JSON", "invalid trust policy JSON"}

(* Both hosts always come to a verdict, with one reason if it is no.       *)
TypeOK ==
  /\ Cardinality(edge) = 1 /\ (outcome = {} => text.kind = "vc")
  /\ \A o \in outcome \union edge :
       /\ o.checks \in VerificationChecks
       /\ o.valid <=> o.reason = {}
       /\ o.reason \in Option(Check \union Errors)

(* A proof says when it was made, and the signature does not cover that.   *)
Undated(t) ==
  IF t.kind = "jwt" THEN t
  ELSE [t EXCEPT !.proof = {[p EXCEPT !.created = 0] : p \in t.proof}]

(* However a text was cut or mixed up with another on its way, whatever is *)
(* accepted, by either host under any policy, is a text that was issued    *)
(* whole, by the key it is checked against; only a credential's date of    *)
(* proof may have become another.                                          *)
AcceptedAsIssued ==
  Accepts(outcome) \/ Accepts(edge) => \E t \in Issued : Undated(t) = Undated(text)

(* The same documents get the same verdict, checks and reason of both      *)
(* hosts ("the same code run in a Cloudflare Worker and in the native      *)
(* server unchanged"); a document cut short only ever makes for a no.      *)
HostsAgree ==
  host.policy # "empty" =>
    /\ Accepts(edge) => Accepts(Native(NoOverride))
    /\ host.policy = "whole" /\ (text.kind = "jwt" => host.jwks = "whole") =>
         \A o \in Native(NoOverride) : edge = {o}

(* The clock of a host has fractions of a second, which the module cuts    *)
(* off; an artifact is accepted within its time to the fraction.  Stated   *)
(* for sums that an i64 can hold.                                          *)
ExactTime ==
  \A p \in ParsePolicy, o \in edge :
    o.checks["signature"] /\ {NowSecs - p.leeway, NowSecs + p.leeway} \subseteq I64 =>
      /\ o.checks["not_before"]
           <=> \A n \in ValidFrom(text) : instant >= (n - p.leeway) * Second
      /\ o.checks["not_expired"]
           <=> \A e \in ValidUntil(text) : instant < (e + p.leeway) * Second

(* What "mint" makes is accepted by the node of the same configuration     *)
(* until it expires, the credential if its DID is among those trusted, and *)
(* the token by no node of another seed ("ready-to-use" fixtures, signed   *)
(* by the node's key).  Stated for a leeway that an i64 can add.           *)
FixturesAccepted ==
  LET policy == BuildPolicy(args)
      token(seed) == JwtOutcome(MintedJwt(args), LocalJwks(seed), policy, NowUnix)
  IN  args.leeway >= 0 /\ NowUnix + args.leeway \in I64 /\ NowUnix < FixtureExp =>
        /\ \A seed \in Seeds :
             token(seed).valid <=> seed = args.seed /\ args.audience \subseteq {"edge-api"}
        /\ VcOutcome(MintedVc(args), policy, NowUnix).valid
             <=> VcIssuer(args.seed) \in {args.issuer} \union args.trusted

(* The report of "demo" shows what its labels say, at any time and for any *)
(* seed: two artifacts accepted, and four rejected for four reasons.       *)
DemoAsLabelled ==
  args.issuer # Stranger =>
    [i \in 1..6 |-> Demo(args, NowUnix)[i].reason] =
      <<{}, {"not_expired"}, {"issuer_trusted"}, {"audience"}, {}, {"SignatureInvalid"}>>

(* What a node makes itself gets the verdicts it is made for.              *)
OwnArtifacts == FixturesAccepted /\ DemoAsLabelled
=============================================================================
