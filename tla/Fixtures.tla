------------------------------ MODULE Fixtures ------------------------------
(***************************************************************************)
(* What a node is configured with and the artifacts it makes itself        *)
(* (edgeauth-node): the policy and the key set of its command line, the    *)
(* fixtures of "mint" and the report of "demo".                            *)
(*                                                                         *)
(*   args  [seed, issuer, trusted, audience, leeway], of CommonArgs        *)
(***************************************************************************)
EXTENDS Wire

CONSTANTS
  U8,          \* 2^8 in the code: a seed is in 0 .. U8-1
  Signer,      \* the key of a seed
  Stranger,    \* an issuer nobody is told to trust
  FixtureExp   \* 2100-01-01

Seeds == 0 .. U8 - 1

(* Seeds have keys of their own, and the stranger's name is no did:key.    *)
ASSUME SignerAssumption ==
  /\ U8 \in Nat \ {0} /\ FixtureExp \in Nat
  /\ Signer \in [Seeds -> Key]
  /\ \A m, n \in Seeds : Signer[m] = Signer[n] => m = n
  /\ Stranger \notin Dids

LocalKid == "edgeauth-local-1"

(* local_signer, and local_jwks                                            *)
LocalSigner(seed) == Signer[seed]
LocalJwks(seed) == <<JwkOf(LocalSigner(seed), LocalKid)>>

(* seed.wrapping_add(n)                                                    *)
SeedAdd(seed, n) == (seed + n) % U8

(* build_policy: --trusted-issuers are merged with --issuer                *)
BuildPolicy(args) ==
  [Permissive EXCEPT !.trusted = {args.issuer} \union args.trusted,
                     !.audience = args.audience, !.leeway = args.leeway]

-----------------------------------------------------------------------------
(* Minting.                                                                *)

(* mint_jwt of both modules, which differ in the jti; see Demo for iat.    *)
MintJwt(key, issuer, audience, nbf, exp) ==
  EncodeJwt([form |-> "header", alg |-> "EdDSA", kid |-> {LocalKid}],
            [form |-> "claims", iss |-> {issuer}, aud |-> {<<audience>>}, exp |-> {exp},
             nbf |-> {nbf}, jti |-> {"jti"}, scope |-> {<<"openid", "profile">>}],
            key)

(* mint_credential, build_credential: by the key of the next seed, about   *)
(* the one of the seed after that                                          *)
VcKey(seed) == LocalSigner(SeedAdd(seed, 1))
VcIssuer(seed) == DidOf(VcKey(seed))

Credential(seed, issued, expires) ==
  [kind |-> "vc", json |-> TRUE, id |-> "urn:cred",
   subject |-> [id |-> DidOf(LocalSigner(SeedAdd(seed, 2))), kyc_level |-> "gold"],
   issuer |-> VcIssuer(seed), issued |-> issued, expires |-> {expires}, proof |-> {}]

(* mint::run                                                               *)
MintedJwt(args) == MintJwt(LocalSigner(args.seed), args.issuer, "edge-api", 0, FixtureExp)
MintedVc(args) == SignVc(Credential(args.seed, 0, FixtureExp), VcKey(args.seed), 0)

-----------------------------------------------------------------------------
(* demo::run: a policy of its own, and six verdicts.                       *)

Hour == 3600
Day == 86400

DemoPolicyOfArgs(args) ==   \* mutant: the DID of the credential is not trusted
  [BuildPolicy(args) EXCEPT !.audience = {"edge-api"}, !.leeway = 60]

DemoPolicy(args) ==
  [Permissive EXCEPT !.trusted = {args.issuer, VcIssuer(args.seed)},
                     !.audience = {"edge-api"}, !.leeway = 60]

DemoJwt(args, issuer, audience, nbf, exp, now) ==
  JwtOutcome(MintJwt(LocalSigner(args.seed), issuer, audience, nbf, exp),
             LocalJwks(args.seed), DemoPolicy(args), now)

DemoVc(args, now) ==
  SignVc(Credential(args.seed, now - Hour, now + Day), VcKey(args.seed), now)

Demo(args, now) ==
  <<DemoJwt(args, args.issuer, "edge-api", now - 60, now + Hour, now),
    DemoJwt(args, args.issuer, "edge-api", now - 2 * Hour, now - Hour, now),
    DemoJwt(args, Stranger, "edge-api", now - 60, now + Hour, now),
    DemoJwt(args, args.issuer, "other-api", now - 60, now + Hour, now),
    VcOutcome(DemoVc(args, now), DemoPolicy(args), now),
    VcOutcome([DemoVc(args, now) EXCEPT !.subject.kyc_level = "platinum"],
              DemoPolicy(args), now)>>
=============================================================================
