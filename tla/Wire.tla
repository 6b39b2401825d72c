-------------------------------- MODULE Wire --------------------------------
(***************************************************************************)
(* Artifacts and keys as they are written down (edgeauth-types): a compact *)
(* JWT, a credential in JSON, a did:key, a JWK.  Verifier takes them as    *)
(* parsed, or not, and signed by somebody; here is how the code gets that  *)
(* far, and the error it stops at.                                         *)
(*                                                                         *)
(* A text is not spelled out: a part of it is what it says, and a did or a *)
(* JWK carries its flaws, the ways in which it is ill-formed.  A signature *)
(* is the key and the exact bytes it was made over, so the same key signs  *)
(* the same bytes alike (Ed25519 is deterministic).                        *)
(*                                                                         *)
(*   did     [flaws, key]                                                  *)
(*   jwk     [flaws, key, kid]                                             *)
(*   token   [kind, segments], a sequence of the parts between the dots:   *)
(*             [form = "header", alg, kid]                                 *)
(*             [form = "claims", iss, aud, exp, nbf, jti, scope]           *)
(*             [form = "signature", by, over]                              *)
(*             [form = "bytes"] is none of them, "garbled" not base64url   *)
(*   vc      [kind, json, id, subject, issuer, issued, expires, proof]     *)
(*           a proof is [method, created, signature]                       *)
(*                                                                         *)
(* aud is an Option of a sequence (a string is a sequence of one), scope   *)
(* an Option of a sequence of words.                                       *)
(***************************************************************************)
EXTENDS Verifier

Words(seq) == {seq[i] : i \in DOMAIN seq}

(* A function of the code is a chain of steps that may fail; its error is  *)
(* that of the first step that does.  An error is an Option.               *)

-----------------------------------------------------------------------------
(* Signatures and keys.                                                    *)

(* sign_payload                                                            *)
Sign(key, payload) == [form |-> "signature", by |-> key, over |-> payload]

(* verify_payload                                                          *)
Signs(key, payload, sig) == sig = Sign(key, payload)

DidFlaws == {"method", "multibase", "base58", "codec", "length", "point"}
Dids == [flaws : SUBSET DidFlaws, key : Key]

(* Did::from_verifying_key                                                 *)
DidOf(key) == [flaws |-> {}, key |-> key]

(* Did::verifying_key, its error                                           *)
DidError(did) ==
  IF did.flaws \cap {"method", "multibase", "base58"} # {} THEN {"MalformedDid"}
  ELSE IF "codec" \in did.flaws THEN {"UnsupportedKeyType"}
  ELSE IF "length" \in did.flaws THEN {"InvalidKeyLength"}
  ELSE IF "point" \in did.flaws THEN {"UnsupportedKeyType"}
  ELSE {}

JwkFlaws == {"kty", "crv", "base64", "length", "point"}

(* Jwk::from_verifying_key                                                 *)
JwkOf(key, kid) == [flaws |-> {}, key |-> key, kid |-> {kid}]

(* Jwk::verifying_key, its error                                           *)
JwkError(jwk) ==
  IF jwk.flaws \cap {"kty", "crv"} # {} THEN {"InvalidKey"}
  ELSE IF "base64" \in jwk.flaws THEN {"Base64"}
  ELSE IF "length" \in jwk.flaws THEN {"InvalidKeyLength"}
  ELSE IF "point" \in jwk.flaws THEN {"InvalidKey"}
  ELSE {}

-----------------------------------------------------------------------------
(* Tokens.                                                                 *)

(* encode_jwt                                                              *)
EncodeJwt(header, claims, key) ==
  [kind |-> "jwt",
   segments |-> <<header, claims, Sign(key, <<header, claims>>)>>]

Garbled == [form |-> "garbled"]

Segment(text, i) ==
  IF i \in DOMAIN text.segments THEN text.segments[i] ELSE Garbled

(* SignedJwt::parse, its error.  A header is also a claim set, one without *)
(* any claims the code knows; a claim set is no header, for it has no alg. *)
ParseError(text) ==
  LET form(i) == Segment(text, i).form
  IN  IF Len(text.segments) # 3 THEN {"MalformedJwt"}
      ELSE IF form(1) = "garbled" THEN {"Base64"}
      ELSE IF form(1) # "header" THEN {"Json"}
      ELSE IF form(2) = "garbled" THEN {"Base64"}
      ELSE IF form(2) \notin {"header", "claims"} THEN {"Json"}
      ELSE IF form(3) = "garbled" THEN {"Base64"}
      ELSE IF form(3) # "signature" THEN {"InvalidSignatureLength"}
      ELSE {}

NoHeader == [form |-> "header", alg |-> "", kid |-> {}]

NoClaims ==
  [form |-> "claims", iss |-> {}, aud |-> {}, exp |-> {}, nbf |-> {}, jti |-> {},
   scope |-> {}]

HeaderOf(text) ==
  IF Segment(text, 1).form = "header" THEN Segment(text, 1) ELSE NoHeader

ClaimsOf(text) ==
  IF Segment(text, 2).form = "claims" THEN Segment(text, 2) ELSE NoClaims

SigningInput(text) == <<Segment(text, 1), Segment(text, 2)>>

AnyAlg(text, jwks) ==   \* mutant: alg is not pinned
  LET found == Find(jwks, HeaderOf(text).kid)
  IN  IF found = {} THEN {"UnknownKeyId"}
      ELSE IF \E jwk \in found : JwkError(jwk) # {} THEN UNION {JwkError(jwk) : jwk \in found}
      ELSE IF \E jwk \in found : ~Signs(jwk.key, SigningInput(text), Segment(text, 3))
        THEN {"SignatureInvalid"}
      ELSE {}

(* SignedJwt::verify_with, its error                                       *)
SignatureError(text, jwks) ==
  LET found == Find(jwks, HeaderOf(text).kid)
  IN  IF HeaderOf(text).alg # "EdDSA" THEN {"UnsupportedAlgorithm"}
      ELSE IF found = {} THEN {"UnknownKeyId"}
      ELSE IF \E jwk \in found : JwkError(jwk) # {} THEN UNION {JwkError(jwk) : jwk \in found}
      ELSE IF \E jwk \in found : ~Signs(jwk.key, SigningInput(text), Segment(text, 3))
        THEN {"SignatureInvalid"}
      ELSE {}

(* What the checks of verify_jwt see: Audience::contains and JwtClaims::   *)
(* scopes make sets of the audiences and of the words of the scope.        *)
CheckedClaims(c) ==
  [iss |-> c.iss, exp |-> c.exp, nbf |-> c.nbf, jti |-> c.jti,
   aud |-> {Words(a) : a \in c.aud}, scope |-> UNION {Words(s) : s \in c.scope}]

RejectedFor(error) == [Rejected EXCEPT !.reason = error]

(* verify_jwt of a text                                                    *)
JwtOutcome(text, jwks, policy, now) ==
  IF ParseError(text) # {} THEN RejectedFor(ParseError(text))
  ELSE IF SignatureError(text, jwks) # {} THEN RejectedFor(SignatureError(text, jwks))
  ELSE Outcome(ClaimsOf(text).iss, JwtChecks(CheckedClaims(ClaimsOf(text)), policy, now))

-----------------------------------------------------------------------------
(* Credentials.                                                            *)

(* signing_payload: everything but the proof                               *)
Payload(vc) ==
  [id |-> vc.id, subject |-> vc.subject, issuer |-> vc.issuer, issued |-> vc.issued,
   expires |-> vc.expires]

(* sign_with                                                               *)
SignVc(vc, key, created) ==
  [vc EXCEPT !.proof =
     {[method |-> vc.issuer, created |-> created, signature |-> Sign(key, Payload(vc))]}]

(* Proof::signature_bytes, its error: not hex, or not 64 bytes             *)
HexError(proof) ==
  IF proof.signature.form = "garbled" THEN {"MalformedDid"}
  ELSE IF proof.signature.form # "signature" THEN {"InvalidSignatureLength"}
  ELSE {}

AnyMethod(vc) ==   \* mutant: the proof may name another key than the issuer's
  IF vc.proof = {} THEN {"MissingProof"}
  ELSE IF DidError(vc.issuer) # {} THEN DidError(vc.issuer)
  ELSE IF \E p \in vc.proof : HexError(p) # {} THEN UNION {HexError(p) : p \in vc.proof}
  ELSE IF \E p \in vc.proof : ~Signs(p.method.key, Payload(vc), p.signature)
    THEN {"SignatureInvalid"}
  ELSE {}

(* VerifiableCredential::verify_signature, its error                       *)
ProofError(vc) ==
  IF vc.proof = {} THEN {"MissingProof"}
  ELSE IF \E p \in vc.proof : p.method # vc.issuer THEN {"IssuerMismatch"}
  ELSE IF DidError(vc.issuer) # {} THEN DidError(vc.issuer)
  ELSE IF \E p \in vc.proof : HexError(p) # {} THEN UNION {HexError(p) : p \in vc.proof}
  ELSE IF \E p \in vc.proof : ~Signs(vc.issuer.key, Payload(vc), p.signature)
    THEN {"SignatureInvalid"}
  ELSE {}

(* verify_credential of a text that is the JSON of a credential            *)
VcOutcome(vc, policy, now) ==
  IF ProofError(vc) = {}
    THEN Outcome({vc.issuer}, VcChecks(vc, policy, now))
    ELSE RejectedFor(ProofError(vc))
=============================================================================
