-------------------------------- MODULE Oidc --------------------------------
(***************************************************************************)
(* src/oidc.rs: the validation of a caller's JWT against the configuration *)
(* and keys of the provider it names, as they were fetched at startup.     *)
(*                                                                         *)
(* A JWT is a record: the fields of its header (kid, alg), the key that    *)
(* signed it, whether it can be decoded at all, its claims iss, aud (a set *)
(* of audiences) and exp, or Nothing for one it lacks, whether every claim *)
(* is a string or a 64-bit integer (scalar), and the claims the policy may *)
(* look at.                                                                *)
(***************************************************************************)
EXTENDS Common, Integers, Sequences

CONSTANTS
  Jwts,                 \* the caller identities that are sent
  Audience,             \* the aud this instance expects
  SupportedAlgorithms,  \* those that key_algo_to_algo maps
  Leeway                \* the jsonwebtoken crate's tolerance for exp

ASSUME OidcAssumption ==
  /\ Leeway \in Nat
  /\ \A jwt \in Jwts : jwt.exp = Nothing \/ jwt.exp \in Int

VARIABLE providers  \* Context's providers: by issuer, [issuer, jwks]

\* JwkSet::find: the first key with that kid.
FirstKey(jwks, kid) ==
  CHOOSE i \in DOMAIN jwks :
    jwks[i].kid = kid /\ \A j \in 1 .. i - 1 : jwks[j].kid # kid

\* validate: the key must exist and name an algorithm, and the JWT must be
\* signed with exactly that, be for this audience and from this issuer, and
\* not have expired by the wall clock.  nbf and iat are not looked at.
Validates(config, jwt, wallClock) ==
  /\ jwt.kid # Nothing
  /\ \E i \in DOMAIN config.jwks : config.jwks[i].kid = jwt.kid
  /\ LET jwk == config.jwks[FirstKey(config.jwks, jwt.kid)] IN
       /\ jwk.alg \in SupportedAlgorithms
       /\ jwt.alg = jwk.alg
       /\ jwt.key = jwk.key
  /\ jwt.exp # Nothing
  /\ jwt.exp >= wallClock - Leeway
  /\ Audience \in jwt.aud
  /\ jwt.iss = config.issuer
  /\ jwt.scalar

\* A faulty variant of Accepted: the providers are tried one after the other.
AcceptedByAny(jwt, wallClock) ==
  /\ jwt.decodes
  /\ jwt.iss \in DOMAIN providers
  /\ \E issuer \in DOMAIN providers :
       Validates([providers[issuer] EXCEPT !.issuer = jwt.iss], jwt, wallClock)

\* exchange: the unverified iss picks the provider that validates the JWT.
\* One that cannot be decoded, or has no iss, fails here already.
Accepted(jwt, wallClock) ==
  /\ jwt.decodes
  /\ jwt.iss \in DOMAIN providers
  /\ Validates(providers[jwt.iss], jwt, wallClock)
=============================================================================
