----------------------------- MODULE MCStartup -----------------------------
(* Startup for TLC: two providers, the second of which may claim the first  *)
(* one's issuer, the keys of the first rotate, and configurations that are  *)
(* whole, split over files, incomplete or unreadable.                       *)
EXTENDS Startup, TLC

Jwk(key) == [kid |-> "1", alg |-> "RS256", key |-> key]
Document(issuer, uri, algorithms) ==
  [kind |-> "document", issuer |-> issuer, jwks_uri |-> uri, algorithms |-> algorithms]
Keys(jwks) == [kind |-> "keys", jwks |-> jwks]
Outage == [kind |-> "other"]

MCPublishable ==
  ("idp/config" :> {Document("idp", "idp/keys", {"RS256"}), Outage}) @@
  ("idp/keys" :> {Keys(<<Jwk("old")>>), Keys(<<Jwk("new"), Jwk("old")>>)}) @@
  ("late/config" :> {Document("late", "late/keys", {"RS256"}),
                     Document("late", "late/keys", {"RS1"}),
                     Document("idp", "late/keys", {"RS256"})}) @@
  ("late/keys" :> {Keys(<<Jwk("late")>>), Keys(<<[Jwk("late") EXCEPT !.alg = "HS1"]>>)})

StartupJwts ==
  [decodes : {TRUE}, iss : {"idp", "late"}, kid : {"1"}, alg : {"RS256"},
   key : {"old", "new", "late"}, aud : {{"oidcx"}}, exp : {10}, scalar : {TRUE},
   claims : {<< >>}]

----------------------------------------------------------------------------

Idp == [type |-> "github_actions", url |-> "idp/config"]
Late == [type |-> "github_actions", url |-> "late/config"]

Base == ("audience" :> "oidcx") @@ ("policy_path" :> <<"policy", "polar">>)
PolicyFiles == (<<"policy", "cedar">> :> "rules")

Deployed(arguments, files) ==
  [arguments |-> arguments, files |-> files, policies |-> PolicyFiles]

\* One file; two of which the later has more providers; no providers.
Whole == Deployed(<< >>, "settings.toml" :> (Base @@ ("providers" :> <<Idp>>)))
Split == Deployed(<<"a.toml">>,
  ("settings.toml" :> (Base @@ ("providers" :> <<Late>>))) @@
  ("a.toml" :> ("providers" :> <<Idp, Late>>)))
Idle == Deployed(<<"missing.toml">>, "settings.toml" :> (Base @@ ("providers" :> << >>)))

\* No policy file; a file that is incomplete, half of a section, or garbage.
NoPolicy == [Whole EXCEPT !.policies = << >>]
Incomplete == Deployed(<< >>, "settings.toml" :> Base)
Half == Deployed(<< >>, "settings.toml" :>
          (Base @@ ("providers" :> << >>) @@ ("github.client_id" :> "id")))
Unreadable == Deployed(<<"a.toml">>, "a.toml" :> Garbage)

MCDeployments == {Whole, Split, Idle, NoPolicy, Incomplete, Half, Unreadable}

----------------------------------------------------------------------------
(* Deployments for what the README says of the configuration.              *)

\* Two files on the command line.
TwoFiles == Deployed(<<"a.toml", "b.toml">>,
  ("a.toml" :> (Base @@ ("providers" :> <<Idp>>))) @@
  ("b.toml" :> ("providers" :> <<Idp, Late>>)))
TwoFilesDeployments == {TwoFiles}

\* A policy file with two extensions, next to one with the same stem.
Versioned ==
  [Deployed(<< >>, "settings.toml" :>
     (("policy_path" :> <<"policy", "v2", "cedar">>) @@ Base @@ ("providers" :> <<Idp>>)))
   EXCEPT !.policies = (<<"policy", "v2", "cedar">> :> "new rules") @@ PolicyFiles]
VersionedDeployments == {Versioned}

\* The example of the README, whose provider has a url and nothing else.
Example == Deployed(<< >>,
  "settings.toml" :> (Base @@ ("providers" :> <<[Idp EXCEPT !.type = Nothing]>>)))
ExampleDeployments == {Example, Whole}

\* The example of the README is a configuration.
ExampleConfigures == deployment = Example => failure # "settings"
=============================================================================
