----------------------------- MODULE MCService -----------------------------
(* Service for TLC: one handler, a caller that the provider vouches for     *)
(* with its old key and one that another provider does.                     *)
EXTENDS Service, MCExchange, MCStartup

Caller(key) == [Insider EXCEPT !.iss = "idp", !.kid = "1", !.key = key]
ServiceJwts == {Caller("old"), Caller("late")}

ServicePublishable ==
  ("idp/config" :> {Document("idp", "idp/keys", {"RS256"})}) @@
  ("idp/keys" :> {Keys(<<Jwk("old")>>), Keys(<<Jwk("new")>>)}) @@
  ("late/config" :> {Document("late", "late/keys", {"RS256"})}) @@
  ("late/keys" :> {Keys(<<Jwk("late")>>)})

ServiceDeployments == {Whole, Split}

\* Two spellings of one silo with credentials of their own.
ServiceManifest == ("S" :> "k") @@ ("s" :> "l")
ServiceSiloRequests == {[silo |-> "s", duration |-> 1]}
ServiceProviderMaps == {NoProviders}
=============================================================================
