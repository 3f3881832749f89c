----------------------------- MODULE MCExchange -----------------------------
(* Exchange for TLC: an organization with two repositories, callers from a  *)
(* repository of that organization and from elsewhere, with and without an  *)
(* environment, and policies of every kind, one of which fails to evaluate  *)
(* for a caller without an environment.                                     *)
EXTENDS Exchange, TLC

RepoA == <<"org", "a">>
RepoB == <<"org", "b">>
Misspelt == <<"org">>
MCRepositories == {RepoA, RepoB, Misspelt}
MCVisibilities == {"public", "private"}

MCParts ==
  {"org", "a", "b", "metadata", "read", "write"}
    \cup ReadOnlyActions \cup ReadWriteActions
MCInstallationOwner == ("i1" :> "org")

Ask(repositories, permissions) ==
  [repositories |-> repositories, permissions |-> permissions]
Read == Action("contents", "read")
Write == Action("pull_requests", "write")

MCGitHubRequests ==
  { Ask(<<RepoA>>, <<Read>>),
    Ask(<<RepoA, RepoB>>, <<Read, Write>>),
    Ask(<<RepoA>>, <<Read, Action("contents", "write")>>),
    Ask(<<Misspelt>>, <<Read>>),
    Ask(<<RepoA>>, << >>) }
MCTokenRequests == MCGitHubRequests \cup {MetadataRequest(r) : r \in MCRepositories}

\* For runs with two handlers: one repository, a request that anyone may make
\* while it is public, and one that needs two decisions.
RaceRepositories == {RepoA}
RaceRequests == {Ask(<<RepoA>>, <<Read>>), Ask(<<RepoA>>, <<Read, Write>>)}
RaceTokenRequests == RaceRequests \cup {MetadataRequest(RepoA)}

\* For the liveness run: one request.
LiveRequests == {Ask(<<RepoA>>, <<Read>>)}
LiveTokenRequests == LiveRequests \cup {MetadataRequest(RepoA)}

MCUrls == {"s", "S"}
MCCanonical == [url \in MCUrls |-> "s"]
MCManifest == ("S" :> "k")
MCSiloRequests == {[silo |-> "S", duration |-> 1], [silo |-> "s", duration |-> 5]}

----------------------------------------------------------------------------

String(value) == [kind |-> "string", value |-> value]
ClaimsOf(owner) ==
  ("jti" :> String("run")) @@ ("iss" :> String("idp")) @@
  ("repository_owner" :> String(owner))

Jwt(claims, exp) ==
  [decodes |-> TRUE, iss |-> "idp", kid |-> "kid", alg |-> "RS256", key |-> "key",
   aud |-> {"oidcx"}, exp |-> exp, scalar |-> TRUE, claims |-> claims]

Insider == Jwt(ClaimsOf("org"), 10)
Releaser == Jwt(ClaimsOf("org") @@ ("environment" :> String("release")), 10)
Tester == Jwt(ClaimsOf("org") @@ ("environment" :> String("test")), 10)
Outsider == Jwt(ClaimsOf("elsewhere"), 10)
Expired == Jwt(ClaimsOf("org"), -1)

MCJwts == {Insider, Releaser, Outsider, Expired}
\* May do everything but write to a private repository.
RaceJwts == {Tester}
LiveJwts == {Insider}
MCProviderMaps ==
  {"idp" :> [issuer |-> "idp",
             jwks |-> <<[kid |-> "kid", alg |-> "RS256", key |-> "key"]>>]}

MCPolicies == {"anyone reads public", "members do all", "release only"}
MCEffect == [p \in MCPolicies |-> IF p = "release only" THEN "forbid" ELSE "permit"]

Outcome(b) == IF b THEN "satisfied" ELSE "unsatisfied"
MCEvaluate(policy, principal, action, resource) ==
  LET private == resource.type = "Repository" /\ resource.visibility = "private"
  IN  CASE policy = "anyone reads public" ->
             Outcome(resource.type = "Repository" /\ ~private /\ action = Read)
        [] policy = "members do all" ->
             Outcome(principal.attributes["repository_owner"] = "org")
        [] policy = "release only" ->
             IF ~private \/ action # Write THEN "unsatisfied"
             ELSE IF "environment" \in DOMAIN principal.attributes
                  THEN Outcome(principal.attributes["environment"] # "release")
                  ELSE "error"

Symmetry == Permutations(Handlers)
=============================================================================
