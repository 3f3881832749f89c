------------------------------ MODULE Startup ------------------------------
(***************************************************************************)
(* From main to the first request: Settings::new merges the configuration  *)
(* files, Context::new asks one provider after the other for its discovery *)
(* document and its keys and reads the policy, and the server begins.  Any *)
(* error ends the process; whoever supervises it starts it again, possibly *)
(* with other files.  Everything is read once: a process that serves knows *)
(* the keys that the providers published while it was starting.            *)
(*                                                                         *)
(* A deployment is a record: the arguments of the command line, the        *)
(* configuration files by path, each a function from the keys it sets, and *)
(* the policy files by name.  The name of a policy file is the sequence of *)
(* its parts between dots.  Keys of the sections are spelled with a dot.   *)
(***************************************************************************)
EXTENDS Oidc, Functions

CONSTANTS
  Deployments,      \* what the process may find around it when it starts
  Publishable,      \* what may be published at each URL
  KnownAlgorithms,  \* the names that jsonwebtoken's Algorithm parses
  Garbage           \* a file that exists and cannot be parsed

ASSUME StartupAssumption ==
  /\ \A d \in Deployments :
       /\ d.arguments \in Seq(STRING)
       /\ \A path \in DOMAIN d.files : d.files[path] # Garbage =>
            /\ "providers" \in DOMAIN d.files[path] =>
                 d.files[path].providers \in
                   Seq([type : {"github_actions", Nothing}, url : DOMAIN Publishable])
            /\ "policy_path" \in DOMAIN d.files[path] =>
                 d.files[path].policy_path \in Seq(STRING)
  /\ \A url \in DOMAIN Publishable : \A content \in Publishable[url] :
       /\ content.kind = "document" => content.jwks_uri \in DOMAIN Publishable
       /\ content.kind = "keys" => content.jwks \in Seq([kid : STRING, alg : STRING, key : STRING])

VARIABLES
  deployment,  \* the command line and files of this start
  phase,       \* "discovery" and "keys" are the two requests to a provider
  failure,     \* what ended the last start, if something did
  settings,    \* the merged settings
  loading,     \* the position of the provider that is being asked
  document,    \* its discovery document, once it has answered
  policy,      \* the policies that were read
  published,   \* what is found at each URL now
  seen         \* bookkeeping: all that was found there during this start

startupVars ==
  <<deployment, phase, failure, settings, loading, document, policy, providers,
    published, seen>>

----------------------------------------------------------------------------
(* Settings.                                                               *)

\* The files that are read: main passes on one argument at the most.
Sources(arguments) ==
  <<"settings.toml">> \o (IF arguments = << >> THEN << >> ELSE <<arguments[1]>>)

\* Of several files that set a key the last one counts; lists are replaced as
\* a whole, and a file that does not exist is skipped.
Merged(files, paths) ==
  LET setting(key) == {i \in DOMAIN paths :
                         paths[i] \in DOMAIN files /\ key \in DOMAIN files[paths[i]]}
      keys == UNION {DOMAIN files[path] : path \in Range(paths) \cap DOMAIN files}
      last(key) == CHOOSE i \in setting(key) : \A j \in setting(key) : j <= i
  IN  [key \in keys |-> files[paths[last(key)]][key]]

\* Settings is deserialized: the keys without a default are there, the [oxide]
\* and [github] sections are whole or absent, and every provider has a type
\* that is known.
Deserializes(s) ==
  /\ {"audience", "policy_path", "providers"} \subseteq DOMAIN s
  /\ {"oxide.max_duration", "oxide.allow_tokens_without_expiry"} \cap DOMAIN s # {} =>
       "oxide.silos" \in DOMAIN s
  /\ "github.client_id" \in DOMAIN s <=> "github.private_key" \in DOMAIN s
  /\ \A i \in DOMAIN s.providers : s.providers[i].type = "github_actions"

\* Settings::new succeeds.
Configures(d) ==
  /\ \A path \in Range(Sources(d.arguments)) \cap DOMAIN d.files :
       d.files[path] # Garbage
  /\ Deserializes(Merged(d.files, Sources(d.arguments)))

----------------------------------------------------------------------------
(* The policy file.                                                        *)

Stem(name) == IF Len(name) = 1 THEN name ELSE SubSeq(name, 1, Len(name) - 1)

\* with_extension replaces the extension if there is one.
WithExtension(name, extension) == Append(Stem(name), extension)

\* The file that is read: an extension is taken off, and then another one
\* replaced.
CedarPath(name) == WithExtension(Stem(name), "cedar")

HasPolicy(d, name) ==
  CedarPath(name) \in DOMAIN d.policies /\ d.policies[CedarPath(name)] # Garbage

----------------------------------------------------------------------------

Url(i) == settings.providers[i].url

NoProviders == [issuer \in {} |-> Nothing]

StartupInit ==
  /\ deployment = Nothing /\ settings = Nothing
  /\ phase = "down" /\ failure = Nothing
  /\ loading = 0 /\ document = Nothing /\ policy = Nothing
  /\ providers = NoProviders
  /\ published \in {p \in [DOMAIN Publishable -> UNION Range(Publishable)] :
                      \A url \in DOMAIN p : p[url] \in Publishable[url]}
  /\ seen = [url \in DOMAIN Publishable |-> {}]

\* The process ends, and with it everything it had loaded.
Ends(error) ==
  /\ phase' = "down"
  /\ failure' = error
  /\ settings' = Nothing /\ loading' = 0 /\ document' = Nothing /\ policy' = Nothing
  /\ providers' = NoProviders
  /\ seen' = [url \in DOMAIN Publishable |-> {}]
  /\ UNCHANGED published

\* The next provider is asked or, when there is none left, the policy is read
\* and the server begins.
Asks(d, s, next) ==
  /\ loading' = next
  /\ document' = Nothing
  /\ IF next <= Len(s.providers)
     THEN phase' = "discovery" /\ policy' = Nothing
     ELSE /\ HasPolicy(d, s.policy_path)
          /\ phase' = "serving"
          /\ policy' = d.policies[CedarPath(s.policy_path)]

----------------------------------------------------------------------------
(* Faulty variants of definitions below.                                   *)

\* A provider that cannot be asked is left out.
ProviderFailsSkipping ==
  /\ phase \in {"discovery", "keys"}
  /\ Asks(deployment, settings, loading + 1)
  /\ UNCHANGED <<deployment, failure, settings, providers, published, seen>>

\* A provider that cannot be asked is asked again.
ProviderFailsRetrying ==
  /\ phase \in {"discovery", "keys"}
  /\ Asks(deployment, settings, loading)
  /\ UNCHANGED <<deployment, failure, settings, providers, published, seen>>

\* Of two providers with the same issuer the earlier stays.
WithProviderOnce(map, config) ==
  [issuer \in DOMAIN map \cup {config.issuer} |->
     IF issuer \in DOMAIN map THEN map[issuer] ELSE config]

----------------------------------------------------------------------------

\* The map of Context::new: of two providers with the same issuer the later
\* stays.
WithProvider(map, config) ==
  [issuer \in DOMAIN map \cup {config.issuer} |->
     IF issuer = config.issuer THEN config ELSE map[issuer]]

\* The process starts and has its settings.
Start(d) ==
  /\ phase = "down"
  /\ Configures(d)
  /\ deployment' = d
  /\ failure' = Nothing
  /\ settings' = Merged(d.files, Sources(d.arguments))
  /\ providers' = NoProviders
  /\ seen' = [url \in DOMAIN Publishable |-> {published[url]}]
  /\ Asks(d, settings', 1)
  /\ UNCHANGED published

\* It starts and ends for want of them or, where there is no provider to ask,
\* of anything else it needs.
StartFails(d) ==
  /\ phase = "down"
  /\ deployment' = d
  /\ \/ ~Configures(d) /\ Ends("settings")
     \/ /\ Configures(d)
        /\ Merged(d.files, Sources(d.arguments)).providers = << >>
        /\ Ends("context")

\* fetch_config: the provider answers with its discovery document.
DiscoveryAnswered ==
  /\ phase = "discovery"
  /\ LET content == published[Url(loading)] IN
       /\ content.kind = "document"
       /\ document' = content
  /\ phase' = "keys"
  /\ UNCHANGED <<deployment, failure, settings, loading, policy, providers,
                 published, seen>>

\* resolve succeeds: keys are answered, and the document names algorithms that
\* are known.
Resolves(content) ==
  content.kind = "keys" /\ document.algorithms \subseteq KnownAlgorithms

\* The provider has answered with its keys, and is in the map under its issuer.
KeysAnswered ==
  /\ phase = "keys"
  /\ LET content == published[document.jwks_uri] IN
       /\ Resolves(content)
       /\ providers' = WithProvider(providers,
                         [issuer |-> document.issuer, jwks |-> content.jwks])
  /\ Asks(deployment, settings, loading + 1)
  /\ UNCHANGED <<deployment, failure, settings, published, seen>>

\* A request to a provider fails, or its answer is not understood.
ProviderFails ==
  /\ phase \in {"discovery", "keys"}
  /\ Ends("provider")
  /\ UNCHANGED deployment

\* The last provider has answered, and something synchronous fails: the policy
\* cannot be read, a secret not be resolved, the address not be bound.
ContextFails ==
  /\ phase = "keys"
  /\ loading = Len(settings.providers)
  /\ Resolves(published[document.jwks_uri])
  /\ Ends("context")
  /\ UNCHANGED deployment

\* The process is killed, or its server fails.
Killed ==
  /\ phase # "down"
  /\ Ends(Nothing)
  /\ UNCHANGED deployment

\* A provider publishes something else, for example other keys.
Publish(url) ==
  /\ \E content \in Publishable[url] \ {published[url]} :
       published' = [published EXCEPT ![url] = content]
  /\ seen' = IF phase \in {"discovery", "keys"}
             THEN [seen EXCEPT ![url] = @ \cup {published'[url]}] ELSE seen
  /\ UNCHANGED <<deployment, phase, failure, settings, loading, document, policy,
                 providers>>

\* What ends a request that the process waits for.
Loads == DiscoveryAnswered \/ KeysAnswered \/ ProviderFails \/ ContextFails

StartupNext ==
  \/ \E d \in Deployments : Start(d) \/ StartFails(d)
  \/ Loads
  \/ Killed
  \/ \E url \in DOMAIN Publishable : Publish(url)

StartupSpec == StartupInit /\ [][StartupNext]_startupVars

\* Every request to a provider is answered sooner or later, or fails.
FairStartupSpec == StartupSpec /\ WF_startupVars(Loads)

----------------------------------------------------------------------------

\* The providers that are done.
Asked == IF phase = "serving" THEN DOMAIN settings.providers ELSE 1 .. loading - 1

\* What a provider may have said of itself while the process was starting.
Described(i) == {content \in seen[Url(i)] : content.kind = "document"}

KeysOf(d) == {content \in seen[d.jwks_uri] : content.kind = "keys"}

FromProvider(i, config) ==
  \E d \in Described(i) : \E k \in KeysOf(d) :
    config.issuer = d.issuer /\ config.jwks = k.jwks

\* While this process was starting, a configured provider with the issuer of
\* the JWT published the key that signed it.
Genuine(jwt) ==
  \E i \in DOMAIN settings.providers : \E d \in Described(i) : \E k \in KeysOf(d) :
    /\ d.issuer = jwt.iss
    /\ \E n \in DOMAIN k.jwks :
         k.jwks[n].kid = jwt.kid /\ k.jwks[n].alg = jwt.alg /\ k.jwks[n].key = jwt.key

\* Whoever is accepted, at any hour, was vouched for by a provider of the
\* settings while this process was starting: neither a provider that only
\* another deployment has nor a key that was withdrawn before a restart counts,
\* nor one provider's key for another one's issuer.
AcceptedIsGenuine ==
  phase = "serving" =>
    \A jwt \in Jwts : Accepted(jwt, jwt.exp) => Genuine(jwt)

\* A process that serves trusts every provider of its settings: the JWTs of
\* one that published the same all the time are accepted, unless one further
\* down the settings has claimed its issuer.
SteadyProviderIsTrusted ==
  phase = "serving" =>
    \A i \in DOMAIN settings.providers : \A d \in Described(i) : \A k \in KeysOf(d) :
      /\ seen[Url(i)] = {d} /\ seen[d.jwks_uri] = {k}
      /\ \A j \in DOMAIN settings.providers : j > i =>
           \A other \in Described(j) : other.issuer # d.issuer
      => \A jwt \in Jwts :
           jwt.decodes /\ Validates([issuer |-> d.issuer, jwks |-> k.jwks], jwt, jwt.exp)
             => Accepted(jwt, jwt.exp)

\* "Multiple files can be passed to the command line, and they will be
\* merged" (README.md): what the last of them sets is in force.
EveryFileIsMerged ==
  phase = "serving" /\ deployment.arguments # << >> =>
    LET last == deployment.arguments[Len(deployment.arguments)] IN
    last \in DOMAIN deployment.files =>
      \A key \in DOMAIN deployment.files[last] :
        key \in DOMAIN settings /\ settings[key] = deployment.files[last][key]

\* policy_path is the "path to the [...] file defining the authorization
\* policy" (README.md): if that file exists, its policies are in force.
PolicyFileIsNamed ==
  phase = "serving" /\ settings.policy_path \in DOMAIN deployment.policies =>
    policy = deployment.policies[settings.policy_path]

\* A start ends: the process serves or is down again, whatever the providers
\* answer and publish.
StartEnds == phase \in {"discovery", "keys"} ~> phase \in {"serving", "down"}

\* The requests a start still makes at the most: two for each provider.
LoadsLeft ==
  CASE phase = "discovery" -> 2 * (Len(settings.providers) - loading) + 2
    [] phase = "keys" -> 2 * (Len(settings.providers) - loading) + 1
    [] OTHER -> 0

\* Nor is anything of a start retried: what ends a request leaves fewer of them,
\* and the providers add none by what they publish meanwhile.
LoadsRunOut ==
  [][(phase \in {"discovery", "keys"}) =>
       LoadsLeft' <= LoadsLeft /\ (Loads => LoadsLeft' < LoadsLeft)]_startupVars

----------------------------------------------------------------------------
(* The inductive invariant.                                                *)

StartupTypeOK ==
  /\ phase \in {"down", "discovery", "keys", "serving"}
  /\ failure \in {"settings", "provider", "context", Nothing}
  /\ published \in [DOMAIN Publishable -> UNION Range(Publishable)]
  /\ \A url \in DOMAIN Publishable : published[url] \in Publishable[url]
  /\ seen \in [DOMAIN Publishable -> SUBSET UNION Range(Publishable)]
  /\ \A url \in DOMAIN Publishable : seen[url] \subseteq Publishable[url]

\* The process runs with the settings it found, and the provider it asks is
\* one of them.
RunsAsDeployed ==
  phase # "down" =>
    /\ deployment \in Deployments /\ Configures(deployment)
    /\ settings = Merged(deployment.files, Sources(deployment.arguments))
    /\ phase = "serving" => policy = deployment.policies[CedarPath(settings.policy_path)]
    /\ phase \in {"discovery", "keys"} =>
         /\ loading \in DOMAIN settings.providers
         /\ \A url \in DOMAIN Publishable : published[url] \in seen[url]
    /\ phase = "keys" => document \in Described(loading)

\* Every entry of the map is some provider's, and every provider that is done
\* has its issuer in the map, as it or a later one described it.
ProvidersAreSeen ==
  phase # "down" =>
    /\ \A issuer \in DOMAIN providers :
         /\ providers[issuer].issuer = issuer
         /\ \E i \in Asked : FromProvider(i, providers[issuer])
    /\ \A i \in Asked : \E d \in Described(i), j \in Asked :
         /\ i <= j
         /\ d.issuer \in DOMAIN providers
         /\ FromProvider(j, providers[d.issuer])

StartupInv == StartupTypeOK /\ RunsAsDeployed /\ ProvidersAreSeen
=============================================================================
