--------------------------- MODULE StartupProofs ---------------------------
(* Proofs about Startup: what a process that serves knows of its providers. *)
EXTENDS Startup, SequenceTheorems, TLAPS, WellFoundedInduction

ProviderConfigs == Seq([type : {"github_actions", Nothing}, url : DOMAIN Publishable])

\* A merged setting is one that some file which is read sets.
LEMMA MergedFrom ==
  ASSUME NEW d \in Deployments, NEW key,
         key \in DOMAIN Merged(d.files, Sources(d.arguments))
  PROVE  \E path \in Range(Sources(d.arguments)) \cap DOMAIN d.files :
           /\ key \in DOMAIN d.files[path]
           /\ Merged(d.files, Sources(d.arguments))[key] = d.files[path][key]
<1>1. PICK paths, files : paths = Sources(d.arguments) /\ files = d.files
  OBVIOUS
<1>2. DOMAIN paths = {1} \/ DOMAIN paths = {1, 2}
  BY <1>1 DEF Sources
<1>3. key \in DOMAIN Merged(files, paths)
  BY <1>1
<1>4. PICK sets : sets = {i \in DOMAIN paths : paths[i] \in DOMAIN files
                                            /\ key \in DOMAIN files[paths[i]]}
  OBVIOUS
<1>5. PICK path \in Range(paths) \cap DOMAIN files : key \in DOMAIN files[path]
  BY <1>3 DEF Merged
<1>6. PICK k \in DOMAIN paths : paths[k] = path
  BY <1>5 DEF Range
<1>7. k \in sets
  BY <1>4, <1>5, <1>6
<1>8. sets \subseteq {1, 2} /\ sets # {}
  BY <1>2, <1>4, <1>7
<1>9. \E i \in sets : \A j \in sets : j <= i
  <2>1. CASE 2 \in sets
    <3>1. \A j \in sets : j <= 2
      BY <1>8
    <3> QED BY <2>1, <3>1
  <2>2. CASE 2 \notin sets
    <3>1. sets = {1}
      BY <1>8, <2>2
    <3> QED BY <3>1
  <2> QED BY <2>1, <2>2
<1>10. PICK last : last = CHOOSE i \in sets : \A j \in sets : j <= i
  OBVIOUS
<1>11. last \in sets
  BY <1>9, <1>10
<1>12. Merged(files, paths)[key] = files[paths[last]][key]
  BY <1>3, <1>4, <1>10 DEF Merged
<1>13. paths[last] \in Range(paths) \cap DOMAIN files
       /\ key \in DOMAIN files[paths[last]]
  BY <1>4, <1>11 DEF Range
<1> QED BY <1>1, <1>12, <1>13

LEMMA MergedTypes ==
  ASSUME NEW d \in Deployments, Configures(d)
  PROVE  LET s == Merged(d.files, Sources(d.arguments)) IN
         s.providers \in ProviderConfigs /\ s.policy_path \in Seq(STRING)
<1>1. PICK s : s = Merged(d.files, Sources(d.arguments))
  OBVIOUS
<1>2. "providers" \in DOMAIN s /\ "policy_path" \in DOMAIN s
  BY <1>1 DEF Configures, Deserializes
<1>3. \A path \in Range(Sources(d.arguments)) \cap DOMAIN d.files :
        d.files[path] # Garbage
  BY DEF Configures
<1>4. PICK path \in Range(Sources(d.arguments)) \cap DOMAIN d.files :
        "providers" \in DOMAIN d.files[path] /\ s.providers = d.files[path].providers
  BY <1>1, <1>2, MergedFrom
<1>5. PICK other \in Range(Sources(d.arguments)) \cap DOMAIN d.files :
        /\ "policy_path" \in DOMAIN d.files[other]
        /\ s.policy_path = d.files[other].policy_path
  BY <1>1, <1>2, MergedFrom
<1>6. s.providers \in ProviderConfigs
  BY <1>3, <1>4, StartupAssumption DEF ProviderConfigs
<1>7. s.policy_path \in Seq(STRING)
  BY <1>3, <1>5, StartupAssumption
<1> QED BY <1>1, <1>6, <1>7

LEMMA SettingsFacts ==
  ASSUME RunsAsDeployed, phase # "down"
  PROVE  /\ settings.providers \in ProviderConfigs
         /\ DOMAIN settings.providers = 1 .. Len(settings.providers)
         /\ Len(settings.providers) \in Nat
         /\ \A i \in DOMAIN settings.providers : Url(i) \in DOMAIN Publishable
<1>1. settings.providers \in ProviderConfigs
  BY MergedTypes DEF RunsAsDeployed
<1>2. ASSUME NEW i \in 1 .. Len(settings.providers)
      PROVE  settings.providers[i].url \in DOMAIN Publishable
  <2>1. PICK list, configs :
          /\ list = settings.providers
          /\ configs = [type : {"github_actions", Nothing}, url : DOMAIN Publishable]
    OBVIOUS
  <2>2. list \in Seq(configs) /\ i \in 1 .. Len(list)
    BY <1>1, <1>2, <2>1 DEF ProviderConfigs
  <2>3. list[i] \in configs
    BY <2>2
  <2> QED BY <2>1, <2>3
<1> QED BY <1>1, <1>2 DEF ProviderConfigs, Url

----------------------------------------------------------------------------

LEMMA StartupInitInv == StartupInit => StartupInv
<1> SUFFICES ASSUME StartupInit PROVE StartupInv
  OBVIOUS
<1>1. StartupTypeOK
  BY DEF StartupInit, StartupTypeOK
<1> QED BY <1>1 DEF StartupInit, StartupInv, RunsAsDeployed, ProvidersAreSeen

\* A process that is down has nothing to be wrong about.
LEMMA EndsInv ==
  ASSUME StartupInv, NEW error \in {"settings", "provider", "context", Nothing},
         Ends(error)
  PROVE  StartupInv'
<1>1. StartupTypeOK'
  BY DEF StartupInv, StartupTypeOK, Ends
<1> QED BY <1>1 DEF StartupInv, RunsAsDeployed, ProvidersAreSeen, Ends

LEMMA StartInv ==
  ASSUME StartupInv, NEW d \in Deployments, Start(d)
  PROVE  StartupInv'
<1>1. PICK s : s = Merged(d.files, Sources(d.arguments))
  OBVIOUS
<1>2. settings' = s /\ deployment' = d /\ providers' = NoProviders
      /\ published' = published /\ failure' = Nothing
      /\ seen' = [url \in DOMAIN Publishable |-> {published[url]}]
  BY <1>1 DEF Start
<1>3. s.providers \in ProviderConfigs
  BY <1>1, MergedTypes DEF Start
<1>4. Len(s.providers) \in Nat /\ DOMAIN s.providers = 1 .. Len(s.providers)
  BY <1>3 DEF ProviderConfigs
<1>5. \/ /\ phase' = "discovery" /\ loading' = 1 /\ 1 <= Len(s.providers)
      \/ /\ phase' = "serving" /\ Len(s.providers) = 0
         /\ policy' = d.policies[CedarPath(s.policy_path)]
  BY <1>2, <1>4 DEF Start, Asks
<1>6. StartupTypeOK'
  BY <1>2, <1>5 DEF StartupInv, StartupTypeOK
<1>7. RunsAsDeployed'
  <2>1. Configures(d)
    BY DEF Start
  <2> QED BY <1>1, <1>2, <1>4, <1>5, <2>1 DEF RunsAsDeployed, StartupInv, StartupTypeOK
<1>8. Asked' = {}
  BY <1>2, <1>4, <1>5 DEF Asked
<1>9. ProvidersAreSeen'
  BY <1>2, <1>8 DEF ProvidersAreSeen, NoProviders
<1> QED BY <1>6, <1>7, <1>9 DEF StartupInv

LEMMA DiscoveryAnsweredInv ==
  ASSUME StartupInv, DiscoveryAnswered
  PROVE  StartupInv'
<1>1. /\ phase = "discovery" /\ phase' = "keys" /\ document' = published[Url(loading)]
      /\ document'.kind = "document"
      /\ UNCHANGED <<deployment, failure, settings, loading, policy, providers,
                     published, seen>>
  BY DEF DiscoveryAnswered
<1>2. StartupTypeOK'
  BY <1>1 DEF StartupInv, StartupTypeOK
<1>3. loading \in DOMAIN settings.providers /\ Url(loading) \in DOMAIN Publishable
  BY <1>1, SettingsFacts DEF StartupInv, RunsAsDeployed
<1>4. document' \in Described(loading)
  BY <1>1, <1>3 DEF StartupInv, RunsAsDeployed, Described
<1>5. RunsAsDeployed'
  BY <1>1, <1>4 DEF StartupInv, RunsAsDeployed, Described, Url
<1>6. ProvidersAreSeen'
  BY <1>1 DEF StartupInv, ProvidersAreSeen, Asked, FromProvider, Described, KeysOf, Url
<1> QED BY <1>2, <1>5, <1>6 DEF StartupInv

LEMMA KeysAnsweredInv ==
  ASSUME StartupInv, KeysAnswered
  PROVE  StartupInv'
<1>1. PICK content, config :
        /\ content = published[document.jwks_uri]
        /\ config = [issuer |-> document.issuer, jwks |-> content.jwks]
  OBVIOUS
<1>2. /\ phase = "keys" /\ content.kind = "keys"
      /\ providers' = WithProvider(providers, config)
      /\ Asks(deployment, settings, loading + 1)
      /\ UNCHANGED <<deployment, failure, settings, published, seen>>
  BY <1>1 DEF KeysAnswered, Resolves
<1>3. /\ loading \in 1 .. Len(settings.providers) /\ Len(settings.providers) \in Nat
      /\ DOMAIN settings.providers = 1 .. Len(settings.providers)
      /\ Url(loading) \in DOMAIN Publishable
  BY <1>2, SettingsFacts DEF StartupInv, RunsAsDeployed
<1>4. \/ /\ phase' = "discovery" /\ loading' = loading + 1
         /\ loading + 1 <= Len(settings.providers)
      \/ /\ phase' = "serving" /\ loading = Len(settings.providers)
         /\ policy' = deployment.policies[CedarPath(settings.policy_path)]
  BY <1>2, <1>3 DEF Asks
<1>5. StartupTypeOK'
  BY <1>2, <1>4 DEF StartupInv, StartupTypeOK
<1>6. RunsAsDeployed'
  BY <1>2, <1>3, <1>4 DEF StartupInv, RunsAsDeployed
<1>7. Asked = 1 .. loading - 1 /\ Asked' = 1 .. loading
  BY <1>2, <1>3, <1>4 DEF Asked
<1>8. document \in Described(loading)
  BY <1>2 DEF StartupInv, RunsAsDeployed
<1>9. document.jwks_uri \in DOMAIN Publishable
  BY <1>3, <1>8, StartupAssumption DEF StartupInv, StartupTypeOK, Described
<1>10. content \in KeysOf(document)
  BY <1>1, <1>2, <1>9 DEF StartupInv, RunsAsDeployed, KeysOf
<1>11. FromProvider(loading, config)
  BY <1>1, <1>8, <1>10 DEF FromProvider
<1>12. /\ DOMAIN providers' = DOMAIN providers \cup {document.issuer}
       /\ config.issuer = document.issuer
       /\ providers'[document.issuer] = config
       /\ \A issuer \in DOMAIN providers \ {document.issuer} :
            providers'[issuer] = providers[issuer]
  BY <1>1, <1>2 DEF WithProvider
<1>13. /\ \A issuer \in DOMAIN providers :
            /\ providers[issuer].issuer = issuer
            /\ \E i \in Asked : FromProvider(i, providers[issuer])
       /\ \A i \in Asked : \E d \in Described(i), j \in Asked :
            /\ i <= j
            /\ d.issuer \in DOMAIN providers
            /\ FromProvider(j, providers[d.issuer])
  BY <1>2 DEF StartupInv, ProvidersAreSeen
<1>14. \A issuer \in DOMAIN providers' :
         /\ providers'[issuer].issuer = issuer
         /\ \E i \in 1 .. loading : FromProvider(i, providers'[issuer])
  <2> TAKE issuer \in DOMAIN providers'
  <2>1. CASE issuer = document.issuer
    BY <1>3, <1>11, <1>12, <2>1
  <2>2. CASE issuer # document.issuer
    <3>1. issuer \in DOMAIN providers /\ providers'[issuer] = providers[issuer]
      BY <1>12, <2>2
    <3>2. PICK i \in Asked : FromProvider(i, providers[issuer])
      BY <1>13, <3>1
    <3>3. i \in 1 .. loading
      BY <1>3, <1>7
    <3> QED BY <1>13, <3>1, <3>2, <3>3
  <2> QED BY <2>1, <2>2
<1>15. \A i \in 1 .. loading : \E d \in Described(i), j \in 1 .. loading :
         /\ i <= j
         /\ d.issuer \in DOMAIN providers'
         /\ FromProvider(j, providers'[d.issuer])
  <2> TAKE i \in 1 .. loading
  <2>1. CASE i = loading
    <3>1. loading \in 1 .. loading /\ i <= loading /\ document \in Described(i)
          /\ document.issuer \in DOMAIN providers'
          /\ FromProvider(loading, providers'[document.issuer])
      BY <1>3, <1>8, <1>11, <1>12, <2>1
    <3> QED BY <3>1
  <2>2. CASE i # loading
    <3>1. i \in Asked
      BY <1>3, <1>7, <2>2
    <3>2. PICK d \in Described(i), j \in Asked :
            i <= j /\ d.issuer \in DOMAIN providers /\ FromProvider(j, providers[d.issuer])
      BY <1>13, <3>1
    <3>3. j \in 1 .. loading /\ loading \in 1 .. loading /\ i <= loading
      BY <1>3, <1>7
    <3>4. CASE d.issuer = document.issuer
      BY <1>11, <1>12, <3>3, <3>4
    <3>5. CASE d.issuer # document.issuer
      BY <1>12, <3>2, <3>3, <3>5
    <3> QED BY <3>4, <3>5
  <2> QED BY <2>1, <2>2
<1>16. ProvidersAreSeen'
  BY <1>2, <1>7, <1>14, <1>15 DEF ProvidersAreSeen, FromProvider, Described, KeysOf, Url
<1> QED BY <1>5, <1>6, <1>16 DEF StartupInv

\* What providers publish is not lost from what was seen.
LEMMA PublishInv ==
  ASSUME StartupInv, NEW url \in DOMAIN Publishable, Publish(url)
  PROVE  StartupInv'
<1>1. PICK content \in Publishable[url] : published' = [published EXCEPT ![url] = content]
  BY DEF Publish
<1>2. UNCHANGED <<deployment, phase, failure, settings, loading, document, policy,
                  providers>>
  BY DEF Publish
<1>3. published'[url] = content
      /\ \A u \in DOMAIN Publishable \ {url} : published'[u] = published[u]
  BY <1>1 DEF StartupInv, StartupTypeOK
<1>4. content \in UNION Range(Publishable)
  BY <1>1 DEF Range
<1>5. \/ phase \notin {"discovery", "keys"} /\ seen' = seen
      \/ seen' = [seen EXCEPT ![url] = @ \cup {content}]
  BY <1>3 DEF Publish
<1>6. \A u \in DOMAIN Publishable : seen[u] \subseteq seen'[u]
  BY <1>5 DEF StartupInv, StartupTypeOK
<1>7. StartupTypeOK'
  <2>1. published' \in [DOMAIN Publishable -> UNION Range(Publishable)]
    BY <1>1, <1>4 DEF StartupInv, StartupTypeOK
  <2>2. seen' \in [DOMAIN Publishable -> SUBSET UNION Range(Publishable)]
    BY <1>4, <1>5 DEF StartupInv, StartupTypeOK
  <2>3. \A u \in DOMAIN Publishable :
          published'[u] \in Publishable[u] /\ seen'[u] \subseteq Publishable[u]
    BY <1>3, <1>5 DEF StartupInv, StartupTypeOK
  <2> QED BY <1>2, <2>1, <2>2, <2>3 DEF StartupInv, StartupTypeOK
<1>8. ASSUME phase # "down", NEW i \in DOMAIN settings.providers
      PROVE  /\ Described(i) \subseteq Described(i)'
             /\ \A d \in Described(i) : KeysOf(d) \subseteq KeysOf(d)'
  <2>1. Url(i) \in DOMAIN Publishable /\ Url(i)' = Url(i)
    BY <1>2, <1>8, SettingsFacts DEF StartupInv, Url
  <2>2. \A d \in Described(i) : d.jwks_uri \in DOMAIN Publishable
    BY <2>1, StartupAssumption DEF StartupInv, StartupTypeOK, Described
  <2> QED BY <1>6, <2>1, <2>2 DEF Described, KeysOf
<1>9. RunsAsDeployed'
  <2>1. phase \in {"discovery", "keys"} =>
          \A u \in DOMAIN Publishable : published'[u] \in seen'[u]
    BY <1>3, <1>5 DEF StartupInv, StartupTypeOK, RunsAsDeployed
  <2> QED BY <1>2, <1>8, <2>1 DEF StartupInv, RunsAsDeployed
<1>10. ProvidersAreSeen'
  <2> SUFFICES ASSUME phase # "down" PROVE ProvidersAreSeen'
    BY <1>2 DEF ProvidersAreSeen
  <2>1. Asked' = Asked
    BY <1>2 DEF Asked
  <2>2. Asked \subseteq DOMAIN settings.providers
    BY SettingsFacts DEF Asked, StartupInv, StartupTypeOK, RunsAsDeployed
  <2>3. \A i \in Asked : \A config : FromProvider(i, config) => FromProvider(i, config)'
    BY <1>8, <2>2 DEF FromProvider
  <2> QED BY <1>2, <1>8, <2>1, <2>2, <2>3 DEF StartupInv, ProvidersAreSeen
<1> QED BY <1>7, <1>9, <1>10 DEF StartupInv

LEMMA StartupNextInv == StartupInv /\ [StartupNext]_startupVars => StartupInv'
<1> SUFFICES ASSUME StartupInv, [StartupNext]_startupVars PROVE StartupInv'
  OBVIOUS
<1>1. CASE UNCHANGED startupVars
  BY <1>1 DEF startupVars, StartupInv, StartupTypeOK, RunsAsDeployed, ProvidersAreSeen,
              Asked, FromProvider, Described, KeysOf, Url
<1>2. ASSUME NEW d \in Deployments, Start(d) \/ StartFails(d) PROVE StartupInv'
  BY <1>2, StartInv, EndsInv DEF StartFails
<1>3. CASE Loads \/ Killed
  BY <1>3, DiscoveryAnsweredInv, KeysAnsweredInv, EndsInv
     DEF Loads, Killed, ProviderFails, ContextFails
<1> QED BY <1>1, <1>2, <1>3, PublishInv DEF StartupNext

----------------------------------------------------------------------------

\* Whatever the deployments and whatever is published when: the inductive
\* invariant of startup.
THEOREM StartupInvariant == StartupSpec => []StartupInv
  BY StartupInitInv, StartupNextInv, PTL DEF StartupSpec

----------------------------------------------------------------------------

LEMMA LeastNumber ==
  ASSUME NEW T \in SUBSET Nat, T # {}
  PROVE  \E i \in T : \A j \in T : ~(j < i)
<1>1. PICK i \in T : \A j \in T : <<j, i>> \notin OpToRel(<, Nat)
  BY NatLessThanWellFounded, WFMin
<1>2. \A j \in T : j \in Nat /\ i \in Nat
  OBVIOUS
<1>3. \A j \in T : ~(j < i)
  BY <1>1, <1>2, Zenon DEF OpToRel
<1> QED BY <1>3

\* If a key has that kid, a first one has.
LEMMA FirstKeyFound ==
  ASSUME NEW jwks, NEW n \in Nat, DOMAIN jwks = 1 .. n, NEW kid,
         \E i \in DOMAIN jwks : jwks[i].kid = kid
  PROVE  FirstKey(jwks, kid) \in DOMAIN jwks /\ jwks[FirstKey(jwks, kid)].kid = kid
<1>1. PICK T : T = {i \in DOMAIN jwks : jwks[i].kid = kid}
  OBVIOUS
<1>2. T \in SUBSET Nat /\ T # {}
  BY <1>1
<1>3. PICK i \in T : \A j \in T : ~(j < i)
  BY <1>2, LeastNumber
<1>4. \A j \in 1 .. i - 1 : j \in DOMAIN jwks /\ j < i
  BY <1>1, <1>3
<1>5. \A j \in 1 .. i - 1 : jwks[j].kid # kid
  BY <1>1, <1>3, <1>4
<1>6. i \in DOMAIN jwks /\ jwks[i].kid = kid
  BY <1>1
<1> QED BY <1>5, <1>6 DEF FirstKey

\* The provider whose keys validate a JWT has published the key that signed it.
LEMMA AcceptedComesFrom ==
  ASSUME StartupInv, phase = "serving", NEW jwt \in Jwts, Accepted(jwt, jwt.exp)
  PROVE  Genuine(jwt)
<1>1. PICK config : config = providers[jwt.iss]
  OBVIOUS
<1>2. jwt.iss \in DOMAIN providers /\ Validates(config, jwt, jwt.exp)
  BY <1>1 DEF Accepted
<1>3. PICK i \in DOMAIN settings.providers : FromProvider(i, config) /\ config.issuer = jwt.iss
  BY <1>1, <1>2 DEF StartupInv, ProvidersAreSeen, Asked
<1>4. PICK d \in Described(i) : \E k \in KeysOf(d) :
        config.issuer = d.issuer /\ config.jwks = k.jwks
  BY <1>3 DEF FromProvider
<1>5. PICK k \in KeysOf(d) : config.issuer = d.issuer /\ config.jwks = k.jwks
  BY <1>4
<1>6. PICK jwks : jwks = k.jwks
  OBVIOUS
<1>7. \E n \in Nat : DOMAIN jwks = 1 .. n
  <2>1. Url(i) \in DOMAIN Publishable
    BY <1>3, SettingsFacts DEF StartupInv
  <2>2. d.jwks_uri \in DOMAIN Publishable
    BY <2>1, StartupAssumption DEF StartupInv, StartupTypeOK, Described
  <2>3. k \in Publishable[d.jwks_uri] /\ k.kind = "keys"
    BY <2>2 DEF StartupInv, StartupTypeOK, KeysOf
  <2>4. jwks \in Seq([kid : STRING, alg : STRING, key : STRING])
    BY <1>6, <2>2, <2>3, StartupAssumption
  <2> QED BY <2>4
<1>8. PICK n : n = FirstKey(jwks, jwt.kid)
  OBVIOUS
<1>9. n \in DOMAIN jwks /\ jwks[n].kid = jwt.kid
  BY <1>2, <1>5, <1>6, <1>7, <1>8, FirstKeyFound DEF Validates
<1>10. jwks[n].alg = jwt.alg /\ jwks[n].key = jwt.key
  BY <1>2, <1>5, <1>6, <1>8 DEF Validates
<1> QED BY <1>3, <1>4, <1>5, <1>6, <1>9, <1>10 DEF Genuine

\* Nobody is accepted whose key no configured provider published under the
\* issuer of the JWT while the process was starting.
THEOREM AcceptedGenuine == StartupSpec => []AcceptedIsGenuine
<1>1. StartupInv => AcceptedIsGenuine
  BY AcceptedComesFrom DEF AcceptedIsGenuine
<1> QED BY <1>1, StartupInvariant, PTL

LEMMA SteadyAccepted == StartupInv => SteadyProviderIsTrusted
<1> SUFFICES ASSUME StartupInv, phase = "serving",
                    NEW i \in DOMAIN settings.providers, NEW d \in Described(i),
                    NEW k \in KeysOf(d), seen[Url(i)] = {d}, seen[d.jwks_uri] = {k},
                    \A j \in DOMAIN settings.providers : j > i =>
                      \A other \in Described(j) : other.issuer # d.issuer,
                    NEW jwt \in Jwts, jwt.decodes,
                    Validates([issuer |-> d.issuer, jwks |-> k.jwks], jwt, jwt.exp)
             PROVE  Accepted(jwt, jwt.exp)
  BY DEF SteadyProviderIsTrusted
<1>1. PICK config : config = providers[d.issuer]
  OBVIOUS
<1>2. PICK e \in Described(i), j \in DOMAIN settings.providers :
        i <= j /\ e.issuer \in DOMAIN providers /\ FromProvider(j, providers[e.issuer])
  BY DEF StartupInv, ProvidersAreSeen, Asked
<1>3. e = d
  BY DEF Described
<1>4. PICK other \in Described(j) : \E kk \in KeysOf(other) :
        config.issuer = other.issuer /\ config.jwks = kk.jwks
  BY <1>1, <1>2, <1>3 DEF FromProvider
<1>5. config.issuer = d.issuer
  BY <1>1, <1>2, <1>3 DEF StartupInv, ProvidersAreSeen
<1>6. j = i
  <2>1. i \in Int /\ j \in Int
    BY SettingsFacts DEF StartupInv
  <2>2. ~(j > i)
    BY <1>4, <1>5
  <2> QED BY <1>2, <2>1, <2>2
<1>7. other = d
  BY <1>4, <1>6 DEF Described
<1>8. config.jwks = k.jwks
  BY <1>4, <1>7 DEF KeysOf
<1>9. jwt.iss = d.issuer
  BY DEF Validates
<1>10. Validates(config, jwt, jwt.exp)
  <2>1. PICK c : c = [issuer |-> d.issuer, jwks |-> k.jwks]
    OBVIOUS
  <2>2. c.issuer = config.issuer /\ c.jwks = config.jwks /\ Validates(c, jwt, jwt.exp)
    BY <1>5, <1>8, <2>1
  <2> QED BY <2>2 DEF Validates
<1> QED BY <1>1, <1>2, <1>3, <1>9, <1>10 DEF Accepted

\* Every configured provider that published one thing throughout is trusted.
THEOREM SteadyTrusted == StartupSpec => []SteadyProviderIsTrusted
  BY SteadyAccepted, StartupInvariant, PTL

----------------------------------------------------------------------------
(* A start runs out of requests.                                            *)

\* What is left when the provider at next is asked, or none is left to ask.
LEMMA AsksLeaves ==
  ASSUME NEW d, NEW s, NEW next \in Nat, Len(s.providers) \in Nat,
         Asks(d, s, next), settings' = s
  PROVE  /\ LoadsLeft' \in Nat
         /\ next <= Len(s.providers) =>
              LoadsLeft' = 2 * (Len(s.providers) - next) + 2
         /\ next > Len(s.providers) => LoadsLeft' = 0
<1>1. PICK n : n = Len(s.providers)
  OBVIOUS
<1>2. CASE next <= n
  <2>1. phase' = "discovery" /\ loading' = next
    BY <1>1, <1>2 DEF Asks
  <2>2. LoadsLeft' = 2 * (n - next) + 2
    BY <1>1, <2>1 DEF LoadsLeft
  <2> QED BY <1>1, <1>2, <2>2
<1>3. CASE next > n
  <2>1. phase' = "serving"
    BY <1>1, <1>3 DEF Asks
  <2>2. LoadsLeft' = 0
    BY <2>1 DEF LoadsLeft
  <2> QED BY <1>1, <1>3, <2>2
<1> QED BY <1>1, <1>2, <1>3

LEMMA LoadsStep ==
  StartupInv /\ [StartupNext]_startupVars =>
    (phase \in {"discovery", "keys"} =>
       LoadsLeft' <= LoadsLeft /\ (Loads => LoadsLeft' < LoadsLeft))
<1> SUFFICES ASSUME StartupInv, [StartupNext]_startupVars,
                    phase \in {"discovery", "keys"}
             PROVE  LoadsLeft' <= LoadsLeft /\ (Loads => LoadsLeft' < LoadsLeft)
  OBVIOUS
<1>1. PICK n : n = Len(settings.providers)
  OBVIOUS
<1>2. n \in Nat /\ loading \in 1 .. n
  BY <1>1, SettingsFacts DEF StartupInv, RunsAsDeployed
<1>3. /\ phase = "discovery" => LoadsLeft = 2 * (n - loading) + 2
      /\ phase = "keys" => LoadsLeft = 2 * (n - loading) + 1
  BY <1>1 DEF LoadsLeft
<1>4. CASE DiscoveryAnswered
  <2>1. phase = "discovery" /\ LoadsLeft' = 2 * (n - loading) + 1
    BY <1>1, <1>4 DEF DiscoveryAnswered, LoadsLeft
  <2> QED BY <1>2, <1>3, <2>1
<1>5. CASE KeysAnswered
  <2>1. /\ phase = "keys" /\ settings' = settings
        /\ Asks(deployment, settings, loading + 1)
    BY <1>5 DEF KeysAnswered
  <2>2. /\ LoadsLeft' \in Nat
        /\ loading + 1 <= n => LoadsLeft' = 2 * (n - (loading + 1)) + 2
        /\ loading + 1 > n => LoadsLeft' = 0
    BY <1>1, <1>2, <2>1, AsksLeaves
  <2> QED BY <1>2, <1>3, <2>1, <2>2
<1>6. CASE ProviderFails \/ ContextFails \/ Killed
  <2>1. LoadsLeft' = 0
    BY <1>6 DEF ProviderFails, ContextFails, Killed, Ends, LoadsLeft
  <2> QED BY <1>2, <1>3, <2>1
<1>7. CASE ~Loads /\ ~Killed
  <2>1. UNCHANGED <<phase, settings, loading>>
    BY <1>7 DEF StartupNext, Start, StartFails, Publish, startupVars
  <2>2. LoadsLeft' = LoadsLeft
    BY <2>1 DEF LoadsLeft
  <2> QED BY <1>2, <1>3, <1>7, <2>2
<1> QED BY <1>4, <1>5, <1>6, <1>7 DEF Loads

\* However many providers there are and whatever they publish, a start runs out
\* of requests: none of them is sent twice.
THEOREM StartRunsOut == StartupSpec => LoadsRunOut
  BY LoadsStep, StartupInvariant, PTL DEF StartupSpec, LoadsRunOut

----------------------------------------------------------------------------
(* How files are merged, and which policy file is read.                     *)

LEMMA GreatestNumber ==
  ASSUME NEW n \in Nat, NEW T \in SUBSET (1 .. n), T # {}
  PROVE  \E i \in T : \A j \in T : j <= i
<1>1. PICK U : U = {m \in Nat : n - m \in T}
  OBVIOUS
<1>2. U \in SUBSET Nat /\ U # {}
  <2>1. PICK i \in T : TRUE
    OBVIOUS
  <2>2. n - i \in Nat /\ n - (n - i) = i
    OBVIOUS
  <2> QED BY <1>1, <2>1, <2>2
<1>3. PICK m \in U : \A k \in U : ~(k < m)
  BY <1>2, LeastNumber
<1>4. ASSUME NEW j \in T PROVE j <= n - m
  <2>1. j \in 1 .. n /\ n - j \in Nat /\ n - (n - j) = j
    OBVIOUS
  <2>2. n - j \in U
    BY <1>1, <2>1
  <2>3. ~(n - j < m) /\ m \in Nat
    BY <1>2, <1>3, <2>2
  <2> QED BY <2>1, <2>3
<1> QED BY <1>1, <1>3, <1>4

\* The settings g, of which those of f replace the ones with the same key.
Overriding(f, g) ==
  [key \in DOMAIN f \cup DOMAIN g |-> IF key \in DOMAIN f THEN f[key] ELSE g[key]]

\* The file that is added last overrides the others key by key, and one that does
\* not exist changes nothing: config's builder adds its sources one by one.
THEOREM LaterSourceWins ==
  ASSUME NEW files, NEW Paths, NEW paths \in Seq(Paths), NEW path \in Paths
  PROVE  LET before == Merged(files, paths)
             after == Merged(files, Append(paths, path))
         IN  /\ path \in DOMAIN files => after = Overriding(files[path], before)
             /\ path \notin DOMAIN files => after = before
<1>1. PICK more, n, own :
        /\ more = Append(paths, path) /\ n = Len(paths)
        /\ own = IF path \in DOMAIN files THEN DOMAIN files[path] ELSE {}
  OBVIOUS
<1>2. /\ n \in Nat /\ DOMAIN paths = 1 .. n /\ DOMAIN more = 1 .. n + 1
      /\ more[n + 1] = path /\ \A i \in 1 .. n : more[i] = paths[i]
  <2>1. /\ n \in Nat /\ DOMAIN paths = 1 .. n
        /\ more \in Seq(Paths) /\ Len(more) = n + 1
        /\ more[n + 1] = path /\ \A i \in 1 .. n : more[i] = paths[i]
    BY <1>1, LenProperties, AppendProperties
  <2>2. DOMAIN more = 1 .. n + 1
    BY <2>1, LenProperties
  <2> QED BY <2>1, <2>2
<1> DEFINE
      sets(ps, key) == {i \in DOMAIN ps : ps[i] \in DOMAIN files
                                          /\ key \in DOMAIN files[ps[i]]}
      last(ps, key) == CHOOSE i \in sets(ps, key) : \A j \in sets(ps, key) : j <= i
      keys(ps) == UNION {DOMAIN files[p] : p \in Range(ps) \cap DOMAIN files}
<1>3. \A ps : Merged(files, ps) = [key \in keys(ps) |-> files[ps[last(ps, key)]][key]]
  BY DEF Merged
<1>4. keys(more) = keys(paths) \cup own
  <2>1. Range(more) = Range(paths) \cup {path}
    <3>1. \A i \in 1 .. n + 1 : i \in 1 .. n \/ i = n + 1
      BY <1>2
    <3>2. 1 .. n \subseteq 1 .. n + 1 /\ n + 1 \in 1 .. n + 1
      BY <1>2
    <3> QED BY <1>2, <3>1, <3>2 DEF Range
  <2>2. CASE path \in DOMAIN files
    <3>1. Range(more) \cap DOMAIN files = (Range(paths) \cap DOMAIN files) \cup {path}
      BY <2>1, <2>2
    <3> QED BY <1>1, <2>2, <3>1
  <2>3. CASE path \notin DOMAIN files
    <3>1. Range(more) \cap DOMAIN files = Range(paths) \cap DOMAIN files
      BY <2>1, <2>3
    <3> QED BY <1>1, <2>3, <3>1
  <2> QED BY <2>2, <2>3
<1>5. ASSUME NEW key \in own
      PROVE  files[more[last(more, key)]][key] = files[path][key]
  <2>1. n + 1 \in sets(more, key)
    <3>1. path \in DOMAIN files /\ key \in DOMAIN files[path]
      BY <1>1, <1>5
    <3>2. n + 1 \in DOMAIN more
      BY <1>2
    <3> QED BY <1>2, <3>1, <3>2
  <2>2. \A j \in sets(more, key) : j <= n + 1
    BY <1>2
  <2>3. last(more, key) \in sets(more, key) /\ n + 1 <= last(more, key)
    <3>1. PICK T : T = sets(more, key)
      OBVIOUS
    <3>2. \A j \in T : j <= (CHOOSE i \in T : \A k \in T : k <= i)
          /\ (CHOOSE i \in T : \A k \in T : k <= i) \in T
      BY <2>1, <2>2, <3>1
    <3> QED BY <2>1, <3>1, <3>2
  <2>4. last(more, key) = n + 1
    BY <1>2, <2>2, <2>3
  <2> QED BY <1>2, <2>4
<1>6. ASSUME NEW key \in keys(paths), key \notin own
      PROVE  files[more[last(more, key)]][key] = files[paths[last(paths, key)]][key]
  <2>1. sets(more, key) = sets(paths, key)
    <3>1. ~(path \in DOMAIN files /\ key \in DOMAIN files[path])
      BY <1>1, <1>6
    <3>2. \A i \in 1 .. n + 1 : i \in 1 .. n \/ i = n + 1
      BY <1>2
    <3>3. \A i \in 1 .. n : i \in 1 .. n + 1
      BY <1>2
    <3>4. ASSUME NEW i \in 1 .. n + 1
          PROVE  i \in sets(more, key) <=> i \in sets(paths, key)
      BY <1>2, <3>1, <3>2
    <3>5. sets(more, key) \subseteq 1 .. n + 1 /\ sets(paths, key) \subseteq 1 .. n + 1
      BY <1>2, <3>3
    <3> QED BY <3>4, <3>5
  <2>2. last(more, key) = last(paths, key)
    BY <2>1
  <2>3. PICK T : T = sets(paths, key)
    OBVIOUS
  <2>4. T \in SUBSET (1 .. n) /\ T # {}
    BY <1>2, <1>6, <2>3 DEF Range
  <2>5. \E i \in T : \A j \in T : j <= i
    BY <1>2, <2>4, GreatestNumber
  <2>6. last(paths, key) \in 1 .. n
    BY <2>3, <2>4, <2>5
  <2> QED BY <1>2, <2>2, <2>6
<1> HIDE DEF keys, last
<1>7. Merged(files, more) =
        [key \in keys(paths) \cup own |->
           IF key \in own THEN files[path][key]
           ELSE files[paths[last(paths, key)]][key]]
  <2>1. Merged(files, more) =
          [key \in keys(paths) \cup own |-> files[more[last(more, key)]][key]]
    BY <1>3, <1>4
  <2> QED BY <1>5, <1>6, <2>1
<1>8. /\ DOMAIN Merged(files, paths) = keys(paths)
      /\ \A key \in keys(paths) :
           Merged(files, paths)[key] = files[paths[last(paths, key)]][key]
  <2>1. Merged(files, paths) =
          [key \in keys(paths) |-> files[paths[last(paths, key)]][key]]
    BY <1>3
  <2> QED BY <2>1
<1>9. CASE path \in DOMAIN files
  <2>1. own = DOMAIN files[path]
    BY <1>1, <1>9
  <2>2. Merged(files, more) = Overriding(files[path], Merged(files, paths))
    BY <1>7, <1>8, <2>1 DEF Overriding
  <2> QED BY <1>1, <1>9, <2>2
<1>10. CASE path \notin DOMAIN files
  <2>1. own = {}
    BY <1>1, <1>10
  <2>2. Merged(files, more) = [key \in keys(paths) |-> files[paths[last(paths, key)]][key]]
    BY <1>7, <2>1
  <2>3. Merged(files, paths) = [key \in keys(paths) |-> files[paths[last(paths, key)]][key]]
    BY <1>3
  <2> QED BY <1>1, <1>10, <2>2, <2>3
<1> QED BY <1>9, <1>10

\* A policy_path names the file that is read only if it has one extension, and
\* that is cedar.
THEOREM CedarPathIsNamed ==
  ASSUME NEW name \in Seq(STRING), name # << >>
  PROVE  CedarPath(name) = name <=> Len(name) = 2 /\ name[2] = "cedar"
<1>1. PICK n, S : n = Len(name) /\ S = STRING \cup {"cedar"}
  OBVIOUS
<1>2. n \in Nat \ {0} /\ name \in Seq(S) /\ "cedar" \in S
  <2>1. STRING \subseteq S /\ "cedar" \in S
    BY <1>1
  <2>2. Seq(STRING) \subseteq Seq(S)
    BY <2>1, SeqMonotonic, Zenon
  <2>3. name \in Seq(S)
    BY <2>2, Zenon
  <2> QED BY <1>1, <2>1, <2>3, EmptySeq
<1>3. CASE n = 1
  <2>1. Stem(name) = name
    BY <1>1, <1>3 DEF Stem
  <2>2. CedarPath(name) = Append(name, "cedar")
    BY <2>1 DEF CedarPath, WithExtension
  <2>3. Len(Append(name, "cedar")) = n + 1
    BY <1>1, <1>2, AppendProperties
  <2>4. PICK path : path = CedarPath(name)
    OBVIOUS
  <2>5. Len(path) = 2 /\ Len(name) = 1
    BY <1>1, <1>3, <2>2, <2>3, <2>4
  <2>6. path # name /\ Len(name) # 2
    <3>1. Len(path) # Len(name)
      BY <2>5
    <3> QED BY <2>5, <3>1
  <2> QED BY <2>4, <2>6, Zenon
<1>4. CASE n > 1
  <2>1. PICK stem : stem = SubSeq(name, 1, n - 1)
    OBVIOUS
  <2>2. /\ stem \in Seq(S) /\ Len(stem) = n - 1
        /\ \A i \in 1 .. n - 1 : stem[i] = name[i]
    <3>1. \A i \in 1 .. n - 1 : i \in 1 .. n /\ name[i] \in S
      BY <1>1, <1>2, ElementOfSeq
    <3> QED BY <1>2, <1>4, <2>1, <3>1, SubSeqProperties
  <2>3. Stem(name) = stem
    BY <1>1, <1>4, <2>1 DEF Stem
  <2>4. CASE n = 2
    <3>1. Stem(stem) = stem
      BY <2>2, <2>4 DEF Stem
    <3>2. CedarPath(name) = Append(stem, "cedar")
      BY <2>3, <3>1 DEF CedarPath, WithExtension
    <3>3. /\ CedarPath(name) \in Seq(S) /\ Len(CedarPath(name)) = 2
          /\ CedarPath(name)[1] = name[1] /\ CedarPath(name)[2] = "cedar"
      BY <1>2, <2>2, <2>4, <3>2, AppendProperties
    <3>4. name[2] = "cedar" => CedarPath(name) = name
      <4>1. \A i \in 1 .. 2 : i = 1 \/ i = 2
        OBVIOUS
      <4> QED BY <1>1, <1>2, <2>4, <3>3, <4>1, SeqEqual
    <3> QED BY <1>1, <2>4, <3>3, <3>4
  <2>5. CASE n > 2
    <3>1. PICK short : short = SubSeq(stem, 1, n - 2)
      OBVIOUS
    <3>2. short \in Seq(S) /\ Len(short) = n - 2
      <4>1. \A i \in 1 .. n - 2 : i \in 1 .. n - 1 /\ stem[i] \in S
        BY <1>2, <2>2, ElementOfSeq
      <4> QED BY <1>2, <2>5, <3>1, <4>1, SubSeqProperties
    <3>3. Len(stem) # 1 /\ (n - 1) - 1 = n - 2
      BY <1>2, <2>2, <2>5
    <3>4. Stem(stem) = short
      BY <2>2, <3>1, <3>3 DEF Stem
    <3>5. CedarPath(name) = Append(short, "cedar")
      BY <2>3, <3>4 DEF CedarPath, WithExtension
    <3>6. Len(CedarPath(name)) = n - 1
      BY <1>2, <3>2, <3>5, AppendProperties
    <3> QED BY <1>1, <1>2, <2>5, <3>6
  <2> QED BY <1>2, <1>4, <2>4, <2>5
<1> QED BY <1>2, <1>3, <1>4

\* One file on the command line overrides settings.toml, as the README says of
\* any number of them.
THEOREM OneFileIsMerged ==
  StartupSpec => [](Len(deployment.arguments) = 1 => EveryFileIsMerged)
<1>1. ASSUME RunsAsDeployed, Len(deployment.arguments) = 1
      PROVE  EveryFileIsMerged
  <2> SUFFICES ASSUME phase = "serving", deployment.arguments # << >>
               PROVE  EveryFileIsMerged
    BY DEF EveryFileIsMerged
  <2>1. PICK files, path :
          files = deployment.files /\ path = deployment.arguments[1]
    OBVIOUS
  <2>2. Sources(deployment.arguments) = Append(<<"settings.toml">>, path)
    BY <2>1 DEF Sources
  <2>3. settings = Merged(files, Append(<<"settings.toml">>, path))
    BY <1>1, <2>1, <2>2 DEF RunsAsDeployed
  <2>4. PICK Paths : Paths = {"settings.toml", path}
    OBVIOUS
  <2>5. <<"settings.toml">> \in Seq(Paths) /\ path \in Paths
    BY <2>4
  <2>6. PICK paths : paths = <<"settings.toml">>
    OBVIOUS
  <2>7. paths \in Seq(Paths)
    BY <2>5, <2>6
  <2>8. path \in DOMAIN files => settings = Overriding(files[path], Merged(files, paths))
    BY <2>3, <2>5, <2>6, <2>7, LaterSourceWins
  <2> QED BY <1>1, <2>1, <2>8 DEF EveryFileIsMerged, Overriding
<1>2. StartupInv /\ Len(deployment.arguments) = 1 => EveryFileIsMerged
  BY <1>1 DEF StartupInv
<1> QED BY <1>2, StartupInvariant, PTL

\* A policy_path whose only extension is cedar is the file that is in force, as
\* the README says of any policy_path.
THEOREM CedarPolicyIsNamed ==
  StartupSpec =>
    []((phase = "serving" => Len(settings.policy_path) = 2
                             /\ settings.policy_path[2] = "cedar") => PolicyFileIsNamed)
<1>1. ASSUME RunsAsDeployed, phase = "serving",
             Len(settings.policy_path) = 2, settings.policy_path[2] = "cedar"
      PROVE  PolicyFileIsNamed
  <2>1. /\ settings.policy_path \in Seq(STRING)
        /\ policy = deployment.policies[CedarPath(settings.policy_path)]
    BY <1>1, MergedTypes DEF RunsAsDeployed
  <2>2. settings.policy_path # << >>
    BY <1>1, <2>1
  <2>3. CedarPath(settings.policy_path) = settings.policy_path
    BY <1>1, <2>1, <2>2, CedarPathIsNamed
  <2> QED BY <2>1, <2>3 DEF PolicyFileIsNamed
<1>2. StartupInv /\ (phase = "serving" => Len(settings.policy_path) = 2
                                        /\ settings.policy_path[2] = "cedar")
        => PolicyFileIsNamed
  BY <1>1 DEF StartupInv, PolicyFileIsNamed
<1> QED BY <1>2, StartupInvariant, PTL
=============================================================================
