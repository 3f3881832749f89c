--------------------------- MODULE ServiceProofs ---------------------------
(* Proofs about the whole process: it keeps the invariants and the promise  *)
(* of its parts through every restart.                                      *)
EXTENDS Service, PromiseProofs, StepsProofs, StartupProofs

\* A process that does not serve has no exchange and knows no visibility, so
\* that a start may load providers and build clients under nobody's feet.
IdleUnlessServing ==
  phase # "serving" =>
    /\ \A h \in Handlers : exchange[h] = Nothing
    /\ \A repo \in Repositories : cache[repo] = Nothing

\* The inductive invariant: that of both parts, what joins them, and the
\* property of the whole.
ServiceInv == ExchangeInv /\ StartupInv /\ IdleUnlessServing /\ AdmittedIsGenuine

\* Nobody is working.
Idle(h) == exchange[h] = Nothing /\ call[h] = Nothing /\ fetch[h] = Nothing
           /\ login[h] = Nothing

LEMMA IdleHandlers ==
  ASSUME ServiceInv, phase # "serving", NEW h \in Handlers
  PROVE  Idle(h)
  BY DEF ServiceInv, IdleUnlessServing, ExchangeInv, Fits, AwaitsFit, Idle

----------------------------------------------------------------------------
(* The steps that are not the exchange's.                                   *)

LEMMA AbandonInv ==
  ASSUME ExchangeInv, Abandon
  PROVE  ExchangeInv' /\ \A h \in Handlers : Idle(h)'
<1>1. /\ exchange' = [h \in Handlers |-> Nothing]
      /\ call' = [h \in Handlers |-> Nothing]
      /\ fetch' = [h \in Handlers |-> Nothing]
      /\ login' = [h \in Handlers |-> Nothing]
      /\ cache' = [repo \in Repositories |-> Nothing]
      /\ UNCHANGED <<envVars, active, clients>>
  BY DEF Abandon
<1>2. \A h \in Handlers : Idle(h)'
  BY <1>1 DEF Idle
<1>3. CacheInv'
  BY <1>1 DEF ExchangeInv, CacheInv, CacheTypeOK, TimesInOrder, WrongEntryMeansChange,
              WrongAnswerMeansChange, envVars
<1>4. GitHubInv'
  BY <1>1 DEF ExchangeInv, GitHubInv, GitHubTypeOK, CallsAreConsistent,
              ScopeIsRequested, SteadyIsFound
<1>5. PICK states \in [Codes -> {"pending", "confirmed", "redeemed", "expired", Nothing}] :
        /\ \A code \in Codes :
             states[code] \in
               IF grants[code] = Nothing THEN {Nothing}
               ELSE IF \E h \in Handlers : login[h] # Nothing /\ login[h].code = code
               THEN Orphaned(grants[code].state) ELSE {grants[code].state}
        /\ grants' = [code \in Codes |->
             IF grants[code] = Nothing THEN Nothing
             ELSE [grants[code] EXCEPT !.state = states[code]]]
  BY DEF Abandon
<1>6. ASSUME NEW code \in Codes, grants[code] # Nothing
      PROVE  /\ grants'[code] \in Grant
             /\ grants'[code].ttl = grants[code].ttl
  <2>1. grants[code] \in Grant
    BY <1>6 DEF ExchangeInv, OxideInv, OxideTypeOK
  <2>2. states[code] \in {"pending", "confirmed", "redeemed", "expired"}
    <3>1. grants[code].state \in {"pending", "confirmed", "redeemed", "expired"}
      BY <2>1 DEF Grant
    <3>2. states[code] \in Orphaned(grants[code].state) \cup {grants[code].state}
      BY <1>5, <1>6
    <3> QED BY <3>1, <3>2 DEF Orphaned
  <2>3. grants'[code] = [grants[code] EXCEPT !.state = states[code]]
    BY <1>5, <1>6
  <2> QED BY <2>1, <2>2, <2>3 DEF Grant
<1>7. \A code \in Codes : grants[code] = Nothing => grants'[code] = Nothing
  BY <1>5
<1>8. grants' \in [Codes -> Grant \cup {Nothing}]
  <2>1. \A code \in Codes : grants'[code] \in Grant \cup {Nothing}
    BY <1>6, <1>7
  <2> QED BY <1>5, <2>1
<1>9. OxideInv'
  <2>1. OxideTypeOK' /\ ClientsOfManifest(clients)'
    BY <1>1, <1>8 DEF ExchangeInv, OxideInv, OxideTypeOK, ClientsOfManifest
  <2>2. LoginsAreConsistent' /\ CodesAreUnshared'
    BY <1>1 DEF LoginsAreConsistent, CodesAreUnshared
  <2>3. LifetimeBounded'
    BY <1>6, <1>7 DEF ExchangeInv, OxideInv, LifetimeBounded
  <2> QED BY <2>1, <2>2, <2>3 DEF OxideInv
<1>10. ExchangeTypeOK'
  BY <1>1, <1>3, <1>4, <1>9 DEF ExchangeTypeOK, CacheInv, GitHubInv, OxideInv
<1>11. /\ \A h \in Handlers : Fits(exchange'[h], call'[h], fetch'[h], login'[h])
       /\ DecisionsFit' /\ WrongDecisionMeansChange'
  BY <1>1 DEF Fits, AwaitsFit, DecisionsFit, WrongDecisionMeansChange
<1> QED BY <1>2, <1>3, <1>4, <1>9, <1>10, <1>11 DEF ExchangeInv

\* Clients are built while nobody uses them.
LEMMA BuildsClientsInv ==
  ASSUME ExchangeInv, \A h \in Handlers : Idle(h), BuildsClients
  PROVE  ExchangeInv'
<1>1. /\ clients' = clients \/ /\ clients' \in [DOMAIN clients -> Credentials]
                               /\ ClientsOfManifest(clients')
      /\ UNCHANGED <<cacheVars, gitHubVars, login, grants, exchange>>
  BY DEF BuildsClients
<1>2. UNCHANGED <<now, skew, actual, changedAt, cache, fetch, call, active, login, exchange>>
  BY <1>1 DEF cacheVars, gitHubVars
<1>3. CacheInv' /\ GitHubInv'
  BY <1>2 DEF ExchangeInv, CacheInv, CacheTypeOK, TimesInOrder, WrongEntryMeansChange,
              WrongAnswerMeansChange, GitHubInv, GitHubTypeOK, CallsAreConsistent,
              ScopeIsRequested, SteadyIsFound, InstallationsOn
<1>4. OxideTypeOK' /\ ClientsOfManifest(clients)'
  BY <1>1 DEF ExchangeInv, OxideInv, OxideTypeOK, ClientsOfManifest
<1>5. LoginsAreConsistent' /\ CodesAreUnshared'
  BY <1>1 DEF Idle, LoginsAreConsistent, CodesAreUnshared
<1>6. OxideInv'
  BY <1>1, <1>4, <1>5 DEF ExchangeInv, OxideInv, LifetimeBounded
<1>7. \A h \in Handlers : Fits(exchange[h], call'[h], fetch'[h], login'[h])
  BY <1>2 DEF ExchangeInv
<1> QED BY <1>2, <1>3, <1>6, <1>7, OutsideStep DEF Sound

----------------------------------------------------------------------------
(* Who is let in.                                                           *)

LEMMA GenuineStays ==
  ASSUME UNCHANGED <<settings, seen>>, NEW jwt, Genuine(jwt)
  PROVE  Genuine(jwt)'
  BY DEF Genuine, Described, KeysOf, Url

\* A handler's exchange is let in, or has made a token, as its caller sees it.
LEMMA JobTells ==
  ASSUME NEW e \in Task
  PROVE  /\ e.stage # "answered" \/ e.tokens > 0
              <=> JobOf(e).verdict = Nothing \/ JobOf(e).tokens > 0
         /\ JobOf(e).caller = e.jwt
  BY JobFacts

\* What a step of the promise does not change.
LEMMA CallerStays ==
  ASSUME ExchangeInv, NEW h \in Handlers, NEW g \in Handlers,
         UNCHANGED jobs \/ Promise!Mint(h) \/ Promise!Conclude(h) \/ Promise!Forget(h),
         jobs'[g] # Nothing, jobs'[g].verdict = Nothing \/ jobs'[g].tokens > 0
  PROVE  /\ jobs[g] # Nothing /\ jobs[g].caller = jobs'[g].caller
         /\ jobs[g].verdict = Nothing \/ jobs[g].tokens > 0
<1>1. jobs[g] = Nothing \/ jobs[g] \in Promise!Job
  BY HandlerFacts, JobFacts DEF jobs, JobOf
<1>2. CASE UNCHANGED jobs
  BY <1>2
<1>3. PICK before, after, mine :
        before = jobs[g] /\ after = jobs'[g] /\ mine = jobs[h]
  OBVIOUS
<1>4. ASSUME NEW job, jobs' = [jobs EXCEPT ![h] = job]
      PROVE  after = IF g = h THEN job ELSE before
  BY <1>3, <1>4 DEF jobs
<1>5. CASE Promise!Mint(h)
  <2>1. /\ mine # Nothing /\ mine.verdict = Nothing
        /\ jobs' = [jobs EXCEPT ![h] = [mine EXCEPT !.tokens = 1]]
    BY <1>3, <1>5 DEF Promise!Mint, jobs
  <2>2. after = IF g = h THEN [mine EXCEPT !.tokens = 1] ELSE before
    BY <2>1, <1>4
  <2>3. CASE g = h
    <3>1. before \in Promise!Job /\ after = [before EXCEPT !.tokens = 1]
      BY <1>1, <1>3, <2>1, <2>2, <2>3
    <3>2. after.caller = before.caller
      BY <3>1 DEF Promise!Job
    <3> QED BY <1>3, <2>1, <2>3, <3>2
  <2> QED BY <1>3, <2>2, <2>3
<1>6. CASE Promise!Conclude(h)
  <2>1. PICK verdict \in Promise!Verdicts :
          /\ mine # Nothing /\ mine.verdict = Nothing
          /\ jobs' = [jobs EXCEPT ![h] = [mine EXCEPT !.verdict = verdict]]
    BY <1>3, <1>6 DEF Promise!Conclude, jobs
  <2>2. after = IF g = h THEN [mine EXCEPT !.verdict = verdict] ELSE before
    BY <2>1, <1>4
  <2>3. CASE g = h
    <3>1. before \in Promise!Job /\ after = [before EXCEPT !.verdict = verdict]
      BY <1>1, <1>3, <2>1, <2>2, <2>3
    <3>2. after.caller = before.caller
      BY <3>1 DEF Promise!Job
    <3> QED BY <1>3, <2>1, <2>3, <3>2
  <2> QED BY <1>3, <2>2, <2>3
<1>7. CASE Promise!Forget(h)
  <2>1. jobs' = [jobs EXCEPT ![h] = Nothing]
    BY <1>7 DEF Promise!Forget, jobs
  <2> QED BY <1>3, <1>4, <2>1
<1> QED BY <1>2, <1>5, <1>6, <1>7

LEMMA AcceptedAtAnyHour ==
  ASSUME ExchangeInv, NEW jwt \in Jwts, Accepted(jwt, UtcNow)
  PROVE  Accepted(jwt, jwt.exp)
<1>1. jwt.exp \in Int
  BY OidcAssumption DEF Accepted, Validates
<1>2. jwt.exp >= jwt.exp - Leeway
  BY <1>1, OidcAssumption
<1> QED BY <1>2 DEF Accepted, Validates

LEMMA HandlingAdmits ==
  ASSUME ServiceInv, ExchangeInv', phase = "serving", Handling, UNCHANGED startupVars
  PROVE  AdmittedIsGenuine'
<1> SUFFICES ASSUME NEW g \in Handlers, exchange'[g] # Nothing,
                    exchange'[g].stage # "answered" \/ exchange'[g].tokens > 0
             PROVE  Genuine(exchange[g].jwt)'
  BY DEF AdmittedIsGenuine
<1>1. UNCHANGED <<settings, seen>>
  BY DEF startupVars
<1>2. ASSUME exchange[g] # Nothing, exchange'[g].jwt = exchange[g].jwt,
             exchange[g].stage # "answered" \/ exchange[g].tokens > 0
      PROVE  Genuine(exchange[g].jwt)'
  BY <1>1, <1>2, GenuineStays DEF ServiceInv, AdmittedIsGenuine
<1>3. ASSUME NEW h \in Handlers, NEW jwt \in Jwts, NEW request \in TokenRequest,
             \/ Refuse(h, jwt, request) \/ BeginGitHub(h, jwt, request)
             \/ BeginOxide(h, jwt, request)
      PROVE  Genuine(exchange[g].jwt)'
  <2>1. CASE g # h
    <3>1. exchange'[g] = exchange[g]
      BY <1>3, <2>1 DEF ServiceInv, ExchangeInv, ExchangeTypeOK, Refuse, BeginGitHub,
                        BeginOxide, Begin
    <3> QED BY <1>2, <3>1
  <2>2. CASE g = h /\ Refuse(h, jwt, request)
    <3>1. exchange'[g].stage = "answered" /\ exchange'[g].tokens = 0
      BY <2>2 DEF ServiceInv, ExchangeInv, ExchangeTypeOK, Refuse, Begin
    <3> QED BY <3>1
  <2>3. CASE g = h /\ (BeginGitHub(h, jwt, request) \/ BeginOxide(h, jwt, request))
    <3>1. exchange'[g].jwt = jwt
      BY <2>3 DEF ServiceInv, ExchangeInv, ExchangeTypeOK, BeginGitHub, BeginOxide, Begin
    <3>2. Accepted(jwt, UtcNow)
      BY <2>3 DEF BeginGitHub, BeginOxide, Admitted
    <3>3. Genuine(jwt)
      BY <3>2, AcceptedAtAnyHour, AcceptedComesFrom DEF ServiceInv
    <3> QED BY <1>1, <3>1, <3>3, GenuineStays
  <2> QED BY <1>3, <2>1, <2>2, <2>3
<1>4. ASSUME NEW h \in Handlers, Progress(h)
      PROVE  Genuine(exchange[g].jwt)'
  <2>1. exchange'[g] \in Task
    BY DEF ExchangeInv, ExchangeTypeOK
  <2>2. jobs'[g] = JobOf(exchange'[g])
    BY DEF jobs, JobOf
  <2>3. /\ jobs'[g] # Nothing /\ jobs'[g].caller = exchange'[g].jwt
        /\ jobs'[g].verdict = Nothing \/ jobs'[g].tokens > 0
    BY <2>1, <2>2, JobFacts, JobTells
  <2>4. UNCHANGED jobs \/ Promise!Mint(h) \/ Promise!Conclude(h) \/ Promise!Forget(h)
    BY <1>4, ProgressShows DEF ServiceInv
  <2>5. /\ jobs[g] # Nothing /\ jobs[g].caller = jobs'[g].caller
        /\ jobs[g].verdict = Nothing \/ jobs[g].tokens > 0
    BY <2>3, <2>4, CallerStays DEF ServiceInv
  <2>6. exchange[g] # Nothing /\ exchange[g] \in Task /\ jobs[g] = JobOf(exchange[g])
    BY <2>5, HandlerFacts DEF jobs, JobOf, ServiceInv
  <2> QED BY <1>2, <2>3, <2>5, <2>6, JobTells
<1> QED BY <1>3, <1>4 DEF Handling

----------------------------------------------------------------------------
(* The invariant.                                                           *)

\* The two parts of a step, and what it leaves alone.
LEMMA ServiceParts ==
  ASSUME ServiceInv, [ServiceNext]_serviceVars
  PROVE  /\ [StartupNext]_startupVars
         /\ \/ [ExchangeNext]_exchangeVars
            \/ phase # "serving" /\ Starting
            \/ Kill
<1>1. CASE UNCHANGED serviceVars
  BY <1>1 DEF serviceVars, handlingVars, startupVars, exchangeVars
<1>2. CASE Starting
  <2>1. phase # "serving"
    BY <1>2 DEF Starting, Start, StartFails, Loads, DiscoveryAnswered, KeysAnswered,
                ProviderFails, ContextFails
  <2> QED BY <1>2, <2>1 DEF Starting, StartupNext
<1>3. CASE Serving
  BY <1>3 DEF Serving, ExchangeNext
<1>4. CASE Kill
  BY <1>4 DEF Kill, StartupNext
<1>5. CASE OthersAct
  <2>1. CASE ServicesChange /\ UNCHANGED startupVars
    BY <2>1 DEF ExchangeNext
  <2>2. ASSUME NEW url \in DOMAIN Publishable, Publish(url), UNCHANGED handlingVars
        PROVE  [StartupNext]_startupVars /\ UNCHANGED exchangeVars
    BY <2>2 DEF StartupNext, Publish, handlingVars, exchangeVars
  <2> QED BY <1>5, <2>1, <2>2 DEF OthersAct
<1> QED BY <1>1, <1>2, <1>3, <1>4, <1>5 DEF ServiceNext

LEMMA ServiceInitInv == ServiceInit => ServiceInv
<1> SUFFICES ASSUME ServiceInit PROVE ServiceInv
  OBVIOUS
<1>1. ExchangeInv /\ StartupInv
  BY ExchangeInitInv, StartupInitInv DEF ServiceInit
<1>2. IdleUnlessServing /\ AdmittedIsGenuine
  BY DEF ServiceInit, ExchangeInit, CacheInit, IdleUnlessServing, AdmittedIsGenuine
<1> QED BY <1>1, <1>2 DEF ServiceInv

LEMMA ServiceNextInv == ServiceInv /\ [ServiceNext]_serviceVars => ServiceInv'
<1> SUFFICES ASSUME ServiceInv, [ServiceNext]_serviceVars PROVE ServiceInv'
  OBVIOUS
<1>1. ExchangeInv /\ StartupInv /\ IdleUnlessServing /\ AdmittedIsGenuine
  BY DEF ServiceInv
<1>2. StartupInv'
  BY <1>1, ServiceParts, StartupNextInv
<1>3. ExchangeInv'
  BY <1>1, ServiceParts, ExchangeNextInv, IdleHandlers, BuildsClientsInv, AbandonInv
     DEF Starting, Kill
<1>4. ASSUME UNCHANGED <<exchange, cache, phase, settings, seen>>
      PROVE  ServiceInv'
  <2>1. IdleUnlessServing'
    BY <1>1, <1>4 DEF IdleUnlessServing
  <2>2. ASSUME NEW h \in Handlers, exchange'[h] # Nothing,
               exchange'[h].stage # "answered" \/ exchange'[h].tokens > 0
        PROVE  Genuine(exchange[h].jwt)'
    <3>1. PICK jwt : jwt = exchange[h].jwt
      OBVIOUS
    <3>2. Genuine(jwt)
      BY <1>1, <1>4, <2>2, <3>1 DEF AdmittedIsGenuine
    <3>3. Genuine(jwt)'
      BY <1>4, <3>2, GenuineStays
    <3>4. exchange'[h].jwt = jwt
      BY <1>4, <3>1
    <3> QED BY <3>3, <3>4
  <2>3. AdmittedIsGenuine'
    BY <2>2 DEF AdmittedIsGenuine
  <2> QED BY <1>2, <1>3, <2>1, <2>3 DEF ServiceInv
<1>5. ASSUME \A h \in Handlers : exchange'[h] = Nothing,
             \A repo \in Repositories : cache'[repo] = Nothing
      PROVE  ServiceInv'
  <2>1. AdmittedIsGenuine' /\ IdleUnlessServing'
    BY <1>5 DEF AdmittedIsGenuine, IdleUnlessServing
  <2> QED BY <1>2, <1>3, <2>1 DEF ServiceInv
<1>6. CASE Serving
  <2>1. AdmittedIsGenuine'
    BY <1>3, <1>6, HandlingAdmits DEF Serving
  <2>2. IdleUnlessServing'
    BY <1>6 DEF Serving, startupVars, IdleUnlessServing
  <2> QED BY <1>2, <1>3, <2>1, <2>2 DEF ServiceInv
<1>7. CASE Starting
  <2>1. phase # "serving"
    BY <1>7 DEF Starting, Start, StartFails, Loads, DiscoveryAnswered, KeysAnswered,
                ProviderFails, ContextFails
  <2>2. UNCHANGED <<exchange, cache>>
    BY <1>7 DEF Starting, BuildsClients, cacheVars
  <2> QED BY <1>1, <1>5, <2>1, <2>2 DEF IdleUnlessServing
<1>8. CASE Kill
  <2>1. /\ exchange' = [h \in Handlers |-> Nothing]
        /\ cache' = [repo \in Repositories |-> Nothing]
    BY <1>8 DEF Kill, Abandon
  <2> QED BY <1>5, <2>1
<1>9. CASE ServicesChange /\ UNCHANGED startupVars
  <2>1. UNCHANGED <<exchange, cache>>
    BY <1>9 DEF ServicesChange, Environment, Tick, StepClock, ChangeVisibility, Install, Uninstall, cacheVars, gitHubVars
  <2> QED BY <1>4, <1>9, <2>1 DEF startupVars
<1>10. ASSUME NEW url \in DOMAIN Publishable, Publish(url), UNCHANGED handlingVars
       PROVE  ServiceInv'
  <2>1. UNCHANGED <<exchange, cache, phase, settings>>
    BY <1>10 DEF Publish, handlingVars, cacheVars
  <2>2. CASE phase = "serving"
    BY <1>4, <1>10, <2>1, <2>2 DEF Publish
  <2>3. CASE phase # "serving"
    BY <1>1, <1>5, <2>1, <2>3 DEF IdleUnlessServing
  <2> QED BY <2>2, <2>3
<1>11. CASE UNCHANGED serviceVars
  BY <1>4, <1>11 DEF serviceVars, handlingVars, startupVars, cacheVars
<1> QED BY <1>6, <1>7, <1>8, <1>9, <1>10, <1>11 DEF ServiceNext, OthersAct

\* Through every restart, the endpoint's invariant and startup's hold together,
\* whatever the services have made of the requests lost with a process.
THEOREM ServiceInvariant == ServiceSpec => []ServiceInv
BY ServiceInitInv, ServiceNextInv, PTL DEF ServiceSpec

\* Whatever is published and restarted: whoever was let in was vouched for by a
\* provider of the settings while this process was starting.
THEOREM AdmittedGenuine == ServiceSpec => []AdmittedIsGenuine
<1>1. ServiceInv => AdmittedIsGenuine
  BY DEF ServiceInv
<1> QED BY <1>1, ServiceInvariant, PTL

----------------------------------------------------------------------------
(* The promise.                                                             *)

LEMMA ServiceShows ==
  ASSUME ServiceInv, ServiceInv', [ServiceNext]_serviceVars
  PROVE  [Promise!Next]_jobs
<1>1. ExchangeInv /\ ExchangeInv'
  BY DEF ServiceInv
<1>2. CASE [ExchangeNext]_exchangeVars
  BY <1>1, <1>2, StepShows
<1>3. CASE Starting
  BY <1>3 DEF Starting, BuildsClients, jobs, JobOf
<1>4. CASE Kill
  <2>1. exchange' = [h \in Handlers |-> Nothing]
    BY <1>4 DEF Kill, Abandon
  <2>2. jobs' = [h \in Handlers |-> Nothing]
    BY <2>1 DEF jobs, JobOf
  <2> QED BY <2>2 DEF Promise!Next, Promise!Crash, jobs
<1> QED BY <1>2, <1>3, <1>4, ServiceParts

\* Each exchange, of whichever process, keeps the promise of TokenExchange,
\* whatever the services still hold of an earlier process.
THEOREM ServiceKeepsPromise == ServiceSpec => KeepsPromise
<1>1. ServiceInv /\ ServiceInv' /\ [ServiceNext]_serviceVars => [Promise!Next]_jobs
  BY ServiceShows
<1>2. ServiceInit => Promise!Init
  BY InitShows DEF ServiceInit
<1> QED BY <1>1, <1>2, ServiceInvariant, PTL
       DEF ServiceSpec, KeepsPromise, Promise!Spec, jobs

\* No caller gets a second token of its exchange, or one it is not entitled to,
\* even if the process is killed anywhere in between.
THEOREM ServiceIsFair == ServiceSpec => []JobsAreFair
BY ServiceKeepsPromise, PromiseMeans, PTL

----------------------------------------------------------------------------
(* What was shown of the parts holds of the whole.                          *)

\* The process starts as Startup says, whatever its handlers do in between: in
\* particular, every start runs out of requests.
THEOREM ServiceImplementsStartup == ServiceSpec => StartupSpec /\ LoadsRunOut
<1>1. ServiceInv /\ [ServiceNext]_serviceVars => [StartupNext]_startupVars
  BY ServiceParts
<1>2. ServiceInit => StartupInit
  BY DEF ServiceInit
<1> QED BY <1>1, <1>2, ServiceInvariant, StartRunsOut, PTL
       DEF ServiceSpec, StartupSpec

\* What startup has loaded stays what is trusted while requests are handled.
THEOREM ServiceTrust ==
  ServiceSpec => []AcceptedIsGenuine /\ []SteadyProviderIsTrusted
  BY ServiceImplementsStartup, AcceptedGenuine, SteadyTrusted, PTL

\* The endpoint's properties and those of its components hold through every
\* restart, with whatever the services still hold of an earlier process.
THEOREM ServiceSafe ==
  ServiceSpec => /\ []MintsAreAuthorized /\ []WrongDecisionMeansChange
                 /\ []StatusTellsOutcome /\ []HitIsRecent /\ []ScopeIsRequested
                 /\ []NotInstalledIsTrue /\ []LifetimeBounded /\ []TokenIsOwn
                 /\ []TokenReady /\ []NotConfiguredIsTrue
<1>1. ServiceInv => ExchangeInv /\ CacheInv /\ GitHubInv /\ OxideInv
  BY DEF ServiceInv, ExchangeInv
<1>2. ExchangeInv => /\ MintsAreAuthorized /\ WrongDecisionMeansChange
                     /\ StatusTellsOutcome
  BY InvImpliesAuthorized, InvImpliesStatus DEF ExchangeInv
<1>3. GitHubInv => ScopeIsRequested /\ NotInstalledIsTrue
  BY InvImpliesNotInstalled DEF GitHubInv
<1>4. OxideInv => /\ LifetimeBounded /\ TokenIsOwn /\ TokenReady
                  /\ NotConfiguredIsTrue
  BY InvImpliesOwn, InvImpliesReady, InvImpliesNotConfigured DEF OxideInv
<1> QED BY <1>1, <1>2, <1>3, <1>4, InvImpliesRecent, ServiceInvariant, PTL

\* A process that ends gives up its exchanges, so that they have no steps left,
\* and one that starts has none.
LEMMA ServiceVariant ==
  ServiceInv /\ ServiceInv' /\ [ServiceNext]_serviceVars =>
    \A h \in Handlers : exchange[h] # Nothing =>
      /\ StepsLeft(h)' <= StepsLeft(h)
      /\ Progress(h) => StepsLeft(h)' < StepsLeft(h)
<1> SUFFICES ASSUME ServiceInv, ServiceInv', [ServiceNext]_serviceVars,
                    NEW h \in Handlers, exchange[h] # Nothing
             PROVE  /\ StepsLeft(h)' <= StepsLeft(h)
                    /\ Progress(h) => StepsLeft(h)' < StepsLeft(h)
  OBVIOUS
<1>1. ExchangeInv /\ ExchangeInv'
  BY DEF ServiceInv
<1>2. CASE [ExchangeNext]_exchangeVars
  BY <1>1, <1>2, VariantStep
<1>3. CASE phase # "serving"
  BY <1>3, IdleHandlers DEF Idle
<1>4. CASE Kill
  <2>1. exchange'[h] = Nothing
    BY <1>4 DEF Kill, Abandon
  <2>2. StepsLeft(h)' = 0
    BY <2>1 DEF StepsLeft, StepsOf
  <2> QED BY <1>1, <2>2, StepsNatural
<1> QED BY <1>2, <1>3, <1>4, ServiceParts

\* The steps of an exchange run out in the whole process too: no step of
\* startup, of another handler or of a service gives it more, and a restart
\* ends it.
THEOREM ServiceRunsOut == ServiceSpec => StepsRunOut
<1>1. ServiceInv /\ ServiceInv' /\ [ServiceNext]_serviceVars =>
        [\A h \in Handlers : exchange[h] # Nothing =>
           /\ StepsLeft(h)' <= StepsLeft(h)
           /\ Progress(h) => StepsLeft(h)' < StepsLeft(h)]_exchangeVars
  BY ServiceVariant
<1> QED BY <1>1, ServiceInvariant, PTL DEF ServiceSpec, StepsRunOut
=============================================================================
