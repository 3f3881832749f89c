--------------------------- MODULE ExchangeProofs ---------------------------
(* For every set of handlers, JWTs, requests and policies: what is minted   *)
(* was decided, wrong decisions mean a change at GitHub, and the status of  *)
(* an answer tells whether its token exists.  An exchange is also a step of *)
(* each component, so that the components' theorems hold of the exchange.   *)
EXTENDS Exchange, VisibilityCacheProofs, GitHubTokensProofs, OxideTokensProofs

\* An exchange for GitHub has a GitHub request, about known repositories.
LEMMA GitHubBody ==
  ASSUME NEW e \in Task, e.request.service = "github"
  PROVE  /\ e.request.body \in GitHubRequests
         /\ e.request.body \in TokenRequests
         /\ e.request.body.repositories \in Seq(Seq(Parts))
         /\ \A i \in DOMAIN e.request.body.repositories :
              e.request.body.repositories[i] \in Repositories
<1>1. e.request.body \in GitHubRequests
  BY DEF Task, TokenRequest
<1>2. Range(e.request.body.repositories) \subseteq Repositories
  BY <1>1, ExchangeAssumption
<1> QED BY <1>1, <1>2, ExchangeAssumption, GitHubAssumption DEF Range

LEMMA OxideBody ==
  ASSUME NEW e \in Task, e.request.service = "oxide"
  PROVE  e.request.body \in SiloRequests
  BY DEF Task, TokenRequest

\* The repository that the loop is at is a known one, and so is the request
\* for its visibility.
LEMMA CurrentKnown ==
  ASSUME NEW e \in Task, LoopFits(e),
         e.stage \in {"lookup", "fetch", "repo", "mint"}
  PROVE  /\ Current(e) \in Repositories
         /\ MetadataRequest(Current(e)) \in TokenRequests
         /\ e.request.service = "github"
  BY GitHubBody, ExchangeAssumption DEF LoopFits, Current

----------------------------------------------------------------------------
(* What the components' actions do to what the handlers await.              *)

LEMMA GetStep ==
  ASSUME GitHubInv, NEW h \in Handlers, NEW request \in TokenRequests,
         Get(h, request)
  PROVE  /\ call'[h] # Nothing /\ call'[h].request = request
         /\ call'[h].stage = "orgs" /\ call'[h].result = Nothing
         /\ \A g \in Handlers \ {h} : call'[g] = call[g]
<1> DEFINE c == [request |-> request, stage |-> "orgs", found |-> Nothing,
                 steady |-> InstallationsOn(Namespace(request)) # {},
                 result |-> Nothing, minted |-> Nothing]
<1>1. call' = [call EXCEPT ![h] = c]
  BY DEF Get
<1>2. c \in Call
  BY DEF Call, Stages
<1>3. call'[h] = c /\ \A g \in Handlers \ {h} : call'[g] = call[g]
  BY <1>1 DEF GitHubInv, GitHubTypeOK
<1> QED BY <1>2, <1>3, NothingIsNoCall

LEMMA GetReturnsStep ==
  ASSUME GitHubInv, NEW h \in Handlers, GetReturns(h)
  PROVE  /\ call'[h] = Nothing
         /\ \A g \in Handlers \ {h} : call'[g] = call[g]
  BY DEF GitHubInv, GitHubTypeOK, GetReturns

LEMMA LookupAnsweredStep ==
  ASSUME GitHubInv, NEW h \in Handlers, LookupAnswered(h)
  PROVE  /\ call[h] # Nothing /\ call[h].stage # "done"
         /\ call'[h] # Nothing /\ call'[h].request = call[h].request
         /\ call'[h].result # "token"
         /\ \A g \in Handlers \ {h} : call'[g] = call[g]
<1>1. PICK c : c = call[h]
  OBVIOUS
<1>2. /\ c \in Call /\ c.result = Nothing /\ c.stage \in {"orgs", "users"}
      /\ call \in [Handlers -> Call \cup {Nothing}] /\ active \subseteq Installations
  BY <1>1 DEF LookupAnswered, GitHubInv, GitHubTypeOK, CallsAreConsistent
<1>3. PICK reply \in LookupReplies(c.stage, Namespace(c.request)) :
        LET found == FindInstallation(c.found, reply)
            missing == c.stage = "users" /\ found = Nothing
        IN  call' = [call EXCEPT ![h] = [c EXCEPT
              !.found = found,
              !.stage = IF c.stage = "orgs" THEN "users"
                        ELSE IF missing THEN "done" ELSE "mint",
              !.result = IF missing THEN "AppNotInstalled" ELSE @]]
  BY <1>1 DEF LookupAnswered
<1>4. PICK found, stage, result :
        /\ found = FindInstallation(c.found, reply)
        /\ stage \in {"users", "done", "mint"}
        /\ result \in {"AppNotInstalled", Nothing}
        /\ call' = [call EXCEPT ![h] =
             [c EXCEPT !.found = found, !.stage = stage, !.result = result]]
  BY <1>2, <1>3, Zenon
<1>5. found \in Installations \cup {Nothing}
  BY <1>2, <1>3, <1>4, LookupTruthful DEF FindInstallation, Call
<1>6. PICK new :
        new = [c EXCEPT !.found = found, !.stage = stage, !.result = result]
  OBVIOUS
<1>7. new \in Call /\ new.request = c.request /\ new.result = result
  BY <1>2, <1>4, <1>5, <1>6 DEF Call, Stages, Results
<1>8. /\ call'[h] = new
      /\ \A g \in Handlers \ {h} : call'[g] = call[g]
  BY <1>2, <1>4, <1>6
<1>9. "token" \notin {"AppNotInstalled", Nothing}
  BY NothingIsNoCall DEF Results
<1> QED BY <1>1, <1>2, <1>4, <1>7, <1>8, <1>9, NothingIsNoCall

LEMMA RequestFailedStep ==
  ASSUME GitHubInv, NEW h \in Handlers, RequestFailed(h)
  PROVE  /\ call[h] # Nothing /\ call[h].stage # "done"
         /\ call'[h] # Nothing /\ call'[h].request = call[h].request
         /\ call'[h].result # "token"
         /\ \A g \in Handlers \ {h} : call'[g] = call[g]
<1> USE NothingIsNoCall DEF GitHubInv, GitHubTypeOK, RequestFailed
<1>1. PICK error \in RequestErrors :
        call' = [call EXCEPT ![h] =
                   [call[h] EXCEPT !.stage = "done", !.result = error]]
  OBVIOUS
<1>2. /\ call'[h] \in Call /\ call'[h].request = call[h].request
      /\ call'[h].result = error
      /\ \A g \in Handlers \ {h} : call'[g] = call[g]
  BY <1>1 DEF Call, Stages, Results, RequestErrors
<1> QED BY <1>2 DEF RequestErrors

LEMMA MintedStep ==
  ASSUME GitHubInv, NEW h \in Handlers, Minted(h)
  PROVE  /\ call[h] # Nothing /\ call[h].stage # "done"
         /\ call'[h] # Nothing /\ call'[h].request = call[h].request
         /\ call'[h].stage = "done"
         /\ call'[h].result \in {"token"} \cup RequestErrors
         /\ \A g \in Handlers \ {h} : call'[g] = call[g]
<1> USE NothingIsNoCall DEF GitHubInv, GitHubTypeOK, Minted
<1> DEFINE token == MintedToken(call[h].found, call[h].request)
<1>1. PICK result \in {"token"} \cup RequestErrors :
        call' = [call EXCEPT ![h] =
          [call[h] EXCEPT !.stage = "done", !.result = result, !.minted = token]]
  OBVIOUS
<1>2. /\ call[h] \in Call /\ call[h].found \in Installations
      /\ Parses(call[h].request) /\ call[h].request \in TokenRequests
      /\ InstallationOwner[call[h].found] = Namespace(call[h].request)
  BY GitHubAssumption DEF CallsAreConsistent, Call
<1>3. token \in Tokens
  BY <1>2, MintedScope
<1> HIDE DEF token
<1>4. /\ call'[h] \in Call /\ call'[h].request = call[h].request
      /\ call'[h].stage = "done" /\ call'[h].result = result
      /\ \A g \in Handlers \ {h} : call'[g] = call[g]
  BY <1>1, <1>2, <1>3 DEF Call, Stages, Results, RequestErrors
<1> QED BY <1>4

LEMMA FetchSteps ==
  ASSUME CacheInv, NEW h \in Handlers
  PROVE  /\ \A repo \in Repositories : CacheMiss(h, repo) =>
              /\ fetch'[h] # Nothing /\ fetch'[h].repository = repo
              /\ \A g \in Handlers \ {h} : fetch'[g] = fetch[g]
         /\ GitHubAnswers(h) =>
              /\ fetch'[h] # Nothing
              /\ fetch'[h].repository = fetch[h].repository
              /\ \A g \in Handlers \ {h} : fetch'[g] = fetch[g]
         /\ FetchFails(h) \/ CacheInsert(h) =>
              /\ fetch'[h] = Nothing
              /\ \A g \in Handlers \ {h} : fetch'[g] = fetch[g]
<1> USE NothingIsNoRecord, CacheAssumption DEF CacheInv, CacheTypeOK
<1>1. ASSUME NEW repo \in Repositories, CacheMiss(h, repo)
      PROVE  /\ fetch'[h] # Nothing /\ fetch'[h].repository = repo
             /\ \A g \in Handlers \ {h} : fetch'[g] = fetch[g]
  <2> DEFINE f == [repository |-> repo, started |-> now, answer |-> Nothing]
  <2>1. f \in Fetch /\ fetch' = [fetch EXCEPT ![h] = f]
    BY <1>1 DEF CacheMiss, Fetch
  <2> QED BY <2>1
<1>2. ASSUME GitHubAnswers(h)
      PROVE  /\ fetch'[h] # Nothing
             /\ fetch'[h].repository = fetch[h].repository
             /\ \A g \in Handlers \ {h} : fetch'[g] = fetch[g]
  <2>1. fetch[h] \in Fetch
    BY <1>2 DEF GitHubAnswers
  <2>2. /\ fetch'[h] \in Fetch /\ fetch'[h].repository = fetch[h].repository
        /\ \A g \in Handlers \ {h} : fetch'[g] = fetch[g]
    BY <1>2, <2>1 DEF GitHubAnswers, Fetch
  <2> QED BY <2>2
<1>3. ASSUME FetchFails(h) \/ CacheInsert(h)
      PROVE  /\ fetch'[h] = Nothing
             /\ \A g \in Handlers \ {h} : fetch'[g] = fetch[g]
  BY <1>3 DEF FetchFails, CacheInsert
<1> QED BY <1>1, <1>2, <1>3

LEMMA GetSiloTokenStep ==
  ASSUME OxideInv, NEW h \in Handlers, NEW request \in SiloRequests,
         GetSiloToken(h, request)
  PROVE  /\ login'[h] # Nothing /\ login'[h].request = request
         /\ login'[h].result # "token"
         /\ \A g \in Handlers \ {h} : login'[g] = login[g]
<1> DEFINE l == [request |-> request, code |-> Nothing,
                 result |-> Rejection(request),
                 stage |-> IF Rejection(request) = Nothing THEN "auth" ELSE "done"]
<1>1. login' = [login EXCEPT ![h] = l]
  BY DEF GetSiloToken
<1>2. l \in Login /\ l.result # "token"
  BY RejectionReasons DEF Login, SiloResults
<1>3. login'[h] = l /\ \A g \in Handlers \ {h} : login'[g] = login[g]
  BY <1>1 DEF OxideInv, OxideTypeOK
<1> QED BY <1>2, <1>3, NothingIsNoLogin

\* Every answer of a silo but the last, and every failure.
LEMMA SiloStep ==
  ASSUME OxideInv, NEW h \in Handlers,
         AuthAnswered(h) \/ ConfirmAnswered(h) \/ SiloFails(h)
  PROVE  /\ login[h] # Nothing /\ login[h].stage # "done"
         /\ login'[h] # Nothing /\ login'[h].request = login[h].request
         /\ login'[h].result # "token"
         /\ \A g \in Handlers \ {h} : login'[g] = login[g]
<1> USE NothingIsNoLogin DEF OxideInv, OxideTypeOK
<1>1. /\ login[h] \in Login /\ login[h].stage # "done"
      /\ login[h].result = Nothing
  BY DEF AuthAnswered, ConfirmAnswered, SiloFails, LoginsAreConsistent,
         LoginConsistent
<1>2. /\ login'[h] \in Login /\ login'[h].request = login[h].request
      /\ login'[h].result \in {Nothing, "SiloFailed"}
      /\ \A g \in Handlers \ {h} : login'[g] = login[g]
  <2>1. CASE AuthAnswered(h)
    <3>1. PICK code \in Codes : login' = [login EXCEPT ![h] =
            [login[h] EXCEPT !.stage = "confirm", !.code = code]]
      BY <2>1 DEF AuthAnswered
    <3> QED BY <1>1, <3>1 DEF Login
  <2>2. CASE ConfirmAnswered(h)
    <3>1. login' = [login EXCEPT ![h] = [login[h] EXCEPT !.stage = "token"]]
      BY <2>2 DEF ConfirmAnswered
    <3> QED BY <1>1, <3>1 DEF Login
  <2>3. CASE SiloFails(h)
    <3>1. login' = [login EXCEPT ![h] =
            [login[h] EXCEPT !.stage = "done", !.result = "SiloFailed"]]
      BY <2>3 DEF SiloFails
    <3> QED BY <1>1, <3>1 DEF Login, SiloResults
  <2> QED BY <2>1, <2>2, <2>3
<1> QED BY <1>1, <1>2 DEF SiloResults

LEMMA TokenAnsweredStep ==
  ASSUME OxideInv, NEW h \in Handlers, TokenAnswered(h)
  PROVE  /\ login[h] # Nothing /\ login[h].stage # "done"
         /\ login'[h] # Nothing /\ login'[h].request = login[h].request
         /\ login'[h].stage = "done"
         /\ login'[h].result \in {"token", "SiloFailed"}
         /\ \A g \in Handlers \ {h} : login'[g] = login[g]
<1> USE NothingIsNoLogin DEF OxideInv, OxideTypeOK, TokenAnswered
<1>1. PICK result \in {"token", "SiloFailed"} :
        login' = [login EXCEPT ![h] =
          [login[h] EXCEPT !.stage = "done", !.result = result]]
  OBVIOUS
<1>2. /\ login'[h] \in Login /\ login'[h].request = login[h].request
      /\ login'[h].stage = "done" /\ login'[h].result = result
      /\ \A g \in Handlers \ {h} : login'[g] = login[g]
  BY <1>1 DEF Login, SiloResults
<1> QED BY <1>2

LEMMA SiloTokenReturnsStep ==
  ASSUME OxideInv, NEW h \in Handlers, SiloTokenReturns(h)
  PROVE  /\ login'[h] = Nothing
         /\ \A g \in Handlers \ {h} : login'[g] = login[g]
  BY DEF OxideInv, OxideTypeOK, SiloTokenReturns
----------------------------------------------------------------------------
(* Parts of the proof that several actions share.                           *)

\* What ExchangeInv says of one decision.
Sound(d) ==
  /\ d.started <= now
  /\ d.visibility # actual[d.repository] => changedAt[d.repository] >= d.started

LEMMA HandlerFacts ==
  ASSUME ExchangeInv, NEW h \in Handlers, exchange[h] # Nothing
  PROVE  /\ exchange[h] \in Task
         /\ AwaitsFit(exchange[h], call[h], fetch[h], login[h])
         /\ LoopFits(exchange[h])
         /\ MintedFits(exchange[h], call[h], login[h])
         /\ \A d \in exchange[h].decided : Sound(d)
  BY DEF ExchangeInv, ExchangeTypeOK, Fits, DecisionsFit,
         WrongDecisionMeansChange, Sound

\* An action that changes what one handler has preserves the invariant if what
\* the handler has then fits, and its decisions are sound.
LEMMA HandlerStep ==
  ASSUME ExchangeInv, NEW h \in Handlers, NEW e \in Task \cup {Nothing},
         exchange' = [exchange EXCEPT ![h] = e],
         CacheInv', GitHubInv', OxideInv',
         UNCHANGED <<now, actual, changedAt>>,
         \A g \in Handlers \ {h} :
           call'[g] = call[g] /\ fetch'[g] = fetch[g] /\ login'[g] = login[g],
         Fits(e, call'[h], fetch'[h], login'[h]),
         e # Nothing => \A d \in e.decided : Sound(d)
  PROVE  ExchangeInv'
<1>1. exchange \in [Handlers -> Task \cup {Nothing}]
  BY DEF ExchangeInv, ExchangeTypeOK
<1>2. /\ exchange'[h] = e
      /\ \A g \in Handlers \ {h} : exchange'[g] = exchange[g]
  BY <1>1
<1>3. ExchangeTypeOK'
  BY <1>1 DEF ExchangeTypeOK, CacheInv, GitHubInv, OxideInv
<1>4. \A g \in Handlers : Fits(exchange'[g], call'[g], fetch'[g], login'[g])
  BY <1>2 DEF ExchangeInv
<1>5. DecisionsFit'
  BY <1>2 DEF DecisionsFit, ExchangeInv, Sound
<1>6. WrongDecisionMeansChange'
  BY <1>2 DEF WrongDecisionMeansChange, ExchangeInv, Sound
<1> QED BY <1>3, <1>4, <1>5, <1>6 DEF ExchangeInv

\* An answered exchange awaits nothing.
LEMMA AnswerFits ==
  ASSUME NEW e \in Task, e.stage = "answered", e.tokens \in {0, 1}, StatusTells(e)
  PROVE  Fits(e, Nothing, Nothing, Nothing)
  BY NothingIsNoTask DEF Fits, AwaitsFit, LoopFits, AdmissionFits, MintedFits

\* A refusal before the token is requested tells that there is none.
LEMMA RefusalTells ==
  ASSUME NEW e \in Task, e.outcome = "refused", e.tokens = 0
  PROVE  StatusTells(e)
  BY DEF StatusTells, Status, Exposed

\* An action that answers with a status that tells the outcome.
LEMMA AnswerStep ==
  ASSUME ExchangeInv, NEW h \in Handlers, exchange[h] # Nothing,
         NEW outcome \in Results \cup SiloResults \cup {"refused", Nothing},
         Answer(h, outcome),
         StatusTells([exchange[h] EXCEPT !.stage = "answered", !.outcome = outcome]),
         CacheInv', GitHubInv', OxideInv',
         UNCHANGED <<now, actual, changedAt>>,
         call'[h] = Nothing, fetch'[h] = Nothing, login'[h] = Nothing,
         \A g \in Handlers \ {h} :
           call'[g] = call[g] /\ fetch'[g] = fetch[g] /\ login'[g] = login[g]
  PROVE  ExchangeInv'
<1> DEFINE e == [exchange[h] EXCEPT !.stage = "answered", !.outcome = outcome]
<1>1. /\ e \in Task /\ e.stage = "answered" /\ e.tokens \in {0, 1}
      /\ e.decided = exchange[h].decided
  BY HandlerFacts DEF Task, MintedFits
<1>2. exchange' = [exchange EXCEPT ![h] = e]
  BY DEF Answer
<1>3. \A d \in e.decided : Sound(d)
  BY <1>1, HandlerFacts
<1> HIDE DEF e
<1>4. Fits(e, Nothing, Nothing, Nothing)
  BY <1>1, AnswerFits DEF e
<1> QED BY <1>1, <1>2, <1>3, <1>4, HandlerStep

\* An exchange that is refused before the token is requested.
LEMMA RefuseStep ==
  ASSUME ExchangeInv, NEW h \in Handlers, exchange[h] # Nothing,
         exchange[h].stage \in {"lookup", "fetch", "repo"},
         Answer(h, "refused"),
         CacheInv', GitHubInv', OxideInv',
         UNCHANGED <<now, actual, changedAt>>,
         call'[h] = Nothing, fetch'[h] = Nothing, login'[h] = Nothing,
         \A g \in Handlers \ {h} :
           call'[g] = call[g] /\ fetch'[g] = fetch[g] /\ login'[g] = login[g]
  PROVE  ExchangeInv'
<1> DEFINE e == [exchange[h] EXCEPT !.stage = "answered", !.outcome = "refused"]
<1>1. e \in Task /\ e.outcome = "refused" /\ e.tokens = 0
  BY HandlerFacts DEF Task, MintedFits
<1> HIDE DEF e
<1>2. StatusTells(e)
  BY <1>1, RefusalTells
<1> QED BY <1>2, AnswerStep DEF e
----------------------------------------------------------------------------
(* A step of the exchange is a step of each component, or leaves it alone.   *)

\* What get is asked for while the loop runs is among the token requests.
LEMMA GitHubSteps ==
  ASSUME ExchangeInv, NEW h \in Handlers, exchange[h] # Nothing,
         exchange[h].stage \in {"lookup", "repo"},
         \/ Get(h, exchange[h].request.body)
         \/ Get(h, MetadataRequest(Current(exchange[h])))
  PROVE  GitHubNext
<1>1. /\ exchange[h].request.body \in TokenRequests
      /\ MetadataRequest(Current(exchange[h])) \in TokenRequests
  BY HandlerFacts, CurrentKnown, GitHubBody
<1> QED BY <1>1 DEF GitHubNext

LEMMA DecideComponents ==
  ASSUME ExchangeInv, NEW h \in Handlers, exchange[h] # Nothing,
         exchange[h].stage \in {"lookup", "repo"},
         NEW visibility, NEW started, Decide(h, visibility, started)
  PROVE  [GitHubNext]_gitHubVars
  BY GitHubSteps DEF Decide

LEMMA ProgressComponents ==
  ASSUME ExchangeInv, NEW h \in Handlers, Progress(h)
  PROVE  [CacheNext]_cacheVars /\ [GitHubNext]_gitHubVars /\ [OxideNext]_oxideVars
<1>1. CASE LookupHit(h)
  BY <1>1, DecideComponents DEF LookupHit, At
<1>2. CASE LookupMiss(h)
  <2>1. Current(exchange[h]) \in Repositories
    BY <1>2, HandlerFacts, CurrentKnown DEF LookupMiss, At
  <2>2. CacheNext
    BY <1>2, <2>1 DEF LookupMiss, CacheNext
  <2>3. GitHubNext
    BY <1>2, GitHubSteps DEF LookupMiss, At
  <2> QED BY <1>2, <2>2, <2>3 DEF LookupMiss
<1>3. CASE LookupRefused(h)
  BY <1>3 DEF LookupRefused
<1>4. CASE MetadataTokenReturns(h) \/ MintReturns(h)
  BY <1>4 DEF MetadataTokenReturns, MintReturns, GitHubNext
<1>5. CASE MetadataTokenFails(h)
  BY <1>5 DEF MetadataTokenFails, GitHubNext, CacheNext
<1>6. CASE RepositoryFails(h)
  BY <1>6 DEF RepositoryFails, CacheNext
<1>7. CASE RepositoryReturns(h)
  BY <1>7, DecideComponents DEF RepositoryReturns, CacheNext, At
<1>8. CASE SiloReturns(h)
  BY <1>8 DEF SiloReturns, OxideNext
<1>9. CASE Sent(h)
  BY <1>9 DEF Sent
<1>10. CASE GitHubActs(h)
  BY <1>10 DEF GitHubActs, GitHubNext, CacheNext
<1>11. CASE SiloActs(h)
  BY <1>11 DEF SiloActs, OxideNext
<1> QED BY <1>1, <1>2, <1>3, <1>4, <1>5, <1>6, <1>7, <1>8, <1>9, <1>10, <1>11
       DEF Progress

LEMMA BeginComponents ==
  ASSUME NEW h \in Handlers, NEW jwt \in Jwts, NEW request \in TokenRequest,
         \/ Refuse(h, jwt, request) \/ BeginGitHub(h, jwt, request)
         \/ BeginOxide(h, jwt, request)
  PROVE  [CacheNext]_cacheVars /\ [GitHubNext]_gitHubVars /\ [OxideNext]_oxideVars
<1>1. CASE Refuse(h, jwt, request) \/ BeginGitHub(h, jwt, request)
  BY <1>1 DEF Refuse, BeginGitHub
<1>2. CASE BeginOxide(h, jwt, request)
  <2>1. request.body \in SiloRequests
    BY <1>2 DEF BeginOxide, TokenRequest
  <2> QED BY <1>2, <2>1 DEF BeginOxide, OxideNext
<1> QED BY <1>1, <1>2

LEMMA ComponentSteps ==
  ASSUME ExchangeInv, [ExchangeNext]_exchangeVars
  PROVE  [CacheNext]_cacheVars /\ [GitHubNext]_gitHubVars /\ [OxideNext]_oxideVars
<1>1. CASE UNCHANGED exchangeVars
  BY <1>1 DEF exchangeVars
<1>2. CASE ServicesChange
  BY <1>2 DEF ServicesChange, CacheNext, GitHubNext, OxideNext
<1> QED BY <1>1, <1>2, BeginComponents, ProgressComponents DEF ExchangeNext, Handling

\* So the components keep their invariants.
LEMMA ComponentsKept ==
  ASSUME ExchangeInv, [ExchangeNext]_exchangeVars
  PROVE  CacheInv' /\ GitHubInv' /\ OxideInv'
  BY ComponentSteps, CacheNextInv, GitHubNextInv, OxideNextInv DEF ExchangeInv
----------------------------------------------------------------------------
(* The loop of ensure_allowed.                                              *)

\* What Decide makes of an exchange when a turn of the loop allows everything.
DecisionOn(e, visibility, started) ==
  [repository |-> Current(e), visibility |-> visibility, started |-> started]

Turned(e, stage, next, decision) ==
  [e EXCEPT !.stage = stage, !.next = next, !.decided = @ \cup {decision}]

\* A turn of the loop adds the decision on the current repository.
LEMMA TurnFits ==
  ASSUME NEW e \in Task, LoopFits(e), e.stage \in {"lookup", "repo"},
         NEW visibility \in Visibilities, NEW started \in Nat,
         Permitted(e, Current(e), visibility),
         NEW stage, NEW next,
         \/ /\ stage = "lookup" /\ e.next # Len(e.request.body.repositories)
            /\ next = e.next + 1
         \/ /\ stage = "mint" /\ e.next = Len(e.request.body.repositories)
            /\ next = e.next,
         NEW d, d = DecisionOn(e, visibility, started),
         NEW new, new = Turned(e, stage, next, d)
  PROVE  /\ new \in Task /\ LoopFits(new)
         /\ new.stage = stage /\ new.tokens = e.tokens
         /\ new.request = e.request
         /\ new.decided = e.decided \cup {d}
<1> DEFINE repos == e.request.body.repositories
<1>1. /\ Current(e) \in Repositories /\ e.request.service = "github"
      /\ repos \in Seq(Seq(Parts)) /\ e.request.body.permissions # << >>
      /\ e.next \in DOMAIN repos /\ e.next \in Nat \ {0}
      /\ \A i \in 1 .. e.next - 1 : DecidedOn(e, repos[i])
  BY CurrentKnown, GitHubBody DEF LoopFits, Task
<1>2. d \in Decision /\ d.repository = Current(e) /\ d.visibility = visibility
  BY <1>1 DEF Decision, DecisionOn
<1>3. /\ stage \in {"lookup", "mint"} /\ next \in Nat \ {0}
      /\ next \in DOMAIN repos
      /\ \A i \in 1 .. next - 1 : i \in 1 .. e.next - 1 \/ i = e.next
  <2>1. /\ DOMAIN repos = 1 .. Len(repos) /\ Len(repos) \in Nat
        /\ \/ stage = "lookup" /\ e.next # Len(repos) /\ next = e.next + 1
           \/ stage = "mint" /\ next = e.next
    BY <1>1
  <2>2. PICK n, at : n = Len(repos) /\ at = e.next
    OBVIOUS
  <2>3. at \in Nat \ {0} /\ n \in Nat /\ at \in 1 .. n
    BY <1>1, <2>1, <2>2
  <2>4. /\ next \in 1 .. n
        /\ \A i \in 1 .. next - 1 : i \in 1 .. at - 1 \/ i = at
    BY <2>1, <2>2, <2>3
  <2> QED BY <2>1, <2>2, <2>4
<1>4. /\ new \in Task
      /\ new.stage = stage /\ new.next = next /\ new.tokens = e.tokens
      /\ new.request = e.request /\ new.jwt = e.jwt
      /\ new.decided = e.decided \cup {d}
  <2> HIDE DEF repos
  <2>1. e.decided \cup {d} \subseteq Decision
    BY <1>2 DEF Task
  <2> QED BY <1>3, <2>1 DEF Task, Turned
<1>5. \A repo, v : Permitted(new, repo, v) <=> Permitted(e, repo, v)
  BY <1>4 DEF Permitted, Principal
<1>6. \A repo : DecidedOn(e, repo) => DecidedOn(new, repo)
  BY <1>4, <1>5 DEF DecidedOn
<1>7. DecidedOn(new, repos[e.next])
  BY <1>2, <1>4, <1>5 DEF DecidedOn, Current
<1>8. \A i \in 1 .. next - 1 : DecidedOn(new, repos[i])
  BY <1>1, <1>3, <1>6, <1>7
<1>9. LoopFits(new)
  BY <1>1, <1>3, <1>4, <1>7, <1>8 DEF LoopFits, AdmissionFits, Current
<1> QED BY <1>4, <1>9

\* The loop goes on or ends with a visibility that is GitHub's or stale.
LEMMA DecideInv ==
  ASSUME ExchangeInv, NEW h \in Handlers, exchange[h] # Nothing,
         exchange[h].stage \in {"lookup", "repo"},
         NEW visibility \in Visibilities, NEW started \in Nat,
         Sound(DecisionOn(exchange[h], visibility, started)),
         Decide(h, visibility, started),
         CacheInv', GitHubInv', OxideInv',
         UNCHANGED <<now, actual, changedAt, login>>,
         fetch'[h] = Nothing,
         \A g \in Handlers \ {h} : fetch'[g] = fetch[g]
  PROVE  ExchangeInv'
<1>1. PICK e, d : e = exchange[h] /\ d = DecisionOn(e, visibility, started)
  OBVIOUS
<1> DEFINE repos == e.request.body.repositories
<1>2. /\ e \in Task /\ LoopFits(e) /\ e.tokens = 0
      /\ call[h] = Nothing /\ login[h] = Nothing
      /\ e.stage \in {"lookup", "repo"} /\ Sound(d)
      /\ \A x \in e.decided : Sound(x)
  BY <1>1, HandlerFacts DEF AwaitsFit, MintedFits
<1>3. CASE Answer(h, "refused") /\ UNCHANGED gitHubVars
  BY <1>1, <1>2, <1>3, RefuseStep DEF gitHubVars
<1>4. CASE /\ Permitted(e, Current(e), visibility)
           /\ e.next # Len(repos)
           /\ exchange' = [exchange EXCEPT ![h] = Turned(e, "lookup", e.next + 1, d)]
           /\ UNCHANGED gitHubVars
  <2>1. PICK n : n = Turned(e, "lookup", e.next + 1, d)
    OBVIOUS
  <2>2. /\ n \in Task /\ LoopFits(n) /\ n.stage = "lookup" /\ n.tokens = 0
        /\ n.decided = e.decided \cup {d}
    BY <1>1, <1>2, <1>4, <2>1, TurnFits
  <2>3. Fits(n, Nothing, Nothing, Nothing)
    BY <2>2, NothingIsNoTask DEF Fits, AwaitsFit, MintedFits
  <2> QED BY <1>2, <1>4, <2>1, <2>2, <2>3, HandlerStep DEF gitHubVars
<1>5. CASE /\ Permitted(e, Current(e), visibility)
           /\ e.next = Len(repos)
           /\ exchange' = [exchange EXCEPT ![h] = Turned(e, "mint", e.next, d)]
           /\ Get(h, e.request.body)
  <2>1. PICK n : n = Turned(e, "mint", e.next, d)
    OBVIOUS
  <2>2. /\ n \in Task /\ LoopFits(n) /\ n.stage = "mint" /\ n.tokens = 0
        /\ n.request = e.request /\ n.decided = e.decided \cup {d}
    BY <1>1, <1>2, <1>5, <2>1, TurnFits
  <2>3. e.request.body \in TokenRequests
    BY <1>2, GitHubBody DEF LoopFits
  <2>4. /\ call'[h] # Nothing /\ call'[h].request = n.request.body
        /\ call'[h].result = Nothing
        /\ \A g \in Handlers \ {h} : call'[g] = call[g]
    BY <1>5, <2>2, <2>3, GetStep DEF ExchangeInv
  <2>5. "token" # Nothing
    BY NothingIsNoCall DEF Results
  <2>6. Fits(n, call'[h], Nothing, Nothing)
    BY <2>2, <2>4, <2>5, NothingIsNoTask DEF Fits, AwaitsFit, MintedFits
  <2> QED BY <1>2, <1>5, <2>1, <2>2, <2>4, <2>6, HandlerStep
<1> QED BY <1>1, <1>3, <1>4, <1>5 DEF Decide, Turned, DecisionOn
----------------------------------------------------------------------------
(* One lemma per action.  ComponentsKept gives what they assume of the      *)
(* components.                                                              *)

\* A handler that works on nothing awaits nothing.
LEMMA IdleFacts ==
  ASSUME ExchangeInv, NEW h \in Handlers, exchange[h] = Nothing
  PROVE  call[h] = Nothing /\ fetch[h] = Nothing /\ login[h] = Nothing
  BY DEF ExchangeInv, Fits, AwaitsFit

\* What Begin makes a handler work on.
Beginning(jwt, request, stage, outcome) ==
  [jwt |-> jwt, request |-> request, stage |-> stage, next |-> 1,
   decided |-> {}, tokens |-> 0, outcome |-> outcome]

LEMMA AdmittedFits ==
  ASSUME NEW jwt, NEW request, Admitted(jwt, request)
  PROVE  Audience \in jwt.aud /\ HasPrincipal(jwt.claims)
  BY DEF Admitted, Accepted, Validates

LEMMA BeginStep ==
  ASSUME ExchangeInv, NEW h \in Handlers, NEW jwt \in Jwts,
         NEW request \in TokenRequest, NEW stage \in {"lookup", "silo", "answered"},
         NEW outcome \in {"refused", Nothing},
         Begin(h, jwt, request, stage, outcome),
         Fits(Beginning(jwt, request, stage, outcome), Nothing, Nothing, login'[h]),
         CacheInv', GitHubInv', OxideInv',
         UNCHANGED <<cacheVars, gitHubVars>>,
         \A g \in Handlers \ {h} : login'[g] = login[g]
  PROVE  ExchangeInv'
<1> DEFINE e == Beginning(jwt, request, stage, outcome)
<1>1. e \in Task /\ e.decided = {}
  BY DEF Beginning, Task
<1>2. exchange[h] = Nothing /\ exchange' = [exchange EXCEPT ![h] = e]
  BY DEF Begin, Beginning
<1>3. call'[h] = Nothing /\ fetch'[h] = Nothing
  BY <1>2, IdleFacts DEF cacheVars, gitHubVars
<1> HIDE DEF e
<1>4. Fits(e, call'[h], fetch'[h], login'[h])
  BY <1>3 DEF e
<1> QED BY <1>1, <1>2, <1>4, HandlerStep DEF cacheVars, gitHubVars

LEMMA RefuseInv ==
  ASSUME ExchangeInv, NEW h \in Handlers, NEW jwt \in Jwts,
         NEW request \in TokenRequest, Refuse(h, jwt, request),
         CacheInv', GitHubInv', OxideInv'
  PROVE  ExchangeInv'
<1>1. PICK e : e = Beginning(jwt, request, "answered", "refused")
  OBVIOUS
<1>2. /\ e \in Task /\ e.stage = "answered"
      /\ e.outcome = "refused" /\ e.tokens = 0
  BY <1>1 DEF Beginning, Task
<1>3. Fits(e, Nothing, Nothing, Nothing)
  BY <1>2, RefusalTells, AnswerFits
<1>4. login'[h] = Nothing /\ UNCHANGED login
  BY IdleFacts DEF Refuse, Begin, oxideVars
<1> QED BY <1>1, <1>3, <1>4, BeginStep DEF Refuse

LEMMA BeginGitHubInv ==
  ASSUME ExchangeInv, NEW h \in Handlers, NEW jwt \in Jwts,
         NEW request \in TokenRequest, BeginGitHub(h, jwt, request),
         CacheInv', GitHubInv', OxideInv'
  PROVE  ExchangeInv'
<1>1. PICK e : e = Beginning(jwt, request, "lookup", Nothing)
  OBVIOUS
<1>2. /\ e \in Task /\ e.stage = "lookup" /\ e.tokens = 0 /\ e.next = 1
      /\ e.request = request /\ e.jwt = jwt /\ request.service = "github"
  BY <1>1 DEF Beginning, Task, BeginGitHub
<1>3. /\ request.body.repositories \in Seq(Seq(Parts))
      /\ request.body.repositories # << >>
      /\ request.body.permissions # << >>
  BY <1>2, GitHubBody DEF BeginGitHub, Admitted
<1>4. 1 \in DOMAIN request.body.repositories /\ 1 .. e.next - 1 = {}
  BY <1>2, <1>3
<1>5. LoopFits(e)
  <2>1. AdmissionFits(e)
    BY <1>2, AdmittedFits DEF AdmissionFits, BeginGitHub
  <2> QED BY <1>2, <1>3, <1>4, <2>1 DEF LoopFits
<1>6. Fits(e, Nothing, Nothing, Nothing)
  BY <1>2, <1>5, NothingIsNoTask DEF Fits, AwaitsFit, MintedFits
<1>7. login'[h] = Nothing /\ UNCHANGED login
  BY IdleFacts DEF BeginGitHub, Begin, oxideVars
<1> QED BY <1>1, <1>6, <1>7, BeginStep DEF BeginGitHub

LEMMA BeginOxideInv ==
  ASSUME ExchangeInv, NEW h \in Handlers, NEW jwt \in Jwts,
         NEW request \in TokenRequest, BeginOxide(h, jwt, request),
         CacheInv', GitHubInv', OxideInv'
  PROVE  ExchangeInv'
<1>1. PICK e : e = Beginning(jwt, request, "silo", Nothing)
  OBVIOUS
<1>2. /\ e \in Task /\ e.stage = "silo" /\ e.tokens = 0 /\ e.jwt = jwt
      /\ e.request = request /\ request.service = "oxide"
  BY <1>1 DEF Beginning, Task, BeginOxide
<1>3. Authorized(Principal(e), Deploy, SiloEntity(Canonical[request.body.silo]))
  BY <1>2 DEF BeginOxide, Admitted, Principal
<1>4. /\ login'[h] # Nothing /\ login'[h].request = request.body
      /\ login'[h].result # "token"
      /\ \A g \in Handlers \ {h} : login'[g] = login[g]
  BY <1>2, OxideBody, GetSiloTokenStep DEF BeginOxide, ExchangeInv
<1>5. LoopFits(e)
  <2>1. AdmissionFits(e)
    BY <1>2, AdmittedFits DEF AdmissionFits, BeginOxide
  <2> QED BY <1>2, <1>3, <2>1 DEF LoopFits
<1>6. Fits(e, Nothing, Nothing, login'[h])
  BY <1>2, <1>4, <1>5, NothingIsNoTask DEF Fits, AwaitsFit, MintedFits
<1> QED BY <1>1, <1>4, <1>6, BeginStep DEF BeginOxide

LEMMA LookupHitInv ==
  ASSUME ExchangeInv, NEW h \in Handlers, LookupHit(h),
         CacheInv', GitHubInv', OxideInv'
  PROVE  ExchangeInv'
<1>1. PICK repo, entry : repo = Current(exchange[h]) /\ entry = cache[repo]
  OBVIOUS
<1>2. /\ exchange[h] # Nothing /\ exchange[h].stage = "lookup"
      /\ entry # Nothing
  BY <1>1 DEF LookupHit, At, Hit
<1>3. repo \in Repositories /\ entry \in CachedVisibility /\ fetch[h] = Nothing
  BY <1>1, <1>2, HandlerFacts, CurrentKnown
     DEF ExchangeInv, CacheInv, CacheTypeOK, AwaitsFit
<1>4. /\ entry.started <= now
      /\ entry.visibility # actual[repo] => changedAt[repo] >= entry.started
      /\ entry.visibility \in Visibilities /\ entry.started \in Nat
  BY <1>1, <1>2, <1>3
     DEF ExchangeInv, CacheInv, CacheTypeOK, TimesInOrder, WrongEntryMeansChange,
         CachedVisibility
<1>5. Sound(DecisionOn(exchange[h], entry.visibility, entry.started))
  BY <1>1, <1>4 DEF Sound, DecisionOn
<1>6. Decide(h, entry.visibility, entry.started)
  BY <1>1 DEF LookupHit
<1> QED BY <1>2, <1>3, <1>4, <1>5, <1>6, DecideInv
       DEF LookupHit, cacheVars, oxideVars

LEMMA RepositoryReturnsInv ==
  ASSUME ExchangeInv, NEW h \in Handlers, RepositoryReturns(h),
         CacheInv', GitHubInv', OxideInv'
  PROVE  ExchangeInv'
<1>1. PICK f : f = fetch[h]
  OBVIOUS
<1>2. /\ exchange[h] # Nothing /\ exchange[h].stage = "repo"
      /\ f # Nothing /\ f.answer # Nothing
  BY <1>1 DEF RepositoryReturns, At, CacheInsert
<1>3. f \in Fetch /\ f.repository = Current(exchange[h])
  BY <1>1, <1>2, HandlerFacts DEF ExchangeInv, CacheInv, CacheTypeOK, AwaitsFit
<1>4. /\ f.started <= now /\ f.answer \in Visibilities /\ f.started \in Nat
      /\ f.answer # actual[f.repository] => changedAt[f.repository] >= f.started
  BY <1>1, <1>2, <1>3
     DEF ExchangeInv, CacheInv, TimesInOrder, WrongAnswerMeansChange, Fetch
<1>5. Sound(DecisionOn(exchange[h], f.answer, f.started))
  BY <1>3, <1>4 DEF Sound, DecisionOn
<1>6. Decide(h, f.answer, f.started)
  BY <1>1 DEF RepositoryReturns
<1>7. /\ fetch'[h] = Nothing
      /\ \A g \in Handlers \ {h} : fetch'[g] = fetch[g]
  BY FetchSteps DEF RepositoryReturns, ExchangeInv
<1> QED BY <1>2, <1>4, <1>5, <1>6, <1>7, DecideInv
       DEF RepositoryReturns, CacheInsert, envVars, oxideVars

\* The loop goes on to the next stage of the same turn.
LEMMA MoveStep ==
  ASSUME ExchangeInv, NEW h \in Handlers, exchange[h] # Nothing,
         exchange[h].stage \in {"lookup", "fetch"},
         NEW stage \in {"fetch", "repo"}, MoveTo(h, stage),
         CacheInv', GitHubInv', OxideInv',
         UNCHANGED <<now, actual, changedAt, login>>,
         fetch'[h] # Nothing, fetch'[h].repository = Current(exchange[h]),
         call'[h] # Nothing <=> stage = "fetch",
         stage = "fetch" => call'[h].request = MetadataRequest(Current(exchange[h])),
         \A g \in Handlers \ {h} : call'[g] = call[g] /\ fetch'[g] = fetch[g]
  PROVE  ExchangeInv'
<1>1. PICK e : e = exchange[h]
  OBVIOUS
<1>2. PICK new : new = [e EXCEPT !.stage = stage]
  OBVIOUS
<1>3. /\ e \in Task /\ LoopFits(e) /\ e.tokens = 0 /\ login[h] = Nothing
      /\ \A d \in e.decided : Sound(d)
  BY <1>1, HandlerFacts DEF AwaitsFit, MintedFits
<1>4. /\ new \in Task /\ new.stage = stage /\ new.tokens = 0
      /\ new.request = e.request /\ new.next = e.next
      /\ new.decided = e.decided /\ new.jwt = e.jwt
  BY <1>2, <1>3 DEF Task
<1>5. Current(new) = Current(e)
  BY <1>4 DEF Current
<1>6. \A repo : DecidedOn(e, repo) => DecidedOn(new, repo)
  BY <1>4 DEF DecidedOn, Permitted, Principal
<1>7. LoopFits(new)
  BY <1>1, <1>3, <1>4, <1>6 DEF LoopFits, AdmissionFits
<1>8. Fits(new, call'[h], fetch'[h], login'[h])
  BY <1>1, <1>3, <1>4, <1>5, <1>7, NothingIsNoTask DEF Fits, AwaitsFit, MintedFits
<1>9. exchange' = [exchange EXCEPT ![h] = new]
  BY <1>1, <1>2 DEF MoveTo
<1> QED BY <1>3, <1>4, <1>8, <1>9, HandlerStep

LEMMA LookupMissInv ==
  ASSUME ExchangeInv, NEW h \in Handlers, LookupMiss(h),
         CacheInv', GitHubInv', OxideInv'
  PROVE  ExchangeInv'
<1>1. exchange[h] # Nothing /\ exchange[h].stage = "lookup"
  BY DEF LookupMiss, At
<1>2. /\ Current(exchange[h]) \in Repositories
      /\ MetadataRequest(Current(exchange[h])) \in TokenRequests
  BY <1>1, HandlerFacts, CurrentKnown
<1>3. /\ fetch'[h] # Nothing /\ fetch'[h].repository = Current(exchange[h])
      /\ \A g \in Handlers \ {h} : fetch'[g] = fetch[g]
  BY <1>2, FetchSteps DEF LookupMiss, ExchangeInv
<1>4. /\ call'[h] # Nothing
      /\ call'[h].request = MetadataRequest(Current(exchange[h]))
      /\ \A g \in Handlers \ {h} : call'[g] = call[g]
  BY <1>2, GetStep DEF LookupMiss, ExchangeInv
<1>5. UNCHANGED <<now, actual, changedAt, login>>
  BY DEF LookupMiss, CacheMiss, envVars, oxideVars
<1> QED BY <1>1, <1>3, <1>4, <1>5, MoveStep DEF LookupMiss

LEMMA MetadataTokenReturnsInv ==
  ASSUME ExchangeInv, NEW h \in Handlers, MetadataTokenReturns(h),
         CacheInv', GitHubInv', OxideInv'
  PROVE  ExchangeInv'
<1>1. exchange[h] # Nothing /\ exchange[h].stage = "fetch"
  BY DEF MetadataTokenReturns, At
<1>2. UNCHANGED <<now, actual, changedAt, fetch, login>>
  BY DEF MetadataTokenReturns, cacheVars, oxideVars
<1>3. fetch'[h] # Nothing /\ fetch'[h].repository = Current(exchange[h])
  BY <1>1, <1>2, HandlerFacts DEF AwaitsFit
<1>4. /\ call'[h] = Nothing
      /\ \A g \in Handlers \ {h} : call'[g] = call[g]
  BY GetReturnsStep DEF MetadataTokenReturns, ExchangeInv
<1> QED BY <1>1, <1>2, <1>3, <1>4, MoveStep DEF MetadataTokenReturns

LEMMA LookupRefusedInv ==
  ASSUME ExchangeInv, NEW h \in Handlers, LookupRefused(h),
         CacheInv', GitHubInv', OxideInv'
  PROVE  ExchangeInv'
<1>1. exchange[h] # Nothing /\ exchange[h].stage = "lookup"
  BY DEF LookupRefused, At
<1>2. call[h] = Nothing /\ fetch[h] = Nothing /\ login[h] = Nothing
  BY <1>1, HandlerFacts DEF AwaitsFit
<1> QED BY <1>1, <1>2, RefuseStep
       DEF LookupRefused, cacheVars, gitHubVars, oxideVars

LEMMA FetchEndsInv ==
  ASSUME ExchangeInv, NEW h \in Handlers, MetadataTokenFails(h) \/ RepositoryFails(h),
         CacheInv', GitHubInv', OxideInv'
  PROVE  ExchangeInv'
<1>1. /\ exchange[h] # Nothing /\ exchange[h].stage \in {"fetch", "repo"}
      /\ FetchFails(h) /\ Answer(h, "refused") /\ UNCHANGED login
  BY DEF MetadataTokenFails, RepositoryFails, At, oxideVars
<1>2. /\ call'[h] = Nothing
      /\ \A g \in Handlers \ {h} : call'[g] = call[g]
  <2>1. CASE MetadataTokenFails(h)
    BY <2>1, GetReturnsStep DEF MetadataTokenFails, ExchangeInv
  <2>2. CASE RepositoryFails(h)
    <3>1. exchange[h].stage = "repo" /\ UNCHANGED call
      BY <2>2 DEF RepositoryFails, At, gitHubVars
    <3> QED BY <1>1, <3>1, HandlerFacts DEF AwaitsFit
  <2> QED BY <2>1, <2>2
<1>3. /\ fetch'[h] = Nothing
      /\ \A g \in Handlers \ {h} : fetch'[g] = fetch[g]
  BY <1>1, FetchSteps DEF ExchangeInv
<1>4. login[h] = Nothing
  BY <1>1, HandlerFacts DEF AwaitsFit
<1> QED BY <1>1, <1>2, <1>3, <1>4, RefuseStep DEF FetchFails, envVars

\* What the result of get makes of an exchange tells whether it has its token.
LEMMA ResultTells ==
  ASSUME NEW e \in Task, NEW result \in Results \cup SiloResults \cup {Nothing},
         e.tokens \in {0, 1}, result = "token" => e.tokens = 1,
         e.tokens = 1 => result \in {"token", "Http", "GitHubError", "SiloFailed"}
  PROVE  StatusTells([e EXCEPT !.stage = "answered", !.outcome = result])
<1>1. PICK new : new = [e EXCEPT !.stage = "answered", !.outcome = result]
  OBVIOUS
<1>2. new.outcome = result /\ new.tokens = e.tokens
  BY <1>1 DEF Task
<1>3. StatusTells(new)
  BY <1>2 DEF StatusTells, Status, Exposed
<1> QED BY <1>1, <1>3

LEMMA MintReturnsInv ==
  ASSUME ExchangeInv, NEW h \in Handlers, MintReturns(h),
         CacheInv', GitHubInv', OxideInv'
  PROVE  ExchangeInv'
<1>1. /\ exchange[h] # Nothing /\ exchange[h].stage = "mint"
      /\ Answer(h, call[h].result)
  BY DEF MintReturns, At
<1>2. /\ call[h] # Nothing /\ fetch[h] = Nothing /\ login[h] = Nothing
      /\ MintedFits(exchange[h], call[h], login[h])
  BY <1>1, HandlerFacts DEF AwaitsFit
<1>3. call[h].result \in Results \cup {Nothing}
  BY <1>2 DEF ExchangeInv, GitHubInv, GitHubTypeOK, Call
<1>4. StatusTells([exchange[h] EXCEPT !.stage = "answered",
                                      !.outcome = call[h].result])
  BY <1>1, <1>2, <1>3, HandlerFacts, ResultTells DEF MintedFits, RequestErrors
<1>5. /\ call'[h] = Nothing
      /\ \A g \in Handlers \ {h} : call'[g] = call[g]
  BY GetReturnsStep DEF MintReturns, ExchangeInv
<1>6. UNCHANGED <<now, actual, changedAt, fetch, login>>
  BY DEF MintReturns, cacheVars, oxideVars
<1> QED BY <1>1, <1>2, <1>3, <1>4, <1>5, <1>6, AnswerStep

LEMMA SiloReturnsInv ==
  ASSUME ExchangeInv, NEW h \in Handlers, SiloReturns(h),
         CacheInv', GitHubInv', OxideInv'
  PROVE  ExchangeInv'
<1>1. /\ exchange[h] # Nothing /\ exchange[h].stage = "silo"
      /\ Answer(h, login[h].result)
  BY DEF SiloReturns, At
<1>2. /\ login[h] # Nothing /\ call[h] = Nothing /\ fetch[h] = Nothing
      /\ MintedFits(exchange[h], call[h], login[h])
  BY <1>1, HandlerFacts DEF AwaitsFit
<1>3. login[h].result \in SiloResults \cup {Nothing}
  BY <1>2 DEF ExchangeInv, OxideInv, OxideTypeOK, Login
<1>4. StatusTells([exchange[h] EXCEPT !.stage = "answered",
                                      !.outcome = login[h].result])
  BY <1>1, <1>2, <1>3, HandlerFacts, ResultTells DEF MintedFits
<1>5. /\ login'[h] = Nothing
      /\ \A g \in Handlers \ {h} : login'[g] = login[g]
  BY SiloTokenReturnsStep DEF SiloReturns, ExchangeInv
<1>6. UNCHANGED <<now, actual, changedAt, fetch, call>>
  BY DEF SiloReturns, cacheVars, gitHubVars
<1> QED BY <1>1, <1>2, <1>3, <1>4, <1>5, <1>6, AnswerStep

LEMMA SentInv ==
  ASSUME ExchangeInv, NEW h \in Handlers, Sent(h),
         CacheInv', GitHubInv', OxideInv'
  PROVE  ExchangeInv'
<1>1. /\ exchange[h] # Nothing /\ exchange[h].stage = "answered"
      /\ exchange' = [exchange EXCEPT ![h] = Nothing]
      /\ UNCHANGED <<now, actual, changedAt, call, fetch, login>>
  BY DEF Sent, At, cacheVars, gitHubVars, oxideVars
<1>2. call[h] = Nothing /\ fetch[h] = Nothing /\ login[h] = Nothing
  BY <1>1, HandlerFacts DEF AwaitsFit
<1>3. Fits(Nothing, call'[h], fetch'[h], login'[h])
  BY <1>1, <1>2 DEF Fits, AwaitsFit
<1> QED BY <1>1, <1>3, HandlerStep

----------------------------------------------------------------------------
(* The services' answers.                                                   *)

\* The answer moves on what the handler awaits and nothing else.
LEMMA AwaitStep ==
  ASSUME ExchangeInv, NEW h \in Handlers, UNCHANGED exchange,
         CacheInv', GitHubInv', OxideInv',
         UNCHANGED <<now, actual, changedAt>>,
         \A g \in Handlers \ {h} :
           call'[g] = call[g] /\ fetch'[g] = fetch[g] /\ login'[g] = login[g],
         Fits(exchange[h], call'[h], fetch'[h], login'[h])
  PROVE  ExchangeInv'
<1>1. /\ exchange[h] \in Task \cup {Nothing}
      /\ exchange' = [exchange EXCEPT ![h] = exchange[h]]
  BY DEF ExchangeInv, ExchangeTypeOK
<1>2. exchange[h] # Nothing => \A d \in exchange[h].decided : Sound(d)
  BY HandlerFacts
<1> QED BY <1>1, <1>2, HandlerStep

LEMMA CallAnsweredInv ==
  ASSUME ExchangeInv, NEW h \in Handlers, UNCHANGED <<cacheVars, oxideVars, exchange>>,
         LookupAnswered(h) \/ RequestFailed(h),
         CacheInv', GitHubInv', OxideInv'
  PROVE  ExchangeInv'
<1>1. PICK e : e = exchange[h]
  OBVIOUS
<1>2. /\ call[h] # Nothing /\ call[h].stage # "done"
      /\ call'[h] # Nothing /\ call'[h].request = call[h].request
      /\ call'[h].result # "token"
      /\ \A g \in Handlers \ {h} : call'[g] = call[g]
  BY LookupAnsweredStep, RequestFailedStep DEF ExchangeInv
<1>3. e # Nothing /\ e.stage \in {"fetch", "mint"}
  BY <1>1, <1>2 DEF ExchangeInv, Fits, AwaitsFit
<1>4. /\ AwaitsFit(e, call[h], fetch[h], login[h])
      /\ LoopFits(e) /\ MintedFits(e, call[h], login[h])
  BY <1>1, <1>3, HandlerFacts
<1>5. UNCHANGED <<now, actual, changedAt, fetch, login, exchange>>
  BY DEF cacheVars, oxideVars
<1>6. Fits(e, call'[h], fetch'[h], login'[h])
  BY <1>2, <1>3, <1>4, <1>5 DEF Fits, AwaitsFit, MintedFits
<1> QED BY <1>1, <1>2, <1>5, <1>6, AwaitStep

\* The answer makes a token, of the exchange or of repository_visibility.
LEMMA MintStep ==
  ASSUME ExchangeInv, NEW h \in Handlers, exchange[h] # Nothing,
         NEW tokens \in Nat,
         exchange' = [exchange EXCEPT ![h].tokens = tokens],
         CacheInv', GitHubInv', OxideInv',
         UNCHANGED cacheVars,
         \A g \in Handlers \ {h} : call'[g] = call[g] /\ login'[g] = login[g],
         AwaitsFit(exchange[h], call'[h], fetch[h], login'[h]),
         MintedFits([exchange[h] EXCEPT !.tokens = tokens], call'[h], login'[h])
  PROVE  ExchangeInv'
<1>1. PICK e : e = exchange[h]
  OBVIOUS
<1>2. PICK new : new = [e EXCEPT !.tokens = tokens]
  OBVIOUS
<1>3. /\ e \in Task /\ LoopFits(e)
      /\ \A d \in e.decided : Sound(d)
  BY <1>1, HandlerFacts
<1>4. /\ new \in Task /\ new.stage = e.stage /\ new.request = e.request
      /\ new.next = e.next /\ new.decided = e.decided /\ new.jwt = e.jwt
  BY <1>2, <1>3 DEF Task
<1>5. Current(new) = Current(e) /\ Principal(new) = Principal(e)
  BY <1>4 DEF Current, Principal
<1>6. \A repo : DecidedOn(e, repo) => DecidedOn(new, repo)
  BY <1>4, <1>5 DEF DecidedOn, Permitted
<1>7. LoopFits(new)
  BY <1>3, <1>4, <1>5, <1>6 DEF LoopFits, AdmissionFits
<1>8. AwaitsFit(new, call'[h], fetch[h], login'[h])
  BY <1>1, <1>3, <1>4, <1>5, NothingIsNoTask DEF AwaitsFit
<1>9. Fits(new, call'[h], fetch'[h], login'[h])
  BY <1>1, <1>2, <1>7, <1>8 DEF Fits, cacheVars
<1>10. exchange' = [exchange EXCEPT ![h] = new]
  BY <1>1, <1>2
<1>11. new \in Task \cup {Nothing} /\ \A d \in new.decided : Sound(d)
  BY <1>3, <1>4
<1>12. /\ UNCHANGED <<now, actual, changedAt>>
       /\ \A g \in Handlers \ {h} :
            call'[g] = call[g] /\ fetch'[g] = fetch[g] /\ login'[g] = login[g]
  BY DEF cacheVars
<1> HIDE DEF ExchangeInv, CacheInv, GitHubInv, OxideInv
<1> QED BY <1>9, <1>10, <1>11, <1>12, HandlerStep

LEMMA TokenMintedInv ==
  ASSUME ExchangeInv, NEW h \in Handlers, Minted(h),
         exchange' = [exchange EXCEPT ![h].tokens =
                       IF exchange[h].stage = "mint" THEN @ + 1 ELSE @],
         UNCHANGED <<cacheVars, oxideVars>>,
         CacheInv', GitHubInv', OxideInv'
  PROVE  ExchangeInv'
<1>1. PICK e, tokens : /\ e = exchange[h]
                       /\ tokens = IF e.stage = "mint" THEN e.tokens + 1 ELSE e.tokens
  OBVIOUS
<1>2. /\ call[h] # Nothing /\ call[h].stage # "done"
      /\ call'[h] # Nothing /\ call'[h].request = call[h].request
      /\ call'[h].stage = "done" /\ call'[h].result \in {"token"} \cup RequestErrors
      /\ \A g \in Handlers \ {h} : call'[g] = call[g]
  BY MintedStep DEF ExchangeInv
<1>3. e # Nothing /\ e.stage \in {"fetch", "mint"} /\ UNCHANGED login
  BY <1>1, <1>2 DEF ExchangeInv, Fits, AwaitsFit, oxideVars
<1>4. /\ e \in Task /\ AwaitsFit(e, call[h], fetch[h], login[h])
      /\ MintedFits(e, call[h], login[h])
  BY <1>1, <1>3, HandlerFacts
<1>5. AwaitsFit(e, call'[h], fetch[h], login'[h])
  BY <1>2, <1>3, <1>4 DEF AwaitsFit
<1>6. e.tokens = 0 /\ tokens = IF e.stage = "mint" THEN 1 ELSE 0
  BY <1>1, <1>2, <1>3, <1>4 DEF MintedFits
<1>7. PICK new : new = [e EXCEPT !.tokens = tokens]
  OBVIOUS
<1>8. new.stage = e.stage /\ new.tokens = tokens
  BY <1>4, <1>7 DEF Task
<1>9. MintedFits(new, call'[h], login'[h])
  BY <1>2, <1>3, <1>6, <1>8 DEF MintedFits
<1>10. tokens \in Nat /\ exchange' = [exchange EXCEPT ![h].tokens = tokens]
  BY <1>1, <1>6
<1>11. /\ exchange[h] # Nothing /\ UNCHANGED cacheVars
       /\ \A g \in Handlers \ {h} : call'[g] = call[g] /\ login'[g] = login[g]
       /\ AwaitsFit(exchange[h], call'[h], fetch[h], login'[h])
       /\ MintedFits([exchange[h] EXCEPT !.tokens = tokens], call'[h], login'[h])
  BY <1>1, <1>2, <1>3, <1>5, <1>7, <1>9
<1> HIDE DEF ExchangeInv, CacheInv, GitHubInv, OxideInv
<1> QED BY <1>10, <1>11, MintStep

LEMMA SiloTokenMintedInv ==
  ASSUME ExchangeInv, NEW h \in Handlers, TokenAnswered(h),
         exchange' = [exchange EXCEPT ![h].tokens = @ + 1],
         UNCHANGED <<cacheVars, gitHubVars>>,
         CacheInv', GitHubInv', OxideInv'
  PROVE  ExchangeInv'
<1>1. PICK e : e = exchange[h]
  OBVIOUS
<1>2. /\ login[h] # Nothing /\ login[h].stage # "done"
      /\ login'[h] # Nothing /\ login'[h].request = login[h].request
      /\ login'[h].stage = "done" /\ login'[h].result \in {"token", "SiloFailed"}
      /\ \A g \in Handlers \ {h} : login'[g] = login[g]
  BY TokenAnsweredStep DEF ExchangeInv
<1>3. e # Nothing /\ e.stage = "silo" /\ UNCHANGED call
  BY <1>1, <1>2 DEF ExchangeInv, Fits, AwaitsFit, gitHubVars
<1>4. /\ e \in Task /\ AwaitsFit(e, call[h], fetch[h], login[h])
      /\ MintedFits(e, call[h], login[h])
  BY <1>1, <1>3, HandlerFacts
<1>5. AwaitsFit(e, call'[h], fetch[h], login'[h])
  BY <1>2, <1>3, <1>4 DEF AwaitsFit
<1>6. e.tokens = 0
  BY <1>2, <1>3, <1>4 DEF MintedFits
<1>7. exchange' = [exchange EXCEPT ![h].tokens = 1]
  BY <1>1, <1>6
<1>8. PICK new : new = [e EXCEPT !.tokens = 1]
  OBVIOUS
<1>9. new.stage = "silo" /\ new.tokens = 1
  BY <1>3, <1>4, <1>8 DEF Task
<1>10. MintedFits(new, call'[h], login'[h])
  BY <1>2, <1>9 DEF MintedFits
<1> QED BY <1>1, <1>2, <1>3, <1>5, <1>7, <1>8, <1>10, MintStep

LEMMA GitHubActsInv ==
  ASSUME ExchangeInv, NEW h \in Handlers, GitHubActs(h),
         CacheInv', GitHubInv', OxideInv'
  PROVE  ExchangeInv'
<1>1. CASE /\ LookupAnswered(h) \/ RequestFailed(h)
           /\ UNCHANGED <<cacheVars, oxideVars, exchange, providers>>
  BY <1>1, CallAnsweredInv
<1>2. CASE /\ Minted(h)
           /\ exchange' = [exchange EXCEPT ![h].tokens =
                             IF exchange[h].stage = "mint" THEN @ + 1 ELSE @]
           /\ UNCHANGED <<cacheVars, oxideVars, providers>>
  BY <1>2, TokenMintedInv
<1>3. CASE /\ At(h, "repo") /\ GitHubAnswers(h)
           /\ UNCHANGED <<gitHubVars, oxideVars, exchange, providers>>
  <2>1. /\ fetch'[h] # Nothing /\ fetch'[h].repository = fetch[h].repository
        /\ \A g \in Handlers \ {h} : fetch'[g] = fetch[g]
    BY <1>3, FetchSteps DEF ExchangeInv
  <2>2. UNCHANGED <<now, actual, changedAt, call, login, exchange, providers>>
    BY <1>3 DEF GitHubAnswers, envVars, gitHubVars, oxideVars
  <2>3. /\ exchange[h] # Nothing
        /\ AwaitsFit(exchange[h], call[h], fetch[h], login[h])
        /\ LoopFits(exchange[h]) /\ MintedFits(exchange[h], call[h], login[h])
        /\ fetch[h] # Nothing
    BY <1>3, HandlerFacts DEF At, GitHubAnswers
  <2>4. Fits(exchange[h], call'[h], fetch'[h], login'[h])
    BY <2>1, <2>2, <2>3 DEF Fits, AwaitsFit
  <2> QED BY <2>1, <2>2, <2>4, AwaitStep
<1> QED BY <1>1, <1>2, <1>3 DEF GitHubActs

LEMMA SiloActsInv ==
  ASSUME ExchangeInv, NEW h \in Handlers, SiloActs(h),
         CacheInv', GitHubInv', OxideInv'
  PROVE  ExchangeInv'
<1>1. CASE /\ AuthAnswered(h) \/ ConfirmAnswered(h) \/ SiloFails(h)
           /\ UNCHANGED <<cacheVars, gitHubVars, exchange, providers>>
  <2>1. /\ login[h] # Nothing /\ login[h].stage # "done"
        /\ login'[h] # Nothing /\ login'[h].request = login[h].request
        /\ login'[h].result # "token"
        /\ \A g \in Handlers \ {h} : login'[g] = login[g]
    BY <1>1, SiloStep DEF ExchangeInv
  <2>2. UNCHANGED <<now, actual, changedAt, fetch, call, exchange, providers>>
    BY <1>1 DEF cacheVars, gitHubVars
  <2>3. exchange[h] # Nothing /\ exchange[h].stage = "silo"
    BY <2>1 DEF ExchangeInv, Fits, AwaitsFit
  <2>4. /\ AwaitsFit(exchange[h], call[h], fetch[h], login[h])
        /\ LoopFits(exchange[h]) /\ MintedFits(exchange[h], call[h], login[h])
    BY <2>3, HandlerFacts
  <2>5. Fits(exchange[h], call'[h], fetch'[h], login'[h])
    BY <2>1, <2>2, <2>3, <2>4 DEF Fits, AwaitsFit, MintedFits
  <2> QED BY <2>1, <2>2, <2>5, AwaitStep
<1>2. CASE /\ TokenAnswered(h)
           /\ exchange' = [exchange EXCEPT ![h].tokens = @ + 1]
           /\ UNCHANGED <<cacheVars, gitHubVars, providers>>
  BY <1>2, SiloTokenMintedInv
<1> QED BY <1>1, <1>2 DEF SiloActs

\* A change that no handler makes keeps the invariant if what is awaited still
\* fits, and decisions stay sound.
LEMMA OutsideStep ==
  ASSUME ExchangeInv, UNCHANGED exchange, CacheInv', GitHubInv', OxideInv',
         \A h \in Handlers : Fits(exchange[h], call'[h], fetch'[h], login'[h]),
         \A d \in Decision : Sound(d) => Sound(d)'
  PROVE  ExchangeInv'
<1>1. ExchangeTypeOK'
  BY DEF ExchangeInv, ExchangeTypeOK, CacheInv, GitHubInv, OxideInv
<1>2. \A h \in Handlers : exchange[h] # Nothing =>
        \A d \in exchange[h].decided : d \in Decision /\ Sound(d)
  BY HandlerFacts DEF Task
<1>3. \A h \in Handlers : exchange'[h] # Nothing =>
        \A d \in exchange'[h].decided : Sound(d)'
  BY <1>2
<1>4. DecisionsFit' /\ WrongDecisionMeansChange'
  BY <1>3 DEF DecisionsFit, WrongDecisionMeansChange, Sound
<1> QED BY <1>1, <1>4 DEF ExchangeInv

LEMMA EnvironmentInv ==
  ASSUME ExchangeInv, Environment, UNCHANGED <<gitHubVars, oxideVars, exchange>>,
         CacheInv', GitHubInv', OxideInv'
  PROVE  ExchangeInv'
<1>1. UNCHANGED <<call, fetch, login, exchange>>
  BY DEF Environment, Tick, StepClock, ChangeVisibility, gitHubVars, oxideVars
<1>2. \A h \in Handlers : Fits(exchange[h], call'[h], fetch'[h], login'[h])
  BY <1>1 DEF ExchangeInv
<1>3. ASSUME NEW d \in Decision, Sound(d)
      PROVE  Sound(d)'
  <2>1. /\ d.started \in Nat /\ d.repository \in Repositories
        /\ now \in Nat /\ changedAt \in [Repositories -> Nat]
        /\ actual \in [Repositories -> Visibilities]
    BY DEF Decision, ExchangeInv, CacheInv, CacheTypeOK
  <2>2. CASE Tick \/ StepClock
    BY <1>3, <2>1, <2>2 DEF Tick, StepClock, Sound
  <2>3. CASE \E repo \in Repositories : ChangeVisibility(repo)
    BY <1>3, <2>1, <2>3 DEF ChangeVisibility, Sound
  <2> QED BY <2>2, <2>3 DEF Environment
<1> QED BY <1>1, <1>2, <1>3, OutsideStep

LEMMA InstallationsInv ==
  ASSUME ExchangeInv, NEW i \in Installations, Install(i) \/ Uninstall(i),
         UNCHANGED <<cacheVars, oxideVars, exchange>>,
         CacheInv', GitHubInv', OxideInv'
  PROVE  ExchangeInv'
<1>1. UNCHANGED <<now, actual, changedAt, fetch, login, exchange>>
  BY DEF cacheVars, oxideVars
<1>2. ASSUME NEW h \in Handlers
      PROVE  /\ call'[h] = Nothing <=> call[h] = Nothing
             /\ call[h] # Nothing =>
                  /\ call'[h].request = call[h].request
                  /\ call'[h].stage = call[h].stage
                  /\ call'[h].result = call[h].result
  <2>1. call[h] \in Call \cup {Nothing}
    BY DEF ExchangeInv, GitHubInv, GitHubTypeOK
  <2>2. CASE Install(i)
    BY <2>2 DEF Install
  <2>3. CASE Uninstall(i)
    <3>1. call'[h] = call[h] \/ (call[h] # Nothing
                                 /\ call'[h] = [call[h] EXCEPT !.steady = FALSE])
      BY <2>3 DEF Uninstall
    <3>2. call[h] # Nothing => [call[h] EXCEPT !.steady = FALSE] \in Call
      BY <2>1 DEF Call
    <3> QED BY <2>1, <3>1, <3>2, NothingIsNoCall DEF Call
  <2> QED BY <2>2, <2>3
<1>3. ASSUME NEW h \in Handlers
      PROVE  Fits(exchange[h], call'[h], fetch'[h], login'[h])
  <2>1. Fits(exchange[h], call[h], fetch[h], login[h])
    BY DEF ExchangeInv
  <2> QED BY <1>1, <1>2, <2>1 DEF Fits, AwaitsFit, MintedFits
<1> QED BY <1>1, <1>3, OutsideStep DEF Sound

LEMMA ServicesChangeInv ==
  ASSUME ExchangeInv, ServicesChange, CacheInv', GitHubInv', OxideInv'
  PROVE  ExchangeInv'
<1>1. CASE Environment /\ UNCHANGED <<gitHubVars, oxideVars, exchange, providers>>
  BY <1>1, EnvironmentInv
<1>2. CASE /\ \E i \in Installations : Install(i) \/ Uninstall(i)
           /\ UNCHANGED <<cacheVars, oxideVars, exchange, providers>>
  BY <1>2, InstallationsInv
<1>3. CASE /\ \E code \in Codes : ExpireGrant(code)
           /\ UNCHANGED <<cacheVars, gitHubVars, exchange, providers>>
  <2>1. UNCHANGED <<now, actual, changedAt, fetch, call, login, exchange, providers>>
    BY <1>3 DEF cacheVars, gitHubVars, ExpireGrant
  <2>2. \A h \in Handlers : Fits(exchange[h], call'[h], fetch'[h], login'[h])
    BY <2>1 DEF ExchangeInv
  <2> QED BY <2>1, <2>2, OutsideStep DEF Sound
<1> QED BY <1>1, <1>2, <1>3 DEF ServicesChange

----------------------------------------------------------------------------
(* The invariant.                                                           *)

LEMMA ExchangeInitInv == ExchangeInit => ExchangeInv
<1> SUFFICES ASSUME ExchangeInit PROVE ExchangeInv
  OBVIOUS
<1>1. CacheInv /\ GitHubInv /\ OxideInv
  BY CacheInitInv, GitHubInitInv, OxideInitInv DEF ExchangeInit
<1>2. \A h \in Handlers : /\ exchange[h] = Nothing /\ call[h] = Nothing
                          /\ fetch[h] = Nothing /\ login[h] = Nothing
  BY DEF ExchangeInit, CacheInit, GitHubInit, OxideInit
<1>3. ExchangeTypeOK
  BY <1>1 DEF ExchangeInit, ExchangeTypeOK, CacheInv, GitHubInv, OxideInv
<1>4. \A h \in Handlers : Fits(exchange[h], call[h], fetch[h], login[h])
  BY <1>2 DEF Fits, AwaitsFit
<1> QED BY <1>1, <1>2, <1>3, <1>4
       DEF ExchangeInv, DecisionsFit, WrongDecisionMeansChange

LEMMA ProgressInv ==
  ASSUME ExchangeInv, NEW h \in Handlers, Progress(h),
         CacheInv', GitHubInv', OxideInv'
  PROVE  ExchangeInv'
  BY LookupHitInv, LookupMissInv, LookupRefusedInv, MetadataTokenReturnsInv,
     FetchEndsInv, RepositoryReturnsInv, MintReturnsInv, SiloReturnsInv, SentInv,
     GitHubActsInv, SiloActsInv
  DEF Progress

LEMMA ExchangeNextInv == ExchangeInv /\ [ExchangeNext]_exchangeVars => ExchangeInv'
<1> SUFFICES ASSUME ExchangeInv, [ExchangeNext]_exchangeVars
             PROVE  ExchangeInv'
  OBVIOUS
<1>1. CacheInv' /\ GitHubInv' /\ OxideInv'
  BY ComponentsKept
<1>2. CASE UNCHANGED exchangeVars
  <2>1. UNCHANGED <<now, actual, changedAt, fetch, call, login, exchange>>
    BY <1>2 DEF exchangeVars, cacheVars, gitHubVars, oxideVars
  <2>2. \A h \in Handlers : Fits(exchange[h], call'[h], fetch'[h], login'[h])
    BY <2>1 DEF ExchangeInv
  <2> QED BY <1>1, <2>1, <2>2, OutsideStep DEF Sound
<1>3. CASE ExchangeNext
  BY <1>1, <1>3, RefuseInv, BeginGitHubInv, BeginOxideInv, ProgressInv,
     ServicesChangeInv
  DEF ExchangeNext, Handling
<1> QED BY <1>2, <1>3

\* The composed system keeps its inductive invariant.
THEOREM ExchangeInvariant == ExchangeSpec => []ExchangeInv
  BY ExchangeInitInv, ExchangeNextInv, PTL DEF ExchangeSpec

\* A request that names permissions is granted those and no others.
LEMMA GrantedAsNamed ==
  ASSUME NEW request \in TokenRequests, Parses(request),
         request.permissions # << >>
  PROVE  Granted(request) = Range(request.permissions)
<1>1. request.permissions \in Seq(Permission)
  BY GitHubAssumption
<1>2. 1 \in DOMAIN request.permissions
  BY <1>1
<1>3. Range(request.permissions) # {}
  BY <1>2 DEF Range
<1> QED BY <1>3, PermissionsKept DEF Granted

LEMMA InvImpliesAuthorized == ExchangeInv => MintsAreAuthorized
<1> SUFFICES ASSUME ExchangeInv, NEW h \in Handlers
             PROVE  LET e == exchange[h] IN
    /\ call[h] # Nothing =>
         \/ /\ At(h, "mint")
            /\ call[h].request = e.request.body
            /\ \A repo \in Range(call[h].request.repositories) :
                 \E d \in e.decided :
                   d.repository = repo
                   /\ \A permission \in Granted(call[h].request) :
                        Authorized(Principal(e), permission,
                                   RepositoryEntity(repo, d.visibility))
         \/ At(h, "fetch") /\ call[h].request = MetadataRequest(Current(e))
    /\ login[h] # Nothing =>
         /\ At(h, "silo")
         /\ login[h].request = e.request.body
         /\ Authorized(Principal(e), Deploy,
                       SiloEntity(Canonical[login[h].request.silo]))
  BY DEF MintsAreAuthorized
<1>1. PICK e : e = exchange[h]
  OBVIOUS
<1>2. AwaitsFit(e, call[h], fetch[h], login[h])
  BY <1>1 DEF ExchangeInv, Fits
<1>3. e # Nothing => e \in Task /\ LoopFits(e)
  BY <1>1, HandlerFacts
<1>4. ASSUME call[h] # Nothing, e.stage = "mint"
      PROVE  /\ call[h].request = e.request.body
             /\ \A repo \in Range(e.request.body.repositories) : DecidedOn(e, repo)
             /\ Granted(call[h].request) = Range(e.request.body.permissions)
  <2> DEFINE repos == e.request.body.repositories
  <2>1. e \in Task /\ LoopFits(e) /\ call[h].request = e.request.body
    BY <1>2, <1>3, <1>4 DEF AwaitsFit
  <2>2. /\ repos \in Seq(Seq(Parts))
        /\ e.next = Len(repos) /\ DecidedOn(e, repos[e.next])
        /\ \A i \in 1 .. e.next - 1 : DecidedOn(e, repos[i])
    BY <1>4, <2>1, GitHubBody DEF LoopFits, Current
  <2>3. \A i \in DOMAIN repos : DecidedOn(e, repos[i])
    <3>1. \A i \in DOMAIN repos : i = e.next \/ i \in 1 .. e.next - 1
      BY <2>2
    <3> QED BY <2>2, <3>1
  <2>4. Parses(call[h].request) /\ call[h].request \in TokenRequests
    BY <1>4 DEF ExchangeInv, GitHubInv, GitHubTypeOK, CallsAreConsistent, Call
  <2>5. e.request.body.permissions # << >>
    BY <1>4, <2>1 DEF LoopFits
  <2> QED BY <2>1, <2>3, <2>4, <2>5, GrantedAsNamed DEF Range
<1>5. ASSUME call[h] # Nothing
      PROVE  \/ /\ At(h, "mint")
                /\ call[h].request = e.request.body
                /\ \A repo \in Range(call[h].request.repositories) :
                     \E d \in e.decided :
                       d.repository = repo
                       /\ \A permission \in Granted(call[h].request) :
                            Authorized(Principal(e), permission,
                                       RepositoryEntity(repo, d.visibility))
             \/ At(h, "fetch") /\ call[h].request = MetadataRequest(Current(e))
  <2>1. CASE e # Nothing /\ e.stage = "fetch"
    BY <1>1, <1>2, <2>1 DEF AwaitsFit, At
  <2>2. CASE e # Nothing /\ e.stage = "mint"
    BY <1>1, <1>4, <1>5, <2>2 DEF DecidedOn, Permitted, At
  <2> QED BY <1>2, <1>5, <2>1, <2>2 DEF AwaitsFit
<1>6. ASSUME login[h] # Nothing
      PROVE  /\ At(h, "silo")
             /\ login[h].request = e.request.body
             /\ Authorized(Principal(e), Deploy,
                           SiloEntity(Canonical[login[h].request.silo]))
  BY <1>1, <1>2, <1>3, <1>6 DEF AwaitsFit, LoopFits, At
<1> QED BY <1>1, <1>5, <1>6

\* What a service is asked to mint for a caller was decided by the policy, on
\* every repository and for everything the token grants.
THEOREM MintsAuthorized == ExchangeSpec => []MintsAreAuthorized
  BY ExchangeInvariant, InvImpliesAuthorized, PTL

\* A decision with a visibility other than GitHub's implies a change at GitHub
\* since the fetch of that visibility began.
THEOREM WrongDecisionsMeanChange == ExchangeSpec => []WrongDecisionMeansChange
<1>1. ExchangeInv => WrongDecisionMeansChange
  BY DEF ExchangeInv
<1> QED BY <1>1, ExchangeInvariant, PTL

LEMMA InvImpliesStatus == ExchangeInv => StatusTellsOutcome
  BY HandlerFacts DEF MintedFits, StatusTellsOutcome, At

\* The status of an answer tells whether the token was minted.
THEOREM StatusesTell == ExchangeSpec => []StatusTellsOutcome
  BY InvImpliesStatus, ExchangeInvariant, PTL

\* An exchange only takes steps that the components allow, so that it has
\* every property that the components were shown to have on their own.
THEOREM ExchangeImplements == ExchangeSpec => CacheSpec /\ GitHubSpec /\ OxideSpec
<1>1. ExchangeInit => CacheInit /\ GitHubInit /\ OxideInit
  BY DEF ExchangeInit
<1>2. ExchangeInv /\ [ExchangeNext]_exchangeVars =>
        /\ [CacheNext]_cacheVars /\ [GitHubNext]_gitHubVars
        /\ [OxideNext]_oxideVars
  BY ComponentSteps
<1> QED BY <1>1, <1>2, ExchangeInvariant, PTL
        DEF ExchangeSpec, CacheSpec, GitHubSpec, OxideSpec

\* The properties of the components: of the cache, of GitHub's tokens and of the
\* silos' tokens, when the handlers of the endpoint are their callers.
THEOREM ExchangeComponentsSafe ==
  ExchangeSpec => /\ []HitIsRecent /\ []ScopeIsRequested /\ []NotInstalledIsTrue
                  /\ []LifetimeBounded /\ []TokenIsOwn /\ []TokenReady
                  /\ []NotConfiguredIsTrue
  BY ExchangeImplements, HitsAreRecent, GrantedScope, NotInstalledReports,
     LifetimesAreBounded, TokensAreOwn, TokensAreReady, NotConfiguredReports, PTL

\* What the token services promise their callers they promise the endpoint:
\* every call of get by an exchange makes at most one token, of the scope that
\* it asks for, as its last act.
THEOREM ExchangeServes == ExchangeSpec => GitHubServes /\ OxideServes
  BY ExchangeImplements, GitHubImplements, OxideImplements, PTL
============================================================================
