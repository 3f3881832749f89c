------------------------------ MODULE Exchange ------------------------------
(***************************************************************************)
(* The exchange endpoint of src/endpoints.rs: concurrent handlers that     *)
(* validate a JWT (Oidc), ask the policy about everything the request      *)
(* names (Policy, with the visibilities of VisibilityCache), and only then *)
(* mint a token (GitHubTokens or OxideTokens).                             *)
(*                                                                         *)
(* A handler runs from one await to the next.  What it does in between     *)
(* touches shared state at most once, in the visibility cache under its    *)
(* lock, and is one action here.  ensure_allowed's loop over the           *)
(* repositories is the cycle of the stages lookup, fetch and repo.         *)
(***************************************************************************)
EXTENDS VisibilityCache, GitHubTokens, OxideTokens, Policy, Oidc

CONSTANTS
  GitHubRequests,  \* the token requests that are sent, by service
  ProviderMaps,    \* what startup may have made of the configured providers
  FairHandlers     \* handlers whose requests are answered sooner or later

\* The request that repository_visibility makes get for itself.
MetadataRequest(repo) ==
  [repositories |-> <<repo>>, permissions |-> <<Action("metadata", "read")>>]

ASSUME ExchangeAssumption ==
  /\ FairHandlers \subseteq Handlers
  /\ GitHubRequests \subseteq TokenRequests
  /\ \A request \in GitHubRequests : Range(request.repositories) \subseteq Repositories
  /\ \A repo \in Repositories : MetadataRequest(repo) \in TokenRequests

VARIABLE exchange  \* the exchange each handler is working on, if any

exchangeVars == <<cacheVars, gitHubVars, oxideVars, exchange, providers>>

----------------------------------------------------------------------------

TokenRequest ==
  [service : {"github"}, body : GitHubRequests]
    \cup [service : {"oxide"}, body : SiloRequests]

\* ensure_allowed allowed every requested permission on a repository, of
\* which it was told this visibility.  started is bookkeeping: when the fetch
\* of that visibility began.
Decision == [repository : Repositories, visibility : Visibilities, started : Nat]

\* What a handler works on.  next is the loop's position in the repositories,
\* outcome what the handler answers: "refused" stands for every error of a
\* check made before get is called or by get itself.  decided and tokens are
\* bookkeeping: the decisions so far, and how many of the requested tokens
\* were minted.
Task ==
  [jwt : Jwts, request : TokenRequest,
   stage : {"lookup", "fetch", "repo", "mint", "silo", "answered"},
   next : Nat \ {0}, decided : SUBSET Decision, tokens : Nat,
   outcome : Results \cup SiloResults \cup {"refused", Nothing}]

ASSUME NothingIsNoTask == Nothing \notin Task

\* The type invariant.
ExchangeTypeOK ==
  /\ CacheTypeOK /\ GitHubTypeOK /\ OxideTypeOK
  /\ exchange \in [Handlers -> Task \cup {Nothing}]

ExchangeInit ==
  /\ CacheInit /\ GitHubInit /\ OxideInit
  /\ providers \in ProviderMaps
  /\ exchange = [h \in Handlers |-> Nothing]

At(h, stage) == exchange[h] # Nothing /\ exchange[h].stage = stage

Principal(e) == WorkflowRun(e.jwt.claims)

MoveTo(h, stage) ==
  /\ exchange' = [exchange EXCEPT ![h].stage = stage]
  /\ UNCHANGED providers

Answer(h, outcome) ==
  /\ exchange' = [exchange EXCEPT ![h] =
       [@ EXCEPT !.stage = "answered", !.outcome = outcome]]
  /\ UNCHANGED providers

----------------------------------------------------------------------------
(* Faulty variants of definitions below.                                   *)

\* One permission that is allowed is enough.
PermittedInPart(e, repo, visibility) ==
  \E permission \in Range(e.request.body.permissions) :
    Authorized(Principal(e), permission, RepositoryEntity(repo, visibility))

\* Transport errors are reported as the caller's.
ExposedHttp(error) == error # "SiloFailed"

\* The loop asks for the visibility of the first repository every time.
CurrentFirst(e) == e.request.body.repositories[1]

\* Empty requests are not refused.
AdmittedEmpty(jwt, request) ==
  /\ Accepted(jwt, UtcNow)
  /\ HasPrincipal(jwt.claims)
  /\ request.service = "oxide" =>
       Authorized(WorkflowRun(jwt.claims), Deploy,
                  SiloEntity(Canonical[request.body.silo]))

\* The request for the visibility goes on after its exchange was answered.
MetadataTokenFailsDetached(h) ==
  /\ At(h, "fetch")
  /\ GetReturns(h)
  /\ call[h].result # "token"
  /\ Answer(h, "refused")
  /\ UNCHANGED <<cacheVars, oxideVars>>

\* The lock of the cache is held while GitHub is asked.
LookupMissLocking(h) ==
  /\ At(h, "lookup")
  /\ \A g \in Handlers : fetch[g] = Nothing
  /\ LET repo == exchange[h].request.body.repositories[exchange[h].next] IN
       CacheMiss(h, repo) /\ Get(h, MetadataRequest(repo))
  /\ MoveTo(h, "fetch")
  /\ UNCHANGED oxideVars

----------------------------------------------------------------------------

\* The repository the loop is at.
Current(e) == e.request.body.repositories[e.next]

\* Every requested permission on a repository of that visibility.
Permitted(e, repo, visibility) ==
  \A permission \in Range(e.request.body.permissions) :
    Authorized(Principal(e), permission, RepositoryEntity(repo, visibility))

\* safe_to_expose: whether an error of get is reported as the caller's.
Exposed(error) == error \notin {"Http", "SiloFailed"}

\* The HTTP status that the endpoint answers with.
Status(outcome) ==
  IF outcome = "token" THEN 200 ELSE IF Exposed(outcome) THEN 400 ELSE 500

----------------------------------------------------------------------------
(* The beginning of an exchange.                                           *)

\* Everything that is checked of the JWT, and for a silo the policy.
Admitted(jwt, request) ==
  /\ Accepted(jwt, UtcNow)
  /\ HasPrincipal(jwt.claims)
  /\ IF request.service = "oxide"
     THEN Authorized(WorkflowRun(jwt.claims), Deploy,
                     SiloEntity(Canonical[request.body.silo]))
     ELSE request.body.repositories # << >> /\ request.body.permissions # << >>

Begin(h, jwt, request, stage, outcome) ==
  /\ exchange[h] = Nothing
  /\ exchange' = [exchange EXCEPT ![h] =
       [jwt |-> jwt, request |-> request, stage |-> stage, next |-> 1,
        decided |-> {}, tokens |-> 0, outcome |-> outcome]]
  /\ UNCHANGED providers

Refuse(h, jwt, request) ==
  /\ ~Admitted(jwt, request)
  /\ Begin(h, jwt, request, "answered", "refused")
  /\ UNCHANGED <<cacheVars, gitHubVars, oxideVars>>

BeginGitHub(h, jwt, request) ==
  /\ request.service = "github"
  /\ Admitted(jwt, request)
  /\ Begin(h, jwt, request, "lookup", Nothing)
  /\ UNCHANGED <<cacheVars, gitHubVars, oxideVars>>

BeginOxide(h, jwt, request) ==
  /\ request.service = "oxide"
  /\ Admitted(jwt, request)
  /\ Begin(h, jwt, request, "silo", Nothing)
  /\ GetSiloToken(h, request.body)
  /\ UNCHANGED <<cacheVars, gitHubVars>>

----------------------------------------------------------------------------
(* ensure_allowed: the visibility of each repository, then the policy.     *)

\* The visibility of the current repository is known: the loop goes on, ends
\* with the error of authorize, or ends and GitHubTokens::get begins.
Decide(h, visibility, started) ==
  LET e == exchange[h]
      request == e.request.body
      decision == [repository |-> Current(e), visibility |-> visibility,
                   started |-> started]
      last == e.next = Len(request.repositories)
      go(stage, next) ==
        /\ exchange' = [exchange EXCEPT ![h] =
             [e EXCEPT !.stage = stage, !.next = next, !.decided = @ \cup {decision}]]
        /\ UNCHANGED providers
  IN
  \/ /\ ~Permitted(e, Current(e), visibility) \/ (last /\ ~Accepts(request))
     /\ Answer(h, "refused")
     /\ UNCHANGED gitHubVars
  \/ /\ Permitted(e, Current(e), visibility)
     /\ ~last
     /\ go("lookup", e.next + 1)
     /\ UNCHANGED gitHubVars
  \/ /\ Permitted(e, Current(e), visibility)
     /\ last
     /\ go("mint", e.next)
     /\ Get(h, request)

LookupHit(h) ==
  /\ At(h, "lookup")
  /\ Hit(Current(exchange[h]))
  /\ Decide(h, cache[Current(exchange[h])].visibility, cache[Current(exchange[h])].started)
  /\ UNCHANGED <<cacheVars, oxideVars>>

\* The visibility is not known and get accepts the request for it.
LookupMiss(h) ==
  /\ At(h, "lookup")
  /\ CacheMiss(h, Current(exchange[h]))
  /\ Get(h, MetadataRequest(Current(exchange[h])))
  /\ MoveTo(h, "fetch")
  /\ UNCHANGED oxideVars

\* The same, and get does not.
LookupRefused(h) ==
  /\ At(h, "lookup")
  /\ ~Hit(Current(exchange[h]))
  /\ ~Accepts(MetadataRequest(Current(exchange[h])))
  /\ Answer(h, "refused")
  /\ UNCHANGED <<cacheVars, gitHubVars, oxideVars>>

\* repository_visibility has its token: it asks for the repository.
MetadataTokenReturns(h) ==
  /\ At(h, "fetch")
  /\ GetReturns(h)
  /\ call[h].result = "token"
  /\ MoveTo(h, "repo")
  /\ UNCHANGED <<cacheVars, oxideVars>>

\* It gets no token: whatever the error, the caller is told that the JWT does
\* not match the policy.
MetadataTokenFails(h) ==
  /\ At(h, "fetch")
  /\ GetReturns(h)
  /\ call[h].result # "token"
  /\ FetchFails(h)
  /\ Answer(h, "refused")
  /\ UNCHANGED oxideVars

RepositoryFails(h) ==
  /\ At(h, "repo")
  /\ FetchFails(h)
  /\ Answer(h, "refused")
  /\ UNCHANGED <<gitHubVars, oxideVars>>

\* The visibility arrives, is cached and used.
RepositoryReturns(h) ==
  /\ At(h, "repo")
  /\ CacheInsert(h)
  /\ Decide(h, fetch[h].answer, fetch[h].started)
  /\ UNCHANGED oxideVars

----------------------------------------------------------------------------
(* The end of an exchange.                                                 *)

MintReturns(h) ==
  /\ At(h, "mint")
  /\ GetReturns(h)
  /\ Answer(h, call[h].result)
  /\ UNCHANGED <<cacheVars, oxideVars>>

SiloReturns(h) ==
  /\ At(h, "silo")
  /\ SiloTokenReturns(h)
  /\ Answer(h, login[h].result)
  /\ UNCHANGED <<cacheVars, gitHubVars>>

\* The answer is sent and the handler is free for another exchange.
Sent(h) ==
  /\ At(h, "answered")
  /\ exchange' = [exchange EXCEPT ![h] = Nothing]
  /\ UNCHANGED <<cacheVars, gitHubVars, oxideVars, providers>>

----------------------------------------------------------------------------
(* The services' side.                                                     *)

\* GitHub answers a request of get or of repository_visibility.
GitHubActs(h) ==
  \/ /\ LookupAnswered(h) \/ RequestFailed(h)
     /\ UNCHANGED <<cacheVars, oxideVars, exchange, providers>>
  \/ /\ Minted(h)
     /\ exchange' = [exchange EXCEPT ![h].tokens =
                       IF exchange[h].stage = "mint" THEN @ + 1 ELSE @]
     /\ UNCHANGED <<cacheVars, oxideVars, providers>>
  \/ /\ At(h, "repo")
     /\ GitHubAnswers(h)
     /\ UNCHANGED <<gitHubVars, oxideVars, exchange, providers>>

SiloActs(h) ==
  \/ /\ AuthAnswered(h) \/ ConfirmAnswered(h) \/ SiloFails(h)
     /\ UNCHANGED <<cacheVars, gitHubVars, exchange, providers>>
  \/ /\ TokenAnswered(h)
     /\ exchange' = [exchange EXCEPT ![h].tokens = @ + 1]
     /\ UNCHANGED <<cacheVars, gitHubVars, providers>>

ServicesChange ==
  \/ Environment /\ UNCHANGED <<gitHubVars, oxideVars, exchange, providers>>
  \/ /\ \E i \in Installations : Install(i) \/ Uninstall(i)
     /\ UNCHANGED <<cacheVars, oxideVars, exchange, providers>>
  \/ /\ \E code \in Codes : ExpireGrant(code)
     /\ UNCHANGED <<cacheVars, gitHubVars, exchange, providers>>

\* Everything that moves one exchange on once it has begun.
Progress(h) ==
  \/ LookupHit(h) \/ LookupMiss(h) \/ LookupRefused(h)
  \/ MetadataTokenReturns(h) \/ MetadataTokenFails(h)
  \/ RepositoryFails(h) \/ RepositoryReturns(h)
  \/ MintReturns(h) \/ SiloReturns(h) \/ Sent(h)
  \/ GitHubActs(h) \/ SiloActs(h)

\* What the handlers and those who answer them do.
Handling ==
  \/ \E h \in Handlers, jwt \in Jwts, request \in TokenRequest :
       \/ Refuse(h, jwt, request)
       \/ BeginGitHub(h, jwt, request)
       \/ BeginOxide(h, jwt, request)
  \/ \E h \in Handlers : Progress(h)

ExchangeNext == Handling \/ ServicesChange

ExchangeSpec == ExchangeInit /\ [][ExchangeNext]_exchangeVars

\* The runtime runs a handler that can run, and the services answer the
\* requests of the fair handlers, possibly with an error.  Nothing is assumed
\* of the other handlers: their requests may hang, as they have no timeout.
FairExchangeSpec ==
  ExchangeSpec /\ \A h \in FairHandlers : WF_exchangeVars(Progress(h))

----------------------------------------------------------------------------

\* The services are asked to mint only what the policy has allowed: GitHub a
\* token for the caller only once everything the token will grant was decided,
\* on each of its repositories with a visibility of that repository that this
\* exchange obtained; a silo only for a caller that may deploy to it.  The
\* only other tokens read the metadata of the one repository whose visibility
\* the exchange waits for.
MintsAreAuthorized ==
  \A h \in Handlers : LET e == exchange[h] IN
    /\ call[h] # Nothing =>
         \/ /\ At(h, "mint")
            /\ call[h].request = e.request.body
            /\ \A repo \in Range(call[h].request.repositories) :
                 \E d \in e.decided :
                   d.repository = repo
                   /\ \A permission \in Granted(call[h].request) :
                        Authorized(Principal(e), permission,
                                   RepositoryEntity(repo, d.visibility))
         \/ At(h, "fetch") /\ call[h].request = MetadataRequest(Current(e))
    /\ login[h] # Nothing =>
         /\ At(h, "silo")
         /\ login[h].request = e.request.body
         /\ Authorized(Principal(e), Deploy,
                       SiloEntity(Canonical[login[h].request.silo]))

\* A decision was made with a visibility other than GitHub's only if GitHub's
\* has changed since the fetch of it, by whichever handler, had begun.
WrongDecisionMeansChange ==
  \A h \in Handlers : exchange[h] # Nothing =>
    \A d \in exchange[h].decided :
      d.visibility # actual[d.repository] => changedAt[d.repository] >= d.started

\* What a caller may conclude from the status of its answer: behind a 200 its
\* token was minted, and behind a 400 it was not, so that sending the request
\* again makes no second token, unless the 400 passes on an error of GitHub.
\* Only a 500, a GitHub error and no answer at all leave it open.
StatusTells(e) ==
  /\ Status(e.outcome) = 200 => e.tokens = 1
  /\ Status(e.outcome) = 400 /\ e.outcome # "GitHubError" => e.tokens = 0

StatusTellsOutcome ==
  \A h \in Handlers : At(h, "answered") => StatusTells(exchange[h])

\* What a caller is entitled to: from GitHub, named permissions of named
\* repositories, if each repository has some visibility with which the policy
\* allows it all of them; from a silo, a token of a permitted lifetime, if the
\* policy allows it to deploy there.
Entitled(jwt, request) ==
  LET principal == WorkflowRun(jwt.claims)
      body == request.body
  IN
  /\ Audience \in jwt.aud
  /\ HasPrincipal(jwt.claims)
  /\ IF request.service = "oxide"
     THEN /\ DurationError(body.duration) = Nothing
          /\ Authorized(principal, Deploy, SiloEntity(Canonical[body.silo]))
     ELSE /\ Parses(body) /\ body.permissions # << >>
          /\ \A repo \in Range(body.repositories) : \E visibility \in Visibilities :
               \A permission \in Range(body.permissions) :
                 Authorized(principal, permission, RepositoryEntity(repo, visibility))

Verdict(outcome) ==
  IF outcome = "token" THEN "token"
  ELSE IF Status(outcome) = 400 /\ outcome # "GitHubError" THEN "no token" ELSE "open"

\* An exchange as its caller sees it.
JobOf(e) ==
  IF e = Nothing THEN Nothing
  ELSE [caller |-> e.jwt, request |-> e.request, tokens |-> e.tokens,
        verdict |-> IF e.stage = "answered" THEN Verdict(e.outcome) ELSE Nothing]

Promise == INSTANCE TokenExchange WITH
  Callers <- Jwts,
  Requests <- TokenRequest,
  Entitlements <- {pair \in Jwts \X TokenRequest : Entitled(pair[1], pair[2])},
  job <- [h \in Handlers |-> JobOf(exchange[h])]

ASSUME NothingIsNoJob == Nothing \notin Promise!Job \cup Promise!Verdicts

\* The endpoint keeps its promise: every exchange makes at most one token, for
\* an entitled caller and before the answer, whose status tells of it.  The
\* requests it makes, and the tokens that read metadata, do not show.
KeepsPromise == Promise!Spec

\* An exchange of a fair handler is answered even if every request of the
\* other handlers hangs: nobody waits for the visibility another one fetches.
Responds ==
  \A h \in FairHandlers : exchange[h] # Nothing ~> exchange[h] = Nothing

\* The requests that a call of get and a device flow still make.
CallSteps(c) == [orgs |-> 3, users |-> 2, mint |-> 1, done |-> 0][c.stage]
LoginSteps(l) == [auth |-> 3, confirm |-> 2, token |-> 1, done |-> 0][l.stage]

TurnsLeft(e) == Len(e.request.body.repositories) - e.next

\* The steps an exchange still takes at the most: seven for each repository,
\* of which four are requests to GitHub, and five for the token.
StepsOf(e, c, f, l) ==
  IF e = Nothing THEN 0 ELSE
  CASE e.stage = "lookup" -> 7 * TurnsLeft(e) + 12
    [] e.stage = "fetch" -> 7 * TurnsLeft(e) + 8 + CallSteps(c)
    [] e.stage = "repo" -> 7 * TurnsLeft(e) + (IF f.answer = Nothing THEN 7 ELSE 6)
    [] e.stage = "mint" -> 2 + CallSteps(c)
    [] e.stage = "silo" -> 2 + LoginSteps(l)
    [] OTHER -> 1

StepsLeft(h) == StepsOf(exchange[h], call[h], fetch[h], login[h])

\* Nothing is retried, polled or started over: every step of an exchange is
\* one of the few that it has left, and what the other handlers and the
\* services do adds none.
StepsRunOut ==
  [][\A h \in Handlers : exchange[h] # Nothing =>
       /\ StepsLeft(h)' <= StepsLeft(h)
       /\ Progress(h) => StepsLeft(h)' < StepsLeft(h)]_exchangeVars
----------------------------------------------------------------------------
(* The inductive invariant behind the three safety properties.  e, c, f and *)
(* l are what a handler has in exchange, call, fetch and login.             *)

\* A handler awaits the requests that its stage is for and no other one, and
\* they are about the repository that the loop is at.
AwaitsFit(e, c, f, l) ==
  LET at(stages) == e # Nothing /\ e.stage \in stages IN
  /\ c # Nothing <=> at({"fetch", "mint"})
  /\ f # Nothing <=> at({"fetch", "repo"})
  /\ l # Nothing <=> at({"silo"})
  /\ f # Nothing => f.repository = Current(e)
  /\ at({"fetch"}) => c.request = MetadataRequest(Current(e))
  /\ at({"mint"}) => c.request = e.request.body
  /\ at({"silo"}) => l.request = e.request.body

DecidedOn(e, repo) ==
  \E d \in e.decided : d.repository = repo /\ Permitted(e, repo, d.visibility)

\* An exchange that goes on has a JWT for this instance, with a principal.
AdmissionFits(e) ==
  e.stage # "answered" => Audience \in e.jwt.aud /\ HasPrincipal(e.jwt.claims)

\* The repositories that the loop is past were decided, and it is past all of
\* them when the token is minted.
LoopFits(e) ==
  LET request == e.request.body IN
  /\ AdmissionFits(e)
  /\ e.stage \in {"lookup", "fetch", "repo", "mint"} =>
       /\ e.request.service = "github"
       /\ request.permissions # << >>
       /\ e.next \in DOMAIN request.repositories
       /\ \A i \in 1 .. e.next - 1 : DecidedOn(e, request.repositories[i])
  /\ e.stage = "mint" =>
       e.next = Len(request.repositories) /\ DecidedOn(e, Current(e))
  /\ e.stage = "silo" =>
       /\ e.request.service = "oxide"
       /\ Authorized(Principal(e), Deploy, SiloEntity(Canonical[request.silo]))

\* Whether the token exists agrees with the result of get.
MintedFits(e, c, l) ==
  /\ e.tokens \in {0, 1}
  /\ e.stage \in {"lookup", "fetch", "repo"} => e.tokens = 0
  /\ e.stage = "mint" =>
       /\ c.result = "token" => e.tokens = 1
       /\ e.tokens = 1 => c.stage = "done" /\ c.result \in {"token"} \cup RequestErrors
  /\ e.stage = "silo" =>
       /\ l.result = "token" => e.tokens = 1
       /\ e.tokens = 1 => l.stage = "done" /\ l.result \in {"token", "SiloFailed"}
  /\ e.stage = "answered" => StatusTells(e)

Fits(e, c, f, l) ==
  /\ AwaitsFit(e, c, f, l)
  /\ e # Nothing => LoopFits(e) /\ MintedFits(e, c, l)

\* No decision is from the future.
DecisionsFit ==
  \A h \in Handlers : exchange[h] # Nothing =>
    \A d \in exchange[h].decided : d.started <= now

ExchangeInv ==
  /\ ExchangeTypeOK
  /\ CacheInv /\ GitHubInv /\ OxideInv
  /\ \A h \in Handlers : Fits(exchange[h], call[h], fetch[h], login[h])
  /\ DecisionsFit /\ WrongDecisionMeansChange
=============================================================================
