--------------------------- MODULE PromiseProofs ---------------------------
(* Exchange implements TokenExchange: every step of the endpoint is a step  *)
(* of the promise, or does not show.                                        *)
EXTENDS ExchangeProofs

jobs == [h \in Handlers |-> JobOf(exchange[h])]

\* What one handler's step shows.
LEMMA JobsStep ==
  ASSUME ExchangeInv, NEW h \in Handlers, NEW e,
         exchange' = [exchange EXCEPT ![h] = e]
  PROVE  jobs' = [jobs EXCEPT ![h] = JobOf(e)]
<1>1. exchange \in [Handlers -> Task \cup {Nothing}]
  BY DEF ExchangeInv, ExchangeTypeOK
<1>2. exchange'[h] = e /\ \A g \in Handlers \ {h} : exchange'[g] = exchange[g]
  BY <1>1
<1>3. jobs' = [g \in Handlers |-> JobOf(exchange'[g])]
  BY DEF jobs, JobOf
<1>4. \A g \in Handlers : jobs'[g] = IF g = h THEN JobOf(e) ELSE jobs[g]
  BY <1>2, <1>3 DEF jobs
<1>5. jobs' = [g \in Handlers |-> IF g = h THEN JobOf(e) ELSE jobs[g]]
  BY <1>3, <1>4
<1> QED BY <1>5 DEF jobs

LEMMA JobFacts ==
  ASSUME NEW e \in Task
  PROVE  /\ JobOf(e) \in Promise!Job /\ JobOf(e) # Nothing
         /\ JobOf(e).caller = e.jwt /\ JobOf(e).request = e.request
         /\ JobOf(e).tokens = e.tokens
         /\ e.stage # "answered" => JobOf(e).verdict = Nothing
         /\ e.stage = "answered" => JobOf(e).verdict = Verdict(e.outcome)
         /\ Verdict(e.outcome) \in {"token", "no token", "open"}
         /\ Verdict(e.outcome) # Nothing
<1>1. e # Nothing
  BY NothingIsNoTask
<1>2. /\ Verdict(e.outcome) \in {"token", "no token", "open"}
      /\ Verdict(e.outcome) # Nothing
  BY NothingIsNoJob DEF Verdict, Promise!Verdicts
<1>3. PICK v : v = IF e.stage = "answered" THEN Verdict(e.outcome) ELSE Nothing
  OBVIOUS
<1>4. PICK j : j = [caller |-> e.jwt, request |-> e.request, tokens |-> e.tokens,
                    verdict |-> v]
  OBVIOUS
<1>5. JobOf(e) = j
  BY <1>1, <1>3, <1>4 DEF JobOf
<1>6. v \in {"token", "no token", "open", Nothing}
  BY <1>2, <1>3
<1>7. j \in Promise!Job
  BY <1>4, <1>6 DEF Task, Promise!Job, Promise!Verdicts
<1>8. /\ j.caller = e.jwt /\ j.request = e.request
      /\ j.tokens = e.tokens /\ j.verdict = v
  BY <1>4
<1> QED BY <1>2, <1>3, <1>5, <1>7, <1>8, NothingIsNoJob

----------------------------------------------------------------------------
(* The steps that show.                                                     *)

\* An exchange that is answered concludes: its status fits its tokens.
LEMMA AnswerShows ==
  ASSUME ExchangeInv, ExchangeInv', NEW h \in Handlers, exchange[h] # Nothing,
         exchange[h].stage # "answered",
         NEW outcome \in Results \cup SiloResults \cup {"refused", Nothing},
         Answer(h, outcome)
  PROVE  Promise!Conclude(h)
<1>1. PICK e, new : /\ e = exchange[h]
                    /\ new = [e EXCEPT !.stage = "answered", !.outcome = outcome]
  OBVIOUS
<1>2. e \in Task
  BY <1>1, HandlerFacts
<1>3. exchange' = [exchange EXCEPT ![h] = new]
  BY <1>1 DEF Answer
<1>4. new.stage = "answered" /\ new.jwt = e.jwt /\ new.request = e.request
      /\ new.tokens = e.tokens /\ new.outcome = outcome
  BY <1>1, <1>2 DEF Task
<1>5. exchange'[h] = new
  BY <1>3 DEF ExchangeInv, ExchangeTypeOK
<1>6. new \in Task
  BY <1>1, <1>2 DEF Task
<1>7. StatusTells(new)
  BY <1>4, <1>5, <1>6, NothingIsNoTask DEF ExchangeInv, Fits, MintedFits
<1>8. jobs' = [jobs EXCEPT ![h] = JobOf(new)]
  BY <1>3, JobsStep
<1>9. JobOf(new) = [JobOf(e) EXCEPT !.verdict = Verdict(outcome)]
  BY <1>1, <1>2, <1>4, <1>6, NothingIsNoTask DEF JobOf
<1>10. /\ Verdict(outcome) = "token" => e.tokens = 1
       /\ Verdict(outcome) = "no token" => e.tokens = 0
       /\ Verdict(outcome) \in {"token", "no token", "open"}
  BY <1>4, <1>7 DEF StatusTells, Verdict, Status
<1>11. /\ jobs[h] = JobOf(e) /\ jobs[h] # Nothing
       /\ jobs[h].verdict = Nothing /\ jobs[h].tokens = e.tokens
  BY <1>1, <1>2, JobFacts DEF jobs
<1> QED BY <1>8, <1>9, <1>10, <1>11 DEF Promise!Conclude, Promise!Verdicts, jobs

LEMMA BeginShows ==
  ASSUME ExchangeInv, NEW h \in Handlers, NEW jwt \in Jwts,
         NEW request \in TokenRequest, NEW stage \in {"lookup", "silo", "answered"},
         NEW outcome \in {"refused", Nothing},
         \/ stage = "answered" /\ outcome = "refused"
         \/ stage # "answered" /\ outcome = Nothing,
         Begin(h, jwt, request, stage, outcome)
  PROVE  Promise!Accept(h)
<1>1. PICK e : e = Beginning(jwt, request, stage, outcome)
  OBVIOUS
<1>2. e \in Task /\ exchange[h] = Nothing /\ exchange' = [exchange EXCEPT ![h] = e]
  BY <1>1 DEF Begin, Beginning, Task
<1>3. PICK verdict : verdict = IF stage = "answered" THEN "no token" ELSE Nothing
  OBVIOUS
<1>4. Verdict("refused") = "no token"
  BY DEF Verdict, Status, Exposed
<1>5. JobOf(e) = [caller |-> jwt, request |-> request, tokens |-> 0,
                  verdict |-> verdict]
  BY <1>1, <1>2, <1>3, <1>4, NothingIsNoTask DEF JobOf, Beginning
<1>6. jobs' = [jobs EXCEPT ![h] = JobOf(e)] /\ jobs[h] = Nothing
  BY <1>2, JobsStep DEF jobs, JobOf
<1>7. /\ verdict \in {"no token", Nothing}
      /\ jobs' = [jobs EXCEPT ![h] = [caller |-> jwt, request |-> request,
                                     tokens |-> 0, verdict |-> verdict]]
  BY <1>3, <1>5, <1>6
<1>8. \E caller \in Jwts, req \in TokenRequest, v \in {"no token", Nothing} :
        jobs' = [jobs EXCEPT ![h] = [caller |-> caller, request |-> req,
                                     tokens |-> 0, verdict |-> v]]
  BY <1>7
<1> QED BY <1>6, <1>8 DEF Promise!Accept, jobs

LEMMA SentShows ==
  ASSUME ExchangeInv, NEW h \in Handlers, Sent(h)
  PROVE  Promise!Forget(h)
<1>1. exchange[h] # Nothing /\ exchange[h].stage = "answered"
  BY DEF Sent, At
<1>2. jobs' = [jobs EXCEPT ![h] = Nothing]
  BY JobsStep DEF Sent, JobOf
<1>3. /\ jobs[h] = JobOf(exchange[h])
      /\ JobOf(exchange[h]) # Nothing /\ JobOf(exchange[h]).verdict # Nothing
  BY <1>1, HandlerFacts, JobFacts DEF jobs
<1> QED BY <1>2, <1>3 DEF Promise!Forget, jobs

----------------------------------------------------------------------------
(* A token is minted for an entitled caller.                                *)

LEMMA GitHubEntitled ==
  ASSUME ExchangeInv, NEW h \in Handlers, exchange[h] # Nothing,
         exchange[h].stage = "mint"
  PROVE  Entitled(exchange[h].jwt, exchange[h].request)
<1>1. PICK e, request : e = exchange[h] /\ request = e.request.body
  OBVIOUS
<1>2. /\ e \in Task /\ LoopFits(e) /\ AwaitsFit(e, call[h], fetch[h], login[h])
  BY <1>1, HandlerFacts
<1>3. /\ e.request.service = "github" /\ request.permissions # << >>
      /\ call[h] # Nothing /\ call[h].request = request
      /\ Audience \in e.jwt.aud /\ HasPrincipal(e.jwt.claims)
  BY <1>1, <1>2, NothingIsNoTask DEF LoopFits, AdmissionFits, AwaitsFit
<1>4. Parses(request) /\ request \in TokenRequests
  BY <1>3 DEF ExchangeInv, GitHubInv, GitHubTypeOK, CallsAreConsistent, Call
<1>5. Granted(request) = Range(request.permissions)
  BY <1>3, <1>4, GrantedAsNamed
<1>6. \A repo \in Range(request.repositories) : \E d \in e.decided :
        /\ d.repository = repo
        /\ \A permission \in Granted(request) :
             Authorized(Principal(e), permission, RepositoryEntity(repo, d.visibility))
  BY <1>1, <1>3, InvImpliesAuthorized DEF MintsAreAuthorized, At
<1>7. \A d \in e.decided : d.visibility \in Visibilities
  BY <1>2 DEF Task, Decision
<1>8. \A repo \in Range(request.repositories) : \E visibility \in Visibilities :
        \A permission \in Range(request.permissions) :
          Authorized(WorkflowRun(e.jwt.claims), permission,
                     RepositoryEntity(repo, visibility))
  BY <1>5, <1>6, <1>7 DEF Principal
<1> QED BY <1>1, <1>3, <1>4, <1>8 DEF Entitled

LEMMA OxideEntitled ==
  ASSUME ExchangeInv, NEW h \in Handlers, exchange[h] # Nothing,
         exchange[h].stage = "silo", login[h] # Nothing, login[h].stage # "done"
  PROVE  Entitled(exchange[h].jwt, exchange[h].request)
<1>1. PICK e, request : e = exchange[h] /\ request = e.request.body
  OBVIOUS
<1>2. /\ e \in Task /\ LoopFits(e) /\ AwaitsFit(e, call[h], fetch[h], login[h])
  BY <1>1, HandlerFacts
<1>3. /\ e.request.service = "oxide" /\ login[h].request = request
      /\ Audience \in e.jwt.aud /\ HasPrincipal(e.jwt.claims)
      /\ Authorized(WorkflowRun(e.jwt.claims), Deploy,
                    SiloEntity(Canonical[request.silo]))
  BY <1>1, <1>2, NothingIsNoTask DEF LoopFits, AdmissionFits, AwaitsFit, Principal
<1>4. Rejection(request) = Nothing
  BY <1>3 DEF ExchangeInv, OxideInv, LoginsAreConsistent, LoginConsistent
<1>5. DurationError(request.duration) = Nothing
  BY <1>4, NothingIsNoLogin DEF Rejection, SiloResults, Rejections
<1> QED BY <1>1, <1>3, <1>5 DEF Entitled

LEMMA MintShows ==
  ASSUME ExchangeInv, NEW h \in Handlers, exchange[h] # Nothing,
         exchange[h].stage # "answered", exchange[h].tokens = 0,
         Entitled(exchange[h].jwt, exchange[h].request),
         exchange' = [exchange EXCEPT ![h].tokens = 1]
  PROVE  Promise!Mint(h)
<1>1. PICK e, new : e = exchange[h] /\ new = [e EXCEPT !.tokens = 1]
  OBVIOUS
<1>2. e \in Task /\ exchange' = [exchange EXCEPT ![h] = new]
  BY <1>1, HandlerFacts
<1>3. /\ new \in Task /\ new.stage = e.stage /\ new.jwt = e.jwt
      /\ new.request = e.request /\ new.tokens = 1
  BY <1>1, <1>2 DEF Task
<1>4. JobOf(new) = [JobOf(e) EXCEPT !.tokens = 1]
  BY <1>1, <1>2, <1>3, NothingIsNoTask DEF JobOf
<1>5. jobs' = [jobs EXCEPT ![h] = JobOf(new)]
  BY <1>2, JobsStep
<1>6. /\ jobs[h] = JobOf(e) /\ JobOf(e) # Nothing
      /\ JobOf(e).verdict = Nothing /\ JobOf(e).tokens = 0
      /\ JobOf(e).caller = e.jwt /\ JobOf(e).request = e.request
  BY <1>1, <1>2, JobFacts DEF jobs
<1>7. <<e.jwt, e.request>> \in
        {pair \in Jwts \X TokenRequest : Entitled(pair[1], pair[2])}
  BY <1>1, <1>2 DEF Task
<1> QED BY <1>4, <1>5, <1>6, <1>7 DEF Promise!Mint, jobs

----------------------------------------------------------------------------
(* The steps that do not show, and all of them together.                    *)

LEMMA HiddenStep ==
  ASSUME ExchangeInv, NEW h \in Handlers, exchange[h] # Nothing, NEW e \in Task,
         exchange' = [exchange EXCEPT ![h] = e],
         exchange[h].stage # "answered", e.stage # "answered",
         e.jwt = exchange[h].jwt, e.request = exchange[h].request,
         e.tokens = exchange[h].tokens
  PROVE  UNCHANGED jobs
<1>1. exchange[h] \in Task
  BY HandlerFacts
<1>2. JobOf(e) = JobOf(exchange[h])
  BY <1>1, NothingIsNoTask DEF JobOf
<1>3. jobs' = [jobs EXCEPT ![h] = jobs[h]]
  BY <1>2, JobsStep DEF jobs
<1> QED BY <1>3 DEF jobs

LEMMA MoveHidden ==
  ASSUME ExchangeInv, NEW h \in Handlers, exchange[h] # Nothing,
         exchange[h].stage # "answered", NEW stage \in {"fetch", "repo"},
         MoveTo(h, stage)
  PROVE  UNCHANGED jobs
<1>1. PICK e, new : e = exchange[h] /\ new = [e EXCEPT !.stage = stage]
  OBVIOUS
<1>2. e \in Task /\ exchange' = [exchange EXCEPT ![h] = new]
  BY <1>1, HandlerFacts DEF MoveTo
<1>3. /\ new \in Task /\ new.stage = stage /\ new.jwt = e.jwt
      /\ new.request = e.request /\ new.tokens = e.tokens
  BY <1>1, <1>2 DEF Task
<1> QED BY <1>1, <1>2, <1>3, HiddenStep

LEMMA DecideShows ==
  ASSUME ExchangeInv, ExchangeInv', NEW h \in Handlers, exchange[h] # Nothing,
         exchange[h].stage \in {"lookup", "repo"},
         NEW visibility \in Visibilities, NEW started \in Nat,
         Decide(h, visibility, started)
  PROVE  UNCHANGED jobs \/ Promise!Conclude(h)
<1>1. PICK e, d : e = exchange[h] /\ d = DecisionOn(e, visibility, started)
  OBVIOUS
<1>2. e \in Task /\ LoopFits(e)
  BY <1>1, HandlerFacts
<1>3. CASE Answer(h, "refused")
  BY <1>1, <1>3, AnswerShows
<1>4. ASSUME NEW stage, NEW next, Permitted(e, Current(e), visibility),
             \/ /\ stage = "lookup" /\ e.next # Len(e.request.body.repositories)
                /\ next = e.next + 1
             \/ /\ stage = "mint" /\ e.next = Len(e.request.body.repositories)
                /\ next = e.next,
             exchange' = [exchange EXCEPT ![h] = Turned(e, stage, next, d)]
      PROVE  UNCHANGED jobs
  <2>1. PICK new : new = Turned(e, stage, next, d)
    OBVIOUS
  <2>2. /\ new \in Task /\ new.stage = stage /\ new.tokens = e.tokens
        /\ new.request = e.request
    BY <1>1, <1>2, <1>4, <2>1, TurnFits
  <2>3. new.jwt = e.jwt
    BY <1>2, <2>1 DEF Turned, Task
  <2>4. stage # "answered" /\ exchange[h].stage # "answered"
    BY <1>4
  <2> QED BY <1>1, <1>4, <2>1, <2>2, <2>3, <2>4, HiddenStep
<1>5. \/ Answer(h, "refused")
      \/ /\ Permitted(e, Current(e), visibility)
         /\ e.next # Len(e.request.body.repositories)
         /\ exchange' = [exchange EXCEPT ![h] = Turned(e, "lookup", e.next + 1, d)]
      \/ /\ Permitted(e, Current(e), visibility)
         /\ e.next = Len(e.request.body.repositories)
         /\ exchange' = [exchange EXCEPT ![h] = Turned(e, "mint", e.next, d)]
  BY <1>1 DEF Decide, Turned, DecisionOn
<1> QED BY <1>3, <1>4, <1>5

LEMMA GitHubActsShows ==
  ASSUME ExchangeInv, NEW h \in Handlers, GitHubActs(h)
  PROVE  UNCHANGED jobs \/ Promise!Mint(h)
<1>1. CASE UNCHANGED exchange
  BY <1>1 DEF jobs, JobOf
<1>2. CASE /\ Minted(h)
           /\ exchange' = [exchange EXCEPT ![h].tokens =
                             IF exchange[h].stage = "mint" THEN @ + 1 ELSE @]
  <2>1. call[h] # Nothing /\ call[h].stage # "done"
    BY <1>2, MintedStep DEF ExchangeInv
  <2>2. exchange[h] # Nothing /\ exchange[h].stage \in {"fetch", "mint"}
    BY <2>1 DEF ExchangeInv, Fits, AwaitsFit
  <2>3. exchange[h] \in Task /\ exchange[h].tokens = 0
    BY <2>1, <2>2, HandlerFacts DEF MintedFits
  <2>4. CASE exchange[h].stage = "mint"
    <3>1. exchange' = [exchange EXCEPT ![h].tokens = 1]
      BY <1>2, <2>3, <2>4
    <3> QED BY <2>2, <2>3, <2>4, <3>1, GitHubEntitled, MintShows
  <2>5. CASE exchange[h].stage # "mint"
    <3>1. exchange' = exchange
      BY <1>2, <2>3, <2>5 DEF ExchangeInv, ExchangeTypeOK, Task
    <3> QED BY <3>1, <1>1
  <2> QED BY <2>4, <2>5
<1> QED BY <1>1, <1>2 DEF GitHubActs

LEMMA SiloActsShows ==
  ASSUME ExchangeInv, NEW h \in Handlers, SiloActs(h)
  PROVE  UNCHANGED jobs \/ Promise!Mint(h)
<1>1. CASE UNCHANGED exchange
  BY <1>1 DEF jobs, JobOf
<1>2. CASE /\ TokenAnswered(h)
           /\ exchange' = [exchange EXCEPT ![h].tokens = @ + 1]
  <2>1. login[h] # Nothing /\ login[h].stage # "done"
    BY <1>2, TokenAnsweredStep DEF ExchangeInv
  <2>2. exchange[h] # Nothing /\ exchange[h].stage = "silo"
    BY <2>1 DEF ExchangeInv, Fits, AwaitsFit
  <2>3. exchange[h] \in Task /\ exchange[h].tokens = 0
    BY <2>1, <2>2, HandlerFacts DEF MintedFits
  <2>4. exchange' = [exchange EXCEPT ![h].tokens = 1]
    BY <1>2, <2>3
  <2> QED BY <2>1, <2>2, <2>3, <2>4, OxideEntitled, MintShows
<1> QED BY <1>1, <1>2 DEF SiloActs

LEMMA ProgressShows ==
  ASSUME ExchangeInv, ExchangeInv', NEW h \in Handlers, Progress(h)
  PROVE  UNCHANGED jobs \/ Promise!Mint(h) \/ Promise!Conclude(h) \/ Promise!Forget(h)
<1>1. CASE LookupHit(h)
  <2>1. /\ exchange[h] # Nothing /\ exchange[h].stage = "lookup"
        /\ cache[Current(exchange[h])] # Nothing
    BY <1>1 DEF LookupHit, At, Hit
  <2>2. Current(exchange[h]) \in Repositories
    BY <2>1, HandlerFacts, CurrentKnown
  <2>3. /\ cache[Current(exchange[h])].visibility \in Visibilities
        /\ cache[Current(exchange[h])].started \in Nat
    BY <2>1, <2>2 DEF ExchangeInv, CacheInv, CacheTypeOK, CachedVisibility
  <2> QED BY <1>1, <2>1, <2>3, DecideShows DEF LookupHit
<1>2. CASE LookupMiss(h) \/ MetadataTokenReturns(h)
  BY <1>2, MoveHidden DEF LookupMiss, MetadataTokenReturns, At
<1>3. CASE LookupRefused(h) \/ MetadataTokenFails(h) \/ RepositoryFails(h)
  BY <1>3, AnswerShows DEF LookupRefused, MetadataTokenFails, RepositoryFails, At
<1>4. CASE RepositoryReturns(h)
  <2>1. /\ exchange[h] # Nothing /\ exchange[h].stage = "repo"
        /\ fetch[h] # Nothing /\ fetch[h].answer # Nothing
    BY <1>4 DEF RepositoryReturns, At, CacheInsert
  <2>2. fetch[h].answer \in Visibilities /\ fetch[h].started \in Nat
    BY <2>1 DEF ExchangeInv, CacheInv, CacheTypeOK, Fetch
  <2> QED BY <1>4, <2>1, <2>2, DecideShows DEF RepositoryReturns
<1>5. CASE MintReturns(h)
  <2>1. /\ exchange[h] # Nothing /\ exchange[h].stage = "mint" /\ call[h] # Nothing
    BY <1>5 DEF MintReturns, At, GetReturns
  <2>2. call[h].result \in Results \cup {Nothing}
    BY <2>1 DEF ExchangeInv, GitHubInv, GitHubTypeOK, Call
  <2> QED BY <1>5, <2>1, <2>2, AnswerShows DEF MintReturns
<1>6. CASE SiloReturns(h)
  <2>1. /\ exchange[h] # Nothing /\ exchange[h].stage = "silo" /\ login[h] # Nothing
    BY <1>6 DEF SiloReturns, At, SiloTokenReturns
  <2>2. login[h].result \in SiloResults \cup {Nothing}
    BY <2>1 DEF ExchangeInv, OxideInv, OxideTypeOK, Login
  <2> QED BY <1>6, <2>1, <2>2, AnswerShows DEF SiloReturns
<1>7. CASE Sent(h)
  BY <1>7, SentShows
<1> QED BY <1>1, <1>2, <1>3, <1>4, <1>5, <1>6, <1>7, GitHubActsShows, SiloActsShows
       DEF Progress

LEMMA StepShows ==
  ASSUME ExchangeInv, ExchangeInv', [ExchangeNext]_exchangeVars
  PROVE  [Promise!Next]_jobs
<1>1. CASE UNCHANGED exchangeVars \/ ServicesChange
  BY <1>1 DEF exchangeVars, ServicesChange, jobs, JobOf
<1>2. ASSUME NEW h \in Handlers, NEW jwt \in Jwts, NEW request \in TokenRequest,
             \/ Refuse(h, jwt, request) \/ BeginGitHub(h, jwt, request)
             \/ BeginOxide(h, jwt, request)
      PROVE  Promise!Accept(h)
  BY <1>2, BeginShows DEF Refuse, BeginGitHub, BeginOxide
<1> QED BY <1>1, <1>2, ProgressShows DEF ExchangeNext, Handling, Promise!Next

LEMMA InitShows == ExchangeInit => Promise!Init
  BY DEF ExchangeInit, Promise!Init, JobOf

\* Whatever the requests, policies and services: every exchange makes at most
\* one token, for an entitled caller and before its answer, which tells of it.
THEOREM ExchangeKeepsPromise == ExchangeSpec => KeepsPromise
<1>1. ExchangeInv /\ ExchangeInv' /\ [ExchangeNext]_exchangeVars => [Promise!Next]_jobs
  BY StepShows
<1> QED BY <1>1, InitShows, ExchangeInvariant, PTL
       DEF ExchangeSpec, KeepsPromise, Promise!Spec, jobs

----------------------------------------------------------------------------
(* What the promise means.                                                  *)

\* A caller has at most one token of its exchange, and only if it is entitled
\* to it; the answer tells whether it has, or leaves that open.
JobFair(j) ==
  /\ j.tokens \in {0, 1}
  /\ j.tokens = 1 => Entitled(j.caller, j.request)
  /\ j.verdict \in {"token", "no token", "open", Nothing}
  /\ j.verdict = "token" => j.tokens = 1
  /\ j.verdict = "no token" => j.tokens = 0

JobsAreFair ==
  /\ jobs \in [Handlers -> Promise!Job \cup {Nothing}]
  /\ \A h \in Handlers : jobs[h] # Nothing => JobFair(jobs[h])

LEMMA NoneIsNotOne == 0 # 1
OBVIOUS

LEMMA FreshIsFair ==
  ASSUME NEW j, j.tokens = 0, j.verdict # "token",
         j.verdict \in {"token", "no token", "open", Nothing}
  PROVE  JobFair(j)
BY NoneIsNotOne, Zenon DEF JobFair

LEMMA JobsFairStep ==
  ASSUME JobsAreFair, NEW h \in Handlers, NEW j \in Promise!Job \cup {Nothing},
         jobs' = [jobs EXCEPT ![h] = j], j # Nothing => JobFair(j)
  PROVE  JobsAreFair'
<1>1. PICK old, new : old = jobs /\ new = jobs'
  OBVIOUS
<1>2. /\ old \in [Handlers -> Promise!Job \cup {Nothing}]
      /\ \A g \in Handlers : old[g] # Nothing => JobFair(old[g])
      /\ new = [old EXCEPT ![h] = j]
  BY <1>1 DEF JobsAreFair
<1>3. /\ new \in [Handlers -> Promise!Job \cup {Nothing}]
      /\ \A g \in Handlers : new[g] # Nothing => JobFair(new[g])
  BY <1>2
<1> QED BY <1>1, <1>3 DEF JobsAreFair, JobFair, Entitled

LEMMA JobsFairInit == Promise!Init => JobsAreFair
BY DEF Promise!Init, JobsAreFair, jobs

LEMMA JobsFairNext ==
  ASSUME JobsAreFair, [Promise!Next]_jobs
  PROVE  JobsAreFair'
<1>1. \A h \in Handlers :
        /\ jobs[h] \in Promise!Job \cup {Nothing}
        /\ jobs[h] # Nothing => JobFair(jobs[h])
  BY DEF JobsAreFair
<1>2. ASSUME NEW h \in Handlers, Promise!Accept(h)
      PROVE  JobsAreFair'
  <2>1. PICK caller \in Jwts, request \in TokenRequest, verdict \in {"no token", Nothing} :
          jobs' = [jobs EXCEPT ![h] = [caller |-> caller, request |-> request,
                                       tokens |-> 0, verdict |-> verdict]]
    BY <1>2 DEF Promise!Accept, jobs
  <2>2. PICK j : j = [caller |-> caller, request |-> request,
                      tokens |-> 0, verdict |-> verdict]
    OBVIOUS
  <2>3. j \in Promise!Job
    BY <2>2 DEF Promise!Job, Promise!Verdicts
  <2>4. j.tokens = 0 /\ j.verdict \in {"no token", Nothing}
    BY <2>2
  <2>5. Nothing \notin {"token", "no token", "open"}
    BY NothingIsNoJob DEF Promise!Verdicts
  <2>6. /\ j.tokens = 0 /\ j.verdict # "token"
        /\ j.verdict \in {"token", "no token", "open", Nothing}
    BY <2>4, <2>5
  <2>7. JobFair(j)
    BY <2>6, FreshIsFair
  <2> QED BY <2>1, <2>2, <2>3, <2>7, JobsFairStep
<1>3. ASSUME NEW h \in Handlers, Promise!Mint(h)
      PROVE  JobsAreFair'
  <2>1. /\ jobs[h] # Nothing /\ jobs[h].verdict = Nothing
        /\ <<jobs[h].caller, jobs[h].request>> \in
             {pair \in Jwts \X TokenRequest : Entitled(pair[1], pair[2])}
        /\ jobs' = [jobs EXCEPT ![h].tokens = 1]
    BY <1>3 DEF Promise!Mint, jobs
  <2>2. Entitled(jobs[h].caller, jobs[h].request)
    BY <2>1
  <2>3. PICK old : old = jobs[h]
    OBVIOUS
  <2>4. PICK j : j = [old EXCEPT !.tokens = 1]
    OBVIOUS
  <2>5. jobs' = [jobs EXCEPT ![h] = j]
    BY <2>1, <2>3, <2>4
  <2>6. old \in Promise!Job /\ old.verdict = Nothing
    BY <1>1, <2>1, <2>3
  <2>7. /\ j \in Promise!Job /\ j.tokens = 1 /\ j.verdict = Nothing
        /\ j.caller = old.caller /\ j.request = old.request
    BY <2>4, <2>6 DEF Promise!Job
  <2>8. Nothing \notin {"token", "no token", "open"}
    BY NothingIsNoJob DEF Promise!Verdicts
  <2>9. Entitled(j.caller, j.request)
    BY <2>2, <2>3, <2>7
  <2>10. JobFair(j)
    BY <2>7, <2>8, <2>9 DEF JobFair
  <2> QED BY <2>5, <2>7, <2>10, JobsFairStep
<1>4. ASSUME NEW h \in Handlers, Promise!Conclude(h)
      PROVE  JobsAreFair'
  <2>1. jobs[h] # Nothing
    BY <1>4 DEF Promise!Conclude, jobs
  <2>2. PICK verdict \in {"token", "no token", "open"} :
          /\ verdict = "token" => jobs[h].tokens = 1
          /\ verdict = "no token" => jobs[h].tokens = 0
          /\ jobs' = [jobs EXCEPT ![h].verdict = verdict]
    BY <1>4 DEF Promise!Conclude, Promise!Verdicts, jobs
  <2>3. PICK old : old = jobs[h]
    OBVIOUS
  <2>4. PICK j : j = [old EXCEPT !.verdict = verdict]
    OBVIOUS
  <2>5. jobs' = [jobs EXCEPT ![h] = j]
    BY <2>2, <2>3, <2>4
  <2>6. old \in Promise!Job /\ JobFair(old)
    BY <1>1, <2>1, <2>3
  <2>7. /\ j \in Promise!Job /\ j.tokens = old.tokens /\ j.verdict = verdict
        /\ j.caller = old.caller /\ j.request = old.request
    BY <2>4, <2>6 DEF Promise!Job, Promise!Verdicts
  <2>8. JobFair(j)
    BY <2>2, <2>3, <2>6, <2>7 DEF JobFair
  <2> QED BY <2>5, <2>7, <2>8, JobsFairStep
<1>5. ASSUME NEW h \in Handlers, Promise!Forget(h)
      PROVE  JobsAreFair'
  <2>1. jobs' = [jobs EXCEPT ![h] = Nothing]
    BY <1>5 DEF Promise!Forget, jobs
  <2> QED BY <2>1, JobsFairStep
<1>6. CASE Promise!Crash
  BY <1>6 DEF Promise!Crash, JobsAreFair, jobs
<1>7. CASE UNCHANGED jobs
  BY <1>7 DEF JobsAreFair, JobFair, Entitled
<1> QED BY <1>2, <1>3, <1>4, <1>5, <1>6, <1>7 DEF Promise!Next

\* Whatever keeps the promise, through any interleaving and any crash: a caller
\* gets no second token, none it is not entitled to, and is told no falsehood.
THEOREM PromiseMeans == KeepsPromise => []JobsAreFair
BY JobsFairInit, JobsFairNext, PTL DEF KeepsPromise, Promise!Spec, jobs
=============================================================================
