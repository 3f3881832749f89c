----------------------------- MODULE StepsProofs -----------------------------
(* StepsLeft is a variant of the exchange: every step of a handler lowers   *)
(* it, and no step of anybody else raises it.                               *)
EXTENDS ExchangeProofs

----------------------------------------------------------------------------
(* What StepsOf is, stage by stage.                                         *)

LEMMA CallStepsRange ==
  ASSUME NEW c \in Call
  PROVE  /\ CallSteps(c) \in 0 .. 3
         /\ c.stage = "orgs" => CallSteps(c) = 3
         /\ c.stage = "users" => CallSteps(c) = 2
         /\ c.stage = "mint" => CallSteps(c) = 1
         /\ c.stage = "done" => CallSteps(c) = 0
  BY DEF CallSteps, Call, Stages

LEMMA LoginStepsRange ==
  ASSUME NEW l \in Login
  PROVE  /\ LoginSteps(l) \in 0 .. 3
         /\ l.stage = "auth" => LoginSteps(l) = 3
         /\ l.stage = "confirm" => LoginSteps(l) = 2
         /\ l.stage = "token" => LoginSteps(l) = 1
         /\ l.stage = "done" => LoginSteps(l) = 0
  BY DEF LoginSteps, Login

LEMMA TurnsLeftNatural ==
  ASSUME NEW e \in Task, LoopFits(e),
         e.stage \in {"lookup", "fetch", "repo", "mint"}
  PROVE  /\ TurnsLeft(e) \in Nat
         /\ e.next # Len(e.request.body.repositories) => TurnsLeft(e) >= 1
<1> DEFINE repos == e.request.body.repositories
<1>1. repos \in Seq(Seq(Parts)) /\ e.next \in DOMAIN repos
  BY GitHubBody DEF LoopFits
<1>2. PICK n, at : n = Len(repos) /\ at = e.next
  OBVIOUS
<1>3. n \in Nat /\ at \in 1 .. n
  BY <1>1, <1>2
<1> QED BY <1>2, <1>3 DEF TurnsLeft

LEMMA StepsByStage ==
  ASSUME NEW e \in Task, NEW c, NEW f, NEW l
  PROVE  /\ e.stage = "lookup" => StepsOf(e, c, f, l) = 7 * TurnsLeft(e) + 12
         /\ e.stage = "fetch" =>
              StepsOf(e, c, f, l) = 7 * TurnsLeft(e) + 8 + CallSteps(c)
         /\ e.stage = "repo" =>
              StepsOf(e, c, f, l) =
                7 * TurnsLeft(e) + (IF f.answer = Nothing THEN 7 ELSE 6)
         /\ e.stage = "mint" => StepsOf(e, c, f, l) = 2 + CallSteps(c)
         /\ e.stage = "silo" => StepsOf(e, c, f, l) = 2 + LoginSteps(l)
         /\ e.stage = "answered" => StepsOf(e, c, f, l) = 1
  BY NothingIsNoTask DEF StepsOf

LEMMA StepsNatural ==
  ASSUME ExchangeInv, NEW h \in Handlers, exchange[h] # Nothing
  PROVE  StepsLeft(h) \in Nat \ {0}
<1>1. PICK e, c, f, l :
        e = exchange[h] /\ c = call[h] /\ f = fetch[h] /\ l = login[h]
  OBVIOUS
<1>2. e \in Task /\ LoopFits(e) /\ AwaitsFit(e, c, f, l)
  BY <1>1, HandlerFacts
<1>3. c # Nothing => CallSteps(c) \in 0 .. 3
  BY <1>1, CallStepsRange DEF ExchangeInv, GitHubInv, GitHubTypeOK
<1>4. l # Nothing => LoginSteps(l) \in 0 .. 3
  BY <1>1, LoginStepsRange DEF ExchangeInv, OxideInv, OxideTypeOK
<1>5. /\ e.stage \in {"fetch", "mint"} => c # Nothing
      /\ e.stage = "silo" => l # Nothing
      /\ e.stage \in {"lookup", "fetch", "repo", "mint", "silo", "answered"}
  BY <1>2, NothingIsNoTask DEF AwaitsFit, Task
<1>6. e.stage \in {"lookup", "fetch", "repo"} => TurnsLeft(e) \in Nat
  BY <1>2, TurnsLeftNatural
<1>7. StepsOf(e, c, f, l) \in Nat \ {0}
  BY <1>2, <1>3, <1>4, <1>5, <1>6, StepsByStage
<1> QED BY <1>1, <1>7 DEF StepsLeft

----------------------------------------------------------------------------
(* What the others do.                                                      *)

\* A handler whose stages all stay has as many steps left as before.
LEMMA SameSteps ==
  ASSUME ExchangeInv, ExchangeInv', NEW h \in Handlers,
         UNCHANGED <<exchange[h], fetch[h], login[h]>>,
         call'[h] = call[h] \/ (call[h] # Nothing /\ call'[h].stage = call[h].stage)
  PROVE  StepsLeft(h)' = StepsLeft(h)
<1>1. PICK e, f, l, c, d :
        /\ e = exchange[h] /\ f = fetch[h] /\ l = login[h]
        /\ c = call[h] /\ d = call'[h]
  OBVIOUS
<1>2. e = exchange'[h] /\ f = fetch'[h] /\ l = login'[h]
  BY <1>1
<1>3. c = d \/ CallSteps(c) = CallSteps(d)
  BY <1>1 DEF CallSteps
<1>4. StepsOf(e, c, f, l) = StepsOf(e, d, f, l)
  BY <1>3 DEF StepsOf
<1> QED BY <1>1, <1>2, <1>4 DEF StepsLeft

Keeps(g) == UNCHANGED <<exchange[g], call[g], fetch[g], login[g]>>

LEMMA AnswerLocal ==
  ASSUME ExchangeInv, NEW h \in Handlers, NEW outcome,
         Answer(h, outcome) \/ \E stage : MoveTo(h, stage)
  PROVE  \A g \in Handlers \ {h} : exchange'[g] = exchange[g]
  BY DEF ExchangeInv, ExchangeTypeOK, Answer, MoveTo

LEMMA DecideLocal ==
  ASSUME ExchangeInv, NEW h \in Handlers, exchange[h] # Nothing,
         exchange[h].stage \in {"lookup", "repo"},
         NEW visibility, NEW started, Decide(h, visibility, started)
  PROVE  \A g \in Handlers \ {h} : exchange'[g] = exchange[g] /\ call'[g] = call[g]
<1>1. exchange[h].request.body \in TokenRequests
  BY HandlerFacts, CurrentKnown, GitHubBody
<1>2. Get(h, exchange[h].request.body) =>
        \A g \in Handlers \ {h} : call'[g] = call[g]
  BY <1>1, GetStep DEF ExchangeInv
<1>3. \A g \in Handlers \ {h} : exchange'[g] = exchange[g]
  BY DEF ExchangeInv, ExchangeTypeOK, Decide, Answer
<1> QED BY <1>2, <1>3 DEF Decide, gitHubVars

\* A step of one handler leaves alone what the others have.
LEMMA ProgressLocal ==
  ASSUME ExchangeInv, NEW h \in Handlers, Progress(h)
  PROVE  \A g \in Handlers \ {h} : Keeps(g)
<1> USE DEF Keeps, cacheVars, envVars, gitHubVars, oxideVars
<1>1. CacheInv /\ GitHubInv /\ OxideInv
  BY DEF ExchangeInv
<1>2. exchange \in [Handlers -> Task \cup {Nothing}]
  BY DEF ExchangeInv, ExchangeTypeOK
<1>3. CASE LookupHit(h)
  BY <1>3, DecideLocal DEF LookupHit, At
<1>4. CASE LookupMiss(h)
  <2>1. exchange[h] # Nothing /\ exchange[h].stage = "lookup"
    BY <1>4 DEF LookupMiss, At
  <2>2. /\ Current(exchange[h]) \in Repositories
        /\ MetadataRequest(Current(exchange[h])) \in TokenRequests
    BY <2>1, HandlerFacts, CurrentKnown
  <2> QED BY <1>1, <1>4, <2>2, GetStep, FetchSteps, AnswerLocal DEF LookupMiss
<1>5. CASE LookupRefused(h)
  BY <1>5, AnswerLocal DEF LookupRefused
<1>6. CASE MetadataTokenReturns(h) \/ MintReturns(h)
  BY <1>1, <1>6, GetReturnsStep, AnswerLocal DEF MetadataTokenReturns, MintReturns
<1>7. CASE MetadataTokenFails(h)
  BY <1>1, <1>7, GetReturnsStep, FetchSteps, AnswerLocal DEF MetadataTokenFails
<1>8. CASE RepositoryFails(h)
  BY <1>1, <1>8, FetchSteps, AnswerLocal DEF RepositoryFails
<1>9. CASE RepositoryReturns(h)
  BY <1>1, <1>9, FetchSteps, DecideLocal DEF RepositoryReturns, At
<1>10. CASE SiloReturns(h)
  BY <1>1, <1>10, SiloTokenReturnsStep, AnswerLocal DEF SiloReturns
<1>11. CASE Sent(h)
  BY <1>2, <1>11 DEF Sent
<1>12. CASE GitHubActs(h)
  BY <1>1, <1>2, <1>12, LookupAnsweredStep, RequestFailedStep, MintedStep, FetchSteps
     DEF GitHubActs
<1>13. CASE SiloActs(h)
  BY <1>1, <1>2, <1>13, SiloStep, TokenAnsweredStep DEF SiloActs
<1> QED BY <1>3, <1>4, <1>5, <1>6, <1>7, <1>8, <1>9, <1>10, <1>11, <1>12, <1>13
       DEF Progress

----------------------------------------------------------------------------
(* What the handler's own steps do.                                         *)

LEMMA CallLowered ==
  ASSUME GitHubInv, GitHubInv', NEW h \in Handlers,
         LookupAnswered(h) \/ Minted(h) \/ RequestFailed(h)
  PROVE  CallSteps(call'[h]) < CallSteps(call[h])
<1>1. PICK c, d : c = call[h] /\ d = call'[h]
  OBVIOUS
<1>2. /\ c # Nothing /\ c.stage # "done" /\ d # Nothing
      /\ call \in [Handlers -> Call \cup {Nothing}]
  BY <1>1, LookupAnsweredStep, MintedStep, RequestFailedStep
     DEF GitHubInv, GitHubTypeOK
<1>3. c \in Call /\ d \in Call
  BY <1>1, <1>2 DEF GitHubInv, GitHubTypeOK
<1>4. CASE LookupAnswered(h)
  <2>1. \/ c.stage = "orgs" /\ d.stage = "users"
        \/ c.stage = "users" /\ d.stage \in {"mint", "done"}
    <3>1. PICK reply \in LookupReplies(c.stage, Namespace(c.request)) :
            LET found == FindInstallation(c.found, reply)
                missing == c.stage = "users" /\ found = Nothing
            IN  call' = [call EXCEPT ![h] = [c EXCEPT
                  !.found = found,
                  !.stage = IF c.stage = "orgs" THEN "users"
                            ELSE IF missing THEN "done" ELSE "mint",
                  !.result = IF missing THEN "AppNotInstalled" ELSE @]]
      BY <1>1, <1>4 DEF LookupAnswered
    <3>2. PICK found, stage, result :
            /\ \/ c.stage = "orgs" /\ stage = "users"
               \/ c.stage # "orgs" /\ stage \in {"mint", "done"}
            /\ call' = [call EXCEPT ![h] =
                 [c EXCEPT !.found = found, !.stage = stage, !.result = result]]
      BY <3>1, Zenon
    <3>3. d = [c EXCEPT !.found = found, !.stage = stage, !.result = result]
      BY <1>1, <1>2, <3>2
    <3>4. d.stage = stage
      BY <1>3, <3>3 DEF Call
    <3>5. c.stage \in {"orgs", "users"}
      BY <1>1, <1>4 DEF LookupAnswered
    <3> QED BY <3>2, <3>4, <3>5
  <2> QED BY <1>1, <1>3, <2>1, CallStepsRange
<1>5. CASE Minted(h) \/ RequestFailed(h)
  <2>1. d.stage = "done"
    BY <1>1, <1>2, <1>3, <1>5 DEF Minted, RequestFailed, Call
  <2>2. CallSteps(d) = 0 /\ CallSteps(c) > 0
    BY <1>2, <1>3, <2>1, CallStepsRange DEF Call, Stages
  <2> QED BY <1>1, <2>2
<1> QED BY <1>4, <1>5

LEMMA LoginLowered ==
  ASSUME OxideInv, OxideInv', NEW h \in Handlers,
         AuthAnswered(h) \/ ConfirmAnswered(h) \/ TokenAnswered(h) \/ SiloFails(h)
  PROVE  LoginSteps(login'[h]) < LoginSteps(login[h])
<1>1. PICK l, m : l = login[h] /\ m = login'[h]
  OBVIOUS
<1>2. /\ l # Nothing /\ l.stage # "done" /\ m # Nothing
      /\ login \in [Handlers -> Login \cup {Nothing}]
  BY <1>1, SiloStep, TokenAnsweredStep DEF OxideInv, OxideTypeOK
<1>3. l \in Login /\ m \in Login
  BY <1>1, <1>2 DEF OxideInv, OxideTypeOK
<1>4. \/ l.stage = "auth" /\ m.stage = "confirm"
      \/ l.stage = "confirm" /\ m.stage = "token"
      \/ m.stage = "done"
  <2>1. CASE AuthAnswered(h)
    <3>1. PICK code \in Codes :
            login' = [login EXCEPT ![h] = [l EXCEPT !.stage = "confirm", !.code = code]]
      BY <1>1, <2>1 DEF AuthAnswered
    <3>2. l.stage = "auth" /\ m = [l EXCEPT !.stage = "confirm", !.code = code]
      BY <1>1, <1>2, <2>1, <3>1 DEF AuthAnswered
    <3> QED BY <1>3, <3>2 DEF Login
  <2>2. CASE ConfirmAnswered(h)
    BY <1>1, <1>2, <1>3, <2>2 DEF ConfirmAnswered, Login
  <2>3. CASE TokenAnswered(h)
    BY <1>1, <2>3, TokenAnsweredStep
  <2>4. CASE SiloFails(h)
    BY <1>1, <1>2, <1>3, <2>4 DEF SiloFails, Login
  <2> QED BY <2>1, <2>2, <2>3, <2>4
<1>5. l.stage \in {"auth", "confirm", "token"}
  BY <1>2, <1>3 DEF Login
<1> QED BY <1>1, <1>3, <1>4, <1>5, LoginStepsRange

\* One step is left of an exchange that is answered.
LEMMA AnswerSteps ==
  ASSUME ExchangeInv, NEW h \in Handlers, exchange[h] # Nothing,
         NEW outcome \in Results \cup SiloResults \cup {"refused", Nothing},
         Answer(h, outcome)
  PROVE  StepsLeft(h)' = 1
<1>1. PICK e, new : /\ e = exchange[h]
                    /\ new = [e EXCEPT !.stage = "answered", !.outcome = outcome]
  OBVIOUS
<1>2. e \in Task /\ exchange \in [Handlers -> Task \cup {Nothing}]
  BY <1>1, HandlerFacts DEF ExchangeInv, ExchangeTypeOK
<1>3. exchange'[h] = new /\ new \in Task /\ new.stage = "answered"
  BY <1>1, <1>2 DEF Answer, Task
<1>4. StepsOf(new, call'[h], fetch'[h], login'[h]) = 1
  BY <1>3, StepsByStage
<1> QED BY <1>3, <1>4 DEF StepsLeft

LEMMA MoveSteps ==
  ASSUME ExchangeInv, NEW h \in Handlers, exchange[h] # Nothing,
         NEW stage \in {"fetch", "repo"}, MoveTo(h, stage)
  PROVE  /\ exchange'[h] \in Task /\ exchange'[h].stage = stage
         /\ TurnsLeft(exchange'[h]) = TurnsLeft(exchange[h])
<1>1. PICK e, new : e = exchange[h] /\ new = [e EXCEPT !.stage = stage]
  OBVIOUS
<1>2. e \in Task /\ exchange \in [Handlers -> Task \cup {Nothing}]
  BY <1>1, HandlerFacts DEF ExchangeInv, ExchangeTypeOK
<1>3. exchange'[h] = new
  BY <1>1, <1>2 DEF MoveTo
<1>4. /\ new \in Task /\ new.stage = stage /\ new.next = e.next
      /\ new.request = e.request
  BY <1>1, <1>2 DEF Task
<1>5. TurnsLeft(new) = TurnsLeft(e)
  BY <1>4 DEF TurnsLeft
<1> QED BY <1>1, <1>3, <1>4, <1>5

\* A turn of the loop ends with fewer steps left than the six that it still had.
LEMMA DecideSteps ==
  ASSUME ExchangeInv, ExchangeInv', NEW h \in Handlers, exchange[h] # Nothing,
         exchange[h].stage \in {"lookup", "repo"},
         NEW visibility \in Visibilities, NEW started \in Nat,
         Decide(h, visibility, started)
  PROVE  /\ StepsLeft(h)' \in Nat
         /\ StepsLeft(h)' < 7 * TurnsLeft(exchange[h]) + 6
<1>1. PICK e, d : e = exchange[h] /\ d = DecisionOn(e, visibility, started)
  OBVIOUS
<1>2. /\ e \in Task /\ LoopFits(e) /\ e.stage \in {"lookup", "repo"}
      /\ exchange \in [Handlers -> Task \cup {Nothing}]
  BY <1>1, HandlerFacts DEF ExchangeInv, ExchangeTypeOK
<1>3. /\ TurnsLeft(e) \in Nat
      /\ e.next # Len(e.request.body.repositories) => TurnsLeft(e) >= 1
  BY <1>2, TurnsLeftNatural
<1>4. CASE Answer(h, "refused")
  BY <1>1, <1>3, <1>4, AnswerSteps
<1>5. CASE /\ Permitted(e, Current(e), visibility)
           /\ e.next # Len(e.request.body.repositories)
           /\ exchange' = [exchange EXCEPT ![h] = Turned(e, "lookup", e.next + 1, d)]
  <2>1. PICK new : new = Turned(e, "lookup", e.next + 1, d)
    OBVIOUS
  <2>2. new \in Task /\ new.stage = "lookup" /\ new.request = e.request
    BY <1>1, <1>2, <1>5, <2>1, TurnFits
  <2>3. new.next = e.next + 1 /\ e.next \in Nat
    BY <1>2, <2>1 DEF Turned, Task
  <2>4. Len(e.request.body.repositories) \in Nat
    BY <1>2, GitHubBody DEF LoopFits
  <2>5. TurnsLeft(new) = TurnsLeft(e) - 1
    BY <2>2, <2>3, <2>4 DEF TurnsLeft
  <2>6. StepsOf(new, call'[h], fetch'[h], login'[h]) = 7 * TurnsLeft(new) + 12
    BY <2>2, StepsByStage
  <2>7. exchange'[h] = new
    BY <1>2, <1>5, <2>1
  <2> QED BY <1>1, <1>3, <1>5, <2>5, <2>6, <2>7 DEF StepsLeft
<1>6. CASE /\ Permitted(e, Current(e), visibility)
           /\ e.next = Len(e.request.body.repositories)
           /\ exchange' = [exchange EXCEPT ![h] = Turned(e, "mint", e.next, d)]
  <2>1. PICK new : new = Turned(e, "mint", e.next, d)
    OBVIOUS
  <2>2. new \in Task /\ new.stage = "mint"
    BY <1>1, <1>2, <1>6, <2>1, TurnFits
  <2>3. exchange'[h] = new
    BY <1>2, <1>6, <2>1
  <2>4. call'[h] # Nothing /\ call'[h] \in Call
    BY <2>2, <2>3, NothingIsNoTask
       DEF ExchangeInv, Fits, AwaitsFit, GitHubInv, GitHubTypeOK
  <2>5. CallSteps(call'[h]) \in 0 .. 3
    BY <2>4, CallStepsRange
  <2>6. StepsOf(new, call'[h], fetch'[h], login'[h]) = 2 + CallSteps(call'[h])
    BY <2>2, StepsByStage
  <2> QED BY <1>1, <1>3, <2>3, <2>5, <2>6 DEF StepsLeft
<1> QED BY <1>1, <1>4, <1>5, <1>6 DEF Decide, Turned, DecisionOn

\* What a handler has, and how many steps are left of it.
LEMMA Before ==
  ASSUME ExchangeInv, NEW h \in Handlers, exchange[h] # Nothing
  PROVE  LET e == exchange[h] IN
         /\ e \in Task
         /\ e.stage \in {"lookup", "fetch", "repo"} => TurnsLeft(e) \in Nat
         /\ e.stage = "lookup" => StepsLeft(h) = 7 * TurnsLeft(e) + 12
         /\ e.stage = "fetch" =>
              /\ StepsLeft(h) = 7 * TurnsLeft(e) + 8 + CallSteps(call[h])
              /\ CallSteps(call[h]) \in 0 .. 3
              /\ fetch[h] # Nothing
         /\ e.stage = "repo" =>
              StepsLeft(h) = 7 * TurnsLeft(e) + (IF fetch[h].answer = Nothing THEN 7 ELSE 6)
         /\ e.stage = "mint" =>
              StepsLeft(h) = 2 + CallSteps(call[h]) /\ CallSteps(call[h]) \in 0 .. 3
         /\ e.stage = "silo" =>
              StepsLeft(h) = 2 + LoginSteps(login[h]) /\ LoginSteps(login[h]) \in 0 .. 3
         /\ e.stage = "answered" => StepsLeft(h) = 1
<1>1. PICK e, c, f, l :
        e = exchange[h] /\ c = call[h] /\ f = fetch[h] /\ l = login[h]
  OBVIOUS
<1>2. e \in Task /\ LoopFits(e) /\ AwaitsFit(e, c, f, l)
  BY <1>1, HandlerFacts
<1>3. c # Nothing => CallSteps(c) \in 0 .. 3
  BY <1>1, CallStepsRange DEF ExchangeInv, GitHubInv, GitHubTypeOK
<1>4. l # Nothing => LoginSteps(l) \in 0 .. 3
  BY <1>1, LoginStepsRange DEF ExchangeInv, OxideInv, OxideTypeOK
<1>5. /\ e.stage \in {"fetch", "mint"} => c # Nothing
      /\ e.stage = "silo" => l # Nothing
      /\ e.stage = "fetch" => f # Nothing
  BY <1>2, NothingIsNoTask DEF AwaitsFit
<1>6. e.stage \in {"lookup", "fetch", "repo"} => TurnsLeft(e) \in Nat
  BY <1>2, TurnsLeftNatural
<1>7. StepsLeft(h) = StepsOf(e, c, f, l)
  BY <1>1 DEF StepsLeft
<1> QED BY <1>1, <1>2, <1>3, <1>4, <1>5, <1>6, <1>7, StepsByStage

LEMMA LookupSteps ==
  ASSUME ExchangeInv, ExchangeInv', NEW h \in Handlers,
         LookupHit(h) \/ LookupMiss(h) \/ LookupRefused(h)
  PROVE  exchange[h] # Nothing /\ StepsLeft(h)' < StepsLeft(h)
<1>1. PICK e, repo : e = exchange[h] /\ repo = Current(e)
  OBVIOUS
<1>2. exchange[h] # Nothing /\ e.stage = "lookup"
  BY <1>1 DEF LookupHit, LookupMiss, LookupRefused, At
<1>3. TurnsLeft(e) \in Nat /\ StepsLeft(h) = 7 * TurnsLeft(e) + 12
  BY <1>1, <1>2, Before
<1>4. repo \in Repositories /\ MetadataRequest(repo) \in TokenRequests
  BY <1>1, <1>2, HandlerFacts, CurrentKnown
<1>5. CASE LookupHit(h)
  <2>1. /\ cache[repo].visibility \in Visibilities /\ cache[repo].started \in Nat
        /\ Decide(h, cache[repo].visibility, cache[repo].started)
    BY <1>1, <1>4, <1>5
       DEF LookupHit, Hit, ExchangeInv, CacheInv, CacheTypeOK, CachedVisibility
  <2>2. StepsLeft(h)' \in Nat /\ StepsLeft(h)' < 7 * TurnsLeft(e) + 6
    BY <1>1, <1>2, <2>1, DecideSteps
  <2> QED BY <1>2, <1>3, <2>2
<1>6. CASE LookupMiss(h)
  <2>1. call'[h] # Nothing /\ call'[h].stage = "orgs"
    BY <1>1, <1>4, <1>6, GetStep DEF LookupMiss, ExchangeInv
  <2>2. CallSteps(call'[h]) = 3
    BY <2>1, CallStepsRange DEF ExchangeInv, GitHubInv, GitHubTypeOK
  <2>3. /\ exchange'[h] \in Task /\ exchange'[h].stage = "fetch"
        /\ TurnsLeft(exchange'[h]) = TurnsLeft(e)
    BY <1>1, <1>2, <1>6, MoveSteps DEF LookupMiss
  <2>4. StepsLeft(h)' = 7 * TurnsLeft(e) + 8 + 3
    BY <2>2, <2>3, StepsByStage DEF StepsLeft
  <2> QED BY <1>2, <1>3, <2>4
<1>7. CASE LookupRefused(h)
  <2>1. StepsLeft(h)' = 1
    BY <1>2, <1>7, AnswerSteps DEF LookupRefused
  <2> QED BY <1>2, <1>3, <2>1
<1> QED BY <1>5, <1>6, <1>7

LEMMA FetchEndsSteps ==
  ASSUME ExchangeInv, ExchangeInv', NEW h \in Handlers,
         \/ MetadataTokenReturns(h) \/ MetadataTokenFails(h)
         \/ RepositoryFails(h) \/ RepositoryReturns(h)
  PROVE  exchange[h] # Nothing /\ StepsLeft(h)' < StepsLeft(h)
<1>1. PICK e : e = exchange[h]
  OBVIOUS
<1>2. exchange[h] # Nothing /\ e.stage \in {"fetch", "repo"}
  BY <1>1 DEF MetadataTokenReturns, MetadataTokenFails, RepositoryFails,
              RepositoryReturns, At
<1>3. CASE MetadataTokenReturns(h)
  <2>1. e.stage = "fetch"
    BY <1>1, <1>3 DEF MetadataTokenReturns, At
  <2>2. /\ exchange'[h] \in Task /\ exchange'[h].stage = "repo"
        /\ TurnsLeft(exchange'[h]) = TurnsLeft(e)
    BY <1>1, <1>2, <1>3, MoveSteps DEF MetadataTokenReturns
  <2>3. StepsLeft(h)' = 7 * TurnsLeft(e) + (IF fetch'[h].answer = Nothing THEN 7 ELSE 6)
    BY <2>2, StepsByStage DEF StepsLeft
  <2>4. /\ TurnsLeft(e) \in Nat /\ CallSteps(call[h]) \in 0 .. 3
        /\ StepsLeft(h) = 7 * TurnsLeft(e) + 8 + CallSteps(call[h])
    BY <1>1, <1>2, <2>1, Before
  <2> QED BY <1>2, <2>3, <2>4
<1>4. CASE MetadataTokenFails(h) \/ RepositoryFails(h)
  <2>1. StepsLeft(h)' = 1
    BY <1>2, <1>4, AnswerSteps DEF MetadataTokenFails, RepositoryFails
  <2>2. StepsLeft(h) \in Nat /\ StepsLeft(h) >= 6
    BY <1>1, <1>2, Before
  <2> QED BY <1>2, <2>1, <2>2
<1>5. CASE RepositoryReturns(h)
  <2>1. e.stage = "repo" /\ fetch[h] # Nothing /\ fetch[h].answer # Nothing
    BY <1>1, <1>5 DEF RepositoryReturns, At, CacheInsert
  <2>2. fetch[h].answer \in Visibilities /\ fetch[h].started \in Nat
    BY <2>1 DEF ExchangeInv, CacheInv, CacheTypeOK, Fetch
  <2>3. /\ StepsLeft(h)' \in Nat
        /\ StepsLeft(h)' < 7 * TurnsLeft(e) + 6
    BY <1>1, <1>2, <1>5, <2>1, <2>2, DecideSteps DEF RepositoryReturns
  <2>4. TurnsLeft(e) \in Nat /\ StepsLeft(h) = 7 * TurnsLeft(e) + 6
    BY <1>1, <1>2, <2>1, Before
  <2> QED BY <1>2, <2>3, <2>4
<1> QED BY <1>3, <1>4, <1>5

LEMMA EndSteps ==
  ASSUME ExchangeInv, ExchangeInv', NEW h \in Handlers,
         MintReturns(h) \/ SiloReturns(h) \/ Sent(h)
  PROVE  exchange[h] # Nothing /\ StepsLeft(h)' < StepsLeft(h)
<1>1. CASE MintReturns(h)
  <2>1. /\ exchange[h] # Nothing /\ exchange[h].stage = "mint" /\ call[h] # Nothing
        /\ Answer(h, call[h].result)
    BY <1>1 DEF MintReturns, At, GetReturns
  <2>2. call[h].result \in Results \cup {Nothing}
    BY <2>1 DEF ExchangeInv, GitHubInv, GitHubTypeOK, Call
  <2> QED BY <2>1, <2>2, AnswerSteps, Before
<1>2. CASE SiloReturns(h)
  <2>1. /\ exchange[h] # Nothing /\ exchange[h].stage = "silo" /\ login[h] # Nothing
        /\ Answer(h, login[h].result)
    BY <1>2 DEF SiloReturns, At, SiloTokenReturns
  <2>2. login[h].result \in SiloResults \cup {Nothing}
    BY <2>1 DEF ExchangeInv, OxideInv, OxideTypeOK, Login
  <2> QED BY <2>1, <2>2, AnswerSteps, Before
<1>3. CASE Sent(h)
  <2>1. exchange[h] # Nothing /\ exchange[h].stage = "answered"
    BY <1>3 DEF Sent, At
  <2>2. exchange'[h] = Nothing
    BY <1>3 DEF Sent, ExchangeInv, ExchangeTypeOK
  <2>3. StepsLeft(h)' = 0
    BY <2>2 DEF StepsLeft, StepsOf
  <2> QED BY <2>1, <2>3, Before
<1> QED BY <1>1, <1>2, <1>3

\* A service answers: the stage of the exchange stays, and of its call, flow or
\* fetch one request fewer is left.
LEMMA ActsSteps ==
  ASSUME ExchangeInv, ExchangeInv', NEW h \in Handlers,
         GitHubActs(h) \/ SiloActs(h)
  PROVE  exchange[h] # Nothing /\ StepsLeft(h)' < StepsLeft(h)
<1>1. PICK e, new : e = exchange[h] /\ new = exchange'[h]
  OBVIOUS
<1> DEFINE Stays ==
      /\ e # Nothing /\ new \in Task /\ new.stage = e.stage
      /\ TurnsLeft(new) = TurnsLeft(e)
<1>2. ASSUME e # Nothing,
             \/ exchange' = exchange
             \/ exchange' = [exchange EXCEPT ![h].tokens = @ + 1]
      PROVE  Stays
  <2>1. e \in Task /\ exchange \in [Handlers -> Task \cup {Nothing}]
    BY <1>1, <1>2, HandlerFacts DEF ExchangeInv, ExchangeTypeOK
  <2>2. new = e \/ new = [e EXCEPT !.tokens = @ + 1]
    BY <1>1, <1>2, <2>1
  <2>3. /\ new \in Task /\ new.stage = e.stage /\ new.next = e.next
        /\ new.request = e.request
    BY <2>1, <2>2 DEF Task
  <2> QED BY <1>2, <2>3 DEF TurnsLeft
<1>3. CASE \/ LookupAnswered(h) /\ exchange' = exchange
           \/ RequestFailed(h) /\ exchange' = exchange
           \/ /\ Minted(h)
              /\ exchange' = [exchange EXCEPT ![h].tokens =
                                IF exchange[h].stage = "mint" THEN @ + 1 ELSE @]
  <2>1. call[h] # Nothing
    BY <1>3 DEF LookupAnswered, RequestFailed, Minted
  <2>2. e # Nothing /\ e.stage \in {"fetch", "mint"}
    BY <1>1, <2>1 DEF ExchangeInv, Fits, AwaitsFit
  <2>3. \/ exchange' = exchange
        \/ exchange' = [exchange EXCEPT ![h].tokens = @ + 1]
    <3>1. e \in Task /\ exchange \in [Handlers -> Task \cup {Nothing}]
      BY <1>1, <2>2, HandlerFacts DEF ExchangeInv, ExchangeTypeOK
    <3>2. [exchange EXCEPT ![h].tokens = exchange[h].tokens] = exchange
      BY <1>1, <3>1 DEF Task
    <3> QED BY <1>3, <3>2
  <2>4. Stays
    BY <1>2, <2>2, <2>3
  <2>5. CallSteps(call'[h]) < CallSteps(call[h]) /\ CallSteps(call'[h]) \in 0 .. 3
    <3>1. call'[h] # Nothing
      BY <1>3, LookupAnsweredStep, RequestFailedStep, MintedStep DEF ExchangeInv
    <3>2. call'[h] \in Call
      BY <3>1 DEF ExchangeInv, GitHubInv, GitHubTypeOK
    <3> QED BY <1>3, <3>2, CallStepsRange, CallLowered DEF ExchangeInv
  <2>6. /\ e.stage = "fetch" =>
             StepsLeft(h)' = 7 * TurnsLeft(e) + 8 + CallSteps(call'[h])
        /\ e.stage = "mint" => StepsLeft(h)' = 2 + CallSteps(call'[h])
    BY <1>1, <2>4, StepsByStage DEF StepsLeft
  <2> QED BY <1>1, <2>2, <2>5, <2>6, Before
<1>4. CASE At(h, "repo") /\ GitHubAnswers(h) /\ UNCHANGED exchange
  <2>1. /\ e # Nothing /\ e.stage = "repo"
        /\ fetch[h] # Nothing /\ fetch[h].answer = Nothing
    BY <1>1, <1>4 DEF At, GitHubAnswers
  <2>2. fetch'[h].answer # Nothing
    <3>1. fetch[h] \in Fetch /\ fetch \in [Handlers -> Fetch \cup {Nothing}]
      BY <2>1 DEF ExchangeInv, CacheInv, CacheTypeOK
    <3>2. /\ fetch'[h].answer = actual[fetch[h].repository]
          /\ actual[fetch[h].repository] \in Visibilities
      BY <1>4, <3>1 DEF GitHubAnswers, Fetch, ExchangeInv, CacheInv, CacheTypeOK
    <3> QED BY <3>2, CacheAssumption
  <2>3. Stays
    BY <1>2, <1>4, <2>1
  <2>4. StepsLeft(h)' = 7 * TurnsLeft(e) + 6
    BY <1>1, <2>1, <2>2, <2>3, StepsByStage DEF StepsLeft
  <2> QED BY <1>1, <2>1, <2>4, Before
<1>5. CASE SiloActs(h)
  <2>1. login[h] # Nothing
    BY <1>5 DEF SiloActs, AuthAnswered, ConfirmAnswered, SiloFails, TokenAnswered
  <2>2. e # Nothing /\ e.stage = "silo"
    BY <1>1, <2>1 DEF ExchangeInv, Fits, AwaitsFit
  <2>3. Stays
    BY <1>2, <1>5, <2>2 DEF SiloActs
  <2>4. LoginSteps(login'[h]) < LoginSteps(login[h]) /\ LoginSteps(login'[h]) \in 0 .. 3
    <3>1. login'[h] # Nothing
      BY <1>5, SiloStep, TokenAnsweredStep DEF SiloActs, ExchangeInv
    <3>2. login'[h] \in Login
      BY <3>1 DEF ExchangeInv, OxideInv, OxideTypeOK
    <3> QED BY <1>5, <3>2, LoginStepsRange, LoginLowered DEF SiloActs, ExchangeInv
  <2>5. StepsLeft(h)' = 2 + LoginSteps(login'[h])
    BY <1>1, <2>2, <2>3, StepsByStage DEF StepsLeft
  <2> QED BY <1>1, <2>2, <2>4, <2>5, Before
<1> QED BY <1>3, <1>4, <1>5 DEF GitHubActs

LEMMA ProgressSteps ==
  ASSUME ExchangeInv, ExchangeInv', NEW h \in Handlers, Progress(h)
  PROVE  exchange[h] # Nothing /\ StepsLeft(h)' < StepsLeft(h)
  BY LookupSteps, FetchEndsSteps, EndSteps, ActsSteps DEF Progress

----------------------------------------------------------------------------
(* Everybody's steps together.                                              *)

LEMMA ServicesSteps ==
  ASSUME ExchangeInv, ExchangeInv', ServicesChange, NEW h \in Handlers
  PROVE  StepsLeft(h)' = StepsLeft(h)
<1>1. UNCHANGED <<exchange[h], fetch[h], login[h]>>
  BY DEF ServicesChange, Environment, cacheVars, oxideVars, ExpireGrant,
         Tick, StepClock, ChangeVisibility
<1>2. call'[h] = call[h] \/ (call[h] # Nothing /\ call'[h].stage = call[h].stage)
  <2>1. CASE UNCHANGED call
    BY <2>1
  <2>2. CASE \E i \in Installations : Uninstall(i)
    <3>1. PICK c : c = call[h]
      OBVIOUS
    <3>2. c # Nothing => c \in Call
      BY <3>1 DEF ExchangeInv, GitHubInv, GitHubTypeOK
    <3>3. call'[h] = c \/ (c # Nothing /\ call'[h] = [c EXCEPT !.steady = FALSE])
      BY <2>2, <3>1 DEF Uninstall
    <3> QED BY <3>1, <3>2, <3>3 DEF Call
  <2> QED BY <2>1, <2>2 DEF ServicesChange, gitHubVars, Install
<1> QED BY <1>1, <1>2, SameSteps

LEMMA OthersSteps ==
  ASSUME ExchangeInv, ExchangeInv', [ExchangeNext]_exchangeVars,
         NEW h \in Handlers, exchange[h] # Nothing, ~Progress(h)
  PROVE  StepsLeft(h)' = StepsLeft(h)
<1>1. CASE UNCHANGED exchangeVars
  BY <1>1, SameSteps DEF exchangeVars, cacheVars, gitHubVars, oxideVars
<1>2. CASE ServicesChange
  BY <1>2, ServicesSteps
<1>3. CASE \E g \in Handlers : Progress(g)
  BY <1>3, ProgressLocal, SameSteps DEF Keeps
<1>4. ASSUME NEW g \in Handlers, NEW jwt \in Jwts, NEW request \in TokenRequest,
             \/ Refuse(g, jwt, request) \/ BeginGitHub(g, jwt, request)
             \/ BeginOxide(g, jwt, request)
      PROVE  StepsLeft(h)' = StepsLeft(h)
  <2>1. exchange[g] = Nothing /\ h # g
    BY <1>4 DEF Refuse, BeginGitHub, BeginOxide, Begin
  <2>2. exchange'[h] = exchange[h]
    BY <1>4, <2>1
       DEF Refuse, BeginGitHub, BeginOxide, Begin, ExchangeInv, ExchangeTypeOK
  <2>3. login'[h] = login[h]
    BY <1>4, <2>1
       DEF Refuse, BeginGitHub, BeginOxide, GetSiloToken, oxideVars,
           ExchangeInv, OxideInv, OxideTypeOK
  <2>4. UNCHANGED <<call[h], fetch[h]>>
    BY <1>4 DEF Refuse, BeginGitHub, BeginOxide, cacheVars, gitHubVars
  <2> QED BY <2>2, <2>3, <2>4, SameSteps
<1> QED BY <1>1, <1>2, <1>3, <1>4 DEF ExchangeNext, Handling

LEMMA StepsAlwaysNatural == ExchangeInv => \A h \in Handlers : StepsLeft(h) \in Nat
  BY StepsNatural DEF StepsLeft, StepsOf

LEMMA StepsNextNatural == ExchangeInv' => \A h \in Handlers : StepsLeft(h)' \in Nat
<1>1. ExchangeInv' => (\A h \in Handlers : StepsLeft(h) \in Nat)'
  BY StepsAlwaysNatural, PTL
<1> QED BY <1>1

LEMMA VariantStep ==
  ExchangeInv /\ ExchangeInv' /\ [ExchangeNext]_exchangeVars =>
    \A h \in Handlers : exchange[h] # Nothing =>
      /\ StepsLeft(h)' <= StepsLeft(h)
      /\ Progress(h) => StepsLeft(h)' < StepsLeft(h)
<1> SUFFICES ASSUME ExchangeInv, ExchangeInv', [ExchangeNext]_exchangeVars,
                    NEW h \in Handlers, exchange[h] # Nothing
             PROVE  /\ StepsLeft(h)' <= StepsLeft(h)
                    /\ Progress(h) => StepsLeft(h)' < StepsLeft(h)
  OBVIOUS
<1>1. CASE Progress(h)
  <2>1. StepsLeft(h)' < StepsLeft(h)
    BY <1>1, ProgressSteps
  <2> QED BY <2>1, StepsAlwaysNatural, StepsNextNatural
<1>2. CASE ~Progress(h)
  BY <1>2, OthersSteps, StepsAlwaysNatural
<1> QED BY <1>1, <1>2

\* Whatever the services answer and however many handlers there are, an
\* exchange runs out of steps: none of them is ever taken twice.
THEOREM ExchangeRunsOut == ExchangeSpec => StepsRunOut
  BY VariantStep, ExchangeInvariant, PTL DEF ExchangeSpec, StepsRunOut
=============================================================================
