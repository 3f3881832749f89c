------------------------- MODULE GitHubTokensProofs -------------------------
(* For every set of handlers, requests and installations: GitHub mints      *)
(* exactly the scope that was requested, and a caller is told that the app  *)
(* is not installed only if that was so during the call.                    *)
EXTENDS GitHubTokens, SequenceTheorems, TLAPS

\* In a request that parses, a repository is its namespace and its name.
LEMMA ParsedRepository ==
  ASSUME NEW request \in TokenRequests, Parses(request),
         NEW i \in DOMAIN request.repositories
  PROVE  request.repositories[i] =
           <<Namespace(request), request.repositories[i][2]>>
<1>1. request.repositories[i] \in Seq(Parts)
  BY GitHubAssumption
<1>2. /\ Len(request.repositories[i]) = 2
      /\ request.repositories[i][1] = Namespace(request)
  BY DEF Parses, RepositoriesParse, Namespace
<1> QED BY <1>1, <1>2

\* Joining the parts of a request that parses gives back its repositories.
LEMMA PartsRejoin ==
  ASSUME NEW request \in TokenRequests, Parses(request)
  PROVE  {<<Namespace(request), name>> : name \in RepositoryNames(request)}
           = Range(request.repositories)
<1> DEFINE repos == request.repositories
<1>1. RepositoryNames(request) = {repos[i][2] : i \in DOMAIN repos}
  BY DEF RepositoryNames, Range
<1>2. Range(repos) = {repos[i] : i \in DOMAIN repos}
  BY DEF Range
<1>3. \A i \in DOMAIN repos : repos[i] = <<Namespace(request), repos[i][2]>>
  BY ParsedRepository
<1>4. {<<Namespace(request), name>> : name \in RepositoryNames(request)}
        = {<<Namespace(request), repos[i][2]>> : i \in DOMAIN repos}
  BY <1>1
<1>5. @ = {repos[i] : i \in DOMAIN repos}
  BY <1>3
<1> QED BY <1>2, <1>4, <1>5

\* In a request that parses no permission is lost to another of its name.
LEMMA PermissionsKept ==
  ASSUME NEW request \in TokenRequests, Parses(request)
  PROVE  Permissions(request) = Range(request.permissions)
<1> DEFINE perms == request.permissions
<1>1. DOMAIN perms \subseteq Int
  BY GitHubAssumption
<1>2. \A i, j \in DOMAIN perms : perms[j].name = perms[i].name => j <= i
  BY <1>1 DEF Parses, PermissionsParse
<1>3. Permissions(request) = {perms[i] : i \in DOMAIN perms}
  BY <1>2 DEF Permissions
<1> QED BY <1>3 DEF Range

\* A token minted for an installation on the request's namespace has the
\* requested scope.
LEMMA MintedScope ==
  ASSUME NEW request \in TokenRequests, Parses(request),
         NEW i \in Installations, InstallationOwner[i] = Namespace(request)
  PROVE  LET t == MintedToken(i, request) IN
         /\ t \in Tokens
         /\ t.repositories = Range(request.repositories)
         /\ request.permissions # << >>
              => t.permissions = Range(request.permissions)
<1>1. ASSUME request.permissions # << >>
      PROVE  Range(request.permissions) # {}
  <2>1. 1 \in DOMAIN request.permissions
    BY <1>1, GitHubAssumption
  <2>2. request.permissions[1] \in Range(request.permissions)
    BY <2>1 DEF Range
  <2> QED BY <2>2
<1>2. Range(request.permissions) \subseteq Permission
  BY GitHubAssumption DEF Range
<1>3. MintedToken(i, request).repositories = Range(request.repositories)
  BY PartsRejoin DEF MintedToken
<1>4. ASSUME NEW repo \in Range(request.repositories)
      PROVE  repo \in Parts \X Parts
  <2>1. PICK j \in DOMAIN request.repositories : repo = request.repositories[j]
    BY DEF Range
  <2>2. repo \in Seq(Parts) /\ Len(repo) = 2
    BY <2>1, GitHubAssumption DEF Parses, RepositoriesParse
  <2>3. repo = <<Namespace(request), repo[2]>>
    BY <2>1, ParsedRepository
  <2>4. repo[1] \in Parts /\ repo[2] \in Parts
    <3>1. 1 \in 1 .. Len(repo) /\ 2 \in 1 .. Len(repo)
      BY <2>2
    <3> QED BY <2>2, <3>1, ElementOfSeq
  <2>5. Namespace(request) = repo[1]
    BY <2>3
  <2> QED BY <2>3, <2>4, <2>5
<1>5. Permissions(request) = Range(request.permissions)
  BY PermissionsKept
<1> QED BY <1>1, <1>2, <1>3, <1>4, <1>5, GitHubAssumption
        DEF MintedToken, Granted, Tokens

\* Initially nobody calls.
LEMMA GitHubInitInv == GitHubInit => GitHubInv
  BY DEF GitHubInit, GitHubInv, GitHubTypeOK, CallsAreConsistent,
         ScopeIsRequested, SteadyIsFound

\* A new call has found nothing, and is steady if the app is installed.
LEMMA GetInv ==
  ASSUME GitHubInv, NEW h \in Handlers, NEW request \in TokenRequests,
         Get(h, request)
  PROVE  GitHubInv'
<1> USE DEF GitHubInv, Get
<1> DEFINE c == [request |-> request, stage |-> "orgs", found |-> Nothing,
                 steady |-> InstallationsOn(Namespace(request)) # {},
                 result |-> Nothing, minted |-> Nothing]
<1>1. c \in Call /\ call' = [call EXCEPT ![h] = c]
  BY DEF Call, Stages
<1>2. GitHubTypeOK'
  BY <1>1 DEF GitHubTypeOK
<1>3. CallsAreConsistent'
  BY <1>1, NothingIsNoCall
     DEF CallsAreConsistent, GitHubTypeOK, Results, Accepts
<1>4. ScopeIsRequested'
  BY <1>1 DEF ScopeIsRequested, GitHubTypeOK
<1>5. SteadyIsFound'
  <2>1. /\ call'[h] = c
        /\ \A g \in Handlers : g # h => call'[g] = call[g]
    BY <1>1 DEF GitHubTypeOK
  <2>2. \A namespace : InstallationsOn(namespace)' = InstallationsOn(namespace)
    BY DEF InstallationsOn
  <2>3. /\ c.stage = "orgs"
        /\ c.steady => InstallationsOn(Namespace(c.request)) # {}
    OBVIOUS
  <2> HIDE DEF c
  <2> QED BY <2>1, <2>2, <2>3 DEF SteadyIsFound
<1> QED BY <1>2, <1>3, <1>4, <1>5

\* What a lookup reports is an installation on the namespace, and the lookup
\* that knows the namespace reports one if there is any.
LEMMA LookupTruthful ==
  ASSUME NEW kind, NEW namespace, NEW reply \in LookupReplies(kind, namespace),
         active \subseteq Installations
  PROVE  /\ reply \in Installations \cup {Nothing}
         /\ reply # Nothing => InstallationOwner[reply] = namespace
         /\ (kind = "orgs") = (namespace \in Organizations)
              /\ InstallationsOn(namespace) # {} => reply # Nothing
  BY GitHubAssumption DEF LookupReplies, InstallationsOn

\* An answered lookup keeps what is known of the installation.
LEMMA LookupAnsweredInv ==
  ASSUME GitHubInv, NEW h \in Handlers, LookupAnswered(h)
  PROVE  GitHubInv'
<1> USE NothingIsNoCall DEF GitHubInv, LookupAnswered
<1> DEFINE c == call[h]
<1>1. PICK reply \in LookupReplies(c.stage, Namespace(c.request)) :
        LET found == FindInstallation(c.found, reply)
            missing == c.stage = "users" /\ found = Nothing
        IN  call' = [call EXCEPT ![h] = [c EXCEPT
              !.found = found,
              !.stage = IF c.stage = "orgs" THEN "users"
                        ELSE IF missing THEN "done" ELSE "mint",
              !.result = IF missing THEN "AppNotInstalled" ELSE @]]
  OBVIOUS
<1> DEFINE found == FindInstallation(c.found, reply)
<1>2. c \in Call
  BY DEF GitHubTypeOK
<1>3. /\ reply \in Installations \cup {Nothing}
      /\ reply # Nothing => InstallationOwner[reply] = Namespace(c.request)
      /\ (c.stage = "orgs") = (Namespace(c.request) \in Organizations)
           /\ InstallationsOn(Namespace(c.request)) # {} => reply # Nothing
  BY LookupTruthful DEF GitHubTypeOK
<1>4. /\ found \in Installations \cup {Nothing}
      /\ found # Nothing => InstallationOwner[found] = Namespace(c.request)
      /\ found = Nothing => c.found = Nothing /\ reply = Nothing
  BY <1>2, <1>3 DEF FindInstallation, Call, CallsAreConsistent
<1>5. /\ call'[h] \in Call
      /\ call'[h].found = found
      /\ call'[h].request = c.request
      /\ call'[h].steady = c.steady
      /\ c.stage = "orgs" => call'[h].stage = "users"
      /\ c.stage = "users" /\ found # Nothing => call'[h].stage = "mint"
      /\ c.stage = "users" /\ found = Nothing
           => call'[h].stage = "done" /\ call'[h].result = "AppNotInstalled"
      /\ ~(c.stage = "users" /\ found = Nothing) => call'[h].result = c.result
      /\ call'[h].minted = c.minted
  BY <1>1, <1>2, <1>4 DEF Call, Stages, Results, GitHubTypeOK
<1>6. \A g \in Handlers : g # h => call'[g] = call[g]
  BY <1>1 DEF GitHubTypeOK
<1>7. GitHubTypeOK'
  BY <1>1, <1>5 DEF GitHubTypeOK
<1>8. CallsAreConsistent'
  BY <1>2, <1>4, <1>5, <1>6 DEF CallsAreConsistent, Stages, Call, Results
<1>9. ScopeIsRequested'
  BY <1>2, <1>5, <1>6, NothingIsNoCall DEF ScopeIsRequested
<1>10. SteadyIsFound'
  <2> SUFFICES ASSUME call'[h] # Nothing, call'[h].steady
               PROVE  /\ InstallationsOn(Namespace(c.request)) # {}
                      /\ \/ found # Nothing
                         \/ call'[h].stage = "orgs"
                         \/ /\ call'[h].stage = "users"
                            /\ Namespace(c.request) \notin Organizations
                         \/ call'[h].result \in RequestErrors
    BY <1>5, <1>6 DEF SteadyIsFound, InstallationsOn
  <2>1. InstallationsOn(Namespace(c.request)) # {}
    BY <1>2, <1>5 DEF SteadyIsFound
  <2>2. CASE c.stage = "orgs"
    BY <2>1, <2>2, <1>3, <1>4, <1>5
  <2>3. CASE c.stage = "users"
    BY <2>1, <2>3, <1>2, <1>3, <1>4, <1>5
       DEF SteadyIsFound, CallsAreConsistent, RequestErrors, Results
  <2> QED BY <2>1, <2>2, <2>3
<1> QED BY <1>7, <1>8, <1>9, <1>10

\* GitHub mints a token of the requested scope.
LEMMA MintedInv ==
  ASSUME GitHubInv, NEW h \in Handlers, Minted(h)
  PROVE  GitHubInv'
<1> USE NothingIsNoCall DEF GitHubInv, Minted
<1> DEFINE c == call[h]
           token == MintedToken(c.found, c.request)
<1>1. c \in Call /\ c.found # Nothing /\ c.found \in Installations
  BY GitHubAssumption DEF GitHubTypeOK
<1>2. /\ Parses(c.request)
      /\ InstallationOwner[c.found] = Namespace(c.request)
      /\ c.request \in TokenRequests
  BY <1>1 DEF CallsAreConsistent, Call
<1>3. /\ token \in Tokens
      /\ token.repositories = Range(c.request.repositories)
      /\ c.request.permissions # << >>
           => token.permissions = Range(c.request.permissions)
  BY <1>1, <1>2, MintedScope
<1>4. PICK result \in {"token"} \cup RequestErrors :
        call' = [call EXCEPT ![h] =
          [c EXCEPT !.stage = "done", !.result = result, !.minted = token]]
  OBVIOUS
<1> HIDE DEF token
<1>5. /\ call'[h] = [c EXCEPT !.stage = "done", !.result = result, !.minted = token]
      /\ call'[h] \in Call
      /\ \A g \in Handlers : g # h => call'[g] = call[g]
  BY <1>1, <1>3, <1>4 DEF GitHubTypeOK, Call, Stages, Results, RequestErrors
<1>6. GitHubTypeOK'
  BY <1>1, <1>4, <1>5 DEF GitHubTypeOK
<1>7. CallsAreConsistent'
  BY <1>1, <1>4, <1>5 DEF CallsAreConsistent, Call, RequestErrors, Results
<1>8. ScopeIsRequested'
  <2>1. call'[h].minted = token /\ call'[h].request = c.request
    BY <1>1, <1>5 DEF Call
  <2> QED BY <2>1, <1>3, <1>5 DEF ScopeIsRequested
<1>9. SteadyIsFound'
  BY <1>1, <1>5 DEF SteadyIsFound, InstallationsOn, Call
<1> QED BY <1>6, <1>7, <1>8, <1>9

\* A failed request only ends the call.
LEMMA RequestFailedInv ==
  ASSUME GitHubInv, NEW h \in Handlers, RequestFailed(h)
  PROVE  GitHubInv'
<1> USE NothingIsNoCall DEF GitHubInv, RequestFailed
<1>1. PICK error \in RequestErrors :
        call' = [call EXCEPT ![h] =
                   [call[h] EXCEPT !.stage = "done", !.result = error]]
  OBVIOUS
<1>2. call[h] \in Call
  BY DEF GitHubTypeOK
<1>3. /\ call'[h] = [call[h] EXCEPT !.stage = "done", !.result = error]
      /\ call'[h] \in Call
      /\ \A g \in Handlers : g # h => call'[g] = call[g]
  BY <1>1, <1>2 DEF GitHubTypeOK, Call, Stages, Results
<1>4. GitHubTypeOK'
  BY <1>1, <1>3 DEF GitHubTypeOK
<1>5. CallsAreConsistent'
  BY <1>2, <1>3 DEF CallsAreConsistent, Call, RequestErrors, Results
<1>6. ScopeIsRequested'
  BY <1>2, <1>3 DEF ScopeIsRequested, Call
<1>7. SteadyIsFound'
  BY <1>2, <1>3 DEF SteadyIsFound, InstallationsOn, Call
<1> QED BY <1>4, <1>5, <1>6, <1>7

\* The end of a call and changes of the installations.
LEMMA GetReturnsInv ==
  ASSUME GitHubInv, NEW h \in Handlers, GetReturns(h)
  PROVE  GitHubInv'
  BY DEF GitHubInv, GetReturns, GitHubTypeOK, CallsAreConsistent,
         ScopeIsRequested, SteadyIsFound, InstallationsOn

LEMMA InstallInv ==
  ASSUME GitHubInv, NEW i \in Installations, Install(i)
  PROVE  GitHubInv'
  BY DEF GitHubInv, Install, GitHubTypeOK, CallsAreConsistent,
         ScopeIsRequested, SteadyIsFound, InstallationsOn

LEMMA UninstallInv ==
  ASSUME GitHubInv, NEW i \in Installations, Uninstall(i)
  PROVE  GitHubInv'
<1> USE NothingIsNoCall DEF GitHubInv, Uninstall
<1>1. \A h \in Handlers :
        /\ call'[h] = Nothing <=> call[h] = Nothing
        /\ call[h] # Nothing =>
             /\ call'[h] \in Call
             /\ call'[h] = [call[h] EXCEPT !.steady = call'[h].steady]
             /\ call'[h].steady =>
                  /\ call[h].steady
                  /\ Namespace(call[h].request) # InstallationOwner[i]
  BY DEF GitHubTypeOK, Call
<1>2. GitHubTypeOK'
  BY <1>1 DEF GitHubTypeOK
<1>3. CallsAreConsistent'
  BY <1>1 DEF CallsAreConsistent, GitHubTypeOK, Call
<1>4. ScopeIsRequested'
  BY <1>1 DEF ScopeIsRequested, GitHubTypeOK, Call
<1>5. SteadyIsFound'
  BY <1>1 DEF SteadyIsFound, GitHubTypeOK, Call, InstallationsOn
<1> QED BY <1>2, <1>3, <1>4, <1>5

\* Every step preserves the invariant.
LEMMA GitHubNextInv == GitHubInv /\ [GitHubNext]_gitHubVars => GitHubInv'
<1> SUFFICES ASSUME GitHubInv, [GitHubNext]_gitHubVars
             PROVE  GitHubInv'
  OBVIOUS
<1>1. CASE UNCHANGED gitHubVars
  BY <1>1 DEF gitHubVars, GitHubInv, GitHubTypeOK, CallsAreConsistent,
              ScopeIsRequested, SteadyIsFound, InstallationsOn
<1>2. CASE GitHubNext
  BY <1>2, GetInv, LookupAnsweredInv, MintedInv, RequestFailedInv,
     GetReturnsInv, InstallInv, UninstallInv DEF GitHubNext
<1> QED BY <1>1, <1>2

\* The inductive invariant of get and of GitHub's installations.
THEOREM GitHubInvariant == GitHubSpec => []GitHubInv
  BY GitHubInitInv, GitHubNextInv, PTL DEF GitHubSpec

\* The scope GitHub grants is the scope of the strings in the request.
THEOREM GrantedScope == GitHubSpec => []ScopeIsRequested
<1>1. GitHubInv => ScopeIsRequested
  BY DEF GitHubInv
<1> QED BY <1>1, GitHubInvariant, PTL

LEMMA InvImpliesNotInstalled == GitHubInv => NotInstalledIsTrue
  BY NothingIsNoCall
     DEF GitHubInv, CallsAreConsistent, SteadyIsFound, NotInstalledIsTrue,
         GitHubTypeOK, Call, RequestErrors, Results, Stages

\* AppNotInstalled is never reported of an app that was installed throughout.
THEOREM NotInstalledReports == GitHubSpec => []NotInstalledIsTrue
  BY InvImpliesNotInstalled, GitHubInvariant, PTL

----------------------------------------------------------------------------
(* GitHubTokens implements TokenService.                                    *)

callsSeen == [h \in Handlers |-> CallSeen(call[h])]

\* What one call's step shows.
LEMMA CallSeenStep ==
  ASSUME GitHubInv, NEW h \in Handlers, NEW c, call' = [call EXCEPT ![h] = c]
  PROVE  callsSeen' = [callsSeen EXCEPT ![h] = CallSeen(c)]
<1>1. call'[h] = c /\ \A g \in Handlers \ {h} : call'[g] = call[g]
  BY DEF GitHubInv, GitHubTypeOK
<1>2. callsSeen' = [g \in Handlers |-> CallSeen(call'[g])]
  BY DEF callsSeen, CallSeen
<1>3. \A g \in Handlers : callsSeen'[g] = IF g = h THEN CallSeen(c) ELSE callsSeen[g]
  BY <1>1, <1>2 DEF callsSeen
<1>4. callsSeen' = [g \in Handlers |-> IF g = h THEN CallSeen(c) ELSE callsSeen[g]]
  BY <1>2, <1>3
<1> QED BY <1>4 DEF callsSeen

\* What is seen of a call.
LEMMA CallSeenFacts ==
  ASSUME NEW c \in Call
  PROVE  /\ CallSeen(c) # Nothing
         /\ CallSeen(c).request = c.request /\ CallSeen(c).token = c.minted
         /\ c.result = Nothing => CallSeen(c).verdict = Nothing
         /\ c.result = "token" => CallSeen(c).verdict = "token"
         /\ c.result = "AppNotInstalled" => CallSeen(c).verdict = "refused"
         /\ c.result \in RequestErrors => CallSeen(c).verdict = "error"
         /\ c.result # Nothing => CallSeen(c).verdict # Nothing
<1>1. c # Nothing
  BY NothingIsNoCall
<1>2. PICK v : v = IF c.result = "AppNotInstalled" THEN "refused"
                   ELSE IF c.result \in RequestErrors THEN "error" ELSE c.result
  OBVIOUS
<1>3. PICK seen : seen = [request |-> c.request, token |-> c.minted, verdict |-> v]
  OBVIOUS
<1>4. CallSeen(c) = seen
  BY <1>1, <1>2, <1>3 DEF CallSeen
<1>5. Nothing \notin {"token", "refused", "error", "AppNotInstalled"} \cup RequestErrors
  BY NothingIsNoCall, NothingIsNoCallSeen DEF Results, GitHubService!Verdicts
<1>6. /\ c.result = Nothing => v = Nothing
      /\ c.result = "token" => v = "token"
      /\ c.result = "AppNotInstalled" => v = "refused"
      /\ c.result \in RequestErrors => v = "error"
      /\ c.result # Nothing => v # Nothing
  BY <1>2, <1>5 DEF RequestErrors
<1>7. seen # Nothing
  <2>1. /\ c.request \in TokenRequests /\ c.minted \in Tokens \cup {Nothing}
        /\ c.result \in Results \cup {Nothing}
    BY DEF Call
  <2>2. v \in {"token", "refused", "error", Nothing}
    BY <1>2, <2>1 DEF Results
  <2>3. seen \in GitHubService!Job
    BY <1>3, <2>1, <2>2 DEF GitHubService!Job, GitHubService!Verdicts
  <2> QED BY <2>3, NothingIsNoCallSeen
<1> QED BY <1>3, <1>4, <1>6, <1>7

\* What is minted for a request that parses is what it stands for.
LEMMA MintedIsRequested ==
  ASSUME NEW request \in TokenRequests, Parses(request),
         NEW i \in Installations, InstallationOwner[i] = Namespace(request)
  PROVE  MintedToken(i, request) = RequestedToken(request)
<1>1. Permissions(request) = Range(request.permissions)
  BY PermissionsKept
<1>2. Permissions(request) = {} <=> request.permissions = << >>
  <2>1. request.permissions \in Seq(Permission)
    BY GitHubAssumption
  <2>2. CASE request.permissions = << >>
    BY <1>1, <2>2 DEF Range
  <2>3. CASE request.permissions # << >>
    <3>1. 1 \in DOMAIN request.permissions
      BY <2>1, <2>3
    <3>2. request.permissions[1] \in Range(request.permissions)
      BY <3>1 DEF Range
    <3> QED BY <1>1, <2>3, <3>2
  <2> QED BY <2>2, <2>3
<1> QED BY <1>1, <1>2, PartsRejoin DEF MintedToken, RequestedToken, Granted

LEMMA GetShows ==
  ASSUME GitHubInv, NEW h \in Handlers, NEW request \in TokenRequests,
         Get(h, request)
  PROVE  GitHubService!Ask(h)
<1>1. PICK c : c = [request |-> request, stage |-> "orgs", found |-> Nothing,
                    steady |-> InstallationsOn(Namespace(request)) # {},
                    result |-> Nothing, minted |-> Nothing]
  OBVIOUS
<1>2. c \in Call
  BY <1>1 DEF Call, Stages
<1>3. call[h] = Nothing /\ call' = [call EXCEPT ![h] = c]
  BY <1>1 DEF Get
<1>4. callsSeen' = [callsSeen EXCEPT ![h] = CallSeen(c)] /\ callsSeen[h] = Nothing
  BY <1>3, CallSeenStep DEF callsSeen, CallSeen
<1>5. c.result = Nothing /\ c.minted = Nothing /\ c.request = request
  BY <1>1
<1>6. CallSeen(c) = [request |-> request, token |-> Nothing, verdict |-> Nothing]
  BY <1>2, <1>5, NothingIsNoCall, CallSeenFacts DEF CallSeen, RequestErrors, Results
<1>7. \E r \in TokenRequests, verdict \in {"refused", Nothing} :
        callsSeen' = [callsSeen EXCEPT ![h] =
                        [request |-> r, token |-> Nothing, verdict |-> verdict]]
  BY <1>4, <1>6
<1> QED BY <1>4, <1>7 DEF GitHubService!Ask, callsSeen

\* A step that ends a call without a token.
LEMMA EndShows ==
  ASSUME GitHubInv, NEW h \in Handlers, call[h] # Nothing, call[h].stage # "done",
         NEW c \in Call, call' = [call EXCEPT ![h] = c],
         c.request = call[h].request, c.minted = call[h].minted,
         c.result \in RequestErrors \cup {"AppNotInstalled"}
  PROVE  GitHubService!Fail(h)
<1>1. /\ call[h] \in Call /\ call[h].result = Nothing
  BY DEF GitHubInv, GitHubTypeOK, CallsAreConsistent
<1>2. PICK verdict : verdict = IF c.result = "AppNotInstalled" THEN "refused" ELSE "error"
  OBVIOUS
<1>3. /\ callsSeen[h] = CallSeen(call[h])
      /\ callsSeen[h] # Nothing /\ callsSeen[h].verdict = Nothing
  BY <1>1, CallSeenFacts DEF callsSeen
<1>4. CallSeen(c) = [callsSeen[h] EXCEPT !.verdict = verdict]
  BY <1>1, <1>2, <1>3, NothingIsNoCall DEF CallSeen, RequestErrors
<1>5. callsSeen' = [callsSeen EXCEPT ![h].verdict = verdict]
  <2>1. callsSeen' = [callsSeen EXCEPT ![h] = CallSeen(c)]
    BY CallSeenStep
  <2> QED BY <1>4, <2>1
<1>6. \E v \in {"refused", "error"} : callsSeen' = [callsSeen EXCEPT ![h].verdict = v]
  BY <1>2, <1>5
<1> QED BY <1>3, <1>6 DEF GitHubService!Fail, callsSeen

LEMMA LookupShows ==
  ASSUME GitHubInv, NEW h \in Handlers, LookupAnswered(h)
  PROVE  UNCHANGED callsSeen \/ GitHubService!Fail(h)
<1>1. call[h] # Nothing /\ call[h].stage \in {"orgs", "users"}
  BY DEF LookupAnswered
<1>2. call[h] \in Call /\ call[h].result = Nothing
  BY <1>1 DEF GitHubInv, GitHubTypeOK, CallsAreConsistent
<1>3. PICK reply \in LookupReplies(call[h].stage, Namespace(call[h].request)) :
        LET found == FindInstallation(call[h].found, reply)
            missing == call[h].stage = "users" /\ found = Nothing
        IN  call' = [call EXCEPT ![h] = [call[h] EXCEPT
              !.found = found,
              !.stage = IF call[h].stage = "orgs" THEN "users"
                        ELSE IF missing THEN "done" ELSE "mint",
              !.result = IF missing THEN "AppNotInstalled" ELSE @]]
  BY DEF LookupAnswered
<1>4. PICK found, stage, result :
        /\ found = FindInstallation(call[h].found, reply)
        /\ stage \in {"users", "done", "mint"}
        /\ result \in {"AppNotInstalled", Nothing}
        /\ call' = [call EXCEPT ![h] =
             [call[h] EXCEPT !.found = found, !.stage = stage, !.result = result]]
  BY <1>2, <1>3, Zenon
<1>5. found \in Installations \cup {Nothing}
  BY <1>2, <1>3, <1>4, LookupTruthful DEF GitHubInv, GitHubTypeOK, FindInstallation, Call
<1>6. PICK c : c = [call[h] EXCEPT !.found = found, !.stage = stage, !.result = result]
  OBVIOUS
<1>7. /\ c \in Call /\ c.request = call[h].request
      /\ c.minted = call[h].minted /\ c.result = result
      /\ call' = [call EXCEPT ![h] = c]
  BY <1>2, <1>4, <1>5, <1>6 DEF Call, Stages, Results
<1>8. CASE result = Nothing
  <2>1. CallSeen(c) = CallSeen(call[h])
    BY <1>1, <1>2, <1>7, <1>8, NothingIsNoCall DEF CallSeen
  <2>2. callsSeen' = [callsSeen EXCEPT ![h] = CallSeen(call[h])]
    BY <1>7, <2>1, CallSeenStep
  <2> QED BY <2>2 DEF callsSeen
<1>9. CASE result = "AppNotInstalled"
  BY <1>1, <1>7, <1>9, EndShows
<1> QED BY <1>4, <1>8, <1>9

LEMMA MintedShows ==
  ASSUME GitHubInv, NEW h \in Handlers, Minted(h)
  PROVE  GitHubService!Mint(h)
<1>1. PICK token : token = MintedToken(call[h].found, call[h].request)
  OBVIOUS
<1>2. PICK result \in {"token"} \cup RequestErrors :
        call' = [call EXCEPT ![h] =
          [call[h] EXCEPT !.stage = "done", !.result = result, !.minted = token]]
  BY <1>1 DEF Minted
<1>3. /\ call[h] \in Call /\ call[h] # Nothing /\ call[h].result = Nothing
      /\ call[h].found \in Installations /\ call[h].request \in TokenRequests
      /\ Parses(call[h].request)
      /\ InstallationOwner[call[h].found] = Namespace(call[h].request)
  BY GitHubAssumption
     DEF GitHubInv, GitHubTypeOK, CallsAreConsistent, Minted, Call
<1>4. token = RequestedToken(call[h].request) /\ token \in Tokens
  BY <1>1, <1>3, MintedIsRequested, MintedScope
<1>5. PICK c : c = [call[h] EXCEPT !.stage = "done", !.result = result, !.minted = token]
  OBVIOUS
<1>6. /\ c \in Call /\ c.request = call[h].request /\ c.minted = token
      /\ c.result = result /\ call' = [call EXCEPT ![h] = c]
  BY <1>2, <1>3, <1>4, <1>5 DEF Call, Stages, Results, RequestErrors
<1>7. PICK verdict : verdict = IF result = "token" THEN "token" ELSE "error"
  OBVIOUS
<1>8. /\ callsSeen[h] = CallSeen(call[h]) /\ callsSeen[h] # Nothing
      /\ callsSeen[h].verdict = Nothing
      /\ callsSeen[h].request = call[h].request
  BY <1>3, CallSeenFacts DEF callsSeen
<1>9. CallSeen(c) = [request |-> callsSeen[h].request, token |-> token,
                     verdict |-> verdict]
  <2>1. c # Nothing /\ c.result # "AppNotInstalled"
    BY <1>6, NothingIsNoCall DEF RequestErrors
  <2>2. verdict = IF c.result \in RequestErrors THEN "error" ELSE c.result
    BY <1>6, <1>7 DEF RequestErrors
  <2> QED BY <1>6, <1>8, <2>1, <2>2 DEF CallSeen
<1>10. callsSeen' = [callsSeen EXCEPT ![h] =
                       [request |-> callsSeen[h].request, token |-> token,
                        verdict |-> verdict]]
  BY <1>6, <1>9, CallSeenStep
<1>11. PICK scopes :
         scopes = [request \in TokenRequests |-> {RequestedToken(request)}]
  OBVIOUS
<1>12. token \in scopes[callsSeen[h].request] /\ verdict \in {"token", "error"}
  BY <1>3, <1>4, <1>7, <1>8, <1>11
<1>13. \E t \in scopes[callsSeen[h].request], v \in {"token", "error"} :
         callsSeen' = [callsSeen EXCEPT ![h] =
                         [request |-> callsSeen[h].request, token |-> t, verdict |-> v]]
  BY <1>10, <1>12
<1> QED BY <1>8, <1>11, <1>13 DEF GitHubService!Mint, callsSeen

LEMMA FailedShows ==
  ASSUME GitHubInv, NEW h \in Handlers, RequestFailed(h)
  PROVE  GitHubService!Fail(h)
<1>1. PICK error \in RequestErrors :
        call' = [call EXCEPT ![h] = [call[h] EXCEPT !.stage = "done", !.result = error]]
  BY DEF RequestFailed
<1>2. PICK c : c = [call[h] EXCEPT !.stage = "done", !.result = error]
  OBVIOUS
<1>3. call[h] \in Call /\ call[h] # Nothing /\ call[h].stage # "done"
  BY DEF RequestFailed, GitHubInv, GitHubTypeOK
<1>4. /\ c \in Call /\ c.request = call[h].request
      /\ c.minted = call[h].minted /\ c.result = error
  BY <1>2, <1>3 DEF Call, Stages, Results
<1> QED BY <1>1, <1>2, <1>3, <1>4, EndShows

LEMMA ReturnShows ==
  ASSUME GitHubInv, NEW h \in Handlers, GetReturns(h)
  PROVE  GitHubService!Return(h)
<1>1. /\ call[h] \in Call /\ call[h].result # Nothing
      /\ call' = [call EXCEPT ![h] = Nothing]
  BY DEF GetReturns, GitHubInv, GitHubTypeOK, CallsAreConsistent
<1>2. callsSeen' = [callsSeen EXCEPT ![h] = Nothing]
  <2>1. callsSeen' = [callsSeen EXCEPT ![h] = CallSeen(Nothing)]
    BY <1>1, CallSeenStep
  <2> QED BY <2>1 DEF CallSeen
<1>3. callsSeen[h] # Nothing /\ callsSeen[h].verdict # Nothing
  BY <1>1, CallSeenFacts DEF callsSeen
<1> QED BY <1>2, <1>3 DEF GitHubService!Return, callsSeen

\* What becomes of the installations does not show.
LEMMA UninstallHidden ==
  ASSUME GitHubInv, NEW i \in Installations, Uninstall(i)
  PROVE  UNCHANGED callsSeen
<1>1. ASSUME NEW h \in Handlers
      PROVE  CallSeen(call'[h]) = CallSeen(call[h])
  <2>1. CASE call[h] = Nothing
    BY <2>1 DEF Uninstall
  <2>2. CASE call[h] # Nothing
    <3>1. call[h] \in Call
      BY <2>2 DEF GitHubInv, GitHubTypeOK
    <3>2. call'[h] = call[h] \/ call'[h] = [call[h] EXCEPT !.steady = FALSE]
      BY DEF Uninstall
    <3>3. /\ call'[h] \in Call /\ call'[h].request = call[h].request
          /\ call'[h].minted = call[h].minted /\ call'[h].result = call[h].result
      BY <3>1, <3>2 DEF Call
    <3> QED BY <2>2, <3>3, NothingIsNoCall DEF CallSeen
  <2> QED BY <2>1, <2>2
<1>2. callsSeen' = [h \in Handlers |-> CallSeen(call'[h])]
  BY DEF callsSeen, CallSeen
<1> QED BY <1>1, <1>2 DEF callsSeen

LEMMA GitHubShows ==
  GitHubInv /\ [GitHubNext]_gitHubVars => [GitHubService!Next]_callsSeen
<1> SUFFICES ASSUME GitHubInv, [GitHubNext]_gitHubVars
             PROVE  GitHubService!Next \/ UNCHANGED callsSeen
  OBVIOUS
<1>1. CASE UNCHANGED gitHubVars
  BY <1>1 DEF gitHubVars, callsSeen, CallSeen
<1>2. CASE \E h \in Handlers, request \in TokenRequests : Get(h, request)
  BY <1>2, GetShows DEF GitHubService!Next
<1>3. CASE \E h \in Handlers :
             LookupAnswered(h) \/ Minted(h) \/ RequestFailed(h) \/ GetReturns(h)
  BY <1>3, LookupShows, MintedShows, FailedShows, ReturnShows DEF GitHubService!Next
<1>4. CASE \E i \in Installations : Install(i) \/ Uninstall(i)
  <2>1. \A i \in Installations : Install(i) => UNCHANGED callsSeen
    BY DEF Install, callsSeen, CallSeen
  <2> QED BY <1>4, <2>1, UninstallHidden
<1> QED BY <1>1, <1>2, <1>3, <1>4 DEF GitHubNext

LEMMA GitHubInitShows == GitHubInit => GitHubService!Init
  BY DEF GitHubInit, GitHubService!Init, CallSeen

\* Whatever GitHub does meanwhile, a call of get makes at most one token, of the
\* requested scope, as its last act.
THEOREM GitHubImplements == GitHubSpec => GitHubServes
  BY GitHubInitShows, GitHubShows, GitHubInvariant, PTL
     DEF GitHubSpec, GitHubServes, GitHubService!Spec, callsSeen
=============================================================================
