---------------------------- MODULE GitHubTokens ----------------------------
(***************************************************************************)
(* src/token/github.rs: ParsedGitHubRequest, which validates a token       *)
(* request and splits its strings once, and GitHubTokens::get, which mints *)
(* an installation token for it in three requests to GitHub: the           *)
(* installation of the namespace as an organization, the same as a user,   *)
(* and the token itself.                                                   *)
(*                                                                         *)
(* A repository string is the sequence of its parts between slashes.  A    *)
(* permission string is its part before the first colon, again as parts    *)
(* between slashes, and the rest, or Nothing when it has no colon.         *)
(***************************************************************************)
EXTENDS Common, Integers, Sequences, Functions

CONSTANTS
  TokenRequests,     \* the GitHubTokenRequests that callers pass to get
  Parts,             \* strings between the separators of a request
  Organizations,     \* namespaces that are organizations, not users
  Installations,     \* installation ids of the app
  InstallationOwner, \* the namespace each installation is on
  AppPermissions,    \* every permission the app itself holds
  GitHubConfigured   \* is there a [github] section?

\* A permission as the requests name it.
Permission == [name : Seq(Parts), level : Parts \cup {Nothing}]

ASSUME GitHubAssumption ==
  /\ InstallationOwner \in [Installations -> Parts]
  /\ AppPermissions \subseteq Permission
  /\ GitHubConfigured \in BOOLEAN
  /\ Nothing \notin Installations
  /\ \A request \in TokenRequests :
       /\ request.repositories \in Seq(Seq(Parts))
       /\ request.permissions \in Seq(Permission)

VARIABLES
  call,    \* the call of get each handler awaits, if any
  active   \* GitHub: the installations that exist now

gitHubVars == <<call, active>>

----------------------------------------------------------------------------
(* Faulty variants of definitions below.                                   *)

\* The namespaces of the repositories are not compared.
RepositoriesParseMixing(repositories) ==
  /\ repositories # << >>
  /\ \A i \in DOMAIN repositories : Len(repositories[i]) = 2

\* A permission may be named twice.
PermissionsParseRepeated(permissions) ==
  \A i \in DOMAIN permissions :
    permissions[i].level # Nothing /\ Len(permissions[i].name) = 1

\* Answers to the user lookup overwrite what the organization lookup found.
FindInstallationForgetting(found, reply) == reply

\* The loop over the two kinds of account ends at a 404.
LookupAnsweredBreaking(h) ==
  /\ call[h] # Nothing
  /\ call[h].stage \in {"orgs", "users"}
  /\ \E reply \in {i \in active :
                     InstallationOwner[i] = call[h].request.repositories[1][1]}
                   \cup {Nothing} :
       call' = [call EXCEPT ![h] = [@ EXCEPT
         !.found = reply,
         !.stage = IF reply = Nothing THEN "done" ELSE "mint",
         !.result = IF reply = Nothing THEN "AppNotInstalled" ELSE @]]
  /\ UNCHANGED active

----------------------------------------------------------------------------
(* ParsedGitHubRequest::parse.                                             *)

\* Every repository is namespace/name and all share one namespace; there is
\* at least one.
RepositoriesParse(repositories) ==
  /\ repositories # << >>
  /\ \A i \in DOMAIN repositories :
       /\ Len(repositories[i]) = 2
       /\ repositories[i][1] = repositories[1][1]

\* Every permission is name:level, the name has no slash and occurs once.
PermissionsParse(permissions) ==
  /\ \A i \in DOMAIN permissions :
       permissions[i].level # Nothing /\ Len(permissions[i].name) = 1
  /\ \A i, j \in DOMAIN permissions :
       permissions[i].name = permissions[j].name => i = j

Parses(request) ==
  /\ RepositoriesParse(request.repositories)
  /\ PermissionsParse(request.permissions)

\* What get requires of a request before it sends anything.
Accepts(request) == GitHubConfigured /\ Parses(request)

\* The parsed fields of a request that parses.
Namespace(request) == request.repositories[1][1]
RepositoryNames(request) == {repo[2] : repo \in Range(request.repositories)}
\* The permissions are a map from names to levels: the last one of a name is
\* the one it keeps.
Permissions(request) ==
  {request.permissions[i] : i \in {i \in DOMAIN request.permissions :
     \A j \in DOMAIN request.permissions :
       request.permissions[j].name = request.permissions[i].name => j <= i}}

----------------------------------------------------------------------------
(* GitHub, as the code uses it.                                            *)

InstallationsOn(namespace) ==
  {i \in active : InstallationOwner[i] = namespace}

\* What GET /{kind}/{namespace}/installation reports when it does not fail:
\* the endpoint that fits the namespace knows its installation, the other
\* one may or may not.
LookupReplies(kind, namespace) ==
  LET fits == (kind = "orgs") = (namespace \in Organizations)
      found == InstallationsOn(namespace)
  IN  found \cup (IF fits /\ found # {} THEN {} ELSE {Nothing})

\* An empty permissions object asks for everything the app holds (the comment
\* in ensure_allowed).
Granted(request) ==
  IF Permissions(request) = {} THEN AppPermissions ELSE Permissions(request)

\* The token GitHub mints for an installation.
MintedToken(installation, request) ==
  [repositories |->
     {<<InstallationOwner[installation], name>> : name \in RepositoryNames(request)},
   permissions |-> Granted(request)]

\* Failures of a request to GitHub: Http is a transport error or a body that
\* is not read or parsed, GitHubError any other status than success (and
\* than 404, where that is handled).
RequestErrors == {"Http", "GitHubError"}

----------------------------------------------------------------------------

Results == RequestErrors \cup {"AppNotInstalled", "token"}
Stages == {"orgs", "users", "mint", "done"}

Tokens ==
  [repositories : SUBSET (Parts \X Parts), permissions : SUBSET Permission]

\* A call of get: its next request, what it has found, and its result.  steady
\* and minted are bookkeeping: whether the app has been installed on the
\* namespace, by one installation, ever since the call began, and the token
\* GitHub has minted, whether or not the caller receives it.
Call ==
  [request : TokenRequests, stage : Stages, steady : BOOLEAN,
   found : Installations \cup {Nothing}, result : Results \cup {Nothing},
   minted : Tokens \cup {Nothing}]

ASSUME NothingIsNoCall == Nothing \notin Call \cup Results \cup Tokens

\* The type invariant.
GitHubTypeOK ==
  /\ call \in [Handlers -> Call \cup {Nothing}]
  /\ active \subseteq Installations

GitHubInit ==
  /\ call = [h \in Handlers |-> Nothing]
  /\ active \in SUBSET Installations
  /\ \A i, j \in active : InstallationOwner[i] = InstallationOwner[j] => i = j

----------------------------------------------------------------------------

\* get: the request is accepted and the app's JWT is encoded; the first lookup
\* is sent.  A request that is not accepted is answered without a call.
Get(h, request) ==
  /\ call[h] = Nothing
  /\ Accepts(request)
  /\ call' = [call EXCEPT ![h] =
       [request |-> request, stage |-> "orgs", found |-> Nothing,
        steady |-> InstallationsOn(Namespace(request)) # {}, result |-> Nothing,
        minted |-> Nothing]]
  /\ UNCHANGED active

\* 404 keeps what an earlier lookup found; an answer replaces it.
FindInstallation(found, reply) == IF reply = Nothing THEN found ELSE reply

\* An installation lookup is answered, and the loop over the two kinds of
\* account goes on, whether or not something was found.
LookupAnswered(h) ==
  /\ call[h] # Nothing
  /\ call[h].stage \in {"orgs", "users"}
  /\ \E reply \in LookupReplies(call[h].stage, Namespace(call[h].request)) :
       LET c == call[h]
           found == FindInstallation(c.found, reply)
           missing == c.stage = "users" /\ found = Nothing
       IN  call' = [call EXCEPT ![h] = [c EXCEPT
             !.found = found,
             !.stage = IF c.stage = "orgs" THEN "users"
                       ELSE IF missing THEN "done" ELSE "mint",
             !.result = IF missing THEN "AppNotInstalled" ELSE @]]
  /\ UNCHANGED active

\* A faulty variant of Minted: a request for a token whose answer is lost is sent
\* again.
MintedRetrying(h) ==
  /\ call[h] # Nothing
  /\ call[h].stage = "mint"
  /\ call[h].found \in active
  /\ LET token == MintedToken(call[h].found, call[h].request) IN
     \/ call' = [call EXCEPT ![h] =
          [@ EXCEPT !.stage = "done", !.result = "token", !.minted = token]]
     \/ call' = [call EXCEPT ![h].minted = token]
  /\ UNCHANGED active

\* GitHub mints the token, if the installation still exists.  Its answer may
\* be lost, or replaced by an error status on the way (the upstream errors of
\* github_request's comment): then the caller sees an error though the token
\* exists.
Minted(h) ==
  /\ call[h] # Nothing
  /\ call[h].stage = "mint"
  /\ call[h].found \in active
  /\ \E result \in {"token"} \cup RequestErrors :
       call' = [call EXCEPT ![h] =
         [@ EXCEPT !.stage = "done", !.result = result,
                   !.minted = MintedToken(call[h].found, call[h].request)]]
  /\ UNCHANGED active

\* Any of the three requests fails: the error ends the call.
RequestFailed(h) ==
  /\ call[h] # Nothing
  /\ call[h].stage # "done"
  /\ \E error \in RequestErrors :
       call' = [call EXCEPT ![h] =
         [@ EXCEPT !.stage = "done", !.result = error]]
  /\ UNCHANGED active

\* The caller resumes with the result.
GetReturns(h) ==
  /\ call[h] # Nothing
  /\ call[h].stage = "done"
  /\ call' = [call EXCEPT ![h] = Nothing]
  /\ UNCHANGED active

\* GitHub: the app is installed on a namespace it is not installed on, with
\* an id of its own, or uninstalled.
Install(i) ==
  /\ InstallationsOn(InstallationOwner[i]) = {}
  /\ active' = active \cup {i}
  /\ UNCHANGED call

Uninstall(i) ==
  /\ i \in active
  /\ active' = active \ {i}
  /\ call' = [h \in Handlers |->
       IF call[h] = Nothing \/ Namespace(call[h].request) # InstallationOwner[i]
       THEN call[h] ELSE [call[h] EXCEPT !.steady = FALSE]]

GitHubNext ==
  \/ \E h \in Handlers, request \in TokenRequests : Get(h, request)
  \/ \E h \in Handlers :
       LookupAnswered(h) \/ Minted(h) \/ RequestFailed(h) \/ GetReturns(h)
  \/ \E i \in Installations : Install(i) \/ Uninstall(i)

GitHubSpec == GitHubInit /\ [][GitHubNext]_gitHubVars

----------------------------------------------------------------------------

\* The scope GitHub grants is the scope of the strings in the request, the
\* ones the policy decides about: splitting them and sending the parts with
\* an installation id never names another repository or permission.
\* (ParsedGitHubRequest's doc comment: the parsed scope must not drift.)
ScopeIsRequested ==
  \A h \in Handlers : call[h] # Nothing /\ call[h].minted # Nothing =>
    LET request == call[h].request
        token == call[h].minted
    IN  /\ token.repositories = Range(request.repositories)
        /\ request.permissions # << >> => token.permissions = Range(request.permissions)

\* A caller is told that the app is not installed only if it was missing at
\* some instant of the call, whichever of the two lookups knows the
\* namespace and whatever the other one answers.
NotInstalledIsTrue ==
  \A h \in Handlers :
    call[h] # Nothing /\ call[h].result = "AppNotInstalled" => ~call[h].steady

\* A call as its caller sees it, whatever was looked up for it.
CallSeen(c) ==
  IF c = Nothing THEN Nothing
  ELSE [request |-> c.request, token |-> c.minted,
        verdict |-> IF c.result = "AppNotInstalled" THEN "refused"
                    ELSE IF c.result \in RequestErrors THEN "error" ELSE c.result]

\* The tokens a request stands for: exactly its repositories and permissions or,
\* where it names none, all that the app holds.
RequestedToken(request) ==
  [repositories |-> Range(request.repositories),
   permissions |-> IF request.permissions = << >> THEN AppPermissions
                   ELSE Range(request.permissions)]

GitHubService == INSTANCE TokenService WITH
  Requests <- TokenRequests, Tokens <- Tokens,
  Scopes <- [request \in TokenRequests |-> {RequestedToken(request)}],
  job <- [h \in Handlers |-> CallSeen(call[h])]

ASSUME NothingIsNoCallSeen ==
  Nothing \notin GitHubService!Job \cup GitHubService!Verdicts

\* A call makes at most one token, of the requested scope, as its last act, and
\* its result tells of it: neither of the lookups shows, nor what becomes of the
\* installations meanwhile.
GitHubServes == GitHubService!Spec

\* The inductive invariant behind ScopeIsRequested: only requests that parse
\* are sent, and an installation found belongs to the request's namespace.
CallsAreConsistent ==
  \A h \in Handlers : call[h] # Nothing =>
    /\ Parses(call[h].request)
    /\ call[h].found # Nothing =>
         InstallationOwner[call[h].found] = Namespace(call[h].request)
    /\ call[h].result = "AppNotInstalled" => call[h].found = Nothing
    /\ call[h].stage # "done" <=> call[h].result = Nothing

\* The inductive invariant behind NotInstalledIsTrue: a steady installation is
\* there to be found, and once the lookup that knows it is over it is found.
SteadyIsFound ==
  \A h \in Handlers : call[h] # Nothing /\ call[h].steady =>
    /\ InstallationsOn(Namespace(call[h].request)) # {}
    /\ \/ call[h].found # Nothing
       \/ call[h].stage = "orgs"
       \/ call[h].stage = "users" /\ Namespace(call[h].request) \notin Organizations
       \/ call[h].result \in RequestErrors

GitHubInv ==
  /\ GitHubTypeOK
  /\ CallsAreConsistent
  /\ ScopeIsRequested
  /\ SteadyIsFound
============================================================================
