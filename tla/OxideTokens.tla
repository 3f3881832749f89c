---------------------------- MODULE OxideTokens ----------------------------
(***************************************************************************)
(* src/token/oxide.rs: OxideTokens::get, which validates the requested     *)
(* lifetime, picks the client of the requested silo and then takes that    *)
(* silo's device authorization flow by itself: it asks for a grant,        *)
(* confirms it with the same credential, and redeems it for a token.       *)
(*                                                                         *)
(* Each of the three is a request to the silo: the silo may act on it and  *)
(* the answer be lost, or it may fail, and nothing is retried or undone.   *)
(***************************************************************************)
EXTENDS Common, Naturals, Functions

CONSTANTS
  SiloRequests,   \* the OxideTokenRequests that callers pass to get
  Urls,           \* spellings of silo URLs
  Canonical,      \* the url crate's normal form of each spelling
  Manifest,       \* the silo manifest: a credential for each of its keys
  OxideConfigured,          \* is there an [oxide] section?
  AllowTokensWithoutExpiry, \* its allow_tokens_without_expiry
  MaxDuration,              \* its max_duration
  Codes           \* bound: device codes the silos ever hand out

ASSUME OxideAssumption ==
  /\ \A request \in SiloRequests : request \in [silo : Urls, duration : Nat]
  /\ Canonical \in [Urls -> Urls]
  /\ DOMAIN Manifest \subseteq Urls
  /\ OxideConfigured \in BOOLEAN
  /\ AllowTokensWithoutExpiry \in BOOLEAN
  /\ MaxDuration \in Nat
  /\ Nothing \notin Codes \cup Nat

VARIABLES
  clients,  \* the credential of the client of each silo, by canonical URL
  login,    \* the call of get each handler awaits, if any
  grants    \* the silos: the grant behind each device code handed out

oxideVars == <<clients, login, grants>>

----------------------------------------------------------------------------

Silos == Range(Canonical)
Credentials == Range(Manifest)

\* Errors of get that tell the caller what is wrong with the request, and the
\* one that stands for any failure of a request to a silo.
Rejections ==
  {"NotConfigured", "NoExpirationDisallowed", "TooLongExpiration",
   "SiloNotConfigured"}
SiloResults == Rejections \cup {"SiloFailed", "token"}

Login ==
  [request : SiloRequests, stage : {"auth", "confirm", "token", "done"},
   code : Codes \cup {Nothing}, result : SiloResults \cup {Nothing}]

\* A device grant of a silo, asked for and confirmed with a credential.
Grant ==
  [silo : Silos, credential : Credentials, ttl : Nat \cup {Nothing},
   state : {"pending", "confirmed", "redeemed", "expired"}]

ASSUME NothingIsNoLogin == Nothing \notin Login \cup Grant \cup SiloResults

\* The type invariant.
OxideTypeOK ==
  /\ clients \in [{Canonical[url] : url \in DOMAIN Manifest} -> Credentials]
  /\ login \in [Handlers -> Login \cup {Nothing}]
  /\ grants \in [Codes -> Grant \cup {Nothing}]

\* OxideTokens::new keys the clients by the canonical form of the manifest's
\* keys; of several spellings of one silo the iteration order of a HashMap
\* decides which credential stays.
ClientsOfManifest(c) ==
  /\ DOMAIN c = {Canonical[url] : url \in DOMAIN Manifest}
  /\ \A silo \in DOMAIN c : \E url \in DOMAIN Manifest :
       Canonical[url] = silo /\ Manifest[url] = c[silo]

OxideInit ==
  /\ clients \in [{Canonical[url] : url \in DOMAIN Manifest} -> Credentials]
  /\ ClientsOfManifest(clients)
  /\ login = [h \in Handlers |-> Nothing]
  /\ grants = [code \in Codes |-> Nothing]

----------------------------------------------------------------------------
(* Faulty variants of definitions below.                                   *)

\* The maximum is not compared with.
DurationErrorUnbounded(duration) ==
  IF duration = 0 /\ ~AllowTokensWithoutExpiry THEN "NoExpirationDisallowed"
  ELSE Nothing

\* The client is looked up by the URL as the caller spelled it.
KnownSiloAsSpelled(request) == request.silo \in DOMAIN clients

\* A failed confirmation does not end the call.
ConfirmAnsweredIgnoringFailure(h) ==
  /\ login[h] # Nothing
  /\ login[h].stage = "confirm"
  /\ \E state \in {"pending", "confirmed"} :
       grants' = [grants EXCEPT ![login[h].code].state = state]
  /\ login' = [login EXCEPT ![h].stage = "token"]
  /\ UNCHANGED clients

\* A grant that is already pending at the silo may be answered with instead of
\* a fresh one.
AuthAnsweredSharing(h) ==
  /\ login[h] # Nothing
  /\ login[h].stage = "auth"
  /\ \E code \in Codes :
       /\ LET silo == Canonical[login[h].request.silo]
              ttl == IF login[h].request.duration = 0 THEN Nothing
                     ELSE login[h].request.duration
              grant == [silo |-> silo, credential |-> clients[silo], ttl |-> ttl,
                        state |-> "pending"]
          IN  /\ grants[code] \in {Nothing, grant}
              /\ grants' = [grants EXCEPT ![code] = grant]
       /\ login' = [login EXCEPT ![h] = [@ EXCEPT !.stage = "confirm", !.code = code]]
  /\ UNCHANGED clients

\* A request whose answer is lost is sent again.
TokenAnsweredRetrying(h) ==
  /\ login[h] # Nothing
  /\ login[h].stage = "token"
  /\ grants[login[h].code].state = "confirmed"
  /\ grants' = [grants EXCEPT ![login[h].code].state = "redeemed"]
  /\ \/ login' = [login EXCEPT ![h] = [@ EXCEPT !.stage = "done", !.result = "token"]]
     \/ UNCHANGED login
  /\ UNCHANGED clients

----------------------------------------------------------------------------

\* validate_duration: 0 asks for a token that never expires.
DurationError(duration) ==
  IF duration = 0 /\ ~AllowTokensWithoutExpiry THEN "NoExpirationDisallowed"
  ELSE IF duration > MaxDuration THEN "TooLongExpiration"
  ELSE Nothing

KnownSilo(request) == Canonical[request.silo] \in DOMAIN clients

\* The first error get finds before it sends anything.
Rejection(request) ==
  IF ~OxideConfigured THEN "NotConfigured"
  ELSE IF DurationError(request.duration) # Nothing
       THEN DurationError(request.duration)
  ELSE IF ~KnownSilo(request) THEN "SiloNotConfigured"
  ELSE Nothing

\* get starts: it is rejected, or asks the silo for a grant.
GetSiloToken(h, request) ==
  /\ login[h] = Nothing
  /\ LET rejection == Rejection(request) IN
     login' = [login EXCEPT ![h] =
       [request |-> request, code |-> Nothing, result |-> rejection,
        stage |-> IF rejection = Nothing THEN "auth" ELSE "done"]]
  /\ UNCHANGED <<clients, grants>>

\* device_auth_request: the silo hands out a fresh code.
AuthAnswered(h) ==
  /\ login[h] # Nothing
  /\ login[h].stage = "auth"
  /\ \E code \in Codes :
       /\ grants[code] = Nothing
       /\ LET request == login[h].request
              silo == Canonical[request.silo]
          IN  grants' = [grants EXCEPT ![code] =
                [silo |-> silo, credential |-> clients[silo],
                 ttl |-> IF request.duration = 0 THEN Nothing ELSE request.duration,
                 state |-> "pending"]]
       /\ login' = [login EXCEPT ![h] = [@ EXCEPT !.stage = "confirm", !.code = code]]
  /\ UNCHANGED clients

\* device_auth_confirm, with the user code that came with the device code.
ConfirmAnswered(h) ==
  /\ login[h] # Nothing
  /\ login[h].stage = "confirm"
  /\ grants[login[h].code].state = "pending"
  /\ grants' = [grants EXCEPT ![login[h].code].state = "confirmed"]
  /\ login' = [login EXCEPT ![h].stage = "token"]
  /\ UNCHANGED clients

\* device_access_token: one request, without polling.  The answer may be
\* lost; that of the other two is lost when the next step is SiloFails.
TokenAnswered(h) ==
  /\ login[h] # Nothing
  /\ login[h].stage = "token"
  /\ grants[login[h].code].state = "confirmed"
  /\ grants' = [grants EXCEPT ![login[h].code].state = "redeemed"]
  /\ \E result \in {"token", "SiloFailed"} :
       login' = [login EXCEPT ![h] = [@ EXCEPT !.stage = "done", !.result = result]]
  /\ UNCHANGED clients

\* A request fails or is refused, or an answer is not understood: the error
\* ends the call.
SiloFails(h) ==
  /\ login[h] # Nothing
  /\ login[h].stage # "done"
  /\ login' = [login EXCEPT ![h] = [@ EXCEPT !.stage = "done", !.result = "SiloFailed"]]
  /\ UNCHANGED <<clients, grants>>

\* The caller resumes with the result.
SiloTokenReturns(h) ==
  /\ login[h] # Nothing
  /\ login[h].stage = "done"
  /\ login' = [login EXCEPT ![h] = Nothing]
  /\ UNCHANGED <<clients, grants>>

\* The silo: a grant that was not redeemed expires.
ExpireGrant(code) ==
  /\ grants[code] # Nothing
  /\ grants[code].state \in {"pending", "confirmed"}
  /\ grants' = [grants EXCEPT ![code].state = "expired"]
  /\ UNCHANGED <<clients, login>>

OxideNext ==
  \/ \E h \in Handlers, request \in SiloRequests : GetSiloToken(h, request)
  \/ \E h \in Handlers :
       \/ AuthAnswered(h) \/ ConfirmAnswered(h) \/ TokenAnswered(h)
       \/ SiloFails(h) \/ SiloTokenReturns(h)
  \/ \E code \in Codes : ExpireGrant(code)

OxideSpec == OxideInit /\ [][OxideNext]_oxideVars

----------------------------------------------------------------------------

\* No silo is ever asked for a token outside the configured lifetimes: one
\* that never expires only if the instance allows that, any other for at
\* least a second and at most max_duration.
LifetimeBounded ==
  \A code \in Codes : grants[code] # Nothing =>
    IF grants[code].ttl = Nothing THEN AllowTokensWithoutExpiry
    ELSE grants[code].ttl \in 1 .. MaxDuration

\* A grant that was made for a request: of the silo it names, however it is
\* spelled, for the lifetime it names, and under a credential the manifest
\* has for that silo.
GrantFor(grant, request) ==
  /\ grant.silo = Canonical[request.silo]
  /\ grant.ttl = IF request.duration = 0 THEN Nothing ELSE request.duration
  /\ \E url \in DOMAIN Manifest :
       Canonical[url] = grant.silo /\ Manifest[url] = grant.credential

\* A caller that gets a token gets its own: its grant was made for its
\* request and redeemed, and no other caller works on the same grant, however
\* many callers run the flow at the same silo.
TokenIsOwn ==
  \A h \in Handlers : login[h] # Nothing /\ login[h].result = "token" =>
    /\ GrantFor(grants[login[h].code], login[h].request)
    /\ grants[login[h].code].state = "redeemed"
    /\ \A g \in Handlers \ {h} :
         login[g] # Nothing => login[g].code # login[h].code

\* "Given that we are performing these requests serially, the token should be
\* ready": when a caller asks for the token its grant is confirmed, unless
\* the silo let it expire.  That a confirmation has taken effect once it is
\* answered is assumed of the silo; the caller must have waited for one of the
\* same grant, and for its success.
TokenReady ==
  \A h \in Handlers : login[h] # Nothing /\ login[h].stage = "token" =>
    grants[login[h].code].state \in {"confirmed", "expired"}

\* A caller is told that a silo is not configured only if no key of the
\* manifest is a spelling of its URL.
NotConfiguredIsTrue ==
  \A h \in Handlers :
    login[h] # Nothing /\ login[h].result = "SiloNotConfigured" =>
      \A url \in DOMAIN Manifest : Canonical[url] # Canonical[login[h].request.silo]

SiloTokens == [silo : Silos, ttl : Nat \cup {Nothing}, credential : Credentials]

\* The token behind a code, once its grant is redeemed.
TokenBehind(code) ==
  IF code # Nothing /\ grants[code].state = "redeemed"
  THEN [silo |-> grants[code].silo, ttl |-> grants[code].ttl,
        credential |-> grants[code].credential]
  ELSE Nothing

\* A call as its caller sees it.
LoginSeen(l) ==
  IF l = Nothing THEN Nothing
  ELSE [request |-> l.request, token |-> TokenBehind(l.code),
        verdict |-> IF l.result \in Rejections THEN "refused"
                    ELSE IF l.result = "SiloFailed" THEN "error" ELSE l.result]

\* The tokens a request stands for: of its silo, for its lifetime, under any
\* credential that the manifest has for that silo.
RequestedSiloTokens(request) ==
  {[silo |-> Canonical[request.silo],
    ttl |-> IF request.duration = 0 THEN Nothing ELSE request.duration,
    credential |-> Manifest[url]] :
   url \in {url \in DOMAIN Manifest : Canonical[url] = Canonical[request.silo]}}

OxideService == INSTANCE TokenService WITH
  Requests <- SiloRequests, Tokens <- SiloTokens,
  Scopes <- [request \in SiloRequests |-> RequestedSiloTokens(request)],
  job <- [h \in Handlers |-> LoginSeen(login[h])]

ASSUME NothingIsNoLoginSeen ==
  Nothing \notin OxideService!Job \cup OxideService!Verdicts

\* A call makes at most one token, of its silo and for its lifetime, as its last
\* act, and its result tells of it: neither the steps of the device flow nor
\* grants that expire show, and no step of one call makes a token for another.
OxideServes == OxideService!Spec

\* The inductive invariant.  A call that is under way was accepted, and its
\* grant was made for its request and is as far as the call is;
LoginConsistent(h) ==
  LET l == login[h] IN
  /\ l.stage # "done" => Rejection(l.request) = Nothing
  /\ l.stage # "done" <=> l.result = Nothing
  /\ l.code # Nothing =>
       grants[l.code] # Nothing /\ GrantFor(grants[l.code], l.request)
  /\ l.stage = "auth" => l.code = Nothing
  /\ l.stage \in {"confirm", "token"} => l.code # Nothing
  /\ l.stage = "confirm" => grants[l.code].state \in {"pending", "expired"}
  /\ l.stage = "token" => grants[l.code].state \in {"confirmed", "expired"}
  /\ l.result = "token" => l.code # Nothing /\ grants[l.code].state = "redeemed"
  /\ l.result = "SiloNotConfigured" => ~KnownSilo(l.request)

LoginsAreConsistent ==
  \A h \in Handlers : login[h] # Nothing => LoginConsistent(h)

\* and no two calls have the same grant.
CodesAreUnshared ==
  \A g, h \in Handlers :
    /\ login[g] # Nothing /\ login[h] # Nothing
    /\ login[h].code # Nothing /\ login[g].code = login[h].code
    => g = h

OxideInv ==
  /\ OxideTypeOK
  /\ ClientsOfManifest(clients)
  /\ LoginsAreConsistent
  /\ CodesAreUnshared
  /\ LifetimeBounded
============================================================================
