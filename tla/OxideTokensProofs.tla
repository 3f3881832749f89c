------------------------- MODULE OxideTokensProofs -------------------------
(* For every manifest, set of requests and of handlers: silos are asked     *)
(* only for lifetimes the settings allow, and a caller's token comes from a *)
(* grant of its own, confirmed and made for its request.                    *)
EXTENDS OxideTokens, TLAPS

\* The reason of a rejection is one of the four, and SiloNotConfigured is
\* true when it is given.
LEMMA RejectionReasons ==
  ASSUME NEW request
  PROVE  /\ Rejection(request) \in Rejections \cup {Nothing}
         /\ Rejection(request) # "token"
         /\ Rejection(request) = "SiloNotConfigured" => ~KnownSilo(request)
<1>1. DurationError(request.duration) \in
        {"NoExpirationDisallowed", "TooLongExpiration", Nothing}
  BY DEF DurationError
<1>2. Nothing # "token" /\ Nothing # "SiloNotConfigured"
  BY NothingIsNoLogin DEF SiloResults, Rejections
<1> QED BY <1>1, <1>2 DEF Rejection, Rejections

\* An accepted request asks for a lifetime the settings allow, at a silo that
\* has a client.
LEMMA AcceptedRequest ==
  ASSUME NEW request \in SiloRequests, Rejection(request) = Nothing
  PROVE  /\ Canonical[request.silo] \in DOMAIN clients
         /\ IF request.duration = 0 THEN AllowTokensWithoutExpiry
            ELSE request.duration \in 1 .. MaxDuration
<1>1. /\ Nothing \notin Rejections
      /\ request.duration \in Nat
      /\ MaxDuration \in Nat
  BY OxideAssumption, NothingIsNoLogin DEF SiloResults
<1>2. DurationError(request.duration) = Nothing /\ KnownSilo(request)
  BY <1>1 DEF Rejection, Rejections
<1>3. ~(request.duration = 0 /\ ~AllowTokensWithoutExpiry)
      /\ ~(request.duration > MaxDuration)
  BY <1>1, <1>2 DEF DurationError, Rejections
<1> QED BY <1>1, <1>2, <1>3 DEF KnownSilo

\* Whether a request is rejected depends on settings and clients only.
LEMMA RejectionIsStable ==
  ASSUME UNCHANGED clients, NEW request
  PROVE  /\ KnownSilo(request)' = KnownSilo(request)
         /\ Rejection(request)' = Rejection(request)
  BY DEF Rejection, DurationError, KnownSilo

\* A call stays consistent in a step that leaves it and its grant alone.
LEMMA OtherLogins ==
  ASSUME NEW h \in Handlers, LoginConsistent(h),
         UNCHANGED clients, login'[h] = login[h],
         login[h].code # Nothing =>
           grants'[login[h].code] = grants[login[h].code]
  PROVE  LoginConsistent(h)'
<1>1. /\ KnownSilo(login[h].request)' = KnownSilo(login[h].request)
      /\ Rejection(login[h].request)' = Rejection(login[h].request)
  BY DEF Rejection, DurationError, KnownSilo
<1> QED BY <1>1 DEF LoginConsistent, GrantFor

\* A step of one call keeps the calls consistent if it keeps that one so and
\* leaves the grants of the others alone.
LEMMA OneLogin ==
  ASSUME LoginsAreConsistent, NEW h \in Handlers, UNCHANGED clients,
         login'[h] # Nothing => LoginConsistent(h)',
         \A g \in Handlers \ {h} :
           /\ login'[g] = login[g]
           /\ login[g] # Nothing /\ login[g].code # Nothing =>
                grants'[login[g].code] = grants[login[g].code]
  PROVE  LoginsAreConsistent'
<1> SUFFICES ASSUME NEW g \in Handlers, login'[g] # Nothing
             PROVE  LoginConsistent(g)'
  BY DEF LoginsAreConsistent
<1>1. CASE g = h
  BY <1>1
<1>2. CASE g # h
  <2>1. login'[g] = login[g] /\ login[g] # Nothing
    BY <1>2
  <2>2. LoginConsistent(g)
    BY <2>1 DEF LoginsAreConsistent
  <2>3. login[g].code # Nothing => grants'[login[g].code] = grants[login[g].code]
    BY <1>2, <2>1
  <2> QED BY <2>1, <2>2, <2>3, OtherLogins
<1> QED BY <1>1, <1>2

\* Initially there are no calls and no grants.
LEMMA OxideInitInv == OxideInit => OxideInv
  BY DEF OxideInit, OxideInv, OxideTypeOK, LoginsAreConsistent,
         CodesAreUnshared, LifetimeBounded

\* A new call is rejected with a reason that holds, or was accepted.
LEMMA GetSiloTokenInv ==
  ASSUME OxideInv, NEW h \in Handlers, NEW request \in SiloRequests,
         GetSiloToken(h, request)
  PROVE  OxideInv'
<1> USE OxideAssumption, NothingIsNoLogin DEF OxideInv, GetSiloToken
<1> DEFINE rejection == Rejection(request)
           l == [request |-> request, code |-> Nothing, result |-> rejection,
                 stage |-> IF rejection = Nothing THEN "auth" ELSE "done"]
<1>1. /\ rejection \in Rejections \cup {Nothing}
      /\ rejection # "token"
      /\ rejection = "SiloNotConfigured" => ~KnownSilo(request)
  BY RejectionReasons
<1>2. l \in Login
  BY <1>1 DEF Login, SiloResults
<1>3. /\ login'[h] = l
      /\ \A g \in Handlers : g # h => login'[g] = login[g]
  BY DEF OxideTypeOK
<1>4. OxideTypeOK'
  BY <1>2 DEF OxideTypeOK
<1>5. LoginConsistent(h)'
  <2>1. /\ KnownSilo(request)' = KnownSilo(request)
        /\ Rejection(request)' = Rejection(request)
    BY RejectionIsStable
  <2> QED BY <1>1, <1>3, <2>1 DEF LoginConsistent
<1>6. LoginsAreConsistent'
  BY <1>3, <1>5, OneLogin
<1>7. CodesAreUnshared'
  BY <1>3 DEF CodesAreUnshared
<1>8. LifetimeBounded' /\ ClientsOfManifest(clients)'
  BY DEF LifetimeBounded, ClientsOfManifest
<1> QED BY <1>4, <1>6, <1>7, <1>8

\* A new grant is made for the request, within the allowed lifetimes.
LEMMA AuthAnsweredInv ==
  ASSUME OxideInv, NEW h \in Handlers, AuthAnswered(h)
  PROVE  OxideInv'
<1> USE OxideAssumption, NothingIsNoLogin DEF OxideInv, AuthAnswered
<1>1. PICK request \in SiloRequests : login[h].request = request
  BY DEF OxideTypeOK, Login
<1> DEFINE silo == Canonical[request.silo]
           grant == [silo |-> silo, credential |-> clients[silo],
                     ttl |-> IF request.duration = 0 THEN Nothing
                             ELSE request.duration,
                     state |-> "pending"]
<1>2. PICK code \in Codes :
        /\ grants[code] = Nothing
        /\ grants' = [grants EXCEPT ![code] = grant]
        /\ login' = [login EXCEPT ![h] =
                       [login[h] EXCEPT !.stage = "confirm", !.code = code]]
  BY <1>1
<1> DEFINE l == [login[h] EXCEPT !.stage = "confirm", !.code = code]
<1>3. /\ login[h] \in Login
      /\ login[h].stage = "auth"
      /\ LoginConsistent(h)
      /\ code # Nothing
  BY DEF OxideTypeOK, LoginsAreConsistent
<1>4. /\ request \in [silo : Urls, duration : Nat]
      /\ Rejection(request) = Nothing
      /\ login[h].result = Nothing
  BY <1>1, <1>3 DEF LoginConsistent
<1>5. /\ silo \in DOMAIN clients
      /\ IF request.duration = 0 THEN AllowTokensWithoutExpiry
         ELSE request.duration \in 1 .. MaxDuration
  BY <1>4, AcceptedRequest
<1>6. silo \in Silos
  BY <1>4 DEF Silos, Range
<1>7. grant \in Grant
  BY <1>4, <1>5, <1>6 DEF Grant, OxideTypeOK
<1>8. /\ l \in Login
      /\ l.code = code /\ l.stage = "confirm"
      /\ l.request = request /\ l.result = Nothing
  BY <1>1, <1>3, <1>4 DEF Login
<1>9. /\ login'[h] = l
      /\ \A g \in Handlers : g # h => login'[g] = login[g]
      /\ grants'[code] = grant
      /\ \A c \in Codes : c # code => grants'[c] = grants[c]
  BY <1>2 DEF OxideTypeOK
<1>10. OxideTypeOK'
  BY <1>2, <1>7, <1>8 DEF OxideTypeOK
<1>11. GrantFor(grant, request)
  BY <1>5 DEF GrantFor, ClientsOfManifest
<1>12. grant.state = "pending" /\ grant # Nothing
  BY <1>7 DEF Grant
<1>13. \A g \in Handlers :
         /\ login[g] # Nothing => login[g].code # code
         /\ login[g] # Nothing => login[g].code \in Codes \cup {Nothing}
  BY <1>2 DEF LoginsAreConsistent, LoginConsistent, OxideTypeOK, Login
<1> HIDE DEF grant, l, silo
<1>14. LoginConsistent(h)'
  <2>1. Rejection(request)' = Rejection(request)
    BY RejectionIsStable
  <2> QED BY <2>1, <1>3, <1>4, <1>8, <1>9, <1>11, <1>12
          DEF LoginConsistent, GrantFor, SiloResults, Rejections
<1>15. LoginsAreConsistent'
  BY <1>9, <1>13, <1>14, OneLogin
<1>16. CodesAreUnshared'
  <2>1. login'[h].code = code
    BY <1>8, <1>9
  <2>2. ASSUME NEW g \in Handlers \ {h}, login'[g] # Nothing
        PROVE  login'[g].code # login'[h].code
    <3>1. login'[g] = login[g]
      BY <1>9
    <3>2. login[g] # Nothing
      BY <2>2, <3>1
    <3>3. login[g].code # code
      BY <3>2, <1>13
    <3> QED BY <2>1, <3>1, <3>3
  <2> QED BY <2>2, <1>9 DEF CodesAreUnshared
<1>17. LifetimeBounded'
  BY <1>5, <1>9 DEF LifetimeBounded, grant
<1>18. ClientsOfManifest(clients)'
  BY DEF ClientsOfManifest
<1> QED BY <1>10, <1>15, <1>16, <1>17, <1>18

\* What the invariant says of a call whose grant is pending or confirmed.
LEMMA CallWithGrant ==
  ASSUME OxideInv, NEW h \in Handlers, login[h] # Nothing,
         login[h].stage \in {"confirm", "token"}
  PROVE  /\ login[h] \in Login
         /\ login[h].code \in Codes
         /\ login[h].code # Nothing
         /\ grants[login[h].code] \in Grant
         /\ grants[login[h].code] # Nothing
         /\ LoginConsistent(h)
<1>1. login[h] \in Login /\ LoginConsistent(h)
  BY DEF OxideInv, OxideTypeOK, LoginsAreConsistent
<1>2. login[h].code \in Codes /\ login[h].code # Nothing
  BY <1>1 DEF LoginConsistent, Login
<1>3. grants[login[h].code] # Nothing
  BY <1>1, <1>2 DEF LoginConsistent
<1> QED BY <1>1, <1>2, <1>3 DEF OxideInv, OxideTypeOK

\* A step of one call and of its grant that keeps request, code and the
\* grant's terms leaves the other calls alone.
LEMMA GrantStep ==
  ASSUME OxideInv, NEW h \in Handlers, login[h] # Nothing,
         login[h].stage \in {"confirm", "token"},
         NEW l \in Login, login' = [login EXCEPT ![h] = l],
         l.code = login[h].code,
         NEW state \in {"pending", "confirmed", "redeemed", "expired"},
         grants' = [grants EXCEPT ![login[h].code].state = state],
         UNCHANGED clients, LoginConsistent(h)'
  PROVE  OxideInv'
<1> DEFINE code == login[h].code
<1>1. /\ code \in Codes /\ code # Nothing
      /\ grants[code] \in Grant /\ grants[code] # Nothing
  BY CallWithGrant
<1>2. /\ login'[h] = l
      /\ \A g \in Handlers : g # h => login'[g] = login[g]
      /\ grants'[code] = [grants[code] EXCEPT !.state = state]
      /\ \A c \in Codes : c # code => grants'[c] = grants[c]
  BY <1>1 DEF OxideInv, OxideTypeOK
<1>3. grants'[code] \in Grant
  BY <1>1, <1>2 DEF Grant
<1>4. OxideTypeOK'
  BY <1>1, <1>3 DEF OxideInv, OxideTypeOK
<1>5. \A g \in Handlers \ {h} : login[g] # Nothing =>
        login[g].code # code /\ login[g].code \in Codes \cup {Nothing}
  BY <1>1 DEF OxideInv, OxideTypeOK, CodesAreUnshared, Login
<1>6. LoginsAreConsistent'
  BY <1>2, <1>5, OneLogin DEF OxideInv
<1>7. CodesAreUnshared'
  BY <1>2, <1>5 DEF OxideInv, CodesAreUnshared
<1>8. LifetimeBounded'
  BY <1>1, <1>2 DEF OxideInv, LifetimeBounded, Grant
<1>9. ClientsOfManifest(clients)'
  BY DEF OxideInv, ClientsOfManifest
<1> QED BY <1>4, <1>6, <1>7, <1>8, <1>9 DEF OxideInv

\* Confirming changes a pending grant to a confirmed one.
LEMMA ConfirmAnsweredInv ==
  ASSUME OxideInv, NEW h \in Handlers, ConfirmAnswered(h)
  PROVE  OxideInv'
<1> DEFINE l == [login[h] EXCEPT !.stage = "token"]
<1>1. /\ login[h] \in Login /\ LoginConsistent(h)
      /\ login[h].code \in Codes /\ login[h].code # Nothing
      /\ grants[login[h].code] \in Grant
  BY CallWithGrant DEF ConfirmAnswered
<1>2. /\ l \in Login /\ l.code = login[h].code /\ l.stage = "token"
      /\ l.request = login[h].request /\ l.result = login[h].result
  BY <1>1 DEF Login
<1>3. /\ login' = [login EXCEPT ![h] = l]
      /\ login'[h] = l
      /\ grants'[login[h].code] = [grants[login[h].code] EXCEPT !.state = "confirmed"]
  BY <1>1 DEF OxideInv, OxideTypeOK, ConfirmAnswered
<1>4. /\ Rejection(login[h].request) = Nothing
      /\ login[h].result = Nothing
      /\ GrantFor(grants[login[h].code], login[h].request)
  BY <1>1 DEF ConfirmAnswered, LoginConsistent
<1>5. Rejection(login[h].request)' = Rejection(l.request)
  BY <1>2, <1>3 DEF ConfirmAnswered, Rejection, DurationError, KnownSilo
<1>6. grants'[login[h].code] \in Grant /\ grants'[login[h].code] # Nothing
  BY <1>1, <1>3, NothingIsNoLogin DEF Grant
<1>7. GrantFor(grants[login[h].code], login[h].request)'
  BY <1>1, <1>2, <1>3, <1>4 DEF GrantFor, Grant
<1>8. grants'[login[h].code].state = "confirmed"
  BY <1>1, <1>3 DEF Grant
<1>9. LoginConsistent(h)'
  <2> HIDE DEF l
  <2>1. l.result # "token" /\ l.result # "SiloNotConfigured"
    BY <1>2, <1>4, NothingIsNoLogin DEF SiloResults, Rejections
  <2>2. l.code # Nothing /\ l.request = login[h].request
    BY <1>1, <1>2
  <2>3. /\ Rejection(login[h].request)' = Nothing /\ l.result = Nothing
        /\ l.stage = "token"
    BY <1>2, <1>4, <1>5
  <2>4. /\ grants'[l.code] # Nothing
        /\ grants'[l.code].state = "confirmed"
    BY <1>2, <1>6, <1>8
  <2> QED BY <1>3, <1>7, <2>1, <2>2, <2>3, <2>4 DEF LoginConsistent
<1> QED BY <1>2, <1>3, <1>9, GrantStep DEF ConfirmAnswered

\* Redeeming ends the call, whether or not the token arrives.
LEMMA TokenAnsweredInv ==
  ASSUME OxideInv, NEW h \in Handlers, TokenAnswered(h)
  PROVE  OxideInv'
<1>1. PICK result \in {"token", "SiloFailed"} :
        login' = [login EXCEPT ![h] =
                   [login[h] EXCEPT !.stage = "done", !.result = result]]
  BY DEF TokenAnswered
<1> DEFINE l == [login[h] EXCEPT !.stage = "done", !.result = result]
<1>2. /\ login[h] \in Login /\ LoginConsistent(h)
      /\ login[h].code \in Codes /\ login[h].code # Nothing
      /\ grants[login[h].code] \in Grant
  BY CallWithGrant DEF TokenAnswered
<1>3. /\ l \in Login /\ l.code = login[h].code /\ l.stage = "done"
      /\ l.request = login[h].request /\ l.result = result
  BY <1>2 DEF Login, SiloResults
<1>4. /\ login'[h] = l
      /\ grants'[login[h].code] = [grants[login[h].code] EXCEPT !.state = "redeemed"]
  BY <1>1, <1>2 DEF OxideInv, OxideTypeOK, TokenAnswered
<1>5. GrantFor(grants[login[h].code], login[h].request)
  BY <1>2 DEF LoginConsistent
<1>6. /\ grants'[login[h].code] # Nothing
      /\ grants'[login[h].code].state = "redeemed"
  BY <1>2, <1>4, NothingIsNoLogin DEF Grant
<1>7. GrantFor(grants[login[h].code], login[h].request)'
  BY <1>2, <1>3, <1>4, <1>5 DEF GrantFor, Grant
<1>8. LoginConsistent(h)'
  <2> HIDE DEF l
  <2> QED BY <1>2, <1>3, <1>4, <1>6, <1>7, NothingIsNoLogin DEF LoginConsistent, SiloResults
<1> QED BY <1>1, <1>3, <1>8, GrantStep DEF TokenAnswered

\* A failed request only ends the call.
LEMMA SiloFailsInv ==
  ASSUME OxideInv, NEW h \in Handlers, SiloFails(h)
  PROVE  OxideInv'
<1> USE DEF OxideInv, SiloFails
<1> DEFINE l == [login[h] EXCEPT !.stage = "done", !.result = "SiloFailed"]
<1>1. login[h] \in Login /\ LoginConsistent(h)
  BY DEF OxideTypeOK, LoginsAreConsistent
<1>2. /\ l \in Login /\ l.code = login[h].code /\ l.stage = "done"
      /\ l.request = login[h].request /\ l.result = "SiloFailed"
  BY <1>1 DEF Login, SiloResults
<1>3. /\ login'[h] = l
      /\ \A g \in Handlers : g # h => login'[g] = login[g]
  BY DEF OxideTypeOK
<1>4. OxideTypeOK'
  BY <1>2 DEF OxideTypeOK
<1>5. GrantFor(grants[login[h].code], login[h].request)'
        = GrantFor(grants[login[h].code], login[h].request)
  BY <1>2, <1>3 DEF GrantFor
<1> HIDE DEF l
<1>6. LoginConsistent(h)'
  BY <1>1, <1>2, <1>3, <1>5, NothingIsNoLogin DEF LoginConsistent, SiloResults
<1>7. LoginsAreConsistent'
  BY <1>3, <1>6, OneLogin
<1>8. CodesAreUnshared'
  BY <1>2, <1>3 DEF CodesAreUnshared
<1>9. LifetimeBounded' /\ ClientsOfManifest(clients)'
  BY DEF LifetimeBounded, ClientsOfManifest
<1> QED BY <1>4, <1>7, <1>8, <1>9

\* The end of a call.
LEMMA SiloTokenReturnsInv ==
  ASSUME OxideInv, NEW h \in Handlers, SiloTokenReturns(h)
  PROVE  OxideInv'
<1> USE DEF OxideInv, SiloTokenReturns
<1>1. /\ login'[h] = Nothing
      /\ \A g \in Handlers : g # h => login'[g] = login[g]
      /\ OxideTypeOK'
  BY DEF OxideTypeOK
<1>2. LoginsAreConsistent'
  BY <1>1, OneLogin
<1>3. CodesAreUnshared'
  BY <1>1 DEF CodesAreUnshared
<1>4. LifetimeBounded' /\ ClientsOfManifest(clients)'
  BY DEF LifetimeBounded, ClientsOfManifest
<1> QED BY <1>1, <1>2, <1>3, <1>4

\* An expired grant is still the one made for its call's request.
LEMMA ExpireGrantInv ==
  ASSUME OxideInv, NEW code \in Codes, ExpireGrant(code)
  PROVE  OxideInv'
<1> USE DEF OxideInv, ExpireGrant
<1>1. /\ grants[code] \in Grant
      /\ grants'[code] = [grants[code] EXCEPT !.state = "expired"]
      /\ \A c \in Codes : c # code => grants'[c] = grants[c]
  BY DEF OxideTypeOK
<1>2. /\ grants'[code] \in Grant
      /\ grants'[code] # Nothing
      /\ grants'[code].state = "expired"
      /\ grants'[code].silo = grants[code].silo
      /\ grants'[code].ttl = grants[code].ttl
      /\ grants'[code].credential = grants[code].credential
  BY <1>1, NothingIsNoLogin DEF Grant
<1>3. OxideTypeOK'
  BY <1>2 DEF OxideTypeOK
<1>4. LoginsAreConsistent'
  <2> SUFFICES ASSUME NEW g \in Handlers, login[g] # Nothing
               PROVE  LoginConsistent(g)'
    BY DEF LoginsAreConsistent
  <2>1. LoginConsistent(g) /\ login[g] \in Login
    BY DEF LoginsAreConsistent, OxideTypeOK
  <2>2. CASE login[g].code = code
    <3>1. GrantFor(grants[code], login[g].request)
      BY <2>1, <2>2, OxideAssumption DEF LoginConsistent
    <3>2. GrantFor(grants[code], login[g].request)'
      BY <3>1, <1>2 DEF GrantFor
    <3>3. /\ KnownSilo(login[g].request)' = KnownSilo(login[g].request)
          /\ Rejection(login[g].request)' = Rejection(login[g].request)
      BY DEF Rejection, DurationError, KnownSilo
    <3>4. login[g].result # "token"
      BY <2>1, <2>2 DEF LoginConsistent
    <3> QED BY <2>1, <2>2, <3>2, <3>3, <3>4, <1>2 DEF LoginConsistent
  <2>3. CASE login[g].code # code
    <3>1. login[g].code # Nothing =>
            grants'[login[g].code] = grants[login[g].code]
      BY <2>1, <2>3, <1>1 DEF Login
    <3> QED BY <2>1, <3>1, OtherLogins
  <2> QED BY <2>2, <2>3
<1>5. CodesAreUnshared' /\ ClientsOfManifest(clients)'
  BY DEF CodesAreUnshared, ClientsOfManifest
<1>6. LifetimeBounded'
  BY <1>1, <1>2 DEF LifetimeBounded
<1> QED BY <1>3, <1>4, <1>5, <1>6

\* Every step preserves the invariant.
LEMMA OxideNextInv == OxideInv /\ [OxideNext]_oxideVars => OxideInv'
<1> SUFFICES ASSUME OxideInv, [OxideNext]_oxideVars
             PROVE  OxideInv'
  OBVIOUS
<1>1. CASE UNCHANGED oxideVars
  <2>1. \A h \in Handlers : LoginConsistent(h) => LoginConsistent(h)'
    BY <1>1, OtherLogins DEF oxideVars
  <2> QED BY <1>1, <2>1
          DEF oxideVars, OxideInv, OxideTypeOK, LoginsAreConsistent,
              CodesAreUnshared, LifetimeBounded, ClientsOfManifest
<1>2. CASE OxideNext
  BY <1>2, GetSiloTokenInv, AuthAnsweredInv, ConfirmAnsweredInv,
     TokenAnsweredInv, SiloFailsInv, SiloTokenReturnsInv, ExpireGrantInv
     DEF OxideNext
<1> QED BY <1>1, <1>2

\* The inductive invariant of the device flow.
THEOREM OxideInvariant == OxideSpec => []OxideInv
  BY OxideInitInv, OxideNextInv, PTL DEF OxideSpec

\* No silo is asked for a lifetime that the settings do not allow.
THEOREM LifetimesAreBounded == OxideSpec => []LifetimeBounded
<1>1. OxideInv => LifetimeBounded
  BY DEF OxideInv
<1> QED BY <1>1, OxideInvariant, PTL

LEMMA InvImpliesOwn == OxideInv => TokenIsOwn
  BY DEF OxideInv, TokenIsOwn, LoginsAreConsistent, LoginConsistent,
         CodesAreUnshared

LEMMA InvImpliesReady == OxideInv => TokenReady
  BY DEF OxideInv, TokenReady, LoginsAreConsistent, LoginConsistent

LEMMA InvImpliesNotConfigured == OxideInv => NotConfiguredIsTrue
<1> SUFFICES ASSUME OxideInv, NEW h \in Handlers, login[h] # Nothing,
                    login[h].result = "SiloNotConfigured",
                    NEW url \in DOMAIN Manifest
             PROVE  Canonical[url] # Canonical[login[h].request.silo]
  BY DEF NotConfiguredIsTrue
<1>1. ~KnownSilo(login[h].request)
  BY DEF OxideInv, LoginsAreConsistent, LoginConsistent
<1>2. Canonical[url] \in DOMAIN clients
  BY DEF OxideInv, ClientsOfManifest
<1> QED BY <1>1, <1>2 DEF KnownSilo

\* A caller's token comes from its own grant, made for its request.
THEOREM TokensAreOwn == OxideSpec => []TokenIsOwn
  BY InvImpliesOwn, OxideInvariant, PTL

\* A token is asked for only after its grant was confirmed.
THEOREM TokensAreReady == OxideSpec => []TokenReady
  BY InvImpliesReady, OxideInvariant, PTL

\* A caller is told that a silo is not configured only if no key names it.
THEOREM NotConfiguredReports == OxideSpec => []NotConfiguredIsTrue
  BY InvImpliesNotConfigured, OxideInvariant, PTL

----------------------------------------------------------------------------
(* OxideTokens implements TokenService.                                     *)

loginsSeen == [h \in Handlers |-> LoginSeen(login[h])]

\* What one call's step shows, if it leaves the grants of the others alone.
LEMMA LoginSeenStep ==
  ASSUME OxideInv, NEW h \in Handlers, NEW l, login' = [login EXCEPT ![h] = l],
         \A g \in Handlers \ {h}, code \in Codes \cup {Nothing} :
           login[g] # Nothing /\ login[g].code = code =>
             TokenBehind(code)' = TokenBehind(code)
  PROVE  loginsSeen' = [loginsSeen EXCEPT ![h] = LoginSeen(l)']
<1>1. login'[h] = l /\ \A g \in Handlers \ {h} : login'[g] = login[g]
  BY DEF OxideInv, OxideTypeOK
<1>2. PICK new : new = LoginSeen(l)'
  OBVIOUS
<1>3. loginsSeen' = [g \in Handlers |-> LoginSeen(login[g])']
  BY DEF loginsSeen
<1>4. LoginSeen(login[h])' = new
  BY <1>1, <1>2 DEF LoginSeen, TokenBehind
<1>5. ASSUME NEW g \in Handlers \ {h}
      PROVE  LoginSeen(login[g])' = loginsSeen[g]
  <2>1. login'[g] = login[g]
    BY <1>1
  <2>2. LoginSeen(login[g])' = LoginSeen(login[g])
    <3>1. CASE login[g] = Nothing
      BY <2>1, <3>1 DEF LoginSeen
    <3>2. CASE login[g] # Nothing
      <4>1. PICK code \in Codes \cup {Nothing} : code = login[g].code
        BY <3>2 DEF OxideInv, OxideTypeOK, Login
      <4>2. TokenBehind(code)' = TokenBehind(code)
        BY <3>2, <4>1
      <4> QED BY <2>1, <3>2, <4>1, <4>2 DEF LoginSeen
    <3> QED BY <3>1, <3>2
  <2> QED BY <2>2 DEF loginsSeen
<1>6. loginsSeen' = [g \in Handlers |-> IF g = h THEN new ELSE loginsSeen[g]]
  BY <1>3, <1>4, <1>5
<1> QED BY <1>2, <1>6 DEF loginsSeen

\* The tokens of two calls that are under way are not behind the same code.
LEMMA OtherTokens ==
  ASSUME OxideInv, NEW h \in Handlers, NEW code \in Codes, code # Nothing,
         login[h] # Nothing, login[h].code = code,
         \A c \in Codes : c # code => grants'[c] = grants[c]
  PROVE  \A g \in Handlers \ {h}, other \in Codes \cup {Nothing} :
           login[g] # Nothing /\ login[g].code = other =>
             TokenBehind(other)' = TokenBehind(other)
<1> SUFFICES ASSUME NEW g \in Handlers \ {h}, NEW other \in Codes \cup {Nothing},
                    login[g] # Nothing, login[g].code = other
             PROVE  TokenBehind(other)' = TokenBehind(other)
  OBVIOUS
<1>1. other # code
  BY DEF OxideInv, CodesAreUnshared
<1> QED BY <1>1 DEF TokenBehind

\* The token of a grant that was made for a request is one it stands for.
LEMMA GrantIsRequested ==
  ASSUME NEW request \in SiloRequests, NEW grant \in Grant, GrantFor(grant, request),
         NEW token, token = [silo |-> grant.silo, ttl |-> grant.ttl,
                             credential |-> grant.credential]
  PROVE  token \in RequestedSiloTokens(request)
<1>1. PICK url \in DOMAIN Manifest :
        Canonical[url] = grant.silo /\ Manifest[url] = grant.credential
  BY DEF GrantFor
<1>2. /\ grant.silo = Canonical[request.silo]
      /\ grant.ttl = IF request.duration = 0 THEN Nothing ELSE request.duration
  BY DEF GrantFor
<1> QED BY <1>1, <1>2 DEF RequestedSiloTokens

\* What is seen of a call.
LEMMA LoginSeenFacts ==
  ASSUME OxideTypeOK, NEW l \in Login, l.code # Nothing => grants[l.code] # Nothing
  PROVE  /\ LoginSeen(l) # Nothing
         /\ LoginSeen(l).request = l.request
         /\ LoginSeen(l).token = TokenBehind(l.code)
         /\ l.result = Nothing => LoginSeen(l).verdict = Nothing
         /\ l.result # Nothing => LoginSeen(l).verdict # Nothing
<1>1. l # Nothing
  BY NothingIsNoLogin
<1>2. PICK v : v = IF l.result \in Rejections THEN "refused"
                   ELSE IF l.result = "SiloFailed" THEN "error" ELSE l.result
  OBVIOUS
<1>3. PICK t : t = TokenBehind(l.code)
  OBVIOUS
<1>4. PICK seen : seen = [request |-> l.request, token |-> t, verdict |-> v]
  OBVIOUS
<1>5. LoginSeen(l) = seen
  BY <1>1, <1>2, <1>3, <1>4 DEF LoginSeen
<1>6. Nothing \notin {"token", "refused", "error", "SiloFailed"} \cup Rejections
  BY NothingIsNoLogin, NothingIsNoLoginSeen DEF SiloResults, OxideService!Verdicts
<1>7. /\ l.result = Nothing => v = Nothing
      /\ l.result # Nothing => v # Nothing
  BY <1>2, <1>6
<1>8. t \in SiloTokens \cup {Nothing}
  <2>1. CASE TokenBehind(l.code) = Nothing
    BY <1>3, <2>1
  <2>2. CASE TokenBehind(l.code) # Nothing
    <3>1. l.code # Nothing /\ grants[l.code].state = "redeemed"
      BY <2>2 DEF TokenBehind
    <3>2. l.code \in Codes
      BY <3>1 DEF Login
    <3>3. grants[l.code] \in Grant
      BY <3>1, <3>2 DEF OxideTypeOK
    <3>4. t = [silo |-> grants[l.code].silo, ttl |-> grants[l.code].ttl,
               credential |-> grants[l.code].credential]
      BY <1>3, <3>1 DEF TokenBehind
    <3> QED BY <3>3, <3>4 DEF Grant, SiloTokens
  <2> QED BY <2>1, <2>2
<1>9. seen # Nothing
  <2>1. l.request \in SiloRequests /\ l.result \in SiloResults \cup {Nothing}
    BY DEF Login
  <2>2. v \in {"token", "refused", "error", Nothing}
    BY <1>2, <2>1 DEF SiloResults
  <2>3. seen \in OxideService!Job
    BY <1>4, <1>8, <2>1, <2>2 DEF OxideService!Job, OxideService!Verdicts
  <2> QED BY <2>3, NothingIsNoLoginSeen
<1> QED BY <1>3, <1>4, <1>5, <1>7, <1>9

LEMMA GetSiloShows ==
  ASSUME OxideInv, NEW h \in Handlers, NEW request \in SiloRequests,
         GetSiloToken(h, request)
  PROVE  OxideService!Ask(h)
<1>1. PICK rejection : rejection = Rejection(request)
  OBVIOUS
<1>2. PICK l : l = [request |-> request, code |-> Nothing, result |-> rejection,
                    stage |-> IF rejection = Nothing THEN "auth" ELSE "done"]
  OBVIOUS
<1>3. /\ login[h] = Nothing /\ login' = [login EXCEPT ![h] = l]
      /\ UNCHANGED <<clients, grants>>
  BY <1>1, <1>2 DEF GetSiloToken
<1>4. rejection \in Rejections \cup {Nothing}
  BY <1>1, RejectionReasons
<1>5. /\ l \in Login /\ l.request = request /\ l.code = Nothing
      /\ l.result = rejection
  BY <1>2, <1>4 DEF Login, SiloResults
<1>6. PICK verdict : verdict = IF rejection = Nothing THEN Nothing ELSE "refused"
  OBVIOUS
<1>7. LoginSeen(l)' = [request |-> request, token |-> Nothing, verdict |-> verdict]
  <2>1. l # Nothing /\ Nothing \notin Rejections \cup {"SiloFailed"}
    BY <1>5, NothingIsNoLogin DEF SiloResults
  <2>2. TokenBehind(Nothing)' = Nothing
    BY DEF TokenBehind
  <2>3. verdict = IF l.result \in Rejections THEN "refused"
                  ELSE IF l.result = "SiloFailed" THEN "error" ELSE l.result
    BY <1>4, <1>5, <1>6, <2>1
  <2>4. TokenBehind(l.code)' = Nothing
    BY <1>5, <2>2
  <2> QED BY <1>5, <2>1, <2>3, <2>4 DEF LoginSeen
<1>8. loginsSeen' = [loginsSeen EXCEPT ![h] = LoginSeen(l)']
  BY <1>3, LoginSeenStep DEF TokenBehind
<1>9. \E r \in SiloRequests, v \in {"refused", Nothing} :
        loginsSeen' = [loginsSeen EXCEPT ![h] =
                         [request |-> r, token |-> Nothing, verdict |-> v]]
  BY <1>6, <1>7, <1>8
<1>10. loginsSeen[h] = Nothing
  BY <1>3 DEF loginsSeen, LoginSeen
<1> QED BY <1>9, <1>10 DEF OxideService!Ask, loginsSeen

\* A step of a call that changes neither its result nor its token does not show.
LEMMA StepHidden ==
  ASSUME OxideInv, NEW h \in Handlers, login[h] # Nothing,
         NEW l \in Login, login' = [login EXCEPT ![h] = l],
         l.request = login[h].request, l.result = login[h].result,
         TokenBehind(login[h].code) = Nothing, TokenBehind(l.code)' = Nothing,
         \A g \in Handlers \ {h}, code \in Codes \cup {Nothing} :
           login[g] # Nothing /\ login[g].code = code =>
             TokenBehind(code)' = TokenBehind(code)
  PROVE  UNCHANGED loginsSeen
<1>1. loginsSeen' = [loginsSeen EXCEPT ![h] = LoginSeen(l)']
  BY LoginSeenStep
<1>2. l # Nothing
  BY NothingIsNoLogin
<1>3. LoginSeen(l)' = LoginSeen(login[h])
  BY <1>2 DEF LoginSeen
<1>4. LoginSeen(l)' = loginsSeen[h]
  BY <1>3 DEF loginsSeen
<1> QED BY <1>1, <1>4 DEF loginsSeen

LEMMA AuthHidden ==
  ASSUME OxideInv, NEW h \in Handlers, AuthAnswered(h)
  PROVE  UNCHANGED loginsSeen
<1>1. PICK code, grant :
        /\ code \in Codes /\ grants[code] = Nothing
        /\ grant.state = "pending"
        /\ grants' = [grants EXCEPT ![code] = grant]
        /\ login' = [login EXCEPT ![h] =
                       [login[h] EXCEPT !.stage = "confirm", !.code = code]]
  BY DEF AuthAnswered
<1>2. PICK l : l = [login[h] EXCEPT !.stage = "confirm", !.code = code]
  OBVIOUS
<1>3. login[h] # Nothing /\ login[h] \in Login /\ login[h].code = Nothing
  BY DEF AuthAnswered, OxideInv, OxideTypeOK, LoginsAreConsistent, LoginConsistent
<1>4. /\ l \in Login /\ l.request = login[h].request /\ l.result = login[h].result
      /\ l.code = code /\ login' = [login EXCEPT ![h] = l]
  BY <1>1, <1>2, <1>3 DEF Login
<1>5. TokenBehind(login[h].code) = Nothing
  BY <1>3 DEF TokenBehind
<1>6. grants'[code] = grant /\ \A c \in Codes : c # code => grants'[c] = grants[c]
  BY <1>1 DEF OxideInv, OxideTypeOK
<1>7. TokenBehind(l.code)' = Nothing
  BY <1>1, <1>4, <1>6 DEF TokenBehind
<1>8. ASSUME NEW g \in Handlers \ {h}, NEW other \in Codes \cup {Nothing},
             login[g] # Nothing, login[g].code = other
      PROVE  TokenBehind(other)' = TokenBehind(other)
  <2>1. other # code \/ code = Nothing
    BY <1>1, <1>8 DEF OxideInv, LoginsAreConsistent, LoginConsistent
  <2> QED BY <1>6, <2>1 DEF TokenBehind
<1> QED BY <1>3, <1>4, <1>5, <1>7, <1>8, StepHidden

LEMMA ConfirmHidden ==
  ASSUME OxideInv, NEW h \in Handlers, ConfirmAnswered(h)
  PROVE  UNCHANGED loginsSeen
<1>1. PICK code : code = login[h].code
  OBVIOUS
<1>2. /\ login[h] # Nothing /\ login[h] \in Login
      /\ code \in Codes /\ code # Nothing /\ grants[code] \in Grant
  BY <1>1, CallWithGrant DEF ConfirmAnswered
<1>3. PICK l : l = [login[h] EXCEPT !.stage = "token"]
  OBVIOUS
<1>4. /\ l \in Login /\ l.request = login[h].request /\ l.result = login[h].result
      /\ l.code = code /\ login' = [login EXCEPT ![h] = l]
  BY <1>1, <1>2, <1>3 DEF Login, ConfirmAnswered
<1>5. /\ grants[code].state = "pending"
      /\ grants' = [grants EXCEPT ![code].state = "confirmed"]
  BY <1>1 DEF ConfirmAnswered
<1>6. /\ grants'[code].state = "confirmed"
      /\ \A c \in Codes : c # code => grants'[c] = grants[c]
  BY <1>2, <1>5 DEF OxideInv, OxideTypeOK, Grant
<1>7. TokenBehind(login[h].code) = Nothing /\ TokenBehind(l.code)' = Nothing
  BY <1>1, <1>4, <1>5, <1>6 DEF TokenBehind
<1> QED BY <1>1, <1>2, <1>4, <1>6, <1>7, OtherTokens, StepHidden

LEMMA TokenShows ==
  ASSUME OxideInv, NEW h \in Handlers, TokenAnswered(h)
  PROVE  OxideService!Mint(h)
<1>1. PICK code, request : code = login[h].code /\ request = login[h].request
  OBVIOUS
<1>2. /\ login[h] # Nothing /\ login[h] \in Login /\ request \in SiloRequests
      /\ code \in Codes /\ code # Nothing
      /\ grants[code] \in Grant /\ grants[code] # Nothing
      /\ login[h].result = Nothing /\ GrantFor(grants[code], request)
  BY <1>1, CallWithGrant DEF TokenAnswered, LoginConsistent, Login
<1>3. PICK result \in {"token", "SiloFailed"} :
        login' = [login EXCEPT ![h] = [login[h] EXCEPT !.stage = "done", !.result = result]]
  BY DEF TokenAnswered
<1>4. PICK l : l = [login[h] EXCEPT !.stage = "done", !.result = result]
  OBVIOUS
<1>5. /\ l \in Login /\ l.request = request /\ l.code = code /\ l.result = result
      /\ login' = [login EXCEPT ![h] = l]
  BY <1>1, <1>2, <1>3, <1>4 DEF Login, SiloResults
<1>6. PICK token : token = [silo |-> grants[code].silo, ttl |-> grants[code].ttl,
                            credential |-> grants[code].credential]
  OBVIOUS
<1>7. token \in RequestedSiloTokens(request)
  BY <1>2, <1>6, GrantIsRequested
<1>8. /\ grants'[code].state = "redeemed" /\ grants'[code].silo = grants[code].silo
      /\ grants'[code].ttl = grants[code].ttl
      /\ grants'[code].credential = grants[code].credential
      /\ \A c \in Codes : c # code => grants'[c] = grants[c]
  BY <1>1, <1>2 DEF OxideInv, OxideTypeOK, Grant, TokenAnswered
<1>9. TokenBehind(l.code)' = token
  BY <1>2, <1>5, <1>6, <1>8 DEF TokenBehind
<1>10. PICK verdict : verdict = IF result = "token" THEN "token" ELSE "error"
  OBVIOUS
<1>11. /\ loginsSeen[h] = LoginSeen(login[h]) /\ loginsSeen[h] # Nothing
       /\ loginsSeen[h].verdict = Nothing /\ loginsSeen[h].request = request
  BY <1>1, <1>2, LoginSeenFacts DEF loginsSeen, OxideInv
<1>12. LoginSeen(l)' = [request |-> request, token |-> token, verdict |-> verdict]
  <2>1. l # Nothing /\ l.result \notin Rejections
    BY <1>5, NothingIsNoLogin DEF Rejections
  <2>2. verdict = IF l.result = "SiloFailed" THEN "error" ELSE l.result
    BY <1>5, <1>10
  <2> QED BY <1>5, <1>9, <2>1, <2>2 DEF LoginSeen
<1>13. loginsSeen' = [loginsSeen EXCEPT ![h] =
                        [request |-> loginsSeen[h].request, token |-> token,
                         verdict |-> verdict]]
  <2>1. loginsSeen' = [loginsSeen EXCEPT ![h] = LoginSeen(l)']
    BY <1>1, <1>2, <1>5, <1>8, OtherTokens, LoginSeenStep
  <2> QED BY <1>11, <1>12, <2>1
<1>14. PICK scopes : scopes = [r \in SiloRequests |-> RequestedSiloTokens(r)]
  OBVIOUS
<1>15. token \in scopes[loginsSeen[h].request] /\ verdict \in {"token", "error"}
  BY <1>2, <1>7, <1>10, <1>11, <1>14
<1>16. \E t \in scopes[loginsSeen[h].request], v \in {"token", "error"} :
         loginsSeen' = [loginsSeen EXCEPT ![h] =
                          [request |-> loginsSeen[h].request, token |-> t, verdict |-> v]]
  BY <1>13, <1>15
<1> QED BY <1>11, <1>14, <1>16 DEF OxideService!Mint, loginsSeen

LEMMA SiloFailsShows ==
  ASSUME OxideInv, NEW h \in Handlers, SiloFails(h)
  PROVE  OxideService!Fail(h)
<1>1. PICK l : l = [login[h] EXCEPT !.stage = "done", !.result = "SiloFailed"]
  OBVIOUS
<1>2. /\ login[h] # Nothing /\ login[h] \in Login /\ login[h].result = Nothing
      /\ login[h].code # Nothing => grants[login[h].code] # Nothing
      /\ UNCHANGED grants
  BY DEF SiloFails, OxideInv, OxideTypeOK, LoginsAreConsistent, LoginConsistent
<1>3. /\ l \in Login /\ l.request = login[h].request /\ l.code = login[h].code
      /\ l.result = "SiloFailed" /\ login' = [login EXCEPT ![h] = l]
  BY <1>1, <1>2 DEF Login, SiloResults, SiloFails
<1>4. /\ loginsSeen[h] = LoginSeen(login[h]) /\ loginsSeen[h] # Nothing
      /\ loginsSeen[h].verdict = Nothing
  BY <1>2, LoginSeenFacts DEF loginsSeen, OxideInv
<1>5. PICK token : token = TokenBehind(login[h].code)
  OBVIOUS
<1>6. TokenBehind(l.code)' = token
  BY <1>2, <1>3, <1>5 DEF TokenBehind
<1>7. LoginSeen(l)' = [loginsSeen[h] EXCEPT !.verdict = "error"]
  <2>1. l # Nothing /\ Nothing \notin Rejections /\ Nothing # "SiloFailed"
    BY <1>3, NothingIsNoLogin DEF SiloResults
  <2>2. LoginSeen(l)' = [request |-> l.request, token |-> token, verdict |-> "error"]
    BY <1>3, <1>6, <2>1 DEF LoginSeen, Rejections
  <2>3. loginsSeen[h] = [request |-> l.request, token |-> token, verdict |-> Nothing]
    BY <1>2, <1>3, <1>4, <1>5, <2>1 DEF LoginSeen
  <2> QED BY <2>2, <2>3
<1>8. loginsSeen' = [loginsSeen EXCEPT ![h].verdict = "error"]
  <2>1. loginsSeen' = [loginsSeen EXCEPT ![h] = LoginSeen(l)']
    BY <1>2, <1>3, LoginSeenStep DEF TokenBehind
  <2> QED BY <1>7, <2>1
<1>9. \E v \in {"refused", "error"} : loginsSeen' = [loginsSeen EXCEPT ![h].verdict = v]
  BY <1>8
<1> QED BY <1>4, <1>9 DEF OxideService!Fail, loginsSeen

LEMMA SiloReturnShows ==
  ASSUME OxideInv, NEW h \in Handlers, SiloTokenReturns(h)
  PROVE  OxideService!Return(h)
<1>1. /\ login[h] # Nothing /\ login[h] \in Login /\ login[h].result # Nothing
      /\ login[h].code # Nothing => grants[login[h].code] # Nothing
      /\ login' = [login EXCEPT ![h] = Nothing] /\ UNCHANGED grants
  BY DEF SiloTokenReturns, OxideInv, OxideTypeOK, LoginsAreConsistent, LoginConsistent
<1>2. loginsSeen' = [loginsSeen EXCEPT ![h] = Nothing]
  <2>1. loginsSeen' = [loginsSeen EXCEPT ![h] = LoginSeen(Nothing)']
    BY <1>1, LoginSeenStep DEF TokenBehind
  <2> QED BY <2>1 DEF LoginSeen
<1>3. loginsSeen[h] # Nothing /\ loginsSeen[h].verdict # Nothing
  BY <1>1, LoginSeenFacts DEF loginsSeen, OxideInv
<1> QED BY <1>2, <1>3 DEF OxideService!Return, loginsSeen

\* A grant that expires has made no token.
LEMMA ExpireHidden ==
  ASSUME OxideInv, NEW code \in Codes, ExpireGrant(code)
  PROVE  UNCHANGED loginsSeen
<1>1. /\ grants[code].state # "redeemed" /\ grants'[code].state # "redeemed"
      /\ \A c \in Codes : c # code => grants'[c] = grants[c]
      /\ UNCHANGED login
  BY DEF ExpireGrant, OxideInv, OxideTypeOK, Grant
<1>2. \A c \in Codes \cup {Nothing} : TokenBehind(c)' = TokenBehind(c)
  BY <1>1, OxideAssumption DEF TokenBehind
<1>3. ASSUME NEW h \in Handlers
      PROVE  LoginSeen(login[h])' = LoginSeen(login[h])
  <2>1. CASE login[h] = Nothing
    BY <1>1, <2>1 DEF LoginSeen
  <2>2. CASE login[h] # Nothing
    <3>1. PICK c \in Codes \cup {Nothing} : c = login[h].code
      BY <2>2 DEF OxideInv, OxideTypeOK, Login
    <3> QED BY <1>1, <1>2, <2>2, <3>1 DEF LoginSeen
  <2> QED BY <2>1, <2>2
<1> QED BY <1>3 DEF loginsSeen

LEMMA OxideShows ==
  OxideInv /\ [OxideNext]_oxideVars => [OxideService!Next]_loginsSeen
<1> SUFFICES ASSUME OxideInv, [OxideNext]_oxideVars
             PROVE  OxideService!Next \/ UNCHANGED loginsSeen
  OBVIOUS
<1>1. CASE UNCHANGED oxideVars
  BY <1>1 DEF oxideVars, loginsSeen, LoginSeen, TokenBehind
<1>2. CASE \E h \in Handlers, request \in SiloRequests : GetSiloToken(h, request)
  BY <1>2, GetSiloShows DEF OxideService!Next
<1>3. CASE \E h \in Handlers :
             \/ AuthAnswered(h) \/ ConfirmAnswered(h) \/ TokenAnswered(h)
             \/ SiloFails(h) \/ SiloTokenReturns(h)
  BY <1>3, AuthHidden, ConfirmHidden, TokenShows, SiloFailsShows, SiloReturnShows
     DEF OxideService!Next
<1>4. CASE \E code \in Codes : ExpireGrant(code)
  BY <1>4, ExpireHidden
<1> QED BY <1>1, <1>2, <1>3, <1>4 DEF OxideNext

LEMMA OxideInitShows == OxideInit => OxideService!Init
  BY DEF OxideInit, OxideService!Init, LoginSeen

\* Whatever the silos do meanwhile, a call of get makes at most one token, of its
\* silo and for its lifetime, as its last act.
THEOREM OxideImplements == OxideSpec => OxideServes
  BY OxideInitShows, OxideShows, OxideInvariant, PTL
     DEF OxideSpec, OxideServes, OxideService!Spec, loginsSeen
=============================================================================
