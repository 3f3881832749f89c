------------------------------ MODULE Service ------------------------------
(***************************************************************************)
(* The whole process: Startup until it serves, then Exchange with the      *)
(* providers that startup has loaded.  Nothing is persisted, so a process  *)
(* that is killed leaves its exchanges, its cache and its requests behind; *)
(* GitHub, the silos and the providers go on, and have perhaps done what   *)
(* the lost requests asked for.                                            *)
(*                                                                         *)
(* What GitHub and the silos are asked with, the audience and the policies *)
(* are the same in every deployment here.                                  *)
(***************************************************************************)
EXTENDS Exchange, Startup

ASSUME ServiceAssumption == ProviderMaps = {NoProviders}

\* What the handlers and services have and startup does not.
handlingVars == <<cacheVars, gitHubVars, oxideVars, exchange>>

serviceVars == <<handlingVars, startupVars>>

----------------------------------------------------------------------------

ServiceInit == ExchangeInit /\ StartupInit

\* The clients of the silos are built with the rest of the context.
BuildsClients ==
  /\ IF phase' = "serving"
     THEN /\ clients' \in [DOMAIN clients -> Credentials]
          /\ ClientsOfManifest(clients')
     ELSE UNCHANGED clients
  /\ UNCHANGED <<cacheVars, gitHubVars, login, grants, exchange>>

Starting ==
  /\ (\E d \in Deployments : Start(d) \/ StartFails(d)) \/ Loads
  /\ BuildsClients

\* The handlers run while the server does.
Serving ==
  /\ phase = "serving"
  /\ Handling
  /\ UNCHANGED startupVars

\* What a silo makes of the requests that are lost with the process: it may
\* have carried out the one about a grant.
Orphaned(state) ==
  CASE state = "pending" -> {"pending", "confirmed"}
    [] state = "confirmed" -> {"confirmed", "redeemed"}
    [] OTHER -> {state}

\* Everything that only the process knew is gone.
Abandon ==
  /\ exchange' = [h \in Handlers |-> Nothing]
  /\ call' = [h \in Handlers |-> Nothing]
  /\ fetch' = [h \in Handlers |-> Nothing]
  /\ login' = [h \in Handlers |-> Nothing]
  /\ cache' = [repo \in Repositories |-> Nothing]
  /\ \E states \in [Codes -> {"pending", "confirmed", "redeemed", "expired", Nothing}] :
       /\ \A code \in Codes :
            states[code] \in
              IF grants[code] = Nothing THEN {Nothing}
              ELSE IF \E h \in Handlers : login[h] # Nothing /\ login[h].code = code
              THEN Orphaned(grants[code].state) ELSE {grants[code].state}
       /\ grants' = [code \in Codes |->
            IF grants[code] = Nothing THEN Nothing
            ELSE [grants[code] EXCEPT !.state = states[code]]]
  /\ UNCHANGED <<envVars, active, clients>>

Kill == Killed /\ Abandon

OthersAct ==
  \/ ServicesChange /\ UNCHANGED startupVars
  \/ /\ \E url \in DOMAIN Publishable : Publish(url)
     /\ UNCHANGED handlingVars

ServiceNext == Starting \/ Serving \/ Kill \/ OthersAct

ServiceSpec == ServiceInit /\ [][ServiceNext]_serviceVars

----------------------------------------------------------------------------

\* An exchange that was let in, and one that has made a token, is of a caller
\* that a configured provider vouched for while the process that works on it
\* was starting, however often it was restarted and keys were rotated.
AdmittedIsGenuine ==
  \A h \in Handlers :
    exchange[h] # Nothing /\ (exchange[h].stage # "answered" \/ exchange[h].tokens > 0)
      => Genuine(exchange[h].jwt)
=============================================================================
