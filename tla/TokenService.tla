---------------------------- MODULE TokenService ----------------------------
(***************************************************************************)
(* What GitHubTokens::get and OxideTokens::get promise their callers,      *)
(* however many requests they make: a call ends after the first token that *)
(* it has made, whose scope is one that the request stands for; a token is *)
(* handed out only if it was made, and a call that is refused made none.   *)
(* An error leaves that open: a token that was made may be lost.           *)
(***************************************************************************)
EXTENDS Common

CONSTANTS
  Requests,  \* what may be asked for
  Tokens,    \* what may be made, told apart by its scope
  Scopes     \* the tokens that each request stands for

VARIABLE job  \* the call each handler awaits, if any

Verdicts == {"token", "refused", "error"}

Job == [request : Requests, token : Tokens \cup {Nothing},
        verdict : Verdicts \cup {Nothing}]

Init == job = [h \in Handlers |-> Nothing]

\* A call begins, and may be refused at once.
Ask(h) ==
  /\ job[h] = Nothing
  /\ \E request \in Requests, verdict \in {"refused", Nothing} :
       job' = [job EXCEPT ![h] =
                 [request |-> request, token |-> Nothing, verdict |-> verdict]]

\* A token is made, which ends the call.
Mint(h) ==
  /\ job[h] # Nothing
  /\ job[h].verdict = Nothing
  /\ \E token \in Scopes[job[h].request], verdict \in {"token", "error"} :
       job' = [job EXCEPT ![h] =
                 [request |-> job[h].request, token |-> token, verdict |-> verdict]]

\* The call ends without a token.
Fail(h) ==
  /\ job[h] # Nothing
  /\ job[h].verdict = Nothing
  /\ \E verdict \in {"refused", "error"} :
       job' = [job EXCEPT ![h].verdict = verdict]

\* The caller takes the result.
Return(h) ==
  /\ job[h] # Nothing
  /\ job[h].verdict # Nothing
  /\ job' = [job EXCEPT ![h] = Nothing]

Next == \E h \in Handlers : Ask(h) \/ Mint(h) \/ Fail(h) \/ Return(h)

Spec == Init /\ [][Next]_job
=============================================================================
