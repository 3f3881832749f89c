--------------------------- MODULE TokenExchange ---------------------------
(***************************************************************************)
(* What the exchange endpoint promises its callers, whatever it asks of    *)
(* whom in between: each exchange makes at most one token, before it is    *)
(* answered and only for a caller that is entitled to it, and the answer   *)
(* tells whether there is one or leaves that open.                         *)
(***************************************************************************)
EXTENDS Common, Naturals

CONSTANTS
  Callers,      \* whoever presents a JWT
  Requests,     \* what may be asked for
  Entitlements  \* pairs of a caller and what it may be given

VARIABLE job  \* the exchange each handler is working on, if any

Verdicts == {"token", "no token", "open"}

Job == [caller : Callers, request : Requests, tokens : Nat,
        verdict : Verdicts \cup {Nothing}]

Init == job = [h \in Handlers |-> Nothing]

\* An exchange begins, and may be refused at once.
Accept(h) ==
  /\ job[h] = Nothing
  /\ \E caller \in Callers, request \in Requests, verdict \in {"no token", Nothing} :
       job' = [job EXCEPT ![h] = [caller |-> caller, request |-> request,
                                  tokens |-> 0, verdict |-> verdict]]

Mint(h) ==
  /\ job[h] # Nothing
  /\ job[h].verdict = Nothing
  /\ job[h].tokens = 0
  /\ <<job[h].caller, job[h].request>> \in Entitlements
  /\ job' = [job EXCEPT ![h].tokens = 1]

Conclude(h) ==
  /\ job[h] # Nothing
  /\ job[h].verdict = Nothing
  /\ \E verdict \in Verdicts :
       /\ verdict = "token" => job[h].tokens = 1
       /\ verdict = "no token" => job[h].tokens = 0
       /\ job' = [job EXCEPT ![h].verdict = verdict]

\* The answer is sent.
Forget(h) ==
  /\ job[h] # Nothing
  /\ job[h].verdict # Nothing
  /\ job' = [job EXCEPT ![h] = Nothing]

\* The process ends, and with it every exchange it was working on.
Crash == job' = [h \in Handlers |-> Nothing]

Next ==
  \/ \E h \in Handlers : Accept(h) \/ Mint(h) \/ Conclude(h) \/ Forget(h)
  \/ Crash

Spec == Init /\ [][Next]_job
=============================================================================
