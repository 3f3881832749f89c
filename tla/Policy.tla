------------------------------- MODULE Policy -------------------------------
(***************************************************************************)
(* The pure part of src/policy.rs: the principal built from the claims of  *)
(* a JWT, the resources, and authorize, which asks Cedar about one action  *)
(* of the principal on one resource under the schema of                    *)
(* policy.cedarschema.                                                     *)
(*                                                                         *)
(* An action is a permission string as GitHubTokens represents it: the     *)
(* parts of its name and, after the colon, its level.                      *)
(***************************************************************************)
EXTENDS Common

CONSTANTS
  Policies,             \* the policies of the .cedar file
  Effect,               \* permit or forbid, for each of them
  Evaluate(_, _, _, _)  \* Cedar: what a policy says of principal, action and
                        \* resource: "satisfied", "unsatisfied" or "error"

ASSUME EffectAssumption == Effect \in [Policies -> {"permit", "forbid"}]

----------------------------------------------------------------------------
(* The schema.                                                             *)

Action(name, level) == [name |-> <<name>>, level |-> level]

Deploy == Action("deploy", Nothing)

ReadOnlyActions == {"actions", "checks", "members"}
ReadWriteActions == {"contents", "pull_requests", "administration", "environments"}

RepositoryActions ==
  {Action(name, "read") : name \in ReadOnlyActions \cup ReadWriteActions}
    \cup {Action(name, "write") : name \in ReadWriteActions}

----------------------------------------------------------------------------
(* Entities.                                                               *)

\* Claims::get_str: a claim that is a number counts as missing.
GetStr(claims, key) ==
  IF key \in DOMAIN claims /\ claims[key].kind = "string"
  THEN claims[key].value ELSE Nothing

RequiredAttributes ==
  {"repository", "repository_owner", "repository_visibility", "event_name",
   "ref", "iss"}

\* build_principal fails without the id of the run.
HasPrincipal(claims) == GetStr(claims, "jti") # Nothing

\* workflow_run_entity: a missing claim is the empty string, except for the
\* environment, which is left out.
WorkflowRun(claims) ==
  [id |-> GetStr(claims, "jti"),
   attributes |->
     [a \in RequiredAttributes \cup
            (IF GetStr(claims, "environment") = Nothing THEN {} ELSE {"environment"}) |->
        IF GetStr(claims, a) = Nothing THEN "" ELSE GetStr(claims, a)]]

RepositoryEntity(name, visibility) ==
  [type |-> "Repository", name |-> name, visibility |-> visibility]

SiloEntity(url) == [type |-> "Silo", url |-> url]

----------------------------------------------------------------------------

\* The schema validates a request only if the action applies to its resource.
Applies(action, resource) ==
  action \in (IF resource.type = "Silo" THEN {Deploy} ELSE RepositoryActions)

Satisfied(effect, principal, action, resource) ==
  {p \in Policies : Effect[p] = effect
                    /\ Evaluate(p, principal, action, resource) = "satisfied"}

\* authorize: the request is valid, some permit is satisfied and no forbid
\* is.  A policy whose evaluation fails counts as not satisfied.
Authorized(principal, action, resource) ==
  /\ Applies(action, resource)
  /\ Satisfied("permit", principal, action, resource) # {}
  /\ Satisfied("forbid", principal, action, resource) = {}
=============================================================================
