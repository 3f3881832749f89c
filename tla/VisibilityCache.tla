-------------------------- MODULE VisibilityCache --------------------------
(***************************************************************************)
(* The repository-visibility cache of src/policy.rs: Policy's              *)
(* github_visibility_cache, a map behind a mutex that every exchange       *)
(* handler consults and fills, and github_visibility, its only user.       *)
(*                                                                         *)
(* The mutex is released across the request to GitHub, so a call of        *)
(* github_visibility is three atomic steps: the lookup under the lock      *)
(* (CacheMiss, or a hit, which changes nothing), GitHub's answer           *)
(* (GitHubAnswers or FetchFails) and the insertion under the lock          *)
(* (CacheInsert).  Meanwhile other handlers look up and insert, GitHub's   *)
(* own value changes and time passes.                                      *)
(***************************************************************************)
EXTENDS Common, Integers

CONSTANTS
  Repositories,  \* repository strings, the keys of the cache
  Visibilities,  \* what GitHub may report: public, private, internal
  TTL,           \* lifetime of an entry (one hour in the code)
  MaxSkew,       \* bound: how far the wall clock may be from real time
  MaxTime        \* bound: last instant of real time that is explored

ASSUME CacheAssumption ==
  /\ TTL \in Nat
  /\ MaxSkew \in Nat
  /\ MaxTime \in Nat
  /\ Nothing \notin Visibilities

VARIABLES
  now,        \* real time
  skew,       \* error of the wall clock that Utc::now() reads
  actual,     \* GitHub's visibility of each repository
  changedAt,  \* bookkeeping: when GitHub's visibility last changed
  cache,      \* github_visibility_cache
  fetch       \* the request for a visibility each handler awaits, if any

cacheVars == <<now, skew, actual, changedAt, cache, fetch>>
envVars == <<now, skew, actual, changedAt>>

\* An entry of the map.  started and ended are bookkeeping: when the fetch
\* that produced the entry began and when its result was inserted.
CachedVisibility ==
  [visibility : Visibilities, expires_at : Int, started : Nat, ended : Nat]

Fetch == [repository : Repositories, started : Nat,
          answer : Visibilities \cup {Nothing}]

ASSUME NothingIsNoRecord == Nothing \notin CachedVisibility \cup Fetch

\* The type invariant.
CacheTypeOK ==
  /\ now \in Nat
  /\ skew \in -MaxSkew .. MaxSkew
  /\ actual \in [Repositories -> Visibilities]
  /\ changedAt \in [Repositories -> Nat]
  /\ cache \in [Repositories -> CachedVisibility \cup {Nothing}]
  /\ fetch \in [Handlers -> Fetch \cup {Nothing}]

CacheInit ==
  /\ now = 0
  /\ skew \in -MaxSkew .. MaxSkew
  /\ actual \in [Repositories -> Visibilities]
  /\ changedAt = [repo \in Repositories |-> 0]
  /\ cache = [repo \in Repositories |-> Nothing]
  /\ fetch = [h \in Handlers |-> Nothing]

\* Utc::now(), the wall clock, which the host may step either way.
UtcNow == now + skew

----------------------------------------------------------------------------
(* Faulty variants of definitions below, used to show that the properties  *)
(* are sensitive to them.                                                  *)

\* The expiry of an entry is never looked at.
HitIgnoringExpiry(repo) == cache[repo] # Nothing

\* A failed fetch re-inserts the expired value instead of reporting the error.
FetchFailsServingStale(h) ==
  /\ fetch[h] # Nothing
  /\ cache' = IF cache[fetch[h].repository] = Nothing THEN cache
              ELSE [cache EXCEPT ![fetch[h].repository] =
                     [@ EXCEPT !.expires_at = UtcNow + TTL,
                               !.started = fetch[h].started, !.ended = now]]
  /\ fetch' = [fetch EXCEPT ![h] = Nothing]
  /\ UNCHANGED envVars

\* The lifetime of an entry that is replaced is added to, not started anew.
CacheInsertExtending(h) ==
  /\ fetch[h] # Nothing
  /\ fetch[h].answer # Nothing
  /\ LET repo == fetch[h].repository
         from == IF cache[repo] = Nothing THEN UtcNow ELSE cache[repo].expires_at
     IN  cache' = [cache EXCEPT ![repo] =
           [visibility |-> fetch[h].answer, expires_at |-> from + TTL,
            started |-> fetch[h].started, ended |-> now]]
  /\ fetch' = [fetch EXCEPT ![h] = Nothing]
  /\ UNCHANGED envVars

----------------------------------------------------------------------------

\* The lookup's condition: an entry exists and expires_at >= Utc::now().
Hit(repo) == cache[repo] # Nothing /\ cache[repo].expires_at >= UtcNow

\* The lookup found nothing usable: the handler asks GitHub.
CacheMiss(h, repo) ==
  /\ fetch[h] = Nothing
  /\ ~Hit(repo)
  /\ fetch' = [fetch EXCEPT ![h] = [repository |-> repo, started |-> now,
                                    answer |-> Nothing]]
  /\ UNCHANGED <<envVars, cache>>

\* GitHub reads the visibility it will report to h.
GitHubAnswers(h) ==
  /\ fetch[h] # Nothing
  /\ fetch[h].answer = Nothing
  /\ fetch' = [fetch EXCEPT ![h].answer = actual[fetch[h].repository]]
  /\ UNCHANGED <<envVars, cache>>

\* Some request of the fetch failed, or its answer was lost: the error is
\* returned and the cache keeps what it had.
FetchFails(h) ==
  /\ fetch[h] # Nothing
  /\ fetch' = [fetch EXCEPT ![h] = Nothing]
  /\ UNCHANGED <<envVars, cache>>

\* h resumes with the answer and inserts it, replacing any other entry.
CacheInsert(h) ==
  /\ fetch[h] # Nothing
  /\ fetch[h].answer # Nothing
  /\ cache' = [cache EXCEPT ![fetch[h].repository] =
                 [visibility |-> fetch[h].answer, expires_at |-> UtcNow + TTL,
                  started |-> fetch[h].started, ended |-> now]]
  /\ fetch' = [fetch EXCEPT ![h] = Nothing]
  /\ UNCHANGED envVars

\* GitHub: somebody changes a repository's visibility.
ChangeVisibility(repo) ==
  /\ \E v \in Visibilities \ {actual[repo]} :
       actual' = [actual EXCEPT ![repo] = v]
  /\ changedAt' = [changedAt EXCEPT ![repo] = now]
  /\ UNCHANGED <<now, skew, cache, fetch>>

Tick ==
  /\ now < MaxTime
  /\ now' = now + 1
  /\ UNCHANGED <<skew, actual, changedAt, cache, fetch>>

\* The host steps its wall clock.
StepClock ==
  /\ skew' \in (-MaxSkew .. MaxSkew) \ {skew}
  /\ UNCHANGED <<now, actual, changedAt, cache, fetch>>

Environment ==
  \/ Tick
  \/ StepClock
  \/ \E repo \in Repositories : ChangeVisibility(repo)

CacheNext ==
  \/ \E h \in Handlers, repo \in Repositories : CacheMiss(h, repo)
  \/ \E h \in Handlers : GitHubAnswers(h) \/ FetchFails(h) \/ CacheInsert(h)
  \/ Environment

CacheSpec == CacheInit /\ [][CacheNext]_cacheVars

----------------------------------------------------------------------------

\* A hit is never older than the cache promises: the fetch that filled the
\* entry ended at most TTL ago (github_visibility's one hour), give or take
\* the two errors of the wall clock, one when the entry was written and one
\* when it is read.
HitIsRecent ==
  \A repo \in Repositories :
    Hit(repo) => now <= cache[repo].ended + TTL + 2 * MaxSkew

\* An entry contradicts GitHub only if GitHub's visibility changed after the
\* fetch that filled it had begun, however the handlers' fetches of the same
\* repository overlap, fail and overwrite each other.
WrongEntryMeansChange ==
  \A repo \in Repositories :
    cache[repo] # Nothing /\ cache[repo].visibility # actual[repo]
      => changedAt[repo] >= cache[repo].started

\* The same for the answer a handler holds between GitHub and the insertion.
WrongAnswerMeansChange ==
  \A h \in Handlers :
    /\ fetch[h] # Nothing
    /\ fetch[h].answer \notin {Nothing, actual[fetch[h].repository]}
    => changedAt[fetch[h].repository] >= fetch[h].started

\* The inductive invariant: the bounds on recorded times that the staleness
\* properties rest on.
TimesInOrder ==
  /\ \A h \in Handlers : fetch[h] # Nothing => fetch[h].started <= now
  /\ \A repo \in Repositories :
       cache[repo] # Nothing =>
         /\ cache[repo].started <= cache[repo].ended
         /\ cache[repo].ended <= now
         /\ cache[repo].expires_at <= cache[repo].ended + MaxSkew + TTL

CacheInv ==
  /\ CacheTypeOK
  /\ TimesInOrder
  /\ WrongEntryMeansChange
  /\ WrongAnswerMeansChange
============================================================================
