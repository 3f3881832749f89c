----------------------- MODULE VisibilityCacheProofs -----------------------
(* For every number of handlers, repositories, lifetime and clock error: an *)
(* inductive invariant of the visibility cache and the two staleness        *)
(* properties that follow from it.                                          *)
EXTENDS VisibilityCache, TLAPS

\* The cache starts in the inductive invariant.
LEMMA CacheInitInv == CacheInit => CacheInv
  BY CacheAssumption, NothingIsNoRecord
     DEF CacheInit, CacheInv, CacheTypeOK, TimesInOrder,
         WrongEntryMeansChange, WrongAnswerMeansChange

\* A lookup that misses preserves the invariant: the new fetch begins now and
\* has no answer yet.
LEMMA CacheMissInv ==
  ASSUME CacheInv, NEW h \in Handlers, NEW repo \in Repositories,
         CacheMiss(h, repo)
  PROVE  CacheInv'
<1> USE CacheAssumption, NothingIsNoRecord DEF CacheInv, CacheMiss, envVars
<1>1. CacheTypeOK'
  BY DEF CacheTypeOK, Fetch
<1>2. TimesInOrder'
  BY DEF TimesInOrder, CacheTypeOK
<1>3. WrongEntryMeansChange'
  BY DEF WrongEntryMeansChange
<1>4. WrongAnswerMeansChange'
  BY DEF WrongAnswerMeansChange, CacheTypeOK
<1> QED BY <1>1, <1>2, <1>3, <1>4

\* GitHub's answer is its value at that instant, so it is not wrong.
LEMMA GitHubAnswersInv ==
  ASSUME CacheInv, NEW h \in Handlers, GitHubAnswers(h)
  PROVE  CacheInv'
<1> USE CacheAssumption, NothingIsNoRecord DEF CacheInv, GitHubAnswers, envVars
<1>1. CacheTypeOK'
  BY DEF CacheTypeOK, Fetch
<1>2. TimesInOrder'
  BY <1>1 DEF TimesInOrder, CacheTypeOK, Fetch
<1>3. WrongEntryMeansChange'
  BY DEF WrongEntryMeansChange
<1>4. WrongAnswerMeansChange'
  BY DEF WrongAnswerMeansChange, CacheTypeOK, Fetch
<1> QED BY <1>1, <1>2, <1>3, <1>4

\* A failed fetch leaves the cache alone.
LEMMA FetchFailsInv ==
  ASSUME CacheInv, NEW h \in Handlers, FetchFails(h)
  PROVE  CacheInv'
<1> USE CacheAssumption, NothingIsNoRecord DEF CacheInv, FetchFails, envVars
<1>1. CacheTypeOK'
  BY DEF CacheTypeOK
<1>2. TimesInOrder'
  BY DEF TimesInOrder, CacheTypeOK
<1>3. WrongEntryMeansChange'
  BY DEF WrongEntryMeansChange
<1>4. WrongAnswerMeansChange'
  BY DEF WrongAnswerMeansChange, CacheTypeOK
<1> QED BY <1>1, <1>2, <1>3, <1>4

\* An insertion turns what is known of the handler's answer into what is
\* claimed of the entry, and computes the expiry from a clock that is at most
\* MaxSkew ahead.
LEMMA CacheInsertInv ==
  ASSUME CacheInv, NEW h \in Handlers, CacheInsert(h)
  PROVE  CacheInv'
<1> USE CacheAssumption, NothingIsNoRecord DEF CacheInv, CacheInsert, envVars
<1> DEFINE repo == fetch[h].repository
           entry == [visibility |-> fetch[h].answer, expires_at |-> UtcNow + TTL,
                     started |-> fetch[h].started, ended |-> now]
<1>1. /\ repo \in Repositories
      /\ entry \in CachedVisibility
      /\ entry # Nothing
  BY DEF CacheTypeOK, Fetch, CachedVisibility, UtcNow
<1>2. cache' = [cache EXCEPT ![repo] = entry]
  OBVIOUS
<1>3. CacheTypeOK'
  BY <1>1, <1>2 DEF CacheTypeOK
<1>4. TimesInOrder'
  BY <1>1 DEF TimesInOrder, CacheTypeOK, UtcNow
<1>5. WrongEntryMeansChange'
  <2> SUFFICES ASSUME NEW r \in Repositories, cache'[r] # Nothing,
                      cache'[r].visibility # actual[r]
               PROVE  changedAt[r] >= cache'[r].started
    BY DEF WrongEntryMeansChange
  <2>1. CASE r = repo
    BY <2>1, <1>1, <1>2 DEF WrongAnswerMeansChange, CacheTypeOK
  <2>2. CASE r # repo
    BY <2>2, <1>1, <1>2 DEF WrongEntryMeansChange, CacheTypeOK
  <2> QED BY <2>1, <2>2
<1>6. WrongAnswerMeansChange'
  BY DEF WrongAnswerMeansChange, CacheTypeOK
<1> QED BY <1>3, <1>4, <1>5, <1>6

\* A change at GitHub happens now, later than the start of every fetch.
LEMMA ChangeVisibilityInv ==
  ASSUME CacheInv, NEW repo \in Repositories, ChangeVisibility(repo)
  PROVE  CacheInv'
<1> USE CacheAssumption, NothingIsNoRecord DEF CacheInv, ChangeVisibility
<1>1. CacheTypeOK'
  BY DEF CacheTypeOK
<1>2. TimesInOrder'
  BY DEF TimesInOrder
<1>3. WrongEntryMeansChange'
  BY DEF WrongEntryMeansChange, TimesInOrder, CacheTypeOK, CachedVisibility
<1>4. WrongAnswerMeansChange'
  BY DEF WrongAnswerMeansChange, TimesInOrder, CacheTypeOK, Fetch
<1> QED BY <1>1, <1>2, <1>3, <1>4

\* Time passing and the wall clock being stepped preserve the invariant.
LEMMA ClockInv ==
  ASSUME CacheInv, Tick \/ StepClock
  PROVE  CacheInv'
<1> USE CacheAssumption, NothingIsNoRecord DEF CacheInv, Tick, StepClock
<1>1. CacheTypeOK'
  BY DEF CacheTypeOK
<1>2. TimesInOrder'
  BY DEF TimesInOrder, CacheTypeOK, CachedVisibility, Fetch
<1>3. WrongEntryMeansChange'
  BY DEF WrongEntryMeansChange
<1>4. WrongAnswerMeansChange'
  BY DEF WrongAnswerMeansChange
<1> QED BY <1>1, <1>2, <1>3, <1>4

\* Every step of the cache preserves the invariant.
LEMMA CacheNextInv == CacheInv /\ [CacheNext]_cacheVars => CacheInv'
<1> SUFFICES ASSUME CacheInv, [CacheNext]_cacheVars
             PROVE  CacheInv'
  OBVIOUS
<1>1. CASE UNCHANGED cacheVars
  BY <1>1 DEF cacheVars, CacheInv, CacheTypeOK, TimesInOrder,
              WrongEntryMeansChange, WrongAnswerMeansChange
<1>2. CASE CacheNext
  BY <1>2, CacheMissInv, GitHubAnswersInv, FetchFailsInv, CacheInsertInv,
     ChangeVisibilityInv, ClockInv DEF CacheNext, Environment
<1> QED BY <1>1, <1>2

\* The invariant implies that a hit is recent.
LEMMA InvImpliesRecent == CacheInv => HitIsRecent
  BY CacheAssumption
     DEF CacheInv, CacheTypeOK, TimesInOrder, HitIsRecent, Hit, UtcNow,
         CachedVisibility

\* The cache keeps its inductive invariant: its types, the order of the times
\* it records, and what a wrong value implies.
THEOREM CacheInvariant == CacheSpec => []CacheInv
  BY CacheInitInv, CacheNextInv, PTL DEF CacheSpec

\* Whatever the interleaving of lookups, answers and insertions, a hit comes
\* from a fetch that ended within the lifetime of an entry.
THEOREM HitsAreRecent == CacheSpec => []HitIsRecent
  BY CacheInvariant, InvImpliesRecent, PTL

\* An entry that contradicts GitHub implies a change at GitHub since the
\* fetch that filled it began.
THEOREM WrongEntriesMeanChange == CacheSpec => []WrongEntryMeansChange
<1>1. CacheInv => WrongEntryMeansChange
  BY DEF CacheInv
<1> QED BY <1>1, CacheInvariant, PTL
============================================================================
