# A TLA+ model of oidcx

oidcx exchanges the OIDC token of a CI run for an access token of another
service: a GitHub App installation token, or a token of an Oxide silo. One HTTP
endpoint validates the caller's JWT, asks a Cedar policy about everything that
is requested, and only then mints. This directory models that exchange and the
startup before it, checks both with TLC and proves their safety properties with
TLAPS.

Paths below are those of the repository.

## The system

| Component | Source | State | Operations |
|---|---|---|---|
| exchange endpoint | `src/endpoints.rs` | one task per request | `exchange` |
| policy: decisions | `src/policy.rs`, `policy.cedarschema` | policies and schema, fixed at startup | `ensure_allowed`, `authorize`, `workflow_run_entity` |
| policy: visibility cache | `src/policy.rs` | a map behind a mutex | `github_visibility` |
| GitHub tokens | `src/token/github.rs` | none after startup; the requests each call has in flight | `parse`, `get`, `repository_visibility` |
| Oxide tokens | `src/token/oxide.rs` | a client per silo, fixed at startup; the device flow of each call | `new`, `get`, `validate_duration` |
| JWT validation | `src/oidc.rs` | keys of each provider, fetched at startup | `validate`, `fetch_config`, `resolve` |
| startup | `src/main.rs`, `src/settings.rs`, `src/context.rs`, `src/providers.rs` | settings, policies, a map from issuers to providers; all fixed once the server runs | `main`, `Settings::new`, `Context::new` |
| HTTP server | `src/server.rs` | the `Context` that handlers share | `server` |
| logging, wire types, URLs | `src/main.rs`, `src/oauth.rs`, `src/util.rs` | none | |

How they interact: an exchange calls the JWT validation, then `ensure_allowed`.
For a silo that is one decision. For GitHub it goes through the repositories one
by one, asks the visibility cache for each, and the cache, when it does not
know, calls `repository_visibility`, which itself calls `GitHubTokens::get` for a
token that may read that repository's metadata. When all is allowed the exchange
calls `get` of one of the two token services. The cache is the only state that
handlers share and change; GitHub and the silos are shared too, and change by
themselves. The keys that JWTs are validated with are those that startup has
fetched; nothing fetches them again while the server runs.

What is hard: handlers interleave at every await; the cache's lock is not held
while GitHub is asked; visibilities, installations, grants and the wall clock
change between two steps; every one of up to a dozen requests may fail, or be
carried out and its answer lost; none has a timeout; nothing is retried or
undone. Nothing is persisted: a process that ends loses its exchanges, its cache
and its keys, but not what the services have done for it. So a restart has nothing
to recover; what it must get right is to trust only what it loads itself. Configuration comes
from several files, and providers publish a document and keys that are fetched at
different instants and rotate.

What makes each component correct:

- *visibility cache*: a visibility is used only within its lifetime, and is
  wrong only because of a change since it was asked for;
- *GitHub tokens*: what is granted is what the request's strings say, although
  they are split and the parts sent separately; errors are true;
- *Oxide tokens*: lifetimes are within the settings, each caller gets the token
  of its own grant, at the silo it named and under that silo's credential;
- *policy and endpoint*: nothing is minted that was not decided, about every
  pair of a repository and a permission; the status of the answer tells whether
  a token exists; an exchange does not wait for another one;
- *startup and JWT validation*: whoever is accepted was vouched for by a
  configured provider while this process was starting, every configured provider
  is trusted, and a start ends;
- *the whole process*: an exchange makes at most one token, for an entitled
  caller and before its answer, and whoever it admits is vouched for by the
  providers that this process has loaded.

## The modules

| Module | Models | Kind |
|---|---|---|
| `Common` | the constants that all refer to | |
| `VisibilityCache` | `Policy::github_visibility` and the map | state machine |
| `GitHubTokens` | `ParsedGitHubRequest::parse`, `GitHubTokens::get`, GitHub's installations | state machine |
| `OxideTokens` | `OxideTokens::new`, `get`, `validate_duration`, the silos' grants | state machine |
| `Policy` | entities, the schema, `authorize` | pure |
| `Oidc` | `validate`, the choice of a provider | pure |
| `Exchange` | `exchange`, `ensure_allowed`, `repository_visibility`; composes all of the above | state machine |
| `TokenExchange` | what the endpoint promises its callers | abstract state machine |
| `TokenService` | what both `get`s promise the endpoint | abstract state machine |
| `Startup` | `main`, `Settings::new`, `Context::new`, `fetch_config`, `resolve` | state machine |
| `Service` | `Exchange` and `Startup`, and the end of the process | state machine |
| `MC...` | values of the constants for TLC | |
| `...Proofs` | theorems and proofs about a component | |

An action is what a handler does from one await to the next. Between two awaits
a handler touches shared state at most once, under the cache's lock, so nothing
finer can be observed.

**VisibilityCache.** `cache` is `github_visibility_cache`, `fetch` what each
handler awaits. The lookup is the condition `Hit`, `CacheMiss` begins a fetch,
`GitHubAnswers` is the instant at which GitHub reads the value it will report,
`CacheInsert` is the insertion, `FetchFails` any error. `now` is real time and
`skew` the error of the wall clock that `Utc::now()` reads; they are apart
because an NTP step between the insertion and the lookup moves the expiry.
`started`, `ended` and `changedAt` only record instants for the properties.

**GitHubTokens.** `call` is the call of `get` that each handler awaits. A
repository string is the sequence of its parts between slashes, a permission its
name and the level after the colon; that is all that `parse` and the policy see
of them. `Get` is everything before the first request, `LookupAnswered` one turn
of the loop over `orgs` and `users`, `Minted` the third request. `RequestFailed`
ends a call from any of them. `active` are GitHub's installations. The
installation endpoint that does not fit the kind of the namespace may or may not
answer 404; the loop has to cope with both.

**OxideTokens.** `clients` is the map that `new` builds; where two keys of the
manifest are spellings of one silo the iteration order of a `HashMap` decides,
so `OxideInit` allows either. `login` is the call of `get` each handler awaits,
`grants` the silos' side of the device flow. The url crate's normal form is the
constant `Canonical`.

**Policy** and **Oidc** are operators, as the code has no state there. Cedar's
evaluation of one policy is the constant `Evaluate`, which may answer "error": a
policy that fails to evaluate is not satisfied, whether it permits or forbids.
`Authorized` adds the schema's check that the action applies to the resource.
A request for a visibility does not go through the policy, which is why
`metadata:read` is not one of its actions.

**Exchange.** `exchange` is the state of each handler's task. `ensure_allowed` is
the cycle of the stages `lookup` (the cache is looked at), `fetch`
(`repository_visibility` waits for its token) and `repo` (it waits for the
repository); `Decide` is what follows once a visibility is known, the turn of the
loop, its end and the beginning of `get` among it. `Admitted` is everything that
is checked before the first await. Every error before `get` of the requested
token is answered with 400, those of fetching a visibility too; after that
`safe_to_expose` decides.

**TokenExchange.** One `job` per handler: who asks for what, how many tokens were
made, and what the answer says of them. `Exchange` implements it as
`Promise == INSTANCE TokenExchange WITH ...`: a task becomes a job by `JobOf`,
which forgets the stages, the loop and everything that is awaited; the request
that mints is `Mint`, whatever leads to an answer `Conclude`, and metadata tokens
do not show. `Entitled` says who may be given what: from GitHub, named permissions
that the policy allows on each repository with some visibility of it (which one
is the cache's business, and `WrongDecisionMeansChange`'s); from a silo, a
permitted lifetime and the permission to deploy. `KeepsPromise` is the abstract
specification as a property.

**TokenService.** One `job` per call of `get`: what was asked for, the token that
was made, and what the call's result says. `GitHubTokens` and `OxideTokens` both
implement it, `GitHubService == INSTANCE TokenService WITH ...` and
`OxideService == ...`. `CallSeen` forgets the lookups and the installation that
was found; `LoginSeen` reads the token off the grant behind the call's code, so
that a step of one call that redeemed another's grant would show as a token
that call did not make. `Scopes` says which tokens a request stands for: at
GitHub one, `RequestedToken`; at a silo one for each credential that the
manifest has for it.

**Startup.** A deployment is a record of the command line, the configuration
files (functions from the keys they set) and the policy files. `Start` is
everything up to the first request to a provider: `Merged` gives each key the
value of the last file that sets it, `Deserializes` asks for the keys without a
default, for whole sections and for providers with a type. `DiscoveryAnswered`
and `KeysAnswered` are the two requests to each provider in turn, whose answers
are `published` at that instant; `Asks` goes to the next provider or, after the
last one, reads the policy file and serves. Whatever fails ends the process
(`ProviderFails`, `ContextFails`, `StartFails`); it may also be killed at any
time, and is started again with any deployment. `seen` records what was published
at each URL since this start, for the properties.

**Service.** `Handling` of `Exchange` runs while `phase` is `"serving"`, with the
map `providers` that `Startup` has filled. `Kill` ends the process: `Abandon`
forgets every exchange, call, fetch, login and cache entry. The services keep
what they have. A request that was in flight may still be carried out: `Orphaned`
moves the grant of an abandoned device flow on by a step or not. A grant whose
code never reached the process is left out; nobody can ever use it.

Definitions whose comments call them faulty variants are the code with a
plausible bug. They are not part of any specification: each shows that a
property notices that bug.

## What TLC checks

| Run | Instance | What it shows |
|---|---|---|
| `VisibilityCache.cfg` | 2 handlers, 1 repository, 2 visibilities, lifetime 2, 6 instants, clock error 1 | `HitIsRecent`, `WrongEntryMeansChange`, the inductive `CacheInv` |
| `GitHubTokens.cfg` | 2 handlers, an organization with two possible installations, a user with one, 10 requests | `ScopeIsRequested`, `NotInstalledIsTrue`, `GitHubServes`, the inductive `GitHubInv` |
| `OxideTokens.cfg` | 2 handlers, 3 device codes, 2 silos in 5 spellings, durations 0 to 3, maximum 2 | `LifetimeBounded`, `TokenIsOwn`, `TokenReady`, `NotConfiguredIsTrue`, `OxideServes`, the inductive `OxideInv` |
| `OxideWithoutExpiry.cfg` | the same, with tokens that never expire allowed | `LifetimeBounded` |
| `ExchangeRace.cfg` | 2 handlers, 1 repository, 2 requests, a caller whose permissions depend on the visibility | `MintsAreAuthorized`, `WrongDecisionMeansChange` |
| `ExchangeRequests.cfg` | 1 handler, 3 repository strings, 5 GitHub and 2 silo requests, 4 JWTs | `ExchangeInv`, `MintsAreAuthorized`, `StatusTellsOutcome`, `KeepsPromise`, `StepsRunOut` |
| `ExchangeLiveness.cfg` | 2 handlers, one of them fair, 1 repository | `Responds`, `StepsRunOut` |
| `Startup.cfg` | 7 deployments, 2 providers that publish 1 to 3 things at each of 4 URLs, 6 JWTs | `AcceptedIsGenuine`, `SteadyProviderIsTrusted`, `StartEnds`, `LoadsRunOut`, the inductive `StartupInv` |
| `Service.cfg` | 1 handler, 2 deployments, 2 providers of which one rotates its key, 2 JWTs, 2 device codes | `AdmittedIsGenuine`, `KeepsPromise` |
| `StartupFiles.cfg` | two files on the command line | `EveryFileIsMerged` does not hold |
| `StartupPolicy.cfg` | a policy file with two extensions | `PolicyFileIsNamed` does not hold |
| `StartupExample.cfg` | the README's example and a whole configuration | `ExampleConfigures` does not hold |

The properties, in words, are in the comments above them. The ones that say most:

- `WrongDecisionMeansChange`: an allowed exchange may have been decided with a
  visibility that is no longer GitHub's, but never with one that was already out
  of date when it was asked for, by whichever handler. Overlapping fetches may
  leave the older answer in the cache, and this bounds how old it can be.
- `MintsAreAuthorized` speaks of what GitHub *grants*, which for an empty
  permissions object is everything the app holds; the refusal of empty requests
  in `ensure_allowed` is what makes it true.
- `StatusTellsOutcome`: 400 means that no token was minted, with one exception.
  `safe_to_expose` passes GitHub's own error statuses on as a 400, a 502 as well,
  and behind one of these a token may exist.
- `KeepsPromise` relates a whole exchange to what its caller may expect. A retry
  of the mint would break it (`MintedRetrying`), although each single request
  would be one that the policy allows.
- `GitHubServes` and `OxideServes` say of one call what `KeepsPromise` says of a
  whole exchange, and more of the token: its scope, its silo and lifetime, and that
  making it is the call's last act.
- `StepsRunOut` is an action property. `StepsLeft` counts the steps that an exchange
  still takes, at most seven for each of its repositories and five for the token:
  every step of the exchange lowers it, and no step of another handler, a service or
  the clock raises it. `LoadsRunOut` says the same of a start, with two requests for
  each provider. Neither needs fairness; a retry, a poll, or a fetch that another
  handler could make necessary again would break them.
- `TokenReady` says that the one request for a token comes after a confirmation of
  the same grant that succeeded. That a confirmation has taken effect when it is
  answered is assumed of the silo, as the code's comment does.
- `AcceptedIsGenuine` ties a JWT's issuer to the keys of the provider that has
  that issuer, across key rotation, a shared issuer and restarts with other
  settings. It promises nothing about freshness: a key that is withdrawn after
  the start is trusted until the process ends, which is what the code does.
- `SteadyProviderIsTrusted` is the other direction. Its exception is what the map
  does: a provider further down the settings that claims the same issuer replaces
  the earlier one, and the earlier one's callers are refused without a word.

The three last runs show where the code does not do what `src/README.md` says:

- "Multiple files can be passed to the command line, and they will be merged"
  (line 181): `main` (`src/src/main.rs:31`) reads one argument and ignores the
  rest.
- `policy_path` is the "Path to the Polar file defining the authorization policy"
  (line 193): `Context::new` (`src/src/context.rs:88` and `96`) takes off the
  extension, replaces one more by `cedar` and reads that file. So `policy.polar`
  reads `policy.cedar`, and so does `policy.v2.cedar`, which is the case of the
  run.
- The example of a provider (line 213) has a `url` and no `type`; `ProviderConfig`
  (`src/src/providers.rs:22`) does not deserialize without one.

The bounds. Two handlers are enough for every overlap of two fetches of a
repository: between a handler's lookup and insertion the other one may fetch,
insert, fail and fetch again. `MaxTime` 6 with a lifetime of 2 lets an entry
expire, be replaced by a fetch that began earlier, and expire again. Five
spellings and three codes exceed what two flows can use at the same time, with
one left over for a flow after a failed one. In the runs of `Exchange` the
lifetime is 0, so that one tick makes an entry expire; the wall clock does not
err there, as `VisibilityCache.cfg` covers that; `ExchangeRequests.cfg` has a
single instant. `MaxTime`, `MaxSkew` and `Codes` are the only bounds that the
code does not have. When the codes are used up a silo can only fail.

The deployments of `Startup.cfg` are a whole configuration, one split over two
files of which the later replaces the list of providers, one without providers
and with a file that is missing, and one for each way a start can fail before
the server: no policy file, a key or half of a section missing, a file that
cannot be parsed. The first provider rotates its key and has outages; the second
publishes its own issuer or the first one's, an algorithm that is not known, or a
key of a kind that cannot be used. That is every order in which the two may
answer, fail, change and collide. `Service.cfg` has one handler because the
interleaving of handlers is `ExchangeRace.cfg`'s question and a restart does to
each of them what it does to one; two device codes let a flow begin again after a
restart that left a grant of the first behind.

Deadlock is checked in every run.

Fairness. Safety needs none. `StartEnds` is checked under weak fairness of `Loads`:
a request to a provider is answered, or fails. `reqwest::Client::new()` sets no
timeout, so the code itself does not see to that; what the property shows is that
nothing else keeps a start from ending, with providers that change all the time
and answers that are not understood. `Responds` is checked under weak fairness of the
steps of the exchanges in `FairHandlers` only: the runtime runs a task that can
run, and the services answer the requests of these exchanges, be it with an
error. The code has no timeout, so for the others nothing is assumed and nothing
is promised: they may hang at any request. What is checked is that they do not
take the fair ones with them, which the lock would do if it were held across the
await (`LookupMissLocking`).

## What is proved

For all handlers, repositories, requests, manifests and bounds, from the named
assumptions on the constants (types, and that `Nothing` is no value):

| Theorem | Module | Property |
|---|---|---|
| `CacheInvariant`, `HitsAreRecent`, `WrongEntriesMeanChange` | `VisibilityCacheProofs` | `CacheInv`, `HitIsRecent`, `WrongEntryMeansChange` |
| `GitHubInvariant`, `GrantedScope`, `NotInstalledReports` | `GitHubTokensProofs` | `GitHubInv`, `ScopeIsRequested`, `NotInstalledIsTrue` |
| `GitHubImplements` | `GitHubTokensProofs` | `GitHubServes`: `GitHubTokens` implements `TokenService` |
| `OxideInvariant`, `LifetimesAreBounded`, `TokensAreOwn`, `TokensAreReady`, `NotConfiguredReports` | `OxideTokensProofs` | `OxideInv`, `LifetimeBounded`, `TokenIsOwn`, `TokenReady`, `NotConfiguredIsTrue` |
| `OxideImplements` | `OxideTokensProofs` | `OxideServes`: `OxideTokens` implements `TokenService` |
| `ExchangeInvariant`, `MintsAuthorized`, `WrongDecisionsMeanChange`, `StatusesTell` | `ExchangeProofs` | `ExchangeInv`, `MintsAreAuthorized`, `WrongDecisionMeansChange`, `StatusTellsOutcome` |
| `ExchangeImplements`, `ExchangeComponentsSafe` | `ExchangeProofs` | an exchange implements `CacheSpec`, `GitHubSpec` and `OxideSpec`, and has the components' properties |
| `ExchangeServes` | `ExchangeProofs` | `GitHubServes` and `OxideServes`, when handlers of the endpoint are the callers |
| `ExchangeRunsOut` | `StepsProofs` | `StepsRunOut` |
| `ExchangeKeepsPromise` | `PromiseProofs` | `KeepsPromise`: `Exchange` implements `TokenExchange` |
| `PromiseMeans` | `PromiseProofs` | whatever keeps the promise makes at most one token per exchange, for an entitled caller, and answers truly (`JobsAreFair`) |
| `StartupInvariant`, `AcceptedGenuine`, `SteadyTrusted` | `StartupProofs` | `StartupInv`, `AcceptedIsGenuine`, `SteadyProviderIsTrusted` |
| `StartRunsOut` | `StartupProofs` | `LoadsRunOut` |
| `LaterSourceWins`, `CedarPathIsNamed` | `StartupProofs` | what `Merged` and `CedarPath` compute |
| `OneFileIsMerged`, `CedarPolicyIsNamed` | `StartupProofs` | when `EveryFileIsMerged` and `PolicyFileIsNamed` do hold |
| `ServiceImplementsStartup`, `ServiceTrust` | `ServiceProofs` | a process implements `StartupSpec`; `LoadsRunOut`, `AcceptedIsGenuine`, `SteadyProviderIsTrusted` |
| `ServiceSafe`, `ServiceRunsOut`, `ServiceIsFair` | `ServiceProofs` | ten properties of the endpoint and its components, `StepsRunOut` and `JobsAreFair`, through every restart |
| `ServiceInvariant`, `AdmittedGenuine`, `ServiceKeepsPromise` | `ServiceProofs` | `ServiceInv`, `AdmittedIsGenuine`, `KeepsPromise` |

Each has one lemma per action, a lemma for the initial states, and a last
temporal step. The invariants are inductive where the properties are not:

- `CacheInv` adds that recorded instants are in order (`TimesInOrder`), which
  bounds an entry's expiry by the clock's errors, and `WrongAnswerMeansChange`,
  the same property for an answer that is still on its way to the cache.
- `GitHubInv` adds that only requests that parse are sent and that an
  installation that was found belongs to the request's namespace
  (`CallsAreConsistent`), from which joining the parts gives back the strings, and
  that a call has a result exactly if it is done, which the refinement needs;
  and `SteadyIsFound`, which follows a steady installation through the two
  lookups whichever of them knows the namespace.
- `OxideInv` adds that a call and its grant are equally far (`LoginConsistent`),
  so that a call has no token before its last step,
  and that no two calls share a code (`CodesAreUnshared`).
- `ExchangeInv` is the three of them and, for each handler, `Fits`: it awaits the
  requests of its stage and no others (`AwaitsFit`), everything the loop is past
  was decided (`LoopFits`), and whether its token exists agrees with what the
  services have answered (`MintedFits`); `DecisionsFit` puts the instants that
  decisions record in the past, so that a change now is a change since then.
  `MintsAreAuthorized` also needs `CallsAreConsistent` and the lemma
  `PermissionsKept`: a request that parses names no permission twice, so that
  what is granted is what was decided.
- `StartupInv` says that the process runs with the settings of its deployment and
  that what it waits for is published or was (`RunsAsDeployed`), and of the map
  (`ProvidersAreSeen`) that every entry comes from a provider that is done and
  that each of these has its issuer there, as it or a later one described it.
  `SteadyProviderIsTrusted` follows from the second half, `AcceptedIsGenuine` from
  the first and the lemma `FirstKeyFound` about the key that `find` returns.
- `ServiceInv` is `ExchangeInv`, `StartupInv`, `AdmittedIsGenuine` and that a process
  that does not serve has no exchange and an empty cache (`IdleUnlessServing`). It
  joins the parts for the proofs, says nothing new about the code, and is stated
  in `ServiceProofs`.

`ExchangeProofs` goes by the components. `ComponentSteps` shows that a step of the
exchange is a step of each component or leaves it alone, which both yields the
components' invariants after the step and is the refinement behind
`ExchangeImplements`; `HandlerStep` then reduces an action of one handler to what
that handler has afterwards.

`PromiseProofs` has one lemma per kind of step: `AnswerShows` (an answer is a
`Conclude`, because `MintedFits` makes its status fit its tokens), `BeginShows`,
`SentShows`, `MintShows` with `GitHubEntitled` and `OxideEntitled` (what `LoopFits`
and `AdmissionFits` say of a caller is that it is entitled), and `HiddenStep` for
all others. `ServiceProofs` reuses it: `ServiceParts` splits a step of the process
into a step of startup and one of the endpoint, a start or a kill; `AbandonInv`
shows that the endpoint's invariant survives the loss of everything, with any fate
of the lost requests; `CallerStays` that no step of the promise changes who an
exchange is for, so that who was genuine when it began still is.

`GitHubImplements` and `OxideImplements` go step by step as well: the action that
makes the token is `Mint`, an answer that ends the call without one `Fail`, and
everything else leaves what is seen of a call as it was. In `OxideTokens` a step
of one call also changes `grants`, on which what is seen of every call depends;
`CodesAreUnshared` and `LoginConsistent` are why it changes nothing for the others.

`StepsProofs` shows that `StepsLeft` is a variant, a number that `StepsNatural` keeps
above 0 while there is an exchange. `ProgressSteps` takes each step of the handler
and each answer to one of its requests, whose effect on the stage, the loop and
what is awaited `Fits` determines; `OthersSteps` shows that nothing else touches what
the count reads (`Keeps`, `ServicesSteps`). `ServiceVariant` extends it by the
restart, after which an exchange has no steps left. `LoadsStep` is the same for the
requests of a start.

Two of the three claims of `src/README.md` that fail have a part that holds, and
it is proved: one file on the command line is merged over `settings.toml`
(`OneFileIsMerged`, from `LaterSourceWins`), and a `policy_path` whose only extension
is `cedar` is the file that is read (`CedarPolicyIsNamed`, from `CedarPathIsNamed`,
which says that it is the only such name).

TLC checks the invariants of the five components too, the three refinements and the two action
properties. Only model-checked are `Responds` and `StartEnds`: TLAPS has no rules
for liveness under fairness and for ENABLED that it could use here. Of the usual
argument for them the variant is proved (`ExchangeRunsOut`, `StartRunsOut`); that
the next step is enabled, so that fairness makes it happen, is left to TLC.

## What is not modelled

- Secrets, `PARAMS_BASE_PATH`, the port and the log directory, beyond that a start
  may fail over them (`StartFails`, `ContextFails`).
- In `Service`, deployments differ in their providers only: the audience, the
  policies and the settings of the token services are constants of `Exchange`.
- Cedar, jsonwebtoken and the url crate, beyond what the code asks of them.
- Signatures are the identity of the key that made them. `nbf` and `iat` are not
  looked at by the code and are left out.
- The five minutes of the app's JWT and the hour of a metadata token: a request
  that comes too late is one that fails.
- The device flow's message types, logging, texts of errors; of the HTTP server,
  how requests are read and answers sent. Those are types without behaviour, output
  only, or dropshot's.
- Memory: the cache never removes an entry. The set of repositories is a constant,
  so its growth cannot be seen here.
- The characters of URLs, repository names and permissions, of which only the parts
  that the code tells apart are there.
- Cancellation: dropshot runs a handler to its end when the client disconnects.

## Plan

1. (done) `VisibilityCache`, `GitHubTokens`, `OxideTokens`, `Policy`, `Oidc` and
   `Exchange`, with runs and with proofs of every safety property.
2. (done) `TokenExchange`, the abstract specification of what oidcx promises, and
   `Exchange` shown to implement it, by TLC and by proof.
3. (done) `Startup` and `Service`: configuration, providers, key rotation, restarts.
   `Oidc` takes its providers from there.
4. (done) `TokenService`, implemented by both token services; variants that bound
   an exchange and a start; the components' and startup's properties carried over
   to the whole process; what the promise means for a caller.
5. What is left: an abstract specification of the visibility cache (a reader of
   GitHub's value that may lag by a lifetime), with `VisibilityCache` shown to
   implement it; lemmas about `Policy` and `Oidc` on their own (an applicable
   `forbid` outweighs every `permit`; a key id that no key set has is refused);
   `GetStr` and `FirstKey` against reference definitions over bounded inputs.
