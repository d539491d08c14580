# TLA+ models of space-cloud

This directory holds TLA+ models of parts of the space-cloud gateway, the TLC
configurations that model-check them on small instances, and TLAPS proofs of
their main safety properties. `PROJECT.json` lists the components, runs,
mutants, source map, findings, hazards and theorems in machine-readable form.

## The system and its parts

The repository extract under `src/` contains these parts:

| Part | Source | What it does | Status |
|---|---|---|---|
| CRUD data loader | `gateway/modules/crud/dataloader.go` | Batches concurrent reads of one collection. Keys with read options each run on a goroutine of their own. The where clauses of the other keys are merged into one `{"$or": [...]}` read, and `fillResults` splits its result back among them. | partly modelled: `DataLoaderBatch` |
| Runner handlers | `gateway/managers/syncman/syncman_runner.go` | Sixteen HTTP handlers check the caller's token with `admin.IsTokenValid` and forward the request to the runner service (`forwardRequestToRunner`): a body read, an integration hook, an internal token, then the HTTP call. `HandleRunnerGetServiceLogs` streams a service's logs line by line. | partly modelled: `RunnerProxy` |
| Integration config handlers | `gateway/server/handlers/config_integration.go` | Seven handlers: decode the body, check the token with `adminMan.IsTokenValid` for attributes naming the object, then call syncman under a timeout. | modelled: `IntegrationHandlers` |
| Global routing | `gateway/modules/global/routing/operations.go` | `SetProjectRoutes`, `DeleteProjectRoutes` and `SetGlobalConfig` over the route table and the Go template map, all under `r.lock`. | modelled: `Routing`, refining `RoutingTable` |
| Project config loading | `utils/projects/load.go` | `LoadConfigFromDB` subscribes to the config table and applies the initial snapshot while realtime callbacks are already live. | modelled: `ProjectLoader` |
| Config manager helpers | `sc/managers/configman/helpers.go` | `extractPathParams`, a pure string function. | modelled: `ConfigPathParams` |
| sc-poc auth helpers | `sc-poc/modules/auth/helpers.go` | Signing methods, secret selection, claim checks and the bearer token of a request. | modelled: `AuthHelpers` |
| Remote functions | `gateway/modules/functions/operations.go` | `CallWithContext`: hook short-circuit and timeout choice. | not modelled |
| Schema types, Kubernetes client | `sc/modules/database/types.go`, `sc-poc/pkg/...` | Type declarations and generated code (deepcopy, REST client, listers). | not modelled: no state of their own, pure I/O |

These parts interact. The data loader serves the CRUD module's reads, which the
HTTP handlers issue. The runner handlers depend on the admin manager (token
checks and the internal token), the integration manager (hooks) and the runner
service. In the models these collaborators are nondeterministic environments:
each call may return any of the outcomes the code branches on.

## Modules

### `DataLoaderBatch` — `dataLoaderBatchFn` and its `resultsHolder`

This module models one call of the batch function, with all the goroutines it
starts.

State:

| Variable | Code |
|---|---|
| `keys` | the argument |
| `pc` | the main goroutine: range loop, `wg.Wait()`, returned |
| `idx` | the position of the range loop |
| `results` | `holder.results` |
| `metas` | `holder.metas` |
| `running` | keys whose goroutine has not yet run its deferred `wg.Done()` |
| `cancelled` | the shared `ctx` was cancelled |

Data is abstracted:

- A where clause is a model value and a document is a model value.
- The collection is a sequence `DB` of documents.
- `utils.Validate` is a relation `Match`.
- A read result is the set of documents returned; `{}` stands for nil with op one.

The database read itself (`Module.Read` with `{"$or": W}`) is not in `src/`.
`ReadOne`, `ReadAll` and `Read` model it from its documented behaviour: op one
returns the first document that matches, op all returns every document that
matches.

Actions:

| Action | Code |
|---|---|
| `EmptyBatch` | early return for no keys |
| `DispatchKey` | one turn of the range loop: `wg.Add(1)` and a goroutine for a key with options, `addMeta` for the others |
| `EndOfKeys` | the loop ends |
| `ReadWithOptions(i)` | the goroutine of key `i`: read, then `addResult` of the data, or of the error after `cancel()`; then `wg.Done()` |
| `NoClauses` | after `wg.Wait()`, nothing to merge |
| `MergedReadFails` | the merged read fails: `fillErrorMessage` |
| `MergedReadSucceeds` | the merged read succeeds: `fillResults` |

### `RunnerProxy` — the runner handlers

This module models one request through one handler. The handlers share no
mutable state: `runnerAddr` is fixed at setup and read without being written.
Concurrent requests therefore cannot affect each other, and one request per
behaviour is enough.

State:

| Variable | What it holds |
|---|---|
| `h`, `method`, `query`, `body`, `runnerAddr` | the request, and the configuration |
| `pc` | the position in the handler |
| `attrs` | what `IsTokenValid` got |
| `bodyLeft` | what `r.Body` still holds |
| `authHeader` | the `Authorization` header |
| `sent` | everything written to `w` |
| `upstream` | the request the runner received |
| `lines`, `streamEnd` | the log stream the runner returns |

The attribute maps of the handlers are tables, `SecretHandlers(q)`,
`ServiceHandlers(q)` and `RouteRoleHandlers(q)`, taken from each handler's
`IsTokenValid` call. Every early return of the code is a disjunct that sends
one response and sets `pc` to `"done"`. Each outcome of the admin manager, the
hook and the runner is a nondeterministic choice.

Actions of the forwarding path:

- `ValidateToken`
- `ForwardNoRunner`
- `ReadBody`
- `InvokeHook`
- `InternalToken`
- `ForwardDo`

Actions of the logs path:

- `LogsNoRunner`
- `LogsValidateToken`
- `InvokeHook` and `InternalToken`, shared with the forwarding path
- `LogsDo`
- the stream loop: `ClientDisconnects`, `StreamLine`, `StreamEOF`, `StreamReadError`

### `Routing` — the global routing operations

The model covers `SetProjectRoutes`, `DeleteProjectRoutes` and `SetGlobalConfig`
in `operations.go`. All three hold `r.lock`, so none interleaves with another.
`SetProjectRoutes` is split into steps because it can return from the middle of
its loop after it has already changed the template map.

**State.**
- `goTemplates`: the template map, a set of `[key, tmpl]` records. A key is
  `<<project, kind, routeId>>`.
- `routes` and `globalConfig`.
- `setter`: the project whose `SetProjectRoutes` holds the lock.
- `config` and `pending`: that call's routes, and the routes it has not
  compiled yet.

A project name is a sequence of letters, so `strings.HasPrefix` is the
sequence-prefix relation (`HasPrefix`).

**Actions.**

| Action | Code |
|---|---|
| `SetProjectRoutesBegin` | lines 10-23: the prefix delete |
| `CompileRoute` | one iteration of the loop at lines 26-43 |
| `CompileRouteFails` | the early `return err` at line 33 or 40. A request template that already compiled stays stored. |
| `AddProjectRoutes` | line 45 |
| `DeleteProjectRoutes` | lines 50-55; the templates are left in place |
| `SetGlobalConfig` | lines 58-65; a nil config is ignored |

`createGoTemplate` and `getGoTemplateKey` are not under `src/`. They are
modelled from their use: the parsed template is stored under a key that starts
with the project name.

`RoutingTable` is the abstract specification of what the module promises:
- a project's routes are replaced whole by a config whose templates all parse,
  or cleared;
- a nil global config is ignored.

`Routing` implements it through
`Table == INSTANCE RoutingTable WITH routes <- routes, globalConfig <- globalConfig`.
The refinement mapping is the identity on the two variables the callers see.
It hides the template map, the call in progress and its local variables.

### `ProjectLoader` — `LoadConfigFromDB`

The loader's goroutine has these steps:
1. `CrudSetConfig` and `RealtimeSetConfig`; either may fail.
2. `DoRealtimeSubscribe`, which registers the callback and returns `feedData`,
   the snapshot rows of the table.
3. `ApplyFeedRow` for each row: the loop at lines 58-66.
4. `LoopDone`.

`Callback` (lines 37-53) runs on the subscription's goroutine as soon as it is
registered. It applies the queued table changes in order.

`SetConfig` is `setConfig` (lines 70-86). Its cases are checked in the code's
order, so they exclude each other:
- a delete removes the project;
- a config that does not parse (`Malformed`) is dropped;
- any other config is stored.

Other writers of the config table (`DBWrite`, `DBDelete`) are the environment.
Up to `MaxWrites` changes are queued for the callback once the subscription
exists. `raced` records that a callback ran while the loop was still running.

### `IntegrationHandlers` — the integration config endpoints

Each of the seven handlers is a row of `HandlerTable`: whether it decodes a
body, and the resource and operation it hands `IsTokenValid`. `Attrs(q)` gives
the attributes each handler passes. A listing without an `id` query becomes
`"*"` (`OrStar`).

Each request `i` of `Reqs` runs concurrently through these steps:
- `DecodeBody`, which answers 400 on error;
- `ValidateToken`, which answers 403 when the token lacks the permission;
- `CallSucceeds` or `CallFails`.

The syncman registry (`integrations`, `hooks`) and `IsTokenValid` are not under
`src/`. They are modelled from what the handlers rely on:
- a token's rules match a resource and an operation, with attribute values that
  are `"*"` or equal to the request's;
- a syncman call applies its change atomically, or fails (a timeout included)
  without applying it.

### `AuthHelpers` and `ConfigPathParams` — pure helpers

Each function of `sc-poc/modules/auth/helpers.go` is an operator:
`getSigninMethod`, the secret getters, `getPrimarySecret`, `getSecretFromKID`,
`verifyClaims` and `getTokenFromHeader`. `extractPathParams` of `configman`
is an operator too.

`FirstIndex(seq, Test)` is the `range` loop with an early return that
`getPrimarySecret` and `getSecretFromKID` share: the least index whose element
passes `Test`, or 0. The references for the primary secret and the claims are
operators on the arguments (`PrimarySecretFirst`, `ClaimsSound`).
`ExtractPathParams` keeps Go's bounds check: `Params` reads `arr[2]`, `arr[3]`
and, for five segments, `arr[4]` (lines 26-33), and panics with `OutOfRange`
when one of them is not below `len(arr)`. `PathParamsSafe` says that this
never happens on a path starting with `/`. The modules that define them import only
`Naturals` and `Sequences`, so they can be proved for every input.

`MCHelpers` feeds them every input of a bounded universe. It checks them against
reference definitions, and checks that the path parser cannot panic:
- the first primary secret;
- a claim matches when one of its values is among the config values;
- the length check at line 20 refuses every path too short for the reads of
  lines 26-33, whatever the number of segments (`PathParamsNoPanic`). A
  mutant that lets three segments through panics on `arr[3]`.

`getTokenFromHeader` and the signing helpers are modelled, and no property is
stated about them. The header parse has no caller under `src/`, `Split` always
yields `arr[0]`, and `arr[1]` is guarded. A reference for it could only restate
its own definition.

The empty and out-of-range cases become explicit `Panic`/`OutOfRange` results.

## Runs

| Run | Config | Checks | Shows |
|---|---|---|---|
| `dataloader_batch` (pass) | `MCDataLoaderBatch.cfg` | `TypeOK`, `AnswerMatchesKey`, `EveryKeyAnswered`, `NoResultOverwritten`, `Termination` | Every batch of up to three keys, under every interleaving of goroutines and every read failure, behaves correctly: each key gets the answer computed for its own clause out of the merged read, no key is left nil, no slot is written twice, and the function returns. |
| `dataloader_op_one` (violation) | `MCDataLoaderBatchOne.cfg` | `BatchedReadMatchesOwnRead` | **Bug.** Two batched op-one keys on different clauses: the second key gets nil, although its own read returns a document. `fillResults` breaks after the first document of the merged result (`dataloader.go:92`). |
| `runner_proxy` (pass) | `MCRunnerProxy.cfg` | `TypeOK`, `ExactlyOneResponse`, `ForwardedRequestFaithful` | On every path through the seventeen handlers, a forwarding handler writes exactly one response. The runner receives the internal token, not the user's, and the POST body the client sent, which `forwardRequestToRunner` had consumed and then reset. |
| `runner_logs_error` (violation) | `MCRunnerProxyLogs.cfg` | `StreamErrorEndsResponse` | **Bug.** After a non-EOF read error on the log stream, the handler sends an error response and keeps looping (`syncman_runner.go:574`). `bufio` repeats the error, so the handler sends the error response again. |
| `runner_services_wildcard` (violation) | `MCRunnerProxyAttrs.cfg` | `AbsentFiltersAreWildcards` | **Bug.** `HandleRunnerGetServices` tests `id` instead of `version` (`syncman_runner.go:238`), so a list without a version filter is authorised with version `""` rather than `"*"`. |
| `routing` (pass) | `MCRouting.cfg` | `TypeOK`, `InstalledTemplatesExact`, `RoutesReplacedWhole` | Two projects, one named by a prefix of the other, with routes whose templates parse or fail. Once a set has compiled every route, the project holds exactly its new templates. The routes table implements `RoutingTable`. |
| `routing_partial_failure` (violation) | `MCRoutingPartial.cfg` | `RoutesHaveTemplates` | **Bug.** A set that fails on a bad template has already deleted the project's templates (`operations.go:33`), while the old routes stay installed. |
| `routing_prefix` (violation) | `MCRoutingPrefix.cfg` | `OtherProjectsUntouched` | **Bug.** Setting project `a` deletes the templates of project `ab` (`operations.go:20`). |
| `project_loader` (pass) | `MCProjectLoader.cfg` | `TypeOK`, `LoadedWhenUnraced`, `LoaderSettles` | Without a callback during the loop, the store ends equal to the table. The loader always settles under fairness. |
| `project_loader_race` (violation) | `MCProjectLoaderRace.cfg` | `StoreMatchesDBWhenQuiet` | **Bug.** A callback stores a newer config during the loop, and the loop then applies the older snapshot over it (`load.go:58`). |
| `integration_handlers` (pass) | `MCIntegrationHandlers.cfg` | `TypeOK`, `ListedOnlyWhenGranted`, `ModifiedOnlyWhenGranted` | Two concurrent requests to any handler, with an admin token and a token scoped to `i1`. The registry changes only with the changed object's permission, and listings show only what the token may read. |
| `helpers` (pass) | `MCHelpers.cfg` | `PrimarySecretIsFirstPrimary`, `ClaimsReference`, `PathParamsNoPanic` | `getPrimarySecret` and `verifyClaims` agree with their references on every bounded input, and `extractPathParams` never indexes a path's segments out of range. |

Each property of a passing run has a mutant in `PROJECT.json`: a plausible bug
in the mapped code under which TLC finds that property violated. Examples:

- the where-clause index of `fillResults` never advances;
- `r.Body` is not reset;
- no `return` after the hook's error response;
- `wg.Done()` is called only on success.

### Bounds

**Data loader.** The bounds are three documents, two clauses, and batches of up
to three keys. `Match` lets one document match both clauses and lets the two
clauses' first matches differ. Three keys allow a key with options between two
keys without options, so `fillResults` must skip a filled slot and still hand
out metas in order. They also allow two goroutines to fail together, or one to
fail while another succeeds. The run has 14,906 distinct states.

**Runner handlers.** Every handler, method, query subset, body and runner
configuration is an initial state. A log has up to two lines and the stream
loop up to four writes, which is room for a line and a repeated error. The run
has 28,704 distinct states.

**Routing.** Projects `a` and `ab` make the prefix case happen. Two good
routes share the id `r1`, so a later config can give the same route id new
templates. Two
bad routes, one with a bad request template and one with a bad response
template, exercise both early returns, including a request template stored
before a failing response. The run has 15,560 distinct states.

**Project loader.** There are two projects, two configs and one malformed
config. Three table writes are enough for a write before the subscription, one
during the loop and one after it. The run has 61,771 distinct states.

**Integration handlers.** Two concurrent requests, two integrations and two
hooks are enough for a scoped token to ask for an object it may not touch while
another request changes the registry. The run has 264,538 distinct states.

**Helpers.** The inputs are:
- secret lists of up to two secrets;
- string and list claims;
- headers of up to three words;
- paths of up to six segments, on both sides of the 4-5 bound.

### Fairness and deadlock

`DataLoaderBatch` assumes weak fairness of the main goroutine and of each read
goroutine. The Go scheduler runs every runnable goroutine, and `m.Read` returns:
its context carries the request's deadline. Under this fairness `Termination`
holds. It would fail if a path skipped `wg.Done()`, as its mutant shows.

Both models disable deadlock checking, because the handler and the batch
function really do return. The final states are the returns.

`ProjectLoader` assumes weak fairness of the loader's steps (`Loader`) and of
`Callback`:
- `LoadConfigFromDB` runs straight through on one goroutine;
- the subscription's goroutine delivers every queued change.

The table's other writers get no fairness. Under these assumptions
`LoaderSettles` holds. Deadlock checking is off because the loader really
returns and the writes are bounded. `IntegrationHandlers` disables deadlock
checking because every request ends in `done`. `Routing` keeps deadlock
checking on, since its operations can always be called again.

## Proofs (`DataLoaderBatchProofs`)

TLAPS proves these for all values of the constants, assuming only
`DataLoaderAssumption`: `DB` is a sequence of documents, `Match` relates
documents to clauses, and `MaxBatch` is a natural number.

- `TypeCorrect`: `Spec => []TypeOK`.
- `IInvHolds`: `Spec => []IInv`.
- `EveryKeyAnsweredHolds`: `Spec => []EveryKeyAnswered`.
- `NoResultOverwrittenHolds`: `Spec => [][...]_vars`, the action property.

The helper facts are lemmas: `ReadInDocs`, `FillDocsInDocs` and `BatchIsSeq`.
`EveryKeyAnswered` is not inductive by itself, because it says nothing about the
states before the function returns. The strengthening `IInv` adds these parts:

- `RunningSlotsEmpty`: a live goroutine's slot is still empty. This is why a
  goroutine's `addResult` never overwrites a slot.
- `RunningAreDispatchedOptionKeys` and `OptionSlotsPending`: the empty slots of
  dispatched option keys are exactly the live goroutines' slots. So once
  `wg.Wait()` returns, every option key is filled.
- `UnreachedSlotsEmpty`: the loop has not yet touched later slots.
- `NoMetasOnlyOptionKeys`: if no clause was merged, every key had options. This
  is why the `NoClauses` return leaves no nil slot.
- `LoopFinished` and `DoneComplete`: after the loop every key was dispatched, and
  a returned call has no live goroutine and no empty slot.

TLC checked `IInv` as an invariant of the `dataloader_batch` model before it was
proved.

- `AnswerMatchesKeyHolds`: `Spec => []AnswerMatchesKey`.

`fillResults` reads `metas[index]` for the i-th nil slot, where `index` counts
the nil slots before it. The model writes that counter as `CountUpTo(S, L)`, a
recursive function `c[n]` that adds 1 at each position in `S`, and
`NilRank(i)` is its value at slot `i`. The lemma `CountExists` shows that such
a function exists, by least counterexample: the least `m` with no count up to
`m` would have one, extended from the count up to `m - 1`. `CountUpToDef`
then gives the defining equations of `CountUpTo`. The least element comes from
`LeastElement!NatHasLeast` (see the helper proofs).

`AnswerMatchesKey` talks only about the state after `fillResults`, so it is
strengthened to `MInv`. `NC` counts the keys without options, and the added
parts are:

- `MetasCount`: `metas` has one entry per key without options before the
  loop's position.
- `MetasPlaced`: the entry of such a key `j` sits at `metas[NC[j]]` and holds
  `j`'s operation and clause. This holds because `addMeta` appends in key order.
- `MetasFromKeys`: every entry of `metas` is such a key's. So the merged
  clauses are exactly those of the keys without options.
- `NonOptSlotsEmpty`: until the call returns, the slots of keys without
  options are nil. So when `fillResults` runs, its nil slots are exactly those
  keys, and `NilRank(i) = NC[i]`.

TLC checked `MInv` on the `dataloader_batch` model before it was proved. Each preservation step has one case per action. The action property
follows from `RunningSlotsEmpty`: the only writers are a live goroutine, on an
empty slot, and the two fill functions, which change only nil slots.

## Proofs (`RunnerProxyProofs`)

The only assumption is `RunnerProxyAssumption`: `MaxLines` is a natural number
and `MaxWrites` a positive one. TLAPS proves:

- `TypeCorrect`: `Spec => []TypeOK`.
- `ExactlyOneResponseHolds`: `Spec => []ExactlyOneResponse`.
- `ForwardedRequestFaithfulHolds`: `Spec => []ForwardedRequestFaithful`.

All three follow from the inductive invariant `RInv`, which TLC checked on the
`runner_proxy` model first. `RInv` adds four parts to `TypeOK` and
`ForwardedRequestFaithful`:

- Nothing is written while the handler is before its answer: `Pending`
  positions have `sent = <<>>`. Each early return therefore writes the first
  and only response.
- Only the log handler reaches `"stream"`, and a forwarding handler that
  returned has written exactly one response.
- `r.Body` holds the client's body until the handler returns. This is the
  reset at `syncman_runner.go:616`.
- The runner is called only after `GetInternalAccessToken` replaced the
  `Authorization` header.

The step lemma has one case per action. The writes and the request sent to the
runner have lemmas of their own: `AppendWrite`, `WritesTyped` and `SentTyped`.

One modelling detail exists only for the proofs. Go's empty string `""` is the
named value `EmptyString`, because the SMT backend of tlapm 1.4.5 fails on any
obligation that contains the literal `""`.

Some results are only model-checked:

- `Termination` is liveness, and liveness under fairness is out of TLAPS's reach.
- The two violated properties, `StreamErrorEndsResponse` and `AbsentFiltersAreWildcards`, are shown by TLC counterexamples.

## Proofs (`RoutingProofs`)

These are proved for all values of the constants, from `RoutingAssumption`.

**Assumption.** Project names are non-empty letter sequences, and every
template of a route is empty, a template that parses, or a bad one.

**Theorems.**
- `TypeCorrect`: `Spec => []TypeOK`.
- `InstalledTemplatesExactHolds`: `Spec => []InstalledTemplatesExact`. It rests
  on the inductive invariant `IInv`.
- `RoutesReplacedWholeHolds`: `Spec => Table!Spec`, the refinement.
  - `TableInit`: the initial state maps to `RoutingTable`'s.
  - `TableStep`: every step is a `Replace`, `Clear` or `SetGlobal` step, or
    leaves `routes` and `globalConfig` unchanged.

**Why `IInv` is needed.** `IInv` says that while a set is running, the
project's templates are exactly those compiled from the routes done so far
(`config \ pending`), and that each of those routes parses. The first half is
needed because `InstalledTemplatesExact` only speaks of the end of the loop.
The second half is needed because `AddProjectRoutes` installs `config` and must
be an abstract `Replace` by a config that parses.

**Lemmas.** `CompileEffect` shows what one `CompileRoute` step does to the
project's templates. `OtherIds` shows that a route not yet compiled has no key among the
templates compiled so far.

## Proofs (`IntegrationHandlersProofs`)

`ModifiedOnlyWhenGrantedHolds` proves `Spec => ModifiedOnlyWhenGranted` for all
tokens, rules, integrations and hooks.

**Invariant.** `AInv`: every request that reached its syncman call, other than
`HandleGetIntegrationTokens`, passed `IsTokenValid` for its own handler's
resource, operation and attributes.

**Step lemma.** `CallGranted` proves, handler by handler, that the attributes
checked name exactly the object `Apply` changes.

**Type correctness.** `TypeCorrect` proves `Spec => []TypeOK`. `ApplyTyped`
shows that a syncman call keeps the registry a set of ids and of id-hook
pairs.

**Listings.** `ListedOnlyWhenGrantedHolds` proves
`Spec => []ListedOnlyWhenGranted`. The invariant is not inductive by itself,
because a listing is computed when the syncman call succeeds. That is long
after the token check, and other requests may have changed the registry in
between. The induction uses `LInv == AInv /\ ListedOnlyWhenGranted`: a request
that reached its call passed the check for its own attributes. The lemma
`ListedReadable` shows that those attributes make every integration the call
lists readable with the request's token. TLC checked `LInv` on the
`integration_handlers` model first.

## Proofs (`ProjectLoaderProofs`)

TLAPS proves these for all sets of projects and configs and any bound on the
writes:

- `TypeCorrect`: `Spec => []TypeOK`.
- `LoadedWhenUnracedHolds`: `Spec => []LoadedWhenUnraced`.

**Why a strengthening is needed.** `LoadedWhenUnraced` speaks of the store
once the loop is done and the queue is drained. In the states before that,
the store may lag the table. What holds then is a per-project statement,
`Settled(p)`:
- if some queued event names `p`, its last one (`LastFor`) carries the
  table's current config for `p`;
- otherwise the snapshot row for `p`, if one is still to be applied, carries
  that config;
- otherwise the store already matches the table (`Matches(p)`; a malformed
  config is never stored, so it matches any store value).

**The inductive invariant.** `PInv` is `TypeOK`, plus `Settled(p)` for every
project while no callback has overtaken the loop, plus the facts the steps
need:
- queued deletes carry `Absent` (`EventsWF`);
- nothing is queued, fed or stored before the subscription;
- the snapshot has at most one row per project and is empty once the loop is
  done.

**Step lemmas.** There is one lemma per action: `SetupStep`, `SubscribeStep`,
`FeedRowStep`, `LoopDoneStep`, `CallbackStep` and `ChangeStep`, the last for
the writers of the table. `SetConfigEffect` states what `setConfig` does to
the store. TLC checked `PInv` on the `project_loader` model before it was
proved.

## Proofs (`ConfigPathParamsProofs`, `AuthHelpersProofs`)

The `helpers` run compares the helpers with their references on lists of at
most two elements and paths of at most six segments. These theorems prove the
same formulas for inputs of any length:

- `ExtractPathParamsNoPanic`: `PathParamsSafe(path, method)` for every path
  whose segments form a sequence, and every method. A URL of four or five
  segments has every index the code reads; any other is refused first.
- `GetPrimarySecretFirst`: `PrimarySecretFirst(secrets)` for every sequence of
  secrets with Boolean `primary` flags.
- `VerifyClaimsSound`: `ClaimsSound(claim, configValues)` for every claim and
  every sequence of values.

`AuthHelpersProofs` extends `MCHelpers`. It also proves the run's own
invariants, `Spec => []PrimarySecretIsFirstPrimary`, `Spec => []ClaimsReference`
and `Spec => []PathParamsNoPanic`. Each follows from the invariant
`CallOK` (the call is drawn from `Calls`) and the theorem above. The bounded
lists of `MCHelpers` are built by `BoundedSeqs`, and the lemma
`BoundedSeqsAreSeqs` makes them sequences. The empty segment is the named
value `EmptySegment`, because the backends fail on the literal `""`.

**The least-element step.** `getPrimarySecret` returns the first primary
secret, so its proof needs a least element of the set of primary indices. The
lemma `NatHasLeast` of the module `LeastElement` takes that element from `WFMin`
and `NatLessThanWellFounded` of `WellFoundedInduction`. Neither of those is
parameterised by an operator. `DataLoaderBatchProofs` uses the same lemma.

## Not modelled, and why

- **`getLoader`/`createLoader`.** They form a check-then-act on the loader map:
  two requests can both create a loader for the same key. The `dbAlias` loop
  variable race does not change the value read, because every key of a loader
  shares one database. Both are planned.
- **`GetClusterType`.** It holds `s.lock` across an HTTP call. This needs a model
  of the rest of the syncman `Manager`.
- **`CallWithContext` (remote functions).** Its only state change is
  `metricHook`, after `handleCall`. `handleCall`, `InvokeHook` and the metric
  store are not under `src/`, so a model would restate its two branches.
- **The syncman registry and `IsTokenValid`.** They are modelled only from what
  the integration handlers rely on (see `IntegrationHandlers`).
- **Results that only TLC checks.**
  - Liveness (`LoaderSettles`, `Termination`): liveness under fairness and
    `ENABLED` are beyond TLAPS.
  - The violated properties: TLC counterexamples show them.
- **Timeouts and the bodies of HTTP responses.** These are abstracted: the
  runner call is one step that either fails or answers.
- **Generated Kubernetes code and type declarations.** They hold no behaviour to
  check.
