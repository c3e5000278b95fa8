# A TLA+ verification of the Terraform provider `rest`

The provider (`src/`, Go) lets a Terraform configuration manage objects of any
REST API.  This directory models the parts of it that keep state or that run
concurrently, checks them with TLC on small instances, and proves their most
important invariants with TLAPS for every instance.

Line numbers below are those of the files under `src/`; `resource.go:1659` and
the like are in `internal/provider/` unless a directory is given.

## 1. The system

### 1.1 Processes and interactions

Terraform core starts one provider process, calls `Configure` once, and then
calls RPCs of many resources in parallel, but never two RPCs for one resource
instance at a time.  An RPC

1. calls `Provider.Init`, guarded by a `sync.Once` that all RPCs share;
2. picks a client (`ClientForAuthRef`): the default one or a `named_auth` one;
3. runs `precheck`: mutexes of the process-wide `locks` package and API checks,
   in the order of the configuration;
4. calls the API, with the retries of the client and of the resource's `retry`
   block, and polls long-running operations (`PollUntilDone`);
5. answers with a state and a private state, which core saves.

Shared state: the provider's clients, the lock table, the OAuth2 token sources,
and the API itself.  Persistent state: Terraform's state file, the private
state (the hash of the ephemeral body), and the API's objects.

### 1.2 Components

| Component | State it keeps | Operations | What is hard | What makes it correct |
|---|---|---|---|---|
| `locks` (`internal/locks/lock.go`) | map from key to channel, a token in each channel, the mutex `mu` | `Lock`, `Unlock` | concurrent first use of a key, end of the context while waiting, blocking send in `Unlock` | it implements a table of keys with one owner each; tokens are conserved; `Unlock` never blocks |
| `precheck` (`precheck.go`) | `lockedNames` of each call | the list of checks, `unlockFunc` | failure after a lock was taken, lists in different orders | mutual exclusion, exactly the earlier mutexes are held at each check, every call returns |
| polling (`internal/client/async.go`) | delay, last answer | `NewPollableFor*`, `PollUntilDone` | answers that are refused, late, or have no status yet; sleeps that ignore the context | success only of a finished operation, no early verdict, an end |
| resource (`resource.go`) | state, private state | `ModifyPlan`, `Create`, `Read`, `Update`, `Delete`, `ImportState` | a failure between any two API calls, lost answers, drift, replacement, the ephemeral body that no state keeps | nothing is created and silently forgotten, the private state does not run ahead of the API, an empty plan can be trusted, applying again converges |
| `callWithRetry` (`retry.go`) | attempts | retry of one call | repetition of what was carried out already | bounded; accounted for like a lost answer |
| provider configuration (`provider.go`, `internal/client/{client,build_option}.go`) | default and named clients, `sync.Once` | `Configure`, `Init`, `ClientForAuthRef` | concurrent first RPCs, an `Init` that fails for one caller only | everyone waits for the end of `Init`, each resource uses the security of its own `auth_ref` |
| API requests (`internal/client/client.go`), option layering (`api_option.go`), parameters (`internal/exparam`), locators (`value_locator.go`) | none | `Create`, `Read`, `Update`, `Delete`, `Operation`, ..., `For*`, `ExpandBody`, `ExpandBodyOrPath` | precedence of four layers, what a state cannot give, sequential expansion | a write-only header reaches every call that is built from the configuration and has no header of its own; a text is expanded as if at once |
| token source (`internal/client/build_option.go:228-349`) | refresh token, scopes | `Token` | rotation of a refresh token by several clients | depends on the server, not modelled |
| operation resource (`operation_resource.go`) | state | `Create`, `Update`, `Delete`; `Read` does nothing | an operation carried out whose polling fails, lost answers, nothing ever reads the effect | no effect is in place that neither the state nor an error knows of, the state tells what the API was given, nothing is repeated without need |
| ephemeral resource (`ephemeral_resource*.go`) | lease in the private data | `Open`, `Renew`, `Close` | failure after the lease was granted, calls that take time while the lease runs out | no lease is left behind in silence, a lease in use does not run out |
| action, data source, list resource | none | one call each | nothing that precheck and polling do not have | not modelled |
| K8s token (`internal/resources/k8s_token.go`) | token and expiry | `Create`, `Read`, `Update`, `Delete` | get-then-create of shared objects by two resources, renewal on read, an account that changes in place, errors of `Delete` that nobody hears of | the state says what is granted, a token in the state is accepted in the end, nothing is left in the cluster but what a resource was moved from |
| Helm release (`internal/resources/helm_release.go`) | release | install, get, upgrade, uninstall, merge of values | installs that fail half-way, a `Read` that takes every error for "not found", a change of namespace | no release is left behind in silence, what the state says is deployed |
| JSON bodies (`body.go`, `internal/attrpath`) | none | `ModifyBody`, `ModifyBodyForImport`, `FilterAttrsInJSON` | shape mismatches, nesting, paths in any order | drift shows, and nothing else does |
| `ref:` functions (`internal/functions/{resolve,resolve_map,merge_with_outputs}.go`) | none | `resolve`, `resolve_map`, `merge_with_outputs` | unknown values, defaults | the plan foretells the apply |
| `validate_externals` (`internal/functions/validate_externals.go`) | `enrichedData` while it runs | `ValidateAndEnrich` | references resolved in the order of map iterations, calls that fail | the result agrees with itself in every order |
| value locators, validators, state upgraders, `nacl_seal`, tools | none | parsing, conversion | little | not modelled |

`PROJECT.json` lists each of them with its status, and under `hazards` the
places in the code where something can go wrong that a test would hardly
reach.

## 2. The plan

In the order of the importance of what can go wrong:

1. locks and precheck: `LockTable`, `MutexKV`, `Precheck` - modelled, checked, proved;
2. polling: `Polling` - modelled, checked, proved;
3. the life of a resource: `RestResource` - modelled and checked; its safety proved;
4. provider configuration: `Provider` - modelled, checked, proved;
5. ephemeral resources: `EphemeralLease` - modelled, checked, proved;
6. the other resources that keep an effect: `OperationResource`, `K8sToken`,
   `HelmRelease`, put together in `Managed` - modelled, checked, proved but for liveness;
7. what computes: `ValidateExternals` in steps - modelled, checked, proved; and as
   functions compared with a reference definition `RequestOption`, `JsonBody`,
   `References` - modelled, checked with `MCFunctions`.

Left for later: the merging of Helm values and the Retry-After arithmetic, which
are pure, and the rotation of refresh tokens by several clients, for which the
server's behaviour would have to be assumed.

Abstract specifications: `LockTable` is what the locks promise, and
`Precheck` is shown to implement it.  `Ledger` is what a resource promises of the
things it makes at an API, with nothing said of its RPCs: a thing that exists is in
the state (`booked`), in the hand of the RPC that has just made it, or told of by an
error; it leaves the hand only into the state or into an error, and the state only
when it is gone or told of.  `RestResource`, `OperationResource`, `HelmRelease` and
`EphemeralLease` are each shown to implement it, step by step (`KeepsLedger`,
`EffectsKeepLedger`, `ReleasesKeepLedger`, `LeasesKeepLedger`).  `Await`
is what the polling promises: one verdict on an operation, true when it is returned.
`ClientTable` is what `Init` and `ClientForAuthRef` promise the RPCs in parallel: a
table that is built once and read only when it is final.

## 3. The modules

### 3.1 `LockTable`, `MutexKV`, `Precheck`

`MutexKV` has the steps of one call of `Lock` or `Unlock`: `Enter`,
`getOrCreate` (`LockMu`, `LookUp`, `Make`, `UnlockMu`), and `Receive`/`GiveUp`
(the two cases of the `select`) or `Send`.  `store` is the map, `chans` the
channels with their tokens, `at` and `ch` the program counter and the local
variable of each caller.  `Precheck` extends it with the loop over the list
(`MutexCheck`, `MutexLocked`, `MutexCancelled`, `ApiCheckPassed`,
`ApiCheckFailed`, `PrecheckDone`), the API call under the mutexes (`CallEnds`)
and the deferred `unlockFunc` (`UnlockNext`, `Unlocked`, `Return`).
`PrecheckError` is the return with an error and no `unlockFunc`: what was
locked is lost, which the history variable `lost` remembers.

Properties: `MutualExclusion`, `HoldsEarlierMutexes`, `NoCircularWait`,
`TokenConservation`, `ImplementsTable` (refinement of `LockTable` under
`holds <- Owned`, `gone <- lost`), `EveryCallReturns`, `CancelEndsWait`.

`EveryCallReturns` has the hypothesis that no mutex is ever lost; what happens
otherwise is the finding of the run `precheck_leak`.  `NoCircularWait` is the
deadlock the locks package leaves to its users: the code takes the mutexes of a
list in the order of the list, so it cannot happen where all lists name them in
one order (`ListedBy`), whatever fails in between; with two lists in opposite
orders (`<<a, b>>` and `<<b, a>>` as `Checks`) TLC finds the circle: nothing in the
code prevents it, and only the end of a context helps.

### 3.2 `Polling`

An operation of the server (`op`) that ends in its own time, and
`PollUntilDone` polling it: `Wake`, `Get`/`GetRefused`/`GetFails`, and one
action for each way of handling an answer.  `option` is the `Pollable`, chosen
at the start out of `Options`, together with what the server of that option
reports in each state.  A status may be missing (the locator finds nothing);
an answer that is refused may carry any status, a final one included.

Properties: `ImplementsAwait` (refinement of `Await` under `verdict <- Verdict`,
`patient <- RunningIsPending`), `PollingEnds`, `CancelEndsPolling`.  In `Await` the
operation ends, and a verdict is returned once: "done" only of an operation that has
succeeded, "notDone" (a status that is missing or unexpected) not of one that is
running, if what a running operation reports is pending; "failed" at any time.
`PollingEnds` presumes that a finished operation reports a final status: one that
stays away for good keeps the polling going (`async.go:211`).
`SuccessMeansDone` and `NotGivenUp` say the two as invariants; they follow and are
proved beside it.  Assumed of the server (`HonestAssumption`): it reports a
success status only of an operation that has succeeded; without this nothing
can be said of the polling.

### 3.3 `RestResource`

One instance of `restful_resource`.  Its variables are the configuration
(`config`, in which `methods` says how the API is used: create method, update
method, `check_existance`, `poll_delete`), the saved `state` and `private`
state, the API's objects (`remote`, `deleting`), the RPC in progress (`rpc`),
and two history variables: `excused`, the objects an error or a lost answer
accounts for, and `dirty`, which is set when the object was changed in a way
that the state does not tell of.

A body is one attribute; the ephemeral body and `update_body_patches` are
attributes beside it.  What `ModifyPlan` does is in `MustDelete`, `MustCreate`,
`MustUpdate`, `EphemeralDiff`; the RPCs are sequences of places
(`check`, `call`, `poll`, `store`, `readback`) with one action for each thing
that can happen there:

| RPC | Actions |
|---|---|
| Create | `CheckNotFound`, `CheckAdopts`, `CreateAccepted`, `CreateLost`, `CreatePolled`, then read |
| Update | `UpdateAccepted`, `UpdateLost`, `UpdateNotFound`, `UpdatePolled`, `UpdateStored`, then read |
| Delete | `DeleteAccepted`, `DeleteLost`, `DeleteNotFound`, `DeleteBusy`, `DeletePolled` |
| Read, import, the read after Create and Update | `ReadOk`, `ReadNotFound`, `ReadFails` |
| any | `RefusedOnce` (retried), `Refused`, `PollFails`, `Crash` |

The polling is one step here; module `Polling` shows what that step stands
for.  External, modelled from how the code and its tests rely on it: Terraform
core and the plugin framework (`Save`, `CreateEnds`, `UpdateEnds`, ...: a
create that fails with a state leaves it tainted, an update that fails without
one keeps the old state; a replacement is a delete and then a create), and
`ephemeral.Set`/`Diff` of the helper library (`Set` of nil removes the record).

Faults, each bounded by `MaxFaults`: `error` (a refused call, a failed poll or
read), `lost` (the API has carried a call out and its answer is lost), `crash`
(of the provider in the middle of an RPC), `drift` (the object is changed or
deleted behind the provider's back), `foreign` (someone else creates an object
at the path), `busy` (a DELETE that is refused with a status code that
`poll_delete` takes for pending).

Assumptions: the API answers 404 exactly for objects that are not there;
`check_existance` is used with an URL that is known beforehand (PUT); a patch
adds attributes outside the body; the methods do not change during the life of
the instance.

Properties: `NoUnreportedOrphan`, `RecordMatchesRemote`,
`EmptyPlanMeansInPlace`, `AppliedIsSettled`, `KeepsLedger` (refinement of `Ledger` under
`there <- Live`, `booked <- {state.id}`, `hand <- {rpc.id}`, `told <- excused`),
`Converges`, `OutputHidesEphemeral`.  `KeepsLedger` says of every step what
`NoUnreportedOrphan` says of the moments between RPCs, which follows from it
(`LedgerBalances`), and more: that an object
passes from the RPC to the state, and out of the state, in one step that accounts
for it.  The run therefore checks `KeepsLedger` alone, and both are proved; so it is
with `NoUntoldEffect` and `ReleaseAccounted` below.  `AppliedIsSettled` is the
other direction of `EmptyPlanMeansInPlace`: a Create or an Update that ends without an error
leaves nothing to plan, whatever happens to the object before the read that ends it,
as that read keeps the planned body.  It excepts an RPC that has not sent the
configuration's ephemeral body (`NotSent`), because it adopted the object or updated
only the rest: its answer records no hash, so the next plan is to send it after all.
`Converges` says that applying again and
again repairs what faults have left; it excepts the ephemeral body when that
has changed and something has failed, because the code can then lose track of
it: the private state has the hash of the last answer only, so an ephemeral
body that was sent in an update whose answer is lost, and then reverted in the
configuration, equals the recorded hash again and is never sent.

### 3.4 `Provider`

`Configure`, then RPCs in parallel that call `Init` (`CallInit`: the first one
runs the function, those that come meanwhile wait, later ones pass), the
function itself (`SkipInit` without a known `base_url`, `BuildOptions`,
`BuildDefault`, `BuildNamed` in any order of the map, `BuildFails`,
`InitDone`), and `ClientForAuthRef`.  A client is what the rest of the provider
depends on: its retry option and its security option (`NewClient`).

Properties: `OwnSecurity`, `EveryRpcConfigured`, and `ImplementsClientTable`
(refinement of `ClientTable` under `table <- client`, `final <- once = "done"`,
`wants <- authRef`, `served <- CallingRpcs`): a client is made once, and nobody reads
the map of the clients, which has no lock, before the last of them is made.
`ClientAfterInit`, that nobody has a nil client once the default client is built, is
proved beside it.

### 3.5 `EphemeralLease`

One ephemeral resource as a lease of the API, in discrete time.  `Open`,
`Renew` and `Close` are each a call (`OpenCall`, ...), what the API does with it
(`OpenGranted`, `RenewCarried`, `CloseDone`), and what the code does with the
answer (`OpenDone`, `RenewDone`, `CloseEnds`) or its failures; an answer may be
lost and the call sent again.  `ExpiryTime` is `GetExpiryTime`: the API's time,
or a duration counted from the moment at which the answer is handled, less
`expiry_ahead`.  `Tick` lets time pass, at most `Latency` for the way of a call
(its refused attempts included) and for the way of its answer; core's timer
calls `Renew` at `renewAt` or up to `Early` before it.

Properties: `LeasesKeepLedger` (refinement of `Ledger`: a lease is in the hand from its
grant to the end of `Open`, booked from then to the end of `Close`, and told of
beforehand without a `close_method`), from which `NoSilentLeak` follows, which is
proved beside it; and `LeaseCoversUse`, which tells how large `expiry_ahead` must be (`Prudent`): more than one latency when the API answers
a time, more than two when it answers a duration, as the answer's way then
counts as well.

What core does is external: it stops renewing after an error, does not close
what `Open` has failed to open, and runs one RPC of the instance at a time.
The error in the path for `Close` that `Open` reports without returning
(`ephemeral_resource.go:537`) is, for core, a failed `Open` like the others.

### 3.6 `OperationResource`

One instance of `rest_operation`: `createOrUpdate` as call (`OperationAnswered`,
`OperationLost`, `Refused`, `RefusedOnce`), what follows the answer
(`AnswerFails`: `id_builder`, polling, output) and `OperationDone`; `Delete`
(`DeleteAnswered`, `DeleteLost`, `DeleteNotFound`, `DeleteDone`, and
`DeleteNothing` without a `delete_method`).  `Read` asks nothing, so the state is
all that is ever known of the effect.  History variables: `told` (effects that an
error or a lost answer accounts for), `dirty` (a failed call may have done what
the state does not tell), `due` (the configuration has changed or an attempt has
failed since the operation was last done).

An effect is at the path, or, with `id_builder`, may be a new one for each call;
core takes an answer with another ID for an error (the ID is planned with
`UseStateForUnknown`) and saves it: `Rejected`.

Properties: `NoUntoldEffect`, `StateTellsEffect`, `OperatesOnlyWhenDue`,
`EffectsKeepLedger`, `Settles`.  In `EffectsKeepLedger` every effect is told of beforehand when
there is no `delete_method`: nothing promises to undo it.  `Settles` excepts the state of an effect that was undone in a call
whose answer was lost: every further DELETE is answered 404, which is an error
(`operation_resource.go:681`), and the resource stays in the state for ever.

### 3.7 `K8sToken`

The `rest_token` resources of one cluster.  What they share is external: service
accounts by namespace and name, each with a uid, and cluster role bindings by
name alone.  Each API call is a step, so that the RPCs of two resources
interleave: `GetAccount`, `CreateAccount`, `GetBinding`, `CreateBinding`,
`CreateToken`, `DeleteBinding`, `DeleteAccount`; `CallFails` (Read then removes
the resource from the state), `DeleteSkips` (errors of Delete are passed over)
and `Crash`.  Tokens age (`Age`); Read renews an old one.

`Edit` changes `cluster_admin`, or the account: neither `service_account_name` nor
`namespace` makes core replace the resource (`k8s_token.go:68-85`), so another
account is an Update in place (175-194).  It makes the new account and leaves the
one before where it is; the ID it answers is not the planned one, which core
reports as an error, and saves.  `AccountOf` tells what an RPC goes by: Create and
Update by the plan, Read and Delete by the state.

Two history variables: `left`, the accounts where a resource may have left something
that its state does not tell, because its last RPC there did not end well or an
Update has moved it away; and `used`, the names at which a resource has had an
RPC.  The properties say what `left` excuses: `GrantsWhatItSays`, of a resource
that alone has used its name, that its token is that of its account and that with
`cluster_admin` there is a binding, of its account or of one that it was moved away
from; `LeavesNothing`, that an account is in the cluster only while a resource
holds it, and a binding only while one holds an account of the name, where a
resource also holds what it left behind.  More does not hold.  That the binding is
of the account itself is refuted by a change of the namespace alone, after which
`createToken` finds `<name>-admin` of the account before and takes it as it is
(`k8s_token.go:266`); that a destroy leaves nothing at all, by any change of the
account, after which `Delete` knows only the last one (section 5).  `Heals`: the
destroy of another resource with the same account revokes a token unnoticed, but
not past its expiry.

### 3.8 `HelmRelease`

One `rest_helm_release` and Helm's record of a release in each namespace, which
is external: an install needs a name without record, and one that fails keeps the
name.  `InstallBegins`, `InstallDone`, `InstallFails`, the same for `Upgrade`,
`Uninstall`, `NotCalled` (settings, chart or values fail before), `Read` (any
error of Get removes the resource from the state) and `Crash`.

Properties: `ReleaseAccounted`, `StateTellsRelease`, `KeepsLedger` (`ReleasesKeepLedger`
of `Managed`).  A thing of the
ledger is a namespace with a release in it; `told` is joined with `moved`, the
namespaces that an update has left without a word (`helm_release.go:505`), so the
refinement shows that this is the only such way out of the state.

### 3.9 `Managed`

The three modules above for one set of theorems: `OperationResource` extended, the
other two instances with variables of their own.  They share no state, so a
behaviour is one of a single `kind` (`OperationStep`, `TokenStep`, `ReleaseStep`),
and of the other kinds nothing is configured.

### 3.10 `ValidateExternals`

`ValidateAndEnrich` in steps: categories in the order of their names
(`CloseCategory`), the entries of a category in any order (`EnrichEntry`), as Go's
maps give them.  An entry's references are resolved against `enriched`, in which
the categories before are done and the others as the user gave them; its schema
is merged (`EntrySchema`), its attributes checked (`Unknown`), its call built
(`Call`; an `id` is a path only when it begins with a slash, `HasPath`) and its
answer added (`Fetched`), or a warning (`Warned`).  What an API
answers is chosen per entry at the start.  `Return` is `Run`: structural errors,
warnings with `fail_on_warning`, or the result.

Properties: `RefsMeetResult`, whose `Means` is the reference definition, and
`EnrichmentFits`.  `_warning` is the function's own name: a user may give an
attribute that name, and a warning then replaces it (`validate_externals.go:366-432`).

### 3.11 `RequestOption`, `JsonBody`, `References`

Functions of their arguments; `MCFunctions` puts a question to them, and the
properties (there) compare the answer with a reference.

- `RequestOption`: a text is a sequence of literals and parameters.  `For*` are
  the functions of `apiOption`, `Send` what the client makes of an option.
  A write-only attribute is null in the state, so what an option is built from
  matters: Create, Update, Open and the first call of an operation copy
  `ephemeral_header` from the configuration; `InState` is what all the others have,
  the refresh, the deletion and its polling, the later calls of operations and leases.
  `RequestFits`: the write-only header arrives with the former, with their polling
  and prechecks, and the resource's own or the provider's header with the latter;
  and `AtOnce` is what an expansion should be.
- `JsonBody`: documents are trees.  `StateFitsAnswer`: `ModifyBody` leaves the
  state's body as it is exactly when the answer says so (`Says`); an import shows
  no drift; the output is what is at or below `output_attrs` (`Selected`).
- `References`: values may be unknown or null, of a known type or of none, and an
  argument may be so as a whole.  `UnderlyingValue` is what an argument of any type
  holds: nil, in which nothing is found, for one that is unknown as a whole and
  without its type.  `PlanForetells`: what a function gives for a planned value
  agrees with what it gives for the applied one.  It excepts what the code does not
  do: an argument unknown as a whole and without its type, an unknown within a text,
  outputs of which not even the names are known (the end of section 5).

## 4. The runs

| Run | Configuration | What it shows |
|---|---|---|
| `precheck_locks` | 3 operations, 2 mutexes, lists with an API check before, between and after; API checks fail, contexts end | safety of locks and precheck, no circular wait, and the refinement of `LockTable` |
| `precheck_returns` | 2 operations with lists in one order, fairness | every call returns unless a mutex is lost; the end of a context ends the wait |
| `precheck_leak` (violation) | an API check after a mutex fails | `WaiterGetsMutex` does not hold: finding 1 |
| `polling` | a status field that is missing at first, a status code, a precheck; refusals and cancellation | all of `Polling`, the refinement of `Await` included |
| `resource_safety` | four combinations of methods, two bodies, an ephemeral body that comes and goes, `force_new_attrs`; 3 objects, 2 attempts, 2 configuration changes, 3 faults of all six kinds | the safety of the resource, and its refinement of `Ledger`; that what was applied plans nothing more |
| `resource_liveness` | three combinations of methods, patches; 5 objects, 2 changes, 2 faults (`error`, `lost`, `crash`, `drift`), fairness | `Converges` |
| `resource_output` (violation) | updates of a body beside an ephemeral body, no faults | finding 2 |
| `provider_init` | 3 RPCs, default client and 3 `named_auth` entries (two with a token request, one without security), faults, fairness | all of `Provider`, the refinement of `ClientTable` included |
| `ephemeral_lease` | leases of 4 units, latency 1, `expiry_ahead` of 0, 2 and 3, two attempts of a call, 14 units of time | all of `EphemeralLease`, the refinement of `Ledger` included |
| `provider_swallowed` (violation) | a token request that fails | finding 3 |
| `managed` | one of: an operation (three combinations of `id_builder` and delete, two bodies, an ephemeral body; 2 changes, 2 faults, 2 attempts, 6 effects); two tokens, which begin with one account or with nothing in common and change in place among three accounts (two names, one of them in two namespaces; 2 events, changes and faults together); a release (two namespaces, two values; 2 changes, 2 faults); fairness | all of `OperationResource`, `K8sToken` and `HelmRelease`, the refinements of `Ledger` included |
| `functions` | three categories with four entries, references forward, backward and to nothing, a `_warning` of the user's; calls of every kind with two layers of headers, from the configuration or the state; documents of up to three levels; references to known, null and unknown outputs, and arguments unknown as a whole | all of sections 3.10 and 3.11 |

**Bounds, and why they are enough.**  Three operations and two mutexes have two
waiters for one mutex while another is held, and every order of first use of a
key.  The liveness run has two operations, since the strong fairness of the
acquisitions makes overtaking by a third a matter of fairness alone.  The
polling has no bound: its state space is finite.  A resource with two bodies
tells the state's, the configuration's and the object's apart pairwise; two
changes take the configuration away and back, which the ephemeral hazards
need; three faults allow a lost answer, then a crash, then drift; two attempts
are a call and its repetition.  Three objects are a first one, its lost
duplicate and a replacement.  In the liveness run the bound on objects must
never stop a create: five are enough for two faults and two changes.  Three
RPCs have one that runs `Init`, one that waits and one that comes late.
A lease of 4 units with latency 1 is the shortest that may be prudent for both
types of expiry, with an `expiry_ahead` on each side of the boundary; 14 units
of time are three renewals with their calls.

The operation has two faults (a lost answer, then an error or a crash), its bound
of 6 effects is never reached by two changes and two faults with two attempts, so
that `Settles` is not a matter of the bound.  Two tokens are what a race of
get-then-create needs; of three accounts two share a name, so that two resources, or
one before and after a change, have in common the account, the name or nothing.  Two
events (`MaxEvents`) move a resource away and back, move it and then destroy it, or
move it in an update that fails.  Longer sequences would add nothing to the safety,
which is proved for any number; five service accounts are never used up by two
events, so that `Heals` is not a matter of the bound.  The systems of `Managed` share
no variable, and each behaviour is one of a single kind.  In `functions` a category has two entries so that the order of the map
matters, and three categories so that a chain of two references exists; documents
of two keys, of which one needs escaping in a path, and arrays of up to two
elements tell the cases of `getUpdatedJSON` and `filterAttrInJSON` apart.

**Fairness.**  `Precheck`: weak fairness of each operation's steps (the Go
scheduler), strong fairness of the two acquisitions (waiters of a channel are
served in FIFO order, `sync.Mutex` ends starvation); that the API call ends is
assumed of the server.  `Polling`: weak fairness of the polling only; the
operation may run for ever.  `RestResource`: each RPC goes on to its end, the
API finishes the deletions it has accepted (weak), and the user applies and
refreshes again and again (strong: an apply is enabled only between RPCs).
`busy` and `foreign` are not among the faults of the liveness run: a refused
DELETE taken for pending polls for ever, as the hazards say.  `Provider`: core
configures the provider, and every RPC goes on.  `OperationResource`: RPCs go on, and
the user applies again and again (weak).  `K8sToken`: the API answers, core walks every
resource, and time passes; `HelmRelease` has no property that needs fairness.

`CHECK_DEADLOCK FALSE` is set where the system may really stop: polling,
provider and lease runs end, so do those of `managed` and `functions`, a resource without anything to plan and without changes of
the configuration left is idle, and in `precheck_leak` everyone may wait for
the lost mutex.  `precheck_locks` and `precheck_returns` check for deadlock.

## 5. Findings

1. `precheck` that fails after it has locked a mutex returns without an
   `unlockFunc`; the mutex stays locked as long as the process lives
   (`precheck.go:42`; run `precheck_leak`).
2. An update that changes the body only is sent without the ephemeral body
   (`resource.go:1659`) and drops the record of it from the private state.  An API
   that keeps what the call does not mention, as with PATCH in the run, still
   returns it, and the read that follows stores it in `output`
   (`resource.go:1812`; run `resource_output`).
3. Only the first caller of `Init` gets its diagnostics; the RPCs of other
   resources go on with a nil client (`provider.go:801`; run
   `provider_swallowed`).

Divergences between code and documents that were met while modelling and that
no run shows:

- While a status is missing the default delay is slept, whatever Retry-After
  says (`internal/client/async.go:211`, against the comment at line 88).
- An `update_body_patches` entry alone causes an update call
  (`resource.go:1680`, against `docs/resources/resource.md:94`).
- `populateRetry` assigns `max_wait_in_sec` to the wait time; the maximum stays
  the default (`provider.go:1071`, against `docs/index.md:204`).  `PopulateRetry`
  models it as it is.
- `GetTokens` reads the configuration of the provider object that core made,
  while `Configure` fills a new one, so the tokens of the references never
  arrive (`provider.go:239-250`, `760-790`).
- `Renew` and `Close` of the ephemeral resource send the output of `Open`
  rather than the configured bodies (`ephemeral_resource.go:640`, against
  `docs/ephemeral-resources/resource.md:44` and `86`).
- The object of finding 2 also loses the ephemeral body
  (`docs/guides/ephemeral_value.md:53` has it merged during `Update`), and the next
  plan is not empty although nothing has changed: it is to send it again.
- The OAuth2 options replace the client after its retry option was set, and the
  retry count is lost (`internal/client/build_option.go:220`).
- `delete_path` of an operation: "The `path` is used instead if `delete_path` is
  absent" (`operation_resource.go:198`), while `Delete` calls the ID.  The output
  is always marked unknown by a changed ephemeral body, whatever
  `use_sensitive_output` says (`operation_resource.go:317`).
- `ephemeral_header` "will be merged into the `header` for API calls"
  (`docs/resources/resource.md:74`), but it is write-only and so null in the state:
  Read and Delete with its polling (`resource.go:1254`, `1870`), and the delete call
  of an operation (`operation_resource.go:636`), go out without it.  `RequestFits`
  demands it of the calls that are built from the configuration only.
- `cluster_admin` is to "Bind cluster-admin role" (`internal/resources/k8s_token.go:96`),
  but a token whose namespace is changed in place finds the binding of the account
  before and takes it for its own (`:266`): its state says `cluster_admin`, and its
  account is not bound.  `docs/resources/token.md` says of `service_account_name` and
  `namespace` that their value in the state "will not change".
- A token that is moved to another account leaves the account before, with another
  name its binding as well, and `Delete` (`k8s_token.go:210-213`) knows only the last;
  `cluster_admin` that is turned off leaves the binding until the destroy (`:265`).
- A Helm release whose namespace is changed is upgraded in the new namespace,
  where it must exist, and never uninstalled from the old one
  (`helm_release.go:505`); an install that fails blocks every further create
  (`:418`).
- `validate_externals` is documented to fail on HTTP 404 and to pass categories
  without a schema unchanged; a 404 gives a `_warning`, and attributes that are
  not strings are dropped.  References are said to be resolved "regardless of
  alphabetical sort order" (`validate_externals.go:240`), but one to the same or a
  later category gets what the user gave there, before any call or resolution.
- `read_header`, `update_header` and the like are documented to apply `escape` by
  default and to trim `path` (`docs/resources/resource.md:65`); `ExpandBody` has no
  default function and an empty path, so that `trim_path` of an absolute path fails
  and the text is sent as it is written.  Parameters are replaced one after the
  other: one that a value quotes is expanded again.
- `${ref:...}` of an unknown or null string gives an empty text in the plan
  (`resolve_map.go:235`, against `resolve.go:98`: "the unknown should propagate").
  `merge_with_outputs` leaves the attributes out when the outputs, or an entry, are
  unknown as a whole, so a default may be taken in the plan and not in the apply.
  An argument that is unknown as a whole and without its type is nil: such a context
  gives the default, or an error (`resolve.go:73`, `95`), and such resources give an
  empty object (`resolve_map.go:61`).  `PlanForetells` excepts the three.

## 6. The proofs

All proofs are checked by `tlapm` with SMT, Zenon and LS4 only.

**`PrecheckProofs`** (for any operations, keys, lists and faults).  The
inductive invariant is `Precheck!IInv`: types, `ControlInv` (the program
counters of `precheck`, of the locks package and of `mu` agree), `ChannelInv`
(no two keys share a channel, a caller's local channel is its key's),
`OwnerInv` and `TokenConservation`.  Mutual exclusion alone is not inductive:
a second token, or a second channel for a key, would break it one step later;
hence the conservation of tokens, and hence the facts about `getOrCreate`
under `mu`.  From it follow `TypeCorrect`, `Exclusion`, `Tokens`,
`UnlockProceeds` (no send ever meets a full channel), and `Refinement`, the
simulation of `LockTable`: `MutexLocked` maps to `Acquire`, `Unlocked` to
`Release`, `PrecheckError` to `Abandon`, everything else to a stutter.
`EarlierMutexes` adds `ListInv`: what is held is what the list has before the
check that is next, so that a check that is passed moves both sides together;
that the order is the list's needs that a key which is free is not among the
earlier ones.  `NoDeadlock` follows from both invariants, for lists along which
some rank of the mutexes goes down: in a group of blocked operations take the one
that waits for the mutex of least rank (`LeastNumber`, from the well-foundedness
of the numbers).  Every other member holds only mutexes of higher rank than its
own wait (`WaitsDownwards`), and a blocked operation's mutex is owned or lost
(`BlockedWaits`), so its owner is outside the group.  A rank that goes down, not
up, is why neither the operations nor the mutexes need be finitely many.
`MCPrecheck` gives the rank of its lists (`OrderAssumption`).

**`PollingProofs`** (any options and servers that satisfy the assumptions).
`SuccessInv` adds to the types that an answer about to be handled which counts
as success comes from a succeeded operation; `VerdictInv` adds the analogous
fact for statuses that are not pending.  From them `PollingSuccess` and
`PollingVerdict`; and, with `OnceInv` (there is a result exactly at the end),
`PollingImplementsAwait`: each way of ending the polling maps to a `Return` whose
guard is what these invariants say of the answer in hand, which was received while
the operation may since have moved on.

**`RestResourceProofs`** (any configurations, faults and bounds, where `None` is
no object).  `IInv` is
types, `RpcInv` and `Accounted`.  `NoUnreportedOrphan` speaks of the moments
between RPCs only; `Accounted` says of every moment that an object is in the
state, excused, or the one that the RPC in progress has just made (`rpc.id`);
`RpcInv` says that the answer in the making (`rpc.new`) speaks of the object
the RPC began with, made or adopted, so that saving it keeps the account.
From it `TypeCorrect` and `NoOrphan`.

In the second half of the module `TInv` adds to `IInv` what the state says of the
object.  `RecordMatchesRemote` and
`EmptyPlanMeansInPlace` speak of the moments between RPCs, as long as the history
variable `dirty` says that nothing has happened behind the state's back.
`TruthInv` carries them through the RPCs: the state tells the truth (`Tells`)
until an `Update` or `Delete` has sent its call (`Untouched`), from then on the
object has what the answer will say (`Has`), or `dirty` is set.  A merge patch
makes this delicate: it sends only what differs from the state's body, so the
object has the planned body only because the state told the truth before; and the
record is that of the ephemeral body only because it is merged exactly when its
hash differs.  `AnswerInv` fixes the answer in the making (`rpc.new`, `rpc.pv`) to
the plan, and `DeletingInv` says that only the object in the state is being
deleted, in a `Delete` that was sent or after one that failed: without it a
deletion that the API finishes late could take an object the state tells of.
There is one lemma per group of actions and one per answer; from them `Truth`,
and from it `RecordIsTrue` and `EmptyPlanIsTrue`.

`AppliedIsDone` speaks of the step that ends a Create or an Update: it can only be
`ReadOk` (`AppliedReads`).  It needs one more invariant, `PlanInv`: the answer of a
Create, when it comes to the read, is the plan with the object's ID, adopted or
made, and the configuration has not gone meanwhile; `AnswerInv` has the same of an
Update.  Then what is saved is a state that planning again would not change
(`Settled`), with the hash of what was sent.

The last part is the refinement, `KeepsTheLedger`, from `IInv` at each step.
`CreateAccepted` maps to `Take`; `CreateLost` and an object of someone else to
`Stray`; a deletion that the API finishes to `Vanish`; an answer of Create or of an
import to `Book`; the end of a Delete and a Read that finds nothing to `Unbook`;
refusals that end an RPC, failures and crashes to `Tell`; everything else, retries
and updates included, to a stutter.  `RpcInv` is what the steps out of the hand and
out of the state need: the answer speaks of the object in the hand, and what Delete
lets go of is the state's own and not there.  `LedgerBalances` shows that the
ledger is worth keeping: in it nothing exists that nobody knows of, and
`NoUnreportedOrphan` holds.

**`ProviderProofs`** (any number of RPCs, names and security options).
`ProviderInv`: a client has the security of its name and an RPC the client of
its `auth_ref`; `ReadyInv`: at most one RPC runs the function, while it runs
nobody is past `Init`, and the default client is built before the named ones.
From them `ProviderTypes`, `OwnSecurityHolds` and `NoNilClientAfterInit`.
With `FreshInv` (a client that `Init` has still to build is not there) follows
`ClientsAreATable`: `BuildDefault` and `BuildNamed` map to `Enter`, every way in which
the function returns to `GiveOut`, as at that moment nobody is served, and
`ClientForAuthRef` to `Serve`.  `SameRefSameClient`: two RPCs with one `auth_ref`
have the same client, since nothing is built after either has looked.

**`EphemeralLeaseProofs`** (any duration, latency, `expiry_ahead` and faults).
`Accounted`: a lease that is neither closed nor told of is the one that core
holds; with `RpcInv` (the private data names that lease) it gives
`LeasesAccounted`.  `Margin` is what `LeaseCovers` needs: between renewals the
lease outlasts `renewAt`, and the present, by more than a latency, and while a
renewal is on its way it outlasts the latest moment of its arrival.  That the
lease has not run out is not inductive without these margins.  `LeaseKeepsLedger` is
the refinement: `OpenGranted` maps to `Take`, `OpenLost` to `Stray`, `OpenDone` to
`Book`, `OpenFails` to `Tell`, the steps that end `Close` to `Unbook` and an undone
lease whose answer is lost to `Vanish`; time and renewals are not seen.  A
`CloseCall` that calls nothing may unbook the lease because `RpcInv` says that the
private data has no path for `Close` only when there is no `close_method`.

**`OperationResourceProofs`** (any configurations, methods, faults and bounds).
`IInv` is types, `RpcInv` (what an RPC has found and done so far: `Create` has no
state, after the call the effect is what was asked for), `StateInv`, and three
facts that speak of the middle of an RPC where the properties speak of its end:
`Accounted` (an effect is the state's, told of, or the RPC's own), `Tells` (until
its call is answered an RPC leaves what the state says true, or sets `dirty`) and
`DueInv` (nothing is due only when there is nothing to plan).  From it
`TypeCorrect`, `EffectsTold`, `StateIsTrue` and `NeverRepeated`; and
`KeepsTheLedger`, the refinement (`EffectsKeepLedger`): an answer to a first operation, or one with another
ID, is a `Take`, and `OperationDone` and `Rejected` book it; a destroy may unbook an effect because `RpcInv` says that after its call the
effect of the state's ID is undone.

**`ManagedProofs`** (any tokens, namespaces, names, releases, faults and bounds).
`MInv` is the conjunction of three inductive invariants: a step of one kind leaves
the variables of the others alone.

- `K8sToken!IInv`.  `GrantsWhatItSays` speaks of a resource that alone has used its
  name.  It needs `CallInv` (an RPC fits the state it was started in, and whatever
  name it or the state has is in `used`), `NamedInv` (a binding is of an account of
  its name) and `BoundInv`: the binding of a name that one resource alone has used
  is of an account which that one keeps, and it is there once `createToken` is past
  it.  `LeavesNothing` is inductive only together with `BindingsKept`: a resource that
  is about to delete its account has deleted the binding already, so it keeps nothing
  (`Keeps`), although it still holds the account (`Holds`).  That is what makes the
  order of the two calls of `Delete` matter, and why an account which *another*
  resource of the same name still uses may go without either fact breaking.  An
  Update to another account moves the one before into `left` in the very step that
  changes the state (`Moved`), so that nothing is unaccounted for in between.
- `HelmRelease!IInv`.  Both properties speak of the moments between RPCs.
  `Accounted` and `Tells` say them of every moment, with an exception for the
  namespace that the RPC in progress has begun to write (`Writes`); `RpcInv` says
  that such an RPC has a plan, and that it is a create exactly when nothing is saved,
  so that the answer it saves, or the error it tells, is of that namespace.
- `OperationResource!IInv`, above.

From it `ManagedTypes`, `TokensGrant`, `DestroyLeavesNothing`, `ReleasesAccounted`
and `ReleaseIsTold`; and `ReleasesKeepTheLedger`, the refinement of `Ledger` by
`HelmRelease`.  That one made a further conjunct of `HelmRelease!IInv` necessary,
`Written`: once an RPC has begun to write a release, Helm has a record of it, so
that a failure or a crash of that RPC leaves the set of releases as it is.

**`ValidateExternalsProofs`** (any categories, entries, inputs and answers).
`DataInv` says what `enriched` holds at every moment: of the categories that are
done, and of the entries of this one that are done, what the call makes of
`Meant(e)`, the attributes with their references replaced by what they mean; of
the others, what the user gives.  It is inductive because what an entry means
depends on categories before its own alone (`MeantSame`, `EnrichedSame`), which a
later step never writes, and because a reference read in `enriched` while a
category is in progress is what it means (`ResolveMeans`); the order in which Go
walks a map therefore never shows.  With `OutcomeInv` follow `ResultAgrees` and
`EnrichmentIsRight`; the latter also needs that an entry which gets a warning gets
nothing from the API (`FetchedWarns`).

The assumptions on constants are the named `ASSUME`s of the modules; TLC
evaluates them in the runs.

**Model-checked only.**  Everything under fairness (`EveryCallReturns`,
`CancelEndsWait`, `PollingEnds`, `CancelEndsPolling`, `Converges`,
`EveryRpcConfigured`, `Settles`, `Heals`), since liveness and ENABLED are out of
the prover's reach; and three of `functions`: `StateFitsAnswer` and `PlanForetells`
speak of recursive operators on documents and values, `RequestFits` of folds over
texts, so that a proof would be an induction over data.

## 7. What is not modelled, and why

`PROJECT.json` says it per component.  In short: the state upgraders, validators
and schemas have no control to check; actions, data sources and list resources
make one call each, with the precheck, polling and request options that other
modules have; `nacl_seal` is a library's cryptography; the rotation of refresh
tokens depends on the server.  Helm, Kubernetes, Terraform core and the plugin
framework are external.  Inside the modelled components, what is left out: the
scanning of text (gjson paths, attribute paths, locators, parameters, templates,
JWTs), the contents of bodies and outputs beyond what the properties tell apart;
post-create operations of `Create` other than as a failure that `PollFails`
stands for; `parseRetryAfter` and the length of sleeps; the merging of Helm
values; logging and wording.
