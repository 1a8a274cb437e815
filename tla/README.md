# A TLA+ model of http-governance-client

`http-governance-client` is a Go HTTP client that governs outgoing calls: it
retries with backoff under a deadline, limits retries by a local budget, passes
the constraints of the call chain on, and takes its policies from layered
configuration in Consul which it follows at run time. This directory holds TLA+
modules of that code, TLC configurations that check them on small instances, and
proofs checked by TLAPS. `PROJECT.json` lists the runs, the mutants that each
property catches, the source lines behind each definition, the hazards and the
theorems.

## The system

| part | code | state | operations |
| --- | --- | --- | --- |
| local retry budget | `retry_budget.go` | one `sync.Map` per `Transport`: downstream → atomic balance | `reserve`, `commit`, `refund`, `recordSuccess` |
| retry decisions | `retry.go`, helpers of `transport.go` | none | default policy, normalisation, reason, backoff, overall deadline |
| round trip | `transport.go` | per call: attempt, last and final outcome, reservation, contexts, bodies | `RoundTrip`, `prepareAttemptRequest`, `waitRetryDelay`, `prepareSkippedRequest`, `observeRequestResult` |
| Consul loading and reload | `retry_consul.go` | package globals (mutex, cancel, done, interval), one watcher goroutine, its state for each key | `SetRetryConfigProviderFromConsul`, `Start…`/`StopRetryConfigAutoReload`, `UpdateFromConsul`, `SetRetryConfigAutoReloadInterval`, the blocking and the polling loop |
| managed provider | `retry_config_file.go` | compiled configuration under an `RWMutex` | `Update`, `resolveRequestConfig` |
| layering and matching | `retry_config_file.go`, `retry_consul.go`, `dynamic_config.go` | none | validation, merging, sorting, matching, `RetryPolicyPatch.Apply` |
| classification | `request_classification.go` | global resolver | `SetRequestClassResolver`, classification by context, host and method |
| shared client, setup | `http.go` | `cli` and its `Transport` fields | setters, `Setup`, constructors |
| chain headers | `retry_governance.go`, `ginmiddleware/` | request context | headers → context → headers |
| helpers | rest of `http.go` | per call: a file, a request body, a response body | `Get`, `Post`, …, `createMultipart`, `Do`, `RespHandler` |
| body logging | `roundTripOnce`, `captureBody` in `transport.go` | global limit and level; per attempt the bodies that replace the original ones | `SetBodyLogLimit`, `SetBodyLogLevel`, capture and replay |
| metrics, identity | `metrics/prometheus`, `service_identity.go` | counters, one name | one event to counters; set and get |

How they interact. A call of the client runs `RoundTrip` in the caller's
goroutine. It copies the fields of the `Transport` under a read lock, asks the
provider once for class, scope, policy and budget parameters (one read lock, so
one generation of the configuration), and then loops: prepare, send, decide,
reserve, wait. The budget is the only state calls share; they meet on its atomic
balances without a lock. The watcher goroutine replaces the configuration under
the provider's lock. Starting and stopping the watcher happens under the package
mutex, which is held while the old watcher is waited for; setting and reading
the interval, and making a Consul store (which reads the interval), need the
same mutex. Between services the only state is in three headers: the middleware
of the called service puts them into the context of its handler, and the calls
of that handler inherit them. Within an attempt `roundTripOnce` may read a body
to log it, and puts a replacement in its place.

What is hard, and what makes each part correct:

* **budget** – lock-free loops; parameters that change while calls hold
  reservations made under the old ones. Operations must be linearizable, nothing
  may be counted twice or lost, retries must not outrun the budget, and no call
  may spin for ever.
* **round trip** – cancellation, timeouts and the deadline at any point of the
  loop, a retry that fails after it was reserved and announced, three nested
  owners of one response body. Load must be bounded, each retry paid once, the
  last outcome kept, everything released, and the call must return.
* **reload** – two keys read one after the other while others write, failing
  queries, a baseline taken after the first load, concurrent setups, stop waiting
  for the watcher under a mutex. One watcher at most; a served configuration is
  always one that was stored and valid; what changes is applied; stop returns.
* **layers** – two files that are valid alone must be valid together, the
  priority of rules, classes and layers must be what the reference says, and all
  that depends on a request's class must use the same one.
* **chain** – an attempt that ran out of time leaves its server working beside
  the retry; clocks differ; some hops skip governance or copy headers only. The
  load of the last server must be bounded, the ban on retries and the deadline
  must be inherited, nothing may be sent late, and the chain must come to rest.
* **helpers and body logging** – bodies that break off, exceed the limit, wait
  for the other side or never end, while the limit changes between two reads of
  it. Neither side may notice the logging, nothing may stay open, and nothing may
  be held up.

`PROJECT.json` lists each hazard at its line with the properties that watch it.

## Modules

```
BudgetParameters      requests, keys, parameters, reservations, arithmetic
 ├─ TokenBucket       the budget with atomic operations (the promise)
 │   └─ TokenBucketProofs
 ├─ RetryBudget       the budget at its atomic accesses (the code)
 │   ├─ RetryBudgetProofs       RetryBudget implements TokenBucket
 │   └─ RetryBudgetMC
 └─ RoundTrip         the retry loop of concurrent calls, on TokenBucket
     ├─ RoundTripProofs
     └─ RoundTripMC
RetryPolicy           the decisions of the loop, as operators
 ├─ RetryPolicyProofs       also induction, for the modules below
 ├─ RoundTrip
 └─ ConfigLayers      validation, merging and resolution
     ├─ ConfigLayersProofs
     └─ ConfigLayersMC
ConfigReload          Consul, setup, the watcher, start and stop
 ├─ ConfigReloadProofs
 └─ ConfigReloadMC
RetryPolicy
 └─ RetryChain        a chain of services, each with the retry loop and a budget
     ├─ RetryChainProofs
     └─ RetryChainMC
Exchange              a call as its two ends see it (the promise)
 └─ BodyLog           helpers, attempts and the logging of bodies (the code)
     ├─ BodyLogProofs           BodyLog implements Exchange
     └─ BodyLogMC
```

**TokenBucket** has one action per operation. `stage` is where a request stands
with the budget: `open`, `granted` (it holds a reservation), `final` (no more
retries), `closed`. `opened`, `spent` and `earned` are history variables: the
balance an entry started with, the cost of retries that were sent, the increments
of successes. `Trim` is the cut of a balance above a lowered capacity, which the
code does before, and separately from, the deduction.

**RetryBudget** has one action per atomic access of `retry_budget.go`; `pc` names
the next access. `ReserveLoad`, `ReserveClamp` and `ReserveDeduct` are the load
and the two compare-and-swaps of `reserve`; `EntryStore` is the `LoadOrStore`;
`AddLoad` and `AddStore` are the loop that `refund` and `recordSuccess` share. A
compare-and-swap compares values, so ABA is in the model. `cfg` is the parameters
the request captured; `Reconfigure` replaces those for later requests. Whether a
retry is wanted and a call succeeds is left open here; `RoundTrip` decides that.
The entry that `refund` looks up always exists and nothing ever deletes one
(`LabelFacts` says so), so that lookup is not an action.

**RoundTrip** has one action per step of the loop between which another goroutine,
the clock or the caller can come in. Timers hold what is left: `Tick` takes one
unit from each, 0 is the expiry and -1 stands for any time after it. `reqBody`,
`respBody`, `attemptCtx` and `overallCtx` are the resources a call holds, by the
attempt they belong to; `totalAttempts` is what the loop
counts, `sent`, `retryEvents` and `result` are what the world outside has seen. The wrapped `RoundTripper` is external: it answers anything at
any time, or the context's error once that is over, and closes the request's
body, as `net/http` requires. `-1` retries (`roundtrip_bare`) go straight from
`Begin` to `finish`, as the Go loop does. Where both the timer and the context are
ready, `select` picks either: `WaitOver` and `WaitCut` overlap.

**RetryPolicy** keeps statuses as numbers and errors as the kinds that
`isRetryableError` and `isTimeoutError` tell apart. `retryDelay` is the set of
delays the jitter may give.

**ConfigReload** reads keys one by one (`Read`), so a load may mix versions, and
lets a read fail at any time. A layer is reduced to whether it passes its own
validation and to which halves of `retry_budget` it gives: `enabled` in one layer
and the limits in the other is the case in which a merged file can be invalid
although each layer is valid. A missing and an empty key both give `NoLayer`;
the watcher tells them apart by `index`. `holder` is who holds the mutex while joining a watcher.
The polling loop is the blocking loop with `pending` always true. A watcher whose context is cancelled goes on until its next
request or sleep (`HeedsContext`), and an update whose last answer has arrived is
still applied, as in the code. The Consul store bounds every request by a
timeout, so a query always ends.

**ConfigLayers** takes values that a file may leave out as sets of at most one
value, names as already trimmed and lower-cased, and a pattern as the set of
values it matches together with what its score depends on. `clients` are the
transports a request may go through: with the provider of the files (`Resolve`,
under its lock) or with one of the application's own or none (`ResolveCustom`),
with and without a resolver registered by `SetRequestClassResolver`. `classes`
keeps the two classes a call uses: that of its default policy and that of its
events.

**RetryChain** numbers requests by the attempts that lead to them: `<<0, 1>>` is
the second attempt of node 2 in the handler of node 1's first attempt. `asked` is
what a request's headers carry, `due` the overall deadline of the call its handler
makes. A handler is the server of one request and makes one call, in one of two
ways: with the context of the middleware, or with copied headers. An attempt may
time out at any moment (per-attempt timeouts are below the unit of the clock);
its request stays on the wire, may be accepted later, and its handler goes on
until it sees that its client is gone (`Disconnect`, which may never happen). To
keep the product of hops small, a call decides in the step in which its attempt
ends, and the budget is a balance per node; the steps between are in `RoundTrip`
and `RetryBudget`. Clocks are `now` plus a constant skew per node; a deadline is
an absolute time and its header is cut to multiples of `Milli`.

**Exchange** is a call without logging: bytes pass from the caller's body to the
server and from the server's to the caller, in order, and end as their source
ends. **BodyLog** has the same ends and adds what the code does in between. A
reader (`req`, `resp`) is what is `held` of a body, then how it goes on: with the
source, or the end or the error found while capturing (`captureBody`). `pc` has a
step of its own where the level (`Ask`, `Log`) and the limit (`shouldCaptureBody`,
then `LimitRequest`, `LimitResponse`) are read. A body comes in pieces: a source
may go on only when the server has seen its beginning (`duplex`), and a server's
stream of events stays open. `Phase` maps `pc` to the phases of `Exchange`:
capturing happens before an attempt is sent and before its answer is returned. A
skipped call goes straight to the wrapped `RoundTripper`: neither of its bodies is
captured. Which attempts are retried is open here, and so is whether a retry starts:
from `wait` it goes out (`Again`), is given up because the wait is cut or `GetBody`
fails (`GiveUp`), or has no time left (`NoTime`), which drops the body `GetBody` gave.
`bodiless` is a nil body; `http.NoBody` is an empty one, and is captured.
`reqOpen`, `respOpen` and `file` are what a call has not closed.

## Runs

| run | what it asks | instance |
| --- | --- | --- |
| `budget_changing` | do the lock-free operations implement the atomic bucket while parameters change; does every request end | 3 requests on 2 keys, 1 retry, enabled and disabled parameters |
| `budget_resized` | is a reservation given back when capacity was raised meanwhile | 2 requests, 2 capacities – **violated** |
| `roundtrip_single` | one call: load, deadlines, resources, outcome, event, return | 4 policies × 9 calls × 9 answers |
| `roundtrip_shared` | is every retry paid for once | 2 calls, 1 key, 3 generations |
| `roundtrip_leak` | is every request body closed | 1 call – **violated** |
| `roundtrip_bare` | is every call answered without a provider | 1 call – **violated** |
| `reload_changes` | one watcher; only valid stored configurations; are changes applied; does polling converge; does stop return | 1 provider, 2 keys, 2 writes, 1 call |
| `reload_missed` | is every change applied in blocking mode | 2 keys, 1 write – **violated** |
| `reload_setups` | is the installed provider the one that classifies and the watched one | 2 providers – **violated** |
| `layers` | merging, layering, one class for a request | all pairs of the files in `ConfigLayersMC`, 9 requests, 5 clients |
| `chain` | load of the last server, inherited ban and deadline, nothing sent late, an end | 2 hops, up to 2 retries, 6 configurations of the nodes |
| `bodylog` | is logging noticed; is what is logged whole; are streams left unread; is all closed; does a call return | 15 calls, 7 answers, limits 1 and 2, 2 changes of the settings |

Bounds. `MaxRetries`, `MaxWrites`, `MaxCalls` and the sets in the MC modules are
the only bounds. Three requests are enough for one to be overtaken twice between
its load and its swap; two keys and three parameter sets (one retry at a time, a
capacity below the cost, disabled) let a captured parameter be stale in each direction. A call with
two retries has a first, a middle and a last attempt, and the deadlines of 1 to 3
units end it before, in and after each. Two keys and two writes give a torn read,
a torn repair of it, and a deletion followed by a creation, and one call a start,
stop or update at any point of these; two providers at once are in
`reload_setups`, and `OneWatcher` is proved for any number. The files of `layers` hold up to two rules each, so a merged
file has up to four; scores of its patterns stay below the step between their
kinds (`inferDownstream` adds the pattern's length to that step, so a pattern of
more than 200 literal characters is outside the instance). Requests are not
declared symmetric: liveness is checked and `KeyOf` tells them apart.

In `chain` two hops that retry once could give the last server four requests and
may give it three; with two retries they could give it nine, and their budgets
allow fewer. A call of two retries has a first, a middle (abandoned) and a last attempt. `Starts` has both nodes retrying, a ban that
enters at the first node, a node that skips governance before and after one that
does not, a node that copies headers, a deadline that enters and one that a
policy adds, and budgets for one retry under policies for two. `MaxTime` is 3 and
`Milli` 2, so a deadline may be odd; the second node's clock is one unit behind.
In `bodylog` bodies have up to three bytes against limits of 1 and 2: within,
exactly at and over the limit, ended or broken there; three of them go on only when
the server has seen their beginning: a form and another body of unknown length, and
a body of known length; `DrainLimit` is 1. Two
changes let the limit change between the decision to capture and the capture, or
the level between asking and logging. One retry is allowed, so that a first
attempt's bodies have to be left behind.

`CHECK_DEADLOCK FALSE` stands where the system may stop: all setup calls are made
and no watcher is left, or a request is resolved.

### What the violated runs show

* `budget_resized` – the retry of a call with capacity 1 is abandoned after the
  capacity grew to 3 and the balance with it: `refund` (and `recordSuccess`) cut the balance to the
  captured capacity instead of adding (`retry_budget.go:139-141`), while
  `docs/retry-semantics.md:95` says the reservation is returned.
* `roundtrip_leak` – `prepareAttemptRequest` takes a body from `GetBody` and
  returns `DeadlineExceeded` without closing it (`transport.go:457-472`); only the
  body of attempt 0 is closed. `CHANGELOG.md:89` lists request body closing as
  repaired.
* `roundtrip_bare` – without a `ConfigProvider` a resolver's policy is not
  normalized; with a negative `MaxRetries` no attempt is made and `RoundTrip`
  returns `nil, nil` (`transport.go:147, 244`).
* `reload_missed` – in blocking mode the first answer for a key is its baseline
  and is not loaded (`retry_consul.go:362`), so a change between the first load and
  that answer is not applied until the key changes again, against
  `docs/config-reference.md:319, 329`.
* `reload_setups` – installing a provider, its class resolver and its watcher are
  three critical sections (`http.go:170-174`, `retry_consul.go:121`). After two
  concurrent setups the resolver of the replaced provider may go on, or its watcher.
  `CHANGELOG.md:94` lists the first as repaired and the comment at
  `retry_consul.go:108-110` says that what is installed is reloaded; both are about
  one setup after another, and `docs/usage.md:7, 11, 623` asks for one
  initialization per process, so the documents promise this of concurrent setups
  only by implication.

Three more disagreements are in the models as exceptions of a property, each where
the property is defined:

* A body that may be captured is read before it is sent, without a context
  (`transport.go:313-316, 346, 414-420`). A source that goes on only when the server
  has seen its beginning then waits for ever, and no timeout of the attempt or the
  call ends that, while `CHANGELOG.md:98` says that logging changes nothing of a
  request. It takes a body of known length, or a form of any: the branch of forms
  (`:313`) does not look at the length, although `docs/usage.md:393` says that
  bodies of unknown length are not read ahead. `EveryCallReturns` of `BodyLog`
  excepts these two (`ReadsAhead`), which the instance has, and nothing else;
  `StreamsUnread` excepts the form.
* A context that names one class by `WithRequestClass` and another by a
  `RetryConfigScope` has its default policy by the first and its class policy, rules
  and labels by the second (`request_classification.go:46-51`,
  `dynamic_config.go:126-128`). `ClassAgreed` is about contexts that name one class.
* A resolver registered with `SetRequestClassResolver` while the files' provider is
  installed decides the number of retries a request has by default, and nothing
  else (`retry.go:157`, `retry_config_file.go:219-222`). The clients of the instance
  have the resolver that `SetRetryConfigProvider` registers, or none.

### Fairness

* `RetryBudget`: weak fairness of each request's steps – the Go scheduler runs
  every runnable goroutine. A failed compare-and-swap means that another request
  succeeded, and requests are finitely many, so no stronger assumption is needed.
* `RoundTrip`: time passes, a call's goroutine runs, and the wrapped
  `RoundTripper` returns once its attempt's context is over (the contract of
  `http.Transport`). It is not assumed to answer before; callers need not cancel,
  and configuration need not change.
* `RetryChain`: time passes, handlers that started run, and the timer of an attempt
  fires. Nothing makes a request arrive, a server answer or a broken connection
  be noticed. `EveryCallEnds` excepts a skipped call without a deadline, which has
  no timeout in the code either.
* `BodyLog`: the goroutine of the call runs; the timeout of an attempt that is not
  skipped ends the attempt and its answer. A source or a server need not go on.
* `ConfigReload`: goroutines are scheduled, and for each key a reload's read that can succeed
  again and again sometimes does (strong fairness). Without this Consul may fail for ever and
  nothing converges. Writers, callers and failures have no fairness; nobody is
  obliged to set up, start or stop.

## Proofs

Everything below is proved for all values of the constants, under the named
assumptions of the modules:

* the budget: `Requests` is finite, `KeyOf` maps requests to keys, an enabled
  parameter set has positive numbers (what `toConfig` accepts), `MaxRetries` is
  natural;
* `ConfigReload`: the two marker values are no providers, there is at least one
  key, a layer says which halves of `retry_budget` it gives;
* `RoundTrip` (`RoundTripAssumption`): a policy and a call are records of their
  fields' types; a timeout, a maximal backoff and what is left until a deadline do
  not exceed `Never`, which stands for no deadline; a `Retry-After` is not
  negative (`parseRetryAfter` gives none that is);
* `RetryChain`: every start has natural numbers of retries and of elapsed time,
  and no handler drops both the context and the headers;
* `BodyLog`: a body is a sequence of bytes with an end, a length is an integer, a
  duplex source has something to begin with; the limits may be any integers, as in the code;
* `ConfigLayers`: the lists of a file are sequences, its policies patches of the
  four classes; a rule has an integer priority, is disabled or not, mentions
  finitely many dimensions and gives a patch; a pattern's length is natural; a
  context holds finitely many classes, and a policy in it has the fields of one.

Some theorems have a hypothesis besides. Where it fails the property fails too, so
the hypothesis is where the code stops being right: `RetriesSound` (a policy
resolved without a provider has a natural `MaxRetries`; `roundtrip_bare`),
`OneCapacity` (no reload changes a capacity; `budget_resized`), `FilesClassify` (no
class resolver is registered beside the files' own; the third of the
disagreements above) and `ShortLiterals` (no pattern has 200 literal characters, as many as a
path segment counts in `inferDownstream`). `EveryCallAnswered` also needs a
`RoundTripper` that never answers with neither response nor error, which
`http.RoundTripper` requires.

**TokenBucketProofs.** `BucketTypeCorrect`; its invariant includes that a
reservation exists only while `granted` and only on a key with an entry.
`BucketSpendBounded`: per key, `balance + held + spent <= opened + earned`,
where `held` is the number of reserved units. The sum over requests is the
cardinality of a set of (request, unit) pairs, so that a step that changes one
reservation adds or removes one known block: lemmas on `Units` state that once,
and each action is then an inequality between numbers. `SpendBounded` itself
needs the type invariant to be inductive: `Open` adds the capacity to an
unopened key only because the balance there is 0 and nothing is held.

**RetryBudgetProofs.** `BudgetTypeCorrect` and `BudgetLabelFacts`. The types are
not inductive alone: the deduction stays natural only because a request about to
swap has tested a balance not below its cost. `LabelFacts` says at each `pc` what
a request may rely on; a step of one request keeps the facts of the others since
they speak only of that request's own `seen`, `cfg` and `reservation` and of
`entries`, which only grows. `BudgetImplementsBucket`: with `stage` a function of
`pc`, each step is a step of the bucket or a stutter. A reservation takes effect
at its successful swap, a refusal at the load or the cut that decided it, a
refund or success at its swap or at the load that found the balance full.
`BudgetSpendBounded` carries the bound over to the code. `OperationsTrimAlways`
follows from the same invariant. `GivingNeverTakesAlways` needs one more: under
one capacity, what a request has loaded (`Lent`) and every balance stay within it.

**ConfigReloadProofs.** `OneWatcherAlways`: `OneWatcher` is inductive once
`watcher` is known to be a function; only `StartReturns` starts a watcher, and
lemma `NobodyRuns` shows that none is running when it may (`Joined`), because the
only one that could be is the one that was joined. `ReloadTypeCorrect` says more
than types at one place: the watcher's cursor and a load's never leave the keys.
`ServesWhatWasStoredAlways`: a load reads its keys one after the other while
others write, so the invariant `ReadWell` speaks of the load in progress: each
layer read so far was held by its key at some time.

**RetryPolicyProofs.** `DelayWithinMaximum`: for any policy, negative durations
and zero included, no delay of a retry without `Retry-After` is below a unit or
above the maximum. The doubling is a recursive function, so its value has to be
found by induction. The library's induction takes an operator; the module derives
an induction over sets of numbers instead (`SetInduction`) and from it the
existence and uniqueness of a function given by recursion (`Recursion`), which the
chain and the layers use as well.

**RoundTripProofs**, for any number of calls that share the budget, any
configurations, replies and answers:

* *What a call holds.* `NothingHeldAlways`, `ReturnedUsableAlways`. What may be
  open depends on where the call is; `HeldWell` says it for every `pc`: which body
  and which attempt's context are open (`Attempts`), whether the call's own context
  is (`OwnContext`), and that only a call between `discard` and `prepare` has a
  reservation (`Standing`). A `...Local` lemma per action keeps the types and leaves
  the other calls alone (`Same`); what an operation of the budget does to them
  comes from four lemmas on `TokenBucket` (`SettleEffect` ...).
* *Time.* `AttemptWithinDeadlineAlways` is an induction of its own: `Send` takes
  the least of two times, and a `Tick` moves both timers at the same pace
  (`TickedMonotone`). `RoundTripTypeCorrect` adds that no timer shows a time the
  call was not given (`Fitting`): that rests on `DelayWithinMaximum`.
* *What was seen.* `OutcomeKeptAlways` and `EventTrueAlways` relate the outcome and
  the event of a call to the attempts and retry events before. `Recorded` ties the
  three at every `pc`: how many attempts were made (`Progress`), what the last one
  said (`Records`), that the loop's own count is that of the attempts on the wire
  (`Tallied`), why the loop ended (`Over`, `Ended`, `Refused`) and what was then
  reported. `Undated` is what it needs of calls without a deadline.
  `AmplificationBoundedAlways`, `CallersBodyClosedAlways` and
  `EveryCallAnsweredAlways` follow from it under `RetriesSound`.
* *What was paid.* `CallsKeepToTheBucket`: the calls use the budget only as
  `TokenBucket` allows, so what is proved of the bucket holds of the calls, and with
  `BudgetImplementsBucket` of the code below it; `CallsSpendBounded` is that for the
  spending. `EveryRetryPaidAlways`: what a key has spent is the sum of what its
  calls owe for the attempts they made (`Settled`), counted as `Units` again.

**RetryChainProofs**, for any number of hops and retries, any configuration of
the nodes and any clocks:

* *What is inherited.* `ConstraintInheritedAlways`, `DeadlineNarrowsAlways` and
  `NothingSentLateAlways` speak of requests above other requests, and a step that
  sends one request could disturb what holds below it. The invariant `Ordered`
  rules that out: the request of the attempt in hand is not yet sent (`Numbered`),
  hence nothing below it is (`Rooted`), and what a sent request asks never changes
  again (`DispatchFacts`). `Limited` gives that a call under the constraint makes
  attempt 0 only, `Dues` that a call is bound by its request's deadline.
  `EffectOfStep` reduces the actions to four effects, so that each part of the
  invariant has five cases. `ChainTypeCorrect` adds the waits and the balances.
* *The load.* `AmplificationBoundedAlways`: the bound `Worst` is a recursive
  function of the node, and the requests below one are counted by induction on the
  distance to the last server (`Bounded`); `LastForbids` says that the last request
  a call may make forbids retries, so it counts once.
* *The budgets.* `BudgetBoundsLoadAlways` is the ledger of each node (`Balanced`):
  what its balance has, plus the cost of the retries sent or about to be, is not
  above what it began with plus what its successes earned. Every step is one of
  four entries in it (`Booked`). Counting requests by level then bounds the load of
  the last server (`Level`, `Affordable`).

**BodyLogProofs**, for bodies, limits and drain limits of any length and any
changes of the settings: `CallTypeCorrect`, `LoggedWholeAlways`, `ReleasedAlways`,
`StreamsUnreadAlways` and `LoggingUnnoticed`, the refinement of `Exchange`. The invariant says at each
`pc` where a reader stands in its source (`Sources`, `Fresh`), that what was
delivered followed by what the reader still has is what the source gives
(`Followed`), and who has to close what (`Owned`), with the one body nobody closes: that which
`GetBody` gave for a retry that had no time left (`roundtrip_leak` shows it in the
loop itself, `Released` excepts it). A capture moves bytes from the source to `held`
and changes nothing of what is delivered; hence it is a stutter of `Exchange`. Where
nothing may be captured the reader holds nothing and stands where the other side
does (`Quiet`), which is `StreamsUnread`.

**ConfigLayersProofs.** `MergeAcceptedAlways`: two files that are valid alone are
never rejected together. A fold over a list is first shown to be a recursion along
its places (`FoldExists`); the names of the merged list are then distinct by
induction over these, and its items are those of the two layers. That two valid
patches make a valid one needs no induction (`MergedPatch`). `ClassAgreedAlways`:
one class governs every request whose context names at most one.
`DownstreamMostSpecificAlways`: `inferDownstream` gathers the candidates of all
downstreams and keeps the best. `Placed` says of the first fold where each candidate
comes from, in which order and that none is missing, `Best` of the second that it
holds the first of the greatest score so far; `ScoreOrder` is that a higher score is
a more specific pattern.

`PolicyLayeredAlways`: the property names the rule that counts by what the two files
say (`RulePatch`) and the policy field by field (`Layered`), while the code appends,
drops and sorts rules, takes the first that matches and applies merged patches. The
proof has two halves:

* *The rule.* What is taken from or dropped from a list is the list at some of its
  places in order (`Picks`, `TakenPicks`, `KeptPicks`), so the merged rules are the
  enabled ones among the service's and, behind these, the application's whose names
  the service does not use (`MergedRule`, `ForceFacts`). `Insert` puts an item behind a prefix whose
  items are not behind it (`InsertFacts`), hence the sorted list is a reordering by
  rank that keeps ties in place (`SortedFacts`); the least match in it is ahead of all
  hits (`FirstMatchFacts`, `RuleFound`).
* *The patches.* `MergesFacts` and `ApplyFacts` say what merging and applying do to
  each field, `NormalizeFacts` that a policy in use is its own normal form, and
  `PatchedTwice` joins them. A request whose provider is the application's own is the
  case of empty files (`EmptyLayered`).

What it needs of the states is that a loaded configuration is the merge of two files
that compile, and that nothing is overridden before the request is resolved.

Model-checked only: liveness, since the prover has neither fairness nor `ENABLED`.
Every safety invariant and action property of the passing runs is a theorem.

## Not modelled

YAML decoding and glob syntax, URLs of Consul, what is encoded into a form or a
log line, argument parsing, the setters of the shared client that assign one
field, the service name. They are sequential conversions or single assignments.
The Prometheus observer adds the fields of one event to counters of a library and
reads nothing back; that the event is true of its call is `EventTrue` of
`RoundTrip`. A panic of an application's callback, a `RoundTripper` that returns
`nil, nil` or breaks its contract, redirects of `http.Client`, and an application
that does not close a response are outside. An application's own
`RetryConfigProvider` returns the policy unchanged in `ConfigLayers`.

## Plan

Done: the budget with its refinement, the retry loop, reload, layers, the chain,
helpers and body logging.

1. *Extend.* Little is left that keeps state: two applications that replace the
   shared client's `RoundTripper` while setters run (`mutateClientTransport`), and
   three hops in `RetryChain` if the instance can be kept small.
2. *Prove.* The safety half of what liveness rests on: a watcher that has an answer
   to apply applies it in finitely many steps (a measure that falls), likewise a call
   that waits or retries; and that each layer of `ConfigReload` stands for a file of
   `ConfigLayers`, so that what is proved of merging holds of what is reloaded.
