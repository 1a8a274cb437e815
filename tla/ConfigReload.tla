----------------------------- MODULE ConfigReload -----------------------------
(***************************************************************************)
(* The configuration in Consul and the task that follows it                *)
(* (src/retry_consul.go): the first load of                                *)
(* SetRetryConfigProviderFromConsul, the one background watcher of the     *)
(* package, in its blocking and polling forms, starting and stopping it,   *)
(* and UpdateFromConsul.  A load reads one key after the other and others  *)
(* write between the reads.  What the layers say is abstract: whether a    *)
(* layer passes its validation, and what it gives of retry_budget, which   *)
(* is checked again on the merged file.                                    *)
(***************************************************************************)
EXTENDS Naturals, Sequences

CONSTANTS
    Providers,      \* the providers callers set up
    LastPath,       \* number of keys: application, then service
    Layers,         \* what a key may hold
    Modes,          \* does the store offer blocking queries
    MaxWrites,      \* bound: writes to the keys
    MaxCalls        \* bound: calls after the setup: stop, start, interval, update

Paths == 1 .. LastPath
Stopper == "stop"
NoProvider == "none"
Callers == Providers \cup {Stopper}

\* A layer: [valid : BOOLEAN, gives : SUBSET {"enabled", "limits"}, name].
\* A key that is missing or empty stands for an empty layer.
NoLayer == [valid |-> TRUE, gives |-> {}, name |-> "none"]

ASSUME ReloadAssumption ==
    /\ Providers \cap {Stopper, NoProvider} = {}
    /\ LastPath \in Nat \ {0}
    /\ Modes \subseteq BOOLEAN
    /\ MaxWrites \in Nat
    /\ MaxCalls \in Nat
    /\ \A l \in Layers : l.valid \in BOOLEAN /\ l.gives \subseteq {"enabled", "limits"}

VARIABLES
    key,            \* each key in Consul: its layer and ModifyIndex, 0 if missing
    writes,         \* writes made so far
    calls,          \* calls made after the setup so far
    held,           \* history: the layers each key has held
    blocking,       \* the store offers blocking queries
    intervalOn,     \* retryConfigAutoReloadInterval > 0
    setup,          \* where SetRetryConfigProviderFromConsul stands for a provider
    serving,        \* the layers each provider's configuration was merged from
    installed,      \* transport.ConfigProvider
    resolver,       \* the request class resolver
    holder,         \* who holds retryConfigAutoReloadMu while joining a watcher
    watched,        \* whose watcher Cancel and Done belong to
    canceled,       \* its context is cancelled
    watcher,        \* where the watcher of a provider is
    pending,        \* pendingReload; always TRUE when polling
    at,             \* the path a watcher asks for next
    seen,           \* states: for each path, [seen, exists, index]
    reading         \* what a load has read so far, by who runs it

consul == <<key, writes, held, blocking>>
control == <<holder, watched, canceled>>
watch == <<watcher, pending, at, seen>>
install == <<installed, resolver>>
vars == <<consul, calls, intervalOn, setup, serving, install, control, watch, reading>>

Missing(p) == key[p].index = 0
Stored == [p \in Paths |-> key[p].layer]
EmptyConfig == [p \in Paths |-> NoLayer]
Unseen == [seen |-> FALSE, exists |-> FALSE, index |-> 0]

\* Who runs a load of a provider: its setup, its watcher, or an update.
Loaders == {"setup", "watcher", "update"}

Given(config) == UNION {config[p].gives : p \in Paths}

\* The merged retry_budget, when enabled, must have all its limits.
Complete(config) == "enabled" \in Given(config) => "limits" \in Given(config)

Loadable(config) == Complete(config) /\ \A p \in Paths : config[p].valid

Init ==
    /\ key \in [Paths -> {[layer |-> NoLayer, index |-> 0]}
                          \cup {[layer |-> l, index |-> 1] : l \in Layers}]
    /\ writes = 0
    /\ calls = 0
    /\ held = [p \in Paths |-> {key[p].layer}]
    /\ blocking \in Modes
    /\ intervalOn = TRUE
    /\ setup = [s \in Providers |-> "none"]
    /\ serving = [s \in Providers |-> EmptyConfig]
    /\ installed = NoProvider
    /\ resolver = NoProvider
    /\ holder = NoProvider
    /\ watched = NoProvider
    /\ canceled = FALSE
    /\ watcher = [s \in Providers |-> "off"]
    /\ pending = [s \in Providers |-> FALSE]
    /\ at = [s \in Providers |-> 1]
    /\ seen = [s \in Providers |-> [p \in Paths |-> Unseen]]
    /\ reading = [l \in Loaders |-> [s \in Providers |-> <<>>]]

-----------------------------------------------------------------------------
(* Consul and the application *)

\* A key is created, changed or deleted.
Write(p, l) ==
    /\ writes < MaxWrites
    /\ writes' = writes + 1
    /\ key' = [key EXCEPT ![p] = [layer |-> l, index |-> writes + 2]]
    /\ held' = [held EXCEPT ![p] = @ \cup {l}]
    /\ UNCHANGED <<blocking, calls, intervalOn, setup, serving, install, control, watch, reading>>

Delete(p) ==
    /\ writes < MaxWrites
    /\ ~Missing(p)
    /\ writes' = writes + 1
    /\ key' = [key EXCEPT ![p] = [layer |-> NoLayer, index |-> 0]]
    /\ held' = [held EXCEPT ![p] = @ \cup {NoLayer}]
    /\ UNCHANGED <<blocking, calls, intervalOn, setup, serving, install, control, watch, reading>>

Call == calls < MaxCalls /\ calls' = calls + 1

SetInterval ==
    /\ Call
    /\ holder = NoProvider
    /\ intervalOn' = ~intervalOn
    /\ UNCHANGED <<consul, setup, serving, install, control, watch, reading>>

-----------------------------------------------------------------------------
(* A load: the keys in order, each with its own validation, then the check  *)
(* of the merged file, then Update, which validates it again and replaces   *)
(* the configuration under the provider's lock.                             *)

\* Mutant: a key that cannot be read counts as a missing one.
AnswersOrNothing(p) == {key[p].layer, NoLayer}

\* What reading a key may give.
Answers(p) == {key[p].layer}

Read(l, s) ==
    /\ Len(reading[l][s]) < LastPath
    /\ \E layer \in Answers(Len(reading[l][s]) + 1) :
         /\ layer.valid
         /\ reading' = [reading EXCEPT ![l][s] = Append(@, layer)]
    /\ UNCHANGED <<consul, calls, intervalOn, setup, serving, install, control, watch>>

\* The store does not answer, the layer is invalid, or the merged file is.
LoadFails(l, s) ==
    /\ Len(reading[l][s]) = LastPath => ~Complete(reading[l][s])
    /\ reading' = [reading EXCEPT ![l][s] = <<>>]

\* Every layer is read and the merged file is valid.
Merged(l, s) == Len(reading[l][s]) = LastPath /\ Complete(reading[l][s])

Apply(l, s) ==
    /\ Merged(l, s)
    /\ serving' = [serving EXCEPT ![s] = reading[l][s]]
    /\ reading' = [reading EXCEPT ![l][s] = <<>>]

-----------------------------------------------------------------------------
(* SetRetryConfigProviderFromConsul.  Making the store reads the interval,  *)
(* which needs the mutex.                                                   *)

SetupTo(s, step) == setup' = [setup EXCEPT ![s] = step]

SetupBegin(s) ==
    /\ setup[s] = "none"
    /\ holder = NoProvider
    /\ SetupTo(s, "load")
    /\ UNCHANGED <<consul, calls, intervalOn, serving, install, control, watch, reading>>

SetupRead(s) == setup[s] = "load" /\ Read("setup", s)

SetupFails(s) ==
    /\ setup[s] = "load"
    /\ LoadFails("setup", s)
    /\ SetupTo(s, "none")
    /\ UNCHANGED <<consul, calls, intervalOn, serving, install, control, watch>>

SetupApply(s) ==
    /\ setup[s] = "load"
    /\ Apply("setup", s)
    /\ SetupTo(s, "install")
    /\ UNCHANGED <<consul, calls, intervalOn, install, control, watch>>

\* SetRetryConfigProvider: the transport's provider, then the class resolver.
Install(s) ==
    /\ setup[s] = "install"
    /\ installed' = s
    /\ SetupTo(s, "resolver")
    /\ UNCHANGED <<consul, calls, intervalOn, serving, resolver, control, watch, reading>>

InstallResolver(s) ==
    /\ setup[s] = "resolver"
    /\ resolver' = s
    /\ SetupTo(s, "start")
    /\ UNCHANGED <<consul, calls, intervalOn, serving, installed, control, watch, reading>>

\* StartRetryConfigAutoReloadFromConsul on a provider set up before.
Restart(s) ==
    /\ Call
    /\ setup[s] = "done"
    /\ holder = NoProvider
    /\ SetupTo(s, "start")
    /\ UNCHANGED <<consul, intervalOn, serving, install, control, watch, reading>>

-----------------------------------------------------------------------------
(* Starting and stopping, under retryConfigAutoReloadMu.  Both cancel the   *)
(* running watcher and wait for it.                                         *)

CancelWatcher(c) ==
    /\ holder = NoProvider
    /\ holder' = c
    /\ canceled' = (watched # NoProvider)
    /\ UNCHANGED <<consul, intervalOn, setup, serving, install, watched, watch, reading>>

StartCancels(s) == setup[s] = "start" /\ CancelWatcher(s) /\ UNCHANGED calls
StopCancels == Call /\ CancelWatcher(Stopper)

\* Mutant: the watcher is cancelled and not waited for.
JoinedAtOnce == TRUE

\* <-retryConfigAutoReloadDone
Joined == watched # NoProvider => watcher[watched] = "off"

StopReturns ==
    /\ holder = Stopper
    /\ Joined
    /\ holder' = NoProvider
    /\ watched' = NoProvider
    /\ canceled' = FALSE
    /\ UNCHANGED <<consul, calls, intervalOn, setup, serving, install, watch, reading>>

\* Mutant: the paths taken from behind the last one.
LaunchPastLast(s) ==
    /\ watched' = s
    /\ watcher' = [watcher EXCEPT ![s] = IF blocking THEN "watch" ELSE "pause"]
    /\ pending' = [pending EXCEPT ![s] = ~blocking]
    /\ at' = [at EXCEPT ![s] = LastPath + 1]
    /\ seen' = [seen EXCEPT ![s] = [p \in Paths |-> Unseen]]

\* The watcher starts from no knowledge of the keys.
Launch(s) ==
    /\ watched' = s
    /\ watcher' = [watcher EXCEPT ![s] = IF blocking THEN "watch" ELSE "pause"]
    /\ pending' = [pending EXCEPT ![s] = ~blocking]
    /\ at' = [at EXCEPT ![s] = 1]
    /\ seen' = [seen EXCEPT ![s] = [p \in Paths |-> Unseen]]

StartReturns(s) ==
    /\ holder = s
    /\ Joined
    /\ holder' = NoProvider
    /\ canceled' = FALSE
    /\ SetupTo(s, "done")
    /\ \/ intervalOn /\ Launch(s)
       \/ ~intervalOn /\ watched' = NoProvider /\ UNCHANGED watch
    /\ UNCHANGED <<consul, calls, intervalOn, serving, install, reading>>

-----------------------------------------------------------------------------
(* The watcher.  Its requests carry its context: once that is cancelled the *)
(* next one fails and it returns.                                           *)

Running(s) == watcher[s] # "off"
Goto(s, step) == watcher' = [watcher EXCEPT ![s] = step]

\* Mutant: a reload that fails for the context is tried again.
HeedsContextButReload(s) == watcher[s] \in {"watch", "pause"}

\* The goroutine returns at its next request, or from its sleep.
HeedsContext(s) ==
    \/ watcher[s] \in {"watch", "pause"}
    \/ watcher[s] = "load" /\ ~Merged("watcher", s)

Exit(s) ==
    /\ canceled
    /\ HeedsContext(s)
    /\ Goto(s, "off")
    /\ reading' = [reading EXCEPT !["watcher"][s] = <<>>]
    /\ UNCHANGED <<consul, calls, intervalOn, setup, serving, install, control, pending, at, seen>>

Known(s) == seen[s][at[s]]

\* Mutant: deletion of a key is not a change.
ChangedExceptDeleted(s) ==
    /\ Known(s).seen
    /\ ~Missing(at[s])
    /\ ~Known(s).exists \/ key[at[s]].index # Known(s).index

\* The key differs from what the watcher knows of it; the first answer for a
\* key is never a change.
Changed(s) ==
    /\ Known(s).seen
    /\ \/ Missing(at[s]) # ~Known(s).exists
       \/ ~Missing(at[s]) /\ key[at[s]].index # Known(s).index

\* allRetryConfigWatchPathsMissing, after the pass.
AllMissing(s) == \A p \in Paths : seen'[s][p].seen /\ ~seen'[s][p].exists

\* A blocking query answers for one path: something changed, or its wait is
\* over, or the key is missing.
Watch(s) ==
    /\ watcher[s] = "watch"
    /\ ~canceled
    /\ seen' = [seen EXCEPT ![s][at[s]] =
                   [seen |-> TRUE, exists |-> ~Missing(at[s]), index |-> key[at[s]].index]]
    /\ \/ /\ Changed(s)
          /\ pending' = [pending EXCEPT ![s] = TRUE]
          /\ at' = [at EXCEPT ![s] = 1]
          /\ Goto(s, "load")
       \/ /\ ~Changed(s)
          /\ at[s] < LastPath
          /\ at' = [at EXCEPT ![s] = @ + 1]
          /\ UNCHANGED <<pending, watcher>>
       \/ /\ ~Changed(s)
          /\ at[s] = LastPath
          /\ at' = [at EXCEPT ![s] = 1]
          /\ Goto(s, IF AllMissing(s) THEN "pause" ELSE "watch")
          /\ UNCHANGED pending
    /\ UNCHANGED <<consul, calls, intervalOn, setup, serving, install, control, reading>>

\* The query fails: fall back to a reload.
WatchFails(s) ==
    /\ watcher[s] = "watch"
    /\ ~canceled
    /\ pending' = [pending EXCEPT ![s] = TRUE]
    /\ at' = [at EXCEPT ![s] = 1]
    /\ Goto(s, "load")
    /\ UNCHANGED <<consul, calls, intervalOn, setup, serving, install, control, seen, reading>>

\* The interval is over.
Wake(s) ==
    /\ watcher[s] = "pause"
    /\ ~canceled
    /\ Goto(s, IF pending[s] THEN "load" ELSE "watch")
    /\ UNCHANGED <<consul, calls, intervalOn, setup, serving, install, control, pending, at, seen, reading>>

ReloadRead(s) == watcher[s] = "load" /\ ~canceled /\ Read("watcher", s)

ReloadFails(s) ==
    /\ watcher[s] = "load"
    /\ ~canceled
    /\ LoadFails("watcher", s)
    /\ Goto(s, "pause")
    /\ UNCHANGED <<consul, calls, intervalOn, setup, serving, install, control, pending, at, seen>>

\* The last answer is in: the provider is updated, cancelled or not.
ReloadApply(s) ==
    /\ watcher[s] = "load"
    /\ Apply("watcher", s)
    /\ pending' = [pending EXCEPT ![s] = ~blocking]
    /\ Goto(s, IF blocking THEN "watch" ELSE "pause")
    /\ UNCHANGED <<consul, calls, intervalOn, setup, install, control, at, seen>>

-----------------------------------------------------------------------------
(* UpdateFromConsul, called by the application; one runs at a time.         *)

Updating(s) == reading["update"][s] # <<>>

UpdateRead(s) ==
    /\ Updating(s) \/ (setup[s] = "done" /\ holder = NoProvider /\ calls < MaxCalls)
    /\ Len(reading["update"][s]) < LastPath
    /\ calls' = IF Updating(s) THEN calls ELSE calls + 1
    /\ \E layer \in Answers(Len(reading["update"][s]) + 1) :
         /\ layer.valid
         /\ reading' = [reading EXCEPT !["update"][s] = Append(@, layer)]
    /\ UNCHANGED <<consul, intervalOn, setup, serving, install, control, watch>>

UpdateFails(s) ==
    /\ Updating(s)
    /\ LoadFails("update", s)
    /\ UNCHANGED <<consul, calls, intervalOn, setup, serving, install, control, watch>>

UpdateApply(s) ==
    /\ Apply("update", s)
    /\ UNCHANGED <<consul, calls, intervalOn, setup, install, control, watch>>

-----------------------------------------------------------------------------
Environment ==
    \/ \E p \in Paths : Delete(p) \/ \E l \in Layers : Write(p, l)
    \/ SetInterval

Caller(s) ==
    \/ SetupBegin(s) \/ SetupRead(s) \/ SetupFails(s) \/ SetupApply(s)
    \/ Install(s) \/ InstallResolver(s) \/ Restart(s)
    \/ StartCancels(s) \/ StartReturns(s)
    \/ UpdateRead(s) \/ UpdateFails(s) \/ UpdateApply(s)

Watcher(s) ==
    \/ Exit(s) \/ Watch(s) \/ WatchFails(s) \/ Wake(s)
    \/ ReloadRead(s) \/ ReloadFails(s) \/ ReloadApply(s)

Next ==
    \/ Environment
    \/ StopCancels \/ StopReturns
    \/ \E s \in Providers : Caller(s) \/ Watcher(s)

Spec == Init /\ [][Next]_vars

\* The goroutines are scheduled, and Consul does not fail forever: a read that
\* can succeed again and again does.
Fairness ==
    /\ WF_vars(StopReturns)
    /\ \A s \in Providers :
         /\ WF_vars(StartReturns(s))
         /\ WF_vars(Watcher(s))
         /\ \A p \in Paths :
              SF_vars(ReloadRead(s) /\ Len(reading["watcher"][s]) = p - 1)

FairSpec == Spec /\ Fairness

-----------------------------------------------------------------------------
(* Properties *)

Reading == UNION {[1 .. n -> Layers \cup {NoLayer}] : n \in 0 .. LastPath}

\* Every variable has its type.
TypeOK ==
    /\ key \in [Paths -> [layer : Layers \cup {NoLayer}, index : 0 .. MaxWrites + 1]]
    /\ writes \in 0 .. MaxWrites
    /\ calls \in 0 .. MaxCalls
    /\ held \in [Paths -> SUBSET (Layers \cup {NoLayer})]
    /\ blocking \in Modes
    /\ intervalOn \in BOOLEAN
    /\ setup \in [Providers -> {"none", "load", "install", "resolver", "start", "done"}]
    /\ serving \in [Providers -> [Paths -> Layers \cup {NoLayer}]]
    /\ {installed, resolver, watched} \subseteq Providers \cup {NoProvider}
    /\ holder \in Callers \cup {NoProvider}
    /\ canceled \in BOOLEAN
    /\ watcher \in [Providers -> {"off", "watch", "load", "pause"}]
    /\ pending \in [Providers -> BOOLEAN]
    /\ at \in [Providers -> Paths]
    /\ seen \in [Providers -> [Paths -> [seen : BOOLEAN, exists : BOOLEAN,
                                         index : 0 .. MaxWrites + 1]]]
    /\ reading \in [Loaders -> [Providers -> Reading]]

\* A provider that was set up serves a configuration that passed validation,
\* each layer of which its key did hold: an unreachable or broken key never
\* turns into a missing one, and the last good configuration stays
\* (loadRetryConfigFileFromStoreContext; config-reference.md, section 12).
ServesWhatWasStored ==
    \A s \in Providers :
        setup[s] \notin {"none", "load"} =>
            /\ Loadable(serving[s])
            /\ \A p \in Paths : serving[s][p] \in held[p]

\* There is one watcher at most, the one the package can stop: starting another
\* or stopping waits for it (stopRetryConfigAutoReloadLocked), so when
\* StopRetryConfigAutoReload has returned nobody reloads any more.
OneWatcher == \A s \in Providers : Running(s) => watched = s

\* The key no longer is what the watcher last saw of it.
Behind(s, p) ==
    /\ seen[s][p].seen
    /\ Missing(p) = seen[s][p].exists \/ key[p].index # seen[s][p].index

Serves(s, p) == serving[s][p] = key[p].layer
Excused(s) == ~Running(s) \/ canceled \/ ~Loadable(Stored)

\* A change of a key made after the watcher has seen that key reaches the
\* provider, over failed queries, failed reloads and broken layers, unless the
\* watcher is stopped or what is stored cannot be loaded
\* (runRetryConfigBlockingReloadLoop; config-reference.md, section 12).
ChangeApplied ==
    \A s \in Providers : \A p \in Paths :
        Running(s) /\ Behind(s, p) ~> Serves(s, p) \/ Excused(s)

\* What is stored is served in the end, whenever it was written
\* (config-reference.md, section 12).
Converges ==
    \A s \in Providers : <>[]((\A p \in Paths : Serves(s, p)) \/ Excused(s))

\* A store without blocking queries is reloaded every interval, so there it
\* holds.
PollingConverges == ~blocking => Converges

\* Stopping and starting return: the watcher they wait for heeds its context
\* wherever it is.
JoinEnds == \A c \in Callers : holder = c ~> holder # c

\* When no call is under way, one provider is in use: it resolves the policies,
\* classifies the requests and, if any is watched, is the one that is
\* (SetRetryConfigProviderFromConsul, SetRetryConfigProvider).
InstalledIsWatched ==
    (\A s \in Providers : setup[s] \in {"none", "done"}) =>
        /\ resolver = installed
        /\ watched # NoProvider => installed = watched
=============================================================================
