-------------------------- MODULE ConfigReloadProofs --------------------------
(***************************************************************************)
(* There is one configuration watcher at most, for any number of callers   *)
(* that start, restart and stop it, any keys and any number of writes.     *)
(***************************************************************************)
EXTENDS ConfigReload, SequenceTheorems, TLAPS

\* OneWatcher, with what it takes to be inductive: the watchers are a function.
Watchers == watcher \in [Providers -> {"off", "watch", "load", "pause"}]
OwnedWatcher == Watchers /\ OneWatcher

LEMMA OwnedAtStart == Init => OwnedWatcher
  BY DEF Init, OwnedWatcher, Watchers, OneWatcher, Running

\* When the watcher that can be stopped has returned, no other one runs.
LEMMA NobodyRuns ==
  ASSUME OwnedWatcher, Joined
  PROVE  \A s \in Providers : watcher[s] = "off"
<1>1. CASE watched = NoProvider
  BY <1>1, ReloadAssumption DEF OwnedWatcher, OneWatcher, Running, NoProvider
<1>2. CASE watched # NoProvider
  BY <1>2 DEF OwnedWatcher, OneWatcher, Running, Joined
<1> QED
  BY <1>1, <1>2

\* A step that moves a running watcher on, or ends it, keeps the property.
LEMMA MovesOn ==
  ASSUME OwnedWatcher, NEW s \in Providers, Running(s),
         NEW step \in {"off", "watch", "load", "pause"},
         watcher' = [watcher EXCEPT ![s] = step], UNCHANGED watched
  PROVE  OwnedWatcher'
  BY DEF OwnedWatcher, Watchers, OneWatcher, Running

LEMMA Owned ==
  ASSUME OwnedWatcher, UNCHANGED <<watcher, watched>>
  PROVE  OwnedWatcher'
  BY DEF OwnedWatcher, Watchers, OneWatcher, Running

LEMMA OwnedInductive == OwnedWatcher /\ [Next]_vars => OwnedWatcher'
<1> SUFFICES ASSUME OwnedWatcher, [Next]_vars
             PROVE  OwnedWatcher'
  OBVIOUS
<1> USE DEF consul, control, watch, install
<1>1. CASE Environment
  BY <1>1, Owned DEF Environment, Delete, Write, SetInterval
<1>2. CASE StopCancels
  BY <1>2, Owned DEF StopCancels, CancelWatcher
<1>3. CASE StopReturns
  <2>1. Joined /\ UNCHANGED watcher
    BY <1>3 DEF StopReturns
  <2> QED
    BY <2>1, NobodyRuns DEF OwnedWatcher, Watchers, OneWatcher, Running
<1>4. ASSUME NEW s \in Providers, Caller(s)
      PROVE  OwnedWatcher'
  <2>1. CASE SetupBegin(s) \/ SetupFails(s) \/ Install(s) \/ InstallResolver(s) \/ Restart(s)
    BY <2>1, Owned DEF SetupBegin, SetupFails, Install, InstallResolver, Restart
  <2>2. CASE SetupRead(s)
    BY <2>2, Owned DEF SetupRead, Read
  <2>3. CASE SetupApply(s)
    BY <2>3, Owned DEF SetupApply
  <2>4. CASE StartCancels(s)
    BY <2>4, Owned DEF StartCancels, CancelWatcher
  <2>5. CASE StartReturns(s)
    <3>1. \A q \in Providers : watcher[q] = "off"
      BY <2>5, NobodyRuns DEF StartReturns
    <3>2. CASE Launch(s)
      BY <3>1, <3>2 DEF Launch, OwnedWatcher, Watchers, OneWatcher, Running
    <3>3. CASE UNCHANGED watch
      BY <3>1, <3>3 DEF OwnedWatcher, Watchers, OneWatcher, Running
    <3> QED
      BY <2>5, <3>2, <3>3 DEF StartReturns
  <2>6. CASE UpdateRead(s) \/ UpdateFails(s) \/ UpdateApply(s)
    BY <2>6, Owned DEF UpdateRead, UpdateFails, UpdateApply
  <2> QED
    BY <1>4, <2>1, <2>2, <2>3, <2>4, <2>5, <2>6 DEF Caller
<1>5. ASSUME NEW s \in Providers, Watcher(s)
      PROVE  OwnedWatcher'
  <2>1. CASE Exit(s)
    BY <2>1, MovesOn DEF Exit, HeedsContext, Running, Goto
  <2>2. CASE Watch(s)
    <3>1. Running(s) /\ UNCHANGED watched
      BY <2>2 DEF Watch, Running
    <3>2. UNCHANGED watcher \/ \E step \in {"load", "pause", "watch"} : Goto(s, step)
      BY <2>2 DEF Watch
    <3> QED
      BY <3>1, <3>2, Owned, MovesOn DEF Goto
  <2>3. CASE WatchFails(s) \/ ReloadFails(s) \/ ReloadApply(s) \/ Wake(s)
    <3>1. Running(s) /\ UNCHANGED watched
      BY <2>3 DEF WatchFails, ReloadFails, ReloadApply, Wake, Running
    <3>2. \E step \in {"load", "pause", "watch"} : Goto(s, step)
      BY <2>3 DEF WatchFails, ReloadFails, ReloadApply, Wake
    <3> QED
      BY <3>1, <3>2, MovesOn DEF Goto
  <2>4. CASE ReloadRead(s)
    BY <2>4, Owned DEF ReloadRead, Read
  <2> QED
    BY <1>5, <2>1, <2>2, <2>3, <2>4 DEF Watcher
<1>6. CASE UNCHANGED vars
  BY <1>6, Owned DEF vars
<1> QED
  BY <1>1, <1>2, <1>3, <1>4, <1>5, <1>6 DEF Next

\* However calls to start, restart and stop it interleave, at most one watcher
\* runs, and it is the one that can be stopped (retry_consul.go,
\* startRetryConfigAutoReloadFromStore and stopRetryConfigAutoReloadLocked).
THEOREM OneWatcherAlways == Spec => []OneWatcher
<1>1. OwnedWatcher => OneWatcher
  BY DEF OwnedWatcher
<1> QED
  BY OwnedAtStart, OwnedInductive, <1>1, PTL DEF Spec

-----------------------------------------------------------------------------
(* Types *)

\* What a load has read, one key further.
LEMMA ReadFurther ==
  ASSUME NEW S, NEW r \in UNION {[1 .. n -> S] : n \in 0 .. LastPath},
         Len(r) < LastPath, NEW layer \in S
  PROVE  /\ Append(r, layer) \in UNION {[1 .. n -> S] : n \in 0 .. LastPath}
         /\ Len(r) \in Nat
         /\ Len(Append(r, layer)) = Len(r) + 1
         /\ \A i \in 1 .. Len(r) : Append(r, layer)[i] = r[i]
         /\ Append(r, layer)[Len(r) + 1] = layer
<1>1. PICK n \in 0 .. LastPath : r \in [1 .. n -> S]
  OBVIOUS
<1>2. n \in Nat /\ LastPath \in Nat
  BY ReloadAssumption
<1>3. r \in Seq(S) /\ Len(r) = n
  BY <1>1, <1>2
<1>4. /\ Append(r, layer) \in Seq(S)
      /\ Len(Append(r, layer)) = n + 1
      /\ \A i \in 1 .. n : Append(r, layer)[i] = r[i]
      /\ Append(r, layer)[n + 1] = layer
  BY <1>3, AppendProperties
<1>5. Append(r, layer) \in [1 .. n + 1 -> S]
  BY <1>4, LenProperties
<1>6. n + 1 \in 0 .. LastPath
  BY <1>2, <1>3
<1> QED
  BY <1>2, <1>3, <1>4, <1>5, <1>6

LEMMA NothingRead == <<>> \in Reading
<1>1. 0 \in 0 .. LastPath /\ <<>> \in [1 .. 0 -> Layers \cup {NoLayer}]
  BY ReloadAssumption
<1> QED
  BY <1>1 DEF Reading

\* A step of a load adds what a key holds now, or leaves the load.
LEMMA ReadTypes ==
  ASSUME TypeOK, NEW l \in Loaders, NEW s \in Providers,
         \/ reading' = [reading EXCEPT ![l][s] = <<>>]
         \/ /\ Len(reading[l][s]) < LastPath
            /\ \E layer \in Answers(Len(reading[l][s]) + 1) :
                 reading' = [reading EXCEPT ![l][s] = Append(@, layer)]
  PROVE  reading' \in [Loaders -> [Providers -> Reading]]
<1>1. CASE reading' = [reading EXCEPT ![l][s] = <<>>]
  BY <1>1, NothingRead DEF TypeOK
<1>2. CASE /\ Len(reading[l][s]) < LastPath
           /\ \E layer \in Answers(Len(reading[l][s]) + 1) :
                reading' = [reading EXCEPT ![l][s] = Append(@, layer)]
  <2>1. PICK layer \in Answers(Len(reading[l][s]) + 1) :
               reading' = [reading EXCEPT ![l][s] = Append(@, layer)]
    BY <1>2
  <2>2. reading[l][s] \in Reading
    BY DEF TypeOK
  <2>3. Len(reading[l][s]) + 1 \in Paths
    <3>1. Len(reading[l][s]) \in Nat
      <4>1. PICK n \in 0 .. LastPath : reading[l][s] \in [1 .. n -> Layers \cup {NoLayer}]
        BY <2>2 DEF Reading
      <4> QED
        BY <4>1, ReloadAssumption
    <3> QED
      BY <1>2, <3>1, ReloadAssumption DEF Paths
  <2>4. layer \in Layers \cup {NoLayer}
    BY <2>1, <2>3 DEF Answers, TypeOK
  <2>5. Append(reading[l][s], layer) \in Reading
    BY <1>2, <2>2, <2>4, ReadFurther DEF Reading
  <2> QED
    BY <2>1, <2>5 DEF TypeOK
<1> QED
  BY <1>1, <1>2

LEMMA Counted == MaxWrites \in Nat /\ MaxCalls \in Nat /\ LastPath \in Nat /\ 1 \in Paths
BY ReloadAssumption DEF Paths

\* TypeOK in the parts the actions change.
StoreTypes ==
  /\ key \in [Paths -> [layer : Layers \cup {NoLayer}, index : 0 .. MaxWrites + 1]]
  /\ writes \in 0 .. MaxWrites
  /\ held \in [Paths -> SUBSET (Layers \cup {NoLayer})]
  /\ blocking \in Modes
CallTypes == calls \in 0 .. MaxCalls /\ intervalOn \in BOOLEAN
SetupTypes ==
  /\ setup \in [Providers -> {"none", "load", "install", "resolver", "start", "done"}]
  /\ {installed, resolver} \subseteq Providers \cup {NoProvider}
ControlTypes ==
  /\ watched \in Providers \cup {NoProvider}
  /\ holder \in Callers \cup {NoProvider}
  /\ canceled \in BOOLEAN
Seen == [Paths -> [seen : BOOLEAN, exists : BOOLEAN, index : 0 .. MaxWrites + 1]]
WatchTypes ==
  /\ Watchers
  /\ pending \in [Providers -> BOOLEAN]
  /\ at \in [Providers -> Paths]
  /\ seen \in [Providers -> Seen]
LoadTypes ==
  /\ serving \in [Providers -> [Paths -> Layers \cup {NoLayer}]]
  /\ reading \in [Loaders -> [Providers -> Reading]]

LEMMA TypeParts ==
  TypeOK <=> /\ StoreTypes /\ CallTypes /\ SetupTypes /\ ControlTypes /\ WatchTypes
             /\ LoadTypes
BY DEF TypeOK, StoreTypes, CallTypes, SetupTypes, ControlTypes, WatchTypes, LoadTypes, Seen, Watchers

LEMMA KeptTypes ==
  ASSUME TypeOK
  PROVE  /\ UNCHANGED consul => StoreTypes'
         /\ UNCHANGED <<calls, intervalOn>> => CallTypes'
         /\ UNCHANGED <<setup, install>> => SetupTypes'
         /\ UNCHANGED control => ControlTypes'
         /\ UNCHANGED watch => WatchTypes'
         /\ UNCHANGED <<serving, reading>> => LoadTypes'
BY TypeParts DEF StoreTypes, CallTypes, SetupTypes, ControlTypes, WatchTypes, LoadTypes, Watchers,
                 consul, install, control, watch

LEMMA TypesAtStart == Init => TypeOK
<1> SUFFICES ASSUME Init PROVE TypeOK
  OBVIOUS
<1>1. key \in [Paths -> [layer : Layers \cup {NoLayer}, index : 0 .. MaxWrites + 1]]
  BY Counted DEF Init
<1>2. StoreTypes /\ CallTypes
  BY <1>1, Counted DEF Init, StoreTypes, CallTypes
<1>3. SetupTypes /\ ControlTypes
  BY DEF Init, SetupTypes, ControlTypes
<1>4. WatchTypes
  BY Counted DEF Init, WatchTypes, Watchers, Seen, Unseen
<1>5. LoadTypes
  BY NothingRead DEF Init, LoadTypes, EmptyConfig
<1> QED
  BY <1>2, <1>3, <1>4, <1>5, TypeParts

LEMMA AppliedTypes ==
  ASSUME TypeOK, NEW l \in Loaders, NEW s \in Providers, Apply(l, s)
  PROVE  LoadTypes'
<1>1. reading[l][s] \in [Paths -> Layers \cup {NoLayer}]
  <2>1. reading[l][s] \in Reading
    BY DEF TypeOK
  <2>2. PICK n \in 0 .. LastPath : reading[l][s] \in [1 .. n -> Layers \cup {NoLayer}]
    BY <2>1 DEF Reading
  <2>3. n = LastPath
    BY <2>2, ReloadAssumption DEF Apply, Merged
  <2> QED
    BY <2>2, <2>3 DEF Paths
<1>2. reading' \in [Loaders -> [Providers -> Reading]]
  BY ReadTypes DEF Apply
<1> QED
  BY <1>1, <1>2, TypeParts DEF Apply, LoadTypes

LEMMA TypesInductive == TypeOK /\ [Next]_vars => TypeOK'
<1> SUFFICES ASSUME TypeOK, [Next]_vars
             PROVE  /\ StoreTypes' /\ CallTypes' /\ SetupTypes' /\ ControlTypes' /\ WatchTypes'
                    /\ LoadTypes'
  BY TypeParts, PTL
<1>0. StoreTypes /\ CallTypes /\ SetupTypes /\ ControlTypes /\ WatchTypes /\ LoadTypes
  BY TypeParts
<1> DEFINE Kept == /\ StoreTypes' /\ CallTypes' /\ SetupTypes' /\ ControlTypes' /\ WatchTypes'
                   /\ LoadTypes'
<1>1. ASSUME NEW p \in Paths, Delete(p) \/ \E l \in Layers : Write(p, l)
      PROVE  Kept
  <2>1. CASE Delete(p)
    <3>1. StoreTypes'
      BY <1>0, <2>1, Counted DEF Delete, StoreTypes
    <3> QED
      BY <2>1, <3>1, KeptTypes DEF Delete
  <2>2. ASSUME NEW l \in Layers, Write(p, l) PROVE Kept
    <3>1. [layer |-> l, index |-> writes + 2] \in
              [layer : Layers \cup {NoLayer}, index : 0 .. MaxWrites + 1]
      BY <1>0, <2>2, Counted DEF Write, StoreTypes
    <3>2. StoreTypes'
      BY <1>0, <2>2, <3>1, Counted DEF Write, StoreTypes
    <3> QED
      BY <2>2, <3>2, KeptTypes DEF Write
  <2> QED
    BY <1>1, <2>1, <2>2
<1>2. CASE SetInterval
  BY <1>0, <1>2, KeptTypes, Counted DEF SetInterval, Call, CallTypes
<1>3. CASE StopCancels
  <2>1. CallTypes'
    BY <1>0, <1>3, Counted DEF StopCancels, CancelWatcher, Call, CallTypes
  <2>2. ControlTypes'
    BY <1>0, <1>3 DEF StopCancels, CancelWatcher, ControlTypes, Callers
  <2> QED
    BY <1>3, <2>1, <2>2, KeptTypes DEF StopCancels, CancelWatcher
<1>4. CASE StopReturns
  BY <1>0, <1>4, KeptTypes DEF StopReturns, ControlTypes
<1>5. ASSUME NEW s \in Providers, Caller(s)
      PROVE  Kept
  <2>1. CASE SetupBegin(s) \/ Install(s) \/ InstallResolver(s)
    <3>1. SetupTypes'
      BY <1>0, <2>1 DEF SetupBegin, Install, InstallResolver, SetupTo, SetupTypes, install
    <3> QED
      BY <2>1, <3>1, KeptTypes DEF SetupBegin, Install, InstallResolver
  <2>2. CASE SetupRead(s)
    <3>1. LoadTypes'
      BY <1>0, <2>2, ReadTypes DEF SetupRead, Read, Loaders, LoadTypes
    <3> QED
      BY <2>2, <3>1, KeptTypes DEF SetupRead, Read
  <2>3. CASE SetupFails(s)
    <3>1. LoadTypes'
      BY <1>0, <2>3, ReadTypes DEF SetupFails, LoadFails, Loaders, LoadTypes
    <3>2. SetupTypes'
      BY <1>0, <2>3 DEF SetupFails, SetupTo, SetupTypes, install
    <3> QED
      BY <2>3, <3>1, <3>2, KeptTypes DEF SetupFails
  <2>4. CASE SetupApply(s)
    <3>1. LoadTypes'
      BY <2>4, AppliedTypes DEF SetupApply, Loaders
    <3>2. SetupTypes'
      BY <1>0, <2>4 DEF SetupApply, SetupTo, SetupTypes, install
    <3> QED
      BY <2>4, <3>1, <3>2, KeptTypes DEF SetupApply
  <2>5. CASE Restart(s)
    <3>1. CallTypes' /\ SetupTypes'
      BY <1>0, <2>5, Counted DEF Restart, Call, SetupTo, CallTypes, SetupTypes, install
    <3> QED
      BY <2>5, <3>1, KeptTypes DEF Restart
  <2>6. CASE StartCancels(s)
    <3>1. ControlTypes'
      BY <1>0, <2>6 DEF StartCancels, CancelWatcher, ControlTypes, Callers
    <3> QED
      BY <2>6, <3>1, KeptTypes DEF StartCancels, CancelWatcher
  <2>7. CASE StartReturns(s)
    <3>1. SetupTypes'
      BY <1>0, <2>7 DEF StartReturns, SetupTo, SetupTypes, install
    <3>2. CASE Launch(s)
      <4>1. WatchTypes'
        BY <1>0, <3>2, Counted DEF Launch, WatchTypes, Watchers, Seen, Unseen
      <4> QED
        BY <1>0, <2>7, <3>1, <3>2, <4>1, KeptTypes DEF StartReturns, Launch, ControlTypes
    <3>3. CASE UNCHANGED watch /\ watched' = NoProvider
      BY <1>0, <2>7, <3>1, <3>3, KeptTypes DEF StartReturns, ControlTypes
    <3> QED
      BY <2>7, <3>2, <3>3 DEF StartReturns
  <2>8. CASE UpdateRead(s)
    <3>1. LoadTypes'
      BY <1>0, <2>8, ReadTypes DEF UpdateRead, Loaders, LoadTypes
    <3>2. calls' \in 0 .. MaxCalls
      BY <1>0, <2>8, Counted DEF UpdateRead, CallTypes
    <3> QED
      BY <1>0, <2>8, <3>1, <3>2, KeptTypes DEF UpdateRead, CallTypes
  <2>9. CASE UpdateFails(s)
    <3>1. LoadTypes'
      BY <1>0, <2>9, ReadTypes DEF UpdateFails, LoadFails, Loaders, LoadTypes
    <3> QED
      BY <2>9, <3>1, KeptTypes DEF UpdateFails
  <2>10. CASE UpdateApply(s)
    BY <2>10, AppliedTypes, KeptTypes DEF UpdateApply, Loaders
  <2> QED
    BY <1>5, <2>1, <2>2, <2>3, <2>4, <2>5, <2>6, <2>7, <2>8, <2>9, <2>10 DEF Caller
<1>6. ASSUME NEW s \in Providers, Watcher(s)
      PROVE  Kept
  <2>1. CASE Exit(s)
    <3>1. LoadTypes'
      BY <1>0, <2>1, ReadTypes DEF Exit, Loaders, LoadTypes
    <3>2. WatchTypes'
      BY <1>0, <2>1 DEF Exit, Goto, WatchTypes, Watchers
    <3> QED
      BY <2>1, <3>1, <3>2, KeptTypes DEF Exit
  <2>2. CASE Watch(s)
    <3>1. seen' \in [Providers -> Seen]
      <4>1. [seen |-> TRUE, exists |-> ~Missing(at[s]), index |-> key[at[s]].index]
                \in [seen : BOOLEAN, exists : BOOLEAN, index : 0 .. MaxWrites + 1]
        BY <1>0 DEF Missing, StoreTypes, WatchTypes
      <4> QED
        BY <1>0, <2>2, <4>1 DEF Watch, WatchTypes, Seen
    <3>2. at' \in [Providers -> Paths]
      <4>1. at[s] < LastPath => at[s] + 1 \in Paths
        BY <1>0, Counted DEF Paths, WatchTypes
      <4> QED
        BY <1>0, <2>2, <4>1, Counted DEF Watch, WatchTypes
    <3>3. Watchers' /\ pending' \in [Providers -> BOOLEAN]
      BY <1>0, <2>2 DEF Watch, Goto, WatchTypes, Watchers
    <3> QED
      BY <2>2, <3>1, <3>2, <3>3, KeptTypes DEF Watch, WatchTypes
  <2>3. CASE WatchFails(s) \/ Wake(s)
    <3>1. WatchTypes'
      BY <1>0, <2>3, Counted DEF WatchFails, Wake, Goto, WatchTypes, Watchers
    <3> QED
      BY <2>3, <3>1, KeptTypes DEF WatchFails, Wake
  <2>4. CASE ReloadRead(s)
    <3>1. LoadTypes'
      BY <1>0, <2>4, ReadTypes DEF ReloadRead, Read, Loaders, LoadTypes
    <3> QED
      BY <2>4, <3>1, KeptTypes DEF ReloadRead, Read
  <2>5. CASE ReloadFails(s)
    <3>1. LoadTypes'
      BY <1>0, <2>5, ReadTypes DEF ReloadFails, LoadFails, Loaders, LoadTypes
    <3>2. WatchTypes'
      BY <1>0, <2>5 DEF ReloadFails, Goto, WatchTypes, Watchers
    <3> QED
      BY <2>5, <3>1, <3>2, KeptTypes DEF ReloadFails
  <2>6. CASE ReloadApply(s)
    <3>1. LoadTypes'
      BY <2>6, AppliedTypes DEF ReloadApply, Loaders
    <3>2. WatchTypes'
      BY <1>0, <2>6 DEF ReloadApply, Goto, WatchTypes, Watchers
    <3> QED
      BY <2>6, <3>1, <3>2, KeptTypes DEF ReloadApply
  <2> QED
    BY <1>6, <2>1, <2>2, <2>3, <2>4, <2>5, <2>6 DEF Watcher
<1>7. CASE UNCHANGED vars
  BY <1>7, KeptTypes DEF vars
<1> QED
  BY <1>1, <1>2, <1>3, <1>4, <1>5, <1>6, <1>7 DEF Next, Environment

\* Every variable keeps its type; no watcher asks for a key that is not one of
\* the store's (retry_consul.go, runRetryConfigBlockingReloadLoop).
THEOREM ReloadTypeCorrect == Spec => []TypeOK
BY TypesAtStart, TypesInductive, PTL DEF Spec

-----------------------------------------------------------------------------
(* What is served *)

\* What a load has read so far was valid and was held by its keys, and so was
\* what a provider that was set up serves.
ReadWell ==
  /\ \A p \in Paths : key[p].layer \in held[p]
  /\ \A l \in Loaders : \A s \in Providers : \A i \in 1 .. Len(reading[l][s]) :
       reading[l][s][i].valid /\ reading[l][s][i] \in held[i]

\* Who joins a watcher to start another one has been set up.
Starting == \A s \in Providers : holder = s => setup[s] = "start"

StoredInv == TypeOK /\ Starting /\ ReadWell /\ ServesWhatWasStored

LEMMA LengthOfRead ==
  ASSUME TypeOK, NEW l \in Loaders, NEW s \in Providers
  PROVE  Len(reading[l][s]) \in 0 .. LastPath
<1>1. reading[l][s] \in Reading
  BY DEF TypeOK
<1>2. PICK n \in 0 .. LastPath : reading[l][s] \in [1 .. n -> Layers \cup {NoLayer}]
  BY <1>1 DEF Reading
<1> QED
  BY <1>2, ReloadAssumption

\* A read keeps it: what it adds is valid and held now. 
LEMMA ReadKeeps ==
  ASSUME StoredInv, NEW l \in Loaders, NEW s \in Providers,
         key' = key, held' = held,
         \/ reading' = reading
         \/ reading' = [reading EXCEPT ![l][s] = <<>>]
         \/ /\ Len(reading[l][s]) < LastPath
            /\ \E layer \in Answers(Len(reading[l][s]) + 1) :
                 /\ layer.valid
                 /\ reading' = [reading EXCEPT ![l][s] = Append(@, layer)]
  PROVE  ReadWell'
<1>1. CASE reading' = reading \/ reading' = [reading EXCEPT ![l][s] = <<>>]
  <2>1. reading \in [Loaders -> [Providers -> Reading]]
    BY DEF StoredInv, TypeOK
  <2>2. \A k \in Loaders, q \in Providers : reading'[k][q] \in {<<>>, reading[k][q]}
    BY <1>1, <2>1
  <2>3. \A k \in Loaders, q \in Providers : \A i \in 1 .. Len(reading'[k][q]) :
            reading'[k][q] = reading[k][q]
    BY <2>2
  <2> QED
    BY <2>3 DEF StoredInv, ReadWell
<1>2. CASE /\ Len(reading[l][s]) < LastPath
           /\ \E layer \in Answers(Len(reading[l][s]) + 1) :
                /\ layer.valid
                /\ reading' = [reading EXCEPT ![l][s] = Append(@, layer)]
  <2> DEFINE n == Len(reading[l][s])
  <2>1. PICK layer \in Answers(n + 1) :
               layer.valid /\ reading' = [reading EXCEPT ![l][s] = Append(@, layer)]
    BY <1>2
  <2>2. n \in 0 .. LastPath /\ n + 1 \in Paths
    BY <1>2, LengthOfRead, ReloadAssumption DEF StoredInv, Paths
  <2>3. layer \in Layers \cup {NoLayer} /\ layer \in held[n + 1]
    BY <2>1, <2>2 DEF Answers, StoredInv, TypeOK, ReadWell
  <2>4. /\ Len(Append(reading[l][s], layer)) = n + 1
        /\ \A i \in 1 .. n : Append(reading[l][s], layer)[i] = reading[l][s][i]
        /\ Append(reading[l][s], layer)[n + 1] = layer
    <3>1. reading[l][s] \in UNION {[1 .. m -> Layers \cup {NoLayer}] : m \in 0 .. LastPath}
      BY DEF StoredInv, TypeOK, Reading
    <3> QED
      BY <1>2, <2>3, <3>1, ReadFurther
  <2>5. ASSUME NEW k \in Loaders, NEW q \in Providers, NEW i \in 1 .. Len(reading'[k][q])
        PROVE  reading'[k][q][i].valid /\ reading'[k][q][i] \in held[i]
    <3>1. CASE k = l /\ q = s
      <4>1. reading'[k][q] = Append(reading[l][s], layer)
        BY <2>1, <3>1 DEF StoredInv, TypeOK
      <4>2. i \in 1 .. n \/ i = n + 1
        BY <2>2, <2>4, <4>1
      <4> QED
        BY <2>1, <2>3, <2>4, <4>1, <4>2, <3>1 DEF StoredInv, ReadWell
    <3>2. CASE ~(k = l /\ q = s)
      <4>1. reading'[k][q] = reading[k][q]
        BY <2>1, <3>2 DEF StoredInv, TypeOK
      <4> QED
        BY <4>1 DEF StoredInv, ReadWell
    <3> QED
      BY <3>1, <3>2
  <2> QED
    BY <2>5 DEF StoredInv, ReadWell
<1> QED
  BY <1>1, <1>2

\* A load that is applied gives a configuration that was stored and is valid.
LEMMA ApplyServes ==
  ASSUME StoredInv, NEW l \in Loaders, NEW s \in Providers, Apply(l, s)
  PROVE  /\ Loadable(serving'[s])
         /\ \A p \in Paths : serving'[s][p] \in held[p]
         /\ \A q \in Providers \ {s} : serving'[q] = serving[q]
<1>1. serving'[s] = reading[l][s] /\ \A q \in Providers \ {s} : serving'[q] = serving[q]
  BY DEF Apply, StoredInv, TypeOK
<1>2. Complete(reading[l][s]) /\ Len(reading[l][s]) = LastPath
  BY DEF Apply, Merged
<1> QED
  BY <1>1, <1>2 DEF Loadable, Paths, StoredInv, ReadWell

\* What is served stays so while nothing is applied, and a setup that goes on
\* has been applied before.
LEMMA ServedKept ==
  ASSUME StoredInv, serving' = serving, \A p \in Paths : held[p] \subseteq held'[p],
         \A s \in Providers : setup'[s] \in {"none", "load"} \/ setup[s] \notin {"none", "load"}
  PROVE  ServesWhatWasStored'
BY DEF StoredInv, ServesWhatWasStored, Loadable, Complete, Given

LEMMA ServedAnew ==
  ASSUME StoredInv, NEW l \in Loaders, NEW s \in Providers, Apply(l, s), held' = held,
         \A q \in Providers \ {s} : setup'[q] = setup[q]
  PROVE  ServesWhatWasStored'
BY ApplyServes DEF StoredInv, ServesWhatWasStored, Loadable, Complete, Given

LEMMA StoredAtStart == Init => StoredInv
BY TypesAtStart, ReloadAssumption DEF Init, StoredInv, Starting, ReadWell, ServesWhatWasStored

LEMMA StartingKept ==
  ASSUME TypeOK, Starting, [Next]_vars
  PROVE  Starting'
<1>1. SetupTypes /\ \A s \in Providers : s \notin {NoProvider, Stopper}
  BY TypeParts, ReloadAssumption
<1>2. CASE StopCancels \/ StopReturns
  BY <1>1, <1>2 DEF StopCancels, CancelWatcher, StopReturns, Starting
<1>3. ASSUME NEW s \in Providers, StartCancels(s) \/ StartReturns(s)
      PROVE  Starting'
  BY <1>1, <1>3 DEF StartCancels, CancelWatcher, StartReturns, Starting
<1>4. ASSUME NEW s \in Providers, holder' = holder, setup' # setup,
             \/ SetupBegin(s) \/ SetupFails(s) \/ SetupApply(s)
             \/ Install(s) \/ InstallResolver(s) \/ Restart(s)
      PROVE  Starting'
  BY <1>1, <1>4 DEF SetupBegin, SetupFails, SetupApply, Install, InstallResolver, Restart,
                    SetupTo, SetupTypes, Starting
<1>5. ASSUME NEW s \in Providers,
             \/ SetupBegin(s) \/ SetupFails(s) \/ SetupApply(s)
             \/ Install(s) \/ InstallResolver(s) \/ Restart(s)
      PROVE  holder' = holder
  BY <1>5 DEF SetupBegin, SetupFails, SetupApply, Install, InstallResolver, Restart, control
<1>6. CASE UNCHANGED <<holder, setup>>
  BY <1>6 DEF Starting
<1>7. ASSUME NEW s \in Providers,
             \/ SetupRead(s) \/ UpdateRead(s) \/ UpdateFails(s) \/ UpdateApply(s) \/ Watcher(s)
      PROVE  UNCHANGED <<holder, setup>>
  BY <1>7 DEF SetupRead, Read, UpdateRead, UpdateFails, UpdateApply, Watcher, Exit, Watch,
              WatchFails, Wake, ReloadRead, ReloadFails, ReloadApply, control
<1>8. CASE Environment \/ UNCHANGED vars
  BY <1>6, <1>8 DEF Environment, Delete, Write, SetInterval, control, vars
<1> QED
  BY <1>2, <1>3, <1>4, <1>5, <1>6, <1>7, <1>8 DEF Next, Caller

LEMMA StoredInductive == StoredInv /\ [Next]_vars => StoredInv'
<1> SUFFICES ASSUME StoredInv, [Next]_vars
             PROVE  ReadWell' /\ ServesWhatWasStored'
  BY TypesInductive, StartingKept DEF StoredInv
<1> USE DEF consul, control, watch, install
<1>1. ASSUME NEW p \in Paths, Delete(p) \/ \E l \in Layers : Write(p, l)
      PROVE  ReadWell' /\ ServesWhatWasStored'
  <2>1. /\ \A q \in Paths : held[q] \subseteq held'[q]
        /\ \A q \in Paths : key'[q].layer \in held'[q]
    <3>1. StoreTypes
      BY TypeParts DEF StoredInv
    <3>2. PICK l \in Layers \cup {NoLayer} :
                 /\ \E i : key' = [key EXCEPT ![p] = [layer |-> l, index |-> i]]
                 /\ held' = [held EXCEPT ![p] = @ \cup {l}]
      BY <1>1 DEF Delete, Write
    <3>3. \A q \in Paths : IF q = p THEN key'[q].layer = l /\ held'[q] = held[q] \cup {l}
                                   ELSE key'[q] = key[q] /\ held'[q] = held[q]
      BY <3>1, <3>2 DEF StoreTypes
    <3> QED
      BY <3>3 DEF StoredInv, ReadWell
  <2>2. ReadWell'
    <3>1. \A l \in Loaders : \A s \in Providers : 1 .. Len(reading[l][s]) \subseteq Paths
      BY LengthOfRead, ReloadAssumption DEF StoredInv, Paths
    <3> QED
      BY <1>1, <2>1, <3>1 DEF Delete, Write, StoredInv, ReadWell
  <2> QED
    BY <1>1, <2>1, <2>2, ServedKept DEF Delete, Write, StoredInv
<1>2. CASE SetInterval \/ StopCancels \/ StopReturns \/ UNCHANGED vars
  <2>1. UNCHANGED <<key, held, reading, serving, setup>>
    BY <1>2 DEF SetInterval, StopCancels, CancelWatcher, StopReturns, vars
  <2> QED
    BY <2>1, ServedKept DEF StoredInv, ReadWell
<1>3. ASSUME NEW s \in Providers, Caller(s)
      PROVE  ReadWell' /\ ServesWhatWasStored'
  <2>1. CASE SetupBegin(s) \/ Install(s) \/ InstallResolver(s) \/ Restart(s)
             \/ StartCancels(s) \/ StartReturns(s)
    <3>1. UNCHANGED <<key, held, reading, serving>>
      BY <2>1 DEF SetupBegin, Install, InstallResolver, Restart, StartCancels, CancelWatcher,
                  StartReturns
    <3>2. SetupTypes
      BY TypeParts DEF StoredInv
    <3>3. \A q \in Providers : setup'[q] \in {"none", "load"} \/ setup[q] \notin {"none", "load"}
      <4>1. CASE SetupBegin(s) \/ Install(s) \/ InstallResolver(s) \/ Restart(s)
        BY <3>2, <4>1 DEF SetupBegin, Install, InstallResolver, Restart, SetupTo, SetupTypes
      <4>2. CASE StartCancels(s)
        BY <3>2, <4>2 DEF StartCancels, CancelWatcher, SetupTypes
      <4>3. CASE StartReturns(s)
        BY <3>2, <4>3 DEF StartReturns, SetupTo, SetupTypes, Starting, StoredInv
      <4> QED
        BY <2>1, <4>1, <4>2, <4>3
    <3> QED
      BY <3>1, <3>3, ServedKept DEF StoredInv, ReadWell
  <2>2. CASE SetupRead(s)
    <3>1. ReadWell'
      BY <2>2, ReadKeeps DEF SetupRead, Read, Loaders
    <3> QED
      BY <2>2, <3>1, ServedKept DEF SetupRead, Read
  <2>3. CASE SetupFails(s)
    <3>1. ReadWell'
      BY <2>3, ReadKeeps DEF SetupFails, LoadFails, Loaders
    <3>2. \A q \in Providers : setup'[q] \in {"none", "load"} \/ setup[q] \notin {"none", "load"}
      BY <2>3 DEF SetupFails, SetupTo, StoredInv, TypeOK
    <3> QED
      BY <2>3, <3>1, <3>2, ServedKept DEF SetupFails
  <2>4. CASE SetupApply(s)
    <3>1. ReadWell'
      BY <2>4, ReadKeeps DEF SetupApply, Apply, Loaders
    <3> QED
      BY <2>4, <3>1, ServedAnew DEF SetupApply, SetupTo, Loaders, StoredInv, TypeOK
  <2>5. CASE UpdateRead(s)
    <3>1. ReadWell'
      BY <2>5, ReadKeeps DEF UpdateRead, Loaders
    <3> QED
      BY <2>5, <3>1, ServedKept DEF UpdateRead
  <2>6. CASE UpdateFails(s)
    <3>1. ReadWell'
      BY <2>6, ReadKeeps DEF UpdateFails, LoadFails, Loaders
    <3> QED
      BY <2>6, <3>1, ServedKept DEF UpdateFails
  <2>7. CASE UpdateApply(s)
    <3>1. ReadWell'
      BY <2>7, ReadKeeps DEF UpdateApply, Apply, Loaders
    <3> QED
      BY <2>7, <3>1, ServedAnew DEF UpdateApply, Loaders
  <2> QED
    BY <1>3, <2>1, <2>2, <2>3, <2>4, <2>5, <2>6, <2>7 DEF Caller
<1>4. ASSUME NEW s \in Providers, Watcher(s)
      PROVE  ReadWell' /\ ServesWhatWasStored'
  <2>1. CASE Exit(s)
    <3>1. ReadWell'
      BY <2>1, ReadKeeps DEF Exit, Loaders
    <3> QED
      BY <2>1, <3>1, ServedKept DEF Exit
  <2>2. CASE Watch(s) \/ WatchFails(s) \/ Wake(s)
    <3>1. UNCHANGED <<key, held, reading, serving, setup>>
      BY <2>2 DEF Watch, WatchFails, Wake
    <3> QED
      BY <3>1, ServedKept DEF StoredInv, ReadWell
  <2>3. CASE ReloadRead(s)
    <3>1. ReadWell'
      BY <2>3, ReadKeeps DEF ReloadRead, Read, Loaders
    <3> QED
      BY <2>3, <3>1, ServedKept DEF ReloadRead, Read
  <2>4. CASE ReloadFails(s)
    <3>1. ReadWell'
      BY <2>4, ReadKeeps DEF ReloadFails, LoadFails, Loaders
    <3> QED
      BY <2>4, <3>1, ServedKept DEF ReloadFails
  <2>5. CASE ReloadApply(s)
    <3>1. ReadWell'
      BY <2>5, ReadKeeps DEF ReloadApply, Apply, Loaders
    <3> QED
      BY <2>5, <3>1, ServedAnew DEF ReloadApply, Loaders
  <2> QED
    BY <1>4, <2>1, <2>2, <2>3, <2>4, <2>5 DEF Watcher
<1> QED
  BY <1>1, <1>2, <1>3, <1>4 DEF Next, Environment

\* Whoever loads, and whatever is written between the reads of a load, what a
\* provider serves was valid and was stored (loadRetryConfigFileFromStoreContext).
THEOREM ServesWhatWasStoredAlways == Spec => []ServesWhatWasStored
<1>1. StoredInv => ServesWhatWasStored
  BY DEF StoredInv
<1> QED
  BY StoredAtStart, StoredInductive, <1>1, PTL DEF Spec
=============================================================================
