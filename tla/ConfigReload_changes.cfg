\* One watcher follows two keys while it is started and stopped; both kinds of store.
SPECIFICATION FairSpec
CONSTANTS
    p1 = p1
    p2 = p2
    Providers = {p1}
    LastPath = 2
    Layers <- MixedLayers
    Modes <- BothModes
    MaxWrites = 2
    MaxCalls = 1
INVARIANTS TypeOK ServesWhatWasStored OneWatcher
PROPERTIES ChangeApplied PollingConverges JoinEnds
\* The process may be left with no watcher and nothing to call.
CHECK_DEADLOCK FALSE
