\* Two callers set up at the same time.
SPECIFICATION Spec
CONSTANTS
    p1 = p1
    p2 = p2
    Providers = {p1, p2}
    LastPath = 1
    Layers <- TwoLayers
    Modes <- BlockingOnly
    MaxWrites = 0
    MaxCalls = 0
INVARIANTS InstalledIsWatched
\* The process may be left with no watcher and nothing to call.
CHECK_DEADLOCK FALSE
