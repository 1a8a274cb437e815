\* A change between the first load and the first blocking query.
SPECIFICATION FairSpec
CONSTANTS
    p1 = p1
    p2 = p2
    Providers = {p1}
    LastPath = 2
    Layers <- SomeLayers
    Modes <- BlockingOnly
    MaxWrites = 1
    MaxCalls = 0
PROPERTIES Converges
\* The process may be left with no watcher and nothing to call.
CHECK_DEADLOCK FALSE
