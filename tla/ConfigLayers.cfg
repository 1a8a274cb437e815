\* Two layers, and a request resolved under what they make.
SPECIFICATION Spec
CONSTANTS
    Files <- LayerFiles
    RequestsSeen <- LayerRequests
    Clients <- SomeClients
    DefaultTimeout = 2
    DefaultInitial = 1
    DefaultMaxBackoff = 2
INVARIANTS MergeAccepted PolicyLayered DownstreamMostSpecific ClassAgreed
\* A request is resolved once.
CHECK_DEADLOCK FALSE
