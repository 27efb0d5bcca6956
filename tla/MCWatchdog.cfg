\* A request and a shutdown at once, two watches, two changes of files.
CONSTANTS
    h1 = h1
    Handlers = {h1}
    Dirs = {"conf"}
    Names = {"a.yaml", "b.yaml"}
    MaxWatches = 2
    MaxChanges = 2
SPECIFICATION Spec
INVARIANTS
    StopChannelClosedOnce
    WatchInForce
    EndedWatchIsSilent
PROPERTIES
    StopReturns
    ChangeIsReported
