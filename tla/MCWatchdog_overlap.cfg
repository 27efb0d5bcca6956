\* Two requests at once, the second of which does not see the first's watch.
CONSTANTS
    h1 = h1
    h2 = h2
    Handlers = {h1, h2}
    Dirs = {"conf"}
    Names = {"a.yaml", "b.yaml"}
    MaxWatches = 2
    MaxChanges = 0
SPECIFICATION Spec
INVARIANT AnyExistingWatchIsStopped
SYMMETRY HandlerSymmetry
