\* Rows are opened and closed without fault: accounting, shutdown, progress.
CONSTANTS
    c1 = c1
    c2 = c2
    Callers = {c1, c2}
    MaxRuns = 2
    Faults = {"list", "fetch"}
SPECIFICATION Spec
INVARIANTS
    AcceptedIsAccountedFor
    RunningRowIsOwned
PROPERTIES
    GracefulExitFinishesTheRun
    ShutdownCompletes
    AcceptedIsSettled
