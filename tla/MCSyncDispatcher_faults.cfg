\* Safety while any database call may fail, with crashes and restarts.
CONSTANTS
    c1 = c1
    Callers = {c1}
    MaxRuns = 3
    Faults = {"preflight", "list", "start", "finish", "fetch"}
SPECIFICATION Spec
INVARIANTS
    StatusPanelAgreesWithHistory
    NoticesTellTheHistory
PROPERTIES
    HistoryIsAJournal
