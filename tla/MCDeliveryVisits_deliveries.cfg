CONSTANTS
    Calls = {c1, c2}
    MaxTasks = 2
    MaxVisits = 1
    MaxRows = 2

SPECIFICATION Spec
SYMMETRY Symmetry
CONSTRAINT FewRecords

INVARIANTS
    CompletedDocumented
    SuspendedIdle
PROPERTIES
    VisitsKeepToPath
    DeliveredWhileAwaited
