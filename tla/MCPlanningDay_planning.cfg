CONSTANTS
    Clients = {k1}
    Tasks = {t1}
    ClientOf <- TaskClients
    Operators = {o1, o2}
    NoOne = NoOne
    Slots = {s1}
    Calls = {c1, c2}
    Job = Job
    LastDay = 1
    MaxVisits = 2

SPECIFICATION FairSpec

INVARIANTS
    OneVisitPerSlot
    ContactHeldByOne
    ClosedDayIsSettled
    ScheduledHasVisit
PROPERTIES
    BlockedIsNotBooked
    ClosedStaysClosed
    PastDaysSettle
