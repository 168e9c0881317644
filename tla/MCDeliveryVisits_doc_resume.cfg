CONSTANTS
    Calls = {c1}
    MaxTasks = 1
    MaxVisits = 1
    MaxRows = 1

SPECIFICATION Spec

PROPERTIES
    OnlyResumeEndsSuspension
