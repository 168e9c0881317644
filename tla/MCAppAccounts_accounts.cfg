CONSTANTS
    Phones = {p1}
    Calls = {c1, c2}
    MaxAttempts = 2
    DailyCap = 1
    ResendAge = 1
    CodeAge = 2
    HandleAge = 2
    MaxCodes = 3
    MaxAccounts = 2
    MaxTokens = 3
    MaxRequests = 2

SPECIFICATION Spec
SYMMETRY Symmetry

INVARIANTS
    HandleBuysOnce
    GuessesBounded
    SendsBounded
    OneLiveTokenPerFamily
    OneLiveAccountPerNumber
PROPERTIES
    ClosingEndsSessions
