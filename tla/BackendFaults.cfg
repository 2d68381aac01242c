SPECIFICATION Spec
CONSTANTS
    Users = {u1}
    FirstUser = u1
    Conversations = {c1}
    Owner <- OwnedByFirst
    MaxContext = 2
    Price = 2
    Prompts = {1}
    Slots = {s1, s2}
    NoRow = NoRow
    MaxTime = 2
    MaxDelay = 0
    MaxAnswers = 2
    MaxStops = 1
    MaxErrors = 1
    MaxLogins = 0
INVARIANTS
    BackendTypeOK
    LedgersAgree
    NeverOverCredited
    ChargesHaveAnswers
    AsksHaveAnswers
    ContextBounded
CHECK_DEADLOCK FALSE
