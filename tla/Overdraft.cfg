SPECIFICATION Spec
CONSTANTS
    Users = {u1}
    FirstUser = u1
    Conversations = {c1}
    Owner <- OwnedByFirst
    MaxContext = 2
    Price = 2
    Prompts = {0}
    Slots = {s1, s2}
    NoRow = NoRow
    MaxTime = 1
    MaxDelay = 0
    MaxAnswers = 2
    MaxStops = 0
    MaxErrors = 0
    MaxLogins = 0
INVARIANTS
    BalanceIsUnsigned
CHECK_DEADLOCK FALSE
