SPECIFICATION FairSpec
CONSTANTS
    Users = {u1}
    FirstUser = u1
    Conversations = {c1}
    Owner <- OwnedByFirst
    MaxContext = 2
    Price = 2
    Prompts = {1}
    Slots = {s1, s2}
    NoRow = NoRow
    MaxTime = 2
    MaxDelay = 1
    MaxAnswers = 1
    MaxStops = 0
    MaxErrors = 0
    MaxLogins = 1
INVARIANTS
    NeverOverCredited
PROPERTIES
    EventsAreHandled
CHECK_DEADLOCK FALSE
