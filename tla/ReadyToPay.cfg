SPECIFICATION PageFairSpec
CONSTANTS
    Users = {u1, u2}
    Nonces <- NonceRange
    Lamports <- FundRange
    MaxNonce = 2
    NoLock = NoLock
    Machines = {m1}
    PayAmount = 1
    InitialFunds = 2
    UserReasons = {"UserRequest"}
    MaxRequests = 2
    MaxAdmin = 0
    MaxFaults = 0
    MaxSeconds = 1
    MaxPresses = 2
    MaxResets = 1
PROPERTIES
    ReadyToPay
CHECK_DEADLOCK FALSE
