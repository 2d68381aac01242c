SPECIFICATION Spec
CONSTANTS
    Users = {u1, u2}
    Nonces <- NonceRange
    Lamports <- FundRange
    MaxNonce = 3
    NoLock = NoLock
    Machines = {m1}
    PayAmount = 1
    InitialFunds = 2
    UserReasons = {"UserRequest"}
    MaxRequests = 2
    MaxAdmin = 0
    MaxFaults = 0
    MaxSeconds = 1
PROPERTIES
    NoChargeWhileWorking
CHECK_DEADLOCK FALSE
