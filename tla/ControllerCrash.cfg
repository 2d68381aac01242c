SPECIFICATION Spec
CONSTANTS
    Users = {u1, u2}
    Nonces <- NonceRange
    Lamports <- FundRange
    MaxNonce = 3
    NoLock = NoLock
    Machines = {m1}
    PayAmount = 1
    InitialFunds = 3
    UserReasons = {"UserRequest"}
    MaxRequests = 3
    MaxAdmin = 1
    MaxFaults = 2
    MaxSeconds = 1
SYMMETRY UserSymmetry
INVARIANTS
    ControllerTypeOK
    CreditsArePaid
    LossesAreFaults
    OneSessionPerSignature
    NeverWorkingAfterStop
CHECK_DEADLOCK FALSE
