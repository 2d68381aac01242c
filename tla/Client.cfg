SPECIFICATION ClientSpec
CONSTANTS
    Users = {u1}
    Operators = {op}
    MaxNonce = 2
    MaxLamports = 2
    MaxTime = 1
    InitialWallet = 8
    RentMin = 1
    GlobalRent = 1
    UserRent = 1
    LockRent = 1
    NoGlobal = NoGlobal
    NoAccount = NoAccount
    NoLock = NoLock
    Calls = {c1, c2, c3}
    Bot = op
    Amounts = {2}
    Treasuries = {u1}
    Deposited = 5
    MaxU64 = 7
    Nobody = Nobody
INVARIANTS
    ClientTypeOK
    LandsOnce
    LocksAreFound
PROPERTIES
    EligibleIsCovered
SYMMETRY CallsAreAlike
CHECK_DEADLOCK FALSE
