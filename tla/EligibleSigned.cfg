SPECIFICATION ClientSpec
CONSTANTS
    Users = {u1, u2}
    Operators = {op}
    MaxNonce = 2
    MaxLamports = 1
    MaxTime = 1
    InitialWallet = 5
    RentMin = 1
    GlobalRent = 1
    UserRent = 1
    LockRent = 1
    NoGlobal = NoGlobal
    NoAccount = NoAccount
    NoLock = NoLock
    Calls = {c1}
    Bot = op
    Amounts = {1}
    Treasuries = {u1}
    Deposited = 2
    MaxU64 = 7
    Nobody = Nobody
INVARIANTS
    EligibleHasSigned
CHECK_DEADLOCK FALSE
