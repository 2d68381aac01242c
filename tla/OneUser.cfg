SPECIFICATION Spec
CONSTANTS
    Users = {u1}
    Operators = {op}
    MaxNonce = 2
    MaxLamports = 5
    MaxTime = 1
    InitialWallet = 5
    RentMin = 2
    GlobalRent = 1
    UserRent = 1
    LockRent = 1
    NoGlobal = NoGlobal
    NoAccount = NoAccount
    NoLock = NoLock
INVARIANTS
    TypeOK
    LockedIsBacked
    Solvent
    EveryLockSettleable
    FreshLockAddress
    LamportsConserved
PROPERTIES
    NonceUsedOnce
    ChargesAreAuthorised
    ImplementsEscrow
