SPECIFICATION Spec
CONSTANTS
    MaxSet = 2
    MaxAgain = 2
    MaxRemaining = 1
INVARIANTS
    BuilderTypeOK
PROPERTIES
    AccountsArriveAsSet
    PrivilegesMatch
