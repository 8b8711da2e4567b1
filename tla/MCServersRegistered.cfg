SPECIFICATION Spec
CONSTANTS
    Accounts = {a1, a2}
    MaxBalance = 6
    ExistentialDeposit = 2
    Endowment <- MCEndowment
    SumOf <- MCSumOf
    Countries = {0, 1, 2}
    MIN_LOCK_AMT = 1
    Amounts = {0, 1, 2, 3}
    NoDevice = NoDevice
SYMMETRY AccountSymmetry
INVARIANTS ServersAreRegistered
