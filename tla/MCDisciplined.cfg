SPECIFICATION DisciplinedSpec
CONSTANTS
    Accounts = {a1, a2, a3}
    MaxBalance = 9
    ExistentialDeposit = 2
    Endowment <- MCEndowment
    SumOf <- MCSumOf
    Countries = {0, 1}
    MIN_LOCK_AMT = 1
    Amounts = {1, 3}
    NoDevice = NoDevice
INVARIANTS ServersAreRegistered ListMatchesDevice
PROPERTIES DepositReturned ImplementsLifecycle
