SPECIFICATION RuntimeSpec
CONSTANTS
    alice = alice
    bob = bob
    Accounts = {alice, bob}
    MaxBalance = 9
    ExistentialDeposit = 2
    Endowment <- MCEndowment
    SumOf <- MCSumOf
    MinimumPeriod = 1
    MomentMax = 2
    Pairs <- TwoWay
    Amounts = {2}
    SessionIds = {1}
    Durations = {1}
    MillisPerSecond = 1
    U32Modulus = 4
    U32Max = 3
    Values = {2}
    MaxNonce = 2
    Vouchers <- TwoWayVouchers
    NoChannel = NoChannel
    Countries = {0, 1}
    MIN_LOCK_AMT = 1
    NoDevice = NoDevice
    NoValue = NoValue
    Fee = 1
    U64Max = 2
    Idle = Idle
INVARIANTS Conservation DepositsHeld DepositsExact VotesFit PaidAsSigned
PROPERTIES SpentAsSigned ImplementsSessions
