SPECIFICATION Spec
CONSTANTS
    alice = alice
    bob = bob
    Accounts = {alice, bob}
    MaxBalance = 6
    ExistentialDeposit = 2
    Endowment <- MCEndowment
    SumOf <- MCSumOf
    MinimumPeriod = 1
    MomentMax = 3
    Pairs <- OneWay
    Amounts = {0, 2, 3}
    SessionIds = {1, 2}
    Durations = {1, 2}
    MillisPerSecond = 2
    U32Modulus = 4
    MaxNonce = 2
    Vouchers <- LiveVouchers
    NoChannel = NoChannel
INVARIANTS NoEarlyExpiry
