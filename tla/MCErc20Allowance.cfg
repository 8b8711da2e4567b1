SPECIFICATION Spec
CONSTANTS
    Accounts = {a1, a2}
    MaxBalance = 3
    SumOf <- MCSumOf
    MaxTokenId = 1
    Supplies = {0, 2}
    Values = {0, 1, 2}
    NoToken = NoToken
    MaxApproved = 2
INVARIANTS AllowanceIsUndrawn
