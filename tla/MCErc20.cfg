SPECIFICATION Spec
CONSTANTS
    Accounts = {a1, a2}
    MaxBalance = 2
    SumOf <- MCSumOf
    MaxTokenId = 2
    Supplies = {0, 1}
    Values = {0, 1}
    NoToken = NoToken
    MaxApproved = 2
CONSTRAINT FewGrants
INVARIANTS TypeOK FreshToken SupplyAccounted DrawnWithinApproved
PROPERTIES TokensAreUnique
