SPECIFICATION Spec
CONSTANTS
    Accounts = {a1, a2}
    Calls = {c}
    BlockHashCount = 5
    MaxBlock = 10
    MaxIndex = 2
    MaxSigned = 2
INVARIANTS TypeOK OncePerLife ExecutedInEra NotRefusedEarly WorkerCanSign
