\* Every configuration of a node, on chain specifications with up to two more
\* validators; a node that is done, has failed or was stopped takes no more
\* steps.
SPECIFICATION ProcessSpec
CONSTANTS
    NewSeeds = {"s1", "s2"}
    Endowment = 11529
    STASH = 100
    GenBalance = 90000000
    GenStake = 100
INVARIANTS TypeOK GenesisBuilds
PROPERTIES NetworkStartsLast VoterFailureStopsService
CHECK_DEADLOCK FALSE
