SPECIFICATION FairSpec
CONSTANTS
    a = a
    b = b
    c = c
    m = m
    t1 = t1
    t2 = t2
    Wallets <- ThreeOwners
    MultisigAddresses <- MCMultisigs
    TransactionAddresses <- MCProposals
    BumpSeeds <- MCNonces
    SystemProgram <- MCSystemProgram
    Owners <- TwoOwners
    TheMultisig = m
    FirstOwners <- TwoOwners
    FirstThreshold = 1
    Nonce = 255
    Holder <- OnlyB
    Supporters = {a, b}
    Goal = t1
    Payloads <- VoidPayloads
    Proposers = {b}
    Cancellers = {b}
    Teams <- NoTeams
PROPERTY
    GoalIsReached
CHECK_DEADLOCK FALSE
