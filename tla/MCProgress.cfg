SPECIFICATION FairSpec
CONSTANTS
    a = a
    b = b
    c = c
    m = m
    t1 = t1
    t2 = t2
    Wallets <- ThreeOwners
    MultisigAddresses <- MCMultisigs
    TransactionAddresses <- MCProposals
    BumpSeeds <- MCNonces
    SystemProgram <- MCSystemProgram
    Owners <- ThreeOwners
    TheMultisig = m
    FirstOwners <- ThreeOwners
    FirstThreshold = 2
    Nonce = 255
    Holder <- OnlyC
    Supporters = {a, b}
    Goal = t1
    Payloads <- RaisePayloads
    Proposers = {c}
    Cancellers = {c}
    Teams <- NoTeams
PROPERTY
    GoalIsReached
CHECK_DEADLOCK FALSE
