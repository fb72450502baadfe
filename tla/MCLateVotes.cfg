SPECIFICATION Spec
CONSTANTS
    a = a
    b = b
    c = c
    m = m
    t1 = t1
    t2 = t2
    Wallets <- ThreeOwners
    MultisigAddresses <- MCMultisigs
    TransactionAddresses <- MCProposals
    BumpSeeds <- MCNonces
    SystemProgram <- MCSystemProgram
    Owners <- TwoOwners
    TheMultisig = m
    FirstOwners <- TwoOwners
    FirstThreshold = 2
    Nonce = 255
    Holder <- AAndB
    Supporters = {a, b}
    Goal = t1
    Payloads <- SafetyPayloads
    Proposers = {a, b}
    Cancellers = {a, b}
    Teams <- NoTeams
INVARIANTS
    ClientsTypeOK
    VotesAreInformed
CHECK_DEADLOCK FALSE
