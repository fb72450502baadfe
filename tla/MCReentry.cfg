SPECIFICATION Spec
CONSTANTS
    alice = alice
    bob = bob
    payer = payer
    m1 = m1
    t1 = t1
    t2 = t2
    SystemProgram = SystemProgram
    Wallets <- MCWallets
    MultisigAddresses <- MCMultisigAddresses
    TransactionAddresses <- MCTransactionAddresses
    BumpSeeds <- MCBumpSeeds
    Instructions <- MCInstructions
    SignerSets <- MCSignerSets
    FeePayer = payer
    InitialAccounts <- MCInitialAccounts
    InitialLamports <- MCInitialLamports
    Rent = 1
    UsizeModulus = 65536
    SeqnoModulus = 65536
    MaxStackHeight = 5
    MaxBatch = 1
    MaxProposals = 3
    MaxOwnerSetSeqno = 1
INVARIANT
    ExecutedAtMostOnce
