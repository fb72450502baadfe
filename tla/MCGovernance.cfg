SPECIFICATION Spec
CONSTANTS
    alice = alice
    bob = bob
    carol = carol
    payer = payer
    m1 = m1
    t1 = t1
    t2 = t2
    mf = mf
    tf = tf
    SystemProgram = SystemProgram
    Payloads <- GovernancePayloads
    Wallets <- MCWallets
    MultisigAddresses <- MCMultisigAddresses
    TransactionAddresses <- MCTransactionAddresses
    BumpSeeds <- MCBumpSeeds
    Instructions <- MCInstructions
    SignerSets <- MCSignerSets
    FeePayer = payer
    InitialAccounts <- MCInitialAccounts
    InitialLamports <- MCInitialLamports
    Rent = 1
    UsizeModulus = 65536
    SeqnoModulus = 65536
    MaxStackHeight = 5
    MaxBatch = 1
    MaxProposals = 3
    MaxOwnerSetSeqno = 2
INVARIANTS
    TypeOK
    MultisigWellFormed
    BitsAreSignatures
    CancellableForever
    ExecutionHasQuorum
    ExecutedAtMostOnce
PROPERTIES
    GovernedByExecution
    OwnerSetsAreNumbered
    RentIsReturned
