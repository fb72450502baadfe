SPECIFICATION WireSpec
CONSTANTS
    alice = alice
    bob = bob
    carol = carol
    payer = payer
    m1 = m1
    t1 = t1
    t2 = t2
    mf = mf
    tf = tf
    SystemProgram = SystemProgram
    Payloads <- WirePayloads
    Wallets <- MCWallets
    MultisigAddresses <- MCMultisigAddresses
    TransactionAddresses <- MCTransactionAddresses
    BumpSeeds <- MCBumpSeeds
    Instructions <- MCInstructions
    SignerSets <- MCAllSigners
    FeePayer = payer
    InitialAccounts <- MCInitialAccounts
    InitialLamports <- MCInitialLamports
    Rent = 1
    UsizeModulus = 65536
    SeqnoModulus = 65536
    MaxStackHeight = 5
    MaxBatch = 1
    MaxProposals = 2
    MaxOwnerSetSeqno = 2
    program = program
    ProgramId = program
    KeyBytes <- MCKeyBytes
    Nesting <- MCNesting
INVARIANTS
    AccountsAreWellFormed
    ClientsReadWhatIsStored
    InstructionsArrive
