------------------------------ MODULE Multisig ------------------------------
(***************************************************************************)
(* The multisig program on one ledger: its eight instruction handlers, run *)
(* inside Solana transactions that hold several instructions and that      *)
(* either commit as a whole or leave the ledger as it was.                 *)
(*                                                                         *)
(* A handler is one action.  Its guard is the handler's checks in the      *)
(* order of the code; where a check fails the handler returns an error,    *)
(* which ends the whole Solana transaction: the action is not enabled and  *)
(* Abort is.  ExecuteTransaction is the exception: it calls the            *)
(* instructions stored in the proposal, which may be instructions of this  *)
(* program, so it validates, leaves a frame on the call stack, and         *)
(* FinishExecution closes the proposal once every stored instruction has   *)
(* been processed, each by the action of its own handler.                  *)
(*                                                                         *)
(* An operator whose name has an underscore, as PaddingLen_Fresh, is the   *)
(* operator after it with a fault in it; no action uses it.                *)
(***************************************************************************)
EXTENDS MultisigInstructions, FiniteSets, SequencesExt

CONSTANTS
    Instructions,     \* every instruction a client may send or a proposal hold
    SignerSets,       \* the sets of key pairs that sign one Solana transaction
    FeePayer,         \* the wallet that pays for the Solana transactions
    InitialAccounts,  \* the accounts before the first transaction
    InitialLamports,  \* the balance of every address before it
    Rent,             \* the rent-exempt minimum of an account
    UsizeModulus,     \* 2^64
    SeqnoModulus,     \* 2^32
    MaxStackHeight,   \* how many invocations deep the runtime goes: 5
    MaxBatch,         \* bound: instructions in one Solana transaction
    MaxProposals,     \* bound: proposals ever made
    MaxOwnerSetSeqno  \* bound: owner changes of one multisig

VARIABLES
    accounts,   \* what each address holds
    lamports,   \* the balance of each address
    proposals,  \* history: how many were made, the name of the next one
    executed,   \* history: the executed proposals, in order of completion
    committed,  \* the ledger as the last committed transaction left it
    batch,      \* the Solana transaction being processed
    stack       \* the executions of proposals in progress, outermost first

ledger == [accounts |-> accounts, lamports |-> lamports,
           proposals |-> proposals, executed |-> executed]

vars == <<accounts, lamports, proposals, executed, committed, batch, stack>>

-----------------------------------------------------------------------------
(* Accounts.  `program` is the account's owning program; accounts that     *)
(* another program owns may hold data of the same layout.                  *)

Programs == {"multisig", "foreign"}

EmptyAccount == [kind |-> "none", program |-> "system"]

(* Account data of struct Multisig.  `padding` is the length of the zeroes *)
(* that fill the account, `size` the length the account was created with.  *)
MultisigAccount ==
    [kind : {"multisig"}, program : Programs, owners : Seq(Addresses),
     threshold : U8, nonce : U8, owner_set_seqno : Nat, padding : Nat,
     size : Nat]

(* Account data of struct Transaction.  The last three fields are history: *)
(* the name of this proposal, the owners of its multisig when it was made, *)
(* and who has approved it with a signature since.                         *)
TransactionAccount ==
    [kind : {"transaction"}, program : Programs, multisig : Addresses,
     instructions : Seq(Instructions), signers : Seq(BOOLEAN),
     owner_set_seqno : Nat, id : Nat, owners : Seq(Addresses),
     approvers : SUBSET Addresses]

Account == {EmptyAccount} \cup MultisigAccount \cup TransactionAccount

PubkeyBytes == 32

AsU8(n) == n % 256

(* Multisig::len, from the number of owners and the length of the padding. *)
MultisigLen(n, padding) == 4 + PubkeyBytes * n + 1 + 1 + 4 + 4 + padding

(* checked_deserialize: the data is a Multisig, to the last byte.          *)
IsMultisig(a) ==
    /\ a.kind = "multisig"
    /\ MultisigLen(Len(a.owners), a.padding) = a.size

IsTransaction(a) == a.kind = "transaction"

ProgramMultisigs ==
    {m \in Addresses : accounts[m].kind = "multisig"
                       /\ accounts[m].program = "multisig"}

ProgramTransactions ==
    {t \in Addresses : accounts[t].kind = "transaction"
                       /\ accounts[t].program = "multisig"}

IsPosition(owners, key, k) ==
    /\ k \in DOMAIN owners
    /\ owners[k] = key
    /\ \A j \in 1 .. k - 1 : owners[j] # key

ApprovalCount_Everyone(signers) == AsU8(Len(signers))

ApprovalCount(signers) == AsU8(Cardinality({k \in DOMAIN signers : signers[k]}))

-----------------------------------------------------------------------------
(* The calls the runtime can make next, each with the accounts that are    *)
(* signers and the accounts that are writable in it.  A call of the Solana *)
(* transaction itself has the transaction's signers.  A call made by an    *)
(* execution has the signers its stored instruction marks, which must be   *)
(* signers of the execution, and the multisig's program address, which     *)
(* execute_transaction marks and invoke_signed vouches for.                *)

Idle == [signers |-> {}, left |-> 0]

Running == batch # Idle

TransactionCalls ==
    IF stack = << >> /\ batch.left > 0
      THEN {[ix |-> i, signers |-> batch.signers,
             writable |-> i.writable \cup {FeePayer}] :
                i \in {j \in Instructions : j.signed \subseteq batch.signers}}
      ELSE {}

InvokeSigned ==
    IF stack # << >> /\ Len(stack) < MaxStackHeight /\ Last(stack).rest # << >>
      THEN LET frame == Last(stack)
               i     == Head(frame.rest)
           IN  {c \in {[ix |-> i, signers |-> i.signed \cup {frame.pda},
                        writable |-> i.writable]} :
                    i.signed \subseteq frame.signers \cup {frame.pda}}
      ELSE {}

Calls(op) == {c \in TransactionCalls \cup InvokeSigned : c.ix.op = op}

(* The caller goes on with its next instruction.                           *)
RestOfBatch ==
    IF stack = << >> THEN [batch EXCEPT !.left = @ - 1] ELSE batch

RestOfStack ==
    IF stack = << >> THEN stack
    ELSE [stack EXCEPT ![Len(stack)].rest = Tail(@)]

Return == batch' = RestOfBatch /\ stack' = RestOfStack /\ UNCHANGED committed

(* system_instruction::create_account, one invocation deeper: the payer    *)
(* and the new account have signed, the new account is untouched, and the  *)
(* payer, an account without data, has the rent.                           *)
CreateAccount(c, new, data) ==
    /\ Len(stack) + 2 <= MaxStackHeight
    /\ {c.ix.payer, new} \subseteq c.signers \cap c.writable
    /\ accounts[new] = EmptyAccount
    /\ lamports[new] = 0
    /\ accounts[c.ix.payer] = EmptyAccount
    /\ lamports[c.ix.payer] >= Rent
    /\ accounts' = [accounts EXCEPT ![new] = data]
    /\ lamports' = [lamports EXCEPT ![c.ix.payer] = @ - Rent, ![new] = Rent]

-----------------------------------------------------------------------------
(* Checks several handlers share.                                          *)

UniqueOwners(owners) ==
    \A i \in DOMAIN owners : \A j \in i + 1 .. Len(owners) :
        owners[i] # owners[j]

ValidateThreshold(threshold, owners) ==
    threshold > 0 /\ threshold <= AsU8(Len(owners))

ValidatePda_AnySigner(signer, m, nonce) == nonce \in BumpSeeds

ValidatePda(signer, m, nonce) == nonce \in BumpSeeds /\ signer = Pda(m, nonce)

ValidateSigner_Unsigned(c, ms) ==
    ValidatePda(c.ix.multisig_signer, c.ix.multisig, ms.nonce)

ValidateSigner(c, ms) ==
    /\ ValidatePda(c.ix.multisig_signer, c.ix.multisig, ms.nonce)
    /\ c.ix.multisig_signer \in c.signers

ValidateOwners(ms, owners) ==
    /\ UniqueOwners(owners)
    /\ owners # << >>
    /\ Len(owners) * PubkeyBytes <= Len(ms.owners) * PubkeyBytes + ms.padding

OwnedByProgram_Unchecked(addresses) == TRUE

OwnedByProgram(addresses) == \A a \in addresses : accounts[a].program = "multisig"

(* executor.is_signer && multisig.owners.contains(executor.key)            *)
ValidExecutor(c, ms) ==
    c.ix.executor \in c.signers /\ Contains(ms.owners, c.ix.executor)

ValidRefundee_Itself(c) == c.ix.refundee \in c.writable

ValidRefundee(c) ==
    c.ix.refundee # c.ix.transaction /\ c.ix.refundee \in c.writable

-----------------------------------------------------------------------------
(* create_multisig *)

ValidateCreate(c) ==
    /\ c.ix.system_program = SystemProgram
    /\ UniqueOwners(c.ix.owners)
    /\ ValidateThreshold(c.ix.threshold, c.ix.owners)
    /\ ValidatePda(c.ix.multisig_signer, c.ix.multisig, c.ix.nonce)

NewMultisig(ix) ==
    [kind |-> "multisig", program |-> "multisig", owners |-> ix.owners,
     threshold |-> ix.threshold, nonce |-> ix.nonce, owner_set_seqno |-> 0,
     padding |-> 0, size |-> MultisigLen(Len(ix.owners), 0)]

CreateMultisig ==
    \E c \in Calls("create_multisig") :
        /\ ValidateCreate(c)
        /\ CreateAccount(c, c.ix.multisig, NewMultisig(c.ix))
        /\ UNCHANGED <<proposals, executed>>
        /\ Return

(* propose_transaction *)

ValidatePropose(c) ==
    /\ OwnedByProgram({c.ix.multisig})
    /\ c.ix.system_program = SystemProgram
    /\ c.ix.proposer \in c.signers
    /\ c.ix.instructions # << >>

NewTransaction_Approved(c, ms, k) ==
    [kind |-> "transaction", program |-> "multisig", multisig |-> c.ix.multisig,
     instructions |-> c.ix.instructions,
     signers |-> [j \in 1 .. Len(ms.owners) |-> j >= k],
     owner_set_seqno |-> ms.owner_set_seqno, id |-> proposals,
     owners |-> ms.owners, approvers |-> {c.ix.proposer} \cap c.signers]

(* The proposer's approval is the first; owner k is the proposer.          *)
NewTransaction(c, ms, k) ==
    [kind |-> "transaction", program |-> "multisig", multisig |-> c.ix.multisig,
     instructions |-> c.ix.instructions,
     signers |-> [j \in 1 .. Len(ms.owners) |-> j = k],
     owner_set_seqno |-> ms.owner_set_seqno, id |-> proposals,
     owners |-> ms.owners, approvers |-> {c.ix.proposer} \cap c.signers]

ProposeTransaction ==
    \E c \in Calls("propose_transaction") :
        LET ms == accounts[c.ix.multisig]
        IN  /\ ValidatePropose(c)
            /\ IsMultisig(ms)
            /\ proposals < MaxProposals
            /\ \E k \in DOMAIN ms.owners :
                   /\ IsPosition(ms.owners, c.ix.proposer, k)
                   /\ CreateAccount(c, c.ix.transaction, NewTransaction(c, ms, k))
            /\ proposals' = proposals + 1
            /\ UNCHANGED executed
            /\ Return

(* approve_transaction *)

ValidateApprove_Unsigned(c, ms, tx) ==
    /\ OwnedByProgram({c.ix.multisig, c.ix.transaction})
    /\ ms.owner_set_seqno = tx.owner_set_seqno
    /\ c.ix.transaction \in c.writable
    /\ tx.multisig = c.ix.multisig

ValidateApprove(c, ms, tx) ==
    /\ OwnedByProgram({c.ix.multisig, c.ix.transaction})
    /\ ms.owner_set_seqno = tx.owner_set_seqno
    /\ c.ix.approver \in c.signers
    /\ c.ix.transaction \in c.writable
    /\ tx.multisig = c.ix.multisig

(* Owner k approves; indexing past the end of signers panics.              *)
Approved(c, tx, k) ==
    [tx EXCEPT !.signers[k] = TRUE,
               !.approvers = @ \cup ({c.ix.approver} \cap c.signers)]

ApproveTransaction ==
    \E c \in Calls("approve_transaction") :
        LET ms == accounts[c.ix.multisig]
            tx == accounts[c.ix.transaction]
        IN  /\ IsMultisig(ms)
            /\ IsTransaction(tx)
            /\ ValidateApprove(c, ms, tx)
            /\ \E k \in DOMAIN ms.owners \cap DOMAIN tx.signers :
                   /\ IsPosition(ms.owners, c.ix.approver, k)
                   /\ accounts' = [accounts EXCEPT
                                     ![c.ix.transaction] = Approved(c, tx, k)]
            /\ UNCHANGED <<lamports, proposals, executed>>
            /\ Return

-----------------------------------------------------------------------------
(* close_account, and what the runtime allows the program: only accounts   *)
(* it owns may be debited or resized, except that doing neither (to an     *)
(* account that is empty already) passes.                                  *)
CloseAccount_Left(t, refundee) == UNCHANGED <<accounts, lamports>>

CloseAccount(t, refundee) ==
    /\ \/ accounts[t].program = "multisig"
       \/ accounts[t] = EmptyAccount /\ lamports[t] = 0
    /\ LET cleared == [lamports EXCEPT ![t] = 0]
       IN  lamports' = [cleared EXCEPT ![refundee] = @ + lamports[t]]
    /\ accounts' = [accounts EXCEPT ![t] = EmptyAccount]

(* execute_transaction *)

ValidateExecute_AnyOwnerSet(c, ms, tx) ==
    /\ OwnedByProgram({c.ix.multisig, c.ix.transaction})
    /\ IsMultisig(ms)
    /\ IsTransaction(tx)
    /\ ValidExecutor(c, ms)
    /\ ValidatePda(c.ix.multisig_signer, c.ix.multisig, ms.nonce)
    /\ c.ix.transaction \in c.writable
    /\ tx.multisig = c.ix.multisig
    /\ ValidRefundee(c)
    /\ ApprovalCount(tx.signers) >= ms.threshold

ValidateExecute(c, ms, tx) ==
    /\ OwnedByProgram({c.ix.multisig, c.ix.transaction})
    /\ IsMultisig(ms)
    /\ IsTransaction(tx)
    /\ ValidExecutor(c, ms)
    /\ ms.owner_set_seqno = tx.owner_set_seqno
    /\ ValidatePda(c.ix.multisig_signer, c.ix.multisig, ms.nonce)
    /\ c.ix.transaction \in c.writable
    /\ tx.multisig = c.ix.multisig
    /\ ValidRefundee(c)
    /\ ApprovalCount(tx.signers) >= ms.threshold

(* What a running execution keeps: it works on the copy of the proposal it *)
(* deserialized.  The last five fields are history.                        *)
Frame(c, ms, tx) ==
    [multisig |-> c.ix.multisig, pda |-> Pda(c.ix.multisig, ms.nonce),
     transaction |-> c.ix.transaction, refundee |-> c.ix.refundee,
     rest |-> tx.instructions, signers |-> c.signers,
     id |-> tx.id, instructions |-> tx.instructions, approvers |-> tx.approvers,
     owners |-> ms.owners, threshold |-> ms.threshold]

ExecuteTransaction ==
    \E c \in Calls("execute_transaction") :
        LET ms == accounts[c.ix.multisig]
            tx == accounts[c.ix.transaction]
        IN  /\ ValidateExecute(c, ms, tx)
            /\ batch' = RestOfBatch
            /\ stack' = Append(RestOfStack, Frame(c, ms, tx))
            /\ UNCHANGED <<accounts, lamports, proposals, executed, committed>>

(* The stored instructions are processed in order, each has to succeed.    *)
Complete_Ignored(frame) == TRUE

Complete(frame) == frame.rest = << >>

(* All stored instructions have succeeded: the account that is now at the  *)
(* proposal's address is closed, and the call returns.                     *)
FinishExecution ==
    /\ stack # << >>
    /\ LET frame == Last(stack)
       IN  /\ Complete(frame)
           /\ CloseAccount(frame.transaction, frame.refundee)
           /\ executed' = Append(executed, [id |-> frame.id,
                                            instructions |-> frame.instructions])
    /\ stack' = Front(stack)
    /\ UNCHANGED <<proposals, committed, batch>>

(* cancel_transaction *)

ValidateCancel_Current(c, ms, tx) ==
    /\ OwnedByProgram({c.ix.multisig, c.ix.transaction})
    /\ IsMultisig(ms)
    /\ IsTransaction(tx)
    /\ ValidExecutor(c, ms)
    /\ ms.owner_set_seqno = tx.owner_set_seqno
    /\ tx.multisig = c.ix.multisig
    /\ c.ix.transaction \in c.writable
    /\ ValidRefundee(c)

ValidateCancel_AnyMultisig(c, ms, tx) ==
    /\ OwnedByProgram({c.ix.multisig, c.ix.transaction})
    /\ IsMultisig(ms)
    /\ IsTransaction(tx)
    /\ ValidExecutor(c, ms)
    /\ ms.owner_set_seqno >= tx.owner_set_seqno
    /\ c.ix.transaction \in c.writable
    /\ ValidRefundee(c)

ValidateCancel(c, ms, tx) ==
    /\ OwnedByProgram({c.ix.multisig, c.ix.transaction})
    /\ IsMultisig(ms)
    /\ IsTransaction(tx)
    /\ ValidExecutor(c, ms)
    /\ ms.owner_set_seqno >= tx.owner_set_seqno
    /\ tx.multisig = c.ix.multisig
    /\ c.ix.transaction \in c.writable
    /\ ValidRefundee(c)

CancelTransaction ==
    \E c \in Calls("cancel_transaction") :
        /\ ValidateCancel(c, accounts[c.ix.multisig], accounts[c.ix.transaction])
        /\ CloseAccount(c.ix.transaction, c.ix.refundee)
        /\ UNCHANGED <<proposals, executed>>
        /\ Return

-----------------------------------------------------------------------------
(* The length of the new padding: usize arithmetic, whose difference wraps *)
(* when the number of owners grows.                                        *)
PaddingLen_Fresh(padding, old, new) == PubkeyBytes * (old - new)

PaddingLen(padding, old, new) ==
    (padding + PubkeyBytes * ((old - new) % UsizeModulus)) % UsizeModulus

(* execute_set_owners *)
WithOwners_KeepThreshold(ms, owners) ==
    [ms EXCEPT
       !.padding = PaddingLen(@, Len(ms.owners), Len(owners)),
       !.owners = owners,
       !.owner_set_seqno = (@ + 1) % SeqnoModulus]

WithOwners_KeepSeqno(ms, owners) ==
    [ms EXCEPT
       !.padding = PaddingLen(@, Len(ms.owners), Len(owners)),
       !.owners = owners,
       !.threshold = IF AsU8(Len(owners)) < @ THEN AsU8(Len(owners)) ELSE @]

WithOwners(ms, owners) ==
    [ms EXCEPT
       !.padding = PaddingLen(@, Len(ms.owners), Len(owners)),
       !.owners = owners,
       !.owner_set_seqno = (@ + 1) % SeqnoModulus,
       !.threshold = IF AsU8(Len(owners)) < @ THEN AsU8(Len(owners)) ELSE @]

(* execute_change_threshold *)
WithThreshold(ms, threshold) == [ms EXCEPT !.threshold = threshold]

(* The end of the three handlers that change a multisig: its data has to   *)
(* fit the account, which has to be writable.                              *)
Serialize(c, ms) ==
    /\ c.ix.multisig \in c.writable
    /\ MultisigLen(Len(ms.owners), ms.padding) <= ms.size
    /\ accounts' = [accounts EXCEPT ![c.ix.multisig] = ms]
    /\ UNCHANGED <<lamports, proposals, executed>>
    /\ Return

SetOwners ==
    \E c \in Calls("set_owners") :
        LET ms == accounts[c.ix.multisig]
        IN  /\ IsMultisig(ms)
            /\ OwnedByProgram({c.ix.multisig})
            /\ ValidateSigner(c, ms)
            /\ ValidateOwners(ms, c.ix.owners)
            /\ ms.owner_set_seqno < MaxOwnerSetSeqno
            /\ Serialize(c, WithOwners(ms, c.ix.owners))

ChangeThreshold ==
    \E c \in Calls("change_threshold") :
        LET ms == accounts[c.ix.multisig]
        IN  /\ IsMultisig(ms)
            /\ OwnedByProgram({c.ix.multisig})
            /\ ValidateSigner(c, ms)
            /\ ValidateThreshold(c.ix.threshold, ms.owners)
            /\ Serialize(c, WithThreshold(ms, c.ix.threshold))

SetOwnersAndChangeThreshold ==
    \E c \in Calls("set_owners_and_change_threshold") :
        LET ms == accounts[c.ix.multisig]
        IN  /\ IsMultisig(ms)
            /\ OwnedByProgram({c.ix.multisig})
            /\ ValidateSigner(c, ms)
            /\ ValidateOwners(ms, c.ix.owners)
            /\ ValidateThreshold(c.ix.threshold, c.ix.owners)
            /\ ms.owner_set_seqno < MaxOwnerSetSeqno
            /\ Serialize(c, WithThreshold(WithOwners(ms, c.ix.owners),
                                          c.ix.threshold))

-----------------------------------------------------------------------------
(* Code outside the repository: the system program's transfer, and the     *)
(* runtime that starts, commits and rolls back Solana transactions.        *)

Transfer ==
    \E c \in Calls("transfer") :
        /\ c.ix.from \in c.signers
        /\ {c.ix.from, c.ix.to} \subseteq c.writable
        /\ accounts[c.ix.from] = EmptyAccount
        /\ lamports[c.ix.from] >= c.ix.amount
        /\ LET debited == [lamports EXCEPT ![c.ix.from] = @ - c.ix.amount]
           IN  lamports' = [debited EXCEPT ![c.ix.to] = @ + c.ix.amount]
        /\ UNCHANGED <<accounts, proposals, executed>>
        /\ Return

Begin ==
    /\ ~Running
    /\ \E s \in SignerSets : batch' = [signers |-> s, left |-> MaxBatch]
    /\ UNCHANGED <<accounts, lamports, proposals, executed, committed, stack>>

Commit ==
    /\ Running
    /\ stack = << >>
    /\ committed' = ledger
    /\ batch' = Idle
    /\ UNCHANGED <<accounts, lamports, proposals, executed, stack>>

(* A handler returned an error, or the transaction ran out of its budget.  *)
Abort ==
    /\ Running
    /\ accounts' = committed.accounts
    /\ lamports' = committed.lamports
    /\ proposals' = committed.proposals
    /\ executed' = committed.executed
    /\ stack' = << >>
    /\ batch' = Idle
    /\ UNCHANGED committed

Init ==
    /\ accounts = InitialAccounts
    /\ lamports = InitialLamports
    /\ proposals = 0
    /\ executed = << >>
    /\ committed = ledger
    /\ batch = Idle
    /\ stack = << >>

Handler ==
    \/ CreateMultisig
    \/ ProposeTransaction
    \/ ApproveTransaction
    \/ ExecuteTransaction
    \/ FinishExecution
    \/ CancelTransaction
    \/ SetOwners
    \/ ChangeThreshold
    \/ SetOwnersAndChangeThreshold
    \/ Transfer

Next == Begin \/ Handler \/ Commit \/ Abort

Spec == Init /\ [][Next]_vars
=============================================================================
