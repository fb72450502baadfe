------------------------- MODULE MultisigProperties -------------------------
(***************************************************************************)
(* What the multisig program guarantees, for module Multisig.              *)
(***************************************************************************)
EXTENDS Multisig

(***************************************************************************)
(* Assumptions on the constants.                                           *)
(***************************************************************************)
ASSUME InstructionsTyped == \A i \in Instructions : IsInstruction(i, Instructions)

(* An owner list fits an instruction: a Solana transaction has at most     *)
(* 1232 bytes, so no list reaches the 256 owners a u8 cannot count.        *)
ASSUME OwnerListsFitU8 ==
    \A i \in Instructions :
        i.op \in {"create_multisig", "set_owners", "set_owners_and_change_threshold"}
            => Len(i.owners) < 256

ASSUME SignersAreKeyPairs == SignerSets \subseteq (SUBSET KeyPairs) \ {{}}

ASSUME FeePayerIsWallet == FeePayer \in Wallets

(* The program owns no account before its first instruction.               *)
ASSUME InitialLedger ==
    /\ InitialAccounts \in [Addresses -> Account]
    /\ \A a \in Addresses : InitialAccounts[a].program # "multisig"
    /\ InitialLamports \in [Addresses -> Nat]

ASSUME RentIsPositive == Rent \in Nat \ {0}

(* The account of 255 owners is far smaller than an address space.         *)
ASSUME UsizeIsLarge == UsizeModulus \in Nat /\ UsizeModulus > MultisigLen(256, 0)

ASSUME BoundsAreNaturals ==
    /\ MaxStackHeight \in Nat \ {0}
    /\ MaxBatch \in Nat
    /\ MaxProposals \in Nat
    /\ MaxOwnerSetSeqno \in Nat

(* The bound on owner changes keeps the sequence number from wrapping.     *)
ASSUME SeqnoDoesNotWrap == SeqnoModulus \in Nat /\ MaxOwnerSetSeqno < SeqnoModulus

-----------------------------------------------------------------------------
(* The type invariant: what the accounts, the executions in progress and   *)
(* the committed ledger are made of; a threshold stays a u8.               *)
FrameType ==
    [multisig : Addresses, pda : Addresses, transaction : Addresses,
     refundee : Addresses, rest : Seq(Instructions), signers : SUBSET Addresses,
     id : Nat, instructions : Seq(Instructions), approvers : SUBSET Addresses, owners : Seq(Addresses),
     threshold : U8]

LedgerType ==
    [accounts : [Addresses -> Account], lamports : [Addresses -> Nat],
     proposals : 0 .. MaxProposals,
     executed : Seq([id : Nat, instructions : Seq(Instructions)])]

TypeOK ==
    /\ ledger \in LedgerType
    /\ committed \in LedgerType
    /\ batch \in [signers : SUBSET KeyPairs, left : Nat]
    /\ stack \in Seq(FrameType)

-----------------------------------------------------------------------------
(* A multisig stays usable: whatever sequence of owner and threshold       *)
(* changes it goes through, its account deserializes to the last byte, its *)
(* owners are distinct and its threshold is one they can reach (create,    *)
(* validate_owners, execute_set_owners with its padding and its clamp).    *)
MultisigWellFormed ==
    \A m \in ProgramMultisigs :
        LET ms == accounts[m]
        IN  /\ IsMultisig(ms)
            /\ IsInjective(ms.owners)
            /\ 1 <= ms.threshold
            /\ ms.threshold <= Len(ms.owners)

(* While a proposal carries its multisig's owner set number it can still   *)
(* be approved and executed.  Then the owners are those of the moment it   *)
(* was made, and bit k of its signers says that owner k has signed for     *)
(* this proposal (propose, approve, and the seqno set_owners increments).  *)
BitsAreSignatures ==
    \A t \in ProgramTransactions :
        LET tx == accounts[t]
            ms == accounts[tx.multisig]
        IN  (tx.multisig \in ProgramMultisigs
              /\ ms.owner_set_seqno = tx.owner_set_seqno)
            => /\ ms.owners = tx.owners
               /\ Len(tx.signers) = Len(ms.owners)
               /\ \A k \in DOMAIN ms.owners :
                      tx.signers[k] <=> ms.owners[k] \in tx.approvers

(* The call in which o alone cancels the proposal at t, for refundee r.    *)
CancelCall(t, o, r) ==
    [ix |-> CancelTransactionIx(accounts[t].multisig, t, r, o),
     signers |-> {o}, writable |-> {t, r}]

(* A proposal can be cancelled for as long as it exists, whatever became   *)
(* of the owners and the threshold: its multisig is there and has owners,  *)
(* and validate accepts from each of them alone a cancel of it, also of    *)
(* one made under owners of long ago (cancel_transaction.rs:21-47).        *)
CancellableForever ==
    \A t \in ProgramTransactions :
        LET tx == accounts[t]
            ms == accounts[tx.multisig]
        IN  /\ tx.multisig \in ProgramMultisigs
            /\ ms.owners # << >>
            /\ \A o \in ToSet(ms.owners), r \in Addresses \ {t} :
                   ValidateCancel(CancelCall(t, o, r), ms, tx)

(* Every execution in progress, nested ones included, was approved by a    *)
(* quorum: at least threshold distinct owners of the multisig, at the      *)
(* moment execute_transaction validated it, had signed for this very       *)
(* proposal.                                                               *)
ExecutionHasQuorum ==
    \A i \in DOMAIN stack :
        LET f == stack[i]
        IN  /\ f.threshold >= 1
            /\ Cardinality(f.approvers \cap ToSet(f.owners)) >= f.threshold

(* No proposal is executed twice (executeTransactionTest.ts, "should not   *)
(* execute transaction twice"), in one Solana transaction or in several.   *)
ExecutedAtMostOnce ==
    \A i, j \in DOMAIN executed : executed[i].id = executed[j].id => i = j

(* The lamports instruction i is to take from address p.                   *)
Cost(i, p) ==
    IF i.op = "transfer" /\ i.from = p THEN i.amount
    ELSE IF i.op \in {"create_multisig", "propose_transaction"} /\ i.payer = p
      THEN Rent
    ELSE 0

(* One by one: the u-th lamport that the k-th of the instructions takes;   *)
(* the same for several lists of instructions.                             *)
Charges(instructions, p) ==
    UNION {{k} \X (1 .. Cost(instructions[k], p)) : k \in DOMAIN instructions}

AllCharges(lists, p) == UNION {{i} \X Charges(lists[i], p) : i \in DOMAIN lists}

NeverCredited(p) ==
    \A i \in Instructions :
        /\ i.op = "transfer" => i.to # p
        /\ i.op \in {"execute_transaction", "cancel_transaction"} => i.refundee # p

(* A proposal takes effect as a whole or not at all, and once: between     *)
(* Solana transactions, the signer of a multisig has paid out no more than *)
(* the executed proposals say, and exactly that if nothing was paid to it. *)
(* So it is when a stored instruction fails after the payment ("should not *)
(* execute any instructions if one of the instructions fails",             *)
(* executeTransactionTest.ts), when the Solana transaction fails later,    *)
(* and when a proposal's address is used again.                            *)
ExecutionIsAllOrNothing ==
    ~Running =>
        \A p \in Pdas :
            LET lists == [k \in DOMAIN executed |-> executed[k].instructions]
                kept  == lamports[p] + Cardinality(AllCharges(lists, p))
            IN  /\ kept >= InitialLamports[p]
                /\ NeverCredited(p) => kept = InitialLamports[p]

-----------------------------------------------------------------------------
InExecutionOf(m) == \E i \in DOMAIN stack : stack[i].multisig = m

(* What the owners govern: a step changes a multisig, or takes lamports    *)
(* from the address that signs for it, only inside an execution of that    *)
(* multisig (validate_signer), or by rolling back.                         *)
GovernedByExecution ==
    [][~Abort =>
         /\ \A m \in ProgramMultisigs :
                accounts'[m] # accounts[m] => InExecutionOf(m)
         /\ \A p \in Pdas :
                lamports'[p] < lamports[p] => InExecutionOf(p[1])]_vars

(* A proposal's rent is never lost: when its account is closed, by cancel  *)
(* or at the end of its execution, all that was on it goes to another      *)
(* account and nothing stays behind at the closed address, where no one    *)
(* could take it from any more (close_account and the refundee check).     *)
RentIsReturned ==
    [][~Abort =>
         \A t \in ProgramTransactions :
            accounts'[t] = EmptyAccount =>
               /\ lamports[t] >= Rent
               /\ lamports'[t] = 0
               /\ \E r \in Addresses : lamports'[r] = lamports[r] + lamports[t]]_vars

(* A multisig is never closed, and its owners never change, not even in    *)
(* order, without a new owner set number: that number is what makes        *)
(* approvals of the old owners void (setOwnersTest.ts, "should not allow   *)
(* old owners to approve").                                                *)
OwnerSetsAreNumbered ==
    [][~Abort =>
         \A m \in ProgramMultisigs :
            /\ accounts'[m].kind = "multisig" /\ accounts'[m].program = "multisig"
            /\ \/ accounts'[m].owner_set_seqno = accounts[m].owner_set_seqno + 1
               \/ /\ accounts'[m].owner_set_seqno = accounts[m].owner_set_seqno
                  /\ accounts'[m].owners = accounts[m].owners]_vars

(* state/transaction.rs:14 says of Transaction.signers, without reference  *)
(* to the owner set number: "signers[index] is true iff                    *)
(* multisig.owners[index] signed the transaction."                         *)
SignersCommentHolds ==
    \A t \in ProgramTransactions :
        LET tx == accounts[t]
            ms == accounts[tx.multisig]
        IN  \A k \in DOMAIN ms.owners \cap DOMAIN tx.signers :
                tx.signers[k] <=> ms.owners[k] \in tx.approvers
=============================================================================
