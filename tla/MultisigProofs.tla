--------------------------- MODULE MultisigProofs ---------------------------
(***************************************************************************)
(* Type correctness of module Multisig for every value of its constants:   *)
(* one lemma per action, over lemmas about the calls, the call stack and   *)
(* the functions that make account data.  Then that multisig accounts stay *)
(* well formed.  The inductive invariant adds to MultisigWellFormed that a *)
(* multisig has fewer than 256 owners, so that the u8 casts are exact, and *)
(* that its size is below 2^64, so that the usize arithmetic of the padding*)
(* comes out right although its difference may wrap.                       *)
(***************************************************************************)
EXTENDS MultisigProperties, FiniteSetTheorems, SequenceTheorems, TLAPS

(* The kind of an account tells its record type.                           *)
LEMMA MultisigRecord ==
    ASSUME NEW a \in Account, a.kind = "multisig"
    PROVE  a \in MultisigAccount
BY DEF Account, MultisigAccount, TransactionAccount, EmptyAccount

(* The same for a proposal.                                                *)
LEMMA TransactionRecord ==
    ASSUME NEW a \in Account, a.kind = "transaction"
    PROVE  a \in TransactionAccount
BY DEF Account, MultisigAccount, TransactionAccount, EmptyAccount

(* The innermost execution.                                                *)
LEMMA LastFrame ==
    ASSUME TypeOK, stack # << >>
    PROVE  /\ Len(stack) \in Nat \ {0}
           /\ Last(stack) = stack[Len(stack)]
           /\ Last(stack) \in FrameType
<1>1. stack \in Seq(FrameType)
  BY DEF TypeOK
<1> QED
  BY <1>1, EmptySeq DEF Last

(* Every call is of a typed instruction, with addresses as its signers.    *)
LEMMA CallType ==
    ASSUME TypeOK, NEW op, NEW c \in Calls(op)
    PROVE  /\ c.ix \in Instructions
           /\ c.ix.op = op
           /\ IsInstruction(c.ix, Instructions)
           /\ c.signers \in SUBSET Addresses
<1>1. batch.signers \in SUBSET Addresses
  BY DEF TypeOK, Addresses
<1>2. CASE c \in TransactionCalls
  BY <1>1, <1>2, InstructionsTyped DEF Calls, TransactionCalls
<1>3. CASE c \in InvokeSigned
  <2>1. stack # << >> /\ Last(stack).rest # << >>
    BY <1>3 DEF InvokeSigned
  <2>2. Last(stack) \in FrameType
    BY <2>1, LastFrame
  <2>3. Head(Last(stack).rest) \in Instructions
    BY <2>1, <2>2 DEF FrameType
  <2>4. Head(Last(stack).rest).signed \subseteq Addresses
    BY <2>3, InstructionsTyped DEF IsInstruction, Flags
  <2>5. Last(stack).pda \in Addresses
    BY <2>2 DEF FrameType
  <2> QED
    BY <1>3, <2>1, <2>3, <2>4, <2>5, InstructionsTyped DEF Calls, InvokeSigned
<1> QED
  BY <1>2, <1>3 DEF Calls

(* The call in progress is the transaction's next instruction or the next  *)
(* stored instruction of the innermost execution.                          *)
LEMMA CallInProgress ==
    ASSUME TypeOK, NEW op, NEW c \in Calls(op)
    PROVE  \/ stack = << >> /\ batch.left > 0
           \/ stack # << >> /\ Last(stack).rest # << >>
BY DEF Calls, TransactionCalls, InvokeSigned

(* What a call leaves to its caller is typed.                              *)
LEMMA RestType ==
    ASSUME TypeOK, NEW op, NEW c \in Calls(op)
    PROVE  /\ RestOfBatch \in [signers : SUBSET KeyPairs, left : Nat]
           /\ RestOfStack \in Seq(FrameType)
<1>1. RestOfBatch \in [signers : SUBSET KeyPairs, left : Nat]
  BY CallInProgress DEF RestOfBatch, TypeOK
<1>2. RestOfStack \in Seq(FrameType)
  <2>1. CASE stack = << >>
    BY <2>1 DEF RestOfStack, TypeOK
  <2>2. CASE stack # << >>
    <3>1. /\ stack \in Seq(FrameType) /\ Len(stack) \in 1 .. Len(stack)
          /\ stack[Len(stack)] \in FrameType
      BY <2>2, LastFrame DEF TypeOK
    <3>2. stack[Len(stack)].rest # << >>
      BY <2>2, CallInProgress, LastFrame
    <3>3. [stack[Len(stack)] EXCEPT !.rest = Tail(@)] \in FrameType
      <4> DEFINE f == stack[Len(stack)]
      <4>1. f \in FrameType /\ f.rest \in Seq(Instructions) /\ f.rest # << >>
        BY <3>1, <3>2 DEF FrameType
      <4>2. Tail(f.rest) \in Seq(Instructions)
        BY <4>1, HeadTailProperties
      <4> HIDE DEF f
      <4>3. [f EXCEPT !.rest = Tail(@)] \in FrameType
        BY <4>1, <4>2 DEF FrameType
      <4> QED
        BY <4>3 DEF f
    <3>4. RestOfStack = [stack EXCEPT ![Len(stack)] =
                           [stack[Len(stack)] EXCEPT !.rest = Tail(@)]]
      BY <2>2 DEF RestOfStack
    <3> QED
      BY <3>1, <3>3, <3>4, ExceptSeq
  <2> QED
    BY <2>1, <2>2
<1> QED
  BY <1>1, <1>2

(* The parts of the ledger, from TypeOK.                                   *)
LEMMA LedgerTyped ==
    ASSUME TypeOK
    PROVE  /\ accounts \in [Addresses -> Account]
           /\ lamports \in [Addresses -> Nat]
           /\ proposals \in 0 .. MaxProposals
           /\ executed \in Seq([id : Nat, instructions : Seq(Instructions)])
BY DEF TypeOK, LedgerType, ledger

(* create_account leaves typed accounts and balances.                      *)
LEMMA CreateAccountType ==
    ASSUME TypeOK, NEW op, NEW c \in Calls(op), c.ix.payer \in Addresses,
           NEW new \in Addresses, NEW data \in Account,
           CreateAccount(c, new, data)
    PROVE  /\ accounts' \in [Addresses -> Account]
           /\ lamports' \in [Addresses -> Nat]
<1>1. accounts' \in [Addresses -> Account]
  BY LedgerTyped DEF CreateAccount
<1>2. lamports[c.ix.payer] - Rent \in Nat /\ Rent \in Nat
  BY LedgerTyped, RentIsPositive DEF CreateAccount
<1>3. lamports' \in [Addresses -> Nat]
  BY <1>2, LedgerTyped DEF CreateAccount
<1> QED
  BY <1>1, <1>3

(* close_account leaves typed accounts and balances.                       *)
LEMMA CloseAccountType ==
    ASSUME TypeOK, NEW t \in Addresses, NEW refundee \in Addresses,
           CloseAccount(t, refundee)
    PROVE  /\ accounts' \in [Addresses -> Account]
           /\ lamports' \in [Addresses -> Nat]
<1>1. accounts \in [Addresses -> Account] /\ lamports \in [Addresses -> Nat]
  BY DEF TypeOK, LedgerType, ledger
<1>2. accounts' \in [Addresses -> Account]
  BY <1>1 DEF CloseAccount, Account
<1>3. lamports' \in [Addresses -> Nat]
  <2> DEFINE cleared == [lamports EXCEPT ![t] = 0]
  <2>1. cleared \in [Addresses -> Nat]
    BY <1>1
  <2>2. cleared[refundee] + lamports[t] \in Nat
    BY <1>1, <2>1
  <2>3. lamports' = [cleared EXCEPT ![refundee] = cleared[refundee] + lamports[t]]
    BY DEF CloseAccount
  <2> HIDE DEF cleared
  <2> QED
    BY <2>1, <2>2, <2>3
<1> QED
  BY <1>2, <1>3

-----------------------------------------------------------------------------
(* The instruction of each kind of call, by its own record type.           *)
LEMMA CreateIx ==
    ASSUME TypeOK, NEW c \in Calls("create_multisig")
    PROVE  /\ c.ix.multisig \in MultisigAddresses
           /\ c.ix.payer \in Addresses
           /\ c.ix.owners \in Seq(Addresses)
           /\ c.ix.threshold \in U8
           /\ c.ix.nonce \in U8
           /\ Len(c.ix.owners) < 256
<1>1. c.ix \in Instructions /\ IsInstruction(c.ix, Instructions)
      /\ c.ix.op = "create_multisig"
  BY CallType
<1>2. Len(c.ix.owners) < 256
  BY <1>1, OwnerListsFitU8
<1> QED
  BY <1>1, <1>2 DEF IsInstruction

(* An instruction of propose_transaction.                                  *)
LEMMA ProposeIx ==
    ASSUME TypeOK, NEW c \in Calls("propose_transaction")
    PROVE  /\ c.ix.multisig \in Addresses
           /\ c.ix.transaction \in TransactionAddresses
           /\ c.ix.proposer \in Addresses
           /\ c.ix.payer \in Addresses
           /\ c.ix.instructions \in Seq(Instructions)
BY CallType DEF IsInstruction

(* An instruction of approve_transaction.                                  *)
LEMMA ApproveIx ==
    ASSUME TypeOK, NEW c \in Calls("approve_transaction")
    PROVE  /\ c.ix.multisig \in Addresses
           /\ c.ix.transaction \in Addresses
           /\ c.ix.approver \in Addresses
BY CallType DEF IsInstruction

(* An instruction of execute_transaction.                                  *)
LEMMA ExecuteIx ==
    ASSUME TypeOK, NEW c \in Calls("execute_transaction")
    PROVE  /\ c.ix.multisig \in Addresses
           /\ c.ix.multisig_signer \in Addresses
           /\ c.ix.transaction \in Addresses
           /\ c.ix.refundee \in Addresses
           /\ c.ix.executor \in Addresses
BY CallType DEF IsInstruction

(* An instruction of cancel_transaction.                                   *)
LEMMA CancelIx ==
    ASSUME TypeOK, NEW c \in Calls("cancel_transaction")
    PROVE  /\ c.ix.multisig \in Addresses
           /\ c.ix.transaction \in Addresses
           /\ c.ix.refundee \in Addresses
           /\ c.ix.executor \in Addresses
BY CallType DEF IsInstruction

(* An instruction of set_owners.                                           *)
LEMMA SetOwnersTyped ==
    ASSUME TypeOK, NEW c \in Calls("set_owners")
    PROVE  /\ c.ix.multisig \in Addresses
           /\ c.ix.owners \in Seq(Addresses)
           /\ Len(c.ix.owners) < 256
<1>1. c.ix \in Instructions /\ IsInstruction(c.ix, Instructions)
      /\ c.ix.op = "set_owners"
  BY CallType
<1> QED
  BY <1>1, OwnerListsFitU8 DEF IsInstruction

(* An instruction of change_threshold.                                     *)
LEMMA ChangeThresholdTyped ==
    ASSUME TypeOK, NEW c \in Calls("change_threshold")
    PROVE  c.ix.multisig \in Addresses /\ c.ix.threshold \in U8
BY CallType DEF IsInstruction

(* An instruction of set_owners_and_change_threshold.                      *)
LEMMA SetOwnersAndChangeThresholdTyped ==
    ASSUME TypeOK, NEW c \in Calls("set_owners_and_change_threshold")
    PROVE  /\ c.ix.multisig \in Addresses
           /\ c.ix.owners \in Seq(Addresses)
           /\ c.ix.threshold \in U8
           /\ Len(c.ix.owners) < 256
<1>1. c.ix \in Instructions /\ IsInstruction(c.ix, Instructions)
      /\ c.ix.op = "set_owners_and_change_threshold"
  BY CallType
<1> QED
  BY <1>1, OwnerListsFitU8 DEF IsInstruction

(* A transfer of the system program.                                       *)
LEMMA TransferTyped ==
    ASSUME TypeOK, NEW c \in Calls("transfer")
    PROVE  c.ix.from \in Addresses /\ c.ix.to \in Addresses /\ c.ix.amount \in Nat
BY CallType DEF IsInstruction

(* What the changes to a multisig make of its data is data of a multisig.  *)
LEMMA PaddingLenType ==
    ASSUME NEW padding \in Nat, NEW old \in Nat, NEW new \in Nat
    PROVE  PaddingLen(padding, old, new) \in Nat
<1>1. UsizeModulus \in Nat \ {0}
  BY UsizeIsLarge DEF MultisigLen, PubkeyBytes
<1>2. (old - new) % UsizeModulus \in Nat
  BY <1>1
<1> HIDE DEF PubkeyBytes
<1>3. padding + PubkeyBytes * ((old - new) % UsizeModulus) \in Nat
  BY <1>2 DEF PubkeyBytes
<1> QED
  BY <1>1, <1>3 DEF PaddingLen

(* A cast to u8 gives a u8.                                                *)
LEMMA AsU8Type == ASSUME NEW n \in Nat PROVE AsU8(n) \in U8
BY DEF AsU8, U8

(* execute_set_owners writes multisig data.                                *)
LEMMA WithOwnersType ==
    ASSUME NEW ms \in MultisigAccount, NEW owners \in Seq(Addresses)
    PROVE  WithOwners(ms, owners) \in MultisigAccount
<1>1. Len(ms.owners) \in Nat /\ Len(owners) \in Nat /\ ms.padding \in Nat
  BY DEF MultisigAccount
<1>2. PaddingLen(ms.padding, Len(ms.owners), Len(owners)) \in Nat
  BY <1>1, PaddingLenType
<1>3. AsU8(Len(owners)) \in U8
  BY <1>1, AsU8Type
<1>4. (ms.owner_set_seqno + 1) % SeqnoModulus \in Nat
  BY SeqnoDoesNotWrap, BoundsAreNaturals DEF MultisigAccount
<1> QED
  BY <1>2, <1>3, <1>4 DEF WithOwners, MultisigAccount

(* execute_change_threshold writes multisig data.                          *)
LEMMA WithThresholdType ==
    ASSUME NEW ms \in MultisigAccount, NEW threshold \in U8
    PROVE  WithThreshold(ms, threshold) \in MultisigAccount
BY DEF WithThreshold, MultisigAccount

(* Data the handlers write: a new multisig, a new and an approved          *)
(* proposal.                                                               *)
LEMMA NewMultisigType ==
    ASSUME TypeOK, NEW c \in Calls("create_multisig")
    PROVE  NewMultisig(c.ix) \in MultisigAccount
<1>1. MultisigLen(Len(c.ix.owners), 0) \in Nat
  BY CreateIx DEF MultisigLen, PubkeyBytes
<1> QED
  BY <1>1, CreateIx DEF NewMultisig, MultisigAccount, Programs

(* propose_transaction writes proposal data.                               *)
LEMMA NewTransactionType ==
    ASSUME TypeOK, NEW c \in Calls("propose_transaction"),
           NEW ms \in MultisigAccount, NEW k \in DOMAIN ms.owners
    PROVE  NewTransaction(c, ms, k) \in TransactionAccount
<1>1. Len(ms.owners) \in Nat
  BY DEF MultisigAccount
<1>2. [j \in 1 .. Len(ms.owners) |-> j = k] \in Seq(BOOLEAN)
  BY <1>1
<1>3. proposals \in Nat
  BY LedgerTyped, BoundsAreNaturals
<1>4. {c.ix.proposer} \cap c.signers \in SUBSET Addresses
  BY ProposeIx
<1> QED
  BY <1>2, <1>3, <1>4, ProposeIx
     DEF NewTransaction, TransactionAccount, MultisigAccount, Programs

(* approve_transaction writes proposal data.                               *)
LEMMA ApprovedType ==
    ASSUME TypeOK, NEW c \in Calls("approve_transaction"),
           NEW tx \in TransactionAccount, NEW k \in DOMAIN tx.signers
    PROVE  Approved(c, tx, k) \in TransactionAccount
<1>1. tx.signers \in Seq(BOOLEAN) /\ k \in 1 .. Len(tx.signers)
  BY DEF TransactionAccount
<1>2. [tx.signers EXCEPT ![k] = TRUE] \in Seq(BOOLEAN)
  BY <1>1, ExceptSeq
<1>3. tx.approvers \cup ({c.ix.approver} \cap c.signers) \in SUBSET Addresses
  BY ApproveIx DEF TransactionAccount
<1> QED
  BY <1>2, <1>3 DEF Approved, TransactionAccount

(* The frame execute_transaction leaves on the call stack.                 *)
LEMMA FrameTyped ==
    ASSUME TypeOK, NEW c \in Calls("execute_transaction"),
           NEW ms \in MultisigAccount, NEW tx \in TransactionAccount,
           ValidatePda(c.ix.multisig_signer, c.ix.multisig, ms.nonce)
    PROVE  Frame(c, ms, tx) \in FrameType
<1>1. Pda(c.ix.multisig, ms.nonce) \in Addresses
  BY ExecuteIx DEF ValidatePda
<1>2. c.signers \in SUBSET Addresses
  BY CallType
<1> QED
  BY <1>1, <1>2, ExecuteIx
     DEF Frame, FrameType, TransactionAccount, MultisigAccount

-----------------------------------------------------------------------------
(* Type correctness, action by action.                                     *)

(* A handler that returns with a typed ledger leaves a typed state.        *)
LEMMA ReturnType ==
    ASSUME TypeOK, NEW op, NEW c \in Calls(op), Return,
           accounts' \in [Addresses -> Account],
           lamports' \in [Addresses -> Nat],
           proposals' \in 0 .. MaxProposals, executed' = executed
    PROVE  TypeOK'
<1>1. ledger' \in LedgerType
  BY LedgerTyped DEF ledger, LedgerType
<1>2. batch' \in [signers : SUBSET KeyPairs, left : Nat]
      /\ stack' \in Seq(FrameType)
  BY RestType DEF Return
<1>3. committed' \in LedgerType
  BY DEF Return, TypeOK
<1> QED
  BY <1>1, <1>2, <1>3 DEF TypeOK

(* create_multisig keeps the types.                                        *)
LEMMA CreateMultisigType == ASSUME TypeOK, CreateMultisig PROVE TypeOK'
<1>1. PICK c \in Calls("create_multisig") :
         /\ CreateAccount(c, c.ix.multisig, NewMultisig(c.ix))
         /\ UNCHANGED <<proposals, executed>>
         /\ Return
  BY DEF CreateMultisig
<1>2. NewMultisig(c.ix) \in Account
  BY NewMultisigType DEF Account
<1>3. c.ix.multisig \in Addresses /\ c.ix.payer \in Addresses
  BY CreateIx DEF Addresses, KeyPairs
<1>4. accounts' \in [Addresses -> Account] /\ lamports' \in [Addresses -> Nat]
  BY <1>1, <1>2, <1>3, CreateAccountType
<1> QED
  BY <1>1, <1>4, LedgerTyped, ReturnType

(* propose_transaction keeps the types.                                    *)
LEMMA ProposeTransactionType == ASSUME TypeOK, ProposeTransaction PROVE TypeOK'
<1>1. PICK c \in Calls("propose_transaction") :
         /\ IsMultisig(accounts[c.ix.multisig])
         /\ proposals < MaxProposals
         /\ \E k \in DOMAIN accounts[c.ix.multisig].owners :
               CreateAccount(c, c.ix.transaction,
                             NewTransaction(c, accounts[c.ix.multisig], k))
         /\ proposals' = proposals + 1
         /\ UNCHANGED executed
         /\ Return
  BY DEF ProposeTransaction
<1>2. accounts[c.ix.multisig] \in MultisigAccount
  BY <1>1, ProposeIx, LedgerTyped, MultisigRecord DEF IsMultisig
<1>3. PICK k \in DOMAIN accounts[c.ix.multisig].owners :
         CreateAccount(c, c.ix.transaction,
                       NewTransaction(c, accounts[c.ix.multisig], k))
  BY <1>1
<1>4. NewTransaction(c, accounts[c.ix.multisig], k) \in Account
  BY <1>2, NewTransactionType DEF Account
<1>5. c.ix.transaction \in Addresses /\ c.ix.payer \in Addresses
  BY ProposeIx DEF Addresses, KeyPairs
<1>6. accounts' \in [Addresses -> Account] /\ lamports' \in [Addresses -> Nat]
  BY <1>3, <1>4, <1>5, CreateAccountType
<1>7. proposals' \in 0 .. MaxProposals
  BY <1>1, LedgerTyped, BoundsAreNaturals
<1> QED
  BY <1>1, <1>6, <1>7, ReturnType

(* approve_transaction keeps the types.                                    *)
LEMMA ApproveTransactionType == ASSUME TypeOK, ApproveTransaction PROVE TypeOK'
<1>1. PICK c \in Calls("approve_transaction") :
         /\ IsTransaction(accounts[c.ix.transaction])
         /\ \E k \in DOMAIN accounts[c.ix.multisig].owners
                     \cap DOMAIN accounts[c.ix.transaction].signers :
               accounts' = [accounts EXCEPT ![c.ix.transaction] =
                              Approved(c, accounts[c.ix.transaction], k)]
         /\ UNCHANGED <<lamports, proposals, executed>>
         /\ Return
  BY DEF ApproveTransaction
<1>2. accounts[c.ix.transaction] \in TransactionAccount
  BY <1>1, ApproveIx, LedgerTyped, TransactionRecord DEF IsTransaction
<1>3. accounts' \in [Addresses -> Account]
  BY <1>1, <1>2, ApproveIx, LedgerTyped, ApprovedType DEF Account
<1> QED
  BY <1>1, <1>3, LedgerTyped, ReturnType

(* execute_transaction, up to its first stored instruction, keeps the      *)
(* types.                                                                  *)
LEMMA ExecuteTransactionType == ASSUME TypeOK, ExecuteTransaction PROVE TypeOK'
<1>1. PICK c \in Calls("execute_transaction") :
         /\ ValidateExecute(c, accounts[c.ix.multisig], accounts[c.ix.transaction])
         /\ batch' = RestOfBatch
         /\ stack' = Append(RestOfStack,
                            Frame(c, accounts[c.ix.multisig],
                                  accounts[c.ix.transaction]))
         /\ UNCHANGED <<accounts, lamports, proposals, executed, committed>>
  BY DEF ExecuteTransaction
<1>2. /\ accounts[c.ix.multisig] \in MultisigAccount
      /\ accounts[c.ix.transaction] \in TransactionAccount
  BY <1>1, ExecuteIx, LedgerTyped, MultisigRecord, TransactionRecord
     DEF ValidateExecute, IsMultisig, IsTransaction
<1>3. Frame(c, accounts[c.ix.multisig], accounts[c.ix.transaction]) \in FrameType
  BY <1>1, <1>2, FrameTyped DEF ValidateExecute
<1>4. batch' \in [signers : SUBSET KeyPairs, left : Nat]
      /\ stack' \in Seq(FrameType)
  BY <1>1, <1>3, RestType, AppendProperties
<1> QED
  BY <1>1, <1>4 DEF TypeOK, ledger

(* The close at the end of execute_transaction keeps the types.            *)
LEMMA FinishExecutionType == ASSUME TypeOK, FinishExecution PROVE TypeOK'
<1>1. Last(stack) \in FrameType
  BY LastFrame DEF FinishExecution
<1>2. accounts' \in [Addresses -> Account] /\ lamports' \in [Addresses -> Nat]
  BY <1>1, CloseAccountType DEF FinishExecution, FrameType
<1>3. executed' \in Seq([id : Nat, instructions : Seq(Instructions)])
  BY <1>1, LedgerTyped DEF FinishExecution, FrameType
<1>4. stack' \in Seq(FrameType)
  <2>1. stack \in Seq(FrameType) /\ stack # << >>
    BY DEF TypeOK, FinishExecution
  <2>2. Len(stack) \in Nat \ {0}
    BY LastFrame DEF FinishExecution
  <2>3. SubSeq(stack, 1, Len(stack) - 1) \in Seq(FrameType)
    BY <2>1, <2>2
  <2> QED
    BY <2>3 DEF FinishExecution, Front
<1>5. ledger' \in LedgerType
  BY <1>2, <1>3, LedgerTyped DEF FinishExecution, ledger, LedgerType
<1> QED
  BY <1>4, <1>5 DEF FinishExecution, TypeOK

(* cancel_transaction keeps the types.                                     *)
LEMMA CancelTransactionType == ASSUME TypeOK, CancelTransaction PROVE TypeOK'
<1>1. PICK c \in Calls("cancel_transaction") :
         /\ CloseAccount(c.ix.transaction, c.ix.refundee)
         /\ UNCHANGED <<proposals, executed>>
         /\ Return
  BY DEF CancelTransaction
<1>2. accounts' \in [Addresses -> Account] /\ lamports' \in [Addresses -> Nat]
  BY <1>1, CancelIx, CloseAccountType
<1> QED
  BY <1>1, <1>2, LedgerTyped, ReturnType

(* The three handlers that end by writing the multisig keep the types.     *)
LEMMA SerializeType ==
    ASSUME TypeOK, NEW op, NEW c \in Calls(op), c.ix.multisig \in Addresses,
           NEW ms \in MultisigAccount, Serialize(c, ms)
    PROVE  TypeOK'
<1>1. accounts' \in [Addresses -> Account]
  BY LedgerTyped DEF Serialize, Account
<1> QED
  BY <1>1, LedgerTyped, ReturnType DEF Serialize

(* set_owners keeps the types.                                             *)
LEMMA SetOwnersType == ASSUME TypeOK, SetOwners PROVE TypeOK'
<1>1. PICK c \in Calls("set_owners") :
         /\ IsMultisig(accounts[c.ix.multisig])
         /\ Serialize(c, WithOwners(accounts[c.ix.multisig], c.ix.owners))
  BY DEF SetOwners
<1>2. accounts[c.ix.multisig] \in MultisigAccount
  BY <1>1, SetOwnersTyped, LedgerTyped, MultisigRecord DEF IsMultisig
<1>3. WithOwners(accounts[c.ix.multisig], c.ix.owners) \in MultisigAccount
  BY <1>2, SetOwnersTyped, WithOwnersType
<1> QED
  BY <1>1, <1>3, SetOwnersTyped, SerializeType

(* change_threshold keeps the types.                                       *)
LEMMA ChangeThresholdType == ASSUME TypeOK, ChangeThreshold PROVE TypeOK'
<1>1. PICK c \in Calls("change_threshold") :
         /\ IsMultisig(accounts[c.ix.multisig])
         /\ Serialize(c, WithThreshold(accounts[c.ix.multisig], c.ix.threshold))
  BY DEF ChangeThreshold
<1>2. accounts[c.ix.multisig] \in MultisigAccount
  BY <1>1, ChangeThresholdTyped, LedgerTyped, MultisigRecord DEF IsMultisig
<1>3. WithThreshold(accounts[c.ix.multisig], c.ix.threshold) \in MultisigAccount
  BY <1>2, ChangeThresholdTyped, WithThresholdType
<1> QED
  BY <1>1, <1>3, ChangeThresholdTyped, SerializeType

(* set_owners_and_change_threshold keeps the types.                        *)
LEMMA SetOwnersAndChangeThresholdType ==
    ASSUME TypeOK, SetOwnersAndChangeThreshold
    PROVE  TypeOK'
<1>1. PICK c \in Calls("set_owners_and_change_threshold") :
         /\ IsMultisig(accounts[c.ix.multisig])
         /\ Serialize(c, WithThreshold(
                            WithOwners(accounts[c.ix.multisig], c.ix.owners),
                            c.ix.threshold))
  BY DEF SetOwnersAndChangeThreshold
<1>2. accounts[c.ix.multisig] \in MultisigAccount
  BY <1>1, SetOwnersAndChangeThresholdTyped, LedgerTyped, MultisigRecord
     DEF IsMultisig
<1>3. WithOwners(accounts[c.ix.multisig], c.ix.owners) \in MultisigAccount
  BY <1>2, SetOwnersAndChangeThresholdTyped, WithOwnersType
<1>4. WithThreshold(WithOwners(accounts[c.ix.multisig], c.ix.owners),
                    c.ix.threshold) \in MultisigAccount
  BY <1>3, SetOwnersAndChangeThresholdTyped, WithThresholdType
<1> QED
  BY <1>1, <1>4, SetOwnersAndChangeThresholdTyped, SerializeType

(* A transfer keeps the types.                                             *)
LEMMA TransferType == ASSUME TypeOK, Transfer PROVE TypeOK'
<1>1. PICK c \in Calls("transfer") :
         /\ lamports[c.ix.from] >= c.ix.amount
         /\ lamports' =
              [[lamports EXCEPT ![c.ix.from] = @ - c.ix.amount]
                 EXCEPT ![c.ix.to] = @ + c.ix.amount]
         /\ UNCHANGED <<accounts, proposals, executed>>
         /\ Return
  BY DEF Transfer
<1> DEFINE debited == [lamports EXCEPT ![c.ix.from] = @ - c.ix.amount]
<1>2. debited \in [Addresses -> Nat]
  BY <1>1, TransferTyped, LedgerTyped
<1>3. lamports' = [debited EXCEPT ![c.ix.to] = debited[c.ix.to] + c.ix.amount]
  BY <1>1
<1> HIDE DEF debited
<1>4. lamports' \in [Addresses -> Nat]
  BY <1>2, <1>3, TransferTyped
<1> QED
  BY <1>1, <1>4, LedgerTyped, ReturnType

(* The start of a Solana transaction keeps the types.                      *)
LEMMA BeginType == ASSUME TypeOK, Begin PROVE TypeOK'
<1>1. batch' \in [signers : SUBSET KeyPairs, left : Nat]
  BY SignersAreKeyPairs, BoundsAreNaturals DEF Begin
<1> QED
  BY <1>1 DEF Begin, TypeOK, ledger

(* Its commit keeps the types.                                             *)
LEMMA CommitType == ASSUME TypeOK, Commit PROVE TypeOK'
BY DEF Commit, Idle, TypeOK, ledger

(* Its roll-back keeps the types.                                          *)
LEMMA AbortType == ASSUME TypeOK, Abort PROVE TypeOK'
<1>1. ledger' \in LedgerType
  BY DEF Abort, TypeOK, ledger, LedgerType
<1>2. stack' \in Seq(FrameType) /\ batch' \in [signers : SUBSET KeyPairs, left : Nat]
  BY DEF Abort, Idle
<1> QED
  BY <1>1, <1>2 DEF Abort, TypeOK

(* The initial state is typed.                                             *)
LEMMA TypeInit == ASSUME Init PROVE TypeOK
<1>1. ledger \in LedgerType
  BY InitialLedger, BoundsAreNaturals DEF Init, ledger, LedgerType
<1>2. batch \in [signers : SUBSET KeyPairs, left : Nat] /\ stack \in Seq(FrameType)
  BY DEF Init, Idle
<1> QED
  BY <1>1, <1>2 DEF Init, TypeOK

(* Every step keeps the types.                                             *)
LEMMA TypeStep == ASSUME TypeOK, [Next]_vars PROVE TypeOK'
<1>1. CASE Next
  BY <1>1, CreateMultisigType, ProposeTransactionType, ApproveTransactionType,
     ExecuteTransactionType, FinishExecutionType, CancelTransactionType,
     SetOwnersType, ChangeThresholdType, SetOwnersAndChangeThresholdType,
     TransferType, BeginType, CommitType, AbortType DEF Next, Handler
<1>2. CASE UNCHANGED vars
  BY <1>2 DEF vars, TypeOK, ledger
<1> QED
  BY <1>1, <1>2

(* The ledger, the call stack and the committed ledger always have their   *)
(* types, for every set of instructions, signers and addresses: thresholds *)
(* stay u8, paddings and balances never go below zero.                     *)
THEOREM TypeCorrect == Spec => []TypeOK
<1>1. Init => TypeOK
  BY TypeInit
<1>2. TypeOK /\ [Next]_vars => TypeOK'
  BY TypeStep
<1> QED
  BY <1>1, <1>2, PTL DEF Spec

-----------------------------------------------------------------------------
(* The padding of a multisig.                                              *)

(* usize arithmetic drops a multiple of the modulus.                       *)
LEMMA WrapOnce ==
    ASSUME NEW M \in Nat, NEW r \in Nat, r < M
    PROVE  (r + PubkeyBytes * M) % M = r
BY DEF PubkeyBytes

(* The padding that execute_set_owners computes keeps the length of the    *)
(* account, also when the number of owners grows and old - new wraps.      *)
LEMMA PaddingKeepsSize ==
    ASSUME NEW padding \in Nat, NEW old \in Nat, NEW new \in Nat,
           new * PubkeyBytes <= old * PubkeyBytes + padding,
           MultisigLen(old, padding) < UsizeModulus
    PROVE  MultisigLen(new, PaddingLen(padding, old, new)) = MultisigLen(old, padding)
<1>0. UsizeModulus \in Nat /\ old < UsizeModulus /\ new < UsizeModulus
  BY UsizeIsLarge DEF MultisigLen, PubkeyBytes
<1> DEFINE r == padding + PubkeyBytes * (old - new)
<1>1. r \in Nat /\ r < UsizeModulus
  BY <1>0 DEF MultisigLen, PubkeyBytes
<1>2. PaddingLen(padding, old, new) = r
  <2>1. CASE new <= old
    <3>1. (old - new) % UsizeModulus = old - new
      BY <2>1, <1>0
    <3> QED
      BY <3>1, <1>1, <1>0 DEF PaddingLen, PubkeyBytes
  <2>2. CASE old < new
    <3>1. (old - new) % UsizeModulus = old - new + UsizeModulus
      BY <2>2, <1>0
    <3>2. PubkeyBytes * (old - new + UsizeModulus)
            = PubkeyBytes * (old - new) + PubkeyBytes * UsizeModulus
      BY <1>0 DEF PubkeyBytes
    <3>3. (r + PubkeyBytes * UsizeModulus) % UsizeModulus = r
      BY <1>0, <1>1, WrapOnce
    <3>4. padding + PubkeyBytes * (old - new + UsizeModulus)
            = r + PubkeyBytes * UsizeModulus
      BY <3>2, <1>0 DEF PubkeyBytes
    <3> QED
      BY <3>1, <3>3, <3>4 DEF PaddingLen
  <2> QED
    BY <2>1, <2>2
<1> QED
  BY <1>2, <1>1, <1>0 DEF MultisigLen, PubkeyBytes

-----------------------------------------------------------------------------
(* Well-formed multisig accounts.  The invariant speaks of the ledger and  *)
(* of the committed one, which Abort brings back.                          *)

IsProgramMultisig(a) == a.kind = "multisig" /\ a.program = "multisig"

(* MultisigWellFormed of one account, and that its size does not wrap.     *)
GoodMultisig(a) ==
    /\ IsMultisig(a)
    /\ IsInjective(a.owners)
    /\ 1 <= a.threshold
    /\ a.threshold <= Len(a.owners)
    /\ Len(a.owners) < 256
    /\ a.size < UsizeModulus

GoodAccounts(A) == \A m \in Addresses : IsProgramMultisig(A[m]) => GoodMultisig(A[m])

GoodInv == GoodAccounts(accounts) /\ GoodAccounts(committed.accounts)

(* assert_unique_owners, which compares each owner with the later ones.    *)
LEMMA UniqueIsInjective ==
    ASSUME NEW owners \in Seq(Addresses), UniqueOwners(owners)
    PROVE  IsInjective(owners)
<1>1. Len(owners) \in Nat /\ DOMAIN owners = 1 .. Len(owners)
  OBVIOUS
<1>2. ASSUME NEW i \in DOMAIN owners, NEW j \in DOMAIN owners,
             owners[i] = owners[j], i # j
      PROVE  FALSE
  <2>1. CASE i < j
    BY <2>1, <1>1, <1>2 DEF UniqueOwners
  <2>2. CASE j < i
    BY <2>2, <1>1, <1>2 DEF UniqueOwners
  <2> QED
    BY <1>1, <1>2, <2>1, <2>2
<1> QED
  BY <1>2 DEF IsInjective

(* A u8 is a natural number.                                               *)
LEMMA U8IsNat == \A x \in U8 : x \in Nat
BY DEF U8

(* The cast of a length below 256 is exact.                                *)
LEMMA AsU8Exact == ASSUME NEW n \in Nat, n < 256 PROVE AsU8(n) = n
BY DEF AsU8

(* validate_threshold, for owner lists that a u8 can count.                *)
LEMMA ThresholdBounds ==
    ASSUME NEW owners \in Seq(Addresses), Len(owners) < 256,
           NEW threshold \in U8, ValidateThreshold(threshold, owners)
    PROVE  1 <= threshold /\ threshold <= Len(owners)
<1>1. Len(owners) \in Nat /\ threshold \in Nat
  BY DEF U8
<1>2. AsU8(Len(owners)) = Len(owners)
  BY <1>1, AsU8Exact
<1> QED
  BY <1>1, <1>2 DEF ValidateThreshold

(* What create_multisig writes.                                            *)
LEMMA GoodNew ==
    ASSUME TypeOK, NEW c \in Calls("create_multisig"), ValidateCreate(c)
    PROVE  GoodMultisig(NewMultisig(c.ix))
<1> DEFINE ms == NewMultisig(c.ix)
<1>1. /\ ms.owners = c.ix.owners /\ ms.threshold = c.ix.threshold
      /\ ms.kind = "multisig" /\ ms.padding = 0 /\ ms.size = MultisigLen(Len(c.ix.owners), 0)
  BY DEF NewMultisig
<1>2. c.ix.owners \in Seq(Addresses) /\ Len(c.ix.owners) \in Nat
      /\ Len(c.ix.owners) < 256 /\ c.ix.threshold \in U8
  BY CreateIx
<1>3. 1 <= c.ix.threshold /\ c.ix.threshold <= Len(c.ix.owners)
  BY <1>2, ThresholdBounds DEF ValidateCreate
<1>4. IsInjective(c.ix.owners)
  BY <1>2, UniqueIsInjective DEF ValidateCreate
<1>5. MultisigLen(Len(c.ix.owners), 0) < UsizeModulus
  BY <1>2, UsizeIsLarge DEF MultisigLen, PubkeyBytes
<1> HIDE DEF ms
<1> QED
  BY <1>1, <1>2, <1>3, <1>4, <1>5 DEF GoodMultisig, IsMultisig, ms

(* What execute_set_owners makes of a well-formed multisig.                *)
LEMMA GoodWithOwners ==
    ASSUME NEW ms \in MultisigAccount, GoodMultisig(ms),
           NEW owners \in Seq(Addresses), Len(owners) < 256,
           ValidateOwners(ms, owners)
    PROVE  GoodMultisig(WithOwners(ms, owners))
<1> DEFINE new == WithOwners(ms, owners)
<1>1. /\ new.owners = owners
      /\ new.padding = PaddingLen(ms.padding, Len(ms.owners), Len(owners))
      /\ new.threshold = IF AsU8(Len(owners)) < ms.threshold
                         THEN AsU8(Len(owners)) ELSE ms.threshold
      /\ new.size = ms.size /\ new.kind = "multisig"
  BY DEF WithOwners, MultisigAccount
<1>2. /\ Len(ms.owners) \in Nat /\ Len(owners) \in Nat /\ ms.padding \in Nat
      /\ ms.threshold \in U8
  BY DEF MultisigAccount
<1>3. MultisigLen(Len(ms.owners), ms.padding) = ms.size /\ ms.size < UsizeModulus
  BY DEF GoodMultisig, IsMultisig
<1>4. IsMultisig(new)
  BY <1>1, <1>2, <1>3, PaddingKeepsSize DEF IsMultisig, ValidateOwners
<1>5. IsInjective(owners)
  BY UniqueIsInjective DEF ValidateOwners
<1>6. Len(owners) >= 1 /\ AsU8(Len(owners)) = Len(owners)
  BY <1>2, EmptySeq, AsU8Exact DEF ValidateOwners
<1>7. 1 <= new.threshold /\ new.threshold <= Len(owners)
  <2>1. ms.threshold \in Nat /\ 1 <= ms.threshold
    <3>1. ms.threshold \in Nat
      BY <1>2, U8IsNat
    <3>2. 1 <= ms.threshold
      BY DEF GoodMultisig
    <3> QED
      BY <3>1, <3>2
  <2> HIDE DEF new
  <2> QED
    BY <1>1, <1>2, <1>6, <2>1
<1> HIDE DEF new
<1> QED
  BY <1>1, <1>3, <1>4, <1>5, <1>7 DEF GoodMultisig, new

(* What execute_change_threshold makes of it.                              *)
LEMMA GoodWithThreshold ==
    ASSUME NEW ms \in MultisigAccount, GoodMultisig(ms), NEW threshold \in U8,
           ValidateThreshold(threshold, ms.owners)
    PROVE  GoodMultisig(WithThreshold(ms, threshold))
<1>1. Len(ms.owners) \in Nat /\ Len(ms.owners) < 256
  BY DEF MultisigAccount, GoodMultisig
<1>2. 1 <= threshold /\ threshold <= Len(ms.owners)
  BY <1>1, ThresholdBounds DEF MultisigAccount
<1> QED
  BY <1>2 DEF GoodMultisig, WithThreshold, IsMultisig, MultisigAccount

(* What Serialize writes over a multisig of the program.                   *)
LEMMA GoodSerialize ==
    ASSUME TypeOK, GoodInv, NEW c, NEW ms, c.ix.multisig \in Addresses,
           GoodMultisig(ms), Serialize(c, ms)
    PROVE  GoodInv'
BY LedgerTyped DEF GoodInv, GoodAccounts, Serialize, Return

(* What changes accounts without writing data of a multisig.               *)
LEMMA GoodOther ==
    ASSUME TypeOK, GoodInv, committed' = committed, NEW a \in Addresses,
           NEW data, ~IsProgramMultisig(data),
           accounts' = [accounts EXCEPT ![a] = data]
    PROVE  GoodInv'
BY LedgerTyped DEF GoodInv, GoodAccounts

(* The program owns no account at first.                                   *)
LEMMA GoodInit == ASSUME Init PROVE GoodInv
BY InitialLedger DEF Init, GoodInv, GoodAccounts, IsProgramMultisig, ledger

(* Every step keeps multisigs well formed.                                 *)
LEMMA GoodStep == ASSUME TypeOK, GoodInv, [Next]_vars PROVE GoodInv'
<1>1. CASE CreateMultisig
  <2>1. PICK c \in Calls("create_multisig") :
           /\ ValidateCreate(c)
           /\ CreateAccount(c, c.ix.multisig, NewMultisig(c.ix))
           /\ Return
    BY <1>1 DEF CreateMultisig
  <2>2. GoodMultisig(NewMultisig(c.ix))
    BY <2>1, GoodNew
  <2> QED
    BY <2>1, <2>2, LedgerTyped DEF GoodInv, GoodAccounts, CreateAccount, Return
<1>2. CASE ProposeTransaction
  <2>1. PICK c \in Calls("propose_transaction") :
           /\ \E k \in DOMAIN accounts[c.ix.multisig].owners :
                 CreateAccount(c, c.ix.transaction,
                               NewTransaction(c, accounts[c.ix.multisig], k))
           /\ Return
    BY <1>2 DEF ProposeTransaction
  <2>2. PICK k : accounts' = [accounts EXCEPT ![c.ix.transaction] =
                                NewTransaction(c, accounts[c.ix.multisig], k)]
    BY <2>1 DEF CreateAccount
  <2>3. ~IsProgramMultisig(NewTransaction(c, accounts[c.ix.multisig], k))
    BY DEF IsProgramMultisig, NewTransaction
  <2>4. c.ix.transaction \in Addresses
    BY ProposeIx DEF Addresses, KeyPairs
  <2> QED
    BY <2>1, <2>2, <2>3, <2>4, GoodOther DEF Return
<1>3. CASE ApproveTransaction
  <2>1. PICK c \in Calls("approve_transaction") :
           /\ IsTransaction(accounts[c.ix.transaction])
           /\ \E k \in DOMAIN accounts[c.ix.transaction].signers :
                 accounts' = [accounts EXCEPT ![c.ix.transaction] =
                                Approved(c, accounts[c.ix.transaction], k)]
           /\ Return
    BY <1>3 DEF ApproveTransaction
  <2>2. accounts[c.ix.transaction] \in TransactionAccount
    BY <2>1, ApproveIx, LedgerTyped, TransactionRecord DEF IsTransaction
  <2>3. PICK k \in DOMAIN accounts[c.ix.transaction].signers :
           accounts' = [accounts EXCEPT ![c.ix.transaction] =
                          Approved(c, accounts[c.ix.transaction], k)]
    BY <2>1
  <2>4. Approved(c, accounts[c.ix.transaction], k) \in TransactionAccount
    BY <2>2, ApprovedType
  <2>5. ~IsProgramMultisig(Approved(c, accounts[c.ix.transaction], k))
    BY <2>4 DEF IsProgramMultisig, TransactionAccount
  <2> QED
    BY <2>1, <2>3, <2>5, ApproveIx, GoodOther DEF Return
<1>4. CASE FinishExecution
  <2>1. Last(stack).transaction \in Addresses
    BY <1>4, LastFrame DEF FinishExecution, FrameType
  <2> QED
    BY <1>4, <2>1, GoodOther
       DEF FinishExecution, CloseAccount, IsProgramMultisig, EmptyAccount
<1>5. CASE CancelTransaction
  <2>1. PICK c \in Calls("cancel_transaction") :
           CloseAccount(c.ix.transaction, c.ix.refundee) /\ Return
    BY <1>5 DEF CancelTransaction
  <2> QED
    BY <2>1, CancelIx, GoodOther
       DEF CloseAccount, Return, IsProgramMultisig, EmptyAccount
<1>6. CASE SetOwners
  <2>1. PICK c \in Calls("set_owners") :
           /\ IsMultisig(accounts[c.ix.multisig])
           /\ OwnedByProgram({c.ix.multisig})
           /\ ValidateOwners(accounts[c.ix.multisig], c.ix.owners)
           /\ Serialize(c, WithOwners(accounts[c.ix.multisig], c.ix.owners))
    BY <1>6 DEF SetOwners
  <2>2. /\ accounts[c.ix.multisig] \in MultisigAccount
        /\ GoodMultisig(accounts[c.ix.multisig])
    BY <2>1, SetOwnersTyped, LedgerTyped, MultisigRecord
       DEF IsMultisig, OwnedByProgram, GoodInv, GoodAccounts, IsProgramMultisig
  <2>3. GoodMultisig(WithOwners(accounts[c.ix.multisig], c.ix.owners))
    BY <2>1, <2>2, SetOwnersTyped, GoodWithOwners
  <2> QED
    BY <2>1, <2>3, SetOwnersTyped, GoodSerialize
<1>7. CASE ChangeThreshold
  <2>1. PICK c \in Calls("change_threshold") :
           /\ IsMultisig(accounts[c.ix.multisig])
           /\ OwnedByProgram({c.ix.multisig})
           /\ ValidateThreshold(c.ix.threshold, accounts[c.ix.multisig].owners)
           /\ Serialize(c, WithThreshold(accounts[c.ix.multisig], c.ix.threshold))
    BY <1>7 DEF ChangeThreshold
  <2>2. /\ accounts[c.ix.multisig] \in MultisigAccount
        /\ GoodMultisig(accounts[c.ix.multisig])
    BY <2>1, ChangeThresholdTyped, LedgerTyped, MultisigRecord
       DEF IsMultisig, OwnedByProgram, GoodInv, GoodAccounts, IsProgramMultisig
  <2>3. GoodMultisig(WithThreshold(accounts[c.ix.multisig], c.ix.threshold))
    BY <2>1, <2>2, ChangeThresholdTyped, GoodWithThreshold
  <2> QED
    BY <2>1, <2>3, ChangeThresholdTyped, GoodSerialize
<1>8. CASE SetOwnersAndChangeThreshold
  <2>1. PICK c \in Calls("set_owners_and_change_threshold") :
           /\ IsMultisig(accounts[c.ix.multisig])
           /\ OwnedByProgram({c.ix.multisig})
           /\ ValidateOwners(accounts[c.ix.multisig], c.ix.owners)
           /\ ValidateThreshold(c.ix.threshold, c.ix.owners)
           /\ Serialize(c, WithThreshold(
                              WithOwners(accounts[c.ix.multisig], c.ix.owners),
                              c.ix.threshold))
    BY <1>8 DEF SetOwnersAndChangeThreshold
  <2> DEFINE middle == WithOwners(accounts[c.ix.multisig], c.ix.owners)
  <2>2. /\ accounts[c.ix.multisig] \in MultisigAccount
        /\ GoodMultisig(accounts[c.ix.multisig])
    BY <2>1, SetOwnersAndChangeThresholdTyped, LedgerTyped, MultisigRecord
       DEF IsMultisig, OwnedByProgram, GoodInv, GoodAccounts, IsProgramMultisig
  <2>3. middle \in MultisigAccount /\ GoodMultisig(middle)
    BY <2>1, <2>2, SetOwnersAndChangeThresholdTyped, WithOwnersType, GoodWithOwners
  <2>4. middle.owners = c.ix.owners
    BY <2>2 DEF WithOwners, MultisigAccount
  <2> HIDE DEF middle
  <2>5. GoodMultisig(WithThreshold(middle, c.ix.threshold))
    BY <2>1, <2>3, <2>4, SetOwnersAndChangeThresholdTyped, GoodWithThreshold
  <2> QED
    BY <2>1, <2>5, SetOwnersAndChangeThresholdTyped, GoodSerialize DEF middle
<1>9. CASE \/ ExecuteTransaction \/ Transfer \/ Begin \/ Commit \/ Abort
           \/ UNCHANGED vars
  <2>1. /\ accounts' = accounts \/ accounts' = committed.accounts
        /\ committed'.accounts \in {committed.accounts, accounts}
    BY <1>9 DEF ExecuteTransaction, Transfer, Begin, Commit, Abort, Return, vars, ledger
  <2> QED
    BY <2>1 DEF GoodInv, GoodAccounts
<1> QED
  BY <1>1, <1>2, <1>3, <1>4, <1>5, <1>6, <1>7, <1>8, <1>9 DEF Next, Handler

(* A multisig stays usable whatever sequence of owner and threshold changes*)
(* it goes through: MultisigWellFormed, for every set of instructions.     *)
THEOREM WellFormedAlways == Spec => []MultisigWellFormed
<1>1. Init => TypeOK /\ GoodInv
  BY TypeInit, GoodInit
<1>2. (TypeOK /\ GoodInv) /\ [Next]_vars => (TypeOK /\ GoodInv)'
  BY TypeStep, GoodStep
<1>3. GoodInv => MultisigWellFormed
  BY DEF GoodInv, GoodAccounts, GoodMultisig, MultisigWellFormed,
         ProgramMultisigs, IsProgramMultisig
<1> QED
  BY <1>1, <1>2, <1>3, PTL DEF Spec
=============================================================================
