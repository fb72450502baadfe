---------------------------- MODULE QuorumProofs ----------------------------
(***************************************************************************)
(* The owner set number ties a proposal to the owners who may approve it,  *)
(* so that every execution has a quorum: BitsAreSignatures,                *)
(* CancellableForever, ExecutionHasQuorum and OwnerSetsAreNumbered, for    *)
(* every value of the constants of module Multisig.  Then whose signature  *)
(* a step can have: the program address of a multisig signs only inside an *)
(* execution of that multisig (GovernedByExecution), at any depth of calls *)
(* that pass signers on.                                                   *)
(***************************************************************************)
EXTENDS MultisigProofs

IsProgramTransaction(a) == a.kind = "transaction" /\ a.program = "multisig"

(* Bit k is set if and only if owner k is among those who have signed.     *)
BitsMatch(tx, ms) ==
    /\ ms.owners = tx.owners
    /\ Len(tx.signers) = Len(ms.owners)
    /\ \A k \in DOMAIN ms.owners : tx.signers[k] <=> ms.owners[k] \in tx.approvers

(* Proposal tx and the account ms at its multisig's address.               *)
Tied(tx, ms) ==
    /\ IsProgramMultisig(ms)
    /\ ms.owner_set_seqno >= tx.owner_set_seqno
    /\ ms.owner_set_seqno = tx.owner_set_seqno => BitsMatch(tx, ms)

(* Every proposal is tied to its multisig; multisigs and proposals live at *)
(* addresses generated for them, and no owner set number has wrapped.      *)
TiedAccounts(A) ==
    /\ \A m \in Addresses : IsProgramMultisig(A[m]) =>
          m \in MultisigAddresses /\ A[m].owner_set_seqno <= MaxOwnerSetSeqno
    /\ \A t \in Addresses : IsProgramTransaction(A[t]) =>
          t \in TransactionAddresses /\ Tied(A[t], A[A[t].multisig])

TiedInv == TiedAccounts(accounts) /\ TiedAccounts(committed.accounts)

(* An execution keeps the address of a proposal and was validated with a   *)
(* quorum.                                                                 *)
HasQuorum(f) ==
    /\ f.threshold >= 1
    /\ Cardinality(f.approvers \cap ToSet(f.owners)) >= f.threshold

FrameInv ==
    \A i \in DOMAIN stack :
        stack[i].transaction \in TransactionAddresses /\ HasQuorum(stack[i])

Inv == TypeOK /\ GoodInv /\ TiedInv /\ FrameInv

-----------------------------------------------------------------------------
(* Proposals and multisigs one at a time.                                  *)

(* propose_transaction: the first bit is the proposer's signature.         *)
LEMMA TiedNew ==
    ASSUME TypeOK, NEW c \in Calls("propose_transaction"), NEW ms \in MultisigAccount,
           IsProgramMultisig(ms), IsInjective(ms.owners),
           c.ix.proposer \in c.signers,
           NEW k \in DOMAIN ms.owners, IsPosition(ms.owners, c.ix.proposer, k)
    PROVE  Tied(NewTransaction(c, ms, k), ms)
<1> DEFINE tx == NewTransaction(c, ms, k)
<1>1. /\ tx.owners = ms.owners /\ tx.owner_set_seqno = ms.owner_set_seqno
      /\ tx.signers = [j \in 1 .. Len(ms.owners) |-> j = k]
      /\ tx.approvers = {c.ix.proposer}
  BY DEF NewTransaction
<1>2. /\ ms.owners \in Seq(Addresses) /\ ms.owner_set_seqno \in Nat
      /\ ms.owners[k] = c.ix.proposer
  BY DEF MultisigAccount, IsPosition
<1>3. DOMAIN ms.owners = 1 .. Len(ms.owners) /\ Len(ms.owners) \in Nat
  BY <1>2
<1>4. Len(tx.signers) = Len(ms.owners)
  BY <1>1, <1>3
<1>5. \A j \in DOMAIN ms.owners : tx.signers[j] <=> ms.owners[j] \in tx.approvers
  BY <1>1, <1>2, <1>3 DEF IsInjective
<1> HIDE DEF tx
<1>6. BitsMatch(tx, ms)
  BY <1>1, <1>4, <1>5 DEF BitsMatch
<1>7. ms.owner_set_seqno >= tx.owner_set_seqno
  BY <1>1, <1>2
<1> QED
  BY <1>6, <1>7 DEF Tied, tx

(* An approved proposal stays tied.                                        *)
LEMMA TiedApproved ==
    ASSUME TypeOK, NEW c \in Calls("approve_transaction"), NEW ms \in MultisigAccount,
           NEW tx \in TransactionAccount, Tied(tx, ms), IsInjective(ms.owners),
           ms.owner_set_seqno = tx.owner_set_seqno,
           c.ix.approver \in c.signers,
           NEW k \in DOMAIN ms.owners, IsPosition(ms.owners, c.ix.approver, k)
    PROVE  Tied(Approved(c, tx, k), ms)
<1> DEFINE new == Approved(c, tx, k)
<1>1. /\ new.owners = tx.owners /\ new.owner_set_seqno = tx.owner_set_seqno
      /\ new.signers = [tx.signers EXCEPT ![k] = TRUE]
      /\ new.approvers = tx.approvers \cup {c.ix.approver}
  BY DEF Approved, TransactionAccount
<1>2. /\ ms.owners \in Seq(Addresses) /\ tx.signers \in Seq(BOOLEAN)
      /\ ms.owners[k] = c.ix.approver
  BY DEF MultisigAccount, TransactionAccount, IsPosition
<1>3. BitsMatch(tx, ms)
  BY DEF Tied
<1>4. DOMAIN ms.owners = 1 .. Len(ms.owners) /\ Len(ms.owners) \in Nat
      /\ DOMAIN tx.signers = DOMAIN ms.owners
  BY <1>2, <1>3 DEF BitsMatch
<1>5. Len(new.signers) = Len(ms.owners)
  BY <1>1, <1>2, <1>3, <1>4, ExceptSeq DEF BitsMatch
<1>6. ASSUME NEW j \in DOMAIN ms.owners
      PROVE  new.signers[j] <=> ms.owners[j] \in new.approvers
  <2>1. CASE j = k
    BY <2>1, <1>1, <1>2, <1>4
  <2>2. CASE j # k
    <3>1. ms.owners[j] # c.ix.approver
      BY <2>2, <1>2 DEF IsInjective
    <3>2. new.signers[j] = tx.signers[j]
      BY <2>2, <1>1, <1>4
    <3> QED
      BY <3>1, <3>2, <1>1, <1>3 DEF BitsMatch
  <2> QED
    BY <2>1, <2>2
<1> HIDE DEF new
<1> QED
  BY <1>1, <1>3, <1>5, <1>6 DEF Tied, BitsMatch, new

(* The number after a change of owners, and after one of the threshold.    *)
LEMMA WithOwnersFields ==
    ASSUME NEW ms \in MultisigAccount, IsProgramMultisig(ms), NEW owners,
           ms.owner_set_seqno < MaxOwnerSetSeqno
    PROVE  /\ IsProgramMultisig(WithOwners(ms, owners))
           /\ WithOwners(ms, owners).owner_set_seqno = ms.owner_set_seqno + 1
<1>1. ms.owner_set_seqno \in Nat
  BY DEF MultisigAccount
<1>2. (ms.owner_set_seqno + 1) % SeqnoModulus = ms.owner_set_seqno + 1
  BY <1>1, SeqnoDoesNotWrap, BoundsAreNaturals
<1> QED
  BY <1>2 DEF WithOwners, IsProgramMultisig, MultisigAccount

(* A change of the threshold keeps the number and the owners.              *)
LEMMA WithThresholdFields ==
    ASSUME NEW ms \in MultisigAccount, IsProgramMultisig(ms), NEW threshold
    PROVE  /\ IsProgramMultisig(WithThreshold(ms, threshold))
           /\ WithThreshold(ms, threshold).owner_set_seqno = ms.owner_set_seqno
           /\ WithThreshold(ms, threshold).owners = ms.owners
BY DEF WithThreshold, IsProgramMultisig, MultisigAccount

(* New owners leave every proposal behind.                                 *)
LEMMA TiedLater ==
    ASSUME NEW tx \in TransactionAccount, NEW ms \in MultisigAccount, Tied(tx, ms),
           NEW new, IsProgramMultisig(new),
           new.owner_set_seqno = ms.owner_set_seqno + 1
    PROVE  Tied(tx, new)
<1>1. tx.owner_set_seqno \in Nat /\ ms.owner_set_seqno \in Nat
      /\ ms.owner_set_seqno >= tx.owner_set_seqno
  BY DEF TransactionAccount, MultisigAccount, Tied
<1> QED
  BY <1>1 DEF Tied

(* A new threshold changes nothing for the proposals.                      *)
LEMMA TiedSame ==
    ASSUME NEW tx, NEW ms, Tied(tx, ms), NEW new, IsProgramMultisig(new),
           new.owner_set_seqno = ms.owner_set_seqno, new.owners = ms.owners
    PROVE  Tied(tx, new)
BY DEF Tied, BitsMatch

(* The number of bits is at most the number of owners who have signed.     *)
LEMMA ApprovalsAreOwners ==
    ASSUME NEW ms \in MultisigAccount, NEW tx \in TransactionAccount,
           GoodMultisig(ms), BitsMatch(tx, ms)
    PROVE  /\ ApprovalCount(tx.signers) \in Nat
           /\ Cardinality(tx.approvers \cap ToSet(ms.owners)) \in Nat
           /\ ApprovalCount(tx.signers)
                <= Cardinality(tx.approvers \cap ToSet(ms.owners))
<1> DEFINE bits   == {k \in DOMAIN tx.signers : tx.signers[k]}
           signed == tx.approvers \cap ToSet(ms.owners)
           owner  == [k \in bits |-> ms.owners[k]]
<1>1. /\ ms.owners \in Seq(Addresses) /\ tx.signers \in Seq(BOOLEAN)
      /\ Len(ms.owners) \in Nat /\ Len(ms.owners) < 256
      /\ DOMAIN ms.owners = 1 .. Len(ms.owners)
      /\ DOMAIN tx.signers = 1 .. Len(ms.owners)
  BY DEF MultisigAccount, TransactionAccount, GoodMultisig, BitsMatch
<1>2. IsFiniteSet(1 .. Len(ms.owners))
      /\ Cardinality(1 .. Len(ms.owners)) = Len(ms.owners)
  <2>1. \A n \in Nat : IsFiniteSet(1 .. n) /\ Cardinality(1 .. n) = n
    BY FS_Interval
  <2> QED
    BY <1>1, <2>1
<1>3. IsFiniteSet(bits) /\ Cardinality(bits) <= Len(ms.owners)
  BY <1>1, <1>2, FS_Subset
<1>4. IsFiniteSet(signed)
  <2>1. ms.owners \in Surjection(1 .. Len(ms.owners), ToSet(ms.owners))
    BY <1>1 DEF Surjection, ToSet
  <2>2. IsFiniteSet(ToSet(ms.owners))
    BY <2>1, <1>2, FS_Surjection
  <2> QED
    BY <2>2, FS_Subset
<1>5. owner \in Injection(bits, signed)
  <2>1. \A k \in bits : ms.owners[k] \in signed
    BY <1>1 DEF BitsMatch, ToSet
  <2>2. IsInjective(owner)
    BY <1>1 DEF GoodMultisig, IsInjective
  <2> QED
    BY <2>1, <2>2 DEF Injection
<1>6. Cardinality(bits) <= Cardinality(signed)
  BY <1>4, <1>5, FS_Injection
<1>7. Cardinality(bits) \in Nat /\ Cardinality(signed) \in Nat
  BY <1>3, <1>4, FS_CardinalityType
<1>8. ApprovalCount(tx.signers) = Cardinality(bits)
  BY <1>1, <1>3, <1>7, AsU8Exact DEF ApprovalCount
<1> QED
  BY <1>6, <1>7, <1>8

-----------------------------------------------------------------------------
(* Writing one account.                                                    *)

(* A multisig keeps its number, its owners and their proposals' approvals, *)
(* or takes the next number.                                               *)
LEMMA TiedUpdate ==
    ASSUME TypeOK, TiedInv, NEW m \in Addresses, NEW new,
           IsProgramMultisig(accounts[m]), IsProgramMultisig(new),
           \/ /\ new.owner_set_seqno = accounts[m].owner_set_seqno
              /\ new.owners = accounts[m].owners
           \/ /\ new.owner_set_seqno = accounts[m].owner_set_seqno + 1
              /\ accounts[m].owner_set_seqno < MaxOwnerSetSeqno,
           accounts' = [accounts EXCEPT ![m] = new], committed' = committed
    PROVE  TiedInv'
<1>1. accounts[m] \in MultisigAccount /\ accounts[m].owner_set_seqno \in Nat
  BY LedgerTyped, MultisigRecord DEF IsProgramMultisig, MultisigAccount
<1>2. m \in MultisigAddresses /\ new.owner_set_seqno <= MaxOwnerSetSeqno
  BY <1>1, BoundsAreNaturals DEF TiedInv, TiedAccounts
<1>3. ASSUME NEW t \in Addresses, IsProgramTransaction(accounts'[t])
      PROVE  t \in TransactionAddresses
             /\ Tied(accounts'[t], accounts'[accounts'[t].multisig])
  <2>1. accounts'[t] = accounts[t] /\ t # m
    BY <1>3, LedgerTyped DEF IsProgramTransaction, IsProgramMultisig
  <2>2. /\ t \in TransactionAddresses
        /\ Tied(accounts[t], accounts[accounts[t].multisig])
    BY <1>3, <2>1 DEF TiedInv, TiedAccounts
  <2>3. accounts[t] \in TransactionAccount /\ accounts[t].multisig \in Addresses
    BY <1>3, <2>1, LedgerTyped, TransactionRecord
       DEF IsProgramTransaction, TransactionAccount
  <2>4. CASE accounts[t].multisig = m
    <3>1. accounts'[m] = new
      BY LedgerTyped
    <3>2. Tied(accounts[t], new)
      BY <1>1, <2>2, <2>3, <2>4, TiedLater, TiedSame
    <3> QED
      BY <2>1, <2>2, <2>4, <3>1, <3>2
  <2>5. CASE accounts[t].multisig # m
    BY <2>1, <2>2, <2>3, <2>5, LedgerTyped
  <2> QED
    BY <2>4, <2>5
<1>4. ASSUME NEW a \in Addresses, IsProgramMultisig(accounts'[a])
      PROVE  a \in MultisigAddresses
             /\ accounts'[a].owner_set_seqno <= MaxOwnerSetSeqno
  BY <1>2, <1>4, LedgerTyped DEF TiedInv, TiedAccounts
<1> QED
  BY <1>3, <1>4 DEF TiedInv, TiedAccounts

(* Writing a tied proposal at its own address leaves the others alone.     *)
LEMMA TiedWrite ==
    ASSUME TypeOK, TiedInv, NEW t \in TransactionAddresses, NEW tx,
           ~IsProgramMultisig(accounts[t]), IsProgramTransaction(tx),
           tx.multisig \in Addresses, tx.multisig # t,
           Tied(tx, accounts[tx.multisig]),
           accounts' = [accounts EXCEPT ![t] = tx], committed' = committed
    PROVE  TiedInv'
<1>0. t \in Addresses
  BY DEF Addresses, KeyPairs
<1>1. ASSUME NEW u \in Addresses, IsProgramTransaction(accounts'[u])
      PROVE  u \in TransactionAddresses
             /\ Tied(accounts'[u], accounts'[accounts'[u].multisig])
  <2>1. CASE u = t
    BY <1>0, <2>1, LedgerTyped
  <2>2. CASE u # t
    <3>1. accounts'[u] = accounts[u]
      BY <2>2, LedgerTyped
    <3>2. /\ u \in TransactionAddresses
          /\ Tied(accounts[u], accounts[accounts[u].multisig])
      BY <1>1, <3>1 DEF TiedInv, TiedAccounts
    <3>3. accounts[u].multisig \in Addresses
      BY <1>1, <3>1, LedgerTyped, TransactionRecord
         DEF IsProgramTransaction, TransactionAccount
    <3>4. accounts[u].multisig # t
      BY <3>2 DEF Tied
    <3> QED
      BY <3>1, <3>2, <3>3, <3>4, LedgerTyped
  <2> QED
    BY <2>1, <2>2
<1>2. ASSUME NEW a \in Addresses, IsProgramMultisig(accounts'[a])
      PROVE  a \in MultisigAddresses
             /\ accounts'[a].owner_set_seqno <= MaxOwnerSetSeqno
  <2>1. a # t
    BY <1>0, <1>2, LedgerTyped DEF IsProgramMultisig, IsProgramTransaction
  <2> QED
    BY <1>2, <2>1, LedgerTyped DEF TiedInv, TiedAccounts
<1> QED
  BY <1>1, <1>2 DEF TiedInv, TiedAccounts

(* Closing the account at a proposal's address.                            *)
LEMMA TiedClose ==
    ASSUME TypeOK, TiedInv, NEW t \in TransactionAddresses, NEW refundee,
           CloseAccount(t, refundee), committed' = committed
    PROVE  TiedInv'
<1>0. t \in Addresses /\ t \notin MultisigAddresses
  BY AddressSpacesDisjoint DEF Addresses, KeyPairs
<1>1. accounts' = [accounts EXCEPT ![t] = EmptyAccount]
  BY DEF CloseAccount
<1>2. ASSUME NEW u \in Addresses, IsProgramTransaction(accounts'[u])
      PROVE  u \in TransactionAddresses
             /\ Tied(accounts'[u], accounts'[accounts'[u].multisig])
  <2>1. u # t /\ accounts'[u] = accounts[u]
    BY <1>0, <1>1, <1>2, LedgerTyped DEF IsProgramTransaction, EmptyAccount
  <2>2. /\ u \in TransactionAddresses
        /\ Tied(accounts[u], accounts[accounts[u].multisig])
    BY <1>2, <2>1 DEF TiedInv, TiedAccounts
  <2>3. accounts[u].multisig \in Addresses
    BY <1>2, <2>1, LedgerTyped, TransactionRecord
       DEF IsProgramTransaction, TransactionAccount
  <2>4. accounts[u].multisig # t
    BY <1>0, <2>2, <2>3 DEF Tied, TiedInv, TiedAccounts
  <2> QED
    BY <1>1, <2>1, <2>2, <2>3, <2>4, LedgerTyped
<1>3. ASSUME NEW a \in Addresses, IsProgramMultisig(accounts'[a])
      PROVE  a \in MultisigAddresses
             /\ accounts'[a].owner_set_seqno <= MaxOwnerSetSeqno
  <2>1. a # t
    BY <1>0, <1>1, <1>3, LedgerTyped DEF IsProgramMultisig, EmptyAccount
  <2> QED
    BY <1>1, <1>3, <2>1, LedgerTyped DEF TiedInv, TiedAccounts
<1> QED
  BY <1>2, <1>3 DEF TiedInv, TiedAccounts

(* A new multisig: nothing is tied to an address that holds no account.    *)
LEMMA TiedCreate ==
    ASSUME TypeOK, TiedInv, NEW m \in MultisigAddresses, NEW ms,
           accounts[m] = EmptyAccount, IsProgramMultisig(ms),
           ms.owner_set_seqno = 0,
           accounts' = [accounts EXCEPT ![m] = ms], committed' = committed
    PROVE  TiedInv'
<1>0. m \in Addresses /\ 0 <= MaxOwnerSetSeqno
  BY BoundsAreNaturals DEF Addresses, KeyPairs
<1>1. ASSUME NEW u \in Addresses, IsProgramTransaction(accounts'[u])
      PROVE  u \in TransactionAddresses
             /\ Tied(accounts'[u], accounts'[accounts'[u].multisig])
  <2>1. u # m /\ accounts'[u] = accounts[u]
    BY <1>0, <1>1, LedgerTyped DEF IsProgramTransaction, IsProgramMultisig
  <2>2. /\ u \in TransactionAddresses
        /\ Tied(accounts[u], accounts[accounts[u].multisig])
    BY <1>1, <2>1 DEF TiedInv, TiedAccounts
  <2>3. accounts[u].multisig \in Addresses
    BY <1>1, <2>1, LedgerTyped, TransactionRecord
       DEF IsProgramTransaction, TransactionAccount
  <2>4. accounts[u].multisig # m
    BY <2>2 DEF Tied, IsProgramMultisig, EmptyAccount
  <2> QED
    BY <2>1, <2>2, <2>3, <2>4, LedgerTyped
<1>2. ASSUME NEW a \in Addresses, IsProgramMultisig(accounts'[a])
      PROVE  a \in MultisigAddresses
             /\ accounts'[a].owner_set_seqno <= MaxOwnerSetSeqno
  BY <1>0, <1>2, LedgerTyped DEF TiedInv, TiedAccounts
<1> QED
  BY <1>1, <1>2 DEF TiedInv, TiedAccounts

-----------------------------------------------------------------------------
(* TiedInv, action by action.                                              *)

(* What the handlers read at an address that passes their checks.          *)
LEMMA MultisigRead ==
    ASSUME TypeOK, NEW m \in Addresses, OwnedByProgram({m}), IsMultisig(accounts[m])
    PROVE  accounts[m] \in MultisigAccount /\ IsProgramMultisig(accounts[m])
BY LedgerTyped, MultisigRecord DEF OwnedByProgram, IsMultisig, IsProgramMultisig

(* The same for a proposal.                                                *)
LEMMA TransactionRead ==
    ASSUME TypeOK, NEW t \in Addresses, OwnedByProgram({t}), IsTransaction(accounts[t])
    PROVE  accounts[t] \in TransactionAccount /\ IsProgramTransaction(accounts[t])
BY LedgerTyped, TransactionRecord
   DEF OwnedByProgram, IsTransaction, IsProgramTransaction

(* The program has no proposals at first.                                  *)
LEMMA TiedInit == ASSUME Init PROVE TiedInv
BY InitialLedger DEF Init, TiedInv, TiedAccounts, IsProgramMultisig,
                     IsProgramTransaction, ledger

(* create_multisig keeps proposals tied.                                   *)
LEMMA CreateMultisigTied ==
    ASSUME TypeOK, TiedInv, CreateMultisig PROVE TiedInv'
<1>1. PICK c \in Calls("create_multisig") :
         CreateAccount(c, c.ix.multisig, NewMultisig(c.ix)) /\ Return
  BY DEF CreateMultisig
<1>2. IsProgramMultisig(NewMultisig(c.ix)) /\ NewMultisig(c.ix).owner_set_seqno = 0
  BY DEF NewMultisig, IsProgramMultisig
<1> QED
  BY <1>1, <1>2, CreateIx, TiedCreate DEF CreateAccount, Return

(* propose_transaction keeps proposals tied.                               *)
LEMMA ProposeTransactionTied ==
    ASSUME TypeOK, GoodInv, TiedInv, ProposeTransaction PROVE TiedInv'
<1>1. PICK c \in Calls("propose_transaction") :
         /\ ValidatePropose(c)
         /\ IsMultisig(accounts[c.ix.multisig])
         /\ \E k \in DOMAIN accounts[c.ix.multisig].owners :
               /\ IsPosition(accounts[c.ix.multisig].owners, c.ix.proposer, k)
               /\ CreateAccount(c, c.ix.transaction,
                                NewTransaction(c, accounts[c.ix.multisig], k))
         /\ Return
  BY DEF ProposeTransaction
<1> DEFINE m == c.ix.multisig
           t == c.ix.transaction
<1>2. PICK k \in DOMAIN accounts[m].owners :
         /\ IsPosition(accounts[m].owners, c.ix.proposer, k)
         /\ accounts[t] = EmptyAccount
         /\ accounts' = [accounts EXCEPT ![t] = NewTransaction(c, accounts[m], k)]
  BY <1>1 DEF CreateAccount
<1> DEFINE tx == NewTransaction(c, accounts[m], k)
<1>3. m \in Addresses /\ t \in TransactionAddresses
  BY ProposeIx
<1>4. accounts[m] \in MultisigAccount /\ IsProgramMultisig(accounts[m])
  BY <1>1, <1>3, MultisigRead DEF ValidatePropose
<1>5. IsInjective(accounts[m].owners)
  BY <1>3, <1>4 DEF GoodInv, GoodAccounts, GoodMultisig
<1>6. Tied(tx, accounts[m])
  BY <1>1, <1>2, <1>4, <1>5, TiedNew DEF ValidatePropose
<1>7. IsProgramTransaction(tx) /\ tx.multisig = m
  BY DEF NewTransaction, IsProgramTransaction
<1>8. ~IsProgramMultisig(accounts[t]) /\ m # t
  BY <1>2, <1>4 DEF IsProgramMultisig, EmptyAccount
<1> HIDE DEF tx
<1>9. accounts' = [accounts EXCEPT ![t] = tx] /\ committed' = committed
  BY <1>1, <1>2 DEF tx, Return
<1> HIDE DEF m, t
<1> QED
  BY <1>3, <1>6, <1>7, <1>8, <1>9, TiedWrite

(* approve_transaction keeps proposals tied.                               *)
LEMMA ApproveTransactionTied ==
    ASSUME TypeOK, GoodInv, TiedInv, ApproveTransaction PROVE TiedInv'
<1>1. PICK c \in Calls("approve_transaction") :
         /\ IsMultisig(accounts[c.ix.multisig])
         /\ IsTransaction(accounts[c.ix.transaction])
         /\ ValidateApprove(c, accounts[c.ix.multisig], accounts[c.ix.transaction])
         /\ \E k \in DOMAIN accounts[c.ix.multisig].owners
                       \cap DOMAIN accounts[c.ix.transaction].signers :
               /\ IsPosition(accounts[c.ix.multisig].owners, c.ix.approver, k)
               /\ accounts' = [accounts EXCEPT ![c.ix.transaction] =
                                 Approved(c, accounts[c.ix.transaction], k)]
         /\ Return
  BY DEF ApproveTransaction
<1> DEFINE m == c.ix.multisig
           t == c.ix.transaction
<1>2. PICK k \in DOMAIN accounts[m].owners \cap DOMAIN accounts[t].signers :
         /\ IsPosition(accounts[m].owners, c.ix.approver, k)
         /\ accounts' = [accounts EXCEPT ![t] = Approved(c, accounts[t], k)]
  BY <1>1
<1> DEFINE tx == Approved(c, accounts[t], k)
<1>3. m \in Addresses /\ t \in Addresses
  BY ApproveIx
<1>4. accounts[m] \in MultisigAccount /\ IsProgramMultisig(accounts[m])
  BY <1>1, <1>3, MultisigRead DEF ValidateApprove, OwnedByProgram
<1>5. accounts[t] \in TransactionAccount /\ IsProgramTransaction(accounts[t])
  BY <1>1, <1>3, TransactionRead DEF ValidateApprove, OwnedByProgram
<1>6. /\ accounts[t].multisig = m /\ c.ix.approver \in c.signers
      /\ accounts[m].owner_set_seqno = accounts[t].owner_set_seqno
  BY <1>1 DEF ValidateApprove
<1>7. t \in TransactionAddresses /\ Tied(accounts[t], accounts[m])
  BY <1>3, <1>5, <1>6 DEF TiedInv, TiedAccounts
<1>8. IsInjective(accounts[m].owners)
  BY <1>3, <1>4 DEF GoodInv, GoodAccounts, GoodMultisig
<1>9. Tied(tx, accounts[m])
  BY <1>2, <1>4, <1>5, <1>6, <1>7, <1>8, TiedApproved
<1>10. IsProgramTransaction(tx) /\ tx.multisig = m
  BY <1>5, <1>6 DEF Approved, TransactionAccount, IsProgramTransaction
<1>11. ~IsProgramMultisig(accounts[t]) /\ m # t
  BY <1>4, <1>5 DEF IsProgramMultisig, IsProgramTransaction
<1> HIDE DEF tx
<1>12. accounts' = [accounts EXCEPT ![t] = tx] /\ committed' = committed
  BY <1>1, <1>2 DEF tx, Return
<1> HIDE DEF m, t
<1> QED
  BY <1>3, <1>7, <1>9, <1>10, <1>11, <1>12, TiedWrite

(* cancel_transaction keeps proposals tied.                                *)
LEMMA CancelTransactionTied ==
    ASSUME TypeOK, TiedInv, CancelTransaction PROVE TiedInv'
<1>1. PICK c \in Calls("cancel_transaction") :
         /\ ValidateCancel(c, accounts[c.ix.multisig], accounts[c.ix.transaction])
         /\ CloseAccount(c.ix.transaction, c.ix.refundee)
         /\ Return
  BY DEF CancelTransaction
<1>2. c.ix.transaction \in Addresses
  BY CancelIx
<1>3. IsProgramTransaction(accounts[c.ix.transaction])
  BY <1>1, <1>2, TransactionRead DEF ValidateCancel, OwnedByProgram
<1>4. c.ix.transaction \in TransactionAddresses
  BY <1>2, <1>3 DEF TiedInv, TiedAccounts
<1> QED
  BY <1>1, <1>4, TiedClose DEF Return

(* The close at the end of execute_transaction keeps proposals tied.       *)
LEMMA FinishExecutionTied ==
    ASSUME TypeOK, TiedInv, FrameInv, FinishExecution PROVE TiedInv'
<1>1. Last(stack).transaction \in TransactionAddresses
  BY LastFrame DEF FrameInv, FinishExecution, TypeOK
<1> QED
  BY <1>1, TiedClose DEF FinishExecution

(* set_owners keeps proposals tied.                                        *)
LEMMA SetOwnersTied == ASSUME TypeOK, TiedInv, SetOwners PROVE TiedInv'
<1>1. PICK c \in Calls("set_owners") :
         /\ IsMultisig(accounts[c.ix.multisig])
         /\ OwnedByProgram({c.ix.multisig})
         /\ accounts[c.ix.multisig].owner_set_seqno < MaxOwnerSetSeqno
         /\ Serialize(c, WithOwners(accounts[c.ix.multisig], c.ix.owners))
  BY DEF SetOwners
<1> DEFINE ms == accounts[c.ix.multisig]
<1>2. c.ix.multisig \in Addresses
  BY SetOwnersTyped
<1>3. ms \in MultisigAccount /\ IsProgramMultisig(ms)
  BY <1>1, <1>2, MultisigRead
<1>4. /\ IsProgramMultisig(WithOwners(ms, c.ix.owners))
      /\ WithOwners(ms, c.ix.owners).owner_set_seqno = ms.owner_set_seqno + 1
  BY <1>1, <1>3, WithOwnersFields
<1> QED
  BY <1>1, <1>2, <1>3, <1>4, TiedUpdate DEF Serialize, Return

(* change_threshold keeps proposals tied.                                  *)
LEMMA ChangeThresholdTied == ASSUME TypeOK, TiedInv, ChangeThreshold PROVE TiedInv'
<1>1. PICK c \in Calls("change_threshold") :
         /\ IsMultisig(accounts[c.ix.multisig])
         /\ OwnedByProgram({c.ix.multisig})
         /\ Serialize(c, WithThreshold(accounts[c.ix.multisig], c.ix.threshold))
  BY DEF ChangeThreshold
<1> DEFINE ms == accounts[c.ix.multisig]
<1>2. c.ix.multisig \in Addresses
  BY ChangeThresholdTyped
<1>3. ms \in MultisigAccount /\ IsProgramMultisig(ms)
  BY <1>1, <1>2, MultisigRead
<1>4. /\ IsProgramMultisig(WithThreshold(ms, c.ix.threshold))
      /\ WithThreshold(ms, c.ix.threshold).owner_set_seqno = ms.owner_set_seqno
      /\ WithThreshold(ms, c.ix.threshold).owners = ms.owners
  BY <1>3, WithThresholdFields
<1> QED
  BY <1>1, <1>2, <1>3, <1>4, TiedUpdate DEF Serialize, Return

(* set_owners_and_change_threshold keeps proposals tied.                   *)
LEMMA SetOwnersAndChangeThresholdTied ==
    ASSUME TypeOK, TiedInv, SetOwnersAndChangeThreshold PROVE TiedInv'
<1>1. PICK c \in Calls("set_owners_and_change_threshold") :
         /\ IsMultisig(accounts[c.ix.multisig])
         /\ OwnedByProgram({c.ix.multisig})
         /\ accounts[c.ix.multisig].owner_set_seqno < MaxOwnerSetSeqno
         /\ Serialize(c, WithThreshold(
                            WithOwners(accounts[c.ix.multisig], c.ix.owners),
                            c.ix.threshold))
  BY DEF SetOwnersAndChangeThreshold
<1> DEFINE ms     == accounts[c.ix.multisig]
           middle == WithOwners(ms, c.ix.owners)
           new    == WithThreshold(middle, c.ix.threshold)
<1>2. /\ c.ix.multisig \in Addresses /\ c.ix.owners \in Seq(Addresses)
  BY SetOwnersAndChangeThresholdTyped
<1>3. ms \in MultisigAccount /\ IsProgramMultisig(ms)
  BY <1>1, <1>2, MultisigRead
<1>4. /\ middle \in MultisigAccount /\ IsProgramMultisig(middle)
      /\ middle.owner_set_seqno = ms.owner_set_seqno + 1
  BY <1>1, <1>2, <1>3, WithOwnersFields, WithOwnersType
<1> HIDE DEF middle
<1>5. IsProgramMultisig(new) /\ new.owner_set_seqno = ms.owner_set_seqno + 1
  BY <1>4, WithThresholdFields
<1>6. /\ accounts' = [accounts EXCEPT ![c.ix.multisig] = new]
      /\ committed' = committed
  BY <1>1 DEF Serialize, Return, middle
<1> HIDE DEF new
<1> QED
  BY <1>1, <1>2, <1>3, <1>5, <1>6, TiedUpdate

(* Every step keeps proposals tied.                                        *)
LEMMA TiedStep ==
    ASSUME TypeOK, GoodInv, TiedInv, FrameInv, [Next]_vars PROVE TiedInv'
<1>1. CASE \/ ExecuteTransaction \/ Transfer \/ Begin \/ Commit \/ Abort
           \/ UNCHANGED vars
  BY <1>1 DEF ExecuteTransaction, Transfer, Begin, Commit, Abort, Return, vars,
              TiedInv, ledger
<1> QED
  BY <1>1, CreateMultisigTied, ProposeTransactionTied, ApproveTransactionTied,
     CancelTransactionTied, FinishExecutionTied, SetOwnersTied,
     ChangeThresholdTied, SetOwnersAndChangeThresholdTied DEF Next, Handler

-----------------------------------------------------------------------------
(* FrameInv: what an execution keeps of its proposal and its multisig does *)
(* not change while it runs; only the instructions it has left do.         *)

(* A call takes one instruction off the innermost frame, no more.          *)
LEMMA RestKeepsFrames ==
    ASSUME TypeOK, FrameInv, NEW op, NEW c \in Calls(op)
    PROVE  /\ RestOfStack \in Seq(FrameType)
           /\ \A i \in DOMAIN RestOfStack :
                 /\ RestOfStack[i].transaction \in TransactionAddresses
                 /\ HasQuorum(RestOfStack[i])
<1>1. RestOfStack \in Seq(FrameType)
  BY RestType
<1>2. CASE stack = << >>
  BY <1>2 DEF RestOfStack, FrameInv
<1>3. CASE stack # << >>
  <2>1. RestOfStack = [stack EXCEPT ![Len(stack)] =
                         [stack[Len(stack)] EXCEPT !.rest = Tail(@)]]
    BY <1>3 DEF RestOfStack
  <2>2. stack \in Seq(FrameType) /\ Len(stack) \in DOMAIN stack
    BY <1>3, LastFrame DEF TypeOK
  <2>3. DOMAIN RestOfStack = DOMAIN stack
    BY <2>1, <2>2
  <2>4. ASSUME NEW i \in DOMAIN stack
        PROVE  /\ RestOfStack[i].transaction = stack[i].transaction
               /\ RestOfStack[i].threshold = stack[i].threshold
               /\ RestOfStack[i].approvers = stack[i].approvers
               /\ RestOfStack[i].owners = stack[i].owners
    <3>1. stack[i] \in FrameType
      BY <2>2
    <3>2. CASE i = Len(stack)
      BY <2>1, <2>2, <3>1, <3>2 DEF FrameType
    <3>3. CASE i # Len(stack)
      BY <2>1, <2>2, <3>3
    <3> QED
      BY <3>2, <3>3
  <2> QED
    BY <1>1, <2>3, <2>4 DEF FrameInv, HasQuorum
<1> QED
  BY <1>1, <1>2, <1>3

(* execute_transaction starts with a quorum of the owners of this moment.  *)
LEMMA ExecuteTransactionFrames ==
    ASSUME TypeOK, GoodInv, TiedInv, FrameInv, ExecuteTransaction
    PROVE  FrameInv'
<1>1. PICK c \in Calls("execute_transaction") :
         /\ ValidateExecute(c, accounts[c.ix.multisig], accounts[c.ix.transaction])
         /\ stack' = Append(RestOfStack,
                            Frame(c, accounts[c.ix.multisig],
                                  accounts[c.ix.transaction]))
  BY DEF ExecuteTransaction
<1> DEFINE ms == accounts[c.ix.multisig]
           tx == accounts[c.ix.transaction]
           f  == Frame(c, ms, tx)
<1>2. c.ix.multisig \in Addresses /\ c.ix.transaction \in Addresses
  BY ExecuteIx
<1>3. /\ ms \in MultisigAccount /\ IsProgramMultisig(ms)
      /\ tx \in TransactionAccount /\ IsProgramTransaction(tx)
  BY <1>1, <1>2, MultisigRead, TransactionRead
     DEF ValidateExecute, OwnedByProgram
<1>4. /\ tx.multisig = c.ix.multisig
      /\ ms.owner_set_seqno = tx.owner_set_seqno
      /\ ApprovalCount(tx.signers) >= ms.threshold
  BY <1>1 DEF ValidateExecute
<1>5. GoodMultisig(ms)
  BY <1>2, <1>3 DEF GoodInv, GoodAccounts
<1>6. c.ix.transaction \in TransactionAddresses /\ BitsMatch(tx, ms)
  BY <1>2, <1>3, <1>4 DEF TiedInv, TiedAccounts, Tied
<1>7. ms.threshold \in Nat /\ 1 <= ms.threshold
  BY <1>3, <1>5, U8IsNat DEF MultisigAccount, GoodMultisig
<1>8. Cardinality(tx.approvers \cap ToSet(ms.owners)) >= ms.threshold
  <2> HIDE DEF ms, tx
  <2>1. /\ ApprovalCount(tx.signers) \in Nat
        /\ Cardinality(tx.approvers \cap ToSet(ms.owners)) \in Nat
        /\ ApprovalCount(tx.signers)
             <= Cardinality(tx.approvers \cap ToSet(ms.owners))
    BY <1>3, <1>5, <1>6, ApprovalsAreOwners
  <2> QED
    BY <2>1, <1>4, <1>7
<1>9. f.transaction \in TransactionAddresses /\ HasQuorum(f)
  BY <1>6, <1>7, <1>8 DEF Frame, HasQuorum
<1> HIDE DEF ms, tx, f
<1>10. /\ RestOfStack \in Seq(FrameType)
       /\ \A i \in DOMAIN RestOfStack :
             /\ RestOfStack[i].transaction \in TransactionAddresses
             /\ HasQuorum(RestOfStack[i])
  BY RestKeepsFrames
<1>11. stack' = Append(RestOfStack, f)
  BY <1>1 DEF f, ms, tx
<1>12. ASSUME NEW i \in DOMAIN stack'
       PROVE  stack'[i].transaction \in TransactionAddresses /\ HasQuorum(stack'[i])
  <2>1. CASE i \in DOMAIN RestOfStack
    <3>1. stack'[i] = RestOfStack[i]
      BY <1>10, <1>11, <2>1
    <3> QED
      BY <1>10, <2>1, <3>1
  <2>2. CASE i = Len(RestOfStack) + 1
    <3>1. stack'[i] = f
      BY <1>10, <1>11, <2>2
    <3> QED
      BY <1>9, <3>1
  <2> QED
    BY <1>10, <1>11, <2>1, <2>2
<1> QED
  BY <1>12 DEF FrameInv, HasQuorum

(* The end of an execution removes the innermost frame.                    *)
LEMMA FinishExecutionFrames ==
    ASSUME TypeOK, FrameInv, FinishExecution PROVE FrameInv'
<1>1. stack \in Seq(FrameType) /\ Len(stack) \in Nat \ {0}
  BY LastFrame DEF TypeOK, FinishExecution
<1>2. stack' = SubSeq(stack, 1, Len(stack) - 1)
  BY DEF FinishExecution, Front
<1>3. DOMAIN stack' \subseteq DOMAIN stack /\ \A i \in DOMAIN stack' : stack'[i] = stack[i]
  BY <1>1, <1>2
<1> QED
  BY <1>3 DEF FrameInv, HasQuorum

(* Every step keeps the executions' quorums.                               *)
LEMMA FrameStep ==
    ASSUME TypeOK, GoodInv, TiedInv, FrameInv, [Next]_vars PROVE FrameInv'
<1>1. CASE \E op : \E c \in Calls(op) : Return
  <2>1. stack' = RestOfStack
    BY <1>1 DEF Return
  <2> QED
    BY <1>1, <2>1, RestKeepsFrames DEF FrameInv, HasQuorum
<1>2. CASE \/ CreateMultisig \/ ProposeTransaction \/ ApproveTransaction
           \/ CancelTransaction \/ SetOwners \/ ChangeThreshold
           \/ SetOwnersAndChangeThreshold \/ Transfer
  BY <1>1, <1>2 DEF CreateMultisig, ProposeTransaction, ApproveTransaction,
     CancelTransaction, SetOwners, ChangeThreshold, SetOwnersAndChangeThreshold,
     Transfer, Serialize
<1>3. CASE Begin \/ Commit \/ Abort \/ UNCHANGED vars
  <2>1. stack' = stack \/ stack' = << >>
    BY <1>3 DEF Begin, Commit, Abort, vars
  <2> QED
    BY <2>1 DEF FrameInv, HasQuorum
<1> QED
  BY <1>2, <1>3, ExecuteTransactionFrames, FinishExecutionFrames DEF Next, Handler

-----------------------------------------------------------------------------
(* The inductive invariant and what follows from it.                       *)

(* Inv holds at first.                                                     *)
LEMMA InvInit == ASSUME Init PROVE Inv
<1>1. FrameInv
  BY DEF Init, FrameInv
<1> QED
  BY <1>1, TypeInit, GoodInit, TiedInit DEF Inv

(* Every step keeps Inv: each part by the lemma named for it.              *)
LEMMA InvStep == ASSUME Inv, [Next]_vars PROVE Inv'
<1>1. TypeOK'
  BY TypeStep DEF Inv
<1>2. GoodInv'
  BY GoodStep DEF Inv
<1>3. TiedInv'
  BY TiedStep DEF Inv
<1>4. FrameInv'
  BY FrameStep DEF Inv
<1> QED
  BY <1>1, <1>2, <1>3, <1>4 DEF Inv

(* Inv is an invariant of the specification.                               *)
LEMMA InvAlways == Spec => []Inv
BY InvInit, InvStep, PTL DEF Spec

(* What Inv says of one proposal.                                          *)
LEMMA ProposalIsTied ==
    ASSUME Inv, NEW t \in ProgramTransactions
    PROVE  /\ accounts[t].multisig \in ProgramMultisigs
           /\ Tied(accounts[t], accounts[accounts[t].multisig])
<1>1. t \in Addresses /\ IsProgramTransaction(accounts[t])
  BY DEF ProgramTransactions, IsProgramTransaction
<1>2. accounts[t].multisig \in Addresses
  BY <1>1, LedgerTyped, TransactionRecord
     DEF Inv, IsProgramTransaction, TransactionAccount
<1>3. Tied(accounts[t], accounts[accounts[t].multisig])
  BY <1>1 DEF Inv, TiedInv, TiedAccounts
<1> QED
  BY <1>2, <1>3 DEF Tied, IsProgramMultisig, ProgramMultisigs

(* Bits of a proposal that can still be approved are signatures of the     *)
(* owners it was made under (propose, approve, execute_set_owners).        *)
THEOREM BitsAreSignaturesAlways == Spec => []BitsAreSignatures
<1>1. Inv => BitsAreSignatures
  BY ProposalIsTied DEF BitsAreSignatures, Tied, BitsMatch
<1> QED
  BY <1>1, InvAlways, PTL

(* What an owner sends to cancel a proposal is valid.                      *)
LEMMA CancelIsValid ==
    ASSUME NEW t, accounts[t].kind = "transaction", accounts[t].program = "multisig",
           IsProgramMultisig(accounts[accounts[t].multisig]),
           IsMultisig(accounts[accounts[t].multisig]),
           accounts[accounts[t].multisig].owner_set_seqno >= accounts[t].owner_set_seqno,
           NEW o, Contains(accounts[accounts[t].multisig].owners, o), NEW r, r # t
    PROVE  ValidateCancel(CancelCall(t, o, r), accounts[accounts[t].multisig], accounts[t])
<1> DEFINE m == accounts[t].multisig
           c == CancelCall(t, o, r)
<1>1. /\ c.ix.multisig = m /\ c.ix.transaction = t /\ c.ix.refundee = r
      /\ c.ix.executor = o /\ c.signers = {o} /\ c.writable = {t, r}
  BY DEF CancelCall, CancelTransactionIx
<1> HIDE DEF c
<1>2. OwnedByProgram({m, t}) /\ IsMultisig(accounts[m]) /\ IsTransaction(accounts[t])
  BY DEF OwnedByProgram, IsTransaction, IsProgramMultisig
<1>3. ValidExecutor(c, accounts[m]) /\ ValidRefundee(c)
  BY <1>1 DEF ValidExecutor, ValidRefundee
<1> QED
  BY <1>1, <1>2, <1>3 DEF ValidateCancel, c

(* Whatever becomes of the owners, each of them alone can cancel any       *)
(* proposal.                                                               *)
THEOREM CancellableAlways == Spec => []CancellableForever
<1>1. ASSUME Inv, NEW t \in ProgramTransactions
      PROVE  LET tx == accounts[t]
                 ms == accounts[tx.multisig]
             IN  /\ tx.multisig \in ProgramMultisigs
                 /\ ms.owners # << >>
                 /\ \A o \in ToSet(ms.owners), r \in Addresses \ {t} :
                        ValidateCancel(CancelCall(t, o, r), ms, tx)
  <2> DEFINE m == accounts[t].multisig
  <2>1. m \in ProgramMultisigs /\ Tied(accounts[t], accounts[m])
    BY <1>1, ProposalIsTied
  <2>2. GoodMultisig(accounts[m]) /\ accounts[m] \in MultisigAccount
    BY <1>1, <2>1, LedgerTyped, MultisigRecord
       DEF Inv, GoodInv, GoodAccounts, ProgramMultisigs, IsProgramMultisig
  <2>3. accounts[m].owners # << >>
    BY <2>2, U8IsNat DEF GoodMultisig, MultisigAccount
  <2>4. /\ accounts[t].kind = "transaction" /\ accounts[t].program = "multisig"
        /\ IsProgramMultisig(accounts[m]) /\ IsMultisig(accounts[m])
        /\ accounts[m].owner_set_seqno >= accounts[t].owner_set_seqno
    BY <2>1, <2>2 DEF Tied, GoodMultisig, ProgramTransactions
  <2> HIDE DEF m
  <2>5. ASSUME NEW o \in ToSet(accounts[m].owners), NEW r \in Addresses \ {t}
        PROVE  ValidateCancel(CancelCall(t, o, r), accounts[m], accounts[t])
    <3>1. Contains(accounts[m].owners, o)
      BY DEF Contains, ToSet
    <3> QED
      BY <2>4, <3>1, CancelIsValid DEF m
  <2> QED
    BY <2>1, <2>3, <2>5 DEF m
<1>2. Inv => CancellableForever
  BY <1>1 DEF CancellableForever
<1> QED
  BY <1>2, InvAlways, PTL

(* At least threshold distinct owners have signed for every proposal that  *)
(* is being executed, at any depth of calls (execute_transaction.rs:64-77).*)
THEOREM QuorumAlways == Spec => []ExecutionHasQuorum
<1>1. Inv => ExecutionHasQuorum
  BY DEF Inv, FrameInv, HasQuorum, ExecutionHasQuorum
<1> QED
  BY <1>1, InvAlways, PTL

-----------------------------------------------------------------------------
(* Steps of one multisig account: it stays one of the program, and its     *)
(* owners stay or its number grows by one.                                 *)
Numbered(old, new) ==
    /\ IsProgramMultisig(new)
    /\ \/ new.owner_set_seqno = old.owner_set_seqno + 1
       \/ new.owner_set_seqno = old.owner_set_seqno /\ new.owners = old.owners

(* A write to another address, or to one that is no multisig, is harmless. *)
LEMMA WriteElsewhere ==
    ASSUME TypeOK, NEW a \in Addresses, NEW data,
           ~IsProgramMultisig(accounts[a]) \/ Numbered(accounts[a], data),
           accounts' = [accounts EXCEPT ![a] = data],
           NEW m \in Addresses, IsProgramMultisig(accounts[m])
    PROVE  Numbered(accounts[m], accounts'[m])
<1>1. CASE m = a
  BY <1>1, LedgerTyped
<1>2. CASE m # a
  <2>1. accounts'[m] = accounts[m]
    BY <1>2, LedgerTyped
  <2> QED
    BY <2>1 DEF Numbered
<1> QED
  BY <1>1, <1>2

(* set_owners keeps multisigs numbered.                                    *)
LEMMA SetOwnersNumbered ==
    ASSUME Inv, SetOwners, NEW m \in Addresses, IsProgramMultisig(accounts[m])
    PROVE  Numbered(accounts[m], accounts'[m])
<1>1. PICK c \in Calls("set_owners") :
         /\ IsMultisig(accounts[c.ix.multisig])
         /\ OwnedByProgram({c.ix.multisig})
         /\ accounts[c.ix.multisig].owner_set_seqno < MaxOwnerSetSeqno
         /\ Serialize(c, WithOwners(accounts[c.ix.multisig], c.ix.owners))
  BY DEF SetOwners
<1>2. TypeOK /\ c.ix.multisig \in Addresses
  BY SetOwnersTyped DEF Inv
<1>3. /\ accounts[c.ix.multisig] \in MultisigAccount
      /\ IsProgramMultisig(accounts[c.ix.multisig])
  BY <1>1, <1>2, MultisigRead
<1>4. Numbered(accounts[c.ix.multisig],
               WithOwners(accounts[c.ix.multisig], c.ix.owners))
  BY <1>1, <1>3, WithOwnersFields DEF Numbered
<1> QED
  BY <1>1, <1>2, <1>4, WriteElsewhere DEF Serialize

(* change_threshold keeps multisigs numbered.                              *)
LEMMA ChangeThresholdNumbered ==
    ASSUME Inv, ChangeThreshold, NEW m \in Addresses, IsProgramMultisig(accounts[m])
    PROVE  Numbered(accounts[m], accounts'[m])
<1>1. PICK c \in Calls("change_threshold") :
         /\ IsMultisig(accounts[c.ix.multisig])
         /\ OwnedByProgram({c.ix.multisig})
         /\ Serialize(c, WithThreshold(accounts[c.ix.multisig], c.ix.threshold))
  BY DEF ChangeThreshold
<1>2. TypeOK /\ c.ix.multisig \in Addresses
  BY ChangeThresholdTyped DEF Inv
<1>3. /\ accounts[c.ix.multisig] \in MultisigAccount
      /\ IsProgramMultisig(accounts[c.ix.multisig])
  BY <1>1, <1>2, MultisigRead
<1>4. Numbered(accounts[c.ix.multisig],
               WithThreshold(accounts[c.ix.multisig], c.ix.threshold))
  BY <1>3, WithThresholdFields DEF Numbered
<1> QED
  BY <1>1, <1>2, <1>4, WriteElsewhere DEF Serialize

(* set_owners_and_change_threshold keeps multisigs numbered.               *)
LEMMA SetOwnersAndChangeThresholdNumbered ==
    ASSUME Inv, SetOwnersAndChangeThreshold,
           NEW m \in Addresses, IsProgramMultisig(accounts[m])
    PROVE  Numbered(accounts[m], accounts'[m])
<1>1. PICK c \in Calls("set_owners_and_change_threshold") :
         /\ IsMultisig(accounts[c.ix.multisig])
         /\ OwnedByProgram({c.ix.multisig})
         /\ accounts[c.ix.multisig].owner_set_seqno < MaxOwnerSetSeqno
         /\ Serialize(c, WithThreshold(
                            WithOwners(accounts[c.ix.multisig], c.ix.owners),
                            c.ix.threshold))
  BY DEF SetOwnersAndChangeThreshold
<1> DEFINE ms     == accounts[c.ix.multisig]
           middle == WithOwners(ms, c.ix.owners)
           new    == WithThreshold(middle, c.ix.threshold)
<1>2. /\ TypeOK /\ c.ix.multisig \in Addresses
      /\ c.ix.owners \in Seq(Addresses)
  BY SetOwnersAndChangeThresholdTyped DEF Inv
<1>3. ms \in MultisigAccount /\ IsProgramMultisig(ms)
  BY <1>1, <1>2, MultisigRead
<1>4. /\ middle \in MultisigAccount /\ IsProgramMultisig(middle)
      /\ middle.owner_set_seqno = ms.owner_set_seqno + 1
  BY <1>1, <1>2, <1>3, WithOwnersFields, WithOwnersType
<1> HIDE DEF middle
<1>5. Numbered(ms, new)
  BY <1>4, WithThresholdFields DEF Numbered
<1>6. accounts' = [accounts EXCEPT ![c.ix.multisig] = new]
  BY <1>1 DEF Serialize, middle
<1> HIDE DEF new
<1> QED
  BY <1>2, <1>5, <1>6, WriteElsewhere

(* A write to an address where no multisig is leaves multisigs alone.      *)
LEMMA KeepElsewhere ==
    ASSUME TypeOK, NEW a \in Addresses, NEW data,
           ~IsProgramMultisig(accounts[a]),
           accounts' = [accounts EXCEPT ![a] = data],
           NEW m \in Addresses, IsProgramMultisig(accounts[m])
    PROVE  accounts'[m] = accounts[m]
BY LedgerTyped

(* The handlers that write other accounts do not reach a multisig.         *)
LEMMA OthersKeepMultisigs ==
    ASSUME Inv,
           \/ CreateMultisig \/ ProposeTransaction \/ ApproveTransaction
           \/ CancelTransaction \/ FinishExecution,
           NEW m \in Addresses, IsProgramMultisig(accounts[m])
    PROVE  accounts'[m] = accounts[m]
<1>0. TypeOK
  BY DEF Inv
<1>1. ~IsProgramMultisig(EmptyAccount)
  BY DEF IsProgramMultisig, EmptyAccount
<1>2. CASE CreateMultisig
  <2>1. PICK c \in Calls("create_multisig") :
           CreateAccount(c, c.ix.multisig, NewMultisig(c.ix))
    BY <1>2 DEF CreateMultisig
  <2>2. c.ix.multisig \in Addresses
    BY <1>0, CreateIx DEF Addresses, KeyPairs
  <2> QED
    BY <1>0, <1>1, <2>1, <2>2, KeepElsewhere DEF CreateAccount
<1>3. CASE ProposeTransaction
  <2>1. PICK c \in Calls("propose_transaction") :
           \E k \in DOMAIN accounts[c.ix.multisig].owners :
              CreateAccount(c, c.ix.transaction,
                            NewTransaction(c, accounts[c.ix.multisig], k))
    BY <1>3 DEF ProposeTransaction
  <2>2. c.ix.transaction \in Addresses
    BY <1>0, ProposeIx DEF Addresses, KeyPairs
  <2> QED
    BY <1>0, <1>1, <2>1, <2>2, KeepElsewhere DEF CreateAccount
<1>4. CASE ApproveTransaction
  <2>1. PICK c \in Calls("approve_transaction") :
           /\ IsTransaction(accounts[c.ix.transaction])
           /\ \E k \in DOMAIN accounts[c.ix.transaction].signers :
                 accounts' = [accounts EXCEPT ![c.ix.transaction] =
                                Approved(c, accounts[c.ix.transaction], k)]
    BY <1>4 DEF ApproveTransaction
  <2>2. c.ix.transaction \in Addresses
    BY <1>0, ApproveIx
  <2> QED
    BY <1>0, <2>1, <2>2, KeepElsewhere DEF IsTransaction, IsProgramMultisig
<1>5. CASE CancelTransaction
  <2>1. PICK c \in Calls("cancel_transaction") :
           /\ IsTransaction(accounts[c.ix.transaction])
           /\ accounts' = [accounts EXCEPT ![c.ix.transaction] = EmptyAccount]
    BY <1>5 DEF CancelTransaction, ValidateCancel, CloseAccount
  <2>2. c.ix.transaction \in Addresses
    BY <1>0, CancelIx
  <2> QED
    BY <1>0, <2>1, <2>2, KeepElsewhere DEF IsTransaction, IsProgramMultisig
<1>6. CASE FinishExecution
  <2> DEFINE t == Last(stack).transaction
  <2>1. accounts' = [accounts EXCEPT ![t] = EmptyAccount]
    BY <1>6 DEF FinishExecution, CloseAccount
  <2>2. t \in TransactionAddresses
    BY <1>0, <1>6, LastFrame DEF Inv, FrameInv, FinishExecution, TypeOK
  <2>3. t \in Addresses /\ t \notin MultisigAddresses
    BY <2>2, AddressSpacesDisjoint DEF Addresses, KeyPairs
  <2>4. ~IsProgramMultisig(accounts[t])
    BY <2>3 DEF Inv, TiedInv, TiedAccounts
  <2> HIDE DEF t
  <2> QED
    BY <1>0, <2>1, <2>3, <2>4, KeepElsewhere
<1> QED
  BY <1>2, <1>3, <1>4, <1>5, <1>6

(* No step closes a multisig or changes its owners under the same number,  *)
(* so that approvals of earlier owners are void (execute_set_owners).      *)
THEOREM OwnersNumberedAlways == Spec => OwnerSetsAreNumbered
<1>1. ASSUME Inv, [Next]_vars, ~Abort, NEW m \in ProgramMultisigs
      PROVE  Numbered(accounts[m], accounts'[m])
  <2>1. m \in Addresses /\ IsProgramMultisig(accounts[m])
    BY DEF ProgramMultisigs, IsProgramMultisig
  <2>2. CASE \/ ExecuteTransaction \/ Transfer \/ Begin \/ Commit \/ UNCHANGED vars
    <3>1. accounts' = accounts
      BY <2>2 DEF ExecuteTransaction, Transfer, Begin, Commit, vars
    <3> QED
      BY <2>1, <3>1 DEF Numbered
  <2>3. CASE \/ CreateMultisig \/ ProposeTransaction \/ ApproveTransaction
             \/ CancelTransaction \/ FinishExecution
    BY <1>1, <2>1, <2>3, OthersKeepMultisigs DEF Numbered
  <2> QED
    BY <1>1, <2>1, <2>2, <2>3, SetOwnersNumbered, ChangeThresholdNumbered,
       SetOwnersAndChangeThresholdNumbered DEF Next, Handler
<1>2. Inv /\ [Next]_vars =>
        [~Abort =>
           \A m \in ProgramMultisigs :
              /\ accounts'[m].kind = "multisig" /\ accounts'[m].program = "multisig"
              /\ \/ accounts'[m].owner_set_seqno = accounts[m].owner_set_seqno + 1
                 \/ /\ accounts'[m].owner_set_seqno = accounts[m].owner_set_seqno
                    /\ accounts'[m].owners = accounts[m].owners]_vars
  BY <1>1 DEF Numbered, IsProgramMultisig
<1> QED
  BY <1>2, InvAlways, PTL DEF Spec, OwnerSetsAreNumbered

-----------------------------------------------------------------------------
(* Whose signature a call can have.                                        *)

(* Those whose signature the execution at position k can have had: the key *)
(* pairs that signed the Solana transaction and the program addresses of   *)
(* the executions below it.                                                *)
VouchedBelow(k) == batch.signers \cup {stack[j].pda : j \in 1 .. k - 1}

Vouched == VouchedBelow(Len(stack) + 1)

(* An execution vouches for its own multisig's address only, and passes on *)
(* signatures that it was given itself.                                    *)
FrameAuthority(k) ==
    /\ \E nonce : stack[k].pda = Pda(stack[k].multisig, nonce)
    /\ stack[k].signers \subseteq VouchedBelow(k)

AuthorityInv ==
    /\ (batch = Idle /\ stack = << >>) \/ batch.signers \in SignerSets
    /\ \A k \in DOMAIN stack : FrameAuthority(k)

-----------------------------------------------------------------------------
(* Calls. *)

(* A call's signers are vouched for (execute_transaction.rs:20-34 marks    *)
(* the multisig's address; the runtime checks all others).                 *)
LEMMA CallIsVouched ==
    ASSUME TypeOK, AuthorityInv, NEW op, NEW c \in Calls(op)
    PROVE  c.signers \subseteq Vouched
<1>1. CASE c \in TransactionCalls
  BY <1>1 DEF TransactionCalls, Vouched, VouchedBelow
<1>2. CASE c \in InvokeSigned
  <2>1. stack # << >> /\ c.signers \subseteq Last(stack).signers \cup {Last(stack).pda}
    BY <1>2 DEF InvokeSigned
  <2>2. Len(stack) \in DOMAIN stack /\ Last(stack) = stack[Len(stack)]
    BY <2>1, LastFrame DEF TypeOK
  <2> QED
    BY <2>1, <2>2 DEF AuthorityInv, FrameAuthority, Vouched, VouchedBelow, TypeOK
<1> QED
  BY <1>1, <1>2 DEF Calls

(* The program address of m among them is that of an execution of m.       *)
LEMMA PdaIsOfExecution ==
    ASSUME TypeOK, AuthorityInv, NEW m \in MultisigAddresses,
           NEW nonce \in BumpSeeds, Pda(m, nonce) \in Vouched
    PROVE  InExecutionOf(m)
<1>1. Pda(m, nonce) \in Pdas
  BY DEF Pda, Pdas
<1>2. Pda(m, nonce) \notin batch.signers
  BY <1>1, AddressSpacesDisjoint DEF TypeOK
<1>3. PICK k \in DOMAIN stack : stack[k].pda = Pda(m, nonce)
  BY <1>2 DEF Vouched, VouchedBelow, TypeOK
<1>4. PICK n : stack[k].pda = Pda(stack[k].multisig, n)
  BY DEF AuthorityInv, FrameAuthority
<1>5. stack[k].multisig = m
  BY <1>3, <1>4 DEF Pda
<1> QED
  BY <1>5 DEF InExecutionOf

(* A call takes an instruction off the innermost frame and leaves what the *)
(* executions vouch for.                                                   *)
LEMMA RestKeepsAuthority ==
    ASSUME TypeOK, NEW op, NEW c \in Calls(op)
    PROVE  /\ RestOfStack \in Seq(FrameType)
           /\ DOMAIN RestOfStack = DOMAIN stack
           /\ \A k \in DOMAIN stack :
                 /\ RestOfStack[k].pda = stack[k].pda
                 /\ RestOfStack[k].multisig = stack[k].multisig
                 /\ RestOfStack[k].signers = stack[k].signers
                 /\ RestOfStack[k].refundee = stack[k].refundee
                 /\ RestOfStack[k].transaction = stack[k].transaction
                 /\ RestOfStack[k].id = stack[k].id
           /\ RestOfBatch.signers = batch.signers
           /\ RestOfBatch = Idle => batch.signers = {}
<1>1. RestOfStack \in Seq(FrameType)
  BY RestType
<1>2. RestOfBatch.signers = batch.signers
  BY DEF RestOfBatch, TypeOK
<1>3. CASE stack = << >>
  BY <1>1, <1>2, <1>3 DEF RestOfStack, Idle
<1>4. CASE stack # << >>
  <2>1. RestOfStack = [stack EXCEPT ![Len(stack)] =
                         [stack[Len(stack)] EXCEPT !.rest = Tail(@)]]
    BY <1>4 DEF RestOfStack
  <2>2. stack \in Seq(FrameType) /\ Len(stack) \in DOMAIN stack
    BY <1>4, LastFrame DEF TypeOK
  <2>3. DOMAIN RestOfStack = DOMAIN stack
    BY <2>1, <2>2
  <2>4. ASSUME NEW k \in DOMAIN stack
        PROVE  /\ RestOfStack[k].pda = stack[k].pda
               /\ RestOfStack[k].multisig = stack[k].multisig
               /\ RestOfStack[k].signers = stack[k].signers
               /\ RestOfStack[k].refundee = stack[k].refundee
               /\ RestOfStack[k].transaction = stack[k].transaction
               /\ RestOfStack[k].id = stack[k].id
    <3>1. stack[k] \in FrameType
      BY <2>2
    <3>2. CASE k = Len(stack)
      BY <2>1, <2>2, <3>1, <3>2 DEF FrameType
    <3>3. CASE k # Len(stack)
      BY <2>1, <2>2, <3>3
    <3> QED
      BY <3>2, <3>3
  <2> QED
    BY <1>1, <1>2, <2>3, <2>4 DEF Idle
<1> QED
  BY <1>3, <1>4

(* A call is made in a Solana transaction that somebody signed.            *)
LEMMA CallIsSigned ==
    ASSUME TypeOK, AuthorityInv, NEW op, NEW c \in Calls(op)
    PROVE  batch.signers \in SignerSets
BY CallInProgress DEF AuthorityInv, Idle

(* What a stack vouches for depends on its addresses only.                 *)
LEMMA KeptAuthority ==
    ASSUME TypeOK, AuthorityInv, batch'.signers = batch.signers,
           NEW n \in Nat, n <= Len(stack),
           \A k \in 1 .. n : /\ stack'[k].pda = stack[k].pda
                             /\ stack'[k].multisig = stack[k].multisig
                             /\ stack'[k].signers = stack[k].signers
    PROVE  /\ \A k \in 1 .. n : FrameAuthority(k)'
           /\ VouchedBelow(n + 1)' = VouchedBelow(n + 1)
<1>1. stack \in Seq(FrameType) /\ DOMAIN stack = 1 .. Len(stack)
  BY DEF TypeOK
<1>2. ASSUME NEW k \in 1 .. n + 1 PROVE VouchedBelow(k)' = VouchedBelow(k)
  BY <1>1, <1>2 DEF VouchedBelow
<1>3. ASSUME NEW k \in 1 .. n PROVE FrameAuthority(k)'
  <2>1. FrameAuthority(k) /\ k \in 1 .. n + 1
    BY <1>1, <1>3 DEF AuthorityInv
  <2> QED
    BY <1>2, <2>1 DEF FrameAuthority
<1> QED
  BY <1>2, <1>3

-----------------------------------------------------------------------------
(* AuthorityInv is inductive. *)

(* The handlers that return at once.                                       *)
LEMMA ReturnAuthority ==
    ASSUME TypeOK, AuthorityInv, NEW op, NEW c \in Calls(op), Return
    PROVE  AuthorityInv'
<1>1. /\ Len(RestOfStack) = Len(stack)
      /\ DOMAIN stack = 1 .. Len(stack)
      /\ DOMAIN stack' = DOMAIN stack
      /\ Len(stack) \in Nat
      /\ batch'.signers = batch.signers
  BY RestKeepsAuthority DEF Return, TypeOK
<1>2. \A k \in 1 .. Len(stack) : FrameAuthority(k)'
  BY <1>1, RestKeepsAuthority, KeptAuthority DEF Return
<1> QED
  BY <1>1, <1>2, CallIsSigned DEF AuthorityInv

(* execute_transaction adds a frame that vouches for its multisig.         *)
LEMMA ExecuteTransactionAuthority ==
    ASSUME TypeOK, AuthorityInv, ExecuteTransaction PROVE AuthorityInv'
<1>1. PICK c \in Calls("execute_transaction") :
         /\ batch' = RestOfBatch
         /\ stack' = Append(RestOfStack,
                            Frame(c, accounts[c.ix.multisig],
                                  accounts[c.ix.transaction]))
  BY DEF ExecuteTransaction
<1> DEFINE f == Frame(c, accounts[c.ix.multisig], accounts[c.ix.transaction])
<1>0. PICK n \in Nat : n = Len(stack)
  BY DEF TypeOK
<1>2. /\ RestOfStack \in Seq(FrameType) /\ Len(RestOfStack) = n
      /\ DOMAIN stack = 1 .. n
      /\ batch'.signers = batch.signers
      /\ \A k \in 1 .. n : /\ RestOfStack[k].pda = stack[k].pda
                            /\ RestOfStack[k].multisig = stack[k].multisig
                            /\ RestOfStack[k].signers = stack[k].signers
  BY <1>0, <1>1, RestKeepsAuthority DEF TypeOK
<1>3. f.signers = c.signers /\ \E nonce : f.pda = Pda(f.multisig, nonce)
  BY DEF Frame
<1>4. c.signers \subseteq Vouched
  BY CallIsVouched
<1> HIDE DEF f
<1>5. stack' = Append(RestOfStack, f)
  BY <1>1 DEF f
<1>6. /\ DOMAIN stack' = 1 .. n + 1
      /\ \A k \in 1 .. n : stack'[k] = RestOfStack[k]
      /\ stack'[n + 1] = f
  BY <1>2, <1>5
<1>7. (\A k \in 1 .. n : FrameAuthority(k)') /\ VouchedBelow(n + 1)' = Vouched
  BY <1>0, <1>2, <1>6, KeptAuthority DEF Vouched
<1>8. FrameAuthority(n + 1)'
  BY <1>2, <1>3, <1>4, <1>6, <1>7 DEF FrameAuthority
<1> QED
  BY <1>1, <1>2, <1>6, <1>7, <1>8, CallIsSigned DEF AuthorityInv

(* The frames that remain had nothing from the one that ends.              *)
LEMMA FinishExecutionAuthority ==
    ASSUME TypeOK, AuthorityInv, FinishExecution PROVE AuthorityInv'
<1>1. stack # << >> /\ stack' = Front(stack) /\ batch' = batch
  BY DEF FinishExecution
<1>2. stack \in Seq(FrameType) /\ Len(stack) \in Nat \ {0}
  BY <1>1 DEF TypeOK
<1>3. /\ DOMAIN stack' = 1 .. Len(stack) - 1
      /\ \A k \in 1 .. Len(stack) - 1 : stack'[k] = stack[k]
  BY <1>1, <1>2 DEF Front
<1>4. \A k \in 1 .. Len(stack) - 1 : FrameAuthority(k)'
  BY <1>1, <1>2, <1>3, KeptAuthority
<1> QED
  BY <1>1, <1>3, <1>4 DEF AuthorityInv

(* Every step.                                                             *)
LEMMA AuthorityStep ==
    ASSUME TypeOK, AuthorityInv, [Next]_vars PROVE AuthorityInv'
<1>1. CASE UNCHANGED vars
  BY <1>1 DEF vars, AuthorityInv, FrameAuthority, VouchedBelow
<1>2. CASE Begin
  <2>1. stack = << >> /\ stack' = << >> /\ batch'.signers \in SignerSets
    BY <1>2, SignersAreKeyPairs DEF Begin, Running, AuthorityInv, Idle
  <2> QED
    BY <2>1 DEF AuthorityInv
<1>3. CASE Commit \/ Abort
  BY <1>3 DEF Commit, Abort, AuthorityInv
<1>4. CASE ExecuteTransaction
  BY <1>4, ExecuteTransactionAuthority
<1>5. CASE FinishExecution
  BY <1>5, FinishExecutionAuthority
<1>6. CASE CreateMultisig
  BY <1>6, ReturnAuthority DEF CreateMultisig
<1>7. CASE ProposeTransaction
  BY <1>7, ReturnAuthority DEF ProposeTransaction
<1>8. CASE ApproveTransaction
  BY <1>8, ReturnAuthority DEF ApproveTransaction
<1>9. CASE CancelTransaction
  BY <1>9, ReturnAuthority DEF CancelTransaction
<1>10. CASE SetOwners
  BY <1>10, ReturnAuthority DEF SetOwners, Serialize
<1>11. CASE ChangeThreshold
  BY <1>11, ReturnAuthority DEF ChangeThreshold, Serialize
<1>12. CASE SetOwnersAndChangeThreshold
  BY <1>12, ReturnAuthority DEF SetOwnersAndChangeThreshold, Serialize
<1>13. CASE Transfer
  BY <1>13, ReturnAuthority DEF Transfer
<1> QED
  BY <1>1, <1>2, <1>3, <1>4, <1>5, <1>6, <1>7, <1>8, <1>9, <1>10, <1>11, <1>12,
     <1>13 DEF Next, Handler

(* AuthorityInv holds at first: no Solana transaction is in progress.      *)
LEMMA AuthorityInit == ASSUME Init PROVE AuthorityInv
BY DEF Init, AuthorityInv

(* It is an invariant, beside Inv.                                         *)
LEMMA AuthorityAlways == Spec => [](Inv /\ AuthorityInv)
<1>1. Init => Inv /\ AuthorityInv
  BY InvInit, AuthorityInit
<1>2. Inv /\ AuthorityInv /\ [Next]_vars => (Inv /\ AuthorityInv)'
  BY InvStep, AuthorityStep DEF Inv
<1> QED
  BY <1>1, <1>2, PTL DEF Spec

-----------------------------------------------------------------------------
(* GovernedByExecution: changes of a multisig.                             *)

(* validate_signer passes only in an execution of the multisig.            *)
LEMMA SignerGoverns ==
    ASSUME Inv, AuthorityInv, NEW op, NEW c \in Calls(op),
           c.ix.multisig \in Addresses,
           OwnedByProgram({c.ix.multisig}), IsMultisig(accounts[c.ix.multisig]),
           ValidateSigner(c, accounts[c.ix.multisig])
    PROVE  InExecutionOf(c.ix.multisig)
<1>1. TypeOK
  BY DEF Inv
<1>2. c.ix.multisig \in MultisigAddresses
  BY <1>1, MultisigRead DEF Inv, TiedInv, TiedAccounts
<1> DEFINE nonce == accounts[c.ix.multisig].nonce
<1>3. nonce \in BumpSeeds /\ Pda(c.ix.multisig, nonce) \in c.signers
  BY DEF ValidateSigner, ValidatePda
<1>4. Pda(c.ix.multisig, nonce) \in Vouched
  BY <1>1, <1>3, CallIsVouched
<1> QED
  BY <1>1, <1>2, <1>3, <1>4, PdaIsOfExecution

(* The three handlers that change a multisig change the one they validated.*)
LEMMA ChangesAreGoverned ==
    ASSUME Inv, AuthorityInv,
           SetOwners \/ ChangeThreshold \/ SetOwnersAndChangeThreshold,
           NEW m \in Addresses, accounts'[m] # accounts[m]
    PROVE  InExecutionOf(m)
<1>1. TypeOK
  BY DEF Inv
<1>2. PICK c \in Calls("set_owners") \cup Calls("change_threshold")
                  \cup Calls("set_owners_and_change_threshold") :
         /\ IsMultisig(accounts[c.ix.multisig])
         /\ OwnedByProgram({c.ix.multisig})
         /\ ValidateSigner(c, accounts[c.ix.multisig])
         /\ \E new : accounts' = [accounts EXCEPT ![c.ix.multisig] = new]
  BY DEF SetOwners, ChangeThreshold, SetOwnersAndChangeThreshold, Serialize
<1>3. c.ix.multisig \in Addresses
  BY <1>1, <1>2, SetOwnersTyped, ChangeThresholdTyped,
     SetOwnersAndChangeThresholdTyped
<1>4. c.ix.multisig = m
  BY <1>1, <1>2, <1>3, LedgerTyped
<1> QED
  BY <1>2, <1>3, <1>4, SignerGoverns

(* GovernedByExecution: payments. Whoever pays has signed.                 *)
LEMMA SignersPay ==
    ASSUME TypeOK, AuthorityInv, NEW op, NEW c \in Calls(op),
           NEW p \in Pdas, p \in c.signers
    PROVE  InExecutionOf(p[1])
<1>1. p[1] \in MultisigAddresses /\ p[2] \in BumpSeeds /\ Pda(p[1], p[2]) = p
  BY DEF Pdas, Pda
<1>2. p \in Vouched
  BY CallIsVouched
<1> QED
  BY <1>1, <1>2, PdaIsOfExecution

(* create_account debits its payer only.                                   *)
LEMMA CreateAccountPays ==
    ASSUME TypeOK, AuthorityInv, NEW op, NEW c \in Calls(op),
           c.ix.payer \in Addresses, NEW new \in Addresses, NEW data,
           CreateAccount(c, new, data),
           NEW p \in Pdas, lamports'[p] < lamports[p]
    PROVE  InExecutionOf(p[1])
<1>1. p \in Addresses /\ lamports \in [Addresses -> Nat] /\ Rent \in Nat
  BY LedgerTyped, RentIsPositive DEF Addresses
<1>2. c.ix.payer = p
  BY <1>1 DEF CreateAccount
<1>3. p \in c.signers
  BY <1>2 DEF CreateAccount
<1> QED
  BY <1>3, SignersPay

(* close_account debits the closed account only.                           *)
LEMMA CloseAccountPays ==
    ASSUME TypeOK, NEW t \in Addresses, NEW r \in Addresses, CloseAccount(t, r),
           NEW p \in Addresses, p # t
    PROVE  ~(lamports'[p] < lamports[p])
<1>1. lamports \in [Addresses -> Nat]
  BY LedgerTyped
<1> DEFINE cleared == [lamports EXCEPT ![t] = 0]
<1>2. cleared \in [Addresses -> Nat] /\ cleared[p] = lamports[p]
  BY <1>1
<1>3. lamports' = [cleared EXCEPT ![r] = cleared[r] + lamports[t]]
  BY DEF CloseAccount
<1> HIDE DEF cleared
<1> QED
  BY <1>1, <1>2, <1>3

(* The handlers that move lamports.                                        *)
LEMMA PaymentsAreGoverned ==
    ASSUME Inv, AuthorityInv, Handler, NEW p \in Pdas, lamports'[p] < lamports[p]
    PROVE  InExecutionOf(p[1])
<1>0. TypeOK
  BY DEF Inv
<1>1. p \in Addresses /\ lamports \in [Addresses -> Nat] /\ p \notin TransactionAddresses
  BY <1>0, LedgerTyped, AddressSpacesDisjoint DEF Addresses, KeyPairs
<1>2. CASE CreateMultisig
  <2>1. PICK c \in Calls("create_multisig") :
           CreateAccount(c, c.ix.multisig, NewMultisig(c.ix))
    BY <1>2 DEF CreateMultisig
  <2>2. c.ix.multisig \in Addresses /\ c.ix.payer \in Addresses
    BY <1>0, CreateIx DEF Addresses, KeyPairs
  <2> QED
    BY <1>0, <2>1, <2>2, CreateAccountPays
<1>3. CASE ProposeTransaction
  <2>1. PICK c \in Calls("propose_transaction") :
           \E k \in DOMAIN accounts[c.ix.multisig].owners :
              CreateAccount(c, c.ix.transaction,
                            NewTransaction(c, accounts[c.ix.multisig], k))
    BY <1>3 DEF ProposeTransaction
  <2>2. c.ix.transaction \in Addresses /\ c.ix.payer \in Addresses
    BY <1>0, ProposeIx DEF Addresses, KeyPairs
  <2> QED
    BY <1>0, <2>1, <2>2, CreateAccountPays
<1>4. CASE CancelTransaction
  <2>1. PICK c \in Calls("cancel_transaction") :
           /\ OwnedByProgram({c.ix.transaction}) /\ IsTransaction(accounts[c.ix.transaction])
           /\ CloseAccount(c.ix.transaction, c.ix.refundee)
    BY <1>4 DEF CancelTransaction, ValidateCancel, OwnedByProgram
  <2>2. c.ix.transaction \in TransactionAddresses /\ c.ix.refundee \in Addresses
        /\ c.ix.transaction \in Addresses
    BY <1>0, <2>1, CancelIx, TransactionRead DEF Inv, TiedInv, TiedAccounts
  <2> QED
    BY <1>0, <1>1, <2>1, <2>2, CloseAccountPays
<1>5. CASE FinishExecution
  <2>1. CloseAccount(Last(stack).transaction, Last(stack).refundee) /\ stack # << >>
    BY <1>5 DEF FinishExecution
  <2>2. /\ Last(stack).transaction \in TransactionAddresses
        /\ Last(stack).transaction \in Addresses /\ Last(stack).refundee \in Addresses
    BY <1>0, <2>1, LastFrame DEF Inv, FrameInv, TypeOK, FrameType
  <2> QED
    BY <1>0, <1>1, <2>1, <2>2, CloseAccountPays
<1>6. CASE Transfer
  <2>1. PICK c \in Calls("transfer") :
           /\ c.ix.from \in c.signers
           /\ lamports[c.ix.from] >= c.ix.amount
           /\ LET debited == [lamports EXCEPT ![c.ix.from] = @ - c.ix.amount]
              IN  lamports' = [debited EXCEPT ![c.ix.to] = @ + c.ix.amount]
    BY <1>6 DEF Transfer
  <2>2. c.ix.from \in Addresses /\ c.ix.to \in Addresses /\ c.ix.amount \in Nat
    BY <1>0, TransferTyped
  <2> DEFINE debited == [lamports EXCEPT ![c.ix.from] = lamports[c.ix.from] - c.ix.amount]
  <2>3. debited \in [Addresses -> Nat] /\ (c.ix.from # p => debited[p] = lamports[p])
    BY <1>1, <2>1, <2>2
  <2>4. lamports' = [debited EXCEPT ![c.ix.to] = debited[c.ix.to] + c.ix.amount]
    BY <2>1
  <2> HIDE DEF debited
  <2>5. c.ix.from = p
    BY <1>1, <2>2, <2>3, <2>4
  <2> QED
    BY <1>0, <2>1, <2>5, SignersPay
<1>7. CASE \/ ApproveTransaction \/ ExecuteTransaction \/ SetOwners
           \/ ChangeThreshold \/ SetOwnersAndChangeThreshold
  <2>1. lamports' = lamports
    BY <1>7 DEF ApproveTransaction, ExecuteTransaction, SetOwners, ChangeThreshold,
                SetOwnersAndChangeThreshold, Serialize
  <2> QED
    BY <1>1, <2>1
<1> QED
  BY <1>2, <1>3, <1>4, <1>5, <1>6, <1>7 DEF Handler

(* A multisig changes, and pays, only inside its own executions, at any    *)
(* depth of calls (validate_signer; execute_transaction's invoke_signed).  *)
THEOREM GovernedAlways == Spec => GovernedByExecution
<1>1. ASSUME Inv, AuthorityInv, [Next]_vars, ~Abort
      PROVE  /\ \A m \in ProgramMultisigs :
                   accounts'[m] # accounts[m] => InExecutionOf(m)
             /\ \A p \in Pdas : lamports'[p] < lamports[p] => InExecutionOf(p[1])
  <2>1. CASE Begin \/ Commit \/ UNCHANGED vars
    <3>1. accounts' = accounts /\ lamports' = lamports
      BY <2>1 DEF Begin, Commit, vars
    <3>2. \A p \in Pdas : lamports[p] \in Nat
      BY <1>1, LedgerTyped DEF Inv, Addresses
    <3> QED
      BY <3>1, <3>2
  <2>2. CASE Handler
    <3>1. ASSUME NEW m \in ProgramMultisigs, accounts'[m] # accounts[m]
          PROVE  InExecutionOf(m)
      <4>1. m \in Addresses /\ IsProgramMultisig(accounts[m])
        BY DEF ProgramMultisigs, IsProgramMultisig
      <4>2. SetOwners \/ ChangeThreshold \/ SetOwnersAndChangeThreshold
        BY <1>1, <2>2, <3>1, <4>1, OthersKeepMultisigs
           DEF Handler, ExecuteTransaction, Transfer
      <4> QED
        BY <1>1, <3>1, <4>1, <4>2, ChangesAreGoverned
    <3> QED
      BY <1>1, <2>2, <3>1, PaymentsAreGoverned
  <2> QED
    BY <1>1, <2>1, <2>2 DEF Next
<1>2. Inv /\ AuthorityInv /\ [Next]_vars =>
        [~Abort =>
           /\ \A m \in ProgramMultisigs :
                  accounts'[m] # accounts[m] => InExecutionOf(m)
           /\ \A p \in Pdas :
                  lamports'[p] < lamports[p] => InExecutionOf(p[1])]_vars
  BY <1>1
<1> QED
  BY <1>2, AuthorityAlways, PTL DEF Spec, GovernedByExecution
=============================================================================
