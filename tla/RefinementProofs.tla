-------------------------- MODULE RefinementProofs --------------------------
(***************************************************************************)
(* Multisig implements MultisigSpec for every value of the constants: the  *)
(* initial states map to the initial state, and every step to the step of  *)
(* the same name or to none.                                               *)
(***************************************************************************)
EXTENDS MultisigRefinement, QuorumProofs

Multisigs == MultisigsOf(accounts)

Open == OpenOf(accounts)

Executions == [k \in DOMAIN stack |-> ExecutionOf(stack[k])]

-----------------------------------------------------------------------------
(* Owners as a set. *)

(* Distinct owners are as many as their list is long.                      *)
LEMMA OwnersCount ==
    ASSUME NEW owners \in Seq(Addresses), IsInjective(owners)
    PROVE  Cardinality(ToSet(owners)) = Len(owners)
<1>1. Len(owners) \in Nat /\ DOMAIN owners = 1 .. Len(owners)
  OBVIOUS
<1>2. owners \in Bijection(1 .. Len(owners), ToSet(owners))
  BY <1>1 DEF Bijection, Injection, Surjection, IsInjective, ToSet
<1>3. ExistsBijection(1 .. Len(owners), ToSet(owners))
  BY <1>2 DEF ExistsBijection
<1> QED
  BY <1>1, <1>3, FS_CountingElements

(* An owner has a position.                                                *)
LEMMA PositionIsOwner ==
    ASSUME NEW owners \in Seq(Addresses), NEW key, NEW k,
           IsPosition(owners, key, k)
    PROVE  key \in ToSet(owners)
BY DEF IsPosition, ToSet

(* The owners at the bits that are set are the owners who signed.          *)
LEMMA ApprovalsAreSignatures ==
    ASSUME NEW A, NEW t, A[t] \in TransactionAccount,
           A[A[t].multisig] \in MultisigAccount, BitsMatch(A[t], A[A[t].multisig])
    PROVE  ProposalAt(A, t).approvals
             = A[t].approvers \cap ToSet(A[A[t].multisig].owners)
BY DEF ProposalAt, BitsMatch, ToSet, MultisigAccount, TransactionAccount

-----------------------------------------------------------------------------
(* How writing one account shows in the maps. *)

(* A multisig is written.                                                  *)
LEMMA MultisigWritten ==
    ASSUME TypeOK, NEW m \in Addresses, NEW new, IsProgramMultisig(new),
           accounts' = [accounts EXCEPT ![m] = new]
    PROVE  Multisigs' = Promise!With(Multisigs, m,
                          [owners |-> ToSet(new.owners), threshold |-> new.threshold,
                           signer |-> Pda(m, new.nonce)])
<1>1. /\ accounts'[m] = new
      /\ \A a \in Addresses \ {m} : accounts'[a] = accounts[a]
  BY LedgerTyped
<1> QED
  BY <1>1 DEF Multisigs, MultisigsOf, MultisigAt, Promise!With, IsProgramMultisig

(* An account is written that neither is nor becomes a multisig.           *)
LEMMA MultisigsKept ==
    ASSUME TypeOK, NEW a \in Addresses, NEW data,
           ~IsProgramMultisig(accounts[a]), ~IsProgramMultisig(data),
           accounts' = [accounts EXCEPT ![a] = data]
    PROVE  Multisigs' = Multisigs
<1>1. /\ accounts'[a] = data
      /\ \A x \in Addresses \ {a} : accounts'[x] = accounts[x]
  BY LedgerTyped
<1> QED
  BY <1>1 DEF Multisigs, MultisigsOf, MultisigAt, IsProgramMultisig

(* A proposal of the program, and what makes it current.                   *)
LEMMA CurrentProposal ==
    ASSUME TypeOK, TiedInv, NEW t \in DOMAIN Open
    PROVE  /\ t \in TransactionAddresses /\ t \in Addresses
           /\ accounts[t] \in TransactionAccount
           /\ accounts[t].multisig \in MultisigAddresses
           /\ accounts[t].multisig \in Addresses
           /\ accounts[accounts[t].multisig] \in MultisigAccount
           /\ IsProgramMultisig(accounts[accounts[t].multisig])
           /\ BitsMatch(accounts[t], accounts[accounts[t].multisig])
           /\ Open[t] = ProposalAt(accounts, t)
<1>1. t \in Addresses /\ IsCurrent(accounts, t) /\ Open[t] = ProposalAt(accounts, t)
  BY DEF Open, OpenOf
<1>2. accounts[t] \in TransactionAccount /\ IsProgramTransaction(accounts[t])
  BY <1>1, LedgerTyped, TransactionRecord DEF IsCurrent, IsProgramTransaction
<1>3. accounts[t].multisig \in Addresses
  BY <1>2 DEF TransactionAccount
<1>4. t \in TransactionAddresses /\ Tied(accounts[t], accounts[accounts[t].multisig])
  BY <1>1, <1>2 DEF TiedInv, TiedAccounts
<1>5. accounts[accounts[t].multisig] \in MultisigAccount
  BY <1>3, <1>4, LedgerTyped, MultisigRecord DEF Tied, IsProgramMultisig
<1> QED
  BY <1>1, <1>2, <1>3, <1>4, <1>5
     DEF Tied, TiedInv, TiedAccounts, IsCurrent

(* A proposal shows the same when neither its account nor its multisig's   *)
(* owners and number changed.                                              *)
LEMMA ProposalKept ==
    ASSUME NEW A, NEW B, NEW t, A[t] = B[t],
           IsProgramTransaction(A[t]) =>
              /\ B[A[t].multisig].owner_set_seqno = A[A[t].multisig].owner_set_seqno
              /\ B[A[t].multisig].owners = A[A[t].multisig].owners
    PROVE  /\ IsCurrent(A, t) <=> IsCurrent(B, t)
           /\ IsCurrent(A, t) => ProposalAt(A, t) = ProposalAt(B, t)
BY DEF IsCurrent, ProposalAt, IsProgramTransaction

(* A multisig that is made, or changes only its threshold, keeps all.      *)
LEMMA OpenKept ==
    ASSUME TypeOK, TiedInv, NEW m \in Addresses, NEW new, IsProgramMultisig(new),
           accounts' = [accounts EXCEPT ![m] = new],
           \/ accounts[m] = EmptyAccount
           \/ /\ IsProgramMultisig(accounts[m])
              /\ new.owner_set_seqno = accounts[m].owner_set_seqno
              /\ new.owners = accounts[m].owners
    PROVE  Open' = Open
<1>1. /\ accounts'[m] = new
      /\ \A a \in Addresses \ {m} : accounts'[a] = accounts[a]
  BY LedgerTyped
<1>2. ASSUME NEW t \in Addresses \ {m}
      PROVE  /\ IsCurrent(accounts, t) <=> IsCurrent(accounts', t)
             /\ IsCurrent(accounts, t) => ProposalAt(accounts, t) = ProposalAt(accounts', t)
  <2>1. ASSUME IsProgramTransaction(accounts[t])
        PROVE  accounts[t].multisig \in Addresses
               /\ IsProgramMultisig(accounts[accounts[t].multisig])
    BY <2>1, LedgerTyped, TransactionRecord
       DEF TiedInv, TiedAccounts, Tied, IsProgramTransaction, TransactionAccount
  <2>2. IsProgramTransaction(accounts[t]) =>
          /\ accounts'[accounts[t].multisig].owner_set_seqno
               = accounts[accounts[t].multisig].owner_set_seqno
          /\ accounts'[accounts[t].multisig].owners
               = accounts[accounts[t].multisig].owners
    BY <1>1, <2>1 DEF IsProgramMultisig, EmptyAccount
  <2> QED
    BY <1>1, <2>2, ProposalKept
<1>3. ~IsCurrent(accounts, m) /\ ~IsCurrent(accounts', m)
  BY <1>1 DEF IsCurrent, IsProgramMultisig, EmptyAccount
<1> QED
  BY <1>2, <1>3 DEF Open, OpenOf

(* An account is written where no multisig is: the other proposals stay.   *)
LEMMA OthersOpen ==
    ASSUME TypeOK, TiedInv, NEW a \in Addresses, NEW data,
           ~IsProgramMultisig(accounts[a]),
           accounts' = [accounts EXCEPT ![a] = data],
           NEW t \in Addresses \ {a}
    PROVE  /\ IsCurrent(accounts, t) <=> IsCurrent(accounts', t)
           /\ IsCurrent(accounts, t) => ProposalAt(accounts, t) = ProposalAt(accounts', t)
<1>1. \A x \in Addresses \ {a} : accounts'[x] = accounts[x]
  BY LedgerTyped
<1>2. ASSUME IsProgramTransaction(accounts[t])
      PROVE  accounts[t].multisig \in Addresses \ {a}
  BY <1>2, LedgerTyped, TransactionRecord
     DEF TiedInv, TiedAccounts, Tied, IsProgramTransaction, TransactionAccount
<1> QED
  BY <1>1, <1>2, ProposalKept

(* A proposal is closed.                                                   *)
LEMMA OpenClosed ==
    ASSUME TypeOK, TiedInv, NEW t \in TransactionAddresses,
           accounts' = [accounts EXCEPT ![t] = EmptyAccount]
    PROVE  /\ Open' = Promise!Without(Open, {t})
           /\ Multisigs' = Multisigs
<1>1. t \in Addresses /\ ~IsProgramMultisig(accounts[t])
  BY AddressSpacesDisjoint DEF Addresses, KeyPairs, TiedInv, TiedAccounts
<1>2. ~IsCurrent(accounts', t) /\ ~IsProgramMultisig(EmptyAccount)
  BY <1>1, LedgerTyped DEF IsCurrent, EmptyAccount, IsProgramMultisig
<1>3. Open' = Promise!Without(Open, {t})
  <2>1. \A x \in Addresses \ {t} :
           /\ IsCurrent(accounts, x) <=> IsCurrent(accounts', x)
           /\ IsCurrent(accounts, x) => ProposalAt(accounts, x) = ProposalAt(accounts', x)
    BY <1>1, OthersOpen
  <2> QED
    BY <1>2, <2>1 DEF Open, OpenOf, Promise!Without, Promise!Restrict
<1> QED
  BY <1>1, <1>2, <1>3, MultisigsKept

(* A proposal is written, new or approved.                                 *)
LEMMA OpenWritten ==
    ASSUME TypeOK, TiedInv, NEW t \in Addresses, NEW data,
           ~IsProgramMultisig(accounts[t]),
           accounts' = [accounts EXCEPT ![t] = data],
           IsCurrent(accounts', t)
    PROVE  /\ Open' = Promise!With(Open, t, ProposalAt(accounts', t))
           /\ Multisigs' = Multisigs
<1>1. \A x \in Addresses \ {t} :
         /\ IsCurrent(accounts, x) <=> IsCurrent(accounts', x)
         /\ IsCurrent(accounts, x) => ProposalAt(accounts, x) = ProposalAt(accounts', x)
  BY OthersOpen
<1>2. accounts'[t] = data
  BY LedgerTyped
<1>3. ~IsProgramMultisig(data)
  BY <1>2 DEF IsCurrent, IsProgramMultisig
<1>4. Open' = Promise!With(Open, t, ProposalAt(accounts', t))
  BY <1>1 DEF Open, OpenOf, Promise!With
<1> QED
  BY <1>3, <1>4, MultisigsKept

(* A change of owners voids the multisig's proposals.                      *)
LEMMA OpenVoided ==
    ASSUME TypeOK, TiedInv, NEW m \in Addresses, NEW new, IsProgramMultisig(new),
           IsProgramMultisig(accounts[m]),
           new.owner_set_seqno = accounts[m].owner_set_seqno + 1,
           accounts' = [accounts EXCEPT ![m] = new]
    PROVE  Promise!Void(m)
<1>1. /\ accounts'[m] = new
      /\ \A a \in Addresses \ {m} : accounts'[a] = accounts[a]
      /\ accounts[m].owner_set_seqno \in Nat
  BY LedgerTyped, MultisigRecord DEF IsProgramMultisig, MultisigAccount
<1>2. ASSUME NEW t \in Addresses, IsProgramTransaction(accounts[t])
      PROVE  /\ accounts[t].multisig \in Addresses
             /\ accounts[t].owner_set_seqno \in Nat
             /\ accounts[t].multisig = m =>
                  accounts[t].owner_set_seqno <= accounts[m].owner_set_seqno
  <2>1. accounts[t] \in TransactionAccount
    BY <1>2, LedgerTyped, TransactionRecord DEF IsProgramTransaction
  <2> QED
    BY <1>1, <1>2, <2>1 DEF TransactionAccount, TiedInv, TiedAccounts, Tied
<1>3. ~IsCurrent(accounts, m) /\ ~IsCurrent(accounts', m)
  BY <1>1 DEF IsCurrent, IsProgramMultisig
<1>4. ASSUME NEW t \in Addresses \ {m}
      PROVE  /\ IsCurrent(accounts', t) <=>
                  IsCurrent(accounts, t) /\ accounts[t].multisig # m
             /\ IsCurrent(accounts', t) => ProposalAt(accounts, t) = ProposalAt(accounts', t)
  <2>1. CASE ~IsProgramTransaction(accounts[t])
    BY <1>1, <2>1 DEF IsCurrent, IsProgramTransaction
  <2>2. CASE IsProgramTransaction(accounts[t]) /\ accounts[t].multisig # m
    BY <1>1, <1>2, <2>2, ProposalKept
  <2>3. CASE IsProgramTransaction(accounts[t]) /\ accounts[t].multisig = m
    BY <1>1, <1>2, <2>3 DEF IsCurrent
  <2> QED
    BY <2>1, <2>2, <2>3
<1>5. \A t \in DOMAIN Open : Open[t].multisig = accounts[t].multisig
  BY DEF Open, OpenOf, ProposalAt
<1> DEFINE voided == {t \in DOMAIN Open : Open[t].multisig = m}
<1>6. Open' = Promise!Without(Open, voided)
  <2>1. /\ DOMAIN Open = {a \in Addresses : IsCurrent(accounts, a)}
        /\ DOMAIN Open' = {a \in Addresses : IsCurrent(accounts', a)}
        /\ Open' = [t \in DOMAIN Open' |-> ProposalAt(accounts', t)]
        /\ \A t \in DOMAIN Open : Open[t] = ProposalAt(accounts, t)
    BY DEF Open, OpenOf
  <2>2. \A t : t \in DOMAIN Open' <=> t \in DOMAIN Open /\ t \notin voided
    BY <1>3, <1>4, <1>5, <2>1
  <2>3. DOMAIN Open' = DOMAIN Open \ voided
    BY <2>2
  <2>4. \A t \in DOMAIN Open \ voided : ProposalAt(accounts', t) = Open[t]
    BY <1>3, <1>4, <2>1, <2>3
  <2> HIDE DEF voided
  <2> QED
    BY <2>1, <2>3, <2>4 DEF Promise!Without, Promise!Restrict
<1> QED
  BY <1>6 DEF Promise!Void, Open

-----------------------------------------------------------------------------
(* Calls and executions. *)

(* The executions of the abstract specification.                           *)
LEMMA ExecutionsOfStack ==
    ASSUME TypeOK
    PROVE  /\ DOMAIN Executions = DOMAIN stack
           /\ Len(Executions) = Len(stack)
           /\ Executions = << >> <=> stack = << >>
           /\ stack # << >> => Promise!Last(Executions) = ExecutionOf(Last(stack))
<1>1. stack \in Seq(FrameType) /\ Len(stack) \in Nat /\ DOMAIN stack = 1 .. Len(stack)
  BY DEF TypeOK
<1>2. DOMAIN Executions = 1 .. Len(stack)
  BY <1>1 DEF Executions
<1>3. Len(Executions) = Len(stack)
  BY <1>1, <1>2
<1>4. Executions = << >> <=> stack = << >>
  BY <1>1, <1>2, <1>3 DEF Executions
<1>5. stack # << >> => Promise!Last(Executions) = ExecutionOf(Last(stack))
  BY <1>1, <1>3 DEF Promise!Last, Last, Executions
<1> QED
  BY <1>1, <1>2, <1>3, <1>4, <1>5

(* Vouched is the abstract authority.                                      *)
LEMMA AuthorityIsVouched == ASSUME TypeOK PROVE Promise!Authority = Vouched
<1>1. stack \in Seq(FrameType) /\ DOMAIN stack = 1 .. Len(stack) /\ Len(stack) \in Nat
  BY DEF TypeOK
<1> QED
  BY <1>1 DEF Promise!Authority, Vouched, VouchedBelow, ExecutionOf

(* A call is an instruction whose turn it is, under some authority.        *)
LEMMA CallIsOrdered ==
    ASSUME TypeOK, AuthorityInv, NEW op, NEW c \in Calls(op)
    PROVE  /\ c.ix \in Instructions
           /\ c.ix.op = op
           /\ Promise!Ordered(c.ix)
           /\ c.signers \subseteq Promise!Authority
<1>1. c.ix \in Instructions /\ c.ix.op = op
  BY CallType
<1>2. c.signers \subseteq Promise!Authority
  BY CallIsVouched, AuthorityIsVouched
<1>3. batch.signers # {}
  BY CallIsSigned, SignersAreKeyPairs
<1>4. CASE stack = << >>
  <2>1. Executions = << >>
    BY <1>4, ExecutionsOfStack
  <2> QED
    BY <1>1, <1>2, <1>3, <2>1 DEF Promise!Ordered, Executions
<1>5. CASE stack # << >>
  <2>1. Last(stack).rest # << >> /\ c.ix = Head(Last(stack).rest)
    BY <1>5 DEF Calls, TransactionCalls, InvokeSigned
  <2>2. Executions # << >> /\ Promise!Last(Executions).rest = Last(stack).rest
    BY <1>5, ExecutionsOfStack DEF ExecutionOf
  <2> QED
    BY <1>1, <1>2, <2>1, <2>2 DEF Promise!Ordered, Executions
<1> QED
  BY <1>4, <1>5

(* An execution with other instructions left.                              *)
LEMMA RestExcept ==
    ASSUME NEW t, NEW s, NEW r, NEW new
    PROVE  [[transaction |-> t, signer |-> s, rest |-> r] EXCEPT !.rest = new]
             = [transaction |-> t, signer |-> s, rest |-> new]
OBVIOUS

(* The same for the frame it shows.                                        *)
LEMMA TailMaps ==
    ASSUME NEW f \in FrameType
    PROVE  ExecutionOf([f EXCEPT !.rest = Tail(@)])
             = [ExecutionOf(f) EXCEPT !.rest = Tail(@)]
<1>1. /\ [f EXCEPT !.rest = Tail(@)].transaction = f.transaction
      /\ [f EXCEPT !.rest = Tail(@)].pda = f.pda
      /\ [f EXCEPT !.rest = Tail(@)].rest = Tail(f.rest)
  BY DEF FrameType
<1> HIDE DEF FrameType
<1>2. [ExecutionOf(f) EXCEPT !.rest = Tail(f.rest)]
        = [transaction |-> f.transaction, signer |-> f.pda, rest |-> Tail(f.rest)]
  BY RestExcept DEF ExecutionOf
<1>3. ExecutionOf([f EXCEPT !.rest = Tail(@)])
        = [transaction |-> f.transaction, signer |-> f.pda, rest |-> Tail(f.rest)]
  BY <1>1, Zenon DEF ExecutionOf
<1>4. ExecutionOf(f).rest = f.rest
  BY DEF ExecutionOf
<1> QED
  BY <1>2, <1>3, <1>4, Zenon

(* The caller goes on with the rest of its instructions.                   *)
LEMMA RestMaps ==
    ASSUME TypeOK, NEW op, NEW c \in Calls(op)
    PROVE  [k \in DOMAIN RestOfStack |-> ExecutionOf(RestOfStack[k])]
             = Promise!RestOfExecutions
<1>1. CASE stack = << >>
  BY <1>1, ExecutionsOfStack DEF RestOfStack, Promise!RestOfExecutions, Executions
<1>2. CASE stack # << >>
  <2>1. RestOfStack = [stack EXCEPT ![Len(stack)] =
                         [stack[Len(stack)] EXCEPT !.rest = Tail(@)]]
    BY <1>2 DEF RestOfStack
  <2>2. /\ stack \in Seq(FrameType) /\ Len(stack) \in DOMAIN stack
        /\ stack[Len(stack)] \in FrameType
    BY <1>2, LastFrame DEF TypeOK
  <2>3. Promise!RestOfExecutions =
          [Executions EXCEPT ![Len(stack)] =
             [Executions[Len(stack)] EXCEPT !.rest = Tail(@)]]
    BY <1>2, ExecutionsOfStack DEF Promise!RestOfExecutions, Executions
  <2>4. ExecutionOf([stack[Len(stack)] EXCEPT !.rest = Tail(@)])
          = [ExecutionOf(stack[Len(stack)]) EXCEPT !.rest = Tail(@)]
    BY <2>2, TailMaps
  <2> QED
    BY <2>1, <2>2, <2>3, <2>4 DEF Executions
<1> QED
  BY <1>1, <1>2

(* What the handlers that return at once leave.                            *)
LEMMA ReturnMaps ==
    ASSUME TypeOK, NEW op, NEW c \in Calls(op), Return PROVE Promise!Return
<1>1. /\ batch'.signers = batch.signers
      /\ stack' = RestOfStack /\ committed' = committed
  BY RestKeepsAuthority DEF Return
<1>2. Executions' = Promise!RestOfExecutions
  BY <1>1, RestMaps DEF Executions
<1> QED
  BY <1>1, <1>2 DEF Promise!Return, Executions

(* An abstract step, of an instruction whose turn it is.                   *)
LEMMA ProcessStep ==
    ASSUME TypeOK, AuthorityInv, NEW op, NEW c \in Calls(op),
           \/ Promise!Create(c.ix) \/ Promise!Propose(c.ix) \/ Promise!Approve(c.ix)
           \/ Promise!Execute(c.ix) \/ Promise!Cancel(c.ix)
           \/ Promise!SetOwners(c.ix) \/ Promise!ChangeThreshold(c.ix)
           \/ Promise!SetOwnersAndChangeThreshold(c.ix) \/ Promise!Transfer(c.ix)
    PROVE  Promise!Next
BY CallIsOrdered DEF Promise!Next, Promise!Process

-----------------------------------------------------------------------------
(* The handlers, one by one. *)

(* What the program reads of a multisig, and how it shows.                 *)
LEMMA MultisigShown ==
    ASSUME Inv, NEW m \in Addresses, OwnedByProgram({m}), IsMultisig(accounts[m])
    PROVE  /\ accounts[m] \in MultisigAccount
           /\ IsProgramMultisig(accounts[m])
           /\ GoodMultisig(accounts[m])
           /\ m \in DOMAIN Multisigs
           /\ Multisigs[m].owners = ToSet(accounts[m].owners)
           /\ Multisigs[m].threshold = accounts[m].threshold
           /\ Multisigs[m].signer = Pda(m, accounts[m].nonce)
           /\ accounts[m].owners \in Seq(Addresses)
           /\ accounts[m].threshold \in Nat
<1>1. accounts[m] \in MultisigAccount /\ IsProgramMultisig(accounts[m])
  BY MultisigRead DEF Inv
<1>2. m \in DOMAIN Multisigs /\ Multisigs[m] = MultisigAt(accounts, m)
  BY <1>1 DEF Multisigs, MultisigsOf, IsProgramMultisig
<1>3. accounts[m].owners \in Seq(Addresses) /\ accounts[m].threshold \in Nat
  BY <1>1, U8IsNat DEF MultisigAccount
<1> QED
  BY <1>1, <1>2, <1>3 DEF MultisigAt, Inv, GoodInv, GoodAccounts

(* What it reads of a proposal.                                            *)
LEMMA ProposalShown ==
    ASSUME Inv, NEW t \in Addresses, NEW m \in Addresses,
           OwnedByProgram({m, t}), IsTransaction(accounts[t]),
           accounts[t].multisig = m
    PROVE  /\ accounts[t] \in TransactionAccount
           /\ IsProgramTransaction(accounts[t])
           /\ t \in TransactionAddresses
           /\ t \in DOMAIN Open <=>
                 accounts[m].owner_set_seqno = accounts[t].owner_set_seqno
           /\ t \in DOMAIN Open =>
                 Open[t].multisig = m /\ Open[t] = ProposalAt(accounts, t)
<1>1. accounts[t] \in TransactionAccount /\ IsProgramTransaction(accounts[t])
  BY TransactionRead DEF Inv, OwnedByProgram
<1> QED
  BY <1>1 DEF Inv, TiedInv, TiedAccounts, Open, OpenOf, IsCurrent, ProposalAt,
     IsProgramTransaction

(* create_multisig: the new signer is nobody's yet.                        *)
LEMMA CreateMultisigMaps ==
    ASSUME Inv, AuthorityInv, CreateMultisig PROVE Promise!Next
<1>0. TypeOK /\ TiedInv
  BY DEF Inv
<1>1. PICK c \in Calls("create_multisig") :
         /\ ValidateCreate(c)
         /\ CreateAccount(c, c.ix.multisig, NewMultisig(c.ix))
         /\ Return
  BY DEF CreateMultisig
<1> DEFINE m   == c.ix.multisig
           new == NewMultisig(c.ix)
<1>2. /\ m \in MultisigAddresses /\ m \in Addresses
      /\ c.ix.owners \in Seq(Addresses) /\ c.ix.threshold \in U8
      /\ Len(c.ix.owners) < 256
  BY <1>0, CreateIx DEF Addresses, KeyPairs
<1>3. /\ m \in c.signers /\ accounts[m] = EmptyAccount
      /\ accounts' = [accounts EXCEPT ![m] = new]
  BY <1>1 DEF CreateAccount
<1>4. /\ UniqueOwners(c.ix.owners)
      /\ ValidateThreshold(c.ix.threshold, c.ix.owners)
      /\ c.ix.nonce \in BumpSeeds /\ c.ix.multisig_signer = Pda(m, c.ix.nonce)
  BY <1>1 DEF ValidateCreate, ValidatePda
<1>5. 1 <= c.ix.threshold /\ c.ix.threshold <= Cardinality(ToSet(c.ix.owners))
  BY <1>2, <1>4, UniqueIsInjective, OwnersCount, ThresholdBounds
<1>6. ~Promise!Exists(m)
  BY <1>3 DEF Promise!Exists, MultisigsOf, EmptyAccount
<1>7. \A s \in SignerSets : c.ix.multisig_signer \notin s
  <2>1. c.ix.multisig_signer \in Pdas
    BY <1>2, <1>4 DEF Pda, Pdas
  <2> QED
    BY <2>1, SignersAreKeyPairs, AddressSpacesDisjoint
<1>8. \A a \in DOMAIN Multisigs : Multisigs[a].signer # c.ix.multisig_signer
  <2>1. \A a \in DOMAIN Multisigs : Multisigs[a].signer = Pda(a, accounts[a].nonce)
    BY DEF Multisigs, MultisigsOf, MultisigAt
  <2> QED
    BY <1>4, <1>6, <2>1 DEF Pda, Promise!Exists, Multisigs
<1>9. /\ IsProgramMultisig(new) /\ new.owners = c.ix.owners
      /\ new.threshold = c.ix.threshold /\ new.nonce = c.ix.nonce
  BY DEF NewMultisig, IsProgramMultisig
<1> HIDE DEF new
<1>10. Multisigs' = Promise!With(Multisigs, m,
                     [owners |-> ToSet(c.ix.owners), threshold |-> c.ix.threshold,
                      signer |-> c.ix.multisig_signer])
  <2>1. Multisigs' = Promise!With(Multisigs, m,
                     [owners |-> ToSet(new.owners), threshold |-> new.threshold,
                      signer |-> Pda(m, new.nonce)])
    BY <1>0, <1>2, <1>3, <1>9, MultisigWritten
  <2>2. Pda(m, new.nonce) = c.ix.multisig_signer
    BY <1>4, <1>9
  <2> HIDE DEF m
  <2> QED
    BY <1>9, <2>1, <2>2
<1>11. Open' = Open
  BY <1>0, <1>2, <1>3, <1>9, OpenKept
<1>12. Promise!Return /\ c.ix.op = "create_multisig" /\ c.signers \subseteq Promise!Authority
  BY <1>0, <1>1, ReturnMaps, CallIsOrdered
<1>13. Promise!ToSet(c.ix.owners) = ToSet(c.ix.owners)
       /\ Promise!Cardinality(ToSet(c.ix.owners)) = Cardinality(ToSet(c.ix.owners))
  BY DEF Promise!ToSet, ToSet, Promise!Cardinality, Cardinality
<1>14. Promise!Create(c.ix)
  BY <1>2, <1>3, <1>5, <1>6, <1>7, <1>8, <1>10, <1>11, <1>12, <1>13
     DEF Promise!Create, Promise!MayCreate, Multisigs, Open
<1> QED
  BY <1>0, <1>14, ProcessStep

(* Searching a sequence finds its elements.                                *)
LEMMA ContainedIsElement ==
    ASSUME NEW S, NEW s \in Seq(S), NEW e, Contains(s, e)
    PROVE  e \in ToSet(s)
BY DEF Contains, ToSet

(* An owner's signature, as propose, approve, execute and cancel check it. *)
LEMMA OwnerActs ==
    ASSUME Inv, AuthorityInv, NEW op, NEW c \in Calls(op),
           NEW m \in Addresses, OwnedByProgram({m}), IsMultisig(accounts[m]),
           NEW a, a \in c.signers, a \in ToSet(accounts[m].owners)
    PROVE  Promise!IsOwner(m, a)
<1>1. m \in DOMAIN Multisigs /\ a \in Multisigs[m].owners
  BY MultisigShown
<1>2. a \in Promise!Authority
  BY CallIsOrdered DEF Inv
<1> QED
  BY <1>1, <1>2 DEF Promise!IsOwner, Promise!Exists, Multisigs

(* propose_transaction: the first approval is the proposer's.              *)
LEMMA ProposeTransactionMaps ==
    ASSUME Inv, AuthorityInv, ProposeTransaction PROVE Promise!Next
<1>0. TypeOK /\ TiedInv
  BY DEF Inv
<1>1. PICK c \in Calls("propose_transaction") :
         /\ ValidatePropose(c)
         /\ IsMultisig(accounts[c.ix.multisig])
         /\ \E k \in DOMAIN accounts[c.ix.multisig].owners :
               /\ IsPosition(accounts[c.ix.multisig].owners, c.ix.proposer, k)
               /\ CreateAccount(c, c.ix.transaction,
                               NewTransaction(c, accounts[c.ix.multisig], k))
         /\ Return
  BY DEF ProposeTransaction
<1> DEFINE m  == c.ix.multisig
           t  == c.ix.transaction
           ms == accounts[m]
<1>2. PICK k \in DOMAIN ms.owners :
         /\ IsPosition(ms.owners, c.ix.proposer, k)
         /\ CreateAccount(c, t, NewTransaction(c, ms, k))
  BY <1>1
<1> DEFINE new == NewTransaction(c, ms, k)
<1>3. /\ m \in Addresses /\ t \in TransactionAddresses /\ t \in Addresses
      /\ c.ix.instructions # << >> /\ c.ix.proposer \in c.signers
      /\ OwnedByProgram({m})
  BY <1>0, <1>1, ProposeIx DEF ValidatePropose, Addresses, KeyPairs
<1>4. /\ ms \in MultisigAccount /\ IsProgramMultisig(ms) /\ GoodMultisig(ms)
      /\ ms.owners \in Seq(Addresses)
  BY <1>1, <1>3, MultisigShown
<1>5. /\ t \in c.signers /\ accounts[t] = EmptyAccount
      /\ accounts' = [accounts EXCEPT ![t] = new]
  BY <1>2 DEF CreateAccount
<1>6. ~Promise!IsOpen(t) /\ ~IsProgramMultisig(accounts[t]) /\ m # t
  BY <1>4, <1>5
     DEF Promise!IsOpen, OpenOf, IsCurrent, EmptyAccount, IsProgramMultisig
<1>7. new \in TransactionAccount /\ Tied(new, ms)
  BY <1>0, <1>2, <1>3, <1>4, NewTransactionType, TiedNew DEF GoodMultisig
<1>8. /\ IsProgramTransaction(new) /\ new.multisig = m
      /\ new.owner_set_seqno = ms.owner_set_seqno
      /\ new.instructions = c.ix.instructions
      /\ new.approvers = {c.ix.proposer} \cap c.signers
  BY DEF NewTransaction, IsProgramTransaction
<1>9. c.ix.proposer \in ToSet(ms.owners)
  BY <1>2, <1>4, PositionIsOwner
<1> HIDE DEF new
<1>10. accounts'[t] = new /\ accounts'[m] = ms
  BY <1>0, <1>3, <1>5, <1>6, LedgerTyped
<1>11. IsCurrent(accounts', t)
  BY <1>8, <1>10 DEF IsCurrent, IsProgramTransaction
<1>12. ProposalAt(accounts', t).approvals = {c.ix.proposer}
  <2>1. BitsMatch(new, ms)
    BY <1>7, <1>8 DEF Tied
  <2>2. ProposalAt(accounts', t).approvals
          = new.approvers \cap ToSet(ms.owners)
    <3> DEFINE A == accounts'
    <3>1. /\ A[t] \in TransactionAccount /\ A[A[t].multisig] \in MultisigAccount
          /\ BitsMatch(A[t], A[A[t].multisig])
      BY <1>4, <1>7, <1>8, <1>10, <2>1
    <3> HIDE DEF A
    <3>2. ProposalAt(A, t).approvals = A[t].approvers \cap ToSet(A[A[t].multisig].owners)
      BY <3>1, ApprovalsAreSignatures
    <3> QED
      BY <1>8, <1>10, <3>2 DEF A
  <2> QED
    BY <1>3, <1>8, <1>9, <2>2
<1>13. ProposalAt(accounts', t) = Promise!NewProposal(c.ix)
  BY <1>8, <1>10, <1>12 DEF ProposalAt, Promise!NewProposal
<1>14. /\ Open' = Promise!With(Open, t, Promise!NewProposal(c.ix))
       /\ Multisigs' = Multisigs
  BY <1>0, <1>3, <1>5, <1>6, <1>11, <1>13, OpenWritten
<1>15. Promise!Return /\ c.ix.op = "propose_transaction"
       /\ c.signers \subseteq Promise!Authority
  BY <1>0, <1>1, ReturnMaps, CallIsOrdered
<1>16. Promise!IsOwner(m, c.ix.proposer)
  BY <1>1, <1>3, <1>9, OwnerActs
<1>17. Promise!Propose(c.ix)
  BY <1>3, <1>5, <1>6, <1>14, <1>15, <1>16
     DEF Promise!Propose, Promise!MayPropose, Multisigs, Open
<1> QED
  BY <1>0, <1>17, ProcessStep

(* A proposal with other approvals.                                        *)
LEMMA ApprovalsExcept ==
    ASSUME NEW m, NEW instructions, NEW old, NEW more
    PROVE  [[multisig |-> m, instructions |-> instructions, approvals |-> old]
              EXCEPT !.approvals = @ \cup more]
             = [multisig |-> m, instructions |-> instructions,
                approvals |-> old \cup more]
OBVIOUS

(* approve_transaction adds the approver to the approvals.                 *)
LEMMA ApproveTransactionMaps ==
    ASSUME Inv, AuthorityInv, ApproveTransaction PROVE Promise!Next
<1>0. TypeOK /\ TiedInv
  BY DEF Inv
<1>1. PICK c \in Calls("approve_transaction") :
         /\ IsMultisig(accounts[c.ix.multisig])
         /\ IsTransaction(accounts[c.ix.transaction])
         /\ ValidateApprove(c, accounts[c.ix.multisig], accounts[c.ix.transaction])
         /\ \E k \in DOMAIN accounts[c.ix.multisig].owners
                       \cap DOMAIN accounts[c.ix.transaction].signers :
               /\ IsPosition(accounts[c.ix.multisig].owners, c.ix.approver, k)
               /\ accounts' = [accounts EXCEPT ![c.ix.transaction] =
                                 Approved(c, accounts[c.ix.transaction], k)]
         /\ Return
  BY DEF ApproveTransaction
<1> DEFINE m  == c.ix.multisig
           t  == c.ix.transaction
           ms == accounts[m]
           tx == accounts[t]
<1>2. PICK k \in DOMAIN ms.owners \cap DOMAIN tx.signers :
         /\ IsPosition(ms.owners, c.ix.approver, k)
         /\ accounts' = [accounts EXCEPT ![t] = Approved(c, tx, k)]
  BY <1>1
<1> DEFINE new == Approved(c, tx, k)
<1>3. /\ m \in Addresses /\ t \in Addresses
      /\ OwnedByProgram({m, t}) /\ OwnedByProgram({m})
      /\ tx.multisig = m /\ c.ix.approver \in c.signers
      /\ ms.owner_set_seqno = tx.owner_set_seqno
  BY <1>0, <1>1, ApproveIx DEF ValidateApprove, OwnedByProgram
<1>4. /\ ms \in MultisigAccount /\ IsProgramMultisig(ms) /\ GoodMultisig(ms)
      /\ ms.owners \in Seq(Addresses)
  BY <1>1, <1>3, MultisigShown
<1>5. /\ tx \in TransactionAccount /\ IsProgramTransaction(tx)
      /\ t \in DOMAIN Open /\ Open[t] = ProposalAt(accounts, t) /\ Open[t].multisig = m
  BY <1>1, <1>3, ProposalShown
<1>6. BitsMatch(tx, ms) /\ Tied(tx, ms) /\ ~IsProgramMultisig(tx) /\ m # t
  BY <1>0, <1>3, <1>4, <1>5, CurrentProposal
     DEF TiedInv, TiedAccounts, IsProgramMultisig, IsProgramTransaction
<1>7. new \in TransactionAccount /\ Tied(new, ms)
  BY <1>0, <1>2, <1>3, <1>4, <1>5, <1>6, ApprovedType, TiedApproved DEF GoodMultisig
<1>8. /\ IsProgramTransaction(new) /\ new.multisig = m
      /\ new.owner_set_seqno = ms.owner_set_seqno
      /\ new.instructions = tx.instructions
      /\ new.approvers = tx.approvers \cup {c.ix.approver}
  BY <1>3, <1>5 DEF Approved, IsProgramTransaction, TransactionAccount
<1>9. c.ix.approver \in ToSet(ms.owners)
  BY <1>2, <1>4, PositionIsOwner
<1> HIDE DEF new
<1>10. accounts'[t] = new /\ accounts'[m] = ms
  BY <1>0, <1>2, <1>3, <1>6, LedgerTyped DEF new
<1>11. IsCurrent(accounts', t)
  BY <1>8, <1>10 DEF IsCurrent, IsProgramTransaction
<1>12. ProposalAt(accounts', t).approvals
         = ProposalAt(accounts, t).approvals \cup {c.ix.approver}
  <2>1. ProposalAt(accounts, t).approvals = tx.approvers \cap ToSet(ms.owners)
    <3>1. /\ accounts[t] \in TransactionAccount
          /\ accounts[accounts[t].multisig] \in MultisigAccount
          /\ BitsMatch(accounts[t], accounts[accounts[t].multisig])
      BY <1>3, <1>4, <1>5, <1>6
    <3>2. accounts[accounts[t].multisig].owners = ms.owners
      BY <1>3
    <3> HIDE DEF m, t, ms
    <3>3. ProposalAt(accounts, t).approvals
            = accounts[t].approvers \cap ToSet(accounts[accounts[t].multisig].owners)
      BY <3>1, ApprovalsAreSignatures
    <3> QED
      BY <3>2, <3>3 DEF tx
  <2>2. ProposalAt(accounts', t).approvals
          = new.approvers \cap ToSet(ms.owners)
    <3> DEFINE A == accounts'
    <3>1. /\ A[t] \in TransactionAccount /\ A[A[t].multisig] \in MultisigAccount
          /\ BitsMatch(A[t], A[A[t].multisig])
      BY <1>4, <1>7, <1>8, <1>10 DEF Tied
    <3> HIDE DEF A
    <3>2. ProposalAt(A, t).approvals = A[t].approvers \cap ToSet(A[A[t].multisig].owners)
      BY <3>1, ApprovalsAreSignatures
    <3> QED
      BY <1>8, <1>10, <3>2 DEF A
  <2> QED
    BY <1>8, <1>9, <2>1, <2>2
<1>13. ProposalAt(accounts', t)
         = [ProposalAt(accounts, t) EXCEPT !.approvals = @ \cup {c.ix.approver}]
  <2>1. ProposalAt(accounts, t)
          = [multisig |-> m, instructions |-> tx.instructions,
             approvals |-> ProposalAt(accounts, t).approvals]
    BY <1>3 DEF ProposalAt
  <2>2. ProposalAt(accounts', t)
          = [multisig |-> m, instructions |-> tx.instructions,
             approvals |-> ProposalAt(accounts', t).approvals]
    BY <1>8, <1>10 DEF ProposalAt
  <2> QED
    BY <1>12, <2>1, <2>2, ApprovalsExcept
<1>14. /\ Open' = [Open EXCEPT ![t].approvals = @ \cup {c.ix.approver}]
       /\ Multisigs' = Multisigs
  <2>1. Open' = Promise!With(Open, t, ProposalAt(accounts', t)) /\ Multisigs' = Multisigs
    BY <1>0, <1>2, <1>3, <1>6, <1>11, OpenWritten
  <2>2. Promise!With(Open, t, ProposalAt(accounts', t))
          = [Open EXCEPT ![t] = ProposalAt(accounts', t)]
    BY <1>5 DEF Promise!With, Open, OpenOf
  <2>3. [Open EXCEPT ![t].approvals = @ \cup {c.ix.approver}]
          = [Open EXCEPT ![t] = [Open[t] EXCEPT !.approvals = @ \cup {c.ix.approver}]]
    OBVIOUS
  <2> QED
    BY <1>5, <1>13, <2>1, <2>2, <2>3
<1>15. Promise!Return /\ c.ix.op = "approve_transaction"
  BY <1>0, <1>1, ReturnMaps, CallIsOrdered
<1>16. Promise!IsOwner(m, c.ix.approver)
  BY <1>1, <1>3, <1>9, OwnerActs
<1>17. Promise!Approve(c.ix)
  BY <1>5, <1>14, <1>15, <1>16
     DEF Promise!Approve, Promise!MayApprove, Promise!IsOpen, Multisigs, Open
<1> QED
  BY <1>0, <1>17, ProcessStep

(* A call stack that grew by one frame.                                    *)
LEMMA AppendMaps ==
    ASSUME NEW s \in Seq(FrameType), NEW f
    PROVE  [k \in DOMAIN Append(s, f) |-> ExecutionOf(Append(s, f)[k])]
             = Append([k \in DOMAIN s |-> ExecutionOf(s[k])], ExecutionOf(f))
<1> DEFINE e == [k \in DOMAIN s |-> ExecutionOf(s[k])]
           l == [k \in DOMAIN Append(s, f) |-> ExecutionOf(Append(s, f)[k])]
<1>1. /\ Len(s) \in Nat /\ DOMAIN s = 1 .. Len(s)
      /\ DOMAIN Append(s, f) = 1 .. Len(s) + 1
      /\ Append(s, f)[Len(s) + 1] = f
      /\ \A k \in 1 .. Len(s) : Append(s, f)[k] = s[k]
  OBVIOUS
<1>2. /\ e \in Seq({ExecutionOf(s[k]) : k \in DOMAIN s}) /\ Len(e) = Len(s)
      /\ \A k \in 1 .. Len(s) : e[k] = ExecutionOf(s[k])
  BY <1>1
<1> DEFINE r == Append(e, ExecutionOf(f))
<1>3. /\ DOMAIN r = 1 .. Len(s) + 1
      /\ r = [k \in 1 .. Len(s) + 1 |-> r[k]]
      /\ r[Len(s) + 1] = ExecutionOf(f)
      /\ \A k \in 1 .. Len(s) : r[k] = e[k]
  BY <1>1, <1>2
<1> HIDE DEF e, r
<1>4. ASSUME NEW k \in 1 .. Len(s) + 1
      PROVE  r[k] = ExecutionOf(Append(s, f)[k])
  <2>1. CASE k = Len(s) + 1
    <3>1. Append(s, f)[k] = f
      BY <1>1, <2>1
    <3>2. r[k] = ExecutionOf(f)
      BY <1>3, <2>1
    <3> QED
      BY <3>1, <3>2
  <2>2. CASE k \in 1 .. Len(s)
    <3>1. Append(s, f)[k] = s[k]
      BY <1>1, <2>2
    <3>2. r[k] = ExecutionOf(s[k])
      BY <1>2, <1>3, <2>2
    <3> QED
      BY <3>1, <3>2
  <2> QED
    BY <1>1, <2>1, <2>2
<1>5. l = r
  BY <1>1, <1>3, <1>4
<1> QED
  BY <1>5 DEF r, e

(* execute_transaction: at least threshold owners are among the approvals. *)
LEMMA ExecuteTransactionMaps ==
    ASSUME Inv, AuthorityInv, ExecuteTransaction PROVE Promise!Next
<1>0. TypeOK /\ TiedInv
  BY DEF Inv
<1>1. PICK c \in Calls("execute_transaction") :
         /\ ValidateExecute(c, accounts[c.ix.multisig], accounts[c.ix.transaction])
         /\ batch' = RestOfBatch
         /\ stack' = Append(RestOfStack,
                            Frame(c, accounts[c.ix.multisig],
                                  accounts[c.ix.transaction]))
         /\ UNCHANGED <<accounts, committed>>
  BY DEF ExecuteTransaction
<1> DEFINE m  == c.ix.multisig
           t  == c.ix.transaction
           ms == accounts[m]
           tx == accounts[t]
           f  == Frame(c, ms, tx)
<1>2. /\ m \in Addresses /\ t \in Addresses
      /\ OwnedByProgram({m, t}) /\ OwnedByProgram({m})
      /\ IsMultisig(ms) /\ IsTransaction(tx) /\ tx.multisig = m
      /\ ms.owner_set_seqno = tx.owner_set_seqno
      /\ ApprovalCount(tx.signers) >= ms.threshold
      /\ c.ix.executor \in c.signers /\ Contains(ms.owners, c.ix.executor)
  BY <1>0, <1>1, ExecuteIx DEF ValidateExecute, ValidExecutor, OwnedByProgram
<1>3. /\ ms \in MultisigAccount /\ GoodMultisig(ms) /\ ms.threshold \in Nat
      /\ Multisigs[m].threshold = ms.threshold
      /\ Multisigs[m].signer = Pda(m, ms.nonce)
  BY <1>2, MultisigShown
<1>4. /\ tx \in TransactionAccount /\ t \in DOMAIN Open
      /\ Open[t].multisig = m /\ Open[t] = ProposalAt(accounts, t)
  BY <1>2, ProposalShown
<1>5. BitsMatch(tx, ms)
  BY <1>0, <1>2, <1>4, CurrentProposal
<1>6. Cardinality(Open[t].approvals) >= Multisigs[m].threshold
  <2>1. /\ accounts[t] \in TransactionAccount
        /\ accounts[accounts[t].multisig] \in MultisigAccount
        /\ BitsMatch(accounts[t], accounts[accounts[t].multisig])
    BY <1>2, <1>3, <1>4, <1>5
  <2>2. ProposalAt(accounts, t).approvals
          = accounts[t].approvers \cap ToSet(accounts[accounts[t].multisig].owners)
    <3> HIDE DEF t
    <3> QED
      BY <2>1, ApprovalsAreSignatures
  <2>3. Open[t].approvals = tx.approvers \cap ToSet(ms.owners)
    BY <1>2, <1>4, <2>2
  <2> QED
    <3>1. /\ accounts[m] \in MultisigAccount /\ accounts[t] \in TransactionAccount
          /\ GoodMultisig(accounts[m]) /\ BitsMatch(accounts[t], accounts[m])
          /\ Multisigs[m].threshold = ms.threshold /\ ms.threshold \in Nat
          /\ ApprovalCount(accounts[t].signers) >= ms.threshold
          /\ Open[t].approvals = accounts[t].approvers \cap ToSet(accounts[m].owners)
      BY <1>2, <1>3, <1>4, <1>5, <2>3
    <3> HIDE DEF m, t, ms
    <3>2. /\ ApprovalCount(accounts[t].signers) \in Nat
          /\ Cardinality(Open[t].approvals) \in Nat
          /\ ApprovalCount(accounts[t].signers) <= Cardinality(Open[t].approvals)
      BY <3>1, ApprovalsAreOwners
    <3> QED
      BY <3>1, <3>2
<1>7. Promise!Approved(t)
  BY <1>4, <1>6
     DEF Promise!Approved, Promise!Cardinality, Cardinality, Multisigs, Open
<1>8. Promise!IsOwner(m, c.ix.executor)
  <2>1. ms.owners \in Seq(Addresses)
    BY <1>3 DEF MultisigAccount
  <2>2. c.ix.executor \in ToSet(ms.owners)
    <3>1. Contains(ms.owners, c.ix.executor)
      BY <1>2
    <3> HIDE DEF ms
    <3> QED
      BY <2>1, <3>1, ContainedIsElement
  <2> QED
    BY <1>2, <2>2, OwnerActs
<1>9. Executions' = Append(Promise!RestOfExecutions, ExecutionOf(f))
  BY <1>0, <1>1, RestMaps, RestType, AppendMaps DEF Executions
<1>10. ExecutionOf(f) = [transaction |-> t, signer |-> Multisigs[m].signer,
                         rest |-> Open[t].instructions]
  <2>1. f.transaction = t /\ f.pda = Pda(m, ms.nonce) /\ f.rest = tx.instructions
    BY DEF Frame
  <2>2. Open[t].instructions = tx.instructions
    <3>1. ProposalAt(accounts, t).instructions = accounts[t].instructions
      BY DEF ProposalAt
    <3> QED
      BY <1>4, <3>1
  <2> HIDE DEF f
  <2> QED
    BY <1>3, <2>1, <2>2 DEF ExecutionOf
<1> HIDE DEF f
<1>11. batch'.signers = batch.signers /\ c.ix.op = "execute_transaction"
  BY <1>0, <1>1, RestKeepsAuthority, CallType
<1>12. Promise!Execute(c.ix)
  BY <1>1, <1>4, <1>7, <1>8, <1>9, <1>10, <1>11
     DEF Promise!Execute, Promise!MayExecute, Promise!IsOpen, Multisigs, Open, Executions
<1> QED
  BY <1>0, <1>12, ProcessStep

(* The end of an execution closes what is at the proposal's address.       *)
LEMMA FinishExecutionMaps ==
    ASSUME Inv, AuthorityInv, FinishExecution PROVE Promise!Next
<1>0. TypeOK /\ TiedInv
  BY DEF Inv
<1> DEFINE t == Last(stack).transaction
<1>1. /\ stack # << >> /\ Last(stack).rest = << >>
      /\ accounts' = [accounts EXCEPT ![t] = EmptyAccount]
      /\ stack' = Front(stack)
      /\ UNCHANGED <<committed, batch>>
  BY DEF FinishExecution, Complete, CloseAccount
<1>2. t \in TransactionAddresses
  BY <1>0, <1>1, LastFrame DEF Inv, FrameInv, TypeOK
<1>3. /\ Open' = Promise!Without(Open, {t})
      /\ Multisigs' = Multisigs
  BY <1>0, <1>1, <1>2, OpenClosed
<1>4. /\ Executions # << >>
      /\ Promise!Last(Executions).rest = << >>
      /\ Promise!Last(Executions).transaction = t
  BY <1>0, <1>1, ExecutionsOfStack DEF ExecutionOf
<1> HIDE DEF t
<1>5. Executions' = Promise!Front(Executions)
  <2>1. stack \in Seq(FrameType) /\ Len(stack) \in Nat \ {0} /\ Len(Executions) = Len(stack)
    BY <1>0, <1>1, LastFrame, ExecutionsOfStack DEF TypeOK
  <2>2. /\ DOMAIN Front(stack) = 1 .. Len(stack) - 1
        /\ \A k \in 1 .. Len(stack) - 1 : Front(stack)[k] = stack[k]
    BY <2>1 DEF Front
  <2>3. Promise!Front(Executions) = [k \in 1 .. Len(stack) - 1 |-> ExecutionOf(stack[k])]
    BY <2>1 DEF Promise!Front, Executions
  <2> QED
    BY <1>1, <2>2, <2>3 DEF Executions
<1>6. Promise!Finish
  BY <1>1, <1>3, <1>4, <1>5 DEF Promise!Finish, Multisigs, Open, Executions
<1> QED
  BY <1>6 DEF Promise!Next

(* cancel_transaction, also of a proposal that is void.                    *)
LEMMA CancelTransactionMaps ==
    ASSUME Inv, AuthorityInv, CancelTransaction PROVE Promise!Next
<1>0. TypeOK /\ TiedInv
  BY DEF Inv
<1>1. PICK c \in Calls("cancel_transaction") :
         /\ ValidateCancel(c, accounts[c.ix.multisig], accounts[c.ix.transaction])
         /\ accounts' = [accounts EXCEPT ![c.ix.transaction] = EmptyAccount]
         /\ Return
  BY DEF CancelTransaction, CloseAccount
<1> DEFINE m == c.ix.multisig
           t == c.ix.transaction
<1>2. /\ m \in Addresses /\ t \in Addresses
      /\ OwnedByProgram({m, t}) /\ OwnedByProgram({m})
      /\ IsMultisig(accounts[m]) /\ IsTransaction(accounts[t])
      /\ accounts[t].multisig = m
      /\ c.ix.executor \in c.signers /\ Contains(accounts[m].owners, c.ix.executor)
  BY <1>0, <1>1, CancelIx DEF ValidateCancel, ValidExecutor, OwnedByProgram
<1>3. t \in TransactionAddresses /\ (t \in DOMAIN Open => Open[t].multisig = m)
  BY <1>2, ProposalShown
<1>4. Open' = Promise!Without(Open, {t}) /\ Multisigs' = Multisigs
  BY <1>0, <1>1, <1>3, OpenClosed
<1>5. Promise!IsOwner(m, c.ix.executor)
  <2>1. accounts[m].owners \in Seq(Addresses)
    BY <1>0, <1>2, MultisigShown DEF MultisigAccount
  <2>2. c.ix.executor \in ToSet(accounts[m].owners)
    <3>1. Contains(accounts[m].owners, c.ix.executor)
      BY <1>2
    <3> HIDE DEF m
    <3> QED
      BY <2>1, <3>1, ContainedIsElement
  <2> QED
    BY <1>2, <2>2, OwnerActs
<1>6. Promise!Return /\ c.ix.op = "cancel_transaction"
  BY <1>0, <1>1, ReturnMaps, CallIsOrdered
<1>7. Promise!Cancel(c.ix)
  BY <1>3, <1>4, <1>5, <1>6
     DEF Promise!Cancel, Promise!MayCancel, Promise!IsOpen, Multisigs, Open
<1> QED
  BY <1>0, <1>7, ProcessStep

-----------------------------------------------------------------------------
(* The handlers that change a multisig. *)

(* validate_signer: the multisig's own authority.                          *)
LEMMA SignerIsAuthority ==
    ASSUME Inv, AuthorityInv, NEW op, NEW c \in Calls(op),
           c.ix.multisig \in Addresses,
           OwnedByProgram({c.ix.multisig}), IsMultisig(accounts[c.ix.multisig]),
           ValidateSigner(c, accounts[c.ix.multisig])
    PROVE  Promise!Governed(c.ix)
<1>1. /\ c.ix.multisig \in DOMAIN Multisigs
      /\ Multisigs[c.ix.multisig].signer = c.ix.multisig_signer
  BY MultisigShown DEF ValidateSigner, ValidatePda
<1>2. c.ix.multisig_signer \in Promise!Authority
  BY CallIsOrdered DEF Inv, ValidateSigner
<1> QED
  BY <1>1, <1>2 DEF Promise!Governed, Promise!Exists, Multisigs

(* What the three handlers write, and how it shows.                        *)
LEMMA MultisigChanged ==
    ASSUME Inv, NEW m \in Addresses, OwnedByProgram({m}), IsMultisig(accounts[m]),
           NEW new, IsProgramMultisig(new), new.nonce = accounts[m].nonce,
           accounts' = [accounts EXCEPT ![m] = new]
    PROVE  /\ Multisigs' = [Multisigs EXCEPT ![m].owners = ToSet(new.owners),
                                             ![m].threshold = new.threshold]
           /\ new.owners = accounts[m].owners =>
                 Multisigs' = [Multisigs EXCEPT ![m].threshold = new.threshold]
<1>0. TypeOK
  BY DEF Inv
<1>1. PICK s : s = Pda(m, accounts[m].nonce)
  OBVIOUS
<1>2. PICK o : o = ToSet(new.owners)
  OBVIOUS
<1>3. PICK old : old = ToSet(accounts[m].owners)
  OBVIOUS
<1>4. PICK M : M = Multisigs
  OBVIOUS
<1>5. /\ m \in DOMAIN M
      /\ M[m] = [owners |-> old, threshold |-> accounts[m].threshold, signer |-> s]
  BY <1>1, <1>3, <1>4, MultisigShown DEF Multisigs, MultisigsOf, MultisigAt
<1>6. Multisigs' = Promise!With(M, m,
                     [owners |-> o, threshold |-> new.threshold, signer |-> s])
  BY <1>0, <1>1, <1>2, <1>4, MultisigWritten
<1>7. Promise!With(M, m, [owners |-> o, threshold |-> new.threshold, signer |-> s])
        = [M EXCEPT ![m] = [owners |-> o, threshold |-> new.threshold, signer |-> s]]
  <2>1. M = [x \in DOMAIN M |-> M[x]]
    BY <1>4 DEF Multisigs, MultisigsOf
  <2> QED
    BY <1>5, <2>1 DEF Promise!With
<1> DEFINE t == accounts[m].threshold
<1>8. PICK r : r = M[m]
  OBVIOUS
<1>9. r \in [owners : {old}, threshold : {t}, signer : {s}]
  BY <1>5, <1>8
<1>10. ASSUME NEW a, NEW b, NEW q \in [owners : {a}, threshold : {b}, signer : {s}]
       PROVE  q = [owners |-> a, threshold |-> b, signer |-> s]
  OBVIOUS
<1>11. PICK n : n = [r EXCEPT !.owners = o]
  OBVIOUS
<1>12. n \in [owners : {o}, threshold : {t}, signer : {s}]
  BY <1>9, <1>11
<1>13. [n EXCEPT !.threshold = new.threshold]
         = [owners |-> o, threshold |-> new.threshold, signer |-> s]
  <2>1. [n EXCEPT !.threshold = new.threshold]
          \in [owners : {o}, threshold : {new.threshold}, signer : {s}]
    BY <1>12
  <2> QED
    BY <1>10, <2>1
<1>14. [r EXCEPT !.threshold = new.threshold]
         = [owners |-> old, threshold |-> new.threshold, signer |-> s]
  <2>1. [r EXCEPT !.threshold = new.threshold]
          \in [owners : {old}, threshold : {new.threshold}, signer : {s}]
    BY <1>9
  <2> QED
    BY <1>10, <2>1
<1>15. [M EXCEPT ![m].owners = o, ![m].threshold = new.threshold]
         = [M EXCEPT ![m] = [n EXCEPT !.threshold = new.threshold]]
  <2>1. PICK N : N = [M EXCEPT ![m].owners = o]
    OBVIOUS
  <2>2. N = [M EXCEPT ![m] = n]
    BY <1>8, <1>11, <2>1
  <2>3. N[m] = n
    BY <1>5, <2>2
  <2>4. [N EXCEPT ![m].threshold = new.threshold]
          = [N EXCEPT ![m] = [n EXCEPT !.threshold = new.threshold]]
    BY <2>3
  <2>5. PICK p : p = [n EXCEPT !.threshold = new.threshold]
    OBVIOUS
  <2>6. [N EXCEPT ![m] = p] = [M EXCEPT ![m] = p]
    BY <2>2
  <2>7. [M EXCEPT ![m].owners = o, ![m].threshold = new.threshold]
          = [N EXCEPT ![m].threshold = new.threshold]
    BY <2>1
  <2> QED
    BY <2>4, <2>5, <2>6, <2>7, Zenon
<1>16. [M EXCEPT ![m].threshold = new.threshold]
         = [M EXCEPT ![m] = [r EXCEPT !.threshold = new.threshold]]
  BY <1>8
<1>17. Multisigs' = [M EXCEPT ![m].owners = o, ![m].threshold = new.threshold]
  BY <1>6, <1>7, <1>13, <1>15, Zenon
<1>18. new.owners = accounts[m].owners =>
          Multisigs' = [M EXCEPT ![m].threshold = new.threshold]
  <2>1. new.owners = accounts[m].owners => o = old
    BY <1>2, <1>3
  <2> QED
    BY <1>6, <1>7, <1>14, <1>16, <2>1, Zenon
<1> QED
  BY <1>2, <1>4, <1>17, <1>18, Zenon

(* set_owners: the threshold stays or comes down.                          *)
LEMMA SetOwnersMaps ==
    ASSUME Inv, AuthorityInv, SetOwners PROVE Promise!Next
<1>0. TypeOK /\ TiedInv
  BY DEF Inv
<1>1. PICK c \in Calls("set_owners") :
         /\ IsMultisig(accounts[c.ix.multisig])
         /\ OwnedByProgram({c.ix.multisig})
         /\ ValidateSigner(c, accounts[c.ix.multisig])
         /\ ValidateOwners(accounts[c.ix.multisig], c.ix.owners)
         /\ accounts[c.ix.multisig].owner_set_seqno < MaxOwnerSetSeqno
         /\ accounts' = [accounts EXCEPT
                            ![c.ix.multisig] = WithOwners(accounts[c.ix.multisig],
                                                          c.ix.owners)]
         /\ Return
  BY DEF SetOwners, Serialize
<1> DEFINE m   == c.ix.multisig
           ms  == accounts[m]
           new == WithOwners(ms, c.ix.owners)
           n   == Cardinality(ToSet(c.ix.owners))
<1>2. /\ m \in Addresses /\ c.ix.owners \in Seq(Addresses)
      /\ Len(c.ix.owners) < 256 /\ Len(c.ix.owners) \in Nat
  BY <1>0, <1>1, SetOwnersTyped
<1>3. /\ ms \in MultisigAccount /\ IsProgramMultisig(ms)
      /\ m \in DOMAIN Multisigs /\ Multisigs[m].threshold = ms.threshold
  BY <1>1, <1>2, MultisigShown
<1>4. UniqueOwners(c.ix.owners) /\ c.ix.owners # << >>
  BY <1>1 DEF ValidateOwners
<1>5. n = Len(c.ix.owners) /\ AsU8(Len(c.ix.owners)) = n
  BY <1>2, <1>4, UniqueIsInjective, OwnersCount, AsU8Exact
<1>6. /\ new.owners = c.ix.owners /\ new.nonce = ms.nonce
      /\ new.threshold = IF n < ms.threshold THEN n ELSE ms.threshold
  BY <1>3, <1>5 DEF WithOwners, MultisigAccount
<1>7. /\ IsProgramMultisig(new)
      /\ new.owner_set_seqno = ms.owner_set_seqno + 1
  BY <1>1, <1>3, WithOwnersFields
<1> HIDE DEF new
<1>8. Multisigs' = [Multisigs EXCEPT ![m].owners = ToSet(c.ix.owners),
                                     ![m].threshold = new.threshold]
  BY <1>1, <1>2, <1>6, <1>7, MultisigChanged DEF new
<1>9. Promise!Void(m)
  BY <1>0, <1>1, <1>2, <1>3, <1>7, OpenVoided DEF new
<1>10. /\ Promise!Return /\ c.ix.op = "set_owners" /\ Promise!Governed(c.ix)
  BY <1>0, <1>1, <1>2, ReturnMaps, CallIsOrdered, SignerIsAuthority
<1>11. Multisigs' = [Multisigs EXCEPT
                       ![m].owners = Promise!ToSet(c.ix.owners),
                       ![m].threshold =
                         IF Promise!Cardinality(Promise!ToSet(c.ix.owners)) < @
                           THEN Promise!Cardinality(Promise!ToSet(c.ix.owners))
                           ELSE @]
  <2>1. /\ Promise!ToSet(c.ix.owners) = ToSet(c.ix.owners)
        /\ Promise!Cardinality(ToSet(c.ix.owners)) = n
    BY DEF Promise!ToSet, ToSet, Promise!Cardinality, Cardinality
  <2> DEFINE g == [Multisigs EXCEPT ![m].owners = ToSet(c.ix.owners)]
  <2>2. g[m].threshold = ms.threshold
    BY <1>3 DEF Multisigs, MultisigsOf, MultisigAt
  <2> HIDE DEF n
  <2> QED
    BY <1>6, <1>8, <2>1, <2>2
<1>12. Promise!SetOwners(c.ix)
  BY <1>4, <1>9, <1>10, <1>11 DEF Promise!SetOwners, Promise!MaySetOwners, Multisigs
<1> QED
  BY <1>0, <1>12, ProcessStep

(* change_threshold: the open proposals stay open.                         *)
LEMMA ChangeThresholdMaps ==
    ASSUME Inv, AuthorityInv, ChangeThreshold PROVE Promise!Next
<1>0. TypeOK /\ TiedInv
  BY DEF Inv
<1>1. PICK c \in Calls("change_threshold") :
         /\ IsMultisig(accounts[c.ix.multisig])
         /\ OwnedByProgram({c.ix.multisig})
         /\ ValidateSigner(c, accounts[c.ix.multisig])
         /\ ValidateThreshold(c.ix.threshold, accounts[c.ix.multisig].owners)
         /\ accounts' = [accounts EXCEPT
                            ![c.ix.multisig] = WithThreshold(accounts[c.ix.multisig],
                                                             c.ix.threshold)]
         /\ Return
  BY DEF ChangeThreshold, Serialize
<1> DEFINE m   == c.ix.multisig
           ms  == accounts[m]
           new == WithThreshold(ms, c.ix.threshold)
<1>2. m \in Addresses /\ c.ix.threshold \in U8
  BY <1>0, <1>1, ChangeThresholdTyped
<1>3. /\ ms \in MultisigAccount /\ IsProgramMultisig(ms) /\ GoodMultisig(ms)
      /\ ms.owners \in Seq(Addresses) /\ Multisigs[m].owners = ToSet(ms.owners)
  BY <1>1, <1>2, MultisigShown
<1>4. 1 <= c.ix.threshold /\ c.ix.threshold <= Cardinality(Multisigs[m].owners)
  BY <1>1, <1>2, <1>3, OwnersCount, ThresholdBounds DEF GoodMultisig
<1>5. new.nonce = ms.nonce /\ new.threshold = c.ix.threshold
  BY <1>3 DEF WithThreshold, MultisigAccount
<1>6. /\ IsProgramMultisig(new) /\ new.owners = ms.owners
      /\ new.owner_set_seqno = ms.owner_set_seqno
      /\ accounts' = [accounts EXCEPT ![m] = new]
  BY <1>1, <1>3, WithThresholdFields
<1> HIDE DEF new
<1>7. Multisigs' = [Multisigs EXCEPT ![m].threshold = c.ix.threshold]
  <2>1. Multisigs' = [Multisigs EXCEPT ![m].threshold = new.threshold]
    BY <1>1, <1>2, <1>5, <1>6, MultisigChanged, Zenon
  <2> QED
    BY <1>5, <2>1
<1>8. Open' = Open
  BY <1>0, <1>1, <1>2, <1>3, <1>6, OpenKept
<1>9. Promise!Return /\ c.ix.op = "change_threshold" /\ Promise!Governed(c.ix)
  BY <1>0, <1>1, <1>2, ReturnMaps, CallIsOrdered, SignerIsAuthority
<1>10. Promise!ChangeThreshold(c.ix)
  BY <1>4, <1>7, <1>8, <1>9
     DEF Promise!ChangeThreshold, Promise!MayChangeThreshold, Multisigs, Open,
         Promise!Cardinality, Cardinality
<1> QED
  BY <1>0, <1>10, ProcessStep

(* set_owners_and_change_threshold.                                        *)
LEMMA SetOwnersAndChangeThresholdMaps ==
    ASSUME Inv, AuthorityInv, SetOwnersAndChangeThreshold PROVE Promise!Next
<1>0. TypeOK /\ TiedInv
  BY DEF Inv
<1>1. PICK c \in Calls("set_owners_and_change_threshold") :
         /\ IsMultisig(accounts[c.ix.multisig])
         /\ OwnedByProgram({c.ix.multisig})
         /\ ValidateSigner(c, accounts[c.ix.multisig])
         /\ ValidateOwners(accounts[c.ix.multisig], c.ix.owners)
         /\ ValidateThreshold(c.ix.threshold, c.ix.owners)
         /\ accounts[c.ix.multisig].owner_set_seqno < MaxOwnerSetSeqno
         /\ accounts' = [accounts EXCEPT
                            ![c.ix.multisig] =
                              WithThreshold(WithOwners(accounts[c.ix.multisig],
                                                       c.ix.owners),
                                            c.ix.threshold)]
         /\ Return
  BY DEF SetOwnersAndChangeThreshold, Serialize
<1> DEFINE m   == c.ix.multisig
           ms  == accounts[m]
           mid == WithOwners(ms, c.ix.owners)
           new == WithThreshold(mid, c.ix.threshold)
<1>2. /\ m \in Addresses /\ c.ix.owners \in Seq(Addresses)
      /\ c.ix.threshold \in U8 /\ Len(c.ix.owners) < 256
  BY <1>0, <1>1, SetOwnersAndChangeThresholdTyped
<1>3. ms \in MultisigAccount /\ IsProgramMultisig(ms)
  BY <1>1, <1>2, MultisigShown
<1>4. /\ 1 <= c.ix.threshold
      /\ c.ix.threshold <= Cardinality(ToSet(c.ix.owners))
  BY <1>1, <1>2, UniqueIsInjective, OwnersCount, ThresholdBounds DEF ValidateOwners
<1>5. mid \in MultisigAccount
  BY <1>2, <1>3, WithOwnersType
<1>6. /\ IsProgramMultisig(mid) /\ mid.owners = c.ix.owners
      /\ mid.owner_set_seqno = ms.owner_set_seqno + 1 /\ mid.nonce = ms.nonce
  BY <1>1, <1>3, WithOwnersFields DEF WithOwners, MultisigAccount
<1> HIDE DEF mid
<1>7. new.nonce = ms.nonce /\ new.threshold = c.ix.threshold
  BY <1>5, <1>6 DEF WithThreshold, MultisigAccount
<1>8. /\ IsProgramMultisig(new) /\ new.owners = c.ix.owners
      /\ new.owner_set_seqno = ms.owner_set_seqno + 1
  BY <1>5, <1>6, WithThresholdFields
<1>9. accounts' = [accounts EXCEPT ![m] = new]
  BY <1>1 DEF mid
<1> HIDE DEF new
<1>10. Multisigs' = [Multisigs EXCEPT ![m].owners = ToSet(c.ix.owners),
                                      ![m].threshold = c.ix.threshold]
  <2>1. Multisigs' = [Multisigs EXCEPT ![m].owners = ToSet(new.owners),
                                       ![m].threshold = new.threshold]
    BY <1>1, <1>2, <1>7, <1>8, <1>9, MultisigChanged, Zenon
  <2> QED
    BY <1>7, <1>8, <2>1
<1>11. Promise!Void(m)
  BY <1>0, <1>2, <1>3, <1>8, <1>9, OpenVoided
<1>12. /\ Promise!Return /\ c.ix.op = "set_owners_and_change_threshold"
       /\ Promise!Governed(c.ix)
  BY <1>0, <1>1, <1>2, ReturnMaps, CallIsOrdered, SignerIsAuthority
<1>13. /\ Promise!ToSet(c.ix.owners) = ToSet(c.ix.owners)
       /\ Promise!Cardinality(ToSet(c.ix.owners)) = Cardinality(ToSet(c.ix.owners))
  BY DEF Promise!ToSet, ToSet, Promise!Cardinality, Cardinality
<1>14. Promise!SetOwnersAndChangeThreshold(c.ix)
  BY <1>4, <1>10, <1>11, <1>12, <1>13
     DEF Promise!SetOwnersAndChangeThreshold, Promise!MaySetOwnersAndChangeThreshold, Multisigs
<1> QED
  BY <1>0, <1>14, ProcessStep

-----------------------------------------------------------------------------
(* A transfer, and Solana transactions. *)

(* The system program moves only what somebody signs for.                  *)
LEMMA TransferMaps == ASSUME Inv, AuthorityInv, Transfer PROVE Promise!Next
<1>0. TypeOK
  BY DEF Inv
<1>1. PICK c \in Calls("transfer") :
         c.ix.from \in c.signers /\ accounts' = accounts /\ Return
  BY DEF Transfer
<1>2. /\ Promise!Return /\ c.ix.op = "transfer"
      /\ c.ix.from \in Promise!Authority
  BY <1>0, <1>1, ReturnMaps, CallIsOrdered
<1>3. Promise!Transfer(c.ix)
  BY <1>1, <1>2 DEF Promise!Transfer, Promise!MayTransfer
<1> QED
  BY <1>0, <1>3, ProcessStep

(* A Solana transaction starts: somebody has signed it.                    *)
LEMMA BeginMaps == ASSUME AuthorityInv, Begin PROVE Promise!Next
<1>1. PICK s \in SignerSets : batch' = [signers |-> s, left |-> MaxBatch]
  BY DEF Begin
<1>2. batch.signers = {} /\ UNCHANGED <<accounts, committed, stack>>
  BY DEF Begin, Running, Idle
<1>3. Promise!Begin(s)
  BY <1>1, <1>2 DEF Promise!Begin
<1> QED
  BY <1>3 DEF Promise!Next

(* A transaction in progress has signers.                                  *)
LEMMA RunningIsPresent ==
    ASSUME TypeOK, AuthorityInv, Running PROVE batch.signers # {}
BY SignersAreKeyPairs DEF AuthorityInv, Running

(* It commits.                                                             *)
LEMMA CommitMaps == ASSUME Inv, AuthorityInv, Commit PROVE Promise!Next
<1>1. /\ batch.signers # {} /\ stack = << >> /\ stack' = << >>
      /\ accounts' = accounts /\ batch'.signers = {}
      /\ committed'.accounts = accounts
  BY RunningIsPresent DEF Inv, Commit, ledger, Idle
<1>2. Executions = << >> /\ Executions' = Executions
  BY <1>1, ExecutionsOfStack DEF Inv, Executions
<1>3. Promise!Commit
  BY <1>1, <1>2 DEF Promise!Commit, Executions
<1> QED
  BY <1>3 DEF Promise!Next

(* It is rolled back.                                                      *)
LEMMA AbortMaps == ASSUME Inv, AuthorityInv, Abort PROVE Promise!Next
<1>1. /\ batch.signers # {} /\ stack' = << >> /\ batch'.signers = {}
      /\ accounts' = committed.accounts /\ committed' = committed
  BY RunningIsPresent DEF Inv, Abort, Idle
<1>2. Executions' = << >>
  BY <1>1 DEF Executions
<1>3. Promise!Rollback
  BY <1>1, <1>2 DEF Promise!Rollback, Executions
<1> QED
  BY <1>3 DEF Promise!Next

(* The program owns no account at first.                                   *)
LEMMA InitMaps == ASSUME Init PROVE Promise!Init
<1>1. /\ accounts = InitialAccounts /\ committed.accounts = accounts
      /\ batch.signers = {} /\ stack = << >>
  BY DEF Init, ledger, Idle
<1>2. MultisigsOf(accounts) = << >> /\ OpenOf(accounts) = << >>
  <2>1. \A a \in Addresses : accounts[a].program # "multisig"
    BY <1>1, InitialLedger
  <2> QED
    BY <2>1 DEF MultisigsOf, OpenOf, IsCurrent
<1> QED
  BY <1>1, <1>2 DEF Promise!Init

(* A step that changes nothing.                                            *)
LEMMA StutterMaps == ASSUME UNCHANGED vars PROVE UNCHANGED Promise!vars
BY DEF vars, Promise!vars

(* Every step of the program is a step the promise allows.                 *)
LEMMA StepMaps ==
    ASSUME Inv, AuthorityInv, [Next]_vars PROVE [Promise!Next]_(Promise!vars)
<1>1. CASE UNCHANGED vars
  BY <1>1, StutterMaps
<1>2. CASE Begin \/ Commit \/ Abort
  BY <1>2, BeginMaps, CommitMaps, AbortMaps
<1>3. CASE Handler
  BY <1>3, CreateMultisigMaps, ProposeTransactionMaps, ApproveTransactionMaps,
     ExecuteTransactionMaps, FinishExecutionMaps, CancelTransactionMaps,
     SetOwnersMaps, ChangeThresholdMaps, SetOwnersAndChangeThresholdMaps,
     TransferMaps DEF Handler
<1> QED
  BY <1>1, <1>2, <1>3 DEF Next

(* The program keeps its promises, whatever the constants: handlers,       *)
(* executions within executions, commits and rollbacks implement the       *)
(* abstract specification.                                                 *)
THEOREM Implements == Spec => ImplementsPromise
<1>1. Init => Promise!Init
  BY InitMaps
<1>2. Inv /\ AuthorityInv /\ [Next]_vars => [Promise!Next]_(Promise!vars)
  BY StepMaps
<1> QED
  BY <1>1, <1>2, AuthorityAlways, PTL DEF Spec, ImplementsPromise, Promise!Spec
=============================================================================
