--------------------------- MODULE LamportsProofs ---------------------------
(***************************************************************************)
(* Where the lamports go, for every value of the constants of module       *)
(* Multisig.  The rent of a proposal is never lost (RentIsReturned):       *)
(* nobody can take lamports from a proposal, since create_account and      *)
(* transfer debit accounts without data, and close_account empties the one *)
(* it closes.  A multisig pays what its executed proposals say, all of it  *)
(* and nothing else (ExecutionIsAllOrNothing): whatever takes lamports     *)
(* from it is an instruction of an execution in progress, and when that    *)
(* ends all its instructions have been processed.                          *)
(***************************************************************************)
EXTENDS QuorumProofs

(* Every proposal of the program holds at least the rent it was made with. *)
RentHeld(A, L) == \A t \in Addresses : IsProgramTransaction(A[t]) => L[t] >= Rent

(* An execution pays the rent to another account than the proposal's.      *)
RentInv ==
    /\ RentHeld(accounts, lamports)
    /\ RentHeld(committed.accounts, committed.lamports)
    /\ \A k \in DOMAIN stack : stack[k].refundee # stack[k].transaction

(* A step that keeps the rents: no proposal appears without rent, and no   *)
(* other address that holds a proposal afterwards is debited.              *)
LEMMA RentKept ==
    ASSUME TypeOK, RentInv, lamports' \in [Addresses -> Nat],
           \A t \in Addresses : IsProgramTransaction(accounts'[t]) =>
              \/ lamports'[t] >= Rent
              \/ IsProgramTransaction(accounts[t]) /\ lamports'[t] >= lamports[t]
    PROVE  RentHeld(accounts, lamports)'
<1>1. ASSUME NEW t \in Addresses, IsProgramTransaction(accounts'[t])
      PROVE  lamports'[t] >= Rent
  BY <1>1, LedgerTyped, RentIsPositive DEF RentInv, RentHeld
<1> QED
  BY <1>1 DEF RentHeld, IsProgramTransaction

(* create_account debits a payer that has no data.                         *)
LEMMA CreateAccountRent ==
    ASSUME TypeOK, RentInv, NEW op, NEW c \in Calls(op), c.ix.payer \in Addresses,
           NEW new \in Addresses, NEW data \in Account, CreateAccount(c, new, data)
    PROVE  RentHeld(accounts, lamports)'
<1>1. lamports' \in [Addresses -> Nat] /\ Rent \in Nat
  BY CreateAccountType, RentIsPositive
<1>2. /\ accounts[c.ix.payer] = EmptyAccount /\ lamports[new] = 0
      /\ lamports[c.ix.payer] >= Rent /\ Rent # 0
      /\ accounts' = [accounts EXCEPT ![new] = data]
      /\ lamports' = [lamports EXCEPT ![c.ix.payer] = @ - Rent, ![new] = Rent]
  BY RentIsPositive DEF CreateAccount
<1>3. ASSUME NEW t \in Addresses, IsProgramTransaction(accounts'[t])
      PROVE  \/ lamports'[t] >= Rent
             \/ IsProgramTransaction(accounts[t]) /\ lamports'[t] >= lamports[t]
  <2>1. CASE t = new
    BY <1>1, <1>2, <2>1, LedgerTyped
  <2>2. CASE t # new
    <3>1. accounts'[t] = accounts[t]
      BY <1>2, <2>2, LedgerTyped
    <3>2. t # c.ix.payer
      BY <1>2, <1>3, <3>1 DEF IsProgramTransaction, EmptyAccount
    <3>3. lamports'[t] = lamports[t] /\ lamports[t] \in Nat
      BY <1>2, <2>2, <3>2, LedgerTyped
    <3> QED
      BY <1>3, <3>1, <3>3
  <2> QED
    BY <2>1, <2>2
<1> QED
  BY <1>1, <1>3, RentKept

(* close_account: where the lamports go.                                   *)
LEMMA CloseAccountMoves ==
    ASSUME TypeOK, NEW t \in Addresses, NEW r \in Addresses, CloseAccount(t, r)
    PROVE  /\ lamports' \in [Addresses -> Nat]
           /\ accounts'[t] = EmptyAccount
           /\ r # t => lamports'[t] = 0 /\ lamports'[r] = lamports[r] + lamports[t]
           /\ \A a \in Addresses \ {t} :
                 accounts'[a] = accounts[a] /\ lamports'[a] >= lamports[a]
<1>1. lamports \in [Addresses -> Nat] /\ accounts \in [Addresses -> Account]
  BY LedgerTyped
<1> DEFINE cleared == [lamports EXCEPT ![t] = 0]
<1>2. /\ cleared \in [Addresses -> Nat] /\ cleared[t] = 0
      /\ \A a \in Addresses \ {t} : cleared[a] = lamports[a]
  BY <1>1
<1>3. lamports' = [cleared EXCEPT ![r] = cleared[r] + lamports[t]]
  BY DEF CloseAccount
<1>4. accounts' = [accounts EXCEPT ![t] = EmptyAccount]
  BY DEF CloseAccount
<1> HIDE DEF cleared
<1> QED
  BY <1>1, <1>2, <1>3, <1>4, CloseAccountType

(* Nobody but the closed account loses anything.                           *)
LEMMA CloseAccountRent ==
    ASSUME TypeOK, RentInv, NEW t \in Addresses, NEW r \in Addresses,
           CloseAccount(t, r)
    PROVE  RentHeld(accounts, lamports)'
BY CloseAccountMoves, RentKept DEF IsProgramTransaction, EmptyAccount

(* transfer debits an account that has no data.                            *)
LEMMA TransferRent ==
    ASSUME TypeOK, RentInv, Transfer PROVE RentHeld(accounts, lamports)'
<1>1. PICK c \in Calls("transfer") :
         /\ accounts[c.ix.from] = EmptyAccount
         /\ lamports[c.ix.from] >= c.ix.amount
         /\ LET debited == [lamports EXCEPT ![c.ix.from] = @ - c.ix.amount]
            IN  lamports' = [debited EXCEPT ![c.ix.to] = @ + c.ix.amount]
         /\ accounts' = accounts
  BY DEF Transfer
<1>2. c.ix.from \in Addresses /\ c.ix.to \in Addresses /\ c.ix.amount \in Nat
  BY TransferTyped
<1> DEFINE debited == [lamports EXCEPT ![c.ix.from] = lamports[c.ix.from] - c.ix.amount]
<1>3. debited \in [Addresses -> Nat]
      /\ \A a \in Addresses \ {c.ix.from} : debited[a] = lamports[a]
  BY <1>1, <1>2, LedgerTyped
<1>4. lamports' = [debited EXCEPT ![c.ix.to] = debited[c.ix.to] + c.ix.amount]
  BY <1>1
<1> HIDE DEF debited
<1>5. lamports' \in [Addresses -> Nat]
      /\ \A a \in Addresses \ {c.ix.from} : lamports'[a] >= lamports[a]
  BY <1>2, <1>3, <1>4, LedgerTyped
<1>6. ~IsProgramTransaction(accounts[c.ix.from])
  BY <1>1 DEF IsProgramTransaction, EmptyAccount
<1> QED
  BY <1>1, <1>2, <1>5, <1>6, RentKept

(* The handlers that write data at an address that has its lamports.       *)
LEMMA WriteRent ==
    ASSUME TypeOK, RentInv, NEW a \in Addresses, NEW data,
           accounts' = [accounts EXCEPT ![a] = data], lamports' = lamports,
           IsProgramTransaction(data) => IsProgramTransaction(accounts[a])
    PROVE  RentHeld(accounts, lamports)'
<1>1. \A t \in Addresses : IsProgramTransaction(accounts'[t]) =>
         IsProgramTransaction(accounts[t]) /\ lamports'[t] >= lamports[t]
  BY LedgerTyped
<1> QED
  BY <1>1, LedgerTyped, RentKept

-----------------------------------------------------------------------------
(* What the handlers write, and that it is no closed account.              *)

(* approve_transaction writes the proposal it read.                        *)
LEMMA ApproveWrites ==
    ASSUME TypeOK, ApproveTransaction
    PROVE  \E t \in Addresses : \E data :
              /\ accounts' = [accounts EXCEPT ![t] = data]
              /\ lamports' = lamports
              /\ data # EmptyAccount
              /\ IsProgramTransaction(accounts[t])
<1>1. PICK c \in Calls("approve_transaction") :
         /\ OwnedByProgram({c.ix.transaction})
         /\ IsTransaction(accounts[c.ix.transaction])
         /\ \E k \in DOMAIN accounts[c.ix.transaction].signers :
               accounts' = [accounts EXCEPT ![c.ix.transaction] =
                              Approved(c, accounts[c.ix.transaction], k)]
  BY DEF ApproveTransaction, ValidateApprove, OwnedByProgram
<1>2. PICK k \in DOMAIN accounts[c.ix.transaction].signers :
         accounts' = [accounts EXCEPT ![c.ix.transaction] =
                        Approved(c, accounts[c.ix.transaction], k)]
  BY <1>1
<1>3. c.ix.transaction \in Addresses
  BY ApproveIx
<1>4. /\ accounts[c.ix.transaction] \in TransactionAccount
      /\ IsProgramTransaction(accounts[c.ix.transaction])
  BY <1>1, <1>3, TransactionRead
<1>5. Approved(c, accounts[c.ix.transaction], k).kind = "transaction"
  BY <1>4 DEF Approved, TransactionAccount
<1>6. Approved(c, accounts[c.ix.transaction], k) # EmptyAccount
  BY <1>5 DEF EmptyAccount
<1> QED
  BY <1>2, <1>3, <1>4, <1>6 DEF ApproveTransaction

(* The three handlers that change a multisig write a multisig.             *)
LEMMA ChangeWrites ==
    ASSUME TypeOK, SetOwners \/ ChangeThreshold \/ SetOwnersAndChangeThreshold
    PROVE  \E m \in Addresses : \E data :
              /\ accounts' = [accounts EXCEPT ![m] = data]
              /\ lamports' = lamports
              /\ data.kind = "multisig"
              /\ IsProgramMultisig(accounts[m])
<1>1. PICK c \in Calls("set_owners") \cup Calls("change_threshold")
                  \cup Calls("set_owners_and_change_threshold") :
         /\ IsMultisig(accounts[c.ix.multisig])
         /\ OwnedByProgram({c.ix.multisig})
         /\ lamports' = lamports
         /\ LET ms == accounts[c.ix.multisig]
            IN  \/ accounts' = [accounts EXCEPT ![c.ix.multisig] =
                                  WithOwners(ms, c.ix.owners)]
                \/ accounts' = [accounts EXCEPT ![c.ix.multisig] =
                                  WithThreshold(ms, c.ix.threshold)]
                \/ accounts' = [accounts EXCEPT ![c.ix.multisig] =
                                  WithThreshold(WithOwners(ms, c.ix.owners),
                                                c.ix.threshold)]
  BY DEF SetOwners, ChangeThreshold, SetOwnersAndChangeThreshold, Serialize
<1>2. c.ix.multisig \in Addresses
  BY SetOwnersTyped, ChangeThresholdTyped, SetOwnersAndChangeThresholdTyped
<1> DEFINE ms == accounts[c.ix.multisig]
<1>3. ms \in MultisigAccount /\ IsProgramMultisig(ms)
  BY <1>1, <1>2, MultisigRead
<1>4. /\ WithOwners(ms, c.ix.owners).kind = "multisig"
      /\ WithThreshold(ms, c.ix.threshold).kind = "multisig"
      /\ WithThreshold(WithOwners(ms, c.ix.owners), c.ix.threshold).kind = "multisig"
  BY <1>3 DEF WithOwners, WithThreshold, MultisigAccount
<1> QED
  BY <1>1, <1>2, <1>3, <1>4

(* create_account for a new multisig or a new proposal.                    *)
LEMMA CreateWrites ==
    ASSUME TypeOK, CreateMultisig \/ ProposeTransaction
    PROVE  /\ RentInv => RentHeld(accounts, lamports)'
           /\ \E a \in Addresses : \E data :
                 /\ accounts' = [accounts EXCEPT ![a] = data]
                 /\ data # EmptyAccount
<1>1. CASE CreateMultisig
  <2>1. PICK c \in Calls("create_multisig") :
           CreateAccount(c, c.ix.multisig, NewMultisig(c.ix))
    BY <1>1 DEF CreateMultisig
  <2>2. /\ c.ix.multisig \in Addresses /\ c.ix.payer \in Addresses
        /\ NewMultisig(c.ix) \in Account /\ NewMultisig(c.ix) # EmptyAccount
    BY CreateIx, NewMultisigType
       DEF Addresses, KeyPairs, Account, MultisigAccount, EmptyAccount
  <2> QED
    BY <2>1, <2>2, CreateAccountRent DEF CreateAccount
<1>2. CASE ProposeTransaction
  <2>1. PICK c \in Calls("propose_transaction") :
           /\ OwnedByProgram({c.ix.multisig}) /\ IsMultisig(accounts[c.ix.multisig])
           /\ \E k \in DOMAIN accounts[c.ix.multisig].owners :
                 CreateAccount(c, c.ix.transaction,
                               NewTransaction(c, accounts[c.ix.multisig], k))
    BY <1>2 DEF ProposeTransaction, ValidatePropose
  <2>2. PICK k \in DOMAIN accounts[c.ix.multisig].owners :
           CreateAccount(c, c.ix.transaction,
                         NewTransaction(c, accounts[c.ix.multisig], k))
    BY <2>1
  <2>3. /\ c.ix.transaction \in Addresses /\ c.ix.payer \in Addresses
        /\ accounts[c.ix.multisig] \in MultisigAccount
    BY <2>1, ProposeIx, MultisigRead DEF Addresses, KeyPairs
  <2> DEFINE tx == NewTransaction(c, accounts[c.ix.multisig], k)
  <2>4. tx \in Account /\ tx # EmptyAccount
    BY <2>3, NewTransactionType DEF Account, TransactionAccount, EmptyAccount
  <2> QED
    BY <2>2, <2>3, <2>4, CreateAccountRent DEF CreateAccount
<1> QED
  BY <1>1, <1>2

(* cancel_transaction, and the end of an execution: a proposal is closed   *)
(* in favour of another account.                                           *)
LEMMA Closes ==
    ASSUME Inv, RentInv, CancelTransaction \/ FinishExecution
    PROVE  \E t \in Addresses, r \in Addresses : CloseAccount(t, r) /\ r # t
<1>0. TypeOK
  BY DEF Inv
<1>1. CASE CancelTransaction
  BY <1>0, <1>1, CancelIx DEF CancelTransaction, ValidateCancel, ValidRefundee
<1>2. CASE FinishExecution
  BY <1>0, <1>2, LastFrame DEF FinishExecution, RentInv, FrameType, TypeOK
<1> QED
  BY <1>1, <1>2

-----------------------------------------------------------------------------
(* RentInv is inductive, given Inv. *)

(* The ledger's part of it, for the handlers.                              *)
LEMMA HandlerRent ==
    ASSUME Inv, RentInv, Handler PROVE RentHeld(accounts, lamports)'
<1>0. TypeOK
  BY DEF Inv
<1>1. CASE CancelTransaction \/ FinishExecution
  BY <1>0, <1>1, Closes, CloseAccountRent
<1>2. CASE ApproveTransaction
  BY <1>0, <1>2, ApproveWrites, WriteRent
<1>3. CASE SetOwners \/ ChangeThreshold \/ SetOwnersAndChangeThreshold
  BY <1>0, <1>3, ChangeWrites, WriteRent DEF IsProgramTransaction
<1>4. CASE ExecuteTransaction
  BY <1>4 DEF ExecuteTransaction, RentInv, RentHeld
<1> QED
  BY <1>0, <1>1, <1>2, <1>3, <1>4, CreateWrites, TransferRent DEF Handler

(* The executions' part: execute_transaction checks the refundee.          *)
LEMMA FramesRent ==
    ASSUME TypeOK, RentInv, Handler
    PROVE  \A k \in DOMAIN stack' : stack'[k].refundee # stack'[k].transaction
<1>1. ASSUME NEW op, NEW c \in Calls(op)
      PROVE  /\ RestOfStack \in Seq(FrameType)
             /\ \A k \in DOMAIN RestOfStack :
                   RestOfStack[k].refundee # RestOfStack[k].transaction
  BY RestKeepsAuthority DEF RentInv
<1>2. CASE ExecuteTransaction
  <2>1. PICK c \in Calls("execute_transaction") :
           /\ ValidRefundee(c)
           /\ stack' = Append(RestOfStack,
                              Frame(c, accounts[c.ix.multisig],
                                    accounts[c.ix.transaction]))
    BY <1>2 DEF ExecuteTransaction, ValidateExecute
  <2> DEFINE f == Frame(c, accounts[c.ix.multisig], accounts[c.ix.transaction])
  <2>2. f.refundee # f.transaction
    BY <2>1 DEF Frame, ValidRefundee
  <2> HIDE DEF f
  <2>3. stack' = Append(RestOfStack, f)
    BY <2>1 DEF f
  <2> QED
    BY <1>1, <2>2, <2>3
<1>3. CASE FinishExecution
  BY <1>3, LastFrame DEF FinishExecution, Front, RentInv, TypeOK
<1>4. CASE ~ExecuteTransaction /\ ~FinishExecution
  <2>1. \E op : \E c \in Calls(op) : stack' = RestOfStack
    BY <1>4 DEF Handler, CreateMultisig, ProposeTransaction, ApproveTransaction,
                CancelTransaction, SetOwners, ChangeThreshold,
                SetOwnersAndChangeThreshold, Transfer, Serialize, Return
  <2> QED
    BY <1>1, <2>1
<1> QED
  BY <1>2, <1>3, <1>4

(* Every step.                                                             *)
LEMMA RentStep == ASSUME Inv, RentInv, [Next]_vars PROVE RentInv'
<1>0. TypeOK
  BY DEF Inv
<1>1. CASE Begin \/ Commit \/ Abort \/ UNCHANGED vars
  BY <1>1 DEF Begin, Commit, Abort, vars, RentInv, RentHeld, ledger
<1>2. CASE Handler
  <2>1. committed' = committed
    BY <1>2 DEF Handler, CreateMultisig, ProposeTransaction, ApproveTransaction,
                ExecuteTransaction, FinishExecution, CancelTransaction, SetOwners,
                ChangeThreshold, SetOwnersAndChangeThreshold, Transfer,
                Serialize, Return
  <2> QED
    BY <1>0, <1>2, <2>1, HandlerRent, FramesRent DEF RentInv, RentHeld
<1> QED
  BY <1>1, <1>2 DEF Next

(* It is an invariant, beside Inv.                                         *)
LEMMA RentAlways == Spec => [](Inv /\ RentInv)
<1>1. Init => Inv /\ RentInv
  BY InvInit, InitialLedger
     DEF Init, RentInv, RentHeld, IsProgramTransaction, ledger
<1>2. Inv /\ RentInv /\ [Next]_vars => (Inv /\ RentInv)'
  BY InvStep, RentStep
<1> QED
  BY <1>1, <1>2, PTL DEF Spec

(* What was on a closed proposal goes to another account, all of it, and   *)
(* that is at least the rent (close_account and the refundee check).       *)
THEOREM RentIsReturnedAlways == Spec => RentIsReturned
<1>1. ASSUME Inv, RentInv, [Next]_vars, ~Abort, NEW t \in ProgramTransactions,
             accounts'[t] = EmptyAccount
      PROVE  /\ lamports[t] >= Rent
             /\ lamports'[t] = 0
             /\ \E r \in Addresses : lamports'[r] = lamports[r] + lamports[t]
  <2>1. TypeOK /\ t \in Addresses /\ IsProgramTransaction(accounts[t])
    BY <1>1 DEF Inv, ProgramTransactions, IsProgramTransaction
  <2>2. accounts'[t] # accounts[t]
    BY <1>1, <2>1 DEF IsProgramTransaction, EmptyAccount
  <2>3. CASE CancelTransaction \/ FinishExecution
    BY <1>1, <2>1, <2>2, <2>3, Closes, CloseAccountMoves DEF RentInv, RentHeld
  <2>4. CASE \/ ExecuteTransaction \/ Transfer \/ Begin \/ Commit \/ UNCHANGED vars
    BY <2>2, <2>4 DEF ExecuteTransaction, Transfer, Begin, Commit, vars
  <2>5. CASE ApproveTransaction
    BY <1>1, <2>1, <2>2, <2>5, ApproveWrites, LedgerTyped
  <2>6. CASE SetOwners \/ ChangeThreshold \/ SetOwnersAndChangeThreshold
    <3>1. PICK m \in Addresses : \E data :
             /\ accounts' = [accounts EXCEPT ![m] = data]
             /\ data.kind = "multisig"
      BY <2>1, <2>6, ChangeWrites
    <3>2. m = t
      BY <2>1, <2>2, <3>1, LedgerTyped
    <3>3. accounts'[t].kind = "multisig"
      BY <2>1, <3>1, <3>2, LedgerTyped
    <3> QED
      BY <1>1, <3>3 DEF EmptyAccount
  <2>7. CASE CreateMultisig \/ ProposeTransaction
    BY <1>1, <2>1, <2>2, <2>7, CreateWrites, LedgerTyped
  <2> QED
    BY <1>1, <2>3, <2>4, <2>5, <2>6, <2>7 DEF Next, Handler
<1>2. Inv /\ RentInv /\ [Next]_vars =>
        [~Abort =>
           \A t \in ProgramTransactions :
              accounts'[t] = EmptyAccount =>
                 /\ lamports[t] >= Rent
                 /\ lamports'[t] = 0
                 /\ \E r \in Addresses : lamports'[r] = lamports[r] + lamports[t]]_vars
  BY <1>1
<1> QED
  BY <1>2, RentAlways, PTL DEF Spec, RentIsReturned

-----------------------------------------------------------------------------
(* Counting lamports one by one.                                           *)

(* What an instruction takes from an address is a number of lamports.      *)
LEMMA CostType ==
    ASSUME NEW i \in Instructions, NEW p PROVE Cost(i, p) \in Nat
BY InstructionsTyped, RentIsPositive DEF Cost, IsInstruction

LEMMA Interval ==
    ASSUME NEW c \in Nat
    PROVE  IsFiniteSet(1 .. c) /\ Cardinality(1 .. c) = c
<1>0. 1 \in Int /\ c \in Int
  OBVIOUS
<1>1. IsFiniteSet(1 .. c) /\ Cardinality(1 .. c) = IF 1 > c THEN 0 ELSE c - 1 + 1
  BY <1>0, FS_Interval, Zenon
<1> QED
  BY <1>1

(* A block of lamports with a name of its own adds its size.               *)
LEMMA BlockAdded ==
    ASSUME NEW U, IsFiniteSet(U), NEW B, IsFiniteSet(B), NEW n,
           \A x \in U : x[1] # n
    PROVE  /\ IsFiniteSet(U \cup ({n} \X B))
           /\ Cardinality(U \cup ({n} \X B)) = Cardinality(U) + Cardinality(B)
<1> DEFINE N == {n} \X B
<1>1. IsFiniteSet({n}) /\ Cardinality({n}) = 1
  BY FS_Singleton
<1>2. /\ Cardinality(U) \in Nat /\ Cardinality(B) \in Nat
  BY FS_CardinalityType
<1>3. IsFiniteSet(N) /\ Cardinality(N) = Cardinality({n}) * Cardinality(B)
  BY <1>1, FS_Product
<1>4. Cardinality(N) = Cardinality(B)
  BY <1>1, <1>2, <1>3
<1>5. U \cap N = {}
  OBVIOUS
<1> HIDE DEF N
<1>6. Cardinality(U \cap N) = 0
  BY <1>5, FS_EmptySet
<1>7. /\ IsFiniteSet(U \cup N)
      /\ Cardinality(U \cup N) = Cardinality(U) + Cardinality(N) - Cardinality(U \cap N)
  BY <1>3, FS_Union
<1> QED
  BY <1>2, <1>4, <1>6, <1>7 DEF N

(* Blocks with names 1 to n: so many sets of lamports, together.           *)
Blocks(F, n) == UNION {{k} \X F[k] : k \in 1 .. n}

LEMMA BlocksFinite ==
    ASSUME NEW n \in Nat, NEW F, \A k \in 1 .. n : IsFiniteSet(F[k])
    PROVE  IsFiniteSet(Blocks(F, n)) /\ Cardinality(Blocks(F, n)) \in Nat
<1> DEFINE block == [k \in 1 .. n |-> {k} \X F[k]]
           blocks == {block[k] : k \in 1 .. n}
<1>1. block \in Surjection(1 .. n, blocks)
  BY DEF Surjection
<1>2. IsFiniteSet(1 .. n)
  BY Interval
<1>3. IsFiniteSet(blocks)
  BY <1>1, <1>2, FS_Surjection
<1>4. ASSUME NEW b \in blocks PROVE IsFiniteSet(b)
  <2>1. PICK k \in 1 .. n : b = {k} \X F[k]
    OBVIOUS
  <2> QED
    BY <2>1, FS_Singleton, FS_Product
<1>5. blocks = {{k} \X F[k] : k \in 1 .. n}
  OBVIOUS
<1> HIDE DEF blocks
<1>6. IsFiniteSet(UNION blocks)
  BY <1>3, <1>4, FS_UNION
<1> QED
  BY <1>5, <1>6, FS_CardinalityType DEF Blocks

(* One more block.                                                         *)
LEMMA BlocksGrow ==
    ASSUME NEW n \in Nat, NEW F, NEW G,
           \A k \in 1 .. n : IsFiniteSet(F[k]) /\ G[k] = F[k],
           IsFiniteSet(G[n + 1])
    PROVE  Cardinality(Blocks(G, n + 1)) = Cardinality(Blocks(F, n)) + Cardinality(G[n + 1])
<1> DEFINE U == Blocks(F, n)
<1>1. IsFiniteSet(U)
  BY BlocksFinite
<1>2. \A x \in U : x[1] # n + 1
  BY DEF Blocks
<1>3. Blocks(G, n + 1) = U \cup ({n + 1} \X G[n + 1])
  <2>1. 1 .. n + 1 = (1 .. n) \cup {n + 1}
    OBVIOUS
  <2>2. {{k} \X G[k] : k \in 1 .. n + 1}
          = {{k} \X F[k] : k \in 1 .. n} \cup {{n + 1} \X G[n + 1]}
    BY <2>1
  <2> QED
    BY <2>2 DEF Blocks
<1> DEFINE N == {n + 1} \X G[n + 1]
<1> HIDE DEF U
<1>4. Cardinality(U \cup N) = Cardinality(U) + Cardinality(G[n + 1])
  BY <1>1, <1>2, BlockAdded
<1> HIDE DEF N
<1> QED
  BY <1>3, <1>4 DEF N, U

(* A list with one more instruction charges the cost of that.              *)
LEMMA ChargesGrow ==
    ASSUME NEW p, NEW s \in Seq(Instructions), NEW r \in Seq(Instructions),
           Len(r) = Len(s) + 1, \A k \in 1 .. Len(s) : r[k] = s[k]
    PROVE  /\ Cardinality(Charges(s, p)) \in Nat
           /\ Cardinality(Charges(r, p))
                = Cardinality(Charges(s, p)) + Cost(r[Len(r)], p)
<1> DEFINE n == Len(s)
           F == [k \in 1 .. n |-> 1 .. Cost(s[k], p)]
           G == [k \in 1 .. n + 1 |-> 1 .. Cost(r[k], p)]
<1>1. /\ n \in Nat /\ DOMAIN s = 1 .. n /\ DOMAIN r = 1 .. n + 1
      /\ \A k \in 1 .. n : s[k] \in Instructions
      /\ r[n + 1] \in Instructions
  OBVIOUS
<1>2. \A k \in 1 .. n : IsFiniteSet(F[k]) /\ G[k] = F[k]
  BY <1>1, Interval, CostType
<1>3. IsFiniteSet(G[n + 1]) /\ Cardinality(G[n + 1]) = Cost(r[n + 1], p)
  BY <1>1, Interval, CostType
<1>4. /\ Charges(s, p) = Blocks(F, n)
      /\ Charges(r, p) = Blocks(G, n + 1)
  BY <1>1 DEF Charges, Blocks
<1> HIDE DEF F, G
<1>5. Cardinality(Charges(s, p)) \in Nat
  BY <1>1, <1>2, <1>4, BlocksFinite
<1>6. Cardinality(Charges(r, p)) = Cardinality(Charges(s, p)) + Cardinality(G[n + 1])
  BY <1>1, <1>2, <1>3, <1>4, BlocksGrow
<1> QED
  BY <1>1, <1>3, <1>5, <1>6

(* What a list of instructions charges is finite.                          *)
LEMMA ChargesFinite ==
    ASSUME NEW p, NEW s \in Seq(Instructions)
    PROVE  IsFiniteSet(Charges(s, p)) /\ Cardinality(Charges(s, p)) \in Nat
<1> DEFINE F == [k \in 1 .. Len(s) |-> 1 .. Cost(s[k], p)]
<1>1. \A k \in 1 .. Len(s) : IsFiniteSet(F[k])
  BY Interval, CostType
<1>2. Charges(s, p) = Blocks(F, Len(s))
  BY DEF Charges, Blocks
<1> HIDE DEF F
<1> QED
  BY <1>1, <1>2, BlocksFinite

(* What several lists charge is finite as well.                            *)
LEMMA AllChargesFinite ==
    ASSUME NEW p, NEW L \in Seq(Seq(Instructions))
    PROVE  /\ IsFiniteSet(AllCharges(L, p))
           /\ Cardinality(AllCharges(L, p)) \in Nat
<1> DEFINE F == [k \in 1 .. Len(L) |-> Charges(L[k], p)]
<1>1. \A k \in 1 .. Len(L) : IsFiniteSet(F[k])
  BY ChargesFinite
<1>2. AllCharges(L, p) = Blocks(F, Len(L))
  BY DEF AllCharges, Blocks
<1> HIDE DEF F
<1> QED
  BY <1>1, <1>2, BlocksFinite

(* One more list.                                                          *)
LEMMA AllChargesGrow ==
    ASSUME NEW p, NEW L \in Seq(Seq(Instructions)), NEW M \in Seq(Seq(Instructions)),
           Len(M) = Len(L) + 1, \A k \in 1 .. Len(L) : M[k] = L[k]
    PROVE  /\ Cardinality(AllCharges(L, p)) \in Nat
           /\ Cardinality(Charges(M[Len(M)], p)) \in Nat
           /\ Cardinality(AllCharges(M, p))
                = Cardinality(AllCharges(L, p)) + Cardinality(Charges(M[Len(M)], p))
<1> DEFINE n == Len(L)
           F == [k \in 1 .. n |-> Charges(L[k], p)]
           G == [k \in 1 .. n + 1 |-> Charges(M[k], p)]
<1>1. /\ n \in Nat /\ DOMAIN L = 1 .. n /\ DOMAIN M = 1 .. n + 1
      /\ \A k \in 1 .. n : L[k] \in Seq(Instructions)
      /\ M[n + 1] \in Seq(Instructions)
  OBVIOUS
<1>2. \A k \in 1 .. n : IsFiniteSet(F[k]) /\ G[k] = F[k]
  BY <1>1, ChargesFinite
<1>3. G[n + 1] = Charges(M[Len(M)], p) /\ IsFiniteSet(G[n + 1])
      /\ Cardinality(G[n + 1]) \in Nat
  BY <1>1, ChargesFinite
<1>4. /\ AllCharges(L, p) = Blocks(F, n)
      /\ AllCharges(M, p) = Blocks(G, n + 1)
  BY <1>1 DEF AllCharges, Blocks
<1> HIDE DEF F, G
<1>5. Cardinality(AllCharges(L, p)) \in Nat
  BY AllChargesFinite
<1>6. Cardinality(AllCharges(M, p)) = Cardinality(AllCharges(L, p)) + Cardinality(G[n + 1])
  <2>1. n \in Nat /\ IsFiniteSet(G[n + 1])
    BY <1>1, <1>3
  <2> HIDE DEF n
  <2>2. Cardinality(Blocks(G, n + 1)) = Cardinality(Blocks(F, n)) + Cardinality(G[n + 1])
    BY <1>2, <2>1, BlocksGrow
  <2> QED
    BY <1>4, <2>2
<1> QED
  BY <1>3, <1>5, <1>6

-----------------------------------------------------------------------------
(* What executions have paid: the instructions of the executed proposals   *)
(* and those an execution in progress has behind it.                       *)

Lists(E) == [k \in DOMAIN E |-> E[k].instructions]

First(s, n) == [k \in 1 .. n |-> s[k]]

Done(f) == First(f.instructions, Len(f.instructions) - Len(f.rest))

DoneLists(S) == [k \in DOMAIN S |-> Done(S[k])]

Paid(p, E, S) ==
    Cardinality(AllCharges(Lists(E), p)) + Cardinality(AllCharges(DoneLists(S), p))

(* An address with l lamports that has paid so much.                       *)
Even(p, l, paid) ==
    /\ l + paid >= InitialLamports[p]
    /\ NeverCredited(p) => l + paid = InitialLamports[p]

(* The rest of an execution is the end of its proposal's instructions.     *)
Ends(s, r) ==
    /\ Len(r) <= Len(s)
    /\ \A k \in 1 .. Len(r) : r[k] = s[Len(s) - Len(r) + k]

InOrder(f) ==
    /\ Ends(f.instructions, f.rest)
    /\ \E i \in Instructions : i.op = "execute_transaction" /\ i.refundee = f.refundee

PaidInv ==
    /\ \A k \in DOMAIN stack : InOrder(stack[k])
    /\ \A p \in Pdas : Even(p, lamports[p], Paid(p, executed, stack))
    /\ \A p \in Pdas :
          Even(p, committed.lamports[p], Paid(p, committed.executed, << >>))

LEMMA ListOf ==
    ASSUME NEW A, NEW n \in Nat, NEW s \in [1 .. n -> A]
    PROVE  s \in Seq(A) /\ Len(s) = n
OBVIOUS

(* The lists are lists of instructions.                                    *)
LEMMA ListsTyped ==
    ASSUME TypeOK, \A k \in DOMAIN stack : InOrder(stack[k])
    PROVE  /\ Lists(executed) \in Seq(Seq(Instructions))
           /\ Len(Lists(executed)) = Len(executed)
           /\ DoneLists(stack) \in Seq(Seq(Instructions))
           /\ Len(DoneLists(stack)) = Len(stack)
<1>1. executed \in Seq([id : Nat, instructions : Seq(Instructions)])
  BY LedgerTyped
<1>2. stack \in Seq(FrameType)
  BY DEF TypeOK
<1>3. ASSUME NEW k \in DOMAIN executed PROVE executed[k].instructions \in Seq(Instructions)
  <2> DEFINE E == [id : Nat, instructions : Seq(Instructions)]
  <2>1. \A e \in E : e.instructions \in Seq(Instructions)
    OBVIOUS
  <2>2. executed \in Seq(E)
    BY <1>1
  <2> HIDE DEF E
  <2>3. executed[k] \in E
    BY <2>2
  <2> QED
    BY <2>1, <2>3
<1>4. ASSUME NEW k \in DOMAIN stack PROVE Done(stack[k]) \in Seq(Instructions)
  <2>1. stack[k] \in FrameType
    BY <1>2
  <2>2. /\ stack[k].instructions \in Seq(Instructions)
        /\ stack[k].rest \in Seq(Instructions)
    BY <2>1 DEF FrameType
  <2>3. Len(stack[k].rest) <= Len(stack[k].instructions)
    BY DEF InOrder, Ends
  <2> QED
    BY <2>2, <2>3 DEF Done, First
<1>5. Lists(executed) \in [1 .. Len(executed) -> Seq(Instructions)]
  BY <1>1, <1>3 DEF Lists
<1>6. DoneLists(stack) \in [1 .. Len(stack) -> Seq(Instructions)]
  BY <1>2, <1>4 DEF DoneLists
<1>7. Len(executed) \in Nat /\ Len(stack) \in Nat
  BY <1>1, <1>2
<1> QED
  BY <1>5, <1>6, <1>7, ListOf

(* What an execution has done when it starts and when it ends.             *)
LEMMA DoneAtEnds ==
    ASSUME NEW f \in FrameType
    PROVE  /\ f.rest = f.instructions => Done(f) = << >>
           /\ f.rest = << >> => Done(f) = f.instructions
<1>1. f.instructions \in Seq(Instructions)
  BY DEF FrameType
<1> DEFINE n == Len(f.instructions)
<1>2. /\ n \in Nat /\ n - n = 0 /\ n - 0 = n /\ 1 .. 0 = {} /\ Len(<< >>) = 0
      /\ f.instructions = [k \in 1 .. n |-> f.instructions[k]]
  BY <1>1
<1>3. ASSUME f.rest = f.instructions PROVE Done(f) = << >>
  <2>1. Done(f) = [k \in 1 .. 0 |-> f.instructions[k]]
    BY <1>2, <1>3 DEF Done, First
  <2> QED
    BY <2>1
<1>4. ASSUME f.rest = << >> PROVE Done(f) = f.instructions
  <2>1. Len(f.rest) = 0
    BY <1>2, <1>4
  <2> QED
    BY <1>2, <2>1 DEF Done, First
<1> QED
  BY <1>3, <1>4

(* No instructions, no charges.                                            *)
LEMMA NoCharges ==
    ASSUME NEW p
    PROVE  /\ Cardinality(Charges(<< >>, p)) = 0
           /\ Cardinality(AllCharges(<< >>, p)) = 0
<1>1. Charges(<< >>, p) = {} /\ AllCharges(<< >>, p) = {}
  BY DEF Charges, AllCharges
<1> QED
  BY <1>1, FS_EmptySet

(* The lists before the innermost execution's.                             *)
LEMMA LastPaid ==
    ASSUME NEW p, NEW L \in Seq(Seq(Instructions)), Len(L) > 0
    PROVE  LET F == First(L, Len(L) - 1)
           IN  /\ F \in Seq(Seq(Instructions)) /\ Len(F) = Len(L) - 1
               /\ Cardinality(AllCharges(F, p)) \in Nat
               /\ Cardinality(Charges(L[Len(L)], p)) \in Nat
               /\ Cardinality(AllCharges(L, p))
                    = Cardinality(AllCharges(F, p)) + Cardinality(Charges(L[Len(L)], p))
<1> DEFINE n == Len(L) - 1
           F == First(L, Len(L) - 1)
<1>1. /\ n \in Nat /\ \A k \in 1 .. n : L[k] \in Seq(Instructions)
  OBVIOUS
<1>2. F \in [1 .. n -> Seq(Instructions)]
  BY <1>1 DEF First
<1> HIDE DEF n
<1>3. F \in Seq(Seq(Instructions)) /\ Len(F) = n
  BY <1>1, <1>2, ListOf
<1>4. Len(L) = Len(F) + 1 /\ \A k \in 1 .. Len(F) : L[k] = F[k]
  BY <1>3 DEF n, First
<1>5. /\ Cardinality(AllCharges(F, p)) \in Nat
      /\ Cardinality(Charges(L[Len(L)], p)) \in Nat
      /\ Cardinality(AllCharges(L, p))
           = Cardinality(AllCharges(F, p)) + Cardinality(Charges(L[Len(L)], p))
  BY <1>3, <1>4, AllChargesGrow
<1> QED
  BY <1>3, <1>5 DEF n

(* r is the end of s: with its head taken it still is, and what comes      *)
(* before it in s is longer by that head.                                  *)
LEMMA HeadTaken ==
    ASSUME NEW A, NEW s \in Seq(A), NEW r \in Seq(A), Ends(s, r), r # << >>
    PROVE  LET b == First(s, Len(s) - Len(r))
               a == First(s, Len(s) - Len(Tail(r)))
           IN  /\ Ends(s, Tail(r)) /\ a \in Seq(A) /\ b \in Seq(A)
               /\ Len(a) = Len(b) + 1 /\ \A k \in 1 .. Len(b) : a[k] = b[k]
               /\ a[Len(a)] = Head(r)
<1> DEFINE d == Len(s) - Len(r)
           q == Tail(r)
           b == First(s, Len(s) - Len(r))
           a == First(s, Len(s) - Len(q))
<1>0. Len(r) <= Len(s) /\ \A k \in 1 .. Len(r) : r[k] = s[Len(s) - Len(r) + k]
  BY DEF Ends
<1>1. /\ Len(r) \in Nat \ {0} /\ Len(s) \in Nat /\ d \in Nat /\ d + 1 <= Len(s)
      /\ d + 1 \in Nat
  BY <1>0
<1>2. /\ Len(q) = Len(r) - 1 /\ \A k \in 1 .. Len(q) : q[k] = r[k + 1]
  OBVIOUS
<1>3. Len(s) - Len(q) = d + 1
  BY <1>1, <1>2
<1>4. \A k \in 1 .. Len(q) : q[k] = s[d + 1 + k]
  BY <1>0, <1>1, <1>2
<1>5. Head(r) = s[d + 1]
  BY <1>0, <1>1
<1>6. a = [k \in 1 .. d + 1 |-> s[k]] /\ b = [k \in 1 .. d |-> s[k]]
  BY <1>3 DEF First
<1> HIDE DEF d, a, b
<1>7. (\A k \in 1 .. d + 1 : s[k] \in A) /\ (\A k \in 1 .. d : s[k] \in A)
  BY <1>1
<1>8. a \in [1 .. d + 1 -> A] /\ b \in [1 .. d -> A]
  <2>1. a \in [1 .. d + 1 -> A]
    BY <1>6, <1>7
  <2>2. b \in [1 .. d -> A]
    BY <1>6, <1>7
  <2> QED
    BY <2>1, <2>2
<1>9. a \in Seq(A) /\ b \in Seq(A) /\ Len(a) = d + 1 /\ Len(b) = d
  BY <1>1, <1>8, ListOf
<1>10. Ends(s, q)
  BY <1>1, <1>2, <1>3, <1>4 DEF Ends
<1>11. /\ Len(a) = Len(b) + 1 /\ a[Len(a)] = Head(r)
       /\ \A k \in 1 .. Len(b) : a[k] = b[k]
  BY <1>1, <1>5, <1>6, <1>9
<1> QED
  BY <1>9, <1>10, <1>11 DEF a, b

(* The innermost execution gets on by one instruction.                     *)
LEMMA CallDone ==
    ASSUME TypeOK, PaidInv, NEW op, NEW c \in Calls(op), stack # << >>
    PROVE  LET n == Len(stack)
           IN  /\ n \in DOMAIN stack /\ DOMAIN RestOfStack = DOMAIN stack
               /\ RestOfStack \in Seq(FrameType)
               /\ \A k \in DOMAIN stack \ {n} : RestOfStack[k] = stack[k]
               /\ RestOfStack[n].refundee = stack[n].refundee
               /\ InOrder(RestOfStack[n])
               /\ Done(stack[n]) \in Seq(Instructions)
               /\ Done(RestOfStack[n]) \in Seq(Instructions)
               /\ Len(Done(RestOfStack[n])) = Len(Done(stack[n])) + 1
               /\ \A k \in 1 .. Len(Done(stack[n])) :
                     Done(RestOfStack[n])[k] = Done(stack[n])[k]
               /\ Done(RestOfStack[n])[Len(Done(RestOfStack[n]))] = c.ix
<1> DEFINE n == Len(stack)
           f == stack[n]
           g == [f EXCEPT !.rest = Tail(@)]
<1>1. /\ stack \in Seq(FrameType) /\ n \in DOMAIN stack /\ n \in Nat
      /\ f \in FrameType /\ Last(stack) = f
  BY LastFrame DEF TypeOK
<1>2. /\ f.rest \in Seq(Instructions) /\ f.rest # << >>
      /\ f.instructions \in Seq(Instructions) /\ InOrder(f)
  BY <1>1, CallInProgress DEF FrameType, PaidInv
<1>3. c.ix = Head(f.rest)
  BY <1>1 DEF Calls, TransactionCalls, InvokeSigned
<1>4. /\ g.rest = Tail(f.rest) /\ g.instructions = f.instructions
      /\ g.refundee = f.refundee
  BY <1>1 DEF FrameType
<1>5. RestOfStack = [stack EXCEPT ![n] = g]
  BY DEF RestOfStack
<1> HIDE DEF f
<1>6. RestOfStack \in Seq(FrameType)
  BY RestType
<1>7. /\ DOMAIN RestOfStack = DOMAIN stack /\ RestOfStack[n] = g
      /\ \A k \in DOMAIN stack \ {n} : RestOfStack[k] = stack[k]
  BY <1>1, <1>5
<1> DEFINE done == Done(f)
           more == Done(g)
<1>8. /\ done = First(f.instructions, Len(f.instructions) - Len(f.rest))
      /\ more = First(f.instructions, Len(f.instructions) - Len(Tail(f.rest)))
  BY <1>4 DEF Done
<1> HIDE DEF g, done, more
<1>9. Ends(f.instructions, f.rest)
  BY <1>2 DEF InOrder
<1>10. /\ Ends(f.instructions, Tail(f.rest))
       /\ done \in Seq(Instructions) /\ more \in Seq(Instructions)
       /\ Len(more) = Len(done) + 1 /\ \A k \in 1 .. Len(done) : more[k] = done[k]
       /\ more[Len(more)] = c.ix
  <2> DEFINE s == f.instructions
             r == f.rest
             b == First(s, Len(s) - Len(r))
             a == First(s, Len(s) - Len(Tail(r)))
  <2>1. /\ s \in Seq(Instructions) /\ r \in Seq(Instructions)
        /\ Ends(s, r) /\ r # << >>
    BY <1>2, <1>9
  <2> HIDE DEF s, r
  <2>2. /\ Ends(s, Tail(r)) /\ a \in Seq(Instructions) /\ b \in Seq(Instructions)
        /\ Len(a) = Len(b) + 1 /\ \A k \in 1 .. Len(b) : a[k] = b[k]
        /\ a[Len(a)] = Head(r)
    BY <2>1, HeadTaken
  <2>3. done = b /\ more = a
    BY <1>8 DEF s, r
  <2> HIDE DEF a, b
  <2> QED
    BY <1>3, <2>2, <2>3 DEF s, r
<1>11. InOrder(g)
  BY <1>2, <1>4, <1>10 DEF InOrder
<1> QED
  BY <1>1, <1>4, <1>6, <1>7, <1>10, <1>11 DEF f, done, more

(* So the executions in progress have paid its cost more.                  *)
LEMMA RestPaid ==
    ASSUME TypeOK, PaidInv, NEW op, NEW c \in Calls(op), NEW p
    PROVE  /\ RestOfStack \in Seq(FrameType)
           /\ \A k \in DOMAIN RestOfStack : InOrder(RestOfStack[k])
           /\ DoneLists(RestOfStack) \in Seq(Seq(Instructions))
           /\ Len(DoneLists(RestOfStack)) = Len(RestOfStack)
           /\ Cardinality(AllCharges(DoneLists(stack), p)) \in Nat
           /\ stack = << >> => RestOfStack = << >>
           /\ stack # << >> =>
                Cardinality(AllCharges(DoneLists(RestOfStack), p))
                  = Cardinality(AllCharges(DoneLists(stack), p)) + Cost(c.ix, p)
<1>0. RestOfStack \in Seq(FrameType) /\ stack \in Seq(FrameType)
  BY RestType DEF TypeOK
<1>1. CASE stack = << >>
  <2>1. RestOfStack = stack
    BY <1>1 DEF RestOfStack
  <2>2. DoneLists(stack) \in Seq(Seq(Instructions)) /\ Len(DoneLists(stack)) = Len(stack)
    BY ListsTyped DEF PaidInv
  <2>3. Cardinality(AllCharges(DoneLists(stack), p)) \in Nat
    BY <2>2, AllChargesFinite
  <2>4. \A k \in DOMAIN RestOfStack : InOrder(RestOfStack[k])
    BY <2>1 DEF PaidInv
  <2> QED
    BY <1>0, <1>1, <2>1, <2>2, <2>3, <2>4
<1>2. CASE stack # << >>
  <2> DEFINE n == Len(stack)
             L == DoneLists(stack)
             M == DoneLists(RestOfStack)
             F == First(L, Len(L) - 1)
             s == Done(stack[n])
             r == Done(RestOfStack[n])
  <2>1. /\ n \in DOMAIN stack /\ DOMAIN RestOfStack = DOMAIN stack
        /\ \A k \in DOMAIN stack \ {n} : RestOfStack[k] = stack[k]
        /\ InOrder(RestOfStack[n])
        /\ s \in Seq(Instructions) /\ r \in Seq(Instructions)
        /\ Len(r) = Len(s) + 1 /\ \A k \in 1 .. Len(s) : r[k] = s[k]
        /\ r[Len(r)] = c.ix
    BY <1>2, CallDone
  <2>2. /\ L \in Seq(Seq(Instructions)) /\ Len(L) = n /\ n \in Nat \ {0}
        /\ DOMAIN stack = 1 .. n
    BY <1>0, <1>2, ListsTyped DEF PaidInv
  <2>3. /\ \A k \in 1 .. n : L[k] = Done(stack[k])
        /\ \A k \in 1 .. n : M[k] = Done(RestOfStack[k])
        /\ DOMAIN M = 1 .. n
    BY <2>1, <2>2 DEF DoneLists
  <2>4. L[n] = s /\ M[n] = r
    BY <2>2, <2>3
  <2>5. M = [k \in 1 .. n |-> M[k]]
    BY <2>3 DEF DoneLists
  <2> HIDE DEF L, M, s, r, n
  <2>6. ASSUME NEW k \in 1 .. n - 1 PROVE M[k] = L[k] /\ L[k] \in Seq(Instructions)
    <3>1. k \in 1 .. n /\ k \in DOMAIN stack \ {n}
      BY <2>2
    <3>2. M[k] = L[k]
      BY <2>1, <2>3, <3>1
    <3>3. L[k] \in Seq(Instructions)
      BY <2>2, <3>1
    <3> QED
      BY <3>2, <3>3
  <2>7. \A k \in 1 .. n : k = n \/ k \in 1 .. n - 1
    BY <2>2
  <2>8. M \in [1 .. n -> Seq(Instructions)]
    BY <2>1, <2>4, <2>5, <2>6, <2>7
  <2>9. M \in Seq(Seq(Instructions)) /\ Len(M) = n
    BY <2>2, <2>8, ListOf
  <2>10. /\ F \in Seq(Seq(Instructions)) /\ Len(F) = n - 1
        /\ Cardinality(AllCharges(F, p)) \in Nat
        /\ Cardinality(Charges(L[n], p)) \in Nat
        /\ Cardinality(AllCharges(L, p))
             = Cardinality(AllCharges(F, p)) + Cardinality(Charges(L[n], p))
    <3>1. Len(L) > 0
      BY <2>2
    <3>2. /\ F \in Seq(Seq(Instructions)) /\ Len(F) = Len(L) - 1
          /\ Cardinality(AllCharges(F, p)) \in Nat
          /\ Cardinality(Charges(L[Len(L)], p)) \in Nat
          /\ Cardinality(AllCharges(L, p))
               = Cardinality(AllCharges(F, p)) + Cardinality(Charges(L[Len(L)], p))
      BY <2>2, <3>1, LastPaid
    <3> QED
      BY <2>2, <3>2
  <2>11. \A k \in 1 .. n - 1 : F[k] = L[k]
    BY <2>2 DEF First
  <2> HIDE DEF F
  <2>12. Cardinality(AllCharges(M, p))
          = Cardinality(AllCharges(F, p)) + Cardinality(Charges(M[n], p))
    <3>1. Len(M) = Len(F) + 1 /\ \A k \in 1 .. Len(F) : M[k] = F[k]
      BY <2>2, <2>6, <2>9, <2>10, <2>11
    <3>2. Cardinality(AllCharges(M, p))
            = Cardinality(AllCharges(F, p)) + Cardinality(Charges(M[Len(M)], p))
      BY <2>9, <2>10, <3>1, AllChargesGrow
    <3> QED
      BY <2>9, <3>2
  <2>13. Cardinality(Charges(r, p)) = Cardinality(Charges(s, p)) + Cost(c.ix, p)
    BY <2>1, ChargesGrow
  <2>14. Cost(c.ix, p) \in Nat
    BY CallType, CostType
  <2>15. Cardinality(AllCharges(M, p)) = Cardinality(AllCharges(L, p)) + Cost(c.ix, p)
         /\ Cardinality(AllCharges(L, p)) \in Nat
    BY <2>4, <2>10, <2>12, <2>13, <2>14
  <2>16. \A k \in DOMAIN RestOfStack : InOrder(RestOfStack[k])
    BY <2>1 DEF PaidInv
  <2>17. Len(RestOfStack) = n
    BY <1>0, <2>1, <2>2
  <2> QED
    BY <1>0, <1>2, <2>9, <2>15, <2>16, <2>17 DEF L, M
<1> QED
  BY <1>1, <1>2

-----------------------------------------------------------------------------
(* What the actions take from the signers of multisigs. *)

(* An action that takes what the instruction costs, no more.               *)
Takes(i, p, before, after) ==
    /\ after + Cost(i, p) >= before
    /\ NeverCredited(p) => after + Cost(i, p) = before

(* The arithmetic of a charge: what a call costs moves from the balance    *)
(* to the sum of the charges.                                              *)
LEMMA ChargeKeepsEven ==
    ASSUME NEW p, NEW before \in Nat, NEW after \in Nat,
           InitialLamports[p] \in Nat, NEW paid \in Nat, NEW cost \in Nat,
           Even(p, before, paid), after + cost >= before,
           NeverCredited(p) => after + cost = before
    PROVE  Even(p, after, paid + cost)
BY DEF Even

(* A handler that returns keeps the balance.                               *)
LEMMA ReturnPaid ==
    ASSUME TypeOK, PaidInv, NEW op, NEW c \in Calls(op), stack' = RestOfStack,
           executed' = executed, lamports' \in [Addresses -> Nat],
           \A p \in Pdas :
              /\ stack = << >> => Cost(c.ix, p) = 0
              /\ Takes(c.ix, p, lamports[p], lamports'[p])
    PROVE  /\ \A k \in DOMAIN stack' : InOrder(stack'[k])
           /\ \A p \in Pdas : Even(p, lamports'[p], Paid(p, executed', stack'))
<1>1. \A k \in DOMAIN stack' : InOrder(stack'[k])
  BY RestPaid
<1>2. ASSUME NEW p \in Pdas PROVE Even(p, lamports'[p], Paid(p, executed', stack'))
  <2> DEFINE e == Cardinality(AllCharges(Lists(executed), p))
             b == Cardinality(AllCharges(DoneLists(stack), p))
             a == Cardinality(AllCharges(DoneLists(RestOfStack), p))
  <2>1. Even(p, lamports[p], e + b)
    BY DEF PaidInv, Paid
  <2>2. b \in Nat /\ (stack # << >> => a = b + Cost(c.ix, p))
        /\ (stack = << >> => a = b)
    BY RestPaid
  <2>3. e \in Nat
    BY ListsTyped, AllChargesFinite DEF PaidInv
  <2>4. Cost(c.ix, p) \in Nat
    BY CallType, CostType
  <2>5. p \in Addresses /\ lamports[p] \in Nat /\ InitialLamports[p] \in Nat
    BY LedgerTyped, InitialLedger DEF Addresses
  <2>6. lamports'[p] \in Nat
    BY <2>5
  <2>7. a = b + Cost(c.ix, p)
    BY <2>2, <2>4
  <2> DEFINE before == lamports[p]
             after  == lamports'[p]
             cost   == Cost(c.ix, p)
  <2>8. after + cost >= before /\ (NeverCredited(p) => after + cost = before)
    BY DEF Takes
  <2>9. e + b \in Nat /\ e + a = (e + b) + cost
    <3> HIDE DEF a, b, e, cost
    <3> QED
      BY <2>2, <2>3, <2>4, <2>7 DEF cost
  <2> HIDE DEF a, b, e, before, after, cost
  <2>10. Even(p, after, (e + b) + cost)
    <3>1. /\ before \in Nat /\ after \in Nat /\ cost \in Nat
          /\ InitialLamports[p] \in Nat /\ Even(p, before, e + b)
      BY <2>1, <2>4, <2>5, <2>6 DEF before, after, cost
    <3> QED
      BY <2>8, <2>9, <3>1, ChargeKeepsEven
  <2>11. Even(p, lamports'[p], e + a)
    BY <2>9, <2>10 DEF after
  <2> QED
    BY <2>11 DEF Paid, a, e
<1> QED
  BY <1>1, <1>2

(* No multisig's signer signs a Solana transaction: that takes a key pair. *)
LEMMA SolanaSignersAreKeyPairs ==
    ASSUME TypeOK, NEW op, NEW c \in Calls(op), stack = << >>, NEW p \in Pdas
    PROVE  p \notin c.signers
<1>1. c.signers = batch.signers
  BY DEF Calls, TransactionCalls, InvokeSigned
<1>2. batch.signers \subseteq KeyPairs
  BY DEF TypeOK
<1> QED
  BY <1>1, <1>2, AddressSpacesDisjoint

(* create_account takes the rent from its payer.                           *)
LEMMA CreateAccountTakes ==
    ASSUME TypeOK, NEW op \in {"create_multisig", "propose_transaction"},
           NEW c \in Calls(op), c.ix.payer \in Addresses,
           NEW new \in MultisigAddresses \cup TransactionAddresses, NEW data,
           CreateAccount(c, new, data), NEW p \in Pdas
    PROVE  /\ stack = << >> => Cost(c.ix, p) = 0
           /\ Takes(c.ix, p, lamports[p], lamports'[p])
<1>1. /\ c.ix.op = op /\ p \in Addresses /\ p # new
      /\ lamports \in [Addresses -> Nat] /\ Rent \in Nat
  BY CallType, LedgerTyped, RentIsPositive, AddressSpacesDisjoint
     DEF Addresses, KeyPairs
<1>2. /\ c.ix.payer \in c.signers /\ lamports[c.ix.payer] >= Rent
      /\ lamports' = [lamports EXCEPT ![c.ix.payer] = @ - Rent, ![new] = Rent]
  BY DEF CreateAccount
<1>3. Cost(c.ix, p) = IF c.ix.payer = p THEN Rent ELSE 0
  BY <1>1 DEF Cost
<1>4. CASE c.ix.payer = p
  <2>1. stack # << >>
    BY <1>2, <1>4, SolanaSignersAreKeyPairs
  <2>2. lamports'[p] = lamports[p] - Rent /\ lamports[p] \in Nat
    BY <1>1, <1>2, <1>4
  <2> QED
    BY <1>1, <1>3, <1>4, <2>1, <2>2 DEF Takes
<1>5. CASE c.ix.payer # p
  <2>1. lamports'[p] = lamports[p] /\ lamports[p] \in Nat
    BY <1>1, <1>2, <1>5
  <2> QED
    BY <1>3, <1>5, <2>1 DEF Takes
<1> QED
  BY <1>4, <1>5

(* close_account takes nothing from a multisig's signer.                   *)
LEMMA CloseAccountGives ==
    ASSUME TypeOK, NEW t \in TransactionAddresses, NEW r \in Addresses,
           CloseAccount(t, r), NEW p \in Pdas
    PROVE  /\ lamports \in [Addresses -> Nat] /\ lamports' \in [Addresses -> Nat]
           /\ p \in Addresses
           /\ lamports'[p] >= lamports[p]
           /\ r # p => lamports'[p] = lamports[p]
<1>1. /\ t \in Addresses /\ p \in Addresses /\ p # t
      /\ lamports \in [Addresses -> Nat] /\ lamports' \in [Addresses -> Nat]
  BY LedgerTyped, CloseAccountMoves, AddressSpacesDisjoint DEF Addresses, KeyPairs
<1>2. lamports'[p] >= lamports[p]
  BY <1>1, CloseAccountMoves
<1> DEFINE cleared == [lamports EXCEPT ![t] = 0]
<1>3. cleared \in [Addresses -> Nat] /\ cleared[p] = lamports[p]
  BY <1>1
<1>4. lamports' = [cleared EXCEPT ![r] = cleared[r] + lamports[t]]
  BY DEF CloseAccount
<1> HIDE DEF cleared
<1>5. r # p => lamports'[p] = lamports[p]
  BY <1>1, <1>3, <1>4
<1> QED
  BY <1>1, <1>2, <1>5

(* transfer takes its amount from its payer, who has signed.               *)
LEMMA TransferTakes ==
    ASSUME TypeOK, NEW c \in Calls("transfer"), NEW p \in Pdas,
           c.ix.from \in c.signers, lamports[c.ix.from] >= c.ix.amount,
           LET debited == [lamports EXCEPT ![c.ix.from] = @ - c.ix.amount]
           IN  lamports' = [debited EXCEPT ![c.ix.to] = @ + c.ix.amount]
    PROVE  /\ stack = << >> => Cost(c.ix, p) = 0
           /\ Takes(c.ix, p, lamports[p], lamports'[p])
<1>1. /\ c.ix.op = "transfer" /\ p \in Addresses /\ c.ix \in Instructions
      /\ lamports \in [Addresses -> Nat]
      /\ c.ix.from \in Addresses /\ c.ix.to \in Addresses /\ c.ix.amount \in Nat
  BY CallType, LedgerTyped, TransferTyped DEF Addresses
<1> DEFINE debited == [lamports EXCEPT ![c.ix.from] = lamports[c.ix.from] - c.ix.amount]
<1>2. /\ debited \in [Addresses -> Nat]
      /\ debited[p] = IF c.ix.from = p THEN lamports[p] - c.ix.amount ELSE lamports[p]
  BY <1>1
<1>3. lamports' = [debited EXCEPT ![c.ix.to] = debited[c.ix.to] + c.ix.amount]
  OBVIOUS
<1> HIDE DEF debited
<1>4. lamports'[p] = IF c.ix.to = p THEN debited[p] + c.ix.amount ELSE debited[p]
  BY <1>1, <1>2, <1>3
<1>5. Cost(c.ix, p) = IF c.ix.from = p THEN c.ix.amount ELSE 0
  BY <1>1 DEF Cost
<1>6. stack = << >> => c.ix.from # p
  BY SolanaSignersAreKeyPairs
<1>7. NeverCredited(p) => c.ix.to # p
  BY <1>1 DEF NeverCredited
<1>8. lamports[p] \in Nat
  BY <1>1
<1> QED
  BY <1>1, <1>2, <1>4, <1>5, <1>6, <1>7, <1>8 DEF Takes

(* What every handler but execute_transaction does.                        *)
LEMMA HandlerTakes ==
    ASSUME Inv, Handler, ~ExecuteTransaction, ~FinishExecution
    PROVE  \E op : \E c \in Calls(op) :
              /\ stack' = RestOfStack /\ executed' = executed
              /\ lamports' \in [Addresses -> Nat]
              /\ \A p \in Pdas :
                    /\ stack = << >> => Cost(c.ix, p) = 0
                    /\ Takes(c.ix, p, lamports[p], lamports'[p])
<1>0. /\ TypeOK /\ lamports \in [Addresses -> Nat]
      /\ \A p \in Pdas : p \in Addresses
  BY LedgerTyped DEF Inv, Addresses
<1>1. lamports' \in [Addresses -> Nat]
  <2>1. TypeOK'
    BY <1>0, TypeStep DEF Next
  <2> QED
    BY <2>1 DEF TypeOK, LedgerType, ledger
<1>2. CASE CreateMultisig
  <2>1. PICK c \in Calls("create_multisig") :
           /\ CreateAccount(c, c.ix.multisig, NewMultisig(c.ix))
           /\ stack' = RestOfStack /\ executed' = executed
    BY <1>2 DEF CreateMultisig, Return
  <2>2. c.ix.multisig \in MultisigAddresses /\ c.ix.payer \in Addresses
    BY <1>0, CreateIx
  <2> QED
    BY <1>0, <1>1, <2>1, <2>2, CreateAccountTakes
<1>3. CASE ProposeTransaction
  <2>1. PICK c \in Calls("propose_transaction") :
           /\ \E data : CreateAccount(c, c.ix.transaction, data)
           /\ stack' = RestOfStack /\ executed' = executed
    BY <1>3 DEF ProposeTransaction, Return
  <2>2. c.ix.transaction \in TransactionAddresses /\ c.ix.payer \in Addresses
    BY <1>0, ProposeIx
  <2> QED
    BY <1>0, <1>1, <2>1, <2>2, CreateAccountTakes
<1>4. CASE CancelTransaction
  <2>1. PICK c \in Calls("cancel_transaction") :
           /\ OwnedByProgram({c.ix.transaction})
           /\ IsTransaction(accounts[c.ix.transaction])
           /\ CloseAccount(c.ix.transaction, c.ix.refundee)
           /\ stack' = RestOfStack /\ executed' = executed
    BY <1>4 DEF CancelTransaction, ValidateCancel, OwnedByProgram, Return
  <2>2. c.ix.transaction \in TransactionAddresses /\ c.ix.refundee \in Addresses
    BY <1>0, <2>1, CancelIx, TransactionRead DEF Inv, TiedInv, TiedAccounts
  <2>3. c.ix \in Instructions /\ c.ix.op = "cancel_transaction"
    BY <1>0, CallType
  <2>4. ASSUME NEW p \in Pdas
        PROVE  Cost(c.ix, p) = 0 /\ Takes(c.ix, p, lamports[p], lamports'[p])
    <3>1. Cost(c.ix, p) = 0
      BY <2>3 DEF Cost
    <3>2. NeverCredited(p) => c.ix.refundee # p
      BY <2>3 DEF NeverCredited
    <3> QED
      BY <1>0, <1>1, <2>1, <2>2, <3>1, <3>2, CloseAccountGives DEF Takes
  <2> QED
    BY <1>1, <2>1, <2>4
<1>5. CASE \/ ApproveTransaction \/ SetOwners \/ ChangeThreshold
           \/ SetOwnersAndChangeThreshold
  <2>1. PICK op \in {"approve_transaction", "set_owners", "change_threshold",
                     "set_owners_and_change_threshold"} :
           \E c \in Calls(op) :
              stack' = RestOfStack /\ executed' = executed /\ lamports' = lamports
    BY <1>5 DEF ApproveTransaction, SetOwners, ChangeThreshold,
                SetOwnersAndChangeThreshold, Serialize, Return
  <2>2. PICK c \in Calls(op) :
           stack' = RestOfStack /\ executed' = executed /\ lamports' = lamports
    BY <2>1
  <2>3. c.ix.op = op
    BY <1>0, CallType
  <2>4. ASSUME NEW p \in Pdas
        PROVE  Cost(c.ix, p) = 0 /\ Takes(c.ix, p, lamports[p], lamports'[p])
    <3>1. Cost(c.ix, p) = 0
      BY <2>1, <2>3 DEF Cost
    <3> QED
      BY <1>0, <2>2, <3>1 DEF Takes
  <2> QED
    BY <1>1, <2>2, <2>4
<1>6. CASE Transfer
  <2>1. PICK c \in Calls("transfer") :
           /\ c.ix.from \in c.signers /\ lamports[c.ix.from] >= c.ix.amount
           /\ LET debited == [lamports EXCEPT ![c.ix.from] = @ - c.ix.amount]
              IN  lamports' = [debited EXCEPT ![c.ix.to] = @ + c.ix.amount]
           /\ stack' = RestOfStack /\ executed' = executed
    BY <1>6 DEF Transfer, Return
  <2> QED
    BY <1>0, <1>1, <2>1, TransferTakes
<1> QED
  BY <1>2, <1>3, <1>4, <1>5, <1>6 DEF Handler

(* An execution that starts has paid nothing yet.                          *)
LEMMA ExecutePaid ==
    ASSUME Inv, PaidInv, ExecuteTransaction
    PROVE  /\ \A k \in DOMAIN stack' : InOrder(stack'[k])
           /\ \A p \in Pdas : Even(p, lamports'[p], Paid(p, executed', stack'))
<1>0. TypeOK
  BY DEF Inv
<1>1. PICK c \in Calls("execute_transaction") :
         /\ ValidateExecute(c, accounts[c.ix.multisig], accounts[c.ix.transaction])
         /\ stack' = Append(RestOfStack,
                            Frame(c, accounts[c.ix.multisig],
                                  accounts[c.ix.transaction]))
         /\ executed' = executed /\ lamports' = lamports
  BY DEF ExecuteTransaction
<1> DEFINE ms == accounts[c.ix.multisig]
           tx == accounts[c.ix.transaction]
           f  == Frame(c, ms, tx)
<1>2. /\ c.ix.multisig \in Addresses /\ c.ix.transaction \in Addresses
      /\ c.ix \in Instructions /\ c.ix.op = "execute_transaction"
  BY <1>0, ExecuteIx, CallType
<1>3. ms \in MultisigAccount /\ tx \in TransactionAccount
  BY <1>0, <1>1, <1>2, MultisigRead, TransactionRead
     DEF ValidateExecute, OwnedByProgram
<1>4. ValidatePda(c.ix.multisig_signer, c.ix.multisig, ms.nonce)
  BY <1>1 DEF ValidateExecute
<1>5. /\ f \in FrameType /\ f.rest = f.instructions /\ f.refundee = c.ix.refundee
      /\ f.instructions \in Seq(Instructions)
  BY <1>0, <1>3, <1>4, FrameTyped DEF Frame, TransactionAccount
<1> HIDE DEF ms, tx, f
<1>6. Done(f) = << >> /\ InOrder(f)
  <2>1. Ends(f.instructions, f.rest)
    BY <1>5 DEF Ends
  <2> QED
    BY <1>2, <1>5, <2>1, DoneAtEnds DEF InOrder
<1>7. stack' = Append(RestOfStack, f)
  BY <1>1 DEF f, ms, tx
<1> DEFINE rest == RestOfStack
<1>8. /\ rest \in Seq(FrameType) /\ \A k \in DOMAIN rest : InOrder(rest[k])
      /\ DoneLists(rest) \in Seq(Seq(Instructions))
      /\ Len(DoneLists(rest)) = Len(rest)
  BY <1>0, RestPaid
<1>9. ASSUME NEW p \in Pdas PROVE Even(p, lamports[p], Paid(p, executed, rest))
  <2>1. stack = << >> => DoneLists(rest) = DoneLists(stack)
    BY <1>0, RestPaid
  <2>2. stack # << >> =>
          Cardinality(AllCharges(DoneLists(rest), p))
            = Cardinality(AllCharges(DoneLists(stack), p)) + Cost(c.ix, p)
    BY <1>0, RestPaid
  <2>3. Cost(c.ix, p) = 0 /\ Cardinality(AllCharges(DoneLists(stack), p)) \in Nat
    BY <1>0, <1>2, RestPaid DEF Cost
  <2>4. Cardinality(AllCharges(DoneLists(rest), p))
          = Cardinality(AllCharges(DoneLists(stack), p))
    BY <2>1, <2>2, <2>3
  <2> QED
    BY <2>4 DEF PaidInv, Paid
<1> HIDE DEF rest
<1>10. /\ stack' \in Seq(FrameType) /\ Len(stack') = Len(rest) + 1
       /\ stack'[Len(rest) + 1] = f
       /\ \A k \in 1 .. Len(rest) : stack'[k] = rest[k]
       /\ DOMAIN stack' = 1 .. Len(rest) + 1 /\ DOMAIN rest = 1 .. Len(rest)
       /\ Len(rest) \in Nat
  BY <1>5, <1>7, <1>8 DEF rest
<1>11. ASSUME NEW k \in DOMAIN stack' PROVE InOrder(stack'[k])
  <2>1. CASE k = Len(rest) + 1
    BY <1>6, <1>10, <2>1
  <2>2. CASE k \in 1 .. Len(rest)
    BY <1>8, <1>10, <2>2
  <2> QED
    BY <1>10, <2>1, <2>2
<1>12. ASSUME NEW p \in Pdas
       PROVE  Even(p, lamports'[p], Paid(p, executed', stack'))
  <2> DEFINE L == DoneLists(rest)
             M == DoneLists(stack')
  <2>1. /\ L \in Seq(Seq(Instructions)) /\ Len(L) = Len(rest)
        /\ M = [k \in 1 .. Len(rest) + 1 |-> Done(stack'[k])]
        /\ \A k \in 1 .. Len(rest) : L[k] = Done(rest[k])
    BY <1>8, <1>10 DEF DoneLists
  <2> HIDE DEF L, M
  <2>2. M[Len(rest) + 1] = << >> /\ \A k \in 1 .. Len(rest) : M[k] = L[k]
    BY <1>6, <1>10, <2>1
  <2>3. /\ M \in Seq(Seq(Instructions)) /\ Len(M) = Len(L) + 1
        /\ M[Len(M)] = << >> /\ \A k \in 1 .. Len(L) : M[k] = L[k]
    <3>1. ASSUME NEW k \in 1 .. Len(rest) + 1 PROVE M[k] \in Seq(Instructions)
      <4>1. k = Len(rest) + 1 \/ k \in 1 .. Len(rest)
        BY <1>10
      <4>2. \A j \in 1 .. Len(rest) : L[j] \in Seq(Instructions)
        BY <2>1
      <4>3. << >> \in Seq(Instructions)
        OBVIOUS
      <4>4. CASE k = Len(rest) + 1
        BY <2>2, <4>3, <4>4
      <4>5. CASE k \in 1 .. Len(rest)
        BY <2>2, <4>2, <4>5
      <4> QED
        BY <4>1, <4>4, <4>5
    <3>2. M \in [1 .. Len(rest) + 1 -> Seq(Instructions)]
      BY <2>1, <3>1
    <3>3. M \in Seq(Seq(Instructions)) /\ Len(M) = Len(rest) + 1
      BY <1>10, <3>2, ListOf
    <3> QED
      BY <2>1, <2>2, <3>3
  <2>4. /\ Cardinality(AllCharges(L, p)) \in Nat
        /\ Cardinality(AllCharges(M, p))
              = Cardinality(AllCharges(L, p)) + Cardinality(Charges(<< >>, p))
    <3>1. L \in Seq(Seq(Instructions))
      BY <2>1
    <3>2. /\ Cardinality(AllCharges(L, p)) \in Nat
          /\ Cardinality(AllCharges(M, p))
                = Cardinality(AllCharges(L, p)) + Cardinality(Charges(M[Len(M)], p))
      BY <2>3, <3>1, AllChargesGrow
    <3> QED
      BY <2>3, <3>2
  <2>5. Cardinality(AllCharges(M, p)) = Cardinality(AllCharges(L, p))
    BY <2>4, NoCharges
  <2> QED
    BY <1>1, <1>9, <2>5 DEF Paid, L, M
<1> QED
  BY <1>11, <1>12

(* An execution that ends has paid for all of its proposal.                *)
LEMMA FinishPaid ==
    ASSUME Inv, PaidInv, FinishExecution
    PROVE  /\ \A k \in DOMAIN stack' : InOrder(stack'[k])
           /\ \A p \in Pdas : Even(p, lamports'[p], Paid(p, executed', stack'))
<1>0. TypeOK
  BY DEF Inv
<1> DEFINE n == Len(stack)
           f == stack[n]
           e == [id |-> f.id, instructions |-> f.instructions]
<1>1. /\ stack \in Seq(FrameType) /\ n \in Nat \ {0} /\ Last(stack) = f
      /\ f \in FrameType /\ n \in DOMAIN stack /\ DOMAIN stack = 1 .. n
  BY <1>0, LastFrame DEF TypeOK, FinishExecution
<1>2. /\ CloseAccount(f.transaction, f.refundee) /\ f.rest = << >>
      /\ executed' = Append(executed, e)
      /\ stack' = SubSeq(stack, 1, n - 1)
  BY <1>1 DEF FinishExecution, Complete, Front
<1>3. /\ f.transaction \in TransactionAddresses /\ f.refundee \in Addresses
      /\ f.instructions \in Seq(Instructions) /\ InOrder(f)
  BY <1>1 DEF Inv, FrameInv, FrameType, PaidInv
<1>4. Done(f) = f.instructions
  BY <1>1, <1>2, DoneAtEnds
<1>5. executed \in Seq([id : Nat, instructions : Seq(Instructions)])
  BY <1>0, LedgerTyped
<1>6. /\ DOMAIN stack' = 1 .. n - 1 /\ \A k \in 1 .. n - 1 : stack'[k] = stack[k]
  BY <1>1, <1>2
<1>7. ASSUME NEW k \in DOMAIN stack' PROVE InOrder(stack'[k])
  BY <1>1, <1>6 DEF PaidInv
<1>8. ASSUME NEW p \in Pdas
      PROVE  Even(p, lamports'[p], Paid(p, executed', stack'))
  <2> DEFINE E == Lists(executed)
             F == Lists(executed')
             L == DoneLists(stack)
             M == DoneLists(stack')
  <2>1. /\ E \in Seq(Seq(Instructions)) /\ Len(E) = Len(executed)
        /\ L \in Seq(Seq(Instructions)) /\ Len(L) = n
    BY <1>0, ListsTyped DEF PaidInv
  <2>2. F = Append(E, f.instructions)
    <3>1. /\ DOMAIN executed' = 1 .. Len(executed) + 1
          /\ executed'[Len(executed) + 1] = e
          /\ \A k \in 1 .. Len(executed) : executed'[k] = executed[k]
          /\ DOMAIN executed = 1 .. Len(executed)
      <4> DEFINE T == [id : Nat, instructions : Seq(Instructions)]
      <4>1. executed \in Seq(T)
        BY <1>5
      <4> HIDE DEF T, e
      <4> QED
        BY <1>2, <4>1
    <3>2. e.instructions = f.instructions
      OBVIOUS
    <3> HIDE DEF e, f
    <3>3. F = [k \in 1 .. Len(executed) + 1 |-> executed'[k].instructions]
      BY <3>1 DEF Lists
    <3>4. \A k \in 1 .. Len(executed) : E[k] = executed[k].instructions
      BY <3>1 DEF Lists
    <3> HIDE DEF E, F
    <3>5. DOMAIN Append(E, f.instructions) = 1 .. Len(executed) + 1
          /\ \A k \in 1 .. Len(executed) : Append(E, f.instructions)[k] = E[k]
          /\ Append(E, f.instructions)[Len(executed) + 1] = f.instructions
          /\ Append(E, f.instructions)
               = [j \in 1 .. Len(executed) + 1 |-> Append(E, f.instructions)[j]]
          /\ Len(executed) \in Nat
      BY <1>3, <2>1
    <3>6. ASSUME NEW k \in 1 .. Len(executed) + 1
          PROVE  executed'[k].instructions = Append(E, f.instructions)[k]
      <4>1. CASE k = Len(executed) + 1
        BY <3>1, <3>2, <3>5, <4>1
      <4>2. CASE k \in 1 .. Len(executed)
        BY <3>1, <3>4, <3>5, <4>2
      <4> QED
        BY <3>5, <4>1, <4>2
    <3> QED
      BY <3>3, <3>5, <3>6
  <2>3. M = First(L, n - 1)
    <3>1. M = [k \in 1 .. n - 1 |-> Done(stack[k])]
      BY <1>6 DEF DoneLists
    <3>2. \A k \in 1 .. n : L[k] = Done(stack[k])
      BY <1>1 DEF DoneLists
    <3> HIDE DEF L, M, f
    <3>3. First(L, n - 1) = [k \in 1 .. n - 1 |-> L[k]]
      BY DEF First
    <3>4. \A k \in 1 .. n - 1 : k \in 1 .. n
      BY <1>1
    <3> QED
      BY <3>1, <3>2, <3>3, <3>4
  <2>4. L[n] = f.instructions
    BY <1>1, <1>4 DEF DoneLists
  <2> HIDE DEF E, F, L, M, e
  <2>5. /\ Cardinality(AllCharges(M, p)) \in Nat
        /\ Cardinality(AllCharges(L, p))
             = Cardinality(AllCharges(M, p)) + Cardinality(Charges(f.instructions, p))
    BY <1>1, <2>1, <2>3, <2>4, LastPaid
  <2>6. /\ F \in Seq(Seq(Instructions)) /\ Len(F) = Len(E) + 1
        /\ F[Len(F)] = f.instructions /\ \A k \in 1 .. Len(E) : F[k] = E[k]
    BY <1>3, <2>1, <2>2
  <2>7. /\ Cardinality(AllCharges(E, p)) \in Nat
        /\ Cardinality(Charges(f.instructions, p)) \in Nat
        /\ Cardinality(AllCharges(F, p))
             = Cardinality(AllCharges(E, p)) + Cardinality(Charges(f.instructions, p))
    BY <2>1, <2>6, AllChargesGrow
  <2>8. Cardinality(AllCharges(F, p)) + Cardinality(AllCharges(M, p))
          = Cardinality(AllCharges(E, p)) + Cardinality(AllCharges(L, p))
        /\ Cardinality(AllCharges(E, p)) + Cardinality(AllCharges(L, p)) \in Nat
    BY <2>5, <2>7
  <2>9. Paid(p, executed', stack') = Paid(p, executed, stack)
        /\ Paid(p, executed, stack) \in Nat
    BY <2>8 DEF Paid, E, F, L, M
  <2>10. NeverCredited(p) => f.refundee # p
    BY <1>3 DEF InOrder, NeverCredited
  <2>11. /\ lamports[p] \in Nat /\ lamports'[p] \in Nat /\ lamports'[p] >= lamports[p]
         /\ f.refundee # p => lamports'[p] = lamports[p]
    BY <1>0, <1>2, <1>3, CloseAccountGives
  <2>12. Even(p, lamports[p], Paid(p, executed, stack)) /\ InitialLamports[p] \in Nat
    BY InitialLedger DEF PaidInv, Addresses
  <2> QED
    BY <2>9, <2>10, <2>11, <2>12 DEF Even
<1> QED
  BY <1>7, <1>8

(* Every step.                                                             *)
LEMMA PaidStep == ASSUME Inv, PaidInv, [Next]_vars PROVE PaidInv'
<1>0. TypeOK
  BY DEF Inv
<1>1. CASE UNCHANGED <<lamports, executed, committed, stack>>
  BY <1>1 DEF PaidInv
<1>2. CASE Handler
  <2>1. committed' = committed
    BY <1>2 DEF Handler, CreateMultisig, ProposeTransaction, ApproveTransaction,
                ExecuteTransaction, FinishExecution, CancelTransaction, SetOwners,
                ChangeThreshold, SetOwnersAndChangeThreshold, Transfer,
                Serialize, Return
  <2>2. /\ \A k \in DOMAIN stack' : InOrder(stack'[k])
        /\ \A p \in Pdas : Even(p, lamports'[p], Paid(p, executed', stack'))
    <3>1. CASE ~ExecuteTransaction /\ ~FinishExecution
      BY <1>0, <1>2, <3>1, HandlerTakes, ReturnPaid
    <3> QED
      BY <3>1, ExecutePaid, FinishPaid
  <2> QED
    BY <2>1, <2>2
       DEF PaidInv
<1>3. CASE Commit
  <2>1. /\ stack = << >> /\ stack' = << >>
        /\ committed'.lamports = lamports /\ committed'.executed = executed
        /\ lamports' = lamports /\ executed' = executed
    BY <1>3 DEF Commit, ledger
  <2> QED
    BY <2>1 DEF PaidInv
<1>4. CASE Abort
  <2>1. /\ stack' = << >> /\ committed' = committed
        /\ lamports' = committed.lamports /\ executed' = committed.executed
    BY <1>4 DEF Abort
  <2> QED
    BY <2>1 DEF PaidInv
<1>5. CASE Begin \/ UNCHANGED vars
  BY <1>1, <1>5 DEF Begin, vars
<1> QED
  BY <1>2, <1>3, <1>4, <1>5 DEF Next

(* At first nothing has been paid.                                         *)
LEMMA PaidInit == ASSUME Init PROVE PaidInv
<1>1. /\ lamports = InitialLamports /\ executed = << >> /\ stack = << >>
      /\ committed.lamports = InitialLamports /\ committed.executed = << >>
  BY DEF Init, ledger
<1>2. \A p : Paid(p, << >>, << >>) = 0
  <2>1. Lists(<< >>) = << >> /\ DoneLists(<< >>) = << >>
    BY DEF Lists, DoneLists
  <2> QED
    BY <2>1, NoCharges DEF Paid
<1>3. \A p \in Pdas : InitialLamports[p] \in Nat
  BY InitialLedger DEF Addresses
<1> QED
  BY <1>1, <1>2, <1>3 DEF PaidInv, Even

(* Without an execution in progress the paid lamports are those of the     *)
(* executed proposals, every instruction of each.                          *)
THEOREM AllOrNothingAlways == Spec => []ExecutionIsAllOrNothing
<1>1. Init => Inv /\ AuthorityInv /\ PaidInv
  BY InvInit, AuthorityInit, PaidInit
<1>2. Inv /\ AuthorityInv /\ PaidInv /\ [Next]_vars => (Inv /\ AuthorityInv /\ PaidInv)'
  BY InvStep, AuthorityStep, PaidStep DEF Inv
<1>3. Inv /\ AuthorityInv /\ PaidInv => ExecutionIsAllOrNothing
  <2> SUFFICES ASSUME Inv, AuthorityInv, PaidInv, ~Running
               PROVE  ExecutionIsAllOrNothing
    BY DEF ExecutionIsAllOrNothing
  <2>1. stack = << >>
    BY SignersAreKeyPairs DEF AuthorityInv, Running, Idle
  <2>2. ASSUME NEW p \in Pdas
        PROVE  Even(p, lamports[p], Cardinality(AllCharges(Lists(executed), p)))
    <3>1. Even(p, lamports[p], Cardinality(AllCharges(Lists(executed), p)) + 0)
      BY <2>1, NoCharges DEF PaidInv, Paid, DoneLists
    <3>2. Cardinality(AllCharges(Lists(executed), p)) \in Nat
      BY ListsTyped, AllChargesFinite DEF Inv, PaidInv
    <3> QED
      BY <3>1, <3>2
  <2> QED
    BY <2>2 DEF ExecutionIsAllOrNothing, Even, Lists
<1> QED
  BY <1>1, <1>2, <1>3, PTL DEF Spec
=============================================================================
