----------------------------- MODULE OnceProofs -----------------------------
(***************************************************************************)
(* When a proposal is executed at most once (ExecutedAtMostOnce), for      *)
(* every value of the constants of module Multisig: as long as no proposal *)
(* is executed during its own execution; and that is so if no proposal     *)
(* stores an execution.  Module MCReentry shows the exception.             *)
(***************************************************************************)
EXTENDS LamportsProofs

(* No two executions in progress are of the same proposal.                 *)
NotReentered == \A i, j \in DOMAIN stack : stack[i].id = stack[j].id => i = j

(* Accounts A, the number n of proposals so far and E, those executed:     *)
(* every proposal has a number of its own and, if executed, is gone.       *)
LedgerOnce(A, n, E) ==
    /\ \A t \in Addresses : IsProgramTransaction(A[t]) =>
          A[t].id < n /\ \A k \in DOMAIN E : E[k].id # A[t].id
    /\ \A t, u \in Addresses :
          /\ IsProgramTransaction(A[t]) /\ IsProgramTransaction(A[u])
          /\ A[t].id = A[u].id
          => t = u
    /\ \A k \in DOMAIN E : E[k].id < n
    /\ \A j, k \in DOMAIN E : E[j].id = E[k].id => j = k

(* An execution's proposal is at the execution's address or gone.          *)
FrameOnce(f, A, n, E) ==
    /\ f.id < n /\ \A k \in DOMAIN E : E[k].id # f.id
    /\ \A t \in Addresses :
          IsProgramTransaction(A[t]) /\ A[t].id = f.id => t = f.transaction

OnceInv ==
    /\ LedgerOnce(accounts, proposals, executed)
    /\ LedgerOnce(committed.accounts, committed.proposals, committed.executed)
    /\ \A k \in DOMAIN stack : FrameOnce(stack[k], accounts, proposals, executed)

-----------------------------------------------------------------------------
(* What handlers do to proposals. *)

(* Only propose_transaction makes one; the others leave its number and its *)
(* instructions as they are.                                               *)
LEMMA ProposalsKept ==
    ASSUME Inv, Handler, ~ProposeTransaction, NEW t \in Addresses,
           IsProgramTransaction(accounts'[t])
    PROVE  /\ IsProgramTransaction(accounts[t])
           /\ accounts'[t].id = accounts[t].id
           /\ accounts'[t].instructions = accounts[t].instructions
<1>0. TypeOK /\ accounts \in [Addresses -> Account]
  BY LedgerTyped DEF Inv
<1>1. CASE CreateMultisig
  <2>1. PICK c \in Calls("create_multisig") :
           accounts' = [accounts EXCEPT ![c.ix.multisig] = NewMultisig(c.ix)]
    BY <1>1 DEF CreateMultisig, CreateAccount
  <2>2. ~IsProgramTransaction(NewMultisig(c.ix))
    BY DEF NewMultisig, IsProgramTransaction
  <2> QED
    BY <1>0, <2>1, <2>2
<1>2. CASE ApproveTransaction
  <2>1. PICK c \in Calls("approve_transaction") :
           /\ OwnedByProgram({c.ix.transaction})
           /\ IsTransaction(accounts[c.ix.transaction])
           /\ \E k \in DOMAIN accounts[c.ix.transaction].signers :
                 accounts' = [accounts EXCEPT ![c.ix.transaction] =
                                Approved(c, accounts[c.ix.transaction], k)]
    BY <1>2 DEF ApproveTransaction, ValidateApprove, OwnedByProgram
  <2>2. PICK k \in DOMAIN accounts[c.ix.transaction].signers :
           accounts' = [accounts EXCEPT ![c.ix.transaction] =
                          Approved(c, accounts[c.ix.transaction], k)]
    BY <2>1
  <2>3. /\ accounts[c.ix.transaction] \in TransactionAccount
        /\ IsProgramTransaction(accounts[c.ix.transaction])
    BY <1>0, <2>1, ApproveIx, TransactionRead
  <2>4. /\ Approved(c, accounts[c.ix.transaction], k).id
             = accounts[c.ix.transaction].id
        /\ Approved(c, accounts[c.ix.transaction], k).instructions
             = accounts[c.ix.transaction].instructions
    BY <2>3 DEF Approved, TransactionAccount
  <2> QED
    BY <1>0, <2>2, <2>3, <2>4
<1>3. CASE SetOwners \/ ChangeThreshold \/ SetOwnersAndChangeThreshold
  <2>1. PICK m \in Addresses : \E data :
           accounts' = [accounts EXCEPT ![m] = data] /\ data.kind = "multisig"
    BY <1>0, <1>3, ChangeWrites
  <2> QED
    BY <1>0, <2>1 DEF IsProgramTransaction
<1>4. CASE CancelTransaction \/ FinishExecution
  <2>1. \E u : accounts' = [accounts EXCEPT ![u] = EmptyAccount]
    BY <1>4 DEF CancelTransaction, FinishExecution, CloseAccount
  <2> QED
    BY <1>0, <2>1 DEF IsProgramTransaction, EmptyAccount
<1>5. CASE ExecuteTransaction \/ Transfer
  BY <1>5 DEF ExecuteTransaction, Transfer
<1> QED
  BY <1>1, <1>2, <1>3, <1>4, <1>5 DEF Handler

(* propose_transaction makes one at an address that is empty.              *)
LEMMA ProposalMade ==
    ASSUME TypeOK, ProposeTransaction
    PROVE  \E c \in Calls("propose_transaction") :
              /\ c.ix.transaction \in Addresses
              /\ accounts'[c.ix.transaction].id = proposals
              /\ accounts'[c.ix.transaction].instructions = c.ix.instructions
              /\ \A t \in Addresses \ {c.ix.transaction} : accounts'[t] = accounts[t]
<1>1. PICK c \in Calls("propose_transaction") :
         \E k \in DOMAIN accounts[c.ix.multisig].owners :
            accounts' = [accounts EXCEPT
              ![c.ix.transaction] = NewTransaction(c, accounts[c.ix.multisig], k)]
  BY DEF ProposeTransaction, CreateAccount
<1>2. c.ix.transaction \in Addresses /\ accounts \in [Addresses -> Account]
  BY ProposeIx, LedgerTyped DEF Addresses, KeyPairs
<1> QED
  BY <1>1, <1>2 DEF NewTransaction

-----------------------------------------------------------------------------
(* OnceInv is inductive as long as no proposal is executed again.          *)

(* Every handler but propose_transaction and the end of an execution.      *)
LEMMA LedgerStaysOnce ==
    ASSUME Inv, OnceInv, Handler, ~ProposeTransaction, ~FinishExecution
    PROVE  /\ LedgerOnce(accounts, proposals, executed)'
           /\ \A k \in DOMAIN stack :
                 FrameOnce(stack[k], accounts', proposals', executed')
<1>1. proposals' = proposals /\ executed' = executed
  BY DEF Handler, CreateMultisig, ApproveTransaction, ExecuteTransaction,
     CancelTransaction, SetOwners, ChangeThreshold, SetOwnersAndChangeThreshold,
     Transfer, Serialize
<1>2. \A t \in Addresses : IsProgramTransaction(accounts'[t]) =>
         IsProgramTransaction(accounts[t]) /\ accounts'[t].id = accounts[t].id
  BY ProposalsKept
<1>3. LedgerOnce(accounts, proposals, executed)
  BY DEF OnceInv
<1>4. LedgerOnce(accounts', proposals, executed)
  BY <1>2, <1>3 DEF LedgerOnce
<1>5. ASSUME NEW k \in DOMAIN stack
      PROVE  FrameOnce(stack[k], accounts', proposals, executed)
  BY <1>2, <1>5 DEF OnceInv, FrameOnce
<1> QED
  BY <1>1, <1>4, <1>5

(* A new proposal's number is new.                                         *)
LEMMA ProposalIsNew ==
    ASSUME Inv, OnceInv, ProposeTransaction
    PROVE  /\ LedgerOnce(accounts, proposals, executed)'
           /\ \A k \in DOMAIN stack :
                 FrameOnce(stack[k], accounts', proposals', executed')
<1>0. /\ TypeOK /\ accounts \in [Addresses -> Account] /\ proposals \in Nat
      /\ executed \in Seq([id : Nat, instructions : Seq(Instructions)])
      /\ stack \in Seq(FrameType)
  BY LedgerTyped, BoundsAreNaturals DEF Inv, TypeOK
<1>1. PICK c \in Calls("propose_transaction") :
         /\ c.ix.transaction \in Addresses
         /\ accounts'[c.ix.transaction].id = proposals
         /\ \A t \in Addresses \ {c.ix.transaction} : accounts'[t] = accounts[t]
  BY <1>0, ProposalMade
<1>2. proposals' = proposals + 1 /\ executed' = executed
  BY DEF ProposeTransaction
<1>3. LedgerOnce(accounts, proposals, executed)
  BY DEF OnceInv
<1>4. ASSUME NEW k \in DOMAIN executed PROVE executed[k].id \in Nat
  <2> DEFINE E == [id : Nat, instructions : Seq(Instructions)]
  <2>1. \A e \in E : e.id \in Nat
    OBVIOUS
  <2>2. executed \in Seq(E)
    BY <1>0
  <2> HIDE DEF E
  <2>3. executed[k] \in E
    BY <2>2
  <2> QED
    BY <2>1, <2>3
<1>5. ASSUME NEW t \in Addresses, IsProgramTransaction(accounts[t])
      PROVE  accounts[t].id \in Nat
  <2>1. accounts[t] \in TransactionAccount
    BY <1>0, <1>5, TransactionRecord DEF IsProgramTransaction
  <2> QED
    BY <2>1 DEF TransactionAccount
<1>6. LedgerOnce(accounts', proposals + 1, executed)
  <2>1. ASSUME NEW t \in Addresses, IsProgramTransaction(accounts'[t])
        PROVE  /\ accounts'[t].id < proposals + 1
               /\ \A k \in DOMAIN executed : executed[k].id # accounts'[t].id
               /\ t # c.ix.transaction => accounts'[t].id < proposals
    <3>1. CASE t = c.ix.transaction
      <4>1. \A k \in DOMAIN executed : executed[k].id < proposals
        BY <1>3 DEF LedgerOnce
      <4>2. \A k \in DOMAIN executed : executed[k].id # proposals
        BY <1>0, <1>4, <4>1
      <4> QED
        BY <1>0, <1>1, <3>1, <4>2
    <3>2. CASE t # c.ix.transaction
      <4>1. accounts'[t] = accounts[t]
        BY <1>1, <3>2
      <4>2. /\ accounts[t].id \in Nat /\ accounts[t].id < proposals
            /\ \A k \in DOMAIN executed : executed[k].id # accounts[t].id
        BY <1>3, <1>5, <2>1, <4>1 DEF LedgerOnce
      <4> QED
        BY <1>0, <4>1, <4>2
    <3> QED
      BY <3>1, <3>2
  <2>2. ASSUME NEW t \in Addresses, NEW u \in Addresses,
               IsProgramTransaction(accounts'[t]), IsProgramTransaction(accounts'[u]),
               accounts'[t].id = accounts'[u].id
        PROVE  t = u
    <3>1. CASE t # c.ix.transaction /\ u # c.ix.transaction
      BY <1>1, <1>3, <2>2, <3>1 DEF LedgerOnce
    <3>2. CASE t = c.ix.transaction \/ u = c.ix.transaction
      BY <1>0, <1>1, <2>1, <2>2, <3>2
    <3> QED
      BY <3>1, <3>2
  <2>3. \A k \in DOMAIN executed : executed[k].id < proposals + 1
    BY <1>0, <1>3, <1>4 DEF LedgerOnce
  <2> QED
    BY <1>3, <2>1, <2>2, <2>3 DEF LedgerOnce
<1>7. ASSUME NEW k \in DOMAIN stack
      PROVE  FrameOnce(stack[k], accounts', proposals + 1, executed)
  <2>1. stack[k] \in FrameType /\ FrameOnce(stack[k], accounts, proposals, executed)
    BY <1>0 DEF OnceInv
  <2>2. stack[k].id \in Nat
    BY <2>1 DEF FrameType
  <2>3. /\ stack[k].id < proposals
        /\ \A j \in DOMAIN executed : executed[j].id # stack[k].id
    BY <2>1 DEF FrameOnce
  <2>4. stack[k].id < proposals + 1 /\ stack[k].id # proposals
    BY <1>0, <2>2, <2>3
  <2>5. ASSUME NEW t \in Addresses, IsProgramTransaction(accounts'[t]),
               accounts'[t].id = stack[k].id
        PROVE  t = stack[k].transaction
    <3>1. t # c.ix.transaction
      BY <1>1, <2>4, <2>5
    <3>2. accounts'[t] = accounts[t]
      BY <1>1, <3>1
    <3> QED
      BY <2>1, <2>5, <3>2 DEF FrameOnce
  <2> QED
    BY <2>3, <2>4, <2>5 DEF FrameOnce
<1> QED
  BY <1>2, <1>6, <1>7

(* What a call leaves of the executions in progress.                       *)
LEMMA RestStaysOnce ==
    ASSUME TypeOK, NEW op, NEW c \in Calls(op), NEW A, NEW n, NEW E,
           \A k \in DOMAIN stack : FrameOnce(stack[k], A, n, E)
    PROVE  \A k \in DOMAIN RestOfStack : FrameOnce(RestOfStack[k], A, n, E)
BY RestKeepsAuthority DEF FrameOnce

(* An execution that starts is of a proposal that has not been executed.   *)
LEMMA ExecuteStaysOnce ==
    ASSUME Inv, OnceInv, ExecuteTransaction
    PROVE  \A k \in DOMAIN stack' :
              FrameOnce(stack'[k], accounts, proposals, executed)
<1>0. TypeOK
  BY DEF Inv
<1>1. PICK c \in Calls("execute_transaction") :
         /\ ValidateExecute(c, accounts[c.ix.multisig], accounts[c.ix.transaction])
         /\ stack' = Append(RestOfStack,
                            Frame(c, accounts[c.ix.multisig],
                                  accounts[c.ix.transaction]))
  BY DEF ExecuteTransaction
<1> DEFINE tx == accounts[c.ix.transaction]
           f  == Frame(c, accounts[c.ix.multisig], tx)
<1>2. c.ix.transaction \in Addresses /\ IsProgramTransaction(tx)
  BY <1>0, <1>1, ExecuteIx, TransactionRead DEF ValidateExecute, OwnedByProgram
<1>3. f.id = tx.id /\ f.transaction = c.ix.transaction
  BY DEF Frame
<1>4. FrameOnce(f, accounts, proposals, executed)
  BY <1>2, <1>3 DEF OnceInv, LedgerOnce, FrameOnce
<1> HIDE DEF f
<1>5. stack' = Append(RestOfStack, f) /\ RestOfStack \in Seq(FrameType)
  BY <1>0, <1>1, RestType DEF f
<1>6. \A k \in DOMAIN RestOfStack :
         FrameOnce(RestOfStack[k], accounts, proposals, executed)
  BY <1>0, RestStaysOnce DEF OnceInv
<1> QED
  BY <1>4, <1>5, <1>6

(* The proposal whose execution ends is closed, was not executed before,   *)
(* and is in no other execution.                                           *)
LEMMA FinishStaysOnce ==
    ASSUME Inv, OnceInv, NotReentered, FinishExecution
    PROVE  /\ LedgerOnce(accounts, proposals, executed)'
           /\ \A k \in DOMAIN stack' :
                 FrameOnce(stack'[k], accounts', proposals', executed')
<1> DEFINE n == Len(stack)
           f == stack[n]
           done == [id |-> f.id, instructions |-> f.instructions]
<1>1. /\ TypeOK /\ accounts \in [Addresses -> Account]
      /\ executed \in Seq([id : Nat, instructions : Seq(Instructions)])
      /\ stack \in Seq(FrameType) /\ n \in DOMAIN stack /\ Last(stack) = f
      /\ stack' = SubSeq(stack, 1, n - 1) /\ n \in Nat
  BY LedgerTyped, LastFrame DEF Inv, TypeOK, FinishExecution, Front
<1>2. /\ accounts' = [accounts EXCEPT ![f.transaction] = EmptyAccount]
      /\ executed' = Append(executed, done) /\ proposals' = proposals
  BY <1>1 DEF FinishExecution, CloseAccount
<1>3. f.transaction \in Addresses /\ FrameOnce(f, accounts, proposals, executed)
  <2>1. f \in FrameType
    BY <1>1
  <2> QED
    BY <1>1, <2>1 DEF OnceInv, FrameType
<1>4. ASSUME NEW t \in Addresses, IsProgramTransaction(accounts'[t])
      PROVE  /\ IsProgramTransaction(accounts[t]) /\ accounts'[t] = accounts[t]
             /\ accounts[t].id # f.id
  <2>1. t # f.transaction
    BY <1>1, <1>2, <1>4 DEF IsProgramTransaction, EmptyAccount
  <2>2. accounts'[t] = accounts[t]
    BY <1>1, <1>2, <2>1
  <2> HIDE DEF f
  <2> QED
    BY <1>3, <1>4, <2>1, <2>2 DEF FrameOnce
<1> HIDE DEF f
<1>5. done.id = f.id
  OBVIOUS
<1> HIDE DEF done
<1>6. ASSUME NEW k \in DOMAIN executed'
      PROVE  \/ k \in DOMAIN executed /\ executed'[k] = executed[k]
             \/ k = Len(executed) + 1 /\ executed'[k].id = f.id
  BY <1>1, <1>2, <1>5, <1>6
<1>7. LedgerOnce(accounts', proposals, executed')
  <2>1. LedgerOnce(accounts, proposals, executed)
    BY DEF OnceInv
  <2>2. \A t \in Addresses : IsProgramTransaction(accounts'[t]) =>
           accounts'[t].id < proposals
             /\ \A k \in DOMAIN executed' : executed'[k].id # accounts'[t].id
    BY <1>4, <1>6, <2>1 DEF LedgerOnce
  <2>3. \A k \in DOMAIN executed' : executed'[k].id < proposals
    BY <1>3, <1>6, <2>1 DEF LedgerOnce, FrameOnce
  <2>4. ASSUME NEW j \in DOMAIN executed', NEW k \in DOMAIN executed',
               executed'[j].id = executed'[k].id
        PROVE  j = k
    BY <1>3, <1>6, <2>1, <2>4 DEF LedgerOnce, FrameOnce
  <2>5. \A t, u \in Addresses :
           /\ IsProgramTransaction(accounts'[t]) /\ IsProgramTransaction(accounts'[u])
           /\ accounts'[t].id = accounts'[u].id
           => t = u
    BY <1>4, <2>1 DEF LedgerOnce
  <2> QED
    BY <2>2, <2>3, <2>4, <2>5 DEF LedgerOnce
<1>8. ASSUME NEW k \in DOMAIN stack'
      PROVE  FrameOnce(stack'[k], accounts', proposals, executed')
  <2>1. k \in DOMAIN stack /\ k # n /\ stack'[k] = stack[k]
    BY <1>1, <1>8
  <2>2. stack[k].id # f.id
    BY <1>1, <2>1 DEF NotReentered, f
  <2>3. FrameOnce(stack[k], accounts, proposals, executed)
    BY <2>1 DEF OnceInv
  <2> QED
    BY <1>4, <1>6, <2>1, <2>2, <2>3 DEF FrameOnce
<1> QED
  BY <1>2, <1>7, <1>8

(* Every step.                                                             *)
LEMMA OnceStep == ASSUME Inv, OnceInv, NotReentered, [Next]_vars PROVE OnceInv'
<1>0. TypeOK
  BY DEF Inv
<1>1. CASE Begin \/ Commit \/ Abort \/ UNCHANGED vars
  <2>1. stack' = stack \/ stack' = << >>
    BY <1>1 DEF Begin, Commit, Abort, vars
  <2> QED
    BY <1>1, <2>1 DEF Begin, Commit, Abort, vars, OnceInv, ledger
<1>2. CASE Handler
  <2>1. committed' = committed
    BY <1>2 DEF Handler, CreateMultisig, ProposeTransaction, ApproveTransaction,
                ExecuteTransaction, FinishExecution, CancelTransaction, SetOwners,
                ChangeThreshold, SetOwnersAndChangeThreshold, Transfer,
                Serialize, Return
  <2>2. CASE FinishExecution
    BY <2>1, <2>2, FinishStaysOnce DEF OnceInv
  <2>3. CASE ExecuteTransaction
    <3>1. UNCHANGED <<accounts, proposals, executed>>
      BY <2>3 DEF ExecuteTransaction
    <3> QED
      BY <2>1, <2>3, <3>1, ExecuteStaysOnce DEF OnceInv
  <2>4. CASE ~FinishExecution /\ ~ExecuteTransaction
    <3>1. /\ LedgerOnce(accounts, proposals, executed)'
          /\ \A k \in DOMAIN stack :
                FrameOnce(stack[k], accounts', proposals', executed')
      BY <1>2, <2>4, LedgerStaysOnce, ProposalIsNew
    <3>2. \E op : \E c \in Calls(op) : stack' = RestOfStack
      BY <1>2, <2>4
         DEF Handler, CreateMultisig, ProposeTransaction, ApproveTransaction,
             CancelTransaction, SetOwners, ChangeThreshold,
             SetOwnersAndChangeThreshold, Transfer, Serialize, Return
    <3>3. \A k \in DOMAIN stack' :
             FrameOnce(stack'[k], accounts', proposals', executed')
      BY <1>0, <3>1, <3>2, RestStaysOnce
    <3> QED
      BY <2>1, <3>1, <3>3 DEF OnceInv
  <2> QED
    BY <2>2, <2>3, <2>4
<1> QED
  BY <1>1, <1>2 DEF Next

LEMMA OnceInit == ASSUME Init PROVE OnceInv
BY InitialLedger
   DEF Init, OnceInv, LedgerOnce, IsProgramTransaction, ledger

(* Only a proposal that is executed during its own execution is executed   *)
(* twice: whatever else executions call, cancel, propose again at the same *)
(* address and execute (execute_transaction.rs:38).                        *)
THEOREM OnceUnlessReentered == Spec /\ []NotReentered => []ExecutedAtMostOnce
<1>1. Init => OnceInv
  BY OnceInit
<1>2. Inv /\ OnceInv /\ NotReentered /\ [Next]_vars => OnceInv'
  BY OnceStep
<1>3. OnceInv => ExecutedAtMostOnce
  BY DEF OnceInv, LedgerOnce, ExecutedAtMostOnce
<1> QED
  BY <1>1, <1>2, <1>3, InvAlways, PTL DEF Spec

-----------------------------------------------------------------------------
(* Where no proposal stores an execution, executions do not nest. *)

Plain(instructions) ==
    \A k \in DOMAIN instructions : instructions[k].op # "execute_transaction"

NoStoredExecutions ==
    \A i \in Instructions : i.op = "propose_transaction" => Plain(i.instructions)

PlainAccounts(A) ==
    \A t \in Addresses : IsProgramTransaction(A[t]) => Plain(A[t].instructions)

PlainInv ==
    /\ PlainAccounts(accounts)
    /\ PlainAccounts(committed.accounts)
    /\ Len(stack) <= 1
    /\ \A k \in DOMAIN stack : Plain(stack[k].rest)

(* Proposals hold what was proposed.                                       *)
LEMMA ProposalsPlain ==
    ASSUME Inv, PlainInv, NoStoredExecutions, Handler
    PROVE  PlainAccounts(accounts')
<1>0. TypeOK
  BY DEF Inv
<1>1. CASE ProposeTransaction
  <2>1. PICK c \in Calls("propose_transaction") :
           /\ accounts'[c.ix.transaction].instructions = c.ix.instructions
           /\ \A t \in Addresses \ {c.ix.transaction} : accounts'[t] = accounts[t]
    BY <1>0, <1>1, ProposalMade
  <2>2. Plain(c.ix.instructions)
    BY <1>0, CallType DEF NoStoredExecutions
  <2> QED
    BY <2>1, <2>2 DEF PlainInv, PlainAccounts
<1>2. CASE ~ProposeTransaction
  <2>1. ASSUME NEW t \in Addresses, IsProgramTransaction(accounts'[t])
        PROVE  Plain(accounts'[t].instructions)
    <3>1. /\ IsProgramTransaction(accounts[t])
          /\ accounts'[t].instructions = accounts[t].instructions
      BY <1>2, <2>1, ProposalsKept
    <3> QED
      BY <3>1 DEF PlainInv, PlainAccounts
  <2> QED
    BY <2>1 DEF PlainAccounts
<1> QED
  BY <1>1, <1>2

(* A call leaves its caller with fewer instructions.                       *)
LEMMA RestPlain ==
    ASSUME TypeOK, PlainInv, NEW op, NEW c \in Calls(op)
    PROVE  /\ Len(RestOfStack) <= 1
           /\ \A k \in DOMAIN RestOfStack : Plain(RestOfStack[k].rest)
<1>1. CASE stack = << >>
  BY <1>1 DEF RestOfStack, PlainInv
<1>2. CASE stack # << >>
  <2> DEFINE n == Len(stack)
  <2>1. RestOfStack = [stack EXCEPT ![n] = [stack[n] EXCEPT !.rest = Tail(@)]]
    BY <1>2 DEF RestOfStack
  <2>2. /\ stack \in Seq(FrameType) /\ n \in DOMAIN stack /\ stack[n] \in FrameType
        /\ stack[n].rest # << >>
    BY <1>2, LastFrame, CallInProgress DEF TypeOK
  <2>3. stack[n].rest \in Seq(Instructions)
    BY <2>2 DEF FrameType
  <2>4. Plain(Tail(stack[n].rest))
    <3>1. Plain(stack[n].rest)
      BY <2>2 DEF PlainInv
    <3> DEFINE r == stack[n].rest
    <3>2. r \in Seq(Instructions) /\ r # << >> /\ Plain(r)
      BY <2>2, <2>3, <3>1
    <3> HIDE DEF r
    <3>3. \A k \in DOMAIN Tail(r) : k + 1 \in DOMAIN r /\ Tail(r)[k] = r[k + 1]
      BY <3>2
    <3>4. Plain(Tail(r))
      BY <3>2, <3>3 DEF Plain
    <3> QED
      BY <3>4 DEF r
  <2>5. [stack[n] EXCEPT !.rest = Tail(@)].rest = Tail(stack[n].rest)
    BY <2>2 DEF FrameType
  <2>6. /\ RestOfStack \in Seq(FrameType) /\ DOMAIN RestOfStack = DOMAIN stack
        /\ \A k \in DOMAIN stack : k # n => RestOfStack[k] = stack[k]
        /\ RestOfStack[n].rest = Tail(stack[n].rest)
    BY <2>1, <2>2, <2>5, RestType
  <2> QED
    BY <2>2, <2>4, <2>6 DEF PlainInv
<1> QED
  BY <1>1, <1>2

(* A stored instruction is no execution: only the Solana transaction       *)
(* itself can execute a proposal.                                          *)
LEMMA ExecuteIsOutermost ==
    ASSUME TypeOK, PlainInv, NEW c \in Calls("execute_transaction")
    PROVE  stack = << >>
<1> SUFFICES ASSUME stack # << >> PROVE FALSE
  OBVIOUS
<1> DEFINE r == stack[Len(stack)].rest
<1>1. Len(stack) \in DOMAIN stack /\ Last(stack) = stack[Len(stack)]
  BY LastFrame DEF TypeOK
<1>2. stack[Len(stack)] \in FrameType
  BY <1>1, LastFrame
<1>3. r \in Seq(Instructions) /\ Plain(r)
  BY <1>1, <1>2 DEF FrameType, PlainInv
<1>4. c \in InvokeSigned /\ c.ix.op = "execute_transaction"
  BY DEF Calls, TransactionCalls
<1>5. r # << >> /\ c.ix = Head(r)
  BY <1>1, <1>4 DEF InvokeSigned
<1> HIDE DEF r
<1>6. 1 \in DOMAIN r /\ c.ix = r[1]
  BY <1>3, <1>5
<1> QED
  BY <1>3, <1>4, <1>6 DEF Plain

LEMMA StackPlain ==
    ASSUME Inv, PlainInv, Handler
    PROVE  Len(stack') <= 1 /\ \A k \in DOMAIN stack' : Plain(stack'[k].rest)
<1>0. TypeOK /\ stack \in Seq(FrameType)
  BY DEF Inv, TypeOK
<1>1. CASE ExecuteTransaction
  <2>1. PICK c \in Calls("execute_transaction") :
           /\ ValidateExecute(c, accounts[c.ix.multisig],
                              accounts[c.ix.transaction])
           /\ stack' = Append(RestOfStack,
                              Frame(c, accounts[c.ix.multisig],
                                    accounts[c.ix.transaction]))
    BY <1>1 DEF ExecuteTransaction
  <2> DEFINE tx == accounts[c.ix.transaction]
             f  == Frame(c, accounts[c.ix.multisig], tx)
  <2>2. IsProgramTransaction(tx) /\ c.ix.transaction \in Addresses
    BY <1>0, <2>1, ExecuteIx, TransactionRead DEF ValidateExecute, OwnedByProgram
  <2>3. Plain(f.rest)
    BY <2>2 DEF Frame, PlainInv, PlainAccounts
  <2> HIDE DEF f
  <2>4. RestOfStack = << >> /\ stack' = Append(RestOfStack, f)
    BY <1>0, <2>1, ExecuteIsOutermost DEF RestOfStack, f
  <2>5. stack' = <<f>>
    BY <2>4
  <2> QED
    BY <2>3, <2>5
<1>2. CASE FinishExecution
  <2>1. Len(stack) \in Nat /\ stack' = SubSeq(stack, 1, Len(stack) - 1)
    BY <1>0, <1>2, LastFrame DEF FinishExecution, Front
  <2> QED
    BY <1>0, <2>1 DEF PlainInv
<1>3. CASE ~FinishExecution /\ ~ExecuteTransaction
  <2>1. \E op : \E c \in Calls(op) : stack' = RestOfStack
    BY <1>3 DEF Handler, CreateMultisig, ProposeTransaction, ApproveTransaction,
                CancelTransaction, SetOwners, ChangeThreshold,
                SetOwnersAndChangeThreshold, Transfer, Serialize, Return
  <2> QED
    BY <1>0, <2>1, RestPlain
<1> QED
  BY <1>1, <1>2, <1>3

LEMMA PlainStep ==
    ASSUME Inv, PlainInv, NoStoredExecutions, [Next]_vars PROVE PlainInv'
<1>1. CASE Begin \/ Commit \/ Abort \/ UNCHANGED vars
  <2>1. stack' = stack \/ stack' = << >>
    BY <1>1 DEF Begin, Commit, Abort, vars
  <2> QED
    BY <1>1, <2>1 DEF Begin, Commit, Abort, vars, PlainInv, PlainAccounts, ledger
<1>2. CASE Handler
  <2>1. committed' = committed
    BY <1>2 DEF Handler, CreateMultisig, ProposeTransaction, ApproveTransaction,
                ExecuteTransaction, FinishExecution, CancelTransaction, SetOwners,
                ChangeThreshold, SetOwnersAndChangeThreshold, Transfer,
                Serialize, Return
  <2> QED
    BY <1>2, <2>1, ProposalsPlain, StackPlain DEF PlainInv
<1> QED
  BY <1>1, <1>2 DEF Next

(* Where proposals store transfers and changes of the multisig, as they    *)
(* mostly do, proposals, approvals and cancels too, but no executions,     *)
(* each is executed at most once, in one Solana transaction or in several  *)
(* (executeTransactionTest.ts, "should not execute transaction twice").    *)
THEOREM ExecutedOnce == NoStoredExecutions => (Spec => []ExecutedAtMostOnce)
<1> SUFFICES ASSUME NoStoredExecutions PROVE Spec => []ExecutedAtMostOnce
  OBVIOUS
<1>1. Init => PlainInv
  BY InitialLedger
     DEF Init, PlainInv, PlainAccounts, IsProgramTransaction, ledger
<1>2. Inv /\ PlainInv /\ [Next]_vars => PlainInv'
  BY PlainStep
<1>3. Inv /\ PlainInv => NotReentered
  <2>1. Inv /\ PlainInv => stack \in Seq(FrameType) /\ Len(stack) <= 1
    BY DEF Inv, TypeOK, PlainInv
  <2> QED
    BY <2>1 DEF NotReentered
<1> QED
  BY <1>1, <1>2, <1>3, InvAlways, OnceUnlessReentered, PTL DEF Spec
=============================================================================
