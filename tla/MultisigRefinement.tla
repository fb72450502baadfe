------------------------- MODULE MultisigRefinement -------------------------
(***************************************************************************)
(* Module Multisig implements MultisigSpec.  A proposal is open as long as *)
(* it carries its multisig's owner set number; its approvals are the       *)
(* owners at the positions of the bits that are set.                       *)
(***************************************************************************)
EXTENDS MultisigProperties

IsCurrent(A, t) ==
    /\ A[t].kind = "transaction"
    /\ A[t].program = "multisig"
    /\ A[t].owner_set_seqno = A[A[t].multisig].owner_set_seqno

MultisigAt(A, m) ==
    [owners |-> ToSet(A[m].owners), threshold |-> A[m].threshold,
     signer |-> Pda(m, A[m].nonce)]

MultisigsOf(A) ==
    [m \in {a \in Addresses : A[a].kind = "multisig" /\ A[a].program = "multisig"} |->
       MultisigAt(A, m)]

ProposalAt(A, t) ==
    LET owners == A[A[t].multisig].owners
    IN  [multisig |-> A[t].multisig, instructions |-> A[t].instructions,
         approvals |-> {owners[k] : k \in {j \in DOMAIN owners : A[t].signers[j]}}]

OpenOf(A) == [t \in {a \in Addresses : IsCurrent(A, a)} |-> ProposalAt(A, t)]

ExecutionOf(f) ==
    [transaction |-> f.transaction, signer |-> f.pda, rest |-> f.rest]

Promise == INSTANCE MultisigSpec WITH
    multisigs  <- MultisigsOf(accounts),
    open       <- OpenOf(accounts),
    present    <- batch.signers,
    executions <- [k \in DOMAIN stack |-> ExecutionOf(stack[k])],
    saved      <- <<MultisigsOf(committed.accounts), OpenOf(committed.accounts)>>

(* The program keeps its promises: whatever order Solana transactions come *)
(* in, whatever executions call and wherever they fail, only owners under  *)
(* their own authority make, approve, execute and cancel proposals, only   *)
(* proposals with a quorum of the owners of that moment are executed, and  *)
(* a multisig changes as its executed proposals say and in no other way.   *)
ImplementsPromise == Promise!Spec
=============================================================================
