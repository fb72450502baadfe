---------------------------- MODULE MultisigSpec ----------------------------
(***************************************************************************)
(* What the multisig program promises, without accounts, balances, bits,   *)
(* padding or owner set numbers.  A multisig has owners, a threshold and   *)
(* an address that signs for it.  Who signs the Solana transaction in      *)
(* progress, and the multisigs whose proposals are being executed, are the *)
(* authority a step can act under.  Owners under their own authority make, *)
(* approve, execute and cancel proposals; only under its own authority     *)
(* does a multisig change, and then all its open proposals are void.       *)
(*                                                                         *)
(* Module MultisigRefinement states that Multisig implements this.         *)
(***************************************************************************)
EXTENDS Integers, FiniteSets, SequencesExt

CONSTANTS
    MultisigAddresses,    \* where multisigs can be
    TransactionAddresses, \* where proposals can be
    Instructions,         \* every instruction a client may send or a proposal hold
    SignerSets            \* the sets of key pairs that sign one Solana transaction

VARIABLES
    multisigs,  \* the multisigs: owners, threshold and signer
    open,       \* the proposals that can still be executed
    present,    \* who signs the Solana transaction in progress; nobody without one
    executions, \* the executions in progress, outermost first
    saved       \* the multisigs and proposals a rollback returns to

vars == <<multisigs, open, present, executions, saved>>

Exists(m) == m \in DOMAIN multisigs

IsOpen(t) == t \in DOMAIN open

With(f, x, y) == [z \in DOMAIN f \cup {x} |-> IF z = x THEN y ELSE f[z]]

Without(f, S) == Restrict(f, DOMAIN f \ S)

Authority == present \cup {executions[k].signer : k \in DOMAIN executions}

(* Instruction i is the next: one the client sends, or the next of the     *)
(* innermost execution.                                                    *)
Ordered(i) ==
    IF executions = << >>
      THEN present # {}
      ELSE Last(executions).rest # << >> /\ i = Head(Last(executions).rest)

RestOfExecutions ==
    IF executions = << >> THEN executions
    ELSE [executions EXCEPT ![Len(executions)].rest = Tail(@)]

Return == executions' = RestOfExecutions /\ UNCHANGED <<present, saved>>

(* An owner of the multisig acts.                                          *)
IsOwner(m, a) == Exists(m) /\ a \in multisigs[m].owners /\ a \in Authority

-----------------------------------------------------------------------------
(* A new multisig gets a signer that is no key pair and no other's signer. *)
MayCreate(i) ==
    /\ i.op = "create_multisig"
    /\ i.multisig \in MultisigAddresses \cap Authority
    /\ ~Exists(i.multisig)
    /\ 1 <= i.threshold /\ i.threshold <= Cardinality(ToSet(i.owners))
    /\ \A s \in SignerSets : i.multisig_signer \notin s
    /\ \A m \in DOMAIN multisigs : multisigs[m].signer # i.multisig_signer

Create(i) ==
    /\ MayCreate(i)
    /\ multisigs' = With(multisigs, i.multisig,
                        [owners |-> ToSet(i.owners), threshold |-> i.threshold,
                         signer |-> i.multisig_signer])
    /\ UNCHANGED open
    /\ Return

NewProposal_Unapproved(i) ==
    [multisig |-> i.multisig, instructions |-> i.instructions, approvals |-> {}]

(* To propose is to approve.                                               *)
NewProposal(i) ==
    [multisig |-> i.multisig, instructions |-> i.instructions,
     approvals |-> {i.proposer}]

MayPropose_Unsigned(i) ==
    /\ i.op = "propose_transaction"
    /\ IsOwner(i.multisig, i.proposer)
    /\ i.transaction \in TransactionAddresses
    /\ ~IsOpen(i.transaction)
    /\ i.instructions # << >>

MayPropose(i) ==
    /\ i.op = "propose_transaction"
    /\ IsOwner(i.multisig, i.proposer)
    /\ i.transaction \in TransactionAddresses \cap Authority
    /\ ~IsOpen(i.transaction)
    /\ i.instructions # << >>

Propose(i) ==
    /\ MayPropose(i)
    /\ open' = With(open, i.transaction, NewProposal(i))
    /\ UNCHANGED multisigs
    /\ Return

MayApprove(i) ==
    /\ i.op = "approve_transaction"
    /\ IsOwner(i.multisig, i.approver)
    /\ IsOpen(i.transaction)
    /\ open[i.transaction].multisig = i.multisig

Approve(i) ==
    /\ MayApprove(i)
    /\ open' = [open EXCEPT ![i.transaction].approvals = @ \cup {i.approver}]
    /\ UNCHANGED multisigs
    /\ Return

Approved_ByMore(t) ==
    Cardinality(open[t].approvals) > multisigs[open[t].multisig].threshold

Approved(t) ==
    Cardinality(open[t].approvals) >= multisigs[open[t].multisig].threshold

MayExecute(i) ==
    /\ i.op = "execute_transaction"
    /\ IsOwner(i.multisig, i.executor)
    /\ IsOpen(i.transaction)
    /\ open[i.transaction].multisig = i.multisig
    /\ Approved(i.transaction)

Execute(i) ==
    /\ MayExecute(i)
    /\ executions' = Append(RestOfExecutions,
                            [transaction |-> i.transaction,
                             signer |-> multisigs[i.multisig].signer,
                             rest |-> open[i.transaction].instructions])
    /\ UNCHANGED <<multisigs, open, present, saved>>

(* Whatever is at the proposal's address when its execution ends, closes.  *)
Finish ==
    /\ executions # << >>
    /\ Last(executions).rest = << >>
    /\ open' = Without(open, {Last(executions).transaction})
    /\ executions' = Front(executions)
    /\ UNCHANGED <<multisigs, present, saved>>

(* A proposal that is void can be cancelled too.                           *)
MayCancel(i) ==
    /\ i.op = "cancel_transaction"
    /\ IsOwner(i.multisig, i.executor)
    /\ i.transaction \in TransactionAddresses
    /\ IsOpen(i.transaction) => open[i.transaction].multisig = i.multisig

Cancel(i) ==
    /\ MayCancel(i)
    /\ open' = Without(open, {i.transaction})
    /\ UNCHANGED multisigs
    /\ Return

-----------------------------------------------------------------------------
(* The instructions that change a multisig.                                *)

Governed(i) == Exists(i.multisig) /\ multisigs[i.multisig].signer \in Authority

Void(m) ==
    open' = Without(open, {t \in DOMAIN open : open[t].multisig = m})

MaySetOwners(i) == i.op = "set_owners" /\ Governed(i) /\ i.owners # << >>

(* The threshold stays, or comes down to the number of owners.             *)
SetOwners(i) ==
    /\ MaySetOwners(i)
    /\ LET n == Cardinality(ToSet(i.owners))
       IN  multisigs' = [multisigs EXCEPT
                           ![i.multisig].owners = ToSet(i.owners),
                           ![i.multisig].threshold = IF n < @ THEN n ELSE @]
    /\ Void(i.multisig)
    /\ Return

MayChangeThreshold(i) ==
    /\ i.op = "change_threshold"
    /\ Governed(i)
    /\ 1 <= i.threshold
    /\ i.threshold <= Cardinality(multisigs[i.multisig].owners)

ChangeThreshold(i) ==
    /\ MayChangeThreshold(i)
    /\ multisigs' = [multisigs EXCEPT ![i.multisig].threshold = i.threshold]
    /\ UNCHANGED open
    /\ Return

MaySetOwnersAndChangeThreshold(i) ==
    /\ i.op = "set_owners_and_change_threshold"
    /\ Governed(i)
    /\ 1 <= i.threshold
    /\ i.threshold <= Cardinality(ToSet(i.owners))

SetOwnersAndChangeThreshold(i) ==
    /\ MaySetOwnersAndChangeThreshold(i)
    /\ multisigs' = [multisigs EXCEPT ![i.multisig].owners = ToSet(i.owners),
                                      ![i.multisig].threshold = i.threshold]
    /\ Void(i.multisig)
    /\ Return

(* A call of another program takes only what somebody signs for.           *)
MayTransfer(i) == i.op = "transfer" /\ i.from \in Authority

Transfer(i) ==
    /\ MayTransfer(i)
    /\ UNCHANGED <<multisigs, open>>
    /\ Return

(* A handler returns no error.                                             *)
Acceptable(i) ==
    /\ Ordered(i)
    /\ \/ MayCreate(i)
       \/ MayPropose(i)
       \/ MayApprove(i)
       \/ MayExecute(i)
       \/ MayCancel(i)
       \/ MaySetOwners(i)
       \/ MayChangeThreshold(i)
       \/ MaySetOwnersAndChangeThreshold(i)
       \/ MayTransfer(i)

Process(i) ==
    /\ Ordered(i)
    /\ \/ Create(i)
       \/ Propose(i)
       \/ Approve(i)
       \/ Execute(i)
       \/ Cancel(i)
       \/ SetOwners(i)
       \/ ChangeThreshold(i)
       \/ SetOwnersAndChangeThreshold(i)
       \/ Transfer(i)

-----------------------------------------------------------------------------
(* Solana transactions. *)

Begin(signers) ==
    /\ present = {}
    /\ present' = signers
    /\ UNCHANGED <<multisigs, open, executions, saved>>

Commit ==
    /\ present # {}
    /\ executions = << >>
    /\ saved' = <<multisigs, open>>
    /\ present' = {}
    /\ UNCHANGED <<multisigs, open, executions>>

Rollback ==
    /\ present # {}
    /\ multisigs' = saved[1]
    /\ open' = saved[2]
    /\ executions' = << >>
    /\ present' = {}
    /\ UNCHANGED saved

Init ==
    /\ multisigs = << >>
    /\ open = << >>
    /\ present = {}
    /\ executions = << >>
    /\ saved = <<multisigs, open>>

Next ==
    \/ \E s \in SignerSets : Begin(s)
    \/ \E i \in Instructions : Process(i)
    \/ Finish
    \/ Commit
    \/ Rollback

Spec == Init /\ [][Next]_vars
=============================================================================
