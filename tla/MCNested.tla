------------------------------ MODULE MCNested ------------------------------
(***************************************************************************)
(* Module Multisig for TLC where executions call the program again: two    *)
(* multisigs, the second owned by the program address of the first and by  *)
(* carol, and proposals that approve, execute, cancel and make proposals.  *)
(***************************************************************************)
EXTENDS MultisigRefinement

CONSTANTS
    alice, bob, carol, payer, \* owners, and the wallet that pays
    m1, m2, t1, t2            \* the multisigs and the proposal addresses

MCWallets == {alice, bob, carol, payer}
MCMultisigAddresses == {m1, m2}
MCTransactionAddresses == {t1, t2}
MCBumpSeeds == {255}
Pda1 == Pda(m1, 255)
Pda2 == Pda(m2, 255)

MCSignerSets == {{payer, m1, m2, t1, t2, o} : o \in {alice, bob, carol}}

MCInitialAccounts == [a \in Addresses |-> EmptyAccount]
MCInitialLamports ==
    [a \in Addresses |-> IF a = payer THEN 6 ELSE IF a = Pda2 THEN 1 ELSE 0]

Create ==
    {CreateMultisigIx(m1, Pda1, payer, <<alice, bob>>, 2, 255),
     CreateMultisigIx(m2, Pda2, payer, <<Pda1, carol>>, 1, 255),
     CreateMultisigIx(m2, Pda2, payer, <<Pda1, carol>>, 2, 255)}

(* Proposals of the second multisig, at address t2.                        *)
PayBob == <<TransferIx(Pda2, bob, 1)>>
DropCarol == <<SetOwnersIx(m2, Pda2, <<Pda1>>)>>
Proposal2 == {PayBob, DropCarol}

(* Proposals of the first, at address t1: it acts as owner of the second,  *)
(* asks for its signature without an execution of it, or cancels itself.   *)
ApproveOther == <<ApproveTransactionIx(m2, t2, Pda1)>>
ExecuteOther == <<ExecuteTransactionIx(m2, Pda2, t2, payer, Pda1)>>
ProposeAndExecuteOther ==
    <<Writable(ProposeTransactionIx(m2, t2, Pda1, payer, PayBob), payer),
      ExecuteTransactionIx(m2, Pda2, t2, payer, Pda1)>>
PayFromOther == PayBob
PayFromOtherUnmarked == <<[TransferIx(Pda2, bob, 1) EXCEPT !.signed = {}]>>
ChangeOther == <<Unsigned(ChangeThresholdIx(m2, Pda2, 1), Pda2)>>
ChangeOtherBySelf == <<ChangeThresholdIx(m2, Pda1, 1)>>
CancelSelf == <<CancelTransactionIx(m1, t1, payer, alice)>>
CancelOther == <<CancelTransactionIx(m2, t2, payer, Pda1)>>
Proposal1 == {ApproveOther, ExecuteOther, ProposeAndExecuteOther, PayFromOther,
              PayFromOtherUnmarked, ChangeOther, ChangeOtherBySelf,
              CancelSelf, CancelOther}

Sent ==
    Create
    \cup {ProposeTransactionIx(m1, t1, alice, payer, p) : p \in Proposal1}
    \cup {ProposeTransactionIx(m2, t2, carol, payer, p) : p \in Proposal2}
    \cup {ApproveTransactionIx(m1, t1, bob), ApproveTransactionIx(m2, t2, carol)}
    \cup {ExecuteTransactionIx(m1, Pda1, t1, payer, o) : o \in {alice, bob}}
    \cup {ExecuteTransactionIx(m2, Pda2, t2, payer, carol),
          CancelTransactionIx(m2, t2, payer, carol),
          CancelTransactionIx(m2, t1, payer, carol)}

MCInstructions == Sent \cup UNION {ToSet(p) : p \in Proposal1 \cup Proposal2}
=============================================================================
