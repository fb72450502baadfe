----------------------------- MODULE MCMultisig -----------------------------
(***************************************************************************)
(* Module Multisig for TLC: one multisig of three owners and threshold     *)
(* two, two addresses for proposals, and one account of each kind that     *)
(* another program owns.  A run chooses what proposals may hold            *)
(* (Payloads) among the definitions at the end.                            *)
(***************************************************************************)
EXTENDS MultisigRefinement

CONSTANTS
    alice, bob, carol, payer, \* the owners, and the wallet that pays
    m1, t1, t2,               \* the multisig and the proposal addresses
    mf, tf,                   \* accounts of another program
    Payloads                  \* the instruction lists a proposal may hold

MCWallets == {alice, bob, carol, payer}
MCMultisigAddresses == {m1, mf}
MCTransactionAddresses == {t1, t2, tf}
MCBumpSeeds == {254}

Owners == {alice, bob, carol}
AllOwners == <<alice, bob, carol>>
Signer == Pda(m1, 254)
Proposals == {t1, t2}

(* One owner at a time sends a transaction, with the payer and the keys    *)
(* generated for the new accounts.                                         *)
MCSignerSets == {{payer, m1, t1, t2, o} : o \in Owners}

MCJointSignerSets == {{payer, m1, t1, t2} \cup s : s \in {{bob}, Owners}}

MCInitialAccounts ==
    [a \in Addresses |->
       CASE a = mf -> [kind |-> "multisig", program |-> "foreign",
                       owners |-> AllOwners, threshold |-> 1, nonce |-> 254,
                       owner_set_seqno |-> 0, padding |-> 0,
                       size |-> MultisigLen(3, 0)]
         [] a = tf -> [kind |-> "transaction", program |-> "foreign",
                       multisig |-> m1,
                       instructions |-> <<TransferIx(Signer, alice, 1)>>,
                       signers |-> <<TRUE, TRUE, TRUE>>, owner_set_seqno |-> 0,
                       id |-> 99, owners |-> AllOwners, approvers |-> {}]
         [] OTHER -> EmptyAccount]

MCInitialLamports ==
    [a \in Addresses |-> IF a = payer THEN 5
                         ELSE IF a = Signer THEN 2
                         ELSE IF a \in {mf, tf} THEN 1 ELSE 0]

Create ==
    LET right == CreateMultisigIx(m1, Signer, payer, AllOwners, 2, 254)
    IN  {right, WithSystemProgram(right, payer)}

Propose ==
    {ProposeTransactionIx(m1, t, o, payer, p) :
        t \in Proposals, o \in Owners, p \in Payloads}

Approve ==
    LET honest == {ApproveTransactionIx(m1, t, o) : t \in Proposals, o \in Owners}
    IN  honest \cup {Unsigned(i, i.approver) : i \in honest}
               \cup {ReadOnly(ApproveTransactionIx(m1, t1, bob), t1)}

Execute ==
    {ExecuteTransactionIx(m1, Signer, t, payer, o) :
        t \in {t1, t2, tf}, o \in Owners}
    \cup {ExecuteTransactionIx(mf, Pda(mf, 254), tf, payer, alice),
          ExecuteTransactionIx(m1, Signer, t1, t1, alice)}

Cancel ==
    {CancelTransactionIx(m1, t, payer, o) : t \in {t1, t2, tf}, o \in Owners}
    \cup {CancelTransactionIx(m1, t1, t1, alice)}

(* What anybody may try without the multisig's signature.                  *)
Direct ==
    {Unsigned(ChangeThresholdIx(m1, Signer, 1), Signer),
     Unsigned(SetOwnersIx(m1, Signer, <<carol>>), Signer)}

Stored == UNION {ToSet(p) : p \in Payloads}

MCInstructions ==
    Create \cup Propose \cup Approve \cup Execute \cup Cancel \cup Direct
      \cup Stored \cup ToSet(MCInitialAccounts[tf].instructions)

-----------------------------------------------------------------------------
(* Payloads. *)

Shrink == <<SetOwnersIx(m1, Signer, <<bob>>)>>
Regrow == <<SetOwnersIx(m1, Signer, <<carol, alice, bob>>)>>
Swap == <<SetOwnersAndChangeThresholdIx(m1, Signer, <<carol, alice>>, 1)>>
Lower == <<ChangeThresholdIx(m1, Signer, 1)>>
Pay == <<TransferIx(Signer, bob, 1)>>
LowerThenPay == <<ChangeThresholdIx(m1, Signer, 1), TransferIx(Signer, bob, 1)>>
PayThenFail == <<TransferIx(Signer, bob, 1), ChangeThresholdIx(m1, Signer, 4)>>

GovernancePayloads == {Shrink, Regrow, Swap, Lower}
PaymentPayloads == {Pay, LowerThenPay, PayThenFail}
=============================================================================
