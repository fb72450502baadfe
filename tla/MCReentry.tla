----------------------------- MODULE MCReentry ------------------------------
(***************************************************************************)
(* Module Multisig for TLC where a proposal is executed while it is being  *)
(* executed.  execute_transaction closes the proposal after its last       *)
(* stored instruction, so the proposal is still there for an instruction   *)
(* that executes it.  Left alone that recursion ends at the runtime's      *)
(* limit and rolls back; here the proposal at t2 replaces itself first, so *)
(* that the second execution of t1 finds another proposal and ends.        *)
(***************************************************************************)
EXTENDS MultisigProperties

CONSTANTS alice, bob, payer, m1, t1, t2

MCWallets == {alice, bob, payer}
MCMultisigAddresses == {m1}
MCTransactionAddresses == {t1, t2}
MCBumpSeeds == {255}
Signer == Pda(m1, 255)

MCSignerSets == {{alice, payer, m1, t1, t2}}

MCInitialAccounts == [a \in Addresses |-> EmptyAccount]
MCInitialLamports ==
    [a \in Addresses |-> IF a = payer THEN 4 ELSE IF a = Signer THEN 2 ELSE 0]

Execute(t, signed) ==
    [ExecuteTransactionIx(m1, Signer, t, payer, alice) EXCEPT !.signed = signed]

Propose(t, instructions) ==
    Writable(ProposeTransactionIx(m1, t, alice, payer, instructions), payer)

Everyone == {alice, payer, t2}

Payment == <<TransferIx(Signer, bob, 1)>>
PaymentThenOther == Payment \o <<Execute(t2, Everyone)>>
Replacement ==
    <<CancelTransactionIx(m1, t2, payer, alice),
      Propose(t2, <<ChangeThresholdIx(m1, Signer, 1)>>),
      Execute(t1, Everyone)>>

Sent ==
    {CreateMultisigIx(m1, Signer, payer, <<alice>>, 1, 255),
     Propose(t1, PaymentThenOther), Propose(t2, Replacement),
     Execute(t1, {alice}), Execute(t2, {alice})}

MCInstructions ==
    Sent \cup ToSet(PaymentThenOther) \cup ToSet(Replacement)
      \cup {ChangeThresholdIx(m1, Signer, 1)}
=============================================================================
