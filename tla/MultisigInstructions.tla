------------------------ MODULE MultisigInstructions ------------------------
(***************************************************************************)
(* The eight instructions of the program (enum MultisigInstruction) and    *)
(* the builders of src/ts/instructions that clients and tests use to make  *)
(* them.  An instruction is a record: its operation, the account it names  *)
(* in each role, its arguments, and the two flags of its account metas:    *)
(* `signed` are the accounts marked isSigner, `writable` those marked      *)
(* isWritable.  The same record serves for an instruction of a Solana      *)
(* transaction and for one stored in a proposal.                           *)
(***************************************************************************)
EXTENDS Integers, Sequences

CONSTANTS
    Wallets,              \* key pairs of people: owners, payers, refundees
    MultisigAddresses,    \* key pairs generated for multisig accounts
    TransactionAddresses, \* key pairs generated for transaction accounts
    BumpSeeds,            \* the nonces for which a program address exists
    SystemProgram         \* the address of the system program

(* The program address derived from a multisig account and a nonce, which  *)
(* has no private key: create_program_address is injective and fails on    *)
(* the nonces outside BumpSeeds.                                           *)
Pda(m, nonce) == <<m, nonce>>

Pdas == MultisigAddresses \X BumpSeeds

KeyPairs == Wallets \cup MultisigAddresses \cup TransactionAddresses

Addresses == KeyPairs \cup Pdas

U8 == 0 .. 255

CreateMultisigIx(m, signer, payer, owners, threshold, nonce) ==
    [op |-> "create_multisig", multisig |-> m, multisig_signer |-> signer,
     payer |-> payer, system_program |-> SystemProgram,
     owners |-> owners, threshold |-> threshold, nonce |-> nonce,
     signed |-> {m, payer}, writable |-> {m, payer}]

ProposeTransactionIx(m, t, proposer, payer, instructions) ==
    [op |-> "propose_transaction", multisig |-> m, transaction |-> t,
     proposer |-> proposer, payer |-> payer, system_program |-> SystemProgram,
     instructions |-> instructions,
     signed |-> {t, proposer, payer}, writable |-> {t}]

ApproveTransactionIx(m, t, approver) ==
    [op |-> "approve_transaction", multisig |-> m, transaction |-> t,
     approver |-> approver, signed |-> {approver}, writable |-> {t}]

ExecuteTransactionIx(m, signer, t, refundee, executor) ==
    [op |-> "execute_transaction", multisig |-> m, multisig_signer |-> signer,
     transaction |-> t, refundee |-> refundee, executor |-> executor,
     signed |-> {executor}, writable |-> {t, refundee}]

CancelTransactionIx(m, t, refundee, executor) ==
    [op |-> "cancel_transaction", multisig |-> m, transaction |-> t,
     refundee |-> refundee, executor |-> executor,
     signed |-> {executor}, writable |-> {t, refundee}]

SetOwnersIx(m, signer, owners) ==
    [op |-> "set_owners", multisig |-> m, multisig_signer |-> signer,
     owners |-> owners, signed |-> {signer}, writable |-> {m}]

ChangeThresholdIx(m, signer, threshold) ==
    [op |-> "change_threshold", multisig |-> m, multisig_signer |-> signer,
     threshold |-> threshold, signed |-> {signer}, writable |-> {m}]

SetOwnersAndChangeThresholdIx(m, signer, owners, threshold) ==
    [op |-> "set_owners_and_change_threshold", multisig |-> m,
     multisig_signer |-> signer, owners |-> owners, threshold |-> threshold,
     signed |-> {signer}, writable |-> {m}]

(* SystemProgram.transfer, the payload the tests put into proposals.       *)
TransferIx(from, to, amount) ==
    [op |-> "transfer", from |-> from, to |-> to, amount |-> amount,
     signed |-> {from}, writable |-> {from, to}]

(* The builders' optional parameters turn a flag off (approverIsSigner,    *)
(* proposerIsSigner, transactionIsWritable = false) or name another        *)
(* program as the system program (systemProgramId).                        *)
Unsigned(ix, a) == [ix EXCEPT !.signed = @ \ {a}]

ReadOnly(ix, a) == [ix EXCEPT !.writable = @ \ {a}]

(* A payer other than the fee payer has to be marked writable by the       *)
(* caller: the builder of ProposeTransaction does not do it.               *)
Writable(ix, a) == [ix EXCEPT !.writable = @ \cup {a}]

WithSystemProgram(ix, a) == [ix EXCEPT !.system_program = a]

(***************************************************************************)
(* The type of an instruction, given the set S its stored instructions are *)
(* taken from.  Multisig accounts are created at addresses generated for   *)
(* them, transaction accounts at addresses generated for them.             *)
(***************************************************************************)
Flags == SUBSET Addresses

IsInstruction(ix, S) ==
    \/ ix \in [op : {"create_multisig"}, multisig : MultisigAddresses,
               multisig_signer : Addresses, payer : Addresses,
               system_program : Addresses \cup {SystemProgram},
               owners : Seq(Addresses), threshold : U8, nonce : U8,
               signed : Flags, writable : Flags]
    \/ ix \in [op : {"propose_transaction"}, multisig : Addresses,
               transaction : TransactionAddresses, proposer : Addresses,
               payer : Addresses, system_program : Addresses \cup {SystemProgram},
               instructions : Seq(S), signed : Flags, writable : Flags]
    \/ ix \in [op : {"approve_transaction"}, multisig : Addresses,
               transaction : Addresses, approver : Addresses,
               signed : Flags, writable : Flags]
    \/ ix \in [op : {"execute_transaction"}, multisig : Addresses,
               multisig_signer : Addresses, transaction : Addresses,
               refundee : Addresses, executor : Addresses,
               signed : Flags, writable : Flags]
    \/ ix \in [op : {"cancel_transaction"}, multisig : Addresses,
               transaction : Addresses, refundee : Addresses,
               executor : Addresses, signed : Flags, writable : Flags]
    \/ ix \in [op : {"set_owners"}, multisig : Addresses,
               multisig_signer : Addresses, owners : Seq(Addresses),
               signed : Flags, writable : Flags]
    \/ ix \in [op : {"change_threshold"}, multisig : Addresses,
               multisig_signer : Addresses, threshold : U8,
               signed : Flags, writable : Flags]
    \/ ix \in [op : {"set_owners_and_change_threshold"}, multisig : Addresses,
               multisig_signer : Addresses, owners : Seq(Addresses),
               threshold : U8, signed : Flags, writable : Flags]
    \/ ix \in [op : {"transfer"}, from : Addresses, to : Addresses,
               amount : Nat, signed : Flags, writable : Flags]

ASSUME AddressSpacesDisjoint ==
    /\ MultisigAddresses \cap TransactionAddresses = {}
    /\ Wallets \cap MultisigAddresses = {}
    /\ Wallets \cap TransactionAddresses = {}
    /\ KeyPairs \cap Pdas = {}

ASSUME BumpSeedsAreU8 == BumpSeeds \subseteq U8
=============================================================================
