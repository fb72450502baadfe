-------------------------------- MODULE Wire --------------------------------
(***************************************************************************)
(* The bytes under module Multisig: what account data holds after each     *)
(* step, and what an instruction looks like between the builder that makes *)
(* it and the handler that gets it.  The program's structs and the         *)
(* client's schemas are written twice, in Rust and in TypeScript; that the *)
(* two agree, and that the sizes the program computes are those of what it *)
(* writes, is what this module is about.                                   *)
(*                                                                         *)
(* Every step is a step of Multisig; data follows the accounts it changes. *)
(***************************************************************************)
EXTENDS Multisig, Borsh

CONSTANTS
    ProgramId, \* the address of this program
    KeyBytes,  \* the 32 bytes of each address
    Nesting    \* how deep proposals are nested in an instruction

Keys == Addresses \cup {SystemProgram, ProgramId}

Pubkey == Array(PubkeyBytes)

ASSUME KeysHave32Bytes ==
    /\ KeyBytes \in [Keys -> Pubkey.values]
    /\ IsInjective(KeyBytes)

ASSUME ProgramIsNotSystem == ProgramId # SystemProgram

(* An instruction is made before one that holds it.                        *)
ASSUME InstructionsNestFinitely ==
    /\ Nesting \in [Instructions -> Nat]
    /\ \A ix \in Instructions :
          ix.op = "propose_transaction" =>
            \A k \in DOMAIN ix.instructions :
                Nesting[ix.instructions[k]] < Nesting[ix]

VARIABLES
    data,          \* the data of each account
    committedData  \* the data the last committed transaction left

wireVars == <<vars, data, committedData>>

-----------------------------------------------------------------------------
(* The structs of the program. *)

TransactionInstructionAccount ==
    StructOf([pubkey : Pubkey.values, is_signer : BOOLEAN, is_writable : BOOLEAN],
             << <<"pubkey", Pubkey>>, <<"is_signer", Bool>>,
                <<"is_writable", Bool>> >>)

Accounts == VecOf(TransactionInstructionAccount)

TransactionInstructionData ==
    StructOf([program_id : Pubkey.values, accounts : Accounts.values,
              data : Seq(Byte)],
             << <<"program_id", Pubkey>>, <<"accounts", Accounts>>,
                <<"data", VecOf(U8Format)>> >>)

InstructionList == VecOf(TransactionInstructionData)

MultisigStruct ==
    StructOf([owners : Seq(Pubkey.values), threshold : Byte, nonce : Byte,
              owner_set_seqno : Nat, padding : Seq(Byte)],
             << <<"owners", VecOf(Pubkey)>>, <<"threshold", U8Format>>,
                <<"nonce", U8Format>>, <<"owner_set_seqno", U32Format>>,
                <<"padding", VecOf(U8Format)>> >>)

TransactionStruct ==
    StructOf([multisig : Pubkey.values, instructions : InstructionList.values,
              signers : Seq(BOOLEAN), owner_set_seqno : Nat],
             << <<"multisig", Pubkey>>, <<"instructions", InstructionList>>,
                <<"signers", VecOf(Bool)>>, <<"owner_set_seqno", U32Format>> >>)

(* A handler: what its instruction carries, and the accounts it takes from *)
(* the list of the call, in order.                                         *)
NoArguments == StructOf({<< >>}, << >>)

CreateMultisigHandler ==
    [op |-> "create_multisig",
     data |-> StructOf([owners : Seq(Pubkey.values), threshold : Byte, nonce : Byte],
                       << <<"owners", VecOf(Pubkey)>>, <<"threshold", U8Format>>,
                          <<"nonce", U8Format>> >>),
     accounts |-> <<"multisig", "multisig_signer", "payer", "system_program">>]

SetOwnersHandler ==
    [op |-> "set_owners",
     data |-> StructOf([owners : Seq(Pubkey.values)],
                       << <<"owners", VecOf(Pubkey)>> >>),
     accounts |-> <<"multisig", "multisig_signer">>]

ChangeThresholdHandler ==
    [op |-> "change_threshold",
     data |-> StructOf([threshold : Byte], << <<"threshold", U8Format>> >>),
     accounts |-> <<"multisig", "multisig_signer">>]

SetOwnersAndChangeThresholdHandler ==
    [op |-> "set_owners_and_change_threshold",
     data |-> StructOf([owners : Seq(Pubkey.values), threshold : Byte],
                       << <<"owners", VecOf(Pubkey)>>, <<"threshold", U8Format>> >>),
     accounts |-> <<"multisig", "multisig_signer">>]

ProposeTransactionHandler ==
    [op |-> "propose_transaction",
     data |-> StructOf([instructions : InstructionList.values],
                       << <<"instructions", InstructionList>> >>),
     accounts |-> <<"multisig", "transaction", "proposer", "payer",
                    "system_program">>]

ApproveTransactionHandler ==
    [op |-> "approve_transaction", data |-> NoArguments,
     accounts |-> <<"multisig", "transaction", "approver">>]

ExecuteTransactionHandler ==
    [op |-> "execute_transaction", data |-> NoArguments,
     accounts |-> <<"multisig", "multisig_signer", "transaction", "refundee",
                    "executor">>]

CancelTransactionHandler ==
    [op |-> "cancel_transaction", data |-> NoArguments,
     accounts |-> <<"multisig", "transaction", "refundee", "executor">>]

Handlers_Reordered ==
    <<CreateMultisigHandler, SetOwnersHandler, ChangeThresholdHandler,
      SetOwnersAndChangeThresholdHandler, ProposeTransactionHandler,
      ApproveTransactionHandler, CancelTransactionHandler,
      ExecuteTransactionHandler>>

(* The variants of enum MultisigInstruction, numbered from 0.              *)
Handlers ==
    <<CreateMultisigHandler, SetOwnersHandler, ChangeThresholdHandler,
      SetOwnersAndChangeThresholdHandler, ProposeTransactionHandler,
      ApproveTransactionHandler, ExecuteTransactionHandler,
      CancelTransactionHandler>>

-----------------------------------------------------------------------------
(* The client's schemas, and the order of the accounts in its builders.    *)
(* Each schema begins with the discriminator, a u8; `schema` is the rest.  *)

Discriminator ==
    [create_multisig |-> 0, set_owners |-> 1, change_threshold |-> 2,
     set_owners_and_change_threshold |-> 3, propose_transaction |-> 4,
     approve_transaction |-> 5, execute_transaction |-> 6, cancel_transaction |-> 7]

CreateMultisigBuilder ==
    [keys |-> <<"multisig", "multisig_signer", "payer", "system_program">>,
     schema |-> StructOf([owners : Seq(Array(32).values), threshold : Byte, nonce : Byte],
                         << <<"owners", VecOf(Array(32))>>, <<"threshold", U8Format>>,
                            <<"nonce", U8Format>> >>)]

SetOwnersBuilder ==
    [keys |-> <<"multisig", "multisig_signer">>,
     schema |-> StructOf([owners : Seq(Array(32).values)],
                         << <<"owners", VecOf(Array(32))>> >>)]

ChangeThresholdBuilder ==
    [keys |-> <<"multisig", "multisig_signer">>,
     schema |-> StructOf([threshold : Byte], << <<"threshold", U8Format>> >>)]

SetOwnersAndChangeThresholdBuilder ==
    [keys |-> <<"multisig", "multisig_signer">>,
     schema |-> StructOf([owners : Seq(Array(32).values), threshold : Byte],
                         << <<"owners", VecOf(Array(32))>>,
                            <<"threshold", U8Format>> >>)]

AccountsSchema ==
    VecOf(StructOf([pubkey : Array(32).values, is_signer : BOOLEAN,
                    is_writable : BOOLEAN],
                   << <<"pubkey", Array(32)>>, <<"is_signer", Bool>>,
                      <<"is_writable", Bool>> >>))

InstructionsSchema ==
    VecOf(StructOf([program_id : Array(32).values, accounts : AccountsSchema.values,
                    data : Seq(Byte)],
                   << <<"program_id", Array(32)>>, <<"accounts", AccountsSchema>>,
                      <<"data", VecOf(U8Format)>> >>))

ProposeTransactionBuilder ==
    [keys |-> <<"multisig", "transaction", "proposer", "payer", "system_program">>,
     schema |-> StructOf([instructions : InstructionsSchema.values],
                         << <<"instructions", InstructionsSchema>> >>)]

ApproveTransactionBuilder ==
    [keys |-> <<"multisig", "transaction", "approver">>,
     schema |-> NoArguments]

ExecuteTransactionBuilder ==
    [keys |-> <<"multisig", "multisig_signer", "transaction", "refundee",
                "executor">>,
     schema |-> NoArguments]

CancelTransactionBuilder ==
    [keys |-> <<"multisig", "transaction", "refundee", "executor">>,
     schema |-> NoArguments]

Builder ==
    [create_multisig |-> CreateMultisigBuilder, set_owners |-> SetOwnersBuilder,
     change_threshold |-> ChangeThresholdBuilder,
     set_owners_and_change_threshold |-> SetOwnersAndChangeThresholdBuilder,
     propose_transaction |-> ProposeTransactionBuilder,
     approve_transaction |-> ApproveTransactionBuilder,
     execute_transaction |-> ExecuteTransactionBuilder,
     cancel_transaction |-> CancelTransactionBuilder]

MultisigSchema_Swapped ==
    StructOf([owners : Seq(Array(32).values), nonce : Byte, threshold : Byte,
              owner_set_seqno : Nat, padding : Seq(Byte)],
             << <<"owners", VecOf(Array(32))>>, <<"nonce", U8Format>>,
                <<"threshold", U8Format>>, <<"owner_set_seqno", U32Format>>,
                <<"padding", VecOf(U8Format)>> >>)

MultisigSchema ==
    StructOf([owners : Seq(Array(32).values), threshold : Byte, nonce : Byte,
              owner_set_seqno : Nat, padding : Seq(Byte)],
             << <<"owners", VecOf(Array(32))>>, <<"threshold", U8Format>>,
                <<"nonce", U8Format>>, <<"owner_set_seqno", U32Format>>,
                <<"padding", VecOf(U8Format)>> >>)

TransactionSchema ==
    StructOf([multisig : Array(32).values, instructions : InstructionsSchema.values,
              signers : Seq(BOOLEAN), owner_set_seqno : Nat],
             << <<"multisig", Array(32)>>, <<"instructions", InstructionsSchema>>,
                <<"signers", VecOf(Bool)>>, <<"owner_set_seqno", U32Format>> >>)

-----------------------------------------------------------------------------
(* Instructions on the wire: a program, accounts with flags, bytes.        *)

KeyList(addresses) == [k \in DOMAIN addresses |-> KeyBytes[addresses[k]]]

Metas(ix, roles) ==
    [k \in DOMAIN roles |->
       [pubkey |-> KeyBytes[ix[roles[k]]], is_signer |-> ix[roles[k]] \in ix.signed,
        is_writable |-> ix[roles[k]] \in ix.writable]]

(* What a builder is given besides accounts: addresses as bytes, stored    *)
(* instructions as `built` makes them.                                     *)
Arguments(built, ix) ==
    CASE ix.op = "create_multisig" ->
           [owners |-> KeyList(ix.owners), threshold |-> ix.threshold,
            nonce |-> ix.nonce]
      [] ix.op = "set_owners" -> [owners |-> KeyList(ix.owners)]
      [] ix.op = "change_threshold" -> [threshold |-> ix.threshold]
      [] ix.op = "set_owners_and_change_threshold" ->
           [owners |-> KeyList(ix.owners), threshold |-> ix.threshold]
      [] ix.op = "propose_transaction" ->
           [instructions |-> [k \in DOMAIN ix.instructions |->
                                built[ix.instructions[k]]]]
      [] OTHER -> << >>

BuiltWith(built, ix) ==
    IF ix.op = "transfer"
      THEN [program_id |-> KeyBytes[SystemProgram],
            accounts |-> Metas(ix, <<"from", "to">>),
            data |-> Bytes(2) \o Bytes(ix.amount)
                       \o Bytes((ix.amount \div 65536) \div 65536)]
      ELSE [program_id |-> KeyBytes[ProgramId],
            accounts |-> Metas(ix, Builder[ix.op].keys),
            data |-> U8Format.write[Discriminator[ix.op]]
                       \o Builder[ix.op].schema.write[Arguments(built, ix)]]

(* An instruction as its builder makes it, with those stored in it.        *)
Built[ix \in Instructions] == BuiltWith(Built, ix)

(* process_instruction: the handler that is called, and what it is given.  *)
Dispatch(bytes) ==
    IF bytes = << >> \/ Head(bytes) >= Len(Handlers) THEN {}
    ELSE {<<Head(bytes) + 1, arguments>> :
            arguments \in TryFromSlice(Handlers[Head(bytes) + 1].data, Tail(bytes))}

Flagged(accountMetas, flag) ==
    {accountMetas[k].pubkey : k \in {j \in DOMAIN accountMetas : accountMetas[j][flag]}}

(* What its handler sees of an instruction, if the call has as many        *)
(* accounts as it takes.                                                   *)
Received(raw) ==
    {[op |-> Handlers[d[1]].op, arguments |-> d[2],
      accounts |-> {<<Handlers[d[1]].accounts[k], raw.accounts[k].pubkey>> :
                      k \in DOMAIN Handlers[d[1]].accounts},
      signed |-> Flagged(raw.accounts, "is_signer"),
      writable |-> Flagged(raw.accounts, "is_writable")] :
       d \in {e \in Dispatch(raw.data) :
               Len(Handlers[e[1]].accounts) <= Len(raw.accounts)}}

(* What the client means it to see.                                        *)
Sent(ix) ==
    [op |-> ix.op, arguments |-> Arguments(Built, ix),
     accounts |-> {<<role, KeyBytes[ix[role]]>> : role \in ToSet(Builder[ix.op].keys)},
     signed |-> {KeyBytes[a] : a \in ix.signed},
     writable |-> {KeyBytes[a] : a \in ix.writable}]

(* The flags of a builder are those of the accounts it lists.              *)
ASSUME FlagsAreOfAccounts ==
    \A ix \in Instructions :
        ix.op # "transfer" =>
          ix.signed \cup ix.writable
            \subseteq {ix[role] : role \in ToSet(Builder[ix.op].keys)}

(* An instruction has at most as many bytes as a Solana transaction.       *)
ASSUME InstructionsFit ==
    \A ix \in Instructions :
        /\ FitsU32(Len(Built[ix].data))
        /\ ix.op = "propose_transaction" => FitsU32(Len(ix.instructions))

ASSUME SeqnoFits == SeqnoModulus \in Nat \ {0} /\ FitsU32(SeqnoModulus - 1)

-----------------------------------------------------------------------------
(* Account data. *)

Struct(a) == IF a.kind = "multisig" THEN MultisigStruct ELSE TransactionStruct

AccountSchema(a) == IF a.kind = "multisig" THEN MultisigSchema ELSE TransactionSchema

Zeroes(n) == [k \in 1 .. n |-> 0]

Contents(a) ==
    IF a.kind = "multisig"
      THEN [owners |-> KeyList(a.owners), threshold |-> a.threshold,
            nonce |-> a.nonce, owner_set_seqno |-> a.owner_set_seqno,
            padding |-> Zeroes(a.padding)]
      ELSE [multisig |-> KeyBytes[a.multisig],
            instructions |-> [k \in DOMAIN a.instructions |->
                                Built[a.instructions[k]]],
            signers |-> a.signers, owner_set_seqno |-> a.owner_set_seqno]

Serialized(a) ==
    IF a = EmptyAccount THEN << >> ELSE Struct(a).write[Contents(a)]

InstructionLen_WideFlags(raw) ==
    32 + 4 + (32 + 4 + 4) * Len(raw.accounts) + 4 + Len(raw.data)

InstructionLen(raw) ==
    32 + 4 + (32 + 1 + 1) * Len(raw.accounts) + 4 + Len(raw.data)

InstructionsLen(instructions) ==
    LET sum[k \in 0 .. Len(instructions)] ==
          IF k = 0 THEN 0 ELSE sum[k - 1] + InstructionLen(instructions[k])
    IN  sum[Len(instructions)]

TransactionLen(tx) ==
    32 + 4 + InstructionsLen(tx.instructions) + 4 + Len(tx.signers) + 4

(* The space a new account is created with.                                *)
SpaceFor(a) ==
    IF a.kind = "multisig" THEN MultisigLen(Len(a.owners), a.padding)
    ELSE TransactionLen(Contents(a))

(* serialize writes into the account from its start, and fails where the   *)
(* account is too short; a new account is full of zeroes.                  *)
Buffer(x) ==
    IF accounts[x] = EmptyAccount THEN Zeroes(SpaceFor(accounts'[x])) ELSE data[x]

Overwritten(x) ==
    LET bytes == Serialized(accounts'[x])
    IN  bytes \o SubSeq(Buffer(x), Len(bytes) + 1, Len(Buffer(x)))

Changed == {x \in Addresses : accounts'[x] # accounts[x]}

Rewrite ==
    /\ \A x \in Changed : accounts'[x] = EmptyAccount
                            \/ Len(Serialized(accounts'[x])) <= Len(Buffer(x))
    /\ data' = [x \in Addresses |->
                 IF x \notin Changed THEN data[x]
                 ELSE IF accounts'[x] = EmptyAccount THEN << >>
                 ELSE Overwritten(x)]

WireInit ==
    /\ Init
    /\ data = [x \in Addresses |-> Serialized(accounts[x])]
    /\ committedData = data

WireNext ==
    \/ (Begin \/ Handler) /\ Rewrite /\ UNCHANGED committedData
    \/ Commit /\ committedData' = data /\ UNCHANGED data
    \/ Abort /\ data' = committedData /\ UNCHANGED committedData

WireSpec == WireInit /\ [][WireNext]_wireVars

-----------------------------------------------------------------------------
(* Properties. *)

(* The program's own accounts never become malformed: whatever was written *)
(* into the space computed at their creation, try_from_slice reads back    *)
(* the values the handlers meant, and no byte is left over (len,           *)
(* checked_deserialize, the padding of execute_set_owners).                *)
AccountsAreWellFormed ==
    \A x \in ProgramMultisigs \cup ProgramTransactions :
        TryFromSlice(Struct(accounts[x]), data[x]) = {Contents(accounts[x])}

(* An owner who inspects a multisig or a proposal before approving sees    *)
(* what the program will act on: the client's decoders and the program     *)
(* agree on every account (src/ts/state).                                  *)
ClientsReadWhatIsStored ==
    \A x \in ProgramMultisigs \cup ProgramTransactions :
        Deserialize(AccountSchema(accounts[x]), data[x]) = {Contents(accounts[x])}

(* A stored instruction of this program, taken from the proposal's bytes,  *)
(* is dispatched to the handler its builder was for, with the accounts in  *)
(* their roles and the same arguments; so is every instruction a client    *)
(* can send now (processor.rs, ts/instructions).                           *)
InstructionsArrive ==
    /\ \A t \in ProgramTransactions :
          \A tx \in TryFromSlice(TransactionStruct, data[t]) :
             \A k \in DOMAIN tx.instructions :
                 tx.instructions[k].program_id = KeyBytes[ProgramId]
                   => Received(tx.instructions[k]) = {Sent(accounts[t].instructions[k])}
    /\ \A c \in TransactionCalls :
          c.ix.op # "transfer" => Received(Built[c.ix]) = {Sent(c.ix)}
=============================================================================
