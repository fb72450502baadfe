# Multisig program: TLA+ models, checks and proofs

The program (`src/program`) is a Solana program in Rust by which several owners
govern, together, whatever one key could: a *multisig* account holds the owners
and the threshold, a *transaction* account (a **proposal** here, to keep it apart
from a Solana transaction) holds a list of instructions and the owners' approvals,
and executing the proposal runs the instructions with the signature of an address
that only the program can sign for. The TypeScript in `src/ts` builds its
instructions; `src/tests` drives it through a simulated bank.

## The system

| Component | Source | State | Operations |
| --- | --- | --- | --- |
| multisig account | `state/multisig.rs` | owners, threshold, nonce, owner set number, padding | created, owners and threshold changed; never closed |
| transaction account | `state/transaction.rs` | its multisig, instructions, one bit per owner, owner set number | created, bits set, closed |
| `create_multisig`, `propose_transaction` | `instructions/…` | – | call the system program to create the account, write it |
| `approve_transaction` | | – | sets the bit at the approver's position among the owners |
| `execute_transaction` | | a copy of the proposal, for as long as it runs | calls the stored instructions with the multisig's signature, then closes the account |
| `cancel_transaction` | | – | any one owner closes a proposal of this or an earlier owner set |
| `set_owners`, `change_threshold`, `set_owners_and_change_threshold` | | – | need the multisig's own signature, so they run inside an execution |
| shared operations | `instructions/common.rs`, `errors.rs` | – | `close_account`, padding arithmetic, checks |
| dispatch | `processor.rs`, `lib.rs` | – | instruction data to handler |
| builders | `ts/instructions` | – | instructions with their signer and writable flags |
| client and tests | `ts/multisigDsl.ts`, `tests` | – | Solana transactions of one or several instructions |
| runtime, system program | (external) | accounts, balances, call stack | all-or-nothing transactions, signer privileges, `create_account`, `transfer` |

The handlers keep no state between calls; they interact through the accounts and
through the calls an execution makes, which may be calls of this program again.

What is hard about it:

- **Order of Solana transactions.** Anybody may send the next one. A proposal can
  be approved, then overtaken by a proposal that changes the owners (*its*
  approvals must then count for nothing), cancelled by another owner, executed, or
  replaced by a new proposal at the same address.
- **Calls in the middle of an execution.** `execute_transaction` validates, runs
  the stored instructions, and closes the proposal last. Those instructions may
  execute, cancel or make proposals of the same or of another multisig, whose
  owner the first one's address may be.
- **Failure.** An error anywhere undoes the whole Solana transaction.
- **Long sequences.** Shrinking and regrowing the owners recomputes the padding
  with `usize` arithmetic that wraps; the threshold is clamped to a `u8` cast.

What makes the components correct: accounts that deserialize whatever was done to
them; thresholds the owners can reach; bits that mean signatures of the current
owners; executions that have a quorum, happen once and as a whole; a multisig that
changes and pays only in its own executions; rent that is returned; and proposals
that can always be cancelled.

## Modules

| Module | What it holds |
| --- | --- |
| `MultisigInstructions` | the address spaces, the instruction builders and the type of an instruction |
| `Multisig` | the program and the runtime around it: variables, one action per handler, `Init`, `Next`, `Spec` |
| `MultisigProperties` | assumptions on the constants, the type invariant, the properties |
| `MultisigSpec` | what the program promises: no accounts, balances, bits, padding or owner set numbers |
| `MultisigRefinement` | `Multisig` implements `MultisigSpec`: the mapping of the state |
| `Clients` | owners in processes of their own, over a network that delays and loses; composes with `MultisigSpec` |
| `Borsh` | the binary format of accounts and instructions |
| `Wire` | `Multisig` with the bytes of its accounts, the structs of the program and the schemas of the client |
| `MCMultisig`, `MCNested`, `MCReentry`, `MCWire` | instances of `Multisig` and `Wire` for TLC |
| `MCClients` | instance of `Clients` for TLC |
| `MultisigProofs` | type correctness; multisig accounts stay well formed |
| `QuorumProofs` | proposals are tied to owner sets; executions have a quorum; a multisig changes and pays only in its own executions |
| `LamportsProofs` | where the lamports go: rent is returned, executions pay all or nothing |
| `OnceProofs` | when a proposal is executed at most once |
| `RefinementProofs` | the refinement |
| `ClientsProofs` | approvals that are processed late, transactions that several owners sign |
| `BorshProofs` | what is written in Borsh is read back, and how long it is |
| `WireProofs` | account data stays readable, by the program and its client; instructions arrive |

`Multisig` is the program as it is, the only module the others need to be compared
with the Rust code. `MultisigSpec` is what its callers may rely on; the refinement
shows that, so `Clients` can be composed with the smaller module. `Wire` adds the
data that `Multisig` abstracts from.

### State

`accounts` maps an address to `EmptyAccount` or to a record with the fields of the
Rust struct, its owning program, and, for a multisig, the length its account was
created with. `lamports` are the balances. `batch` is the Solana transaction being
processed: who signed it and how many more instructions it may have. `stack` is
the executions in progress, outermost first, each with its copy of the proposal
and the instructions it has left. `committed` is the ledger as the last successful
Solana transaction left it. `proposals` and `executed`, and the fields `id`,
`owners`, `approvers` of a proposal and the last five of a frame, are history: no
guard reads them except the bound on `proposals`.

### Actions

A handler is one action: the conjunction of its checks, in the order of the code,
and its effects. `TransactionCalls` are the calls the Solana transaction can make
next, `InvokeSigned` the call the innermost execution makes next: its signers are
the accounts that the stored instruction marks, which must be signers of the
execution, and the multisig's address, whose signature
`execute_transaction.rs:20-34` adds. `ExecuteTransaction` validates and pushes a
frame; each stored instruction is then the action of its own handler (or
`Transfer`); `FinishExecution` closes the account at the proposal's address and
pops the frame. That split is where another handler can run inside
`execute_transaction` in the program, and only there.

An error ends the Solana transaction, so an action is not enabled where its
handler returns an error or panics; `Abort`, possible at any moment of a Solana
transaction, puts `committed` back. A run therefore also covers transactions that
fail for reasons outside the program (compute budget, a stored instruction of
another program). `Commit` may come after any number of instructions up to
`MaxBatch`, so that transactions of every length are covered.

### What the program promises

Each operation has a guard, `MayCreate` … `MayTransfer`, and an action that is the guard
and its effects; `Acceptable(i)` is the guards together, what a handler that returns no
error requires. In `MultisigSpec` a multisig is a set of owners, a threshold and the address that
signs for it, and an open proposal is its instructions and the set of owners who
approved it. A step acts under the `Authority` of the key pairs that sign the
Solana transaction and of the multisigs whose executions are in progress. A change
of owners removes every open proposal of the multisig at once. The mapping of
`MultisigRefinement`:

| `MultisigSpec` | `Multisig` |
| --- | --- |
| `multisigs` | the accounts of kind multisig that the program owns; owners as a set, signer as `Pda(address, nonce)` |
| `open` | the proposals that carry their multisig's current owner set number; approvals are the owners at the set bits |
| `present` | `batch.signers` |
| `executions` | `stack`: proposal address, signer, instructions left |
| `saved` | `committed`, mapped in the same way |

That a proposal of an earlier owner set is not open is the content of the mapping:
`set_owners` touches no proposal, yet in `MultisigSpec` it closes them all.
`InvokeSigned`, `TransactionCalls` and `Ordered` correspond; `Finish` removes
whatever is open at the address, since the program closes whatever is there.

### Clients

Each owner is a process. It reads committed accounts, signs a Solana transaction of
one or several instructions, sends it and waits (`sent`), as `createAndProcessTx`
of `ts/multisigDsl.ts` does; what it read may have changed when the transaction is
processed. `Deliver` begins it, in any order relative to those of other clients;
`Accept` and `Finish` process its instructions through `MultisigSpec`, one by one;
`Refuse` rolls it back when the next one has no step, `Commit` ends it. `Expire` is a
transaction that was lost, or whose blockhash expired on the way; the client sends
nothing again by itself, its user may. `ProposeSignAndExecute` is the
transaction that several owners sign (`proposeSignAndExecuteTransaction`).

The address of a proposal is a key pair that one client has generated, its `Holder`.
`proposeTransaction` generates one for each proposal unless it is given one
(`transactionAddress`), so an owner may propose at an address of its own again
(`Propose`): after a cancel or an execution, for the same instructions or for others.
At an address of somebody else it can only try (`ProposeElsewhere`), because the
signature is missing. `proposeSignAndExecuteTransaction` always generates one
(`Generated`).

So **an approval can count for a content its owner has not read**: the holder of the
address cancels the proposal and proposes something else there while the approval is on
its way, and `approve_transaction` names the address only. `late_votes` reaches that
case. What holds, and is `VotesAreInformed`, is that nobody but the holder can bring it
about: what a proposal holds, the holder of its address has signed to propose, and
whoever is counted for it has signed for that or for another proposal of the same holder
at that address. At an address with one content, as a key pair generated for each
proposal gives it, each approval is of that content (`ApprovedAsSignedAlways`).

Clients take no step while a transaction is processed. Their steps read `saved` and
write `sent` and `signedFor`, neither of which processing touches before it ends, so
an order in which they do take steps then leads to the same states. `present = {}`
plays the part of the bank's lock. `signedFor` is history: who signed with what
content in view.

`Refuse` happens only if the next instruction is not `Acceptable` to `MultisigSpec`, so
`Clients` supposes that a program that may act does. The concrete program also refuses
for lack of lamports for the rent or for a transfer, of stack height, or of an account
in the call, owners who are listed twice or are more than the account has room for, and
a proposal at the address of one that is void, until that is cancelled. In these
instances payers and signers have the lamports, nothing nests and no list of owners is
of those kinds; a transaction of a team proposes at an address that was never used. A
safety property of `Clients` is not hurt by more refusals, except `JointIsNeverRefused`,
which is to be read with this list.

### Bytes

A format of `Borsh` is a record of its values, a function that writes a value and a
function that reads one from the start of some bytes; the formats of vectors and structs
are made of those of their elements and fields. A reader fails (the empty set) on bytes
that are too few or no value of the format, and `TryFromSlice` on bytes left over. In
`Wire` the formats appear as often as they do
in the source: the structs of the program (`state/*.rs`, the enum and the handlers'
account order in `processor.rs` and `instructions/*.rs`) and the schemas of the
client (`ts/state`, `ts/instructions`). `Multisig` takes each step; `data` follows,
the way `serialize` does: it overwrites from the start of an account whose size was
computed at creation (`SpaceFor`) and fails where that is too short. Each address has
32 bytes of its own. `Built` is what a builder makes of its arguments, defined by
recursion over the instructions that a proposal holds (`Nesting`), `Received` what
the handler that the first byte selects is given. The accounts that
`execute_transaction` takes after its own five are left out, since no handler reads
them by position.

### Abstractions

- The instruction data and the accounts an instruction names are a record, not
  bytes, everywhere but in `Wire`. `CreateMultisigIx` … are the builders of `src/ts/instructions`, with the
  flags they set, and `Unsigned`, `ReadOnly`, `WithSystemProgram` their optional
  parameters. The builder of a proposal does not mark its payer writable;
  `TransactionCalls` adds the fee payer, `Writable` marks another.
- `Pda(m, nonce)` is the pair: program addresses are distinct for distinct seeds,
  never key pairs, and exist for the nonces in `BumpSeeds` only.
- The kinds of account are told apart by `kind`: that bytes of one kind do not
  decode as the other (`tests/accountTypeConfusionTest.ts`) is assumed. Where one
  kind has a number of elements the other has bytes of a key, so it would take a key
  that begins with a small number; `Wire` gives addresses bytes that do not.
- Accounts for multisigs and for proposals are created at addresses generated for
  the one or the other, as `multisigDsl.ts` does.
- An execution is given every account its instructions need, with the
  writability they ask for: a client that leaves one out gets an error.
- `Rent` is one constant, whatever the size; Solana transaction fees are left out.
- `checked_add` on balances cannot overflow: the supply of lamports is bounded.
- `usize` and `u32` arithmetic is modulo `UsizeModulus` and `SeqnoModulus`, `as u8`
  modulo 256. The program's profile has no overflow checks in release builds, so
  subtraction wraps.

## Runs

| Run | Instance | Shows |
| --- | --- | --- |
| `governance` | `MCMultisig`, `MCGovernance.cfg` | all invariants and step properties, over changes of owners and threshold |
| `payments` | `MCMultisig`, `MCPayments.cfg` | an execution is all or nothing, over Solana transactions of up to four instructions |
| `nested` | `MCNested`, `MCNested.cfg` | quorum, once, all or nothing, authority and the refinement when executions call the program |
| `implements` | `MCMultisig`, `MCImplements.cfg` | the refinement, over changes of owners and threshold |
| `joint` | `MCClients`, `MCJoint.cfg` | a transaction in which a quorum proposes, approves and executes is never refused, whatever another owner does |
| `late_votes` | `MCClients`, `MCLateVotes.cfg` | an approval that is processed late counts only for what the holder of the address has proposed there |
| `progress` | `MCClients`, `MCProgress.cfg` | a proposal with enough supporters does not stay open, though another owner cancels it, makes it again and raises the threshold |
| `progress_void` | `MCClients`, `MCProgressVoid.cfg` | the same, when a change of owners may void it at any moment |
| `wire` | `MCWire`, `MCWire.cfg` | accounts hold what the program means, clients read the same, instructions reach their handlers |
| `signers_comment` | `MCMultisig`, `MCSignersComment.cfg` | a counterexample to a comment, see below |
| `reentry` | `MCReentry`, `MCReentry.cfg` | a counterexample to the title of a test, see below |

Deadlock is checked in the runs of `Multisig`: some Solana transaction can always
begin, and one that has begun can always end. It is not checked in those of
`Clients`, where the addresses for proposals may be used up and all proposals closed,
after which no client has anything left to send.

**Fairness** is assumed in `progress` and `progress_void` only, and none of it is the
program's, which is called and returns:

- `WF_vars(Bank)`: the runtime goes on with a transaction that it has begun.
- `SF_vars(Deliver(o) \/ Expire(o))` for each supporter: a wait for the outcome ends,
  at the latest with the blockhash. Strong, because another client's transaction
  disables both for as long as it is processed.
- `SF_vars(Supports(o))`: a supporter approves the proposal unless it has, executes
  it once it has enough approvals, and tries again after each failure.
- `SF_vars(DeliverSupport(o))`: of what it sends for the proposal again and again, not
  everything is lost, or always too early.

Nothing is assumed of the other owners: they may act all the time, or never again.
The property, `GoalIsReached`, is an infinitely-often: the proposal may come to be
closed, void or without a quorum of supporters, and one such moment after every
moment is what is shown. The stored instructions of these runs are always accepted; a
proposal whose instructions fail stays open rightly. The conclusion is about
`MultisigSpec` with these clients: a refinement carries safety over to the program,
not that it does something, see *Clients* for what else it may refuse.

**Bounds.** `governance` has three owners and threshold two: the smallest in which
a quorum is neither one owner nor all, an owner can be removed and come back at
another position, and the clamp of the threshold acts (`Shrink` leaves one owner).
`Regrow` needs the padding that `Shrink` leaves. Two owner changes
(`MaxOwnerSetSeqno`) and three proposals are what it takes for a proposal to be
two owner sets behind, or for an address to be used again after a change. The two
foreign accounts `mf` and `tf` hold what would be a multisig with threshold one and
a fully approved proposal if another program did not own them. `MaxBatch` is 1 here
because transactions of one instruction allow every interleaving; `payments` has
up to four instructions in one transaction, enough to execute a proposal, propose
again at its address, approve and execute that, with signers who can form a quorum
in it, and has a proposal whose second instruction fails. `nested` has two
multisigs, the second owned by the program address of the first, and one payload
for each way in which an execution can act on the other multisig or on its own
proposal. `implements` is `governance` with two proposals, the number for one to be void
while another executes. The runs of `Clients` have addresses for two proposals: one to
be voted on and one to overtake it. `joint` has three owners with threshold two, one of
whom (`c`) acts on its own, and payloads that change the owners or need a signature that
not everybody can give. In `late_votes` two owners hold an address each, propose and
cancel at both and vote on both, with two payloads: the fewest for an approval to meet
another content and for an owner to reach for the other's address. `progress` has a third
owner who holds both addresses and raises the threshold from two to three, which takes
the quorum from the two supporters; `progress_void` has two owners, one of whom proposes,
cancels and votes, and payloads that raise the threshold from one to two or reorder
the owners, which voids what is open. They are two runs because `signedFor` remembers
every content signed for at every address: three owners with both payloads are
more states than liveness can be checked on. `wire` has two proposals and one set of signers, everybody, so that
its steps differ in bytes and not in who signs; its payloads are those that
change the length of the owners, their order and the threshold, and one with a
transfer. `MaxStackHeight` is the runtime's. `UsizeModulus` and `SeqnoModulus` are
65536, to which the lengths that occur (below 200) are as small as to 2^64.

### Disagreements

- `state/transaction.rs:14` says of `Transaction.signers`: "signers[index] is true
  iff multisig.owners[index] signed the transaction." After a change of owners the
  bits of older proposals are still those of the former owners. The sentence is
  true of the proposals that carry the current owner set number, which are the
  only ones that can be approved or executed: that is `BitsAreSignatures`.
- `tests/executeTransactionTest.ts:246` is titled "should not execute transaction
  twice" and executes one a second time after the first has finished. A proposal
  whose own instructions lead to its execution can finish twice in one Solana
  transaction, because it is closed last (`execute_transaction.rs:38`). Left alone
  such a recursion ends at the stack height limit, and everything is rolled back;
  in the run, one of two mutually executing proposals replaces itself on the way.
  Both were approved by a quorum. `ExecutedAtMostOnce` holds in the runs whose
  proposals do not execute themselves, and `OnceProofs` shows that this is the only
  exception.

## Proofs

Every theorem holds for all values of the constants that satisfy the named
assumptions: any instructions, any number of owners, multisigs and proposals, any
stack height and length of Solana transactions; for `Clients`, any number of clients
and payloads.

| Theorem | States |
| --- | --- |
| `MultisigProofs!TypeCorrect` | `Spec => []TypeOK` |
| `MultisigProofs!WellFormedAlways` | `Spec => []MultisigWellFormed` |
| `QuorumProofs!BitsAreSignaturesAlways` | `Spec => []BitsAreSignatures` |
| `QuorumProofs!CancellableAlways` | `Spec => []CancellableForever` |
| `QuorumProofs!QuorumAlways` | `Spec => []ExecutionHasQuorum` |
| `QuorumProofs!OwnersNumberedAlways` | `Spec => OwnerSetsAreNumbered` |
| `QuorumProofs!GovernedAlways` | `Spec => GovernedByExecution` |
| `LamportsProofs!RentIsReturnedAlways` | `Spec => RentIsReturned` |
| `LamportsProofs!AllOrNothingAlways` | `Spec => []ExecutionIsAllOrNothing` |
| `OnceProofs!OnceUnlessReentered` | `Spec /\ []NotReentered => []ExecutedAtMostOnce` |
| `OnceProofs!ExecutedOnce` | `NoStoredExecutions => (Spec => []ExecutedAtMostOnce)` |
| `RefinementProofs!Implements` | `Spec => ImplementsPromise` |
| `ClientsProofs!VotesAreInformedAlways` | `Spec => []VotesAreInformed`, of `Clients` |
| `ClientsProofs!ApprovedAsSignedAlways` | the same, where an address has one content |
| `ClientsProofs!ClientsTypeCorrect` | `Spec => []ClientsTypeOK`, of `Clients` |
| `ClientsProofs!JointNeverRefused` | `PlainPayloads => (Spec => []JointIsNeverRefused)`, of `Clients` |
| `WireProofs!WellFormedDataAlways` | `WireSpec => []AccountsAreWellFormed` |
| `WireProofs!ClientsReadAlways` | `WireSpec => []ClientsReadWhatIsStored` |
| `WireProofs!InstructionsArriveAlways` | `WireSpec => []InstructionsArrive` |

The invariant is `Inv == TypeOK /\ GoodInv /\ TiedInv /\ FrameInv`, inductive by
`InvStep`, which takes it action by action:

- `GoodInv`: every multisig account is well formed, has fewer than 256 owners and a
  size below `UsizeModulus`. The last two make the `u8` casts exact and the padding
  right: `PaddingKeepsSize` shows that the wrapped arithmetic gives the account's
  old length, for the owner lists `validate_owners` admits.
- `TiedInv`: each proposal's multisig exists, its number is not below the
  proposal's, and if they are equal the owners are those the proposal was made
  under and bit *k* is set if and only if owner *k* has signed. A change of owners
  takes the number past that of every proposal, which voids the second part.
- `FrameInv`: an execution in progress was validated with a quorum and keeps the
  address of a proposal, so that the close at its end cannot hit a multisig.
  `ApprovalsAreOwners` takes the count of bits to a count of owners by an
  injection, since owners are distinct.

Both `GoodInv` and `TiedInv` speak of `accounts` and of `committed.accounts`, which
`Abort` brings back. Four more invariants rest on it:

- `AuthorityInv`: an execution passes on the signatures of the key pairs and of the
  executions below it, and no others; its own address is that of its multisig. So a
  call signed by a multisig's address is made inside an execution of that multisig
  (`PdaIsOfExecution`), however the signature got there. `ChangesAreGoverned` and
  `PaymentsAreGoverned` apply that to each handler that writes a multisig or debits
  an account.
- `RentInv`: every proposal holds at least the rent, since `create_account` and
  `transfer` only debit accounts without data, and an execution's refundee is not its
  proposal.
- `PaidInv`: what the signer of a multisig has paid is no more than the executed
  proposals say plus what the executions in progress have already run, and exactly that
  if no instruction credits it.
  The parts of an execution are the instructions it has run and the ones it has
  left, which are always an end of the proposal's list; the end of an execution finds
  nothing left and moves its payments to `executed`. Lamports are counted one by one,
  as a set with an element for each lamport of each instruction, so that adding two
  amounts is the union of disjoint sets and needs no recursion. Only a stored
  instruction of an execution in progress can debit a multisig's signer, because
  nobody has a key for it.
- `OnceInv`: every proposal has a number of its own and is gone once executed; the
  proposal of an execution in progress is at the address the execution will close, or
  gone. The end of an execution keeps that only if no other execution of the same
  proposal is in progress (`NotReentered`), which `reentry` shows to be needed.
  `NoStoredExecutions` is one reason for it to hold: executions then do not nest.

The refinement takes `Next` action by action, a lemma `...Maps` for each, from `Inv`
and `AuthorityInv`: `MultisigWritten`, `OpenWritten`, `OpenClosed` and `OpenVoided` say
what a write of one account does to the mapped state. `TiedInv` is what makes the
bits the approvals of the present owners, and a bumped owner set number the end of
every open proposal.

`CancellableForever` needs `TiedInv` for the multisig and its number and `GoodInv` for the
owners; `CancelIsValid` goes through the checks of `validate`, given a cancel that one
owner signs, for any refundee but the proposal.

In `Clients`, `ClientsInv` follows the holders' signatures. What is on its way is vouched
for (`Vouched`): a proposal at an address that signs was signed for by its holder, and an
approval is by an owner who signed for something that the holder has proposed at the
address. The two parts of `VotesAreInformed` hold of what is open and of what clients
read (`Informed`). `create_account` takes the signature of the address, so a proposal that is
accepted is of the first kind (`ProposeInformed`); an approval that is accepted is counted
for whatever is there, which its holder has put there too. What executions run does not
vote, which is the assumption
`PayloadsDoNotVote`: a stored `approve_transaction` has the signature of those who
sign for its execution, with that proposal in view and not the one it approves.

Three more invariants are about the transaction in progress. `ProgramInv`: there is one
multisig, with the signer it began with; nothing runs without a client's transaction,
and what is left of it was sent. `SentInv`: a client has sent nothing, or one
instruction it has signed, or the transaction of a team, and of the addresses only its
own sign with it; and at the address of a team's transaction nothing is until it is
processed (`OnItsWay`): it was never used, and nobody else can propose there.
`JointInv`: the transaction of a team is in one of three stages (`Stage`). Before its
first instruction, the multisig is as it was when the transaction began. Then its
proposal is open, and what is left are approvals of all of the team who have not
approved, and the execution. At last it executes what the payload holds. In each stage
the next instruction is acceptable if the team is a quorum (`TeamMayPropose`,
`TeamMayVote`, `PayloadMayRun`): in the first because nothing can be at the address; in
the second because nobody else acts, so that at the execution the approvals are the
team; in the third by `PlainPayloads`, which says that payloads hold transfers by signers
of the instruction and changes of the owners of the multisig, with a threshold they
can reach. The hypothesis is needed: a `change_threshold` behind a change of owners in
one payload may be refused, and so may a stored cancel. It says nothing of what
`MultisigSpec` leaves out (see *Clients*). The joint run has a payload of each kind it
allows but one, `set_owners_and_change_threshold`.

In `Wire`, `Trips(format, value)` says that what is written for the value is read back as
it, whatever bytes follow. `VecTrips` and `StructTrips` show that a vector and a struct
inherit it from their elements and fields, by induction over how many there are, and
`MultisigTrips` and `TransactionTrips` show it of the two kinds of account together with
their length: that what `len` computes is how many bytes are written. So each write fills
its account exactly, because a handler keeps the size of a multisig (`PaddingKeepsSize`)
and the instructions and number of bits of a proposal (`StepOutcome`). `WireInv` is
`TypeOK /\ GoodInv`, that what is stored can be counted in four bytes (`FitsInv`), and
that the data of each account is that of its record, in the present ledger and in the
committed one (`DataInv`). The client decodes the same, since its schemas are equal to
the structs (`SchemasAgree`). `BuiltArrives` needs no invariant: each builder agrees with
the handler at its discriminator on the arguments and the order of the accounts
(`BuilderAndHandlerAgree`), and what it writes is read back (`BuiltIsEncodable`, by
induction over how deep proposals are nested in proposals).

Assumptions that carry weight: `OwnerListsFitU8` (no instruction lists 256 owners:
Solana transactions have at most 1232 bytes), `SeqnoDoesNotWrap` (fewer than 2^32
changes of owners), `InitialLedger` (the program owns no account at first),
`AddressSpacesDisjoint`, `UsizeIsLarge`. TLC evaluates all of them in each run of
`Multisig`, and those of `Clients` (`PayloadsAreLists`, `PayloadsDoNotVote`,
`TeamsAreOwners`, `OwnersAreWallets`: an owner has a key pair of its own,
`HoldersAreOwners`: so has an address, and one client has it, `SignerIsPda`:
the multisig exists at an address for multisigs, with a nonce that gives it a signer)
in each run of `Clients`.

`Wire` adds `KeysHave32Bytes` (different addresses have different bytes),
`ProgramIsNotSystem`, `FlagsAreOfAccounts` (a builder marks only accounts it lists),
`InstructionsNestFinitely` (an instruction is made before the one that holds it) and
`InstructionsFit` with `SeqnoFits`: lengths and owner set numbers are below 2^32, which
a Solana transaction of 1232 bytes and a `u32` field see to. TLC evaluates them in `wire`.

Only model-checked: `GoalIsReached`, which is liveness and out of the prover's reach.
Functions defined by recursion can be proved about with the library's theorem that `<` is
well founded (`Induction` in `BorshProofs`): the induction theorems themselves take an
operator as a parameter, which the provers cannot instantiate.

## Plan

Done: the program, its promise and the refinement between them, the clients, the
bytes, and the proofs above. What is left is clients composed with `Multisig` itself,
so that a payer without lamports for the rent and the limits of the call stack are
among the refusals.

Not modelled, and why:

- Owner lists of 256 and more: the `u8` casts are exact below, and a Solana transaction
  has no room for more. `OwnerListsFitU8` is the assumption.
- The wrap of the owner set number after 2^32 changes: `SeqnoDoesNotWrap`.
- Error codes and log messages: any error ends the Solana transaction alike.
- The compute budget, which can end a Solana transaction anywhere: `Abort` covers it.
- A program that is replaced by another version: instructions that are stored in a
  proposal keep the discriminators and the order of accounts of the day they were built.
- Tokens, the parameters with which tests provoke single errors, the shank interface
  description, build scripts and the Docker image: no state of the program.
