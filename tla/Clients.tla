------------------------------ MODULE Clients ------------------------------
(***************************************************************************)
(* Owners who share a multisig and use the client of src/ts, each in a     *)
(* process of its own, over a network that delays and loses.  A client     *)
(* reads the committed accounts, signs a Solana transaction of one or      *)
(* several instructions, sends it and waits for the outcome; by the time   *)
(* it is processed, the accounts may be different.  It is processed at     *)
(* most once, and never any more when its blockhash has expired.           *)
(*                                                                         *)
(* The program is module MultisigSpec.  While a transaction is being       *)
(* processed no client moves: what clients do reads and writes nothing     *)
(* that the processing does.                                               *)
(***************************************************************************)
EXTENDS MultisigInstructions, FiniteSetsExt, SequencesExt

CONSTANTS
    Owners,        \* the key pairs with a client, some of them owners
    TheMultisig,   \* the multisig they share
    FirstOwners,   \* its owners at first
    FirstThreshold,
    Nonce,         \* the nonce of its signer
    Holder,        \* the owner who generated the key pair of each address
    Payloads,      \* the lists of instructions owners may propose
    Proposers,     \* who may propose alone
    Cancellers,    \* who may cancel proposals
    Teams,         \* the sets of owners who may sign one transaction together
    Supporters,    \* those who want the proposal at Goal executed
    Goal

ASSUME PayloadsAreLists == \A p \in Payloads : p \in Seq(ToSet(p))

(* Owners vote in instructions they send themselves.  A stored instruction *)
(* that votes has the signature of those who sign for its execution, with  *)
(* another proposal in view.                                               *)
ASSUME PayloadsDoNotVote ==
    \A p \in Payloads : \A k \in DOMAIN p :
        p[k].op \notin {"propose_transaction", "approve_transaction"}

ASSUME TeamsAreOwners ==
    \A team \in Teams : team \subseteq Owners /\ IsFiniteSet(team)

Nobody == "nobody"

(* Owners have key pairs of their own; the multisig's signer has none.     *)
ASSUME OwnersAreWallets == Owners \subseteq Wallets /\ Nobody \notin Owners

(* An address for a proposal is a key pair that one client has generated.  *)
ASSUME HoldersAreOwners == Holder \in [TransactionAddresses -> Owners]

ASSUME SignerIsPda == TheMultisig \in MultisigAddresses /\ Nonce \in BumpSeeds

VARIABLES
    multisigs, open, present, executions, saved, \* of the program
    sent,      \* the transaction each client awaits the outcome of
    current,   \* the client whose transaction is being processed
    left,      \* its instructions that are still to be processed
    signedFor  \* history: who signed for which proposal with what content

Program == INSTANCE MultisigSpec WITH
    Instructions <- {}, SignerSets <- SUBSET KeyPairs

vars == <<multisigs, open, present, executions, saved, sent, current, left,
          signedFor>>

Nothing == [signers |-> {}, instructions |-> << >>]

Signer == Pda(TheMultisig, Nonce)

(* What a client reads: the accounts of committed transactions.            *)
Read == saved[2]

-----------------------------------------------------------------------------
(* What clients sign and send. *)

(* createAndProcessTx: one transaction at a time, signed by S.             *)
Send(o, S, instructions) ==
    /\ present = {}
    /\ sent[o] = Nothing
    /\ sent' = [sent EXCEPT ![o] = [signers |-> S, instructions |-> instructions]]
    /\ UNCHANGED <<multisigs, open, present, executions, saved, current, left>>

ProposeIx_Swapped(o, t, payload) == ProposeTransactionIx(TheMultisig, o, t, o, payload)

ProposeIx(o, t, payload) == ProposeTransactionIx(TheMultisig, t, o, o, payload)

ApproveIx(o, t) == ApproveTransactionIx(TheMultisig, t, o)

ExecuteIx(o, t) == ExecuteTransactionIx(TheMultisig, Signer, t, o, o)

Keys(o) == {t \in TransactionAddresses : Holder[t] = o}

(* Keypair.generate(): a key pair the client has not used.                 *)
Generated(o) == {t \in Keys(o) : \A s \in signedFor : <<s[1], s[2]>> # <<o, t>>}

(* A client may use a key pair of its own again (transactionAddress), for  *)
(* the same content or for another.                                        *)
Propose(o) ==
    \E t \in Keys(o), payload \in Payloads :
        /\ Send(o, {o, t}, <<ProposeIx(o, t, payload)>>)
        /\ signedFor' = signedFor \cup {<<o, t, payload>>}

(* The builder takes any address, also one whose key pair the client does  *)
(* not have and cannot sign with.                                          *)
ProposeElsewhere(o) ==
    \E t \in TransactionAddresses \ Keys(o), payload \in Payloads :
        /\ Send(o, {o}, <<ProposeIx(o, t, payload)>>)
        /\ UNCHANGED signedFor

(* An owner approves what it has read.                                     *)
Approve(o, t) ==
    /\ t \in DOMAIN Read
    /\ o \notin Read[t].approvals
    /\ Send(o, {o}, <<ApproveIx(o, t)>>)
    /\ signedFor' = signedFor \cup {<<o, t, Read[t].instructions>>}

Execute(o, t) ==
    /\ t \in DOMAIN Read
    /\ Send(o, {o}, <<ExecuteIx(o, t)>>)
    /\ UNCHANGED signedFor

Cancel(o, t) ==
    /\ t \in DOMAIN Read
    /\ Send(o, {o}, <<CancelTransactionIx(TheMultisig, t, o, o)>>)
    /\ UNCHANGED signedFor

(* proposeSignAndExecuteTransaction: o proposes, the rest of the team      *)
(* approve and o executes, in one transaction that all of them sign.       *)
ProposeSignAndExecute(o, team) ==
    \E t \in Generated(o), payload \in Payloads :
        /\ Send(o, team \cup {t},
                <<ProposeIx(o, t, payload)>>
                  \o SetToSeq({ApproveIx(a, t) : a \in team \ {o}})
                  \o <<ExecuteIx(o, t)>>)
        /\ signedFor' = signedFor \cup {<<a, t, payload>> : a \in team}

-----------------------------------------------------------------------------
(* The network and the bank. *)

Expire(o) ==
    /\ present = {}
    /\ sent[o] # Nothing
    /\ sent' = [sent EXCEPT ![o] = Nothing]
    /\ UNCHANGED <<multisigs, open, present, executions, saved, current, left,
                   signedFor>>

Deliver(o) ==
    /\ sent[o] # Nothing
    /\ Program!Begin(sent[o].signers)
    /\ current' = o
    /\ left' = sent[o].instructions
    /\ UNCHANGED <<sent, signedFor>>

(* The instructions to process next: of the transaction, or of the         *)
(* innermost execution.                                                    *)
Due == IF executions = << >> THEN left ELSE Last(executions).rest

Accept ==
    /\ Due # << >>
    /\ Program!Process(Head(Due))
    /\ left' = IF executions = << >> THEN Tail(left) ELSE left
    /\ UNCHANGED <<sent, current, signedFor>>

Finish == Program!Finish /\ UNCHANGED <<sent, current, left, signedFor>>

(* The client learns the outcome.                                          *)
Return ==
    /\ current' = Nobody
    /\ left' = << >>
    /\ sent' = [sent EXCEPT ![current] = Nothing]
    /\ UNCHANGED signedFor

Commit == left = << >> /\ Program!Commit /\ Return

(* A handler refuses the next instruction.                                 *)
Refused == Due # << >> /\ ~Program!Acceptable(Head(Due))

Refuse == Refused /\ Program!Rollback /\ Return

Init ==
    /\ multisigs = [m \in {TheMultisig} |->
                      [owners |-> FirstOwners, threshold |-> FirstThreshold,
                       signer |-> Signer]]
    /\ open = << >>
    /\ present = {}
    /\ executions = << >>
    /\ saved = <<multisigs, open>>
    /\ sent = [o \in Owners |-> Nothing]
    /\ current = Nobody
    /\ left = << >>
    /\ signedFor = {}

Client(o) ==
    \/ o \in Proposers /\ (Propose(o) \/ ProposeElsewhere(o))
    \/ \E t \in TransactionAddresses : Approve(o, t) \/ Execute(o, t)
    \/ o \in Cancellers /\ \E t \in TransactionAddresses : Cancel(o, t)
    \/ \E team \in Teams : o \in team /\ ProposeSignAndExecute(o, team)

Bank == Accept \/ Finish \/ Commit \/ Refuse

Next ==
    \/ \E o \in Owners : Client(o) \/ Expire(o) \/ Deliver(o)
    \/ Bank

Spec == Init /\ [][Next]_vars

-----------------------------------------------------------------------------
(* Properties. *)

(* What clients have sent, the proposals and the executions are made of    *)
(* the instructions of src/ts/instructions and of the payloads.            *)
Stored == UNION {ToSet(p) : p \in Payloads}

Proposals ==
    [multisig : {TheMultisig}, instructions : Payloads, approvals : SUBSET Owners]

ClientsTypeOK ==
    /\ DOMAIN multisigs = {TheMultisig}
    /\ DOMAIN open \subseteq TransactionAddresses
    /\ \A t \in DOMAIN open : open[t] \in Proposals
    /\ present \subseteq KeyPairs
    /\ DOMAIN sent = Owners
    /\ \A o \in Owners :
          /\ sent[o].signers \subseteq KeyPairs
          /\ \A k \in DOMAIN sent[o].instructions :
                IsInstruction(sent[o].instructions[k], Stored)
    /\ current \in Owners \cup {Nobody}
    /\ current = Nobody <=> present = {}
    /\ signedFor \subseteq Owners \X TransactionAddresses \X Payloads

(* What the holder of the key pair of t has signed to be proposed there.   *)
ProposedAt(t) == {s[3] : s \in {u \in signedFor : u[1] = Holder[t] /\ u[2] = t}}

(* An approval names an address, not a content (approve_transaction.rs:13),*)
(* and may be processed long after it was signed, when an owner has        *)
(* cancelled the proposal and there is another at the address.  Yet only   *)
(* the holder of the address's key pair can have put it there, since       *)
(* create_account asks for its signature (propose_transaction.rs:90):      *)
(* whoever is counted for a proposal has signed for what it holds or for   *)
(* another proposal of the same holder at the same address.                *)
VotesAreInformed ==
    \A t \in DOMAIN open :
        /\ open[t].instructions \in ProposedAt(t)
        /\ \A a \in open[t].approvals :
              \E content \in ProposedAt(t) : <<a, t, content>> \in signedFor

(* The transaction in progress proposes, approves and executes; all who    *)
(* sign it were owners when it began, as many as the threshold, and the    *)
(* payload needs no other signature than theirs and the multisig's.        *)
JointByQuorum ==
    /\ current # Nobody
    /\ Len(sent[current].instructions) > 1
    /\ LET ms   == saved[1][TheMultisig]
           team == sent[current].signers \cap Owners
           ix   == Head(sent[current].instructions)
       IN  /\ team \subseteq ms.owners
           /\ Cardinality(team) >= ms.threshold
           /\ \A k \in DOMAIN ix.instructions :
                  ix.instructions[k].signed \subseteq team \cup {Signer}

(* The README's answer to a stolen key that cancels every proposal: "It    *)
(* can be blocked if the propose, approve, and execute functions are       *)
(* called in the same transaction."  Such a transaction, signed by a       *)
(* quorum, is never refused, whatever else is in flight.                   *)
JointIsNeverRefused == JointByQuorum => ~Refused

-----------------------------------------------------------------------------
(* Progress.  The bank processes what it has begun, and a blockhash that   *)
(* expires ends a client's wait.  Each supporter of the proposal at Goal   *)
(* approves it unless they have, and executes it once it has enough        *)
(* approvals; whenever a transaction is lost or refused they try again,    *)
(* and not all they send for it is lost.                                   *)
Quorate == /\ Goal \in DOMAIN Read
           /\ Cardinality(Read[Goal].approvals) >= saved[1][TheMultisig].threshold

Supports(o) == Approve(o, Goal) \/ (Quorate /\ Execute(o, Goal))

DeliverSupport(o) ==
    /\ \/ sent[o].instructions = <<ApproveIx(o, Goal)>>
       \/ sent[o].instructions = <<ExecuteIx(o, Goal)>> /\ Quorate
    /\ Deliver(o)

Fairness ==
    /\ WF_vars(Bank)
    /\ \A o \in Supporters :
          /\ SF_vars(Deliver(o) \/ Expire(o))
          /\ SF_vars(Supports(o))
          /\ SF_vars(DeliverSupport(o))

FairSpec == Spec /\ Fairness

SupportedByQuorum ==
    LET ms == multisigs[TheMultisig]
    IN  Cardinality(Supporters \cap ms.owners) >= ms.threshold

(* No proposal stays open while enough owners want it executed: whatever   *)
(* the other owners propose, approve, execute and cancel meanwhile, and    *)
(* however the owners and the threshold change, it is executed, cancelled  *)
(* or void, or it loses its quorum of supporters (approve, execute).       *)
GoalIsReached ==
    []<>(Goal \notin DOMAIN open \/ ~SupportedByQuorum)
=============================================================================
