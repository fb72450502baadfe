---------------------------- MODULE ClientsProofs ----------------------------
(***************************************************************************)
(* Approvals that are processed late count only at an address whose holder *)
(* has proposed there what they were signed for (VotesAreInformed), and a  *)
(* transaction in which a quorum proposes, approves and executes is never  *)
(* refused (JointIsNeverRefused), for any number of clients, proposals and *)
(* payloads, and however many transactions are lost or delayed.            *)
(***************************************************************************)
EXTENDS Clients, FiniteSetTheorems, SequenceTheorems, TLAPS

-----------------------------------------------------------------------------
(* The invariant.  S is signedFor, of one state or of the next, P the set  *)
(* of those who sign a transaction.                                        *)

History == Owners \X TransactionAddresses \X Payloads

(* The holder of the key pair of t has signed to propose the content there.*)
Authored(S, t, content) == <<Holder[t], t, content>> \in S

(* The instructions clients send: a proposal at an address that signs is   *)
(* its holder's, one at another address will be refused; an approval is of *)
(* something that its holder has proposed at the address.                  *)
Proposing(S, P) ==
    {ProposeIx(v[1], v[2], v[3]) :
       v \in {w \in History : w[2] \in P => w \in S /\ Authored(S, w[2], w[3])
                                                  /\ w[1] = Holder[w[2]]}}

Approving(S) ==
    {ApproveIx(v[1], v[2]) : v \in {w \in History \cap S : Authored(S, w[2], w[3])}}

Closing ==
    {ExecuteIx(o, t) : o \in Owners, t \in TransactionAddresses}
      \cup {CancelTransactionIx(TheMultisig, t, o, o) :
              o \in Owners, t \in TransactionAddresses}

Vouched(S, P) == Proposing(S, P) \cup Approving(S) \cup Closing

(* What an open proposal holds its holder has signed for, and whoever has  *)
(* approved it has signed for that or for another proposal of the holder's.*)
Informed(O, S) ==
    /\ O \in [DOMAIN O -> Proposals] /\ DOMAIN O \subseteq TransactionAddresses
    /\ \A t \in DOMAIN O :
          /\ Authored(S, t, O[t].instructions)
          /\ \A a \in O[t].approvals :
                \E content \in Payloads : Authored(S, t, content) /\ <<a, t, content>> \in S

(* Executions run the instructions of payloads, which do not vote.         *)
IsExecution(e) ==
    \E t, s : \E rest \in Seq(Stored) :
        e = [transaction |-> t, signer |-> s, rest |-> rest]

ExecutionsTyped(E) ==
    /\ E \in Seq({E[k] : k \in DOMAIN E})
    /\ \A k \in DOMAIN E : IsExecution(E[k])

Sendable(S) ==
    {r \in [signers : SUBSET (Owners \cup TransactionAddresses),
            instructions : Seq(Vouched(S, {}))] :
        r.instructions \in Seq(Vouched(S, r.signers))}

SentTyped(s, S) == s \in [Owners -> Sendable(S)]

ClientsInv ==
    /\ signedFor \subseteq History
    /\ SentTyped(sent, signedFor)
    /\ left \in Seq(Vouched(signedFor, present))
    /\ Informed(open, signedFor)
    /\ Informed(Read, signedFor)
    /\ ExecutionsTyped(executions)

-----------------------------------------------------------------------------
(* More signatures void nothing. *)

LEMMA SeqGrows ==
    ASSUME NEW A, NEW B, A \subseteq B
    PROVE  Seq(A) \subseteq Seq(B)
<1>1. ASSUME NEW q \in Seq(A) PROVE q \in Seq(B)
  <2>1. Len(q) \in Nat /\ q \in [1 .. Len(q) -> A]
    BY <1>1
  <2> QED
    BY <2>1
<1> QED
  BY <1>1

LEMMA SignaturesGrow ==
    ASSUME NEW S, NEW T, S \subseteq T
    PROVE  /\ \A P : Seq(Vouched(S, P)) \subseteq Seq(Vouched(T, P))
           /\ \A s : SentTyped(s, S) => SentTyped(s, T)
           /\ \A O : Informed(O, S) => Informed(O, T)
<1>1. ASSUME NEW P PROVE Vouched(S, P) \subseteq Vouched(T, P)
  <2>1. Proposing(S, P) \subseteq Proposing(T, P)
    BY DEF Proposing, Authored
  <2>2. Approving(S) \subseteq Approving(T)
    BY DEF Approving, Authored
  <2> QED
    BY <2>1, <2>2 DEF Vouched
<1>2. \A P : Seq(Vouched(S, P)) \subseteq Seq(Vouched(T, P))
  BY <1>1, SeqGrows
<1>3. Sendable(S) \subseteq Sendable(T)
  BY <1>2 DEF Sendable
<1>4. ASSUME NEW s, SentTyped(s, S) PROVE SentTyped(s, T)
  BY <1>3, <1>4 DEF SentTyped
<1>5. ASSUME NEW O, Informed(O, S) PROVE Informed(O, T)
  BY <1>5 DEF Informed, Authored
<1> QED
  BY <1>2, <1>4, <1>5

(* Fewer signatures void no instruction.                                   *)
LEMMA UnsignedIsVouched ==
    ASSUME NEW S, NEW P, NEW i \in Vouched(S, P) PROVE i \in Vouched(S, {})
<1>1. Proposing(S, P) \subseteq Proposing(S, {})
  BY DEF Proposing
<1> QED
  BY <1>1 DEF Vouched

-----------------------------------------------------------------------------
(* Clients. *)

(* A client signs; nothing else changes but what it has sent.              *)
LEMMA SendKeeps ==
    ASSUME ClientsInv, NEW o \in Owners,
           NEW S \in SUBSET (Owners \cup TransactionAddresses),
           NEW instructions \in Seq(Vouched(signedFor', S)),
           signedFor \subseteq signedFor', signedFor' \subseteq History,
           Send(o, S, instructions)
    PROVE  ClientsInv'
<1>1. SentTyped(sent, signedFor')
  BY SignaturesGrow DEF ClientsInv
<1>2. instructions \in Seq(Vouched(signedFor', {}))
  <2>1. Vouched(signedFor', S) \subseteq Vouched(signedFor', {})
    BY UnsignedIsVouched
  <2> QED
    BY <2>1, SeqGrows
<1>3. [signers |-> S, instructions |-> instructions] \in Sendable(signedFor')
  BY <1>2 DEF Sendable
<1>4. SentTyped(sent', signedFor')
  BY <1>1, <1>3 DEF Send, SentTyped
<1>5. /\ open' = open /\ Read' = Read /\ left' = left /\ present' = present
      /\ executions' = executions
  BY DEF Send, Read
<1>6. /\ Informed(open, signedFor') /\ Informed(Read, signedFor')
      /\ left \in Seq(Vouched(signedFor', present))
  BY SignaturesGrow DEF ClientsInv
<1> QED
  BY <1>4, <1>5, <1>6 DEF ClientsInv

LEMMA KeysAreHeld ==
    ASSUME NEW o, NEW t \in Keys(o)
    PROVE  t \in TransactionAddresses /\ Holder[t] = o
BY DEF Keys

LEMMA ProposeKeeps ==
    ASSUME ClientsInv, NEW o \in Owners, Propose(o) PROVE ClientsInv'
<1>1. PICK t \in Keys(o), payload \in Payloads :
         /\ Send(o, {o, t}, <<ProposeIx(o, t, payload)>>)
         /\ signedFor' = signedFor \cup {<<o, t, payload>>}
  BY DEF Propose
<1>2. t \in TransactionAddresses /\ Holder[t] = o
  BY KeysAreHeld
<1>3. <<o, t, payload>> \in History /\ signedFor' \subseteq History
  BY <1>1, <1>2 DEF ClientsInv, History
<1>4. ProposeIx(o, t, payload) \in Vouched(signedFor', {o, t})
  <2>1. <<o, t, payload>> \in signedFor' /\ Authored(signedFor', t, payload)
    BY <1>1, <1>2 DEF Authored
  <2> QED
    BY <1>2, <1>3, <2>1 DEF Vouched, Proposing
<1>5. <<ProposeIx(o, t, payload)>> \in Seq(Vouched(signedFor', {o, t}))
  BY <1>4
<1> QED
  BY <1>1, <1>2, <1>3, <1>5, SendKeeps

(* An address whose key pair the client does not have does not sign.       *)
LEMMA ProposeElsewhereKeeps ==
    ASSUME ClientsInv, NEW o \in Owners, ProposeElsewhere(o) PROVE ClientsInv'
<1>1. PICK t \in TransactionAddresses \ Keys(o), payload \in Payloads :
         /\ Send(o, {o}, <<ProposeIx(o, t, payload)>>)
         /\ signedFor' = signedFor
  BY DEF ProposeElsewhere
<1>2. t \notin {o}
  BY OwnersAreWallets, AddressSpacesDisjoint
<1>3. ProposeIx(o, t, payload) \in Vouched(signedFor', {o})
  <2>1. <<o, t, payload>> \in History
    BY DEF History
  <2> QED
    BY <1>2, <2>1 DEF Vouched, Proposing
<1>4. <<ProposeIx(o, t, payload)>> \in Seq(Vouched(signedFor', {o}))
  BY <1>3
<1> QED
  BY <1>1, <1>4, SendKeeps DEF ClientsInv

(* What an owner has read, the holder of the address has signed for.       *)
LEMMA ApproveKeeps ==
    ASSUME ClientsInv, NEW o \in Owners, NEW t \in TransactionAddresses,
           Approve(o, t)
    PROVE  ClientsInv'
<1> DEFINE content == Read[t].instructions
<1>1. /\ t \in DOMAIN Read /\ Send(o, {o}, <<ApproveIx(o, t)>>)
      /\ signedFor' = signedFor \cup {<<o, t, content>>}
  BY DEF Approve
<1>2. content \in Payloads /\ Authored(signedFor, t, content)
  BY <1>1 DEF ClientsInv, Informed, Proposals
<1>3. <<o, t, content>> \in History /\ signedFor' \subseteq History
  BY <1>1, <1>2 DEF ClientsInv, History
<1>4. ApproveIx(o, t) \in Vouched(signedFor', {o})
  <2> HIDE DEF content
  <2>1. <<o, t, content>> \in signedFor' /\ Authored(signedFor', t, content)
    BY <1>1, <1>2 DEF Authored
  <2> QED
    BY <1>3, <2>1 DEF Vouched, Approving
<1>5. <<ApproveIx(o, t)>> \in Seq(Vouched(signedFor', {o}))
  BY <1>4
<1> QED
  BY <1>1, <1>3, <1>5, SendKeeps

LEMMA CloseKeeps ==
    ASSUME ClientsInv, NEW o \in Owners, NEW t \in TransactionAddresses,
           Execute(o, t) \/ Cancel(o, t)
    PROVE  ClientsInv'
<1>1. PICK i \in Closing : Send(o, {o}, <<i>>)
  BY DEF Execute, Cancel, Closing
<1>2. signedFor' = signedFor
  BY DEF Execute, Cancel
<1>3. <<i>> \in Seq(Vouched(signedFor', {o}))
  BY DEF Vouched
<1> QED
  BY <1>1, <1>2, <1>3, SendKeeps DEF ClientsInv

(* The approvals of a team, in some order.                                 *)
LEMMA TeamApproves ==
    ASSUME NEW t, NEW team, IsFiniteSet(team)
    PROVE  LET A == {ApproveIx(a, t) : a \in team}
           IN  SetToSeq(A) \in Seq(A) /\ ToSet(SetToSeq(A)) = A
<1> DEFINE A == {ApproveIx(a, t) : a \in team}
           f == [a \in team |-> ApproveIx(a, t)]
<1>1. f \in Bijection(team, A)
  BY DEF Bijection, Injection, Surjection, IsInjective, ApproveIx,
         ApproveTransactionIx
<1>2. IsFiniteSet(A)
  BY <1>1, FS_Bijection DEF ExistsBijection
<1>3. Cardinality(A) \in Nat /\ ExistsBijection(1 .. Cardinality(A), A)
  BY <1>2, FS_CardinalityType
<1>4. \E g \in [1 .. Cardinality(A) -> A] : IsInjective(g)
  BY <1>3 DEF ExistsBijection, Bijection, Injection, IsInjective
<1>5. /\ SetToSeq(A) \in [1 .. Cardinality(A) -> A]
      /\ IsInjective(SetToSeq(A))
  BY <1>4 DEF SetToSeq
<1> HIDE DEF A
<1> DEFINE n == Cardinality(A)
           q == SetToSeq(A)
<1>6. n \in Nat /\ q \in [1 .. n -> A]
  BY <1>3, <1>5
<1>7. q \in Surjection(1 .. n, A)
  <2>1. q \in Injection(1 .. n, A)
    BY <1>5 DEF Injection, IsInjective
  <2>2. ExistsBijection(1 .. n, A)
    BY <1>3
  <2>3. Cardinality(1 .. n) = n /\ IsFiniteSet(1 .. n)
    <3>1. 1 \in Int /\ n \in Int
      BY <1>6
    <3>2. IsFiniteSet(1 .. n) /\ Cardinality(1 .. n) = IF 1 > n THEN 0 ELSE n - 1 + 1
      BY <3>1, FS_Interval, Zenon
    <3> QED
      BY <1>6, <3>2
  <2> QED
    BY <1>2, <2>1, <2>3, FS_Injection
<1> HIDE DEF n, q
<1>8. \A x \in A : \E k \in 1 .. n : q[k] = x
  BY <1>7 DEF Surjection
<1>9. DOMAIN q = 1 .. n /\ q \in Seq(A)
  BY <1>6
<1>10. ToSet(q) = A
  BY <1>6, <1>8, <1>9 DEF ToSet
<1> QED
  BY <1>9, <1>10 DEF A, q

LEMMA TeamKeeps ==
    ASSUME ClientsInv, NEW team \in Teams, NEW o \in team,
           ProposeSignAndExecute(o, team)
    PROVE  ClientsInv'
<1> DEFINE approvals(t) == SetToSeq({ApproveIx(a, t) : a \in team \ {o}})
<1>1. PICK t \in Generated(o), payload \in Payloads :
         /\ Send(o, team \cup {t},
                 <<ProposeIx(o, t, payload)>> \o approvals(t) \o <<ExecuteIx(o, t)>>)
         /\ signedFor' = signedFor \cup {<<a, t, payload>> : a \in team}
  BY DEF ProposeSignAndExecute
<1>2. /\ t \in TransactionAddresses /\ Holder[t] = o
      /\ team \in SUBSET Owners /\ o \in Owners
  BY TeamsAreOwners, KeysAreHeld DEF Generated
<1>3. signedFor' \subseteq History
  BY <1>1, <1>2 DEF ClientsInv, History
<1> DEFINE V == Vouched(signedFor', team \cup {t})
<1>4. ASSUME NEW a \in team
      PROVE  <<a, t, payload>> \in History \cap signedFor' /\ Authored(signedFor', t, payload)
  BY <1>1, <1>2 DEF Authored, History
<1>5. ProposeIx(o, t, payload) \in V
  <2>1. <<o, t, payload>> \in History \cap signedFor' /\ Authored(signedFor', t, payload)
    BY <1>4
  <2> QED
    BY <1>2, <2>1 DEF Vouched, Proposing
<1>6. ASSUME NEW a \in team PROVE ApproveIx(a, t) \in V
  <2>1. <<a, t, payload>> \in History \cap signedFor' /\ Authored(signedFor', t, payload)
    BY <1>4
  <2> QED
    BY <2>1 DEF Vouched, Approving
<1>7. ExecuteIx(o, t) \in V
  BY <1>2 DEF Vouched, Closing
<1>8. approvals(t) \in Seq(V)
  <2>1. IsFiniteSet(team \ {o})
    BY TeamsAreOwners, FS_Subset
  <2>2. approvals(t) \in Seq({ApproveIx(a, t) : a \in team \ {o}})
    BY <2>1, TeamApproves
  <2>3. {ApproveIx(a, t) : a \in team \ {o}} \subseteq V
    BY <1>6
  <2> HIDE DEF approvals, V
  <2> QED
    BY <2>2, <2>3, SeqGrows
<1>9. <<ProposeIx(o, t, payload)>> \o approvals(t) \o <<ExecuteIx(o, t)>> \in Seq(V)
  <2> HIDE DEF approvals, V
  <2> QED
    BY <1>5, <1>7, <1>8
<1>10. team \cup {t} \in SUBSET (Owners \cup TransactionAddresses)
  BY <1>2
<1> HIDE DEF approvals
<1> QED
  BY <1>1, <1>2, <1>3, <1>9, <1>10, SendKeeps

-----------------------------------------------------------------------------
(* The program. *)

(* The instruction to process next was vouched for, or is of a payload.    *)
LEMMA DueIsVouched ==
    ASSUME ClientsInv, Due # << >>
    PROVE  /\ executions = << >> => Head(Due) \in Vouched(signedFor, present)
           /\ executions # << >> => Head(Due) \in Stored
<1>1. CASE executions = << >>
  BY <1>1 DEF Due, ClientsInv
<1>2. CASE executions # << >>
  <2>1. Len(executions) \in DOMAIN executions
    BY <1>2 DEF ClientsInv, ExecutionsTyped
  <2>2. IsExecution(Last(executions))
    BY <2>1 DEF ClientsInv, ExecutionsTyped, Last
  <2>3. Last(executions).rest \in Seq(Stored)
    BY <2>2 DEF IsExecution
  <2> QED
    BY <1>2, <2>3 DEF Due
<1> QED
  BY <1>1, <1>2

LEMMA StoredDoesNotVote ==
    ASSUME NEW i \in Stored
    PROVE  i.op # "propose_transaction" /\ i.op # "approve_transaction"
<1>1. PICK p \in Payloads : i \in ToSet(p)
  BY DEF Stored
<1>2. PICK k \in DOMAIN p : i = p[k]
  BY <1>1 DEF ToSet
<1> QED
  BY <1>2, PayloadsDoNotVote

(* Votes are instructions that clients have sent.                          *)
LEMMA VoteIsSent ==
    ASSUME ClientsInv, Due # << >>,
           Head(Due).op = "propose_transaction" \/ Head(Due).op = "approve_transaction"
    PROVE  executions = << >> /\ Head(Due) \in Vouched(signedFor, present)
BY DueIsVouched, StoredDoesNotVote

(* An execution with other instructions left, a proposal with more         *)
(* approvals.                                                              *)
LEMMA RestExcept ==
    ASSUME NEW t, NEW s, NEW r, NEW new
    PROVE  [[transaction |-> t, signer |-> s, rest |-> r] EXCEPT !.rest = new]
             = [transaction |-> t, signer |-> s, rest |-> new]
OBVIOUS

LEMMA ApprovalsExcept ==
    ASSUME NEW p \in Proposals, NEW o
    PROVE  [p EXCEPT !.approvals = @ \cup {o}]
             = [multisig |-> TheMultisig, instructions |-> p.instructions,
                approvals |-> p.approvals \cup {o}]
BY DEF Proposals

(* Taking an instruction off the innermost execution.                      *)
LEMMA RestTyped ==
    ASSUME ClientsInv, NEW i, Program!Ordered(i), i = Head(Due)
    PROVE  ExecutionsTyped(Program!RestOfExecutions)
<1> DEFINE n == Len(executions)
           R == [executions EXCEPT ![n].rest = Tail(@)]
<1>1. CASE executions = << >>
  BY <1>1 DEF Program!RestOfExecutions, ClientsInv
<1>2. CASE executions # << >>
  <2>1. /\ n \in DOMAIN executions /\ DOMAIN executions = 1 .. n /\ n \in Nat
        /\ Last(executions) = executions[n]
    BY <1>2 DEF ClientsInv, ExecutionsTyped, Last
  <2>2. executions[n].rest # << >>
    BY <1>2, <2>1 DEF Program!Ordered, Program!Last, Last
  <2>3. PICK t, s : \E rest \in Seq(Stored) :
           executions[n] = [transaction |-> t, signer |-> s, rest |-> rest]
    BY <2>1 DEF ClientsInv, ExecutionsTyped, IsExecution
  <2>4. PICK rest \in Seq(Stored) :
           executions[n] = [transaction |-> t, signer |-> s, rest |-> rest]
    BY <2>3
  <2>5. rest # << >> /\ Tail(rest) \in Seq(Stored)
    BY <2>2, <2>4
  <2>6. R = [executions EXCEPT
               ![n] = [transaction |-> t, signer |-> s, rest |-> Tail(rest)]]
    <3>1. [executions[n] EXCEPT !.rest = Tail(@)]
            = [transaction |-> t, signer |-> s, rest |-> Tail(rest)]
      <4> DEFINE e == [transaction |-> t, signer |-> s, rest |-> rest]
      <4>1. [e EXCEPT !.rest = Tail(rest)]
              = [transaction |-> t, signer |-> s, rest |-> Tail(rest)]
        BY RestExcept
      <4>2. e.rest = rest
        OBVIOUS
      <4>3. executions[n] = e
        BY <2>4
      <4> HIDE DEF e
      <4> QED
        BY <4>1, <4>2, <4>3
    <3>2. R = [executions EXCEPT ![n] = [executions[n] EXCEPT !.rest = Tail(@)]]
      OBVIOUS
    <3> QED
      BY <3>1, <3>2
  <2>7. /\ DOMAIN R = 1 .. n
        /\ \A k \in 1 .. n : R[k] = IF k = n
             THEN [transaction |-> t, signer |-> s, rest |-> Tail(rest)]
             ELSE executions[k]
    BY <2>1, <2>6 DEF ClientsInv, ExecutionsTyped
  <2>8. R = [k \in 1 .. n |-> R[k]]
    BY <2>1, <2>6 DEF ClientsInv, ExecutionsTyped
  <2>9. \A k \in 1 .. n : IsExecution(R[k])
    <3>1. IsExecution([transaction |-> t, signer |-> s, rest |-> Tail(rest)])
      BY <2>5 DEF IsExecution
    <3>2. \A k \in 1 .. n : IsExecution(executions[k])
      BY <2>1 DEF ClientsInv, ExecutionsTyped
    <3> QED
      BY <2>7, <3>1, <3>2
  <2> HIDE DEF R
  <2>10. R \in Seq({R[k] : k \in DOMAIN R})
    BY <2>1, <2>7, <2>8
  <2>11. ExecutionsTyped(R)
    BY <2>7, <2>9, <2>10 DEF ExecutionsTyped
  <2> QED
    BY <1>2, <2>11 DEF Program!RestOfExecutions, R
<1> QED
  BY <1>1, <1>2

LEMMA ReturnTyped ==
    ASSUME ClientsInv, NEW i, Program!Ordered(i), i = Head(Due), Program!Return
    PROVE  ExecutionsTyped(executions')
BY RestTyped DEF Program!Return

(* Closing proposals leaves the others.                                    *)
LEMMA WithoutInformed ==
    ASSUME NEW O, NEW S, NEW T, Informed(O, S)
    PROVE  Informed(Program!Without(O, T), S)
BY DEF Informed, Program!Without, Program!Restrict

(* create_account asks for the signature of the address, which only its    *)
(* holder can give.                                                        *)
LEMMA ProposeInformed ==
    ASSUME ClientsInv, Due # << >>, Program!Propose(Head(Due))
    PROVE  Informed(open', signedFor)
<1> DEFINE i == Head(Due)
<1>1. i.op = "propose_transaction" /\ i.transaction \in Program!Authority
  BY DEF Program!Propose, Program!MayPropose
<1>2. executions = << >> /\ i \in Vouched(signedFor, present)
  BY <1>1, VoteIsSent
<1>3. i.transaction \in present
  BY <1>1, <1>2 DEF Program!Authority
<1> HIDE DEF i
<1>4. i \in Proposing(signedFor, present)
  BY <1>1, <1>2 DEF Vouched, Approving, Closing, ApproveIx, ExecuteIx,
     ApproveTransactionIx, ExecuteTransactionIx, CancelTransactionIx
<1>5. PICK v \in History :
         /\ i = ProposeIx(v[1], v[2], v[3])
         /\ v[2] \in present => /\ v \in signedFor /\ Authored(signedFor, v[2], v[3])
                                /\ v[1] = Holder[v[2]]
  BY <1>4 DEF Proposing
<1>6. /\ i.transaction = v[2] /\ i.proposer = v[1] /\ i.instructions = v[3]
      /\ i.multisig = TheMultisig
  BY <1>5 DEF ProposeIx, ProposeTransactionIx
<1>7. /\ v = <<v[1], v[2], v[3]>> /\ v[1] \in Owners /\ v[2] \in TransactionAddresses
      /\ v[3] \in Payloads
  BY DEF History
<1>8. v \in signedFor /\ Authored(signedFor, v[2], v[3])
  BY <1>3, <1>5, <1>6
<1> DEFINE new == Program!NewProposal(i)
<1>9. new = [multisig |-> TheMultisig, instructions |-> v[3], approvals |-> {v[1]}]
  BY <1>6 DEF Program!NewProposal
<1>10. /\ new \in Proposals /\ Authored(signedFor, v[2], new.instructions)
       /\ \A a \in new.approvals : \E content \in Payloads :
             Authored(signedFor, v[2], content) /\ <<a, v[2], content>> \in signedFor
  BY <1>7, <1>8, <1>9 DEF Proposals
<1>11. open' = Program!With(open, v[2], new)
  BY <1>6 DEF Program!Propose, i
<1> HIDE DEF new
<1>12. Informed(open, signedFor)
  BY DEF ClientsInv
<1> QED
  BY <1>7, <1>10, <1>11, <1>12 DEF Informed, Program!With

(* Whoever's approval is processed signed for what the address's holder    *)
(* has proposed there, then or at another time.                            *)
LEMMA ApproveInformed ==
    ASSUME ClientsInv, Due # << >>, Program!Approve(Head(Due))
    PROVE  Informed(open', signedFor)
<1> DEFINE i == Head(Due)
<1>1. i.op = "approve_transaction"
  BY DEF Program!Approve, Program!MayApprove
<1>2. i \in Vouched(signedFor, present)
  BY <1>1, VoteIsSent
<1> HIDE DEF i
<1>3. i \in Approving(signedFor)
  BY <1>1, <1>2 DEF Vouched, Proposing, Closing, ProposeIx, ExecuteIx,
     ProposeTransactionIx, ExecuteTransactionIx, CancelTransactionIx
<1>4. PICK v \in History \cap signedFor :
         i = ApproveIx(v[1], v[2]) /\ Authored(signedFor, v[2], v[3])
  BY <1>3 DEF Approving
<1>5. i.transaction = v[2] /\ i.approver = v[1]
  BY <1>4 DEF ApproveIx, ApproveTransactionIx
<1> DEFINE t == v[2]
           o == v[1]
           content == v[3]
<1>6. t \in DOMAIN open
  BY <1>5 DEF Program!Approve, Program!MayApprove, Program!IsOpen, i
<1>7. o \in Owners /\ content \in Payloads /\ v = <<o, t, content>>
  BY DEF History
<1>8. open' = [open EXCEPT ![t].approvals = @ \cup {o}]
  BY <1>5 DEF Program!Approve, i
<1>9. Authored(signedFor, t, content) /\ <<o, t, content>> \in signedFor
  BY <1>4, <1>7
<1>10. open \in [DOMAIN open -> Proposals] /\ DOMAIN open \subseteq TransactionAddresses
  BY DEF ClientsInv, Informed
<1> HIDE DEF t, o, content
<1>11. open' = [open EXCEPT ![t] = [multisig |-> TheMultisig,
                                    instructions |-> open[t].instructions,
                                    approvals |-> open[t].approvals \cup {o}]]
  <2>1. open[t] \in Proposals
    BY <1>6, <1>10
  <2>2. open' = [open EXCEPT ![t] = [open[t] EXCEPT !.approvals = @ \cup {o}]]
    BY <1>8
  <2> QED
    BY <2>1, <2>2, ApprovalsExcept
<1>12. [multisig |-> TheMultisig, instructions |-> open[t].instructions,
        approvals |-> open[t].approvals \cup {o}] \in Proposals
  BY <1>6, <1>7, <1>10 DEF Proposals
<1>13. open' \in [DOMAIN open' -> Proposals] /\ DOMAIN open' = DOMAIN open
  BY <1>10, <1>11, <1>12
<1>14. ASSUME NEW u \in DOMAIN open
       PROVE  /\ Authored(signedFor, u, open'[u].instructions)
              /\ \A a \in open'[u].approvals : \E p \in Payloads :
                    Authored(signedFor, u, p) /\ <<a, u, p>> \in signedFor
  <2>1. /\ Authored(signedFor, u, open[u].instructions)
        /\ \A a \in open[u].approvals : \E p \in Payloads :
              Authored(signedFor, u, p) /\ <<a, u, p>> \in signedFor
    BY DEF ClientsInv, Informed
  <2>2. CASE u = t
    <3>1. /\ open'[u].instructions = open[u].instructions
          /\ open'[u].approvals = open[u].approvals \cup {o}
      BY <1>10, <1>11, <2>2
    <3> QED
      BY <1>7, <1>9, <2>1, <2>2, <3>1
  <2>3. CASE u # t
    BY <1>10, <1>11, <2>1, <2>3
  <2> QED
    BY <2>2, <2>3
<1> QED
  BY <1>10, <1>13, <1>14 DEF Informed

(* An execution runs what a payload holds.                                 *)
LEMMA ExecuteTyped ==
    ASSUME ClientsInv, NEW i, Program!Ordered(i), i = Head(Due), Program!Execute(i)
    PROVE  ExecutionsTyped(executions')
<1> DEFINE t == i.transaction
           s == multisigs[i.multisig].signer
           p == open[t].instructions
           new == [transaction |-> t, signer |-> s, rest |-> p]
           R == Program!RestOfExecutions
<1>1. executions' = Append(R, new)
  BY DEF Program!Execute
<1>2. ExecutionsTyped(R)
  BY RestTyped
<1>3. p \in Payloads
  BY DEF Program!Execute, Program!MayExecute, Program!IsOpen, ClientsInv, Informed, Proposals
<1>4. p \in Seq(Stored)
  <2>1. ToSet(p) \subseteq Stored
    BY <1>3 DEF Stored
  <2>2. p \in Seq(ToSet(p))
    BY <1>3, PayloadsAreLists
  <2> HIDE DEF p
  <2> QED
    BY <2>1, <2>2, SeqGrows
<1>5. IsExecution(new)
  BY <1>4 DEF IsExecution
<1> HIDE DEF R, new
<1>6. /\ Len(R) \in Nat /\ DOMAIN R = 1 .. Len(R)
      /\ \A k \in DOMAIN R : IsExecution(R[k])
      /\ R \in Seq({R[k] : k \in DOMAIN R} \cup {new})
  <2>1. R \in Seq({R[k] : k \in DOMAIN R})
    BY <1>2 DEF ExecutionsTyped
  <2>2. {R[k] : k \in DOMAIN R} \subseteq {R[k] : k \in DOMAIN R} \cup {new}
    OBVIOUS
  <2>3. R \in Seq({R[k] : k \in DOMAIN R} \cup {new})
    BY <2>1, <2>2, SeqGrows
  <2> QED
    BY <1>2, <2>1, <2>3 DEF ExecutionsTyped
<1>7. /\ Len(executions') = Len(R) + 1
      /\ executions' \in Seq({R[k] : k \in DOMAIN R} \cup {new})
      /\ \A k \in 1 .. Len(R) : executions'[k] = R[k]
      /\ executions'[Len(R) + 1] = new
  BY <1>1, <1>6
<1>8. \A k \in DOMAIN executions' : IsExecution(executions'[k])
  BY <1>5, <1>6, <1>7
<1>9. executions' \in Seq({executions'[k] : k \in DOMAIN executions'})
  BY <1>7
<1> QED
  BY <1>8, <1>9 DEF ExecutionsTyped

(* A processed instruction keeps the proposals informed.                   *)
LEMMA ProcessKeeps ==
    ASSUME ClientsInv, Due # << >>, Program!Process(Head(Due))
    PROVE  Informed(open', signedFor) /\ ExecutionsTyped(executions')
<1> DEFINE i == Head(Due)
<1>1. Program!Ordered(i)
  BY DEF Program!Process
<1>2. Informed(open, signedFor)
  BY DEF ClientsInv
<1>3. CASE Program!Propose(i)
  BY <1>1, <1>3, ProposeInformed, ReturnTyped DEF Program!Propose
<1>4. CASE Program!Approve(i)
  BY <1>1, <1>4, ApproveInformed, ReturnTyped DEF Program!Approve
<1>5. CASE Program!Execute(i)
  BY <1>1, <1>2, <1>5, ExecuteTyped DEF Program!Execute
<1>6. CASE Program!Cancel(i)
  BY <1>1, <1>2, <1>6, WithoutInformed, ReturnTyped DEF Program!Cancel
<1>7. CASE Program!SetOwners(i) \/ Program!SetOwnersAndChangeThreshold(i)
  <2>1. Informed(open', signedFor)
    <3>1. \E dead : open' = Program!Without(open, dead)
      BY <1>7 DEF Program!SetOwners, Program!SetOwnersAndChangeThreshold, Program!Void
    <3> QED
      BY <1>2, <3>1, WithoutInformed
  <2>2. Program!Return
    BY <1>7 DEF Program!SetOwners, Program!SetOwnersAndChangeThreshold
  <2> QED
    BY <1>1, <2>1, <2>2, ReturnTyped
<1>8. CASE Program!Create(i) \/ Program!ChangeThreshold(i) \/ Program!Transfer(i)
  BY <1>1, <1>2, <1>8, ReturnTyped
  DEF Program!Create, Program!ChangeThreshold, Program!Transfer
<1> HIDE DEF i
<1> QED
  BY <1>3, <1>4, <1>5, <1>6, <1>7, <1>8 DEF Program!Process, i

LEMMA AcceptKeeps == ASSUME ClientsInv, Accept PROVE ClientsInv'
<1>1. Due # << >> /\ Program!Process(Head(Due))
  BY DEF Accept
<1>2. Informed(open', signedFor) /\ ExecutionsTyped(executions')
  BY <1>1, ProcessKeeps
<1>3. signedFor' = signedFor /\ sent' = sent
  BY DEF Accept
<1>4. saved' = saved /\ present' = present
  BY <1>1 DEF Program!Process, Program!Create, Program!Propose, Program!Approve,
     Program!Execute, Program!Cancel, Program!SetOwners, Program!ChangeThreshold,
     Program!SetOwnersAndChangeThreshold, Program!Transfer, Program!Return
<1>5. left' \in Seq(Vouched(signedFor, present))
  BY <1>1 DEF Accept, Due, ClientsInv
<1> QED
  BY <1>2, <1>3, <1>4, <1>5 DEF ClientsInv, Read

LEMMA FinishKeeps == ASSUME ClientsInv, Finish PROVE ClientsInv'
<1> DEFINE n == Len(executions)
<1>1. /\ executions # << >>
      /\ open' = Program!Without(open, {Program!Last(executions).transaction})
      /\ executions' = Program!Front(executions)
      /\ UNCHANGED <<present, saved, sent, left, signedFor>>
  BY DEF Finish, Program!Finish
<1>2. Informed(open', signedFor)
  BY <1>1, WithoutInformed DEF ClientsInv
<1>3. /\ n \in Nat \ {0} /\ DOMAIN executions = 1 .. n
      /\ executions \in Seq({executions[k] : k \in DOMAIN executions})
      /\ \A k \in DOMAIN executions : IsExecution(executions[k])
  BY <1>1 DEF ClientsInv, ExecutionsTyped
<1>4. executions' = [k \in 1 .. n - 1 |-> executions[k]]
  BY <1>1, <1>3 DEF Program!Front
<1>5. ExecutionsTyped(executions')
  <2>1. /\ DOMAIN executions' = 1 .. n - 1
        /\ \A k \in 1 .. n - 1 : IsExecution(executions'[k])
    BY <1>3, <1>4
  <2>2. executions' \in Seq({executions'[k] : k \in DOMAIN executions'})
    BY <1>3, <1>4
  <2> QED
    BY <2>1, <2>2 DEF ExecutionsTyped
<1> QED
  BY <1>1, <1>2, <1>5 DEF ClientsInv, Read

-----------------------------------------------------------------------------
(* The network and the bank. *)

(* A client that waits for nothing.                                        *)
LEMMA NothingIsSendable == ASSUME NEW S PROVE Nothing \in Sendable(S)
<1>1. /\ Nothing \in [signers : SUBSET (Owners \cup TransactionAddresses),
                      instructions : Seq(Vouched(S, {}))]
      /\ Nothing.instructions = << >>
  BY DEF Nothing
<1>2. << >> \in Seq(Vouched(S, Nothing.signers))
  OBVIOUS
<1> QED
  BY <1>1, <1>2 DEF Sendable

LEMMA NothingSent ==
    ASSUME NEW s, NEW S, SentTyped(s, S), NEW o
    PROVE  SentTyped([s EXCEPT ![o] = Nothing], S)
BY NothingIsSendable DEF SentTyped

LEMMA ExpireKeeps ==
    ASSUME ClientsInv, NEW o \in Owners, Expire(o) PROVE ClientsInv'
<1>1. SentTyped(sent', signedFor)
  BY NothingSent DEF ClientsInv, Expire
<1> QED
  BY <1>1 DEF ClientsInv, Expire, Read

LEMMA DeliverKeeps ==
    ASSUME ClientsInv, NEW o \in Owners, Deliver(o) PROVE ClientsInv'
<1>1. left' \in Seq(Vouched(signedFor, present'))
  <2>1. sent[o] \in Sendable(signedFor)
    BY DEF ClientsInv, SentTyped
  <2> QED
    BY <2>1 DEF Deliver, Program!Begin, Sendable
<1>2. UNCHANGED <<open, executions, saved, sent, signedFor>>
  BY DEF Deliver, Program!Begin
<1> QED
  BY <1>1, <1>2 DEF ClientsInv, Read

LEMMA ReturnKeeps ==
    ASSUME ClientsInv, Return
    PROVE  /\ signedFor' = signedFor /\ SentTyped(sent', signedFor)
           /\ left' \in Seq(Vouched(signedFor, present'))
<1>1. SentTyped(sent', signedFor)
  BY NothingSent DEF ClientsInv, Return
<1> QED
  BY <1>1 DEF Return

LEMMA NoExecutions == ExecutionsTyped(<< >>)
BY DEF ExecutionsTyped

LEMMA CommitKeeps == ASSUME ClientsInv, Commit PROVE ClientsInv'
<1>1. /\ saved' = <<multisigs, open>> /\ open' = open /\ executions' = executions
      /\ Return
  BY DEF Commit, Program!Commit
<1>2. Read' = open
  BY <1>1 DEF Read
<1> QED
  BY <1>1, <1>2, ReturnKeeps DEF ClientsInv

LEMMA RefuseKeeps == ASSUME ClientsInv, Refuse PROVE ClientsInv'
<1>1. /\ saved' = saved /\ open' = Read /\ executions' = << >> /\ Return
  BY DEF Refuse, Program!Rollback, Read
<1>2. Read' = Read
  BY <1>1 DEF Read
<1> QED
  BY <1>1, <1>2, ReturnKeeps, NoExecutions DEF ClientsInv

-----------------------------------------------------------------------------
LEMMA ClientsInit == ASSUME Init PROVE ClientsInv
<1>1. /\ open = << >> /\ Read = << >> /\ executions = << >> /\ left = << >>
      /\ signedFor = {} /\ sent = [o \in Owners |-> Nothing]
  BY DEF Init, Read
<1>2. Informed(<< >>, signedFor)
  BY DEF Informed
<1>3. SentTyped(sent, signedFor)
  BY <1>1, NothingIsSendable DEF SentTyped
<1> QED
  BY <1>1, <1>2, <1>3, NoExecutions DEF ClientsInv

LEMMA ClientsStep == ASSUME ClientsInv, [Next]_vars PROVE ClientsInv'
<1>1. CASE UNCHANGED vars
  BY <1>1 DEF vars, ClientsInv, Read
<1>2. ASSUME NEW o \in Owners, Client(o) PROVE ClientsInv'
  <2>1. CASE \E team \in Teams : o \in team /\ ProposeSignAndExecute(o, team)
    BY <2>1, TeamKeeps
  <2> QED
    BY <1>2, <2>1, ProposeKeeps, ProposeElsewhereKeeps, ApproveKeeps, CloseKeeps
    DEF Client
<1>3. CASE Bank
  BY <1>3, AcceptKeeps, FinishKeeps, CommitKeeps, RefuseKeeps DEF Bank
<1> QED
  BY <1>1, <1>2, <1>3, ExpireKeeps, DeliverKeeps DEF Next

LEMMA ClientsAlways == Spec => []ClientsInv
<1>1. Init => ClientsInv
  BY ClientsInit
<1>2. ClientsInv /\ [Next]_vars => ClientsInv'
  BY ClientsStep
<1> QED
  BY <1>1, <1>2, PTL DEF Spec

(* However late an approval is processed, it counts for what its owner has *)
(* signed for or for another proposal of the holder of the key pair of the *)
(* address: nobody else can have put one there (approve_transaction.rs:13, *)
(* propose_transaction.rs:90).                                             *)
THEOREM VotesAreInformedAlways == Spec => []VotesAreInformed
<1>1. ClientsInv => VotesAreInformed
  <2> SUFFICES ASSUME ClientsInv, NEW t \in DOMAIN open
               PROVE  /\ open[t].instructions \in ProposedAt(t)
                      /\ \A a \in open[t].approvals :
                            \E content \in ProposedAt(t) : <<a, t, content>> \in signedFor
    BY DEF VotesAreInformed
  <2>1. ASSUME NEW content, Authored(signedFor, t, content)
        PROVE  content \in ProposedAt(t)
    BY <2>1 DEF Authored, ProposedAt
  <2>2. /\ Authored(signedFor, t, open[t].instructions)
        /\ \A a \in open[t].approvals : \E content \in Payloads :
              Authored(signedFor, t, content) /\ <<a, t, content>> \in signedFor
    BY DEF ClientsInv, Informed
  <2> QED
    BY <2>1, <2>2
<1> QED
  BY <1>1, ClientsAlways, PTL

(* At an address that its holder has proposed one content at, as those do  *)
(* who generate a key pair for each proposal, every approval that counts   *)
(* is of that very content (multisigDsl.ts:132).                           *)
ApprovedAsSigned ==
    \A t \in DOMAIN open :
        (\A content \in ProposedAt(t) : content = open[t].instructions) =>
            \A a \in open[t].approvals : <<a, t, open[t].instructions>> \in signedFor

THEOREM ApprovedAsSignedAlways == Spec => []ApprovedAsSigned
<1>1. VotesAreInformed => ApprovedAsSigned
  BY DEF VotesAreInformed, ApprovedAsSigned
<1> QED
  BY <1>1, VotesAreInformedAlways, PTL

-----------------------------------------------------------------------------
(* What is in progress.  The multisig keeps its address and its signer.    *)
OneMultisig(owners, threshold) ==
    [m \in {TheMultisig} |->
       [owners |-> owners, threshold |-> threshold, signer |-> Signer]]

IsTheMultisig(M) == \E owners, threshold : M = OneMultisig(owners, threshold)

ProgramInv ==
    /\ IsTheMultisig(multisigs) /\ IsTheMultisig(saved[1])
    /\ \A k \in DOMAIN executions : executions[k].signer = Signer
    /\ \/ /\ current = Nobody /\ present = {} /\ executions = << >>
          /\ multisigs = saved[1] /\ open = Read
       \/ /\ current \in Owners /\ sent[current] # Nothing
          /\ present = sent[current].signers
          /\ ToSet(left) \subseteq ToSet(sent[current].instructions)

(* What is left of the transaction of a team: approvals at t by those of   *)
(* the team who are not among voters, and at the end the execution.        *)
Votes(rest, voters, o, t, team) ==
    /\ rest # << >> /\ Last(rest) = ExecuteIx(o, t)
    /\ \A k \in 1 .. Len(rest) - 1 : \E a \in team : rest[k] = ApproveIx(a, t)
    /\ \A a \in team \ voters : \E k \in 1 .. Len(rest) - 1 : rest[k] = ApproveIx(a, t)

Joint(s, o, t, payload, team) ==
    /\ s.signers = team \cup {t}
    /\ s.instructions # << >> /\ Head(s.instructions) = ProposeIx(o, t, payload)
    /\ Votes(Tail(s.instructions), {o}, o, t, team)

(* What a client may have sent.                                            *)
IsSent(s, o) ==
    \/ s = Nothing
    \/ o \in s.signers /\ Len(s.instructions) = 1
    \/ \E t \in TransactionAddresses, payload \in Payloads, team \in Teams :
          o \in team /\ Joint(s, o, t, payload, team)

(* A team's proposal that is on its way finds nothing at its address, and  *)
(* only the client that sent it can propose there.                         *)
OnItsWay(o, t) ==
    /\ t \in Keys(o)
    /\ t \notin DOMAIN Read
    /\ current # o => t \notin DOMAIN open

IsJoint(s) == Len(s.instructions) > 1

SentInv ==
    \A o \in Owners :
        /\ IsSent(sent[o], o)
        /\ sent[o].signers \cap TransactionAddresses \subseteq Keys(o)
        /\ IsJoint(sent[o]) => OnItsWay(o, Head(sent[o].instructions).transaction)

(* Instructions that MultisigSpec refuses in no state of the multisig, if  *)
(* whoever they need has signed.                                           *)
Plain(i) ==
    \/ i.op = "transfer" /\ i.from \in i.signed
    \/ /\ i.op \in {"set_owners", "set_owners_and_change_threshold"}
       /\ i.multisig = TheMultisig /\ i.owners # << >>
       /\ i.op = "set_owners_and_change_threshold" =>
             1 <= i.threshold /\ i.threshold <= Cardinality(ToSet(i.owners))

PlainPayloads ==
    \A p \in Payloads : p # << >> /\ \A k \in DOMAIN p : Plain(p[k])

(* How far the transaction of a team has come: not begun, proposed and     *)
(* partly approved, or executing.                                          *)
Stage(t, payload, team) ==
    \/ /\ left = sent[current].instructions /\ executions = << >>
       /\ multisigs = saved[1] /\ open = Read
    \/ /\ executions = << >> /\ multisigs = saved[1] /\ t \in DOMAIN open
       /\ open[t].instructions = payload /\ open[t].approvals \subseteq team
       /\ Votes(left, open[t].approvals, current, t, team)
    \/ /\ left = << >>
       /\ \A k \in DOMAIN executions : ToSet(executions[k].rest) \subseteq ToSet(payload)

JointInv ==
    current # Nobody /\ Len(sent[current].instructions) > 1 =>
        \E t \in TransactionAddresses, payload \in Payloads, team \in Teams :
            /\ current \in team /\ Joint(sent[current], current, t, payload, team)
            /\ Stage(t, payload, team)

-----------------------------------------------------------------------------
(* Who is there, and what can be where.                                    *)

BankInv == ClientsInv /\ ProgramInv /\ SentInv

(* Whoever waits for an outcome has signed, and only owners and addresses  *)
(* for proposals sign.                                                     *)
LEMMA SendersSign ==
    ASSUME ClientsInv, SentInv, NEW o \in Owners, sent[o] # Nothing
    PROVE  o \in sent[o].signers /\ sent[o].signers \subseteq Owners \cup TransactionAddresses
<1>1. IsSent(sent[o], o)
  BY DEF SentInv
<1>2. o \in sent[o].signers
  BY <1>1 DEF IsSent, Joint
<1>3. sent[o].signers \subseteq Owners \cup TransactionAddresses
  BY DEF ClientsInv, SentTyped, Sendable
<1> QED
  BY <1>2, <1>3

LEMMA NobodyIsThere ==
    ASSUME BankInv
    PROVE  /\ present = {} =>
                /\ current = Nobody /\ executions = << >>
                /\ multisigs = saved[1] /\ open = Read
           /\ present # {} =>
                /\ current \in Owners /\ current # Nobody /\ sent[current] # Nothing
                /\ present = sent[current].signers /\ current \in present
                /\ present \subseteq Owners \cup TransactionAddresses
                /\ ToSet(left) \subseteq ToSet(sent[current].instructions)
BY SendersSign, OwnersAreWallets DEF BankInv, ProgramInv

(* A transaction of a team proposes at one address.                        *)
LEMMA JointAddress ==
    ASSUME NEW s, NEW o, NEW t, NEW payload, NEW team, Joint(s, o, t, payload, team)
    PROVE  Head(s.instructions).transaction = t
BY DEF Joint, ProposeIx, ProposeTransactionIx

(* Nothing is where its holder has signed for nothing.                     *)
LEMMA GeneratedIsUnused ==
    ASSUME ClientsInv, NEW o \in Owners, NEW t \in Generated(o)
    PROVE  t \in Keys(o) /\ t \notin DOMAIN Read
<1>1. t \in Keys(o) /\ \A v \in signedFor : <<v[1], v[2]>> # <<o, t>>
  BY DEF Generated
<1>2. ASSUME t \in DOMAIN Read PROVE FALSE
  <2> DEFINE v == <<Holder[t], t, Read[t].instructions>>
  <2>1. v \in signedFor
    BY <1>2 DEF ClientsInv, Informed, Authored
  <2>2. v[1] = o /\ v[2] = t
    BY <1>1, KeysAreHeld
  <2> HIDE DEF v
  <2> QED
    BY <1>1, <2>1, <2>2
<1> QED
  BY <1>1, <1>2

-----------------------------------------------------------------------------
(* Clients send.                                                           *)

LEMMA SendFits ==
    ASSUME BankInv, NEW o \in Owners, NEW S, NEW instructions,
           Send(o, S, instructions),
           IsSent([signers |-> S, instructions |-> instructions], o),
           S \cap TransactionAddresses \subseteq Keys(o),
           Len(instructions) > 1 => /\ Head(instructions).transaction \in Keys(o)
                                    /\ Head(instructions).transaction \notin DOMAIN Read
    PROVE  ProgramInv' /\ SentInv' /\ JointInv'
<1> DEFINE new == [signers |-> S, instructions |-> instructions]
<1>1. /\ present = {} /\ sent[o] = Nothing
      /\ UNCHANGED <<multisigs, open, present, executions, saved, current, left>>
      /\ Read' = Read
      /\ sent' = [sent EXCEPT ![o] = new]
  BY DEF Send, Read
<1>2. /\ current = Nobody /\ executions = << >> /\ open = Read
      /\ Nobody \notin Owners
  BY <1>1, NobodyIsThere, OwnersAreWallets
<1>3. ProgramInv'
  BY <1>1, <1>2, OwnersAreWallets DEF BankInv, ProgramInv
<1>4. /\ sent'[o] = new
      /\ \A u \in Owners : u # o => sent'[u] = sent[u]
  BY <1>1 DEF BankInv, ClientsInv, SentTyped
<1>5. /\ new.signers = S /\ new.instructions = instructions
      /\ IsSent(new, o)
  OBVIOUS
<1> HIDE DEF new
<1>6. ASSUME NEW u \in Owners
      PROVE  /\ IsSent(sent'[u], u)
             /\ sent'[u].signers \cap TransactionAddresses \subseteq Keys(u)
             /\ IsJoint(sent'[u]) => OnItsWay(u, Head(sent[u].instructions).transaction)'
  <2>1. CASE u = o
    <3>1. IsJoint(new) => /\ Head(instructions).transaction \in Keys(o)
                          /\ Head(instructions).transaction \notin DOMAIN Read'
                          /\ Head(instructions).transaction \notin DOMAIN open'
      BY <1>1, <1>2, <1>5 DEF IsJoint
    <3> QED
      BY <1>4, <1>5, <2>1, <3>1 DEF OnItsWay
  <2>2. CASE u # o
    <3>1. sent'[u] = sent[u]
      BY <1>4, <2>2
    <3>2. /\ IsSent(sent[u], u)
          /\ sent[u].signers \cap TransactionAddresses \subseteq Keys(u)
          /\ IsJoint(sent[u]) => OnItsWay(u, Head(sent[u].instructions).transaction)
      BY DEF BankInv, SentInv
    <3> QED
      BY <1>1, <3>1, <3>2 DEF OnItsWay
  <2> QED
    BY <2>1, <2>2
<1>7. SentInv'
  BY <1>6 DEF SentInv, IsSent, Joint, IsJoint
<1>8. JointInv'
  BY <1>1, <1>2 DEF JointInv
<1> QED
  BY <1>3, <1>7, <1>8

LEMMA OneIsSent ==
    ASSUME BankInv, NEW o \in Owners, NEW S, NEW i, o \in S,
           S \cap TransactionAddresses \subseteq Keys(o), Send(o, S, <<i>>)
    PROVE  ProgramInv' /\ SentInv' /\ JointInv'
<1>1. IsSent([signers |-> S, instructions |-> <<i>>], o)
  BY DEF IsSent
<1>2. ~(Len(<<i>>) > 1)
  OBVIOUS
<1> QED
  BY <1>1, <1>2, SendFits

(* An owner's own key pair is no address for proposals.                    *)
LEMMA OwnersAreElsewhere ==
    ASSUME NEW o \in Owners PROVE {o} \cap TransactionAddresses = {}
BY OwnersAreWallets, AddressSpacesDisjoint

LEMMA ProposeFits ==
    ASSUME BankInv, NEW o \in Owners, Propose(o) \/ ProposeElsewhere(o)
    PROVE  ProgramInv' /\ SentInv' /\ JointInv'
<1>1. CASE Propose(o)
  <2>1. PICK t \in Keys(o), payload \in Payloads :
           Send(o, {o, t}, <<ProposeIx(o, t, payload)>>)
    BY <1>1 DEF Propose
  <2>2. {o, t} \cap TransactionAddresses \subseteq Keys(o)
    BY OwnersAreElsewhere
  <2> QED
    BY <2>1, <2>2, OneIsSent
<1>2. CASE ProposeElsewhere(o)
  <2>1. PICK t \in TransactionAddresses, payload \in Payloads :
           Send(o, {o}, <<ProposeIx(o, t, payload)>>)
    BY <1>2 DEF ProposeElsewhere
  <2> QED
    BY <2>1, OneIsSent, OwnersAreElsewhere
<1> QED
  BY <1>1, <1>2

LEMMA ApproveFits ==
    ASSUME BankInv, NEW o \in Owners, NEW t \in TransactionAddresses,
           Approve(o, t) \/ Execute(o, t) \/ Cancel(o, t)
    PROVE  ProgramInv' /\ SentInv' /\ JointInv'
<1>1. PICK i : Send(o, {o}, <<i>>)
  BY DEF Approve, Execute, Cancel
<1> QED
  BY <1>1, OneIsSent, OwnersAreElsewhere

(* A team's transaction: the proposal, an approval of each but the         *)
(* proposer, and the execution.                                            *)
LEMMA TeamsAreJoint ==
    ASSUME NEW o, NEW t, NEW payload, NEW team, IsFiniteSet(team), NEW q,
           q = SetToSeq({ApproveIx(a, t) : a \in team \ {o}})
    PROVE  Joint([signers |-> team \cup {t},
                  instructions |-> <<ProposeIx(o, t, payload)>> \o q \o <<ExecuteIx(o, t)>>],
                 o, t, payload, team)
<1> DEFINE A == {ApproveIx(a, t) : a \in team \ {o}}
           first == ProposeIx(o, t, payload)
           last == ExecuteIx(o, t)
           all == <<first>> \o q \o <<last>>
           rest == q \o <<last>>
<1>1. q \in Seq(A) /\ ToSet(q) = A
  BY TeamApproves, FS_Subset
<1>2. \A k \in 1 .. Len(q) : \E a \in team : q[k] = ApproveIx(a, t)
  <2>1. \A k \in 1 .. Len(q) : q[k] \in A
    <3> HIDE DEF A
    <3> QED
      BY <1>1
  <2> QED
    BY <2>1
<1>3. \A a \in team \ {o} : \E k \in 1 .. Len(q) : q[k] = ApproveIx(a, t)
  <2>1. \A x \in A : \E k \in 1 .. Len(q) : q[k] = x
    <3> HIDE DEF A
    <3>1. DOMAIN q = 1 .. Len(q)
      BY <1>1
    <3> QED
      BY <1>1, <3>1 DEF ToSet
  <2>2. \A a \in team \ {o} : ApproveIx(a, t) \in A
    OBVIOUS
  <2> HIDE DEF A
  <2> QED
    BY <2>1, <2>2
<1> HIDE DEF A, first, last
<1>4. /\ rest # << >> /\ rest[Len(rest)] = last /\ Len(rest) - 1 = Len(q)
      /\ \A k \in 1 .. Len(q) : rest[k] = q[k]
  BY <1>1
<1>5. all # << >> /\ Head(all) = first /\ Tail(all) = rest
  BY <1>1
<1> HIDE DEF all, rest
<1>6. Votes(rest, {o}, o, t, team)
  BY <1>2, <1>3, <1>4 DEF Votes, last, Last
<1>7. Joint([signers |-> team \cup {t}, instructions |-> all], o, t, payload, team)
  BY <1>5, <1>6 DEF Joint, first
<1> QED
  BY <1>7 DEF all, first, last

LEMMA TeamFits ==
    ASSUME BankInv, NEW team \in Teams, NEW o \in team,
           ProposeSignAndExecute(o, team)
    PROVE  ProgramInv' /\ SentInv' /\ JointInv'
<1> DEFINE approvals(t) == SetToSeq({ApproveIx(a, t) : a \in team \ {o}})
<1>1. PICK t \in Generated(o), payload \in Payloads :
         Send(o, team \cup {t},
              <<ProposeIx(o, t, payload)>> \o approvals(t) \o <<ExecuteIx(o, t)>>)
  BY DEF ProposeSignAndExecute
<1> DEFINE all == <<ProposeIx(o, t, payload)>> \o approvals(t) \o <<ExecuteIx(o, t)>>
           new == [signers |-> team \cup {t}, instructions |-> all]
<1>2. /\ o \in Owners /\ team \subseteq Owners /\ IsFiniteSet(team)
      /\ team \cap TransactionAddresses = {}
  BY TeamsAreOwners, OwnersAreWallets, AddressSpacesDisjoint
<1>3. t \in Keys(o) /\ t \notin DOMAIN Read /\ t \in TransactionAddresses
  BY <1>2, GeneratedIsUnused, KeysAreHeld DEF BankInv
<1>4. Joint(new, o, t, payload, team)
  BY <1>2, TeamsAreJoint
<1>5. Send(o, team \cup {t}, all) /\ new.instructions = all
  BY <1>1
<1> HIDE DEF approvals, all
<1>6. Head(all).transaction = t
  BY <1>4, <1>5, JointAddress
<1>7. IsSent(new, o)
  BY <1>3, <1>4 DEF IsSent
<1>8. (team \cup {t}) \cap TransactionAddresses \subseteq Keys(o)
  BY <1>2, <1>3
<1> QED
  BY <1>2, <1>3, <1>5, <1>6, <1>7, <1>8, SendFits

-----------------------------------------------------------------------------
(* The network and the bank.                                               *)

(* What the others have on its way stays so if nothing came to be at their *)
(* addresses.                                                              *)
LEMMA OthersFit ==
    ASSUME BankInv,
           \A o \in Owners : sent'[o] = sent[o] \/ sent'[o] = Nothing,
           \A o \in Owners : \A t : OnItsWay(o, t) /\ sent'[o] # Nothing => OnItsWay(o, t)'
    PROVE  SentInv'
<1>1. ASSUME NEW o \in Owners
      PROVE  /\ IsSent(sent'[o], o)
             /\ sent'[o].signers \cap TransactionAddresses \subseteq Keys(o)
             /\ IsJoint(sent'[o]) => OnItsWay(o, Head(sent[o].instructions).transaction)'
  <2>1. CASE sent'[o] = Nothing
    BY <2>1 DEF Nothing, IsSent, IsJoint
  <2>2. CASE sent'[o] = sent[o] /\ sent'[o] # Nothing
    <3>1. /\ IsSent(sent[o], o)
          /\ sent[o].signers \cap TransactionAddresses \subseteq Keys(o)
      BY DEF BankInv, SentInv
    <3>2. ASSUME IsJoint(sent[o])
          PROVE  OnItsWay(o, Head(sent[o].instructions).transaction)'
      <4>1. PICK t : t = Head(sent[o].instructions).transaction
        OBVIOUS
      <4>2. OnItsWay(o, t)
        BY <3>2, <4>1 DEF BankInv, SentInv
      <4>3. OnItsWay(o, t)'
        BY <2>2, <4>2
      <4>4. Head(sent'[o].instructions).transaction = t
        BY <2>2, <4>1
      <4> QED
        BY <4>3, <4>4 DEF OnItsWay
    <3> QED
      BY <2>2, <3>1, <3>2
  <2> QED
    BY <2>1, <2>2
<1> QED
  BY <1>1 DEF SentInv, IsSent, Joint, IsJoint

(* A client waits no more.                                                 *)
LEMMA ReturnFits ==
    ASSUME BankInv, NEW o \in Owners, sent' = [sent EXCEPT ![o] = Nothing],
           current' = Nobody,
           \A u \in Owners : \A t :
               u # o /\ OnItsWay(u, t) => t \notin DOMAIN Read' /\ t \notin DOMAIN open'
    PROVE  SentInv'
<1>1. /\ sent'[o] = Nothing
      /\ \A u \in Owners : u # o => sent'[u] = sent[u]
  BY DEF BankInv, ClientsInv, SentTyped
<1>2. ASSUME NEW u \in Owners, NEW t, OnItsWay(u, t), sent'[u] # Nothing
      PROVE  OnItsWay(u, t)'
  BY <1>1, <1>2 DEF OnItsWay
<1> QED
  BY <1>1, <1>2, OthersFit

LEMMA ExpireFits ==
    ASSUME BankInv, NEW o \in Owners, Expire(o) PROVE ProgramInv' /\ SentInv' /\ JointInv'
<1>1. /\ present = {} /\ sent' = [sent EXCEPT ![o] = Nothing]
      /\ UNCHANGED <<multisigs, open, present, executions, saved, current, left,
                     signedFor>>
      /\ Read' = Read
  BY DEF Expire, Read
<1>2. current = Nobody /\ executions = << >> /\ open = Read
  BY <1>1, NobodyIsThere
<1>3. ProgramInv'
  BY <1>1, <1>2, OwnersAreWallets DEF BankInv, ProgramInv
<1>4. \A u \in Owners : \A t : OnItsWay(u, t) => t \notin DOMAIN Read
  BY DEF OnItsWay
<1>5. SentInv'
  BY <1>1, <1>2, <1>4, ReturnFits
<1>6. JointInv'
  BY <1>1, <1>2 DEF JointInv
<1> QED
  BY <1>3, <1>5, <1>6

LEMMA DeliverFits ==
    ASSUME BankInv, NEW o \in Owners, Deliver(o) PROVE ProgramInv' /\ SentInv' /\ JointInv'
<1>1. /\ present = {} /\ present' = sent[o].signers /\ sent[o] # Nothing
      /\ current' = o /\ left' = sent[o].instructions
      /\ UNCHANGED <<multisigs, open, executions, saved, sent, signedFor>>
      /\ Read' = Read
  BY DEF Deliver, Program!Begin, Read
<1>2. current = Nobody /\ executions = << >> /\ multisigs = saved[1] /\ open = Read
  BY <1>1, NobodyIsThere
<1>3. ProgramInv'
  BY <1>1, <1>2 DEF BankInv, ProgramInv
<1>4. ASSUME NEW u \in Owners, NEW t, OnItsWay(u, t) PROVE OnItsWay(u, t)'
  BY <1>1, <1>2, <1>4 DEF OnItsWay
<1>5. SentInv'
  BY <1>1, <1>4, OthersFit
<1>6. JointInv'
  <2> SUFFICES ASSUME Len(sent[o].instructions) > 1
               PROVE  \E t \in TransactionAddresses, payload \in Payloads, team \in Teams :
                         /\ o \in team /\ Joint(sent[o], o, t, payload, team)
                         /\ Stage(t, payload, team)'
    BY <1>1 DEF JointInv, Joint
  <2>1. IsSent(sent[o], o)
    BY DEF BankInv, SentInv
  <2>2. PICK t \in TransactionAddresses, payload \in Payloads, team \in Teams :
           o \in team /\ Joint(sent[o], o, t, payload, team)
    <3> DEFINE n == Len(sent[o].instructions)
    <3>1. n # 1
      <4>1. sent[o].instructions \in Seq(Vouched(signedFor, {}))
        BY DEF BankInv, ClientsInv, SentTyped, Sendable
      <4>2. n \in Nat /\ n > 1
        BY <4>1
      <4> HIDE DEF n
      <4> QED
        BY <4>2
    <3> QED
      BY <1>1, <2>1, <3>1, Zenon DEF IsSent
  <2>3. Stage(t, payload, team)'
    BY <1>1, <1>2 DEF Stage
  <2> QED
    BY <2>2, <2>3
<1> QED
  BY <1>3, <1>5, <1>6

LEMMA CommitFits ==
    ASSUME BankInv, Commit PROVE ProgramInv' /\ SentInv' /\ JointInv'
<1>1. /\ present # {} /\ executions = << >>
      /\ saved' = <<multisigs, open>> /\ present' = {}
      /\ UNCHANGED <<multisigs, open, executions, signedFor>>
      /\ current' = Nobody /\ sent' = [sent EXCEPT ![current] = Nothing]
  BY DEF Commit, Return, Program!Commit
<1>2. Read' = open
  BY <1>1 DEF Read
<1>3. current \in Owners
  BY <1>1, NobodyIsThere
<1>4. ProgramInv'
  <2>1. IsTheMultisig(multisigs) /\ multisigs' = multisigs /\ saved'[1] = multisigs
    BY <1>1 DEF BankInv, ProgramInv
  <2>2. IsTheMultisig(multisigs') /\ IsTheMultisig(saved'[1])
    BY <2>1
  <2> QED
    BY <1>1, <1>2, <2>2 DEF ProgramInv
<1>5. \A u \in Owners : \A t : u # current /\ OnItsWay(u, t) => t \notin DOMAIN open
  BY DEF OnItsWay
<1>6. SentInv'
  BY <1>1, <1>2, <1>3, <1>5, ReturnFits
<1>7. JointInv'
  BY <1>1 DEF JointInv
<1> QED
  BY <1>4, <1>6, <1>7

LEMMA RefuseFits ==
    ASSUME BankInv, Refuse PROVE ProgramInv' /\ SentInv' /\ JointInv'
<1>1. /\ present # {} /\ multisigs' = saved[1] /\ open' = Read
      /\ executions' = << >> /\ present' = {} /\ saved' = saved /\ Read' = Read
      /\ signedFor' = signedFor
      /\ current' = Nobody /\ sent' = [sent EXCEPT ![current] = Nothing]
  BY DEF Refuse, Return, Program!Rollback, Read
<1>2. current \in Owners
  BY <1>1, NobodyIsThere
<1>3. ProgramInv'
  <2>1. IsTheMultisig(saved[1]) /\ multisigs' = saved[1] /\ saved'[1] = saved[1]
    BY <1>1 DEF BankInv, ProgramInv
  <2>2. IsTheMultisig(multisigs') /\ IsTheMultisig(saved'[1])
    BY <2>1
  <2> QED
    BY <1>1, <2>2 DEF ProgramInv
<1>4. \A u \in Owners : \A t : OnItsWay(u, t) => t \notin DOMAIN Read
  BY DEF OnItsWay
<1>5. SentInv'
  BY <1>1, <1>2, <1>4, ReturnFits
<1>6. JointInv'
  BY <1>1 DEF JointInv
<1> QED
  BY <1>3, <1>5, <1>6

-----------------------------------------------------------------------------
(* What the program keeps.                                                 *)

LEMMA RestShape ==
    ASSUME ClientsInv, NEW i, Program!Ordered(i), i = Head(Due)
    PROVE  LET R == Program!RestOfExecutions
               n == Len(executions)
           IN  /\ DOMAIN R = DOMAIN executions
               /\ \A k \in DOMAIN executions :
                     /\ R[k].signer = executions[k].signer
                     /\ \/ R[k].rest = executions[k].rest
                        \/ k = n /\ R[k].rest = Tail(executions[k].rest)
<1> DEFINE R == Program!RestOfExecutions
           n == Len(executions)
<1>1. CASE executions = << >>
  BY <1>1 DEF Program!RestOfExecutions
<1>2. CASE executions # << >>
  <2>1. /\ n \in DOMAIN executions
        /\ \A k \in DOMAIN executions : IsExecution(executions[k])
    BY <1>2 DEF ClientsInv, ExecutionsTyped
  <2>2. PICK t, s, rest :
           executions[n] = [transaction |-> t, signer |-> s, rest |-> rest]
    BY <2>1 DEF IsExecution
  <2> DEFINE new == [transaction |-> t, signer |-> s, rest |-> Tail(rest)]
  <2>3. [executions[n] EXCEPT !.rest = Tail(@)] = new
    <3> DEFINE e == [transaction |-> t, signer |-> s, rest |-> rest]
    <3>1. [e EXCEPT !.rest = Tail(rest)] = new
      BY RestExcept
    <3>2. e.rest = rest /\ executions[n] = e
      BY <2>2
    <3> HIDE DEF e, new
    <3> QED
      BY <3>1, <3>2
  <2>4. R = [executions EXCEPT ![n] = [executions[n] EXCEPT !.rest = Tail(@)]]
    BY <1>2 DEF Program!RestOfExecutions
  <2>5. R = [executions EXCEPT ![n] = new]
    BY <2>3, <2>4
  <2> HIDE DEF R
  <2>6. DOMAIN R = DOMAIN executions
    BY <2>5
  <2>7. \A k \in DOMAIN executions : R[k] = IF k = n THEN new ELSE executions[k]
    BY <2>5
  <2>8. new.signer = executions[n].signer /\ new.rest = Tail(executions[n].rest)
    BY <2>2
  <2> HIDE DEF new
  <2>9. ASSUME NEW k \in DOMAIN executions
        PROVE  /\ R[k].signer = executions[k].signer
               /\ \/ R[k].rest = executions[k].rest
                  \/ k = n /\ R[k].rest = Tail(executions[k].rest)
    <3>1. CASE k = n
      BY <2>7, <2>8, <3>1
    <3>2. CASE k # n
      BY <2>7, <3>2
    <3> QED
      BY <3>1, <3>2
  <2> QED
    BY <2>6, <2>9 DEF R
<1> QED
  BY <1>1, <1>2

LEMMA MultisigExcept ==
    ASSUME NEW M, IsTheMultisig(M), NEW m \in DOMAIN M, NEW owners, NEW threshold
    PROVE  /\ IsTheMultisig([M EXCEPT ![m].threshold = threshold])
           /\ IsTheMultisig([M EXCEPT ![m].owners = owners, ![m].threshold = threshold])
<1>1. PICK o, n : M = OneMultisig(o, n)
  BY DEF IsTheMultisig
<1>2. m = TheMultisig
  BY <1>1 DEF OneMultisig
<1>3. [M EXCEPT ![m].threshold = threshold] = OneMultisig(o, threshold)
  BY <1>1, <1>2 DEF OneMultisig
<1>4. [M EXCEPT ![m].owners = owners, ![m].threshold = threshold]
        = OneMultisig(owners, threshold)
  <2> DEFINE N == [M EXCEPT ![m].owners = owners]
  <2>1. N = OneMultisig(owners, n)
    BY <1>1, <1>2 DEF OneMultisig
  <2>2. [M EXCEPT ![m].owners = owners, ![m].threshold = threshold]
          = [N EXCEPT ![m].threshold = threshold]
    OBVIOUS
  <2> HIDE DEF N
  <2> QED
    BY <1>2, <2>1, <2>2 DEF OneMultisig
<1>5. IsTheMultisig([M EXCEPT ![m].threshold = threshold])
  BY <1>3, Zenon DEF IsTheMultisig
<1>6. IsTheMultisig([M EXCEPT ![m].owners = owners, ![m].threshold = threshold])
  BY <1>4, Zenon DEF IsTheMultisig
<1> QED
  BY <1>5, <1>6

(* No multisig account can sign for its creation.                          *)
LEMMA NoMultisigSigns ==
    ASSUME BankInv PROVE MultisigAddresses \cap Program!Authority = {}
<1>1. present \subseteq Owners \cup TransactionAddresses
  BY NobodyIsThere
<1>2. \A k \in DOMAIN executions : executions[k].signer = Signer
  BY DEF BankInv, ProgramInv
<1>3. Signer \in Pdas
  BY SignerIsPda DEF Signer, Pda, Pdas
<1> QED
  BY <1>1, <1>2, <1>3, OwnersAreWallets, AddressSpacesDisjoint
  DEF Program!Authority, KeyPairs

LEMMA MultisigStays ==
    ASSUME BankInv, NEW i, Program!Process(i) PROVE IsTheMultisig(multisigs')
<1>1. IsTheMultisig(multisigs)
  BY DEF BankInv, ProgramInv
<1>2. ~Program!Create(i)
  BY NoMultisigSigns DEF Program!Create, Program!MayCreate
<1>3. CASE Program!SetOwners(i)
  <2> DEFINE m == i.multisig
             owners == Program!ToSet(i.owners)
             n == Program!Cardinality(owners)
             threshold == IF n < multisigs[m].threshold THEN n ELSE multisigs[m].threshold
  <2>1. m \in DOMAIN multisigs
    BY <1>3 DEF Program!SetOwners, Program!MaySetOwners, Program!Governed, Program!Exists
  <2>2. multisigs' = [multisigs EXCEPT ![m].owners = owners, ![m].threshold = threshold]
    BY <1>3 DEF Program!SetOwners
  <2> HIDE DEF m, owners, threshold
  <2> QED
    BY <1>1, <2>1, <2>2, MultisigExcept
<1>4. CASE Program!SetOwnersAndChangeThreshold(i)
  BY <1>1, <1>4, MultisigExcept
  DEF Program!SetOwnersAndChangeThreshold, Program!MaySetOwnersAndChangeThreshold,
      Program!Governed, Program!Exists
<1>5. CASE Program!ChangeThreshold(i)
  BY <1>1, <1>5, MultisigExcept
  DEF Program!ChangeThreshold, Program!MayChangeThreshold, Program!Governed,
      Program!Exists
<1>6. CASE \/ Program!Propose(i) \/ Program!Approve(i) \/ Program!Execute(i)
           \/ Program!Cancel(i) \/ Program!Transfer(i)
  BY <1>1, <1>6 DEF Program!Propose, Program!Approve, Program!Execute, Program!Cancel,
     Program!Transfer
<1> QED
  BY <1>2, <1>3, <1>4, <1>5, <1>6 DEF Program!Process

(* Executions sign with the multisig's signer.                             *)
LEMMA SignerStays ==
    ASSUME BankInv, Due # << >>, Program!Process(Head(Due))
    PROVE  \A k \in DOMAIN executions' : executions'[k].signer = Signer
<1> DEFINE i == Head(Due)
           R == Program!RestOfExecutions
<1>1. Program!Ordered(i) /\ ClientsInv
  BY DEF Program!Process, BankInv
<1>2. \A k \in DOMAIN R : R[k].signer = Signer
  BY <1>1, RestShape DEF BankInv, ProgramInv
<1>3. CASE Program!Execute(i)
  <2> DEFINE new == [transaction |-> i.transaction, signer |-> multisigs[i.multisig].signer,
                     rest |-> open[i.transaction].instructions]
  <2>1. executions' = Append(R, new) /\ i.multisig \in DOMAIN multisigs
    BY <1>3 DEF Program!Execute, Program!MayExecute, Program!IsOwner, Program!Exists
  <2>2. PICK o, n : multisigs = OneMultisig(o, n)
    BY DEF BankInv, ProgramInv, IsTheMultisig
  <2>3. new.signer = Signer
    BY <2>1, <2>2 DEF OneMultisig
  <2>4. R \in Seq({R[k] : k \in DOMAIN R})
    BY <1>1, RestTyped DEF ExecutionsTyped
  <2> HIDE DEF R, new, i
  <2>5. /\ DOMAIN R = 1 .. Len(R) /\ Len(R) \in Nat
        /\ DOMAIN executions' = 1 .. Len(R) + 1
        /\ \A k \in 1 .. Len(R) : executions'[k] = R[k]
        /\ executions'[Len(R) + 1] = new
    BY <2>1, <2>4
  <2>6. ASSUME NEW k \in 1 .. Len(R) + 1 PROVE executions'[k].signer = Signer
    <3>1. k \in 1 .. Len(R) \/ k = Len(R) + 1
      BY <2>5
    <3> QED
      BY <1>2, <2>3, <2>5, <3>1
  <2> QED
    BY <2>5, <2>6
<1>4. CASE Program!Return
  BY <1>2, <1>4 DEF Program!Return
<1> HIDE DEF i, R
<1> QED
  BY <1>3, <1>4 DEF i, Program!Process, Program!Create, Program!Propose, Program!Approve,
     Program!Cancel, Program!SetOwners, Program!ChangeThreshold,
     Program!SetOwnersAndChangeThreshold, Program!Transfer

(* Only the holder of an address can propose there.                        *)
LEMMA ProcessOpens ==
    ASSUME BankInv, Due # << >>, Program!Process(Head(Due)), NEW t \in DOMAIN open' \ DOMAIN open
    PROVE  current \in Owners /\ t \in Keys(current)
<1> DEFINE i == Head(Due)
<1>1. Program!Propose(i) /\ t = i.transaction
  <2>1. CASE Program!Propose(i)
    BY <2>1 DEF Program!Propose, Program!With
  <2>2. CASE Program!Approve(i)
    BY <2>2 DEF Program!Approve
  <2>3. CASE \/ Program!Cancel(i) \/ Program!SetOwners(i)
             \/ Program!SetOwnersAndChangeThreshold(i)
    BY <2>3 DEF Program!Cancel, Program!SetOwners, Program!SetOwnersAndChangeThreshold,
       Program!Void, Program!Without, Program!Restrict
  <2>4. CASE \/ Program!Create(i) \/ Program!Execute(i) \/ Program!ChangeThreshold(i)
             \/ Program!Transfer(i)
    BY <2>4 DEF Program!Create, Program!Execute, Program!ChangeThreshold, Program!Transfer
  <2> HIDE DEF i
  <2> QED
    BY <2>1, <2>2, <2>3, <2>4 DEF i, Program!Process
<1>2. /\ i.op = "propose_transaction"
      /\ t \in TransactionAddresses /\ t \in Program!Authority
  BY <1>1 DEF Program!Propose, Program!MayPropose
<1>3. executions = << >>
  BY <1>2, VoteIsSent DEF BankInv
<1>4. t \in present
  BY <1>2, <1>3 DEF Program!Authority
<1>5. current \in Owners /\ t \in sent[current].signers
  BY <1>4, NobodyIsThere
<1> QED
  BY <1>2, <1>5 DEF BankInv, SentInv

LEMMA AcceptFits == ASSUME BankInv, Accept PROVE ProgramInv' /\ SentInv'
<1> DEFINE i == Head(Due)
<1>1. Due # << >> /\ Program!Process(i)
  BY DEF Accept
<1>2. UNCHANGED <<present, saved, sent, current, signedFor>> /\ Read' = Read
  BY <1>1 DEF Accept, Read, Program!Process, Program!Create, Program!Propose,
     Program!Approve, Program!Execute, Program!Cancel, Program!SetOwners,
     Program!ChangeThreshold, Program!SetOwnersAndChangeThreshold, Program!Transfer,
     Program!Return
<1>3. present # {}
  BY <1>1, NobodyIsThere DEF Program!Process, Program!Ordered
<1>4. ToSet(left') \subseteq ToSet(left)
  <2>1. CASE executions # << >>
    BY <2>1 DEF Accept
  <2>2. CASE executions = << >>
    <3>1. /\ left \in Seq(Vouched(signedFor, present)) /\ left # << >> /\ left' = Tail(left)
      BY <1>1, <2>2 DEF Due, Accept, BankInv, ClientsInv
    <3>2. \A k \in DOMAIN Tail(left) : k + 1 \in DOMAIN left /\ Tail(left)[k] = left[k + 1]
      BY <3>1
    <3> QED
      BY <3>1, <3>2 DEF ToSet
  <2> QED
    BY <2>1, <2>2
<1>5. /\ IsTheMultisig(multisigs') /\ IsTheMultisig(saved'[1])
      /\ \A k \in DOMAIN executions' : executions'[k].signer = Signer
  BY <1>1, <1>2, MultisigStays, SignerStays DEF BankInv, ProgramInv
<1>6. ProgramInv'
  <2>1. /\ current' \in Owners /\ sent'[current'] # Nothing
        /\ present' = sent'[current'].signers
        /\ ToSet(left') \subseteq ToSet(sent'[current'].instructions)
    BY <1>2, <1>3, <1>4, NobodyIsThere
  <2> QED
    BY <1>5, <2>1 DEF ProgramInv, Nothing
<1>7. ASSUME NEW o \in Owners, NEW t, OnItsWay(o, t) PROVE OnItsWay(o, t)'
  <2>1. ASSUME current # o PROVE t \notin DOMAIN open'
    <3>1. t \notin DOMAIN open /\ Holder[t] = o
      BY <1>7, <2>1, KeysAreHeld DEF OnItsWay
    <3>2. ASSUME t \in DOMAIN open' PROVE FALSE
      <4>1. current \in Owners /\ t \in Keys(current)
        BY <1>1, <3>1, <3>2, ProcessOpens
      <4> QED
        BY <2>1, <3>1, <4>1, KeysAreHeld
    <3> QED
      BY <3>2
  <2> QED
    BY <1>2, <1>7, <2>1 DEF OnItsWay
<1>8. SentInv'
  BY <1>2, <1>7, OthersFit
<1> QED
  BY <1>6, <1>8

LEMMA FinishFits == ASSUME BankInv, Finish PROVE ProgramInv' /\ SentInv'
<1>1. /\ executions # << >> /\ executions' = Program!Front(executions)
      /\ DOMAIN open' \subseteq DOMAIN open
      /\ UNCHANGED <<multisigs, present, saved, sent, current, left, signedFor>>
      /\ Read' = Read
  BY DEF Finish, Program!Finish, Program!Without, Program!Restrict, Read
<1>2. present # {}
  BY <1>1, NobodyIsThere
<1>3. \A k \in DOMAIN executions' : k \in DOMAIN executions /\ executions'[k] = executions[k]
  <2>1. executions \in Seq({executions[k] : k \in DOMAIN executions})
    BY DEF BankInv, ClientsInv, ExecutionsTyped
  <2>2. executions' = [k \in 1 .. Len(executions) - 1 |-> executions[k]]
    BY <1>1, <2>1 DEF Program!Front
  <2> QED
    BY <2>1, <2>2
<1>4. ProgramInv'
  <2>1. /\ IsTheMultisig(multisigs) /\ IsTheMultisig(saved[1])
        /\ \A k \in DOMAIN executions' : executions'[k].signer = Signer
    BY <1>3 DEF BankInv, ProgramInv
  <2> QED
    BY <1>1, <1>2, <2>1, NobodyIsThere DEF ProgramInv, Nothing
<1>5. ASSUME NEW o \in Owners, NEW t, OnItsWay(o, t) PROVE OnItsWay(o, t)'
  BY <1>1, <1>5 DEF OnItsWay
<1>6. SentInv'
  BY <1>1, <1>5, OthersFit
<1> QED
  BY <1>4, <1>6

LEMMA BankInit == ASSUME Init PROVE ProgramInv /\ SentInv /\ JointInv
<1>1. /\ multisigs = OneMultisig(FirstOwners, FirstThreshold) /\ open = << >>
      /\ present = {} /\ executions = << >> /\ saved = <<multisigs, open>>
      /\ sent = [o \in Owners |-> Nothing] /\ current = Nobody /\ Read = open
  BY DEF Init, OneMultisig, Read
<1>2. IsTheMultisig(multisigs) /\ IsTheMultisig(saved[1])
  BY <1>1 DEF IsTheMultisig
<1>3. ProgramInv
  BY <1>1, <1>2 DEF ProgramInv
<1>4. SentInv
  BY <1>1 DEF SentInv, IsSent, IsJoint, Nothing
<1>5. JointInv
  BY <1>1 DEF JointInv
<1> QED
  BY <1>3, <1>4, <1>5

LEMMA ClientFits ==
    ASSUME BankInv, NEW o \in Owners, Client(o)
    PROVE  ProgramInv' /\ SentInv' /\ JointInv'
<1>1. CASE \E team \in Teams : o \in team /\ ProposeSignAndExecute(o, team)
  BY <1>1, TeamFits
<1> QED
  BY <1>1, ProposeFits, ApproveFits DEF Client

LEMMA BankStep == ASSUME BankInv, [Next]_vars PROVE BankInv'
<1>1. ClientsInv'
  BY ClientsStep DEF BankInv
<1>2. CASE UNCHANGED vars
  <2>1. UNCHANGED vars /\ Read' = Read
    BY <1>2 DEF vars, Read
  <2>2. ProgramInv'
    BY <2>1 DEF vars, BankInv, ProgramInv
  <2>3. ASSUME NEW o \in Owners, NEW t, OnItsWay(o, t) PROVE OnItsWay(o, t)'
    BY <2>1, <2>3 DEF vars, OnItsWay
  <2>4. SentInv'
    BY <2>1, <2>3, OthersFit DEF vars
  <2> QED
    BY <1>1, <2>2, <2>4 DEF BankInv
<1>3. CASE Bank
  BY <1>1, <1>3, AcceptFits, FinishFits, CommitFits, RefuseFits DEF Bank, BankInv
<1>4. ASSUME NEW o \in Owners, Client(o) \/ Expire(o) \/ Deliver(o) PROVE BankInv'
  BY <1>1, <1>4, ClientFits, ExpireFits, DeliverFits DEF BankInv
<1> QED
  BY <1>2, <1>3, <1>4 DEF Next

LEMMA BankAlways == Spec => []BankInv
<1>1. Init => BankInv
  BY ClientsInit, BankInit DEF BankInv
<1>2. BankInv /\ [Next]_vars => BankInv'
  BY BankStep
<1> QED
  BY <1>1, <1>2, PTL DEF Spec

(* What clients send is made of instructions.                              *)
LEMMA VouchedIsInstruction ==
    ASSUME NEW S, NEW P, NEW i \in Vouched(S, P) PROVE IsInstruction(i, Stored)
<1>1. /\ Owners \subseteq Wallets /\ TheMultisig \in Addresses /\ Signer \in Addresses
      /\ TransactionAddresses \subseteq Addresses /\ Wallets \subseteq Addresses
  BY OwnersAreWallets, SignerIsPda DEF Addresses, KeyPairs, Pdas, Pda, Signer
<1>2. ASSUME NEW o \in Owners, NEW t \in TransactionAddresses, NEW payload \in Payloads
      PROVE  IsInstruction(ProposeIx(o, t, payload), Stored)
  <2>1. payload \in Seq(Stored)
    <3>1. ToSet(payload) \subseteq Stored
      BY DEF Stored
    <3> QED
      BY <3>1, PayloadsAreLists, SeqGrows
  <2> QED
    BY <1>1, <2>1 DEF ProposeIx, ProposeTransactionIx, IsInstruction, Flags
<1>3. ASSUME NEW o \in Owners, NEW t \in TransactionAddresses
      PROVE  /\ IsInstruction(ApproveIx(o, t), Stored)
             /\ IsInstruction(ExecuteIx(o, t), Stored)
             /\ IsInstruction(CancelTransactionIx(TheMultisig, t, o, o), Stored)
  <2>1. IsInstruction(ApproveIx(o, t), Stored)
    BY <1>1 DEF ApproveIx, ApproveTransactionIx, IsInstruction, Flags
  <2>2. IsInstruction(ExecuteIx(o, t), Stored)
    BY <1>1 DEF ExecuteIx, ExecuteTransactionIx, IsInstruction, Flags
  <2>3. IsInstruction(CancelTransactionIx(TheMultisig, t, o, o), Stored)
    BY <1>1 DEF CancelTransactionIx, IsInstruction, Flags
  <2> QED
    BY <2>1, <2>2, <2>3
<1>4. CASE i \in Proposing(S, P)
  <2>1. PICK v \in History : i = ProposeIx(v[1], v[2], v[3])
    BY <1>4 DEF Proposing
  <2> QED
    BY <1>2, <2>1 DEF History
<1>5. CASE i \in Approving(S)
  <2>1. PICK v \in History : i = ApproveIx(v[1], v[2])
    BY <1>5 DEF Approving
  <2> QED
    BY <1>3, <2>1 DEF History
<1>6. CASE i \in Closing
  BY <1>3, <1>6 DEF Closing
<1> QED
  BY <1>4, <1>5, <1>6 DEF Vouched

(* There is one multisig, proposals hold payloads at the addresses clients *)
(* generate and are approved by owners, what clients send is made of the   *)
(* instructions of src/ts/instructions and signed by key pairs, and some-  *)
(* body signs exactly while a transaction is being processed               *)
(* (multisigDsl.ts, createAndProcessTx).                                   *)
THEOREM ClientsTypeCorrect == Spec => []ClientsTypeOK
<1>1. BankInv => ClientsTypeOK
  <2> SUFFICES ASSUME BankInv PROVE ClientsTypeOK
    OBVIOUS
  <2>1. DOMAIN multisigs = {TheMultisig}
    BY DEF BankInv, ProgramInv, IsTheMultisig, OneMultisig
  <2>2. DOMAIN open \subseteq TransactionAddresses /\ \A t \in DOMAIN open : open[t] \in Proposals
    BY DEF BankInv, ClientsInv, Informed
  <2>3. /\ present \subseteq KeyPairs /\ current \in Owners \cup {Nobody}
        /\ current = Nobody <=> present = {}
    BY NobodyIsThere, OwnersAreWallets DEF KeyPairs
  <2>4. ASSUME NEW o \in Owners
        PROVE  /\ sent[o].signers \subseteq KeyPairs
               /\ \A k \in DOMAIN sent[o].instructions :
                     IsInstruction(sent[o].instructions[k], Stored)
    <3>1. /\ sent[o].signers \subseteq Owners \cup TransactionAddresses
          /\ sent[o].instructions \in Seq(Vouched(signedFor, {}))
      BY DEF BankInv, ClientsInv, SentTyped, Sendable
    <3>2. \A k \in DOMAIN sent[o].instructions :
             sent[o].instructions[k] \in Vouched(signedFor, {})
      BY <3>1
    <3> QED
      BY <3>1, <3>2, VouchedIsInstruction, OwnersAreWallets DEF KeyPairs
  <2>5. DOMAIN sent = Owners
    BY DEF BankInv, ClientsInv, SentTyped
  <2> QED
    BY <2>1, <2>2, <2>3, <2>4, <2>5 DEF ClientsTypeOK, BankInv, ClientsInv, History
<1> QED
  BY <1>1, BankAlways, PTL

-----------------------------------------------------------------------------
(* The transaction of a team, step by step.                                *)

LEMMA Dispatch ==
    ASSUME NEW i, Program!Process(i)
    PROVE  /\ i.op = "propose_transaction" => Program!Propose(i)
           /\ i.op = "approve_transaction" => Program!Approve(i)
           /\ i.op = "execute_transaction" => Program!Execute(i)
           /\ Plain(i) => Program!Return
<1> DEFINE Ops == {"create_multisig", "cancel_transaction", "set_owners",
                   "change_threshold", "set_owners_and_change_threshold", "transfer"}
<1>1. /\ Program!Propose(i) => i.op = "propose_transaction"
      /\ Program!Approve(i) => i.op = "approve_transaction"
      /\ Program!Execute(i) => i.op = "execute_transaction"
  BY DEF Program!Propose, Program!MayPropose, Program!Approve, Program!MayApprove,
     Program!Execute, Program!MayExecute
<1>2. ASSUME \/ Program!Create(i) \/ Program!Cancel(i) \/ Program!SetOwners(i)
             \/ Program!ChangeThreshold(i) \/ Program!SetOwnersAndChangeThreshold(i)
             \/ Program!Transfer(i)
      PROVE  i.op \in Ops /\ Program!Return
  BY <1>2 DEF Program!Create, Program!MayCreate, Program!Cancel, Program!MayCancel,
     Program!SetOwners, Program!MaySetOwners, Program!ChangeThreshold,
     Program!MayChangeThreshold, Program!SetOwnersAndChangeThreshold,
     Program!MaySetOwnersAndChangeThreshold, Program!Transfer, Program!MayTransfer
<1>3. Plain(i) => i.op \in Ops
  BY DEF Plain
<1> QED
  BY <1>1, <1>2, <1>3 DEF Program!Process

LEMMA VotesStep ==
    ASSUME NEW V, NEW rest \in Seq(V), NEW voters, NEW o, NEW t, NEW team,
           Votes(rest, voters, o, t, team), Len(rest) # 1
    PROVE  \E a \in team : /\ Head(rest) = ApproveIx(a, t)
                           /\ Votes(Tail(rest), voters \cup {a}, o, t, team)
<1> DEFINE n == Len(rest)
           tail == Tail(rest)
<1>1. /\ n \in Nat \ {0, 1} /\ Head(rest) = rest[1] /\ tail # << >>
      /\ Len(tail) = n - 1 /\ \A k \in 1 .. n - 1 : tail[k] = rest[k + 1]
  <2>1. rest # << >>
    BY DEF Votes
  <2>2. n \in Nat \ {0, 1} /\ Head(rest) = rest[1]
    BY <2>1
  <2>3. tail \in Seq(V) /\ Len(tail) = n - 1
    BY <2>1
  <2>4. \A k \in 1 .. n - 1 : tail[k] = rest[k + 1]
    BY <2>1
  <2>5. tail # << >>
    <3> HIDE DEF tail, n
    <3> QED
      BY <2>2, <2>3
  <2> QED
    BY <2>2, <2>3, <2>4, <2>5
<1>2. /\ rest[n] = ExecuteIx(o, t)
      /\ \A k \in 1 .. n - 1 : \E a \in team : rest[k] = ApproveIx(a, t)
      /\ \A a \in team \ voters : \E k \in 1 .. n - 1 : rest[k] = ApproveIx(a, t)
  BY DEF Votes, Last
<1> HIDE DEF n, tail
<1>3. 1 \in 1 .. n - 1
  BY <1>1
<1>4. PICK a \in team : rest[1] = ApproveIx(a, t)
  BY <1>2, <1>3
<1>5. tail[Len(tail)] = ExecuteIx(o, t)
  BY <1>1, <1>2
<1>6. ASSUME NEW k \in 1 .. Len(tail) - 1 PROVE \E b \in team : tail[k] = ApproveIx(b, t)
  <2>1. k \in 1 .. n - 1 /\ k + 1 \in 1 .. n - 1
    BY <1>1
  <2> QED
    BY <1>1, <1>2, <2>1
<1>7. ASSUME NEW b \in team \ (voters \cup {a})
      PROVE  \E k \in 1 .. Len(tail) - 1 : tail[k] = ApproveIx(b, t)
  <2>1. PICK k \in 1 .. n - 1 : rest[k] = ApproveIx(b, t)
    BY <1>2
  <2>2. ApproveIx(a, t) # ApproveIx(b, t)
    BY DEF ApproveIx, ApproveTransactionIx
  <2>3. k # 1
    BY <1>4, <2>1, <2>2
  <2>4. k - 1 \in 1 .. Len(tail) - 1 /\ k - 1 \in 1 .. n - 1 /\ k - 1 + 1 = k
    BY <1>1, <2>3
  <2>5. tail[k - 1] = ApproveIx(b, t)
    BY <1>1, <2>1, <2>4
  <2> QED
    BY <2>4, <2>5
<1>8. Votes(tail, voters \cup {a}, o, t, team)
  BY <1>1, <1>5, <1>6, <1>7 DEF Votes, Last
<1> QED
  BY <1>1, <1>4, <1>8 DEF tail

LEMMA VotesEnd ==
    ASSUME NEW V, NEW rest \in Seq(V), NEW voters, NEW o, NEW t, NEW team,
           Votes(rest, voters, o, t, team), Len(rest) = 1
    PROVE  Head(rest) = ExecuteIx(o, t) /\ Tail(rest) = << >> /\ team \subseteq voters
<1>1. rest[1] = ExecuteIx(o, t) /\ \A a \in team \ voters : \E k \in 1 .. 1 - 1 : TRUE
  BY DEF Votes, Last
<1>2. Head(rest) = rest[1] /\ Tail(rest) = << >>
  <2>1. rest # << >>
    BY DEF Votes
  <2>2. Tail(rest) \in Seq(V) /\ Len(Tail(rest)) = 0
    BY <2>1
  <2>3. Tail(rest) = << >>
    BY <2>2, EmptySeq
  <2> QED
    BY <2>1, <2>3
<1> QED
  BY <1>1, <1>2

LEMMA TeamProposes ==
    ASSUME BankInv, Accept, NEW t, NEW payload, NEW team, current \in team,
           Joint(sent[current], current, t, payload, team),
           left = sent[current].instructions, executions = << >>, multisigs = saved[1]
    PROVE  Stage(t, payload, team)'
<1> DEFINE i == Head(left)
<1>1. i = ProposeIx(current, t, payload) /\ Votes(Tail(left), {current}, current, t, team)
  BY DEF Joint
<1>2. /\ i.op = "propose_transaction" /\ i.transaction = t /\ i.multisig = TheMultisig
      /\ i.proposer = current /\ i.instructions = payload
  BY <1>1 DEF ProposeIx, ProposeTransactionIx
<1>3. /\ Program!Process(i) /\ left' = Tail(left) /\ current' = current
  BY DEF Accept, Due
<1> HIDE DEF i
<1>4. Program!Propose(i)
  BY <1>2, <1>3, Dispatch
<1>5. /\ open' = Program!With(open, t, Program!NewProposal(i))
      /\ executions' = << >> /\ multisigs' = multisigs /\ saved' = saved
  BY <1>2, <1>4 DEF Program!Propose, Program!Return, Program!RestOfExecutions
<1>6. /\ t \in DOMAIN open' /\ open'[t].instructions = payload
      /\ open'[t].approvals = {current}
  BY <1>2, <1>5 DEF Program!With, Program!NewProposal
<1> QED
  BY <1>1, <1>3, <1>5, <1>6 DEF Stage, Votes

LEMMA TeamVotes ==
    ASSUME BankInv, Accept, NEW t, NEW payload, NEW team, executions = << >>,
           multisigs = saved[1], t \in DOMAIN open, open[t].instructions = payload,
           open[t].approvals \subseteq team,
           Votes(left, open[t].approvals, current, t, team)
    PROVE  Stage(t, payload, team)'
<1> DEFINE i == Head(left)
           voters == open[t].approvals
<1>1. /\ Program!Process(i) /\ left' = Tail(left) /\ current' = current
      /\ left \in Seq(Vouched(signedFor, present))
  BY DEF Accept, Due, BankInv, ClientsInv
<1>2. CASE Len(left) # 1
  <2>1. PICK a \in team : i = ApproveIx(a, t) /\ Votes(Tail(left), voters \cup {a}, current, t, team)
    BY <1>1, <1>2, VotesStep
  <2>2. i.op = "approve_transaction" /\ i.transaction = t /\ i.approver = a
    BY <2>1 DEF ApproveIx, ApproveTransactionIx
  <2> HIDE DEF i
  <2>3. Program!Approve(i)
    BY <1>1, <2>2, Dispatch
  <2>4. /\ open' = [open EXCEPT ![t] = [open[t] EXCEPT !.approvals = @ \cup {a}]]
        /\ executions' = << >> /\ multisigs' = multisigs /\ saved' = saved
    BY <2>2, <2>3 DEF Program!Approve, Program!Return, Program!RestOfExecutions
  <2>5. open[t] \in Proposals
    BY DEF BankInv, ClientsInv, Informed
  <2>6. /\ t \in DOMAIN open' /\ open'[t].instructions = payload
        /\ open'[t].approvals = voters \cup {a}
    BY <2>4, <2>5, ApprovalsExcept
  <2> HIDE DEF voters
  <2>7. open'[t].approvals \subseteq team
    BY <2>6 DEF voters
  <2> QED
    BY <1>1, <2>1, <2>4, <2>6, <2>7 DEF Stage, Votes
<1>3. CASE Len(left) = 1
  <2>1. i = ExecuteIx(current, t) /\ Tail(left) = << >>
    BY <1>1, <1>3, VotesEnd
  <2>2. i.op = "execute_transaction" /\ i.transaction = t
    BY <2>1 DEF ExecuteIx, ExecuteTransactionIx
  <2> HIDE DEF i
  <2>3. Program!Execute(i)
    BY <1>1, <2>2, Dispatch
  <2>4. executions' = Append(<< >>, [transaction |-> t, signer |-> multisigs[i.multisig].signer,
                                     rest |-> payload])
    BY <2>2, <2>3 DEF Program!Execute, Program!RestOfExecutions
  <2>5. \A k \in DOMAIN executions' : ToSet(executions'[k].rest) \subseteq ToSet(payload)
    BY <2>4
  <2> QED
    BY <1>1, <2>1, <2>5 DEF Stage
<1> QED
  BY <1>2, <1>3

(* What the innermost execution does next is of the payload.               *)
LEMMA PayloadIsDue ==
    ASSUME BankInv, NEW payload, executions # << >>, Due # << >>,
           \A k \in DOMAIN executions : ToSet(executions[k].rest) \subseteq ToSet(payload)
    PROVE  Head(Due) \in ToSet(payload)
<1>1. Len(executions) \in DOMAIN executions
  BY DEF BankInv, ClientsInv, ExecutionsTyped
<1>2. Due \in Seq(Stored) /\ ToSet(Due) \subseteq ToSet(payload)
  BY <1>1 DEF Due, Last, BankInv, ClientsInv, ExecutionsTyped, IsExecution
<1>3. Head(Due) = Due[1] /\ 1 \in DOMAIN Due
  BY <1>2
<1> QED
  BY <1>2, <1>3 DEF ToSet

LEMMA TeamExecutes ==
    ASSUME PlainPayloads, BankInv, Accept, NEW t, NEW payload \in Payloads, NEW team,
           left = << >>,
           \A k \in DOMAIN executions : ToSet(executions[k].rest) \subseteq ToSet(payload)
    PROVE  Stage(t, payload, team)'
<1> DEFINE i == Head(Due)
           R == Program!RestOfExecutions
<1>1. Due # << >> /\ Program!Process(i) /\ Program!Ordered(i) /\ executions # << >>
  BY DEF Accept, Due, Program!Process
<1>2. i \in ToSet(payload)
  BY <1>1, PayloadIsDue
<1>3. Plain(i)
  BY <1>2 DEF PlainPayloads, ToSet
<1>4. executions' = R /\ left' = << >>
  BY <1>1, <1>3, Dispatch DEF Program!Return, Accept
<1>5. /\ DOMAIN R = DOMAIN executions
      /\ \A k \in DOMAIN executions :
            \/ R[k].rest = executions[k].rest
            \/ k = Len(executions) /\ R[k].rest = Tail(executions[k].rest)
  BY <1>1, RestShape DEF BankInv
<1>6. Due \in Seq(Stored) /\ Due = executions[Len(executions)].rest
  <2>1. Len(executions) \in DOMAIN executions
    BY <1>1 DEF BankInv, ClientsInv, ExecutionsTyped
  <2> QED
    BY <1>1, <2>1 DEF Due, Last, BankInv, ClientsInv, ExecutionsTyped, IsExecution
<1>7. ToSet(Tail(Due)) \subseteq ToSet(Due)
  <2>1. \A k \in DOMAIN Tail(Due) : k + 1 \in DOMAIN Due /\ Tail(Due)[k] = Due[k + 1]
    BY <1>1, <1>6
  <2> QED
    BY <2>1 DEF ToSet
<1> HIDE DEF R, i
<1>8. ASSUME NEW k \in DOMAIN executions' PROVE ToSet(executions'[k].rest) \subseteq ToSet(payload)
  <2>1. k \in DOMAIN executions /\ ToSet(executions[k].rest) \subseteq ToSet(payload)
    BY <1>4, <1>5
  <2>2. CASE executions'[k].rest = executions[k].rest
    BY <2>1, <2>2
  <2>3. CASE k = Len(executions) /\ executions'[k].rest = Tail(executions[k].rest)
    BY <1>6, <1>7, <2>1, <2>3
  <2> QED
    BY <1>4, <1>5, <2>1, <2>2, <2>3
<1> QED
  BY <1>4, <1>8 DEF Stage

LEMMA JointAccept == ASSUME PlainPayloads, BankInv, JointInv, Accept PROVE JointInv'
<1>1. current' = current /\ sent' = sent
  BY DEF Accept
<1> SUFFICES ASSUME current # Nobody, Len(sent[current].instructions) > 1
             PROVE  \E t \in TransactionAddresses, payload \in Payloads, team \in Teams :
                       /\ current \in team /\ Joint(sent[current], current, t, payload, team)
                       /\ Stage(t, payload, team)'
  BY <1>1 DEF JointInv, Joint, Votes
<1>2. PICK t \in TransactionAddresses, payload \in Payloads, team \in Teams :
         /\ current \in team /\ Joint(sent[current], current, t, payload, team)
         /\ Stage(t, payload, team)
  BY DEF JointInv
<1>3. Stage(t, payload, team)'
  BY <1>2, TeamProposes, TeamVotes, TeamExecutes DEF Stage
<1> QED
  BY <1>2, <1>3

LEMMA JointFinish == ASSUME BankInv, JointInv, Finish PROVE JointInv'
<1>1. /\ executions # << >> /\ executions' = Program!Front(executions)
      /\ UNCHANGED <<sent, current, left>>
  BY DEF Finish, Program!Finish
<1>2. \A k \in DOMAIN executions' : k \in DOMAIN executions /\ executions'[k] = executions[k]
  <2>1. executions \in Seq({executions[k] : k \in DOMAIN executions})
    BY DEF BankInv, ClientsInv, ExecutionsTyped
  <2>2. executions' = [k \in 1 .. Len(executions) - 1 |-> executions[k]]
    BY <1>1, <2>1 DEF Program!Front
  <2> QED
    BY <2>1, <2>2
<1> SUFFICES ASSUME current # Nobody, Len(sent[current].instructions) > 1
             PROVE  \E t \in TransactionAddresses, payload \in Payloads, team \in Teams :
                       /\ current \in team /\ Joint(sent[current], current, t, payload, team)
                       /\ Stage(t, payload, team)'
  BY <1>1 DEF JointInv, Joint, Votes
<1>3. PICK t \in TransactionAddresses, payload \in Payloads, team \in Teams :
         /\ current \in team /\ Joint(sent[current], current, t, payload, team)
         /\ Stage(t, payload, team)
  BY DEF JointInv
<1>4. Stage(t, payload, team)'
  <2>1. /\ left = << >>
        /\ \A k \in DOMAIN executions : ToSet(executions[k].rest) \subseteq ToSet(payload)
    BY <1>1, <1>3 DEF Stage
  <2> QED
    BY <1>1, <1>2, <2>1 DEF Stage
<1> QED
  BY <1>3, <1>4

LEMMA JointStep ==
    ASSUME PlainPayloads, BankInv, JointInv, [Next]_vars PROVE JointInv'
<1>1. CASE UNCHANGED vars
  <2>1. UNCHANGED vars /\ Read' = Read
    BY <1>1 DEF vars, Read
  <2> QED
    BY <2>1 DEF vars, JointInv, Joint, Stage, Votes
<1>2. CASE Bank
  BY <1>2, JointAccept, JointFinish, CommitFits, RefuseFits DEF Bank
<1>3. ASSUME NEW o \in Owners, Client(o) \/ Expire(o) \/ Deliver(o) PROVE JointInv'
  BY <1>3, ClientFits, ExpireFits, DeliverFits
<1> QED
  BY <1>1, <1>2, <1>3 DEF Next

-----------------------------------------------------------------------------
(* Each step of a team that is a quorum is acceptable.                     *)

LEMMA SameCounts ==
    ASSUME NEW S
    PROVE  Program!Cardinality(S) = Cardinality(S) /\ Program!ToSet(S) = ToSet(S)
BY DEF Program!Cardinality, Cardinality, Program!ToSet, ToSet

LEMMA TeamMayPropose ==
    ASSUME PlainPayloads, BankInv, NEW t \in TransactionAddresses, NEW payload \in Payloads,
           NEW team, current \in team, Joint(sent[current], current, t, payload, team),
           team \subseteq multisigs[TheMultisig].owners, TheMultisig \in DOMAIN multisigs,
           present = team \cup {t}, current \in Owners,
           Len(sent[current].instructions) > 1,
           left = sent[current].instructions, executions = << >>, open = Read
    PROVE  Program!Acceptable(Head(left))
<1> DEFINE i == Head(left)
<1>1. i = ProposeIx(current, t, payload)
  BY DEF Joint
<1>2. /\ i.op = "propose_transaction" /\ i.transaction = t /\ i.multisig = TheMultisig
      /\ i.proposer = current /\ i.instructions = payload
  BY <1>1 DEF ProposeIx, ProposeTransactionIx
<1>3. t \notin DOMAIN open
  BY JointAddress DEF BankInv, SentInv, IsJoint, OnItsWay
<1>4. payload # << >>
  BY DEF PlainPayloads
<1> HIDE DEF i
<1>5. Program!MayPropose(i)
  BY <1>2, <1>3, <1>4 DEF Program!MayPropose, Program!IsOwner, Program!Exists,
     Program!Authority, Program!IsOpen
<1> QED
  BY <1>5 DEF Program!Acceptable, Program!Ordered, i

LEMMA TeamMayVote ==
    ASSUME BankInv, NEW t, NEW team, current \in team,
           team \subseteq multisigs[TheMultisig].owners, TheMultisig \in DOMAIN multisigs,
           Cardinality(team) >= multisigs[TheMultisig].threshold,
           present = team \cup {t}, executions = << >>, t \in DOMAIN open,
           open[t].approvals \subseteq team,
           Votes(left, open[t].approvals, current, t, team)
    PROVE  Program!Acceptable(Head(left))
<1> DEFINE i == Head(left)
<1>1. left \in Seq(Vouched(signedFor, present)) /\ open[t].multisig = TheMultisig
  BY DEF BankInv, ClientsInv, Informed, Proposals
<1>2. Program!Ordered(i)
  BY DEF Program!Ordered
<1>3. CASE Len(left) # 1
  <2>1. PICK a \in team :
           /\ i = ApproveIx(a, t)
           /\ Votes(Tail(left), open[t].approvals \cup {a}, current, t, team)
    BY <1>1, <1>3, VotesStep
  <2>2. /\ i.op = "approve_transaction" /\ i.transaction = t
        /\ i.multisig = TheMultisig /\ i.approver = a
    BY <2>1 DEF ApproveIx, ApproveTransactionIx
  <2> HIDE DEF i
  <2>3. Program!MayApprove(i)
    BY <1>1, <2>2 DEF Program!MayApprove, Program!IsOwner, Program!Exists,
       Program!Authority, Program!IsOpen
  <2> QED
    BY <1>2, <2>3 DEF Program!Acceptable, i
<1>4. CASE Len(left) = 1
  <2>1. i = ExecuteIx(current, t) /\ team \subseteq open[t].approvals
    BY <1>1, <1>4, VotesEnd
  <2>2. /\ i.op = "execute_transaction" /\ i.transaction = t
        /\ i.multisig = TheMultisig /\ i.executor = current
    BY <2>1 DEF ExecuteIx, ExecuteTransactionIx
  <2>3. open[t].approvals = team
    BY <2>1
  <2> HIDE DEF i
  <2>4. Program!Approved(t)
    BY <1>1, <2>3, SameCounts DEF Program!Approved
  <2>5. Program!MayExecute(i)
    BY <1>1, <2>2, <2>4 DEF Program!MayExecute, Program!IsOwner, Program!Exists,
       Program!Authority, Program!IsOpen
  <2> QED
    BY <1>2, <2>5 DEF Program!Acceptable, i
<1> QED
  BY <1>3, <1>4

LEMMA PayloadMayRun ==
    ASSUME PlainPayloads, BankInv, NEW payload \in Payloads, NEW team,
           \A k \in DOMAIN payload : payload[k].signed \subseteq team \cup {Signer},
           team \subseteq present, executions # << >>, Due # << >>,
           \A k \in DOMAIN executions : ToSet(executions[k].rest) \subseteq ToSet(payload)
    PROVE  Program!Acceptable(Head(Due))
<1> DEFINE i == Head(Due)
<1>1. i \in ToSet(payload)
  BY PayloadIsDue
<1>2. Plain(i) /\ i.signed \subseteq team \cup {Signer}
  BY <1>1 DEF PlainPayloads, ToSet
<1>3. Len(executions) \in DOMAIN executions
  BY DEF BankInv, ClientsInv, ExecutionsTyped
<1>4. team \cup {Signer} \subseteq Program!Authority
  BY <1>3 DEF BankInv, ProgramInv, Program!Authority
<1>5. Program!Ordered(i)
  BY DEF Due, Program!Ordered, Program!Last, Last
<1>6. PICK o, n : multisigs = OneMultisig(o, n)
  BY DEF BankInv, ProgramInv, IsTheMultisig
<1>7. TheMultisig \in DOMAIN multisigs /\ multisigs[TheMultisig].signer = Signer
  BY <1>6 DEF OneMultisig
<1> HIDE DEF i
<1>8. i.multisig = TheMultisig => Program!Governed(i)
  BY <1>4, <1>7 DEF Program!Governed, Program!Exists
<1>9. CASE i.op = "transfer"
  <2>1. Program!MayTransfer(i)
    BY <1>2, <1>4, <1>9 DEF Plain, Program!MayTransfer
  <2> QED
    BY <1>5, <2>1 DEF Program!Acceptable, i
<1>10. CASE i.op = "set_owners"
  <2>1. Program!MaySetOwners(i)
    BY <1>2, <1>8, <1>10 DEF Plain, Program!MaySetOwners
  <2> QED
    BY <1>5, <2>1 DEF Program!Acceptable, i
<1>11. CASE i.op = "set_owners_and_change_threshold"
  <2>1. Program!MaySetOwnersAndChangeThreshold(i)
    BY <1>2, <1>8, <1>11, SameCounts DEF Plain, Program!MaySetOwnersAndChangeThreshold
  <2> QED
    BY <1>5, <2>1 DEF Program!Acceptable, i
<1> QED
  BY <1>2, <1>9, <1>10, <1>11 DEF Plain, i

(* A transaction in which a quorum of owners proposes, approves and        *)
(* executes is never refused, whatever else is in flight, if the payload   *)
(* needs no other signature and holds payments and changes of the owners:  *)
(* a stolen key cannot block it by cancelling (README.md, cancel).         *)
THEOREM JointNeverRefused == PlainPayloads => (Spec => []JointIsNeverRefused)
<1> SUFFICES ASSUME PlainPayloads PROVE Spec => []JointIsNeverRefused
  OBVIOUS
<1>1. Init => BankInv /\ JointInv
  BY ClientsInit, BankInit DEF BankInv
<1>2. BankInv /\ JointInv /\ [Next]_vars => BankInv' /\ JointInv'
  BY BankStep, JointStep
<1>3. BankInv /\ JointInv => JointIsNeverRefused
  <2> SUFFICES ASSUME BankInv, JointInv, JointByQuorum, Due # << >>
               PROVE  Program!Acceptable(Head(Due))
    BY DEF JointIsNeverRefused, Refused
  <2>1. current # Nobody /\ Len(sent[current].instructions) > 1
    BY DEF JointByQuorum
  <2>2. PICK t \in TransactionAddresses, payload \in Payloads, team \in Teams :
           /\ current \in team /\ Joint(sent[current], current, t, payload, team)
           /\ Stage(t, payload, team)
    BY <2>1 DEF JointInv
  <2>3. present = team \cup {t} /\ current \in Owners
    BY <2>1, <2>2, NobodyIsThere DEF Joint
  <2>4. sent[current].signers \cap Owners = team
    BY <2>2, TeamsAreOwners, OwnersAreWallets, AddressSpacesDisjoint DEF Joint
  <2>5. /\ team \subseteq saved[1][TheMultisig].owners
        /\ Cardinality(team) >= saved[1][TheMultisig].threshold
        /\ \A k \in DOMAIN payload : payload[k].signed \subseteq team \cup {Signer}
    <3>1. Head(sent[current].instructions).instructions = payload
      BY <2>2 DEF Joint, ProposeIx, ProposeTransactionIx
    <3> QED
      BY <2>4, <3>1 DEF JointByQuorum
  <2>6. TheMultisig \in DOMAIN multisigs
    BY DEF BankInv, ProgramInv, IsTheMultisig, OneMultisig
  <2>7. executions = << >> => Due = left
    BY DEF Due
  <2>8. CASE /\ left = sent[current].instructions /\ executions = << >>
             /\ multisigs = saved[1] /\ open = Read
    BY <2>1, <2>2, <2>3, <2>5, <2>6, <2>7, <2>8, TeamMayPropose
  <2>9. CASE /\ executions = << >> /\ multisigs = saved[1] /\ t \in DOMAIN open
             /\ open[t].approvals \subseteq team
             /\ Votes(left, open[t].approvals, current, t, team)
    BY <2>2, <2>3, <2>5, <2>6, <2>7, <2>9, TeamMayVote
  <2>10. CASE /\ left = << >>
              /\ \A k \in DOMAIN executions :
                    ToSet(executions[k].rest) \subseteq ToSet(payload)
    BY <2>3, <2>5, <2>7, <2>10, PayloadMayRun
  <2> QED
    BY <2>2, <2>8, <2>9, <2>10 DEF Stage
<1> QED
  BY <1>1, <1>2, <1>3, PTL DEF Spec

=============================================================================
