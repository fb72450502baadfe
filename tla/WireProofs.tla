----------------------------- MODULE WireProofs -----------------------------
(***************************************************************************)
(* The three invariants of module Wire, for every value of its constants.  *)
(* Each struct is read back and takes the bytes that len computes; so the  *)
(* space of an account is that of its data in every state, and what is in  *)
(* it is Serialized(account) (DataInv), for which the numbers must fit the *)
(* u32 they are written as (FitsInv). An instruction arrives because its   *)
(* builder and its handler agree on order and layout.                      *)
(***************************************************************************)
EXTENDS Wire, MultisigProofs, BorshProofs

-----------------------------------------------------------------------------
(* The structs.                                                            *)

(* A Pubkey takes 32 bytes.                                                *)
LEMMA PubkeyTrips ==
    ASSUME NEW v \in Pubkey.values
    PROVE  Trips(Pubkey, v) /\ Len(Pubkey.write[v]) = 32
<1>1. v \in [1 .. 32 -> Byte] /\ Pubkey = Array(32)
  BY DEF Pubkey, Array, PubkeyBytes
<1>2. Array(32).write[v] = v
  BY <1>1 DEF Array
<1>3. Len(v) = 32
  BY <1>1
<1> QED
  BY <1>1, <1>2, <1>3, ArrayTrips

(* A bool takes one byte.                                                  *)
LEMMA FlagTrips ==
    ASSUME NEW v \in BOOLEAN
    PROVE  Trips(Bool, v) /\ Len(Bool.write[v]) = 1
BY BoolTrips DEF Bool

(* A u8 takes one byte.                                                    *)
LEMMA NumberTrips ==
    ASSUME NEW v \in Byte
    PROVE  Trips(U8Format, v) /\ Len(U8Format.write[v]) = 1
BY U8Trips DEF U8Format

(* A u32 takes four bytes.                                                 *)
LEMMA SeqnoTrips ==
    ASSUME NEW v \in Nat, FitsU32(v)
    PROVE  Trips(U32Format, v) /\ Len(U32Format.write[v]) = 4
BY U32Trips, FourBytes DEF U32Format

(* A Vec<u8>.                                                              *)
LEMMA BytesTrip ==
    ASSUME NEW v \in Seq(Byte), FitsU32(Len(v))
    PROVE  /\ Trips(VecOf(U8Format), v)
           /\ Len(VecOf(U8Format).write[v]) = 4 + Len(v)
<1> DEFINE n == Len(v)
<1>1. n \in Nat /\ DOMAIN v = 1 .. n /\ \A k \in 1 .. n : v[k] \in Byte
  OBVIOUS
<1>2. U8Format.values = Byte
  BY DEF U8Format
<1>3. AllTrip(U8Format, v, n) /\ AllHave(U8Format, v, n, 1)
  BY <1>1, NumberTrips DEF AllTrip, AllHave
<1>4. Len(VecOf(U8Format).write[v]) = 4 + n * 1
  <2>1. Len(v) = n
    OBVIOUS
  <2> HIDE DEF n
  <2> QED
    BY <1>1, <1>2, <1>3, <2>1, VecLength
<1>5. Trips(VecOf(U8Format), v)
  BY <1>1, <1>2, <1>3, VecTrips DEF AllTrip
<1> QED
  BY <1>1, <1>4, <1>5

(* TransactionInstructionAccount takes 34 bytes: 32 + 1 + 1 in len.        *)
LEMMA AccountTrips ==
    ASSUME NEW v \in [pubkey : Pubkey.values, is_signer : BOOLEAN, is_writable : BOOLEAN]
    PROVE  /\ Trips(TransactionInstructionAccount, v)
           /\ Len(TransactionInstructionAccount.write[v]) = 34
<1> DEFINE S == [pubkey : Pubkey.values, is_signer : BOOLEAN, is_writable : BOOLEAN]
           F == Fields3("pubkey", Pubkey, "is_signer", Bool, "is_writable", Bool)
           struct == StructOf(S, F)
<1>1. TransactionInstructionAccount = struct
  BY DEF TransactionInstructionAccount, Fields3
<1>2. /\ Trips(Pubkey, v["pubkey"]) /\ Len(Pubkey.write[v["pubkey"]]) = 32
      /\ Trips(Bool, v["is_signer"]) /\ Len(Bool.write[v["is_signer"]]) = 1
      /\ Trips(Bool, v["is_writable"]) /\ Len(Bool.write[v["is_writable"]]) = 1
  BY PubkeyTrips, FlagTrips
<1>3. HasFields3(v, "pubkey", "is_signer", "is_writable")
  BY DEF HasFields3
<1>4. v \in S
  OBVIOUS
<1> HIDE DEF S
<1>5. Trips(struct, v)
  BY <1>2, <1>3, <1>4, Struct3
<1>6. Len(struct.write[v]) = Total3(Pubkey.write[v["pubkey"]],
           Bool.write[v["is_signer"]],
           Bool.write[v["is_writable"]])
  BY <1>2, <1>3, <1>4, Struct3
<1> QED
  BY <1>1, <1>2, <1>5, <1>6 DEF Total3

(* The accounts of an instruction.                                         *)
LEMMA AccountsTrip ==
    ASSUME NEW v \in Accounts.values, FitsU32(Len(v))
    PROVE  Trips(Accounts, v) /\ Len(Accounts.write[v]) = 4 + Len(v) * 34
<1> DEFINE n == Len(v)
           F == TransactionInstructionAccount
           S == [pubkey : Pubkey.values, is_signer : BOOLEAN, is_writable : BOOLEAN]
<1>1. F.values = S
  BY DEF TransactionInstructionAccount, StructOf
<1>2. v \in Seq(F.values) /\ Accounts = VecOf(F)
  BY DEF Accounts, VecOf
<1> HIDE DEF F
<1>3. n \in Nat /\ DOMAIN v = 1 .. n /\ \A k \in 1 .. n : v[k] \in S
  <2>1. v \in Seq(S)
    BY <1>1, <1>2
  <2> HIDE DEF S
  <2>2. n \in Nat /\ DOMAIN v = 1 .. n /\ \A k \in 1 .. n : v[k] \in S
    BY <2>1
  <2> QED
    BY <2>2 DEF S
<1>4. AllTrip(F, v, n) /\ AllHave(F, v, n, 34)
  BY <1>3, AccountTrips DEF AllTrip, AllHave, F
<1>5. Trips(VecOf(F), v)
  BY <1>2, <1>3, <1>4, VecTrips DEF AllTrip
<1>6. Len(VecOf(F).write[v]) = 4 + n * 34
  <2>1. Len(v) = n /\ 34 \in Nat
    OBVIOUS
  <2> HIDE DEF n
  <2> QED
    BY <1>2, <1>3, <1>4, <2>1, VecLength
<1> QED
  BY <1>2, <1>5, <1>6

(* What the program and the client agree on the bytes of.                  *)
Encodable(d) == FitsU32(Len(d.accounts)) /\ FitsU32(Len(d.data))

(* A stored instruction takes the bytes that                               *)
(* TransactionInstructionData::len says.                                   *)
LEMMA InstructionDataTrips ==
    ASSUME NEW d \in TransactionInstructionData.values, Encodable(d)
    PROVE  /\ Trips(TransactionInstructionData, d)
           /\ Len(TransactionInstructionData.write[d]) = InstructionLen(d)
           /\ InstructionLen(d) \in Nat
<1> DEFINE S == [program_id : Pubkey.values, accounts : Accounts.values, data : Seq(Byte)]
           F == Fields3("program_id", Pubkey, "accounts", Accounts, "data", VecOf(U8Format))
           struct == StructOf(S, F)
<1>1. TransactionInstructionData = struct
  BY DEF TransactionInstructionData, Fields3
<1>2. d \in S
  BY DEF TransactionInstructionData, StructOf
<1>3. /\ Trips(Pubkey, d["program_id"]) /\ Len(Pubkey.write[d["program_id"]]) = 32
      /\ Trips(Accounts, d["accounts"])
      /\ Len(Accounts.write[d["accounts"]]) = 4 + Len(d.accounts) * 34
      /\ Trips(VecOf(U8Format), d["data"])
      /\ Len(VecOf(U8Format).write[d["data"]]) = 4 + Len(d.data)
  BY <1>2, PubkeyTrips, AccountsTrip, BytesTrip DEF Encodable
<1>4. HasFields3(d, "program_id", "accounts", "data")
  BY <1>2 DEF HasFields3
<1>5. Len(d.accounts) \in Nat /\ Len(d.data) \in Nat
  BY <1>2 DEF Accounts, VecOf
<1> HIDE DEF S
<1>6. Trips(struct, d)
  BY <1>2, <1>3, <1>4, Struct3
<1>7. Len(struct.write[d]) = Total3(Pubkey.write[d["program_id"]],
           Accounts.write[d["accounts"]],
           VecOf(U8Format).write[d["data"]])
  BY <1>2, <1>3, <1>4, Struct3
<1> DEFINE n == Len(d.accounts)
           m == Len(d.data)
<1>8. Len(struct.write[d]) = 32 + (4 + n * 34) + (4 + m)
  BY <1>3, <1>7 DEF Total3
<1>9. InstructionLen(d) = 32 + (4 + n * 34) + (4 + m) /\ InstructionLen(d) \in Nat
  <2>1. n \in Nat /\ m \in Nat /\ InstructionLen(d) = 32 + 4 + (32 + 1 + 1) * n + 4 + m
    BY <1>5 DEF InstructionLen
  <2> HIDE DEF n, m
  <2> QED
    BY <2>1
<1> QED
  BY <1>1, <1>6, <1>8, <1>9

(* InstructionsLen is defined by recursion, which has a solution.          *)
LEMMA InstructionsLenUnfolds ==
    ASSUME NEW list, NEW n \in Nat, Len(list) = n
    PROVE  \E f : /\ f = [k \in 0 .. n |-> IF k = 0 THEN 0
                                           ELSE f[k - 1] + InstructionLen(list[k])]
                  /\ InstructionsLen(list) = f[n]
<1> DEFINE Solves(f, m) == f = [k \in 0 .. m |-> IF k = 0 THEN 0
                                              ELSE f[k - 1] + InstructionLen(list[k])]
           Solvable == {m \in Nat : \E f : Solves(f, m)}
<1>1. 0 \in Solvable
  <2> DEFINE f == [k \in 0 .. 0 |-> 0]
  <2>1. Solves(f, 0)
    OBVIOUS
  <2> QED
    BY <2>1
<1>2. ASSUME NEW m \in Nat, m \in Solvable PROVE m + 1 \in Solvable
  <2>1. PICK f : Solves(f, m)
    BY <1>2
  <2> DEFINE g == [k \in 0 .. m + 1 |->
                     IF k = m + 1 THEN f[m] + InstructionLen(list[k]) ELSE f[k]]
  <2>2. ASSUME NEW k \in 0 .. m + 1
        PROVE  g[k] = IF k = 0 THEN 0 ELSE g[k - 1] + InstructionLen(list[k])
    <3>1. CASE k = m + 1
      <4>1. k # 0 /\ k - 1 = m /\ k - 1 \in 0 .. m + 1 /\ k - 1 # m + 1
        BY <3>1
      <4>2. g[k] = f[m] + InstructionLen(list[k])
        BY <3>1
      <4>3. g[k - 1] = f[m]
        BY <4>1
      <4> HIDE DEF g
      <4> QED
        BY <4>1, <4>2, <4>3
    <3>2. CASE k # m + 1
      <4>1. k \in 0 .. m /\ g[k] = f[k] /\ (k # 0 => g[k - 1] = f[k - 1])
        BY <3>2
      <4>2. f[k] = IF k = 0 THEN 0 ELSE f[k - 1] + InstructionLen(list[k])
        BY <2>1, <4>1
      <4> HIDE DEF g
      <4> QED
        BY <4>1, <4>2
    <3> QED
      BY <3>1, <3>2
  <2>3. g = [k \in 0 .. m + 1 |-> g[k]]
    OBVIOUS
  <2> HIDE DEF g
  <2>4. Solves(g, m + 1)
    BY <2>2, <2>3
  <2> HIDE DEF Solves
  <2> QED
    BY <2>4
<1> HIDE DEF Solvable
<1>3. n \in Solvable
  BY <1>1, <1>2, Induction
<1>4. \E f : Solves(f, n)
  BY <1>3 DEF Solvable
<1> DEFINE e == CHOOSE f : Solves(f, n)
<1>5. Solves(e, n)
  BY <1>4
<1>6. InstructionsLen(list) = e[n]
  BY DEF InstructionsLen
<1> QED
  BY <1>5, <1>6

(* The instructions of a proposal.                                         *)
LEMMA InstructionListTrips ==
    ASSUME NEW v \in InstructionList.values, FitsU32(Len(v)),
           \A k \in DOMAIN v : Encodable(v[k])
    PROVE  /\ Trips(InstructionList, v)
           /\ Len(InstructionList.write[v]) = 4 + InstructionsLen(v)
           /\ InstructionsLen(v) \in Nat
<1> DEFINE n == Len(v)
           F == TransactionInstructionData
<1>1. v \in Seq(F.values) /\ InstructionList = VecOf(F)
  BY DEF InstructionList, VecOf
<1>2. n \in Nat /\ DOMAIN v = 1 .. n /\ \A k \in 1 .. n : v[k] \in F.values
  <2> HIDE DEF F
  <2> QED
    BY <1>1
<1>3. \A k \in 1 .. n : /\ Trips(F, v[k])
                        /\ Len(F.write[v[k]]) = InstructionLen(v[k])
                        /\ InstructionLen(v[k]) \in Nat
  BY <1>2, InstructionDataTrips
<1> HIDE DEF F
<1>4. AllTrip(F, v, n)
  BY <1>3 DEF AllTrip
<1>5. Trips(VecOf(F), v)
  BY <1>1, <1>2, <1>4, VecTrips DEF AllTrip
<1>6. PICK f : /\ f = [k \in 0 .. n |-> IF k = 0 THEN 0
                                        ELSE f[k - 1] + InstructionLen(v[k])]
               /\ InstructionsLen(v) = f[n]
  <2>1. Len(v) = n
    OBVIOUS
  <2> HIDE DEF n
  <2> QED
    BY <1>2, <2>1, InstructionsLenUnfolds
<1>7. SumsWritten(f, F, v, n)
  <2>1. f[0] = 0
    BY <1>2, <1>6
  <2>2. ASSUME NEW k \in 0 .. n - 1 PROVE f[k + 1] = f[k] + Len(F.write[v[k + 1]])
    <3>1. k + 1 \in 1 .. n /\ k + 1 \in 0 .. n /\ k + 1 # 0 /\ (k + 1) - 1 = k
      BY <1>2
    <3>2. f[k + 1] = f[k] + InstructionLen(v[k + 1])
      BY <1>6, <3>1
    <3> QED
      BY <1>3, <3>1, <3>2
  <2> QED
    BY <2>1, <2>2 DEF SumsWritten
<1>8. Len(VecOf(F).write[v]) = 4 + f[n]
  <2>1. Len(v) = n
    OBVIOUS
  <2> HIDE DEF n
  <2> QED
    BY <1>1, <1>2, <1>4, <1>7, <2>1, VecSum
<1>9. f[n] \in Nat
  <2> DEFINE T == {k \in Nat : k \in 0 .. n => f[k] \in Nat}
  <2>1. 0 \in T
    BY <1>6
  <2>2. ASSUME NEW k \in Nat, k \in T PROVE k + 1 \in T
    <3>1. CASE k + 1 \in 0 .. n
      <4>1. k + 1 \in 1 .. n /\ k \in 0 .. n /\ k + 1 # 0 /\ (k + 1) - 1 = k
        BY <3>1
      <4>2. f[k] \in Nat /\ InstructionLen(v[k + 1]) \in Nat
        BY <1>3, <2>2, <4>1
      <4>3. f[k + 1] = f[k] + InstructionLen(v[k + 1])
        BY <1>6, <3>1, <4>1
      <4> QED
        BY <4>2, <4>3
    <3> QED
      BY <3>1
  <2> HIDE DEF T
  <2>3. n \in T
    BY <1>2, <2>1, <2>2, Induction
  <2> QED
    BY <1>2, <2>3 DEF T
<1> QED
  BY <1>1, <1>5, <1>6, <1>8, <1>9

-----------------------------------------------------------------------------
(* Account data.                                                           *)

(* The owners of a multisig.                                               *)
LEMMA KeysTrip ==
    ASSUME NEW v \in Seq(Pubkey.values), FitsU32(Len(v))
    PROVE  Trips(VecOf(Pubkey), v) /\ Len(VecOf(Pubkey).write[v]) = 4 + Len(v) * 32
<1> DEFINE n == Len(v)
<1>1. n \in Nat /\ DOMAIN v = 1 .. n /\ \A k \in 1 .. n : v[k] \in Pubkey.values
  <2> DEFINE S == Pubkey.values
  <2>1. v \in Seq(S)
    OBVIOUS
  <2> HIDE DEF S
  <2>2. n \in Nat /\ DOMAIN v = 1 .. n /\ \A k \in 1 .. n : v[k] \in S
    BY <2>1
  <2> QED
    BY <2>2 DEF S
<1>2. AllTrip(Pubkey, v, n) /\ AllHave(Pubkey, v, n, 32)
  BY <1>1, PubkeyTrips DEF AllTrip, AllHave
<1>3. Trips(VecOf(Pubkey), v)
  BY <1>1, <1>2, VecTrips DEF AllTrip
<1>4. Len(VecOf(Pubkey).write[v]) = 4 + n * 32
  <2>1. Len(v) = n /\ 32 \in Nat
    OBVIOUS
  <2> HIDE DEF n
  <2> QED
    BY <1>1, <1>2, <2>1, VecLength
<1> QED
  BY <1>3, <1>4

(* The signers of a proposal.                                              *)
LEMMA FlagsTrip ==
    ASSUME NEW v \in Seq(BOOLEAN), FitsU32(Len(v))
    PROVE  Trips(VecOf(Bool), v) /\ Len(VecOf(Bool).write[v]) = 4 + Len(v)
<1> DEFINE n == Len(v)
<1>1. n \in Nat /\ DOMAIN v = 1 .. n /\ \A k \in 1 .. n : v[k] \in BOOLEAN
  OBVIOUS
<1>2. Bool.values = BOOLEAN
  BY DEF Bool
<1>3. AllTrip(Bool, v, n) /\ AllHave(Bool, v, n, 1)
  BY <1>1, FlagTrips DEF AllTrip, AllHave
<1>4. Len(VecOf(Bool).write[v]) = 4 + n * 1
  <2>1. Len(v) = n
    OBVIOUS
  <2> HIDE DEF n
  <2> QED
    BY <1>1, <1>2, <1>3, <2>1, VecLength
<1>5. Trips(VecOf(Bool), v)
  BY <1>1, <1>2, <1>3, VecTrips DEF AllTrip
<1> QED
  BY <1>1, <1>4, <1>5

(* Multisig is read back and takes the bytes Multisig::len says.           *)
LEMMA MultisigTrips ==
    ASSUME NEW v \in MultisigStruct.values, FitsU32(Len(v.owners)),
           FitsU32(v.owner_set_seqno), FitsU32(Len(v.padding))
    PROVE  /\ Trips(MultisigStruct, v)
           /\ Len(MultisigStruct.write[v]) = MultisigLen(Len(v.owners), Len(v.padding))
<1> DEFINE S == [owners : Seq(Pubkey.values), threshold : Byte, nonce : Byte,
                 owner_set_seqno : Nat, padding : Seq(Byte)]
           F == Fields5("owners", VecOf(Pubkey), "threshold", U8Format,
                        "nonce", U8Format, "owner_set_seqno", U32Format,
                        "padding", VecOf(U8Format))
           struct == StructOf(S, F)
<1>1. MultisigStruct = struct
  BY DEF MultisigStruct, Fields5
<1>2. v \in S
  BY DEF MultisigStruct, StructOf
<1>3. /\ Trips(VecOf(Pubkey), v["owners"])
      /\ Len(VecOf(Pubkey).write[v["owners"]]) = 4 + Len(v.owners) * 32
      /\ Trips(U8Format, v["threshold"]) /\ Len(U8Format.write[v["threshold"]]) = 1
      /\ Trips(U8Format, v["nonce"]) /\ Len(U8Format.write[v["nonce"]]) = 1
      /\ Trips(U32Format, v["owner_set_seqno"])
      /\ Len(U32Format.write[v["owner_set_seqno"]]) = 4
      /\ Trips(VecOf(U8Format), v["padding"])
      /\ Len(VecOf(U8Format).write[v["padding"]]) = 4 + Len(v.padding)
  BY <1>2, KeysTrip, NumberTrips, SeqnoTrips, BytesTrip
<1>4. HasFields5(v, "owners", "threshold", "nonce", "owner_set_seqno", "padding")
  BY <1>2 DEF HasFields5
<1>5. Len(v.owners) \in Nat /\ Len(v.padding) \in Nat
  BY <1>2
<1> HIDE DEF S
<1>6. Trips(struct, v)
  BY <1>2, <1>3, <1>4, Struct5
<1>7. Len(struct.write[v]) = Total5(VecOf(Pubkey).write[v["owners"]],
           U8Format.write[v["threshold"]],
           U8Format.write[v["nonce"]],
           U32Format.write[v["owner_set_seqno"]],
           VecOf(U8Format).write[v["padding"]])
  BY <1>2, <1>3, <1>4, Struct5
<1> DEFINE n == Len(v.owners)
           m == Len(v.padding)
<1>8. Len(struct.write[v]) = (4 + n * 32) + 1 + 1 + 4 + (4 + m)
  BY <1>3, <1>7 DEF Total5
<1>9. MultisigLen(n, m) = (4 + n * 32) + 1 + 1 + 4 + (4 + m)
  <2>1. n \in Nat /\ m \in Nat
    BY <1>5
  <2> HIDE DEF n, m
  <2> QED
    BY <2>1 DEF MultisigLen, PubkeyBytes
<1> QED
  BY <1>1, <1>6, <1>8, <1>9

(* Transaction is read back and takes the bytes Transaction::len says.     *)
LEMMA TransactionTrips ==
    ASSUME NEW v \in TransactionStruct.values, FitsU32(Len(v.instructions)),
           \A k \in DOMAIN v.instructions : Encodable(v.instructions[k]),
           FitsU32(Len(v.signers)), FitsU32(v.owner_set_seqno)
    PROVE  /\ Trips(TransactionStruct, v)
           /\ Len(TransactionStruct.write[v]) = TransactionLen(v)
<1> DEFINE S == [multisig : Pubkey.values, instructions : InstructionList.values,
                 signers : Seq(BOOLEAN), owner_set_seqno : Nat]
           F == Fields4("multisig", Pubkey, "instructions", InstructionList,
                        "signers", VecOf(Bool), "owner_set_seqno", U32Format)
           struct == StructOf(S, F)
<1>1. TransactionStruct = struct
  BY DEF TransactionStruct, Fields4
<1>2. v \in S
  BY DEF TransactionStruct, StructOf
<1>3. /\ Trips(Pubkey, v["multisig"]) /\ Len(Pubkey.write[v["multisig"]]) = 32
      /\ Trips(InstructionList, v["instructions"])
      /\ Len(InstructionList.write[v["instructions"]]) = 4 + InstructionsLen(v.instructions)
      /\ InstructionsLen(v.instructions) \in Nat
      /\ Trips(VecOf(Bool), v["signers"])
      /\ Len(VecOf(Bool).write[v["signers"]]) = 4 + Len(v.signers)
      /\ Trips(U32Format, v["owner_set_seqno"])
      /\ Len(U32Format.write[v["owner_set_seqno"]]) = 4
  BY <1>2, PubkeyTrips, InstructionListTrips, FlagsTrip, SeqnoTrips
<1>4. HasFields4(v, "multisig", "instructions", "signers", "owner_set_seqno")
  BY <1>2 DEF HasFields4
<1>5. Len(v.signers) \in Nat
  BY <1>2
<1>3a. /\ Trips(Pubkey, v["multisig"]) /\ Trips(InstructionList, v["instructions"])
       /\ Trips(VecOf(Bool), v["signers"]) /\ Trips(U32Format, v["owner_set_seqno"])
  BY <1>3
<1> HIDE DEF S
<1>6. Trips(struct, v)
  BY <1>2, <1>3a, <1>4, Struct4
<1>7. Len(struct.write[v]) = Total4(Pubkey.write[v["multisig"]],
           InstructionList.write[v["instructions"]],
           VecOf(Bool).write[v["signers"]],
           U32Format.write[v["owner_set_seqno"]])
  BY <1>2, <1>3a, <1>4, Struct4
<1> DEFINE n == InstructionsLen(v.instructions)
           m == Len(v.signers)
<1>8. Len(struct.write[v]) = 32 + (4 + n) + (4 + m) + 4
  BY <1>3, <1>7 DEF Total4
<1>9. TransactionLen(v) = 32 + (4 + n) + (4 + m) + 4
  <2>1. n \in Nat /\ m \in Nat /\ TransactionLen(v) = 32 + 4 + n + 4 + m + 4
    BY <1>3, <1>5 DEF TransactionLen
  <2> HIDE DEF n, m
  <2> QED
    BY <2>1
<1> QED
  BY <1>1, <1>6, <1>8, <1>9

-----------------------------------------------------------------------------
(* Instructions and how clients build them.                                *)

IsOfOp(ix, op) == ix \in Instructions /\ ix.op = op

(* The instructions of each operation, from their record types: the        *)
(* accounts in their roles and the arguments.                              *)
LEMMA CreateMultisigTyped ==
    ASSUME NEW ix, IsOfOp(ix, "create_multisig")
    PROVE  /\ ix["multisig"] \in Keys /\ ix["multisig_signer"] \in Keys
           /\ ix["payer"] \in Keys /\ ix["system_program"] \in Keys
           /\ ix.owners \in Seq(Addresses) /\ Len(ix.owners) < 256
           /\ ix.threshold \in Byte /\ ix.nonce \in Byte
<1>1. ix \in [op : {"create_multisig"}, multisig : MultisigAddresses,
              multisig_signer : Addresses, payer : Addresses,
              system_program : Addresses \cup {SystemProgram},
              owners : Seq(Addresses), threshold : U8, nonce : U8,
              signed : Flags, writable : Flags]
  BY InstructionsTyped DEF IsInstruction, IsOfOp
<1> QED
  BY <1>1, OwnerListsFitU8 DEF IsOfOp, Keys, Addresses, KeyPairs, U8, Byte

(* propose_transaction                                                     *)
LEMMA ProposeTransactionTyped ==
    ASSUME NEW ix, IsOfOp(ix, "propose_transaction")
    PROVE  /\ ix["multisig"] \in Keys /\ ix["transaction"] \in Keys
           /\ ix["proposer"] \in Keys /\ ix["payer"] \in Keys
           /\ ix["system_program"] \in Keys
           /\ ix.instructions \in Seq(Instructions)
           /\ FitsU32(Len(ix.instructions))
<1>1. ix \in [op : {"propose_transaction"}, multisig : Addresses,
              transaction : TransactionAddresses, proposer : Addresses,
              payer : Addresses, system_program : Addresses \cup {SystemProgram},
              instructions : Seq(Instructions), signed : Flags, writable : Flags]
  BY InstructionsTyped DEF IsInstruction, IsOfOp
<1> QED
  BY <1>1, InstructionsFit DEF IsOfOp, Keys, Addresses, KeyPairs

(* approve_transaction                                                     *)
LEMMA ApproveTransactionTyped ==
    ASSUME NEW ix, IsOfOp(ix, "approve_transaction")
    PROVE  ix["multisig"] \in Keys /\ ix["transaction"] \in Keys /\ ix["approver"] \in Keys
<1>1. ix \in [op : {"approve_transaction"}, multisig : Addresses,
              transaction : Addresses, approver : Addresses,
              signed : Flags, writable : Flags]
  BY InstructionsTyped DEF IsInstruction, IsOfOp
<1> QED
  BY <1>1 DEF Keys

(* execute_transaction                                                     *)
LEMMA ExecuteTransactionTyped ==
    ASSUME NEW ix, IsOfOp(ix, "execute_transaction")
    PROVE  /\ ix["multisig"] \in Keys /\ ix["multisig_signer"] \in Keys
           /\ ix["transaction"] \in Keys /\ ix["refundee"] \in Keys
           /\ ix["executor"] \in Keys
<1>1. ix \in [op : {"execute_transaction"}, multisig : Addresses,
              multisig_signer : Addresses, transaction : Addresses,
              refundee : Addresses, executor : Addresses,
              signed : Flags, writable : Flags]
  BY InstructionsTyped DEF IsInstruction, IsOfOp
<1> QED
  BY <1>1 DEF Keys

(* cancel_transaction                                                      *)
LEMMA CancelTransactionTyped ==
    ASSUME NEW ix, IsOfOp(ix, "cancel_transaction")
    PROVE  /\ ix["multisig"] \in Keys /\ ix["transaction"] \in Keys
           /\ ix["refundee"] \in Keys /\ ix["executor"] \in Keys
<1>1. ix \in [op : {"cancel_transaction"}, multisig : Addresses,
              transaction : Addresses, refundee : Addresses,
              executor : Addresses, signed : Flags, writable : Flags]
  BY InstructionsTyped DEF IsInstruction, IsOfOp
<1> QED
  BY <1>1 DEF Keys

(* set_owners                                                              *)
LEMMA SetOwnersIxTyped ==
    ASSUME NEW ix, IsOfOp(ix, "set_owners")
    PROVE  /\ ix["multisig"] \in Keys /\ ix["multisig_signer"] \in Keys
           /\ ix.owners \in Seq(Addresses) /\ Len(ix.owners) < 256
<1>1. ix \in [op : {"set_owners"}, multisig : Addresses,
              multisig_signer : Addresses, owners : Seq(Addresses),
              signed : Flags, writable : Flags]
  BY InstructionsTyped DEF IsInstruction, IsOfOp
<1> QED
  BY <1>1, OwnerListsFitU8 DEF IsOfOp, Keys

(* change_threshold                                                        *)
LEMMA ChangeThresholdIxTyped ==
    ASSUME NEW ix, IsOfOp(ix, "change_threshold")
    PROVE  /\ ix["multisig"] \in Keys /\ ix["multisig_signer"] \in Keys
           /\ ix.threshold \in Byte
<1>1. ix \in [op : {"change_threshold"}, multisig : Addresses,
              multisig_signer : Addresses, threshold : U8,
              signed : Flags, writable : Flags]
  BY InstructionsTyped DEF IsInstruction, IsOfOp
<1> QED
  BY <1>1 DEF Keys, U8, Byte

(* set_owners_and_change_threshold                                         *)
LEMMA SetOwnersAndChangeThresholdIxTyped ==
    ASSUME NEW ix, IsOfOp(ix, "set_owners_and_change_threshold")
    PROVE  /\ ix["multisig"] \in Keys /\ ix["multisig_signer"] \in Keys
           /\ ix.owners \in Seq(Addresses) /\ Len(ix.owners) < 256
           /\ ix.threshold \in Byte
<1>1. ix \in [op : {"set_owners_and_change_threshold"}, multisig : Addresses,
              multisig_signer : Addresses, owners : Seq(Addresses),
              threshold : U8, signed : Flags, writable : Flags]
  BY InstructionsTyped DEF IsInstruction, IsOfOp
<1> QED
  BY <1>1, OwnerListsFitU8 DEF IsOfOp, Keys, U8, Byte

(* The system program's transfer.                                          *)
LEMMA TransferIxTyped ==
    ASSUME NEW ix, IsOfOp(ix, "transfer")
    PROVE  ix["from"] \in Keys /\ ix["to"] \in Keys /\ ix.amount \in Nat
<1>1. ix \in [op : {"transfer"}, from : Addresses, to : Addresses,
              amount : Nat, signed : Flags, writable : Flags]
  BY InstructionsTyped DEF IsInstruction, IsOfOp
<1> QED
  BY <1>1 DEF Keys

(* The operations of this program.                                         *)
Operations ==
    {"create_multisig", "set_owners", "change_threshold",
     "set_owners_and_change_threshold", "propose_transaction",
     "approve_transaction", "execute_transaction", "cancel_transaction"}

(* There are no other operations.                                          *)
LEMMA OperationOf ==
    ASSUME NEW ix \in Instructions
    PROVE  ix.op \in Operations \cup {"transfer"}
BY InstructionsTyped DEF IsInstruction, Operations

-----------------------------------------------------------------------------
(* Built is defined by recursion, which has a solution: stored             *)
(* instructions are less deeply nested.                                    *)

(* What a builder makes depends on the stored instructions only.           *)
LEMMA BuiltFromStored ==
    ASSUME NEW f, NEW g, NEW ix \in Instructions,
           ix.op = "propose_transaction" =>
             \A k \in DOMAIN ix.instructions : f[ix.instructions[k]] = g[ix.instructions[k]]
    PROVE  BuiltWith(f, ix) = BuiltWith(g, ix)
<1>1. Arguments(f, ix) = Arguments(g, ix)
  <2>1. CASE ix.op = "propose_transaction"
    BY <2>1 DEF Arguments
  <2>2. CASE ix.op # "propose_transaction"
    BY <2>2 DEF Arguments
  <2> QED
    BY <2>1, <2>2
<1> QED
  BY <1>1 DEF BuiltWith

Solves(f, n) ==
    \A ix \in Instructions : Nesting[ix] < n => f[ix] = BuiltWith(f, ix)

(* An instruction is nested less deep than the proposal that stores it.    *)
LEMMA StoredIsLessNested ==
    ASSUME NEW ix \in Instructions, ix.op = "propose_transaction",
           NEW k \in DOMAIN ix.instructions
    PROVE  /\ ix.instructions[k] \in Instructions
           /\ Nesting[ix.instructions[k]] \in Nat /\ Nesting[ix] \in Nat
           /\ Nesting[ix.instructions[k]] < Nesting[ix]
<1>1. ix.instructions[k] \in Instructions
  BY ProposeTransactionTyped DEF IsOfOp
<1> QED
  BY <1>1, InstructionsNestFinitely

(* Two solutions agree where both are defined.                             *)
LEMMA SolutionsAgree ==
    ASSUME NEW f, NEW n \in Nat, Solves(f, n), NEW g, NEW m \in Nat, Solves(g, m),
           NEW ix \in Instructions, Nesting[ix] < n, Nesting[ix] < m
    PROVE  f[ix] = g[ix]
<1> DEFINE Same(j) == \A i \in Instructions :
                        Nesting[i] < j /\ Nesting[i] < n /\ Nesting[i] < m => f[i] = g[i]
           T == {j \in Nat : Same(j)}
<1>1. 0 \in T
  BY InstructionsNestFinitely
<1>2. ASSUME NEW j \in Nat, j \in T PROVE j + 1 \in T
  <2>1. ASSUME NEW i \in Instructions, Nesting[i] < j + 1, Nesting[i] < n, Nesting[i] < m
        PROVE  f[i] = g[i]
    <3>1. ASSUME i.op = "propose_transaction", NEW k \in DOMAIN i.instructions
          PROVE  f[i.instructions[k]] = g[i.instructions[k]]
      <4>1. /\ i.instructions[k] \in Instructions
            /\ Nesting[i.instructions[k]] \in Nat /\ Nesting[i] \in Nat
            /\ Nesting[i.instructions[k]] < Nesting[i]
        BY <3>1, StoredIsLessNested
      <4>2. /\ Nesting[i.instructions[k]] < j /\ Nesting[i.instructions[k]] < n
            /\ Nesting[i.instructions[k]] < m
        BY <2>1, <4>1
      <4> QED
        BY <1>2, <4>1, <4>2
    <3>2. BuiltWith(f, i) = BuiltWith(g, i)
      BY <3>1, BuiltFromStored
    <3> QED
      BY <2>1, <3>2 DEF Solves
  <2> QED
    BY <2>1
<1> HIDE DEF T
<1>3. Nesting[ix] + 1 \in Nat /\ Nesting[ix] + 1 \in T
  <2>1. Nesting[ix] + 1 \in Nat
    BY InstructionsNestFinitely
  <2> QED
    BY <1>1, <1>2, <2>1, Induction
<1>4. Same(Nesting[ix] + 1) /\ Nesting[ix] < Nesting[ix] + 1
  BY <1>3, InstructionsNestFinitely DEF T
<1> QED
  BY <1>4

(* There is a solution to any depth.                                       *)
LEMMA SolutionExists == ASSUME NEW n \in Nat PROVE \E f : Solves(f, n)
<1> DEFINE T == {j \in Nat : \E f : Solves(f, j)}
<1>1. 0 \in T
  BY InstructionsNestFinitely DEF Solves
<1>2. ASSUME NEW j \in Nat, j \in T PROVE j + 1 \in T
  <2>1. PICK f : Solves(f, j)
    BY <1>2
  <2> DEFINE g == [ix \in Instructions |-> BuiltWith(f, ix)]
  <2>2. ASSUME NEW ix \in Instructions, Nesting[ix] < j + 1
        PROVE  g[ix] = BuiltWith(g, ix)
    <3>1. ASSUME ix.op = "propose_transaction", NEW k \in DOMAIN ix.instructions
          PROVE  f[ix.instructions[k]] = g[ix.instructions[k]]
      <4> DEFINE i == ix.instructions[k]
      <4>1. i \in Instructions /\ Nesting[i] \in Nat /\ Nesting[ix] \in Nat
            /\ Nesting[i] < Nesting[ix]
        BY <3>1, StoredIsLessNested
      <4>2. f[i] = BuiltWith(f, i)
        BY <2>1, <2>2, <4>1 DEF Solves
      <4>3. g[i] = BuiltWith(f, i)
        BY <4>1
      <4> QED
        BY <4>2, <4>3
    <3>2. g[ix] = BuiltWith(f, ix)
      OBVIOUS
    <3> HIDE DEF g
    <3>3. BuiltWith(f, ix) = BuiltWith(g, ix)
      BY <3>1, BuiltFromStored
    <3> QED
      BY <3>2, <3>3
  <2> HIDE DEF g
  <2>3. Solves(g, j + 1)
    BY <2>2 DEF Solves
  <2> QED
    BY <2>3
<1> HIDE DEF T
<1>3. n \in T
  BY <1>1, <1>2, Induction
<1> QED
  BY <1>3 DEF T

(* Built satisfies the equation that defines it, since instructions nest   *)
(* finitely.                                                               *)
LEMMA BuiltUnfolds == ASSUME NEW ix \in Instructions PROVE Built[ix] = BuiltWith(Built, ix)
<1> DEFINE F(n) == CHOOSE f : Solves(f, n)
           g == [i \in Instructions |-> F(Nesting[i] + 1)[i]]
<1>1. \A n \in Nat : Solves(F(n), n)
  BY SolutionExists
<1> HIDE DEF F
<1>2. ASSUME NEW i \in Instructions PROVE g[i] = BuiltWith(g, i)
  <2> DEFINE f == F(Nesting[i] + 1)
             n == Nesting[i] + 1
  <2>1. n \in Nat /\ Nesting[i] \in Nat /\ Nesting[i] < n
    BY InstructionsNestFinitely
  <2>2. Solves(f, n)
    BY <1>1, <2>1
  <2>3. g[i] = f[i]
    OBVIOUS
  <2>4. f[i] = BuiltWith(f, i)
    BY <2>1, <2>2 DEF Solves
  <2>5. ASSUME i.op = "propose_transaction", NEW k \in DOMAIN i.instructions
        PROVE  f[i.instructions[k]] = g[i.instructions[k]]
    <3> DEFINE s == i.instructions[k]
               h == F(Nesting[s] + 1)
               m == Nesting[s] + 1
    <3>1. s \in Instructions /\ Nesting[s] \in Nat /\ Nesting[s] < Nesting[i]
      BY <2>5, StoredIsLessNested
    <3>2. m \in Nat /\ Nesting[s] < m /\ Nesting[s] < n
      BY <2>1, <3>1
    <3>3. Solves(h, m) /\ g[s] = h[s]
      BY <1>1, <3>1, <3>2
    <3> HIDE DEF f, n, s, h, m, g
    <3>4. f[s] = h[s]
      BY <2>1, <2>2, <3>1, <3>2, <3>3, SolutionsAgree
    <3> QED
      BY <3>3, <3>4 DEF s
  <2> HIDE DEF f, n, g
  <2>6. BuiltWith(f, i) = BuiltWith(g, i)
    BY <2>5, BuiltFromStored
  <2> QED
    BY <2>3, <2>4, <2>6
<1>3. g = [i \in Instructions |-> BuiltWith(g, i)]
  <2>1. g = [i \in Instructions |-> g[i]]
    OBVIOUS
  <2> HIDE DEF g
  <2> QED
    BY <1>2, <2>1
<1> HIDE DEF g
<1>4. \E h : h = [i \in Instructions |-> BuiltWith(h, i)]
  BY <1>3
<1> DEFINE e == CHOOSE h : h = [i \in Instructions |-> BuiltWith(h, i)]
<1>5. e = [i \in Instructions |-> BuiltWith(e, i)]
  BY <1>4
<1>6. Built = e
  BY DEF Built
<1> HIDE DEF e
<1>7. e[ix] = BuiltWith(e, ix)
  BY <1>5
<1> QED
  BY <1>6, <1>7

-----------------------------------------------------------------------------
(* What a builder writes, its handler reads.                               *)

(* What u16 can count, u32 can.                                            *)
LEMMA SmallFits == ASSUME NEW n \in Nat, n < 65536 PROVE FitsU32(n)
<1>1. n \div 65536 = 0
  OBVIOUS
<1> QED
  BY <1>1 DEF FitsU32

(* Addresses as bytes.                                                     *)
LEMMA KeyListTyped ==
    ASSUME NEW owners \in Seq(Addresses)
    PROVE  KeyList(owners) \in Seq(Pubkey.values) /\ Len(KeyList(owners)) = Len(owners)
<1> DEFINE S == Pubkey.values
<1>1. \A a \in Addresses : KeyBytes[a] \in S
  BY KeysHave32Bytes DEF Keys
<1> HIDE DEF S
<1>2. \A k \in DOMAIN owners : owners[k] \in Addresses
  OBVIOUS
<1>3. KeyList(owners) \in Seq(S) /\ Len(KeyList(owners)) = Len(owners)
  BY <1>1, <1>2 DEF KeyList
<1> QED
  BY <1>3 DEF S

(* No arguments take no bytes.                                             *)
LEMMA NothingTrips == Trips(NoArguments, << >>)
<1> DEFINE S == {<< >>}
           F == << >>
<1>1. NoArguments = StructOf(S, F)
  BY DEF NoArguments
<1>2. << >> \in S /\ DOMAIN F = 1 .. 0 /\ Named(F, 0)
  BY DEF Named
<1>3. << >> = [name \in Names(F, 0) |-> (<< >>)[name]]
  <2>1. Names(F, 0) = {}
    BY DEF Names
  <2> QED
    BY <2>1
<1>4. \A k \in 1 .. 0 : Trips(F[k][2], (<< >>)[F[k][1]])
  OBVIOUS
<1> HIDE DEF S, F
<1> QED
  BY <1>1, <1>2, <1>3, <1>4, StructTrips

(* What a client passes to each builder, its handler reads.                *)
LEMMA CreateMultisigArguments ==
    ASSUME NEW built, NEW ix, IsOfOp(ix, "create_multisig")
    PROVE  Trips(CreateMultisigHandler.data, Arguments(built, ix))
<1> DEFINE S == [owners : Seq(Pubkey.values), threshold : Byte, nonce : Byte]
           F == Fields3("owners", VecOf(Pubkey), "threshold", U8Format, "nonce", U8Format)
           v == [owners |-> KeyList(ix.owners), threshold |-> ix.threshold,
                 nonce |-> ix.nonce]
<1>1. CreateMultisigHandler.data = StructOf(S, F)
  BY DEF CreateMultisigHandler, Fields3
<1>2. Arguments(built, ix) = v
  BY DEF Arguments, IsOfOp
<1>3. /\ KeyList(ix.owners) \in Seq(Pubkey.values) /\ FitsU32(Len(KeyList(ix.owners)))
      /\ ix.threshold \in Byte /\ ix.nonce \in Byte
  BY CreateMultisigTyped, KeyListTyped, SmallFits
<1>4. v \in S
  BY <1>3
<1>5. /\ Trips(VecOf(Pubkey), v["owners"]) /\ Trips(U8Format, v["threshold"])
      /\ Trips(U8Format, v["nonce"])
  BY <1>3, KeysTrip, NumberTrips
<1>6. HasFields3(v, "owners", "threshold", "nonce")
  BY DEF HasFields3
<1> HIDE DEF S, v
<1> QED
  BY <1>1, <1>2, <1>4, <1>5, <1>6, Struct3

(* set_owners                                                              *)
LEMMA SetOwnersArguments ==
    ASSUME NEW built, NEW ix, IsOfOp(ix, "set_owners")
    PROVE  Trips(SetOwnersHandler.data, Arguments(built, ix))
<1> DEFINE S == [owners : Seq(Pubkey.values)]
           F == Fields1("owners", VecOf(Pubkey))
           v == [owners |-> KeyList(ix.owners)]
<1>1. SetOwnersHandler.data = StructOf(S, F)
  BY DEF SetOwnersHandler, Fields1
<1>2. Arguments(built, ix) = v
  BY DEF Arguments, IsOfOp
<1>3. KeyList(ix.owners) \in Seq(Pubkey.values) /\ FitsU32(Len(KeyList(ix.owners)))
  BY SetOwnersIxTyped, KeyListTyped, SmallFits
<1>4. v \in S
  BY <1>3
<1>5. Trips(VecOf(Pubkey), v["owners"])
  BY <1>3, KeysTrip
<1>6. HasFields1(v, "owners")
  BY DEF HasFields1
<1> HIDE DEF S, v
<1> QED
  BY <1>1, <1>2, <1>4, <1>5, <1>6, Struct1

(* change_threshold                                                        *)
LEMMA ChangeThresholdArguments ==
    ASSUME NEW built, NEW ix, IsOfOp(ix, "change_threshold")
    PROVE  Trips(ChangeThresholdHandler.data, Arguments(built, ix))
<1> DEFINE S == [threshold : Byte]
           F == Fields1("threshold", U8Format)
           v == [threshold |-> ix.threshold]
<1>1. ChangeThresholdHandler.data = StructOf(S, F)
  BY DEF ChangeThresholdHandler, Fields1
<1>2. Arguments(built, ix) = v
  BY DEF Arguments, IsOfOp
<1>3. ix.threshold \in Byte
  BY ChangeThresholdIxTyped
<1>4. v \in S
  BY <1>3
<1>5. Trips(U8Format, v["threshold"])
  BY <1>3, NumberTrips
<1>6. HasFields1(v, "threshold")
  BY DEF HasFields1
<1> HIDE DEF S, v
<1> QED
  BY <1>1, <1>2, <1>4, <1>5, <1>6, Struct1

(* set_owners_and_change_threshold                                         *)
LEMMA SetOwnersAndChangeThresholdArguments ==
    ASSUME NEW built, NEW ix, IsOfOp(ix, "set_owners_and_change_threshold")
    PROVE  Trips(SetOwnersAndChangeThresholdHandler.data, Arguments(built, ix))
<1> DEFINE S == [owners : Seq(Pubkey.values), threshold : Byte]
           F == Fields2("owners", VecOf(Pubkey), "threshold", U8Format)
           v == [owners |-> KeyList(ix.owners), threshold |-> ix.threshold]
<1>1. SetOwnersAndChangeThresholdHandler.data = StructOf(S, F)
  BY DEF SetOwnersAndChangeThresholdHandler, Fields2
<1>2. Arguments(built, ix) = v
  BY DEF Arguments, IsOfOp
<1>3. /\ KeyList(ix.owners) \in Seq(Pubkey.values) /\ FitsU32(Len(KeyList(ix.owners)))
      /\ ix.threshold \in Byte
  BY SetOwnersAndChangeThresholdIxTyped, KeyListTyped, SmallFits
<1>4. v \in S
  BY <1>3
<1>5. Trips(VecOf(Pubkey), v["owners"]) /\ Trips(U8Format, v["threshold"])
  BY <1>3, KeysTrip, NumberTrips
<1>6. HasFields2(v, "owners", "threshold")
  BY DEF HasFields2
<1> HIDE DEF S, v
<1> QED
  BY <1>1, <1>2, <1>4, <1>5, <1>6, Struct2

(* Stored instructions that can be written are written with the proposal.  *)
IsEncodable(d) == d \in TransactionInstructionData.values /\ Encodable(d)

StoredAre(built, ix) ==
    \A k \in DOMAIN ix.instructions : IsEncodable(built[ix.instructions[k]])

(* The list a proposal stores is one a Transaction can hold.               *)
LEMMA ListOfStored ==
    ASSUME NEW built, NEW list \in Seq(Instructions),
           \A k \in DOMAIN list : IsEncodable(built[list[k]])
    PROVE  LET v == [k \in DOMAIN list |-> built[list[k]]]
           IN  /\ v \in InstructionList.values /\ Len(v) = Len(list)
               /\ DOMAIN v = DOMAIN list
               /\ \A k \in DOMAIN v : Encodable(v[k])
<1> DEFINE S == TransactionInstructionData.values
           v == [k \in DOMAIN list |-> built[list[k]]]
<1>1. InstructionList.values = Seq(S)
  BY DEF InstructionList, VecOf
<1>2. \A k \in DOMAIN list : built[list[k]] \in S /\ Encodable(built[list[k]])
  BY DEF IsEncodable
<1> HIDE DEF S
<1>3. Len(list) \in Nat /\ DOMAIN list = 1 .. Len(list)
  OBVIOUS
<1>4. v \in Seq(S) /\ Len(v) = Len(list)
  BY <1>2, <1>3
<1> QED
  BY <1>1, <1>2, <1>4

(* propose_transaction                                                     *)
LEMMA ProposeTransactionArguments ==
    ASSUME NEW built, NEW ix, IsOfOp(ix, "propose_transaction"), StoredAre(built, ix)
    PROVE  Trips(ProposeTransactionHandler.data, Arguments(built, ix))
<1> DEFINE S == [instructions : InstructionList.values]
           F == Fields1("instructions", InstructionList)
           list == [k \in DOMAIN ix.instructions |-> built[ix.instructions[k]]]
           v == [instructions |-> list]
<1>1. ProposeTransactionHandler.data = StructOf(S, F)
  BY DEF ProposeTransactionHandler, Fields1
<1>2. Arguments(built, ix) = v
  BY DEF Arguments, IsOfOp
<1>3. /\ list \in InstructionList.values /\ FitsU32(Len(list))
      /\ \A k \in DOMAIN list : Encodable(list[k])
  <2>1. ix.instructions \in Seq(Instructions) /\ FitsU32(Len(ix.instructions))
    BY ProposeTransactionTyped
  <2> QED
    BY <2>1, ListOfStored DEF StoredAre
<1> HIDE DEF list
<1>4. v \in S
  BY <1>3
<1>5. Trips(InstructionList, v["instructions"])
  BY <1>3, InstructionListTrips
<1>6. HasFields1(v, "instructions")
  BY DEF HasFields1
<1> HIDE DEF S, v
<1> QED
  BY <1>1, <1>2, <1>4, <1>5, <1>6, Struct1

(* The builder of an operation and the handler its discriminator selects.  *)
HandlerOf(op) == Handlers[Discriminator[op] + 1]

(* Rust and TypeScript agree: each discriminator is the index of the       *)
(* handler of the same name, which takes the same arguments and accounts.  *)
LEMMA BuilderAndHandlerAgree ==
    ASSUME NEW op \in Operations
    PROVE  /\ Discriminator[op] \in 0 .. 7
           /\ HandlerOf(op).op = op
           /\ HandlerOf(op).data = Builder[op].schema
           /\ HandlerOf(op).accounts = Builder[op].keys
<1>1. CASE op = "create_multisig"
  BY <1>1 DEF HandlerOf, Handlers, Discriminator, Builder, CreateMultisigHandler,
              CreateMultisigBuilder, Pubkey, PubkeyBytes
<1>2. CASE op = "set_owners"
  BY <1>2 DEF HandlerOf, Handlers, Discriminator, Builder, SetOwnersHandler,
              SetOwnersBuilder, Pubkey, PubkeyBytes
<1>3. CASE op = "change_threshold"
  BY <1>3 DEF HandlerOf, Handlers, Discriminator, Builder, ChangeThresholdHandler,
              ChangeThresholdBuilder
<1>4. CASE op = "set_owners_and_change_threshold"
  BY <1>4 DEF HandlerOf, Handlers, Discriminator, Builder, Pubkey, PubkeyBytes,
              SetOwnersAndChangeThresholdHandler, SetOwnersAndChangeThresholdBuilder
<1>5. CASE op = "propose_transaction"
  <2>1. AccountsSchema = Accounts
    BY DEF AccountsSchema, Accounts, TransactionInstructionAccount, Pubkey, PubkeyBytes
  <2>2. InstructionsSchema = InstructionList
    BY <2>1 DEF InstructionsSchema, InstructionList, TransactionInstructionData,
                Pubkey, PubkeyBytes
  <2> QED
    BY <1>5, <2>2 DEF HandlerOf, Handlers, Discriminator, Builder,
                      ProposeTransactionHandler, ProposeTransactionBuilder
<1>6. CASE op = "approve_transaction"
  BY <1>6 DEF HandlerOf, Handlers, Discriminator, Builder, ApproveTransactionHandler,
              ApproveTransactionBuilder
<1>7. CASE op = "execute_transaction"
  BY <1>7 DEF HandlerOf, Handlers, Discriminator, Builder, ExecuteTransactionHandler,
              ExecuteTransactionBuilder
<1>8. CASE op = "cancel_transaction"
  BY <1>8 DEF HandlerOf, Handlers, Discriminator, Builder, CancelTransactionHandler,
              CancelTransactionBuilder
<1> QED
  BY <1>1, <1>2, <1>3, <1>4, <1>5, <1>6, <1>7, <1>8 DEF Operations

(* The arguments of any operation.                                         *)
LEMMA ArgumentsTrip ==
    ASSUME NEW built, NEW ix \in Instructions, ix.op # "transfer",
           ix.op = "propose_transaction" => StoredAre(built, ix)
    PROVE  Trips(HandlerOf(ix.op).data, Arguments(built, ix))
<1>0. ix.op \in Operations
  BY OperationOf
<1>1. CASE ix.op = "create_multisig"
  <2>1. HandlerOf(ix.op) = CreateMultisigHandler
    BY <1>1 DEF HandlerOf, Handlers, Discriminator
  <2> QED
    BY <1>1, <2>1, CreateMultisigArguments DEF IsOfOp
<1>2. CASE ix.op = "set_owners"
  <2>1. HandlerOf(ix.op) = SetOwnersHandler
    BY <1>2 DEF HandlerOf, Handlers, Discriminator
  <2> QED
    BY <1>2, <2>1, SetOwnersArguments DEF IsOfOp
<1>3. CASE ix.op = "change_threshold"
  <2>1. HandlerOf(ix.op) = ChangeThresholdHandler
    BY <1>3 DEF HandlerOf, Handlers, Discriminator
  <2> QED
    BY <1>3, <2>1, ChangeThresholdArguments DEF IsOfOp
<1>4. CASE ix.op = "set_owners_and_change_threshold"
  <2>1. HandlerOf(ix.op) = SetOwnersAndChangeThresholdHandler
    BY <1>4 DEF HandlerOf, Handlers, Discriminator
  <2> QED
    BY <1>4, <2>1, SetOwnersAndChangeThresholdArguments DEF IsOfOp
<1>5. CASE ix.op = "propose_transaction"
  <2>1. HandlerOf(ix.op) = ProposeTransactionHandler
    BY <1>5 DEF HandlerOf, Handlers, Discriminator
  <2> QED
    BY <1>5, <2>1, ProposeTransactionArguments DEF IsOfOp
<1>6. CASE ix.op \in {"approve_transaction", "execute_transaction", "cancel_transaction"}
  <2>1. HandlerOf(ix.op).data = NoArguments
    BY <1>6 DEF HandlerOf, Handlers, Discriminator, ApproveTransactionHandler,
                ExecuteTransactionHandler, CancelTransactionHandler
  <2>2. Arguments(built, ix) = << >>
    BY <1>6 DEF Arguments
  <2> QED
    BY <2>1, <2>2, NothingTrips
<1> QED
  BY <1>0, <1>1, <1>2, <1>3, <1>4, <1>5, <1>6 DEF Operations

(* The roles a builder lists are those its instruction has an account for. *)
LEMMA RolesAreKeys ==
    ASSUME NEW ix \in Instructions, ix.op # "transfer"
    PROVE  LET keys == Builder[ix.op].keys
           IN  /\ Len(keys) \in 1 .. 5 /\ DOMAIN keys = 1 .. Len(keys)
               /\ \A k \in DOMAIN keys : ix[keys[k]] \in Keys
<1>0. ix.op \in Operations
  BY OperationOf
<1>1. CASE ix.op = "create_multisig"
  <2>1. Builder[ix.op].keys = <<"multisig", "multisig_signer", "payer", "system_program">>
    BY <1>1 DEF Builder, CreateMultisigBuilder
  <2> QED
    BY <1>1, <2>1, CreateMultisigTyped DEF IsOfOp
<1>2. CASE ix.op = "set_owners"
  <2>1. Builder[ix.op].keys = <<"multisig", "multisig_signer">>
    BY <1>2 DEF Builder, SetOwnersBuilder
  <2> QED
    BY <1>2, <2>1, SetOwnersIxTyped DEF IsOfOp
<1>3. CASE ix.op = "change_threshold"
  <2>1. Builder[ix.op].keys = <<"multisig", "multisig_signer">>
    BY <1>3 DEF Builder, ChangeThresholdBuilder
  <2> QED
    BY <1>3, <2>1, ChangeThresholdIxTyped DEF IsOfOp
<1>4. CASE ix.op = "set_owners_and_change_threshold"
  <2>1. Builder[ix.op].keys = <<"multisig", "multisig_signer">>
    BY <1>4 DEF Builder, SetOwnersAndChangeThresholdBuilder
  <2> QED
    BY <1>4, <2>1, SetOwnersAndChangeThresholdIxTyped DEF IsOfOp
<1>5. CASE ix.op = "propose_transaction"
  <2>1. Builder[ix.op].keys
          = <<"multisig", "transaction", "proposer", "payer", "system_program">>
    BY <1>5 DEF Builder, ProposeTransactionBuilder
  <2> QED
    BY <1>5, <2>1, ProposeTransactionTyped DEF IsOfOp
<1>6. CASE ix.op = "approve_transaction"
  <2>1. Builder[ix.op].keys = <<"multisig", "transaction", "approver">>
    BY <1>6 DEF Builder, ApproveTransactionBuilder
  <2> QED
    BY <1>6, <2>1, ApproveTransactionTyped DEF IsOfOp
<1>7. CASE ix.op = "execute_transaction"
  <2>1. Builder[ix.op].keys
          = <<"multisig", "multisig_signer", "transaction", "refundee", "executor">>
    BY <1>7 DEF Builder, ExecuteTransactionBuilder
  <2> QED
    BY <1>7, <2>1, ExecuteTransactionTyped DEF IsOfOp
<1>8. CASE ix.op = "cancel_transaction"
  <2>1. Builder[ix.op].keys = <<"multisig", "transaction", "refundee", "executor">>
    BY <1>8 DEF Builder, CancelTransactionBuilder
  <2> QED
    BY <1>8, <2>1, CancelTransactionTyped DEF IsOfOp
<1> QED
  BY <1>0, <1>1, <1>2, <1>3, <1>4, <1>5, <1>6, <1>7, <1>8 DEF Operations

(* The accounts of an instruction as they are stored.                      *)
LEMMA MetasTyped ==
    ASSUME NEW ix, NEW roles, NEW n \in 1 .. 5, Len(roles) = n, DOMAIN roles = 1 .. n,
           \A k \in 1 .. n : ix[roles[k]] \in Keys
    PROVE  /\ Metas(ix, roles) \in Accounts.values
           /\ Len(Metas(ix, roles)) = n /\ FitsU32(n)
<1> DEFINE S == [pubkey : Pubkey.values, is_signer : BOOLEAN, is_writable : BOOLEAN]
           Meta(k) == [pubkey |-> KeyBytes[ix[roles[k]]],
                       is_signer |-> ix[roles[k]] \in ix.signed,
                       is_writable |-> ix[roles[k]] \in ix.writable]
<1>1. Accounts.values = Seq(S)
  BY DEF Accounts, VecOf, TransactionInstructionAccount, StructOf
<1>2. ASSUME NEW k \in 1 .. n PROVE Meta(k) \in S
  <2>1. KeyBytes[ix[roles[k]]] \in Pubkey.values
    BY KeysHave32Bytes
  <2> QED
    BY <2>1
<1>3. Metas(ix, roles) = [k \in 1 .. n |-> Meta(k)]
  BY DEF Metas
<1> HIDE DEF S, Meta
<1>4. Metas(ix, roles) \in Seq(S) /\ Len(Metas(ix, roles)) = n
  BY <1>2, <1>3
<1>5. FitsU32(n)
  BY SmallFits
<1> QED
  BY <1>1, <1>4, <1>5

OperationMetas(ix) ==
    LET keys == Builder[ix.op].keys
        metas == Metas(ix, keys)
    IN  /\ metas \in Accounts.values /\ FitsU32(Len(metas))
        /\ Len(keys) \in 1 .. 5 /\ DOMAIN keys = 1 .. Len(keys) /\ Len(metas) = Len(keys)

(* The accounts of any operation.                                          *)
LEMMA MetasOfOperation ==
    ASSUME NEW ix \in Instructions, ix.op # "transfer"
    PROVE  OperationMetas(ix)
<1> DEFINE keys == Builder[ix.op].keys
           n == Len(keys)
<1>1. n \in 1 .. 5 /\ DOMAIN keys = 1 .. n /\ \A k \in DOMAIN keys : ix[keys[k]] \in Keys
  BY RolesAreKeys
<1>2. Len(keys) = n
  OBVIOUS
<1> HIDE DEF keys, n
<1>3. /\ Metas(ix, keys) \in Accounts.values
      /\ Len(Metas(ix, keys)) = n /\ FitsU32(n)
  BY <1>1, <1>2, MetasTyped
<1> QED
  BY <1>1, <1>2, <1>3 DEF OperationMetas, keys

(* An address as bytes.                                                    *)
LEMMA KeyTyped == ASSUME NEW k \in Keys PROVE KeyBytes[k] \in Pubkey.values
BY KeysHave32Bytes

(* What BuiltWith makes of an operation of this program.                   *)
LEMMA OperationBuiltWith ==
    ASSUME NEW built, NEW ix, ix.op # "transfer"
    PROVE  BuiltWith(built, ix)
             = [program_id |-> KeyBytes[ProgramId],
                accounts |-> Metas(ix, Builder[ix.op].keys),
                data |-> U8Format.write[Discriminator[ix.op]]
                           \o Builder[ix.op].schema.write[Arguments(built, ix)]]
BY SMT DEF BuiltWith

(* What it makes of a transfer.                                            *)
LEMMA TransferBuiltWith ==
    ASSUME NEW built, NEW ix, ix.op = "transfer"
    PROVE  BuiltWith(built, ix)
             = [program_id |-> KeyBytes[SystemProgram],
                accounts |-> Metas(ix, <<"from", "to">>),
                data |-> Bytes(2) \o Bytes(ix.amount)
                           \o Bytes((ix.amount \div 65536) \div 65536)]
BY SMT DEF BuiltWith

(* An instruction of this program as its builder makes it.                 *)
LEMMA BuiltOperation ==
    ASSUME NEW ix \in Instructions, ix.op # "transfer"
    PROVE  /\ Built[ix].program_id = KeyBytes[ProgramId]
           /\ Built[ix].accounts = Metas(ix, Builder[ix.op].keys)
           /\ Built[ix].data = U8Format.write[Discriminator[ix.op]]
                                 \o HandlerOf(ix.op).data.write[Arguments(Built, ix)]
           /\ Built[ix] = [program_id |-> Built[ix].program_id,
                           accounts |-> Built[ix].accounts, data |-> Built[ix].data]
<1> DEFINE bytes == U8Format.write[Discriminator[ix.op]]
                      \o Builder[ix.op].schema.write[Arguments(Built, ix)]
           metas == Metas(ix, Builder[ix.op].keys)
<1>1. Built[ix] = BuiltWith(Built, ix)
  BY BuiltUnfolds
<1>2. BuiltWith(Built, ix)
        = [program_id |-> KeyBytes[ProgramId], accounts |-> metas, data |-> bytes]
  BY OperationBuiltWith
<1>3. HandlerOf(ix.op).data = Builder[ix.op].schema
  BY OperationOf, BuilderAndHandlerAgree
<1>4. bytes = U8Format.write[Discriminator[ix.op]]
                \o HandlerOf(ix.op).data.write[Arguments(Built, ix)]
  BY <1>3
<1> HIDE DEF bytes, metas
<1>5. /\ Built[ix].program_id = KeyBytes[ProgramId] /\ Built[ix].accounts = metas
      /\ Built[ix].data = bytes
      /\ Built[ix] = [program_id |-> Built[ix].program_id,
                      accounts |-> Built[ix].accounts, data |-> Built[ix].data]
  BY <1>1, <1>2
<1> QED
  BY <1>4, <1>5 DEF metas

(* A transfer can be stored.                                               *)
LEMMA BuiltTransfer ==
    ASSUME NEW ix \in Instructions, ix.op = "transfer"
    PROVE  IsEncodable(Built[ix])
<1> DEFINE roles == <<"from", "to">>
           d == Built[ix]
           high == (ix.amount \div 65536) \div 65536
<1>1. ix["from"] \in Keys /\ ix["to"] \in Keys /\ ix.amount \in Nat
  BY TransferIxTyped DEF IsOfOp
<1>2. d = [program_id |-> KeyBytes[SystemProgram], accounts |-> Metas(ix, roles),
           data |-> Bytes(2) \o Bytes(ix.amount) \o Bytes(high)]
  <2>1. d = BuiltWith(Built, ix)
    BY BuiltUnfolds
  <2> HIDE DEF d
  <2> QED
    BY <2>1, TransferBuiltWith
<1>3. Metas(ix, roles) \in Accounts.values /\ FitsU32(Len(Metas(ix, roles)))
  <2>1. 2 \in 1 .. 5 /\ Len(roles) = 2 /\ DOMAIN roles = 1 .. 2
        /\ \A k \in 1 .. 2 : ix[roles[k]] \in Keys
    BY <1>1
  <2> HIDE DEF roles
  <2> QED
    BY <2>1, MetasTyped
<1>4. Bytes(2) \o Bytes(ix.amount) \o Bytes(high) \in Seq(Byte)
  <2>1. high \in Nat
    BY <1>1
  <2> HIDE DEF high
  <2>2. Bytes(2) \in Seq(Byte) /\ Bytes(ix.amount) \in Seq(Byte) /\ Bytes(high) \in Seq(Byte)
    BY <1>1, <2>1, FourBytes
  <2> QED
    BY <2>2, ConcatProperties
<1>5. KeyBytes[SystemProgram] \in Pubkey.values
  BY KeyTyped DEF Keys
<1> HIDE DEF roles, high
<1>6. d \in [program_id : Pubkey.values, accounts : Accounts.values, data : Seq(Byte)]
  BY <1>2, <1>3, <1>4, <1>5
<1>7. FitsU32(Len(d.data))
  BY InstructionsFit
<1> QED
  BY <1>2, <1>3, <1>6, <1>7
     DEF IsEncodable, Encodable, TransactionInstructionData, StructOf

(* So can an operation, if the instructions it stores can.                 *)
LEMMA BuiltOfStored ==
    ASSUME NEW ix \in Instructions, ix.op # "transfer",
           ix.op = "propose_transaction" => StoredAre(Built, ix)
    PROVE  IsEncodable(Built[ix])
<1> DEFINE d == Built[ix]
           n == Len(Builder[ix.op].keys)
           body == HandlerOf(ix.op).data.write[Arguments(Built, ix)]
<1>1. /\ d.program_id = KeyBytes[ProgramId]
      /\ d.accounts = Metas(ix, Builder[ix.op].keys)
      /\ d.data = U8Format.write[Discriminator[ix.op]] \o body
      /\ d = [program_id |-> d.program_id, accounts |-> d.accounts, data |-> d.data]
  BY BuiltOperation
<1>2. OperationMetas(ix)
  BY MetasOfOperation
<1>3. d.accounts \in Accounts.values /\ FitsU32(Len(d.accounts))
  BY <1>1, <1>2 DEF OperationMetas
<1>4. d.data \in Seq(Byte)
  <2>1. body \in Seq(Byte)
    BY ArgumentsTrip DEF Trips
  <2>2. Discriminator[ix.op] \in Byte
    BY OperationOf, BuilderAndHandlerAgree DEF Byte
  <2>3. U8Format.write[Discriminator[ix.op]] \in Seq(Byte)
    BY <2>2, U8Trips DEF Trips
  <2> HIDE DEF body
  <2> QED
    BY <1>1, <2>1, <2>3, ConcatProperties
<1>5. d.program_id \in Pubkey.values
  BY <1>1, KeyTyped DEF Keys
<1>6. FitsU32(Len(d.data))
  BY InstructionsFit
<1> HIDE DEF d, body
<1>7. d \in [program_id : Pubkey.values, accounts : Accounts.values, data : Seq(Byte)]
  BY <1>1, <1>3, <1>4, <1>5
<1> QED
  BY <1>3, <1>6, <1>7 DEF IsEncodable, Encodable, TransactionInstructionData, StructOf, d

(* So can every instruction, by induction over its nesting.                *)
LEMMA BuiltIsEncodable == ASSUME NEW ix \in Instructions PROVE IsEncodable(Built[ix])
<1> DEFINE T == {n \in Nat : \A i \in Instructions :
                               Nesting[i] < n => IsEncodable(Built[i])}
<1>1. 0 \in T
  BY InstructionsNestFinitely
<1>2. ASSUME NEW n \in Nat, n \in T PROVE n + 1 \in T
  <2>1. ASSUME NEW i \in Instructions, Nesting[i] < n + 1 PROVE IsEncodable(Built[i])
    <3>1. ASSUME i.op = "propose_transaction" PROVE StoredAre(Built, i)
      <4>1. ASSUME NEW k \in DOMAIN i.instructions
            PROVE  IsEncodable(Built[i.instructions[k]])
        <5>1. /\ i.instructions[k] \in Instructions
              /\ Nesting[i.instructions[k]] \in Nat /\ Nesting[i] \in Nat
              /\ Nesting[i.instructions[k]] < Nesting[i]
          BY <3>1, StoredIsLessNested
        <5>2. Nesting[i.instructions[k]] < n
          BY <2>1, <5>1
        <5> QED
          BY <1>2, <5>1, <5>2
      <4> QED
        BY <4>1 DEF StoredAre
    <3> QED
      BY <3>1, BuiltTransfer, BuiltOfStored
  <2> QED
    BY <2>1
<1> HIDE DEF T
<1>3. Nesting[ix] + 1 \in T /\ Nesting[ix] < Nesting[ix] + 1
  <2>1. Nesting[ix] \in Nat /\ Nesting[ix] + 1 \in Nat /\ Nesting[ix] < Nesting[ix] + 1
    BY InstructionsNestFinitely
  <2> QED
    BY <1>1, <1>2, <2>1, Induction
<1> QED
  BY <1>3 DEF T

(* Its handler can read its arguments.                                     *)
LEMMA BuiltArgumentsTrip ==
    ASSUME NEW ix \in Instructions, ix.op # "transfer"
    PROVE  Trips(HandlerOf(ix.op).data, Arguments(Built, ix))
<1>1. ASSUME ix.op = "propose_transaction" PROVE StoredAre(Built, ix)
  BY <1>1, StoredIsLessNested, BuiltIsEncodable DEF StoredAre
<1> QED
  BY <1>1, ArgumentsTrip

-----------------------------------------------------------------------------
(* A built instruction arrives.                                            *)

(* try_from_slice of what was written gives what was meant.                *)
LEMMA TryTripped ==
    ASSUME NEW format, NEW v, Trips(format, v)
    PROVE  TryFromSlice(format, format.write[v]) = {v}
<1> DEFINE bytes == format.write[v]
<1>1. bytes \in Seq(Byte) /\ << >> \in Seq(Byte) /\ bytes \o << >> = bytes
  BY DEF Trips
<1>2. format.read[bytes] = Success(v, << >>)
  BY <1>1 DEF Trips, ReadsBack
<1> HIDE DEF bytes
<1>3. {s \in {<<v, << >> >>} : s[2] = << >>} = {<<v, << >> >>}
  OBVIOUS
<1>4. {r[1] : r \in {<<v, << >> >>}} = {v}
  OBVIOUS
<1>5. TryFromSlice(format, bytes) = {v}
  BY <1>2, <1>3, <1>4 DEF TryFromSlice, Success
<1> QED
  BY <1>5 DEF bytes

(* So does deserialize of the client.                                      *)
LEMMA DeserializeTripped ==
    ASSUME NEW format, NEW v, Trips(format, v)
    PROVE  Deserialize(format, format.write[v]) = {v}
<1> DEFINE bytes == format.write[v]
<1>1. bytes \in Seq(Byte) /\ << >> \in Seq(Byte) /\ bytes \o << >> = bytes
  BY DEF Trips
<1>2. format.read[bytes] = Success(v, << >>)
  BY <1>1 DEF Trips, ReadsBack
<1> HIDE DEF bytes
<1>3. {r[1] : r \in {<<v, << >> >>}} = {v}
  OBVIOUS
<1>4. Deserialize(format, bytes) = {v}
  BY <1>2, <1>3 DEF Deserialize, Success
<1> QED
  BY <1>4 DEF bytes

(* process_instruction calls the handler the builder was for.              *)
LEMMA DispatchBuilt ==
    ASSUME NEW ix \in Instructions, ix.op # "transfer"
    PROVE  Dispatch(Built[ix].data) = {<<Discriminator[ix.op] + 1, Arguments(Built, ix)>>}
<1> DEFINE n == Discriminator[ix.op]
           body == HandlerOf(ix.op).data.write[Arguments(Built, ix)]
           bytes == Built[ix].data
<1>1. n \in 0 .. 7
  BY OperationOf, BuilderAndHandlerAgree
<1>2. bytes = <<n>> \o body
  <2>1. U8Format.write[n] = <<n>>
    <3>1. n \in Byte
      BY <1>1 DEF Byte
    <3> HIDE DEF n
    <3> QED
      BY <3>1 DEF U8Format
  <2> QED
    BY <2>1, BuiltOperation
<1>3. body \in Seq(Byte)
  BY BuiltArgumentsTrip DEF Trips
<1>4. bytes # << >> /\ Head(bytes) = n /\ Tail(bytes) = body
  <2> HIDE DEF body, bytes, n
  <2>1. n \in Byte
    BY <1>1 DEF Byte
  <2>2. <<n>> \in Seq(Byte) /\ Len(<<n>>) = 1
    BY <2>1
  <2>3. bytes \in Seq(Byte) /\ Len(bytes) = 1 + Len(body)
        /\ \A i \in 1 .. 1 + Len(body) : bytes[i] = IF i <= 1 THEN <<n>>[i] ELSE body[i - 1]
    BY <1>2, <1>3, <2>2, ConcatProperties
  <2>4. Len(body) \in Nat
    BY <1>3
  <2>5. bytes # << >> /\ bytes[1] = n
    BY <2>3, <2>4
  <2>6. Tail(bytes) \in Seq(Byte) /\ Len(Tail(bytes)) = Len(body)
        /\ \A i \in 1 .. Len(body) : Tail(bytes)[i] = bytes[i + 1]
    BY <2>3, <2>4, <2>5, HeadTailProperties
  <2>7. \A i \in 1 .. Len(body) : Tail(bytes)[i] = body[i]
    BY <2>3, <2>4, <2>6
  <2> QED
    BY <1>3, <2>5, <2>6, <2>7, SeqEqual
<1>5. TryFromSlice(HandlerOf(ix.op).data, body) = {Arguments(Built, ix)}
  BY BuiltArgumentsTrip, TryTripped
<1>6. Len(Handlers) = 8
  BY DEF Handlers
<1> HIDE DEF n, body, bytes
<1>7. Dispatch(bytes) = {<<n + 1, a>> : a \in TryFromSlice(HandlerOf(ix.op).data, body)}
  <2>1. ~(bytes = << >> \/ Head(bytes) >= Len(Handlers))
    BY <1>1, <1>4, <1>6
  <2>2. Dispatch(bytes) = {<<Head(bytes) + 1, a>> :
                             a \in TryFromSlice(Handlers[Head(bytes) + 1].data, Tail(bytes))}
    BY <2>1, Zenon DEF Dispatch
  <2>3. Handlers[n + 1] = HandlerOf(ix.op)
    BY DEF HandlerOf, n
  <2> QED
    BY <1>4, <2>2, <2>3
<1>8. Dispatch(bytes) = {<<n + 1, Arguments(Built, ix)>>}
  BY <1>5, <1>7
<1> QED
  BY <1>8 DEF n, bytes

(* The signers of a built instruction are those it was given.              *)
LEMMA FlaggedSigned ==
    ASSUME NEW ix, NEW roles, ix.signed \subseteq {ix[role] : role \in ToSet(roles)}
    PROVE  Flagged(Metas(ix, roles), "is_signer") = {KeyBytes[a] : a \in ix.signed}
<1>1. Flagged(Metas(ix, roles), "is_signer")
        = {KeyBytes[ix[roles[k]]] : k \in {j \in DOMAIN roles : ix[roles[j]] \in ix.signed}}
  BY DEF Flagged, Metas
<1>2. ASSUME NEW a \in ix.signed PROVE \E k \in DOMAIN roles : ix[roles[k]] = a
  BY DEF ToSet
<1> QED
  BY <1>1, <1>2

(* The same for writable accounts.                                         *)
LEMMA FlaggedWritable ==
    ASSUME NEW ix, NEW roles, ix.writable \subseteq {ix[role] : role \in ToSet(roles)}
    PROVE  Flagged(Metas(ix, roles), "is_writable") = {KeyBytes[a] : a \in ix.writable}
<1>1. Flagged(Metas(ix, roles), "is_writable")
        = {KeyBytes[ix[roles[k]]] : k \in {j \in DOMAIN roles : ix[roles[j]] \in ix.writable}}
  BY DEF Flagged, Metas
<1>2. ASSUME NEW a \in ix.writable PROVE \E k \in DOMAIN roles : ix[roles[k]] = a
  BY DEF ToSet
<1> QED
  BY <1>1, <1>2

(* What a handler receives is what the client sent.                        *)
LEMMA BuiltArrives ==
    ASSUME NEW ix \in Instructions, ix.op # "transfer"
    PROVE  Received(Built[ix]) = {Sent(ix)}
<1> DEFINE raw == Built[ix]
           n == Discriminator[ix.op] + 1
           keys == Builder[ix.op].keys
           Roles(d) == {<<Handlers[d[1]].accounts[k], raw.accounts[k].pubkey>> :
                          k \in DOMAIN Handlers[d[1]].accounts}
           Call(d) == [op |-> Handlers[d[1]].op, arguments |-> d[2],
                       accounts |-> Roles(d),
                       signed |-> Flagged(raw.accounts, "is_signer"),
                       writable |-> Flagged(raw.accounts, "is_writable")]
           Enough(e) == Len(Handlers[e[1]].accounts) <= Len(raw.accounts)
           it == <<n, Arguments(Built, ix)>>
<1>1. /\ Handlers[n].op = ix.op /\ Handlers[n].accounts = keys
  BY OperationOf, BuilderAndHandlerAgree DEF HandlerOf
<1>2. raw.accounts = Metas(ix, keys)
  BY BuiltOperation
<1>3. Len(keys) \in 1 .. 5 /\ DOMAIN keys = 1 .. Len(keys)
      /\ Len(Metas(ix, keys)) = Len(keys)
  BY MetasOfOperation DEF OperationMetas
<1>4. Dispatch(raw.data) = {it}
  BY DispatchBuilt
<1>5. Received(raw) = {Call(d) : d \in {e \in Dispatch(raw.data) : Enough(e)}}
  BY DEF Received
<1>6. Enough(it)
  BY <1>1, <1>2, <1>3
<1>7. Roles(it) = {<<role, KeyBytes[ix[role]]>> : role \in ToSet(keys)}
  <2>1. Roles(it) = {<<keys[k], raw.accounts[k].pubkey>> : k \in DOMAIN keys}
    BY <1>1
  <2>2. \A k \in DOMAIN keys : raw.accounts[k].pubkey = KeyBytes[ix[keys[k]]]
    <3> HIDE DEF keys, raw
    <3>1. \A k \in DOMAIN keys : Metas(ix, keys)[k].pubkey = KeyBytes[ix[keys[k]]]
      BY DEF Metas
    <3> QED
      BY <1>2, <3>1
  <2> HIDE DEF keys, raw
  <2>3. Roles(it) = {<<keys[k], KeyBytes[ix[keys[k]]]>> : k \in DOMAIN keys}
    BY <2>1, <2>2
  <2> QED
    BY <2>3 DEF ToSet
<1>8. /\ Flagged(raw.accounts, "is_signer") = {KeyBytes[a] : a \in ix.signed}
      /\ Flagged(raw.accounts, "is_writable") = {KeyBytes[a] : a \in ix.writable}
  BY <1>2, FlagsAreOfAccounts, FlaggedSigned, FlaggedWritable
<1>9. Call(it) = Sent(ix)
  BY <1>1, <1>7, <1>8 DEF Sent
<1> HIDE DEF Call, Enough, it
<1> QED
  BY <1>4, <1>5, <1>6, <1>9

-----------------------------------------------------------------------------
(* What the handlers do to an account.                                     *)

IsProgramAccount(a) == a.kind \in {"multisig", "transaction"} /\ a.program = "multisig"

FitsMultisig(a) == FitsU32(a.owner_set_seqno) /\ a.size <= MultisigLen(255, 0)

FitsTransaction(a) ==
    /\ FitsU32(Len(a.instructions))
    /\ FitsU32(Len(a.signers))
    /\ FitsU32(a.owner_set_seqno)

(* What the program keeps in an account can be counted in four bytes.      *)
Fits(a) ==
    /\ a.kind = "multisig" => FitsMultisig(a)
    /\ a.kind = "transaction" => FitsTransaction(a)

FitsAccounts(A) == \A x \in Addresses : IsProgramAccount(A[x]) => Fits(A[x])

FitsInv == FitsAccounts(accounts) /\ FitsAccounts(committed.accounts)

(* The data of both takes the same space.                                  *)
SameLayout(a, b) ==
    /\ IsProgramAccount(a)
    /\ a.kind = b.kind
    /\ a.kind = "multisig" => a.size = b.size
    /\ a.kind = "transaction" => a.instructions = b.instructions
                                 /\ Len(a.signers) = Len(b.signers)

(* An account is left alone, closed, created, or written in place.         *)
Outcome(a, b) ==
    \/ b = a
    \/ b = EmptyAccount
    \/ IsProgramAccount(b) /\ Fits(b) /\ (a = EmptyAccount \/ SameLayout(a, b))

(* A step that writes one account leaves the others alone.                 *)
LEMMA OneWritten ==
    ASSUME TypeOK, NEW y \in Addresses, NEW new,
           accounts' = [accounts EXCEPT ![y] = new], Outcome(accounts[y], new),
           NEW x \in Addresses
    PROVE  Outcome(accounts[x], accounts'[x])
<1>1. CASE x = y
  BY <1>1, LedgerTyped
<1>2. CASE x # y
  BY <1>2, LedgerTyped DEF Outcome
<1> QED
  BY <1>1, <1>2

(* A smaller number fits too.                                              *)
LEMMA FewerFits ==
    ASSUME NEW n \in Nat, NEW m \in Nat, m <= n, FitsU32(n)
    PROVE  FitsU32(m)
<1>1. n \div 65536 \in Nat /\ m \div 65536 \in Nat
  OBVIOUS
<1>2. m \div 65536 <= n \div 65536
  OBVIOUS
<1> QED
  BY <1>1, <1>2 DEF FitsU32

(* The increment of owner_set_seqno wraps where a u32 does.                *)
LEMMA NextSeqnoFits ==
    ASSUME NEW n \in Nat
    PROVE  (n + 1) % SeqnoModulus \in Nat /\ FitsU32((n + 1) % SeqnoModulus)
<1>1. SeqnoModulus \in Nat \ {0} /\ FitsU32(SeqnoModulus - 1)
  BY SeqnoFits
<1>2. (n + 1) % SeqnoModulus \in 0 .. SeqnoModulus - 1
  BY <1>1
<1> QED
  BY <1>1, <1>2, FewerFits

(* create_multisig *)
LEMMA CreateMultisigOutcome ==
    ASSUME TypeOK, CreateMultisig, NEW x \in Addresses
    PROVE  Outcome(accounts[x], accounts'[x])
<1>1. PICK c \in Calls("create_multisig") :
         CreateAccount(c, c.ix.multisig, NewMultisig(c.ix))
  BY DEF CreateMultisig
<1>2. c.ix.multisig \in Addresses /\ Len(c.ix.owners) \in Nat /\ Len(c.ix.owners) < 256
  BY CreateIx DEF Addresses, KeyPairs
<1>3. MultisigLen(Len(c.ix.owners), 0) <= MultisigLen(255, 0)
  BY <1>2 DEF MultisigLen, PubkeyBytes
<1>4. FitsU32(0)
  BY SmallFits
<1>5. Outcome(accounts[c.ix.multisig], NewMultisig(c.ix))
  BY <1>1, <1>3, <1>4
     DEF Outcome, CreateAccount, NewMultisig, IsProgramAccount, Fits, FitsMultisig
<1> QED
  BY <1>1, <1>2, <1>5, OneWritten DEF CreateAccount

(* propose_transaction *)
LEMMA ProposeTransactionOutcome ==
    ASSUME TypeOK, GoodInv, FitsInv, ProposeTransaction, NEW x \in Addresses
    PROVE  Outcome(accounts[x], accounts'[x])
<1>1. PICK c \in Calls("propose_transaction") :
         /\ OwnedByProgram({c.ix.multisig})
         /\ IsMultisig(accounts[c.ix.multisig])
         /\ \E k \in DOMAIN accounts[c.ix.multisig].owners :
               CreateAccount(c, c.ix.transaction,
                             NewTransaction(c, accounts[c.ix.multisig], k))
  BY DEF ProposeTransaction, ValidatePropose
<1> DEFINE ms == accounts[c.ix.multisig]
<1>2. /\ c.ix.multisig \in Addresses /\ c.ix.transaction \in Addresses
      /\ IsOfOp(c.ix, "propose_transaction")
  BY ProposeIx, CallType DEF Addresses, KeyPairs, IsOfOp
<1>3. FitsU32(Len(c.ix.instructions))
  BY <1>2, ProposeTransactionTyped
<1>4. ms \in MultisigAccount /\ GoodMultisig(ms) /\ FitsMultisig(ms)
  <2>1. ms \in MultisigAccount /\ IsProgramMultisig(ms)
    BY <1>1, <1>2, LedgerTyped, MultisigRecord
       DEF IsMultisig, OwnedByProgram, IsProgramMultisig
  <2> QED
    BY <1>2, <2>1 DEF GoodInv, GoodAccounts, FitsInv, FitsAccounts, Fits,
                      IsProgramMultisig, IsProgramAccount
<1>5. FitsU32(Len(ms.owners)) /\ Len(ms.owners) \in Nat
  BY <1>4, SmallFits DEF GoodMultisig, MultisigAccount
<1>6. PICK k : CreateAccount(c, c.ix.transaction, NewTransaction(c, ms, k))
  BY <1>1
<1> DEFINE tx == NewTransaction(c, ms, k)
<1>7. /\ tx.kind = "transaction" /\ tx.program = "multisig"
      /\ tx.instructions = c.ix.instructions
      /\ tx.owner_set_seqno = ms.owner_set_seqno
      /\ tx.signers = [j \in 1 .. Len(ms.owners) |-> j = k]
  BY DEF NewTransaction
<1> HIDE DEF tx, ms
<1>8. Len(tx.signers) = Len(ms.owners)
  BY <1>5, <1>7
<1>9. Outcome(accounts[c.ix.transaction], tx)
  BY <1>3, <1>4, <1>5, <1>6, <1>7, <1>8
     DEF Outcome, CreateAccount, IsProgramAccount, Fits, FitsTransaction, FitsMultisig
<1> QED
  BY <1>2, <1>6, <1>9, OneWritten DEF CreateAccount, tx

(* approve_transaction *)
LEMMA ApproveTransactionOutcome ==
    ASSUME TypeOK, FitsInv, ApproveTransaction, NEW x \in Addresses
    PROVE  Outcome(accounts[x], accounts'[x])
<1>1. PICK c \in Calls("approve_transaction") :
         /\ IsTransaction(accounts[c.ix.transaction])
         /\ OwnedByProgram({c.ix.multisig, c.ix.transaction})
         /\ \E k \in DOMAIN accounts[c.ix.transaction].signers :
               accounts' = [accounts EXCEPT ![c.ix.transaction] =
                              Approved(c, accounts[c.ix.transaction], k)]
  BY DEF ApproveTransaction, ValidateApprove
<1> DEFINE tx == accounts[c.ix.transaction]
<1>2. c.ix.transaction \in Addresses
  BY ApproveIx
<1>3. /\ tx \in TransactionAccount /\ IsProgramAccount(tx) /\ FitsTransaction(tx)
      /\ tx.kind = "transaction"
  <2>1. tx \in TransactionAccount /\ IsProgramAccount(tx) /\ tx.kind = "transaction"
    BY <1>1, <1>2, LedgerTyped, TransactionRecord
       DEF IsTransaction, OwnedByProgram, IsProgramAccount
  <2> QED
    BY <1>2, <2>1 DEF FitsInv, FitsAccounts, Fits
<1>4. PICK k \in DOMAIN tx.signers :
         accounts' = [accounts EXCEPT ![c.ix.transaction] = Approved(c, tx, k)]
  BY <1>1
<1> DEFINE new == Approved(c, tx, k)
<1>5. /\ new.kind = "transaction" /\ new.program = tx.program
      /\ new.instructions = tx.instructions
      /\ new.owner_set_seqno = tx.owner_set_seqno
      /\ new.signers = [tx.signers EXCEPT ![k] = TRUE]
  BY <1>3 DEF Approved, TransactionAccount
<1>6. Len(new.signers) = Len(tx.signers)
  <2>1. tx.signers \in Seq(BOOLEAN)
    BY <1>3 DEF TransactionAccount
  <2> HIDE DEF tx, new
  <2> QED
    BY <1>5, <2>1
<1> HIDE DEF tx, new
<1>7. Outcome(tx, new)
  BY <1>3, <1>5, <1>6
     DEF Outcome, SameLayout, IsProgramAccount, Fits, FitsTransaction
<1> QED
  BY <1>2, <1>4, <1>7, OneWritten DEF tx, new

(* What Serialize writes over a multisig of the program.                   *)
LEMMA SerializeOutcome ==
    ASSUME TypeOK, NEW c, c.ix.multisig \in Addresses, NEW ms, NEW old,
           old = accounts[c.ix.multisig], IsProgramAccount(old), IsProgramAccount(ms),
           old.kind = "multisig", ms.kind = "multisig", ms.size = old.size,
           FitsMultisig(ms), Serialize(c, ms), NEW x \in Addresses
    PROVE  Outcome(accounts[x], accounts'[x])
<1>1. Outcome(old, ms)
  BY DEF Outcome, SameLayout, Fits
<1> QED
  BY <1>1, OneWritten DEF Serialize

(* The multisig a handler changes.                                         *)
LEMMA ChangedMultisig ==
    ASSUME TypeOK, FitsInv, NEW m \in Addresses, NEW ms, ms = accounts[m],
           IsMultisig(ms), OwnedByProgram({m})
    PROVE  /\ ms \in MultisigAccount /\ ms.kind = "multisig" /\ IsProgramAccount(ms)
           /\ FitsMultisig(ms)
<1>1. ms \in MultisigAccount /\ ms.kind = "multisig" /\ IsProgramAccount(ms)
  BY LedgerTyped, MultisigRecord DEF IsMultisig, OwnedByProgram, IsProgramAccount
<1> QED
  BY <1>1 DEF FitsInv, FitsAccounts, Fits

(* execute_set_owners keeps the space and the range of the number.         *)
LEMMA WithOwnersFits ==
    ASSUME NEW ms \in MultisigAccount, IsProgramAccount(ms), FitsMultisig(ms), NEW owners
    PROVE  LET new == WithOwners(ms, owners)
           IN  /\ new.kind = "multisig" /\ IsProgramAccount(new)
               /\ new.size = ms.size /\ FitsMultisig(new)
<1> DEFINE new == WithOwners(ms, owners)
<1>1. /\ new.kind = "multisig" /\ new.program = ms.program /\ new.size = ms.size
      /\ new.owner_set_seqno = (ms.owner_set_seqno + 1) % SeqnoModulus
  BY DEF WithOwners, MultisigAccount
<1>2. FitsU32((ms.owner_set_seqno + 1) % SeqnoModulus)
  BY NextSeqnoFits DEF MultisigAccount
<1> HIDE DEF new
<1>3. FitsMultisig(new)
  BY <1>1, <1>2 DEF FitsMultisig
<1>4. IsProgramAccount(new)
  BY <1>1 DEF IsProgramAccount
<1> QED
  BY <1>1, <1>3, <1>4 DEF new

(* execute_change_threshold keeps them too.                                *)
LEMMA WithThresholdFits ==
    ASSUME NEW ms \in MultisigAccount, IsProgramAccount(ms), FitsMultisig(ms),
           NEW threshold
    PROVE  LET new == WithThreshold(ms, threshold)
           IN  /\ new.kind = "multisig" /\ IsProgramAccount(new)
               /\ new.size = ms.size /\ FitsMultisig(new)
BY DEF WithThreshold, MultisigAccount, IsProgramAccount, FitsMultisig

(* Every step that is not the end of a Solana transaction.                 *)
LEMMA StepOutcome ==
    ASSUME TypeOK, GoodInv, FitsInv, Begin \/ Handler, NEW x \in Addresses
    PROVE  Outcome(accounts[x], accounts'[x])
<1>1. CASE CreateMultisig
  BY <1>1, CreateMultisigOutcome
<1>2. CASE ProposeTransaction
  BY <1>2, ProposeTransactionOutcome
<1>3. CASE ApproveTransaction
  BY <1>3, ApproveTransactionOutcome
<1>4. CASE FinishExecution
  <2>1. Last(stack).transaction \in Addresses
    BY <1>4, LastFrame DEF FinishExecution, FrameType
  <2> QED
    BY <1>4, <2>1, OneWritten DEF FinishExecution, CloseAccount, Outcome
<1>5. CASE CancelTransaction
  <2>1. PICK c \in Calls("cancel_transaction") :
           CloseAccount(c.ix.transaction, c.ix.refundee)
    BY <1>5 DEF CancelTransaction
  <2> QED
    BY <2>1, CancelIx, OneWritten DEF CloseAccount, Outcome
<1>6. CASE SetOwners
  <2>1. PICK c \in Calls("set_owners") :
           /\ IsMultisig(accounts[c.ix.multisig])
           /\ OwnedByProgram({c.ix.multisig})
           /\ Serialize(c, WithOwners(accounts[c.ix.multisig], c.ix.owners))
    BY <1>6 DEF SetOwners
  <2> DEFINE ms == accounts[c.ix.multisig]
             new == WithOwners(ms, c.ix.owners)
  <2>2. c.ix.multisig \in Addresses
    BY SetOwnersTyped
  <2>3. /\ ms \in MultisigAccount /\ ms.kind = "multisig" /\ IsProgramAccount(ms)
        /\ FitsMultisig(ms)
    BY <2>1, <2>2, ChangedMultisig
  <2> HIDE DEF ms
  <2>4. /\ new.kind = "multisig" /\ IsProgramAccount(new)
        /\ new.size = ms.size /\ FitsMultisig(new)
    BY <2>3, WithOwnersFits
  <2>5. Serialize(c, new) /\ ms = accounts[c.ix.multisig]
    BY <2>1 DEF ms
  <2> HIDE DEF new
  <2> QED
    BY <2>2, <2>3, <2>4, <2>5, SerializeOutcome
<1>7. CASE ChangeThreshold
  <2>1. PICK c \in Calls("change_threshold") :
           /\ IsMultisig(accounts[c.ix.multisig])
           /\ OwnedByProgram({c.ix.multisig})
           /\ Serialize(c, WithThreshold(accounts[c.ix.multisig], c.ix.threshold))
    BY <1>7 DEF ChangeThreshold
  <2> DEFINE ms == accounts[c.ix.multisig]
             new == WithThreshold(ms, c.ix.threshold)
  <2>2. c.ix.multisig \in Addresses
    BY ChangeThresholdTyped
  <2>3. /\ ms \in MultisigAccount /\ ms.kind = "multisig" /\ IsProgramAccount(ms)
        /\ FitsMultisig(ms)
    BY <2>1, <2>2, ChangedMultisig
  <2> HIDE DEF ms
  <2>4. /\ new.kind = "multisig" /\ IsProgramAccount(new)
        /\ new.size = ms.size /\ FitsMultisig(new)
    BY <2>3, WithThresholdFits
  <2>5. Serialize(c, new) /\ ms = accounts[c.ix.multisig]
    BY <2>1 DEF ms
  <2> HIDE DEF new
  <2> QED
    BY <2>2, <2>3, <2>4, <2>5, SerializeOutcome
<1>8. CASE SetOwnersAndChangeThreshold
  <2>1. PICK c \in Calls("set_owners_and_change_threshold") :
           /\ IsMultisig(accounts[c.ix.multisig])
           /\ OwnedByProgram({c.ix.multisig})
           /\ Serialize(c, WithThreshold(
                              WithOwners(accounts[c.ix.multisig], c.ix.owners),
                              c.ix.threshold))
    BY <1>8 DEF SetOwnersAndChangeThreshold
  <2> DEFINE ms == accounts[c.ix.multisig]
             middle == WithOwners(ms, c.ix.owners)
             new == WithThreshold(middle, c.ix.threshold)
  <2>2. c.ix.multisig \in Addresses /\ c.ix.owners \in Seq(Addresses)
    BY SetOwnersAndChangeThresholdTyped
  <2>3. /\ ms \in MultisigAccount /\ ms.kind = "multisig" /\ IsProgramAccount(ms)
        /\ FitsMultisig(ms)
    BY <2>1, <2>2, ChangedMultisig
  <2> HIDE DEF ms
  <2>4. /\ middle.kind = "multisig" /\ IsProgramAccount(middle)
        /\ middle.size = ms.size /\ FitsMultisig(middle)
    BY <2>3, WithOwnersFits
  <2>5. middle \in MultisigAccount
    BY <2>2, <2>3, WithOwnersType
  <2> HIDE DEF middle
  <2>6. /\ new.kind = "multisig" /\ IsProgramAccount(new)
        /\ new.size = middle.size /\ FitsMultisig(new)
    BY <2>4, <2>5, WithThresholdFits
  <2>7. Serialize(c, new) /\ ms = accounts[c.ix.multisig] /\ new.size = ms.size
    BY <2>1, <2>4, <2>6 DEF ms, middle
  <2> HIDE DEF new
  <2> QED
    BY <2>2, <2>3, <2>6, <2>7, SerializeOutcome
<1>9. CASE ExecuteTransaction \/ Transfer \/ Begin
  BY <1>9 DEF ExecuteTransaction, Transfer, Begin, Outcome
<1> QED
  BY <1>1, <1>2, <1>3, <1>4, <1>5, <1>6, <1>7, <1>8, <1>9 DEF Handler

(* The program owns no account at first.                                   *)
LEMMA FitsInit == ASSUME Init PROVE FitsInv
BY InitialLedger DEF Init, FitsInv, FitsAccounts, IsProgramAccount, ledger

(* Every step keeps what the program stores countable in four bytes.       *)
LEMMA FitsStep ==
    ASSUME TypeOK, GoodInv, FitsInv, [Next]_vars
    PROVE  FitsInv'
<1>1. CASE Begin \/ Handler
  <2>1. ASSUME NEW x \in Addresses, IsProgramAccount(accounts'[x])
        PROVE  Fits(accounts'[x])
    <3>1. Outcome(accounts[x], accounts'[x])
      BY <1>1, StepOutcome
    <3>2. accounts'[x] # EmptyAccount
      BY <2>1 DEF IsProgramAccount, EmptyAccount
    <3> QED
      BY <2>1, <3>1, <3>2 DEF Outcome, FitsInv, FitsAccounts
  <2>2. committed' = committed
    BY <1>1 DEF Begin, Handler, CreateMultisig, ProposeTransaction, ApproveTransaction,
         ExecuteTransaction, FinishExecution, CancelTransaction, SetOwners,
         ChangeThreshold, SetOwnersAndChangeThreshold, Transfer, Serialize, Return
  <2> QED
    BY <2>1, <2>2 DEF FitsInv, FitsAccounts
<1>2. CASE Commit \/ Abort \/ UNCHANGED vars
  BY <1>2 DEF Commit, Abort, vars, FitsInv, FitsAccounts, ledger
<1> QED
  BY <1>1, <1>2 DEF Next

-----------------------------------------------------------------------------
(* The data of an account of the program.                                  *)

Zero(n) == Zeroes(n) \in Seq(Byte) /\ Len(Zeroes(n)) = n

(* The padding, and a new account before it is written.                    *)
LEMMA ZeroesTyped == ASSUME NEW n \in Nat PROVE Zero(n)
<1>1. 0 \in Byte
  BY DEF Byte
<1> QED
  BY <1>1 DEF Zero, Zeroes

(* An account the program may have written.                                *)
Storable(a) ==
    /\ a \in Account
    /\ IsProgramAccount(a)
    /\ Fits(a)
    /\ a.kind = "multisig" => GoodMultisig(a)

(* The bytes of an account read back to its contents and take its space.   *)
Exact(a) ==
    /\ Trips(Struct(a), Contents(a))
    /\ Len(Struct(a).write[Contents(a)]) = SpaceFor(a)
    /\ SpaceFor(a) \in Nat

(* A multisig of the program is as long as when it was created.            *)
LEMMA MultisigSpace ==
    ASSUME NEW a \in MultisigAccount, GoodMultisig(a)
    PROVE  SpaceFor(a) = a.size
BY DEF SpaceFor, GoodMultisig, IsMultisig

(* A multisig of the program.                                              *)
LEMMA MultisigExact ==
    ASSUME NEW a \in MultisigAccount, GoodMultisig(a), FitsMultisig(a)
    PROVE  Exact(a)
<1>1. /\ a.kind = "multisig" /\ a.owners \in Seq(Addresses) /\ Len(a.owners) \in Nat
      /\ Len(a.owners) < 256 /\ a.padding \in Nat /\ a.owner_set_seqno \in Nat
      /\ a.threshold \in Byte /\ a.nonce \in Byte /\ FitsU32(a.owner_set_seqno)
      /\ a.size <= MultisigLen(255, 0) /\ MultisigLen(Len(a.owners), a.padding) = a.size
  BY DEF MultisigAccount, GoodMultisig, IsMultisig, FitsMultisig, U8, Byte
<1>2. a.padding < 65536 /\ Len(a.owners) < 65536 /\ a.size \in Nat
  BY <1>1 DEF MultisigLen, PubkeyBytes
<1>3. FitsU32(Len(a.owners)) /\ FitsU32(a.padding)
  BY <1>1, <1>2, SmallFits
<1>4. /\ KeyList(a.owners) \in Seq(Pubkey.values)
      /\ Len(KeyList(a.owners)) = Len(a.owners)
  BY <1>1, KeyListTyped
<1>5. Zeroes(a.padding) \in Seq(Byte) /\ Len(Zeroes(a.padding)) = a.padding
  BY <1>1, ZeroesTyped DEF Zero
<1> DEFINE v == Contents(a)
<1>6. v = [owners |-> KeyList(a.owners), threshold |-> a.threshold, nonce |-> a.nonce,
           owner_set_seqno |-> a.owner_set_seqno, padding |-> Zeroes(a.padding)]
  BY <1>1 DEF Contents
<1>7. /\ v.owners = KeyList(a.owners) /\ v.owner_set_seqno = a.owner_set_seqno
      /\ v.padding = Zeroes(a.padding)
  BY <1>6
<1>8. v \in [owners : Seq(Pubkey.values), threshold : Byte, nonce : Byte,
             owner_set_seqno : Nat, padding : Seq(Byte)]
  BY <1>1, <1>4, <1>5, <1>6
<1>9. MultisigStruct.values = [owners : Seq(Pubkey.values), threshold : Byte, nonce : Byte,
                               owner_set_seqno : Nat, padding : Seq(Byte)]
  BY DEF MultisigStruct, StructOf
<1>10. v \in MultisigStruct.values
  BY <1>8, <1>9
<1> HIDE DEF v
<1>11. FitsU32(Len(v.owners)) /\ FitsU32(v.owner_set_seqno) /\ FitsU32(Len(v.padding))
  BY <1>1, <1>3, <1>4, <1>5, <1>7
<1>12. /\ Trips(MultisigStruct, v)
       /\ Len(MultisigStruct.write[v]) = MultisigLen(Len(v.owners), Len(v.padding))
  BY <1>10, <1>11, MultisigTrips
<1>13. Struct(a) = MultisigStruct /\ SpaceFor(a) = a.size
  BY <1>1, MultisigSpace DEF Struct
<1>14. Len(MultisigStruct.write[v]) = SpaceFor(a)
  BY <1>1, <1>4, <1>5, <1>7, <1>12, <1>13
<1> QED
  BY <1>2, <1>12, <1>13, <1>14 DEF Exact, v

(* A proposal of the program.                                              *)
LEMMA TransactionExact ==
    ASSUME NEW a \in TransactionAccount, FitsTransaction(a)
    PROVE  Exact(a)
<1>1. /\ a.kind = "transaction" /\ a.multisig \in Addresses
      /\ a.instructions \in Seq(Instructions) /\ a.signers \in Seq(BOOLEAN)
      /\ a.owner_set_seqno \in Nat /\ FitsU32(Len(a.instructions))
      /\ FitsU32(Len(a.signers)) /\ FitsU32(a.owner_set_seqno)
  BY DEF TransactionAccount, FitsTransaction
<1>2. \A k \in DOMAIN a.instructions : IsEncodable(Built[a.instructions[k]])
  BY <1>1, BuiltIsEncodable
<1> DEFINE list == [k \in DOMAIN a.instructions |-> Built[a.instructions[k]]]
<1>3. /\ list \in InstructionList.values /\ Len(list) = Len(a.instructions)
      /\ \A k \in DOMAIN list : Encodable(list[k])
  BY <1>1, <1>2, ListOfStored
<1> DEFINE v == Contents(a)
<1>4. v = [multisig |-> KeyBytes[a.multisig], instructions |-> list,
           signers |-> a.signers, owner_set_seqno |-> a.owner_set_seqno]
  BY <1>1 DEF Contents
<1> HIDE DEF list
<1>5. /\ v.instructions = list /\ v.signers = a.signers
      /\ v.owner_set_seqno = a.owner_set_seqno
  BY <1>4
<1>6. KeyBytes[a.multisig] \in Pubkey.values
  BY <1>1, KeyTyped DEF Keys
<1>7. TransactionStruct.values
        = [multisig : Pubkey.values, instructions : InstructionList.values,
           signers : Seq(BOOLEAN), owner_set_seqno : Nat]
  BY DEF TransactionStruct, StructOf
<1>8. v \in TransactionStruct.values
  BY <1>1, <1>3, <1>4, <1>6, <1>7
<1> HIDE DEF v
<1>9. /\ FitsU32(Len(v.instructions)) /\ FitsU32(Len(v.signers))
      /\ FitsU32(v.owner_set_seqno)
      /\ \A k \in DOMAIN v.instructions : Encodable(v.instructions[k])
  BY <1>1, <1>3, <1>5
<1>10. /\ Trips(TransactionStruct, v)
       /\ Len(TransactionStruct.write[v]) = TransactionLen(v)
  BY <1>8, <1>9, TransactionTrips
<1>11. Struct(a) = TransactionStruct /\ SpaceFor(a) = TransactionLen(v)
  BY <1>1 DEF Struct, SpaceFor, v
<1>12. Len(TransactionStruct.write[v]) \in Nat
  BY <1>10 DEF Trips
<1> QED
  BY <1>10, <1>11, <1>12 DEF Exact, v

(* An account of the program, of either kind.                              *)
LEMMA StorableExact == ASSUME NEW a, Storable(a) PROVE Exact(a)
<1>1. CASE a.kind = "multisig"
  BY <1>1, MultisigRecord, MultisigExact DEF Storable, Fits
<1>2. CASE a.kind = "transaction"
  BY <1>2, TransactionRecord, TransactionExact DEF Storable, Fits
<1> QED
  BY <1>1, <1>2 DEF Storable, IsProgramAccount

(* Accounts of one layout take the same space.                             *)
LEMMA SameSpace ==
    ASSUME NEW a, NEW b, Storable(a), Storable(b), SameLayout(a, b)
    PROVE  SpaceFor(a) = SpaceFor(b)
<1>1. CASE a.kind = "multisig"
  BY <1>1, MultisigRecord, MultisigSpace DEF Storable, SameLayout
<1>2. CASE a.kind = "transaction"
  <2>1. /\ a.kind = "transaction" /\ b.kind = "transaction"
        /\ a.instructions = b.instructions /\ Len(a.signers) = Len(b.signers)
    BY <1>2 DEF SameLayout
  <2>2. /\ Contents(a).instructions = Contents(b).instructions
        /\ Contents(a).signers = a.signers /\ Contents(b).signers = b.signers
    BY <2>1 DEF Contents
  <2>3. TransactionLen(Contents(a)) = TransactionLen(Contents(b))
    BY <2>1, <2>2 DEF TransactionLen
  <2> QED
    BY <2>1, <2>3 DEF SpaceFor
<1> QED
  BY <1>1, <1>2 DEF Storable, IsProgramAccount

(* The invariants say that the program's accounts can be stored.           *)
LEMMA ProgramAccountsStorable ==
    ASSUME TypeOK, GoodInv, FitsInv, NEW x \in Addresses, IsProgramAccount(accounts[x])
    PROVE  Storable(accounts[x])
BY LedgerTyped DEF GoodInv, GoodAccounts, FitsInv, FitsAccounts, Storable,
                   IsProgramMultisig, IsProgramAccount

-----------------------------------------------------------------------------
(* The data follows the accounts.                                          *)

Stores(bytes, A) == bytes = [x \in Addresses |-> Serialized(A[x])]

DataInv == Stores(data, accounts) /\ Stores(committedData, committed.accounts)

(* Nothing is left of what was written before.                             *)
LEMMA NothingLeft ==
    ASSUME NEW bytes \in Seq(Byte), NEW buffer \in Seq(Byte), Len(buffer) = Len(bytes)
    PROVE  bytes \o SubSeq(buffer, Len(bytes) + 1, Len(buffer)) = bytes
<1>1. Len(bytes) \in Nat
  OBVIOUS
<1>2. SubSeq(buffer, Len(bytes) + 1, Len(buffer)) = << >>
  BY <1>1
<1> QED
  BY <1>2

(* serialize fills the account exactly.                                    *)
LEMMA OverwrittenWhole ==
    ASSUME NEW x \in Addresses, Storable(accounts'[x]),
           \/ accounts[x] = EmptyAccount
           \/ /\ Storable(accounts[x]) /\ SameLayout(accounts[x], accounts'[x])
              /\ data[x] = Serialized(accounts[x])
    PROVE  Overwritten(x) = Serialized(accounts'[x])
<1> DEFINE a == accounts[x]
           b == accounts'[x]
           bytes == Serialized(b)
<1>1. b # EmptyAccount
  BY DEF Storable, IsProgramAccount, EmptyAccount
<1>2. bytes = Struct(b).write[Contents(b)]
  BY <1>1 DEF Serialized
<1>3. Exact(b)
  BY StorableExact
<1>4. bytes \in Seq(Byte) /\ Len(bytes) = SpaceFor(b) /\ SpaceFor(b) \in Nat
  BY <1>2, <1>3 DEF Exact, Trips
<1>5. Buffer(x) \in Seq(Byte) /\ Len(Buffer(x)) = SpaceFor(b)
  <2>1. CASE a = EmptyAccount
    BY <2>1, <1>4, ZeroesTyped DEF Buffer, Zero
  <2>2. CASE a # EmptyAccount
    <3>1. Storable(a) /\ SameLayout(a, b) /\ data[x] = Serialized(a)
      BY <2>2
    <3>2. data[x] = Struct(a).write[Contents(a)]
      BY <2>2, <3>1 DEF Serialized
    <3>3. Exact(a) /\ SpaceFor(a) = SpaceFor(b)
      BY <3>1, StorableExact, SameSpace
    <3>4. Buffer(x) = data[x]
      BY <2>2 DEF Buffer
    <3> QED
      BY <3>2, <3>3, <3>4 DEF Exact, Trips
  <2> QED
    BY <2>1, <2>2
<1>6. Overwritten(x) = bytes \o SubSeq(Buffer(x), Len(bytes) + 1, Len(Buffer(x)))
  BY DEF Overwritten
<1> HIDE DEF bytes, a, b
<1>7. Overwritten(x) = bytes
  BY <1>4, <1>5, <1>6, NothingLeft
<1> QED
  BY <1>7 DEF bytes, b

(* A step of a handler leaves the data of the accounts it leaves.          *)
LEMMA RewriteStores ==
    ASSUME TypeOK, GoodInv, FitsInv, DataInv, Begin \/ Handler, Rewrite,
           TypeOK', GoodInv', FitsInv'
    PROVE  Stores(data', accounts')
<1>1. ASSUME NEW x \in Addresses PROVE data'[x] = Serialized(accounts'[x])
  <2> DEFINE a == accounts[x]
             b == accounts'[x]
  <2>1. data[x] = Serialized(a)
    BY DEF DataInv, Stores
  <2>2. data'[x] = IF x \notin Changed THEN data[x]
                 ELSE IF b = EmptyAccount THEN << >> ELSE Overwritten(x)
    BY DEF Rewrite
  <2>3. x \in Changed <=> b # a
    BY DEF Changed
  <2>4. Outcome(a, b)
    BY StepOutcome
  <2>5. CASE b = a
    <3>1. x \notin Changed
      BY <2>3, <2>5
    <3>2. data'[x] = data[x]
      BY <2>2, <3>1
    <3> QED
      BY <2>1, <2>5, <3>2
  <2>6. CASE b # a /\ b = EmptyAccount
    <3>1. x \in Changed
      BY <2>3, <2>6
    <3>2. data'[x] = << >>
      BY <2>2, <2>6, <3>1
    <3> QED
      BY <2>6, <3>2 DEF Serialized
  <2>7. CASE b # a /\ b # EmptyAccount
    <3>1. x \in Changed
      BY <2>3, <2>7
    <3>2. data'[x] = Overwritten(x)
      BY <2>2, <2>7, <3>1
    <3>3. IsProgramAccount(b) /\ (a = EmptyAccount \/ SameLayout(a, b))
      BY <2>4, <2>7 DEF Outcome
    <3>4. Storable(b)
      <4>1. b \in Account
        BY LedgerTyped DEF TypeOK, LedgerType, ledger
      <4>2. Fits(b) /\ (b.kind = "multisig" => GoodMultisig(b))
        BY <3>3 DEF FitsInv, FitsAccounts, GoodInv, GoodAccounts, IsProgramMultisig,
                    IsProgramAccount
      <4> QED
        BY <3>3, <4>1, <4>2 DEF Storable
    <3>5. SameLayout(a, b) => Storable(a)
      BY ProgramAccountsStorable DEF SameLayout
    <3>6. Overwritten(x) = Serialized(b)
      BY <2>1, <3>3, <3>4, <3>5, OverwrittenWhole
    <3> QED
      BY <3>2, <3>6
  <2> QED
    BY <2>5, <2>6, <2>7
<1>2. data' = [x \in Addresses |-> data'[x]]
  BY DEF Rewrite
<1> QED
  BY <1>1, <1>2 DEF Stores

WireInv == TypeOK /\ GoodInv /\ FitsInv /\ DataInv

(* The first transaction finds the data of the initial accounts.           *)
LEMMA WireInvInit == ASSUME WireInit PROVE WireInv
<1>1. TypeOK /\ GoodInv /\ FitsInv
  BY TypeInit, GoodInit, FitsInit DEF WireInit
<1>2. Stores(data, accounts) /\ committed.accounts = accounts /\ committedData = data
  BY DEF WireInit, Stores, Init, ledger
<1>3. DataInv
  BY <1>2 DEF DataInv
<1> QED
  BY <1>1, <1>3 DEF WireInv

(* The data follows the accounts in every step.                            *)
LEMMA WireInvStep == ASSUME WireInv, [WireNext]_wireVars PROVE WireInv'
<1>1. [Next]_vars
  BY DEF WireNext, Next, wireVars
<1>2. TypeOK' /\ GoodInv' /\ FitsInv'
  BY <1>1, TypeStep, GoodStep, FitsStep DEF WireInv
<1>3. CASE (Begin \/ Handler) /\ Rewrite /\ UNCHANGED committedData
  <2>1. Stores(data', accounts')
    BY <1>2, <1>3, RewriteStores DEF WireInv
  <2>2. committed' = committed
    BY <1>3 DEF Begin, Handler, CreateMultisig, ProposeTransaction, ApproveTransaction,
         ExecuteTransaction, FinishExecution, CancelTransaction, SetOwners,
         ChangeThreshold, SetOwnersAndChangeThreshold, Transfer, Serialize, Return
  <2>3. DataInv'
    BY <1>3, <2>1, <2>2 DEF WireInv, DataInv
  <2> QED
    BY <1>2, <2>3 DEF WireInv
<1>4. CASE Commit /\ committedData' = data /\ UNCHANGED data
  <2>1. accounts' = accounts /\ committed'.accounts = accounts
    BY <1>4 DEF Commit, ledger
  <2>2. DataInv'
    BY <1>4, <2>1 DEF WireInv, DataInv, Stores
  <2> QED
    BY <1>2, <2>2 DEF WireInv
<1>5. CASE Abort /\ data' = committedData /\ UNCHANGED committedData
  <2>1. accounts' = committed.accounts /\ committed' = committed
    BY <1>5 DEF Abort
  <2>2. DataInv'
    BY <1>5, <2>1 DEF WireInv, DataInv, Stores
  <2> QED
    BY <1>2, <2>2 DEF WireInv
<1>6. CASE UNCHANGED wireVars
  <2>1. DataInv'
    BY <1>6 DEF WireInv, DataInv, Stores, wireVars, vars
  <2> QED
    BY <1>2, <2>1 DEF WireInv
<1> QED
  BY <1>3, <1>4, <1>5, <1>6 DEF WireNext

(* The invariant holds in every state.                                     *)
LEMMA WireInvAlways == WireSpec => []WireInv
BY WireInvInit, WireInvStep, PTL DEF WireSpec

-----------------------------------------------------------------------------
(* The three invariants.                                                   *)

(* What is at the address of a multisig or a proposal of the program.      *)
LEMMA ProgramData ==
    ASSUME WireInv, NEW x \in ProgramMultisigs \cup ProgramTransactions
    PROVE  /\ x \in Addresses
           /\ Trips(Struct(accounts[x]), Contents(accounts[x]))
           /\ data[x] = Struct(accounts[x]).write[Contents(accounts[x])]
<1>1. x \in Addresses /\ IsProgramAccount(accounts[x])
  BY DEF ProgramMultisigs, ProgramTransactions, IsProgramAccount
<1>2. Exact(accounts[x])
  BY <1>1, ProgramAccountsStorable, StorableExact DEF WireInv
<1>3. data[x] = Serialized(accounts[x]) /\ accounts[x] # EmptyAccount
  BY <1>1 DEF WireInv, DataInv, Stores, IsProgramAccount, EmptyAccount
<1> QED
  BY <1>1, <1>2, <1>3 DEF Exact, Serialized

(* The program reads back what it wrote.                                   *)
LEMMA WellFormed == ASSUME WireInv PROVE AccountsAreWellFormed
<1>1. ASSUME NEW x \in ProgramMultisigs \cup ProgramTransactions
      PROVE  TryFromSlice(Struct(accounts[x]), data[x]) = {Contents(accounts[x])}
  BY ProgramData, TryTripped
<1> QED
  BY <1>1 DEF AccountsAreWellFormed

(* The client's schemas are the program's structs.                         *)
LEMMA SchemasAgree == ASSUME NEW a PROVE AccountSchema(a) = Struct(a)
<1>1. MultisigSchema = MultisigStruct
  BY DEF MultisigSchema, MultisigStruct, Pubkey, PubkeyBytes
<1>2. InstructionsSchema = InstructionList
  BY DEF InstructionsSchema, AccountsSchema, InstructionList, Accounts,
         TransactionInstructionData, TransactionInstructionAccount, Pubkey, PubkeyBytes
<1>3. TransactionSchema = TransactionStruct
  BY <1>2 DEF TransactionSchema, TransactionStruct, Pubkey, PubkeyBytes
<1> QED
  BY <1>1, <1>3 DEF AccountSchema, Struct

(* The client reads what the program wrote.                                *)
LEMMA ClientsRead == ASSUME WireInv PROVE ClientsReadWhatIsStored
<1>1. ASSUME NEW x \in ProgramMultisigs \cup ProgramTransactions
      PROVE  Deserialize(AccountSchema(accounts[x]), data[x]) = {Contents(accounts[x])}
  BY ProgramData, DeserializeTripped, SchemasAgree
<1> QED
  BY <1>1 DEF ClientsReadWhatIsStored

(* An instruction of this program is not one of the system program.        *)
LEMMA ProgramOfBuilt ==
    ASSUME NEW ix \in Instructions, Built[ix].program_id = KeyBytes[ProgramId]
    PROVE  ix.op # "transfer"
<1>1. ASSUME ix.op = "transfer" PROVE FALSE
  <2>1. Built[ix].program_id = KeyBytes[SystemProgram]
    BY <1>1, BuiltUnfolds, TransferBuiltWith
  <2>2. SystemProgram \in Keys /\ ProgramId \in Keys /\ DOMAIN KeyBytes = Keys
    BY KeysHave32Bytes DEF Keys
  <2> QED
    BY <2>1, <2>2, KeysHave32Bytes, ProgramIsNotSystem DEF IsInjective
<1> QED
  BY <1>1

(* Instructions arrive where they are meant to.                            *)
LEMMA Arrive == ASSUME WireInv PROVE InstructionsArrive
<1>1. ASSUME NEW t \in ProgramTransactions,
             NEW tx \in TryFromSlice(TransactionStruct, data[t]),
             NEW k \in DOMAIN tx.instructions,
             tx.instructions[k].program_id = KeyBytes[ProgramId]
      PROVE  Received(tx.instructions[k]) = {Sent(accounts[t].instructions[k])}
  <2> DEFINE a == accounts[t]
  <2>1. a.kind = "transaction" /\ t \in Addresses
    BY DEF ProgramTransactions
  <2>2. Struct(a) = TransactionStruct
    BY <2>1 DEF Struct
  <2>3. TryFromSlice(Struct(a), data[t]) = {Contents(a)}
    BY WellFormed DEF AccountsAreWellFormed
  <2>4. tx = Contents(a)
    BY <2>2, <2>3
  <2>5. tx.instructions = [j \in DOMAIN a.instructions |-> Built[a.instructions[j]]]
    BY <2>1, <2>4 DEF Contents
  <2>6. a.instructions \in Seq(Instructions)
    BY <2>1, LedgerTyped, TransactionRecord DEF WireInv, TransactionAccount
  <2> HIDE DEF a
  <2>7. /\ k \in DOMAIN a.instructions /\ a.instructions[k] \in Instructions
        /\ tx.instructions[k] = Built[a.instructions[k]]
    BY <2>5, <2>6
  <2>8. Received(Built[a.instructions[k]]) = {Sent(a.instructions[k])}
    BY <1>1, <2>7, ProgramOfBuilt, BuiltArrives
  <2> QED
    BY <2>7, <2>8 DEF a
<1>2. ASSUME NEW c \in TransactionCalls, c.ix.op # "transfer"
      PROVE  Received(Built[c.ix]) = {Sent(c.ix)}
  <2>1. c.ix \in Instructions
    BY DEF TransactionCalls
  <2> QED
    BY <1>2, <2>1, BuiltArrives
<1> QED
  BY <1>1, <1>2 DEF InstructionsArrive

(* The program's own accounts never become malformed: the space computed   *)
(* when one is created is that of every later write (len, serialize,       *)
(* checked_deserialize, the padding of execute_set_owners).                *)
THEOREM WellFormedDataAlways == WireSpec => []AccountsAreWellFormed
BY WireInvAlways, WellFormed, PTL

(* Who inspects a multisig or a proposal with the client sees what the     *)
(* program will act on (src/ts/state).                                     *)
THEOREM ClientsReadAlways == WireSpec => []ClientsReadWhatIsStored
BY WireInvAlways, ClientsRead, PTL

(* Every instruction of the program that a client sends or a proposal      *)
(* stores is dispatched to the handler its builder was for, with the       *)
(* arguments and accounts it was built with (processor.rs,                 *)
(* ts/instructions).                                                       *)
THEOREM InstructionsArriveAlways == WireSpec => []InstructionsArrive
BY WireInvAlways, Arrive, PTL
=============================================================================
