---------------------------- MODULE BorshProofs -----------------------------
(***************************************************************************)
(* What is written in Borsh is read back, whatever bytes follow it, for    *)
(* every format that module Borsh makes; and how many bytes are written.   *)
(* FlattenSeq and ReadEach are functions defined by recursion, so the      *)
(* inductions are over the number of parts, for sets of numbers            *)
(* (Induction).                                                            *)
(***************************************************************************)
EXTENDS Borsh, NaturalsInduction, WellFoundedInduction, SequenceTheorems, TLAPS

(* Induction over the natural numbers for a set, from the library's        *)
(* theorem that < is well founded: the set is data, so no operator is      *)
(* instantiated.                                                           *)
LEMMA Induction ==
    ASSUME NEW S, 0 \in S, \A n \in Nat : n \in S => n + 1 \in S
    PROVE  Nat \subseteq S
<1> DEFINE T == Nat \ S
           R == OpToRel(<, Nat)
<1>1. IsWellFoundedOn(R, Nat)
  BY NatLessThanWellFounded
<1> SUFFICES ASSUME T # {} PROVE FALSE
  OBVIOUS
<1>2. \E x \in T : \A y \in T : ~(<<y, x>> \in R)
  <2>1. T \subseteq Nat
    OBVIOUS
  <2> HIDE DEF T, R
  <2> QED
    BY <1>1, <2>1, WFMin
<1>3. PICK x \in T : \A y \in T : ~(<<y, x>> \in R)
  BY <1>2
<1>4. \A y \in T : ~(y < x)
  BY <1>3 DEF OpToRel
<1>5. x \in Nat /\ x # 0
  OBVIOUS
<1>6. x - 1 \in Nat /\ x - 1 < x /\ x - 1 + 1 = x
  BY <1>5
<1>7. x - 1 \in S
  BY <1>4, <1>6
<1> QED
  BY <1>6, <1>7

-----------------------------------------------------------------------------
(* The bytes of several parts, one after the other.                        *)

(* FlattenSeq is defined by recursion, which has a solution.               *)
LEMMA FlattenUnfolds ==
    ASSUME NEW seqs, NEW n \in Nat \ {0}, Len(seqs) = n
    PROVE  \E f : /\ f = [i \in 1 .. n |-> IF i = 1 THEN seqs[i]
                                           ELSE f[i - 1] \o seqs[i]]
                  /\ FlattenSeq(seqs) = f[n]
<1> DEFINE Solves(f, m) == f = [i \in 1 .. m |-> IF i = 1 THEN seqs[i]
                                                ELSE f[i - 1] \o seqs[i]]
           Solvable == {m \in Nat : \E f : Solves(f, m + 1)}
<1>1. 0 \in Solvable
  <2> DEFINE f == [i \in 1 .. 0 + 1 |-> seqs[1]]
  <2>1. Solves(f, 0 + 1)
    OBVIOUS
  <2> QED
    BY <2>1
<1>2. ASSUME NEW m \in Nat, m \in Solvable PROVE m + 1 \in Solvable
  <2>1. PICK f : Solves(f, m + 1)
    BY <1>2
  <2> DEFINE g == [i \in 1 .. m + 2 |-> IF i = m + 2 THEN f[m + 1] \o seqs[i] ELSE f[i]]
  <2>2. ASSUME NEW i \in 1 .. m + 2
        PROVE  g[i] = IF i = 1 THEN seqs[i] ELSE g[i - 1] \o seqs[i]
    <3>1. CASE i = m + 2
      <4>1. i # 1 /\ i - 1 = m + 1 /\ i - 1 \in 1 .. m + 2 /\ i - 1 # m + 2
        BY <3>1
      <4>2. g[i] = f[m + 1] \o seqs[i]
        BY <3>1
      <4>3. g[i - 1] = f[m + 1]
        BY <4>1
      <4> HIDE DEF g
      <4> QED
        BY <4>1, <4>2, <4>3
    <3>2. CASE i # m + 2
      <4>1. i \in 1 .. m + 1 /\ g[i] = f[i] /\ (i # 1 => g[i - 1] = f[i - 1])
        BY <3>2
      <4>2. f[i] = IF i = 1 THEN seqs[i] ELSE f[i - 1] \o seqs[i]
        BY <2>1, <4>1
      <4> HIDE DEF g
      <4> QED
        BY <4>1, <4>2
    <3> QED
      BY <3>1, <3>2
  <2>3. g = [i \in 1 .. m + 2 |-> g[i]]
    OBVIOUS
  <2> HIDE DEF g
  <2>4. g = [i \in 1 .. m + 2 |-> IF i = 1 THEN seqs[i] ELSE g[i - 1] \o seqs[i]]
    BY <2>2, <2>3
  <2>5. m + 2 = (m + 1) + 1 /\ m + 1 \in Nat
    OBVIOUS
  <2>6. Solves(g, (m + 1) + 1)
    BY <2>4, <2>5
  <2> HIDE DEF Solves
  <2> QED
    BY <2>5, <2>6
<1> HIDE DEF Solvable
<1>3. n - 1 \in Nat /\ n - 1 \in Solvable
  BY <1>1, <1>2, Induction
<1>4. \E f : Solves(f, n)
  BY <1>3 DEF Solvable
<1> DEFINE e == CHOOSE f : Solves(f, n)
<1>5. Solves(e, n)
  BY <1>4
<1>6. FlattenSeq(seqs) = e[n]
  BY DEF FlattenSeq
<1> QED
  BY <1>5, <1>6

(* Concatenation of bytes.                                                 *)
LEMMA Concatenation ==
    \A a, b, c \in Seq(Byte) : b \o c \in Seq(Byte) /\ (a \o b) \o c = a \o (b \o c)
BY ConcatAssociative, ConcatProperties

Joined(a, b) == a \o b

LEMMA JoinedAssociative ==
    \A a, b, c \in Seq(Byte) : Joined(Joined(a, b), c) = Joined(a, Joined(b, c))
BY Concatenation DEF Joined

(* The first elements of a sequence.                                       *)
LEMMA FirstElements ==
    ASSUME NEW T, NEW s, NEW m \in Nat, \A k \in 1 .. m + 1 : s[k] \in T
    PROVE  LET first == [k \in 1 .. m |-> s[k]]
           IN  /\ first \in Seq(T)
               /\ Len(first) = m
               /\ [k \in 1 .. m + 1 |-> s[k]] = Append(first, s[m + 1])
<1> DEFINE first == [k \in 1 .. m |-> s[k]]
<1>1. first \in [1 .. m -> T]
  OBVIOUS
<1>2. first \in Seq(T) /\ Len(first) = m
  BY <1>1
<1>3. [k \in 1 .. m + 1 |-> s[k]] = Append(first, s[m + 1])
  <2>1. DOMAIN Append(first, s[m + 1]) = 1 .. m + 1
        /\ \A k \in 1 .. m + 1 : Append(first, s[m + 1])[k] = s[k]
    BY <1>2
  <2>2. Append(first, s[m + 1]) = [k \in 1 .. m + 1 |-> Append(first, s[m + 1])[k]]
    BY <2>1
  <2> QED
    BY <2>1, <2>2
<1> QED
  BY <1>2, <1>3

(* Nothing, and one part more.                                             *)
LEMMA FlattenAppend ==
    ASSUME NEW S, NEW seqs \in Seq(Seq(S)), NEW last \in Seq(S)
    PROVE  /\ FlattenSeq(<< >>) = << >>
           /\ FlattenSeq(seqs) \in Seq(S)
           /\ FlattenSeq(Append(seqs, last)) = FlattenSeq(seqs) \o last
<1>1. FlattenSeq(<< >>) = << >>
  BY DEF FlattenSeq
<1> DEFINE all == Append(seqs, last)
           n == Len(seqs)
<1>2. /\ n \in Nat /\ Len(all) = n + 1 /\ all[n + 1] = last
      /\ \A i \in 1 .. n : all[i] = seqs[i] /\ seqs[i] \in Seq(S)
      /\ (n = 0 => seqs = << >>)
  OBVIOUS
<1> HIDE DEF all
<1>3. PICK f : /\ f = [i \in 1 .. n + 1 |-> IF i = 1 THEN all[i] ELSE f[i - 1] \o all[i]]
               /\ FlattenSeq(all) = f[n + 1]
  <2>1. n + 1 \in Nat \ {0} /\ Len(all) = n + 1
    BY <1>2
  <2> HIDE DEF n
  <2> QED
    BY <2>1, FlattenUnfolds
<1>4. CASE n = 0
  <2>1. f[n + 1] = last
    BY <1>2, <1>3, <1>4
  <2>2. FlattenSeq(seqs) = << >>
    BY <1>1, <1>2, <1>4
  <2>3. << >> \o last = last /\ << >> \in Seq(S)
    OBVIOUS
  <2> QED
    BY <1>1, <1>3, <2>1, <2>2, <2>3 DEF all
<1>5. CASE n # 0
  <2>1. PICK g : /\ g = [i \in 1 .. n |-> IF i = 1 THEN seqs[i] ELSE g[i - 1] \o seqs[i]]
                 /\ FlattenSeq(seqs) = g[n]
    <3>1. n \in Nat \ {0} /\ Len(seqs) = n
      BY <1>2, <1>5
    <3> HIDE DEF n
    <3> QED
      BY <3>1, FlattenUnfolds
  <2> HIDE DEF n
  <2> DEFINE Same == {m \in Nat : m + 1 \in 1 .. n =>
                                     g[m + 1] = f[m + 1] /\ g[m + 1] \in Seq(S)}
  <2>2. 0 \in Same
    <3>1. g[1] = seqs[1] /\ f[1] = all[1]
      BY <1>2, <1>3, <1>5, <2>1
    <3> QED
      BY <1>2, <1>5, <3>1
  <2>3. ASSUME NEW m \in Nat, m \in Same PROVE m + 1 \in Same
    <3>1. CASE (m + 1) + 1 \in 1 .. n
      <4> DEFINE i == (m + 1) + 1
      <4>1. i \in 1 .. n /\ i \in 1 .. n + 1 /\ i # 1 /\ i - 1 = m + 1 /\ m + 1 \in 1 .. n
        BY <1>2, <3>1
      <4>2. g[i - 1] = f[i - 1] /\ g[i - 1] \in Seq(S)
        BY <2>3, <4>1
      <4> HIDE DEF i, Same
      <4>3. g[i] = g[i - 1] \o seqs[i] /\ f[i] = f[i - 1] \o all[i]
        BY <1>3, <2>1, <4>1
      <4>4. all[i] = seqs[i] /\ seqs[i] \in Seq(S)
        BY <1>2, <4>1
      <4>5. g[i] = f[i]
        BY <4>2, <4>3, <4>4
      <4>6. g[i] \in Seq(S)
        BY <4>2, <4>3, <4>4
      <4> QED
        BY <4>5, <4>6 DEF i, Same
    <3> QED
      BY <3>1
  <2> HIDE DEF Same
  <2>4. n - 1 \in Nat /\ n - 1 \in Same
    <3>1. n - 1 \in Nat
      BY <1>2, <1>5
    <3>2. Nat \subseteq Same
      BY <2>2, <2>3, Induction
    <3> QED
      BY <3>1, <3>2
  <2>5. g[n] = f[n] /\ g[n] \in Seq(S)
    BY <1>2, <1>5, <2>4 DEF Same
  <2>6. f[n + 1] = f[n] \o all[n + 1]
    <3>1. n + 1 \in 1 .. n + 1 /\ n + 1 # 1 /\ (n + 1) - 1 = n
      BY <1>2, <1>5
    <3> QED
      BY <1>3, <3>1
  <2> QED
    BY <1>1, <1>2, <1>3, <2>1, <2>5, <2>6 DEF all
<1> QED
  BY <1>4, <1>5
-----------------------------------------------------------------------------
(* Reading several values, one after the other.                            *)

(* f[k] is what is read after k of the formats.                            *)
Reads(f, formats, bytes, n) ==
    f = [k \in 0 .. n |-> IF k = 0 THEN {<< << >>, bytes>>}
                          ELSE ReadNext(formats[k], f[k - 1])]

(* ReadEach is defined by recursion, which has a solution.                 *)
LEMMA ReadEachUnfolds ==
    ASSUME NEW formats, NEW bytes, NEW n \in Nat, Len(formats) = n
    PROVE  \E f : Reads(f, formats, bytes, n) /\ ReadEach(formats, bytes) = f[n]
<1> USE DEF Reads
<1> DEFINE Solves(f, m) == Reads(f, formats, bytes, m)
           Solvable == {m \in Nat : \E f : Solves(f, m)}
<1>1. 0 \in Solvable
  <2> DEFINE f == [k \in 0 .. 0 |-> {<< << >>, bytes>>}]
  <2>1. Solves(f, 0)
    OBVIOUS
  <2> QED
    BY <2>1
<1>2. ASSUME NEW m \in Nat, m \in Solvable PROVE m + 1 \in Solvable
  <2>1. PICK f : Solves(f, m)
    BY <1>2
  <2> DEFINE g == [k \in 0 .. m + 1 |-> IF k = m + 1 THEN ReadNext(formats[k], f[m]) ELSE f[k]]
  <2>2. ASSUME NEW k \in 0 .. m + 1
        PROVE  g[k] = IF k = 0 THEN {<< << >>, bytes>>} ELSE ReadNext(formats[k], g[k - 1])
    <3>1. CASE k = m + 1
      <4>1. k # 0 /\ k - 1 = m /\ k - 1 \in 0 .. m + 1 /\ k - 1 # m + 1
        BY <3>1
      <4>2. g[k] = ReadNext(formats[k], f[m])
        BY <3>1
      <4>3. g[k - 1] = f[m]
        BY <4>1
      <4> HIDE DEF g
      <4> QED
        BY <4>1, <4>2, <4>3
    <3>2. CASE k # m + 1
      <4>1. k \in 0 .. m /\ g[k] = f[k] /\ (k # 0 => g[k - 1] = f[k - 1])
        BY <3>2
      <4>2. f[k] = IF k = 0 THEN {<< << >>, bytes>>} ELSE ReadNext(formats[k], f[k - 1])
        BY <2>1, <4>1
      <4> HIDE DEF g
      <4> QED
        BY <4>1, <4>2
    <3> QED
      BY <3>1, <3>2
  <2>3. g = [k \in 0 .. m + 1 |-> g[k]]
    OBVIOUS
  <2> HIDE DEF g
  <2>4. Solves(g, m + 1)
    BY <2>2, <2>3
  <2> HIDE DEF Solves
  <2> QED
    BY <2>4
<1> HIDE DEF Solvable
<1>3. n \in Solvable
  BY <1>1, <1>2, Induction
<1>4. \E f : Solves(f, n)
  BY <1>3 DEF Solvable
<1> DEFINE e == CHOOSE f : Solves(f, n)
<1>5. Solves(e, n)
  BY <1>4
<1>6. ReadEach(formats, bytes) = e[n]
  BY DEF ReadEach
<1> QED
  BY <1>5, <1>6

(* The two begin with the same n elements.                                 *)
Agree(s, t, n) == \A k \in 1 .. n : s[k] = t[k]

(* No value, and one value more.                                           *)
LEMMA ReadEachAppend ==
    ASSUME NEW formats, NEW more, NEW bytes, NEW n \in Nat,
           Len(formats) = n, Len(more) = n + 1, Agree(more, formats, n)
    PROVE  ReadEach(more, bytes) = ReadNext(more[n + 1], ReadEach(formats, bytes))
<1>1. PICK f : Reads(f, formats, bytes, n) /\ ReadEach(formats, bytes) = f[n]
  BY ReadEachUnfolds
<1>2. PICK g : Reads(g, more, bytes, n + 1) /\ ReadEach(more, bytes) = g[n + 1]
  <2>1. n + 1 \in Nat
    OBVIOUS
  <2> QED
    BY <2>1, ReadEachUnfolds
<1> DEFINE Same == {k \in Nat : k \in 0 .. n => f[k] = g[k]}
<1>3. 0 \in Same
  BY <1>1, <1>2 DEF Reads
<1>4. ASSUME NEW k \in Nat, k \in Same PROVE k + 1 \in Same
  <2>1. CASE k + 1 \in 0 .. n
    <3> DEFINE i == k + 1
    <3>1. i \in 1 .. n /\ i \in 0 .. n /\ i \in 0 .. n + 1 /\ i # 0 /\ i - 1 = k
          /\ f[k] = g[k]
      BY <1>4, <2>1
    <3> HIDE DEF i, Same
    <3>2. f[i] = ReadNext(formats[i], f[k]) /\ g[i] = ReadNext(more[i], g[k])
      BY <1>1, <1>2, <3>1 DEF Reads
    <3>3. f[i] = g[i]
      BY <3>1, <3>2 DEF Agree
    <3> QED
      BY <3>3 DEF i, Same
  <2> QED
    BY <2>1
<1> HIDE DEF Same
<1>5. n \in Same
  BY <1>3, <1>4, Induction
<1>6. f[n] = g[n]
  BY <1>5 DEF Same
<1>7. g[n + 1] = ReadNext(more[n + 1], g[n])
  <2>1. n + 1 \in 0 .. n + 1 /\ n + 1 # 0 /\ (n + 1) - 1 = n
    OBVIOUS
  <2> QED
    BY <1>2, <2>1 DEF Reads
<1> QED
  BY <1>1, <1>2, <1>6, <1>7

(* What a read gives that does not fail.                                   *)
Success(value, rest) == {<<value, rest>>}

(* No value.                                                               *)
LEMMA ReadEachNone ==
    ASSUME NEW formats, NEW bytes, Len(formats) = 0
    PROVE  ReadEach(formats, bytes) = Success(<< >>, bytes)
BY ReadEachUnfolds DEF Reads, Success

(* One value read after another.                                           *)
LEMMA ReadNextOne ==
    ASSUME NEW format, NEW done, NEW bytes, NEW value, NEW rest,
           format.read[bytes] = Success(value, rest)
    PROVE  ReadNext(format, Success(done, bytes)) = Success(Append(done, value), rest)
<1> DEFINE From(r) == {<<Append(r[1], next[1]), next[2]>> : next \in format.read[r[2]]}
<1>1. From(<<done, bytes>>) = {<<Append(done, value), rest>>}
  <2>1. From(<<done, bytes>>)
          = {<<Append(done, next[1]), next[2]>> : next \in Success(value, rest)}
    OBVIOUS
  <2>2. @ = {<<Append(done, value), rest>>}
    BY DEF Success
  <2> QED
    BY <2>1, <2>2
<1>2. ReadNext(format, Success(done, bytes)) = UNION {From(r) : r \in {<<done, bytes>>}}
  BY DEF ReadNext, Success
<1> HIDE DEF From
<1> QED
  BY <1>1, <1>2 DEF Success

(* The bytes are read as the value, whatever follows them.                 *)
ReadsBack(format, bytes, value) ==
    \A rest \in Seq(Byte) : format.read[bytes \o rest] = Success(value, rest)

(* If each part is read back as its value, whatever follows it, then all   *)
(* parts together are read back as all the values.                         *)
LEMMA ReadEachReadsBack ==
    ASSUME NEW formats, NEW T, NEW values \in Seq(T), NEW parts \in Seq(Seq(Byte)),
           NEW n \in Nat, Len(formats) = n, Len(parts) = n, Len(values) = n,
           \A k \in 1 .. n : ReadsBack(formats[k], parts[k], values[k]),
           NEW rest \in Seq(Byte)
    PROVE  ReadEach(formats, FlattenSeq(parts) \o rest) = Success(values, rest)
<1> DEFINE F(m) == [k \in 1 .. m |-> formats[k]]
           V(m) == [k \in 1 .. m |-> values[k]]
           P(m) == [k \in 1 .. m |-> parts[k]]
           Right(m) == \A r \in Seq(Byte) :
                          ReadEach(F(m), FlattenSeq(P(m)) \o r) = Success(V(m), r)
           Good == {m \in Nat : m \in 0 .. n => Right(m)}
<1>1. \A m \in Nat : Len(F(m)) = m
  OBVIOUS
<1>2. Right(0)
  <2>1. P(0) = << >> /\ V(0) = << >>
    OBVIOUS
  <2>2. FlattenSeq(P(0)) = << >>
    BY <2>1 DEF FlattenSeq
  <2>3. ASSUME NEW r \in Seq(Byte) PROVE FlattenSeq(P(0)) \o r = r
    BY <2>2
  <2>4. Len(F(0)) = 0
    BY <1>1
  <2> HIDE DEF F, P, V
  <2> QED
    BY <2>1, <2>3, <2>4, ReadEachNone
<1>3. ASSUME NEW m \in Nat, m + 1 \in 0 .. n, Right(m), NEW r \in Seq(Byte)
      PROVE  ReadEach(F(m + 1), FlattenSeq(P(m + 1)) \o r) = Success(V(m + 1), r)
  <2>1. m + 1 \in 1 .. n /\ m \in 0 .. n /\ m + 1 \in Nat
    BY <1>3
  <2>2. P(m) \in Seq(Seq(Byte)) /\ parts[m + 1] \in Seq(Byte)
        /\ P(m + 1) = Append(P(m), parts[m + 1])
    <3> DEFINE U == Seq(Byte)
    <3>1. \A k \in 1 .. n : parts[k] \in U
      OBVIOUS
    <3> HIDE DEF U
    <3>2. \A k \in 1 .. m + 1 : parts[k] \in U
      BY <2>1, <3>1
    <3>3. P(m) \in Seq(U) /\ P(m + 1) = Append(P(m), parts[m + 1])
      BY <3>2, FirstElements
    <3> QED
      BY <2>1, <3>1, <3>3 DEF U
  <2>3. V(m + 1) = Append(V(m), values[m + 1])
    <3>1. \A k \in 1 .. m + 1 : values[k] \in T
      BY <2>1
    <3> QED
      BY <3>1, FirstElements
  <2>4. /\ Len(F(m)) = m /\ Len(F(m + 1)) = m + 1 /\ F(m + 1)[m + 1] = formats[m + 1]
        /\ \A k \in 1 .. m : F(m + 1)[k] = F(m)[k]
    BY <1>1, <2>1
  <2>5. formats[m + 1].read[parts[m + 1] \o r] = Success(values[m + 1], r)
    BY <2>1 DEF ReadsBack
  <2> DEFINE A == FlattenSeq(P(m))
             x == parts[m + 1] \o r
             b == FlattenSeq(P(m + 1)) \o r
  <2>6. A \in Seq(Byte) /\ FlattenSeq(P(m + 1)) = A \o parts[m + 1]
    <3> HIDE DEF P
    <3> QED
      BY <2>2, FlattenAppend
  <2>7. x \in Seq(Byte) /\ b = A \o x
    <3> DEFINE p == parts[m + 1]
               q == FlattenSeq(P(m + 1))
    <3>1. p \in Seq(Byte) /\ q = A \o p
      BY <2>2, <2>6
    <3>2. A \in Seq(Byte) /\ r \in Seq(Byte)
      BY <2>6
    <3> HIDE DEF A, p, q, x, b
    <3>3. p \o r \in Seq(Byte)
      BY <3>1, <3>2, Concatenation
    <3>4. (A \o p) \o r = A \o (p \o r)
      <4>1. Joined(Joined(A, p), r) = Joined(A, Joined(p, r))
        BY <3>1, <3>2, JoinedAssociative
      <4> QED
        BY <4>1 DEF Joined
    <3> QED
      BY <3>1, <3>3, <3>4 DEF p, q, x, b
  <2>8. ReadEach(F(m), b) = Success(V(m), x)
    BY <1>3, <2>7
  <2> DEFINE less == F(m)
             more == F(m + 1)
  <2>9. ReadEach(more, b) = ReadNext(formats[m + 1], ReadEach(less, b))
    <3>1. /\ Len(less) = m /\ Len(more) = m + 1 /\ more[m + 1] = formats[m + 1]
          /\ Agree(more, less, m)
      BY <2>4 DEF Agree
    <3> HIDE DEF less, more, b
    <3> QED
      BY <3>1, ReadEachAppend
  <2> DEFINE v == V(m)
  <2>10. ReadNext(formats[m + 1], Success(v, x)) = Success(Append(v, values[m + 1]), r)
    <3> HIDE DEF v
    <3> DEFINE format == formats[m + 1]
    <3>1. format.read[x] = Success(values[m + 1], r)
      BY <2>5
    <3> HIDE DEF format, x
    <3> QED
      BY <3>1, ReadNextOne DEF format
  <2> HIDE DEF F, V, P, b, x
  <2> QED
    BY <2>3, <2>8, <2>9, <2>10 DEF b
<1>4. ASSUME NEW m \in Nat, m + 1 \in 0 .. n, Right(m) PROVE Right(m + 1)
  BY <1>3, <1>4
<1> HIDE DEF Right
<1>5. 0 \in Good /\ \A m \in Nat : m \in Good => m + 1 \in Good
  <2>1. \A m \in Nat : m + 1 \in 0 .. n => m \in 0 .. n
    OBVIOUS
  <2> QED
    BY <1>2, <1>4, <2>1
<1> HIDE DEF Good
<1>6. n \in Good
  BY <1>5, Induction
<1>7. ReadEach(F(n), FlattenSeq(P(n)) \o rest) = Success(V(n), rest)
  <2>1. Right(n)
    BY <1>6 DEF Good
  <2> HIDE DEF F, V, P
  <2> QED
    BY <2>1 DEF Right
<1>8. P(n) = parts /\ V(n) = values
  OBVIOUS
<1> DEFINE b == FlattenSeq(parts) \o rest
           same == F(n)
<1>9. ReadEach(formats, b) = ReadEach(same, b)
  <2>1. CASE n = 0
    <3>1. Len(same) = 0 /\ Len(formats) = 0
      BY <1>1, <2>1
    <3> HIDE DEF same, b
    <3> QED
      BY <3>1, ReadEachNone
  <2>2. CASE n # 0
    <3>1. PICK m \in Nat : m + 1 = n
      <4>1. n - 1 \in Nat /\ (n - 1) + 1 = n
        BY <2>2
      <4> QED
        BY <4>1
    <3> DEFINE less == F(m)
    <3>2. /\ Len(less) = m /\ Len(same) = m + 1 /\ Len(formats) = m + 1
          /\ same[m + 1] = formats[m + 1]
          /\ Agree(same, less, m) /\ Agree(formats, less, m)
      BY <3>1 DEF Agree
    <3> HIDE DEF less, same, b
    <3>3. ReadEach(same, b) = ReadNext(same[m + 1], ReadEach(less, b))
      BY <3>2, ReadEachAppend
    <3>4. ReadEach(formats, b) = ReadNext(formats[m + 1], ReadEach(less, b))
      BY <3>2, ReadEachAppend
    <3> QED
      BY <3>2, <3>3, <3>4
  <2> QED
    BY <2>1, <2>2
<1> QED
  BY <1>7, <1>8, <1>9

-----------------------------------------------------------------------------
(* What is written is read back.                                           *)
Trips(format, value) ==
    format.write[value] \in Seq(Byte) /\ ReadsBack(format, format.write[value], value)

(* The first bytes split off.                                              *)
LEMMA SplitConcat ==
    ASSUME NEW p \in Seq(Byte), NEW rest \in Seq(Byte), NEW n \in Nat, Len(p) = n
    PROVE  Split(p \o rest, n) = Success(p, rest)
<1> DEFINE all == p \o rest
<1>1. /\ all \in Seq(Byte) /\ Len(all) = n + Len(rest) /\ Len(rest) \in Nat
      /\ \A i \in 1 .. n : all[i] = p[i]
      /\ \A i \in 1 .. Len(rest) : all[n + i] = rest[i]
  OBVIOUS
<1> HIDE DEF all
<1>2. SubSeq(all, 1, n) = p
  <2>1. SubSeq(all, 1, n) \in Seq(Byte) /\ Len(SubSeq(all, 1, n)) = n
        /\ \A i \in 1 .. n : SubSeq(all, 1, n)[i] = all[i]
    BY <1>1, SubSeqProperties
  <2> QED
    BY <1>1, <2>1, SeqEqual
<1>3. SubSeq(all, n + 1, Len(all)) = rest
  <2>1. SubSeq(all, n + 1, Len(all)) \in Seq(Byte)
        /\ Len(SubSeq(all, n + 1, Len(all))) = Len(rest)
        /\ \A i \in 1 .. Len(rest) : SubSeq(all, n + 1, Len(all))[i] = all[n + i]
    BY <1>1, SubSeqProperties
  <2> QED
    BY <1>1, <2>1, SeqEqual
<1>4. n <= Len(all)
  BY <1>1
<1> QED
  BY <1>2, <1>3, <1>4 DEF Split, Success, all

(* A u8.                                                                   *)
LEMMA U8Trips == ASSUME NEW n \in Byte PROVE Trips(U8Format, n)
<1>1. U8Format.write[n] = <<n>> /\ <<n>> \in Seq(Byte) /\ Len(<<n>>) = 1
  BY DEF U8Format
<1>2. ASSUME NEW rest \in Seq(Byte)
      PROVE  U8Format.read[<<n>> \o rest] = Success(n, rest)
  <2>1. <<n>> \o rest \in Seq(Byte)
    OBVIOUS
  <2>2. Split(<<n>> \o rest, 1) = Success(<<n>>, rest)
    BY <1>1, SplitConcat
  <2>3. U8Format.read[<<n>> \o rest] = {<<r[1][1], r[2]>> : r \in Split(<<n>> \o rest, 1)}
    BY <2>1 DEF U8Format
  <2>4. @ = {<<r[1][1], r[2]>> : r \in {<< <<n>>, rest>>}}
    BY <2>2 DEF Success
  <2> QED
    BY <2>3, <2>4 DEF Success
<1> QED
  BY <1>1, <1>2 DEF Trips, ReadsBack

(* A u32 takes four bytes.                                                 *)
LEMMA FourBytes == ASSUME NEW n \in Nat PROVE Bytes(n) \in Seq(Byte) /\ Len(Bytes(n)) = 4
BY DEF Bytes, Byte

(* A number of at most 32 bits is halves of 16 bits.                       *)
LEMMA Halves ==
    ASSUME NEW n \in Nat, FitsU32(n)
    PROVE  \E h \in Nat, l \in Nat : n = 65536 * h + l /\ h < 65536 /\ l < 65536
<1> DEFINE h == n \div 65536
           l == n % 65536
<1>1. n = 65536 * h + l /\ l \in Nat /\ l < 65536
  OBVIOUS
<1>2. h \in Nat /\ h < 65536
  BY DEF FitsU32
<1> HIDE DEF h, l
<1> QED
  BY <1>1, <1>2

(* Four bytes hold a number of 32 bits.                                    *)
LEMMA NumberOfBytes == ASSUME NEW n \in Nat, FitsU32(n) PROVE Number(Bytes(n)) = n
<1>1. PICK h \in Nat, l \in Nat : n = 65536 * h + l /\ h < 65536 /\ l < 65536
  BY Halves
<1>2. n % 256 = l % 256
  BY <1>1
<1>3. (n \div 256) % 256 = l \div 256
  BY <1>1
<1>4. (n \div 65536) % 256 = h % 256
  BY <1>1
<1>5. (n \div 16777216) % 256 = h \div 256
  BY <1>1
<1>6. (h % 256) + 256 * (h \div 256) = h /\ h % 256 \in Nat /\ h \div 256 \in Nat
  OBVIOUS
<1>7. (l % 256) + 256 * (l \div 256) = l /\ l % 256 \in Nat /\ l \div 256 \in Nat
  OBVIOUS
<1>8. Number(Bytes(n)) = (l % 256) + 256 * (l \div 256) + 65536 * (h % 256)
                           + 16777216 * (h \div 256)
  BY <1>2, <1>3, <1>4, <1>5 DEF Number, Bytes
<1> QED
  BY <1>1, <1>6, <1>7, <1>8

(* A u32.                                                                  *)
LEMMA U32Trips == ASSUME NEW n \in Nat, FitsU32(n) PROVE Trips(U32Format, n)
<1> DEFINE b == Bytes(n)
<1>1. U32Format.write[n] = b /\ b \in Seq(Byte) /\ Len(b) = 4 /\ Number(b) = n
  BY FourBytes, NumberOfBytes DEF U32Format
<1> HIDE DEF b
<1>2. ASSUME NEW rest \in Seq(Byte)
      PROVE  U32Format.read[b \o rest] = Success(n, rest)
  <2>1. b \o rest \in Seq(Byte)
    BY <1>1
  <2>2. Split(b \o rest, 4) = Success(b, rest)
    BY <1>1, SplitConcat
  <2>3. U32Format.read[b \o rest] = {<<Number(r[1]), r[2]>> : r \in Split(b \o rest, 4)}
    BY <2>1 DEF U32Format
  <2>4. @ = {<<Number(r[1]), r[2]>> : r \in {<<b, rest>>}}
    BY <2>2 DEF Success
  <2> QED
    BY <1>1, <2>3, <2>4 DEF Success
<1> QED
  BY <1>1, <1>2 DEF Trips, ReadsBack

(* A bool.                                                                 *)
LEMMA BoolTrips == ASSUME NEW v \in BOOLEAN PROVE Trips(Bool, v)
<1> DEFINE b == IF v THEN <<1>> ELSE <<0>>
<1>1. b \in Seq(Byte) /\ Len(b) = 1 /\ b \in {<<0>>, <<1>>} /\ (b = <<1>>) = v
  <2>1. b \in {<<0>>, <<1>>}
    OBVIOUS
  <2>2. <<0>> \in Seq(Byte) /\ <<1>> \in Seq(Byte)
    BY DEF Byte
  <2>3. (b = <<1>>) = v
    OBVIOUS
  <2> HIDE DEF b
  <2> QED
    BY <2>1, <2>2, <2>3
<1>0. Bool.write[v] = b
  BY DEF Bool
<1> HIDE DEF b
<1>2. ASSUME NEW rest \in Seq(Byte)
      PROVE  Bool.read[b \o rest] = Success(v, rest)
  <2>1. b \o rest \in Seq(Byte)
    BY <1>1
  <2>2. Split(b \o rest, 1) = Success(b, rest)
    BY <1>1, SplitConcat
  <2> DEFINE S == {s \in Split(b \o rest, 1) : s[1] \in {<<0>>, <<1>>}}
  <2>3. Bool.read[b \o rest] = {<<r[1] = <<1>>, r[2]>> : r \in S}
    BY <2>1 DEF Bool
  <2>4. S = {<<b, rest>>}
    BY <1>1, <2>2 DEF Success
  <2> HIDE DEF S
  <2> DEFINE Is(r) == r[1] = <<1>>
  <2>5. Is(<<b, rest>>) = v
    BY <1>1
  <2>6. Bool.read[b \o rest] = {<<Is(r), r[2]>> : r \in {<<b, rest>>}}
    BY <2>3, <2>4
  <2> HIDE DEF Is
  <2> QED
    BY <2>5, <2>6 DEF Success
<1> QED
  BY <1>0, <1>1, <1>2 DEF Trips, ReadsBack

(* An array of bytes.                                                      *)
LEMMA ArrayTrips ==
    ASSUME NEW n \in Nat, NEW a \in [1 .. n -> Byte]
    PROVE  Trips(Array(n), a)
<1>1. Array(n).write[a] = a /\ a \in Seq(Byte) /\ Len(a) = n
  BY DEF Array
<1>2. ASSUME NEW rest \in Seq(Byte)
      PROVE  Array(n).read[a \o rest] = Success(a, rest)
  <2>1. a \o rest \in Seq(Byte)
    BY <1>1
  <2> QED
    BY <1>1, <2>1, SplitConcat DEF Array
<1> QED
  BY <1>1, <1>2 DEF Trips, ReadsBack

(* A Vec, if it has fewer than 2^32 elements.                              *)
LEMMA VecTrips ==
    ASSUME NEW format, NEW v \in Seq(format.values), FitsU32(Len(v)),
           \A k \in DOMAIN v : Trips(format, v[k])
    PROVE  Trips(VecOf(format), v)
<1> DEFINE n == Len(v)
           head == Bytes(n)
           parts == [k \in DOMAIN v |-> format.write[v[k]]]
           formats == [k \in 1 .. n |-> format]
           body == FlattenSeq(parts)
<1>1. n \in Nat /\ DOMAIN v = 1 .. n
  OBVIOUS
<1>2. parts \in Seq(Seq(Byte)) /\ Len(parts) = n
  BY <1>1 DEF Trips
<1>3. Len(formats) = n /\ \A k \in 1 .. n : ReadsBack(formats[k], parts[k], v[k])
  BY <1>1 DEF Trips
<1>4. head \in Seq(Byte) /\ body \in Seq(Byte)
  <2> HIDE DEF parts, n
  <2> QED
    BY <1>1, <1>2, FourBytes, FlattenAppend
<1>5. VecOf(format).write[v] = head \o body
  BY DEF VecOf
<1> HIDE DEF n, parts, formats, head, body
<1>6. ASSUME NEW rest \in Seq(Byte)
      PROVE  VecOf(format).read[(head \o body) \o rest] = Success(v, rest)
  <2> DEFINE all == (head \o body) \o rest
             after == body \o rest
  <2>1. all \in Seq(Byte) /\ after \in Seq(Byte) /\ all = head \o after
    <3>1. head \o body \in Seq(Byte)
      BY <1>4, Concatenation
    <3>2. all \in Seq(Byte)
      BY <3>1, Concatenation
    <3>3. after \in Seq(Byte) /\ all = head \o after
      BY <1>4, Concatenation
    <3> QED
      BY <3>2, <3>3
  <2>2. U32Format.read[all] = Success(n, after)
    <3>1. Trips(U32Format, n) /\ U32Format.write[n] = head
      BY <1>1, U32Trips DEF n, head, U32Format
    <3> HIDE DEF all, after
    <3> QED
      BY <2>1, <3>1 DEF Trips, ReadsBack
  <2>3. ReadEach(formats, after) = Success(v, rest)
    BY <1>1, <1>2, <1>3, ReadEachReadsBack DEF body, n
  <2> HIDE DEF all, after
  <2> DEFINE Read(r) == ReadEach([k \in 1 .. r[1] |-> format], r[2])
  <2>4. VecOf(format).read[all] = UNION {Read(r) : r \in U32Format.read[all]}
    BY <2>1 DEF VecOf
  <2>5. Read(<<n, after>>) = Success(v, rest)
    BY <2>3 DEF formats
  <2> HIDE DEF Read
  <2>6. UNION {Read(r) : r \in {<<n, after>>}} = Read(<<n, after>>)
    OBVIOUS
  <2>7. VecOf(format).read[all] = Success(v, rest)
    BY <2>2, <2>4, <2>5, <2>6 DEF Success
  <2> QED
    BY <2>7 DEF all
<1> QED
  BY <1>4, <1>5, <1>6, ConcatProperties DEF Trips, ReadsBack

(* Fields have names of their own.                                         *)
Named(fields, n) ==
    \A i \in 1 .. n : \A j \in 1 .. n : fields[i][1] = fields[j][1] => i = j

Names(fields, n) == {fields[k][1] : k \in 1 .. n}

(* A struct, if its fields have different names.                           *)
LEMMA StructTrips ==
    ASSUME NEW values, NEW v \in values, NEW fields, NEW n \in Nat,
           DOMAIN fields = 1 .. n, Named(fields, n),
           v = [name \in Names(fields, n) |-> v[name]],
           \A k \in 1 .. n : Trips(fields[k][2], v[fields[k][1]])
    PROVE  Trips(StructOf(values, fields), v)
<1> DEFINE struct == StructOf(values, fields)
           parts == [k \in DOMAIN fields |-> fields[k][2].write[v[fields[k][1]]]]
           formats == [k \in DOMAIN fields |-> fields[k][2]]
           list == [k \in 1 .. n |-> v[fields[k][1]]]
           all == FlattenSeq(parts)
<1>1. parts \in Seq(Seq(Byte)) /\ Len(parts) = n
  <2>1. \A k \in 1 .. n : parts[k] \in Seq(Byte)
    BY DEF Trips
  <2>2. DOMAIN parts = 1 .. n /\ parts = [k \in 1 .. n |-> parts[k]]
    OBVIOUS
  <2> HIDE DEF parts
  <2> QED
    BY <2>1, <2>2
<1>2. Len(formats) = n /\ \A k \in 1 .. n : ReadsBack(formats[k], parts[k], list[k])
  <2>1. Len(formats) = n
    OBVIOUS
  <2>2. ASSUME NEW k \in 1 .. n PROVE ReadsBack(formats[k], parts[k], list[k])
    <3>1. Trips(fields[k][2], v[fields[k][1]])
      OBVIOUS
    <3>2. /\ formats[k] = fields[k][2] /\ list[k] = v[fields[k][1]]
          /\ parts[k] = fields[k][2].write[v[fields[k][1]]]
      OBVIOUS
    <3> HIDE DEF formats, parts, list
    <3> QED
      BY <3>1, <3>2 DEF Trips
  <2> QED
    BY <2>1, <2>2
<1>3. list \in Seq({v[name] : name \in Names(fields, n)}) /\ Len(list) = n
  BY DEF Names
<1>4. struct.write[v] = all
  BY DEF StructOf
<1>5. all \in Seq(Byte)
  <2> HIDE DEF parts
  <2> QED
    BY <1>1, FlattenAppend
<1>6. ASSUME NEW rest \in Seq(Byte)
      PROVE  struct.read[all \o rest] = Success(v, rest)
  <2> DEFINE b == all \o rest
             Index(name) == CHOOSE k \in DOMAIN fields : fields[k][1] = name
             Value(r) == [name \in {fields[k][1] : k \in DOMAIN fields} |->
                            r[1][Index(name)]]
  <2>1. ReadEach(formats, b) = Success(list, rest)
    <3> HIDE DEF formats, list, parts
    <3> QED
      BY <1>1, <1>2, <1>3, ReadEachReadsBack
  <2>2. b \in Seq(Byte)
    BY <1>5, ConcatProperties
  <2>3. struct.read[b] = {<<Value(r), r[2]>> : r \in ReadEach(formats, b)}
    BY <2>2 DEF StructOf
  <2>4. Value(<<list, rest>>) = v
    <3>1. ASSUME NEW name \in Names(fields, n) PROVE list[Index(name)] = v[name]
      <4>1. PICK k \in 1 .. n : fields[k][1] = name
        BY DEF Names
      <4>2. Index(name) \in 1 .. n /\ fields[Index(name)][1] = name
        BY <4>1
      <4> HIDE DEF Index
      <4> QED
        BY <4>2
    <3> HIDE DEF list, Index
    <3>2. Value(<<list, rest>>) = [name \in Names(fields, n) |-> list[Index(name)]]
      BY DEF Names
    <3> QED
      BY <3>1, <3>2
  <2> HIDE DEF struct, list, formats, b, Value
  <2>5. {<<Value(r), r[2]>> : r \in {<<list, rest>>}} = {<<Value(<<list, rest>>), rest>>}
    OBVIOUS
  <2>6. struct.read[b] = Success(v, rest)
    BY <2>1, <2>3, <2>4, <2>5 DEF Success
  <2> QED
    BY <2>6 DEF b
<1> HIDE DEF struct, all
<1> QED
  BY <1>4, <1>5, <1>6 DEF Trips, ReadsBack, struct

-----------------------------------------------------------------------------
(* Lengths.                                                                *)

(* The length of several parts is the sum of theirs.                       *)
Sums(f, parts, n) ==
    /\ f[0] = 0
    /\ \A k \in 0 .. n - 1 : f[k + 1] = f[k] + Len(parts[k + 1])

(* By induction over the number of parts.                                  *)
LEMMA FlattenLength ==
    ASSUME NEW parts \in Seq(Seq(Byte)), NEW n \in Nat, Len(parts) = n,
           NEW f, Sums(f, parts, n)
    PROVE  Len(FlattenSeq(parts)) = f[n]
<1> DEFINE P(m) == [k \in 1 .. m |-> parts[k]]
           Right == {m \in Nat : m \in 0 .. n => /\ P(m) \in Seq(Seq(Byte))
                                                 /\ Len(FlattenSeq(P(m))) = f[m]}
<1>1. 0 \in Right
  <2>1. P(0) = << >> /\ << >> \in Seq(Seq(Byte)) /\ FlattenSeq(<< >>) = << >>
    BY DEF FlattenSeq
  <2>2. f[0] = 0
    BY DEF Sums
  <2>3. Len(FlattenSeq(P(0))) = 0
    BY <2>1
  <2> QED
    BY <2>1, <2>2, <2>3
<1>2. ASSUME NEW m \in Nat, m \in Right PROVE m + 1 \in Right
  <2>1. CASE m + 1 \in 0 .. n
    <3>1. m + 1 \in 1 .. n /\ m \in 0 .. n /\ m \in 0 .. n - 1
      BY <2>1
    <3> DEFINE U == Seq(Byte)
    <3>2. \A k \in 1 .. n : parts[k] \in U
      OBVIOUS
    <3>3. P(m) \in Seq(U) /\ Len(FlattenSeq(P(m))) = f[m]
      BY <1>2, <3>1
    <3> DEFINE p == P(m)
               q == P(m + 1)
    <3>4. q = Append(p, parts[m + 1])
      <4> HIDE DEF U
      <4>1. \A k \in 1 .. m + 1 : parts[k] \in U
        BY <3>1, <3>2
      <4> QED
        BY <4>1, FirstElements
    <3> HIDE DEF P, p, q
    <3>5. parts[m + 1] \in Seq(Byte) /\ p \in Seq(Seq(Byte))
      BY <3>1, <3>2, <3>3 DEF p
    <3>6. q \in Seq(Seq(Byte))
      BY <3>4, <3>5
    <3>7. FlattenSeq(q) = FlattenSeq(p) \o parts[m + 1] /\ FlattenSeq(p) \in Seq(Byte)
      BY <3>4, <3>5, FlattenAppend
    <3>8. Len(FlattenSeq(q)) = Len(FlattenSeq(p)) + Len(parts[m + 1])
      BY <3>5, <3>7, ConcatProperties
    <3>9. f[m + 1] = f[m] + Len(parts[m + 1])
      BY <3>1 DEF Sums
    <3>10. Len(FlattenSeq(q)) = f[m + 1]
      BY <3>3, <3>8, <3>9 DEF p
    <3> QED
      BY <3>6, <3>10 DEF q
  <2> QED
    BY <2>1
<1>3. n \in Right
  <2> HIDE DEF Right
  <2> QED
    BY <1>1, <1>2, Induction
<1>4. P(n) = parts
  OBVIOUS
<1> HIDE DEF P
<1> QED
  BY <1>3, <1>4

(* Up to five parts.                                                       *)
LengthsTo(parts, n) ==
      (IF n >= 1 THEN Len(parts[1]) ELSE 0) + (IF n >= 2 THEN Len(parts[2]) ELSE 0)
    + (IF n >= 3 THEN Len(parts[3]) ELSE 0) + (IF n >= 4 THEN Len(parts[4]) ELSE 0)
    + (IF n >= 5 THEN Len(parts[5]) ELSE 0)

(* The sum written out.                                                    *)
LEMMA FlattenFewLengths ==
    ASSUME NEW parts \in Seq(Seq(Byte)), NEW n \in 0 .. 5, Len(parts) = n
    PROVE  Len(FlattenSeq(parts)) = LengthsTo(parts, n)
<1> DEFINE f == [k \in 0 .. n |-> LengthsTo(parts, k)]
<1>1. f[0] = 0
  BY DEF LengthsTo
<1>2. ASSUME NEW k \in 0 .. n - 1 PROVE f[k + 1] = f[k] + Len(parts[k + 1])
  <2>1. k + 1 \in 1 .. n /\ k \in 0 .. n /\ k + 1 \in 0 .. n
    OBVIOUS
  <2>2. \A i \in 1 .. n : Len(parts[i]) \in Nat
    OBVIOUS
  <2>3. LengthsTo(parts, k + 1) = LengthsTo(parts, k) + Len(parts[k + 1])
    <3> DEFINE L(i) == Len(parts[i])
    <3>1. \A i \in 1 .. k + 1 : L(i) \in Nat
      BY <2>1, <2>2
    <3> HIDE DEF L
    <3>2. k \in {0, 1, 2, 3, 4}
      BY <2>1
    <3>3. CASE k = 0
      BY <3>1, <3>3 DEF LengthsTo, L
    <3>4. CASE k = 1
      BY <3>1, <3>4 DEF LengthsTo, L
    <3>5. CASE k = 2
      BY <3>1, <3>5 DEF LengthsTo, L
    <3>6. CASE k = 3
      BY <3>1, <3>6 DEF LengthsTo, L
    <3>7. CASE k = 4
      BY <3>1, <3>7 DEF LengthsTo, L
    <3> QED
      BY <3>2, <3>3, <3>4, <3>5, <3>6, <3>7
  <2> QED
    BY <2>1, <2>3
<1>3. f[n] = LengthsTo(parts, n) /\ n \in Nat
  OBVIOUS
<1> HIDE DEF f
<1> QED
  BY <1>1, <1>2, <1>3, FlattenLength DEF Sums

(* The length of a vector of values, the lengths of which sum up to f.     *)
AllTrip(format, v, n) == \A k \in 1 .. n : Trips(format, v[k])

SumsWritten(f, format, v, n) ==
    /\ f[0] = 0
    /\ \A k \in 0 .. n - 1 : f[k + 1] = f[k] + Len(format.write[v[k + 1]])

(* Four bytes for the number of elements, then the elements.               *)
LEMMA VecSum ==
    ASSUME NEW format, NEW v \in Seq(format.values), NEW n \in Nat, Len(v) = n,
           AllTrip(format, v, n), NEW f, SumsWritten(f, format, v, n)
    PROVE  Len(VecOf(format).write[v]) = 4 + f[n]
<1> DEFINE parts == [k \in DOMAIN v |-> format.write[v[k]]]
           head == Bytes(n)
           body == FlattenSeq(parts)
<1>1. DOMAIN v = 1 .. n
  OBVIOUS
<1>2. parts \in Seq(Seq(Byte)) /\ Len(parts) = n
  BY <1>1 DEF Trips, AllTrip
<1>3. \A k \in 1 .. n : parts[k] = format.write[v[k]]
  BY <1>1
<1>4. VecOf(format).write[v] = head \o body
  BY DEF VecOf
<1> HIDE DEF parts, head
<1>5. Sums(f, parts, n)
  <2>1. ASSUME NEW k \in 0 .. n - 1 PROVE k + 1 \in 1 .. n
    OBVIOUS
  <2> QED
    BY <1>3, <2>1 DEF Sums, SumsWritten
<1>6. Len(body) = f[n]
  BY <1>2, <1>5, FlattenLength
<1>7. body \in Seq(Byte) /\ head \in Seq(Byte) /\ Len(head) = 4
  BY <1>2, FlattenAppend, FourBytes DEF head
<1> HIDE DEF body
<1>8. Len(head \o body) = Len(head) + Len(body)
  BY <1>7, ConcatProperties
<1> QED
  BY <1>4, <1>6, <1>7, <1>8

(* Values with the same number of bytes.                                   *)
AllHave(format, v, n, w) == \A k \in 1 .. n : Len(format.write[v[k]]) = w

(* A Vec of n elements of w bytes.                                         *)
LEMMA VecLength ==
    ASSUME NEW format, NEW v \in Seq(format.values), NEW n \in Nat, Len(v) = n,
           AllTrip(format, v, n), NEW w \in Nat, AllHave(format, v, n, w)
    PROVE  Len(VecOf(format).write[v]) = 4 + n * w
<1> DEFINE f == [k \in 0 .. n |-> k * w]
<1>1. f[0] = 0
  OBVIOUS
<1>2. ASSUME NEW k \in 0 .. n - 1 PROVE f[k + 1] = f[k] + Len(format.write[v[k + 1]])
  <2>1. k + 1 \in 1 .. n /\ k \in 0 .. n /\ k + 1 \in 0 .. n
    OBVIOUS
  <2>2. (k + 1) * w = k * w + w
    OBVIOUS
  <2>3. f[k + 1] = f[k] + w
    BY <2>1, <2>2
  <2> QED
    BY <2>1, <2>3 DEF AllHave
<1>3. f[n] = n * w
  OBVIOUS
<1> HIDE DEF f
<1>4. SumsWritten(f, format, v, n)
  BY <1>1, <1>2 DEF SumsWritten
<1> QED
  BY <1>3, <1>4, VecSum

-----------------------------------------------------------------------------
(* Structs of one to five fields.                                          *)
Fields1(a, A) == << <<a, A>> >>

HasFields1(v, a) == v = [name \in {a} |-> v[name]]

Total1(p) == Len(p)

(* A struct of one field: read back, and its length.                       *)
LEMMA Struct1 ==
    ASSUME NEW values, NEW v \in values,
           NEW a, NEW A,
           HasFields1(v, a),
           Trips(A, v[a])
    PROVE  LET struct == StructOf(values, Fields1(a, A))
           IN  /\ Trips(struct, v)
               /\ Len(struct.write[v]) = Total1(A.write[v[a]])
<1> DEFINE fields == Fields1(a, A)
           struct == StructOf(values, fields)
           parts == [k \in DOMAIN fields |-> fields[k][2].write[v[fields[k][1]]]]
<1>1. /\ DOMAIN fields = 1 .. 1
      /\ fields[1][1] = a /\ fields[1][2] = A
  BY DEF Fields1
<1> HIDE DEF fields
<1>2. Named(fields, 1)
  BY <1>1 DEF Named
<1>3. Names(fields, 1) = {a}
  BY <1>1 DEF Names
<1>4. \A k \in 1 .. 1 : Trips(fields[k][2], v[fields[k][1]])
  BY <1>1
<1>5. v = [name \in Names(fields, 1) |-> v[name]]
  BY <1>3 DEF HasFields1
<1>6. Trips(struct, v)
  BY <1>1, <1>2, <1>4, <1>5, StructTrips
<1>7. struct.write[v] = FlattenSeq(parts)
  BY DEF StructOf
<1>8. DOMAIN parts = 1 .. 1 /\ \A k \in 1 .. 1 : parts[k] \in Seq(Byte)
  BY <1>1, <1>4 DEF Trips
<1>9. /\ parts[1] = A.write[v[a]]
  BY <1>1
<1>10. parts = [k \in 1 .. 1 |-> parts[k]]
  BY <1>1
<1> HIDE DEF struct, parts
<1>11. parts \in Seq(Seq(Byte)) /\ Len(parts) = 1
  BY <1>8, <1>10
<1>12. Len(struct.write[v]) = LengthsTo(parts, 1)
  BY <1>7, <1>11, FlattenFewLengths
<1>13. \A k \in 1 .. 1 : Len(parts[k]) \in Nat
  BY <1>8
<1> QED
  BY <1>6, <1>9, <1>12, <1>13 DEF LengthsTo, Total1, struct, fields

Fields2(a, A, b, B) == << <<a, A>>, <<b, B>> >>

HasFields2(v, a, b) == v = [name \in {a, b} |-> v[name]]

Total2(p, q) == Len(p) + Len(q)

(* A struct of two fields.                                                 *)
LEMMA Struct2 ==
    ASSUME NEW values, NEW v \in values,
           NEW a, NEW A, NEW b, NEW B,
           HasFields2(v, a, b),
           a # b,
           Trips(A, v[a]), Trips(B, v[b])
    PROVE  LET struct == StructOf(values, Fields2(a, A, b, B))
           IN  /\ Trips(struct, v)
               /\ Len(struct.write[v]) = Total2(A.write[v[a]], B.write[v[b]])
<1> DEFINE fields == Fields2(a, A, b, B)
           struct == StructOf(values, fields)
           parts == [k \in DOMAIN fields |-> fields[k][2].write[v[fields[k][1]]]]
<1>1. /\ DOMAIN fields = 1 .. 2
      /\ fields[1][1] = a /\ fields[1][2] = A
      /\ fields[2][1] = b /\ fields[2][2] = B
  BY DEF Fields2
<1> HIDE DEF fields
<1>2. Named(fields, 2)
  BY <1>1 DEF Named
<1>3. Names(fields, 2) = {a, b}
  BY <1>1 DEF Names
<1>4. \A k \in 1 .. 2 : Trips(fields[k][2], v[fields[k][1]])
  BY <1>1
<1>5. v = [name \in Names(fields, 2) |-> v[name]]
  BY <1>3 DEF HasFields2
<1>6. Trips(struct, v)
  BY <1>1, <1>2, <1>4, <1>5, StructTrips
<1>7. struct.write[v] = FlattenSeq(parts)
  BY DEF StructOf
<1>8. DOMAIN parts = 1 .. 2 /\ \A k \in 1 .. 2 : parts[k] \in Seq(Byte)
  BY <1>1, <1>4 DEF Trips
<1>9. /\ parts[1] = A.write[v[a]]
      /\ parts[2] = B.write[v[b]]
  BY <1>1
<1>10. parts = [k \in 1 .. 2 |-> parts[k]]
  BY <1>1
<1> HIDE DEF struct, parts
<1>11. parts \in Seq(Seq(Byte)) /\ Len(parts) = 2
  BY <1>8, <1>10
<1>12. Len(struct.write[v]) = LengthsTo(parts, 2)
  BY <1>7, <1>11, FlattenFewLengths
<1>13. \A k \in 1 .. 2 : Len(parts[k]) \in Nat
  BY <1>8
<1> QED
  BY <1>6, <1>9, <1>12, <1>13 DEF LengthsTo, Total2, struct, fields

Fields3(a, A, b, B, c, C) == << <<a, A>>, <<b, B>>, <<c, C>> >>

HasFields3(v, a, b, c) == v = [name \in {a, b, c} |-> v[name]]

Total3(p, q, r) == Len(p) + Len(q) + Len(r)

(* A struct of three fields.                                               *)
LEMMA Struct3 ==
    ASSUME NEW values, NEW v \in values,
           NEW a, NEW A, NEW b, NEW B, NEW c, NEW C,
           HasFields3(v, a, b, c),
           a # b, a # c, b # c,
           Trips(A, v[a]), Trips(B, v[b]), Trips(C, v[c])
    PROVE  LET struct == StructOf(values, Fields3(a, A, b, B, c, C))
           IN  /\ Trips(struct, v)
               /\ Len(struct.write[v]) = Total3(A.write[v[a]], B.write[v[b]], C.write[v[c]])
<1> DEFINE fields == Fields3(a, A, b, B, c, C)
           struct == StructOf(values, fields)
           parts == [k \in DOMAIN fields |-> fields[k][2].write[v[fields[k][1]]]]
<1>1. /\ DOMAIN fields = 1 .. 3
      /\ fields[1][1] = a /\ fields[1][2] = A
      /\ fields[2][1] = b /\ fields[2][2] = B
      /\ fields[3][1] = c /\ fields[3][2] = C
  BY DEF Fields3
<1> HIDE DEF fields
<1>2. Named(fields, 3)
  BY <1>1 DEF Named
<1>3. Names(fields, 3) = {a, b, c}
  BY <1>1 DEF Names
<1>4. \A k \in 1 .. 3 : Trips(fields[k][2], v[fields[k][1]])
  BY <1>1
<1>5. v = [name \in Names(fields, 3) |-> v[name]]
  BY <1>3 DEF HasFields3
<1>6. Trips(struct, v)
  BY <1>1, <1>2, <1>4, <1>5, StructTrips
<1>7. struct.write[v] = FlattenSeq(parts)
  BY DEF StructOf
<1>8. DOMAIN parts = 1 .. 3 /\ \A k \in 1 .. 3 : parts[k] \in Seq(Byte)
  BY <1>1, <1>4 DEF Trips
<1>9. /\ parts[1] = A.write[v[a]]
      /\ parts[2] = B.write[v[b]]
      /\ parts[3] = C.write[v[c]]
  BY <1>1
<1>10. parts = [k \in 1 .. 3 |-> parts[k]]
  BY <1>1
<1> HIDE DEF struct, parts
<1>11. parts \in Seq(Seq(Byte)) /\ Len(parts) = 3
  BY <1>8, <1>10
<1>12. Len(struct.write[v]) = LengthsTo(parts, 3)
  BY <1>7, <1>11, FlattenFewLengths
<1>13. \A k \in 1 .. 3 : Len(parts[k]) \in Nat
  BY <1>8
<1> QED
  BY <1>6, <1>9, <1>12, <1>13 DEF LengthsTo, Total3, struct, fields

Fields4(a, A, b, B, c, C, d, D) == << <<a, A>>, <<b, B>>, <<c, C>>, <<d, D>> >>

HasFields4(v, a, b, c, d) == v = [name \in {a, b, c, d} |-> v[name]]

Total4(p, q, r, s) == Len(p) + Len(q) + Len(r) + Len(s)

(* A struct of four fields.                                                *)
LEMMA Struct4 ==
    ASSUME NEW values, NEW v \in values,
           NEW a, NEW A, NEW b, NEW B, NEW c, NEW C, NEW d, NEW D,
           HasFields4(v, a, b, c, d),
           a # b, a # c, a # d, b # c, b # d, c # d,
           Trips(A, v[a]), Trips(B, v[b]), Trips(C, v[c]), Trips(D, v[d])
    PROVE  LET struct == StructOf(values, Fields4(a, A, b, B, c, C, d, D))
           IN  /\ Trips(struct, v)
               /\ Len(struct.write[v]) = Total4(A.write[v[a]], B.write[v[b]], C.write[v[c]],
                          D.write[v[d]])
<1> DEFINE fields == Fields4(a, A, b, B, c, C, d, D)
           struct == StructOf(values, fields)
           parts == [k \in DOMAIN fields |-> fields[k][2].write[v[fields[k][1]]]]
<1>1. /\ DOMAIN fields = 1 .. 4
      /\ fields[1][1] = a /\ fields[1][2] = A
      /\ fields[2][1] = b /\ fields[2][2] = B
      /\ fields[3][1] = c /\ fields[3][2] = C
      /\ fields[4][1] = d /\ fields[4][2] = D
  BY DEF Fields4
<1> HIDE DEF fields
<1>2. Named(fields, 4)
  BY <1>1 DEF Named
<1>3. Names(fields, 4) = {a, b, c, d}
  BY <1>1 DEF Names
<1>4. \A k \in 1 .. 4 : Trips(fields[k][2], v[fields[k][1]])
  BY <1>1
<1>5. v = [name \in Names(fields, 4) |-> v[name]]
  BY <1>3 DEF HasFields4
<1>6. Trips(struct, v)
  BY <1>1, <1>2, <1>4, <1>5, StructTrips
<1>7. struct.write[v] = FlattenSeq(parts)
  BY DEF StructOf
<1>8. DOMAIN parts = 1 .. 4 /\ \A k \in 1 .. 4 : parts[k] \in Seq(Byte)
  BY <1>1, <1>4 DEF Trips
<1>9. /\ parts[1] = A.write[v[a]]
      /\ parts[2] = B.write[v[b]]
      /\ parts[3] = C.write[v[c]]
      /\ parts[4] = D.write[v[d]]
  BY <1>1
<1>10. parts = [k \in 1 .. 4 |-> parts[k]]
  BY <1>1
<1> HIDE DEF struct, parts
<1>11. parts \in Seq(Seq(Byte)) /\ Len(parts) = 4
  BY <1>8, <1>10
<1>12. Len(struct.write[v]) = LengthsTo(parts, 4)
  BY <1>7, <1>11, FlattenFewLengths
<1>13. \A k \in 1 .. 4 : Len(parts[k]) \in Nat
  BY <1>8
<1> QED
  BY <1>6, <1>9, <1>12, <1>13 DEF LengthsTo, Total4, struct, fields

Fields5(a, A, b, B, c, C, d, D, e, E) == << <<a, A>>, <<b, B>>, <<c, C>>, <<d, D>>, <<e, E>> >>

HasFields5(v, a, b, c, d, e) == v = [name \in {a, b, c, d, e} |-> v[name]]

Total5(p, q, r, s, t) == Len(p) + Len(q) + Len(r) + Len(s) + Len(t)

(* A struct of five fields.                                                *)
LEMMA Struct5 ==
    ASSUME NEW values, NEW v \in values,
           NEW a, NEW A, NEW b, NEW B, NEW c, NEW C, NEW d, NEW D, NEW e, NEW E,
           HasFields5(v, a, b, c, d, e),
           a # b, a # c, a # d, a # e, b # c, b # d, b # e, c # d, c # e, d # e,
           Trips(A, v[a]), Trips(B, v[b]), Trips(C, v[c]), Trips(D, v[d]), Trips(E, v[e])
    PROVE  LET struct == StructOf(values, Fields5(a, A, b, B, c, C, d, D, e, E))
           IN  /\ Trips(struct, v)
               /\ Len(struct.write[v]) = Total5(A.write[v[a]], B.write[v[b]], C.write[v[c]],
                          D.write[v[d]], E.write[v[e]])
<1> DEFINE fields == Fields5(a, A, b, B, c, C, d, D, e, E)
           struct == StructOf(values, fields)
           parts == [k \in DOMAIN fields |-> fields[k][2].write[v[fields[k][1]]]]
<1>1. /\ DOMAIN fields = 1 .. 5
      /\ fields[1][1] = a /\ fields[1][2] = A
      /\ fields[2][1] = b /\ fields[2][2] = B
      /\ fields[3][1] = c /\ fields[3][2] = C
      /\ fields[4][1] = d /\ fields[4][2] = D
      /\ fields[5][1] = e /\ fields[5][2] = E
  BY DEF Fields5
<1> HIDE DEF fields
<1>2. Named(fields, 5)
  BY <1>1 DEF Named
<1>3. Names(fields, 5) = {a, b, c, d, e}
  BY <1>1 DEF Names
<1>4. \A k \in 1 .. 5 : Trips(fields[k][2], v[fields[k][1]])
  BY <1>1
<1>5. v = [name \in Names(fields, 5) |-> v[name]]
  BY <1>3 DEF HasFields5
<1>6. Trips(struct, v)
  BY <1>1, <1>2, <1>4, <1>5, StructTrips
<1>7. struct.write[v] = FlattenSeq(parts)
  BY DEF StructOf
<1>8. DOMAIN parts = 1 .. 5 /\ \A k \in 1 .. 5 : parts[k] \in Seq(Byte)
  BY <1>1, <1>4 DEF Trips
<1>9. /\ parts[1] = A.write[v[a]]
      /\ parts[2] = B.write[v[b]]
      /\ parts[3] = C.write[v[c]]
      /\ parts[4] = D.write[v[d]]
      /\ parts[5] = E.write[v[e]]
  BY <1>1
<1>10. parts = [k \in 1 .. 5 |-> parts[k]]
  BY <1>1
<1> HIDE DEF struct, parts
<1>11. parts \in Seq(Seq(Byte)) /\ Len(parts) = 5
  BY <1>8, <1>10
<1>12. Len(struct.write[v]) = LengthsTo(parts, 5)
  BY <1>7, <1>11, FlattenFewLengths
<1>13. \A k \in 1 .. 5 : Len(parts[k]) \in Nat
  BY <1>8
<1> QED
  BY <1>6, <1>9, <1>12, <1>13 DEF LengthsTo, Total5, struct, fields
====
