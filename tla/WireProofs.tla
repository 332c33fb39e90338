------------------------------ MODULE WireProofs ------------------------------
(***************************************************************************)
(* The safety properties of Wire, for names and replies of any length, any *)
(* radix and any place of the question in the message.                     *)
(***************************************************************************)
EXTENDS Wire, SequenceTheorems, WellFoundedInduction, TLAPS

-----------------------------------------------------------------------------
(* Numbers.                                                                *)

\* A set of natural numbers that is not empty has a least element.
LEMMA LeastNat ==
  ASSUME NEW D \in SUBSET Nat, D # {}
  PROVE  \E k \in D : \A j \in D : k <= j
<1>1. PICK k \in D : \A j \in D : ~(<<j, k>> \in OpToRel(<, Nat))
  BY WFMin, NatLessThanWellFounded
<1>2. \A j \in D : j \in Nat /\ k \in Nat /\ ~(j < k)
  BY <1>1 DEF OpToRel
<1>3. \A j \in D : k <= j
  BY <1>2
<1> QED
  BY <1>1, <1>3

\* Induction over the natural numbers.
LEMMA NatInSet ==
  ASSUME NEW A, 0 \in A, \A n \in Nat : n \in A => n + 1 \in A
  PROVE  Nat \subseteq A
<1> DEFINE D == Nat \ A
<1>1. SUFFICES ASSUME D # {} PROVE FALSE
  OBVIOUS
<1>2. PICK k \in D : \A j \in D : k <= j
  <2>1. D \in SUBSET Nat
    OBVIOUS
  <2> HIDE DEF D
  <2> QED
    BY <1>1, <2>1, LeastNat
<1>3. k \in Nat /\ k \notin A /\ k # 0
  BY <1>2
<1>4. k - 1 \in Nat /\ ~(k <= k - 1) /\ (k - 1) + 1 = k
  BY <1>3
<1>5. k - 1 \in A
  BY <1>2, <1>4
<1> QED
  BY <1>3, <1>4, <1>5

\* A quarter of the radix.
LEMMA Quarter ==
  /\ B \in Nat /\ B > 0 /\ B \div 4 \in Nat /\ B \div 4 > 0
  /\ B = 4 * (B \div 4)
BY WireAssumption

\* The two cells of a number.
LEMMA TwoCells ==
  ASSUME NEW p \in Nat
  PROVE  /\ p = (p \div B) * B + (p % B)
         /\ p % B \in Byte /\ p \div B \in Nat
BY WireAssumption DEF Byte

\* A number below n radixes has a first cell below n.
LEMMA FirstCell ==
  ASSUME NEW p \in Nat, NEW n \in Nat, p < n * B
  PROVE  p \div B < n
<1> DEFINE d == p \div B
<1>1. p = d * B + (p % B) /\ p % B \in Nat /\ d \in Nat
  BY TwoCells DEF Byte
<1> HIDE DEF d
<1>2. d >= n => d * B >= n * B
  BY <1>1, Quarter
<1>3. d * B \in Nat /\ n * B \in Nat
  BY <1>1, Quarter
<1>4. d < n
  BY <1>1, <1>2, <1>3
<1> QED
  BY <1>4 DEF d

-----------------------------------------------------------------------------
(* Concatenation of sequences.                                             *)

\* the table that FlattenSeq looks its result up in
isFlat(f, ss) ==
  f = [i \in 1 .. Len(ss) |-> IF i = 1 THEN ss[i] ELSE f[i - 1] \o ss[i]]

\* its first n entries
flatTo(f, S, ss, n) ==
  /\ f \in [1 .. n -> Seq(S)]
  /\ \A i \in 1 .. n : f[i] = IF i = 1 THEN ss[i] ELSE f[i - 1] \o ss[i]

\* There is such a table.
LEMMA FlatExists ==
  ASSUME NEW S, NEW ss \in Seq(Seq(S))
  PROVE  \E f : isFlat(f, ss) /\ f \in [1 .. Len(ss) -> Seq(S)]
<1> DEFINE N == Len(ss)
           A == {n \in Nat : n <= N => \E f : flatTo(f, S, ss, n)}
<1>1. N \in Nat
  OBVIOUS
<1>2. 0 \in A
  <2> DEFINE f == [i \in 1 .. 0 |-> <<>>]
  <2>1. 1 .. 0 = {}
    OBVIOUS
  <2>2. f \in [1 .. 0 -> Seq(S)]
    BY <2>1
  <2> HIDE DEF f
  <2>3. flatTo(f, S, ss, 0)
    BY <2>1, <2>2 DEF flatTo
  <2> QED
    BY <2>3
<1>3. ASSUME NEW n \in Nat, n \in A PROVE n + 1 \in A
  <2>1. SUFFICES ASSUME n + 1 <= N PROVE \E f : flatTo(f, S, ss, n + 1)
    OBVIOUS
  <2>2. PICK f : flatTo(f, S, ss, n)
    BY <1>1, <1>3, <2>1
  <2> DEFINE v == IF n + 1 = 1 THEN ss[n + 1] ELSE f[n] \o ss[n + 1]
             g == [i \in 1 .. n + 1 |-> IF i = n + 1 THEN v ELSE f[i]]
  <2>3. v \in Seq(S)
    <3>1. ss[n + 1] \in Seq(S)
      BY <1>1, <2>1
    <3>2. n # 0 => f[n] \in Seq(S)
      BY <2>2 DEF flatTo
    <3> QED
      BY <3>1, <3>2
  <2>4. g \in [1 .. n + 1 -> Seq(S)]
    BY <2>2, <2>3 DEF flatTo
  <2>5. ASSUME NEW i \in 1 .. n + 1
        PROVE  g[i] = IF i = 1 THEN ss[i] ELSE g[i - 1] \o ss[i]
    <3>1. CASE i = n + 1
      <4>1. i # 1 => i - 1 \in 1 .. n + 1 /\ i - 1 # n + 1 /\ i - 1 = n
        BY <3>1
      <4>2. i # 1 => g[i - 1] = f[n]
        BY <4>1
      <4>3. g[i] = v
        BY <3>1
      <4> HIDE DEF g
      <4> QED
        BY <3>1, <4>2, <4>3
    <3>2. CASE i # n + 1
      <4>1. i \in 1 .. n /\ (i # 1 => i - 1 \in 1 .. n + 1 /\ i - 1 # n + 1)
        BY <3>2
      <4>2. g[i] = f[i] /\ (i # 1 => g[i - 1] = f[i - 1])
        BY <4>1
      <4> HIDE DEF g
      <4> QED
        BY <2>2, <4>1, <4>2 DEF flatTo
    <3> QED
      BY <3>1, <3>2
  <2> HIDE DEF g
  <2>6. flatTo(g, S, ss, n + 1)
    BY <2>4, <2>5 DEF flatTo
  <2> QED
    BY <2>6
<1>4. N \in A
  <2> HIDE DEF A
  <2> QED
    BY <1>1, <1>2, <1>3, NatInSet
<1>5. PICK f : flatTo(f, S, ss, N)
  BY <1>1, <1>4
<1>6. isFlat(f, ss)
  <2>1. f = [i \in 1 .. N |-> f[i]]
    BY <1>5 DEF flatTo
  <2>2. [i \in 1 .. N |-> f[i]] =
          [i \in 1 .. N |-> IF i = 1 THEN ss[i] ELSE f[i - 1] \o ss[i]]
    BY <1>5 DEF flatTo
  <2> QED
    BY <2>1, <2>2 DEF isFlat
<1> QED
  BY <1>5, <1>6 DEF flatTo

\* What FlattenSeq returns is the last entry of a table.
LEMMA FlatUnfolds ==
  ASSUME NEW S, NEW ss \in Seq(Seq(S)), Len(ss) # 0
  PROVE  \E f : isFlat(f, ss) /\ FlattenSeq(ss) = f[Len(ss)]
<1> DEFINE f == CHOOSE f : isFlat(f, ss)
<1>1. isFlat(f, ss)
  BY FlatExists
<1>2. FlattenSeq(ss) = f[Len(ss)]
  BY DEF FlattenSeq, isFlat
<1> QED
  BY <1>1, <1>2

\* An entry of a table.
LEMMA FlatEntry ==
  ASSUME NEW f, NEW ss, isFlat(f, ss), NEW i \in 1 .. Len(ss)
  PROVE  f[i] = IF i = 1 THEN ss[i] ELSE f[i - 1] \o ss[i]
<1> DEFINE h == [j \in 1 .. Len(ss) |-> IF j = 1 THEN ss[j] ELSE f[j - 1] \o ss[j]]
<1>1. h[i] = IF i = 1 THEN ss[i] ELSE f[i - 1] \o ss[i]
  OBVIOUS
<1>2. f = h
  BY DEF isFlat
<1> HIDE DEF h
<1> QED
  BY <1>1, <1>2

\* The entries of a table are sequences, and it starts like that of any
\* longer list.
LEMMA FlatPrefix ==
  ASSUME NEW S, NEW ss \in Seq(Seq(S)), NEW tt \in Seq(Seq(S)),
         Len(ss) <= Len(tt), \A i \in 1 .. Len(ss) : ss[i] = tt[i],
         NEW f, isFlat(f, ss), NEW g, isFlat(g, tt)
  PROVE  \A n \in 1 .. Len(ss) : f[n] = g[n] /\ f[n] \in Seq(S)
<1> DEFINE A == {n \in Nat : n \in 1 .. Len(ss) => f[n] = g[n] /\ f[n] \in Seq(S)}
<1>1. Len(ss) \in Nat /\ Len(tt) \in Nat
  OBVIOUS
<1>2. 0 \in A
  OBVIOUS
<1>3. ASSUME NEW n \in Nat, n \in A PROVE n + 1 \in A
  <2>1. SUFFICES ASSUME n + 1 \in 1 .. Len(ss)
                 PROVE  f[n + 1] = g[n + 1] /\ f[n + 1] \in Seq(S)
    OBVIOUS
  <2>2. n + 1 \in 1 .. Len(tt) /\ ss[n + 1] = tt[n + 1] /\ ss[n + 1] \in Seq(S)
    BY <1>1, <2>1
  <2>3. /\ f[n + 1] = IF n + 1 = 1 THEN ss[n + 1] ELSE f[n] \o ss[n + 1]
        /\ g[n + 1] = IF n + 1 = 1 THEN tt[n + 1] ELSE g[n] \o tt[n + 1]
    <3> DEFINE k == n + 1
    <3>1. k - 1 = n
      OBVIOUS
    <3>2. k \in 1 .. Len(ss) /\ k \in 1 .. Len(tt)
      BY <2>1, <2>2
    <3> HIDE DEF k
    <3>3. f[k] = IF k = 1 THEN ss[k] ELSE f[k - 1] \o ss[k]
      BY <3>2, FlatEntry
    <3>4. g[k] = IF k = 1 THEN tt[k] ELSE g[k - 1] \o tt[k]
      BY <3>2, FlatEntry
    <3> QED
      BY <3>1, <3>3, <3>4 DEF k
  <2>4. CASE n = 0
    BY <2>2, <2>3, <2>4
  <2>5. CASE n # 0
    <3>1. f[n] = g[n] /\ f[n] \in Seq(S)
      BY <1>1, <1>3, <2>1, <2>5
    <3> QED
      BY <2>2, <2>3, <2>5, <3>1
  <2> QED
    BY <2>4, <2>5
<1>4. Nat \subseteq A
  <2> HIDE DEF A
  <2> QED
    BY <1>2, <1>3, NatInSet
<1> QED
  BY <1>1, <1>4

\* Flattening nothing gives nothing.
LEMMA FlattenEmpty ==
  ASSUME NEW ss, ss = <<>>
  PROVE  FlattenSeq(ss) = <<>>
BY DEF FlattenSeq

\* It gives a sequence over the same elements.
LEMMA FlattenType ==
  ASSUME NEW S, NEW ss \in Seq(Seq(S))
  PROVE  FlattenSeq(ss) \in Seq(S)
<1>1. CASE Len(ss) = 0
  <2>1. ss = <<>> /\ <<>> \in Seq(S)
    BY <1>1
  <2>2. FlattenSeq(ss) = <<>>
    BY <2>1, FlattenEmpty
  <2> QED
    BY <2>1, <2>2
<1>2. CASE Len(ss) # 0
  <2>1. PICK f : isFlat(f, ss) /\ FlattenSeq(ss) = f[Len(ss)]
    BY <1>2, FlatUnfolds
  <2>2. Len(ss) \in 1 .. Len(ss)
    BY <1>2
  <2> QED
    BY <2>1, <2>2, FlatPrefix
<1> QED
  BY <1>1, <1>2

\* One more sequence comes at the end.
LEMMA FlattenAppend ==
  ASSUME NEW S, NEW ss \in Seq(Seq(S)), NEW x \in Seq(S)
  PROVE  FlattenSeq(Append(ss, x)) = FlattenSeq(ss) \o x
<1> DEFINE tt == Append(ss, x)
           N == Len(ss)
<1>1. /\ tt \in Seq(Seq(S)) /\ Len(tt) = N + 1 /\ N \in Nat /\ tt[N + 1] = x
      /\ \A i \in 1 .. N : ss[i] = tt[i]
  OBVIOUS
<1> HIDE DEF tt
<1>2. PICK g : isFlat(g, tt) /\ FlattenSeq(tt) = g[N + 1]
  BY <1>1, FlatUnfolds, SMTT(30)
<1>3. g[N + 1] = IF N + 1 = 1 THEN tt[N + 1] ELSE g[N] \o tt[N + 1]
  <2>1. N + 1 \in 1 .. Len(tt) /\ (N + 1) - 1 = N
    BY <1>1
  <2> QED
    BY <1>2, <2>1 DEF isFlat
<1>4. CASE N = 0
  <2>1. ss = <<>>
    BY <1>4
  <2>2. FlattenSeq(ss) = <<>>
    BY <2>1, FlattenEmpty
  <2>3. FlattenSeq(tt) = x
    BY <1>1, <1>2, <1>3, <1>4
  <2> QED
    BY <2>2, <2>3 DEF tt
<1>5. CASE N # 0
  <2>1. PICK f : isFlat(f, ss) /\ FlattenSeq(ss) = f[N]
    BY <1>5, FlatUnfolds
  <2>2. N \in 1 .. N /\ N <= N + 1
    BY <1>1, <1>5
  <2>3. \A n \in 1 .. N : f[n] = g[n] /\ f[n] \in Seq(S)
    BY <1>1, <1>2, <2>1, <2>2, FlatPrefix
  <2>4. g[N] = FlattenSeq(ss)
    BY <2>1, <2>2, <2>3
  <2>5. FlattenSeq(tt) = g[N] \o x
    BY <1>1, <1>2, <1>3, <1>5
  <2> QED
    BY <2>4, <2>5 DEF tt
<1> QED
  BY <1>4, <1>5

\* Concatenation is associative.
LEMMA Assoc ==
  ASSUME NEW S, NEW x \in Seq(S), NEW y \in Seq(S), NEW z \in Seq(S),
         NEW u, u = x \o y, NEW v, v = y \o z
  PROVE  u \o z = x \o v
<1>1. /\ u \in Seq(S) /\ Len(u) = Len(x) + Len(y)
      /\ v \in Seq(S) /\ Len(v) = Len(y) + Len(z)
      /\ Len(x) \in Nat /\ Len(y) \in Nat /\ Len(z) \in Nat
  OBVIOUS
<1>2. /\ u \o z \in Seq(S) /\ Len(u \o z) = Len(x) + Len(y) + Len(z)
      /\ x \o v \in Seq(S) /\ Len(x \o v) = Len(x) + Len(y) + Len(z)
  BY <1>1
<1>3. ASSUME NEW i \in 1 .. Len(x) + Len(y) + Len(z)
      PROVE  (u \o z)[i] = (x \o v)[i]
  BY <1>1
<1> QED
  BY <1>2, <1>3, SeqEqual

\* What is one after the other is the concatenation.
LEMMA IsCat ==
  ASSUME NEW S, NEW x \in Seq(S), NEW y \in Seq(S), NEW z \in Seq(S),
         Len(z) = Len(x) + Len(y),
         \A i \in 1 .. Len(x) : z[i] = x[i],
         \A i \in 1 .. Len(y) : z[Len(x) + i] = y[i]
  PROVE  z = x \o y
<1>1. /\ x \o y \in Seq(S) /\ Len(x \o y) = Len(x) + Len(y)
      /\ Len(x) \in Nat /\ Len(y) \in Nat
  OBVIOUS
<1>2. ASSUME NEW i \in 1 .. Len(z) PROVE z[i] = (x \o y)[i]
  <2>1. CASE i \in 1 .. Len(x)
    BY <1>1, <2>1
  <2>2. CASE i \notin 1 .. Len(x)
    <3>1. i - Len(x) \in 1 .. Len(y) /\ i = Len(x) + (i - Len(x))
      BY <1>1, <2>2
    <3>2. (x \o y)[i] = y[i - Len(x)]
      BY <1>1, <2>2
    <3> QED
      BY <3>1, <3>2
  <2> QED
    BY <2>1, <2>2
<1> QED
  BY <1>1, <1>2, SeqEqual

\* What is flattened can be split anywhere.
LEMMA FlattenCat ==
  ASSUME NEW S, NEW ss \in Seq(Seq(S)), NEW tt \in Seq(Seq(S))
  PROVE  FlattenSeq(ss \o tt) = FlattenSeq(ss) \o FlattenSeq(tt)
<1> DEFINE A == {n \in Nat : \A uu \in Seq(Seq(S)) : Len(uu) = n =>
                   FlattenSeq(ss \o uu) = FlattenSeq(ss) \o FlattenSeq(uu)}
<1>1. 0 \in A
  <2> SUFFICES ASSUME NEW uu \in Seq(Seq(S)), Len(uu) = 0
               PROVE  FlattenSeq(ss \o uu) = FlattenSeq(ss) \o FlattenSeq(uu)
    OBVIOUS
  <2>1. uu = <<>> /\ ss \o uu = ss
    OBVIOUS
  <2>2. FlattenSeq(uu) = <<>> /\ FlattenSeq(ss) \in Seq(S)
    BY <2>1, FlattenEmpty, FlattenType
  <2>3. FlattenSeq(ss) \o <<>> = FlattenSeq(ss)
    BY <2>2
  <2> QED
    BY <2>1, <2>2, <2>3
<1>2. ASSUME NEW n \in Nat, n \in A PROVE n + 1 \in A
  <2> SUFFICES ASSUME NEW uu \in Seq(Seq(S)), Len(uu) = n + 1
               PROVE  FlattenSeq(ss \o uu) = FlattenSeq(ss) \o FlattenSeq(uu)
    OBVIOUS
  <2> DEFINE vv == SubSeq(uu, 1, n)
             x == uu[n + 1]
  <2>1. vv \in Seq(Seq(S)) /\ Len(vv) = n /\ x \in Seq(S) /\ uu = Append(vv, x)
    OBVIOUS
  <2>2. FlattenSeq(ss \o vv) = FlattenSeq(ss) \o FlattenSeq(vv)
    BY <1>2, <2>1
  <2> HIDE DEF vv, x
  <2>3. ss \o uu = Append(ss \o vv, x) /\ ss \o vv \in Seq(Seq(S))
    BY <2>1
  <2>4. /\ FlattenSeq(Append(ss \o vv, x)) = FlattenSeq(ss \o vv) \o x
        /\ FlattenSeq(Append(vv, x)) = FlattenSeq(vv) \o x
    BY <2>1, <2>3, FlattenAppend
  <2>5. FlattenSeq(ss) \in Seq(S) /\ FlattenSeq(vv) \in Seq(S)
    BY <2>1, FlattenType
  <2>6. (FlattenSeq(ss) \o FlattenSeq(vv)) \o x = FlattenSeq(ss) \o (FlattenSeq(vv) \o x)
    <3> DEFINE F == FlattenSeq(ss)
               G == FlattenSeq(vv)
    <3>1. F \in Seq(S) /\ G \in Seq(S) /\ x \in Seq(S)
      BY <2>1, <2>5
    <3> HIDE DEF F, G
    <3> DEFINE u == F \o G
               v == G \o x
    <3>3. u = F \o G /\ v = G \o x
      OBVIOUS
    <3> HIDE DEF u, v
    <3>2. u \o x = F \o v
      BY ONLY <3>1, <3>3, Assoc, SMTT(30)
    <3> QED
      BY <3>2 DEF F, G, u, v
  <2> QED
    BY <2>1, <2>2, <2>3, <2>4, <2>6
<1>3. Len(tt) \in A
  <2>1. Len(tt) \in Nat
    OBVIOUS
  <2> HIDE DEF A
  <2> QED
    BY <1>1, <1>2, <2>1, NatInSet
<1> QED
  BY <1>3

\* Flattening one sequence gives that sequence.
LEMMA FlattenOne ==
  ASSUME NEW S, NEW x \in Seq(S)
  PROVE  FlattenSeq(<<x>>) = x
<1>1. <<x>> = Append(<<>>, x) /\ <<>> \in Seq(Seq(S))
  OBVIOUS
<1>2. FlattenSeq(<<>>) = <<>> /\ <<>> \o x = x
  BY FlattenEmpty
<1> QED
  BY <1>1, <1>2, FlattenAppend

-----------------------------------------------------------------------------
(* The cells of a name.                                                    *)

\* A label has a byte at least.
LEMMA LabelType ==
  ASSUME NEW l \in Label
  PROVE  /\ l \in Seq(Byte) /\ l \in Seq(Nat) /\ Len(l) \in Nat /\ Len(l) > 0
         /\ \A i \in 1 .. Len(l) : l[i] \in Byte
<1>1. Byte \subseteq Nat
  BY Quarter DEF Byte
<1>2. l \in Seq(Byte) /\ l # <<>>
  BY DEF Label
<1>3. l \in Seq(Nat)
  BY <1>1, <1>2, SeqMonotonic
<1>4. Len(l) \in Nat \ {0}
  BY <1>2, EmptySeq
<1>5. \A i \in 1 .. Len(l) : l[i] \in Byte
  BY <1>2, ElementOfSeq
<1> QED
  BY <1>2, <1>3, <1>4, <1>5

\* The labels of a name.
LEMMA NameType ==
  ASSUME NEW name \in Name
  PROVE  /\ Len(name) \in Nat /\ DOMAIN name = 1 .. Len(name)
         /\ \A i \in 1 .. Len(name) : name[i] \in Label
BY DEF Name

\* One more label is emitted behind the others.
LEMMA EmitMore ==
  ASSUME NEW name \in Name, NEW n \in Nat, n < Len(name)
  PROVE  emit(name, n + 1) = emit(name, n) \o (<<Len(name[n + 1])>> \o name[n + 1])
<1> DEFINE F(i) == <<Len(name[i])>> \o name[i]
           ss == [i \in 1 .. n |-> F(i)]
           tt == [i \in 1 .. n + 1 |-> F(i)]
<1>1. \A i \in 1 .. n + 1 : F(i) \in Seq(Nat)
  <2> TAKE i \in 1 .. n + 1
  <2>1. name[i] \in Label
    BY NameType
  <2> QED
    BY <2>1, LabelType
<1>2. n + 1 \in 1 .. n + 1 /\ 1 .. n \subseteq 1 .. n + 1
  OBVIOUS
<1> HIDE DEF F
<1>3. ss \in Seq(Seq(Nat)) /\ Len(ss) = n /\ F(n + 1) \in Seq(Nat)
  BY <1>1, <1>2
<1>4. tt = Append(ss, F(n + 1))
  <2>1. tt \in Seq(Seq(Nat)) /\ Len(tt) = n + 1
    BY <1>1
  <2> QED
    BY <1>3, <2>1
<1> HIDE DEF ss, tt
<1>5. FlattenSeq(tt) = FlattenSeq(ss) \o F(n + 1)
  BY <1>3, <1>4, FlattenAppend
<1> QED
  BY <1>5 DEF ss, tt, F, emit

\* Nothing is emitted for no label.
LEMMA EmitNone ==
  ASSUME NEW name
  PROVE  emit(name, 0) = <<>>
<1> DEFINE ss == [i \in 1 .. 0 |-> <<Len(name[i])>> \o name[i]]
<1>1. ss = <<>>
  OBVIOUS
<1> QED
  BY <1>1, FlattenEmpty DEF emit

\* m has the label l at offset o.
LabelAt(m, o, l) ==
  /\ o + 1 + Len(l) <= Len(m) /\ m[o + 1] = Len(l)
  /\ \A j \in 1 .. Len(l) : m[o + 1 + j] = l[j]

\* the first n labels of name are in its first cells
spelledTo(name, n) ==
  /\ emit(name, n) \in Seq(Nat) /\ Len(emit(name, n)) \in Nat
  /\ \A i \in 1 .. n :
       /\ LabelAt(emit(name, n), Len(emit(name, i - 1)), name[i])
       /\ Len(emit(name, i - 1)) \in Nat
       /\ Len(emit(name, i)) = Len(emit(name, i - 1)) + 1 + Len(name[i])

\* What is emitted has the labels one after the other.
LEMMA Emitted ==
  ASSUME NEW name \in Name, NEW n \in 0 .. Len(name)
  PROVE  spelledTo(name, n)
<1> DEFINE A == {k \in Nat : k <= Len(name) => spelledTo(name, k)}
<1>1. 0 \in A
  <2>1. emit(name, 0) \in Seq(Nat) /\ Len(emit(name, 0)) = 0
    BY EmitNone, EmptySeq
  <2>2. 1 .. 0 = {}
    OBVIOUS
  <2>3. spelledTo(name, 0)
    BY <2>1, <2>2 DEF spelledTo
  <2> QED
    BY <2>3
<1>2. ASSUME NEW k \in Nat, k \in A PROVE k + 1 \in A
  <2> SUFFICES ASSUME k + 1 <= Len(name) PROVE spelledTo(name, k + 1)
    OBVIOUS
  <2> DEFINE l == name[k + 1]
             e == emit(name, k)
             f == emit(name, k + 1)
  <2>0. k < Len(name) /\ k <= Len(name) /\ (k + 1) - 1 = k
    BY NameType
  <2>1. spelledTo(name, k)
    BY <1>2, <2>0
  <2>2. /\ l \in Seq(Nat) /\ Len(l) \in Nat /\ f = e \o (<<Len(l)>> \o l)
    <3>1. l \in Label
      BY <2>0, NameType
    <3> QED
      BY <2>0, <3>1, LabelType, EmitMore
  <2>3. e \in Seq(Nat) /\ Len(e) \in Nat
    BY <2>1 DEF spelledTo
  <2> HIDE DEF l, e, f
  <2>4. f \in Seq(Nat) /\ Len(f) = Len(e) + 1 + Len(l) /\ Len(f) \in Nat
    BY <2>2, <2>3
  <2>5. LabelAt(f, Len(e), l)
    <3>1. f[Len(e) + 1] = Len(l)
      BY <2>2, <2>3
    <3>2. \A j \in 1 .. Len(l) : f[Len(e) + 1 + j] = l[j]
      BY <2>2, <2>3
    <3> QED
      BY <2>4, <3>1, <3>2 DEF LabelAt
  <2>6. \A j \in 1 .. Len(e) : f[j] = e[j]
    BY <2>2, <2>3
  <2>7. ASSUME NEW i \in 1 .. k
        PROVE  /\ LabelAt(f, Len(emit(name, i - 1)), name[i])
               /\ Len(emit(name, i - 1)) \in Nat
               /\ Len(emit(name, i)) = Len(emit(name, i - 1)) + 1 + Len(name[i])
    <3> DEFINE o == Len(emit(name, i - 1))
    <3>1. /\ LabelAt(e, o, name[i]) /\ o \in Nat
          /\ Len(emit(name, i)) = o + 1 + Len(name[i])
      BY <2>1 DEF spelledTo, e
    <3>2. Len(name[i]) \in Nat
      BY <2>0, NameType, LabelType
    <3> HIDE DEF o
    <3>3. LabelAt(f, o, name[i])
      <4> DEFINE ll == name[i]
      <4>1. o + 1 + Len(ll) <= Len(e) /\ e[o + 1] = Len(ll)
        BY <3>1 DEF LabelAt
      <4>2. \A j \in 1 .. Len(ll) : e[o + 1 + j] = ll[j]
        BY <3>1 DEF LabelAt
      <4>a. Len(ll) \in Nat
        BY <3>2
      <4> HIDE DEF ll
      <4>3. o + 1 \in 1 .. Len(e) /\ \A j \in 1 .. Len(ll) : o + 1 + j \in 1 .. Len(e)
        BY <2>3, <3>1, <4>a, <4>1, SMTT(30)
      <4>4. Len(e) <= Len(f) /\ Len(ll) \in Nat
        BY <2>2, <2>3, <2>4, <4>a
      <4>5. o + 1 + Len(ll) <= Len(f)
        BY <2>3, <2>4, <3>1, <4>1, <4>4
      <4>6. f[o + 1] = Len(ll) /\ \A j \in 1 .. Len(ll) : f[o + 1 + j] = ll[j]
        BY <2>6, <4>1, <4>2, <4>3
      <4> QED
        BY <4>5, <4>6 DEF LabelAt, ll
    <3> QED
      BY <3>1, <3>3 DEF o
  <2>8. ASSUME NEW i \in 1 .. k + 1
        PROVE  /\ LabelAt(f, Len(emit(name, i - 1)), name[i])
               /\ Len(emit(name, i - 1)) \in Nat
               /\ Len(emit(name, i)) = Len(emit(name, i - 1)) + 1 + Len(name[i])
    <3>1. CASE i \in 1 .. k
      BY <2>7, <3>1
    <3>2. CASE i = k + 1
      BY <2>0, <2>3, <2>4, <2>5, <3>2 DEF l, e, f
    <3>3. i \in 1 .. k \/ i = k + 1
      OBVIOUS
    <3> QED
      BY <3>1, <3>2, <3>3
  <2> QED
    BY <2>4, <2>8 DEF f, spelledTo
<1>3. n \in A
  <2>1. n \in Nat
    OBVIOUS
  <2> HIDE DEF A
  <2> QED
    BY <1>1, <1>2, <2>1, NatInSet
<1> QED
  BY <1>3, NameType

-----------------------------------------------------------------------------
(* The text of a name.                                                     *)

\* Induction over sequences.
LEMMA SeqInSet ==
  ASSUME NEW S, NEW A, <<>> \in A,
         \A x \in Seq(S) : \A e \in S : x \in A => Append(x, e) \in A
  PROVE  Seq(S) \subseteq A
<1> DEFINE D == {n \in Nat : \A x \in Seq(S) : Len(x) = n => x \in A}
<1>1. 0 \in D
  <2> SUFFICES ASSUME NEW x \in Seq(S), Len(x) = 0 PROVE x \in A
    OBVIOUS
  <2>1. x = <<>>
    OBVIOUS
  <2> QED
    BY <2>1
<1>2. ASSUME NEW n \in Nat, n \in D PROVE n + 1 \in D
  <2> SUFFICES ASSUME NEW x \in Seq(S), Len(x) = n + 1 PROVE x \in A
    OBVIOUS
  <2> DEFINE y == SubSeq(x, 1, n)
             e == x[n + 1]
  <2>1. y \in Seq(S) /\ Len(y) = n /\ e \in S /\ x = Append(y, e)
    OBVIOUS
  <2>2. y \in A
    BY <1>2, <2>1
  <2> HIDE DEF y, e
  <2> QED
    BY <2>1, <2>2
<1>3. Nat \subseteq D
  <2> HIDE DEF D
  <2> QED
    BY <1>1, <1>2, NatInSet
<1> QED
  BY <1>3

noDot(label) == \A j \in 1 .. Len(label) : label[j] # dot
escape(b) == IF b = dot THEN <<-1, dot>> ELSE <<b>>

\* Bytes are numbers.
LEMMA ByteType == Byte \subseteq Nat /\ dot \in Byte /\ dot \in Nat /\ 0 \in Byte
BY WireAssumption DEF Byte

\* The text of one byte more.
LEMMA EscapedMore ==
  ASSUME NEW x \in Seq(Byte), NEW b \in Byte
  PROVE  /\ escaped(x) \in Seq(Int) /\ escape(b) \in Seq(Int)
         /\ escaped(Append(x, b)) = escaped(x) \o escape(b)
<1> DEFINE y == Append(x, b)
           ss == [i \in 1 .. Len(x) |-> escape(x[i])]
           tt == [i \in 1 .. Len(y) |-> escape(y[i])]
<1>1. \A c \in Byte : escape(c) \in Seq(Int)
  BY ByteType DEF escape
<1>2. /\ y \in Seq(Byte) /\ Len(y) = Len(x) + 1 /\ y[Len(x) + 1] = b /\ Len(x) \in Nat
      /\ \A i \in 1 .. Len(x) : y[i] = x[i] /\ x[i] \in Byte
  OBVIOUS
<1> HIDE DEF y
<1>3. ss \in Seq(Seq(Int)) /\ Len(ss) = Len(x)
  BY <1>1, <1>2
<1>4. tt = Append(ss, escape(b))
  <2>1. tt \in Seq(Seq(Int)) /\ Len(tt) = Len(x) + 1
    BY <1>1, <1>2
  <2>2. \A i \in 1 .. Len(x) : tt[i] = ss[i]
    BY <1>2
  <2>3. tt[Len(x) + 1] = escape(b)
    BY <1>2
  <2>4. escape(b) \in Seq(Int)
    BY <1>1
  <2> HIDE DEF tt, ss
  <2> QED
    BY <1>2, <1>3, <2>1, <2>2, <2>3, <2>4
<1>5. escape(b) \in Seq(Int)
  BY <1>1
<1> HIDE DEF ss, tt
<1>6. FlattenSeq(tt) = FlattenSeq(ss) \o escape(b) /\ FlattenSeq(ss) \in Seq(Int)
  BY <1>3, <1>4, <1>5, FlattenAppend, FlattenType
<1> QED
  BY <1>5, <1>6 DEF ss, tt, y, escaped, escape

escapedOK(x) ==
  /\ escaped(x) \in Seq(Int) /\ Len(escaped(x)) >= Len(x)
  /\ Len(escaped(x)) = Len(x) => noDot(x)
  /\ noDot(x) => escaped(x) = x

\* A label is no longer than its text, and it is its text when it is plain.
LEMMA Escaped ==
  ASSUME NEW label \in Seq(Byte)
  PROVE  escapedOK(label)
<1> DEFINE A == {x \in Seq(Byte) : escapedOK(x)}
<1>1. <<>> \in A
  <2> DEFINE x == <<>>
             ss == [i \in 1 .. Len(x) |-> escape(x[i])]
  <2>1. x \in Seq(Byte) /\ Len(x) = 0 /\ ss = <<>> /\ noDot(x)
    BY DEF noDot
  <2>2. escaped(x) = FlattenSeq(ss)
    BY DEF escaped, escape
  <2>3. escaped(x) = <<>> /\ <<>> \in Seq(Int)
    BY <2>1, <2>2, FlattenEmpty
  <2>4. escaped(x) = x /\ x \in Seq(Int) /\ Len(escaped(x)) = Len(x) /\ Len(x) \in Nat
    BY <2>1, <2>3
  <2> HIDE DEF x
  <2>5. escapedOK(x)
    BY <2>1, <2>4 DEF escapedOK
  <2> QED
    BY <2>1, <2>5 DEF x
<1>2. ASSUME NEW x \in Seq(Byte), NEW b \in Byte, x \in A PROVE Append(x, b) \in A
  <2> DEFINE y == Append(x, b)
  <2>1. /\ y \in Seq(Byte) /\ Len(y) = Len(x) + 1 /\ y[Len(x) + 1] = b /\ Len(x) \in Nat
        /\ \A i \in 1 .. Len(x) : y[i] = x[i] /\ x[i] \in Byte
    OBVIOUS
  <2>2. escapedOK(x)
    BY <1>2
  <2>3. escaped(y) = escaped(x) \o escape(b) /\ escape(b) \in Seq(Int)
    BY EscapedMore
  <2>4. noDot(y) <=> noDot(x) /\ b # dot
    BY <2>1 DEF noDot
  <2>5. Len(escape(b)) = IF b = dot THEN 2 ELSE 1
    BY DEF escape
  <2>6. escaped(x) \in Seq(Int) /\ Len(escaped(x)) \in Nat
    BY <2>2 DEF escapedOK
  <2>7. escaped(y) \in Seq(Int) /\ Len(escaped(y)) = Len(escaped(x)) + Len(escape(b))
    BY <2>3, <2>6
  <2>8. Len(escaped(x)) >= Len(x) /\ (Len(escaped(x)) = Len(x) => noDot(x))
    BY <2>2 DEF escapedOK
  <2>9. Len(escaped(y)) >= Len(y) /\ (Len(escaped(y)) = Len(y) => noDot(y))
    BY <2>1, <2>4, <2>5, <2>6, <2>7, <2>8
  <2>10. ASSUME noDot(y) PROVE escaped(y) = y
    <3>1. escaped(x) = x /\ escape(b) = <<b>>
      BY <2>2, <2>4, <2>10 DEF escapedOK, escape
    <3>2. escaped(y) = x \o <<b>>
      BY <2>3, <3>1
    <3> QED
      BY <3>2
  <2>11. escapedOK(y)
    BY <2>7, <2>9, <2>10 DEF escapedOK
  <2> QED
    BY <2>1, <2>11
<1>3. Seq(Byte) \subseteq A
  <2> HIDE DEF A
  <2> QED
    BY <1>1, <1>2, SeqInSet
<1> QED
  BY <1>3

\* A label with its dot, as it is in the text.
piece(label) == escaped(label) \o <<dot>>

\* The pieces of the labels of a name are sequences.
LEMMA PieceType ==
  ASSUME NEW label \in Label
  PROVE  /\ piece(label) \in Seq(Int) /\ Len(piece(label)) = Len(escaped(label)) + 1
         /\ Len(piece(label)) >= Len(label) + 1
         /\ Len(piece(label)) = Len(label) + 1 => noDot(label)
         /\ noDot(label) => piece(label) = label \o <<dot>>
         /\ piece(label)[Len(piece(label))] = dot
<1>1. label \in Seq(Byte) /\ Len(label) \in Nat
  BY LabelType
<1>2. escapedOK(label)
  BY <1>1, Escaped
<1> DEFINE e == escaped(label)
<1>3. /\ e \in Seq(Int) /\ Len(e) >= Len(label) /\ Len(e) \in Nat
      /\ Len(e) = Len(label) => noDot(label)
      /\ noDot(label) => e = label
  BY <1>2 DEF escapedOK
<1>4. piece(label) = e \o <<dot>>
  BY DEF piece
<1> HIDE DEF e
<1>5. dot \in Int
  BY ByteType
<1>6. /\ piece(label) \in Seq(Int) /\ Len(piece(label)) = Len(e) + 1
      /\ piece(label)[Len(e) + 1] = dot
  BY <1>3, <1>4, <1>5
<1>7. noDot(label) => piece(label) = label \o <<dot>>
  BY <1>3, <1>4
<1>8. /\ Len(piece(label)) >= Len(label) + 1
      /\ Len(piece(label)) = Len(label) + 1 => noDot(label)
  BY <1>1, <1>3, <1>6
<1> QED
  BY <1>6, <1>7, <1>8 DEF e

pieces(name) == [i \in 1 .. Len(name) |-> piece(name[i])]

\* The text is a sequence.
LEMMA TextType ==
  ASSUME NEW name \in Name
  PROVE  /\ pieces(name) \in Seq(Seq(Int)) /\ text(name) = FlattenSeq(pieces(name))
         /\ text(name) \in Seq(Int) /\ Len(text(name)) \in Nat
<1>1. \A i \in 1 .. Len(name) : piece(name[i]) \in Seq(Int)
  BY NameType, PieceType
<1>2. pieces(name) \in Seq(Seq(Int))
  BY <1>1, NameType DEF pieces
<1>3. text(name) = FlattenSeq(pieces(name))
  BY DEF text, pieces, piece
<1>4. text(name) \in Seq(Int)
  BY <1>2, <1>3, FlattenType
<1> QED
  BY <1>2, <1>3, <1>4

\* The text of two names is one after the other.
LEMMA TextCat ==
  ASSUME NEW x \in Name, NEW y \in Name
  PROVE  x \o y \in Name /\ text(x \o y) = text(x) \o text(y)
<1> DEFINE z == x \o y
<1>1. /\ x \in Seq(Label) /\ y \in Seq(Label) /\ z \in Seq(Label)
      /\ Len(x) \in Nat /\ Len(y) \in Nat /\ Len(z) = Len(x) + Len(y)
      /\ \A i \in 1 .. Len(x) : z[i] = x[i]
      /\ \A i \in 1 .. Len(y) : z[Len(x) + i] = y[i]
  BY DEF Name
<1>2. z \in Name
  BY <1>1 DEF Name
<1> HIDE DEF z
<1> DEFINE p == pieces(x)
           r == pieces(y)
           t == pieces(z)
<1>3. p \in Seq(Seq(Int)) /\ r \in Seq(Seq(Int)) /\ t \in Seq(Seq(Int))
  BY <1>2, TextType
<1>4. /\ Len(p) = Len(x) /\ Len(r) = Len(y) /\ Len(t) = Len(x) + Len(y)
      /\ \A i \in 1 .. Len(x) : p[i] = piece(x[i])
      /\ \A i \in 1 .. Len(y) : r[i] = piece(y[i])
      /\ \A i \in 1 .. Len(x) + Len(y) : t[i] = piece(z[i])
  BY <1>1 DEF pieces
<1> HIDE DEF p, r, t
<1>5. \A i \in 1 .. Len(x) : t[i] = p[i]
  BY <1>1, <1>4
<1>6. \A i \in 1 .. Len(y) : t[Len(x) + i] = r[i]
  <2> TAKE i \in 1 .. Len(y)
  <2>1. Len(x) + i \in 1 .. Len(x) + Len(y)
    BY <1>1
  <2> QED
    BY <1>1, <1>4, <2>1
<1>7. t = p \o r
  <2>1. Len(t) = Len(p) + Len(r) /\ Len(p) = Len(x) /\ Len(r) = Len(y)
    BY <1>4
  <2>2. \A i \in 1 .. Len(p) : t[i] = p[i]
    BY <1>5, <2>1
  <2>3. \A i \in 1 .. Len(r) : t[Len(p) + i] = r[i]
    BY <1>6, <2>1
  <2> DEFINE T == Seq(Int)
  <2>4. p \in Seq(T) /\ r \in Seq(T) /\ t \in Seq(T)
    BY <1>3
  <2> HIDE DEF T
  <2> QED
    BY <2>1, <2>2, <2>3, <2>4, IsCat
<1>8. FlattenSeq(t) = FlattenSeq(p) \o FlattenSeq(r)
  BY <1>3, <1>7, FlattenCat
<1>9. text(z) = FlattenSeq(t) /\ text(x) = FlattenSeq(p) /\ text(y) = FlattenSeq(r)
  BY <1>2, TextType DEF p, r, t
<1> QED
  BY <1>2, <1>8, <1>9 DEF z

\* The text of no label and of one.
LEMMA TextShort ==
  /\ <<>> \in Name /\ text(<<>>) = <<>>
  /\ \A l \in Label : <<l>> \in Name /\ text(<<l>>) = piece(l)
<1>1. <<>> \in Name /\ pieces(<<>>) = <<>>
  BY DEF Name, pieces
<1>2. text(<<>>) = <<>>
  BY <1>1, TextType, FlattenEmpty
<1>3. ASSUME NEW l \in Label PROVE <<l>> \in Name /\ text(<<l>>) = piece(l)
  <2>1. <<l>> \in Name
    BY DEF Name
  <2>2. pieces(<<l>>) = <<piece(l)>>
    BY DEF pieces
  <2>3. piece(l) \in Seq(Int)
    BY PieceType
  <2> QED
    BY <2>1, <2>2, <2>3, TextType, FlattenOne
<1> QED
  BY <1>1, <1>2, <1>3

front(name, n) == SubSeq(name, 1, n)

\* A name is its first labels and the others.
LEMMA Split ==
  ASSUME NEW name \in Name, NEW n \in 0 .. Len(name)
  PROVE  /\ front(name, n) \in Name /\ Len(front(name, n)) = n
         /\ \A i \in 1 .. n : front(name, n)[i] = name[i]
         /\ tail(name, n + 1) \in Name /\ Len(tail(name, n + 1)) = Len(name) - n
         /\ \A i \in 1 .. Len(name) - n : tail(name, n + 1)[i] = name[n + i]
         /\ name = front(name, n) \o tail(name, n + 1)
<1>1. name \in Seq(Label) /\ Len(name) \in Nat /\ n \in Nat
  BY DEF Name
<1> DEFINE x == front(name, n)
           y == tail(name, n + 1)
<1>2. /\ x \in Seq(Label) /\ Len(x) = n
      /\ \A i \in 1 .. n : x[i] = name[i]
  BY <1>1 DEF front
<1>3. y \in Seq(Label) /\ Len(y) = Len(name) - n
  BY <1>1 DEF tail
<1>4. \A i \in 1 .. Len(name) - n : y[i] = name[n + i]
  BY <1>1 DEF tail
<1> HIDE DEF x, y
<1>5. name = x \o y
  <2>1. \A i \in 1 .. Len(y) : name[Len(x) + i] = y[i]
    BY <1>2, <1>3, <1>4
  <2>2. Len(name) = Len(x) + Len(y)
    BY <1>1, <1>2, <1>3
  <2> QED
    BY <1>1, <1>2, <1>3, <2>1, <2>2, IsCat
<1> QED
  BY <1>2, <1>3, <1>4, <1>5 DEF x, y, Name

\* The tail of a tail, and the tail that is the whole name.
LEMMA TailTail ==
  ASSUME NEW name \in Name, NEW i \in 1 .. Len(name) + 1,
         NEW j \in 1 .. Len(name) - i + 2
  PROVE  /\ tail(name, i) \in Name /\ Len(tail(name, i)) = (Len(name) - i) + 1
         /\ tail(tail(name, i), j) = tail(name, (i + j) - 1)
         /\ tail(name, 1) = name /\ Len(name) \in Nat
<1>1. name \in Seq(Label) /\ Len(name) \in Nat
  BY DEF Name
<1> DEFINE x == tail(name, i)
<1>2. /\ x \in Seq(Label) /\ Len(x) = (Len(name) - i) + 1
      /\ \A k \in 1 .. Len(x) : x[k] = name[(i + k) - 1]
  BY <1>1 DEF tail
<1> HIDE DEF x
<1> DEFINE y == tail(x, j)
           z == tail(name, (i + j) - 1)
<1>3. /\ y \in Seq(Label) /\ Len(y) = (Len(x) - j) + 1
      /\ \A k \in 1 .. Len(y) : y[k] = x[(j + k) - 1]
  BY <1>2 DEF tail
<1>4. /\ z \in Seq(Label) /\ Len(z) = (Len(name) - ((i + j) - 1)) + 1
      /\ \A k \in 1 .. Len(z) : z[k] = name[(((i + j) - 1) + k) - 1]
  BY <1>1, <1>2 DEF tail
<1> HIDE DEF y, z
<1>5. Len(y) = Len(z)
  BY <1>1, <1>2, <1>3, <1>4
<1>6. ASSUME NEW k \in 1 .. Len(y) PROVE y[k] = z[k]
  <2>1. (j + k) - 1 \in 1 .. Len(x) /\ (((i + j) - 1) + k) - 1 = (i + ((j + k) - 1)) - 1
    BY <1>1, <1>2, <1>3
  <2> QED
    BY <1>2, <1>3, <1>4, <1>5, <2>1
<1>7. y = z
  BY <1>3, <1>4, <1>5, <1>6, SeqEqual
<1>8. tail(name, 1) = name
  BY <1>1 DEF tail
<1> QED
  BY <1>1, <1>2, <1>7, <1>8 DEF x, y, z, Name

\* The text of a name, split at a label.
LEMMA TextSplit ==
  ASSUME NEW name \in Name, NEW n \in 0 .. Len(name)
  PROVE  /\ text(name) = text(front(name, n)) \o text(tail(name, n + 1))
         /\ Len(text(name)) = Len(text(front(name, n))) + Len(text(tail(name, n + 1)))
<1> DEFINE x == front(name, n)
           y == tail(name, n + 1)
<1>1. x \in Name /\ y \in Name /\ name = x \o y
  BY Split
<1> HIDE DEF x, y
<1>2. text(name) = text(x) \o text(y)
  BY <1>1, TextCat
<1>3. text(x) \in Seq(Int) /\ text(y) \in Seq(Int)
  BY <1>1, TextType
<1>4. Len(text(name)) = Len(text(x)) + Len(text(y))
  BY <1>2, <1>3
<1> QED
  BY <1>2, <1>4 DEF x, y

textOK(name, n) ==
  /\ Len(text(front(name, n))) \in Nat /\ Len(emit(name, n)) \in Nat
  /\ Len(text(front(name, n))) >= Len(emit(name, n))
  /\ Len(text(front(name, n))) = Len(emit(name, n)) =>
       \A i \in 1 .. n : noDot(name[i])
  /\ (\A i \in 1 .. n : noDot(name[i])) =>
       Len(text(front(name, n))) = Len(emit(name, n))

\* The text of a name is as long as what is emitted for it, and longer by one
\* for every escape.
LEMMA TextLen ==
  ASSUME NEW name \in Name, NEW n \in 0 .. Len(name)
  PROVE  textOK(name, n)
<1> DEFINE A == {k \in Nat : k <= Len(name) => textOK(name, k)}
<1>1. 0 \in A
  <2>1. front(name, 0) = <<>>
    <3>1. 0 \in 0 .. Len(name)
      BY NameType
    <3>2. front(name, 0) \in Seq(Label) /\ Len(front(name, 0)) = 0
      BY <3>1, Split DEF Name
    <3> QED
      BY <3>2, EmptySeq
  <2>2. Len(text(front(name, 0))) = 0 /\ Len(emit(name, 0)) = 0
    BY <2>1, TextShort, EmitNone
  <2>3. textOK(name, 0)
    BY <2>2 DEF textOK
  <2> QED
    BY <2>3
<1>2. ASSUME NEW k \in Nat, k \in A PROVE k + 1 \in A
  <2> SUFFICES ASSUME k + 1 <= Len(name) PROVE textOK(name, k + 1)
    OBVIOUS
  <2> DEFINE x == front(name, k)
             y == front(name, k + 1)
             l == name[k + 1]
  <2>0. /\ k \in 0 .. Len(name) /\ k + 1 \in 0 .. Len(name) /\ k < Len(name)
        /\ k + 1 \in 1 .. Len(name) /\ (k + 1) - 1 = k
    BY NameType
  <2>1. textOK(name, k)
    BY <1>2, <2>0
  <2>2. l \in Label /\ Len(l) \in Nat
    BY <2>0, NameType, LabelType
  <2>3. x \in Name /\ y \in Name /\ <<l>> \in Name
    BY <2>0, <2>2, Split, TextShort
  <2>4. y = x \o <<l>>
    <3>1. /\ Len(x) = k /\ Len(y) = k + 1
          /\ \A i \in 1 .. k : x[i] = name[i]
          /\ \A i \in 1 .. k + 1 : y[i] = name[i]
      BY <2>0, Split
    <3>2. x \in Seq(Label) /\ y \in Seq(Label) /\ <<l>> \in Seq(Label)
      BY <2>3 DEF Name
    <3>3. Len(<<l>>) = 1 /\ \A i \in 1 .. 1 : <<l>>[i] = l
      OBVIOUS
    <3> DEFINE w == <<l>>
    <3>4. /\ w \in Seq(Label) /\ Len(y) = Len(x) + Len(w)
          /\ \A i \in 1 .. Len(x) : y[i] = x[i]
          /\ \A i \in 1 .. Len(w) : y[Len(x) + i] = w[i]
      <4>1. \A i \in 1 .. Len(w) : y[Len(x) + i] = w[i]
        <5> TAKE i \in 1 .. Len(w)
        <5>1. i = 1 /\ w[i] = l
          BY <3>3
        <5> QED
          BY <3>1, <5>1
      <4>2. Len(w) = 1
        BY <3>3
      <4>3. w \in Seq(Label)
        BY <3>2
      <4> HIDE DEF w
      <4> QED
        BY <3>1, <4>1, <4>2, <4>3
    <3> HIDE DEF w
    <3>5. y = x \o w
      BY <3>2, <3>4, IsCat
    <3> QED
      BY <3>5 DEF w
  <2>5. text(y) = text(x) \o piece(l)
    <3> HIDE DEF x, y, l
    <3>1. text(y) = text(x) \o text(<<l>>)
      BY <2>3, <2>4, TextCat
    <3> QED
      BY <2>2, <3>1, TextShort
  <2>6. /\ piece(l) \in Seq(Int) /\ Len(piece(l)) >= Len(l) + 1
        /\ Len(piece(l)) = Len(l) + 1 => noDot(l)
        /\ noDot(l) => piece(l) = l \o <<dot>>
    BY <2>2, PieceType
  <2>7. Len(text(y)) = Len(text(x)) + Len(piece(l))
    <3>1. text(x) \in Seq(Int)
      BY <2>3, TextType
    <3> HIDE DEF x, y, l
    <3> QED
      BY <2>5, <2>6, <3>1
  <2>8. Len(emit(name, k + 1)) = Len(emit(name, k)) + 1 + Len(l)
    <3>1. spelledTo(name, k + 1) /\ k + 1 \in 1 .. k + 1
      BY <2>0, Emitted
    <3> QED
      BY <2>0, <3>1 DEF spelledTo
  <2>9. noDot(l) => Len(piece(l)) = Len(l) + 1
    <3>1. l \in Seq(Byte) /\ dot \in Byte
      BY <2>2, LabelType, ByteType
    <3> HIDE DEF l
    <3>2. Len(l \o <<dot>>) = Len(l) + 1
      BY <3>1
    <3> QED
      BY <2>6, <3>2
  <2>10. /\ Len(text(x)) \in Nat /\ Len(emit(name, k)) \in Nat
         /\ Len(text(x)) >= Len(emit(name, k))
         /\ Len(text(x)) = Len(emit(name, k)) => \A i \in 1 .. k : noDot(name[i])
         /\ (\A i \in 1 .. k : noDot(name[i])) => Len(text(x)) = Len(emit(name, k))
    BY <2>1 DEF textOK
  <2>11. (\A i \in 1 .. k + 1 : noDot(name[i])) <=>
           (\A i \in 1 .. k : noDot(name[i])) /\ noDot(l)
    <3>1. \A i \in 1 .. k + 1 : i \in 1 .. k \/ i = k + 1
      OBVIOUS
    <3>2. k + 1 \in 1 .. k + 1 /\ \A i \in 1 .. k : i \in 1 .. k + 1
      OBVIOUS
    <3> QED
      BY <3>1, <3>2
  <2>12. Len(piece(l)) \in Nat
    BY <2>6
  <2> DEFINE P == \A i \in 1 .. k : noDot(name[i])
             Q == \A i \in 1 .. k + 1 : noDot(name[i])
             N == noDot(l)
             a == Len(text(x))
             b == Len(emit(name, k))
             c == Len(piece(l))
             d == Len(l)
             a2 == Len(text(y))
             b2 == Len(emit(name, k + 1))
  <2>13. /\ a2 \in Nat /\ b2 \in Nat /\ a2 >= b2
         /\ (a2 = b2) => Q
         /\ Q => a2 = b2
    <3>1. a2 = a + c /\ b2 = b + 1 + d
      BY <2>7, <2>8
    <3>2. a \in Nat /\ b \in Nat /\ c \in Nat /\ d \in Nat
      BY <2>2, <2>10, <2>12
    <3>3. a >= b /\ c >= d + 1 /\ ((a = b) => P) /\ ((c = d + 1) => N)
      BY <2>6, <2>10
    <3>4. (P => a = b) /\ (N => c = d + 1) /\ (Q <=> P /\ N)
      BY <2>9, <2>10, <2>11
    <3> HIDE DEF P, Q, N, a, b, c, d, a2, b2
    <3>5. a2 \in Nat /\ b2 \in Nat /\ a2 >= b2
      BY <3>1, <3>2, <3>3
    <3>6. a2 = b2 => a = b /\ c = d + 1
      BY <3>1, <3>2, <3>3
    <3>7. a = b /\ c = d + 1 => a2 = b2
      BY <3>1, <3>2, <3>3
    <3> QED
      BY <3>3, <3>4, <3>5, <3>6, <3>7
  <2> QED
    BY <2>13 DEF textOK
<1>3. n \in A
  <2>1. n \in Nat
    OBVIOUS
  <2> HIDE DEF A
  <2> QED
    BY <1>1, <1>2, <2>1, NatInSet
<1> QED
  BY <1>3, NameType

-----------------------------------------------------------------------------
(* packDomainName.                                                         *)

isHit(name, compress, known, n) ==
  /\ n <= Len(name) => compress /\ key(name, n) \in DOMAIN known
  /\ \A i \in 1 .. n - 1 : ~(compress /\ key(name, i) \in DOMAIN known)

\* The label where a pointer takes over, if any, is the first that is known.
LEMMA Hit ==
  ASSUME NEW name \in Name, NEW compress \in BOOLEAN, NEW known
  PROVE  /\ hit(name, compress, known) \in 1 .. Len(name) + 1
         /\ isHit(name, compress, known, hit(name, compress, known))
<1> DEFINE D == {i \in 1 .. Len(name) : compress /\ key(name, i) \in DOMAIN known}
<1>0. Len(name) \in Nat
  BY NameType
<1>1. \E n \in 1 .. Len(name) + 1 : isHit(name, compress, known, n)
  <2>1. CASE D = {}
    <3>1. \A i \in 1 .. Len(name) : ~(compress /\ key(name, i) \in DOMAIN known)
      BY <2>1
    <3>2. Len(name) + 1 \in 1 .. Len(name) + 1 /\ ~(Len(name) + 1 <= Len(name))
            /\ (Len(name) + 1) - 1 = Len(name)
      BY <1>0
    <3>3. isHit(name, compress, known, Len(name) + 1)
      BY <3>1, <3>2 DEF isHit
    <3> QED
      BY <3>2, <3>3
  <2>2. CASE D # {}
    <3>1. D \in SUBSET Nat
      OBVIOUS
    <3>2. PICK n \in D : \A j \in D : n <= j
      <4> HIDE DEF D
      <4> QED
        BY <2>2, <3>1, LeastNat
    <3>3. \A i \in 1 .. n - 1 : ~(n <= i) /\ i \in 1 .. Len(name)
      BY <1>0, <3>2
    <3>4. \A i \in 1 .. n - 1 : ~(compress /\ key(name, i) \in DOMAIN known)
      BY <3>2, <3>3
    <3>5. n \in 1 .. Len(name) + 1 /\ compress /\ key(name, n) \in DOMAIN known
      BY <1>0, <3>2
    <3>6. isHit(name, compress, known, n)
      BY <3>4, <3>5 DEF isHit
    <3> QED
      BY <3>5, <3>6
  <2> QED
    BY <2>1, <2>2
<1>2. hit(name, compress, known) =
        CHOOSE n \in 1 .. Len(name) + 1 : isHit(name, compress, known, n)
  BY DEF hit, isHit
<1> QED
  BY <1>1, <1>2

\* What is emitted for a name that is legal are bytes.
LEMMA EmitBytes ==
  ASSUME NEW name \in Name, legal(name), NEW n \in 0 .. Len(name)
  PROVE  emit(name, n) \in Seq(Byte)
<1> DEFINE ss == [i \in 1 .. n |-> <<Len(name[i])>> \o name[i]]
<1>1. ASSUME NEW i \in 1 .. n PROVE <<Len(name[i])>> \o name[i] \in Seq(Byte)
  <2>1. i \in 1 .. Len(name) /\ name[i] \in Label
    BY NameType
  <2>2. Len(name[i]) < B \div 4
    BY <2>1 DEF legal
  <2>3. name[i] \in Seq(Byte) /\ Len(name[i]) \in Nat
    BY <2>1, LabelType
  <2>4. Len(name[i]) \in Byte
    BY <2>2, <2>3, Quarter DEF Byte
  <2> QED
    BY <2>3, <2>4
<1> DEFINE T == Seq(Byte)
<1>2. ss \in Seq(T)
  <2>1. \A i \in 1 .. n : <<Len(name[i])>> \o name[i] \in T
    BY <1>1
  <2> HIDE DEF T
  <2> QED
    BY <2>1, NameType
<1> HIDE DEF ss
<1>3. FlattenSeq(ss) \in Seq(Byte)
  BY <1>2, FlattenType
<1> QED
  BY <1>3 DEF ss, emit

\* How long the parts of what is emitted are.
LEMMA EmitLen ==
  ASSUME NEW name \in Name, NEW i \in 1 .. Len(name), NEW n \in i .. Len(name)
  PROVE  /\ Len(emit(name, i - 1)) \in Nat /\ Len(emit(name, i)) \in Nat
         /\ Len(emit(name, n)) \in Nat
         /\ Len(emit(name, i)) = Len(emit(name, i - 1)) + 1 + Len(name[i])
         /\ Len(name[i]) \in Nat /\ Len(name[i]) > 0
         /\ Len(emit(name, i)) <= Len(emit(name, n))
<1>0. n \in 0 .. Len(name) /\ i \in 1 .. n /\ i \in 0 .. Len(name)
  BY NameType
<1>1. spelledTo(name, n)
  BY <1>0, Emitted
<1>2. name[i] \in Label
  BY NameType
<1>3. Len(name[i]) \in Nat /\ Len(name[i]) > 0
  BY <1>2, LabelType
<1>4. /\ Len(emit(name, n)) \in Nat /\ Len(emit(name, i - 1)) \in Nat
      /\ Len(emit(name, i)) = Len(emit(name, i - 1)) + 1 + Len(name[i])
      /\ LabelAt(emit(name, n), Len(emit(name, i - 1)), name[i])
  BY <1>0, <1>1 DEF spelledTo
<1>5. Len(emit(name, i - 1)) + 1 + Len(name[i]) <= Len(emit(name, n))
  BY <1>4 DEF LabelAt
<1>6. Len(emit(name, i)) <= Len(emit(name, n))
  BY <1>4, <1>5
<1>7. Len(emit(name, i)) \in Nat
  BY <1>0, Emitted DEF spelledTo
<1> QED
  BY <1>3, <1>4, <1>6, <1>7

\* the pointers of a map lead to where names are, and fit in two cells
pointers(known, n) ==
  \A k \in DOMAIN known : known[k] \in Header .. n - 1 /\ known[k] < maxCompressionOffset

\* The cells of a pointer.
LEMMA PointerCells ==
  ASSUME NEW p \in Nat, p < maxCompressionOffset
  PROVE  /\ (3 * (B \div 4) + p \div B) % B = 3 * (B \div 4) + p \div B
         /\ 3 * (B \div 4) + p \div B \in Byte /\ p % B \in Byte
         /\ p = (p \div B) * B + (p % B) /\ p \div B \in Nat /\ p % B \in Nat
<1> DEFINE Q == B \div 4
           d == p \div B
<1>1. Q \in Nat /\ B = 4 * Q /\ B \in Nat /\ B > 0
  BY Quarter
<1>2. p = d * B + (p % B) /\ p % B \in Byte /\ d \in Nat
  BY TwoCells
<1>3. p < Q * B
  BY DEF maxCompressionOffset
<1>4. d < Q
  BY <1>1, <1>3, FirstCell
<1> HIDE DEF d, Q
<1>5. 3 * Q + d \in 0 .. B - 1
  BY <1>1, <1>2, <1>4
<1>6. \A x \in 0 .. B - 1 : x % B = x
  BY <1>1
<1>7. (3 * Q + d) % B = 3 * Q + d
  BY <1>5, <1>6
<1> QED
  BY <1>2, <1>5, <1>7 DEF d, Q, Byte

\* the parts of what packDomainName returns
newLabels(name, n, compress, at) ==
  {i \in 1 .. n - 1 : compress /\ remembered(labelOffset(name, at, i))}
ending(name, n, known) ==
  IF n > Len(name) THEN <<0>>
  ELSE <<(3 * (B \div 4) + known[key(name, n)] \div B) % B, known[key(name, n)] % B>>

\* The parts of a packed name.
LEMMA PackParts ==
  ASSUME NEW name \in Name, NEW compress \in BOOLEAN, NEW at \in Nat, NEW known
  PROVE  LET n == hit(name, compress, known)
             r == packDomainName(name, compress, at, known)
             new == newLabels(name, n, compress, at)
         IN /\ r.cells = emit(name, n - 1) \o ending(name, n, known)
            /\ r.used = IF n > Len(name) THEN labelOffset(name, at, n) + 1
                        ELSE labelOffset(name, at, n + 1)
            /\ DOMAIN r.known = {key(name, i) : i \in new} \cup DOMAIN known
            /\ \A k \in DOMAIN known : r.known[k] = known[k]
            /\ \A k \in DOMAIN r.known \ DOMAIN known :
                 \E i \in new : key(name, i) = k /\ r.known[k] = labelOffset(name, at, i)
<1> DEFINE n == hit(name, compress, known)
           r == packDomainName(name, compress, at, known)
           new == newLabels(name, n, compress, at)
           F == [k \in {key(name, i) : i \in new} \cup DOMAIN known |->
                   IF k \in DOMAIN known THEN known[k]
                   ELSE labelOffset(name, at, CHOOSE i \in new : key(name, i) = k)]
<1>1. /\ r.cells = emit(name, n - 1) \o ending(name, n, known)
      /\ r.used = IF n > Len(name) THEN labelOffset(name, at, n) + 1
                  ELSE labelOffset(name, at, n + 1)
      /\ r.known = F
  BY DEF packDomainName, ending, newLabels
<1> HIDE DEF n, r, new
<1>2. DOMAIN r.known = {key(name, i) : i \in new} \cup DOMAIN known
  BY <1>1
<1>3. \A k \in DOMAIN known : r.known[k] = known[k]
  BY <1>1
<1>4. ASSUME NEW k \in DOMAIN r.known \ DOMAIN known
      PROVE  \E i \in new : key(name, i) = k /\ r.known[k] = labelOffset(name, at, i)
  <2>1. \E i \in new : key(name, i) = k
    BY <1>2
  <2>2. r.known[k] = labelOffset(name, at, CHOOSE i \in new : key(name, i) = k)
    BY <1>1, <1>2
  <2> QED
    BY <2>1, <2>2
<1> QED
  BY <1>1, <1>2, <1>3, <1>4 DEF n, r, new

\* A name that is packed is made of bytes, its pointers stay good, and it takes
\* no more room than it is given in the length of the buffer.
LEMMA PackName ==
  ASSUME NEW name \in Name, legal(name), NEW compress \in BOOLEAN, NEW at \in Nat,
         Header <= at, NEW known, pointers(known, at)
  PROVE  LET r == packDomainName(name, compress, at, known)
         IN /\ r.cells \in Seq(Byte) /\ Len(r.cells) \in Nat /\ Len(r.cells) > 0
            /\ nameLen(name) \in Nat
            /\ Len(r.cells) <= nameLen(name)
            /\ r.used \in Nat /\ r.used <= at + nameLen(name)
            /\ pointers(r.known, at + Len(r.cells))
<1> DEFINE n == hit(name, compress, known)
           r == packDomainName(name, compress, at, known)
           new == newLabels(name, n, compress, at)
           N == Len(name)
           e == emit(name, n - 1)
           z == ending(name, n, known)
<1>1. n \in 1 .. N + 1 /\ (n <= N => key(name, n) \in DOMAIN known) /\ N \in Nat
  BY Hit, NameType DEF isHit
<1>2. /\ r.cells = e \o z
      /\ r.used = IF n > N THEN labelOffset(name, at, n) + 1
                  ELSE labelOffset(name, at, n + 1)
      /\ DOMAIN r.known = {key(name, i) : i \in new} \cup DOMAIN known
      /\ \A k \in DOMAIN known : r.known[k] = known[k]
      /\ \A k \in DOMAIN r.known \ DOMAIN known :
           \E i \in new : key(name, i) = k /\ r.known[k] = labelOffset(name, at, i)
  BY PackParts
<1>3. Header \in Nat
  BY WireAssumption
<1>4. e \in Seq(Byte) /\ Len(e) \in Nat
  <2>1. n - 1 \in 0 .. Len(name)
    BY <1>1
  <2> QED
    BY <2>1, EmitBytes
<1>5. z \in Seq(Byte) /\ Len(z) = IF n > N THEN 1 ELSE 2
  <2>1. CASE n > N
    BY <2>1, ByteType DEF ending
  <2>2. CASE ~(n > N)
    <3> DEFINE p == known[key(name, n)]
    <3>1. p \in Nat /\ p < maxCompressionOffset
      BY <1>1, <1>3, <2>2 DEF pointers
    <3>2. z = <<(3 * (B \div 4) + p \div B) % B, p % B>>
      BY <2>2 DEF ending
    <3> HIDE DEF p
    <3>3. (3 * (B \div 4) + p \div B) % B \in Byte /\ p % B \in Byte
      BY <3>1, PointerCells
    <3> QED
      BY <2>2, <3>2, <3>3
  <2> QED
    BY <2>1, <2>2
<1>6. textOK(name, N) /\ front(name, N) = name
  <2>1. N \in 0 .. Len(name) /\ name \in Seq(Label)
    BY <1>1 DEF Name
  <2>2. front(name, N) = name
    BY <2>1 DEF front
  <2> QED
    BY <2>1, <2>2, TextLen
<1>7. /\ nameLen(name) \in Nat /\ Len(emit(name, N)) + 1 <= nameLen(name)
      /\ Len(emit(name, N)) \in Nat
  <2>1. /\ Len(text(name)) \in Nat /\ Len(emit(name, N)) \in Nat
        /\ Len(text(name)) >= Len(emit(name, N))
    BY <1>6 DEF textOK
  <2>2. CASE name = <<>>
    <3>1. Len(text(name)) = 0
      BY <2>2, TextShort
    <3> QED
      BY <2>1, <2>2, <3>1 DEF nameLen
  <2>3. CASE name # <<>>
    BY <2>1, <2>3 DEF nameLen
  <2> QED
    BY <2>2, <2>3
<1> DEFINE L == Len(e)
           M == Len(emit(name, N))
           V == nameLen(name)
           C == Len(r.cells)
<1>8. r.cells \in Seq(Byte) /\ C = L + Len(z) /\ L \in Nat /\ C \in Nat /\ C > L
  <2> DEFINE c == r.cells
  <2>1. c = e \o z
    BY <1>2
  <2>a. e \in Seq(Byte) /\ z \in Seq(Byte)
    BY <1>4, <1>5
  <2> HIDE DEF e, z, c
  <2>2. c \in Seq(Byte) /\ Len(c) = Len(e) + Len(z) /\ Len(e) \in Nat
    BY <2>a, <2>1
  <2>3. Len(c) \in Nat /\ Len(c) > Len(e)
    BY <1>5, <2>2
  <2> QED
    BY <2>2, <2>3 DEF c
<1>9. C <= V /\ r.used \in Nat /\ r.used <= at + V
  <2>1. labelOffset(name, at, n) = at + L
    BY DEF labelOffset
  <2>2. CASE n > N
    <3>1. n - 1 = N /\ n = N + 1
      BY <1>1, <2>2
    <3>2. L = M
      BY <3>1
    <3>3. Len(z) = 1 /\ r.used = (at + L) + 1
      BY <1>2, <1>5, <2>1, <2>2
    <3> HIDE DEF L, M, V, C, r, z
    <3> QED
      BY <1>7, <1>8, <3>2, <3>3 DEF M, V
  <2>3. CASE ~(n > N)
    <3>1. n \in 1 .. Len(name) /\ N \in n .. Len(name) /\ (n + 1) - 1 = n
      BY <1>1, <2>3
    <3>2. /\ L \in Nat /\ Len(emit(name, n)) \in Nat
          /\ Len(emit(name, n)) = L + 1 + Len(name[n])
          /\ Len(name[n]) \in Nat /\ Len(name[n]) > 0
          /\ Len(emit(name, n)) <= M
      BY <3>1, EmitLen
    <3>3. labelOffset(name, at, n + 1) = at + Len(emit(name, n))
      BY <3>1 DEF labelOffset
    <3>4. r.used = at + Len(emit(name, n)) /\ Len(z) = 2
      BY <1>2, <1>5, <2>3, <3>3
    <3>5. M + 1 <= V /\ M \in Nat /\ V \in Nat
      BY <1>7
    <3> DEFINE E == Len(emit(name, n))
               K == Len(name[n])
    <3>6. /\ E \in Nat /\ E = L + 1 + K /\ K \in Nat /\ K > 0 /\ E <= M /\ L \in Nat
          /\ r.used = at + E /\ C = L + 2
      BY <1>8, <3>2, <3>4
    <3> HIDE DEF L, M, V, C, r, z, E, K
    <3> QED
      BY <3>5, <3>6
  <2> QED
    BY <2>2, <2>3
<1>10. pointers(r.known, at + C)
  <2> SUFFICES ASSUME NEW k \in DOMAIN r.known
               PROVE  /\ r.known[k] \in Header .. (at + C) - 1
                      /\ r.known[k] < maxCompressionOffset
    BY DEF pointers
  <2>1. CASE k \in DOMAIN known
    <3>1. r.known[k] = known[k] /\ known[k] \in Header .. at - 1
          /\ known[k] < maxCompressionOffset
      BY <1>2, <2>1 DEF pointers
    <3> HIDE DEF r
    <3> QED
      BY <1>3, <1>8, <3>1
  <2>2. CASE k \notin DOMAIN known
    <3>1. PICK i \in new : r.known[k] = labelOffset(name, at, i)
      BY <1>2, <2>2
    <3>2. i \in 1 .. n - 1 /\ remembered(labelOffset(name, at, i))
      BY <3>1 DEF newLabels
    <3>3. i \in 1 .. Len(name) /\ n - 1 \in i .. Len(name)
      BY <1>1, <3>2
    <3>4. /\ Len(emit(name, i - 1)) \in Nat /\ Len(emit(name, i)) \in Nat
          /\ Len(emit(name, i)) = Len(emit(name, i - 1)) + 1 + Len(name[i])
          /\ Len(name[i]) \in Nat /\ Len(name[i]) > 0
          /\ Len(emit(name, i)) <= L
      BY <3>3, EmitLen
    <3>5. r.known[k] = at + Len(emit(name, i - 1)) /\ r.known[k] < maxCompressionOffset
      BY <3>1, <3>2 DEF labelOffset, remembered
    <3> DEFINE x == r.known[k]
               E == Len(emit(name, i - 1))
               G == Len(emit(name, i))
               K == Len(name[i])
    <3>6. /\ x = at + E /\ E \in Nat /\ G \in Nat /\ G = E + 1 + K /\ K \in Nat
          /\ G <= L /\ x < maxCompressionOffset
      BY <3>4, <3>5
    <3> HIDE DEF x, E, G, K, L, C
    <3>7. x \in Header .. (at + C) - 1 /\ x < maxCompressionOffset
      BY <1>3, <1>8, <3>6
    <3> QED
      BY <3>7 DEF x
  <2> QED
    BY <2>1, <2>2
<1> HIDE DEF r
<1>11. C > 0
  BY <1>8
<1> QED
  BY <1>7, <1>8, <1>9, <1>10, <1>11 DEF r

\* What an answer has.
LEMMA AnswerType ==
  ASSUME NEW a \in Answer
  PROVE  /\ a.type \in {"A", "SRV", "NS"}
         /\ a.type = "A" =>
              a.ip = noIP \/ (a.ip.last \in Byte /\ a.ip # noIP)
         /\ a.type # "A" => a.name \in Name
<1>1. CASE a \in [type : {"A"}, ip : [family : {4, 6}, last : Byte] \cup {noIP}]
  <2>1. a.type = "A" /\ (a.ip \in [family : {4, 6}, last : Byte] \/ a.ip = noIP)
    BY <1>1
  <2>2. ASSUME a.ip \in [family : {4, 6}, last : Byte]
        PROVE  a.ip.last \in Byte /\ a.ip # noIP
    <3>1. a.ip.last \in Byte /\ a.ip.family \in {4, 6}
      BY <2>2
    <3>2. noIP.family = 0
      BY DEF noIP
    <3> QED
      BY <3>1, <3>2
  <2> QED
    BY <2>1, <2>2
<1>2. CASE a \in [type : {"SRV", "NS"}, name : Name]
  BY <1>2
<1> QED
  BY <1>1, <1>2 DEF Answer

dataLen(a) == IF a.type = "A" THEN 1 ELSE nameLen(a.name)

\* The data of an answer is made of bytes, too, and fits.
LEMMA PackData ==
  ASSUME NEW a \in Answer, a.type # "A" => legal(a.name), NEW at \in Nat,
         Header <= at, NEW known, pointers(known, at)
  PROVE  LET r == packRdata(a, at, known)
         IN /\ r.cells \in Seq(Byte) /\ Len(r.cells) \in Nat
            /\ dataLen(a) \in Nat
            /\ Len(r.cells) <= dataLen(a)
            /\ r.used \in Nat /\ r.used <= at + dataLen(a)
            /\ pointers(r.known, at + Len(r.cells))
<1> DEFINE r == packRdata(a, at, known)
<1>1. CASE a.type = "A"
  <2> DEFINE c == IF a.ip = noIP THEN <<>> ELSE <<a.ip.last>>
  <2>1. r = [cells |-> c, known |-> known, used |-> at + Len(c)]
    BY <1>1 DEF packRdata
  <2>2. c \in Seq(Byte) /\ Len(c) \in Nat /\ Len(c) <= 1
    <3>1. CASE a.ip = noIP
      BY <3>1
    <3>2. CASE a.ip # noIP
      <4> DEFINE b == a.ip.last
      <4>1. b \in Byte /\ c = <<b>>
        BY <1>1, <3>2, AnswerType
      <4> HIDE DEF b, c
      <4> QED
        BY <4>1
    <3> QED
      BY <3>1, <3>2
  <2>3. r.cells = c /\ r.known = known /\ r.used = at + Len(c)
    BY <2>1
  <2> HIDE DEF c, r
  <2>4. \A k \in DOMAIN known : known[k] \in Header .. at - 1 /\ known[k] < maxCompressionOffset
    BY DEF pointers
  <2>5. \A x \in Header .. at - 1 : x \in Header .. (at + Len(c)) - 1
    BY <2>2, WireAssumption
  <2>6. pointers(known, at + Len(c))
    BY <2>4, <2>5 DEF pointers
  <2>7. Len(c) \in Nat /\ Len(c) <= 1 /\ at + Len(c) \in Nat /\ at + Len(c) <= at + 1
    <3> DEFINE n == Len(c)
    <3>1. n \in Nat /\ n <= 1
      BY <2>2
    <3> HIDE DEF n
    <3>2. at + n \in Nat /\ at + n <= at + 1
      BY <3>1
    <3> QED
      BY <3>1, <3>2 DEF n
  <2>8. dataLen(a) = 1
    BY <1>1 DEF dataLen
  <2> QED
    BY <2>2, <2>3, <2>6, <2>7, <2>8 DEF r
<1>2. CASE a.type # "A"
  <2>1. r = packDomainName(a.name, a.type = "NS", at, known)
    BY <1>2 DEF packRdata
  <2>2. a.name \in Name /\ legal(a.name) /\ (a.type = "NS") \in BOOLEAN
    BY <1>2, AnswerType
  <2>3. dataLen(a) = nameLen(a.name)
    BY <1>2 DEF dataLen
  <2> HIDE DEF r
  <2> DEFINE c == a.type = "NS"
             nm == a.name
  <2>4. r = packDomainName(nm, c, at, known) /\ nm \in Name /\ legal(nm) /\ c \in BOOLEAN
        /\ dataLen(a) = nameLen(nm)
    BY <2>1, <2>2, <2>3
  <2> HIDE DEF c, nm
  <2>5. /\ r.cells \in Seq(Byte) /\ Len(r.cells) \in Nat
        /\ nameLen(nm) \in Nat /\ Len(r.cells) <= nameLen(nm)
        /\ r.used \in Nat /\ r.used <= at + nameLen(nm)
        /\ pointers(r.known, at + Len(r.cells))
    BY <2>4, PackName
  <2> QED
    BY <2>4, <2>5 DEF r
<1> QED
  BY <1>1, <1>2

-----------------------------------------------------------------------------
(* Types.                                                                  *)

TypeInv ==
  /\ phase \in {"pack", "unpack", "refused", "failed", "done"}
  /\ reply.question \in Name /\ reply.answers \in Seq(Answer)
  /\ packed \in -1 .. Len(reply.answers)
  /\ packed >= 0 => legal(reply.question)
  /\ msg \in Seq(Byte) /\ Header <= Len(msg)
  /\ pointers(compression, Len(msg))
  /\ ptr \in 0 .. PtrLimit /\ off \in Nat /\ off1 \in Nat /\ end \in Nat
  /\ \E V : read \in Seq(V)
  /\ Len(read) <= 1 + 2 * Len(reply.answers)
  /\ phase \in {"pack", "unpack"} => Len(read) < lastField

\* There is a last field, and it is one of the message.
LEMMA LastField ==
  ASSUME reply.answers \in Seq(Answer)
  PROVE  /\ lastField \in Nat /\ 1 <= lastField
         /\ lastField <= 1 + 2 * Len(reply.answers)
<1> DEFINE N == Len(reply.answers)
<1>1. N \in Nat
  OBVIOUS
<1>2. lastField = 1 \/ lastField = 1 + 2 * N
  BY DEF lastField
<1> HIDE DEF N
<1>3. /\ lastField \in Nat /\ 1 <= lastField /\ lastField <= 1 + 2 * N
  BY ONLY <1>1, <1>2
<1> QED
  BY <1>3 DEF N

\* Where the message starts.
LEMMA InitReply ==
  ASSUME Init
  PROVE  /\ reply.question \in Name /\ reply.answers \in Seq(Answer)
         /\ phase = "pack" => reply \in Replies /\ msg = [i \in 1 .. Header |-> 0]
         /\ phase \in {"pack", "unpack"} /\ packed = -1
         /\ msg \in Seq(Byte) /\ Len(msg) \in Nat /\ Header <= Len(msg)
<1>1. CASE reply \in Replies /\ phase = "pack" /\ packed = -1 /\ msg = [i \in 1 .. Header |-> 0]
  <2>1. msg \in Seq(Byte) /\ Len(msg) = Header /\ Header \in Nat
    BY <1>1, ByteType, WireAssumption
  <2>2. reply.question \in Name /\ reply.answers \in Seq(Answer)
    BY <1>1, WireAssumption
  <2> QED
    BY <1>1, <2>1, <2>2
<1>2. CASE reply \in received /\ phase = "unpack" /\ packed = -1 /\ msg \in Messages
  <2>1. msg \in Seq(Byte) /\ Header <= Len(msg) /\ Len(msg) \in Nat
    <3>1. msg \in Seq(Byte) /\ Len(msg) >= Header /\ Header \in Nat
      BY <1>2, WireAssumption
    <3> HIDE DEF Byte
    <3> QED
      BY <3>1
  <2> DEFINE x == [type |-> "NS", name |-> <<>>]
             y == [type |-> "A", ip |-> noIP]
  <2>2. x \in Answer /\ y \in Answer
    BY TextShort DEF Answer
  <2>3. /\ reply.question = <<>>
        /\ reply.answers = <<>> \/ reply.answers = <<x>> \/ reply.answers = <<y>>
    BY <1>2 DEF received
  <2> HIDE DEF x, y
  <2>4. <<>> \in Seq(Answer) /\ <<x>> \in Seq(Answer) /\ <<y>> \in Seq(Answer)
    BY <2>2
  <2>5. reply.question \in Name /\ reply.answers \in Seq(Answer)
    BY <2>3, <2>4, TextShort
  <2> QED
    BY <1>2, <2>1, <2>5
<1> QED
  BY <1>1, <1>2 DEF Init

\* TypeInv holds at first.
LEMMA TypeInit == Init => TypeInv
<1> SUFFICES ASSUME Init PROVE TypeInv
  OBVIOUS
<1>1. /\ compression = <<>> /\ off = Header /\ ptr = 0 /\ off1 = 0 /\ end = 0
      /\ read = <<>>
  BY DEF Init
<1>2. Header \in Nat /\ PtrLimit \in Nat
  BY WireAssumption
<1>3. pointers(compression, Len(msg))
  BY <1>1 DEF pointers
<1>4. read \in Seq({}) /\ Len(read) = 0
  BY <1>1
<1>5. \E V : read \in Seq(V)
  BY <1>4
<1>6. Len(reply.answers) \in Nat
  BY InitReply
<1>7. packed = -1 /\ -1 \in -1 .. Len(reply.answers) /\ ~(packed >= 0)
  BY <1>6, InitReply
<1>8. Len(read) <= 1 + 2 * Len(reply.answers) /\ Len(read) < lastField
  <2>1. lastField \in Nat /\ 1 <= lastField
    BY InitReply, LastField
  <2> QED
    BY <1>4, <1>6, <2>1
<1>9. ptr \in 0 .. PtrLimit /\ off \in Nat /\ off1 \in Nat /\ end \in Nat
  BY <1>1, <1>2
<1> QED
  BY <1>3, <1>5, <1>7, <1>8, <1>9, InitReply DEF TypeInv

\* The owner of a record, or the question.
LEMMA OwnerPacked ==
  ASSUME TypeInv, legal(reply.question)
  PROVE  /\ owner.cells \in Seq(Byte) /\ Len(owner.cells) \in Nat /\ Len(owner.cells) > 0
         /\ nameLen(reply.question) \in Nat
         /\ Len(owner.cells) <= nameLen(reply.question)
         /\ owner.used \in Nat /\ owner.used <= Len(msg) + nameLen(reply.question)
         /\ pointers(owner.known, Len(msg) + Len(owner.cells))
<1> DEFINE at == Len(msg)
           q == reply.question
           r == owner
<1>1. at \in Nat /\ Header <= at /\ q \in Name /\ legal(q) /\ pointers(compression, at)
  BY DEF TypeInv
<1>2. r = packDomainName(q, TRUE, at, compression) /\ TRUE \in BOOLEAN
  BY DEF owner
<1> HIDE DEF at, q, r
<1>3. /\ r.cells \in Seq(Byte) /\ Len(r.cells) \in Nat /\ Len(r.cells) > 0
      /\ nameLen(q) \in Nat /\ Len(r.cells) <= nameLen(q)
      /\ r.used \in Nat /\ r.used <= at + nameLen(q)
      /\ pointers(r.known, at + Len(r.cells))
  BY <1>1, <1>2, PackName
<1> QED
  BY <1>3 DEF at, q, r

\* The data of the next record.
LEMMA DataPacked ==
  ASSUME TypeInv, packed \in 0 .. Len(reply.answers) - 1, ~unpackable
  PROVE  LET a == reply.answers[packed + 1]
             at == Len(msg) + Len(owner.cells) + 2
         IN /\ legal(reply.question) /\ a \in Answer /\ (a.type # "A" => legal(a.name))
            /\ at \in Nat /\ Header <= at /\ pointers(owner.known, at)
            /\ data.cells \in Seq(Byte) /\ Len(data.cells) \in Nat
            /\ dataLen(a) \in Nat
            /\ Len(data.cells) <= dataLen(a) /\ Len(data.cells) < B * B
            /\ data.used \in Nat /\ data.used <= at + dataLen(a)
            /\ pointers(data.known, at + Len(data.cells))
<1> DEFINE a == reply.answers[packed + 1]
           C == Len(owner.cells)
           at == Len(msg) + C + 2
           r == data
<1>1. /\ reply.answers \in Seq(Answer) /\ Len(reply.answers) \in Nat /\ Len(msg) \in Nat
      /\ Header <= Len(msg) /\ Header \in Nat
  BY WireAssumption DEF TypeInv
<1>2. legal(reply.question) /\ packed # -1
  BY DEF TypeInv
<1>3. a \in Answer /\ packed + 1 \in 1 .. Len(reply.answers)
      /\ 1 .. Len(reply.answers) = DOMAIN reply.answers
  BY <1>1
<1>4. a.type # "A" => legal(a.name)
  <2> SUFFICES ASSUME a.type # "A" PROVE legal(a.name)
    OBVIOUS
  <2>1. \A name \in nextNames : legal(name)
    BY DEF unpackable
  <2>2. packed + 1 \in {j \in DOMAIN reply.answers \cap {packed + 1} :
                          reply.answers[j].type # "A"}
    BY <1>3
  <2>3. a.name \in nextNames
    BY <1>2, <2>2 DEF nextNames
  <2> QED
    BY <2>1, <2>3
<1>5. C \in Nat /\ pointers(owner.known, Len(msg) + C)
  BY <1>2, OwnerPacked
<1>6. Len(r.cells) < B * B \/ ~(Len(r.cells) \in Nat)
  <2>1. ~(Len(r.cells) >= B * B)
    BY DEF unpackable
  <2> DEFINE n == Len(r.cells)
  <2> HIDE DEF n, r
  <2>2. ~(n >= B * B)
    BY <2>1 DEF n
  <2>3. n \in Nat => n < B * B
    BY <2>2, Quarter
  <2> QED
    BY <2>3 DEF n
<1>7. r = packRdata(a, at, owner.known)
  BY DEF data
<1> HIDE DEF a, C, r
<1>8. at \in Nat /\ Header <= at
  BY <1>1, <1>5
<1>9. pointers(owner.known, at)
  <2> DEFINE K == owner.known
  <2>1. pointers(K, Len(msg) + C)
    BY <1>5
  <2> HIDE DEF K
  <2>2. \A x \in Header .. (Len(msg) + C) - 1 : x \in Header .. at - 1
    BY <1>1, <1>5
  <2>3. pointers(K, at)
    BY <2>1, <2>2 DEF pointers
  <2> QED
    BY <2>3 DEF K
<1> HIDE DEF at
<1>10. /\ r.cells \in Seq(Byte) /\ Len(r.cells) \in Nat /\ dataLen(a) \in Nat
       /\ Len(r.cells) <= dataLen(a)
       /\ r.used \in Nat /\ r.used <= at + dataLen(a)
       /\ pointers(r.known, at + Len(r.cells))
  BY <1>3, <1>4, <1>7, <1>8, <1>9, PackData
<1> QED
  BY <1>2, <1>3, <1>4, <1>6, <1>8, <1>9, <1>10 DEF a, at, C, r

\* The two cells of the length of the data.
LEMMA LengthCells ==
  ASSUME NEW n \in Nat, n < B * B
  PROVE  /\ <<n \div B, n % B>> \in Seq(Byte) /\ Len(<<n \div B, n % B>>) = 2
         /\ n \div B \in Byte /\ n % B \in Byte
         /\ (n \div B) * B + (n % B) = n
<1>1. n = (n \div B) * B + (n % B) /\ n % B \in Byte /\ n \div B \in Nat /\ B \in Nat
  BY TwoCells, Quarter
<1>2. n \div B < B
  BY <1>1, FirstCell
<1> DEFINE x == n \div B
           y == n % B
<1>3. x \in Byte /\ y \in Byte
  BY <1>1, <1>2 DEF Byte
<1>4. x * B + y = n
  BY <1>1
<1> HIDE DEF x, y
<1>5. <<x, y>> \in Seq(Byte) /\ Len(<<x, y>>) = 2
  BY <1>3
<1> QED
  BY <1>3, <1>4, <1>5 DEF x, y

\* Two parts, one after the other.
LEMMA TwoParts ==
  ASSUME NEW S, NEW x \in Seq(S), NEW y \in Seq(S), NEW z, z = x \o y
  PROVE  /\ z \in Seq(S) /\ Len(z) = Len(x) + Len(y)
         /\ Len(x) \in Nat /\ Len(y) \in Nat /\ Len(z) \in Nat
         /\ \A i \in 1 .. Len(x) : z[i] = x[i]
         /\ \A i \in 1 .. Len(y) : z[Len(x) + i] = y[i]
OBVIOUS

\* Four parts of a message, one after the other.
LEMMA FourParts ==
  ASSUME NEW S, NEW m \in Seq(S), NEW c \in Seq(S), NEW l \in Seq(S), NEW d \in Seq(S),
         NEW x, x = m \o c \o l \o d
  PROVE  /\ x \in Seq(S) /\ Len(m) \in Nat /\ Len(c) \in Nat /\ Len(l) \in Nat
         /\ Len(d) \in Nat
         /\ Len(x) = ((Len(m) + Len(c)) + Len(l)) + Len(d)
         /\ \A i \in 1 .. Len(m) : x[i] = m[i]
         /\ \A i \in 1 .. Len(c) : x[Len(m) + i] = c[i]
         /\ \A i \in 1 .. Len(l) : x[(Len(m) + Len(c)) + i] = l[i]
         /\ \A i \in 1 .. Len(d) : x[((Len(m) + Len(c)) + Len(l)) + i] = d[i]
<1> DEFINE u == m \o c
           v == u \o l
<1>1. x = v \o d
  OBVIOUS
<1>2. /\ u \in Seq(S) /\ Len(u) = Len(m) + Len(c) /\ Len(m) \in Nat /\ Len(c) \in Nat
      /\ \A i \in 1 .. Len(m) : u[i] = m[i]
      /\ \A i \in 1 .. Len(c) : u[Len(m) + i] = c[i]
  BY TwoParts
<1>a. v = u \o l /\ u \in Seq(S)
  BY <1>2
<1> HIDE DEF u, v
<1>3. /\ v \in Seq(S) /\ Len(v) = Len(u) + Len(l) /\ Len(l) \in Nat
      /\ \A i \in 1 .. Len(u) : v[i] = u[i]
      /\ \A i \in 1 .. Len(l) : v[Len(u) + i] = l[i]
  BY <1>a, TwoParts
<1>b. v \in Seq(S)
  BY <1>3
<1>4. /\ x \in Seq(S) /\ Len(x) = Len(v) + Len(d) /\ Len(d) \in Nat
      /\ \A i \in 1 .. Len(v) : x[i] = v[i]
      /\ \A i \in 1 .. Len(d) : x[Len(v) + i] = d[i]
  BY <1>1, <1>b, TwoParts
<1>5. Len(u) \in Nat /\ Len(v) \in Nat
  BY <1>2, <1>3
<1>6. \A i \in 1 .. Len(u) : x[i] = u[i]
  <2> TAKE i \in 1 .. Len(u)
  <2>1. i \in 1 .. Len(v)
    BY <1>3, <1>5
  <2> QED
    BY <1>3, <1>4, <2>1
<1>7. \A i \in 1 .. Len(m) : x[i] = m[i]
  BY <1>2, <1>5, <1>6
<1>8. ASSUME NEW i \in 1 .. Len(c) PROVE x[Len(m) + i] = c[i]
  <2>1. Len(m) + i \in 1 .. Len(u)
    BY <1>2
  <2> QED
    BY <1>2, <1>6, <2>1
<1>9. ASSUME NEW i \in 1 .. Len(l) PROVE x[(Len(m) + Len(c)) + i] = l[i]
  <2>1. Len(u) + i \in 1 .. Len(v)
    BY <1>3, <1>5
  <2> QED
    BY <1>2, <1>3, <1>4, <2>1
<1>10. ASSUME NEW i \in 1 .. Len(d)
       PROVE  x[((Len(m) + Len(c)) + Len(l)) + i] = d[i]
  BY <1>2, <1>3, <1>4
<1> QED
  BY <1>2, <1>3, <1>4, <1>7, <1>8, <1>9, <1>10

\* The message after PackQuestion.
LEMMA QuestionStep ==
  ASSUME TypeInv, PackQuestion
  PROVE  /\ legal(reply.question) /\ msg' \in Seq(Byte)
         /\ Len(msg') = Len(msg) + Len(owner.cells)
<1>1. packed = -1 /\ ~unpackable /\ msg' = msg \o owner.cells
  BY DEF PackQuestion
<1>2. legal(reply.question)
  BY <1>1 DEF unpackable, nextNames
<1> DEFINE c == owner.cells
<1>3. c \in Seq(Byte)
  BY <1>2, OwnerPacked
<1>4. msg \in Seq(Byte)
  BY DEF TypeInv
<1>5. msg' = msg \o c
  BY <1>1
<1> HIDE DEF c
<1>6. msg' \in Seq(Byte) /\ Len(msg') = Len(msg) + Len(c)
  BY <1>3, <1>4, <1>5
<1> QED
  BY <1>2, <1>6 DEF c

\* The message after PackRR.
LEMMA AnswerStep ==
  ASSUME TypeInv, PackRR
  PROVE  LET c == owner.cells
             n == Len(data.cells)
         IN /\ packed \in 0 .. Len(reply.answers) - 1 /\ ~unpackable
            /\ msg' \in Seq(Byte) /\ Len(msg') \in Nat
            /\ Len(msg') = ((Len(msg) + Len(c)) + 2) + n
            /\ \A i \in 1 .. Len(msg) : msg'[i] = msg[i]
            /\ \A i \in 1 .. Len(c) : msg'[Len(msg) + i] = c[i]
            /\ msg'[(Len(msg) + Len(c)) + 1] * B + msg'[(Len(msg) + Len(c)) + 2] = n
            /\ \A i \in 1 .. n : msg'[((Len(msg) + Len(c)) + 2) + i] = data.cells[i]
<1> DEFINE c == owner.cells
           d == data.cells
           n == Len(d)
           l == <<n \div B, n % B>>
<1>1. /\ packed \in 0 .. Len(reply.answers) - 1 /\ ~unpackable
      /\ msg' = msg \o c \o l \o d
  BY DEF PackRR
<1>2. msg \in Seq(Byte)
  BY DEF TypeInv
<1>3. d \in Seq(Byte) /\ n \in Nat /\ n < B * B /\ legal(reply.question)
  BY <1>1, DataPacked
<1>4. c \in Seq(Byte)
  BY <1>3, OwnerPacked
<1>5. l \in Seq(Byte) /\ Len(l) = 2 /\ l[1] * B + l[2] = n
  <2>1. /\ l \in Seq(Byte) /\ Len(l) = 2 /\ (n \div B) * B + (n % B) = n
    BY <1>3, LengthCells
  <2>2. l[1] = n \div B /\ l[2] = n % B
    OBVIOUS
  <2> HIDE DEF l
  <2> QED
    BY <2>1, <2>2
<1> HIDE DEF c, d, l
<1>6. /\ msg' \in Seq(Byte) /\ Len(msg) \in Nat /\ Len(c) \in Nat
      /\ Len(d) \in Nat
      /\ Len(msg') = ((Len(msg) + Len(c)) + Len(l)) + Len(d)
      /\ \A i \in 1 .. Len(msg) : msg'[i] = msg[i]
      /\ \A i \in 1 .. Len(c) : msg'[Len(msg) + i] = c[i]
      /\ \A i \in 1 .. Len(l) : msg'[(Len(msg) + Len(c)) + i] = l[i]
      /\ \A i \in 1 .. Len(d) : msg'[((Len(msg) + Len(c)) + Len(l)) + i] = d[i]
  <2> DEFINE x == msg'
  <2>1. msg \in Seq(Byte) /\ c \in Seq(Byte) /\ l \in Seq(Byte) /\ d \in Seq(Byte)
    BY <1>2, <1>3, <1>4, <1>5
  <2>2. x = msg \o c \o l \o d
    BY <1>1
  <2> HIDE DEF x
  <2>3. /\ x \in Seq(Byte) /\ Len(msg) \in Nat /\ Len(c) \in Nat /\ Len(d) \in Nat
        /\ Len(x) = ((Len(msg) + Len(c)) + Len(l)) + Len(d)
    BY ONLY <2>1, <2>2, FourParts
  <2>4. /\ \A i \in 1 .. Len(msg) : x[i] = msg[i]
        /\ \A i \in 1 .. Len(c) : x[Len(msg) + i] = c[i]
    BY ONLY <2>1, <2>2, FourParts
  <2>5. /\ \A i \in 1 .. Len(l) : x[(Len(msg) + Len(c)) + i] = l[i]
        /\ \A i \in 1 .. Len(d) : x[((Len(msg) + Len(c)) + Len(l)) + i] = d[i]
    BY ONLY <2>1, <2>2, FourParts
  <2> QED
    BY <2>3, <2>4, <2>5 DEF x
<1>7. msg'[(Len(msg) + Len(c)) + 1] = l[1] /\ msg'[(Len(msg) + Len(c)) + 2] = l[2]
  <2>1. 1 \in 1 .. Len(l) /\ 2 \in 1 .. Len(l)
    BY <1>5
  <2> QED
    BY <1>6, <2>1
<1>8. Len(msg') \in Nat
  BY <1>6
<1>9. Len(l) = 2
  BY <1>5
<1>10. msg'[(Len(msg) + Len(c)) + 1] * B + msg'[(Len(msg) + Len(c)) + 2] = n
  BY <1>5, <1>7
<1> QED
  BY <1>1, <1>6, <1>8, <1>9, <1>10 DEF c, d

\* What a message has at an offset is a byte.
LEMMA MsgByte ==
  ASSUME NEW m \in Seq(Byte), NEW i \in 1 .. Len(m)
  PROVE  m[i] \in Byte /\ m[i] \in Nat
<1>1. m[i] \in Byte
  BY ElementOfSeq
<1> QED
  BY <1>1, ByteType

\* What TypeInv says of the variables of Unpack.
ReadInv ==
  /\ phase \in {"pack", "unpack", "refused", "failed", "done"}
  /\ ptr \in 0 .. PtrLimit /\ off \in Nat /\ off1 \in Nat /\ end \in Nat
  /\ \E V : read \in Seq(V)
  /\ Len(read) <= 1 + 2 * Len(reply.answers)
  /\ phase \in {"pack", "unpack"} => Len(read) < lastField

\* The next field.
LEMMA GoOnType ==
  ASSUME TypeInv, phase = "unpack", NEW value, NEW o \in Nat, goOn(value, o),
         isOwner => o + 1 # Len(msg)
  PROVE  ReadInv' /\ UNCHANGED <<msg, packVars>>
<1> DEFINE last == lastField
<1>1. /\ read' = Append(read, value) /\ s' = <<>> /\ ptr' = 0 /\ off1' = 0
      /\ phase' = IF field = last THEN "done" ELSE "unpack"
      /\ IF isOwner /\ o < Len(msg)
         THEN off' = o + 2 /\ end' = o + 2 + (msg[o + 1] * B + msg[o + 2])
         ELSE off' = o /\ end' = IF isOwner THEN o ELSE 0
      /\ UNCHANGED <<msg, packVars>>
  BY DEF goOn
<1>2. /\ Len(reply.answers) \in Nat /\ Len(read) < last /\ last \in Nat
      /\ last <= 1 + 2 * Len(reply.answers)
      /\ msg \in Seq(Byte) /\ Len(msg) \in Nat /\ PtrLimit \in Nat
  BY WireAssumption, LastField DEF TypeInv
<1>3. PICK V : read \in Seq(V)
  BY DEF TypeInv
<1>4. reply' = reply /\ lastField' = last
  BY <1>1 DEF packVars, lastField
<1> HIDE DEF last
<1>5. read' \in Seq(V \cup {value}) /\ Len(read') = Len(read) + 1 /\ Len(read) \in Nat
  <2>1. read \in Seq(V \cup {value})
    BY <1>3, SeqMonotonic
  <2> QED
    BY <1>1, <2>1
<1>6. off' \in Nat /\ end' \in Nat
  <2>1. CASE isOwner /\ o < Len(msg)
    <3>1. o + 1 \in 1 .. Len(msg) /\ o + 2 \in 1 .. Len(msg)
      BY <1>2, <2>1
    <3>2. msg[o + 1] \in Nat /\ msg[o + 2] \in Nat
      BY <1>2, <3>1, MsgByte
    <3>3. off' = o + 2 /\ end' = o + 2 + (msg[o + 1] * B + msg[o + 2])
      BY <1>1, <2>1
    <3> DEFINE x == msg[o + 1]
               y == msg[o + 2]
    <3>4. x \in Nat /\ y \in Nat /\ end' = o + 2 + (x * B + y)
      BY <3>2, <3>3
    <3> HIDE DEF x, y
    <3>5. x * B \in Nat
      BY <3>4, Quarter
    <3>6. o + 2 + (x * B + y) \in Nat
      BY <3>4, <3>5
    <3> QED
      BY <3>3, <3>4, <3>6
  <2>2. CASE ~(isOwner /\ o < Len(msg))
    BY <1>1, <2>2
  <2> QED
    BY <2>1, <2>2
<1>7. phase' \in {"done", "unpack"} /\ (phase' = "unpack" => Len(read) + 1 # last)
  BY <1>1 DEF field
<1>8. Len(read') <= 1 + 2 * Len(reply.answers)
  BY <1>2, <1>5
<1>9. phase' = "unpack" => Len(read') < lastField'
  BY <1>2, <1>4, <1>5, <1>7
<1>10. ptr' \in 0 .. PtrLimit /\ off1' \in Nat
  BY <1>1, <1>2
<1>11. \E W : read' \in Seq(W)
  BY <1>5
<1> QED
  BY <1>1, <1>4, <1>6, <1>7, <1>8, <1>9, <1>10, <1>11 DEF ReadInv

\* A step of Unpack keeps the types, and what has been packed.
LEMMA UnpackType ==
  ASSUME TypeInv, Unpack
  PROVE  ReadInv' /\ UNCHANGED <<msg, packVars>>
<1>1. /\ phase = "unpack" /\ msg \in Seq(Byte) /\ Len(msg) \in Nat /\ PtrLimit \in Nat
      /\ ptr \in 0 .. PtrLimit /\ off \in Nat /\ off1 \in Nat /\ end \in Nat
      /\ Len(reply.answers) \in Nat
  BY WireAssumption, SMTT(30) DEF TypeInv, Unpack, UnpackBeyond, UnpackNothing, UnpackEnd,
     UnpackLabel, UnpackReserved, UnpackPointer, UnpackNoData, UnpackA, readsName
<1>2. ReadInv
  BY DEF TypeInv, ReadInv
<1>3. ASSUME fail PROVE ReadInv' /\ UNCHANGED <<msg, packVars>>
  <2>1. phase' = "failed" /\ UNCHANGED <<msg, packVars, unpackVars>>
    BY <1>3 DEF fail
  <2> QED
    BY <1>2, <2>1 DEF ReadInv, packVars, unpackVars, lastField
<1>4. CASE UnpackBeyond \/ UnpackReserved
  BY <1>3, <1>4 DEF UnpackBeyond, UnpackReserved
<1>5. CASE UnpackEnd
  <2> DEFINE o == IF ptr = 0 \/ s = <<>> THEN off + 1 ELSE off1
  <2>1. o \in Nat
    BY <1>1
  <2>2. fail \/ (goOn(s, o) /\ (isOwner => o + 1 # Len(msg)))
    BY <1>5 DEF UnpackEnd, misfit
  <2> HIDE DEF o
  <2>3. CASE goOn(s, o) /\ (isOwner => o + 1 # Len(msg))
    BY <1>1, <2>1, <2>3, GoOnType
  <2> QED
    BY <1>3, <2>2, <2>3
<1>6. CASE UnpackLabel
  <2>1. CASE fail
    BY <1>3, <2>1
  <2>2. CASE ~fail
    <3>1. /\ off < Len(msg) /\ byte \in 1 .. (B \div 4) - 1
          /\ off' = off + 1 + byte
          /\ UNCHANGED <<phase, msg, packVars, ptr, off1, end, read>>
      BY <1>6, <2>2 DEF UnpackLabel
    <3> DEFINE b == byte
    <3>2. b \in Nat /\ off' = off + 1 + b
      BY <3>1, Quarter
    <3> HIDE DEF b
    <3>3. off' \in Nat
      BY <1>1, <3>2
    <3> QED
      BY <1>2, <3>1, <3>3 DEF ReadInv, packVars, lastField
  <2> QED
    BY <2>1, <2>2
<1>7. CASE UnpackPointer
  <2>1. CASE fail
    BY <1>3, <2>1
  <2>2. CASE ~fail
    <3>1. /\ off < Len(msg) /\ byte >= 3 * (B \div 4) /\ off + 1 < Len(msg)
          /\ off1' = (IF ptr = 0 THEN off + 2 ELSE off1)
          /\ ptr' = (IF ptr < PtrLimit THEN ptr + 1 ELSE ptr)
          /\ off' = (byte - 3 * (B \div 4)) * B + msg[off + 2]
          /\ UNCHANGED <<phase, msg, packVars, s, end, read>>
      BY <1>7, <2>2 DEF UnpackPointer
    <3>2. off + 1 \in 1 .. Len(msg) /\ off + 2 \in 1 .. Len(msg)
      BY <1>1, <3>1
    <3> DEFINE b == byte
               x == msg[off + 2]
               Q == B \div 4
    <3>3. b \in Nat /\ x \in Nat
      BY <1>1, <3>2, MsgByte DEF byte
    <3>4. off' = (b - 3 * Q) * B + x /\ b >= 3 * Q
      BY <3>1
    <3>5. Q \in Nat /\ B \in Nat
      BY Quarter
    <3> HIDE DEF b, x, Q
    <3>6. off' \in Nat
      <4>1. b - 3 * Q \in Nat
        BY <3>3, <3>4, <3>5
      <4>2. (b - 3 * Q) * B \in Nat
        BY <3>5, <4>1
      <4> QED
        BY <3>3, <3>4, <4>2
    <3>7. ptr' \in 0 .. PtrLimit /\ off1' \in Nat
      BY <1>1, <3>1
    <3> QED
      BY <1>2, <3>1, <3>6, <3>7 DEF ReadInv, packVars, lastField
  <2> QED
    BY <2>1, <2>2
<1>8. isData => ~isOwner
  <2>1. \A x : x = 1 => ~(x = 0)
    OBVIOUS
  <2> QED
    BY <2>1 DEF isData, isOwner
<1>9. CASE UnpackNoData
  <2>1. isData /\ goOn(IF answer.type = "A" THEN noIP ELSE <<>>, off)
    BY <1>9 DEF UnpackNoData, noData
  <2> DEFINE v == IF answer.type = "A" THEN noIP ELSE <<>>
  <2>2. goOn(v, off)
    BY <2>1
  <2> HIDE DEF v
  <2> QED
    BY <1>1, <1>8, <2>1, <2>2, GoOnType
<1>10. CASE UnpackA
  <2> DEFINE v == [family |-> 4, last |-> byte]
             o == off + 1
  <2>1. isData /\ (fail \/ goOn(v, o))
    BY <1>10 DEF UnpackA
  <2>2. o \in Nat
    BY <1>1
  <2> HIDE DEF v, o
  <2>3. CASE goOn(v, o)
    BY <1>1, <1>8, <2>1, <2>2, <2>3, GoOnType
  <2> QED
    BY <1>3, <2>1, <2>3
<1>11. CASE UnpackNothing
  <2>1. off = Len(msg) /\ (fail \/ goOn(<<>>, off))
    BY <1>11 DEF UnpackNothing
  <2> DEFINE v == <<>>
  <2>2. CASE goOn(v, off)
    <3>1. off + 1 # Len(msg)
      BY <1>1, <2>1
    <3> HIDE DEF v
    <3> QED
      BY <1>1, <2>2, <3>1, GoOnType
  <2> QED
    BY <1>3, <2>1, <2>2
<1> QED
  BY <1>4, <1>5, <1>6, <1>7, <1>9, <1>10, <1>11 DEF Unpack

\* Every step keeps TypeInv.
LEMMA TypeNext == TypeInv /\ [Next]_vars => TypeInv'
<1> SUFFICES ASSUME TypeInv, [Next]_vars PROVE TypeInv'
  OBVIOUS
<1> USE DEF packVars, unpackVars
<1>0. /\ reply.question \in Name /\ reply.answers \in Seq(Answer)
      /\ Len(reply.answers) \in Nat /\ packed \in -1 .. Len(reply.answers)
      /\ msg \in Seq(Byte) /\ Len(msg) \in Nat /\ Header <= Len(msg) /\ Header \in Nat
  BY WireAssumption DEF TypeInv
<1>01. reply' = reply => lastField' = lastField
  BY DEF lastField
<1>1. CASE UNCHANGED vars
  BY <1>01, <1>1 DEF TypeInv, vars
<1>2. CASE Refuse
  BY <1>01, <1>2 DEF Refuse, TypeInv
<1>3. CASE PackQuestion
  <2>1. legal(reply.question) /\ msg' \in Seq(Byte) /\ Len(msg') = Len(msg) + Len(owner.cells)
    BY <1>3, QuestionStep
  <2>2. Len(owner.cells) \in Nat /\ pointers(owner.known, Len(msg) + Len(owner.cells))
    BY <2>1, OwnerPacked
  <2>3. /\ compression' = owner.known /\ packed' = 0
        /\ UNCHANGED <<phase, reply, unpackVars>>
    BY <1>3 DEF PackQuestion
  <2>4. Header <= Len(msg') /\ packed' \in -1 .. Len(reply.answers)
    BY <1>0, <2>1, <2>2, <2>3
  <2>5. pointers(compression', Len(msg'))
    BY <2>1, <2>2, <2>3
  <2> QED
    BY <1>0, <1>01, <2>1, <2>3, <2>4, <2>5 DEF TypeInv
<1>4. CASE PackRR
  <2> DEFINE at == Len(msg) + Len(owner.cells) + 2
             n == Len(data.cells)
  <2>1. /\ packed \in 0 .. Len(reply.answers) - 1 /\ ~unpackable
        /\ msg' \in Seq(Byte) /\ Len(msg') \in Nat /\ Len(msg') = at + n
    BY <1>4, AnswerStep
  <2>2. /\ at \in Nat /\ Header <= at /\ n \in Nat /\ legal(reply.question)
        /\ pointers(data.known, at + n)
    BY <2>1, DataPacked
  <2>3. /\ compression' = data.known /\ packed' = packed + 1
        /\ UNCHANGED <<phase, reply, unpackVars>>
    BY <1>4 DEF PackRR
  <2> HIDE DEF at, n
  <2>4. Header <= Len(msg') /\ packed' \in -1 .. Len(reply.answers)
    BY <1>0, <2>1, <2>2, <2>3
  <2>5. pointers(compression', Len(msg'))
    BY <2>1, <2>2, <2>3
  <2> QED
    BY <1>0, <1>01, <2>1, <2>2, <2>3, <2>4, <2>5 DEF TypeInv
<1>5. CASE Send
  BY <1>01, <1>5 DEF Send, TypeInv
<1>6. CASE Unpack
  <2>1. ReadInv' /\ UNCHANGED <<msg, packVars>>
    BY <1>6, UnpackType
  <2> QED
    BY <2>1 DEF TypeInv, ReadInv
<1> QED
  BY <1>1, <1>2, <1>3, <1>4, <1>5, <1>6 DEF Next, Pack

\* Every message is a sequence of bytes, every pointer of the compression map
\* leads to an offset of it behind the header, pointers are counted up to the
\* limit, and no more fields are read than there are.
THEOREM Types == Spec => []TypeOK
<1>1. TypeInv => TypeOK
  <2> SUFFICES ASSUME TypeInv PROVE TypeOK
    OBVIOUS
  <2>1. {off, off1, end} \subseteq Nat
    BY DEF TypeInv
  <2>2. \A k \in DOMAIN compression : compression[k] \in Header .. Len(msg) - 1
    BY DEF TypeInv, pointers
  <2> QED
    BY <2>1, <2>2 DEF TypeInv, TypeOK
<1> QED
  BY <1>1, TypeInit, TypeNext, PTL DEF Spec

-----------------------------------------------------------------------------
(* The buffer.                                                             *)

rrLen(a) == nameLen(reply.question) + 2
            + IF a.type = "A" THEN 1 ELSE nameLen(a.name)

\* the table in which the lengths of the answers are summed up
isSum(f) ==
  f = [i \in 0 .. Len(reply.answers) |->
         IF i = 0 THEN 0 ELSE f[i - 1] + rrLen(reply.answers[i])]

\* its first entries
sumTo(f, n) ==
  /\ f \in [0 .. n -> Nat]
  /\ \A i \in 0 .. n : f[i] = IF i = 0 THEN 0 ELSE f[i - 1] + rrLen(reply.answers[i])

\* Names have a length.
LEMMA NameLen ==
  ASSUME NEW name \in Name
  PROVE  nameLen(name) \in Nat
BY TextType DEF nameLen

\* So do records.
LEMMA RRLen ==
  ASSUME TypeInv, NEW i \in 1 .. Len(reply.answers)
  PROVE  /\ rrLen(reply.answers[i]) \in Nat /\ reply.answers[i] \in Answer
         /\ rrLen(reply.answers[i]) = nameLen(reply.question) + 2 + dataLen(reply.answers[i])
<1> DEFINE a == reply.answers[i]
<1>1. a \in Answer /\ nameLen(reply.question) \in Nat
  BY NameLen DEF TypeInv
<1>2. dataLen(a) \in Nat
  BY <1>1, AnswerType, NameLen DEF dataLen
<1>3. rrLen(a) = nameLen(reply.question) + 2 + dataLen(a)
  BY DEF rrLen, dataLen
<1> HIDE DEF a
<1> QED
  BY <1>1, <1>2, <1>3 DEF a

\* There is a table.
LEMMA SumExists ==
  ASSUME TypeInv
  PROVE  \E f : isSum(f)
<1> DEFINE N == Len(reply.answers)
           A == {n \in Nat : n <= N => \E f : sumTo(f, n)}
<1>1. N \in Nat
  BY DEF TypeInv
<1>2. 0 \in A
  <2> DEFINE f == [i \in 0 .. 0 |-> 0]
  <2>1. f \in [0 .. 0 -> Nat] /\ \A i \in 0 .. 0 : i = 0 /\ f[i] = 0
    OBVIOUS
  <2> HIDE DEF f
  <2>2. sumTo(f, 0)
    BY <2>1 DEF sumTo
  <2> QED
    BY <2>2
<1>3. ASSUME NEW n \in Nat, n \in A PROVE n + 1 \in A
  <2> SUFFICES ASSUME n + 1 <= N PROVE \E f : sumTo(f, n + 1)
    OBVIOUS
  <2>1. PICK f : sumTo(f, n)
    BY <1>1, <1>3
  <2> DEFINE v == f[n] + rrLen(reply.answers[n + 1])
             g == [i \in 0 .. n + 1 |-> IF i = n + 1 THEN v ELSE f[i]]
  <2>2. f \in [0 .. n -> Nat]
    BY <2>1 DEF sumTo
  <2>3. v \in Nat
    <3>1. n + 1 \in 1 .. Len(reply.answers)
      BY <1>1
    <3>2. rrLen(reply.answers[n + 1]) \in Nat /\ f[n] \in Nat
      BY <2>2, <3>1, RRLen
    <3> QED
      BY <3>2
  <2>4. g \in [0 .. n + 1 -> Nat]
    BY <2>2, <2>3
  <2>5. ASSUME NEW i \in 0 .. n + 1
        PROVE  g[i] = IF i = 0 THEN 0 ELSE g[i - 1] + rrLen(reply.answers[i])
    <3>1. CASE i = n + 1
      <4>1. i # 0 /\ i - 1 \in 0 .. n + 1 /\ i - 1 # n + 1 /\ i - 1 = n
        BY <3>1
      <4>2. g[i - 1] = f[n] /\ g[i] = v
        BY <3>1, <4>1
      <4> HIDE DEF g
      <4> QED
        BY <3>1, <4>1, <4>2
    <3>2. CASE i # n + 1
      <4>1. i \in 0 .. n /\ (i # 0 => i - 1 \in 0 .. n + 1 /\ i - 1 # n + 1)
        BY <3>2
      <4>2. g[i] = f[i] /\ (i # 0 => g[i - 1] = f[i - 1])
        BY <4>1
      <4> HIDE DEF g
      <4> QED
        BY <2>1, <4>1, <4>2 DEF sumTo
    <3> QED
      BY <3>1, <3>2
  <2> HIDE DEF g
  <2>6. sumTo(g, n + 1)
    BY <2>4, <2>5 DEF sumTo
  <2> QED
    BY <2>6
<1>4. N \in A
  <2> HIDE DEF A
  <2> QED
    BY <1>1, <1>2, <1>3, NatInSet
<1>5. PICK f : sumTo(f, N)
  BY <1>1, <1>4
<1>6. isSum(f)
  <2>1. f = [i \in 0 .. N |-> f[i]]
    BY <1>5 DEF sumTo
  <2>2. [i \in 0 .. N |-> f[i]] =
          [i \in 0 .. N |-> IF i = 0 THEN 0 ELSE f[i - 1] + rrLen(reply.answers[i])]
    BY <1>5 DEF sumTo
  <2> QED
    BY <2>1, <2>2 DEF isSum
<1> QED
  BY <1>6

\* A table has natural numbers, which grow by the length of a record.
LEMMA SumGrows ==
  ASSUME TypeInv, NEW f, isSum(f)
  PROVE  /\ \A i \in 0 .. Len(reply.answers) : f[i] \in Nat
         /\ f[0] = 0
         /\ \A i \in 1 .. Len(reply.answers) : f[i] = f[i - 1] + rrLen(reply.answers[i])
<1> DEFINE N == Len(reply.answers)
           A == {n \in Nat : n <= N => f[n] \in Nat}
<1>1. N \in Nat
  BY DEF TypeInv
<1>2. \A i \in 0 .. N : f[i] = IF i = 0 THEN 0 ELSE f[i - 1] + rrLen(reply.answers[i])
  BY DEF isSum
<1>3. f[0] = 0
  BY <1>1, <1>2
<1>4. \A i \in 1 .. N : f[i] = f[i - 1] + rrLen(reply.answers[i])
  BY <1>1, <1>2
<1>5. 0 \in A
  BY <1>3
<1>6. ASSUME NEW n \in Nat, n \in A PROVE n + 1 \in A
  <2> SUFFICES ASSUME n + 1 <= N PROVE f[n + 1] \in Nat
    OBVIOUS
  <2>1. n + 1 \in 1 .. N /\ f[n] \in Nat /\ (n + 1) - 1 = n
    BY <1>1, <1>6
  <2>2. rrLen(reply.answers[n + 1]) \in Nat
    BY <2>1, RRLen
  <2> QED
    BY <1>4, <2>1, <2>2
<1>7. Nat \subseteq A
  <2> HIDE DEF A
  <2> QED
    BY <1>5, <1>6, NatInSet
<1> QED
  BY <1>1, <1>3, <1>4, <1>7

\* No entry is above the last.
LEMMA SumLast ==
  ASSUME TypeInv, NEW f, isSum(f), NEW k \in 0 .. Len(reply.answers)
  PROVE  f[k] <= f[Len(reply.answers)]
<1> DEFINE N == Len(reply.answers)
           A == {n \in Nat : k + n <= N => f[k] <= f[k + n]}
<1>1. N \in Nat /\ k \in Nat /\ N - k \in Nat /\ k + (N - k) = N
  BY DEF TypeInv
<1>2. /\ \A i \in 0 .. N : f[i] \in Nat
      /\ \A i \in 1 .. N : f[i] = f[i - 1] + rrLen(reply.answers[i])
  BY SumGrows
<1>3. 0 \in A
  BY <1>1, <1>2
<1>4. ASSUME NEW n \in Nat, n \in A PROVE n + 1 \in A
  <2> SUFFICES ASSUME k + (n + 1) <= N PROVE f[k] <= f[k + (n + 1)]
    OBVIOUS
  <2>1. /\ k + (n + 1) \in 1 .. N /\ (k + (n + 1)) - 1 = k + n /\ k + n <= N
        /\ k + n \in 0 .. N
    BY <1>1
  <2>2. f[k] <= f[k + n]
    BY <1>4, <2>1
  <2>3. rrLen(reply.answers[k + (n + 1)]) \in Nat
    BY <2>1, RRLen
  <2>4. f[k + (n + 1)] = f[k + n] + rrLen(reply.answers[k + (n + 1)])
    BY <1>2, <2>1
  <2>5. f[k] \in Nat /\ f[k + n] \in Nat
    BY <1>2, <2>1
  <2> QED
    BY <2>2, <2>3, <2>4, <2>5
<1>5. N - k \in A
  <2> HIDE DEF A
  <2> QED
    BY <1>1, <1>3, <1>4, NatInSet
<1> QED
  BY <1>1, <1>5

\* The length of the buffer is looked up in a table.
LEMMA BufferLen ==
  ASSUME TypeInv
  PROVE  \E f : isSum(f) /\ buffer = Header + nameLen(reply.question) + 1
                                     + f[Len(reply.answers)]
<1> DEFINE f == CHOOSE f : isSum(f)
<1>1. isSum(f)
  BY SumExists
<1>2. buffer = Header + nameLen(reply.question) + 1 + f[Len(reply.answers)]
  BY DEF buffer, isSum, rrLen
<1> QED
  BY <1>1, <1>2

\* what has been written, and the room for it
BufferInv ==
  /\ packed = -1 => used = Header /\ (phase = "pack" => Len(msg) = Header)
  /\ packed >= 0 => \A f : isSum(f) =>
       /\ used <= (Header + nameLen(reply.question)) + f[packed]
       /\ Len(msg) <= (Header + nameLen(reply.question)) + f[packed]
  /\ used \in Nat

\* BufferInv holds at first.
LEMMA BufferInit == Init => BufferInv
<1> SUFFICES ASSUME Init PROVE BufferInv
  OBVIOUS
<1>1. Header \in Nat /\ used = Header /\ packed = -1 /\ ~(packed >= 0)
  BY WireAssumption DEF Init
<1>2. phase = "pack" => Len(msg) = Header
  <2>1. phase = "pack" => msg = [i \in 1 .. Header |-> 0]
    BY InitReply
  <2> QED
    BY <1>1, <2>1
<1> QED
  BY <1>1, <1>2 DEF BufferInv

\* Every step keeps BufferInv.
LEMMA BufferNext == TypeInv /\ BufferInv /\ [Next]_vars => BufferInv'
<1> SUFFICES ASSUME TypeInv, BufferInv, [Next]_vars PROVE BufferInv'
  OBVIOUS
<1> USE DEF packVars, unpackVars
<1>0. /\ Len(reply.answers) \in Nat /\ packed \in -1 .. Len(reply.answers)
      /\ Len(msg) \in Nat /\ Header \in Nat /\ nameLen(reply.question) \in Nat
      /\ used \in Nat
  BY WireAssumption, NameLen DEF TypeInv, BufferInv
<1>1. CASE UNCHANGED vars
  BY <1>1 DEF BufferInv, vars, isSum, rrLen
<1>2. CASE Refuse
  BY <1>2 DEF Refuse, BufferInv, isSum, rrLen
<1>3. CASE PackQuestion
  <2>1. /\ packed = -1 /\ phase = "pack" /\ packed' = 0 /\ used' = owner.used
        /\ reply' = reply
    BY <1>3 DEF PackQuestion
  <2>2. legal(reply.question) /\ Len(msg') = Len(msg) + Len(owner.cells)
    BY <1>3, QuestionStep
  <2>3. /\ Len(owner.cells) \in Nat /\ Len(owner.cells) <= nameLen(reply.question)
        /\ owner.used \in Nat /\ owner.used <= Len(msg) + nameLen(reply.question)
    BY <2>2, OwnerPacked
  <2>4. Len(msg) = Header
    BY <2>1 DEF BufferInv
  <2>5. ASSUME NEW f, isSum(f)'
        PROVE  /\ used' <= (Header + nameLen(reply.question)) + f[packed']
               /\ Len(msg') <= (Header + nameLen(reply.question)) + f[packed']
    <3>1. isSum(f)
      BY <2>1, <2>5 DEF isSum, rrLen
    <3>2. f[packed'] = 0
      BY <2>1, <3>1, SumGrows
    <3> DEFINE m == nameLen(reply.question)
               c == Len(owner.cells)
               u == owner.used
    <3>3. /\ c \in Nat /\ c <= m /\ u \in Nat /\ u <= Header + m /\ m \in Nat
          /\ Len(msg') = Header + c /\ used' = u
      BY <1>0, <2>1, <2>2, <2>3, <2>4
    <3> HIDE DEF m, c, u
    <3>4. used' <= (Header + m) + 0 /\ Len(msg') <= (Header + m) + 0
      BY <1>0, <3>3
    <3> QED
      BY <3>2, <3>4 DEF m
  <2>6. packed' # -1 /\ used' \in Nat
    BY <2>1, <2>3
  <2> QED
    BY <2>1, <2>5, <2>6 DEF BufferInv
<1>4. CASE PackRR
  <2> DEFINE a == reply.answers[packed + 1]
             c == Len(owner.cells)
             at == Len(msg) + c + 2
             n == Len(data.cells)
             m == nameLen(reply.question)
             u == owner.used
             w == data.used
             dl == dataLen(a)
  <2>1. /\ packed \in 0 .. Len(reply.answers) - 1 /\ ~unpackable
        /\ Len(msg') = ((Len(msg) + c) + 2) + n
    BY <1>4, AnswerStep
  <2>2. /\ legal(reply.question) /\ n \in Nat /\ dl \in Nat /\ n <= dl
        /\ w \in Nat /\ w <= at + dl
    BY <2>1, DataPacked
  <2>3. c \in Nat /\ c <= m /\ u \in Nat /\ u <= Len(msg) + m /\ m \in Nat
    BY <2>2, OwnerPacked
  <2>4. /\ used' = (IF w > u THEN w ELSE u) /\ packed' = packed + 1 /\ reply' = reply
    BY <1>4 DEF PackRR
  <2>5. packed + 1 \in 1 .. Len(reply.answers) /\ (packed + 1) - 1 = packed
        /\ packed \in 0 .. Len(reply.answers)
    BY <1>0, <2>1
  <2>6. rrLen(a) = m + 2 + dl
    BY <2>5, RRLen
  <2>7. ASSUME NEW f, isSum(f)'
        PROVE  /\ used' <= (Header + m) + f[packed']
               /\ Len(msg') <= (Header + m) + f[packed']
    <3>1. isSum(f)
      BY <2>4, <2>7 DEF isSum, rrLen
    <3>2. f[packed + 1] = f[packed] + rrLen(a) /\ f[packed] \in Nat
      BY <2>5, <3>1, SumGrows
    <3>3. Len(msg) <= (Header + m) + f[packed]
      BY <2>1, <3>1 DEF BufferInv
    <3> DEFINE x == f[packed]
               L == Len(msg)
    <3>4. /\ f[packed'] = x + (m + 2 + dl) /\ x \in Nat /\ L <= (Header + m) + x
          /\ L \in Nat /\ Len(msg') = ((L + c) + 2) + n
          /\ u <= L + m /\ w <= ((L + c) + 2) + dl
      BY <1>0, <2>1, <2>2, <2>3, <2>4, <2>6, <3>2, <3>3
    <3> HIDE DEF x, L, a, c, at, n, m, u, w, dl
    <3>5. ((L + c) + 2) + n <= (Header + m) + (x + (m + 2 + dl))
      BY <1>0, <2>2, <2>3, <3>4
    <3>6. /\ u <= (Header + m) + (x + (m + 2 + dl))
          /\ w <= (Header + m) + (x + (m + 2 + dl))
      BY <1>0, <2>2, <2>3, <3>4
    <3> QED
      BY <2>4, <3>4, <3>5, <3>6
  <2> HIDE DEF w, u
  <2>8. used' \in Nat /\ packed' # -1
    BY <2>1, <2>2, <2>3, <2>4
  <2> QED
    BY <2>4, <2>7, <2>8 DEF BufferInv
<1>5. CASE Send
  BY <1>5 DEF Send, BufferInv, isSum, rrLen
<1>6. CASE Unpack
  <2>1. UNCHANGED <<msg, packVars>>
    BY <1>6, UnpackType
  <2>2. phase' # "pack"
    BY <1>6 DEF Unpack, UnpackBeyond, UnpackNothing, UnpackEnd, UnpackLabel, UnpackReserved,
       UnpackPointer, UnpackNoData, UnpackA, readsName, goOn, fail
  <2>3. \A f : isSum(f)' <=> isSum(f)
    BY <2>1 DEF isSum, rrLen
  <2> QED
    BY <2>1, <2>2, <2>3 DEF BufferInv
<1> QED
  BY <1>1, <1>2, <1>3, <1>4, <1>5, <1>6 DEF Next, Pack

\* The buffer that is allocated for a reply is long enough for every byte that
\* is written to it, of names however long and with however many escapes, and
\* also for those that a pointer takes back.
THEOREM BufferSufficient == Spec => []BufferSuffices
<1>1. TypeInv /\ BufferInv => BufferSuffices
  <2> SUFFICES ASSUME TypeInv, BufferInv PROVE BufferSuffices
    OBVIOUS
  <2>1. PICK f : isSum(f) /\ buffer = Header + nameLen(reply.question) + 1
                                      + f[Len(reply.answers)]
    BY BufferLen
  <2>2. /\ Len(reply.answers) \in Nat /\ packed \in -1 .. Len(reply.answers)
        /\ Header \in Nat /\ nameLen(reply.question) \in Nat /\ used \in Nat
    BY WireAssumption, NameLen DEF TypeInv, BufferInv
  <2> DEFINE z == f[Len(reply.answers)]
             m == nameLen(reply.question)
  <2>3. z \in Nat
    BY <2>1, <2>2, SumGrows
  <2>4. CASE packed = -1
    <3>1. used = Header
      BY <2>4 DEF BufferInv
    <3>2. buffer = Header + m + 1 + z
      BY <2>1
    <3> HIDE DEF z, m
    <3>3. m \in Nat
      BY <2>2 DEF m
    <3>4. used <= buffer
      BY <2>2, <2>3, <3>1, <3>2, <3>3
    <3> QED
      BY <3>4 DEF BufferSuffices
  <2>5. CASE packed # -1
    <3>1. packed \in 0 .. Len(reply.answers) /\ packed >= 0
      BY <2>2, <2>5
    <3> DEFINE x == f[packed]
    <3>2. used <= (Header + m) + x
      BY <2>1, <3>1 DEF BufferInv
    <3>3. x \in Nat /\ x <= z
      BY <2>1, <3>1, SumGrows, SumLast
    <3>4. buffer = Header + m + 1 + z
      BY <2>1
    <3> HIDE DEF z, m, x
    <3>5. m \in Nat
      BY <2>2 DEF m
    <3>6. used <= buffer
      BY <2>2, <2>3, <3>2, <3>3, <3>4, <3>5
    <3> QED
      BY <3>6 DEF BufferSuffices
  <2> QED
    BY <2>4, <2>5
<1> QED
  BY <1>1, TypeInit, TypeNext, BufferInit, BufferNext, PTL DEF Spec

-----------------------------------------------------------------------------
(* The keys of the compression map.                                        *)

bare(name, i) == name[i] \o <<dot>> \o text(tail(name, i + 1))
fill(n) == [j \in 1 .. n |-> dot]

\* the escapes in the first i labels
pad(name, i) == Len(text(front(name, i))) - Len(emit(name, i))

\* K is made of a label, the text of the others and p dots
isKey(K, name, i, p) ==
  LET L == Len(name[i])
      T == text(tail(name, i + 1))
  IN /\ K \in Seq(Int) /\ Len(K) = ((L + 1) + Len(T)) + p
     /\ \A j \in 1 .. L : K[j] = name[i][j]
     /\ K[L + 1] = dot
     /\ \A j \in 1 .. Len(T) : K[(L + 1) + j] = T[j]
     /\ \A j \in 1 .. p : K[((L + 1) + Len(T)) + j] = dot

\* What a key is made of, and how long it is.
LEMMA KeyForm ==
  ASSUME NEW name \in Name, NEW i \in 1 .. Len(name)
  PROVE  /\ pad(name, i) \in Nat
         /\ key(name, i) = bare(name, i) \o fill(pad(name, i))
         /\ isKey(key(name, i), name, i, pad(name, i))
         /\ key(name, i) \in Seq(Int) /\ Len(key(name, i)) \in Nat
         /\ Len(key(name, i)) = Len(text(name)) - Len(emit(name, i - 1))
         /\ pad(name, i) = 0 => \A j \in 1 .. i : noDot(name[j])
<1> DEFINE l == name[i]
           T == text(tail(name, i + 1))
           b == bare(name, i)
           p == pad(name, i)
           F == fill(p)
           E == Len(emit(name, i - 1))
           G == Len(emit(name, i))
           X == Len(text(front(name, i)))
<1>0. i \in 0 .. Len(name) /\ i \in i .. Len(name) /\ Len(name) \in Nat
  BY NameType
<1>1. l \in Label
  BY NameType
<1>2. l \in Seq(Int) /\ Len(l) \in Nat
  <2>1. l \in Seq(Nat) /\ Len(l) \in Nat
    BY <1>1, LabelType
  <2>2. Nat \subseteq Int
    OBVIOUS
  <2> QED
    BY <2>1, <2>2, SeqMonotonic
<1>3. T \in Seq(Int) /\ Len(T) \in Nat
  BY <1>0, Split, TextType
<1>4. X \in Nat /\ G \in Nat /\ X >= G /\ (X = G => \A j \in 1 .. i : noDot(name[j]))
  BY <1>0, TextLen DEF textOK
<1>5. p \in Nat /\ p = X - G /\ (p = 0 => \A j \in 1 .. i : noDot(name[j]))
  <2>1. p = X - G
    BY DEF pad
  <2> HIDE DEF p, X, G
  <2>2. p \in Nat /\ (p = 0 => X = G)
    BY <1>4, <2>1
  <2> QED
    BY <1>4, <2>1, <2>2
<1>6. E \in Nat /\ G = E + 1 + Len(l)
  BY <1>0, EmitLen
<1>7. Len(text(name)) = X + Len(T)
  BY <1>0, TextSplit
<1> DEFINE d == <<dot>>
<1>8. d \in Seq(Int) /\ Len(d) = 1 /\ d[1] = dot
  BY ByteType
<1>9. b = l \o d \o T
  BY DEF bare
<1> HIDE DEF d
<1> DEFINE u == l \o d
<1>10. b = u \o T /\ u = l \o d
  BY <1>9
<1>11. /\ u \in Seq(Int) /\ Len(u) = Len(l) + 1 /\ u[Len(l) + 1] = dot
       /\ \A j \in 1 .. Len(l) : u[j] = l[j]
  <2> HIDE DEF l, u
  <2>a. l \in Seq(Int) /\ d \in Seq(Int) /\ u = l \o d
    BY <1>2, <1>8, <1>10
  <2>1. /\ u \in Seq(Int) /\ Len(u) = Len(l) + Len(d)
        /\ \A j \in 1 .. Len(l) : u[j] = l[j]
        /\ \A j \in 1 .. Len(d) : u[Len(l) + j] = d[j]
    BY <2>a, TwoParts
  <2>2. 1 \in 1 .. Len(d)
    BY <1>8
  <2> QED
    BY <1>8, <2>1, <2>2
<1> HIDE DEF u, T, b
<1>12. /\ b \in Seq(Int) /\ Len(b) = Len(u) + Len(T)
       /\ \A j \in 1 .. Len(u) : b[j] = u[j]
       /\ \A j \in 1 .. Len(T) : b[Len(u) + j] = T[j]
  <2>1. u \in Seq(Int) /\ T \in Seq(Int)
    BY <1>3, <1>11
  <2> QED
    BY <1>10, <2>1, TwoParts
<1> DEFINE K == key(name, i)
<1>13. K = b \o F
  <2>1. K = b \o [j \in 1 .. Len(text(name)) - (E + Len(b)) |-> dot]
    BY DEF key, b, bare
  <2>2. Len(b) = (Len(l) + 1) + Len(T)
    BY <1>11, <1>12
  <2> DEFINE x == Len(l)
             y == Len(T)
             z == Len(b)
             w == Len(text(name))
  <2>3. /\ w = X + y /\ X \in Nat /\ y \in Nat /\ E \in Nat /\ x \in Nat /\ G = E + 1 + x
        /\ p = X - G /\ z = (x + 1) + y
    BY <1>2, <1>3, <1>4, <1>5, <1>6, <1>7, <2>2
  <2> HIDE DEF x, y, z, w, X, E, G, p
  <2>4. w - (E + z) = p
    BY <2>3
  <2> QED
    BY <2>1, <2>4 DEF fill, w, z
<1>14. F \in Seq(Int) /\ Len(F) = p /\ \A j \in 1 .. p : F[j] = dot
  <2>1. dot \in Int /\ p \in Nat
    BY <1>5, ByteType
  <2> HIDE DEF p
  <2> QED
    BY <2>1 DEF fill
<1> HIDE DEF F, K, p
<1>15. /\ K \in Seq(Int) /\ Len(K) = Len(b) + Len(F)
       /\ \A j \in 1 .. Len(b) : K[j] = b[j]
       /\ \A j \in 1 .. Len(F) : K[Len(b) + j] = F[j]
  <2>1. b \in Seq(Int) /\ F \in Seq(Int)
    BY <1>12, <1>14
  <2> QED
    BY <1>13, <2>1, TwoParts
<1> DEFINE x == Len(l)
           y == Len(T)
<1>16. x \in Nat /\ y \in Nat /\ Len(u) = x + 1 /\ Len(b) = (x + 1) + y
  BY <1>2, <1>3, <1>11, <1>12
<1>17. Len(K) = ((x + 1) + y) + p
  BY <1>14, <1>15, <1>16
<1>18. \A j \in 1 .. x : K[j] = l[j]
  <2> TAKE j \in 1 .. x
  <2>1. j \in 1 .. Len(b) /\ j \in 1 .. Len(u)
    BY <1>16
  <2> QED
    BY <1>11, <1>12, <1>15, <2>1
<1>19. K[x + 1] = dot
  <2>1. x + 1 \in 1 .. Len(b) /\ x + 1 \in 1 .. Len(u)
    BY <1>16
  <2> QED
    BY <1>11, <1>12, <1>15, <2>1
<1>20. ASSUME NEW j \in 1 .. y PROVE K[(x + 1) + j] = T[j]
  <2>1. (x + 1) + j \in 1 .. Len(b) /\ Len(u) + j = (x + 1) + j
    BY <1>16
  <2> QED
    BY <1>12, <1>15, <2>1
<1>21. ASSUME NEW j \in 1 .. p PROVE K[((x + 1) + y) + j] = dot
  <2>1. j \in 1 .. Len(F)
    BY <1>14
  <2>2. K[Len(b) + j] = F[j] /\ F[j] = dot
    BY <1>14, <1>15, <2>1
  <2> QED
    BY <1>16, <2>2
<1>22. isKey(K, name, i, p)
  BY <1>15, <1>17, <1>18, <1>19, <1>20, <1>21 DEF isKey, T
<1>23. Len(K) \in Nat /\ Len(K) = Len(text(name)) - E
  <2> DEFINE w == Len(text(name))
             z == Len(K)
  <2>1. /\ w = X + y /\ X \in Nat /\ y \in Nat /\ E \in Nat /\ x \in Nat /\ G = E + 1 + x
        /\ p = X - G /\ p \in Nat /\ z = ((x + 1) + y) + p
    BY <1>2, <1>3, <1>4, <1>5, <1>6, <1>7, <1>16, <1>17
  <2> HIDE DEF x, y, z, w, X, E, G
  <2>2. z \in Nat /\ z = w - E
    BY <2>1
  <2> QED
    BY <2>2 DEF w, z
<1> QED
  BY <1>5, <1>13, <1>15, <1>22, <1>23 DEF K, p, F, b

\* Keys of the same labels with as many escapes in front are the same.
LEMMA KeySame ==
  ASSUME NEW x \in Name, NEW i \in 1 .. Len(x), NEW y \in Name, NEW j \in 1 .. Len(y),
         tail(x, i) = tail(y, j), pad(x, i) = pad(y, j)
  PROVE  key(x, i) = key(y, j)
<1>1. /\ key(x, i) = bare(x, i) \o fill(pad(x, i))
      /\ key(y, j) = bare(y, j) \o fill(pad(y, j))
  BY KeyForm
<1>2. x[i] = y[j] /\ tail(x, i + 1) = tail(y, j + 1)
  <2>1. /\ Len(x) \in Nat /\ Len(y) \in Nat /\ i \in 1 .. Len(x) + 1 /\ j \in 1 .. Len(y) + 1
        /\ 2 \in 1 .. (Len(x) - i) + 2 /\ 2 \in 1 .. (Len(y) - j) + 2
        /\ (i + 2) - 1 = i + 1 /\ (j + 2) - 1 = j + 1
    BY NameType
  <2>2. tail(tail(x, i), 2) = tail(x, i + 1) /\ tail(tail(y, j), 2) = tail(y, j + 1)
    BY <2>1, TailTail
  <2>3. tail(x, i)[1] = x[i] /\ tail(y, j)[1] = y[j]
    <3>1. i - 1 \in 0 .. Len(x) /\ (i - 1) + 1 = i /\ 1 \in 1 .. Len(x) - (i - 1)
      BY <2>1
    <3>2. j - 1 \in 0 .. Len(y) /\ (j - 1) + 1 = j /\ 1 \in 1 .. Len(y) - (j - 1)
      BY <2>1
    <3>3. tail(x, (i - 1) + 1)[1] = x[(i - 1) + 1]
      BY <3>1, Split
    <3>4. tail(y, (j - 1) + 1)[1] = y[(j - 1) + 1]
      BY <3>2, Split
    <3> QED
      BY <3>1, <3>2, <3>3, <3>4
  <2> QED
    BY <2>2, <2>3
<1>3. bare(x, i) = bare(y, j)
  BY <1>2 DEF bare
<1> QED
  BY <1>1, <1>3

\* No two labels of a name have the same key.
LEMMA KeyOnce ==
  ASSUME NEW name \in Name, NEW i \in 1 .. Len(name), NEW j \in 1 .. Len(name),
         key(name, i) = key(name, j)
  PROVE  i = j
<1>1. \A a, b \in 1 .. Len(name) : a < b => key(name, a) # key(name, b)
  <2> SUFFICES ASSUME NEW a \in 1 .. Len(name), NEW b \in 1 .. Len(name), a < b,
                      key(name, a) = key(name, b)
               PROVE  FALSE
    OBVIOUS
  <2> DEFINE E == Len(emit(name, a - 1))
             F == Len(emit(name, b - 1))
             X == Len(text(name))
  <2>1. Len(key(name, a)) = X - E /\ Len(key(name, b)) = X - F
    BY KeyForm
  <2>2. b - 1 \in a .. Len(name)
    BY NameType
  <2>3. /\ E \in Nat /\ Len(emit(name, a)) = E + 1 + Len(name[a]) /\ Len(name[a]) \in Nat
        /\ Len(emit(name, a)) <= F /\ F \in Nat
    BY <2>2, EmitLen
  <2>4. X \in Nat
    BY TextType
  <2>5. X - E = X - F
    BY <2>1
  <2> DEFINE G == Len(emit(name, a))
             L == Len(name[a])
  <2>6. E \in Nat /\ G = E + 1 + L /\ L \in Nat /\ G <= F /\ F \in Nat
    BY <2>3
  <2> HIDE DEF E, F, X, G, L
  <2> QED
    BY <2>4, <2>5, <2>6
<1>2. i \in Nat /\ j \in Nat
  OBVIOUS
<1>3. ~(i < j) /\ ~(j < i)
  BY <1>1
<1> QED
  BY <1>2, <1>3

joined(z, x, y) == z = x \o y

\* The labels of two names, one after the other.
LEMMA CatName ==
  ASSUME NEW x \in Name, NEW y \in Name, NEW z \in Name, joined(z, x, y)
  PROVE  /\ Len(z) = Len(x) + Len(y) /\ Len(x) \in Nat /\ Len(y) \in Nat
         /\ \A i \in 1 .. Len(x) : z[i] = x[i]
         /\ \A i \in 1 .. Len(y) : z[Len(x) + i] = y[i]
         /\ front(z, Len(x)) = x
         /\ \A i \in 1 .. Len(y) + 1 : tail(z, Len(x) + i) = tail(y, i)
<1>0. x \in Seq(Label) /\ y \in Seq(Label)
  BY DEF Name
<1>1. /\ z \in Seq(Label) /\ Len(z) = Len(x) + Len(y) /\ Len(x) \in Nat /\ Len(y) \in Nat
      /\ \A i \in 1 .. Len(x) : z[i] = x[i]
      /\ \A i \in 1 .. Len(y) : z[Len(x) + i] = y[i]
  BY <1>0, TwoParts, SMTT(30) DEF joined
<1>2. z \in Name /\ Len(x) \in 0 .. Len(z)
  BY <1>1 DEF Name
<1> DEFINE f == front(z, Len(x))
           w == tail(z, Len(x) + 1)
<1>3. /\ f \in Seq(Label) /\ Len(f) = Len(x) /\ \A i \in 1 .. Len(x) : f[i] = z[i]
      /\ w \in Seq(Label) /\ Len(w) = Len(z) - Len(x)
      /\ \A i \in 1 .. Len(z) - Len(x) : w[i] = z[Len(x) + i]
  BY <1>2, Split DEF Name
<1> HIDE DEF f, w
<1>4. f = x
  <2>1. \A i \in 1 .. Len(f) : f[i] = x[i]
    BY <1>1, <1>3
  <2> QED
    BY <1>0, <1>3, <2>1, SeqEqual
<1>5. w = y
  <2>1. Len(w) = Len(y)
    BY <1>1, <1>3
  <2>2. \A i \in 1 .. Len(w) : w[i] = y[i]
    BY <1>1, <1>3, <2>1
  <2> QED
    BY <1>0, <1>3, <2>1, <2>2, SeqEqual
<1>6. ASSUME NEW i \in 1 .. Len(y) + 1 PROVE tail(z, Len(x) + i) = tail(y, i)
  <2>1. /\ Len(x) + 1 \in 1 .. Len(z) + 1 /\ i \in 1 .. (Len(z) - (Len(x) + 1)) + 2
        /\ ((Len(x) + 1) + i) - 1 = Len(x) + i
    BY <1>1
  <2>2. tail(tail(z, Len(x) + 1), i) = tail(z, ((Len(x) + 1) + i) - 1)
    BY <1>2, <2>1, TailTail
  <2> QED
    BY <1>5, <2>1, <2>2 DEF w
<1> QED
  BY <1>1, <1>2, <1>4, <1>6 DEF f

\* What is emitted for them.
LEMMA EmitCat ==
  ASSUME NEW x \in Name, NEW y \in Name, NEW z \in Name, joined(z, x, y), NEW j \in 0 .. Len(y)
  PROVE  /\ Len(emit(z, Len(x) + j)) = Len(emit(x, Len(x))) + Len(emit(y, j))
         /\ Len(emit(x, Len(x))) \in Nat /\ Len(emit(y, j)) \in Nat
<1>0. /\ z \in Name /\ Len(z) = Len(x) + Len(y) /\ Len(x) \in Nat /\ Len(y) \in Nat
      /\ \A i \in 1 .. Len(x) : z[i] = x[i]
      /\ \A i \in 1 .. Len(y) : z[Len(x) + i] = y[i]
  BY CatName
<1> DEFINE X == Len(emit(x, Len(x)))
           P(n) == Len(emit(z, Len(x) + n)) = X + Len(emit(y, n))
           A == {n \in Nat : n <= Len(y) => P(n)}
<1>1. X \in Nat
  <2>1. Len(x) \in 0 .. Len(x)
    BY <1>0
  <2> QED
    BY <2>1, Emitted DEF spelledTo
<1>2. 0 \in A
  <2> DEFINE ss == [i \in 1 .. Len(x) |-> <<Len(x[i])>> \o x[i]]
             tt == [i \in 1 .. Len(x) |-> <<Len(z[i])>> \o z[i]]
  <2>1. ss = tt
    BY <1>0
  <2>2. emit(x, Len(x)) = FlattenSeq(ss) /\ emit(z, Len(x)) = FlattenSeq(tt)
    BY DEF emit
  <2>3. Len(x) + 0 = Len(x) /\ Len(emit(y, 0)) = 0
    BY <1>0, EmitNone
  <2> HIDE DEF ss, tt
  <2>4. P(0)
    BY <1>1, <2>1, <2>2, <2>3
  <2> QED
    BY <2>4
<1>3. ASSUME NEW n \in Nat, n \in A PROVE n + 1 \in A
  <2> SUFFICES ASSUME n + 1 <= Len(y) PROVE P(n + 1)
    OBVIOUS
  <2>1. P(n)
    BY <1>0, <1>3
  <2>2. /\ n + 1 \in 1 .. Len(y) /\ n + 1 \in n + 1 .. Len(y) /\ (n + 1) - 1 = n
        /\ Len(x) + (n + 1) \in 1 .. Len(z)
        /\ Len(x) + (n + 1) \in Len(x) + (n + 1) .. Len(z)
        /\ (Len(x) + (n + 1)) - 1 = Len(x) + n
    BY <1>0
  <2>3. /\ Len(emit(y, n + 1)) = Len(emit(y, n)) + 1 + Len(y[n + 1])
        /\ Len(emit(y, n)) \in Nat /\ Len(y[n + 1]) \in Nat
    BY <2>2, EmitLen
  <2>4. /\ Len(emit(z, Len(x) + (n + 1))) = Len(emit(z, Len(x) + n)) + 1 + Len(z[Len(x) + (n + 1)])
        /\ Len(emit(z, Len(x) + n)) \in Nat
    BY <1>0, <2>2, EmitLen
  <2>5. z[Len(x) + (n + 1)] = y[n + 1]
    BY <1>0, <2>2
  <2> DEFINE a == Len(emit(y, n))
             b == Len(emit(y, n + 1))
             c == Len(emit(z, Len(x) + n))
             d == Len(emit(z, Len(x) + (n + 1)))
             l == Len(y[n + 1])
  <2>6. a \in Nat /\ b = a + 1 + l /\ l \in Nat /\ d = c + 1 + l /\ c = X + a
    BY <2>1, <2>3, <2>4, <2>5
  <2> HIDE DEF a, b, c, d, l, X
  <2>7. d = X + b
    BY <1>1, <2>6
  <2> QED
    BY <2>7 DEF b, d
<1>4. j \in A
  <2>1. j \in Nat
    OBVIOUS
  <2> HIDE DEF A
  <2> QED
    BY <1>2, <1>3, <2>1, NatInSet
<1>5. Len(emit(y, j)) \in Nat
  BY Emitted DEF spelledTo
<1> QED
  BY <1>0, <1>1, <1>4, <1>5

\* Their escapes are added up.
LEMMA PadCat ==
  ASSUME NEW x \in Name, NEW y \in Name, NEW z \in Name, joined(z, x, y), NEW j \in 1 .. Len(y)
  PROVE  /\ pad(z, Len(x) + j) = pad(x, Len(x)) + pad(y, j)
         /\ pad(x, Len(x)) \in Nat /\ pad(y, j) \in Nat
<1>0. /\ z \in Name /\ Len(z) = Len(x) + Len(y) /\ Len(x) \in Nat /\ Len(y) \in Nat
      /\ \A i \in 1 .. Len(x) : z[i] = x[i]
      /\ \A i \in 1 .. Len(y) : z[Len(x) + i] = y[i]
      /\ Len(x) \in 0 .. Len(x) /\ j \in 0 .. Len(y) /\ Len(x) + j \in 0 .. Len(z)
  <2>1. /\ z \in Name /\ Len(z) = Len(x) + Len(y) /\ Len(x) \in Nat /\ Len(y) \in Nat
        /\ \A i \in 1 .. Len(x) : z[i] = x[i]
        /\ \A i \in 1 .. Len(y) : z[Len(x) + i] = y[i]
    BY CatName
  <2>2. Len(x) \in 0 .. Len(x) /\ j \in 0 .. Len(y) /\ Len(x) + j \in 0 .. Len(z)
    BY <2>1
  <2> QED
    BY <2>1, <2>2
<1> DEFINE f == front(y, j)
           g == front(z, Len(x) + j)
<1>1. f \in Name /\ Len(f) = j /\ \A i \in 1 .. j : f[i] = y[i]
  BY <1>0, Split
<1>2. g \in Name /\ Len(g) = Len(x) + j /\ \A i \in 1 .. Len(x) + j : g[i] = z[i]
  BY <1>0, Split
<1> HIDE DEF f, g
<1>3. g = x \o f
  <2>1. g \in Seq(Label) /\ x \in Seq(Label) /\ f \in Seq(Label)
    BY <1>1, <1>2 DEF Name
  <2>2. Len(g) = Len(x) + Len(f)
    BY <1>1, <1>2
  <2>3. \A i \in 1 .. Len(x) : g[i] = x[i]
    BY <1>0, <1>2
  <2>4. ASSUME NEW i \in 1 .. Len(f) PROVE g[Len(x) + i] = f[i]
    <3>1. i \in 1 .. Len(y) /\ i \in 1 .. j /\ Len(x) + i \in 1 .. Len(x) + j
      BY <1>0, <1>1
    <3>2. g[Len(x) + i] = z[Len(x) + i] /\ z[Len(x) + i] = y[i] /\ f[i] = y[i]
      BY <1>0, <1>1, <1>2, <3>1
    <3> QED
      BY <3>2
  <2> QED
    BY <2>1, <2>2, <2>3, <2>4, IsCat
<1>4. text(g) = text(x) \o text(f)
  BY <1>1, <1>3, TextCat
<1>5. text(x) \in Seq(Int) /\ text(f) \in Seq(Int)
  BY <1>1, TextType
<1>6. Len(text(g)) = Len(text(x)) + Len(text(f))
  BY <1>4, <1>5
<1>7. front(x, Len(x)) = x
  BY DEF front, Name
<1>8. /\ Len(emit(z, Len(x) + j)) = Len(emit(x, Len(x))) + Len(emit(y, j))
      /\ Len(emit(x, Len(x))) \in Nat /\ Len(emit(y, j)) \in Nat
  BY <1>0, EmitCat
<1>9. /\ Len(text(x)) \in Nat /\ Len(text(x)) >= Len(emit(x, Len(x)))
      /\ Len(text(f)) \in Nat /\ Len(text(f)) >= Len(emit(y, j))
  BY <1>0, <1>7, TextLen DEF textOK, f
<1> DEFINE a == Len(text(x))
           b == Len(text(f))
           c == Len(emit(x, Len(x)))
           d == Len(emit(y, j))
           e == Len(emit(z, Len(x) + j))
           h == Len(text(g))
<1>10. pad(z, Len(x) + j) = h - e /\ pad(x, Len(x)) = a - c /\ pad(y, j) = b - d
  BY <1>7 DEF pad, f, g
<1>11. /\ a \in Nat /\ b \in Nat /\ c \in Nat /\ d \in Nat /\ a >= c /\ b >= d
       /\ h = a + b /\ e = c + d
  BY <1>6, <1>8, <1>9
<1> HIDE DEF a, b, c, d, e, h
<1>12. h - e = (a - c) + (b - d) /\ a - c \in Nat /\ b - d \in Nat
  BY <1>11
<1> QED
  BY <1>10, <1>12

\* A plain name has no escapes.
LEMMA PlainPad ==
  ASSUME NEW name \in Name, plain(name), NEW i \in 0 .. Len(name)
  PROVE  pad(name, i) = 0 /\ \A j \in 1 .. Len(name) : noDot(name[j])
<1>1. \A j \in 1 .. Len(name) : noDot(name[j])
  <2> TAKE j \in 1 .. Len(name)
  <2>1. j \in DOMAIN name /\ name[j] \in Label
    BY NameType
  <2>2. DOMAIN name[j] = 1 .. Len(name[j])
    BY <2>1, LabelType
  <2> QED
    BY <2>1, <2>2 DEF plain, noDot
<1>2. textOK(name, i)
  BY TextLen
<1>3. \A j \in 1 .. i : noDot(name[j])
  BY <1>1, NameType
<1>4. Len(text(front(name, i))) = Len(emit(name, i)) /\ Len(emit(name, i)) \in Nat
  BY <1>2, <1>3 DEF textOK
<1> QED
  BY <1>1, <1>4 DEF pad

\* A name from a label on is that label and the name from the next label on.
LEMMA HeadTail ==
  ASSUME NEW name \in Name, NEW i \in 1 .. Len(name)
  PROVE  /\ tail(name, i) = <<name[i]>> \o tail(name, i + 1)
         /\ tail(name, i) \in Name /\ tail(name, i + 1) \in Name /\ <<name[i]>> \in Name
         /\ name[i] \in Label
<1> DEFINE l == name[i]
           h == <<l>>
           w == tail(name, i)
           t == tail(name, i + 1)
<1>0. Len(name) \in Nat /\ l \in Label
  BY NameType
<1>1. i - 1 \in 0 .. Len(name) /\ (i - 1) + 1 = i /\ i \in 0 .. Len(name)
  BY <1>0
<1>2. /\ w \in Name /\ Len(w) = Len(name) - (i - 1)
      /\ \A k \in 1 .. Len(name) - (i - 1) : w[k] = name[(i - 1) + k]
  <2>1. /\ tail(name, (i - 1) + 1) \in Name
        /\ Len(tail(name, (i - 1) + 1)) = Len(name) - (i - 1)
        /\ \A k \in 1 .. Len(name) - (i - 1) : tail(name, (i - 1) + 1)[k] = name[(i - 1) + k]
    BY <1>1, Split
  <2> QED
    BY <1>1, <2>1
<1>3. /\ t \in Name /\ Len(t) = Len(name) - i
      /\ \A k \in 1 .. Len(name) - i : t[k] = name[i + k]
  BY <1>1, Split
<1>4. h \in Name /\ Len(h) = 1 /\ h[1] = l
  BY <1>0, TextShort
<1> HIDE DEF h, w, t, l
<1>5. h \in Seq(Label) /\ w \in Seq(Label) /\ t \in Seq(Label)
  BY <1>2, <1>3, <1>4 DEF Name
<1>6. Len(w) = Len(h) + Len(t)
  BY <1>0, <1>2, <1>3, <1>4
<1>7. \A k \in 1 .. Len(h) : w[k] = h[k]
  <2> TAKE k \in 1 .. Len(h)
  <2>1. k = 1 /\ 1 \in 1 .. Len(name) - (i - 1) /\ (i - 1) + 1 = i
    BY <1>0, <1>4
  <2> QED
    BY <1>2, <1>4, <2>1 DEF l
<1>8. \A k \in 1 .. Len(t) : w[Len(h) + k] = t[k]
  <2> TAKE k \in 1 .. Len(t)
  <2>1. /\ k \in 1 .. Len(name) - i /\ 1 + k \in 1 .. Len(name) - (i - 1)
        /\ (i - 1) + (1 + k) = i + k
    BY <1>0, <1>3
  <2> QED
    BY <1>2, <1>3, <1>4, <2>1
<1>9. w = h \o t
  BY <1>5, <1>6, <1>7, <1>8, IsCat
<1> QED
  BY <1>0, <1>2, <1>3, <1>4, <1>9 DEF h, l, w, t

\* Without escapes so far, the key is the text from the label on.
LEMMA KeyText ==
  ASSUME NEW name \in Name, NEW i \in 1 .. Len(name), pad(name, i) = 0
  PROVE  key(name, i) = text(tail(name, i))
<1> DEFINE l == name[i]
           d == <<dot>>
           u == l \o d
           T == text(tail(name, i + 1))
           b == bare(name, i)
           F == fill(0)
<1>1. /\ tail(name, i) = <<l>> \o tail(name, i + 1) /\ <<l>> \in Name
      /\ tail(name, i + 1) \in Name /\ l \in Label
  BY HeadTail
<1>2. text(tail(name, i)) = text(<<l>>) \o T
  <2> DEFINE h == <<l>>
             t == tail(name, i + 1)
             w == tail(name, i)
  <2>1. w = h \o t /\ h \in Name /\ t \in Name
    BY <1>1
  <2> HIDE DEF h, t, w
  <2>2. text(w) = text(h) \o text(t)
    BY <2>1, TextCat
  <2> QED
    BY <2>2 DEF h, t, w
<1>3. noDot(l)
  <2>1. i \in 1 .. i
    OBVIOUS
  <2> QED
    BY <2>1, KeyForm
<1>4. text(<<l>>) = u
  <2>1. text(<<l>>) = piece(l)
    BY <1>1, TextShort
  <2>2. piece(l) = l \o <<dot>>
    BY <1>1, <1>3, PieceType
  <2> QED
    BY <2>1, <2>2
<1>5. b = u \o T
  BY DEF bare
<1>6. key(name, i) = b \o F
  BY KeyForm
<1>7. F = <<>>
  BY DEF fill
<1>8. b \in Seq(Int)
  <2>1. u \in Seq(Int) /\ T \in Seq(Int)
    <3>1. piece(l) \in Seq(Int) /\ piece(l) = u
      BY <1>1, <1>3, PieceType
    <3> QED
      BY <1>1, <3>1, TextType
  <2> HIDE DEF u, T, b
  <2> QED
    BY <1>5, <2>1, TwoParts
<1> HIDE DEF b, F, u, T
<1>9. b \o F = b
  <2>1. b \o <<>> = b
    BY <1>8, ConcatEmptySeq
  <2> QED
    BY <1>7, <2>1
<1> QED
  BY <1>2, <1>4, <1>5, <1>6, <1>9

\* The text from a later label on is shorter.
LEMMA TextShrinks ==
  ASSUME NEW name \in Name, NEW i \in 1 .. Len(name), NEW j \in i + 1 .. Len(name) + 1
  PROVE  /\ Len(text(tail(name, j))) < Len(text(tail(name, i)))
         /\ Len(text(tail(name, j))) \in Nat /\ Len(text(tail(name, i))) \in Nat
<1> DEFINE w == tail(name, i)
           n == j - i
<1>0. /\ Len(name) \in Nat /\ i \in 1 .. Len(name) + 1 /\ n + 1 \in 1 .. (Len(name) - i) + 2
      /\ (i + (n + 1)) - 1 = j
  BY NameType
<1>1. /\ w \in Name /\ Len(w) = (Len(name) - i) + 1
      /\ tail(w, n + 1) = tail(name, (i + (n + 1)) - 1)
  BY <1>0, TailTail
<1>2. n \in 1 .. Len(w) /\ n \in 0 .. Len(w)
  BY <1>0, <1>1
<1> HIDE DEF w, n
<1>3. Len(text(w)) = Len(text(front(w, n))) + Len(text(tail(w, n + 1)))
  BY <1>1, <1>2, TextSplit
<1>4. Len(text(front(w, n))) >= Len(emit(w, n)) /\ Len(text(front(w, n))) \in Nat
  BY <1>1, <1>2, TextLen DEF textOK
<1>5. Len(emit(w, n)) \in Nat /\ Len(emit(w, n)) > 0
  <2>1. n \in n .. Len(w)
    BY <1>2
  <2>2. /\ Len(emit(w, n - 1)) \in Nat /\ Len(emit(w, n)) \in Nat
        /\ Len(emit(w, n)) = Len(emit(w, n - 1)) + 1 + Len(w[n])
        /\ Len(w[n]) \in Nat
    BY <1>1, <1>2, <2>1, EmitLen
  <2> DEFINE a == Len(emit(w, n - 1))
             b == Len(emit(w, n))
             c == Len(w[n])
  <2>3. a \in Nat /\ b = a + 1 + c /\ c \in Nat
    BY <2>2
  <2> HIDE DEF a, b, c
  <2>4. b \in Nat /\ b > 0
    BY <2>3
  <2> QED
    BY <2>4 DEF b
<1>6. Len(text(tail(w, n + 1))) \in Nat
  BY <1>1, <1>2, Split, TextType
<1>7. tail(w, n + 1) = tail(name, j)
  BY <1>0, <1>1
<1> DEFINE a == Len(text(w))
           b == Len(text(front(w, n)))
           c == Len(text(tail(w, n + 1)))
           e == Len(emit(w, n))
<1>8. a = b + c /\ b >= e /\ b \in Nat /\ e \in Nat /\ e > 0 /\ c \in Nat
  BY <1>3, <1>4, <1>5, <1>6
<1> HIDE DEF a, b, c, e
<1>9. c < a /\ a \in Nat
  BY <1>8
<1> QED
  BY <1>7, <1>8, <1>9 DEF a, c, w

\* The text of a name ends with a dot, and with one only when it is plain.
LEMMA TextLast ==
  ASSUME NEW name \in Name, name # <<>>
  PROVE  /\ text(name) \in Seq(Int) /\ Len(text(name)) \in Nat /\ Len(text(name)) >= 2
         /\ text(name)[Len(text(name))] = dot
         /\ plain(name) => text(name)[Len(text(name)) - 1] # dot
<1> DEFINE n == Len(name) - 1
           f == front(name, n)
           t == tail(name, n + 1)
           l == name[n + 1]
<1>0. Len(name) \in Nat /\ Len(name) # 0
  <2>1. name \in Seq(Label)
    BY DEF Name
  <2> QED
    BY <2>1, EmptySeq
<1>1. n \in 0 .. Len(name) /\ n + 1 = Len(name) /\ n + 1 \in 1 .. Len(name) /\ n \in Nat
  BY <1>0
<1>2. f \in Name /\ t \in Name /\ name = f \o t
  BY <1>1, Split
<1>3. t = <<l>> /\ l \in Label
  <2>1. t = <<l>> \o tail(name, (n + 1) + 1) /\ l \in Label /\ <<l>> \in Name
    BY <1>1, HeadTail
  <2>2. tail(name, (n + 1) + 1) = <<>>
    <3>1. Len(name) \in 0 .. Len(name) /\ (n + 1) + 1 = Len(name) + 1
      BY <1>0, <1>1
    <3>2. Len(tail(name, Len(name) + 1)) = Len(name) - Len(name)
          /\ tail(name, Len(name) + 1) \in Name
      BY <3>1, Split
    <3>3. Len(tail(name, (n + 1) + 1)) = 0 /\ tail(name, (n + 1) + 1) \in Seq(Label)
      BY <1>0, <3>1, <3>2 DEF Name
    <3> QED
      BY <3>3, EmptySeq
  <2>3. <<l>> \o <<>> = <<l>>
    OBVIOUS
  <2> QED
    BY <2>1, <2>2, <2>3
<1>4. text(name) = text(f) \o text(t)
  <2> HIDE DEF f, t
  <2> QED
    BY <1>2, TextCat
<1>5. text(t) = piece(l)
  BY <1>3, TextShort
<1> DEFINE p == piece(l)
           g == text(f)
           x == text(name)
<1>6. /\ p \in Seq(Int) /\ Len(p) >= Len(l) + 1 /\ p[Len(p)] = dot
      /\ noDot(l) => p = l \o <<dot>>
  BY <1>3, PieceType
<1>7. l \in Seq(Byte) /\ Len(l) \in Nat /\ Len(l) > 0
  BY <1>3, LabelType
<1>8. g \in Seq(Int) /\ x = g \o p
  BY <1>2, <1>4, <1>5, TextType
<1>9. plain(name) => noDot(l)
  BY <1>1, PlainPad
<1> HIDE DEF p, g, x, l, n
<1>10. /\ x \in Seq(Int) /\ Len(x) = Len(g) + Len(p) /\ Len(g) \in Nat /\ Len(p) \in Nat
       /\ \A i \in 1 .. Len(p) : x[Len(g) + i] = p[i]
  <2>1. p \in Seq(Int)
    BY <1>6
  <2> QED
    BY <1>8, <2>1, TwoParts
<1>11. Len(x) \in Nat /\ Len(x) >= 2 /\ Len(p) >= 2
  <2> DEFINE a == Len(x)
             b == Len(g)
             c == Len(p)
             e == Len(l)
  <2>1. a = b + c /\ b \in Nat /\ c \in Nat /\ c >= e + 1 /\ e \in Nat /\ e > 0
    BY <1>6, <1>7, <1>10
  <2> HIDE DEF a, b, c, e
  <2>2. a \in Nat /\ a >= 2 /\ c >= 2
    BY <2>1
  <2> QED
    BY <2>2 DEF a, c
<1>12. x[Len(x)] = dot
  <2>1. Len(p) \in 1 .. Len(p)
    BY <1>10, <1>11
  <2> QED
    BY <1>6, <1>10, <2>1
<1>13. ASSUME plain(name) PROVE x[Len(x) - 1] # dot
  <2>1. noDot(l)
    BY <1>9, <1>13
  <2> DEFINE d == <<dot>>
  <2>2. p = l \o d /\ d \in Seq(Byte) /\ Len(d) = 1
    BY <1>6, <2>1, ByteType
  <2> HIDE DEF d
  <2>3. Len(p) = Len(l) + 1 /\ \A i \in 1 .. Len(l) : p[i] = l[i]
    <3>1. l \in Seq(Byte) /\ d \in Seq(Byte) /\ p = l \o d
      BY <1>7, <2>2
    <3>2. Len(p) = Len(l) + Len(d) /\ \A i \in 1 .. Len(l) : p[i] = l[i]
      BY <3>1, TwoParts
    <3> QED
      BY <2>2, <3>2
  <2>4. Len(l) \in 1 .. Len(l) /\ Len(l) \in 1 .. Len(p) /\ Len(x) - 1 = Len(g) + Len(l)
    BY <1>7, <1>10, <2>3
  <2>5. x[Len(g) + Len(l)] = p[Len(l)] /\ p[Len(l)] = l[Len(l)]
    BY <1>10, <2>3, <2>4
  <2>6. l[Len(l)] # dot
    BY <2>1, <2>4 DEF noDot
  <2> QED
    BY <2>4, <2>5, <2>6
<1> QED
  BY <1>10, <1>11, <1>12, <1>13 DEF x

\* The tails of a plain name are plain.
LEMMA PlainTail ==
  ASSUME NEW name \in Name, plain(name), NEW j \in 1 .. Len(name)
  PROVE  tail(name, j) \in Name /\ plain(tail(name, j)) /\ tail(name, j) # <<>>
<1> DEFINE w == tail(name, j)
<1>0. Len(name) \in Nat
  BY NameType
<1>1. j - 1 \in 0 .. Len(name) /\ (j - 1) + 1 = j
  BY <1>0
<1>2. /\ w \in Name /\ Len(w) = Len(name) - (j - 1)
      /\ \A i \in 1 .. Len(name) - (j - 1) : w[i] = name[(j - 1) + i]
  <2>1. /\ tail(name, (j - 1) + 1) \in Name
        /\ Len(tail(name, (j - 1) + 1)) = Len(name) - (j - 1)
        /\ \A i \in 1 .. Len(name) - (j - 1) : tail(name, (j - 1) + 1)[i] = name[(j - 1) + i]
    BY <1>1, Split
  <2> QED
    BY <1>1, <2>1
<1> HIDE DEF w
<1>3. DOMAIN w = 1 .. Len(w) /\ DOMAIN name = 1 .. Len(name)
  BY <1>2, NameType
<1>4. ASSUME NEW i \in DOMAIN w, NEW n \in DOMAIN w[i] PROVE w[i][n] # dot
  <2>1. i \in 1 .. Len(name) - (j - 1) /\ (j - 1) + i \in DOMAIN name
    BY <1>0, <1>2, <1>3
  <2>2. w[i] = name[(j - 1) + i]
    BY <1>2, <2>1
  <2> QED
    BY <2>1, <2>2, <1>4 DEF plain
<1>5. w # <<>>
  <2>1. Len(w) # 0
    BY <1>0, <1>2
  <2> QED
    BY <2>1
<1> QED
  BY <1>2, <1>4, <1>5 DEF plain, w

\* A key that ends with one dot has no escapes before it.
LEMMA OneDot ==
  ASSUME NEW name \in Name, NEW i \in 1 .. Len(name),
         key(name, i)[Len(key(name, i)) - 1] # dot
  PROVE  pad(name, i) = 0
<1> DEFINE K == key(name, i)
           p == pad(name, i)
           t == tail(name, i + 1)
           T == text(t)
           L == Len(name[i])
           y == Len(T)
<1>1. isKey(K, name, i, p) /\ p \in Nat
  BY KeyForm
<1>2. /\ Len(K) = ((L + 1) + y) + p
      /\ K[L + 1] = dot
      /\ \A j \in 1 .. y : K[(L + 1) + j] = T[j]
      /\ \A j \in 1 .. p : K[((L + 1) + y) + j] = dot
  BY <1>1 DEF isKey
<1>3. L \in Nat
  BY NameType, LabelType
<1>4. t \in Name
  BY HeadTail
<1>5. y \in Nat
  BY <1>4, TextType
<1>6. K[Len(K) - 1] # dot
  OBVIOUS
<1>7. y # 0 => T[y] = dot
  <2>1. CASE t = <<>>
    BY <2>1, TextShort
  <2>2. CASE t # <<>>
    BY <1>4, <2>2, TextLast
  <2> QED
    BY <2>1, <2>2
<1> HIDE DEF K, p, t, T, L, y
<1>8. SUFFICES ASSUME p # 0 PROVE FALSE
  BY DEF p
<1>9. CASE p = 1
  <2>1. Len(K) - 1 = (L + 1) + y
    BY <1>2, <1>3, <1>5, <1>9
  <2>2. CASE y = 0
    <3>1. (L + 1) + y = L + 1
      BY <1>3, <2>2
    <3> QED
      BY <1>2, <1>6, <2>1, <3>1
  <2>3. CASE y # 0
    <3>1. y \in 1 .. y
      BY <1>5, <2>3
    <3> QED
      BY <1>2, <1>6, <1>7, <2>1, <2>3, <3>1
  <2> QED
    BY <2>2, <2>3
<1>10. CASE p # 1
  <2>1. p - 1 \in 1 .. p /\ Len(K) - 1 = ((L + 1) + y) + (p - 1)
    BY <1>1, <1>2, <1>3, <1>5, <1>8, <1>10
  <2> QED
    BY <1>2, <1>6, <2>1
<1> QED
  BY <1>9, <1>10

\* The keys of a plain name are the text from the label on, and end with one dot.
LEMMA PlainKey ==
  ASSUME NEW name \in Name, plain(name), NEW j \in 1 .. Len(name)
  PROVE  /\ key(name, j) = text(tail(name, j))
         /\ key(name, j)[Len(key(name, j)) - 1] # dot
<1>1. j \in 0 .. Len(name)
  OBVIOUS
<1>2. pad(name, j) = 0
  BY <1>1, PlainPad
<1>3. key(name, j) = text(tail(name, j))
  BY <1>2, KeyText
<1>4. tail(name, j) \in Name /\ plain(tail(name, j)) /\ tail(name, j) # <<>>
  BY PlainTail
<1>5. text(tail(name, j))[Len(text(tail(name, j))) - 1] # dot
  BY <1>4, TextLast
<1> QED
  BY <1>3, <1>5

\* A key of q that is one of its plain tail is that of the same label, and there
\* are no escapes before the tail.
LEMMA TailKey ==
  ASSUME NEW q \in Name, NEW x \in Name, NEW t \in Name, joined(q, x, t),
         x = <<>> \/ plain(t),
         NEW i \in 1 .. Len(q), NEW j \in 1 .. Len(t), key(q, i) = key(t, j)
  PROVE  i = Len(x) + j /\ pad(x, Len(x)) = 0
<1>0. /\ Len(q) = Len(x) + Len(t) /\ Len(x) \in Nat /\ Len(t) \in Nat
      /\ \A n \in 1 .. Len(t) + 1 : tail(q, Len(x) + n) = tail(t, n)
  BY CatName
<1>1. CASE x = <<>>
  <2>1. q = t /\ Len(x) = 0
    <3>1. t \in Seq(Label)
      BY DEF Name
    <3>2. <<>> \o t = t
      BY <3>1, ConcatEmptySeq
    <3> QED
      BY <1>1, <3>2 DEF joined
  <2>2. i = j
    BY <2>1, KeyOnce
  <2>3. pad(x, 0) = 0
    <3>1. plain(x) /\ 0 \in 0 .. Len(x)
      BY <1>1, <2>1 DEF plain
    <3> QED
      BY <3>1, PlainPad
  <2> QED
    BY <2>1, <2>2, <2>3
<1>2. CASE plain(t)
  <2>1. pad(q, i) = 0
    BY <1>2, PlainKey, OneDot
  <2>2. key(q, i) = text(tail(q, i))
    BY <2>1, KeyText
  <2>3. key(t, j) = text(tail(t, j))
    BY <1>2, PlainKey
  <2>4. tail(t, j) = tail(q, Len(x) + j)
    BY <1>0
  <2>5. Len(x) + j \in 1 .. Len(q) /\ i \in Nat
    BY <1>0
  <2>6. Len(text(tail(q, i))) = Len(text(tail(q, Len(x) + j)))
    BY <2>2, <2>3, <2>4
  <2>7. ~(i < Len(x) + j)
    <3> SUFFICES ASSUME i < Len(x) + j PROVE FALSE
      OBVIOUS
    <3>1. Len(x) + j \in i + 1 .. Len(q) + 1
      BY <1>0, <2>5
    <3>2. /\ Len(text(tail(q, Len(x) + j))) < Len(text(tail(q, i)))
          /\ Len(text(tail(q, i))) \in Nat
      BY <3>1, TextShrinks
    <3> QED
      BY <2>6, <3>2
  <2>8. ~(Len(x) + j < i)
    <3> SUFFICES ASSUME Len(x) + j < i PROVE FALSE
      OBVIOUS
    <3>1. i \in (Len(x) + j) + 1 .. Len(q) + 1
      BY <1>0, <2>5
    <3>2. /\ Len(text(tail(q, i))) < Len(text(tail(q, Len(x) + j)))
          /\ Len(text(tail(q, i))) \in Nat
      BY <2>5, <3>1, TextShrinks
    <3> QED
      BY <2>6, <3>2
  <2>9. i = Len(x) + j
    <3> DEFINE n == Len(x) + j
    <3>1. n \in Nat /\ i \in Nat /\ ~(i < n) /\ ~(n < i)
      BY <2>5, <2>7, <2>8
    <3> HIDE DEF n
    <3>2. i = n
      BY <3>1
    <3> QED
      BY <3>2 DEF n
  <2>10. /\ pad(q, Len(x) + j) = pad(x, Len(x)) + pad(t, j)
         /\ pad(x, Len(x)) \in Nat /\ pad(t, j) \in Nat
    BY PadCat
  <2> DEFINE a == pad(x, Len(x))
             b == pad(t, j)
  <2>11. 0 = a + b /\ a \in Nat /\ b \in Nat
    BY <2>1, <2>9, <2>10
  <2> HIDE DEF a, b
  <2>12. a = 0
    BY <2>11
  <2> QED
    BY <2>9, <2>12 DEF a
<1> QED
  BY <1>1, <1>2

\* Without escapes before a tail, its keys are keys of the whole name.
LEMMA SameKeys ==
  ASSUME NEW q \in Name, NEW x \in Name, NEW t \in Name, joined(q, x, t),
         pad(x, Len(x)) = 0, NEW j \in 1 .. Len(t)
  PROVE  key(q, Len(x) + j) = key(t, j) /\ Len(x) + j \in 1 .. Len(q)
<1>0. /\ Len(q) = Len(x) + Len(t) /\ Len(x) \in Nat /\ Len(t) \in Nat
      /\ \A n \in 1 .. Len(t) + 1 : tail(q, Len(x) + n) = tail(t, n)
  BY CatName
<1>1. Len(x) + j \in 1 .. Len(q)
  BY <1>0
<1>2. tail(q, Len(x) + j) = tail(t, j)
  BY <1>0
<1>3. /\ pad(q, Len(x) + j) = pad(x, Len(x)) + pad(t, j)
      /\ pad(t, j) \in Nat
  BY PadCat
<1>4. pad(q, Len(x) + j) = pad(t, j)
  BY <1>3
<1> DEFINE n == Len(x) + j
<1>5. n \in 1 .. Len(q) /\ tail(q, n) = tail(t, j) /\ pad(q, n) = pad(t, j)
  BY <1>1, <1>2, <1>4
<1> HIDE DEF n
<1>6. key(q, n) = key(t, j)
  BY <1>5, KeySame
<1> QED
  BY <1>1, <1>6 DEF n

\* w is called by the label l and then t
called(w, l, t) == l \in Label /\ plain(<<l>>) /\ joined(w, <<l>>, t)

\* The keys of a name server: that of its first label is longer than all others,
\* which are those of the name it serves.
LEMMA NsKeys ==
  ASSUME NEW t \in Name, NEW w \in Name, NEW l, called(w, l, t)
  PROVE  /\ Len(w) = Len(t) + 1 /\ Len(t) \in Nat /\ tail(w, 1) = w /\ w[1] = l
         /\ l \in Label /\ noDot(l) /\ Len(l) \in Nat
         /\ \A i \in 1 .. Len(t) : i + 1 \in 1 .. Len(w) /\ key(w, i + 1) = key(t, i)
         /\ \A i \in 1 .. Len(t) + 1 : tail(w, i + 1) = tail(t, i)
         /\ isKey(key(w, 1), w, 1, 0) /\ key(w, 1) = text(w) /\ pad(w, 1) = 0
         /\ Len(key(w, 1)) = (Len(l) + 1) + Len(text(t)) /\ Len(text(t)) \in Nat
         /\ \A j \in 1 .. Len(t) : key(w, 1) # key(t, j)
         /\ \A i \in 1 .. Len(t) : w[i + 1] = t[i]
<1> DEFINE h == <<l>>
<1>0. l \in Label /\ plain(h) /\ joined(w, h, t) /\ Len(h) = 1 /\ h[1] = l
  BY DEF called
<1>1. h \in Name
  BY <1>0, TextShort
<1>2. noDot(l) /\ Len(l) \in Nat
  <2>1. 1 \in 1 .. Len(h) /\ 0 \in 0 .. Len(h)
    BY <1>0
  <2>2. noDot(h[1])
    BY <1>0, <1>1, <2>1, PlainPad
  <2> QED
    BY <1>0, <2>2, LabelType
<1>3. pad(h, 1) = 0
  <2>1. 1 \in 0 .. Len(h)
    BY <1>0
  <2> QED
    BY <1>0, <1>1, <2>1, PlainPad
<1> HIDE DEF h
<1>4. /\ Len(w) = Len(h) + Len(t) /\ Len(t) \in Nat
      /\ \A i \in 1 .. Len(h) : w[i] = h[i]
      /\ \A i \in 1 .. Len(t) : w[Len(h) + i] = t[i]
      /\ \A i \in 1 .. Len(t) + 1 : tail(w, Len(h) + i) = tail(t, i)
  BY <1>0, <1>1, CatName, ZenonT(30)
<1>5. Len(w) = Len(t) + 1 /\ w[1] = l
  <2>1. 1 \in 1 .. Len(h)
    BY <1>0
  <2> QED
    BY <1>0, <1>4, <2>1
<1>6. ASSUME NEW i \in 1 .. Len(t) + 1 PROVE tail(w, i + 1) = tail(t, i)
  <2>1. Len(h) + i = i + 1
    BY <1>0
  <2> QED
    BY <1>4, <2>1
<1>7. ASSUME NEW i \in 1 .. Len(t) PROVE i + 1 \in 1 .. Len(w) /\ key(w, i + 1) = key(t, i)
  <2>1. pad(h, Len(h)) = 0
    BY <1>0, <1>3
  <2>2. key(w, Len(h) + i) = key(t, i) /\ Len(h) + i \in 1 .. Len(w)
    BY <1>0, <1>1, <2>1, SameKeys
  <2>3. Len(h) + i = i + 1
    BY <1>0
  <2> QED
    BY <2>2, <2>3
<1>8. tail(w, 1) = w
  <2>1. 1 \in 1 .. Len(w) + 1 /\ 1 \in 1 .. (Len(w) - 1) + 2
    BY <1>4, <1>5
  <2> QED
    BY <2>1, TailTail
<1>9. 1 \in 1 .. Len(w) /\ 1 \in 0 .. Len(w)
  BY <1>4, <1>5
<1>10. pad(w, 1) = 0
  <2>1. textOK(w, 1)
    BY <1>9, TextLen
  <2>2. \A i \in 1 .. 1 : noDot(w[i])
    BY <1>2, <1>5
  <2>3. Len(text(front(w, 1))) = Len(emit(w, 1)) /\ Len(emit(w, 1)) \in Nat
    BY <2>1, <2>2 DEF textOK
  <2> QED
    BY <2>3 DEF pad
<1>11. isKey(key(w, 1), w, 1, 0)
  BY <1>9, <1>10, KeyForm
<1>12. key(w, 1) = text(w)
  BY <1>8, <1>9, <1>10, KeyText
<1>13. tail(w, 2) = t
  <2>1. 1 \in 1 .. Len(t) + 1 /\ 1 + 1 = 2
    BY <1>4
  <2>2. tail(w, 1 + 1) = tail(t, 1)
    BY <1>6, <2>1
  <2>3. 1 \in 1 .. (Len(t) - 1) + 2
    BY <1>4
  <2>4. tail(t, 1) = t
    BY <2>1, <2>3, TailTail
  <2> QED
    BY <2>1, <2>2, <2>4
<1>14. Len(text(t)) \in Nat
  BY TextType
<1>15. Len(key(w, 1)) = (Len(l) + 1) + Len(text(t))
  <2>1. Len(key(w, 1)) = ((Len(w[1]) + 1) + Len(text(tail(w, 1 + 1)))) + 0
    BY <1>11 DEF isKey
  <2>2. 1 + 1 = 2
    OBVIOUS
  <2> DEFINE a == Len(l)
             b == Len(text(t))
  <2>3. Len(key(w, 1)) = ((a + 1) + b) + 0
    BY <1>5, <1>13, <2>1, <2>2
  <2>4. a \in Nat /\ b \in Nat
    BY <1>2, <1>14
  <2> HIDE DEF a, b
  <2>5. Len(key(w, 1)) = (a + 1) + b
    BY <2>3, <2>4
  <2> QED
    BY <2>5 DEF a, b
<1>16. ASSUME NEW j \in 1 .. Len(t) PROVE key(w, 1) # key(t, j)
  <2>1. Len(key(t, j)) = Len(text(t)) - Len(emit(t, j - 1))
    BY KeyForm
  <2>2. Len(emit(t, j - 1)) \in Nat
    <3>1. j - 1 \in 0 .. Len(t)
      BY <1>4
    <3> QED
      BY <3>1, Emitted DEF spelledTo
  <2> DEFINE a == Len(l)
             b == Len(text(t))
             c == Len(emit(t, j - 1))
  <2>3. /\ Len(key(t, j)) = b - c /\ Len(key(w, 1)) = (a + 1) + b
        /\ a \in Nat /\ b \in Nat /\ c \in Nat
    BY <1>2, <1>14, <1>15, <2>1, <2>2
  <2> HIDE DEF a, b, c
  <2>4. Len(key(t, j)) # Len(key(w, 1))
    BY <2>3
  <2> QED
    BY <2>4
<1>17. ASSUME NEW i \in 1 .. Len(t) PROVE w[i + 1] = t[i]
  <2>1. Len(h) + i = i + 1
    BY <1>0
  <2> QED
    BY <1>4, <2>1
<1> QED
  BY <1>0, <1>2, <1>4, <1>5, <1>6, <1>7, <1>8, <1>10, <1>11, <1>12, <1>14, <1>15, <1>16,
     <1>17

\* Name servers whose first labels have the same key are the same.
LEMMA NsOnce ==
  ASSUME NEW t \in Name, NEW v \in Name, NEW w \in Name, NEW l, called(v, l, t),
         NEW k, called(w, k, t), key(v, 1) = key(w, 1)
  PROVE  v = w
<1>1. /\ isKey(key(v, 1), v, 1, 0) /\ v[1] = l /\ l \in Label /\ Len(l) \in Nat
      /\ Len(key(v, 1)) = (Len(l) + 1) + Len(text(t)) /\ Len(text(t)) \in Nat
  BY NsKeys
<1>2. /\ isKey(key(w, 1), w, 1, 0) /\ w[1] = k /\ k \in Label /\ Len(k) \in Nat
      /\ Len(key(w, 1)) = (Len(k) + 1) + Len(text(t))
  BY NsKeys
<1>3. Len(l) = Len(k)
  <2> DEFINE a == Len(l)
             b == Len(k)
             c == Len(text(t))
             d == Len(key(v, 1))
  <2>1. a \in Nat /\ b \in Nat /\ c \in Nat /\ d = (a + 1) + c /\ d = (b + 1) + c
    BY <1>1, <1>2
  <2> HIDE DEF a, b, c, d
  <2>2. a = b
    BY <2>1
  <2> QED
    BY <2>2 DEF a, b
<1>4. ASSUME NEW j \in 1 .. Len(l) PROVE l[j] = k[j]
  <2>1. key(v, 1)[j] = l[j]
    BY <1>1 DEF isKey
  <2>2. key(w, 1)[j] = k[j]
    BY <1>2, <1>3 DEF isKey
  <2> QED
    BY <2>1, <2>2
<1>5. l = k
  <2>1. l \in Seq(Byte) /\ k \in Seq(Byte)
    BY <1>1, <1>2, LabelType
  <2> QED
    BY <1>3, <1>4, <2>1, SeqEqual
<1> QED
  BY <1>5 DEF called, joined

\* A key of q that is the one of a name server's first label is that of its
\* labels.
LEMMA NsInName ==
  ASSUME NEW q \in Name, NEW x \in Name, NEW t \in Name, joined(q, x, t),
         x = <<>> \/ plain(t), NEW w \in Name, NEW l, called(w, l, t),
         NEW i \in 1 .. Len(q), key(q, i) = key(w, 1)
  PROVE  tail(q, i) = w
<1>0. /\ Len(q) = Len(x) + Len(t) /\ Len(x) \in Nat /\ Len(t) \in Nat
      /\ \A n \in 1 .. Len(t) + 1 : tail(q, Len(x) + n) = tail(t, n)
  BY CatName
<1>1. /\ Len(w) = Len(t) + 1 /\ tail(w, 1) = w /\ w[1] = l
      /\ l \in Label /\ noDot(l) /\ Len(l) \in Nat
      /\ isKey(key(w, 1), w, 1, 0) /\ key(w, 1) = text(w)
      /\ Len(key(w, 1)) = (Len(l) + 1) + Len(text(t)) /\ Len(text(t)) \in Nat
      /\ \A j \in 1 .. Len(t) : key(w, 1) # key(t, j)
      /\ \A j \in 1 .. Len(t) : w[j + 1] = t[j]
  BY NsKeys
<1>2. CASE x = <<>>
  <2>1. q = t
    <3>1. t \in Seq(Label)
      BY DEF Name
    <3>2. <<>> \o t = t
      BY <3>1, ConcatEmptySeq
    <3> QED
      BY <1>2, <3>2 DEF joined
  <2> QED
    BY <1>1, <2>1
<1>3. CASE plain(t)
  <2>1. plain(w)
    <3>1. \A j \in DOMAIN w : \A n \in DOMAIN w[j] : w[j][n] # dot
      <4> TAKE j \in DOMAIN w
      <4> TAKE n \in DOMAIN w[j]
      <4>1. j \in 1 .. Len(t) + 1
        BY <1>1, NameType
      <4>2. CASE j = 1
        <5>1. n \in 1 .. Len(l)
          BY <1>1, <4>2, LabelType
        <5> QED
          BY <1>1, <4>2, <5>1 DEF noDot
      <4>3. CASE j # 1
        <5>1. j - 1 \in 1 .. Len(t) /\ j = 1 + (j - 1)
          BY <1>0, <4>1, <4>3
        <5>2. w[(j - 1) + 1] = t[j - 1] /\ j = (j - 1) + 1
          BY <1>1, <5>1
        <5>3. j - 1 \in DOMAIN t
          BY <5>1, NameType
        <5> QED
          BY <1>3, <5>1, <5>2, <5>3 DEF plain
      <4> QED
        BY <4>2, <4>3
    <3> QED
      BY <3>1 DEF plain
  <2>2. 1 \in 1 .. Len(w)
    BY <1>0, <1>1
  <2>3. key(w, 1)[Len(key(w, 1)) - 1] # dot
    BY <2>1, <2>2, PlainKey
  <2>4. pad(q, i) = 0
    BY <2>3, OneDot
  <2>5. isKey(key(q, i), q, i, 0) /\ noDot(q[i]) /\ q[i] \in Label /\ Len(q[i]) \in Nat
    <3>1. i \in 1 .. i
      OBVIOUS
    <3>2. isKey(key(q, i), q, i, 0) /\ noDot(q[i])
      BY <2>4, <3>1, KeyForm
    <3> QED
      BY <3>2, NameType, LabelType
  <2> DEFINE K == key(w, 1)
             m == q[i]
             T == text(tail(q, i + 1))
  <2>6. /\ Len(K) = ((Len(m) + 1) + Len(T)) + 0
        /\ \A j \in 1 .. Len(m) : K[j] = m[j]
        /\ K[Len(m) + 1] = dot
    BY <2>5 DEF isKey
  <2>7. /\ Len(K) = (Len(l) + 1) + Len(text(t))
        /\ \A j \in 1 .. Len(l) : K[j] = l[j]
        /\ K[Len(l) + 1] = dot
    BY <1>1 DEF isKey
  <2>8. Len(m) \in Nat /\ Len(l) \in Nat /\ m \in Seq(Byte) /\ l \in Seq(Byte)
        /\ noDot(m) /\ noDot(l)
    BY <1>1, <2>5, LabelType
  <2>9. Len(T) \in Nat /\ Len(text(t)) \in Nat
    BY HeadTail, TextType
  <2>10. tail(q, i) = <<m>> \o tail(q, i + 1)
    BY HeadTail
  <2> HIDE DEF K, m, T
  <2>11. ~(Len(m) < Len(l))
    <3> SUFFICES ASSUME Len(m) < Len(l) PROVE FALSE
      OBVIOUS
    <3>1. Len(m) + 1 \in 1 .. Len(l)
      BY <2>8
    <3> QED
      BY <2>6, <2>7, <2>8, <3>1 DEF noDot
  <2>12. ~(Len(l) < Len(m))
    <3> SUFFICES ASSUME Len(l) < Len(m) PROVE FALSE
      OBVIOUS
    <3>1. Len(l) + 1 \in 1 .. Len(m)
      BY <2>8
    <3> QED
      BY <2>6, <2>7, <2>8, <3>1 DEF noDot
  <2>13. Len(m) = Len(l)
    BY <2>8, <2>11, <2>12
  <2>14. m = l
    <3>1. \A j \in 1 .. Len(m) : m[j] = l[j]
      BY <2>6, <2>7, <2>13
    <3> QED
      BY <2>8, <2>13, <3>1, SeqEqual
  <2>15. Len(T) = Len(text(t))
    <3> DEFINE a == Len(K)
               b == Len(l)
               c == Len(T)
               d == Len(text(t))
    <3>1. a = ((b + 1) + c) + 0 /\ a = (b + 1) + d /\ b \in Nat /\ c \in Nat /\ d \in Nat
      BY <2>6, <2>7, <2>8, <2>9, <2>13
    <3> HIDE DEF a, b, c, d
    <3>2. c = d
      BY <3>1
    <3> QED
      BY <3>2 DEF c, d
  <2>16. t = tail(q, Len(x) + 1)
    <3>1. 1 \in 1 .. Len(t) + 1 /\ 1 \in 1 .. (Len(t) - 1) + 2
      BY <1>0
    <3>2. tail(t, 1) = t
      BY <3>1, TailTail
    <3> QED
      BY <1>0, <3>1, <3>2
  <2>17. Len(text(tail(q, i + 1))) = Len(text(tail(q, Len(x) + 1)))
    BY <2>15, <2>16 DEF T
  <2>18. ~(i + 1 < Len(x) + 1)
    <3> SUFFICES ASSUME i + 1 < Len(x) + 1 PROVE FALSE
      OBVIOUS
    <3>1. i + 1 \in 1 .. Len(q) /\ Len(x) + 1 \in (i + 1) + 1 .. Len(q) + 1
      BY <1>0
    <3>2. /\ Len(text(tail(q, Len(x) + 1))) < Len(text(tail(q, i + 1)))
          /\ Len(text(tail(q, i + 1))) \in Nat
      BY <3>1, TextShrinks
    <3> QED
      BY <2>17, <3>2
  <2>19. ~(Len(x) + 1 < i + 1)
    <3> SUFFICES ASSUME Len(x) + 1 < i + 1 PROVE FALSE
      OBVIOUS
    <3>1. Len(x) + 1 \in 1 .. Len(q) /\ i + 1 \in (Len(x) + 1) + 1 .. Len(q) + 1
      BY <1>0
    <3>2. /\ Len(text(tail(q, i + 1))) < Len(text(tail(q, Len(x) + 1)))
          /\ Len(text(tail(q, i + 1))) \in Nat
      BY <3>1, TextShrinks
    <3> QED
      BY <2>17, <3>2
  <2>20. i + 1 = Len(x) + 1
    BY <1>0, <2>18, <2>19
  <2>21. tail(q, i) = <<l>> \o t
    BY <2>10, <2>14, <2>16, <2>20
  <2>22. w = <<l>> \o t
    BY DEF called, joined
  <2> QED
    BY <2>21, <2>22
<1> QED
  BY <1>2, <1>3

\* A label of a name server is its first or one of the name it serves.
LEMMA NsLabel ==
  ASSUME NEW t \in Name, NEW w \in Name, NEW l, called(w, l, t), NEW j \in 1 .. Len(w)
  PROVE  \/ j = 1
         \/ \E n \in 1 .. Len(t) : j = n + 1 /\ key(w, j) = key(t, n) /\ tail(w, j) = tail(t, n)
<1>1. /\ Len(w) = Len(t) + 1 /\ Len(t) \in Nat
      /\ \A i \in 1 .. Len(t) : key(w, i + 1) = key(t, i)
      /\ \A i \in 1 .. Len(t) + 1 : tail(w, i + 1) = tail(t, i)
  BY NsKeys
<1>2. SUFFICES ASSUME j # 1
               PROVE  \E n \in 1 .. Len(t) : j = n + 1 /\ key(w, j) = key(t, n)
                                             /\ tail(w, j) = tail(t, n)
  OBVIOUS
<1>3. j - 1 \in 1 .. Len(t) /\ j = (j - 1) + 1 /\ j - 1 \in 1 .. Len(t) + 1
  BY <1>1, <1>2
<1>4. key(w, (j - 1) + 1) = key(t, j - 1) /\ tail(w, (j - 1) + 1) = tail(t, j - 1)
  BY <1>1, <1>3
<1> QED
  BY <1>3, <1>4

\* the names in a reply that are packed with pointers
relevant(w, q, t) == w = q \/ \E l : called(w, l, t)

\* The same key stands for the same labels, of the question and of its name
\* servers.
LEMMA Faithful ==
  ASSUME NEW q \in Name, NEW x \in Name, NEW t \in Name, joined(q, x, t),
         x = <<>> \/ plain(t),
         NEW v \in Name, relevant(v, q, t), NEW w \in Name, relevant(w, q, t),
         NEW i \in 1 .. Len(v), NEW j \in 1 .. Len(w), key(v, i) = key(w, j)
  PROVE  tail(v, i) = tail(w, j)
<1>0. /\ Len(x) \in Nat /\ Len(t) \in Nat
      /\ \A n \in 1 .. Len(t) + 1 : tail(q, Len(x) + n) = tail(t, n)
  BY CatName
<1>1. ASSUME NEW u \in Name, NEW l, called(u, l, t), NEW a \in 1 .. Len(q),
             NEW b \in 1 .. Len(u), key(q, a) = key(u, b)
      PROVE  tail(q, a) = tail(u, b)
  <2>1. CASE b = 1
    <3>1. tail(q, a) = u
      BY <1>1, <2>1, NsInName
    <3>2. tail(u, 1) = u
      BY <1>1, NsKeys
    <3> QED
      BY <2>1, <3>1, <3>2
  <2>2. CASE b # 1
    <3>1. PICK n \in 1 .. Len(t) : key(u, b) = key(t, n) /\ tail(u, b) = tail(t, n)
      BY <1>1, <2>2, NsLabel
    <3>2. key(q, a) = key(t, n)
      BY <1>1, <3>1
    <3>3. a = Len(x) + n
      BY <3>2, TailKey
    <3>4. n \in 1 .. Len(t) + 1
      BY <1>0
    <3> QED
      BY <1>0, <3>1, <3>3, <3>4
  <2> QED
    BY <2>1, <2>2
<1>2. CASE v = q /\ w = q
  BY <1>2, KeyOnce
<1>3. CASE v = q /\ w # q
  <2>1. PICK l : called(w, l, t)
    BY <1>3 DEF relevant
  <2> QED
    BY <1>1, <1>3, <2>1
<1>4. CASE v # q /\ w = q
  <2>1. PICK l : called(v, l, t)
    BY <1>4 DEF relevant
  <2> QED
    BY <1>1, <1>4, <2>1
<1>5. CASE v # q /\ w # q
  <2>1. PICK l : called(v, l, t)
    BY <1>5 DEF relevant
  <2>2. PICK k : called(w, k, t)
    BY <1>5 DEF relevant
  <2>3. /\ tail(v, 1) = v /\ \A n \in 1 .. Len(t) : key(v, 1) # key(t, n)
    BY <2>1, NsKeys
  <2>4. /\ tail(w, 1) = w /\ \A n \in 1 .. Len(t) : key(w, 1) # key(t, n)
    BY <2>2, NsKeys
  <2>5. \/ i = 1
        \/ \E n \in 1 .. Len(t) : key(v, i) = key(t, n) /\ tail(v, i) = tail(t, n)
    BY <2>1, NsLabel
  <2>6. \/ j = 1
        \/ \E n \in 1 .. Len(t) : key(w, j) = key(t, n) /\ tail(w, j) = tail(t, n)
    BY <2>2, NsLabel
  <2>7. CASE i = 1 /\ j = 1
    BY <2>1, <2>2, <2>3, <2>4, <2>7, NsOnce
  <2>8. CASE i = 1 /\ j # 1
    BY <2>3, <2>6, <2>8
  <2>9. CASE i # 1 /\ j = 1
    BY <2>4, <2>5, <2>9
  <2>10. CASE i # 1 /\ j # 1
    <3>1. PICK a \in 1 .. Len(t) : key(v, i) = key(t, a) /\ tail(v, i) = tail(t, a)
      BY <2>5, <2>10
    <3>2. PICK b \in 1 .. Len(t) : key(w, j) = key(t, b) /\ tail(w, j) = tail(t, b)
      BY <2>6, <2>10
    <3>3. a = b
      BY <3>1, <3>2, KeyOnce
    <3> QED
      BY <3>1, <3>2, <3>3
  <2> QED
    BY <2>7, <2>8, <2>9, <2>10
<1> QED
  BY <1>2, <1>3, <1>4, <1>5

-----------------------------------------------------------------------------
(* Names in a message.                                                     *)

\* the first n labels of w are in m from offset o up to offset e
Labels(m, o, w, n, e) ==
  \E pos \in [0 .. n -> Nat] :
    /\ pos[0] = o /\ pos[n] = e
    /\ \A j \in 1 .. n :
         /\ LabelAt(m, pos[j - 1], w[j]) /\ Len(w[j]) < B \div 4
         /\ pos[j] = (pos[j - 1] + 1) + Len(w[j])

\* the offset in the pointer at offset z
pointed(m, z) == (m[z + 1] - 3 * (B \div 4)) * B + m[z + 2]

\* w is at offset o and ends before offset e: with a zero, or behind its first
\* i labels with a pointer to the others, which are in G
Direct(m, o, w, e) ==
  \E z \in Nat : Labels(m, o, w, Len(w), z) /\ z < Len(m) /\ m[z + 1] = 0 /\ e = z + 1
Via(m, o, w, i, e, G) ==
  \E z \in Nat :
    /\ Labels(m, o, w, i, z) /\ z + 1 < Len(m) /\ m[z + 1] >= 3 * (B \div 4)
    /\ e = z + 2 /\ <<pointed(m, z), tail(w, i + 1)>> \in G
At(m, o, w, e, G) ==
  Direct(m, o, w, e) \/ \E i \in 0 .. Len(w) - 1 : Via(m, o, w, i, e, G)

\* the names at their offsets that are read along d pointers at most
near(m) == {g \in Nat \X Name : \E e \in Nat : At(m, g[1], g[2], e, {})}
near2(m) == {g \in Nat \X Name : \E e \in Nat : At(m, g[1], g[2], e, near(m))}
reach(m, d) == IF d = 0 THEN {} ELSE IF d = 1 THEN near(m) ELSE near2(m)

\* m2 goes on behind m
extends(m, m2) ==
  /\ m \in Seq(Byte) /\ m2 \in Seq(Byte) /\ Len(m) <= Len(m2)
  /\ \A i \in 1 .. Len(m) : m2[i] = m[i]

\* What is written stays where it is.
LEMMA LabelsStay ==
  ASSUME NEW m, NEW m2, extends(m, m2), NEW o, NEW w \in Name, NEW n \in 0 .. Len(w), NEW e,
         Labels(m, o, w, n, e)
  PROVE  Labels(m2, o, w, n, e)
<1>0. /\ Len(m) \in Nat /\ Len(m2) \in Nat /\ Len(m) <= Len(m2)
      /\ \A i \in 1 .. Len(m) : m2[i] = m[i]
  BY DEF extends
<1>1. PICK pos \in [0 .. n -> Nat] :
        /\ pos[0] = o /\ pos[n] = e
        /\ \A j \in 1 .. n :
             /\ LabelAt(m, pos[j - 1], w[j]) /\ Len(w[j]) < B \div 4
             /\ pos[j] = (pos[j - 1] + 1) + Len(w[j])
  BY DEF Labels
<1>2. ASSUME NEW j \in 1 .. n PROVE LabelAt(m2, pos[j - 1], w[j])
  <2> DEFINE p == pos[j - 1]
             l == w[j]
  <2>1. p \in Nat /\ LabelAt(m, p, l)
    <3>1. j - 1 \in 0 .. n
      OBVIOUS
    <3> QED
      BY <1>1, <3>1
  <2>2. Len(l) \in Nat
    BY NameType, LabelType
  <2> HIDE DEF p, l
  <2>3. /\ p + 1 + Len(l) <= Len(m) /\ m[p + 1] = Len(l)
        /\ \A k \in 1 .. Len(l) : m[p + 1 + k] = l[k]
    BY <2>1 DEF LabelAt
  <2>4. p + 1 \in 1 .. Len(m) /\ \A k \in 1 .. Len(l) : p + 1 + k \in 1 .. Len(m)
    BY <1>0, <2>1, <2>2, <2>3
  <2>5. /\ m2[p + 1] = Len(l) /\ \A k \in 1 .. Len(l) : m2[p + 1 + k] = l[k]
    BY <1>0, <2>3, <2>4
  <2>6. p + 1 + Len(l) <= Len(m2)
    BY <1>0, <2>1, <2>2, <2>3
  <2>7. LabelAt(m2, p, l)
    BY <2>5, <2>6 DEF LabelAt
  <2> QED
    BY <2>7 DEF p, l
<1> QED
  BY <1>1, <1>2 DEF Labels

\* So do names.
LEMMA AtStays ==
  ASSUME NEW m, NEW m2, extends(m, m2), NEW o, NEW w \in Name, NEW e, NEW G, NEW H,
         G \subseteq H, At(m, o, w, e, G)
  PROVE  At(m2, o, w, e, H)
<1>0. /\ Len(m) \in Nat /\ Len(m2) \in Nat /\ Len(m) <= Len(m2) /\ Len(w) \in Nat
      /\ \A i \in 1 .. Len(m) : m2[i] = m[i]
  BY NameType DEF extends
<1>1. CASE Direct(m, o, w, e)
  <2>1. PICK z \in Nat :
          Labels(m, o, w, Len(w), z) /\ z < Len(m) /\ m[z + 1] = 0 /\ e = z + 1
    BY <1>1 DEF Direct
  <2>2. z + 1 \in 1 .. Len(m) /\ z < Len(m2) /\ Len(w) \in 0 .. Len(w)
    BY <1>0, <2>1
  <2>3. Labels(m2, o, w, Len(w), z)
    BY <2>1, <2>2, LabelsStay
  <2>4. m2[z + 1] = 0
    BY <1>0, <2>1, <2>2
  <2>5. Direct(m2, o, w, e)
    BY <2>1, <2>2, <2>3, <2>4 DEF Direct
  <2> QED
    BY <2>5 DEF At
<1>2. CASE \E i \in 0 .. Len(w) - 1 : Via(m, o, w, i, e, G)
  <2>0. PICK i \in 0 .. Len(w) - 1 : Via(m, o, w, i, e, G)
    BY <1>2
  <2>1. PICK z \in Nat :
          /\ Labels(m, o, w, i, z) /\ z + 1 < Len(m) /\ m[z + 1] >= 3 * (B \div 4)
          /\ e = z + 2 /\ <<pointed(m, z), tail(w, i + 1)>> \in G
    BY <2>0 DEF Via
  <2>2. /\ z + 1 \in 1 .. Len(m) /\ z + 2 \in 1 .. Len(m) /\ z + 1 < Len(m2)
        /\ i \in 0 .. Len(w)
    BY <1>0, <2>1
  <2>3. Labels(m2, o, w, i, z)
    BY <2>1, <2>2, LabelsStay
  <2>4. m2[z + 1] = m[z + 1] /\ m2[z + 2] = m[z + 2]
    BY <1>0, <2>2
  <2>5. pointed(m2, z) = pointed(m, z)
    BY <2>4 DEF pointed
  <2>6. <<pointed(m2, z), tail(w, i + 1)>> \in H
    BY <2>1, <2>5
  <2>7. Via(m2, o, w, i, e, H)
    BY <2>1, <2>2, <2>3, <2>4, <2>6 DEF Via
  <2> QED
    BY <2>7 DEF At
<1> QED
  BY <1>1, <1>2 DEF At

\* What is read along pointers stays, and more pointers do not harm.
LEMMA NearStays ==
  ASSUME NEW m, NEW m2, extends(m, m2)
  PROVE  near(m) \subseteq near(m2) /\ near2(m) \subseteq near2(m2)
<1>1. ASSUME NEW g \in near(m) PROVE g \in near(m2)
  <2>1. g \in Nat \X Name /\ g[2] \in Name
    BY DEF near
  <2>2. PICK e \in Nat : At(m, g[1], g[2], e, {})
    BY DEF near
  <2>3. At(m2, g[1], g[2], e, {})
    <3> DEFINE a == g[1]
               w == g[2]
               G == {}
    <3>1. w \in Name /\ At(m, a, w, e, G) /\ G \subseteq G
      BY <2>1, <2>2
    <3> HIDE DEF a, w, G
    <3>2. At(m2, a, w, e, G)
      BY <3>1, AtStays
    <3> QED
      BY <3>2 DEF a, w, G
  <2> QED
    BY <2>1, <2>3 DEF near
<1>2. near(m) \subseteq near(m2)
  BY <1>1
<1>3. ASSUME NEW g \in near2(m) PROVE g \in near2(m2)
  <2>1. g \in Nat \X Name /\ g[2] \in Name
    BY DEF near2
  <2>2. PICK e \in Nat : At(m, g[1], g[2], e, near(m))
    BY DEF near2
  <2>3. At(m2, g[1], g[2], e, near(m2))
    <3> DEFINE a == g[1]
               w == g[2]
               G == near(m)
               H == near(m2)
    <3>1. w \in Name /\ At(m, a, w, e, G) /\ G \subseteq H
      BY <1>2, <2>1, <2>2
    <3> HIDE DEF a, w, G, H
    <3>2. At(m2, a, w, e, H)
      BY <3>1, AtStays
    <3> QED
      BY <3>2 DEF a, w, H
  <2> QED
    BY <2>1, <2>3 DEF near2
<1> QED
  BY <1>2, <1>3

\* The labels that are emitted for a name are in the message.
LEMMA Written ==
  ASSUME NEW w \in Name, legal(w), NEW n \in 0 .. Len(w), NEW at \in Nat,
         NEW m \in Seq(Byte), at + Len(emit(w, n)) <= Len(m),
         \A i \in 1 .. Len(emit(w, n)) : m[at + i] = emit(w, n)[i],
         NEW k \in 0 .. n
  PROVE  Labels(m, at + Len(emit(w, k)), tail(w, k + 1), n - k, at + Len(emit(w, n)))
<1> DEFINE E(j) == Len(emit(w, j))
           x == emit(w, n)
           y == tail(w, k + 1)
           pos == [j \in 0 .. n - k |-> at + E(k + j)]
<1>0. Len(w) \in Nat /\ k \in 0 .. Len(w) /\ Len(m) \in Nat
  BY NameType
<1>1. spelledTo(w, n)
  BY Emitted
<1>2. \A j \in 0 .. n - k : k + j \in 0 .. Len(w) /\ k + j \in Nat
  BY <1>0
<1>3. \A j \in 0 .. Len(w) : E(j) \in Nat
  BY Emitted DEF spelledTo
<1>4. pos \in [0 .. n - k -> Nat]
  <2> HIDE DEF E
  <2>1. \A j \in 0 .. n - k : at + E(k + j) \in Nat
    BY <1>2, <1>3
  <2> QED
    BY <2>1
<1>5. pos[0] = at + E(k) /\ pos[n - k] = at + E(n)
  <2>1. 0 \in 0 .. n - k /\ n - k \in 0 .. n - k /\ k + 0 = k /\ k + (n - k) = n
    BY <1>0
  <2> HIDE DEF E
  <2> QED
    BY <2>1
<1>6. ASSUME NEW j \in 1 .. n - k
      PROVE  /\ LabelAt(m, pos[j - 1], y[j]) /\ Len(y[j]) < B \div 4
             /\ pos[j] = (pos[j - 1] + 1) + Len(y[j])
  <2> DEFINE h == k + j
             l == w[h]
             a == E(h - 1)
  <2>1. /\ h \in 1 .. n /\ h \in 1 .. Len(w) /\ h - 1 \in 0 .. Len(w) /\ k + (j - 1) = h - 1
        /\ j - 1 \in 0 .. n - k /\ j \in 0 .. n - k /\ j \in 1 .. Len(w) - k
    BY <1>0
  <2>2. y[j] = l
    BY <1>0, <2>1, Split
  <2>3. l \in Label /\ Len(l) \in Nat
    BY <2>1, NameType, LabelType
  <2>4. Len(l) < B \div 4
    BY <2>1 DEF legal
  <2>5. LabelAt(x, a, l) /\ a \in Nat /\ E(h) = a + 1 + Len(l)
    BY <1>1, <2>1 DEF spelledTo
  <2>6. pos[j - 1] = at + a /\ pos[j] = at + E(h)
    BY <2>1
  <2>7. x \in Seq(Nat) /\ Len(x) \in Nat
    BY <1>1 DEF spelledTo
  <2>8. at + Len(x) <= Len(m) /\ \A i \in 1 .. Len(x) : m[at + i] = x[i]
    OBVIOUS
  <2>9. E(h) \in Nat
    BY <1>3, <2>1
  <2> DEFINE g == E(h)
             p == pos[j - 1]
             b == pos[j]
  <2>10. p = at + a /\ b = at + g /\ g = a + 1 + Len(l) /\ g \in Nat
    BY <2>5, <2>6, <2>9
  <2> HIDE DEF E, x, y, pos, h, l, a, g, p, b
  <2>11. /\ a + 1 + Len(l) <= Len(x) /\ x[a + 1] = Len(l)
         /\ \A i \in 1 .. Len(l) : x[a + 1 + i] = l[i]
    BY <2>5 DEF LabelAt
  <2>12. a + 1 \in 1 .. Len(x) /\ \A i \in 1 .. Len(l) : a + 1 + i \in 1 .. Len(x)
    <3>1. Len(l) \in Nat /\ a \in Nat /\ Len(x) \in Nat /\ a + 1 + Len(l) <= Len(x)
      BY <2>3, <2>5, <2>7, <2>11
    <3> QED
      BY ONLY <3>1
  <2>13. m[at + (a + 1)] = Len(l) /\ \A i \in 1 .. Len(l) : m[at + (a + 1 + i)] = l[i]
    BY <2>8, <2>11, <2>12
  <2>14. p + 1 = at + (a + 1) /\ \A i \in 1 .. Len(l) : p + 1 + i = at + (a + 1 + i)
    BY <2>3, <2>5, <2>10
  <2>15. p + 1 + Len(l) <= Len(m)
    BY <1>0, <2>3, <2>5, <2>7, <2>8, <2>10, <2>11
  <2>16. LabelAt(m, p, l)
    BY <2>13, <2>14, <2>15 DEF LabelAt
  <2>17. b = (p + 1) + Len(l)
    BY <2>3, <2>5, <2>10
  <2> QED
    BY <2>2, <2>4, <2>16, <2>17 DEF p, b
<1> HIDE DEF pos, y
<1>7. Labels(m, at + E(k), y, n - k, at + E(n))
  BY <1>4, <1>5, <1>6 DEF Labels
<1> QED
  BY <1>7 DEF y

\* What packDomainName writes.
LEMMA PackCells ==
  ASSUME NEW w \in Name, NEW compress \in BOOLEAN, NEW at \in Nat, NEW known
  PROVE  packDomainName(w, compress, at, known).cells =
           emit(w, hit(w, compress, known) - 1) \o ending(w, hit(w, compress, known), known)
BY DEF packDomainName, ending

\* the cells c are in m from an offset up to e
holds(m, at, c, e) ==
  /\ m \in Seq(Byte) /\ Len(c) \in Nat /\ e = at + Len(c) /\ e <= Len(m)
  /\ \A i \in 1 .. Len(c) : m[at + i] = c[i]

\* So is the name, from each of its labels up to the one where a pointer takes
\* over, if the pointer leads to the others.
LEMMA PackAt ==
  ASSUME NEW w \in Name, legal(w), NEW compress \in BOOLEAN, NEW at \in Nat, NEW known,
         NEW N, pointers(known, N),
         NEW n, n = hit(w, compress, known),
         NEW c, c = packDomainName(w, compress, at, known).cells,
         NEW m, NEW f, holds(m, at, c, f),
         NEW G, n <= Len(w) => <<known[key(w, n)], tail(w, n)>> \in G,
         NEW k \in 0 .. n - 1
  PROVE  At(m, at + Len(emit(w, k)), tail(w, k + 1), f, G)
<1>0. m \in Seq(Byte) /\ Len(c) \in Nat /\ f = at + Len(c) /\ at + Len(c) <= Len(m)
  BY DEF holds
<1>a. \A i \in 1 .. Len(c) : m[at + i] = c[i]
  BY DEF holds
<1> USE <1>0
<1> SUFFICES At(m, at + Len(emit(w, k)), tail(w, k + 1), at + Len(c), G)
  OBVIOUS
<1> DEFINE L == Len(w)
           e == emit(w, n - 1)
           z == ending(w, n, known)
           a == Len(e)
           o == at + Len(emit(w, k))
           v == tail(w, k + 1)
           j == (n - 1) - k
<1>1. n \in 1 .. L + 1 /\ (n <= L => key(w, n) \in DOMAIN known) /\ L \in Nat
  BY Hit, NameType DEF isHit
<1>2. c = e \o z
  <2> DEFINE h == hit(w, compress, known)
  <2>1. packDomainName(w, compress, at, known).cells = emit(w, h - 1) \o ending(w, h, known)
    BY PackCells
  <2>2. n = h
    OBVIOUS
  <2> HIDE DEF h
  <2> QED
    BY <2>1, <2>2
<1>3. n - 1 \in 0 .. L /\ k \in 0 .. n - 1 /\ k \in 0 .. L /\ n \in Nat /\ k \in Nat
      /\ j \in Nat
  BY <1>1
<1>4. e \in Seq(Byte)
  BY <1>3, EmitBytes
<1>5. v \in Name /\ Len(v) = L - k
  BY <1>3, Split
<1>6. at + Len(c) <= Len(m) /\ Len(m) \in Nat
  OBVIOUS
<1>7. ASSUME z \in Seq(Byte)
      PROVE  /\ Len(c) = a + Len(z) /\ a \in Nat /\ Len(z) \in Nat
             /\ Labels(m, o, v, j, at + a)
             /\ \A i \in 1 .. Len(z) : m[(at + a) + i] = z[i]
  <2> HIDE DEF e, z
  <2>1. /\ Len(c) = a + Len(z) /\ a \in Nat /\ Len(z) \in Nat
        /\ \A i \in 1 .. a : c[i] = e[i]
        /\ \A i \in 1 .. Len(z) : c[a + i] = z[i]
    BY <1>2, <1>4, <1>7, TwoParts
  <2> HIDE DEF a
  <2>2. \A i \in 1 .. a : i \in 1 .. Len(c)
    BY <2>1
  <2>3. \A i \in 1 .. a : m[at + i] = e[i]
    BY <1>a, <2>1, <2>2
  <2>4. at + a <= Len(m)
    BY <1>6, <2>1
  <2>5. Labels(m, o, v, j, at + a)
    BY <1>3, <2>3, <2>4, Written DEF a, e
  <2>6. \A i \in 1 .. Len(z) : a + i \in 1 .. Len(c) /\ at + (a + i) = (at + a) + i
    <3>1. at \in Nat /\ a \in Nat /\ Len(z) \in Nat /\ Len(c) = a + Len(z)
      BY <2>1
    <3> QED
      BY ONLY <3>1
  <2>7. \A i \in 1 .. Len(z) : m[(at + a) + i] = z[i]
    BY <1>a, <2>1, <2>6
  <2> QED
    BY <2>1, <2>5, <2>7
<1>8. CASE n > L
  <2>0. n = L + 1
    BY ONLY <1>1, <1>8
  <2>a. z = <<0>>
    BY <1>8 DEF ending
  <2>b. j = Len(v)
    BY ONLY <2>0, <1>1, <1>3, <1>5
  <2>c. 0 \in Byte
    BY ByteType
  <2>1. z = <<0>> /\ j = Len(v) /\ 0 \in Byte
    BY ONLY <2>a, <2>b, <2>c
  <2>2. z \in Seq(Byte) /\ Len(z) = 1 /\ z[1] = 0
    BY <2>1
  <2>3. /\ Len(c) = a + 1 /\ a \in Nat /\ Labels(m, o, v, Len(v), at + a)
        /\ m[(at + a) + 1] = 0
    BY <1>7, <2>1, <2>2
  <2> HIDE DEF a, o, v
  <2>4. at + a \in Nat /\ at + a < Len(m) /\ at + Len(c) = (at + a) + 1
    <3>1. at \in Nat /\ a \in Nat /\ Len(c) = a + 1
      BY <2>3
    <3> QED
      BY ONLY <1>6, <3>1
  <2>5. Direct(m, o, v, at + Len(c))
    BY <2>3, <2>4 DEF Direct
  <2>6. At(m, o, v, at + Len(c), G)
    BY <2>5 DEF At
  <2> QED
    BY <2>6 DEF o, v
<1>9. CASE ~(n > L)
  <2> DEFINE p == known[key(w, n)]
             Q == B \div 4
             b == p \div B
             d == p % B
  <2>1. n <= L /\ key(w, n) \in DOMAIN known
    BY <1>1, <1>9
  <2>2. p \in Nat /\ p < maxCompressionOffset
    <3>1. Header \in Nat
      BY WireAssumption
    <3> QED
      BY <2>1, <3>1 DEF pointers
  <2>3. z = <<(3 * (B \div 4) + p \div B) % B, p % B>>
    BY <1>9 DEF ending
  <2>a. <<p, tail(w, n)>> \in G
    BY <2>1
  <2> HIDE DEF p
  <2>4. /\ (3 * Q + b) % B = 3 * Q + b /\ 3 * Q + b \in Byte /\ d \in Byte
        /\ p = b * B + d /\ b \in Nat /\ d \in Nat
    BY <2>2, PointerCells
  <2>5. Q \in Nat /\ B \in Nat
    BY Quarter
  <2>6. z = <<3 * Q + b, d>>
    BY <2>3, <2>4
  <2> HIDE DEF Q, b, d, z
  <2>7. z \in Seq(Byte) /\ Len(z) = 2 /\ z[1] = 3 * Q + b /\ z[2] = d
    BY <2>4, <2>6
  <2>8. /\ Len(c) = a + 2 /\ a \in Nat /\ Labels(m, o, v, j, at + a)
        /\ m[(at + a) + 1] = 3 * Q + b /\ m[(at + a) + 2] = d
    BY <1>7, <2>7
  <2> HIDE DEF a
  <2>9. /\ at + a \in Nat /\ (at + a) + 1 < Len(m) /\ at + Len(c) = (at + a) + 2
        /\ j \in 0 .. Len(v) - 1
    <3>1. at + a \in Nat /\ (at + a) + 1 < Len(m) /\ at + Len(c) = (at + a) + 2
      <4> DEFINE x == Len(c)
                 y == Len(m)
      <4>1. x = a + 2 /\ a \in Nat /\ at \in Nat /\ at + x <= y /\ y \in Nat
        BY <1>6, <2>8
      <4> HIDE DEF x, y
      <4>2. at + a \in Nat /\ (at + a) + 1 < y /\ at + x = (at + a) + 2
        BY ONLY <4>1
      <4> QED
        BY <4>2 DEF x, y
    <3>2. /\ n \in Nat /\ k \in Nat /\ L \in Nat /\ n <= L /\ (n - 1) - k \in Nat
          /\ Len(v) = L - k
      BY <1>1, <1>3, <1>5, <2>1
    <3> HIDE DEF L, v
    <3>3. (n - 1) - k \in 0 .. Len(v) - 1
      BY ONLY <3>2
    <3> QED
      BY <3>1, <3>3
  <2>10. m[(at + a) + 1] >= 3 * Q
    BY <2>4, <2>5, <2>8
  <2>11. pointed(m, at + a) = p
    <3>1. (3 * Q + b) - 3 * Q = b
      BY <2>4, <2>5
    <3>2. pointed(m, at + a) = ((3 * Q + b) - 3 * Q) * B + d
      BY <2>8 DEF pointed, Q
    <3> QED
      BY <2>4, <3>1, <3>2
  <2>12. tail(v, j + 1) = tail(w, n)
    <3>1. /\ k + 1 \in 1 .. Len(w) + 1 /\ j + 1 \in 1 .. Len(w) - (k + 1) + 2
          /\ ((k + 1) + (j + 1)) - 1 = n
      <4>1. /\ n \in Nat /\ k \in Nat /\ L \in Nat /\ n <= L /\ (n - 1) - k \in Nat
        BY <1>1, <1>3, <2>1
      <4> HIDE DEF L
      <4>2. /\ k + 1 \in 1 .. L + 1 /\ ((n - 1) - k) + 1 \in 1 .. L - (k + 1) + 2
            /\ ((k + 1) + (((n - 1) - k) + 1)) - 1 = n
        BY ONLY <4>1
      <4> QED
        BY <4>2 DEF L
    <3>2. tail(tail(w, k + 1), j + 1) = tail(w, ((k + 1) + (j + 1)) - 1)
      BY <3>1, TailTail
    <3> QED
      BY <3>1, <3>2
  <2>b. m[(at + a) + 1] >= 3 * (B \div 4)
    BY <2>10 DEF Q
  <2> DEFINE y == at + a
             fin == at + Len(c)
  <2>13. /\ y \in Nat /\ Labels(m, o, v, j, y) /\ y + 1 < Len(m)
         /\ m[y + 1] >= 3 * (B \div 4) /\ fin = y + 2
         /\ <<pointed(m, y), tail(v, j + 1)>> \in G
    BY <2>a, <2>8, <2>9, <2>b, <2>11, <2>12
  <2> HIDE DEF y, fin, o, v, j
  <2>14. Via(m, o, v, j, fin, G)
    BY <2>13 DEF Via
  <2>15. At(m, o, v, fin, G)
    BY <2>9, <2>14 DEF At
  <2> QED
    BY <2>15 DEF fin, o, v
<1> QED
  BY <1>8, <1>9

\* The first of several labels, and those behind it.
LEMMA LabelsStep ==
  ASSUME NEW m, NEW o, NEW w \in Name, NEW n \in 1 .. Len(w), NEW z, Labels(m, o, w, n, z)
  PROVE  /\ LabelAt(m, o, w[1]) /\ Len(w[1]) < B \div 4
         /\ Labels(m, (o + 1) + Len(w[1]), tail(w, 2), n - 1, z)
<1>0. Len(w) \in Nat /\ n \in Nat /\ 1 \in 0 .. Len(w) /\ 1 + 1 = 2
  BY NameType
<1>1. PICK pos \in [0 .. n -> Nat] :
        /\ pos[0] = o /\ pos[n] = z
        /\ \A j \in 1 .. n :
             /\ LabelAt(m, pos[j - 1], w[j]) /\ Len(w[j]) < B \div 4
             /\ pos[j] = (pos[j - 1] + 1) + Len(w[j])
  BY DEF Labels
<1>2. 1 \in 1 .. n /\ 1 - 1 = 0
  BY <1>0
<1>3. /\ LabelAt(m, o, w[1]) /\ Len(w[1]) < B \div 4 /\ pos[1] = (o + 1) + Len(w[1])
  BY <1>1, <1>2
<1> DEFINE p == [j \in 0 .. n - 1 |-> pos[j + 1]]
           y == tail(w, 2)
<1>4. p \in [0 .. n - 1 -> Nat]
  <2>1. \A j \in 0 .. n - 1 : j + 1 \in 0 .. n
    BY <1>0
  <2> QED
    BY <1>1, <2>1
<1>5. p[0] = pos[1] /\ p[n - 1] = z
  <2>1. 0 \in 0 .. n - 1 /\ n - 1 \in 0 .. n - 1 /\ 0 + 1 = 1 /\ (n - 1) + 1 = n
    BY <1>0
  <2> QED
    BY <1>1, <2>1
<1>6. \A j \in 1 .. Len(w) - 1 : y[j] = w[1 + j]
  BY <1>0, Split
<1>7. ASSUME NEW j \in 1 .. n - 1
      PROVE  /\ LabelAt(m, p[j - 1], y[j]) /\ Len(y[j]) < B \div 4
             /\ p[j] = (p[j - 1] + 1) + Len(y[j])
  <2>1. /\ j \in 1 .. Len(w) - 1 /\ 1 + j \in 1 .. n /\ (1 + j) - 1 = j
        /\ j - 1 \in 0 .. n - 1 /\ (j - 1) + 1 = j /\ j \in 0 .. n - 1 /\ j + 1 = 1 + j
    BY <1>0
  <2>2. p[j - 1] = pos[j] /\ p[j] = pos[1 + j]
    BY <2>1
  <2>3. y[j] = w[1 + j]
    BY <1>6, <2>1
  <2> HIDE DEF p, y
  <2>4. /\ LabelAt(m, pos[j], w[1 + j]) /\ Len(w[1 + j]) < B \div 4
        /\ pos[1 + j] = (pos[j] + 1) + Len(w[1 + j])
    BY <1>1, <2>1
  <2> QED
    BY <2>2, <2>3, <2>4
<1> HIDE DEF p, y
<1>8. Labels(m, (o + 1) + Len(w[1]), y, n - 1, z)
  BY <1>3, <1>4, <1>5, <1>7 DEF Labels
<1> QED
  BY <1>3, <1>8 DEF y

\* what UnpackDomainName meets at an offset: the end of the name, its first
\* label, or a pointer
EndAt(m, o, w, e) == w = <<>> /\ o < Len(m) /\ m[o + 1] = 0 /\ e = o + 1
FirstAt(m, o, w, e, G) ==
  /\ w # <<>> /\ LabelAt(m, o, w[1]) /\ Len(w[1]) < B \div 4
  /\ At(m, (o + 1) + Len(w[1]), tail(w, 2), e, G)
PointerAt(m, o, w, e, G) ==
  /\ w # <<>> /\ o + 1 < Len(m) /\ m[o + 1] >= 3 * (B \div 4)
  /\ e = o + 2 /\ <<pointed(m, o), w>> \in G

\* A name is read label by label.
LEMMA AtStep ==
  ASSUME NEW m, NEW o, NEW w \in Name, NEW e, NEW G, At(m, o, w, e, G)
  PROVE  EndAt(m, o, w, e) \/ FirstAt(m, o, w, e, G) \/ PointerAt(m, o, w, e, G)
<1>0. Len(w) \in Nat /\ (w # <<>> => Len(w) \in 1 .. Len(w)) /\ (w = <<>> <=> Len(w) = 0)
  BY DEF Name
<1>a. w # <<>> => tail(w, 2) \in Name /\ Len(tail(w, 2)) = Len(w) - 1
  <2> SUFFICES ASSUME w # <<>> PROVE tail(w, 2) \in Name /\ Len(tail(w, 2)) = Len(w) - 1
    OBVIOUS
  <2>1. 1 \in 0 .. Len(w) /\ 1 + 1 = 2
    BY <1>0
  <2> QED
    BY <2>1, Split
<1>b. ASSUME NEW z, Labels(m, o, w, 0, z) PROVE z = o
  BY <1>b DEF Labels
<1>1. CASE Direct(m, o, w, e)
  <2>1. PICK z \in Nat :
          Labels(m, o, w, Len(w), z) /\ z < Len(m) /\ m[z + 1] = 0 /\ e = z + 1
    BY <1>1 DEF Direct
  <2>2. CASE w = <<>>
    <3>1. z = o
      BY <1>0, <1>b, <2>1, <2>2
    <3> QED
      BY <2>1, <2>2, <3>1 DEF EndAt
  <2>3. CASE w # <<>>
    <3>1. /\ LabelAt(m, o, w[1]) /\ Len(w[1]) < B \div 4
          /\ Labels(m, (o + 1) + Len(w[1]), tail(w, 2), Len(w) - 1, z)
      BY <1>0, <2>1, <2>3, LabelsStep
    <3>2. Labels(m, (o + 1) + Len(w[1]), tail(w, 2), Len(tail(w, 2)), z)
      BY <1>a, <2>3, <3>1
    <3>3. At(m, (o + 1) + Len(w[1]), tail(w, 2), e, G)
      BY <2>1, <3>2 DEF At, Direct
    <3> QED
      BY <2>3, <3>1, <3>3 DEF FirstAt
  <2> QED
    BY <2>2, <2>3
<1>2. CASE \E i \in 0 .. Len(w) - 1 : Via(m, o, w, i, e, G)
  <2>0. PICK i \in 0 .. Len(w) - 1 : Via(m, o, w, i, e, G)
    BY <1>2
  <2>1. PICK z \in Nat :
          /\ Labels(m, o, w, i, z) /\ z + 1 < Len(m) /\ m[z + 1] >= 3 * (B \div 4)
          /\ e = z + 2 /\ <<pointed(m, z), tail(w, i + 1)>> \in G
    BY <2>0 DEF Via
  <2>2. w # <<>>
    BY <1>0
  <2>3. CASE i = 0
    <3>1. z = o
      BY <1>b, <2>1, <2>3
    <3>2. tail(w, 0 + 1) = w
      BY DEF tail, Name
    <3> QED
      BY <2>1, <2>2, <2>3, <3>1, <3>2 DEF PointerAt
  <2>4. CASE i # 0
    <3>0. i \in 1 .. Len(w) /\ i - 1 \in 0 .. (Len(w) - 1) - 1 /\ (i - 1) + 1 = i
      BY <1>0, <2>4
    <3>1. /\ LabelAt(m, o, w[1]) /\ Len(w[1]) < B \div 4
          /\ Labels(m, (o + 1) + Len(w[1]), tail(w, 2), i - 1, z)
      BY <2>1, <3>0, LabelsStep
    <3>2. tail(tail(w, 2), i) = tail(w, i + 1)
      <4>1. 2 \in 1 .. Len(w) + 1 /\ i \in 1 .. Len(w) - 2 + 2 /\ (2 + i) - 1 = i + 1
        BY <1>0, <2>4
      <4>2. tail(tail(w, 2), i) = tail(w, (2 + i) - 1)
        BY <4>1, TailTail
      <4> QED
        BY <4>1, <4>2
    <3>3. Via(m, (o + 1) + Len(w[1]), tail(w, 2), i - 1, e, G)
      BY <2>1, <3>0, <3>1, <3>2 DEF Via
    <3>4. i - 1 \in 0 .. Len(tail(w, 2)) - 1
      BY <1>a, <2>2, <3>0
    <3>5. At(m, (o + 1) + Len(w[1]), tail(w, 2), e, G)
      BY <3>3, <3>4 DEF At
    <3> QED
      BY <2>2, <3>1, <3>5 DEF FirstAt
  <2> QED
    BY <2>3, <2>4
<1> QED
  BY <1>1, <1>2 DEF At

-----------------------------------------------------------------------------
(* The compression map.                                                    *)

\* A key of a name that is also one of the zone is that of the same labels, and
\* the key of the whole zone comes before it.
LEMMA ZoneKey ==
  ASSUME NEW q \in Name, NEW x \in Name, NEW t \in Name, joined(q, x, t),
         x = <<>> \/ plain(t), NEW w \in Name, relevant(w, q, t),
         NEW i \in 1 .. Len(w), NEW j \in 1 .. Len(t), key(w, i) = key(t, j)
  PROVE  tail(w, i) = tail(t, j) /\ \E h \in 1 .. i : key(w, h) = key(t, 1)
<1>0. /\ Len(x) \in Nat /\ Len(t) \in Nat
      /\ \A n \in 1 .. Len(t) + 1 : tail(q, Len(x) + n) = tail(t, n)
  BY CatName
<1>a. 1 \in 1 .. Len(t) /\ j \in 1 .. Len(t) + 1
  BY <1>0
<1>1. CASE w = q
  <2>1. i = Len(x) + j /\ pad(x, Len(x)) = 0
    BY <1>1, TailKey
  <2>2. key(q, Len(x) + 1) = key(t, 1)
    BY <1>a, <2>1, SameKeys
  <2>3. Len(x) + 1 \in 1 .. i
    BY <1>0, <2>1
  <2>4. tail(q, i) = tail(t, j)
    BY <1>0, <1>a, <2>1
  <2> QED
    BY <1>1, <2>2, <2>3, <2>4
<1>2. CASE w # q
  <2>1. PICK l : called(w, l, t)
    BY <1>2 DEF relevant
  <2>2. /\ \A n \in 1 .. Len(t) : key(w, n + 1) = key(t, n)
        /\ \A n \in 1 .. Len(t) : key(w, 1) # key(t, n)
    BY <2>1, NsKeys
  <2>3. i # 1
    BY <2>2
  <2>4. PICK n \in 1 .. Len(t) : i = n + 1 /\ key(w, i) = key(t, n) /\ tail(w, i) = tail(t, n)
    BY <2>1, <2>3, NsLabel
  <2>5. n = j
    BY <2>4, KeyOnce
  <2>6. key(w, 1 + 1) = key(t, 1) /\ 1 + 1 \in 1 .. i
    BY <1>a, <2>2, <2>4
  <2> QED
    BY <2>4, <2>5, <2>6
<1> QED
  BY <1>1, <1>2

\* Every entry of the map leads to the labels it stands for, along a pointer at
\* most; one of the zone leads there directly, and is there only if the whole
\* zone is; the question is there, unless nothing can be.
placed(known, m, q, t) ==
  \A K \in DOMAIN known :
    \E v \in Name : \E i \in 1 .. Len(v) :
      relevant(v, q, t) /\ key(v, i) = K /\ <<known[K], tail(v, i)>> \in near2(m)
zoned(known, m, t) ==
  \A j \in 1 .. Len(t) : key(t, j) \in DOMAIN known =>
    <<known[key(t, j)], tail(t, j)>> \in near(m) /\ key(t, 1) \in DOMAIN known
questioned(known, q) ==
  \/ q = <<>> \/ key(q, 1) \in DOMAIN known
  \/ DOMAIN known = {} /\ maxCompressionOffset <= Header
mapOK(known, m, q, t) ==
  placed(known, m, q, t) /\ zoned(known, m, t) /\ questioned(known, q)

\* Labels that come earlier have lower offsets.
LEMMA OffsetsGrow ==
  ASSUME NEW w \in Name, NEW i \in 1 .. Len(w), NEW h \in 1 .. i, NEW at \in Nat
  PROVE  /\ labelOffset(w, at, h) \in Nat /\ labelOffset(w, at, i) \in Nat
         /\ at <= labelOffset(w, at, h) /\ labelOffset(w, at, h) <= labelOffset(w, at, i)
<1>0. Len(w) \in Nat
  BY NameType
<1> DEFINE a == Len(emit(w, h - 1))
           b == Len(emit(w, i - 1))
<1>1. a \in Nat /\ b \in Nat
  <2>1. h - 1 \in 0 .. Len(w) /\ i - 1 \in 0 .. Len(w)
    BY <1>0
  <2> QED
    BY <2>1, Emitted DEF spelledTo
<1>2. a <= b
  <2>1. CASE h = i
    BY <1>1, <2>1
  <2>2. CASE h # i
    <3>1. h \in 1 .. Len(w) /\ i - 1 \in h .. Len(w)
      BY <1>0, <2>2
    <3> DEFINE c == Len(emit(w, h))
               l == Len(w[h])
    <3>2. c \in Nat /\ l \in Nat /\ c = a + 1 + l /\ c <= b
      BY <3>1, EmitLen
    <3> HIDE DEF a, b, c, l
    <3> QED
      BY <1>1, <3>2
  <2> QED
    BY <2>1, <2>2
<1> HIDE DEF a, b
<1>3. labelOffset(w, at, h) = at + a /\ labelOffset(w, at, i) = at + b
  BY DEF labelOffset, a, b
<1> QED
  BY <1>1, <1>2, <1>3

\* The map stays good when the labels that are remembered are where they are
\* remembered.
LEMMA MapGrows ==
  ASSUME NEW q \in Name, NEW x \in Name, NEW t \in Name, joined(q, x, t),
         x = <<>> \/ plain(t), NEW w \in Name, relevant(w, q, t),
         NEW at \in Nat, NEW known, NEW m, NEW m2, extends(m, m2),
         placed(known, m, q, t), zoned(known, m, t),
         NEW compress \in BOOLEAN, NEW n, n = hit(w, compress, known),
         \A i \in 1 .. n - 1 : <<labelOffset(w, at, i), tail(w, i)>> \in near2(m2),
         \A i \in 1 .. n - 1 : \A j \in 1 .. Len(t) : key(w, i) = key(t, j) =>
           <<labelOffset(w, at, i), tail(w, i)>> \in near(m2)
  PROVE  LET r == packDomainName(w, compress, at, known)
         IN placed(r.known, m2, q, t) /\ zoned(r.known, m2, t)
<1> DEFINE f == packDomainName(w, compress, at, known).known
           new == newLabels(w, n, compress, at)
<1>1. /\ DOMAIN f = {key(w, i) : i \in new} \cup DOMAIN known
      /\ \A k \in DOMAIN known : f[k] = known[k]
      /\ \A k \in DOMAIN f \ DOMAIN known :
           \E i \in new : key(w, i) = k /\ f[k] = labelOffset(w, at, i)
  <2> DEFINE g == hit(w, compress, known)
  <2>1. /\ DOMAIN f = {key(w, i) : i \in newLabels(w, g, compress, at)} \cup DOMAIN known
        /\ \A k \in DOMAIN known : f[k] = known[k]
        /\ \A k \in DOMAIN f \ DOMAIN known :
             \E i \in newLabels(w, g, compress, at) : key(w, i) = k /\ f[k] = labelOffset(w, at, i)
    BY PackParts
  <2>2. g = n
    OBVIOUS
  <2> HIDE DEF f, g
  <2> QED
    BY <2>1, <2>2
<1>2. n \in 1 .. Len(w) + 1 /\ Len(w) \in Nat
  BY Hit, NameType
<1>3. new \subseteq 1 .. n - 1 /\ \A i \in 1 .. n - 1 : i \in 1 .. Len(w)
  <2>1. new \subseteq 1 .. n - 1
    BY DEF newLabels
  <2>2. \A i \in 1 .. n - 1 : i \in 1 .. Len(w)
    BY ONLY <1>2
  <2> QED
    BY <2>1, <2>2
<1>4. near(m) \subseteq near(m2) /\ near2(m) \subseteq near2(m2)
  BY NearStays
<1> HIDE DEF f
<1>5. placed(f, m2, q, t)
  <2> SUFFICES ASSUME NEW K \in DOMAIN f
               PROVE  \E v \in Name : \E i \in 1 .. Len(v) :
                        relevant(v, q, t) /\ key(v, i) = K /\ <<f[K], tail(v, i)>> \in near2(m2)
    BY DEF placed
  <2>1. CASE K \in DOMAIN known
    <3>1. PICK v \in Name : \E i \in 1 .. Len(v) :
            relevant(v, q, t) /\ key(v, i) = K /\ <<known[K], tail(v, i)>> \in near2(m)
      BY <2>1 DEF placed
    <3>2. f[K] = known[K]
      BY <1>1, <2>1
    <3> QED
      BY <1>4, <3>1, <3>2
  <2>2. CASE K \notin DOMAIN known
    <3>1. PICK i \in new : key(w, i) = K /\ f[K] = labelOffset(w, at, i)
      BY <1>1, <2>2
    <3>2. i \in 1 .. n - 1 /\ i \in 1 .. Len(w)
      BY <1>3, <3>1
    <3>3. <<f[K], tail(w, i)>> \in near2(m2)
      BY <3>1, <3>2
    <3> QED
      BY <3>1, <3>2, <3>3
  <2> QED
    BY <2>1, <2>2
<1>6. zoned(f, m2, t)
  <2> SUFFICES ASSUME NEW j \in 1 .. Len(t), key(t, j) \in DOMAIN f
               PROVE  <<f[key(t, j)], tail(t, j)>> \in near(m2) /\ key(t, 1) \in DOMAIN f
    BY DEF zoned
  <2>1. CASE key(t, j) \in DOMAIN known
    <3>1. <<known[key(t, j)], tail(t, j)>> \in near(m) /\ key(t, 1) \in DOMAIN known
      BY <2>1 DEF zoned
    <3>2. f[key(t, j)] = known[key(t, j)]
      BY <1>1, <2>1
    <3> QED
      BY <1>1, <1>4, <3>1, <3>2
  <2>2. CASE key(t, j) \notin DOMAIN known
    <3>1. PICK i \in new : key(w, i) = key(t, j) /\ f[key(t, j)] = labelOffset(w, at, i)
      BY <1>1, <2>2
    <3>2. i \in 1 .. n - 1 /\ i \in 1 .. Len(w)
      BY <1>3, <3>1
    <3>3. tail(w, i) = tail(t, j) /\ \E h \in 1 .. i : key(w, h) = key(t, 1)
      BY <3>1, <3>2, ZoneKey
    <3>4. PICK h \in 1 .. i : key(w, h) = key(t, 1)
      BY <3>3
    <3>5. <<f[key(t, j)], tail(t, j)>> \in near(m2)
      BY <3>1, <3>2, <3>3
    <3>6. h \in new
      <4>1. /\ labelOffset(w, at, h) \in Nat /\ labelOffset(w, at, i) \in Nat
            /\ labelOffset(w, at, h) <= labelOffset(w, at, i)
        BY <3>2, OffsetsGrow
      <4>2. labelOffset(w, at, i) < maxCompressionOffset
        BY <3>1 DEF newLabels, remembered
      <4>3. maxCompressionOffset \in Nat
        BY Quarter DEF maxCompressionOffset
      <4> DEFINE a == labelOffset(w, at, h)
                 b == labelOffset(w, at, i)
                 c == maxCompressionOffset
      <4>4. a \in Nat /\ b \in Nat /\ c \in Nat /\ a <= b /\ b < c
        BY <4>1, <4>2, <4>3
      <4> HIDE DEF a, b, c
      <4>5. a < c
        BY <4>4
      <4>6. h \in 1 .. n - 1
        <5>1. n \in Int /\ i \in 1 .. n - 1 /\ h \in 1 .. i
          <6>1. n \in Int
            BY <1>2
          <6> QED
            BY <3>2, <6>1
        <5> QED
          BY ONLY <5>1
      <4> QED
        BY <4>5, <4>6 DEF a, c, newLabels, remembered
    <3>7. key(t, 1) \in DOMAIN f
      BY <1>1, <3>4, <3>6
    <3> QED
      BY <3>5, <3>7
  <2> QED
    BY <2>1, <2>2
<1> QED
  BY <1>5, <1>6 DEF f

\* Names that are read along no pointer or one.
LEMMA InNear ==
  ASSUME NEW m, NEW o \in Nat, NEW w \in Name, NEW e \in Nat
  PROVE  /\ At(m, o, w, e, {}) => <<o, w>> \in near(m)
         /\ At(m, o, w, e, near(m)) => <<o, w>> \in near2(m)
<1> DEFINE g == <<o, w>>
<1>1. g \in Nat \X Name /\ g[1] = o /\ g[2] = w
  OBVIOUS
<1> HIDE DEF g
<1>2. At(m, o, w, e, {}) => g \in near(m)
  BY <1>1 DEF near
<1>3. At(m, o, w, e, near(m)) => g \in near2(m)
  BY <1>1 DEF near2
<1> QED
  BY <1>2, <1>3 DEF g

\* A name with no pointer is one with a pointer at most.
LEMMA NearIsNear2 ==
  ASSUME NEW m \in Seq(Byte), NEW g \in near(m)
  PROVE  g \in near2(m)
<1> DEFINE o == g[1]
           w == g[2]
<1>1. o \in Nat /\ w \in Name /\ g = <<o, w>>
  BY DEF near
<1>2. PICK e \in Nat : At(m, o, w, e, {})
  BY DEF near
<1> HIDE DEF o, w
<1>3. extends(m, m)
  BY DEF extends
<1> DEFINE G == {}
           H == near(m)
<1>4. G \subseteq H /\ At(m, o, w, e, G)
  BY <1>2
<1> HIDE DEF G, H
<1>5. At(m, o, w, e, H)
  BY <1>1, <1>3, <1>4, AtStays
<1> QED
  BY <1>1, <1>5, InNear DEF H

\* What is remembered of a name, and that nothing is where no pointer leads.
LEMMA PackKnown ==
  ASSUME NEW w \in Name, NEW compress \in BOOLEAN, NEW at \in Nat, NEW known,
         NEW n, n = hit(w, compress, known),
         NEW f, f = packDomainName(w, compress, at, known).known
  PROVE  /\ DOMAIN known \subseteq DOMAIN f
         /\ maxCompressionOffset <= at => DOMAIN f = DOMAIN known
         /\ \A i \in 1 .. n - 1 :
              compress /\ remembered(labelOffset(w, at, i)) => key(w, i) \in DOMAIN f
         /\ n \in 1 .. Len(w) + 1 /\ isHit(w, compress, known, n) /\ Len(w) \in Nat
<1> DEFINE new == newLabels(w, n, compress, at)
<1>1. DOMAIN f = {key(w, i) : i \in new} \cup DOMAIN known
  <2> DEFINE g == hit(w, compress, known)
             e == packDomainName(w, compress, at, known).known
  <2>1. DOMAIN e = {key(w, i) : i \in newLabels(w, g, compress, at)} \cup DOMAIN known
    BY PackParts
  <2>2. g = n /\ e = f
    OBVIOUS
  <2> HIDE DEF e, g
  <2> QED
    BY <2>1, <2>2
<1>2. n \in 1 .. Len(w) + 1 /\ isHit(w, compress, known, n) /\ Len(w) \in Nat
  BY Hit, NameType
<1>3. ASSUME maxCompressionOffset <= at PROVE new = {}
  <2> SUFFICES ASSUME NEW i \in new PROVE FALSE
    OBVIOUS
  <2>1. i \in 1 .. n - 1 /\ labelOffset(w, at, i) < maxCompressionOffset
    BY DEF newLabels, remembered
  <2>2. i \in 1 .. Len(w) /\ i \in 1 .. i
    <3>1. n \in 1 .. Len(w) + 1 /\ Len(w) \in Nat /\ i \in 1 .. n - 1
      BY <1>2, <2>1
    <3> QED
      BY ONLY <3>1
  <2>3. labelOffset(w, at, i) \in Nat /\ at <= labelOffset(w, at, i)
    BY <2>2, OffsetsGrow
  <2> DEFINE a == labelOffset(w, at, i)
             c == maxCompressionOffset
  <2>4. a \in Nat /\ at <= a /\ a < c /\ c <= at /\ c \in Nat
    BY <1>3, <2>1, <2>3, Quarter DEF maxCompressionOffset
  <2> HIDE DEF a, c
  <2> QED
    BY <2>4
<1>4. \A i \in 1 .. n - 1 : compress /\ remembered(labelOffset(w, at, i)) => i \in new
  BY DEF newLabels
<1> HIDE DEF new
<1> QED
  BY <1>1, <1>2, <1>3, <1>4

\* A name from its first label on.
LEMMA FirstLabel ==
  ASSUME NEW w \in Name, NEW at \in Nat
  PROVE  at + Len(emit(w, 0)) = at /\ tail(w, 0 + 1) = w
<1>1. emit(w, 0) = <<>>
  BY EmitNone
<1>2. Len(emit(w, 0)) = 0
  BY <1>1
<1>3. tail(w, 0 + 1) = w
  BY DEF tail, Name
<1> QED
  BY <1>2, <1>3

\* compress is TRUE
wanted(compress) == compress

\* The question leaves a good map.
LEMMA MapFirst ==
  ASSUME NEW q \in Name, NEW x \in Name, NEW t \in Name, joined(q, x, t),
         x = <<>> \/ plain(t), legal(q), NEW known, DOMAIN known = {},
         NEW yes \in BOOLEAN, wanted(yes), NEW at \in Nat, at = Header,
         NEW c, c = packDomainName(q, yes, at, known).cells,
         NEW f, f = packDomainName(q, yes, at, known).known,
         NEW m, NEW e, holds(m, at, c, e)
  PROVE  At(m, at, q, e, near2(m)) /\ mapOK(f, m, q, t)
<1>0. /\ m \in Seq(Byte) /\ Len(c) \in Nat /\ e = at + Len(c) /\ at + Len(c) <= Len(m)
      /\ \A i \in 1 .. Len(c) : m[at + i] = c[i]
  BY DEF holds
<1> USE <1>0
<1> DEFINE n == hit(q, yes, known)
<1>1. /\ DOMAIN known \subseteq DOMAIN f
      /\ maxCompressionOffset <= at => DOMAIN f = DOMAIN known
      /\ \A i \in 1 .. n - 1 :
           yes /\ remembered(labelOffset(q, at, i)) => key(q, i) \in DOMAIN f
      /\ n \in 1 .. Len(q) + 1 /\ isHit(q, yes, known, n) /\ Len(q) \in Nat
  <2>1. n = hit(q, yes, known)
    OBVIOUS
  <2> HIDE DEF n
  <2> QED
    BY <2>1, PackKnown
<1> HIDE DEF n
<1>2. ~(n <= Len(q)) /\ n = Len(q) + 1
  <2>1. ~(n <= Len(q))
    BY <1>1 DEF isHit
  <2>2. n \in 1 .. Len(q) + 1 /\ Len(q) \in Nat
    BY <1>1
  <2> QED
    BY <2>1, <2>2
<1>3. pointers(known, 0)
  BY DEF pointers
<1> DEFINE G == {}
<1>4. ASSUME NEW k \in 0 .. n - 1 PROVE At(m, at + Len(emit(q, k)), tail(q, k + 1), e, G)
  <2>1. n <= Len(q) => <<known[key(q, n)], tail(q, n)>> \in G
    BY <1>2
  <2>2. n = hit(q, yes, known)
    BY DEF n
  <2> HIDE DEF G
  <2> HIDE <1>0
  <2>3. At(m, at + Len(emit(q, k)), tail(q, k + 1), e, G)
    BY <1>3, <2>1, <2>2, PackAt
  <2> QED
    BY <2>3
<1>5. e \in Nat
  OBVIOUS
<1>6. ASSUME NEW i \in 1 .. n - 1
      PROVE  <<labelOffset(q, at, i), tail(q, i)>> \in near(m)
  <2>1. i - 1 \in 0 .. n - 1 /\ (i - 1) + 1 = i /\ i \in 1 .. Len(q) /\ i \in 1 .. i
    <3>1. n = Len(q) + 1 /\ Len(q) \in Nat /\ i \in 1 .. n - 1
      BY <1>1, <1>2
    <3> QED
      BY ONLY <3>1
  <2>2. At(m, labelOffset(q, at, i), tail(q, i), e, G)
    BY <1>4, <2>1 DEF labelOffset
  <2>3. labelOffset(q, at, i) \in Nat
    BY <2>1, OffsetsGrow
  <2>4. tail(q, i) \in Name
    <3>1. i - 1 \in 0 .. Len(q)
      BY <2>1
    <3> QED
      BY <2>1, <3>1, Split
  <2> QED
    BY <1>5, <2>2, <2>3, <2>4, InNear
<1>7. extends(m, m)
  BY DEF extends
<1>8. placed(known, m, q, t) /\ zoned(known, m, t)
  BY DEF placed, zoned
<1>9. placed(f, m, q, t) /\ zoned(f, m, t)
  <2>1. \A i \in 1 .. n - 1 : <<labelOffset(q, at, i), tail(q, i)>> \in near2(m)
    BY <1>6, NearIsNear2
  <2>2. relevant(q, q, t)
    BY DEF relevant
  <2>3. n = hit(q, yes, known)
    BY DEF n
  <2>4. \A i \in 1 .. n - 1 : \A j \in 1 .. Len(t) : key(q, i) = key(t, j) =>
          <<labelOffset(q, at, i), tail(q, i)>> \in near(m)
    BY <1>6
  <2> DEFINE g == packDomainName(q, yes, at, known)
  <2>5. placed(g.known, m, q, t) /\ zoned(g.known, m, t)
    BY <1>7, <1>8, <2>1, <2>2, <2>3, <2>4, MapGrows
  <2> QED
    BY <2>5
<1>10. questioned(f, q)
  <2>1. CASE q = <<>>
    BY <2>1 DEF questioned
  <2>2. CASE q # <<>> /\ at < maxCompressionOffset
    <3>1. 1 \in 1 .. n - 1
      <4>1. Len(q) # 0
        BY <2>2 DEF Name
      <4> QED
        BY <1>1, <1>2, <4>1
    <3>2. labelOffset(q, at, 1) = at
      BY FirstLabel DEF labelOffset
    <3>3. remembered(labelOffset(q, at, 1))
      BY <2>2, <3>2 DEF remembered
    <3>4. key(q, 1) \in DOMAIN f
      BY <1>1, <3>1, <3>3, Zenon DEF wanted
    <3> QED
      BY <3>4 DEF questioned
  <2>3. CASE ~(at < maxCompressionOffset)
    <3>1. maxCompressionOffset \in Nat
      BY Quarter DEF maxCompressionOffset
    <3>2. maxCompressionOffset <= at
      BY <2>3, <3>1
    <3>3. DOMAIN f = {}
      BY <1>1, <3>2
    <3> QED
      BY <3>2, <3>3 DEF questioned
  <2> QED
    BY <2>1, <2>2, <2>3
<1>11. At(m, at, q, e, near2(m))
  <2>1. 0 \in 0 .. n - 1
    BY <1>1, <1>2
  <2>2. At(m, at, q, e, G)
    BY <1>4, <2>1, FirstLabel
  <2> DEFINE H == near2(m)
  <2>3. G \subseteq H
    OBVIOUS
  <2> HIDE DEF G, H
  <2>4. At(m, at, q, e, H)
    BY <1>7, <2>2, <2>3, AtStays
  <2> QED
    BY <2>4 DEF H
<1> QED
  BY <1>9, <1>10, <1>11 DEF mapOK

\* So does every name that is packed with pointers, and it is where it was packed.
LEMMA MapKept ==
  ASSUME NEW q \in Name, NEW x \in Name, NEW t \in Name, joined(q, x, t),
         x = <<>> \/ plain(t), NEW w \in Name, relevant(w, q, t), legal(w),
         NEW known, NEW N, pointers(known, N), NEW m0, mapOK(known, m0, q, t),
         NEW yes \in BOOLEAN, wanted(yes), NEW at \in Nat, Header <= at,
         NEW c, c = packDomainName(w, yes, at, known).cells,
         NEW f, f = packDomainName(w, yes, at, known).known,
         NEW m, extends(m0, m), NEW e, holds(m, at, c, e)
  PROVE  At(m, at, w, e, near2(m)) /\ mapOK(f, m, q, t)
<1>0. /\ m \in Seq(Byte) /\ Len(c) \in Nat /\ e = at + Len(c) /\ at + Len(c) <= Len(m)
      /\ \A i \in 1 .. Len(c) : m[at + i] = c[i]
  BY DEF holds
<1> USE <1>0
<1> DEFINE n == hit(w, yes, known)
           p == known[key(w, n)]
<1>1. /\ DOMAIN known \subseteq DOMAIN f
      /\ maxCompressionOffset <= at => DOMAIN f = DOMAIN known
      /\ n \in 1 .. Len(w) + 1 /\ isHit(w, yes, known, n) /\ Len(w) \in Nat
  <2>1. n = hit(w, yes, known)
    OBVIOUS
  <2> HIDE DEF n
  <2> QED
    BY <2>1, PackKnown
<1>2. n = hit(w, yes, known)
  OBVIOUS
<1> HIDE DEF n
<1>3. placed(known, m0, q, t) /\ zoned(known, m0, t) /\ questioned(known, q)
  BY DEF mapOK
<1>4. near(m0) \subseteq near(m) /\ near2(m0) \subseteq near2(m)
  BY NearStays
<1>5. extends(m, m)
  BY DEF extends
<1>6. e \in Nat
  OBVIOUS
<1>7. \A k \in 0 .. n - 1 :
        /\ at + Len(emit(w, k)) \in Nat /\ tail(w, k + 1) \in Name
        /\ labelOffset(w, at, k + 1) = at + Len(emit(w, k))
  <2> TAKE k \in 0 .. n - 1
  <2>1. k \in 0 .. Len(w) /\ (k + 1) - 1 = k
    <3>1. n \in 1 .. Len(w) + 1 /\ Len(w) \in Nat /\ k \in 0 .. n - 1
      BY <1>1
    <3> QED
      BY ONLY <3>1
  <2>2. Len(emit(w, k)) \in Nat
    BY <2>1, Emitted DEF spelledTo
  <2>3. tail(w, k + 1) \in Name
    BY <2>1, Split
  <2>4. labelOffset(w, at, k + 1) = at + Len(emit(w, k))
    BY <2>1 DEF labelOffset
  <2>5. at + Len(emit(w, k)) \in Nat
    <3> DEFINE a == Len(emit(w, k))
    <3>1. at \in Nat /\ a \in Nat
      BY <2>2
    <3> HIDE DEF a
    <3>2. at + a \in Nat
      BY ONLY <3>1
    <3> QED
      BY <3>2 DEF a
  <2> QED
    BY <2>3, <2>4, <2>5
<1>8. questioned(f, q)
  <2>1. CASE q = <<>> \/ key(q, 1) \in DOMAIN known
    BY <1>1, <2>1 DEF questioned
  <2>2. CASE DOMAIN known = {} /\ maxCompressionOffset <= Header
    <3>1. maxCompressionOffset <= at
      <4>1. maxCompressionOffset \in Nat /\ Header \in Nat
        BY Quarter, WireAssumption DEF maxCompressionOffset
      <4> DEFINE a == maxCompressionOffset
      <4>2. a \in Nat /\ Header \in Nat /\ at \in Nat /\ a <= Header /\ Header <= at
        BY <2>2, <4>1
      <4> HIDE DEF a
      <4>3. a <= at
        BY ONLY <4>2
      <4> QED
        BY <4>3 DEF a
    <3>2. DOMAIN f = {}
      BY <1>1, <2>2, <3>1
    <3> QED
      BY <2>2, <3>2 DEF questioned
  <2> QED
    BY <1>3, <2>1, <2>2 DEF questioned
\* from where the labels are, with their pointer, to the name and to the map
<1>9. ASSUME NEW G, n <= Len(w) => <<p, tail(w, n)>> \in G, NEW k \in 0 .. n - 1
      PROVE  At(m, at + Len(emit(w, k)), tail(w, k + 1), e, G)
  BY <1>2, <1>9, PackAt
<1>10. ASSUME \A i \in 1 .. n - 1 : <<labelOffset(w, at, i), tail(w, i)>> \in near2(m),
              \A i \in 1 .. n - 1 : \A j \in 1 .. Len(t) : key(w, i) = key(t, j) =>
                <<labelOffset(w, at, i), tail(w, i)>> \in near(m)
       PROVE  mapOK(f, m, q, t)
  <2> DEFINE g == packDomainName(w, yes, at, known)
  <2>1. placed(g.known, m, q, t) /\ zoned(g.known, m, t)
    BY <1>2, <1>3, <1>10, MapGrows
  <2>2. placed(f, m, q, t) /\ zoned(f, m, t)
    BY <2>1
  <2> QED
    BY <1>8, <2>2 DEF mapOK
<1>11. ASSUME NEW G, n <= Len(w) => <<p, tail(w, n)>> \in G, G \subseteq near2(m)
       PROVE  At(m, at, w, e, near2(m))
  <2>1. 0 \in 0 .. n - 1
    BY <1>1
  <2>2. At(m, at, w, e, G)
    BY <1>9, <1>11, <2>1, FirstLabel
  <2> DEFINE H == near2(m)
  <2>3. G \subseteq H
    BY <1>11
  <2> HIDE DEF H
  <2>4. At(m, at, w, e, H)
    BY <1>5, <2>2, <2>3, AtStays
  <2> QED
    BY <2>4 DEF H
\* no pointer
<1>12. CASE ~(n <= Len(w))
  <2> DEFINE G == {}
  <2>1. (n <= Len(w) => <<p, tail(w, n)>> \in G) /\ G \subseteq near2(m)
    BY <1>12
  <2> HIDE DEF G
  <2>2. At(m, at, w, e, near2(m))
    BY <1>11, <2>1
  <2>3. ASSUME NEW i \in 1 .. n - 1
        PROVE  <<labelOffset(w, at, i), tail(w, i)>> \in near(m)
    <3>1. i - 1 \in 0 .. n - 1 /\ (i - 1) + 1 = i
      <4>1. n \in Int
        BY <1>1
      <4> QED
        BY ONLY <4>1, i \in 1 .. n - 1
    <3>2. At(m, labelOffset(w, at, i), tail(w, i), e, G)
      BY <1>7, <1>9, <2>1, <3>1
    <3>3. labelOffset(w, at, i) \in Nat /\ tail(w, i) \in Name
      BY <1>7, <3>1
    <3> QED
      BY <1>6, <3>2, <3>3, InNear DEF G
  <2>4. mapOK(f, m, q, t)
    BY <1>10, <2>3, NearIsNear2
  <2> QED
    BY <2>2, <2>4
\* a pointer
<1>13. CASE n <= Len(w)
  <2>1. key(w, n) \in DOMAIN known /\ \A i \in 1 .. n - 1 : ~(key(w, i) \in DOMAIN known)
    BY <1>1, <1>13, Zenon DEF isHit, wanted
  <2>2. n \in 1 .. Len(w)
    BY <1>1, <1>13
  <2>3. <<p, tail(w, n)>> \in near2(m)
    <3>1. PICK v \in Name : \E i \in 1 .. Len(v) :
            relevant(v, q, t) /\ key(v, i) = key(w, n) /\ <<p, tail(v, i)>> \in near2(m0)
      BY <1>3, <2>1 DEF placed
    <3>2. PICK i \in 1 .. Len(v) :
            relevant(v, q, t) /\ key(v, i) = key(w, n) /\ <<p, tail(v, i)>> \in near2(m0)
      BY <3>1
    <3>3. tail(v, i) = tail(w, n)
      BY <2>2, <3>2, Faithful
    <3> QED
      BY <1>4, <3>2, <3>3
  <2> HIDE DEF p
  <2>4. At(m, at, w, e, near2(m))
    <3> DEFINE G == near2(m)
    <3>1. (n <= Len(w) => <<p, tail(w, n)>> \in G) /\ G \subseteq near2(m)
      BY <2>3
    <3> HIDE DEF G
    <3> QED
      BY <1>11, <3>1
  <2>5. CASE n = 1
    <3>1. 1 .. n - 1 = {}
      BY <2>5
    <3> QED
      BY <1>10, <2>4, <3>1
  <2>6. CASE n # 1
    <3>0. 1 \in 1 .. n - 1
      BY <2>2, <2>6
    <3>1. w # q
      <4> SUFFICES ASSUME w = q PROVE FALSE
        OBVIOUS
      <4>1. q # <<>> /\ DOMAIN known # {}
        BY <2>1, <2>2
      <4>2. key(q, 1) \in DOMAIN known
        BY <1>3, <4>1 DEF questioned
      <4> QED
        BY <2>1, <3>0, <4>2
    <3>2. PICK l : called(w, l, t)
      BY <3>1 DEF relevant
    <3>3. PICK j \in 1 .. Len(t) : n = j + 1 /\ key(w, n) = key(t, j)
      BY <2>2, <2>6, <3>2, NsLabel
    <3>4. key(t, 1) \in DOMAIN known
      BY <1>3, <2>1, <3>3 DEF zoned
    <3>5. /\ \A i \in 1 .. Len(t) : key(w, i + 1) = key(t, i)
          /\ \A i \in 1 .. Len(t) : key(w, 1) # key(t, i)
          /\ \A i \in 1 .. Len(t) + 1 : tail(w, i + 1) = tail(t, i)
      BY <3>2, NsKeys
    <3>a. Len(t) \in Nat
      BY NameType
    <3>6. n = 2
      <4>1. 1 \in 1 .. Len(t) /\ 1 + 1 = 2
        BY <3>3, <3>a
      <4>2. key(w, 2) \in DOMAIN known
        BY <3>4, <3>5, <4>1
      <4>3. ~(2 \in 1 .. n - 1)
        BY <2>1, <4>2
      <4> QED
        BY <2>2, <2>6, <4>3
    <3>7. <<p, tail(w, n)>> \in near(m)
      <4>1. 1 \in 1 .. Len(t) /\ 1 + 1 = 2 /\ 1 \in 1 .. Len(t) + 1
        BY <3>3, <3>a
      <4>2. key(w, n) = key(t, 1) /\ tail(w, n) = tail(t, 1)
        BY <3>5, <3>6, <4>1
      <4>3. <<known[key(t, 1)], tail(t, 1)>> \in near(m0)
        BY <1>3, <3>4, <4>1 DEF zoned
      <4> QED
        BY <1>4, <4>2, <4>3 DEF p
    <3>8. <<labelOffset(w, at, 1), tail(w, 1)>> \in near2(m)
      <4>1. 0 \in 0 .. n - 1 /\ 0 + 1 = 1
        BY <3>6
      <4>2. At(m, labelOffset(w, at, 1), tail(w, 1), e, near(m))
        BY <1>7, <1>9, <3>7, <4>1
      <4>3. labelOffset(w, at, 1) \in Nat /\ tail(w, 1) \in Name
        BY <1>7, <4>1
      <4> QED
        BY <1>6, <4>2, <4>3, InNear
    <3>9. \A i \in 1 .. n - 1 : i = 1
      BY <3>6
    <3>10. mapOK(f, m, q, t)
      BY <1>10, <3>5, <3>8, <3>9
    <3> QED
      BY <2>4, <3>10
  <2> QED
    BY <2>5, <2>6
<1> QED
  BY <1>12, <1>13

-----------------------------------------------------------------------------
(* The layout of a message.                                                *)

\* the data of answer a is from offset o up to offset e
DataAt(m, a, o, e) ==
  IF a.type = "A"
  THEN \/ asIPv4(a.ip) = noIP /\ e = o
       \/ asIPv4(a.ip) = [family |-> 4, last |-> m[o + 1]] /\ o < Len(m) /\ e = o + 1
  ELSE At(m, o, a.name, e, near2(m)) /\ o < e

\* the owner, up to d, the length of the data and the data
RecordAt(m, q, a, o, d, e) ==
  /\ At(m, o, q, d, near2(m)) /\ d + 2 <= Len(m)
  /\ e = (d + 2) + (m[d + 1] * B + m[d + 2]) /\ DataAt(m, a, d + 2, e)

\* question and n answers; answer i ends at st[i]
Laid(m, q, answers, n, st) ==
  /\ st \in [0 .. n -> Nat] /\ st[n] = Len(m)
  /\ At(m, Header, q, st[0], near2(m))
  /\ \A i \in 1 .. n : \E d \in Nat : RecordAt(m, q, answers[i], st[i - 1], d, st[i])

\* Data stays where it is.
LEMMA DataStays ==
  ASSUME NEW m, NEW m2, extends(m, m2), NEW a \in Answer, NEW o \in Nat, NEW e,
         DataAt(m, a, o, e)
  PROVE  DataAt(m2, a, o, e)
<1>0. /\ Len(m) \in Nat /\ Len(m2) \in Nat /\ Len(m) <= Len(m2)
      /\ \A i \in 1 .. Len(m) : m2[i] = m[i]
  BY DEF extends
<1>1. CASE a.type = "A"
  <2>1. CASE asIPv4(a.ip) = noIP /\ e = o
    BY <1>1, <2>1 DEF DataAt
  <2>2. CASE asIPv4(a.ip) = [family |-> 4, last |-> m[o + 1]] /\ o < Len(m) /\ e = o + 1
    <3>1. o + 1 \in 1 .. Len(m) /\ o < Len(m2)
      BY <1>0, <2>2
    <3>2. m2[o + 1] = m[o + 1]
      BY <1>0, <3>1
    <3> QED
      BY <1>1, <2>2, <3>1, <3>2 DEF DataAt
  <2> QED
    BY <1>1, <2>1, <2>2 DEF DataAt
<1>2. CASE a.type # "A"
  <2> DEFINE w == a.name
             G == near2(m)
             H == near2(m2)
  <2>1. w \in Name /\ At(m, o, w, e, G) /\ o < e /\ G \subseteq H
    BY <1>2, AnswerType, NearStays DEF DataAt
  <2> HIDE DEF w, G, H
  <2>2. At(m2, o, w, e, H)
    BY <2>1, AtStays
  <2> QED
    BY <1>2, <2>1, <2>2 DEF w, H, DataAt
<1> QED
  BY <1>1, <1>2

\* So do records.
LEMMA RecordStays ==
  ASSUME NEW m, NEW m2, extends(m, m2), NEW q \in Name, NEW a \in Answer, NEW o,
         NEW d \in Nat, NEW e, RecordAt(m, q, a, o, d, e)
  PROVE  RecordAt(m2, q, a, o, d, e)
<1>0. /\ Len(m) \in Nat /\ Len(m2) \in Nat /\ Len(m) <= Len(m2)
      /\ \A i \in 1 .. Len(m) : m2[i] = m[i]
  BY DEF extends
<1>1. /\ At(m, o, q, d, near2(m)) /\ d + 2 <= Len(m)
      /\ e = (d + 2) + (m[d + 1] * B + m[d + 2]) /\ DataAt(m, a, d + 2, e)
  BY DEF RecordAt
<1>2. d + 1 \in 1 .. Len(m) /\ d + 2 \in 1 .. Len(m) /\ d + 2 <= Len(m2) /\ d + 2 \in Nat
  BY <1>0, <1>1
<1>3. m2[d + 1] = m[d + 1] /\ m2[d + 2] = m[d + 2]
  BY <1>0, <1>2
<1>4. DataAt(m2, a, d + 2, e)
  BY <1>1, <1>2, DataStays
<1>5. At(m2, o, q, d, near2(m2))
  <2> DEFINE G == near2(m)
             H == near2(m2)
  <2>1. At(m, o, q, d, G) /\ G \subseteq H
    BY <1>1, NearStays
  <2> HIDE DEF G, H
  <2>2. At(m2, o, q, d, H)
    BY <2>1, AtStays
  <2> QED
    BY <2>2 DEF H
<1> QED
  BY <1>1, <1>2, <1>3, <1>4, <1>5 DEF RecordAt

\* A record at the end of a message is one answer more.
LEMMA LaidMore ==
  ASSUME NEW m, NEW m2, extends(m, m2), NEW q \in Name, NEW answers \in Seq(Answer),
         NEW n \in Nat, n < Len(answers), NEW st, Laid(m, q, answers, n, st),
         NEW d \in Nat, RecordAt(m2, q, answers[n + 1], Len(m), d, Len(m2))
  PROVE  \E su : Laid(m2, q, answers, n + 1, su)
<1> DEFINE su == [i \in 0 .. n + 1 |-> IF i = n + 1 THEN Len(m2) ELSE st[i]]
<1>0. Len(m) \in Nat /\ Len(m2) \in Nat
  BY DEF extends
<1>1. /\ st \in [0 .. n -> Nat] /\ st[n] = Len(m) /\ At(m, Header, q, st[0], near2(m))
      /\ \A i \in 1 .. n : \E c \in Nat : RecordAt(m, q, answers[i], st[i - 1], c, st[i])
  BY DEF Laid
<1>2. /\ su \in [0 .. n + 1 -> Nat] /\ su[n + 1] = Len(m2) /\ \A i \in 0 .. n : su[i] = st[i]
  <2>1. \A i \in 0 .. n + 1 : i = n + 1 \/ i \in 0 .. n
    OBVIOUS
  <2>2. n + 1 \in 0 .. n + 1 /\ \A i \in 0 .. n : i \in 0 .. n + 1 /\ i # n + 1
    OBVIOUS
  <2> QED
    BY <1>0, <1>1, <2>1, <2>2
<1> HIDE DEF su
<1>3. At(m2, Header, q, su[0], near2(m2))
  <2> DEFINE G == near2(m)
             H == near2(m2)
             z == st[0]
  <2>1. At(m, Header, q, z, G) /\ G \subseteq H
    BY <1>1, NearStays
  <2>2. su[0] = z
    BY <1>2
  <2> HIDE DEF G, H, z
  <2>3. At(m2, Header, q, z, H)
    BY <2>1, AtStays
  <2> QED
    BY <2>2, <2>3 DEF H
<1>4. ASSUME NEW i \in 1 .. n + 1
      PROVE  \E c \in Nat : RecordAt(m2, q, answers[i], su[i - 1], c, su[i])
  <2>1. CASE i = n + 1
    <3>1. i - 1 = n /\ n \in 0 .. n
      BY <2>1
    <3>2. su[i - 1] = Len(m) /\ su[i] = Len(m2)
      BY <1>1, <1>2, <2>1, <3>1
    <3> QED
      BY <2>1, <3>2
  <2>2. CASE i # n + 1
    <3>1. i \in 1 .. n /\ i \in 0 .. n /\ i - 1 \in 0 .. n /\ i \in 1 .. Len(answers)
      BY <2>2
    <3>2. PICK c \in Nat : RecordAt(m, q, answers[i], st[i - 1], c, st[i])
      BY <1>1, <3>1
    <3>3. answers[i] \in Answer /\ su[i - 1] = st[i - 1] /\ su[i] = st[i]
      BY <1>2, <3>1
    <3>4. RecordAt(m2, q, answers[i], st[i - 1], c, st[i])
      BY <3>2, <3>3, RecordStays
    <3> QED
      BY <3>3, <3>4
  <2> QED
    BY <2>1, <2>2
<1> QED
  BY <1>2, <1>3, <1>4 DEF Laid

\* A map with the same entries is as good.
LEMMA MapSame ==
  ASSUME NEW f, NEW known, DOMAIN f = DOMAIN known,
         \A k \in DOMAIN known : f[k] = known[k],
         NEW m, NEW q, NEW t, mapOK(known, m, q, t)
  PROVE  mapOK(f, m, q, t)
<1>1. placed(known, m, q, t) /\ zoned(known, m, t) /\ questioned(known, q)
  BY DEF mapOK
<1>2. placed(f, m, q, t)
  BY <1>1 DEF placed
<1>3. zoned(f, m, t)
  BY <1>1 DEF zoned
<1>4. questioned(f, q)
  BY <1>1 DEF questioned
<1> QED
  BY <1>2, <1>3, <1>4 DEF mapOK

\* A name that is packed without pointers.
LEMMA PackPlain ==
  ASSUME NEW w \in Name, legal(w), NEW known, NEW N, pointers(known, N),
         NEW q, NEW t, NEW no \in BOOLEAN, ~wanted(no), NEW at \in Nat,
         NEW c, c = packDomainName(w, no, at, known).cells,
         NEW f, f = packDomainName(w, no, at, known).known,
         NEW m, NEW e, holds(m, at, c, e), mapOK(known, m, q, t)
  PROVE  At(m, at, w, e, near2(m)) /\ mapOK(f, m, q, t)
<1>0. /\ m \in Seq(Byte) /\ Len(c) \in Nat /\ e = at + Len(c) /\ at + Len(c) <= Len(m)
      /\ \A i \in 1 .. Len(c) : m[at + i] = c[i]
  BY DEF holds
<1> USE <1>0
<1> DEFINE n == hit(w, no, known)
<1>1. n \in 1 .. Len(w) + 1 /\ isHit(w, no, known, n) /\ Len(w) \in Nat
  BY Hit, NameType
<1>2. n = hit(w, no, known)
  OBVIOUS
<1>3. DOMAIN f = DOMAIN known /\ \A k \in DOMAIN known : f[k] = known[k]
  <2> DEFINE g == packDomainName(w, no, at, known).known
  <2>1. /\ DOMAIN g = {key(w, i) : i \in newLabels(w, n, no, at)} \cup DOMAIN known
        /\ \A k \in DOMAIN known : g[k] = known[k]
    BY PackParts
  <2>2. newLabels(w, n, no, at) = {}
    BY Zenon DEF newLabels, wanted
  <2>3. g = f
    OBVIOUS
  <2> HIDE DEF g, n
  <2> QED
    BY <2>1, <2>2, <2>3
<1> HIDE DEF n
<1>4. ~(n <= Len(w)) /\ 0 \in 0 .. n - 1
  <2>1. ~(n <= Len(w))
    BY <1>1, Zenon DEF isHit, wanted
  <2> QED
    BY <1>1, <2>1
<1> DEFINE H == near2(m)
<1>5. n <= Len(w) => <<known[key(w, n)], tail(w, n)>> \in H
  BY <1>4
<1> HIDE DEF H
<1>6. At(m, at + Len(emit(w, 0)), tail(w, 0 + 1), e, H)
  <2> HIDE <1>0
  <2> QED
    BY <1>2, <1>4, <1>5, PackAt
<1>7. At(m, at, w, e, H)
  BY <1>6, FirstLabel
<1>8. mapOK(f, m, q, t)
  BY <1>3, MapSame
<1> QED
  BY <1>7, <1>8 DEF H

\* q ends in the zone t
ends(q, x, t) ==
  q \in Name /\ x \in Name /\ t \in Name /\ joined(q, x, t) /\ (x = <<>> \/ plain(t))

\* The data of an answer is where it was packed, and leaves a good map.
LEMMA DataKept ==
  ASSUME NEW q, NEW x, NEW t, ends(q, x, t), NEW a \in Answer, a.type # "A" => legal(a.name),
         a.type = "NS" => \E l : called(a.name, l, t),
         NEW known, NEW m, mapOK(known, m, q, t),
         NEW at \in Nat, Header <= at, pointers(known, at), NEW z,
         z = packRdata(a, at, known), NEW e, holds(m, at, z.cells, e)
  PROVE  DataAt(m, a, at, e) /\ mapOK(z.known, m, q, t)
<1> DEFINE c == z.cells
           f == z.known
<1>z. /\ q \in Name /\ x \in Name /\ t \in Name /\ joined(q, x, t) /\ (x = <<>> \/ plain(t))
      /\ c = packRdata(a, at, known).cells /\ f = packRdata(a, at, known).known
  BY DEF ends
<1>h. holds(m, at, c, e)
  OBVIOUS
<1> HIDE DEF c, f
<1> USE <1>z, <1>h
<1> SUFFICES DataAt(m, a, at, e) /\ mapOK(f, m, q, t)
  BY DEF f
<1>0. /\ m \in Seq(Byte) /\ Len(c) \in Nat /\ e = at + Len(c) /\ at + Len(c) <= Len(m)
      /\ Len(m) \in Nat /\ \A i \in 1 .. Len(c) : m[at + i] = c[i]
  BY DEF holds
<1> USE <1>0
<1>1. CASE a.type = "A"
  <2> DEFINE b == IF a.ip = noIP THEN <<>> ELSE <<a.ip.last>>
  <2>1. packRdata(a, at, known) = [cells |-> b, known |-> known, used |-> at + Len(b)]
    BY <1>1 DEF packRdata
  <2>2. c = b /\ f = known
    BY <2>1
  <2>3. CASE a.ip = noIP
    <3>1. Len(c) = 0
      BY <2>2, <2>3
    <3>2. at + Len(c) = at
      BY <3>1
    <3>3. asIPv4(a.ip) = noIP
      BY <2>3 DEF asIPv4
    <3> QED
      BY <1>1, <2>2, <3>2, <3>3 DEF DataAt
  <2>4. CASE a.ip # noIP
    <3> DEFINE y == a.ip.last
    <3>1. c = <<y>> /\ asIPv4(a.ip) = [family |-> 4, last |-> y]
      BY <2>2, <2>4 DEF asIPv4
    <3> HIDE DEF y
    <3>2. Len(c) = 1 /\ c[1] = y
      BY <3>1
    <3>3. m[at + 1] = y /\ at + Len(c) = at + 1 /\ at < Len(m)
      BY <1>0, <3>2
    <3> QED
      BY <1>1, <2>2, <3>1, <3>3 DEF DataAt
  <2> QED
    BY <2>3, <2>4
<1>2. CASE a.type # "A"
  <2> DEFINE w == a.name
             yes == a.type = "NS"
             r == packDomainName(w, yes, at, known)
  <2>1. packRdata(a, at, known) = r
    BY <1>2 DEF packRdata
  <2>2. w \in Name /\ legal(w) /\ yes \in BOOLEAN
    BY <1>2, AnswerType
  <2>3. c = r.cells /\ f = r.known
    BY <2>1
  <2>4. yes => relevant(w, q, t)
    BY DEF relevant
  <2>a. wanted(yes) => relevant(w, q, t)
    BY <2>4 DEF wanted
  <2> HIDE DEF w, yes
  <2>5. Len(c) \in Nat /\ Len(c) > 0
    BY <2>2, <2>3, PackName
  <2>6. At(m, at, w, e, near2(m)) /\ mapOK(f, m, q, t)
    <3>1. CASE wanted(yes)
      <4>1. extends(m, m)
        BY DEF extends
      <4>2. relevant(w, q, t)
        BY <2>a, <3>1
      <4>3. /\ c = packDomainName(w, yes, at, known).cells
            /\ f = packDomainName(w, yes, at, known).known
        BY <2>3
      <4> HIDE <1>0
      <4> QED
        BY <2>2, <3>1, <4>1, <4>2, <4>3, MapKept
    <3>2. CASE ~wanted(yes)
      BY <2>2, <2>3, <3>2, PackPlain
    <3> QED
      BY <3>1, <3>2
  <2>7. at < at + Len(c)
    BY <2>5
  <2> QED
    BY <1>2, <2>6, <2>7 DEF DataAt, w
<1> QED
  BY <1>1, <1>2

\* The zone of a reply: what its name servers are called by.
LEMMA ReplyZone ==
  ASSUME NEW r, r.question \in Name, r.answers \in Seq(Answer),
         NEW k \in 1 .. Len(r.question) + 1, named(r, k)
  PROVE  LET q == r.question
             x == front(q, k - 1)
             t == tail(q, k)
         IN /\ x \in Name /\ t \in Name /\ joined(q, x, t) /\ (x = <<>> \/ plain(t))
            /\ \A i \in 1 .. Len(r.answers) : r.answers[i].type = "NS" =>
                 \E l : called(r.answers[i].name, l, t)
<1> DEFINE q == r.question
           x == front(q, k - 1)
           t == tail(q, k)
<1>1. k - 1 \in 0 .. Len(q) /\ (k - 1) + 1 = k
  BY NameType
<1>2. x \in Name /\ Len(x) = k - 1 /\ tail(q, (k - 1) + 1) \in Name
      /\ q = x \o tail(q, (k - 1) + 1)
  BY <1>1, Split
<1>3. t \in Name /\ joined(q, x, t)
  BY <1>1, <1>2 DEF joined
<1>4. x = <<>> \/ plain(t)
  <2>1. CASE k = 1
    <3>1. Len(x) = 0 /\ x \in Seq(Label)
      BY <1>2, <2>1 DEF Name
    <3> QED
      BY <3>1
  <2>2. CASE k # 1
    BY <2>2 DEF named
  <2> QED
    BY <2>1, <2>2
<1>5. ASSUME NEW i \in 1 .. Len(r.answers), r.answers[i].type = "NS"
      PROVE  \E l : called(r.answers[i].name, l, t)
  <2> DEFINE w == r.answers[i].name
  <2>1. i \in DOMAIN r.answers
    OBVIOUS
  <2>2. \E l \in Range(w) : plain(<<l>>) /\ w = <<l>> \o t
    BY <1>5, <2>1 DEF named
  <2>3. w \in Name
    <3>1. r.answers[i] \in Answer
      BY <2>1
    <3> QED
      BY <1>5, <3>1, AnswerType
  <2>4. PICK l \in Range(w) : plain(<<l>>) /\ w = <<l>> \o t
    BY <2>2
  <2> HIDE DEF w, t
  <2>5. l \in Label
    BY <2>3, <2>4, NameType DEF Range
  <2>6. called(w, l, t)
    BY <2>4, <2>5 DEF called, joined
  <2> QED
    BY <2>6 DEF w
<1> QED
  BY <1>2, <1>3, <1>4, <1>5

-----------------------------------------------------------------------------
(* The round trip.                                                         *)

\* before anything is read
Unread == off = Header /\ ptr = 0 /\ s = <<>> /\ read = <<>>

\* while the reply is packed: everything so far is in its place
PackedSoFar ==
  /\ reply \in Replies /\ Unread
  /\ packed = -1 => Len(msg) = Header /\ DOMAIN compression = {}
  /\ packed >= 0 =>
       /\ \E st : Laid(msg, reply.question, reply.answers, packed, st)
       /\ \E k \in 1 .. Len(reply.question) + 1 :
            /\ named(reply, k)
            /\ mapOK(compression, msg, reply.question, tail(reply.question, k))

\* The question is put into its place.
LEMMA QuestionLaid ==
  ASSUME TypeInv, PackedSoFar, PackQuestion
  PROVE  PackedSoFar'
<1> DEFINE q == reply.question
           c == owner.cells
           f == owner.known
           at == Len(msg)
           yes == TRUE
<1>1. /\ packed = -1 /\ msg' = msg \o c /\ compression' = f /\ packed' = 0
      /\ UNCHANGED <<phase, reply, unpackVars>>
  BY DEF PackQuestion
<1>2. /\ legal(q) /\ q \in Name /\ msg \in Seq(Byte) /\ at \in Nat /\ reply \in Replies
      /\ at = Header /\ DOMAIN compression = {} /\ reply.answers \in Seq(Answer)
  BY <1>1, QuestionStep DEF TypeInv, PackedSoFar
<1>3. c \in Seq(Byte) /\ Len(c) \in Nat
  BY <1>2, OwnerPacked
<1>4. PICK k \in 1 .. Len(q) + 1 : named(reply, k)
  BY <1>2, WireAssumption
<1> DEFINE x == front(q, k - 1)
           t == tail(q, k)
<1>5. x \in Name /\ t \in Name /\ joined(q, x, t) /\ (x = <<>> \/ plain(t))
  BY <1>2, <1>4, ReplyZone
<1>6. /\ c = packDomainName(q, yes, at, compression).cells
      /\ f = packDomainName(q, yes, at, compression).known
      /\ yes \in BOOLEAN /\ wanted(yes)
  BY DEF owner, wanted
<1> DEFINE m == msg'
<1>7. /\ m \in Seq(Byte) /\ Len(m) = at + Len(c)
      /\ \A i \in 1 .. Len(c) : m[at + i] = c[i]
  <2>1. m = msg \o c /\ msg \in Seq(Byte) /\ c \in Seq(Byte)
    BY <1>1, <1>2, <1>3
  <2> HIDE DEF m, c, f, x, t, yes
  <2>2. /\ m \in Seq(Byte) /\ Len(m) = Len(msg) + Len(c)
        /\ \A i \in 1 .. Len(c) : m[Len(msg) + i] = c[i]
    BY ONLY <2>1, TwoParts
  <2> QED
    BY <2>2
<1> HIDE DEF c, f, at, yes, x, t, q, m
<1> DEFINE e == Len(m)
<1>8. holds(m, at, c, e)
  BY <1>2, <1>3, <1>7 DEF holds
<1> HIDE DEF e
<1>9. At(m, at, q, e, near2(m)) /\ mapOK(f, m, q, t)
  BY <1>2, <1>5, <1>6, <1>8, MapFirst
<1> DEFINE st == [i \in 0 .. 0 |-> Len(m)]
<1>10. Laid(m, q, reply.answers, 0, st)
  <2>1. Len(m) \in Nat
    BY <1>7
  <2>2. st \in [0 .. 0 -> Nat] /\ st[0] = Len(m)
    BY <2>1
  <2>3. 1 .. 0 = {}
    OBVIOUS
  <2>4. At(m, Header, q, st[0], near2(m))
    BY <1>2, <1>9, <2>2 DEF e
  <2> HIDE DEF st
  <2> QED
    BY <2>2, <2>3, <2>4 DEF Laid
<1>11. reply' = reply /\ Unread'
  BY <1>1 DEF PackedSoFar, Unread, unpackVars
<1>12. \E su : Laid(msg', reply'.question, reply'.answers, packed', su)
  BY <1>1, <1>10, <1>11 DEF m, q
<1>13. \E j \in 1 .. Len(reply'.question) + 1 :
         /\ named(reply', j)
         /\ mapOK(compression', msg', reply'.question, tail(reply'.question, j))
  BY <1>1, <1>4, <1>9, <1>11 DEF m, q, t, f
<1>14. reply' \in Replies /\ ~(packed' = -1)
  BY <1>1, <1>2, <1>11
<1> QED
  BY <1>11, <1>12, <1>13, <1>14 DEF PackedSoFar

\* The owner of a record is where it was packed, and leaves a good map.
LEMMA OwnerKept ==
  ASSUME NEW q, NEW x, NEW t, ends(q, x, t), legal(q),
         NEW known, NEW m0, mapOK(known, m0, q, t), NEW m, extends(m0, m),
         NEW at \in Nat, Header <= at, pointers(known, at), NEW r,
         r = packDomainName(q, TRUE, at, known), NEW e, holds(m, at, r.cells, e)
  PROVE  At(m, at, q, e, near2(m)) /\ mapOK(r.known, m, q, t)
<1> DEFINE yes == TRUE
           c == r.cells
           f == r.known
<1>1. yes \in BOOLEAN /\ wanted(yes)
  BY DEF wanted
<1>2. /\ c = packDomainName(q, yes, at, known).cells
      /\ f = packDomainName(q, yes, at, known).known
  OBVIOUS
<1> HIDE DEF yes, c, f
<1>3. /\ q \in Name /\ x \in Name /\ t \in Name /\ joined(q, x, t) /\ (x = <<>> \/ plain(t))
      /\ relevant(q, q, t)
  BY DEF ends, relevant
<1>4. holds(m, at, c, e)
  BY DEF c
<1>5. At(m, at, q, e, near2(m)) /\ mapOK(f, m, q, t)
  BY <1>1, <1>2, <1>3, <1>4, MapKept
<1> QED
  BY <1>5 DEF f

\* And so is every answer.
LEMMA AnswerLaid ==
  ASSUME TypeInv, PackedSoFar, PackRR
  PROVE  PackedSoFar'
<1> DEFINE q == reply.question
           c == owner.cells
           f == owner.known
           d == data.cells
           g == data.known
           a == reply.answers[packed + 1]
           at == Len(msg)
           b == (Len(msg) + Len(c)) + 2
           m == msg'
<1>1. /\ packed \in 0 .. Len(reply.answers) - 1 /\ ~unpackable
      /\ m \in Seq(Byte) /\ Len(m) \in Nat /\ Len(m) = b + Len(d)
      /\ \A i \in 1 .. at : m[i] = msg[i]
      /\ \A i \in 1 .. Len(c) : m[at + i] = c[i]
      /\ m[(at + Len(c)) + 1] * B + m[(at + Len(c)) + 2] = Len(d)
      /\ \A i \in 1 .. Len(d) : m[b + i] = d[i]
  BY AnswerStep
<1>2. /\ legal(q) /\ a \in Answer /\ (a.type # "A" => legal(a.name))
      /\ b \in Nat /\ Header <= b /\ pointers(f, b) /\ Len(d) \in Nat
  BY <1>1, DataPacked
<1>3. Len(c) \in Nat
  BY <1>2, OwnerPacked
<1>4. /\ q \in Name /\ reply.answers \in Seq(Answer) /\ msg \in Seq(Byte) /\ at \in Nat
      /\ Header <= at /\ pointers(compression, at) /\ packed \in Nat /\ packed < Len(reply.answers)
  <2>1. /\ q \in Name /\ reply.answers \in Seq(Answer) /\ msg \in Seq(Byte)
        /\ Header <= at /\ pointers(compression, at)
    BY DEF TypeInv
  <2> QED
    BY <1>1, <2>1
<1>5. /\ msg' = m /\ compression' = g /\ packed' = packed + 1
      /\ UNCHANGED <<phase, reply, unpackVars>>
  BY DEF PackRR
<1>6. /\ reply \in Replies /\ Unread
      /\ \E st : Laid(msg, q, reply.answers, packed, st)
      /\ \E k \in 1 .. Len(q) + 1 : named(reply, k) /\ mapOK(compression, msg, q, tail(q, k))
  BY <1>4 DEF PackedSoFar
<1>7. PICK k \in 1 .. Len(q) + 1 : named(reply, k) /\ mapOK(compression, msg, q, tail(q, k))
  BY <1>6
<1> DEFINE x == front(q, k - 1)
           t == tail(q, k)
<1>8. /\ x \in Name /\ t \in Name /\ joined(q, x, t) /\ (x = <<>> \/ plain(t))
      /\ \A i \in 1 .. Len(reply.answers) : reply.answers[i].type = "NS" =>
           \E l : called(reply.answers[i].name, l, t)
  BY <1>4, <1>7, ReplyZone
<1>9. a.type = "NS" => \E l : called(a.name, l, t)
  <2>1. packed + 1 \in 1 .. Len(reply.answers)
    BY <1>4
  <2> QED
    BY <1>8, <2>1
<1>12. mapOK(compression, msg, q, t)
  BY <1>7
<1> HIDE DEF c, f, d, g, a, at, b, m, x, t, q
<1>13. b = (at + Len(c)) + 2
  BY DEF b, at
<1>14. at + Len(c) <= Len(m) /\ (at + Len(c)) + 2 <= Len(m) /\ b + Len(d) <= Len(m)
       /\ at <= Len(m)
  BY <1>1, <1>2, <1>3, <1>4, <1>13
<1>15. extends(msg, m)
  BY <1>1, <1>4, <1>14 DEF extends, at
<1>16. ends(q, x, t)
  BY <1>4, <1>8 DEF ends
<1> DEFINE h == at + Len(c)
<1>17. At(m, at, q, h, near2(m)) /\ mapOK(f, m, q, t)
  <2>1. legal(q) /\ at \in Nat /\ Header <= at /\ pointers(compression, at)
    BY <1>2, <1>4
  <2>2. holds(m, at, c, h)
    BY <1>1, <1>3, <1>14 DEF holds
  <2> DEFINE r == owner
  <2>3. r = packDomainName(q, TRUE, at, compression) /\ c = r.cells /\ f = r.known
    BY DEF owner, q, at, c, f
  <2> HIDE DEF r, h
  <2>4. holds(m, at, r.cells, h)
    BY <2>2, <2>3
  <2>5. At(m, at, q, h, near2(m)) /\ mapOK(r.known, m, q, t)
    BY <1>12, <1>15, <1>16, <2>1, <2>3, <2>4, OwnerKept
  <2> QED
    BY <2>3, <2>5
<1> DEFINE e == Len(m)
<1>18. DataAt(m, a, b, e) /\ mapOK(g, m, q, t)
  <2>1. /\ pointers(f, b) /\ Header <= b /\ b \in Nat /\ a \in Answer
        /\ (a.type # "A" => legal(a.name)) /\ mapOK(f, m, q, t)
    BY <1>2, <1>17
  <2>2. holds(m, b, d, e)
    BY <1>1, <1>2, <1>14 DEF holds
  <2> DEFINE r == data
  <2>3. r = packRdata(a, b, f) /\ d = r.cells /\ g = r.known
    BY DEF data, a, b, f, c, d, g
  <2> HIDE DEF r, e
  <2>4. holds(m, b, r.cells, e)
    BY <2>2, <2>3
  <2>5. DataAt(m, a, b, e) /\ mapOK(r.known, m, q, t)
    BY <1>9, <1>16, <2>1, <2>3, <2>4, DataKept
  <2> QED
    BY <2>3, <2>5
<1>19. RecordAt(m, q, a, at, h, Len(m)) /\ h \in Nat
  <2>1. h \in Nat
    BY <1>3, <1>4
  <2>2. /\ At(m, at, q, h, near2(m)) /\ h + 2 <= Len(m) /\ h + 2 = b
        /\ m[h + 1] * B + m[h + 2] = Len(d) /\ Len(m) = b + Len(d)
    BY <1>1, <1>13, <1>14, <1>17
  <2> HIDE DEF h
  <2> QED
    BY <1>18, <2>1, <2>2 DEF RecordAt
<1> HIDE DEF h, e
<1>20. \E su : Laid(m, q, reply.answers, packed + 1, su)
  <2>1. PICK st : Laid(msg, q, reply.answers, packed, st)
    BY <1>6
  <2>2. RecordAt(m, q, reply.answers[packed + 1], Len(msg), h, Len(m))
    BY <1>19 DEF a, at
  <2> QED
    BY <1>4, <1>15, <1>19, <2>1, <2>2, LaidMore
<1>21. reply' = reply /\ Unread'
  BY <1>5, <1>6 DEF Unread, unpackVars
<1>22. \E su : Laid(msg', reply'.question, reply'.answers, packed', su)
  BY <1>5, <1>20, <1>21 DEF q
<1>23. \E j \in 1 .. Len(reply'.question) + 1 :
         /\ named(reply', j)
         /\ mapOK(compression', msg', reply'.question, tail(reply'.question, j))
  BY <1>5, <1>7, <1>18, <1>21 DEF q, t
<1>24. reply' \in Replies /\ ~(packed' = -1)
  BY <1>4, <1>5, <1>6, <1>21
<1> QED
  BY <1>21, <1>22, <1>23, <1>24 DEF PackedSoFar

-----------------------------------------------------------------------------
(* Reading names.                                                          *)

\* UnpackDomainName, with its locals, is reading the name w, which ends at e in
\* the record: it has the first c labels, and the others are where it is
Cursor(m, o, p, o1, v, w, e) ==
  \E c \in 0 .. Len(w) : \E z :
    /\ v = front(w, c) /\ p \in 0 .. 2
    /\ At(m, o, tail(w, c + 1), z, reach(m, 2 - p))
    /\ p = 0 => z = e
    /\ p # 0 => o1 = e /\ w # <<>>

\* It starts where the name is.
LEMMA CursorStart ==
  ASSUME NEW m, NEW o, NEW o1, NEW w \in Name, NEW e, At(m, o, w, e, near2(m))
  PROVE  Cursor(m, o, 0, o1, <<>>, w, e)
<1>1. Len(w) \in Nat /\ 0 \in 0 .. Len(w)
  BY NameType
<1>2. front(w, 0) \in Name /\ Len(front(w, 0)) = 0
  BY <1>1, Split
<1>3. front(w, 0) = <<>>
  BY <1>2 DEF Name
<1>4. tail(w, 0 + 1) = w
  BY DEF tail, Name
<1>5. reach(m, 2 - 0) = near2(m) /\ 0 \in 0 .. 2
  BY DEF reach
<1>6. At(m, o, tail(w, 0 + 1), e, reach(m, 2 - 0))
  BY <1>4, <1>5
<1>7. \E z : /\ <<>> = front(w, 0) /\ 0 \in 0 .. 2
             /\ At(m, o, tail(w, 0 + 1), z, reach(m, 2 - 0))
             /\ 0 = 0 => z = e
             /\ 0 # 0 => o1 = e /\ w # <<>>
  BY <1>3, <1>5, <1>6
<1> QED
  BY <1>1, <1>7 DEF Cursor

\* what it meets: the end of the name, the next label or a pointer
Ends(m, o, p, o1, v, w, e) ==
  /\ o < Len(m) /\ m[o + 1] = 0 /\ v = w
  /\ e = IF p = 0 \/ v = <<>> THEN o + 1 ELSE o1
NextLabel(m, o, p, o1, v, w, e) ==
  /\ o < Len(m) /\ m[o + 1] \in 1 .. (B \div 4) - 1 /\ (o + 1) + m[o + 1] <= Len(m)
  /\ Cursor(m, (o + 1) + m[o + 1], p, o1,
            Append(v, SubSeq(m, o + 2, (o + 1) + m[o + 1])), w, e)
Follows(m, o, p, o1, v, w, e) ==
  /\ o + 1 < Len(m) /\ m[o + 1] >= 3 * (B \div 4) /\ p \in 0 .. 1
  /\ Cursor(m, pointed(m, o), p + 1, IF p = 0 THEN o + 2 ELSE o1, v, w, e)

\* One label more.
LEMMA FrontMore ==
  ASSUME NEW w \in Name, NEW c \in 0 .. Len(w), tail(w, c + 1) # <<>>
  PROVE  /\ c + 1 \in 0 .. Len(w) /\ tail(w, c + 1)[1] \in Label
         /\ front(w, c + 1) = Append(front(w, c), tail(w, c + 1)[1])
         /\ tail(tail(w, c + 1), 2) = tail(w, (c + 1) + 1)
<1>0. Len(w) \in Nat /\ \A i \in 1 .. Len(w) : w[i] \in Label
  BY NameType
<1> DEFINE y == tail(w, c + 1)
           x == front(w, c)
<1>1. /\ y \in Name /\ Len(y) = Len(w) - c /\ \A i \in 1 .. Len(w) - c : y[i] = w[c + i]
      /\ x \in Name /\ Len(x) = c /\ \A i \in 1 .. c : x[i] = w[i]
  BY Split
<1> HIDE DEF x, y
<1>2. y # <<>>
  BY DEF y
<1>3. Len(y) # 0
  BY <1>1, <1>2 DEF Name
<1>4. c + 1 \in 0 .. Len(w) /\ 1 \in 1 .. Len(w) - c /\ c + 1 \in 1 .. Len(w)
  BY <1>0, <1>1, <1>3
<1>5. y[1] = w[c + 1] /\ y[1] \in Label
  BY <1>0, <1>1, <1>4
<1> DEFINE u == front(w, c + 1)
<1>6. u \in Name /\ Len(u) = c + 1 /\ \A i \in 1 .. c + 1 : u[i] = w[i]
  BY <1>4, Split
<1> HIDE DEF u
<1>7. u = Append(x, y[1])
  <2> DEFINE a == Append(x, y[1])
  <2>1. a \in Seq(Label) /\ Len(a) = c + 1 /\ a[c + 1] = y[1] /\ \A i \in 1 .. c : a[i] = x[i]
    BY <1>1, <1>5 DEF Name
  <2> HIDE DEF a
  <2>2. ASSUME NEW i \in 1 .. c + 1 PROVE u[i] = a[i]
    <3>1. CASE i = c + 1
      BY <1>5, <1>6, <2>1, <3>1
    <3>2. CASE i # c + 1
      <4>1. i \in 1 .. c
        BY <3>2
      <4> QED
        BY <1>1, <1>6, <2>1, <4>1
    <3> QED
      BY <3>1, <3>2
  <2>3. u = a
    BY <1>6, <2>1, <2>2 DEF Name
  <2> QED
    BY <2>3 DEF a
<1>8. tail(y, 2) = tail(w, (c + 1) + 1)
  <2>1. c + 1 \in 1 .. Len(w) + 1 /\ 2 \in 1 .. Len(w) - (c + 1) + 2
        /\ ((c + 1) + 2) - 1 = (c + 1) + 1
    BY <1>0, <1>4
  <2>2. tail(tail(w, c + 1), 2) = tail(w, ((c + 1) + 2) - 1)
    BY <2>1, TailTail
  <2> QED
    BY <2>1, <2>2 DEF y
<1> QED
  BY <1>4, <1>5, <1>7, <1>8 DEF u, x, y

\* A label that is in a message is a part of it.
LEMMA LabelRead ==
  ASSUME NEW m \in Seq(Byte), NEW o \in Nat, NEW l \in Label, LabelAt(m, o, l),
         Len(l) < B \div 4
  PROVE  /\ o < Len(m) /\ m[o + 1] = Len(l) /\ Len(l) \in 1 .. (B \div 4) - 1
         /\ (o + 1) + Len(l) <= Len(m)
         /\ SubSeq(m, o + 2, (o + 1) + Len(l)) = l
<1>1. Len(m) \in Nat /\ B \div 4 \in Nat /\ l \in Seq(Byte) /\ l # <<>>
  BY Quarter DEF Label
<1>2. Len(l) \in Nat /\ Len(l) # 0
  BY <1>1
<1>3. /\ o + 1 + Len(l) <= Len(m) /\ m[o + 1] = Len(l)
      /\ \A j \in 1 .. Len(l) : m[o + 1 + j] = l[j]
  BY DEF LabelAt
<1> DEFINE n == Len(l)
           N == Len(m)
<1>4. o < N /\ n \in 1 .. (B \div 4) - 1 /\ (o + 1) + n <= N
  <2>1. n \in Nat /\ n # 0 /\ N \in Nat /\ o + 1 + n <= N /\ n < B \div 4
    BY <1>1, <1>2, <1>3
  <2> HIDE DEF n, N
  <2> QED
    BY <1>1, <2>1
<1> DEFINE y == SubSeq(m, o + 2, (o + 1) + n)
<1>5. /\ y \in Seq(Byte) /\ Len(y) = n /\ \A j \in 1 .. n : y[j] = m[o + 1 + j]
  <2>1. n \in Nat /\ (o + 1) + n <= Len(m) /\ n > 0
    BY <1>2, <1>4
  <2> HIDE DEF n
  <2> DEFINE z == SubSeq(m, o + 2, (o + 1) + n)
  <2>2. /\ z \in Seq(Byte) /\ Len(z) = n /\ \A j \in 1 .. n : z[j] = m[((o + 2) + j) - 1]
    BY <2>1
  <2>3. \A j \in 1 .. n : ((o + 2) + j) - 1 = o + 1 + j
    BY <2>1
  <2> QED
    BY <2>2, <2>3
<1>6. y = l
  <2> HIDE DEF y
  <2>1. y \in Seq(Byte) /\ l \in Seq(Byte) /\ Len(y) = Len(l)
        /\ \A j \in 1 .. Len(l) : y[j] = l[j]
    BY <1>1, <1>3, <1>5
  <2> QED
    BY ONLY <2>1
<1> QED
  BY <1>3, <1>4, <1>6

\* What is within reach of d pointers leads to a name within reach of d - 1.
LEMMA Pointed ==
  ASSUME NEW m, NEW p \in 0 .. 2, NEW o, NEW w, <<o, w>> \in reach(m, 2 - p)
  PROVE  /\ p \in 0 .. 1 /\ o \in Nat /\ w \in Name
         /\ \E z : At(m, o, w, z, reach(m, 2 - (p + 1)))
<1> DEFINE g == <<o, w>>
<1>1. g[1] = o /\ g[2] = w
  OBVIOUS
<1> HIDE DEF g
<1>0. g \in reach(m, 2 - p)
  BY DEF g
<1>2. CASE p = 0
  <2>1. 2 - p = 2 /\ 2 - (p + 1) = 1
    BY <1>2
  <2>2. reach(m, 2) = near2(m) /\ reach(m, 1) = near(m)
    BY DEF reach
  <2>3. g \in near2(m)
    BY <1>0, <2>1, <2>2
  <2>4. g \in Nat \X Name /\ \E e \in Nat : At(m, g[1], g[2], e, near(m))
    BY <2>3 DEF near2
  <2>5. o \in Nat /\ w \in Name
    BY <1>1, <2>4
  <2>6. \E z : At(m, o, w, z, near(m))
    BY <1>1, <2>4
  <2>7. p \in 0 .. 1
    BY <1>2
  <2> QED
    BY <2>1, <2>2, <2>5, <2>6, <2>7
<1>3. CASE p = 1
  <2>1. 2 - p = 1 /\ 2 - (p + 1) = 0
    BY <1>3
  <2>2. reach(m, 1) = near(m) /\ reach(m, 0) = {}
    BY DEF reach
  <2>3. g \in near(m)
    BY <1>0, <2>1, <2>2
  <2>4. g \in Nat \X Name /\ \E e \in Nat : At(m, g[1], g[2], e, {})
    BY <2>3 DEF near
  <2>5. o \in Nat /\ w \in Name
    BY <1>1, <2>4
  <2>6. \E z : At(m, o, w, z, {})
    BY <1>1, <2>4
  <2>7. p \in 0 .. 1
    BY <1>3
  <2> QED
    BY <2>1, <2>2, <2>5, <2>6, <2>7
<1>4. CASE p = 2
  <2>1. 2 - p = 0
    BY <1>4
  <2>2. reach(m, 0) = {}
    BY DEF reach
  <2> QED
    BY <1>0, <2>1, <2>2
<1> QED
  BY <1>2, <1>3, <1>4

\* A name is read to its end.
LEMMA CursorStep ==
  ASSUME NEW m \in Seq(Byte), NEW o \in Nat, NEW p, NEW o1, NEW v, NEW w \in Name, NEW e,
         Cursor(m, o, p, o1, v, w, e)
  PROVE  \/ Ends(m, o, p, o1, v, w, e) \/ NextLabel(m, o, p, o1, v, w, e)
         \/ Follows(m, o, p, o1, v, w, e)
<1>1. PICK c \in 0 .. Len(w) : \E z :
        /\ v = front(w, c) /\ p \in 0 .. 2
        /\ At(m, o, tail(w, c + 1), z, reach(m, 2 - p))
        /\ p = 0 => z = e
        /\ p # 0 => o1 = e /\ w # <<>>
  BY DEF Cursor
<1>2. PICK z :
        /\ v = front(w, c) /\ p \in 0 .. 2
        /\ At(m, o, tail(w, c + 1), z, reach(m, 2 - p))
        /\ p = 0 => z = e
        /\ p # 0 => o1 = e /\ w # <<>>
  BY <1>1
<1> DEFINE y == tail(w, c + 1)
           G == reach(m, 2 - p)
<1>3. y \in Name /\ front(w, c) \in Name /\ w = front(w, c) \o y
  BY Split
<1>4. At(m, o, y, z, G)
  BY <1>2
<1> HIDE DEF y, G
<1>5. EndAt(m, o, y, z) \/ FirstAt(m, o, y, z, G) \/ PointerAt(m, o, y, z, G)
  BY <1>3, <1>4, AtStep
<1>6. CASE EndAt(m, o, y, z)
  <2>1. y = <<>> /\ o < Len(m) /\ m[o + 1] = 0 /\ z = o + 1
    BY <1>6 DEF EndAt
  <2>2. v = w
    BY <1>2, <1>3, <2>1 DEF Name
  <2>3. e = IF p = 0 \/ v = <<>> THEN o + 1 ELSE o1
    BY <1>2, <2>1, <2>2
  <2> QED
    BY <2>1, <2>2, <2>3 DEF Ends
<1>7. CASE FirstAt(m, o, y, z, G)
  <2> DEFINE l == y[1]
             n == Len(l)
  <2>1. /\ y # <<>> /\ LabelAt(m, o, l) /\ n < B \div 4
        /\ At(m, (o + 1) + n, tail(y, 2), z, G)
    BY <1>7 DEF FirstAt
  <2>2. /\ c + 1 \in 0 .. Len(w) /\ l \in Label /\ front(w, c + 1) = Append(front(w, c), l)
        /\ tail(y, 2) = tail(w, (c + 1) + 1)
    BY <2>1, FrontMore DEF y
  <2> HIDE DEF l
  <2>3. /\ o < Len(m) /\ m[o + 1] = n /\ n \in 1 .. (B \div 4) - 1
        /\ (o + 1) + n <= Len(m) /\ SubSeq(m, o + 2, (o + 1) + n) = l
    BY <2>1, <2>2, LabelRead
  <2> HIDE DEF n
  <2>4. \E u : /\ Append(v, l) = front(w, c + 1) /\ p \in 0 .. 2
               /\ At(m, (o + 1) + n, tail(w, (c + 1) + 1), u, reach(m, 2 - p))
               /\ p = 0 => u = e
               /\ p # 0 => o1 = e /\ w # <<>>
    BY <1>2, <2>1, <2>2 DEF G
  <2>5. Cursor(m, (o + 1) + n, p, o1, Append(v, l), w, e)
    BY <2>2, <2>4 DEF Cursor
  <2>6. NextLabel(m, o, p, o1, v, w, e)
    BY <2>3, <2>5 DEF NextLabel
  <2> QED
    BY <2>6
<1>8. CASE PointerAt(m, o, y, z, G)
  <2> DEFINE t == pointed(m, o)
             k == IF p = 0 THEN o + 2 ELSE o1
             p2 == p + 1
  <2>1. /\ y # <<>> /\ o + 1 < Len(m) /\ m[o + 1] >= 3 * (B \div 4)
        /\ z = o + 2 /\ <<t, y>> \in reach(m, 2 - p)
    BY <1>8 DEF PointerAt, G
  <2> HIDE DEF t
  <2>2. p \in 0 .. 1 /\ \E u : At(m, t, y, u, reach(m, 2 - (p + 1)))
    BY <1>2, <2>1, Pointed
  <2>3. PICK u : At(m, t, y, u, reach(m, 2 - p2))
    BY <2>2
  <2>4. k = e
    BY <1>2, <2>1
  <2>5. w # <<>>
    <3> SUFFICES ASSUME w = <<>> PROVE FALSE
      OBVIOUS
    <3>1. Len(w) = 0 /\ Len(y) = Len(w) - c /\ c = 0
      BY Split, NameType DEF y
    <3> QED
      BY <1>3, <2>1, <3>1 DEF Name
  <2>6. p2 \in 0 .. 2 /\ p2 # 0
    BY <2>2
  <2> HIDE DEF k, p2
  <2>7. \E x : /\ v = front(w, c) /\ p2 \in 0 .. 2
               /\ At(m, t, tail(w, c + 1), x, reach(m, 2 - p2))
               /\ p2 = 0 => x = e
               /\ p2 # 0 => k = e /\ w # <<>>
    BY <1>2, <2>3, <2>4, <2>5, <2>6 DEF y
  <2>8. Cursor(m, t, p2, k, v, w, e)
    BY <2>7 DEF Cursor
  <2>9. Follows(m, o, p, o1, v, w, e)
    BY <2>1, <2>2, <2>8 DEF Follows, t, p2, k
  <2> QED
    BY <2>9
<1> QED
  BY <1>5, <1>6, <1>7, <1>8

-----------------------------------------------------------------------------
(* Reading the fields.                                                     *)

\* what is in field j
item(r, j) ==
  IF j = 1 \/ j % 2 = 0 THEN r.question
  ELSE IF r.answers[j \div 2].type = "A" THEN asIPv4(r.answers[j \div 2].ip)
                                         ELSE r.answers[j \div 2].name
Right(r, rd) == \A j \in 1 .. Len(rd) : rd[j] = item(r, j)

\* field j is the owner of record i, or its data
Owns(j, i) == i \in Nat /\ i > 0 /\ j = 2 * i /\ j \div 2 = i /\ j % 2 = 0 /\ j # 1
Holds(j, i) == i \in Nat /\ i > 0 /\ j = 2 * i + 1 /\ j \div 2 = i /\ j % 2 = 1 /\ j > 1

\* A field is one of the three.
LEMMA FieldKinds ==
  ASSUME NEW j \in Nat, j > 0
  PROVE  j = 1 \/ Owns(j, j \div 2) \/ Holds(j, j \div 2)
BY DEF Owns, Holds

\* Behind a question or data is an owner, behind an owner are data.
LEMMA NextKind ==
  ASSUME NEW j \in Nat
  PROVE  /\ j = 1 => Owns(j + 1, 1)
         /\ \A i : Owns(j, i) => Holds(j + 1, i)
         /\ \A i : Holds(j, i) => Owns(j + 1, i + 1)
BY DEF Owns, Holds

\* field j has ended at o
Finished(r, m, st, j, o) ==
  \/ j = 1 /\ o = st[0]
  \/ \E i : Owns(j, i) /\ RecordAt(m, r.question, r.answers[i], st[i - 1], o, st[i])
  \/ \E i : Holds(j, i) /\ o = st[i]

\* field j is the name w and ends at e; its data end where their length says
NameField(r, m, st, j, w, e, en) ==
  /\ w \in Name /\ w = item(r, j) /\ Finished(r, m, st, j, e)
  /\ \A i : Holds(j, i) => r.answers[i].type # "A" /\ e = en

\* field j, which is no address, is being read
NameRead(r, m, st, j, o, p, o1, v, en) ==
  \E w, e :
    /\ NameField(r, m, st, j, w, e, en) /\ Cursor(m, o, p, o1, v, w, e)
    /\ \A i : Holds(j, i) /\ p = 0 /\ v = <<>> => o < en

\* field j is an address
AddressRead(r, m, st, j, o, p, v, en) ==
  \E i : /\ Holds(j, i) /\ r.answers[i].type = "A" /\ en = st[i]
         /\ p = 0 /\ v = <<>> /\ DataAt(m, r.answers[i], o, en)

FieldRead(r, m, st, j, o, p, o1, v, en) ==
  NameRead(r, m, st, j, o, p, o1, v, en) \/ AddressRead(r, m, st, j, o, p, v, en)

\* a reply, packed
isLaid(r, m, st) ==
  /\ r.question \in Name /\ r.answers \in Seq(Answer)
  /\ Laid(m, r.question, r.answers, Len(r.answers), st)

\* The question is read first.
LEMMA ReadsFirst ==
  ASSUME NEW r, NEW m, NEW st, isLaid(r, m, st), NEW o1, NEW en
  PROVE  FieldRead(r, m, st, 1, Header, 0, o1, <<>>, en)
<1> DEFINE w == r.question
           e == st[0]
<1>1. w \in Name /\ At(m, Header, w, e, near2(m))
  BY DEF isLaid, Laid
<1>2. Cursor(m, Header, 0, o1, <<>>, w, e)
  BY <1>1, CursorStart
<1>3. w = item(r, 1)
  BY DEF item
<1>4. Finished(r, m, st, 1, e)
  BY DEF Finished
<1>5. \A i : ~Holds(1, i)
  BY DEF Holds
<1> HIDE DEF w, e
<1>6. NameField(r, m, st, 1, w, e, en)
  BY <1>1, <1>3, <1>4, <1>5 DEF NameField
<1>7. NameRead(r, m, st, 1, Header, 0, o1, <<>>, en)
  BY <1>2, <1>5, <1>6 DEF NameRead
<1> QED
  BY <1>7 DEF FieldRead

\* An owner is read where the record starts.
LEMMA ReadsOwner ==
  ASSUME NEW r, NEW m, NEW st, isLaid(r, m, st), NEW j, NEW i \in 1 .. Len(r.answers),
         Owns(j, i), NEW o, o = st[i - 1], NEW o1, NEW en
  PROVE  FieldRead(r, m, st, j, o, 0, o1, <<>>, en)
<1> DEFINE w == r.question
           a == r.answers[i]
<1>1. w \in Name /\ \E d \in Nat : RecordAt(m, w, a, st[i - 1], d, st[i])
  BY DEF isLaid, Laid
<1>2. PICK e \in Nat : RecordAt(m, w, a, st[i - 1], e, st[i])
  BY <1>1
<1>3. At(m, o, w, e, near2(m))
  BY <1>2 DEF RecordAt
<1>4. Cursor(m, o, 0, o1, <<>>, w, e)
  BY <1>1, <1>3, CursorStart
<1>5. w = item(r, j)
  BY DEF item, Owns
<1>6. Finished(r, m, st, j, e)
  BY <1>2 DEF Finished
<1>7. \A k : ~Holds(j, k)
  BY DEF Holds, Owns
<1> HIDE DEF w, a
<1>8. NameField(r, m, st, j, w, e, en)
  BY <1>1, <1>5, <1>6, <1>7 DEF NameField
<1>9. NameRead(r, m, st, j, o, 0, o1, <<>>, en)
  BY <1>4, <1>7, <1>8 DEF NameRead
<1> QED
  BY <1>9 DEF FieldRead

\* Data are read behind their length.
LEMMA ReadsData ==
  ASSUME NEW r, NEW m, NEW st, isLaid(r, m, st), NEW j, NEW i \in 1 .. Len(r.answers),
         Holds(j, i), NEW o, NEW en, en = st[i], DataAt(m, r.answers[i], o, en), NEW o1
  PROVE  FieldRead(r, m, st, j, o, 0, o1, <<>>, en)
<1> DEFINE a == r.answers[i]
<1>1. a \in Answer
  BY DEF isLaid
<1>0. \A k : Holds(j, k) => k = i
  BY DEF Holds
<1>2. CASE a.type = "A"
  <2>1. AddressRead(r, m, st, j, o, 0, <<>>, en)
    BY <1>2 DEF AddressRead
  <2> QED
    BY <2>1 DEF FieldRead
<1>3. CASE a.type # "A"
  <2> DEFINE w == a.name
  <2>1. w \in Name /\ At(m, o, w, en, near2(m)) /\ o < en
    BY <1>1, <1>3, AnswerType DEF DataAt
  <2>2. Cursor(m, o, 0, o1, <<>>, w, en)
    BY <2>1, CursorStart
  <2>3. w = item(r, j)
    BY <1>3 DEF item, Holds
  <2>4. Finished(r, m, st, j, en)
    BY DEF Finished
  <2>5. \A k : Holds(j, k) => r.answers[k].type # "A" /\ en = en
    BY <1>0, <1>3
  <2> HIDE DEF w
  <2>6. NameField(r, m, st, j, w, en, en)
    BY <2>1, <2>3, <2>4, <2>5 DEF NameField
  <2>7. NameRead(r, m, st, j, o, 0, o1, <<>>, en)
    BY <2>1, <2>2, <2>6 DEF NameRead
  <2> QED
    BY <2>7 DEF FieldRead
<1> QED
  BY <1>2, <1>3

\* Behind every field but the last is the next.
LEMMA ReadsNext ==
  ASSUME NEW r, NEW m, NEW st, isLaid(r, m, st), NEW j \in Nat, j <= 2 * Len(r.answers),
         NEW o \in Nat, Finished(r, m, st, j, o), NEW o2, NEW en,
         IF j % 2 = 0 THEN o2 = o + 2 /\ en = o + 2 + (m[o + 1] * B + m[o + 2]) ELSE o2 = o
  PROVE  FieldRead(r, m, st, j + 1, o2, 0, 0, <<>>, en)
<1>0. Len(r.answers) \in Nat
  BY DEF isLaid
<1>1. CASE j = 1 /\ o = st[0]
  <2>1. Owns(j + 1, 1) /\ 1 \in 1 .. Len(r.answers) /\ 1 - 1 = 0
    BY <1>0, <1>1, NextKind
  <2>2. o2 = st[1 - 1]
    BY <1>1, <2>1
  <2> QED
    BY <2>1, <2>2, ReadsOwner
<1>2. CASE \E i : Owns(j, i) /\ RecordAt(m, r.question, r.answers[i], st[i - 1], o, st[i])
  <2>1. PICK i : Owns(j, i) /\ RecordAt(m, r.question, r.answers[i], st[i - 1], o, st[i])
    BY <1>2
  <2>2. Holds(j + 1, i) /\ i \in 1 .. Len(r.answers) /\ j % 2 = 0
    <3>1. Holds(j + 1, i)
      BY <2>1, NextKind
    <3> QED
      BY <1>0, <2>1, <3>1 DEF Owns
  <2>3. /\ st[i] = (o + 2) + (m[o + 1] * B + m[o + 2])
        /\ DataAt(m, r.answers[i], o + 2, st[i])
    BY <2>1 DEF RecordAt
  <2>4. o2 = o + 2 /\ en = st[i]
    BY <2>2, <2>3
  <2>5. DataAt(m, r.answers[i], o2, en)
    BY <2>3, <2>4
  <2> QED
    BY <2>2, <2>4, <2>5, ReadsData
<1>3. CASE \E i : Holds(j, i) /\ o = st[i]
  <2>1. PICK i : Holds(j, i) /\ o = st[i]
    BY <1>3
  <2>2. Owns(j + 1, i + 1)
    BY <2>1, NextKind
  <2> DEFINE k == i + 1
  <2>3. k \in 1 .. Len(r.answers) /\ k - 1 = i /\ j % 2 # 0
    BY <1>0, <2>1 DEF Holds
  <2>4. o2 = st[k - 1] /\ Owns(j + 1, k)
    BY <2>1, <2>2, <2>3
  <2> HIDE DEF k
  <2> QED
    BY <2>3, <2>4, ReadsOwner
<1> QED
  BY <1>1, <1>2, <1>3 DEF Finished

\* while a reply is read
Reading ==
  \E st : /\ isLaid(reply, msg, st) /\ Right(reply, read)
          /\ FieldRead(reply, msg, st, field, off, ptr, off1, s, end)
Complete == Len(read) = lastField /\ Right(reply, read)
Goes ==
  phase \in {"unpack", "done"} /\ (phase = "unpack" => Reading) /\ (phase = "done" => Complete)

\* A field is read, and the next one follows.
LEMMA FieldGoes ==
  ASSUME TypeInv, phase = "unpack", NEW st, isLaid(reply, msg, st), Right(reply, read),
         NEW v, v = item(reply, field), NEW o \in Nat, Finished(reply, msg, st, field, o),
         goOn(v, o)
  PROVE  Goes'
<1> DEFINE N == Len(reply.answers)
           n == Len(read)
           last == lastField
<1>0. /\ N \in Nat /\ n \in Nat /\ n < last
      /\ last \in Nat /\ last <= 1 + 2 * N
  BY LastField DEF TypeInv
<1>1. PICK V : read \in Seq(V)
  BY DEF TypeInv
<1>a. isOwner => o < Len(msg)
  <2> SUFFICES ASSUME isOwner PROVE o < Len(msg)
    OBVIOUS
  <2>1. \A i : ~Holds(field, i)
    BY DEF Holds, isOwner
  <2>2. field # 1
    BY DEF isOwner
  <2>3. PICK i : RecordAt(msg, reply.question, reply.answers[i], st[i - 1], o, st[i])
    BY <2>1, <2>2 DEF Finished
  <2>4. o + 2 <= Len(msg) /\ Len(msg) \in Nat
    BY <2>3 DEF RecordAt, TypeInv
  <2> QED
    BY ONLY <2>4, o \in Nat
<1>2. /\ read' = Append(read, v) /\ s' = <<>> /\ ptr' = 0 /\ off1' = 0
      /\ phase' = IF field = last THEN "done" ELSE "unpack"
      /\ isOwner => off' = o + 2 /\ end' = o + 2 + (msg[o + 1] * B + msg[o + 2])
      /\ ~isOwner => off' = o
      /\ msg' = msg /\ reply' = reply
  BY <1>a DEF goOn, packVars
<1>b. lastField' = last
  BY <1>2 DEF lastField
<1>3. Len(read') = n + 1 /\ read'[n + 1] = v /\ \A j \in 1 .. n : read'[j] = read[j]
  BY <1>1, <1>2
<1>4. field = n + 1 /\ field' = field + 1
  <2>1. field = n + 1 /\ field' = Len(read') + 1
    BY DEF field
  <2> QED
    BY <1>3, <2>1
<1>5. Right(reply', read')
  <2>1. ASSUME NEW j \in 1 .. n + 1 PROVE read'[j] = item(reply, j)
    <3>1. CASE j = n + 1
      BY <1>3, <1>4, <3>1
    <3>2. CASE j # n + 1
      <4>1. j \in 1 .. n
        BY <1>0, <3>2
      <4> QED
        BY <1>3, <4>1 DEF Right
    <3> QED
      BY <3>1, <3>2
  <2> QED
    BY <1>2, <1>3, <2>1 DEF Right
<1> HIDE DEF N, n, last
<1>6. CASE field = last
  <2>1. phase' = "done"
    BY <1>2, <1>6
  <2>2. Len(read') = last
    BY <1>3, <1>4, <1>6
  <2>3. Complete'
    BY <1>b, <1>5, <2>2 DEF Complete
  <2> QED
    BY <2>1, <2>3 DEF Goes
<1>7. CASE field # last
  <2>1. phase' = "unpack"
    BY <1>2, <1>7
  <2> DEFINE j == field
             o2 == off'
             en == end'
  <2>2. j \in Nat /\ j <= 2 * N
    <3> HIDE DEF j
    <3>1. j = n + 1 /\ j # last
      BY <1>4, <1>7 DEF j
    <3> QED
      BY <1>0, <3>1
  <2>3. IF j % 2 = 0 THEN o2 = o + 2 /\ en = o + 2 + (msg[o + 1] * B + msg[o + 2]) ELSE o2 = o
    BY <1>2 DEF isOwner
  <2>4. Finished(reply, msg, st, j, o) /\ j <= 2 * Len(reply.answers)
    BY <2>2 DEF N
  <2>5. field' = j + 1
    BY <1>4
  <2> HIDE DEF j, o2, en
  <2>6. FieldRead(reply, msg, st, j + 1, o2, 0, 0, <<>>, en)
    BY <2>2, <2>3, <2>4, ReadsNext
  <2>7. FieldRead(reply', msg', st, field', off', ptr', off1', s', end')
    BY <1>2, <2>5, <2>6 DEF o2, en
  <2>8. isLaid(reply', msg', st)
    BY <1>2
  <2>9. Reading'
    BY <1>5, <2>7, <2>8 DEF Reading
  <2> QED
    BY <2>1, <2>9 DEF Goes
<1> QED
  BY <1>6, <1>7

\* A name is read step by step, without a failure.
LEMMA NameGoes ==
  ASSUME TypeInv, phase = "unpack", NEW st, isLaid(reply, msg, st), Right(reply, read),
         NameRead(reply, msg, st, field, off, ptr, off1, s, end),
         \/ UnpackBeyond \/ UnpackNothing \/ UnpackEnd \/ UnpackLabel \/ UnpackReserved
         \/ UnpackPointer
  PROVE  Goes'
<1> DEFINE b == msg[off + 1]
           Q == B \div 4
<1>0. /\ msg \in Seq(Byte) /\ Len(msg) \in Nat /\ off \in Nat /\ off1 \in Nat /\ Q \in Nat /\ Q > 0
      /\ Len(read) \in Nat /\ PtrLimit \in Nat /\ PtrLimit >= 2 /\ b = byte
  BY Quarter, WireAssumption DEF TypeInv, byte
<1>1. PICK w, e :
        /\ NameField(reply, msg, st, field, w, e, end) /\ Cursor(msg, off, ptr, off1, s, w, e)
        /\ \A i : Holds(field, i) /\ ptr = 0 /\ s = <<>> => off < end
  BY DEF NameRead
<1>2. /\ w \in Name /\ w = item(reply, field) /\ Finished(reply, msg, st, field, e)
      /\ \A i : Holds(field, i) => reply.answers[i].type # "A" /\ e = end
  BY <1>1 DEF NameField
<1>3. \/ Ends(msg, off, ptr, off1, s, w, e) \/ NextLabel(msg, off, ptr, off1, s, w, e)
      \/ Follows(msg, off, ptr, off1, s, w, e)
  BY <1>0, <1>1, <1>2, CursorStep
<1>n. off < Len(msg) => ~UnpackBeyond /\ ~UnpackNothing
  <2>1. off < Len(msg) => ~(off >= Len(msg)) /\ ~(off = Len(msg))
    BY <1>0
  <2> QED
    BY <2>1 DEF UnpackBeyond, UnpackNothing
<1>k. field \in Nat /\ field > 0
  BY <1>0 DEF field
<1>4. CASE Ends(msg, off, ptr, off1, s, w, e)
  <2> DEFINE o == IF ptr = 0 \/ s = <<>> THEN off + 1 ELSE off1
  <2>1. off < Len(msg) /\ b = 0 /\ s = w /\ e = o
    BY <1>4 DEF Ends
  <2>2. /\ ~UnpackBeyond /\ ~UnpackNothing /\ ~UnpackLabel /\ ~UnpackReserved
        /\ ~UnpackPointer
    <3>1. ~(b \in 1 .. Q - 1) /\ ~(b \in Q .. 3 * Q - 1) /\ ~(b >= 3 * Q)
      BY <1>0, <2>1
    <3> QED
      BY <1>0, <1>n, <2>1, <3>1 DEF UnpackLabel, UnpackReserved, UnpackPointer
  <2>3. misfit(o) \/ goOn(s, o)
    BY <2>2 DEF UnpackEnd
  <2>4. o \in Nat
    BY <1>0
  <2> HIDE DEF o
  <2>5. ~(isData /\ o # end)
    <3>1. isData => Holds(field, field \div 2)
      BY <1>k, FieldKinds DEF isData, Owns
    <3> QED
      BY <1>2, <2>1, <3>1
  <2>6. ~(isOwner /\ o + 1 = Len(msg))
    <3> SUFFICES ASSUME isOwner PROVE o + 2 <= Len(msg)
      BY <1>0, <2>4
    <3>1. \A i : ~Holds(field, i)
      BY DEF Holds, isOwner
    <3>2. field # 1
      BY DEF isOwner
    <3>3. PICK i : RecordAt(msg, reply.question, reply.answers[i], st[i - 1], e, st[i])
      BY <1>2, <3>1, <3>2 DEF Finished
    <3> QED
      BY <2>1, <3>3 DEF RecordAt
  <2>7. goOn(s, o)
    BY <2>3, <2>5, <2>6 DEF misfit
  <2>8. s = item(reply, field) /\ Finished(reply, msg, st, field, o)
    BY <1>2, <2>1
  <2> QED
    BY <2>4, <2>7, <2>8, FieldGoes
<1>5. CASE NextLabel(msg, off, ptr, off1, s, w, e)
  <2> DEFINE x == (off + 1) + b
             v == Append(s, SubSeq(msg, off + 2, x))
  <2>1. /\ off < Len(msg) /\ b \in 1 .. Q - 1 /\ x <= Len(msg)
        /\ Cursor(msg, x, ptr, off1, v, w, e)
    BY <1>5 DEF NextLabel
  <2>2. /\ ~UnpackBeyond /\ ~UnpackNothing /\ ~UnpackEnd /\ ~UnpackReserved
        /\ ~UnpackPointer
    <3>1. ~(b = 0) /\ ~(b \in Q .. 3 * Q - 1) /\ ~(b >= 3 * Q)
      BY <1>0, <2>1
    <3> QED
      BY <1>0, <1>n, <2>1, <3>1 DEF UnpackEnd, UnpackReserved, UnpackPointer
  <2>3. off + 1 + byte = x /\ ~(x > Len(msg))
    BY <1>0, <2>1
  <2>4. /\ s' = v /\ off' = x
        /\ UNCHANGED <<phase, msg, packVars, ptr, off1, end, read>>
    BY <2>2, <2>3 DEF UnpackLabel
  <2>5. v # <<>>
    <3>1. \E c \in 0 .. Len(w) : v = front(w, c)
      BY <2>1 DEF Cursor
    <3>2. s \in Seq(Label)
      <4>1. \E c \in 0 .. Len(w) : s = front(w, c)
        BY <1>1 DEF Cursor
      <4> QED
        BY <1>2, <4>1, Split DEF Name
    <3> DEFINE y == SubSeq(msg, off + 2, x)
    <3>3. v = Append(s, y)
      OBVIOUS
    <3> HIDE DEF y, v
    <3> QED
      BY <3>2, <3>3
  <2> HIDE DEF x, v
  <2>6. NameRead(reply, msg, st, field, x, ptr, off1, v, end)
    BY <1>1, <2>1, <2>5 DEF NameRead
  <2>7. field' = field /\ reply' = reply
    BY <2>4 DEF field, packVars
  <2>8. FieldRead(reply', msg', st, field', off', ptr', off1', s', end')
    BY <2>4, <2>6, <2>7 DEF FieldRead
  <2>9. isLaid(reply', msg', st) /\ Right(reply', read') /\ phase' = "unpack"
    BY <2>4, <2>7
  <2> QED
    BY <2>8, <2>9 DEF Goes, Reading
<1>6. CASE Follows(msg, off, ptr, off1, s, w, e)
  <2> DEFINE x == pointed(msg, off)
             p == ptr + 1
             k == IF ptr = 0 THEN off + 2 ELSE off1
  <2>1. /\ off + 1 < Len(msg) /\ b >= 3 * Q /\ ptr \in 0 .. 1
        /\ Cursor(msg, x, p, k, s, w, e)
    BY <1>6 DEF Follows
  <2>2. /\ ~UnpackBeyond /\ ~UnpackNothing /\ ~UnpackEnd /\ ~UnpackReserved
        /\ ~UnpackLabel
    <3>1. b \in Nat
      BY <1>0, <2>1, MsgByte
    <3>2. /\ off < Len(msg) /\ ~(b = 0) /\ ~(b \in Q .. 3 * Q - 1)
          /\ ~(b \in 1 .. Q - 1)
      <4> HIDE DEF b, Q
      <4> QED
        BY <1>0, <2>1, <3>1
    <3> QED
      BY <1>0, <1>n, <3>2 DEF UnpackEnd, UnpackReserved, UnpackLabel
  <2>3. ~(off + 1 >= Len(msg)) /\ ~(ptr + 1 > PtrLimit) /\ ptr < PtrLimit
    BY <1>0, <2>1
  <2>4. /\ off1' = k /\ ptr' = p /\ off' = x
        /\ UNCHANGED <<phase, msg, packVars, s, end, read>>
    BY <1>0, <2>2, <2>3 DEF UnpackPointer, tooMany, pointed
  <2>5. p # 0
    BY <2>1
  <2> HIDE DEF x, p, k
  <2>6. NameRead(reply, msg, st, field, x, p, k, s, end)
    BY <1>1, <2>1, <2>5 DEF NameRead
  <2>7. field' = field /\ reply' = reply
    BY <2>4 DEF field, packVars
  <2>8. FieldRead(reply', msg', st, field', off', ptr', off1', s', end')
    BY <2>4, <2>6, <2>7 DEF FieldRead
  <2>9. isLaid(reply', msg', st) /\ Right(reply', read') /\ phase' = "unpack"
    BY <2>4, <2>7
  <2> QED
    BY <2>8, <2>9 DEF Goes, Reading
<1> QED
  BY <1>3, <1>4, <1>5, <1>6

\* So is an address.
LEMMA AddressGoes ==
  ASSUME TypeInv, phase = "unpack", NEW st, isLaid(reply, msg, st), Right(reply, read),
         AddressRead(reply, msg, st, field, off, ptr, s, end),
         UnpackNoData \/ UnpackA
  PROVE  Goes'
<1>1. PICK i : /\ Holds(field, i) /\ reply.answers[i].type = "A" /\ end = st[i]
               /\ ptr = 0 /\ s = <<>> /\ DataAt(msg, reply.answers[i], off, end)
  BY DEF AddressRead
<1>2. /\ field % 2 = 1 /\ field > 1 /\ field \div 2 = i /\ field # 1
  BY <1>1 DEF Holds
<1>3. isData /\ answer = reply.answers[i]
  BY <1>2 DEF isData, answer
<1> DEFINE a == reply.answers[i]
<1>4. item(reply, field) = asIPv4(a.ip) /\ a.type = "A" /\ off \in Nat /\ Len(msg) \in Nat
  BY <1>1, <1>2 DEF item, TypeInv
<1>5. \/ asIPv4(a.ip) = noIP /\ end = off
      \/ /\ asIPv4(a.ip) = [family |-> 4, last |-> msg[off + 1]] /\ off < Len(msg)
         /\ end = off + 1
  BY <1>1 DEF DataAt
<1>6. ASSUME NEW o, o = end PROVE Finished(reply, msg, st, field, o)
  BY <1>1, <1>6 DEF Finished
<1>7. CASE UnpackNoData
  <2>1. off = end /\ goOn(noIP, off)
    BY <1>3, <1>4, <1>7 DEF UnpackNoData, noData
  <2>2. asIPv4(a.ip) = noIP
    BY <1>4, <1>5, <2>1
  <2> DEFINE v == noIP
  <2>3. v = item(reply, field) /\ goOn(v, off)
    BY <1>4, <2>1, <2>2
  <2>4. Finished(reply, msg, st, field, off)
    BY <1>6, <2>1
  <2> HIDE DEF v
  <2> QED
    BY <1>4, <2>3, <2>4, FieldGoes
<1>8. CASE UnpackA
  <2> DEFINE v == [family |-> 4, last |-> byte]
             o == off + 1
  <2>1. ~noData /\ (off >= Len(msg) \/ o # end \/ goOn(v, o))
    BY <1>8 DEF UnpackA
  <2>2. off # end
    BY <1>1, <1>3, <2>1 DEF noData, atStart
  <2>3. asIPv4(a.ip) = v /\ end = o /\ off < Len(msg)
    BY <1>5, <2>2 DEF byte
  <2>a. goOn(v, o)
    BY <1>4, <2>1, <2>3
  <2>4. v = item(reply, field) /\ o \in Nat
    BY <1>4, <2>3
  <2>5. Finished(reply, msg, st, field, o)
    BY <1>6, <2>3
  <2> HIDE DEF v, o
  <2> QED
    BY <2>a, <2>4, <2>5, FieldGoes
<1> QED
  BY <1>7, <1>8

\* What was packed is read without a failure.
LEMMA UnpackGoes ==
  ASSUME TypeInv, phase = "unpack", Reading, Unpack
  PROVE  Goes'
<1>1. PICK st : /\ isLaid(reply, msg, st) /\ Right(reply, read)
                /\ FieldRead(reply, msg, st, field, off, ptr, off1, s, end)
  BY DEF Reading
<1>k. field \in Nat /\ field > 0
  BY DEF field, TypeInv
<1>2. CASE NameRead(reply, msg, st, field, off, ptr, off1, s, end)
  <2>1. PICK w, e :
          /\ NameField(reply, msg, st, field, w, e, end)
          /\ \A i : Holds(field, i) /\ ptr = 0 /\ s = <<>> => off < end
    BY <1>2 DEF NameRead
  <2>2. \A i : Holds(field, i) => reply.answers[i].type # "A"
    BY <2>1 DEF NameField
  <2>3. isData => Holds(field, field \div 2)
    BY <1>k, FieldKinds DEF isData, Owns
  <2>4. ~UnpackA
    BY <2>2, <2>3 DEF UnpackA, answer
  <2>5. ~UnpackNoData
    <3>1. off \in Nat /\ ~(off < off)
      BY DEF TypeInv
    <3> QED
      BY <2>1, <2>3, <3>1 DEF UnpackNoData, noData, atStart
  <2>6. \/ UnpackBeyond \/ UnpackNothing \/ UnpackEnd \/ UnpackLabel \/ UnpackReserved
        \/ UnpackPointer
    BY <2>4, <2>5 DEF Unpack
  <2> QED
    BY <1>1, <1>2, <2>6, NameGoes
<1>3. CASE AddressRead(reply, msg, st, field, off, ptr, s, end)
  <2>1. PICK i : Holds(field, i) /\ reply.answers[i].type = "A"
    BY <1>3 DEF AddressRead
  <2>2. isData /\ answer.type = "A"
    BY <2>1 DEF Holds, isData, answer
  <2>3. ~readsName
    BY <2>2 DEF readsName
  <2>4. UnpackNoData \/ UnpackA
    BY <2>3 DEF Unpack, UnpackBeyond, UnpackNothing, UnpackEnd, UnpackLabel, UnpackReserved,
                UnpackPointer
  <2> QED
    BY <1>1, <1>3, <2>4, AddressGoes
<1> QED
  BY <1>1, <1>2, <1>3 DEF FieldRead

\* the fields of the first n answers
answerFields(r, n) ==
  FlattenSeq([i \in 1 .. n |-> <<item(r, 2 * i), item(r, 2 * i + 1)>>])

\* They are the fields behind the question.
LEMMA AnswerFields ==
  ASSUME NEW r, NEW n \in Nat
  PROVE  /\ \E V : answerFields(r, n) \in Seq(V)
         /\ Len(answerFields(r, n)) = 2 * n
         /\ \A j \in 1 .. 2 * n : answerFields(r, n)[j] = item(r, j + 1)
<1> DEFINE V == {item(r, j) : j \in Nat}
           F(i) == <<item(r, 2 * i), item(r, 2 * i + 1)>>
           good(x, k) ==
             /\ x \in Seq(V) /\ Len(x) = 2 * k
             /\ \A j \in 1 .. 2 * k : x[j] = item(r, j + 1)
           A == {k \in Nat : good(answerFields(r, k), k)}
<1>0. \A i \in Nat : F(i) \in Seq(V)
  <2>1. \A i \in Nat : item(r, 2 * i) \in V /\ item(r, 2 * i + 1) \in V
    <3>1. \A i \in Nat : 2 * i \in Nat /\ 2 * i + 1 \in Nat
      OBVIOUS
    <3> QED
      BY <3>1
  <2> HIDE DEF V
  <2> QED
    BY <2>1
<1>1. 0 \in A
  <2> DEFINE ss == [i \in 1 .. 0 |-> F(i)]
  <2>1. ss = <<>>
    OBVIOUS
  <2>2. FlattenSeq(ss) = <<>>
    BY <2>1, FlattenEmpty
  <2>3. answerFields(r, 0) = <<>>
    BY <2>2 DEF answerFields
  <2>4. <<>> \in Seq(V) /\ Len(<<>>) = 2 * 0 /\ 1 .. 2 * 0 = {}
    <3> HIDE DEF V
    <3> QED
      OBVIOUS
  <2> HIDE DEF V
  <2> QED
    BY <2>3, <2>4
<1>2. ASSUME NEW k \in Nat, k \in A PROVE k + 1 \in A
  <2> DEFINE ss == [i \in 1 .. k |-> F(i)]
             tt == [i \in 1 .. k + 1 |-> F(i)]
             x == answerFields(r, k)
             y == answerFields(r, k + 1)
             f == F(k + 1)
  <2>1. good(x, k)
    BY <1>2
  <2>2. ss \in Seq(Seq(V)) /\ f \in Seq(V)
    <3> HIDE DEF F, V
    <3> QED
      BY <1>0
  <2>3. tt = Append(ss, f)
    <3> HIDE DEF F
    <3> QED
      OBVIOUS
  <2>4. x = FlattenSeq(ss) /\ y = FlattenSeq(tt)
    BY DEF answerFields
  <2>5. f = <<item(r, 2 * (k + 1)), item(r, 2 * (k + 1) + 1)>>
    OBVIOUS
  <2> HIDE DEF V, F, ss, tt, x, y, f
  <2>6. y = x \o f
    BY <2>2, <2>3, <2>4, FlattenAppend
  <2>7. Len(f) = 2 /\ f[1] = item(r, 2 * (k + 1)) /\ f[2] = item(r, 2 * (k + 1) + 1)
    BY <2>5
  <2>a. x \in Seq(V)
    BY <2>1
  <2>8. y \in Seq(V) /\ Len(y) = Len(x) + Len(f)
        /\ (\A i \in 1 .. Len(x) : y[i] = x[i])
        /\ (\A i \in 1 .. Len(f) : y[Len(x) + i] = f[i])
    BY ONLY <2>2, <2>6, <2>a, TwoParts
  <2>9. Len(x) = 2 * k /\ \A j \in 1 .. 2 * k : x[j] = item(r, j + 1)
    BY <2>1
  <2>10. Len(y) = 2 * (k + 1)
    BY <2>7, <2>8, <2>9
  <2>11. ASSUME NEW j \in 1 .. 2 * (k + 1) PROVE y[j] = item(r, j + 1)
    <3>1. CASE j \in 1 .. 2 * k
      BY <2>8, <2>9, <3>1
    <3>2. CASE j = 2 * k + 1
      <4>1. y[2 * k + 1] = f[1] /\ 2 * (k + 1) = j + 1
        BY <2>7, <2>8, <2>9, <3>2
      <4> QED
        BY <2>7, <3>2, <4>1
    <3>3. CASE j = 2 * k + 2
      <4>1. y[2 * k + 2] = f[2] /\ 2 * (k + 1) + 1 = j + 1
        BY <2>7, <2>8, <2>9, <3>3
      <4> QED
        BY <2>7, <3>3, <4>1
    <3>4. j \in 1 .. 2 * k \/ j = 2 * k + 1 \/ j = 2 * k + 2
      OBVIOUS
    <3> QED
      BY <3>1, <3>2, <3>3, <3>4
  <2>12. good(y, k + 1)
    BY <2>8, <2>10, <2>11
  <2> QED
    BY <2>12 DEF y
<1>3. n \in A
  <2> HIDE DEF A
  <2> QED
    BY <1>1, <1>2, NatInSet
<1>4. good(answerFields(r, n), n)
  BY <1>3
<1> HIDE DEF V
<1> QED
  BY <1>4

\* A complete reading is what was packed.
LEMMA ReadsFields ==
  ASSUME TypeInv, Complete, ~reply.truncated
  PROVE  read = fields
<1> DEFINE q == reply.question
           N == Len(reply.answers)
           x == answerFields(reply, N)
<1>0. N \in Nat
  BY DEF TypeInv
<1>1. fields = <<q>> \o x
  <2> DEFINE g(i) == <<q, IF reply.answers[i].type = "A" THEN asIPv4(reply.answers[i].ip)
                                                        ELSE reply.answers[i].name>>
             h(i) == <<item(reply, 2 * i), item(reply, 2 * i + 1)>>
  <2>1. ASSUME NEW i \in 1 .. N PROVE g(i) = h(i)
    <3>1. /\ (2 * i) % 2 = 0 /\ (2 * i + 1) % 2 # 0 /\ 2 * i + 1 # 1
          /\ (2 * i + 1) \div 2 = i
      BY <1>0
    <3> QED
      BY <3>1 DEF item
  <2> DEFINE G == [i \in 1 .. N |-> g(i)]
             H == [i \in 1 .. N |-> h(i)]
  <2>2. G = H
    <3> HIDE DEF g, h
    <3> QED
      BY <2>1
  <2>3. fields = <<q>> \o FlattenSeq(G)
    BY DEF fields
  <2>4. x = FlattenSeq(H)
    BY DEF answerFields
  <2> HIDE DEF G, H, x, q
  <2> QED
    BY <2>2, <2>3, <2>4
<1>2. /\ \E V : x \in Seq(V)
      /\ Len(x) = 2 * N /\ \A j \in 1 .. 2 * N : x[j] = item(reply, j + 1)
  BY <1>0, AnswerFields
<1> HIDE DEF x
<1>3. PICK V : x \in Seq(V)
  BY <1>2
<1> DEFINE W == V \cup {q}
           o == <<q>>
           y == o \o x
<1>4. o \in Seq(W) /\ x \in Seq(W) /\ Len(o) = 1 /\ o[1] = q
  <2>1. q \in W /\ V \subseteq W
    OBVIOUS
  <2> HIDE DEF W, q
  <2> QED
    BY <1>3, <2>1
<1>a. y = o \o x
  OBVIOUS
<1>b. o \in Seq(W) /\ x \in Seq(W)
  BY <1>4
<1> HIDE DEF W, o, y
<1>5. /\ y \in Seq(W) /\ Len(y) = Len(o) + Len(x)
      /\ (\A i \in 1 .. Len(o) : y[i] = o[i])
      /\ (\A i \in 1 .. Len(x) : y[Len(o) + i] = x[i])
  BY ONLY <1>a, <1>b, TwoParts
<1>6. Len(y) = 1 + 2 * N
  BY <1>2, <1>4, <1>5
<1>7. ASSUME NEW j \in 1 .. 1 + 2 * N PROVE y[j] = item(reply, j)
  <2>1. CASE j = 1
    <3>1. y[1] = q
      BY <1>4, <1>5
    <3> QED
      BY <2>1, <3>1 DEF item
  <2>2. CASE j # 1
    <3>1. j - 1 \in 1 .. 2 * N /\ 1 + (j - 1) = j /\ (j - 1) + 1 = j
      BY <1>0, <2>2
    <3>2. y[1 + (j - 1)] = x[j - 1] /\ x[j - 1] = item(reply, (j - 1) + 1)
      BY <1>2, <1>4, <1>5, <3>1
    <3> QED
      BY <3>1, <3>2
  <2> QED
    BY <2>1, <2>2
<1>8. \E S : read \in Seq(S)
  BY DEF TypeInv
<1>9. Len(read) = 1 + 2 * N /\ \A j \in 1 .. 1 + 2 * N : read[j] = item(reply, j)
  <2>1. lastField = 1 + 2 * N
    BY DEF lastField
  <2> QED
    BY <2>1 DEF Complete, Right
<1>10. read = y
  <2>1. PICK S : read \in Seq(S)
    BY <1>8
  <2> DEFINE M == 1 + 2 * N
  <2>2. M \in Nat /\ Len(read) = M /\ Len(y) = M /\ \A j \in 1 .. M : read[j] = y[j]
    BY <1>0, <1>6, <1>7, <1>9
  <2> HIDE DEF M, N
  <2> QED
    BY <1>5, <2>1, <2>2
<1> QED
  BY <1>1, <1>10 DEF y, o

\* Of a truncated reply it is the question.
LEMMA ReadsQuestion ==
  ASSUME TypeInv, Complete, reply.truncated
  PROVE  read = <<reply.question>>
<1>1. lastField = 1
  BY DEF lastField
<1>2. Len(read) = 1 /\ read[1] = item(reply, 1)
  BY <1>1 DEF Complete, Right
<1>3. item(reply, 1) = reply.question
  BY DEF item
<1>4. PICK S : read \in Seq(S)
  BY DEF TypeInv
<1> QED
  BY <1>2, <1>3, <1>4

\* packed, read and complete
TripInv ==
  /\ phase = "pack" => PackedSoFar
  /\ phase = "unpack" /\ packed >= 0 => Reading
  /\ phase = "failed" => packed = -1
  /\ phase = "done" /\ packed >= 0 => Complete

\* Nothing has been packed in the beginning.
LEMMA TripInit == Init => TripInv
<1> SUFFICES ASSUME Init PROVE TripInv
  OBVIOUS
<1>1. packed = -1 /\ ~(packed >= 0) /\ Unread
  BY DEF Init, Unread
<1>2. CASE phase = "pack"
  <2>1. reply \in Replies /\ msg = [i \in 1 .. Header |-> 0] /\ compression = <<>>
    BY <1>2 DEF Init
  <2>2. Len(msg) = Header /\ DOMAIN compression = {}
    BY <2>1, WireAssumption
  <2> QED
    BY <1>1, <1>2, <2>1, <2>2 DEF TripInv, PackedSoFar
<1>3. CASE phase = "unpack"
  BY <1>1, <1>3 DEF TripInv
<1> QED
  BY <1>2, <1>3 DEF Init

\* Every step keeps it.
LEMMA TripNext == TypeInv /\ TripInv /\ [Next]_vars => TripInv'
<1> SUFFICES ASSUME TypeInv, TripInv, [Next]_vars PROVE TripInv'
  OBVIOUS
<1>1. CASE UNCHANGED vars
  <2>1. UNCHANGED <<phase, msg, reply, packed, compression, off, ptr, off1, s, end, read>>
    BY <1>1 DEF vars, packVars, unpackVars
  <2> QED
    BY <2>1 DEF TripInv, PackedSoFar, Unread, Reading, Complete, field, lastField
<1>2. CASE Refuse
  BY <1>2 DEF Refuse, TripInv
<1>3. CASE PackQuestion
  <2>1. phase = "pack" /\ phase' = "pack"
    BY <1>3 DEF PackQuestion
  <2>2. PackedSoFar'
    BY <1>3, <2>1, QuestionLaid DEF TripInv
  <2> QED
    BY <2>1, <2>2 DEF TripInv
<1>4. CASE PackRR
  <2>1. phase = "pack" /\ phase' = "pack"
    BY <1>4 DEF PackRR
  <2>2. PackedSoFar'
    BY <1>4, <2>1, AnswerLaid DEF TripInv
  <2> QED
    BY <2>1, <2>2 DEF TripInv
<1>5. CASE Send
  <2>1. /\ phase = "pack" /\ packed = Len(reply.answers) /\ phase' = "unpack"
        /\ UNCHANGED <<msg, reply, packed, compression, off, ptr, off1, s, end, read>>
    BY <1>5 DEF Send, packVars, unpackVars
  <2>2. PackedSoFar
    BY <2>1 DEF TripInv
  <2>3. /\ reply.question \in Name /\ reply.answers \in Seq(Answer) /\ Len(reply.answers) \in Nat
    BY DEF TypeInv
  <2>4. PICK st : Laid(msg, reply.question, reply.answers, packed, st)
    BY <2>1, <2>2, <2>3 DEF PackedSoFar
  <2>5. isLaid(reply, msg, st)
    BY <2>1, <2>3, <2>4 DEF isLaid
  <2>6. off = Header /\ ptr = 0 /\ s = <<>> /\ read = <<>>
    BY <2>2 DEF PackedSoFar, Unread
  <2>7. field = 1 /\ Right(reply, read)
    BY <2>6 DEF field, Right
  <2>8. FieldRead(reply, msg, st, 1, Header, 0, off1, <<>>, end)
    BY <2>5, ReadsFirst
  <2>9. Reading
    BY <2>5, <2>6, <2>7, <2>8 DEF Reading
  <2>10. Reading'
    BY <2>1, <2>9 DEF Reading, field
  <2> QED
    BY <2>1, <2>10 DEF TripInv
<1>6. CASE Unpack
  <2>1. phase = "unpack"
    BY <1>6 DEF Unpack, UnpackBeyond, UnpackNothing, UnpackEnd, UnpackLabel, UnpackReserved,
                UnpackPointer, UnpackNoData, UnpackA, readsName
  <2>2. packed' = packed /\ packed \in -1 .. Len(reply.answers)
    BY <1>6, UnpackType DEF packVars, TypeInv
  <2>3. phase' # "pack"
    <3>1. \A v, o : goOn(v, o) => phase' # "pack"
      BY DEF goOn
    <3>2. fail => phase' # "pack"
      BY DEF fail
    <3> QED
      BY <1>6, <2>1, <3>1, <3>2
         DEF Unpack, UnpackBeyond, UnpackNothing, UnpackEnd, UnpackLabel, UnpackReserved,
             UnpackPointer, UnpackNoData, UnpackA
  <2>4. CASE packed >= 0
    <3>1. Goes'
      BY <1>6, <2>1, <2>4, UnpackGoes DEF TripInv
    <3> QED
      BY <2>3, <3>1 DEF TripInv, Goes
  <2>5. CASE ~(packed >= 0)
    <3>1. packed' = -1 /\ ~(packed' >= 0)
      BY <2>2, <2>5
    <3> QED
      BY <2>3, <3>1 DEF TripInv
  <2> QED
    BY <2>4, <2>5
<1> QED
  BY <1>1, <1>2, <1>3, <1>4, <1>5, <1>6 DEF Next, Pack

\* What the library reads is what the agent packed, whatever the names of the
\* reply are, however many records it has and wherever the pointers are put: an
\* address of IPv4 comes back, of one of IPv6 its last four bytes do, and of a
\* truncated reply the question.
THEOREM ReadBack == Spec => []RoundTrip
<1>1. TypeInv /\ TripInv => RoundTrip
  <2> SUFFICES ASSUME TypeInv, TripInv, packed >= 0
               PROVE  /\ phase # "failed"
                      /\ phase = "done" =>
                           read = IF reply.truncated THEN <<reply.question>> ELSE fields
    BY DEF RoundTrip
  <2>1. ~(packed = -1)
    BY DEF TypeInv
  <2>2. phase # "failed"
    BY <2>1 DEF TripInv
  <2>3. phase = "done" /\ ~reply.truncated => read = fields
    BY ReadsFields DEF TripInv
  <2>4. phase = "done" /\ reply.truncated => read = <<reply.question>>
    BY ReadsQuestion DEF TripInv
  <2> QED
    BY <2>2, <2>3, <2>4
<1> QED
  BY <1>1, TypeInit, TypeNext, TripInit, TripNext, PTL DEF Spec
=============================================================================
