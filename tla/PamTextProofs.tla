---------------------------- MODULE PamTextProofs ----------------------------
(***************************************************************************)
(* Proofs about PamText, for stacks of any length and any number of lines   *)
(* typed in: the stanza stays one and whole, the edits are those PamFiles   *)
(* speaks of, keep the administrator's lines and let in whom they let in.   *)
(***************************************************************************)
EXTENDS PamText, SequenceTheorems, WellFoundedInduction, TLAPS

-----------------------------------------------------------------------------
(* Induction, with sets where a theorem of the library has an operator.     *)

\* A set of naturals has a least one.
LEMMA FirstOf ==
  ASSUME NEW S \in SUBSET Nat, S # {}
  PROVE  \E i \in S : \A j \in S : i <= j
PROOF
  <1> DEFINE R == {ss \in Nat \X Nat : ss[1] < ss[2]}
  <1>1. IsWellFoundedOn(R, Nat)
    BY Zenon, NatLessThanWellFounded DEF OpToRel
  <1>2. PICK i \in S : \A j \in S : ~(<<j, i>> \in R)
    BY <1>1, WFMin
  <1>3. \A j \in S : j < i => <<j, i>> \in R
    OBVIOUS
  <1>4. \A j \in S : ~(j < i)
    BY Zenon, <1>2, <1>3
  <1> HIDE DEF R
  <1>5. \A j \in S : i <= j
    BY <1>4
  <1> QED  BY <1>5

\* A set with zero and every successor holds all naturals.
LEMMA EveryNat ==
  ASSUME NEW S \in SUBSET Nat, 0 \in S, \A n \in S : n + 1 \in S
  PROVE  S = Nat
PROOF
  <1> SUFFICES ASSUME Nat \ S # {} PROVE FALSE
    OBVIOUS
  <1>1. PICK m \in Nat \ S : \A j \in Nat \ S : m <= j
    <2>1. Nat \ S \in SUBSET Nat
      OBVIOUS
    <2> QED  BY <2>1, FirstOf
  <1>2. m \in Nat /\ m # 0 /\ m - 1 \in Nat /\ (m - 1) + 1 = m /\ ~(m <= m - 1)
    OBVIOUS
  <1>3. m - 1 \in S
    BY <1>1, <1>2
  <1> QED  BY <1>2, <1>3

\* A set with the empty sequence and every extension holds all sequences.
LEMMA EverySeq ==
  ASSUME NEW S, NEW T, <<>> \in T, \A s \in Seq(S), e \in S : s \in T => Append(s, e) \in T
  PROVE  \A s \in Seq(S) : s \in T
PROOF
  <1> DEFINE M == {n \in Nat : \A s \in Seq(S) : Len(s) = n => s \in T}
  <1>1. 0 \in M
    OBVIOUS
  <1>2. ASSUME NEW n \in M PROVE n + 1 \in M
    <2>1. n \in Nat /\ \A s \in Seq(S) : Len(s) = n => s \in T
      BY <1>2
    <2>2. ASSUME NEW t \in Seq(S), Len(t) = n + 1 PROVE t \in T
      <3>1. t # <<>>
        BY <2>1, <2>2
      <3>2. PICK s \in Seq(S), e \in S : t = Append(s, e)
        BY <3>1, SequenceEmptyOrAppend
      <3>3. Len(s) = n
        BY <2>1, <2>2, <3>2
      <3> QED  BY <2>1, <3>2, <3>3
    <2> QED  BY <2>1, <2>2
  <1>3. M \in SUBSET Nat
    OBVIOUS
  <1> HIDE DEF M
  <1>4. M = Nat
    BY <1>1, <1>2, <1>3, EveryNat
  <1> USE DEF M
  <1>5. ASSUME NEW s \in Seq(S) PROVE s \in T
    <2>1. Len(s) \in M
      BY <1>4
    <2> QED  BY <2>1
  <1> QED  BY <1>5

-----------------------------------------------------------------------------
(* FlattenSeq.                                                              *)

\* The sequences flattened so far.
Steps(f, ss, m) == \A i \in 1..m : f[i] = IF i = 1 THEN ss[i] ELSE f[i - 1] \o ss[i]

\* FlattenSeq() opened: the last of its partial concatenations.
LEMMA FlattenDef ==
  ASSUME NEW ss, Len(ss) # 0
  PROVE  FlattenSeq(ss) =
           (CHOOSE f : f = [i \in 1..Len(ss) |-> IF i = 1 THEN ss[i] ELSE f[i - 1] \o ss[i]])[Len(ss)]
  BY DEF FlattenSeq

LEMMA FlattenNone == FlattenSeq(<<>>) = <<>>
  BY DEF FlattenSeq

\* The steps are determined by what is joined.
LEMMA StepsAgree ==
  ASSUME NEW f, NEW g, NEW ss, NEW tt, NEW m \in Nat, Steps(f, ss, m), Steps(g, tt, m),
         \A i \in 1..m : ss[i] = tt[i]
  PROVE  \A i \in 1..m : f[i] = g[i]
PROOF
  <1> DEFINE D == {i \in 1..m : f[i] # g[i]}
  <1> SUFFICES ASSUME D # {} PROVE FALSE
    OBVIOUS
  <1>1. PICK i \in D : \A j \in D : i <= j
    <2>1. D \in SUBSET Nat
      OBVIOUS
    <2> HIDE DEF D
    <2> QED  BY <2>1, FirstOf
  <1>2. i \in 1..m /\ f[i] # g[i]
    OBVIOUS
  <1>3. i # 1 => i - 1 \in 1..m /\ i - 1 \notin D
    BY <1>1, <1>2
  <1>4. i # 1 => f[i - 1] = g[i - 1]
    BY <1>3
  <1> HIDE DEF D
  <1> QED  BY <1>2, <1>4 DEF Steps

\* and there are such steps for every sequence of sequences.
LEMMA StepsExist ==
  ASSUME NEW S, NEW ss \in Seq(Seq(S))
  PROVE  \E f \in [1..Len(ss) -> Seq(S)] : Steps(f, ss, Len(ss))
PROOF
  <1> DEFINE M == {m \in Nat : m <= Len(ss) => \E f \in [1..m -> Seq(S)] : Steps(f, ss, m)}
  <1>1. 0 \in M
    <2>1. [i \in 1..0 |-> <<>>] \in [1..0 -> Seq(S)]
      OBVIOUS
    <2>2. Steps([i \in 1..0 |-> <<>>], ss, 0)
      BY DEF Steps
    <2> QED  BY <2>1, <2>2
  <1>2. ASSUME NEW m \in M PROVE m + 1 \in M
    <2>1. m \in Nat
      OBVIOUS
    <2> SUFFICES ASSUME m + 1 <= Len(ss)
                 PROVE  \E f \in [1..m + 1 -> Seq(S)] : Steps(f, ss, m + 1)
      BY <2>1
    <2>2. PICK f \in [1..m -> Seq(S)] : Steps(f, ss, m)
      BY <2>1
    <2> DEFINE last == IF m = 0 THEN ss[1] ELSE f[m] \o ss[m + 1]
               g == [i \in 1..m + 1 |-> IF i <= m THEN f[i] ELSE last]
    <2>3. last \in Seq(S)
      <3>1. ss[m + 1] \in Seq(S)
        BY <2>1
      <3>2. m # 0 => f[m] \in Seq(S)
        BY <2>1
      <3> QED  BY <3>1, <3>2
    <2>4. g \in [1..m + 1 -> Seq(S)]
      BY <2>1, <2>3
    <2>5. Steps(g, ss, m + 1)
      <3> SUFFICES ASSUME NEW i \in 1..m + 1
                   PROVE  g[i] = IF i = 1 THEN ss[i] ELSE g[i - 1] \o ss[i]
        BY DEF Steps
      <3>1. CASE i <= m
        <4>1. g[i] = f[i] /\ (i # 1 => g[i - 1] = f[i - 1]) /\ i \in 1..m
          BY <2>1, <3>1
        <4> QED  BY <2>2, <4>1 DEF Steps
      <3>2. CASE i = m + 1
        <4>1. g[i] = last /\ (i # 1 => i - 1 = m /\ m # 0 /\ g[i - 1] = f[m])
          BY <2>1, <3>2
        <4> HIDE DEF g
        <4> QED  BY <2>1, <3>2, <4>1
      <3> QED  BY <2>1, <3>1, <3>2
    <2> QED  BY <2>4, <2>5
  <1>3. M \in SUBSET Nat
    OBVIOUS
  <1> HIDE DEF M
  <1>4. M = Nat
    BY <1>1, <1>2, <1>3, EveryNat
  <1>5. Len(ss) \in M /\ Len(ss) <= Len(ss)
    BY <1>4
  <1> QED  BY <1>5 DEF M

\* What FlattenSeq gives is the last of the steps.
LEMMA FlattenIs ==
  ASSUME NEW S, NEW ss \in Seq(Seq(S)), NEW f, ss # <<>>, Steps(f, ss, Len(ss))
  PROVE  FlattenSeq(ss) = f[Len(ss)]
PROOF
  <1> DEFINE n == Len(ss)
             G(h) == [i \in 1..n |-> IF i = 1 THEN ss[i] ELSE h[i - 1] \o ss[i]]
             c == CHOOSE h : h = G(h)
  <1>1. n \in Nat /\ n # 0 /\ n \in 1..n
    OBVIOUS
  <1>2. \E h : h = G(h)
    <2>1. PICK g \in [1..n -> Seq(S)] : Steps(g, ss, n)
      BY <1>1, StepsExist
    <2>2. g = G(g)
      BY <2>1 DEF Steps
    <2> QED  BY <2>2
  <1>3. c = G(c)
    BY <1>2
  <1>4. Steps(c, ss, n)
    <2> HIDE DEF c
    <2>1. \A i \in 1..n : G(c)[i] = IF i = 1 THEN ss[i] ELSE c[i - 1] \o ss[i]
      OBVIOUS
    <2> QED  BY <1>3, <2>1 DEF Steps
  <1>5. FlattenSeq(ss) = c[n]
    BY <1>1, FlattenDef
  <1> HIDE DEF c
  <1>6. \A i \in 1..n : c[i] = f[i]
    BY <1>1, <1>4, StepsAgree
  <1> QED  BY <1>1, <1>5, <1>6

\* The concatenation is of the same elements.
LEMMA FlattenType ==
  ASSUME NEW S, NEW ss \in Seq(Seq(S))
  PROVE  FlattenSeq(ss) \in Seq(S)
PROOF
  <1>1. CASE ss = <<>>
    <2>1. <<>> \in Seq(S)
      OBVIOUS
    <2> QED  BY <1>1, <2>1, FlattenNone
  <1>2. CASE ss # <<>>
    <2>1. Len(ss) \in Nat /\ Len(ss) \in 1..Len(ss)
      BY <1>2
    <2>2. PICK f \in [1..Len(ss) -> Seq(S)] : Steps(f, ss, Len(ss))
      BY <2>1, StepsExist
    <2>3. FlattenSeq(ss) = f[Len(ss)]
      BY <1>2, <2>2, FlattenIs
    <2> QED  BY <2>1, <2>2, <2>3
  <1> QED  BY <1>1, <1>2

\* One sequence more.
LEMMA FlattenAppend ==
  ASSUME NEW S, NEW ss \in Seq(Seq(S)), NEW x \in Seq(S)
  PROVE  FlattenSeq(Append(ss, x)) = FlattenSeq(ss) \o x
PROOF
  <1> DEFINE tt == Append(ss, x)
             n == Len(ss)
  <1>1. /\ tt \in Seq(Seq(S)) /\ Len(tt) = n + 1 /\ n \in Nat /\ tt # <<>>
        /\ (\A i \in 1..n : tt[i] = ss[i]) /\ tt[n + 1] = x
    <2>1. Seq(S) # {}
      OBVIOUS
    <2> QED  BY AppendProperties
  <1> HIDE DEF tt
  <1>2. PICK f \in [1..n + 1 -> Seq(S)] : Steps(f, tt, n + 1)
    <2>1. PICK f \in [1..Len(tt) -> Seq(S)] : Steps(f, tt, Len(tt))
      BY <1>1, StepsExist
    <2> QED  BY <1>1, <2>1
  <1>s. \A i \in 1..n + 1 : f[i] = IF i = 1 THEN tt[i] ELSE f[i - 1] \o tt[i]
    BY <1>2 DEF Steps
  <1>3. FlattenSeq(tt) = f[n + 1]
    BY <1>1, <1>2, FlattenIs
  <1>4. CASE n = 0
    <2>1. f[1] = x
      BY <1>1, <1>2, <1>4 DEF Steps
    <2>2. ss = <<>>
      BY <1>4
    <2> QED  BY <1>3, <1>4, <2>1, <2>2, FlattenNone, ConcatEmptySeq DEF tt
  <1>5. CASE n # 0
    <2>1. Steps(f, ss, n)
      <3> SUFFICES ASSUME NEW i \in 1..n
                   PROVE  f[i] = IF i = 1 THEN ss[i] ELSE f[i - 1] \o ss[i]
        BY DEF Steps
      <3>1. i \in 1..n + 1 /\ tt[i] = ss[i]
        BY <1>1
      <3> QED  BY <1>s, <3>1
    <2>2. FlattenSeq(ss) = f[n]
      <3>1. ss # <<>>
        BY <1>5
      <3> QED  BY <2>1, <3>1, FlattenIs
    <2>3. f[n + 1] = f[n] \o x
      <3>1. n + 1 \in 1..n + 1 /\ n + 1 # 1 /\ (n + 1) - 1 = n
        BY <1>1, <1>5
      <3>2. f[n + 1] = f[(n + 1) - 1] \o tt[n + 1]
        BY <1>s, <3>1
      <3> QED  BY <1>1, <3>1, <3>2
    <2> QED  BY <1>3, <2>2, <2>3 DEF tt
  <1> QED  BY <1>4, <1>5

\* Two sequences of sequences, joined one after the other.
LEMMA FlattenConcat ==
  ASSUME NEW S, NEW ss \in Seq(Seq(S)), NEW tt \in Seq(Seq(S))
  PROVE  FlattenSeq(ss \o tt) = FlattenSeq(ss) \o FlattenSeq(tt)
PROOF
  <1> DEFINE T == {uu \in Seq(Seq(S)) : FlattenSeq(ss \o uu) = FlattenSeq(ss) \o FlattenSeq(uu)}
  <1>1. <<>> \in T
    <2>1. ss \o <<>> = ss /\ FlattenSeq(ss) \in Seq(S)
      BY FlattenType, ConcatEmptySeq
    <2>2. FlattenSeq(ss) \o <<>> = FlattenSeq(ss)
      BY <2>1, ConcatEmptySeq
    <2> QED  BY <2>1, <2>2, FlattenNone
  <1>2. ASSUME NEW uu \in Seq(Seq(S)), NEW e \in Seq(S), uu \in T
        PROVE  Append(uu, e) \in T
    <2>1. Append(uu, e) \in Seq(Seq(S)) /\ ss \o uu \in Seq(Seq(S))
      OBVIOUS
    <2>2. ss \o Append(uu, e) = Append(ss \o uu, e)
      <3>1. Append(uu, e) = uu \o <<e>> /\ Append(ss \o uu, e) = (ss \o uu) \o <<e>>
        BY <2>1, AppendIsConcat
      <3>2. <<e>> \in Seq(Seq(S))
        OBVIOUS
      <3> QED  BY <3>1, <3>2, ConcatAssociative
    <2>3. FlattenSeq(Append(ss \o uu, e)) = FlattenSeq(ss \o uu) \o e
      BY <2>1, FlattenAppend
    <2>4. FlattenSeq(Append(uu, e)) = FlattenSeq(uu) \o e
      BY FlattenAppend
    <2>5. FlattenSeq(ss \o uu) = FlattenSeq(ss) \o FlattenSeq(uu)
      BY <1>2
    <2>6. (FlattenSeq(ss) \o FlattenSeq(uu)) \o e = FlattenSeq(ss) \o (FlattenSeq(uu) \o e)
      <3>1. FlattenSeq(ss) \in Seq(S) /\ FlattenSeq(uu) \in Seq(S)
        BY FlattenType
      <3> QED  BY SMTT(30), <3>1, ConcatAssociative
    <2> QED  BY <2>1, <2>2, <2>3, <2>4, <2>5, <2>6
  <1> HIDE DEF T
  <1>3. tt \in T
    BY <1>1, <1>2, EverySeq
  <1> QED  BY <1>3 DEF T

-----------------------------------------------------------------------------
(* The administrator's lines.                                               *)

OwnOf(l) == IF l = "off" THEN <<"howdy">> ELSE IF l \in TypedKinds THEN <<l>> ELSE <<>>
OwnMap(t) == [i \in DOMAIN t |-> OwnOf(t[i])]

\* A function over 1..n is a sequence.
LEMMA MapSeq ==
  ASSUME NEW S, NEW n \in Nat, NEW f, DOMAIN f = 1..n, f = [i \in DOMAIN f |-> f[i]],
         \A i \in 1..n : f[i] \in S
  PROVE  f \in Seq(S) /\ Len(f) = n
PROOF
  <1>1. f \in [1..n -> S]
    OBVIOUS
  <1>2. f \in Seq(S)
    BY <1>1
  <1> QED  BY <1>1, <1>2, LenProperties

\* Own() as a concatenation, with its parts.
LEMMA OwnIs == \A t : Own(t) = FlattenSeq(OwnMap(t))
  BY DEF Own, OwnMap, OwnOf

LEMMA OwnMapSeq ==
  ASSUME NEW t \in Seq(Kinds)
  PROVE  /\ OwnMap(t) \in Seq(Seq(Kinds)) /\ Len(OwnMap(t)) = Len(t)
         /\ \A i \in 1..Len(t) : OwnMap(t)[i] = OwnOf(t[i])
PROOF
  <1>1. DOMAIN t = 1..Len(t) /\ Len(t) \in Nat
    OBVIOUS
  <1>2. \A i \in 1..Len(t) : OwnMap(t)[i] = OwnOf(t[i])
    BY <1>1 DEF OwnMap
  <1>3. \A l : OwnOf(l) \in Seq(Kinds)
    <2>1. "howdy" \in Kinds /\ TypedKinds \subseteq Kinds
      BY DEF Kinds, TypedKinds
    <2>2. <<"howdy">> \in Seq(Kinds) /\ <<>> \in Seq(Kinds)
      BY <2>1
    <2>3. \A l \in TypedKinds : <<l>> \in Seq(Kinds)
      BY <2>1
    <2> QED  BY <2>2, <2>3 DEF OwnOf
  <1>4. DOMAIN OwnMap(t) = 1..Len(t) /\ OwnMap(t) = [i \in DOMAIN OwnMap(t) |-> OwnMap(t)[i]]
    BY <1>1 DEF OwnMap
  <1>5. \A i \in 1..Len(t) : OwnMap(t)[i] \in Seq(Kinds)
    BY <1>2, <1>3
  <1> QED  BY <1>1, <1>2, <1>4, <1>5, MapSeq

LEMMA OwnType ==
  ASSUME NEW t \in Seq(Kinds)
  PROVE  Own(t) \in Seq(Kinds)
  BY OwnIs, OwnMapSeq, FlattenType

\* What is the administrator's in a text and in another after it.
LEMMA OwnConcat ==
  ASSUME NEW s \in Seq(Kinds), NEW t \in Seq(Kinds)
  PROVE  Own(s \o t) = Own(s) \o Own(t)
PROOF
  <1>1. /\ s \o t \in Seq(Kinds) /\ Len(s \o t) = Len(s) + Len(t)
        /\ \A i \in 1..Len(s) + Len(t) :
             (s \o t)[i] = IF i <= Len(s) THEN s[i] ELSE t[i - Len(s)]
    BY ConcatProperties
  <1> DEFINE a == OwnMap(s)
             b == OwnMap(t)
             c == OwnMap(s \o t)
  <1>2. /\ a \in Seq(Seq(Kinds)) /\ Len(a) = Len(s) /\ \A i \in 1..Len(s) : a[i] = OwnOf(s[i])
        /\ b \in Seq(Seq(Kinds)) /\ Len(b) = Len(t) /\ \A i \in 1..Len(t) : b[i] = OwnOf(t[i])
        /\ c \in Seq(Seq(Kinds)) /\ Len(c) = Len(s \o t)
        /\ \A i \in 1..Len(s \o t) : c[i] = OwnOf((s \o t)[i])
    BY <1>1, OwnMapSeq
  <1> HIDE DEF a, b, c
  <1>3. /\ a \o b \in Seq(Seq(Kinds)) /\ Len(a \o b) = Len(a) + Len(b)
        /\ \A i \in 1..Len(a) + Len(b) :
             (a \o b)[i] = IF i <= Len(a) THEN a[i] ELSE b[i - Len(a)]
    <2>1. a \in Seq(Seq(Kinds)) /\ b \in Seq(Seq(Kinds))
      BY <1>2
    <2> QED  BY <2>1, ConcatProperties
  <1>4. ASSUME NEW i \in 1..Len(c) PROVE c[i] = (a \o b)[i]
    <2>0. Len(s) \in Nat /\ Len(t) \in Nat /\ i \in 1..Len(s) + Len(t)
      BY <1>1, <1>2
    <2>1. CASE i <= Len(s)
      BY <1>1, <1>2, <1>3, <2>0, <2>1
    <2>2. CASE ~(i <= Len(s))
      <3>1. i - Len(s) \in 1..Len(t)
        BY <2>0, <2>2
      <3> QED  BY <1>1, <1>2, <1>3, <2>0, <2>2, <3>1
    <2> QED  BY <2>1, <2>2
  <1>5. c = a \o b
    <2>1. Len(c) = Len(a \o b)
      BY <1>1, <1>2, <1>3
    <2> QED  BY <1>2, <1>3, <1>4, <2>1, SeqEqual
  <1>6. FlattenSeq(a \o b) = FlattenSeq(a) \o FlattenSeq(b)
    BY <1>2, FlattenConcat
  <1> QED  BY <1>5, <1>6, OwnIs DEF a, b, c

LEMMA OwnNone == Own(<<>>) = <<>>
PROOF
  <1>1. <<>> \in Seq(Kinds) /\ Len(<<>>) = 0
    OBVIOUS
  <1>2. OwnMap(<<>>) = <<>>
    <2>1. OwnMap(<<>>) \in Seq(Seq(Kinds)) /\ Len(OwnMap(<<>>)) = 0
      BY <1>1, OwnMapSeq
    <2> QED  BY <2>1
  <1> QED  BY <1>2, OwnIs, FlattenNone

\* One line.
LEMMA OwnOne ==
  ASSUME NEW l \in Kinds
  PROVE  Own(<<l>>) = OwnOf(l)
PROOF
  <1>1. <<l>> \in Seq(Kinds) /\ Len(<<l>>) = 1 /\ <<l>>[1] = l
    OBVIOUS
  <1>2. OwnMap(<<l>>) \in Seq(Seq(Kinds)) /\ Len(OwnMap(<<l>>)) = 1
        /\ OwnMap(<<l>>)[1] = OwnOf(l) /\ OwnOf(l) \in Seq(Kinds)
    <2>1. /\ OwnMap(<<l>>) \in Seq(Seq(Kinds)) /\ Len(OwnMap(<<l>>)) = Len(<<l>>)
          /\ \A i \in 1..Len(<<l>>) : OwnMap(<<l>>)[i] = OwnOf(<<l>>[i])
      BY <1>1, OwnMapSeq
    <2> DEFINE t == <<l>>
    <2>2. Len(t) = 1 /\ t[1] = l
      BY <1>1
    <2> HIDE DEF t
    <2>3. /\ OwnMap(t) \in Seq(Seq(Kinds)) /\ Len(OwnMap(t)) = 1
          /\ OwnMap(t)[1] = OwnOf(l)
      BY <2>1, <2>2 DEF t
    <2> QED  BY <2>3 DEF t
  <1>4. <<>> \in Seq(Seq(Kinds)) /\ Len(<<>>) = 0
    OBVIOUS
  <1>3. OwnMap(<<l>>) = Append(<<>>, OwnOf(l))
    <2> DEFINE m == OwnMap(<<l>>)
               p == Append(<<>>, OwnOf(l))
    <2>1. p \in Seq(Seq(Kinds)) /\ Len(p) = 1 /\ p[1] = OwnOf(l)
      BY <1>2, <1>4, AppendProperties
    <2>2. m \in Seq(Seq(Kinds)) /\ Len(m) = 1 /\ m[1] = OwnOf(l)
      BY <1>2
    <2> HIDE DEF m, p
    <2>3. m = p
      BY <2>1, <2>2, SeqEqual
    <2> QED  BY <2>3 DEF m, p
  <1>5. FlattenSeq(Append(<<>>, OwnOf(l))) = FlattenSeq(<<>>) \o OwnOf(l)
    BY <1>2, <1>4, FlattenAppend
  <1>6. <<>> \o OwnOf(l) = OwnOf(l)
    BY <1>2, ConcatEmptySeq
  <1> QED  BY <1>3, <1>5, <1>6, OwnIs, FlattenNone

\* What is the administrator's in a text made of parts.
LEMMA OwnFlatten ==
  ASSUME NEW ss \in Seq(Seq(Kinds))
  PROVE  Own(FlattenSeq(ss)) = FlattenSeq([i \in DOMAIN ss |-> Own(ss[i])])
PROOF
  <1> DEFINE Each(uu) == [i \in DOMAIN uu |-> Own(uu[i])]
             T == {uu \in Seq(Seq(Kinds)) : Own(FlattenSeq(uu)) = FlattenSeq(Each(uu))}
  <1>0. ASSUME NEW uu \in Seq(Seq(Kinds))
        PROVE  /\ Each(uu) \in Seq(Seq(Kinds)) /\ Len(Each(uu)) = Len(uu)
               /\ \A i \in 1..Len(uu) : Each(uu)[i] = Own(uu[i])
    <2>1. DOMAIN Each(uu) = 1..Len(uu) /\ Len(uu) \in Nat
          /\ Each(uu) = [i \in DOMAIN Each(uu) |-> Each(uu)[i]]
      OBVIOUS
    <2>2. \A i \in 1..Len(uu) : Each(uu)[i] = Own(uu[i])
      OBVIOUS
    <2>3. \A i \in 1..Len(uu) : Own(uu[i]) \in Seq(Kinds)
      BY OwnType
    <2> HIDE DEF Each
    <2>4. \A i \in 1..Len(uu) : Each(uu)[i] \in Seq(Kinds)
      BY <2>2, <2>3
    <2> QED  BY <2>1, <2>2, <2>4, MapSeq
  <1>1. <<>> \in T
    <2>1. Each(<<>>) = <<>>
      OBVIOUS
    <2> HIDE DEF Each
    <2> QED  BY <2>1, FlattenNone, OwnNone
  <1>2. ASSUME NEW uu \in Seq(Seq(Kinds)), NEW e \in Seq(Kinds), uu \in T
        PROVE  Append(uu, e) \in T
    <2> DEFINE vv == Append(uu, e)
    <2>1. vv \in Seq(Seq(Kinds)) /\ Len(vv) = Len(uu) + 1 /\ vv[Len(uu) + 1] = e
          /\ (\A i \in 1..Len(uu) : vv[i] = uu[i]) /\ Len(uu) \in Nat
      OBVIOUS
    <2>2. FlattenSeq(vv) = FlattenSeq(uu) \o e
      BY FlattenAppend
    <2>3. Own(FlattenSeq(uu)) = FlattenSeq(Each(uu))
      BY <1>2
    <2>4. Own(FlattenSeq(uu) \o e) = Own(FlattenSeq(uu)) \o Own(e)
      BY FlattenType, OwnConcat
    <2> HIDE DEF vv
    <2>5. /\ Each(vv) \in Seq(Seq(Kinds)) /\ Len(Each(vv)) = Len(uu) + 1
          /\ \A i \in 1..Len(uu) + 1 : Each(vv)[i] = Own(vv[i])
      BY <1>0, <2>1
    <2>6. /\ Each(uu) \in Seq(Seq(Kinds)) /\ Len(Each(uu)) = Len(uu)
          /\ \A i \in 1..Len(uu) : Each(uu)[i] = Own(uu[i])
      BY <1>0
    <2> HIDE DEF Each
    <2>7. Own(e) \in Seq(Kinds)
      BY OwnType
    <2>8. Each(vv) = Append(Each(uu), Own(e))
      <3>1. /\ Append(Each(uu), Own(e)) \in Seq(Seq(Kinds))
            /\ Len(Append(Each(uu), Own(e))) = Len(uu) + 1
            /\ \A i \in 1..Len(uu) : Append(Each(uu), Own(e))[i] = Each(uu)[i]
            /\ Append(Each(uu), Own(e))[Len(uu) + 1] = Own(e)
        BY <2>6, <2>7, AppendProperties
      <3>2. ASSUME NEW i \in 1..Len(uu) + 1
            PROVE  Each(vv)[i] = Append(Each(uu), Own(e))[i]
        <4>1. CASE i \in 1..Len(uu)
          BY <2>1, <2>5, <2>6, <3>1, <4>1
        <4>2. CASE i = Len(uu) + 1
          BY <2>1, <2>5, <3>1, <4>2
        <4>3. i \in 1..Len(uu) \/ i = Len(uu) + 1
          OBVIOUS
        <4> QED  BY <4>1, <4>2, <4>3
      <3> QED  BY SMTT(30), <2>1, <2>5, <3>1, <3>2, SeqEqual
    <2>9. FlattenSeq(Append(Each(uu), Own(e))) = FlattenSeq(Each(uu)) \o Own(e)
      BY <2>6, <2>7, FlattenAppend
    <2>10. Own(FlattenSeq(vv)) = FlattenSeq(Each(vv))
      BY <2>2, <2>3, <2>4, <2>8, <2>9
    <2> QED  BY <2>1, <2>10 DEF vv
  <1> HIDE DEF T
  <1>3. ss \in T
    BY <1>1, <1>2, EverySeq
  <1> QED  BY <1>3 DEF T

-----------------------------------------------------------------------------
(* Where the lines of a rewritten text come from.                           *)

\* The i-th sequence of ss stands in F after its first o[i - 1] elements.
LaidOut(ss, F, o) ==
  /\ o \in [0..Len(ss) -> Nat] /\ o[0] = 0 /\ o[Len(ss)] = Len(F)
  /\ \A i \in 1..Len(ss) : o[i] = o[i - 1] + Len(ss[i])
  /\ \A i, j \in 0..Len(ss) : i <= j => o[i] <= o[j]
  /\ \A i \in 1..Len(ss) : \A k \in 1..Len(ss[i]) : F[o[i - 1] + k] = ss[i][k]
  /\ \A p \in 1..Len(F) : \E i \in 1..Len(ss) : \E k \in 1..Len(ss[i]) : p = o[i - 1] + k

\* Every concatenation is laid out in this way.
LEMMA Layout ==
  ASSUME NEW S, NEW ss \in Seq(Seq(S))
  PROVE  \E o : LaidOut(ss, FlattenSeq(ss), o)
PROOF
  <1> DEFINE T == {uu \in Seq(Seq(S)) : \E o : LaidOut(uu, FlattenSeq(uu), o)}
  <1>1. <<>> \in T
    <2> DEFINE o == [i \in 0..0 |-> 0]
    <2>1. Len(<<>>) = 0 /\ <<>> \in Seq(Seq(S))
      OBVIOUS
    <2>2. LaidOut(<<>>, <<>>, o)
      BY <2>1 DEF LaidOut
    <2> QED  BY <2>1, <2>2, FlattenNone
  <1>2. ASSUME NEW uu \in Seq(Seq(S)), NEW e \in Seq(S), uu \in T
        PROVE  Append(uu, e) \in T
    <2> DEFINE n == Len(uu)
               vv == Append(uu, e)
               F == FlattenSeq(uu)
               G == F \o e
    <2>1. PICK o : LaidOut(uu, F, o)
      BY <1>2
    <2>2. /\ vv \in Seq(Seq(S)) /\ Len(vv) = n + 1 /\ vv[n + 1] = e /\ n \in Nat
          /\ \A i \in 1..n : vv[i] = uu[i]
      OBVIOUS
    <2>3. F \in Seq(S)
      BY FlattenType
    <2>4. /\ Len(G) = Len(F) + Len(e) /\ Len(F) \in Nat /\ Len(e) \in Nat
          /\ \A i \in 1..Len(F) : G[i] = F[i]
          /\ \A i \in 1..Len(e) : G[Len(F) + i] = e[i]
      BY <2>3, ConcatProperties
    <2>5. FlattenSeq(vv) = G
      BY FlattenAppend
    <2>6. /\ o \in [0..n -> Nat] /\ o[0] = 0 /\ o[n] = Len(F)
          /\ \A i \in 1..n : o[i] = o[i - 1] + Len(uu[i])
          /\ \A i, j \in 0..n : i <= j => o[i] <= o[j]
          /\ \A i \in 1..n : \A k \in 1..Len(uu[i]) : F[o[i - 1] + k] = uu[i][k]
          /\ \A p \in 1..Len(F) : \E i \in 1..n : \E k \in 1..Len(uu[i]) : p = o[i - 1] + k
      BY <2>1 DEF LaidOut
    <2>n. n \in Nat
      BY <2>2
    <2>l. \A i \in 1..n : Len(uu[i]) \in Nat
      OBVIOUS
    <2> DEFINE q == [i \in 0..n + 1 |-> IF i <= n THEN o[i] ELSE Len(F) + Len(e)]
    <2>7. /\ q \in [0..n + 1 -> Nat] /\ q[n + 1] = Len(G)
          /\ \A i \in 0..n : q[i] = o[i]
      BY <2>2, <2>4, <2>6
    <2> HIDE DEF vv, F, G, q, n
    <2>8. ASSUME NEW i \in 1..n + 1
          PROVE  q[i] = q[i - 1] + Len(vv[i])
      <3>1. CASE i \in 1..n
        <4>1. i \in 0..n /\ i - 1 \in 0..n
          BY <2>2, <3>1
        <4> QED  BY <2>2, <2>6, <2>7, <3>1, <4>1
      <3>2. CASE i = n + 1
        <4>1. n \in 0..n /\ i - 1 = n
          BY <2>n, <3>2
        <4> QED  BY <2>2, <2>4, <2>6, <2>7, <3>2, <4>1
      <3>3. i \in 1..n \/ i = n + 1
        BY <2>2
      <3> QED  BY <3>1, <3>2, <3>3
    <2>9. ASSUME NEW i \in 0..n + 1, NEW j \in 0..n + 1, i <= j
          PROVE  q[i] <= q[j]
      <3>1. CASE j \in 0..n
        <4>1. i \in 0..n
          BY <2>2, <2>9, <3>1
        <4> QED  BY <2>6, <2>7, <2>9, <3>1, <4>1
      <3>2. CASE i = n + 1
        <4>1. j = n + 1
          BY <2>2, <2>9, <3>2
        <4> QED  BY <2>7, <3>2, <4>1
      <3>3. CASE i \in 0..n /\ j = n + 1
        <4>1. n \in 0..n /\ i <= n
          BY <2>2, <3>3
        <4>2. o[i] <= o[n] /\ o[i] \in Nat
          BY <2>6, <3>3, <4>1
        <4> QED  BY <2>4, <2>6, <2>7, <3>3, <4>2
      <3>4. j \in 0..n \/ i = n + 1 \/ (i \in 0..n /\ j = n + 1)
        BY <2>2, <2>9
      <3> QED  BY <3>1, <3>2, <3>3, <3>4
    <2>10. ASSUME NEW i \in 1..n + 1, NEW k \in 1..Len(vv[i])
           PROVE  G[q[i - 1] + k] = vv[i][k]
      <3>1. CASE i \in 1..n
        <4>1. i \in 0..n /\ i - 1 \in 0..n /\ vv[i] = uu[i] /\ k \in 1..Len(uu[i])
          BY <2>2, <3>1
        <4>2. F[o[i - 1] + k] = uu[i][k]
          BY <2>6, <3>1, <4>1
        <4>3. o[i - 1] + k \in 1..Len(F)
          <5>1. o[i] = o[i - 1] + Len(uu[i]) /\ o[i - 1] \in Nat /\ o[i] \in Nat
            BY <2>6, <3>1, <4>1
          <5>2. o[i] <= Len(F)
            <6>1. n \in 0..n /\ i <= n
              BY <2>2, <3>1
            <6> QED  BY <2>6, <4>1, <6>1
          <5>3. Len(uu[i]) \in Nat
            BY <2>l, <3>1
          <5>4. k \in Nat /\ 1 <= k /\ k <= Len(uu[i])
            BY <4>1, <5>3
          <5>5. Len(F) \in Nat
            BY <2>4
          <5>6. \A a, b, l, c, m \in Nat : b = a + l /\ b <= m /\ 1 <= c /\ c <= l => a + c \in 1..m
            OBVIOUS
          <5> QED  BY <5>1, <5>2, <5>3, <5>4, <5>5, <5>6
        <4> QED  BY <2>4, <2>7, <4>1, <4>2, <4>3
      <3>2. CASE i = n + 1
        <4>0. n \in 0..n /\ i - 1 = n
          BY <2>n, <3>2
        <4>1. n \in 0..n /\ i - 1 = n /\ vv[i] = e /\ k \in 1..Len(e)
          BY <2>2, <3>2, <4>0
        <4>2. q[i - 1] = Len(F)
          <5>1. q[n] = o[n]
            BY <2>7, <4>1
          <5> QED  BY <2>6, <4>1, <5>1
        <4>3. G[Len(F) + k] = e[k]
          BY <2>4, <4>1
        <4> QED  BY <4>1, <4>2, <4>3
      <3>3. i \in 1..n \/ i = n + 1
        BY <2>2
      <3> QED  BY <3>1, <3>2, <3>3
    <2>11. ASSUME NEW p \in 1..Len(G)
           PROVE  \E i \in 1..n + 1 : \E k \in 1..Len(vv[i]) : p = q[i - 1] + k
      <3>1. CASE p \in 1..Len(F)
        <4>0. PICK i \in 1..n : \E k \in 1..Len(uu[i]) : p = o[i - 1] + k
          BY <2>6, <3>1
        <4>1. PICK k \in 1..Len(uu[i]) : p = o[i - 1] + k
          BY <4>0
        <4>2. i \in 1..n + 1 /\ i - 1 \in 0..n /\ vv[i] = uu[i]
          BY <2>2
        <4> QED  BY <2>7, <4>1, <4>2
      <3>2. CASE p \in Len(F) + 1 .. Len(F) + Len(e)
        <4>1. p - Len(F) \in 1..Len(e) /\ p = Len(F) + (p - Len(F))
          BY <2>4, <3>2
        <4>2. n + 1 \in 1..n + 1 /\ (n + 1) - 1 = n /\ n \in 0..n
          BY <2>2
        <4>3. q[(n + 1) - 1] = Len(F) /\ vv[n + 1] = e
          BY <2>2, <2>6, <2>7, <4>2
        <4> QED  BY <4>1, <4>2, <4>3
      <3>3. p \in 1..Len(F) \/ p \in Len(F) + 1 .. Len(F) + Len(e)
        BY <2>4
      <3> QED  BY <3>1, <3>2, <3>3
    <2>12. q[0] = 0
      <3>1. 0 \in 0..n
        BY <2>2
      <3> QED  BY <2>6, <2>7, <3>1
    <2>13. LaidOut(vv, G, q)
      BY <2>2, <2>7, <2>8, <2>9, <2>10, <2>11, <2>12 DEF LaidOut
    <2>14. LaidOut(vv, FlattenSeq(vv), q)
      BY <2>5, <2>13
    <2> QED  BY <2>2, <2>14 DEF vv
  <1> HIDE DEF T
  <1>3. ss \in T
    BY <1>1, <1>2, EverySeq
  <1> QED  BY <1>3 DEF T

-----------------------------------------------------------------------------
(* The shape of a text: the inductive invariant.                            *)

\* WellFormed, and that the stanza does not run over the end of the text.
Shape(t) ==
  /\ t \in Seq(Kinds)
  /\ \A i, j \in DOMAIN t : t[i] = "begin" /\ t[j] = "begin" => i = j
  /\ \A i \in DOMAIN t : t[i] = "begin" =>
       i + 2 <= Len(t) /\ t[i + 1] = "check" /\ t[i + 2] = "end"
  /\ \A i \in DOMAIN t : t[i] = "end" => i > 2 /\ t[i - 2] = "begin"

SInv == Shape(text) /\ inserts \in 0..MaxInserts

\* The stanza's three lines.
LEMMA StanzaSeq == /\ Stanza \in Seq(Kinds) /\ Len(Stanza) = 3
                   /\ Stanza[1] = "begin" /\ Stanza[2] = "check" /\ Stanza[3] = "end"
PROOF
  <1>1. "begin" \in Kinds /\ "check" \in Kinds /\ "end" \in Kinds
    BY DEF Kinds
  <1> QED  BY <1>1 DEF Stanza

\* The invariant is not weaker than what it is for.
LEMMA ShapeIsWellFormed == SInv => WellFormed
PROOF
  <1> SUFFICES ASSUME SInv, NEW i \in DOMAIN text, text[i] = "begin"
               PROVE  SubSeq(text, i, i + 2) = Stanza
    BY DEF SInv, Shape, WellFormed
  <1>1. /\ text \in Seq(Kinds) /\ i \in 1..Len(text) /\ i + 2 <= Len(text)
        /\ text[i + 1] = "check" /\ text[i + 2] = "end"
    BY DEF SInv, Shape
  <1>2. i \in Int /\ i + 2 \in Int /\ \A k \in i .. i + 2 : text[k] \in Kinds
    BY <1>1
  <1> DEFINE s == SubSeq(text, i, i + 2)
  <1>3. /\ s \in Seq(Kinds) /\ Len(s) = (IF i <= i + 2 THEN i + 2 - i + 1 ELSE 0)
        /\ \A k \in 1..i + 2 - i + 1 : s[k] = text[i + k - 1]
    BY <1>2, SubSeqProperties
  <1> HIDE DEF s
  <1>4. i + 2 - i + 1 = 3 /\ i <= i + 2 /\ i + 1 - 1 = i /\ i + 2 - 1 = i + 1 /\ i + 3 - 1 = i + 2
    BY <1>1
  <1>5. Len(s) = 3 /\ s[1] = "begin" /\ s[2] = "check" /\ s[3] = "end"
    <2>1. Len(s) = 3 /\ \A k \in 1..3 : s[k] = text[i + k - 1]
      BY <1>3, <1>4
    <2>2. s[1] = text[i + 1 - 1] /\ s[2] = text[i + 2 - 1] /\ s[3] = text[i + 3 - 1]
      BY <2>1
    <2> QED  BY <1>1, <1>4, <2>1, <2>2
  <1>6. \A k \in 1..Len(s) : s[k] = Stanza[k]
    BY <1>5, StanzaSeq
  <1>7. s = Stanza
    BY <1>3, <1>5, <1>6, StanzaSeq, SeqEqual
  <1> QED  BY <1>7 DEF s

Within(t, i) == \/ i > 1 /\ t[i - 1] = "begin"
                \/ i > 2 /\ t[i - 2] = "begin"

\* Inside the stanza there are two places, before its check and before its end.
LEMMA InStanzaIs ==
  ASSUME NEW t, Shape(t), NEW i \in 1..Len(t) + 1
  PROVE  InStanza(t, i) <=> Within(t, i)
PROOF
  <1>1. t \in Seq(Kinds) /\ DOMAIN t = 1..Len(t) /\ Len(t) \in Nat
    BY DEF Shape
  <1>2. ASSUME InStanza(t, i)
        PROVE  Within(t, i)
    <2>1. PICK j \in 1..(i - 1) : t[j] = "begin" /\ \A k \in (j + 1)..(i - 1) : t[k] # "end"
      BY <1>2 DEF InStanza
    <2>2. j \in DOMAIN t /\ j + 2 <= Len(t) /\ t[j + 2] = "end"
      BY <1>1, <2>1 DEF Shape
    <2>3. j + 2 \notin (j + 1)..(i - 1)
      BY <2>1, <2>2
    <2>4. j = i - 1 \/ j = i - 2
      BY <1>1, <2>1, <2>3
    <2>5. t[j] = "begin" /\ j \in 1..(i - 1)
      BY <2>1
    <2>6. CASE j = i - 1
      BY <1>1, <2>5, <2>6 DEF Within
    <2>7. CASE j = i - 2
      BY <1>1, <2>5, <2>7 DEF Within
    <2> QED  BY <2>4, <2>6, <2>7
  <1>3. ASSUME i > 1, t[i - 1] = "begin"
        PROVE  InStanza(t, i)
    <2>1. i - 1 \in 1..(i - 1) /\ ((i - 1) + 1)..(i - 1) = {}
      BY <1>1, <1>3
    <2> QED  BY <1>3, <2>1 DEF InStanza
  <1>4. ASSUME i > 2, t[i - 2] = "begin"
        PROVE  InStanza(t, i)
    <2>1. /\ i - 2 \in 1..(i - 1) /\ ((i - 2) + 1)..(i - 1) = {i - 1}
          /\ i - 2 \in 1..Len(t) /\ (i - 2) + 1 = i - 1
      BY <1>1, <1>4
    <2>2. t[i - 1] = "check"
      BY <1>1, <1>4, <2>1 DEF Shape
    <2> QED  BY <1>4, <2>1, <2>2 DEF InStanza
  <1>5. Within(t, i) => InStanza(t, i)
    BY <1>3, <1>4 DEF Within
  <1> QED  BY <1>2, <1>5

\* What stands there is the check and the end.
LEMMA InStanzaLines ==
  ASSUME NEW t, Shape(t), NEW i \in 1..Len(t), InStanza(t, i)
  PROVE  t[i] \in {"check", "end"} /\ (t[i] = "check" <=> i > 1 /\ t[i - 1] = "begin")
PROOF
  <1>1. t \in Seq(Kinds) /\ DOMAIN t = 1..Len(t) /\ Len(t) \in Nat /\ i \in 1..Len(t) + 1
    BY DEF Shape
  <1>2. ASSUME i > 1, t[i - 1] = "begin" PROVE t[i] = "check"
    <2>1. i - 1 \in DOMAIN t /\ (i - 1) + 1 = i
      BY <1>1, <1>2
    <2> QED  BY <1>2, <2>1 DEF Shape
  <1>3. ASSUME i > 2, t[i - 2] = "begin" PROVE t[i] = "end"
    <2>1. i - 2 \in DOMAIN t /\ (i - 2) + 2 = i
      BY <1>1, <1>3
    <2> QED  BY <1>3, <2>1 DEF Shape
  <1>4. (i > 1 /\ t[i - 1] = "begin") \/ (i > 2 /\ t[i - 2] = "begin")
    BY <1>1, InStanzaIs DEF Within
  <1> QED  BY <1>2, <1>3, <1>4

\* The first line of a kind.
LEMMA FirstFacts ==
  ASSUME NEW t \in Seq(Kinds), NEW l, Has(t, l)
  PROVE  First(t, l) \in 1..Len(t) /\ t[First(t, l)] = l
         /\ \A j \in 1..(First(t, l) - 1) : t[j] # l
PROOF
  <1> DEFINE S == {i \in DOMAIN t : t[i] = l}
  <1>1. S \in SUBSET Nat /\ S # {}
    BY DEF Has
  <1>2. PICK i \in S : \A j \in S : i <= j
    <2> HIDE DEF S
    <2> QED  BY <1>1, FirstOf
  <1>3. i \in DOMAIN t /\ t[i] = l /\ \A j \in 1..(i - 1) : t[j] # l
    <2>1. i \in 1..Len(t) /\ t[i] = l
      BY <1>2
    <2>2. \A j \in 1..(i - 1) : j \in DOMAIN t /\ ~(i <= j)
      BY <2>1
    <2>3. \A j \in 1..(i - 1) : j \notin S
      <3> HIDE DEF S
      <3> QED  BY <1>2, <2>2
    <2> QED  BY <2>1, <2>2, <2>3
  <1>4. \E k \in DOMAIN t : t[k] = l /\ \A j \in 1..(k - 1) : t[j] # l
    BY <1>3
  <1>5. First(t, l) \in DOMAIN t /\ t[First(t, l)] = l
        /\ \A j \in 1..(First(t, l) - 1) : t[j] # l
    BY <1>4 DEF First
  <1> QED  BY <1>5

\* Joined texts.
LEMMA Joined ==
  ASSUME NEW S, NEW s \in Seq(S), NEW t \in Seq(S)
  PROVE  /\ s \o t \in Seq(S) /\ Len(s \o t) = Len(s) + Len(t)
         /\ Len(s) \in Nat /\ Len(t) \in Nat
         /\ \A i \in 1..Len(s) : (s \o t)[i] = s[i]
         /\ \A i \in 1..Len(t) : (s \o t)[Len(s) + i] = t[i]
  BY ConcatProperties

\* A line of a joined text is one of either part.
LEMMA HasJoined ==
  ASSUME NEW s \in Seq(Kinds), NEW t \in Seq(Kinds), NEW l
  PROVE  Has(s \o t, l) <=> Has(s, l) \/ Has(t, l)
PROOF
  <1>1. /\ s \o t \in Seq(Kinds) /\ Len(s \o t) = Len(s) + Len(t)
        /\ Len(s) \in Nat /\ Len(t) \in Nat
        /\ \A i \in 1..Len(s) : (s \o t)[i] = s[i]
        /\ \A i \in 1..Len(t) : (s \o t)[Len(s) + i] = t[i]
    BY Joined
  <1>2. DOMAIN s = 1..Len(s) /\ DOMAIN t = 1..Len(t) /\ DOMAIN (s \o t) = 1..Len(s) + Len(t)
    BY <1>1
  <1>3. ASSUME NEW i \in DOMAIN (s \o t), (s \o t)[i] = l
        PROVE  Has(s, l) \/ Has(t, l)
    <2>1. CASE i <= Len(s)
      BY <1>1, <1>2, <1>3, <2>1 DEF Has
    <2>2. CASE ~(i <= Len(s))
      <3>1. i - Len(s) \in 1..Len(t) /\ Len(s) + (i - Len(s)) = i
        BY <1>1, <1>2, <2>2
      <3>2. t[i - Len(s)] = l
        BY <1>1, <1>3, <3>1
      <3> QED  BY <1>2, <3>1, <3>2 DEF Has
    <2> QED  BY <2>1, <2>2
  <1>4. ASSUME NEW i \in DOMAIN s, s[i] = l PROVE Has(s \o t, l)
    <2>1. i \in DOMAIN (s \o t) /\ (s \o t)[i] = l
      BY <1>1, <1>2, <1>4
    <2> QED  BY <2>1 DEF Has
  <1>5. ASSUME NEW i \in DOMAIN t, t[i] = l PROVE Has(s \o t, l)
    <2>1. Len(s) + i \in DOMAIN (s \o t) /\ (s \o t)[Len(s) + i] = l
      BY <1>1, <1>2, <1>5
    <2> QED  BY <2>1 DEF Has
  <1> QED  BY <1>3, <1>4, <1>5 DEF Has

\* pam_enable puts the stanza between two parts of the text.
LEMMA StanzaBetween ==
  ASSUME NEW t \in Seq(Kinds)
  PROVE  \E a, b \in Seq(Kinds) : t = a \o b /\ WithStanza(t) = a \o Stanza \o b
PROOF
  <1>1. CASE Has(t, "header")
    <2> DEFINE h == First(t, "header")
               a == SubSeq(t, 1, h)
               b == SubSeq(t, h + 1, Len(t))
    <2>1. h \in 1..Len(t) /\ Len(t) \in Nat
      BY <1>1, FirstFacts
    <2> HIDE DEF h
    <2>2. WithStanza(t) = a \o Stanza \o b
      BY <1>1 DEF WithStanza, h
    <2>3. 1 \in 1..Len(t) + 1 /\ h \in 1 - 1 .. Len(t) /\ Len(t) \in h..Len(t)
      BY <2>1
    <2>4. a \o b = SubSeq(t, 1, Len(t))
      BY <2>3, ConcatAdjacentSubSeq
    <2>5. SubSeq(t, 1, Len(t)) = t
      BY SubSeqFull
    <2>6. a \in Seq(Kinds) /\ b \in Seq(Kinds)
      <3>1. (\A k \in 1..h : t[k] \in Kinds) /\ \A k \in h + 1..Len(t) : t[k] \in Kinds
        BY <2>1
      <3>2. 1 \in Int /\ h \in Int /\ h + 1 \in Int /\ Len(t) \in Int
        BY <2>1
      <3> QED  BY <3>1, <3>2, SubSeqProperties
    <2> QED  BY <2>2, <2>4, <2>5, <2>6
  <1>2. CASE ~Has(t, "header")
    <2>1. <<>> \in Seq(Kinds) /\ <<>> \o t = t /\ <<>> \o Stanza = Stanza
      BY StanzaSeq, ConcatEmptySeq
    <2>2. WithStanza(t) = <<>> \o Stanza \o t
      BY <1>2, <2>1 DEF WithStanza
    <2> QED  BY <2>1, <2>2
  <1> QED  BY <1>1, <1>2

-----------------------------------------------------------------------------
(* The migration, line by line.                                             *)

Rewriting(t) == [i \in DOMAIN t |-> IF t[i] = "howdy" THEN Commented(t, i) ELSE <<t[i]>>]

\* What each line becomes.
LEMMA RewritingSeq ==
  ASSUME NEW t \in Seq(Kinds)
  PROVE  /\ Rewriting(t) \in Seq(Seq(Kinds)) /\ Len(Rewriting(t)) = Len(t)
         /\ \A i \in 1..Len(t) :
              /\ t[i] # "howdy" => Rewriting(t)[i] = <<t[i]>>
              /\ t[i] = "howdy" /\ i # First(t, "howdy") =>
                   Rewriting(t)[i] = <<"marker", "off">>
              /\ t[i] = "howdy" /\ i = First(t, "howdy") =>
                   Rewriting(t)[i] = <<"marker", "off", "check">>
PROOF
  <1> DEFINE f == Rewriting(t)
  <1>1. DOMAIN t = 1..Len(t) /\ Len(t) \in Nat
    OBVIOUS
  <1>2. \A i \in 1..Len(t) :
              /\ t[i] # "howdy" => f[i] = <<t[i]>>
              /\ t[i] = "howdy" /\ i # First(t, "howdy") => f[i] = <<"marker", "off">>
              /\ t[i] = "howdy" /\ i = First(t, "howdy") =>
                   f[i] = <<"marker", "off", "check">>
    BY <1>1 DEF Rewriting, Commented
  <1>3. DOMAIN f = 1..Len(t) /\ f = [i \in DOMAIN f |-> f[i]]
    BY <1>1 DEF Rewriting
  <1>4. /\ <<"marker", "off">> \in Seq(Kinds) /\ <<"marker", "off", "check">> \in Seq(Kinds)
        /\ \A i \in 1..Len(t) : <<t[i]>> \in Seq(Kinds)
    <2>1. "marker" \in Kinds /\ "off" \in Kinds /\ "check" \in Kinds
      BY DEF Kinds
    <2>2. \A i \in 1..Len(t) : t[i] \in Kinds
      OBVIOUS
    <2> QED  BY <2>1, <2>2
  <1> HIDE DEF f
  <1>5. \A i \in 1..Len(t) : f[i] \in Seq(Kinds)
    BY <1>2, <1>4
  <1>6. f \in Seq(Seq(Kinds)) /\ Len(f) = Len(t)
    BY <1>1, <1>3, <1>5, MapSeq
  <1> QED  BY <1>2, <1>6 DEF f

\* Line p of the rewritten text is made of line i of the text.
Source(t, r, o, i, p) ==
  \/ t[i] # "howdy" /\ p = o[i - 1] + 1 /\ r[p] = t[i]
  \/ t[i] = "howdy" /\ p = o[i - 1] + 1 /\ r[p] = "marker"
  \/ t[i] = "howdy" /\ p = o[i - 1] + 2 /\ r[p] = "off"
  \/ t[i] = "howdy" /\ i = First(t, "howdy") /\ p = o[i - 1] + 3 /\ r[p] = "check"

\* After o[i] of its lines come those of line i + 1.
Rewrites(t, r, o) ==
  /\ r \in Seq(Kinds) /\ o \in [0..Len(t) -> Nat] /\ o[0] = 0 /\ o[Len(t)] = Len(r)
  /\ \A i \in 1..Len(t) :
       /\ t[i] # "howdy" => o[i] = o[i - 1] + 1 /\ r[o[i - 1] + 1] = t[i]
       /\ t[i] = "howdy" =>
            /\ r[o[i - 1] + 1] = "marker" /\ r[o[i - 1] + 2] = "off"
            /\ i # First(t, "howdy") => o[i] = o[i - 1] + 2
            /\ i = First(t, "howdy") => o[i] = o[i - 1] + 3 /\ r[o[i - 1] + 3] = "check"
  /\ \A i, j \in 0..Len(t) : i <= j => o[i] <= o[j]
  /\ \A p \in 1..Len(r) : \E i \in 1..Len(t) : Source(t, r, o, i, p)

\* Rewritten() is laid out in this way.
LEMMA RewriteLayout ==
  ASSUME NEW t \in Seq(Kinds)
  PROVE  \E o : Rewrites(t, Rewritten(t), o)
PROOF
  <1> DEFINE f == Rewriting(t)
             r == Rewritten(t)
  <1>1. r = FlattenSeq(f)
    BY DEF Rewritten, Rewriting
  <1>2. /\ f \in Seq(Seq(Kinds)) /\ Len(f) = Len(t) /\ Len(t) \in Nat
        /\ \A i \in 1..Len(t) :
              /\ t[i] # "howdy" => f[i] = <<t[i]>>
              /\ t[i] = "howdy" /\ i # First(t, "howdy") => f[i] = <<"marker", "off">>
              /\ t[i] = "howdy" /\ i = First(t, "howdy") =>
                   f[i] = <<"marker", "off", "check">>
    BY RewritingSeq
  <1> HIDE DEF f, r
  <1>3. r \in Seq(Kinds)
    BY <1>1, <1>2, FlattenType
  <1>4. PICK o : LaidOut(f, FlattenSeq(f), o)
    BY <1>2, Layout
  <1>5. /\ o \in [0..Len(t) -> Nat] /\ o[0] = 0 /\ o[Len(t)] = Len(r)
        /\ \A i \in 1..Len(t) : o[i] = o[i - 1] + Len(f[i])
        /\ \A i, j \in 0..Len(t) : i <= j => o[i] <= o[j]
        /\ \A i \in 1..Len(t) : \A k \in 1..Len(f[i]) : r[o[i - 1] + k] = f[i][k]
        /\ \A p \in 1..Len(r) : \E i \in 1..Len(t) : \E k \in 1..Len(f[i]) : p = o[i - 1] + k
    BY <1>1, <1>2, <1>4 DEF LaidOut
  <1>6. ASSUME NEW i \in 1..Len(t)
        PROVE  /\ t[i] # "howdy" => Len(f[i]) = 1 /\ f[i][1] = t[i]
               /\ t[i] = "howdy" /\ i # First(t, "howdy") =>
                    Len(f[i]) = 2 /\ f[i][1] = "marker" /\ f[i][2] = "off"
               /\ t[i] = "howdy" /\ i = First(t, "howdy") =>
                    /\ Len(f[i]) = 3 /\ f[i][1] = "marker" /\ f[i][2] = "off"
                    /\ f[i][3] = "check"
    <2>1. CASE t[i] # "howdy"
      <3>1. f[i] = <<t[i]>>
        BY <1>2, <2>1
      <3> QED  BY <2>1, <3>1
    <2>2. CASE t[i] = "howdy" /\ i # First(t, "howdy")
      <3>1. f[i] = <<"marker", "off">>
        BY <1>2, <2>2
      <3> QED  BY <2>2, <3>1
    <2>3. CASE t[i] = "howdy" /\ i = First(t, "howdy")
      <3>1. f[i] = <<"marker", "off", "check">>
        BY <1>2, <2>3
      <3> QED  BY <2>3, <3>1
    <2> QED  BY <2>1, <2>2, <2>3
  <1>7. ASSUME NEW i \in 1..Len(t)
        PROVE  /\ t[i] # "howdy" => o[i] = o[i - 1] + 1 /\ r[o[i - 1] + 1] = t[i]
               /\ t[i] = "howdy" =>
                    /\ r[o[i - 1] + 1] = "marker" /\ r[o[i - 1] + 2] = "off"
                    /\ i # First(t, "howdy") => o[i] = o[i - 1] + 2
                    /\ i = First(t, "howdy") =>
                         o[i] = o[i - 1] + 3 /\ r[o[i - 1] + 3] = "check"
    <2>1. o[i] = o[i - 1] + Len(f[i]) /\ \A k \in 1..Len(f[i]) : r[o[i - 1] + k] = f[i][k]
      BY <1>5
    <2>2. CASE t[i] # "howdy"
      <3>1. Len(f[i]) = 1 /\ f[i][1] = t[i] /\ 1 \in 1..Len(f[i])
        BY <1>6, <2>2
      <3> QED  BY <2>1, <2>2, <3>1
    <2>3. CASE t[i] = "howdy" /\ i # First(t, "howdy")
      <3>1. /\ Len(f[i]) = 2 /\ f[i][1] = "marker" /\ f[i][2] = "off"
            /\ 1 \in 1..Len(f[i]) /\ 2 \in 1..Len(f[i])
        BY <1>6, <2>3
      <3> QED  BY <2>1, <2>3, <3>1
    <2>4. CASE t[i] = "howdy" /\ i = First(t, "howdy")
      <3>1. /\ Len(f[i]) = 3 /\ f[i][1] = "marker" /\ f[i][2] = "off" /\ f[i][3] = "check"
            /\ 1 \in 1..Len(f[i]) /\ 2 \in 1..Len(f[i]) /\ 3 \in 1..Len(f[i])
        BY <1>6, <2>4
      <3> QED  BY <2>1, <2>4, <3>1
    <2> QED  BY <2>2, <2>3, <2>4
  <1>8. ASSUME NEW p \in 1..Len(r)
        PROVE  \E i \in 1..Len(t) : Source(t, r, o, i, p)
    <2>1. PICK i \in 1..Len(t) : \E k \in 1..Len(f[i]) : p = o[i - 1] + k
      BY <1>5
    <2>2. PICK k \in 1..Len(f[i]) : p = o[i - 1] + k
      BY <2>1
    <2>3. CASE t[i] # "howdy"
      <3>1. k = 1
        <4>1. Len(f[i]) = 1
          BY <1>6, <2>3
        <4> QED  BY <4>1
      <3> QED  BY <1>7, <2>2, <2>3, <3>1 DEF Source
    <2>4. CASE t[i] = "howdy" /\ i # First(t, "howdy")
      <3>1. k = 1 \/ k = 2
        <4>1. Len(f[i]) = 2
          BY <1>6, <2>4
        <4> QED  BY <4>1
      <3> QED  BY <1>7, <2>2, <2>4, <3>1 DEF Source
    <2>5. CASE t[i] = "howdy" /\ i = First(t, "howdy")
      <3>1. k = 1 \/ k = 2 \/ k = 3
        <4>1. Len(f[i]) = 3
          BY <1>6, <2>5
        <4> QED  BY <4>1
      <3> QED  BY <1>7, <2>2, <2>5, <3>1 DEF Source
    <2> QED  BY <2>3, <2>4, <2>5
  <1>9. Rewrites(t, r, o)
    BY <1>3, <1>5, <1>7, <1>8 DEF Rewrites
  <1> QED  BY <1>9 DEF r

\* A line that is no call of Howdy stays, and no other line is of its kind unless
\* the migration wrote it.
LEMMA RewriteBack ==
  ASSUME NEW t \in Seq(Kinds), NEW r, NEW o, Rewrites(t, r, o),
         NEW p \in 1..Len(r), r[p] \notin {"marker", "off", "check"}
  PROVE  \E i \in 1..Len(t) : t[i] = r[p] /\ t[i] # "howdy" /\ p = o[i - 1] + 1 /\ p = o[i]
PROOF
  <1>1. PICK i \in 1..Len(t) : Source(t, r, o, i, p)
    BY DEF Rewrites
  <1>2. t[i] # "howdy" /\ p = o[i - 1] + 1 /\ r[p] = t[i]
    BY <1>1 DEF Source
  <1>3. o[i] = o[i - 1] + 1
    BY <1>2 DEF Rewrites
  <1> QED  BY <1>2, <1>3

\* Where a line comes to stand.
LEMMA RewriteForth ==
  ASSUME NEW t \in Seq(Kinds), NEW r, NEW o, Rewrites(t, r, o), NEW i \in 1..Len(t)
  PROVE  /\ o[i - 1] \in Nat /\ o[i] \in Nat /\ o[i] <= Len(r) /\ o[i - 1] < o[i]
         /\ t[i] # "howdy" => o[i] = o[i - 1] + 1 /\ r[o[i]] = t[i] /\ o[i] \in 1..Len(r)
PROOF
  <1>1. i - 1 \in 0..Len(t) /\ i \in 0..Len(t) /\ Len(t) \in 0..Len(t) /\ i <= Len(t)
    OBVIOUS
  <1>2. o[i - 1] \in Nat /\ o[i] \in Nat /\ o[i] <= o[Len(t)] /\ o[Len(t)] = Len(r)
    BY <1>1 DEF Rewrites
  <1>3. o[i] = o[i - 1] + 1 \/ o[i] = o[i - 1] + 2 \/ o[i] = o[i - 1] + 3
    BY DEF Rewrites
  <1>4. t[i] # "howdy" => o[i] = o[i - 1] + 1 /\ r[o[i - 1] + 1] = t[i]
    BY DEF Rewrites
  <1> QED  BY <1>2, <1>3, <1>4

\* The shape, by line numbers.
LEMMA ShapeParts ==
  ASSUME NEW t, Shape(t)
  PROVE  /\ t \in Seq(Kinds) /\ DOMAIN t = 1..Len(t) /\ Len(t) \in Nat
         /\ \A i, j \in 1..Len(t) : t[i] = "begin" /\ t[j] = "begin" => i = j
         /\ \A i \in 1..Len(t) : t[i] = "begin" =>
              i + 2 <= Len(t) /\ t[i + 1] = "check" /\ t[i + 2] = "end"
         /\ \A i \in 1..Len(t) : t[i] = "end" => i > 2 /\ t[i - 2] = "begin"
PROOF
  <1>1. t \in Seq(Kinds)
    BY DEF Shape
  <1>2. DOMAIN t = 1..Len(t) /\ Len(t) \in Nat
    BY <1>1
  <1>3. \A i, j \in 1..Len(t) : t[i] = "begin" /\ t[j] = "begin" => i = j
    BY <1>2, Zenon DEF Shape
  <1>4. \A i \in 1..Len(t) : t[i] = "begin" =>
              i + 2 <= Len(t) /\ t[i + 1] = "check" /\ t[i + 2] = "end"
    BY <1>2, Zenon DEF Shape
  <1>5. \A i \in 1..Len(t) : t[i] = "end" => i > 2 /\ t[i - 2] = "begin"
    BY <1>2, Zenon DEF Shape
  <1> QED  BY <1>1, <1>2, <1>3, <1>4, <1>5

LEMMA ShapeWhole ==
  ASSUME NEW t \in Seq(Kinds),
         \A i, j \in 1..Len(t) : t[i] = "begin" /\ t[j] = "begin" => i = j,
         \A i \in 1..Len(t) : t[i] = "begin" =>
              i + 2 <= Len(t) /\ t[i + 1] = "check" /\ t[i + 2] = "end",
         \A i \in 1..Len(t) : t[i] = "end" => i > 2 /\ t[i - 2] = "begin"
  PROVE  Shape(t)
PROOF
  <1>1. DOMAIN t = 1..Len(t)
    OBVIOUS
  <1> QED  BY <1>1, Zenon DEF Shape

\* The migration leaves a stanza as it is.
LEMMA RewriteShape ==
  ASSUME NEW t, Shape(t)
  PROVE  Shape(Rewritten(t))
PROOF
  <1> DEFINE r == Rewritten(t)
  <1>1. /\ t \in Seq(Kinds) /\ DOMAIN t = 1..Len(t) /\ Len(t) \in Nat
        /\ \A i, j \in 1..Len(t) : t[i] = "begin" /\ t[j] = "begin" => i = j
        /\ \A i \in 1..Len(t) : t[i] = "begin" =>
             i + 2 <= Len(t) /\ t[i + 1] = "check" /\ t[i + 2] = "end"
        /\ \A i \in 1..Len(t) : t[i] = "end" => i > 2 /\ t[i - 2] = "begin"
    BY ShapeParts
  <1>2. PICK o : Rewrites(t, r, o)
    <2>1. t \in Seq(Kinds)
      BY <1>1
    <2> QED  BY <2>1, RewriteLayout
  <1> HIDE DEF r
  <1>3. r \in Seq(Kinds) /\ DOMAIN r = 1..Len(r) /\ Len(r) \in Nat
    BY <1>2 DEF Rewrites
  <1>4. ASSUME NEW p \in 1..Len(r), r[p] \in {"begin", "end"}
        PROVE  \E i \in 1..Len(t) : t[i] = r[p] /\ p = o[i - 1] + 1 /\ p = o[i]
    BY <1>1, <1>2, <1>4, RewriteBack
  <1>5. ASSUME NEW i \in 1..Len(t)
        PROVE  /\ o[i - 1] \in Nat /\ o[i] \in Nat /\ o[i] <= Len(r)
               /\ t[i] # "howdy" => o[i] = o[i - 1] + 1 /\ r[o[i]] = t[i] /\ o[i] \in 1..Len(r)
    BY <1>1, <1>2, RewriteForth
  <1>6. ASSUME NEW p \in 1..Len(r), NEW q \in 1..Len(r), r[p] = "begin", r[q] = "begin"
        PROVE  p = q
    <2>1. PICK i \in 1..Len(t) : t[i] = r[p] /\ p = o[i]
      BY <1>4, <1>6
    <2>2. PICK j \in 1..Len(t) : t[j] = r[q] /\ q = o[j]
      BY <1>4, <1>6
    <2> QED  BY <1>1, <1>6, <2>1, <2>2
  <1>7. ASSUME NEW p \in 1..Len(r), r[p] = "begin"
        PROVE  p + 2 <= Len(r) /\ r[p + 1] = "check" /\ r[p + 2] = "end"
    <2>1. PICK i \in 1..Len(t) : t[i] = r[p] /\ p = o[i]
      BY <1>4, <1>7
    <2>2. i + 1 \in 1..Len(t) /\ i + 2 \in 1..Len(t) /\ t[i + 1] = "check" /\ t[i + 2] = "end"
      BY <1>1, <1>7, <2>1
    <2>3. (i + 1) - 1 = i /\ (i + 2) - 1 = i + 1
      OBVIOUS
    <2>4. o[i + 1] = o[(i + 1) - 1] + 1 /\ r[o[i + 1]] = "check"
      BY <1>5, <2>2
    <2>5. o[i + 2] = o[(i + 2) - 1] + 1 /\ r[o[i + 2]] = "end" /\ o[i + 2] \in 1..Len(r)
      BY <1>5, <2>2
    <2>6. o[i + 1] = p + 1 /\ o[i + 2] = p + 2
      BY <2>1, <2>3, <2>4, <2>5
    <2> QED  BY <1>3, <2>4, <2>5, <2>6
  <1>8. ASSUME NEW p \in 1..Len(r), r[p] = "end"
        PROVE  p > 2 /\ r[p - 2] = "begin"
    <2>1. PICK i \in 1..Len(t) : t[i] = r[p] /\ p = o[i - 1] + 1
      BY <1>4, <1>8
    <2>2. i > 2 /\ t[i - 2] = "begin"
      BY <1>1, <1>8, <2>1
    <2>3. i - 2 \in 1..Len(t) /\ i - 1 \in 1..Len(t) /\ (i - 2) + 1 = i - 1 /\ (i - 1) - 1 = i - 2
      BY <2>2
    <2>4. t[i - 1] = "check"
      BY <1>1, <2>2, <2>3
    <2>5. o[i - 1] = o[(i - 1) - 1] + 1
      BY <1>5, <2>3, <2>4
    <2>6. r[o[i - 2]] = "begin" /\ o[i - 2] \in 1..Len(r)
      BY <1>5, <2>2, <2>3
    <2>7. p = o[i - 2] + 2
      BY <2>1, <2>3, <2>5, <2>6
    <2> QED  BY <2>6, <2>7
  <1>9. Shape(r)
    BY <1>3, <1>6, <1>7, <1>8 DEF Shape
  <1> QED  BY <1>9 DEF r

\* A text without the lines of a stanza has the shape.
LEMMA PlainShape ==
  ASSUME NEW t \in Seq(Kinds), ~Has(t, "begin"), ~Has(t, "end")
  PROVE  Shape(t)
  BY DEF Shape, Has

-----------------------------------------------------------------------------
(* The removal of the stanza.                                               *)

Stripping(t) == [i \in DOMAIN t |-> IF Dropped(t, i) THEN <<>> ELSE <<t[i]>>]

\* What each line becomes when the stanza is removed.
LEMMA StrippingSeq ==
  ASSUME NEW t \in Seq(Kinds)
  PROVE  /\ Stripping(t) \in Seq(Seq(Kinds)) /\ Len(Stripping(t)) = Len(t)
         /\ \A i \in 1..Len(t) :
              Stripping(t)[i] = IF Dropped(t, i) THEN <<>> ELSE <<t[i]>>
PROOF
  <1> DEFINE f == Stripping(t)
  <1>1. DOMAIN t = 1..Len(t) /\ Len(t) \in Nat
    OBVIOUS
  <1>2. \A i \in 1..Len(t) : f[i] = IF Dropped(t, i) THEN <<>> ELSE <<t[i]>>
    BY <1>1 DEF Stripping
  <1>3. DOMAIN f = 1..Len(t) /\ f = [i \in DOMAIN f |-> f[i]]
    BY <1>1 DEF Stripping
  <1>4. <<>> \in Seq(Kinds) /\ \A i \in 1..Len(t) : <<t[i]>> \in Seq(Kinds)
    <2>1. \A i \in 1..Len(t) : t[i] \in Kinds
      OBVIOUS
    <2> QED  BY <2>1
  <1> HIDE DEF f
  <1>5. \A i \in 1..Len(t) : f[i] \in Seq(Kinds)
    BY <1>2, <1>4
  <1>6. f \in Seq(Seq(Kinds)) /\ Len(f) = Len(t)
    BY <1>1, <1>3, <1>5, MapSeq
  <1> QED  BY <1>2, <1>6 DEF f

\* What is left are the lines that are not dropped.
LEMMA StrippedLines ==
  ASSUME NEW t \in Seq(Kinds)
  PROVE  /\ Stripped(t) \in Seq(Kinds)
         /\ \A l : Has(Stripped(t), l) <=> \E i \in 1..Len(t) : t[i] = l /\ ~Dropped(t, i)
PROOF
  <1> DEFINE f == Stripping(t)
             r == Stripped(t)
  <1>1. r = FlattenSeq(f)
    BY DEF Stripped, Stripping
  <1>2. /\ f \in Seq(Seq(Kinds)) /\ Len(f) = Len(t)
        /\ \A i \in 1..Len(t) : f[i] = IF Dropped(t, i) THEN <<>> ELSE <<t[i]>>
    BY StrippingSeq
  <1> HIDE DEF f, r
  <1>3. r \in Seq(Kinds)
    BY <1>1, <1>2, FlattenType
  <1>4. PICK o : LaidOut(f, r, o)
    BY <1>1, <1>2, Layout
  <1>5. ASSUME NEW i \in 1..Len(t)
        PROVE  /\ Dropped(t, i) => Len(f[i]) = 0
               /\ ~Dropped(t, i) => Len(f[i]) = 1 /\ f[i][1] = t[i]
    <2>1. CASE Dropped(t, i)
      <3>1. f[i] = <<>>
        BY <1>2, <2>1
      <3> QED  BY <2>1, <3>1
    <2>2. CASE ~Dropped(t, i)
      <3>1. f[i] = <<t[i]>>
        BY <1>2, <2>2
      <3> QED  BY <2>2, <3>1
    <2> QED  BY <2>1, <2>2
  <1>6. ASSUME NEW p \in 1..Len(r)
        PROVE  \E i \in 1..Len(t) : t[i] = r[p] /\ ~Dropped(t, i)
    <2>1. PICK i \in 1..Len(t) : \E k \in 1..Len(f[i]) : p = o[i - 1] + k
      BY <1>2, <1>4 DEF LaidOut
    <2>2. PICK k \in 1..Len(f[i]) : p = o[i - 1] + k
      BY <2>1
    <2>3. ~Dropped(t, i)
      BY <1>5
    <2>4. Len(f[i]) = 1 /\ f[i][1] = t[i]
      BY <1>5, <2>3
    <2>5. k = 1 /\ r[o[i - 1] + k] = f[i][k]
      <3>1. k = 1
        BY <2>4
      <3> QED  BY <1>2, <1>4, <3>1 DEF LaidOut
    <2> QED  BY <2>2, <2>3, <2>4, <2>5
  <1>7. ASSUME NEW i \in 1..Len(t), ~Dropped(t, i)
        PROVE  \E p \in 1..Len(r) : r[p] = t[i]
    <2>1. Len(f[i]) = 1 /\ f[i][1] = t[i] /\ 1 \in 1..Len(f[i])
      BY <1>5, <1>7
    <2>2. /\ o \in [0..Len(t) -> Nat] /\ o[Len(t)] = Len(r)
          /\ \A j, k \in 0..Len(t) : j <= k => o[j] <= o[k]
      BY <1>2, <1>4 DEF LaidOut
    <2>3. r[o[i - 1] + 1] = t[i] /\ o[i] = o[i - 1] + 1
      BY <1>2, <1>4, <2>1 DEF LaidOut
    <2>4. i - 1 \in 0..Len(t) /\ i \in 0..Len(t) /\ Len(t) \in 0..Len(t) /\ i <= Len(t)
      OBVIOUS
    <2>5. o[i - 1] \in Nat /\ o[i] <= Len(r)
      BY <2>2, <2>4
    <2>6. o[i - 1] + 1 \in 1..Len(r)
      BY <1>3, <2>3, <2>5
    <2> QED  BY <2>3, <2>6
  <1>8. DOMAIN r = 1..Len(r)
    BY <1>3
  <1>9. \A l : Has(r, l) <=> \E i \in 1..Len(t) : t[i] = l /\ ~Dropped(t, i)
    BY <1>6, <1>7, <1>8 DEF Has
  <1> QED  BY <1>3, <1>9 DEF r

\* Nothing is left of a stanza.
LEMMA StrippedShape ==
  ASSUME NEW t \in Seq(Kinds)
  PROVE  Shape(Stripped(t))
PROOF
  <1>1. ~Has(Stripped(t), "begin") /\ ~Has(Stripped(t), "end")
    BY StrippedLines DEF Dropped
  <1> QED  BY <1>1, StrippedLines, PlainShape

-----------------------------------------------------------------------------
(* The stanza's insertion.                                                  *)

\* A text of the shape has its check with the first line of the stanza.
LEMMA NoCheckNoStanza ==
  ASSUME NEW t, Shape(t), ~Has(t, "check")
  PROVE  ~Has(t, "begin") /\ ~Has(t, "end")
PROOF
  <1>1. t \in Seq(Kinds) /\ DOMAIN t = 1..Len(t) /\ Len(t) \in Nat
    BY DEF Shape
  <1>2. ASSUME NEW i \in DOMAIN t, t[i] = "begin" PROVE FALSE
    <2>1. i + 2 <= Len(t) /\ t[i + 1] = "check"
      BY <1>2 DEF Shape
    <2>2. i + 1 \in DOMAIN t
      BY <1>1, <2>1
    <2> QED  BY <2>1, <2>2 DEF Has
  <1>3. ASSUME NEW i \in DOMAIN t, t[i] = "end" PROVE FALSE
    <2>1. i > 2 /\ t[i - 2] = "begin"
      BY <1>3 DEF Shape
    <2>2. i - 2 \in DOMAIN t
      BY <1>1, <2>1
    <2> QED  BY <1>2, <2>1, <2>2
  <1> QED  BY <1>2, <1>3 DEF Has

\* t is x with y behind it.
Follows(x, y, t) ==
  /\ t \in Seq(Kinds) /\ Len(t) = Len(x) + Len(y) /\ Len(x) \in Nat /\ Len(y) \in Nat
  /\ \A i \in 1..Len(x) : t[i] = x[i]
  /\ \A i \in 1..Len(y) : t[Len(x) + i] = y[i]

\* A concatenation is such a text.
LEMMA Following ==
  ASSUME NEW x \in Seq(Kinds), NEW y \in Seq(Kinds)
  PROVE  Follows(x, y, x \o y)
  BY Joined DEF Follows

\* t is the stanza between a and b.
Between(a, b, t) ==
  /\ t \in Seq(Kinds) /\ Len(t) = Len(a) + 3 + Len(b) /\ Len(a) \in Nat /\ Len(b) \in Nat
  /\ \A i \in 1..Len(a) : t[i] = a[i]
  /\ t[Len(a) + 1] = "begin" /\ t[Len(a) + 2] = "check" /\ t[Len(a) + 3] = "end"
  /\ \A i \in 1..Len(b) : t[Len(a) + 3 + i] = b[i]

\* as is a text with the stanza put in.
LEMMA SplicedParts ==
  ASSUME NEW a \in Seq(Kinds), NEW b \in Seq(Kinds)
  PROVE  Between(a, b, a \o Stanza \o b)
PROOF
  <1> DEFINE s == a \o Stanza
             t == a \o Stanza \o b
  <1>1. /\ Stanza \in Seq(Kinds) /\ Len(Stanza) = 3
        /\ Stanza[1] = "begin" /\ Stanza[2] = "check" /\ Stanza[3] = "end"
    BY StanzaSeq
  <1>2. Follows(a, Stanza, s)
    BY <1>1, Following
  <1>3. s \in Seq(Kinds) /\ t = s \o b
    BY <1>2 DEF Follows
  <1> HIDE DEF s, t
  <1>4. Follows(s, b, t)
    BY <1>3, Following
  <1>5. Len(s) = Len(a) + 3 /\ Len(a) \in Nat
    BY <1>1, <1>2 DEF Follows
  <1>6. ASSUME NEW i \in 1..Len(a) PROVE t[i] = a[i]
    <2>1. i \in 1..Len(s)
      BY <1>5
    <2> QED  BY <1>2, <1>4, <2>1 DEF Follows
  <1>7. ASSUME NEW i \in 1..3 PROVE t[Len(a) + i] = Stanza[i]
    <2>1. Len(a) + i \in 1..Len(s) /\ i \in 1..Len(Stanza)
      BY <1>1, <1>5
    <2> QED  BY <1>2, <1>4, <2>1 DEF Follows
  <1>8. 1 \in 1..3 /\ 2 \in 1..3 /\ 3 \in 1..3
    OBVIOUS
  <1>9. t[Len(a) + 1] = "begin" /\ t[Len(a) + 2] = "check" /\ t[Len(a) + 3] = "end"
    BY <1>1, <1>7, <1>8
  <1>10. /\ t \in Seq(Kinds) /\ Len(t) = Len(a) + 3 + Len(b) /\ Len(b) \in Nat
         /\ \A i \in 1..Len(b) : t[Len(a) + 3 + i] = b[i]
    BY <1>4, <1>5 DEF Follows
  <1>11. Between(a, b, t)
    BY <1>5, <1>6, <1>9, <1>10 DEF Between
  <1> QED  BY <1>11 DEF t

NoStanza(t) == \A l \in {"begin", "check", "end"} : ~Has(t, l)

\* Where the lines of a stanza between two other parts stand.
Spliced(a, t) ==
  /\ Len(a) \in Nat /\ Len(a) + 3 <= Len(t)
  /\ \A i \in 1..Len(t) : t[i] = "begin" <=> i = Len(a) + 1
  /\ \A i \in 1..Len(t) : t[i] = "check" <=> i = Len(a) + 2
  /\ \A i \in 1..Len(t) : t[i] = "end" <=> i = Len(a) + 3

\* What it is when neither part has a line of a stanza.
LEMMA SplicedLines ==
  ASSUME NEW a \in Seq(Kinds), NEW b \in Seq(Kinds), NEW t, Between(a, b, t),
         NoStanza(a), NoStanza(b)
  PROVE  t \in Seq(Kinds) /\ Spliced(a, t)
PROOF
  <1>1. /\ t \in Seq(Kinds) /\ Len(t) = Len(a) + 3 + Len(b) /\ Len(a) \in Nat /\ Len(b) \in Nat
        /\ \A i \in 1..Len(a) : t[i] = a[i]
        /\ t[Len(a) + 1] = "begin" /\ t[Len(a) + 2] = "check" /\ t[Len(a) + 3] = "end"
        /\ \A i \in 1..Len(b) : t[Len(a) + 3 + i] = b[i]
    BY DEF Between
  <1>4. ASSUME NEW i \in 1..Len(t), i \notin {Len(a) + 1, Len(a) + 2, Len(a) + 3}
        PROVE  t[i] \notin {"begin", "check", "end"}
    <2>1. CASE i <= Len(a)
      <3>1. i \in 1..Len(a) /\ i \in 1..Len(a) + 3 /\ i \in DOMAIN a
        BY <1>1, <2>1
      <3>2. t[i] = a[i]
        BY <1>1, <3>1
      <3> QED  BY <3>1, <3>2 DEF Has, NoStanza
    <2>2. CASE i > Len(a) + 3
      <3>0. i - (Len(a) + 3) \in 1..Len(b) /\ i = Len(a) + 3 + (i - (Len(a) + 3))
        BY <1>1, <2>2
      <3>1. PICK k \in 1..Len(b) : i = Len(a) + 3 + k
        BY <3>0
      <3>2. t[i] = b[k]
        BY <1>1, <3>1
      <3>3. k \in DOMAIN b
        OBVIOUS
      <3> QED  BY <3>2, <3>3 DEF Has, NoStanza
    <2>3. i <= Len(a) \/ i > Len(a) + 3
      BY <1>1, <1>4
    <2> QED  BY <2>1, <2>2, <2>3
  <1>5. ASSUME NEW i \in 1..Len(t)
        PROVE  /\ t[i] = "begin" <=> i = Len(a) + 1
               /\ t[i] = "check" <=> i = Len(a) + 2
               /\ t[i] = "end" <=> i = Len(a) + 3
    <2>1. CASE i \in {Len(a) + 1, Len(a) + 2, Len(a) + 3}
      BY <1>1, <2>1
    <2>2. CASE i \notin {Len(a) + 1, Len(a) + 2, Len(a) + 3}
      BY <1>4, <2>2
    <2> QED  BY <2>1, <2>2
  <1> QED  BY <1>1, <1>5 DEF Spliced

\* A text without a check may be given a stanza.
LEMMA WithStanzaShape ==
  ASSUME NEW t, Shape(t), ~Has(t, "check")
  PROVE  Shape(WithStanza(t))
PROOF
  <1>1. t \in Seq(Kinds)
    BY DEF Shape
  <1>2. PICK a \in Seq(Kinds), b \in Seq(Kinds) : t = a \o b /\ WithStanza(t) = a \o Stanza \o b
    BY <1>1, StanzaBetween
  <1>3. NoStanza(a) /\ NoStanza(b)
    <2>1. \A l \in {"begin", "check", "end"} : ~Has(t, l)
      BY NoCheckNoStanza
    <2> QED  BY <1>2, <2>1, HasJoined DEF NoStanza
  <1> DEFINE w == WithStanza(t)
  <1>4. Between(a, b, w)
    BY <1>2, SplicedParts
  <1> HIDE DEF w
  <1>5. w \in Seq(Kinds) /\ Spliced(a, w)
    BY <1>3, <1>4, SplicedLines
  <1>6. Shape(w)
    <2>0. Len(w) \in Nat /\ Len(a) \in Nat /\ Len(a) + 3 <= Len(w)
      BY <1>5 DEF Spliced
    <2>1. ASSUME NEW i \in 1..Len(w), NEW j \in 1..Len(w), w[i] = "begin", w[j] = "begin"
          PROVE  i = j
      BY <1>5, <2>1 DEF Spliced
    <2>2. ASSUME NEW i \in 1..Len(w), w[i] = "begin"
          PROVE  i + 2 <= Len(w) /\ w[i + 1] = "check" /\ w[i + 2] = "end"
      <3>1. i = Len(a) + 1
        BY <1>5, <2>2 DEF Spliced
      <3>2. i + 1 \in 1..Len(w) /\ i + 2 \in 1..Len(w) /\ i + 1 = Len(a) + 2 /\ i + 2 = Len(a) + 3
        BY <2>0, <3>1
      <3> QED  BY <1>5, <2>0, <3>2 DEF Spliced
    <2>3. ASSUME NEW i \in 1..Len(w), w[i] = "end"
          PROVE  i > 2 /\ w[i - 2] = "begin"
      <3>1. i = Len(a) + 3
        BY <1>5, <2>3 DEF Spliced
      <3>2. i > 2 /\ i - 2 \in 1..Len(w) /\ i - 2 = Len(a) + 1
        BY <2>0, <3>1
      <3> QED  BY <1>5, <3>2 DEF Spliced
    <2> QED  BY <1>5, <2>1, <2>2, <2>3, ShapeWhole
  <1> QED  BY <1>6 DEF w

-----------------------------------------------------------------------------
(* The administrator's insertion.                                           *)

\* r is t with l put before its line i.
Inserted(t, i, l, r) ==
  /\ r \in Seq(Kinds) /\ Len(r) = Len(t) + 1
  /\ r[i] = l
  /\ \A p \in 1..(i - 1) : r[p] = t[p]
  /\ \A p \in i..Len(t) : r[p + 1] = t[p]

\* Part of a text.
LEMMA PartOf ==
  ASSUME NEW t \in Seq(Kinds), NEW m \in 1..Len(t) + 1, NEW n \in 0..Len(t), m <= n + 1
  PROVE  /\ SubSeq(t, m, n) \in Seq(Kinds) /\ Len(SubSeq(t, m, n)) = n + 1 - m
         /\ \A k \in 1..(n + 1 - m) : SubSeq(t, m, n)[k] = t[m + k - 1]
PROOF
  <1>1. m \in Int /\ n \in Int /\ \A k \in m..n : t[k] \in Kinds
    OBVIOUS
  <1> DEFINE s == SubSeq(t, m, n)
  <1>2. /\ s \in Seq(Kinds) /\ Len(s) = (IF m <= n THEN n - m + 1 ELSE 0)
        /\ \A k \in 1..n - m + 1 : s[k] = t[m + k - 1]
    BY <1>1, SubSeqProperties
  <1> HIDE DEF s
  <1>3. (IF m <= n THEN n - m + 1 ELSE 0) = n + 1 - m /\ n - m + 1 = n + 1 - m
    OBVIOUS
  <1>4. s \in Seq(Kinds) /\ Len(s) = n + 1 - m /\ \A k \in 1..(n + 1 - m) : s[k] = t[m + k - 1]
    BY <1>2, <1>3
  <1> QED  BY <1>4 DEF s

\* What Insert makes of a text.
LEMMA InsertedIs ==
  ASSUME NEW t \in Seq(Kinds), NEW i \in 1..Len(t) + 1, NEW l \in Kinds
  PROVE  Inserted(t, i, l, SubSeq(t, 1, i - 1) \o <<l>> \o SubSeq(t, i, Len(t)))
PROOF
  <1> DEFINE a == SubSeq(t, 1, i - 1)
             b == SubSeq(t, i, Len(t))
             s == a \o <<l>>
             r == a \o <<l>> \o b
  <1>0. Len(t) \in Nat /\ i \in Nat /\ i >= 1 /\ i <= Len(t) + 1
    OBVIOUS
  <1>1. a \in Seq(Kinds) /\ Len(a) = i - 1 /\ \A k \in 1..(i - 1) : a[k] = t[k]
    <2>1. 1 \in 1..Len(t) + 1 /\ i - 1 \in 0..Len(t) /\ 1 <= (i - 1) + 1 /\ (i - 1) + 1 - 1 = i - 1
      BY <1>0
    <2>2. /\ a \in Seq(Kinds) /\ Len(a) = (i - 1) + 1 - 1
          /\ \A k \in 1..((i - 1) + 1 - 1) : a[k] = t[1 + k - 1]
      BY <2>1, PartOf
    <2> HIDE DEF a
    <2>3. \A k \in 1..(i - 1) : 1 + k - 1 = k
      OBVIOUS
    <2> QED  BY <2>1, <2>2, <2>3
  <1>2. /\ b \in Seq(Kinds) /\ Len(b) = Len(t) + 1 - i
        /\ \A k \in 1..(Len(t) + 1 - i) : b[k] = t[i + k - 1]
    <2>1. Len(t) \in 0..Len(t) /\ i <= Len(t) + 1
      BY <1>0
    <2> QED  BY <2>1, PartOf
  <1>3. <<l>> \in Seq(Kinds) /\ Len(<<l>>) = 1 /\ <<l>>[1] = l
    OBVIOUS
  <1> HIDE DEF a, b
  <1>4. Follows(a, <<l>>, s)
    BY <1>1, <1>3, Following
  <1>5. r = s \o b /\ s \in Seq(Kinds)
    BY <1>4 DEF Follows
  <1> HIDE DEF s, r
  <1>6. Follows(s, b, r)
    BY <1>2, <1>5, Following
  <1>7. Len(s) = i /\ (\A k \in 1..(i - 1) : s[k] = t[k]) /\ s[i] = l
    <2>1. Len(s) = i
      BY <1>0, <1>1, <1>3, <1>4 DEF Follows
    <2>2. \A k \in 1..(i - 1) : s[k] = t[k]
      BY <1>1, <1>4 DEF Follows
    <2>3. s[Len(a) + 1] = l
      <3>1. 1 \in 1..Len(<<l>>)
        BY <1>3
      <3> QED  BY <1>3, <1>4, <3>1 DEF Follows
    <2>4. Len(a) + 1 = i
      BY <1>0, <1>1
    <2> QED  BY <2>1, <2>2, <2>3, <2>4
  <1>8. r \in Seq(Kinds) /\ Len(r) = Len(t) + 1
    BY <1>0, <1>2, <1>6, <1>7 DEF Follows
  <1>9. \A k \in 1..i : r[k] = s[k]
    BY <1>6, <1>7 DEF Follows
  <1>10. ASSUME NEW p \in i..Len(t)
         PROVE  r[p + 1] = t[p]
    <2>1. PICK k \in 1..(Len(t) + 1 - i) : p = i + k - 1
      <3>1. p + 1 - i \in 1..(Len(t) + 1 - i) /\ p = i + (p + 1 - i) - 1
        BY <1>0
      <3> QED  BY <3>1
    <2>2. p + 1 = i + k
      BY <1>0, <2>1
    <2>3. r[i + k] = b[k] /\ b[k] = t[i + k - 1]
      BY <1>2, <1>6, <1>7 DEF Follows
    <2> QED  BY <2>1, <2>2, <2>3
  <1>11. \A p \in 1..(i - 1) : r[p] = t[p]
    <2>1. \A p \in 1..(i - 1) : p \in 1..i
      BY <1>0
    <2> QED  BY <1>7, <1>9, <2>1
  <1>12. r[i] = l
    <2>1. i \in 1..i
      BY <1>0
    <2> QED  BY <1>7, <1>9, <2>1
  <1>13. Inserted(t, i, l, r)
    BY <1>8, <1>10, <1>11, <1>12 DEF Inserted
  <1> QED  BY <1>13 DEF r, a, b

\* Every line of r is the new one or one of t, which stands at p or before.
LEMMA InsertedBack ==
  ASSUME NEW t \in Seq(Kinds), NEW i \in 1..Len(t) + 1, NEW l, NEW r, Inserted(t, i, l, r),
         NEW p \in 1..Len(r), r[p] # l
  PROVE  \/ p < i /\ p \in 1..Len(t) /\ t[p] = r[p]
         \/ p > i /\ p - 1 \in i..Len(t) /\ p - 1 \in 1..Len(t) /\ t[p - 1] = r[p]
PROOF
  <1>0. Len(t) \in Nat /\ Len(r) = Len(t) + 1 /\ r[i] = l
        /\ (\A q \in 1..(i - 1) : r[q] = t[q]) /\ \A q \in i..Len(t) : r[q + 1] = t[q]
    BY DEF Inserted
  <1>1. CASE p < i
    <2>1. p \in 1..(i - 1) /\ p \in 1..Len(t)
      BY <1>0, <1>1
    <2> QED  BY <1>0, <1>1, <2>1
  <1>2. CASE p > i
    <2>1. p - 1 \in i..Len(t) /\ (p - 1) + 1 = p /\ p - 1 \in 1..Len(t)
      BY <1>0, <1>2
    <2>2. r[(p - 1) + 1] = t[p - 1]
      BY <1>0, <2>1
    <2> QED  BY <1>2, <2>1, <2>2
  <1>3. p # i
    BY <1>0
  <1> QED  BY <1>0, <1>1, <1>2, <1>3

\* The administrator does not write into the stanza, and it stays whole.
LEMMA InsertedShape ==
  ASSUME NEW t, Shape(t), NEW i \in 1..Len(t) + 1, NEW l \in TypedKinds, NEW r,
         Inserted(t, i, l, r), ~InStanza(t, i)
  PROVE  Shape(r)
PROOF
  <1>1. /\ t \in Seq(Kinds) /\ DOMAIN t = 1..Len(t) /\ Len(t) \in Nat
        /\ \A k, j \in 1..Len(t) : t[k] = "begin" /\ t[j] = "begin" => k = j
        /\ \A k \in 1..Len(t) : t[k] = "begin" =>
             k + 2 <= Len(t) /\ t[k + 1] = "check" /\ t[k + 2] = "end"
        /\ \A k \in 1..Len(t) : t[k] = "end" => k > 2 /\ t[k - 2] = "begin"
    BY ShapeParts
  <1>2. l # "begin" /\ l # "end"
    BY DEF TypedKinds
  <1>3. ~(i > 1 /\ t[i - 1] = "begin") /\ ~(i > 2 /\ t[i - 2] = "begin")
    BY InStanzaIs DEF Within
  <1>4. /\ r \in Seq(Kinds) /\ Len(r) = Len(t) + 1 /\ r[i] = l
        /\ \A p \in 1..(i - 1) : r[p] = t[p]
        /\ \A p \in i..Len(t) : r[p + 1] = t[p]
    BY DEF Inserted
  <1>5. ASSUME NEW p \in 1..Len(r), r[p] # l
        PROVE  \/ p < i /\ p \in 1..Len(t) /\ t[p] = r[p]
               \/ p > i /\ p - 1 \in i..Len(t) /\ p - 1 \in 1..Len(t) /\ t[p - 1] = r[p]
    BY <1>1, <1>5, InsertedBack
  <1>6. ASSUME NEW p \in 1..Len(r), r[p] = "begin"
        PROVE  \/ p < i - 2 /\ p \in 1..Len(t) /\ t[p] = "begin"
               \/ p > i /\ p - 1 \in i..Len(t) /\ p - 1 \in 1..Len(t) /\ t[p - 1] = "begin"
    <2>1. CASE p < i /\ p \in 1..Len(t) /\ t[p] = r[p]
      <3>1. p # i - 1
        BY <1>3, <1>6, <2>1
      <3>2. p # i - 2
        BY <1>3, <1>6, <2>1
      <3> QED  BY <1>6, <2>1, <3>1, <3>2
    <2>2. CASE p > i /\ p - 1 \in i..Len(t) /\ p - 1 \in 1..Len(t) /\ t[p - 1] = r[p]
      BY <1>6, <2>2
    <2> QED  BY <1>2, <1>5, <1>6, <2>1, <2>2
  <1>7. ASSUME NEW p \in 1..Len(r), NEW q \in 1..Len(r), r[p] = "begin", r[q] = "begin"
        PROVE  p = q
    <2>1. PICK k \in 1..Len(t) : t[k] = "begin" /\ ((k = p /\ k < i - 2) \/ (k = p - 1 /\ k >= i))
      BY <1>6, <1>7
    <2>2. PICK j \in 1..Len(t) : t[j] = "begin" /\ ((j = q /\ j < i - 2) \/ (j = q - 1 /\ j >= i))
      BY <1>6, <1>7
    <2>3. k = j
      BY <1>1, <2>1, <2>2
    <2> QED  BY <2>1, <2>2, <2>3
  <1>8. ASSUME NEW p \in 1..Len(r), r[p] = "begin"
        PROVE  p + 2 <= Len(r) /\ r[p + 1] = "check" /\ r[p + 2] = "end"
    <2>1. CASE p < i - 2 /\ p \in 1..Len(t) /\ t[p] = "begin"
      <3>1. p + 2 <= Len(t) /\ t[p + 1] = "check" /\ t[p + 2] = "end"
        BY <1>1, <2>1
      <3>2. p + 1 \in 1..(i - 1) /\ p + 2 \in 1..(i - 1)
        BY <1>1, <2>1
      <3>3. r[p + 1] = t[p + 1] /\ r[p + 2] = t[p + 2]
        BY <1>4, <3>2
      <3> QED  BY <1>1, <1>4, <3>1, <3>3
    <2>2. CASE p > i /\ p - 1 \in i..Len(t) /\ p - 1 \in 1..Len(t) /\ t[p - 1] = "begin"
      <3>1. (p - 1) + 2 <= Len(t) /\ t[(p - 1) + 1] = "check" /\ t[(p - 1) + 2] = "end"
        BY <1>1, <2>2
      <3>2. (p - 1) + 1 = p /\ (p - 1) + 2 = p + 1
        OBVIOUS
      <3>3. p \in i..Len(t) /\ p + 1 \in i..Len(t) /\ (p + 1) + 1 = p + 2
        BY <1>1, <2>2, <3>1
      <3>4. r[p + 1] = t[p] /\ r[(p + 1) + 1] = t[p + 1]
        BY <1>4, <3>3
      <3> QED  BY <1>1, <1>4, <3>1, <3>2, <3>3, <3>4
    <2> QED  BY <1>6, <1>8, <2>1, <2>2
  <1>9. ASSUME NEW p \in 1..Len(r), r[p] = "end"
        PROVE  p > 2 /\ r[p - 2] = "begin"
    <2>1. CASE p < i /\ p \in 1..Len(t) /\ t[p] = r[p]
      <3>1. p > 2 /\ t[p - 2] = "begin"
        BY <1>1, <1>9, <2>1
      <3>2. p - 2 \in 1..(i - 1)
        BY <2>1, <3>1
      <3> QED  BY <1>4, <3>1, <3>2
    <2>2. CASE p > i /\ p - 1 \in i..Len(t) /\ p - 1 \in 1..Len(t) /\ t[p - 1] = r[p]
      <3>1. p - 1 > 2 /\ t[(p - 1) - 2] = "begin"
        BY <1>1, <1>9, <2>2
      <3>2. (p - 1) - 2 = p - 3 /\ p - 3 \in 1..Len(t)
        BY <2>2, <3>1
      <3>3. p - 3 # i - 1 /\ p - 3 # i - 2
        BY <1>3, <3>1, <3>2
      <3>4. p - 3 >= i
        BY <2>2, <3>3
      <3>5. p - 3 \in i..Len(t) /\ (p - 3) + 1 = p - 2
        BY <3>2, <3>4
      <3>6. r[(p - 3) + 1] = t[p - 3]
        BY <1>4, <3>5
      <3> QED  BY <3>1, <3>2, <3>5, <3>6
    <2> QED  BY <1>2, <1>5, <1>9, <2>1, <2>2
  <1> QED  BY <1>4, <1>7, <1>8, <1>9, ShapeWhole

-----------------------------------------------------------------------------
(* The invariant.                                                           *)

\* A typed text has no line of IRAuth.
LEMMA SInvInit == Init => SInv
PROOF
  <1> SUFFICES ASSUME Init PROVE SInv
    OBVIOUS
  <1>1. text \in BoundedSeq(Typed, MaxLines) /\ inserts = 0
    BY DEF Init
  <1>2. Typed \subseteq TypedKinds /\ MaxInserts \in Nat /\ MaxLines \in Nat
    BY PamTextAssumption
  <1>3. PICK m \in 0..MaxLines : text \in [1..m -> Typed]
    BY <1>1 DEF BoundedSeq, SeqOf
  <1>4. m \in Nat /\ TypedKinds \subseteq Kinds
    BY <1>2 DEF Kinds
  <1>5. text \in Seq(Kinds) /\ DOMAIN text = 1..m
    <2>1. text \in [1..m -> Kinds]
      BY <1>2, <1>3, <1>4
    <2> QED  BY <1>4, <2>1
  <1>6. \A i \in DOMAIN text : text[i] \in TypedKinds
    BY <1>2, <1>3
  <1>7. ~Has(text, "begin") /\ ~Has(text, "end")
    BY <1>6 DEF Has, TypedKinds
  <1>8. Shape(text)
    BY <1>5, <1>7, PlainShape
  <1> QED  BY <1>1, <1>2, <1>8 DEF SInv

\* enable() adds no second stanza.
LEMMA EnabledShape ==
  ASSUME NEW t, Shape(t)
  PROVE  Shape(Enabled(t))
  BY WithStanzaShape DEF Enabled

\* Every command, and the administrator, keep the shape.
LEMMA SInvStep == SInv /\ [Next]_vars => SInv'
PROOF
  <1> SUFFICES ASSUME SInv, [Next]_vars PROVE SInv'
    OBVIOUS
  <1>0. Shape(text) /\ inserts \in 0..MaxInserts /\ text \in Seq(Kinds)
    BY DEF SInv, Shape
  <1>i. MaxInserts \in Nat /\ Typed \subseteq TypedKinds /\ TypedKinds \subseteq Kinds
    BY PamTextAssumption DEF Kinds
  <1>1. CASE Enable
    <2>1. text' = Enabled(text) /\ inserts' = inserts
      BY <1>1 DEF Enable
    <2>2. Shape(text')
      BY <1>0, <2>1, EnabledShape
    <2> QED  BY <1>0, <2>1, <2>2 DEF SInv
  <1>2. CASE Migrate
    <2>1. text' = Rewritten(text) /\ inserts' = inserts
      BY <1>2 DEF Migrate
    <2>2. Shape(text')
      BY <1>0, <2>1, RewriteShape
    <2> QED  BY <1>0, <2>1, <2>2 DEF SInv
  <1>3. CASE Disable
    <2>1. text' = Stripped(text) /\ inserts' = inserts
      BY <1>3 DEF Disable
    <2>2. Shape(text')
      BY <1>0, <2>1, StrippedShape
    <2> QED  BY <1>0, <2>1, <2>2 DEF SInv
  <1>4. CASE Insert
    <2>1. inserts < MaxInserts /\ inserts' = inserts + 1
      BY <1>4 DEF Insert
    <2>2. PICK i \in 1..(Len(text) + 1) : \E l \in Typed :
            /\ ~InStanza(text, i)
            /\ text' = SubSeq(text, 1, i - 1) \o <<l>> \o SubSeq(text, i, Len(text))
      BY <1>4 DEF Insert
    <2>3. PICK l \in Typed :
            /\ ~InStanza(text, i)
            /\ text' = SubSeq(text, 1, i - 1) \o <<l>> \o SubSeq(text, i, Len(text))
      BY <2>2
    <2>4. l \in TypedKinds /\ l \in Kinds /\ i \in 1..Len(text) + 1
      BY <1>i
    <2>5. Inserted(text, i, l, text')
      BY <1>0, <2>3, <2>4, InsertedIs
    <2>6. Shape(text')
      BY <1>0, <2>3, <2>4, <2>5, InsertedShape
    <2>7. inserts' \in 0..MaxInserts
      BY <1>0, <1>i, <2>1
    <2> QED  BY <2>6, <2>7 DEF SInv
  <1>5. CASE UNCHANGED vars
    BY <1>0, <1>5 DEF SInv, Shape, vars
  <1> QED  BY <1>1, <1>2, <1>3, <1>4, <1>5 DEF Next

\* At all times the stanza in a text is one and whole, and does not run over
\* the end of the text: the inductive invariant.
THEOREM TextShape == Spec => []SInv
PROOF
  <1> QED  BY SInvInit, SInvStep, PTL DEF Spec

\* pam_enable, the migration and pam_disable, in any order and between any
\* lines an administrator types, leave at most one stanza, and never half of one.
THEOREM AlwaysWellFormed == Spec => []WellFormed
PROOF
  <1> QED  BY TextShape, ShapeIsWellFormed, PTL

-----------------------------------------------------------------------------
(* No edit loses, changes or reorders a line of the administrator's.        *)

\* The stanza has no line of the administrator's.
LEMMA OwnStanza == Own(Stanza) = <<>>
PROOF
  <1>1. "begin" \in Kinds /\ "check" \in Kinds /\ "end" \in Kinds
    BY DEF Kinds
  <1>2. OwnOf("begin") = <<>> /\ OwnOf("check") = <<>> /\ OwnOf("end") = <<>>
    BY DEF OwnOf, TypedKinds
  <1>3. Own(<<"begin">>) = <<>> /\ Own(<<"check">>) = <<>> /\ Own(<<"end">>) = <<>>
    BY <1>1, <1>2, OwnOne
  <1>4. /\ <<"begin">> \in Seq(Kinds) /\ <<"check">> \in Seq(Kinds) /\ <<"end">> \in Seq(Kinds)
        /\ <<"begin">> \o <<"check">> \in Seq(Kinds)
        /\ Stanza = (<<"begin">> \o <<"check">>) \o <<"end">>
    BY <1>1 DEF Stanza
  <1>5. Own(<<"begin">> \o <<"check">>) = <<>> \o <<>>
    BY <1>3, <1>4, OwnConcat
  <1>6. <<>> \o <<>> = <<>>
    OBVIOUS
  <1>7. Own(Stanza) = Own(<<"begin">> \o <<"check">>) \o Own(<<"end">>)
    <2> DEFINE x == <<"begin">> \o <<"check">>
               y == <<"end">>
    <2>1. x \in Seq(Kinds) /\ y \in Seq(Kinds) /\ Stanza = x \o y
      BY <1>4
    <2> HIDE DEF x, y
    <2>2. Own(Stanza) = Own(x) \o Own(y)
      BY <2>1, OwnConcat
    <2> QED  BY <2>2 DEF x, y
  <1> QED  BY <1>3, <1>5, <1>6, <1>7

\* pam_enable keeps them.
LEMMA OwnWithStanza ==
  ASSUME NEW t \in Seq(Kinds)
  PROVE  Own(WithStanza(t)) = Own(t)
PROOF
  <1>1. PICK a \in Seq(Kinds), b \in Seq(Kinds) : t = a \o b /\ WithStanza(t) = a \o Stanza \o b
    BY StanzaBetween
  <1>2. Stanza \in Seq(Kinds)
    BY StanzaSeq
  <1> DEFINE s == a \o Stanza
  <1>3. Follows(a, Stanza, s)
    BY <1>2, Following
  <1>4. s \in Seq(Kinds)
    BY <1>3 DEF Follows
  <1>5. Own(s) = Own(a) \o <<>>
    BY <1>2, OwnConcat, OwnStanza
  <1>6. Own(a) \in Seq(Kinds)
    BY OwnType
  <1>7. Own(a) \o <<>> = Own(a)
    BY <1>6, ConcatEmptySeq
  <1>8. WithStanza(t) = s \o b
    BY <1>1
  <1> HIDE DEF s
  <1>9. Own(s \o b) = Own(s) \o Own(b)
    BY <1>4, OwnConcat
  <1>10. Own(a \o b) = Own(a) \o Own(b)
    BY OwnConcat
  <1> QED  BY <1>1, <1>5, <1>7, <1>8, <1>9, <1>10

\* A call that was commented out counts as the call.
LEMMA OwnPairs == /\ Own(<<"marker", "off">>) = <<"howdy">>
                  /\ Own(<<"marker", "off", "check">>) = <<"howdy">>
PROOF
  <1>1. "marker" \in Kinds /\ "off" \in Kinds /\ "check" \in Kinds
    BY DEF Kinds
  <1>2. OwnOf("marker") = <<>> /\ OwnOf("off") = <<"howdy">> /\ OwnOf("check") = <<>>
    BY DEF OwnOf, TypedKinds
  <1>3. Own(<<"marker">>) = <<>> /\ Own(<<"off">>) = <<"howdy">> /\ Own(<<"check">>) = <<>>
    BY <1>1, <1>2, OwnOne
  <1> DEFINE x == <<"marker">>
             y == <<"off">>
             z == <<"check">>
             xy == <<"marker", "off">>
  <1>4. /\ x \in Seq(Kinds) /\ y \in Seq(Kinds) /\ z \in Seq(Kinds)
        /\ xy \in Seq(Kinds) /\ xy = x \o y
        /\ <<"marker", "off", "check">> = xy \o z
    BY <1>1
  <1>5. <<>> \o <<"howdy">> = <<"howdy">> /\ <<"howdy">> \o <<>> = <<"howdy">>
    OBVIOUS
  <1>6. Own(xy) = <<"howdy">>
    <2>1. Own(x) = <<>> /\ Own(y) = <<"howdy">>
      BY <1>3
    <2> HIDE DEF x, y, xy
    <2>2. Own(xy) = Own(x) \o Own(y)
      BY <1>4, OwnConcat
    <2> QED  BY <1>5, <2>1, <2>2
  <1>7. Own(<<"marker", "off", "check">>) = <<"howdy">>
    <2>1. Own(z) = <<>>
      BY <1>3
    <2> HIDE DEF x, y, z, xy
    <2>2. Own(xy \o z) = Own(xy) \o Own(z)
      BY <1>4, OwnConcat
    <2> QED  BY <1>4, <1>5, <1>6, <2>1, <2>2
  <1> QED  BY <1>6, <1>7

\* The migration keeps them, the commented calls among them.
LEMMA OwnRewritten ==
  ASSUME NEW t \in Seq(Kinds)
  PROVE  Own(Rewritten(t)) = Own(t)
PROOF
  <1> DEFINE f == Rewriting(t)
             g == [i \in DOMAIN f |-> Own(f[i])]
  <1>1. /\ f \in Seq(Seq(Kinds)) /\ Len(f) = Len(t) /\ Len(t) \in Nat
        /\ \A i \in 1..Len(t) :
              /\ t[i] # "howdy" => f[i] = <<t[i]>>
              /\ t[i] = "howdy" /\ i # First(t, "howdy") => f[i] = <<"marker", "off">>
              /\ t[i] = "howdy" /\ i = First(t, "howdy") =>
                   f[i] = <<"marker", "off", "check">>
    BY RewritingSeq
  <1>2. Rewritten(t) = FlattenSeq(f)
    BY DEF Rewritten, Rewriting
  <1> HIDE DEF f
  <1>3. Own(FlattenSeq(f)) = FlattenSeq(g)
    BY <1>1, OwnFlatten
  <1>4. g = OwnMap(t)
    <2>1. DOMAIN f = DOMAIN t /\ DOMAIN t = 1..Len(t)
      BY <1>1
    <2>2. ASSUME NEW i \in 1..Len(t)
          PROVE  Own(f[i]) = OwnOf(t[i])
      <3>0. t[i] \in Kinds /\ OwnOf("howdy") = <<"howdy">>
        BY DEF OwnOf, TypedKinds
      <3>1. CASE t[i] # "howdy"
        <4>1. f[i] = <<t[i]>>
          BY <1>1, <3>1
        <4> QED  BY <3>0, <4>1, OwnOne
      <3>2. CASE t[i] = "howdy" /\ i # First(t, "howdy")
        <4>1. f[i] = <<"marker", "off">>
          BY <1>1, <3>2
        <4> QED  BY <3>0, <3>2, <4>1, OwnPairs
      <3>3. CASE t[i] = "howdy" /\ i = First(t, "howdy")
        <4>1. f[i] = <<"marker", "off", "check">>
          BY <1>1, <3>3
        <4> QED  BY <3>0, <3>3, <4>1, OwnPairs
      <3> QED  BY <3>1, <3>2, <3>3
    <2> QED  BY <2>1, <2>2 DEF OwnMap
  <1> QED  BY <1>2, <1>3, <1>4, OwnIs

\* pam_disable keeps them: all it drops is begin, check and end.
LEMMA OwnStripped ==
  ASSUME NEW t, Shape(t)
  PROVE  Own(Stripped(t)) = Own(t)
PROOF
  <1> DEFINE f == Stripping(t)
             g == [i \in DOMAIN f |-> Own(f[i])]
  <1>0. t \in Seq(Kinds) /\ DOMAIN t = 1..Len(t) /\ Len(t) \in Nat
    BY ShapeParts
  <1>1. /\ f \in Seq(Seq(Kinds)) /\ Len(f) = Len(t)
        /\ \A i \in 1..Len(t) : f[i] = IF Dropped(t, i) THEN <<>> ELSE <<t[i]>>
    BY <1>0, StrippingSeq
  <1>2. Stripped(t) = FlattenSeq(f)
    BY DEF Stripped, Stripping
  <1> HIDE DEF f
  <1>3. Own(FlattenSeq(f)) = FlattenSeq(g)
    BY <1>1, OwnFlatten
  <1>4. g = OwnMap(t)
    <2>1. DOMAIN f = DOMAIN t
      BY <1>0, <1>1
    <2>2. ASSUME NEW i \in 1..Len(t)
          PROVE  Own(f[i]) = OwnOf(t[i])
      <3>0. t[i] \in Kinds
        BY <1>0
      <3>1. CASE ~Dropped(t, i)
        <4>1. f[i] = <<t[i]>>
          BY <1>1, <3>1
        <4> QED  BY <3>0, <4>1, OwnOne
      <3>2. CASE Dropped(t, i)
        <4>1. f[i] = <<>>
          BY <1>1, <3>2
        <4>2. InStanza(t, i) => t[i] \in {"check", "end"}
          BY InStanzaLines
        <4>3. t[i] \in {"begin", "check", "end"}
          BY <3>2, <4>2 DEF Dropped
        <4>4. OwnOf(t[i]) = <<>>
          BY <4>3 DEF OwnOf, TypedKinds
        <4> QED  BY <4>1, <4>4, OwnNone
      <3> QED  BY <3>1, <3>2
    <2> QED  BY <1>0, <2>1, <2>2 DEF OwnMap
  <1> QED  BY <1>2, <1>3, <1>4, OwnIs

\* No edit loses, changes or reorders a line of the administrator's, for texts
\* of any length.
THEOREM EditsKeepOwnLines == Spec => OwnLinesKept
PROOF
  <1>1. SInv /\ [Next]_vars => [Enable \/ Migrate \/ Disable => Own(text') = Own(text)]_vars
    <2> SUFFICES ASSUME SInv, Enable \/ Migrate \/ Disable PROVE Own(text') = Own(text)
      OBVIOUS
    <2>0. Shape(text) /\ text \in Seq(Kinds)
      BY DEF SInv, Shape
    <2>1. CASE Enable
      <3>1. Own(Enabled(text)) = Own(text)
        BY <2>0, OwnWithStanza DEF Enabled
      <3> QED  BY <2>1, <3>1 DEF Enable
    <2>2. CASE Migrate
      <3>1. Own(Rewritten(text)) = Own(text)
        BY <2>0, OwnRewritten
      <3> QED  BY <2>2, <3>1 DEF Migrate
    <2>3. CASE Disable
      <3>1. Own(Stripped(text)) = Own(text)
        BY <2>0, OwnStripped
      <3> QED  BY <2>3, <3>1 DEF Disable
    <2> QED  BY <2>1, <2>2, <2>3
  <1> QED  BY <1>1, TextShape, PTL DEF Spec, OwnLinesKept

-----------------------------------------------------------------------------
(* The edits of a text are those of the stack it stands for.                *)

\* A check that is not the stanza's.
Inline(t) == \E i \in 1..Len(t) : t[i] = "check" /\ ~(i > 1 /\ t[i - 1] = "begin")

Stack == [base : {1}, howdy : BOOLEAN, marked : BOOLEAN, inline : BOOLEAN, stanza : BOOLEAN]

\* The stack with these parts.
IsStack(x, howdy, marked, inline, stanza) ==
  /\ x \in Stack /\ x.howdy = howdy /\ x.marked = marked
  /\ x.inline = inline /\ x.stanza = stanza

\* Truth values.
LEMMA SameTruth ==
  ASSUME NEW a \in BOOLEAN, NEW b \in BOOLEAN, a <=> b
  PROVE  a = b
  OBVIOUS

\* The edits of PamStack, by the parts of the stack.
LEMMA StackEdits ==
  ASSUME NEW x \in Stack, NEW y \in Stack
  PROVE  /\ IsStack(y, x.howdy, x.marked, x.inline, x.stanza) => y = x
         /\ IsStack(y, x.howdy, x.marked, x.inline, TRUE) => y = AddStanza(x)
         /\ IsStack(y, x.howdy, x.marked, x.inline, FALSE) => y = Strip(x)
         /\ IsStack(y, FALSE, TRUE, TRUE, x.stanza) => y = Rewrite(x)
PROOF
  <1>1. x.base = 1 /\ y.base = 1
    BY DEF Stack
  <1>2. IsStack(y, x.howdy, x.marked, x.inline, x.stanza) => y = x
    BY <1>1 DEF Stack, IsStack
  <1>3. IsStack(y, x.howdy, x.marked, x.inline, TRUE) => y = AddStanza(x)
    BY <1>1 DEF Stack, IsStack, AddStanza
  <1>4. IsStack(y, x.howdy, x.marked, x.inline, FALSE) => y = Strip(x)
    BY <1>1 DEF Stack, IsStack, Strip
  <1>5. IsStack(y, FALSE, TRUE, TRUE, x.stanza) => y = Rewrite(x)
    BY <1>1 DEF Stack, IsStack, Rewrite
  <1> QED  BY <1>2, <1>3, <1>4, <1>5

\* A stack has its parts.
LEMMA StackParts ==
  ASSUME NEW h \in BOOLEAN, NEW m \in BOOLEAN, NEW i \in BOOLEAN, NEW s \in BOOLEAN,
         NEW x, x = [base |-> 1, howdy |-> h, marked |-> m, inline |-> i, stanza |-> s]
  PROVE  IsStack(x, h, m, i, s)
  BY DEF IsStack, Stack

LEMMA HasIsTruth == \A t, l : Has(t, l) \in BOOLEAN /\ Inline(t) \in BOOLEAN
  BY DEF Has, Inline

\* In a text of the shape the stanza is known by its first line.
LEMMA AbsIs ==
  ASSUME NEW t, Shape(t)
  PROVE  IsStack(Abs(t), Has(t, "howdy"), Has(t, "marker"), Inline(t), Has(t, "begin"))
PROOF
  <1>1. /\ t \in Seq(Kinds) /\ DOMAIN t = 1..Len(t) /\ Len(t) \in Nat
        /\ \A i, j \in 1..Len(t) : t[i] = "begin" /\ t[j] = "begin" => i = j
        /\ \A i \in 1..Len(t) : t[i] = "begin" =>
             i + 2 <= Len(t) /\ t[i + 1] = "check" /\ t[i + 2] = "end"
        /\ \A i \in 1..Len(t) : t[i] = "end" => i > 2 /\ t[i - 2] = "begin"
    BY ShapeParts
  <1> DEFINE inline == \E i \in DOMAIN t : t[i] = "check" /\ ~InStanza(t, i)
             stanza == \E i \in DOMAIN t : t[i] = "check" /\ InStanza(t, i)
  <1>2. ASSUME NEW i \in 1..Len(t), t[i] = "check"
        PROVE  InStanza(t, i) <=> i > 1 /\ t[i - 1] = "begin"
    <2>1. i \in 1..Len(t) + 1
      BY <1>1
    <2>2. i > 1 /\ t[i - 1] = "begin" => InStanza(t, i)
      BY <2>1, InStanzaIs DEF Within
    <2>3. InStanza(t, i) => i > 1 /\ t[i - 1] = "begin"
      BY <1>2, InStanzaLines
    <2> QED  BY <2>2, <2>3
  <1>3. inline <=> Inline(t)
    BY <1>1, <1>2 DEF Inline
  <1>4. stanza <=> Has(t, "begin")
    <2>1. ASSUME NEW i \in 1..Len(t), t[i] = "check", InStanza(t, i)
          PROVE  Has(t, "begin")
      <3>1. i > 1 /\ t[i - 1] = "begin" /\ i - 1 \in 1..Len(t)
        BY <1>1, <1>2, <2>1
      <3> QED  BY <1>1, <3>1 DEF Has
    <2>2. ASSUME NEW i \in 1..Len(t), t[i] = "begin"
          PROVE  stanza
      <3>1. i + 1 \in 1..Len(t) /\ t[i + 1] = "check" /\ i + 1 > 1 /\ (i + 1) - 1 = i
        BY <1>1, <2>2
      <3>2. InStanza(t, i + 1)
        BY <1>2, <2>2, <3>1
      <3> QED  BY <1>1, <3>1, <3>2
    <2> QED  BY <1>1, <2>1, <2>2 DEF Has
  <1> DEFINE howdy == Has(t, "howdy")
             marker == Has(t, "marker")
  <1>5. Abs(t) = [base |-> 1, howdy |-> howdy, marked |-> marker,
                  inline |-> inline, stanza |-> stanza]
    BY DEF Abs, Marked
  <1>6. howdy \in BOOLEAN /\ marker \in BOOLEAN /\ inline \in BOOLEAN /\ stanza \in BOOLEAN
    BY HasIsTruth
  <1>7. inline = Inline(t) /\ stanza = Has(t, "begin")
    <2> HIDE DEF inline, stanza
    <2> QED  BY <1>3, <1>4, <1>6, HasIsTruth, SameTruth
  <1>8. IsStack(Abs(t), howdy, marker, inline, stanza)
    <2> HIDE DEF howdy, marker, inline, stanza
    <2> QED  BY <1>5, <1>6, StackParts
  <1> HIDE DEF inline, stanza
  <1> QED  BY <1>7, <1>8

\* pam_enable looks for a check anywhere in the text.
LEMMA HookedIs ==
  ASSUME NEW t, Shape(t)
  PROVE  Hooked(Abs(t)) <=> Has(t, "check")
PROOF
  <1>1. /\ Abs(t).inline <=> \E i \in DOMAIN t : t[i] = "check" /\ ~InStanza(t, i)
        /\ Abs(t).stanza <=> \E i \in DOMAIN t : t[i] = "check" /\ InStanza(t, i)
    BY DEF Abs
  <1> QED  BY <1>1 DEF Hooked, Has

\* pam_enable.
LEMMA EnableIsAddStanza ==
  ASSUME NEW t, Shape(t)
  PROVE  Abs(Enabled(t)) = IF Hooked(Abs(t)) THEN Abs(t) ELSE AddStanza(Abs(t))
PROOF
  <1>1. CASE Has(t, "check")
    BY <1>1, HookedIs DEF Enabled
  <1>2. CASE ~Has(t, "check")
    <2>0. t \in Seq(Kinds) /\ DOMAIN t = 1..Len(t)
      BY ShapeParts
    <2>1. PICK a \in Seq(Kinds), b \in Seq(Kinds) : t = a \o b /\ WithStanza(t) = a \o Stanza \o b
      BY <2>0, StanzaBetween
    <2>2. NoStanza(a) /\ NoStanza(b)
      <3>1. \A l \in {"begin", "check", "end"} : ~Has(t, l)
        BY <1>2, NoCheckNoStanza
      <3> QED  BY <2>1, <3>1, HasJoined DEF NoStanza
    <2> DEFINE w == WithStanza(t)
    <2>3. Between(a, b, w)
      BY <2>1, SplicedParts
    <2>4. Shape(w)
      BY <1>2, WithStanzaShape
    <2>5. ASSUME NEW l, l \notin {"begin", "check", "end"}
          PROVE  Has(w, l) <=> Has(t, l)
      <3>1. Stanza \in Seq(Kinds) /\ ~Has(Stanza, l)
        <4>1. Stanza \in Seq(Kinds) /\ \A i \in DOMAIN Stanza : i = 1 \/ i = 2 \/ i = 3
          <5>1. Stanza \in Seq(Kinds) /\ Len(Stanza) = 3
            BY StanzaSeq
          <5>2. DOMAIN Stanza = 1..3
            BY <5>1
          <5> QED  BY <5>1, <5>2
        <4> QED  BY <2>5, <4>1, StanzaSeq DEF Has
      <3> DEFINE s == a \o Stanza
      <3>2. Follows(a, Stanza, s)
        BY <3>1, Following
      <3>3. s \in Seq(Kinds)
        BY <3>2 DEF Follows
      <3>4. Has(s, l) <=> Has(a, l)
        BY <3>1, HasJoined
      <3>5. w = s \o b
        BY <2>1
      <3>6. Has(t, l) <=> Has(a, l) \/ Has(b, l)
        BY <2>1, HasJoined
      <3> HIDE DEF s, w
      <3>7. Has(s \o b, l) <=> Has(s, l) \/ Has(b, l)
        BY <3>3, HasJoined
      <3> QED  BY <3>4, <3>5, <3>6, <3>7
    <2> HIDE DEF w
    <2>6. w \in Seq(Kinds) /\ Spliced(a, w)
      BY <2>2, <2>3, SplicedLines
    <2>7. ~Inline(w)
      <3> SUFFICES ASSUME NEW i \in 1..Len(w), w[i] = "check", ~(i > 1 /\ w[i - 1] = "begin")
                   PROVE  FALSE
        BY DEF Inline
      <3>1. i = Len(a) + 2 /\ Len(a) \in Nat
        BY <2>6 DEF Spliced
      <3>2. i > 1 /\ i - 1 \in 1..Len(w) /\ i - 1 = Len(a) + 1
        BY <3>1
      <3>3. w[i - 1] = "begin"
        BY <2>6, <3>2 DEF Spliced
      <3> QED  BY <3>2, <3>3
    <2>8. Has(w, "begin")
      <3>1. Len(a) + 1 \in 1..Len(w) /\ Len(w) \in Nat /\ DOMAIN w = 1..Len(w)
        BY <2>6 DEF Spliced
      <3>2. w[Len(a) + 1] = "begin"
        BY <2>3 DEF Between
      <3> QED  BY <3>1, <3>2 DEF Has
    <2>9. ~Inline(t)
      BY <1>2, <2>0 DEF Inline, Has
    <2>10. (Has(w, "howdy") <=> Has(t, "howdy")) /\ (Has(w, "marker") <=> Has(t, "marker"))
      BY <2>5
    <2>11. IsStack(Abs(w), Has(w, "howdy"), Has(w, "marker"), Inline(w), Has(w, "begin"))
      BY <2>4, AbsIs
    <2>12. IsStack(Abs(t), Has(t, "howdy"), Has(t, "marker"), Inline(t), Has(t, "begin"))
      BY AbsIs
    <2>13. /\ Has(w, "howdy") = Has(t, "howdy") /\ Has(w, "marker") = Has(t, "marker")
           /\ Inline(w) = Inline(t) /\ Has(w, "begin") = TRUE
      BY <2>7, <2>8, <2>9, <2>10, HasIsTruth, SameTruth
    <2>14. Abs(w) = AddStanza(Abs(t))
      <3>1. /\ Abs(t) \in Stack /\ Abs(t).howdy = Has(t, "howdy")
            /\ Abs(t).marked = Has(t, "marker") /\ Abs(t).inline = Inline(t)
        BY <2>12 DEF IsStack
      <3>2. /\ Abs(w) \in Stack /\ Abs(w).howdy = Has(t, "howdy")
            /\ Abs(w).marked = Has(t, "marker") /\ Abs(w).inline = Inline(t)
            /\ Abs(w).stanza = TRUE
        BY <2>11, <2>13 DEF IsStack
      <3>3. IsStack(Abs(w), Abs(t).howdy, Abs(t).marked, Abs(t).inline, TRUE)
        BY <3>1, <3>2 DEF IsStack
      <3> QED  BY <3>1, <3>2, <3>3, StackEdits
    <2>15. Enabled(t) = w /\ ~Hooked(Abs(t))
      BY <1>2, HookedIs DEF Enabled, w
    <2> QED  BY <2>14, <2>15
  <1> QED  BY <1>1, <1>2

\* What the migration leaves of the kinds of lines.
LEMMA RewriteHas ==
  ASSUME NEW t, Shape(t), NEW r, NEW o, Rewrites(t, r, o)
  PROVE  /\ ~Has(r, "howdy")
         /\ Has(r, "begin") <=> Has(t, "begin")
         /\ Has(r, "marker") <=> (Has(t, "marker") \/ Has(t, "howdy"))
         /\ Inline(r) <=> (Inline(t) \/ Has(t, "howdy"))
PROOF
  <1>1. /\ t \in Seq(Kinds) /\ DOMAIN t = 1..Len(t) /\ Len(t) \in Nat
    BY ShapeParts
  <1>2. r \in Seq(Kinds) /\ DOMAIN r = 1..Len(r) /\ Len(r) \in Nat
    BY DEF Rewrites
  <1>3. ASSUME NEW p \in 1..Len(r), r[p] \in {"howdy", "begin"}
        PROVE  \E i \in 1..Len(t) : t[i] = r[p] /\ t[i] # "howdy" /\ p = o[i - 1] + 1 /\ p = o[i]
    BY <1>1, <1>3, RewriteBack
  <1>4. ASSUME NEW i \in 1..Len(t)
        PROVE  /\ o[i - 1] \in Nat /\ o[i] \in Nat /\ o[i] <= Len(r) /\ o[i - 1] < o[i]
               /\ t[i] # "howdy" => o[i] = o[i - 1] + 1 /\ r[o[i]] = t[i] /\ o[i] \in 1..Len(r)
    BY <1>1, RewriteForth
  <1>5. ASSUME NEW i \in 1..Len(t), t[i] = "howdy"
        PROVE  /\ o[i - 1] + 1 \in 1..Len(r) /\ r[o[i - 1] + 1] = "marker"
               /\ i = First(t, "howdy") =>
                    /\ o[i - 1] + 3 \in 1..Len(r) /\ r[o[i - 1] + 3] = "check"
                    /\ r[o[i - 1] + 2] = "off"
    <2>1. /\ r[o[i - 1] + 1] = "marker" /\ r[o[i - 1] + 2] = "off"
          /\ i = First(t, "howdy") => o[i] = o[i - 1] + 3 /\ r[o[i - 1] + 3] = "check"
      BY <1>5 DEF Rewrites
    <2>2. o[i - 1] \in Nat /\ o[i] \in Nat /\ o[i] <= Len(r) /\ o[i - 1] < o[i]
      BY <1>4
    <2>3. o[i - 1] + 1 \in 1..Len(r)
      BY <1>2, <2>2
    <2>4. o[i] = o[i - 1] + 3 => o[i - 1] + 3 \in 1..Len(r)
      BY <1>2, <2>2
    <2> QED  BY <2>1, <2>3, <2>4
  <1>6. ~Has(r, "howdy")
    BY <1>2, <1>3 DEF Has
  <1>7. Has(r, "begin") <=> Has(t, "begin")
    <2>1. ASSUME NEW p \in 1..Len(r), r[p] = "begin" PROVE Has(t, "begin")
      BY <1>1, <1>3, <2>1 DEF Has
    <2>2. ASSUME NEW i \in 1..Len(t), t[i] = "begin" PROVE Has(r, "begin")
      BY <1>2, <1>4, <2>2 DEF Has
    <2> QED  BY <1>1, <1>2, <2>1, <2>2 DEF Has
  <1>8. Has(r, "marker") <=> (Has(t, "marker") \/ Has(t, "howdy"))
    <2>1. ASSUME NEW p \in 1..Len(r), r[p] = "marker" PROVE Has(t, "marker") \/ Has(t, "howdy")
      <3>1. PICK i \in 1..Len(t) : Source(t, r, o, i, p)
        BY DEF Rewrites
      <3>2. t[i] = "marker" \/ t[i] = "howdy"
        BY <2>1, <3>1 DEF Source
      <3> QED  BY <1>1, <3>2 DEF Has
    <2>2. ASSUME NEW i \in 1..Len(t), t[i] = "marker" PROVE Has(r, "marker")
      BY <1>2, <1>4, <2>2 DEF Has
    <2>3. ASSUME NEW i \in 1..Len(t), t[i] = "howdy" PROVE Has(r, "marker")
      BY <1>2, <1>5, <2>3 DEF Has
    <2>4. (\E i \in 1..Len(t) : t[i] = "marker") <=> Has(t, "marker")
      BY <1>1 DEF Has
    <2>5. (\E i \in 1..Len(t) : t[i] = "howdy") <=> Has(t, "howdy")
      BY <1>1 DEF Has
    <2>6. (\E p \in 1..Len(r) : r[p] = "marker") <=> Has(r, "marker")
      BY <1>2 DEF Has
    <2> QED  BY <2>1, <2>2, <2>3, <2>4, <2>5, <2>6
  <1>9. Inline(r) => Inline(t) \/ Has(t, "howdy")
    <2> SUFFICES ASSUME NEW p \in 1..Len(r), r[p] = "check", ~(p > 1 /\ r[p - 1] = "begin"),
                        ~Has(t, "howdy")
                 PROVE  Inline(t)
      BY DEF Inline
    <2>1. PICK i \in 1..Len(t) : Source(t, r, o, i, p)
      BY DEF Rewrites
    <2>2. t[i] # "howdy"
      BY <1>1 DEF Has
    <2>3. t[i] = "check" /\ p = o[i - 1] + 1
      BY <2>1, <2>2 DEF Source
    <2>4. ASSUME i > 1, t[i - 1] = "begin"
          PROVE  FALSE
      <3>1. i - 1 \in 1..Len(t)
        BY <1>1, <2>4
      <3>2. r[o[i - 1]] = "begin" /\ o[i - 1] \in 1..Len(r)
        BY <1>4, <2>4, <3>1
      <3>3. p - 1 = o[i - 1] /\ p > 1
        BY <1>2, <2>3, <3>2
      <3> QED  BY <3>2, <3>3
    <2> QED  BY <2>3, <2>4 DEF Inline
  <1>10. ASSUME NEW i \in 1..Len(t), t[i] = "check", ~(i > 1 /\ t[i - 1] = "begin")
         PROVE  Inline(r)
    <2>1. o[i] = o[i - 1] + 1 /\ r[o[i]] = "check" /\ o[i] \in 1..Len(r) /\ o[i - 1] \in Nat
      BY <1>4, <1>10
    <2>2. ASSUME o[i] > 1, r[o[i] - 1] = "begin"
          PROVE  FALSE
      <3>1. o[i - 1] \in 1..Len(r) /\ r[o[i - 1]] = "begin"
        <4>1. o[i] - 1 = o[i - 1] /\ o[i - 1] >= 1 /\ o[i - 1] <= Len(r)
          BY <1>2, <2>1, <2>2
        <4> QED  BY <1>2, <2>1, <2>2, <4>1
      <3>2. PICK j \in 1..Len(t) : t[j] = "begin" /\ o[i - 1] = o[j]
        BY SMTT(30), <1>3, <3>1
      <3>3. j = i - 1
        <4>1. \A a, b \in 0..Len(t) : a <= b => o[a] <= o[b]
          BY DEF Rewrites
        <4>2. CASE j < i - 1
          <5>1. j + 1 \in 1..Len(t) /\ (j + 1) - 1 = j
            BY <1>1, <4>2
          <5>2. o[j] < o[j + 1] /\ o[j] \in Nat /\ o[j + 1] \in Nat
            BY <1>4, <5>1
          <5>3. j + 1 \in 0..Len(t) /\ i - 1 \in 0..Len(t) /\ j + 1 <= i - 1
            BY <1>1, <4>2
          <5>4. o[j + 1] <= o[i - 1]
            BY <4>1, <5>3
          <5> QED  BY <2>1, <3>2, <5>2, <5>4
        <4>3. CASE j > i - 1
          <5>1. i \in 0..Len(t) /\ j \in 0..Len(t) /\ i <= j
            BY <1>1, <4>3
          <5>2. o[i] <= o[j]
            BY <4>1, <5>1
          <5>3. o[j] \in Nat /\ o[i] \in Nat
            BY <1>4
          <5> QED  BY <2>1, <3>2, <5>2, <5>3
        <4> QED  BY <4>2, <4>3
      <3>4. i > 1 /\ t[i - 1] = "begin"
        BY <3>2, <3>3
      <3> QED  BY <1>10, <3>4
    <2> QED  BY <2>1, <2>2 DEF Inline
  <1>11. ASSUME Has(t, "howdy")
         PROVE  Inline(r)
    <2> DEFINE h == First(t, "howdy")
    <2>1. h \in 1..Len(t) /\ t[h] = "howdy"
      BY <1>1, <1>11, FirstFacts
    <2>2. /\ o[h - 1] + 3 \in 1..Len(r) /\ r[o[h - 1] + 3] = "check"
          /\ r[o[h - 1] + 2] = "off" /\ o[h - 1] \in Nat
      BY <1>4, <1>5, <2>1
    <2> HIDE DEF h
    <2>3. (o[h - 1] + 3) - 1 = o[h - 1] + 2
      BY <2>2
    <2>4. r[(o[h - 1] + 3) - 1] # "begin"
      BY <2>2, <2>3
    <2> QED  BY <2>2, <2>4 DEF Inline
  <1>12. Inline(t) => Inline(r)
    BY <1>10 DEF Inline
  <1> QED  BY <1>6, <1>7, <1>8, <1>9, <1>11, <1>12

\* The migration.
LEMMA MigrateIsRewrite ==
  ASSUME NEW t, Shape(t)
  PROVE  Abs(Rewritten(t)) = IF Direct(Abs(t)) THEN Rewrite(Abs(t)) ELSE Abs(t)
PROOF
  <1>1. t \in Seq(Kinds)
    BY ShapeParts
  <1> DEFINE r == Rewritten(t)
  <1>2. PICK o : Rewrites(t, r, o)
    BY <1>1, RewriteLayout
  <1>3. IsStack(Abs(t), Has(t, "howdy"), Has(t, "marker"), Inline(t), Has(t, "begin"))
    BY AbsIs
  <1>4. IsStack(Abs(r), Has(r, "howdy"), Has(r, "marker"), Inline(r), Has(r, "begin"))
    BY RewriteShape, AbsIs
  <1> HIDE DEF r
  <1>5. /\ ~Has(r, "howdy")
        /\ Has(r, "begin") <=> Has(t, "begin")
        /\ Has(r, "marker") <=> (Has(t, "marker") \/ Has(t, "howdy"))
        /\ Inline(r) <=> (Inline(t) \/ Has(t, "howdy"))
    BY <1>2, RewriteHas
  <1>6. Has(r, "begin") = Has(t, "begin")
    BY <1>5, HasIsTruth, SameTruth
  <1>7. /\ Abs(t) \in Stack /\ Abs(t).howdy = Has(t, "howdy")
        /\ Abs(t).marked = Has(t, "marker") /\ Abs(t).inline = Inline(t)
        /\ Abs(t).stanza = Has(t, "begin")
    BY <1>3 DEF IsStack
  <1>8. CASE Has(t, "howdy")
    <2>1. Has(r, "howdy") = FALSE /\ Has(r, "marker") = TRUE /\ Inline(r) = TRUE
      BY <1>5, <1>8, HasIsTruth, SameTruth
    <2>2. /\ Abs(r) \in Stack /\ Abs(r).howdy = FALSE /\ Abs(r).marked = TRUE
          /\ Abs(r).inline = TRUE /\ Abs(r).stanza = Has(t, "begin")
      BY <1>4, <1>6, <2>1 DEF IsStack
    <2>3. IsStack(Abs(r), FALSE, TRUE, TRUE, Abs(t).stanza)
      BY <1>7, <2>2 DEF IsStack
    <2>4. Abs(r) = Rewrite(Abs(t))
      BY <1>7, <2>2, <2>3, StackEdits
    <2>5. Direct(Abs(t))
      BY <1>7, <1>8 DEF Direct
    <2> QED  BY <2>4, <2>5 DEF r
  <1>9. CASE ~Has(t, "howdy")
    <2>1. Has(r, "howdy") = Has(t, "howdy") /\ Has(r, "marker") = Has(t, "marker")
          /\ Inline(r) = Inline(t)
      BY <1>5, <1>9, HasIsTruth, SameTruth
    <2>2. /\ Abs(r) \in Stack /\ Abs(r).howdy = Has(t, "howdy")
          /\ Abs(r).marked = Has(t, "marker") /\ Abs(r).inline = Inline(t)
          /\ Abs(r).stanza = Has(t, "begin")
      BY <1>4, <1>6, <2>1 DEF IsStack
    <2>3. IsStack(Abs(r), Abs(t).howdy, Abs(t).marked, Abs(t).inline, Abs(t).stanza)
      BY <1>7, <2>2 DEF IsStack
    <2>4. Abs(r) = Abs(t)
      BY <1>7, <2>2, <2>3, StackEdits
    <2>5. ~Direct(Abs(t))
      BY <1>7, <1>9 DEF Direct
    <2> QED  BY <2>4, <2>5 DEF r
  <1> QED  BY <1>8, <1>9

\* pam_disable of a stack without backup.
LEMMA DisableIsStrip ==
  ASSUME NEW t, Shape(t)
  PROVE  Abs(Stripped(t)) = Strip(Abs(t))
PROOF
  <1>1. t \in Seq(Kinds) /\ DOMAIN t = 1..Len(t)
    BY ShapeParts
  <1> DEFINE s == Stripped(t)
  <1>2. /\ s \in Seq(Kinds)
        /\ \A l : Has(s, l) <=> \E i \in 1..Len(t) : t[i] = l /\ ~Dropped(t, i)
    BY <1>1, StrippedLines
  <1>3. IsStack(Abs(t), Has(t, "howdy"), Has(t, "marker"), Inline(t), Has(t, "begin"))
    BY AbsIs
  <1>4. IsStack(Abs(s), Has(s, "howdy"), Has(s, "marker"), Inline(s), Has(s, "begin"))
    BY <1>1, StrippedShape, AbsIs
  <1> HIDE DEF s
  <1>5. ASSUME NEW i \in 1..Len(t), t[i] \in {"howdy", "marker"}
        PROVE  ~Dropped(t, i)
    <2>1. ~InStanza(t, i)
      BY <1>5, InStanzaLines
    <2> QED  BY <1>5, <2>1 DEF Dropped
  <1>6. Has(s, "howdy") <=> Has(t, "howdy")
    BY <1>1, <1>2, <1>5 DEF Has
  <1>7. Has(s, "marker") <=> Has(t, "marker")
    BY <1>1, <1>2, <1>5 DEF Has
  <1>8. ~Has(s, "begin")
    BY <1>2 DEF Dropped
  <1>9. Inline(s) <=> Has(s, "check")
    <2>1. DOMAIN s = 1..Len(s) /\ Len(s) \in Nat
      BY <1>2
    <2>2. ASSUME NEW p \in 1..Len(s), s[p] = "check"
          PROVE  ~(p > 1 /\ s[p - 1] = "begin")
      <3>1. p > 1 => p - 1 \in DOMAIN s
        BY <2>1
      <3> QED  BY <1>8, <3>1 DEF Has
    <2> QED  BY <2>1, <2>2 DEF Inline, Has
  <1>10. Has(s, "check") <=> Inline(t)
    <2>1. ASSUME NEW i \in 1..Len(t), t[i] = "check"
          PROVE  Dropped(t, i) <=> (i > 1 /\ t[i - 1] = "begin")
      <3>1. Dropped(t, i) <=> InStanza(t, i)
        BY <2>1 DEF Dropped
      <3>2. InStanza(t, i) => (i > 1 /\ t[i - 1] = "begin")
        BY <2>1, InStanzaLines
      <3>3. (i > 1 /\ t[i - 1] = "begin") => InStanza(t, i)
        <4>1. i \in 1..Len(t) + 1
          BY <1>1
        <4> QED  BY <4>1, InStanzaIs DEF Within
      <3> QED  BY <3>1, <3>2, <3>3
    <2> QED  BY <1>2, <2>1 DEF Inline
  <1>11. /\ Has(s, "howdy") = Has(t, "howdy") /\ Has(s, "marker") = Has(t, "marker")
         /\ Has(s, "begin") = FALSE
    BY <1>6, <1>7, <1>8, HasIsTruth, SameTruth
  <1>12. Inline(s) = Inline(t)
    BY <1>9, <1>10, HasIsTruth, SameTruth
  <1>13. /\ Abs(t) \in Stack /\ Abs(t).howdy = Has(t, "howdy")
         /\ Abs(t).marked = Has(t, "marker") /\ Abs(t).inline = Inline(t)
         /\ Abs(t).stanza = Has(t, "begin")
    BY <1>3 DEF IsStack
  <1>14. /\ Abs(s) \in Stack /\ Abs(s).howdy = Has(t, "howdy")
         /\ Abs(s).marked = Has(t, "marker") /\ Abs(s).inline = Inline(t)
         /\ Abs(s).stanza = FALSE
    BY <1>4, <1>11, <1>12 DEF IsStack
  <1>15. IsStack(Abs(s), Abs(t).howdy, Abs(t).marked, Abs(t).inline, FALSE)
    BY <1>13, <1>14 DEF IsStack
  <1>16. Abs(s) = Strip(Abs(t))
    BY <1>13, <1>14, <1>15, StackEdits
  <1> QED  BY <1>16 DEF s

\* The line edits of the code do to every reachable text what PamFiles, whose
\* stacks are records, says of the stack.
THEOREM TextEditsAreStackEdits == Spec => []EditsImplementStack
PROOF
  <1>1. SInv => EditsImplementStack
    BY EnableIsAddStanza, MigrateIsRewrite, DisableIsStrip DEF SInv, EditsImplementStack
  <1> QED  BY <1>1, TextShape, PTL

-----------------------------------------------------------------------------
(* What a stack decides after the migration.                                *)

\* Lines that look at the face.
FaceLines == {"check", "howdy", "howdytab"}

\* A face line of t with only such lines before it as leave the password open.
Asked(t, password) ==
  \E i \in 1..Len(t) : /\ t[i] \in FaceLines
                       /\ password \/ \A j \in 1..(i - 1) : t[j] # "password"

\* The lines that decide stand in the same order before and after.
Keeps(t, r, o) ==
  /\ Len(t) \in Nat /\ Len(r) \in Nat
  /\ \A i \in 1..Len(t) : o[i] \in 1..Len(r)
  /\ \A i, j \in 1..Len(t) : j < i <=> o[j] < o[i]
  /\ \A i \in 1..Len(t) : t[i] \in FaceLines =>
       \E k \in 1..i : r[o[k]] \in FaceLines
  /\ \A p \in 1..Len(r) : r[p] \in FaceLines => \E i \in 1..Len(t) : t[i] \in FaceLines /\ p = o[i]
  /\ \A i \in 1..Len(t) : t[i] = "password" => r[o[i]] = "password"
  /\ \A p \in 1..Len(r) : r[p] = "password" => \E i \in 1..Len(t) : t[i] = "password" /\ p = o[i]

\* The migration keeps them so.
LEMMA RewriteKeeps ==
  ASSUME NEW t \in Seq(Kinds), NEW r, NEW o, Rewrites(t, r, o)
  PROVE  Keeps(t, r, o)
PROOF
  <1>1. Len(t) \in Nat /\ Len(r) \in Nat /\ r \in Seq(Kinds) /\ DOMAIN t = 1..Len(t)
    BY DEF Rewrites
  <1>2. ASSUME NEW i \in 1..Len(t)
        PROVE  /\ o[i - 1] \in Nat /\ o[i] \in Nat /\ o[i] <= Len(r) /\ o[i - 1] < o[i]
               /\ t[i] # "howdy" => o[i] = o[i - 1] + 1 /\ r[o[i]] = t[i] /\ o[i] \in 1..Len(r)
    BY RewriteForth
  <1>3. ASSUME NEW i \in 1..Len(t)
        PROVE  o[i] \in 1..Len(r)
    <2>1. o[i - 1] \in Nat /\ o[i] \in Nat /\ o[i] <= Len(r) /\ o[i - 1] < o[i]
      BY <1>2
    <2> QED  BY <1>1, <2>1
  <1>4. ASSUME NEW i \in 1..Len(t), NEW j \in 1..Len(t), j < i
        PROVE  o[j] < o[i]
    <2>1. \A a, b \in 0..Len(t) : a <= b => o[a] <= o[b]
      BY DEF Rewrites
    <2>2. j \in 0..Len(t) /\ i - 1 \in 0..Len(t) /\ j <= i - 1
      BY <1>1, <1>4
    <2>3. o[j] <= o[i - 1]
      BY <2>1, <2>2
    <2>4. o[j] \in Nat /\ o[i - 1] \in Nat /\ o[i] \in Nat /\ o[i - 1] < o[i]
      BY <1>2
    <2> QED  BY <2>3, <2>4
  <1>5. ASSUME NEW i \in 1..Len(t), NEW j \in 1..Len(t)
        PROVE  j < i <=> o[j] < o[i]
    <2>0. o[j] \in Nat /\ o[i] \in Nat
      BY <1>2
    <2>1. CASE j < i
      BY <1>4, <2>1
    <2>2. CASE j = i
      BY <2>0, <2>2
    <2>3. CASE i < j
      <3>1. o[i] < o[j]
        BY <1>4, <2>3
      <3> QED  BY <1>1, <2>0, <2>3, <3>1
    <2>4. j < i \/ j = i \/ i < j
      BY <1>1
    <2> QED  BY <2>1, <2>2, <2>3, <2>4
  <1>6. ASSUME NEW i \in 1..Len(t), t[i] \in FaceLines
        PROVE  \E k \in 1..i : r[o[k]] \in FaceLines
    <2>1. CASE t[i] # "howdy"
      <3>1. r[o[i]] = t[i] /\ i \in 1..i
        BY <1>1, <1>2, <2>1
      <3> QED  BY <1>6, <3>1
    <2>2. CASE t[i] = "howdy"
      <3> DEFINE h == First(t, "howdy")
      <3>1. Has(t, "howdy")
        BY <1>1, <2>2 DEF Has
      <3>2. h \in 1..Len(t) /\ t[h] = "howdy" /\ \A j \in 1..(h - 1) : t[j] # "howdy"
        BY <3>1, FirstFacts
      <3>3. o[h] = o[h - 1] + 3 /\ r[o[h - 1] + 3] = "check"
        BY <3>2 DEF Rewrites
      <3> HIDE DEF h
      <3>4. h \in 1..i
        <4>1. ~(i \in 1..(h - 1))
          BY <2>2, <3>2
        <4> QED  BY <1>1, <3>2, <4>1
      <3>5. r[o[h]] \in FaceLines
        BY <3>3 DEF FaceLines
      <3> QED  BY <3>4, <3>5
    <2> QED  BY <2>1, <2>2
  <1>7. ASSUME NEW p \in 1..Len(r), r[p] \in FaceLines
        PROVE  \E i \in 1..Len(t) : t[i] \in FaceLines /\ p = o[i]
    <2>1. PICK i \in 1..Len(t) : Source(t, r, o, i, p)
      BY DEF Rewrites
    <2>2. r[p] # "marker" /\ r[p] # "off"
      BY <1>7 DEF FaceLines
    <2>3. CASE t[i] # "howdy" /\ p = o[i - 1] + 1 /\ r[p] = t[i]
      <3>1. p = o[i]
        BY <1>2, <2>3
      <3> QED  BY <1>7, <2>3, <3>1
    <2>4. CASE t[i] = "howdy" /\ i = First(t, "howdy") /\ p = o[i - 1] + 3
      <3>1. p = o[i]
        BY <2>4 DEF Rewrites
      <3> QED  BY <2>4, <3>1 DEF FaceLines
    <2> QED  BY <2>1, <2>2, <2>3, <2>4 DEF Source
  <1>8. ASSUME NEW i \in 1..Len(t), t[i] = "password"
        PROVE  r[o[i]] = "password"
    BY <1>2, <1>8
  <1>9. ASSUME NEW p \in 1..Len(r), r[p] = "password"
        PROVE  \E i \in 1..Len(t) : t[i] = "password" /\ p = o[i]
    <2>1. \E i \in 1..Len(t) : t[i] = r[p] /\ t[i] # "howdy" /\ p = o[i - 1] + 1 /\ p = o[i]
      BY <1>9, RewriteBack
    <2> QED  BY <1>9, <2>1
  <1> QED  BY <1>1, <1>3, <1>5, <1>6, <1>7, <1>8, <1>9 DEF Keeps

\* The face decides with the same password checks behind it
LEMMA AskedAlike ==
  ASSUME NEW t, NEW r, NEW o, Keeps(t, r, o), NEW password \in BOOLEAN
  PROVE  Asked(t, password) <=> Asked(r, password)
PROOF
  <1>0. Len(t) \in Nat /\ Len(r) \in Nat
    BY DEF Keeps
  <1>1. ASSUME NEW i \in 1..Len(t), t[i] \in FaceLines,
               password \/ \A j \in 1..(i - 1) : t[j] # "password"
        PROVE  Asked(r, password)
    <2>1. PICK k \in 1..i : r[o[k]] \in FaceLines
      BY <1>1 DEF Keeps
    <2>2. k \in 1..Len(t) /\ k <= i
      BY <1>0
    <2>3. o[k] \in 1..Len(r)
      BY <2>2 DEF Keeps
    <2>4. ASSUME ~password, NEW q \in 1..(o[k] - 1), r[q] = "password"
          PROVE  FALSE
      <3>1. q \in 1..Len(r) /\ q < o[k]
        BY <1>0, <2>3, <2>4
      <3>2. PICK j \in 1..Len(t) : t[j] = "password" /\ q = o[j]
        BY <2>4, <3>1 DEF Keeps
      <3>3. j < k
        BY <2>2, <3>1, <3>2 DEF Keeps
      <3>4. j \in 1..(i - 1)
        BY <1>0, <2>2, <3>3
      <3> QED  BY <1>1, <2>4, <3>2, <3>4
    <2> QED  BY <2>1, <2>3, <2>4 DEF Asked
  <1>2. ASSUME NEW p \in 1..Len(r), r[p] \in FaceLines,
               password \/ \A j \in 1..(p - 1) : r[j] # "password"
        PROVE  Asked(t, password)
    <2>1. PICK i \in 1..Len(t) : t[i] \in FaceLines /\ p = o[i]
      BY <1>2 DEF Keeps
    <2>2. ASSUME ~password, NEW j \in 1..(i - 1), t[j] = "password"
          PROVE  FALSE
      <3>1. j \in 1..Len(t) /\ j < i
        BY <1>0, <2>2
      <3>2. o[j] \in 1..Len(r) /\ o[j] < p /\ r[o[j]] = "password"
        BY <2>1, <2>2, <3>1 DEF Keeps
      <3>3. o[j] \in 1..(p - 1)
        BY <1>0, <3>2
      <3> QED  BY <1>2, <2>2, <3>2, <3>3
    <2> QED  BY <2>1, <2>2 DEF Asked
  <1> QED  BY <1>1, <1>2 DEF Asked

\* and the password checks are the same.
LEMMA PasswordsAlike ==
  ASSUME NEW t \in Seq(Kinds), NEW r \in Seq(Kinds), NEW o, Keeps(t, r, o)
  PROVE  Has(t, "password") <=> Has(r, "password")
PROOF
  <1>1. DOMAIN t = 1..Len(t) /\ DOMAIN r = 1..Len(r)
    OBVIOUS
  <1> QED  BY <1>1 DEF Keeps, Has

\* Decides() by these two, when every direct call is sufficient
LEMMA DecidesIs ==
  ASSUME NEW t \in Seq(Kinds), NEW face \in BOOLEAN, NEW password \in BOOLEAN
  PROVE  Decides(t, AllSufficient(t), face, password)
           <=> (face /\ Asked(t, password)) \/ (password /\ Has(t, "password"))
PROOF
  <1> DEFINE c == AllSufficient(t)
  <1>1. DOMAIN t = 1..Len(t) /\ Len(t) \in Nat
    OBVIOUS
  <1>2. \A i \in 1..Len(t) : t[i] = "howdy" => c[i] = "sufficient"
    BY <1>1 DEF AllSufficient, Calls
  <1> HIDE DEF c
  <1>3. ASSUME NEW i \in 1..Len(t)
        PROVE  /\ Suffices(t, c, i) <=> t[i] \in FaceLines
               /\ Fails(t, c, i, face, password) <=> t[i] = "password" /\ ~password
               /\ Passes(t, c, i, face, password) <=> t[i] = "password" /\ password
    BY <1>2 DEF Suffices, Fails, Passes, FaceLines
  <1>4. \A i \in 1..Len(t) : \A j \in 1..(i - 1) : j \in 1..Len(t)
    BY <1>1
  <1>5. ASSUME NEW i \in 1..Len(t)
        PROVE  (\A j \in 1..(i - 1) : ~Fails(t, c, j, face, password))
                 <=> (password \/ \A j \in 1..(i - 1) : t[j] # "password")
    BY <1>3, <1>4
  <1>6. (\E i \in 1..Len(t) : /\ Suffices(t, c, i)
                             /\ \A j \in 1..(i - 1) : ~Fails(t, c, j, face, password))
          <=> Asked(t, password)
    BY <1>3, <1>5 DEF Asked
  <1>7. /\ (\A i \in 1..Len(t) : ~Fails(t, c, i, face, password))
             /\ (\E i \in 1..Len(t) : Passes(t, c, i, face, password))
          <=> password /\ Has(t, "password")
    BY <1>1, <1>3 DEF Has
  <1> QED  BY <1>1, <1>6, <1>7 DEF Decides, c

\* and whom it lets in with other controls it lets in with these as well.
LEMMA SufficientLetsIn ==
  ASSUME NEW t \in Seq(Kinds), NEW face \in BOOLEAN, NEW password \in BOOLEAN,
         NEW c, Decides(t, c, face, password)
  PROVE  (face /\ Asked(t, password)) \/ (password /\ Has(t, "password"))
PROOF
  <1>1. DOMAIN t = 1..Len(t) /\ Len(t) \in Nat
    OBVIOUS
  <1>2. \A i \in 1..Len(t) : \A j \in 1..(i - 1) : j \in 1..Len(t)
    BY <1>1
  <1>3. ASSUME NEW i \in 1..Len(t), t[i] \in FaceLines, face,
               \A j \in 1..(i - 1) : ~Fails(t, c, j, face, password)
        PROVE  face /\ Asked(t, password)
    BY <1>3 DEF Asked, Fails
  <1>4. CASE /\ face
             /\ \E i \in DOMAIN t : /\ Suffices(t, c, i)
                                    /\ \A j \in 1..(i - 1) : ~Fails(t, c, j, face, password)
    BY <1>1, <1>3, <1>4 DEF Suffices, FaceLines
  <1>5. CASE /\ \A i \in DOMAIN t : ~Fails(t, c, i, face, password)
             /\ \E i \in DOMAIN t : Passes(t, c, i, face, password)
    <2>1. PICK i \in 1..Len(t) : Passes(t, c, i, face, password)
      BY <1>1, <1>5
    <2>2. CASE t[i] = "password" /\ password
      BY <1>1, <2>2 DEF Has
    <2>3. CASE t[i] = "howdy" /\ face
      <3>1. \A j \in 1..(i - 1) : ~Fails(t, c, j, face, password)
        BY <1>1, <1>2, <1>5
      <3> QED  BY <1>3, <2>3, <3>1 DEF FaceLines
    <2> QED  BY <2>1, <2>2, <2>3 DEF Passes
  <1> QED  BY <1>4, <1>5 DEF Decides

\* Whatever the face and the password are, a migrated stack decides as if every
\* direct call had been sufficient, and lets in whomever it let in.
THEOREM MigrationLetsIn == Spec => MigrationOnlyLoosens
PROOF
  <1> DEFINE Now(face, password) == Decides(text', AllSufficient(text'), face, password)
             Was(face, password) == Decides(text, AllSufficient(text), face, password)
  <1>1. ASSUME SInv, Migrate, NEW face \in BOOLEAN, NEW password \in BOOLEAN
        PROVE  /\ Now(face, password) = Was(face, password)
               /\ \A c \in [Calls(text) -> Controls] :
                    Decides(text, c, face, password) => Now(face, password)
    <2>1. text \in Seq(Kinds) /\ text' = Rewritten(text)
      BY <1>1 DEF SInv, Shape, Migrate
    <2> DEFINE r == Rewritten(text)
    <2>2. PICK o : Rewrites(text, r, o)
      BY <2>1, RewriteLayout
    <2> HIDE DEF r
    <2>3. r \in Seq(Kinds) /\ Keeps(text, r, o)
      BY <2>1, <2>2, RewriteKeeps DEF Rewrites
    <2>4. Asked(text, password) <=> Asked(r, password)
      BY <2>3, AskedAlike
    <2>5. Has(text, "password") <=> Has(r, "password")
      BY <2>1, <2>3, PasswordsAlike
    <2>6. Was(face, password)
            <=> (face /\ Asked(text, password)) \/ (password /\ Has(text, "password"))
      BY <2>1, DecidesIs
    <2>7. Decides(r, AllSufficient(r), face, password)
            <=> (face /\ Asked(r, password)) \/ (password /\ Has(r, "password"))
      BY <2>3, DecidesIs
    <2>8. text' = r
      BY <2>1 DEF r
    <2>9. Now(face, password) <=> Was(face, password)
      BY <2>4, <2>5, <2>6, <2>7, <2>8
    <2>10. Now(face, password) \in BOOLEAN /\ Was(face, password) \in BOOLEAN
      BY DEF Decides
    <2>11. ASSUME NEW c, Decides(text, c, face, password) PROVE Was(face, password)
      BY <2>1, <2>6, <2>11, SufficientLetsIn
    <2> HIDE DEF Now, Was
    <2>12. Now(face, password) = Was(face, password)
      BY <2>9, <2>10, SameTruth
    <2> QED  BY <2>9, <2>11, <2>12
  <1>2. SInv /\ [Next]_vars =>
          [Migrate => \A face, password \in BOOLEAN :
             LET now == Decides(text', AllSufficient(text'), face, password)
             IN /\ now = Decides(text, AllSufficient(text), face, password)
                /\ \A c \in [Calls(text) -> Controls] : Decides(text, c, face, password) => now]_vars
    BY <1>1
  <1> QED  BY <1>2, TextShape, PTL DEF Spec, MigrationOnlyLoosens
=============================================================================
