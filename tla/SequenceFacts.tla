--------------------------- MODULE SequenceFacts ---------------------------
(***************************************************************************)
(* What FlattenSeq, the concatenation of a sequence of sequences, returns, *)
(* and two functions of a sequence: Mapped, of what W gives for each of    *)
(* its elements, and Gathered, of the concatenation when W gives sequences.*)
(* The library has no facts about them, and its induction theorems take an *)
(* operator; induction here is over a set of numbers, from the fact that   *)
(* every set of numbers has a least one.  Hypotheses on functions have     *)
(* names (IsMap, Composes, ...), so that a step can cite them as they are. *)
(***************************************************************************)
EXTENDS Integers, SequencesExt, SequenceTheorems, WellFoundedInduction, TLAPS

-----------------------------------------------------------------------------
(* Induction.                                                              *)

LEMMA LeastNumber ==
    ASSUME NEW T, T \subseteq Nat, T # {}
    PROVE  \E m \in T : \A k \in T : m <= k
  <1> DEFINE R == OpToRel(<, Nat)
  <1>1. IsWellFoundedOn(R, Nat)
    BY NatLessThanWellFounded
  <1>2. \A m, k \in Nat : k < m => <<k, m>> \in R
    BY DEF OpToRel
  <1> HIDE DEF R
  <1>3. PICK x \in T : \A y \in T : ~ (<<y, x>> \in R)
    BY <1>1, WFMin
  <1>4. ASSUME NEW k \in T
        PROVE  x <= k
    <2>1. x \in Nat /\ k \in Nat /\ ~(k < x)
      BY <1>2, <1>3
    <2>2. QED
      BY <2>1
  <1>5. QED
    BY <1>4

\* A set that holds a number of an interval when it holds the one before it.
LEMMA Induction ==
    ASSUME NEW n \in Nat, NEW S,
           \A i \in 1..n : i = 1 \/ i - 1 \in S => i \in S
    PROVE  \A i \in 1..n : i \in S
  <1> DEFINE T == (1..n) \ S
  <1>1. SUFFICES ASSUME T # {}
                 PROVE  FALSE
    OBVIOUS
  <1>a. T \subseteq Nat
    OBVIOUS
  <1> HIDE DEF T
  <1>2. PICK m \in T : \A k \in T : m <= k
    BY <1>1, <1>a, LeastNumber
  <1>3. m \in 1..n /\ m \notin S
    BY DEF T
  <1>4. m # 1 /\ m - 1 \notin S
    BY <1>3
  <1>5. m - 1 \in T /\ ~(m <= m - 1)
    BY <1>3, <1>4 DEF T
  <1>6. QED
    BY <1>2, <1>5

-----------------------------------------------------------------------------
(* FlattenSeq.                                                             *)

\* f holds the concatenations of the first n sequences of ss.
Concatenates(f, ss, n) ==
    \A i \in 1..n : f[i] = IF i = 1 THEN ss[i] ELSE f[i - 1] \o ss[i]

LEMMA SeqOfSeqs ==
    ASSUME NEW T, NEW ss \in Seq(Seq(T))
    PROVE  /\ Len(ss) \in Nat
           /\ \A i \in 1..Len(ss) : ss[i] \in Seq(T)
           /\ ss = <<>> <=> Len(ss) = 0
  <1>1. Len(ss) \in Nat
    BY LenProperties
  <1>2. \A i \in 1..Len(ss) : ss[i] \in Seq(T)
    BY ElementOfSeq
  <1>3. ss = <<>> <=> Len(ss) = 0
    BY EmptySeq
  <1>4. QED
    BY <1>1, <1>2, <1>3

LEMMA ConcatenationsType ==
    ASSUME NEW T, NEW ss \in Seq(Seq(T)), NEW n \in 0..Len(ss), NEW f,
           Concatenates(f, ss, n)
    PROVE  \A i \in 1..n : f[i] \in Seq(T)
  <1> DEFINE S == {i \in 1..n : f[i] \in Seq(T)}
  <1>1. /\ Len(ss) \in Nat /\ n \in Nat
        /\ \A i \in 1..Len(ss) : ss[i] \in Seq(T)
    BY SeqOfSeqs
  <1>2. ASSUME NEW i \in 1..n, i = 1 \/ i - 1 \in S
        PROVE  i \in S
    <2>1. f[i] = IF i = 1 THEN ss[i] ELSE f[i - 1] \o ss[i]
      BY DEF Concatenates
    <2>2. ss[i] \in Seq(T)
      BY <1>1
    <2>3. CASE i = 1
      BY <2>1, <2>2, <2>3
    <2>4. CASE i # 1
      <3>1. f[i - 1] \in Seq(T)
        BY <1>2, <2>4
      <3>2. QED
        BY <2>1, <2>2, <2>4, <3>1, ConcatProperties
    <2>5. QED
      BY <2>3, <2>4
  <1> HIDE DEF S
  <1>3. \A i \in 1..n : i \in S
    BY <1>1, <1>2, Induction
  <1>4. QED
    BY <1>3 DEF S

\* f and g are the same up to n.
Agree(f, g, n) == \A i \in 1..n : f[i] = g[i]

LEMMA ConcatenationsAgree ==
    ASSUME NEW ss, NEW tt, NEW n \in Nat, NEW f, NEW g,
           Concatenates(f, ss, n), Concatenates(g, tt, n), Agree(ss, tt, n)
    PROVE  Agree(f, g, n)
  <1> DEFINE S == {i \in 1..n : f[i] = g[i]}
  <1>1. ASSUME NEW i \in 1..n, i = 1 \/ i - 1 \in S
        PROVE  i \in S
    <2>1. f[i] = IF i = 1 THEN ss[i] ELSE f[i - 1] \o ss[i]
      BY DEF Concatenates
    <2>2. g[i] = IF i = 1 THEN tt[i] ELSE g[i - 1] \o tt[i]
      BY DEF Concatenates
    <2>3. ss[i] = tt[i]
      BY DEF Agree
    <2>4. i # 1 => f[i - 1] = g[i - 1]
      BY <1>1
    <2>5. f[i] = g[i]
      BY <2>1, <2>2, <2>3, <2>4
    <2>6. QED
      BY <2>5
  <1> HIDE DEF S
  <1>2. \A i \in 1..n : i \in S
    BY <1>1, Induction
  <1>3. QED
    BY <1>2 DEF S, Agree

\* They exist, for every number of sequences.
LEMMA Concatenations ==
    ASSUME NEW T, NEW ss \in Seq(Seq(T)), NEW n \in 0..Len(ss)
    PROVE  \E f : f = [i \in 1..n |-> f[i]] /\ Concatenates(f, ss, n)
  <1> DEFINE Exists(m) == \E f : f = [i \in 1..m |-> f[i]] /\ Concatenates(f, ss, m)
             S == {m \in 1..n : Exists(m)}
  <1>1. Len(ss) \in Nat /\ n \in Nat
    BY SeqOfSeqs
  <1>2. Exists(0)
    <2> DEFINE f == [i \in 1..0 |-> <<>>]
    <2>1. f = [i \in 1..0 |-> f[i]]
      OBVIOUS
    <2>2. \A i \in 1..0 : FALSE
      OBVIOUS
    <2>3. Concatenates(f, ss, 0)
      BY <2>2 DEF Concatenates
    <2>4. QED
      BY <2>1, <2>3
  <1>3. ASSUME NEW m \in 1..n, m = 1 \/ m - 1 \in S
        PROVE  m \in S
    <2>1. Exists(m - 1)
      <3>1. CASE m = 1
        <4>1. m - 1 = 0
          BY <3>1
        <4> HIDE DEF Exists
        <4>2. QED
          BY <1>2, <4>1
      <3>2. CASE m - 1 \in S
        BY <3>2
      <3>3. QED
        BY <1>3, <3>1, <3>2
    <2>2. PICK f : f = [i \in 1..m - 1 |-> f[i]] /\ Concatenates(f, ss, m - 1)
      BY <2>1
    <2> DEFINE next == IF m = 1 THEN ss[m] ELSE f[m - 1] \o ss[m]
               g == [i \in 1..m |-> IF i = m THEN next ELSE f[i]]
    <2>3. /\ g = [i \in 1..m |-> g[i]]
          /\ g[m] = next
      OBVIOUS
    <2>4. \A i \in 1..m - 1 : i \in 1..m /\ i # m
      BY <1>1
    <2>5. \A i \in 1..m - 1 : g[i] = f[i]
      BY <2>4
    <2> HIDE DEF g
    <2>6. Concatenates(g, ss, m)
      <3> SUFFICES ASSUME NEW i \in 1..m
                   PROVE  g[i] = IF i = 1 THEN ss[i] ELSE g[i - 1] \o ss[i]
        BY DEF Concatenates
      <3>1. CASE i = m
        <4>1. i # 1 => i - 1 \in 1..m - 1
          BY <1>1
        <4>2. QED
          BY <2>3, <2>5, <3>1, <4>1
      <3>2. CASE i # m
        <4>1. i \in 1..m - 1 /\ (i # 1 => i - 1 \in 1..m - 1)
          BY <1>1, <3>2
        <4>2. f[i] = IF i = 1 THEN ss[i] ELSE f[i - 1] \o ss[i]
          BY <2>2, <4>1 DEF Concatenates
        <4>3. QED
          BY <2>5, <4>1, <4>2
      <3>3. QED
        BY <3>1, <3>2
    <2>7. QED
      BY <2>3, <2>6
  <1> HIDE DEF S
  <1>4. \A m \in 1..n : m \in S
    BY <1>1, <1>3, Induction
  <1>5. CASE n = 0
    BY <1>2, <1>5
  <1>6. CASE n # 0
    <2>1. n \in S
      BY <1>1, <1>4, <1>6
    <2>2. QED
      BY <2>1 DEF S
  <1>7. QED
    BY <1>5, <1>6

\* FlattenSeq returns the last of them.
LEMMA FlattenIsLast ==
    ASSUME NEW T, NEW ss \in Seq(Seq(T)), ss # <<>>
    PROVE  \E f : Concatenates(f, ss, Len(ss)) /\ FlattenSeq(ss) = f[Len(ss)]
  <1> DEFINE Def(f) == f = [i \in 1..Len(ss) |->
                                IF i = 1 THEN ss[i] ELSE f[i - 1] \o ss[i]]
             flatten == CHOOSE f : Def(f)
  <1>1. Len(ss) \in Nat /\ Len(ss) # 0
    BY SeqOfSeqs
  <1>2. PICK f : f = [i \in 1..Len(ss) |-> f[i]] /\ Concatenates(f, ss, Len(ss))
    BY <1>1, Concatenations
  <1>3. Def(f)
    BY <1>2 DEF Concatenates
  <1>4. Def(flatten)
    BY <1>3
  <1>5. FlattenSeq(ss) = flatten[Len(ss)]
    BY <1>1 DEF FlattenSeq
  <1> HIDE DEF flatten
  <1>6. Concatenates(flatten, ss, Len(ss))
    BY <1>4 DEF Concatenates
  <1>7. QED
    BY <1>5, <1>6

LEMMA FlattenEmpty == FlattenSeq(<<>>) = <<>>
  BY DEF FlattenSeq

LEMMA FlattenType ==
    ASSUME NEW T, NEW ss \in Seq(Seq(T))
    PROVE  FlattenSeq(ss) \in Seq(T)
  <1>1. Len(ss) \in Nat /\ (ss = <<>> <=> Len(ss) = 0)
    BY SeqOfSeqs
  <1>2. CASE ss = <<>>
    <2>1. <<>> \in Seq(T)
      BY EmptySeq
    <2>2. QED
      BY <1>2, <2>1, FlattenEmpty
  <1>3. CASE ss # <<>>
    <2>1. PICK f : Concatenates(f, ss, Len(ss)) /\ FlattenSeq(ss) = f[Len(ss)]
      BY <1>3, FlattenIsLast
    <2>2. \A i \in 1..Len(ss) : f[i] \in Seq(T)
      BY <1>1, <2>1, ConcatenationsType
    <2>3. QED
      BY <1>1, <1>3, <2>1, <2>2
  <1>4. QED
    BY <1>2, <1>3

\* One sequence more.
LEMMA ConcatenationsGrow ==
    ASSUME NEW tt, NEW m \in Nat \ {0}, NEW g, Concatenates(g, tt, m)
    PROVE  /\ g[m] = IF m = 1 THEN tt[m] ELSE g[m - 1] \o tt[m]
           /\ Concatenates(g, tt, m - 1)
  <1>1. m \in 1..m /\ \A i \in 1..m - 1 : i \in 1..m
    OBVIOUS
  <1>2. QED
    BY <1>1 DEF Concatenates

LEMMA FlattenAppend ==
    ASSUME NEW T, NEW ss \in Seq(Seq(T)), NEW s \in Seq(T)
    PROVE  FlattenSeq(Append(ss, s)) = FlattenSeq(ss) \o s
  <1> DEFINE tt == Append(ss, s)
  <1>1. PICK n \in Nat : n = Len(ss) /\ (ss = <<>> <=> n = 0)
    BY SeqOfSeqs
  <1>2. PICK m \in Nat : m = n + 1 /\ n < m /\ m <= n + 1
    OBVIOUS
  <1>3. /\ tt \in Seq(Seq(T)) /\ tt # <<>> /\ Len(tt) = m
        /\ \A i \in 1..n : ss[i] = tt[i]
        /\ tt[m] = s
    BY <1>1, <1>2, AppendProperties
  <1> HIDE DEF tt
  <1>4. PICK g : Concatenates(g, tt, m) /\ FlattenSeq(tt) = g[m]
    BY <1>3, FlattenIsLast
  <1>5. /\ g[m] = IF n = 0 THEN tt[m] ELSE g[n] \o tt[m]
        /\ Concatenates(g, tt, n)
    <2>1. m \in Nat \ {0} /\ m - 1 = n /\ (m = 1 <=> n = 0)
      BY <1>2
    <2>2. QED
      BY <1>4, <2>1, ConcatenationsGrow
  <1>6. CASE ss = <<>>
    <2>1. FlattenSeq(tt) = s
      BY <1>1, <1>3, <1>4, <1>5, <1>6
    <2>2. <<>> \o s = s
      BY ConcatEmptySeq
    <2>3. QED
      BY <1>6, <2>1, <2>2, FlattenEmpty DEF tt
  <1>7. CASE ss # <<>>
    <2>1. PICK f : Concatenates(f, ss, n) /\ FlattenSeq(ss) = f[n]
      BY <1>1, <1>7, FlattenIsLast
    <2>2. Agree(ss, tt, n)
      BY <1>3 DEF Agree
    <2>a. Agree(f, g, n)
      BY <1>5, <2>1, <2>2, ConcatenationsAgree
    <2>3. f[n] = g[n] /\ n # 0
      BY <1>1, <1>7, <2>a DEF Agree
    <2>4. QED
      BY <1>3, <1>4, <1>5, <2>1, <2>3 DEF tt
  <1>8. QED
    BY <1>6, <1>7

-----------------------------------------------------------------------------
(* Induction over sequences, and what follows by it.                       *)

\* Every sequence is empty or one that is an element longer than another.
LEMMA LongerByOne ==
    ASSUME NEW T, NEW s \in Seq(T), s # <<>>
    PROVE  \E r \in Seq(T), x \in T : s = Append(r, x) /\ Len(r) < Len(s)
  <1>1. PICK r \in Seq(T), x \in T : s = Append(r, x)
    BY SequenceEmptyOrAppend
  <1>2. Len(s) = Len(r) + 1 /\ Len(r) \in Nat
    BY <1>1, AppendProperties, LenProperties
  <1>3. QED
    BY <1>1, <1>2

\* A set closed under Append holds all sequences.
LEMMA SequenceInduction ==
    ASSUME NEW T, NEW S, <<>> \in S,
           \A s \in Seq(T), x \in T : s \in S => Append(s, x) \in S
    PROVE  \A s \in Seq(T) : s \in S
  <1> DEFINE L == {n \in Nat : \E s \in Seq(T) : s \notin S /\ Len(s) = n}
  <1>1. SUFFICES ASSUME NEW s \in Seq(T), s \notin S
                 PROVE  FALSE
    OBVIOUS
  <1>2. Len(s) \in L
    BY <1>1, LenProperties
  <1>3. L \subseteq Nat
    OBVIOUS
  <1> HIDE DEF L
  <1>4. PICK m \in L : \A k \in L : m <= k
    BY <1>2, <1>3, LeastNumber
  <1>5. PICK t \in Seq(T) : t \notin S /\ Len(t) = m
    BY DEF L
  <1>6. t # <<>>
    BY <1>5
  <1>7. PICK r \in Seq(T), x \in T : t = Append(r, x) /\ Len(r) < Len(t)
    BY <1>6, LongerByOne
  <1>8. r \notin S
    BY <1>5, <1>7
  <1>9. Len(r) \in L /\ m \in Nat /\ Len(r) \in Nat
    BY <1>3, <1>8, LenProperties DEF L
  <1>10. m <= Len(r) /\ Len(r) < m
    BY <1>4, <1>5, <1>7, <1>9
  <1>11. QED
    BY <1>9, <1>10

LEMMA FlattenOne ==
    ASSUME NEW T, NEW s \in Seq(T)
    PROVE  FlattenSeq(<<s>>) = s
  <1>1. <<>> \in Seq(Seq(T)) /\ Append(<<>>, s) = <<s>>
    BY EmptySeq
  <1>2. FlattenSeq(Append(<<>>, s)) = FlattenSeq(<<>>) \o s
    BY <1>1, FlattenAppend
  <1>3. QED
    BY <1>1, <1>2, FlattenEmpty, ConcatEmptySeq

Associates(T) == \A a, b, c \in Seq(T) : (a \o b) \o c = a \o (b \o c)

LEMMA ConcatOrder ==
    ASSUME NEW T
    PROVE  Associates(T)
  <1>1. SUFFICES ASSUME NEW a \in Seq(T), NEW b \in Seq(T), NEW c \in Seq(T)
                 PROVE  (a \o b) \o c = a \o (b \o c)
    BY DEF Associates
  <1>2. QED
    BY ConcatAssociative

LEMMA FlattenConcat ==
    ASSUME NEW T, NEW ss \in Seq(Seq(T)), NEW tt \in Seq(Seq(T))
    PROVE  FlattenSeq(ss \o tt) = FlattenSeq(ss) \o FlattenSeq(tt)
  <1> DEFINE S == {uu \in Seq(Seq(T)) :
                       FlattenSeq(ss \o uu) = FlattenSeq(ss) \o FlattenSeq(uu)}
  <1>0. Associates(T)
    BY ConcatOrder
  <1>1. FlattenSeq(ss) \in Seq(T)
    BY FlattenType
  <1>2. <<>> \in S
    <2>1. ss \o <<>> = ss /\ FlattenSeq(ss) \o <<>> = FlattenSeq(ss)
      BY <1>1, ConcatEmptySeq
    <2>2. <<>> \in Seq(Seq(T))
      BY EmptySeq
    <2>3. QED
      BY <2>1, <2>2, FlattenEmpty
  <1>3. ASSUME NEW uu \in Seq(Seq(T)), NEW s \in Seq(T), uu \in S
        PROVE  Append(uu, s) \in S
    <2>1. ss \o Append(uu, s) = Append(ss \o uu, s)
      <3>1. Append(uu, s) = uu \o <<s>> /\ ss \o uu \in Seq(Seq(T))
        BY AppendIsConcat, ConcatProperties
      <3>2. Append(ss \o uu, s) = (ss \o uu) \o <<s>>
        BY <3>1, AppendIsConcat
      <3>3. <<s>> \in Seq(Seq(T))
        OBVIOUS
      <3>4. QED
        BY <3>1, <3>2, <3>3, ConcatAssociative
    <2>2. ss \o uu \in Seq(Seq(T)) /\ Append(uu, s) \in Seq(Seq(T))
      BY ConcatProperties, AppendProperties
    <2>3. FlattenSeq(Append(ss \o uu, s)) = FlattenSeq(ss \o uu) \o s
      BY <2>2, FlattenAppend
    <2>4. FlattenSeq(Append(uu, s)) = FlattenSeq(uu) \o s
      BY FlattenAppend
    <2>5. FlattenSeq(ss \o uu) = FlattenSeq(ss) \o FlattenSeq(uu)
      BY <1>3
    <2>6. FlattenSeq(uu) \in Seq(T)
      BY FlattenType
    <2>7. (FlattenSeq(ss) \o FlattenSeq(uu)) \o s = FlattenSeq(ss) \o (FlattenSeq(uu) \o s)
      <3>1. PICK a, b \in Seq(T) : a = FlattenSeq(ss) /\ b = FlattenSeq(uu)
        BY <1>1, <2>6
      <3>2. (a \o b) \o s = a \o (b \o s)
        BY <1>0 DEF Associates
      <3>3. QED
        BY <3>1, <3>2
    <2>8. FlattenSeq(ss \o Append(uu, s)) = FlattenSeq(ss) \o FlattenSeq(Append(uu, s))
      <3>1. FlattenSeq(ss \o Append(uu, s)) = FlattenSeq(Append(ss \o uu, s))
        BY <2>1, Zenon
      <3>2. FlattenSeq(ss \o Append(uu, s)) = FlattenSeq(ss \o uu) \o s
        BY <2>3, <3>1, Zenon
      <3>3. FlattenSeq(ss \o Append(uu, s)) = (FlattenSeq(ss) \o FlattenSeq(uu)) \o s
        BY <2>5, <3>2, Zenon
      <3>4. QED
        BY <2>4, <2>7, <3>3, Zenon
    <2>9. QED
      BY <2>2, <2>8
  <1> HIDE DEF S
  <1>4. \A uu \in Seq(Seq(T)) : uu \in S
    BY <1>2, <1>3, SequenceInduction
  <1>5. QED
    BY <1>4 DEF S

-----------------------------------------------------------------------------
(* A function applied to every element of a sequence.                      *)

\* W gives an element of U for each of T.
IsMap(W, T, U) == W \in [T -> U]

Mapped(W, s) == [i \in 1..Len(s) |-> W[s[i]]]

LEMMA MappedType ==
    ASSUME NEW T, NEW U, NEW W, IsMap(W, T, U), NEW s \in Seq(T)
    PROVE  /\ Mapped(W, s) \in Seq(U)
           /\ Len(Mapped(W, s)) = Len(s) /\ Len(s) \in Nat
           /\ \A i \in 1..Len(s) : s[i] \in T /\ Mapped(W, s)[i] = W[s[i]]
  <1>1. Len(s) \in Nat
    BY LenProperties
  <1>2. \A i \in 1..Len(s) : s[i] \in T
    BY ElementOfSeq
  <1>3. \A i \in 1..Len(s) : W[s[i]] \in U
    BY <1>2 DEF IsMap
  <1>4. Mapped(W, s) \in Seq(U) /\ Len(Mapped(W, s)) = Len(s)
    BY <1>1, <1>3, IsASeq DEF Mapped
  <1>5. QED
    BY <1>1, <1>2, <1>4 DEF Mapped

LEMMA MappedEmpty == \A W : Mapped(W, <<>>) = <<>>
  BY DEF Mapped

LEMMA MappedOne == \A W, x : Mapped(W, <<x>>) = <<W[x]>>
  <1> SUFFICES ASSUME NEW W, NEW x
               PROVE  Mapped(W, <<x>>) = <<W[x]>>
    OBVIOUS
  <1>1. Len(<<x>>) = 1 /\ <<x>>[1] = x
    OBVIOUS
  <1>2. Mapped(W, <<x>>) = [i \in 1..1 |-> W[<<x>>[i]]]
    BY <1>1 DEF Mapped
  <1>3. [i \in 1..1 |-> W[<<x>>[i]]] = [i \in 1..1 |-> W[x]]
    BY <1>1
  <1>4. [i \in 1..1 |-> W[x]] = <<W[x]>>
    OBVIOUS
  <1>5. QED
    BY <1>2, <1>3, <1>4

LEMMA MappedConcat ==
    ASSUME NEW T, NEW U, NEW W, IsMap(W, T, U), NEW s \in Seq(T), NEW t \in Seq(T)
    PROVE  Mapped(W, s \o t) = Mapped(W, s) \o Mapped(W, t)
  <1>1. /\ s \o t \in Seq(T) /\ Len(s \o t) = Len(s) + Len(t)
        /\ \A i \in 1..Len(s) + Len(t) :
               (s \o t)[i] = IF i <= Len(s) THEN s[i] ELSE t[i - Len(s)]
    BY ConcatProperties
  <1>2. /\ Mapped(W, s) \in Seq(U) /\ Len(Mapped(W, s)) = Len(s) /\ Len(s) \in Nat
        /\ \A i \in 1..Len(s) : Mapped(W, s)[i] = W[s[i]]
    BY MappedType
  <1>3. /\ Mapped(W, t) \in Seq(U) /\ Len(Mapped(W, t)) = Len(t) /\ Len(t) \in Nat
        /\ \A i \in 1..Len(t) : Mapped(W, t)[i] = W[t[i]]
    BY MappedType
  <1>4. /\ Mapped(W, s \o t) \in Seq(U) /\ Len(Mapped(W, s \o t)) = Len(s \o t)
        /\ \A i \in 1..Len(s \o t) : Mapped(W, s \o t)[i] = W[(s \o t)[i]]
    <2>1. PICK st \in Seq(T) : st = s \o t
      BY <1>1
    <2>2. /\ Mapped(W, st) \in Seq(U) /\ Len(Mapped(W, st)) = Len(st)
          /\ \A i \in 1..Len(st) : Mapped(W, st)[i] = W[st[i]]
      BY MappedType
    <2>3. QED
      BY <2>1, <2>2
  <1> DEFINE m == Mapped(W, s)  n == Mapped(W, t)
  <1>5. /\ m \o n \in Seq(U) /\ Len(m \o n) = Len(m) + Len(n)
        /\ \A i \in 1..Len(m) + Len(n) :
               (m \o n)[i] = IF i <= Len(m) THEN m[i] ELSE n[i - Len(m)]
    <2>1. PICK a, b \in Seq(U) : a = m /\ b = n
      BY <1>2, <1>3
    <2>2. /\ a \o b \in Seq(U) /\ Len(a \o b) = Len(a) + Len(b)
          /\ \A i \in 1..Len(a) + Len(b) :
                 (a \o b)[i] = IF i <= Len(a) THEN a[i] ELSE b[i - Len(a)]
      BY ConcatProperties
    <2>3. QED
      BY <2>1, <2>2
  <1>6. \A i \in 1..Len(s) + Len(t) : Mapped(W, s \o t)[i] = (m \o n)[i]
    <2> SUFFICES ASSUME NEW i \in 1..Len(s) + Len(t)
                 PROVE  Mapped(W, s \o t)[i] = (m \o n)[i]
      OBVIOUS
    <2> HIDE DEF m, n
    <2>1. CASE i <= Len(s)
      <3>1. i \in 1..Len(s)
        BY <1>2, <2>1
      <3>2. Mapped(W, s \o t)[i] = W[s[i]]
        BY <1>1, <1>4, <2>1
      <3>3. (m \o n)[i] = m[i]
        BY <1>2, <1>3, <1>5, <2>1 DEF m, n
      <3>4. QED
        BY <1>2, <3>1, <3>2, <3>3 DEF m
    <2>2. CASE ~(i <= Len(s))
      <3>1. i - Len(s) \in 1..Len(t)
        BY <1>2, <1>3, <2>2
      <3>2. Mapped(W, s \o t)[i] = W[t[i - Len(s)]]
        BY <1>1, <1>4, <2>2
      <3>3. (m \o n)[i] = n[i - Len(s)]
        BY <1>2, <1>3, <1>5, <2>2 DEF m, n
      <3>4. QED
        BY <1>3, <3>1, <3>2, <3>3 DEF n
    <2>3. QED
      BY <2>1, <2>2
  <1> HIDE DEF m, n
  <1>7. Len(Mapped(W, s \o t)) = Len(m \o n) /\ Len(m \o n) = Len(s) + Len(t)
    BY <1>1, <1>2, <1>3, <1>4, <1>5 DEF m, n
  <1>8. Mapped(W, s \o t) = m \o n
    BY <1>4, <1>5, <1>6, <1>7, SeqEqual
  <1>9. QED
    BY <1>8 DEF m, n

\* The same for any two, to cite where there are many sequences.
Distributes(W, T) == \A s, t \in Seq(T) : Mapped(W, s \o t) = Mapped(W, s) \o Mapped(W, t)

LEMMA MappedOfTwo ==
    ASSUME NEW T, NEW U, NEW W, IsMap(W, T, U)
    PROVE  Distributes(W, T)
  BY MappedConcat DEF Distributes

LEMMA MappedAppend ==
    ASSUME NEW T, NEW U, NEW W, IsMap(W, T, U), NEW s \in Seq(T), NEW x \in T
    PROVE  Mapped(W, Append(s, x)) = Append(Mapped(W, s), W[x])
  <1>1. <<x>> \in Seq(T) /\ Append(s, x) = s \o <<x>>
    BY AppendIsConcat
  <1>2. Mapped(W, s) \in Seq(U) /\ W[x] \in U
    BY MappedType DEF IsMap
  <1>3. Append(Mapped(W, s), W[x]) = Mapped(W, s) \o <<W[x]>>
    BY <1>2, AppendIsConcat
  <1>4. Mapped(W, s \o <<x>>) = Mapped(W, s) \o Mapped(W, <<x>>)
    <2>1. PICK one \in Seq(T) : one = <<x>>
      BY <1>1
    <2>2. Mapped(W, s \o one) = Mapped(W, s) \o Mapped(W, one)
      BY MappedConcat
    <2>3. QED
      BY <2>1, <2>2
  <1>5. QED
    BY <1>1, <1>3, <1>4, MappedOne

-----------------------------------------------------------------------------
(* What a function gives for every element, one after another.             *)

Gathered(W, s) == FlattenSeq(Mapped(W, s))

LEMMA GatheredType ==
    ASSUME NEW T, NEW U, NEW W, IsMap(W, T, Seq(U)), NEW s \in Seq(T)
    PROVE  Gathered(W, s) \in Seq(U)
  <1>1. Mapped(W, s) \in Seq(Seq(U))
    BY MappedType
  <1>2. QED
    BY <1>1, FlattenType DEF Gathered

LEMMA GatheredEmpty == \A W : Gathered(W, <<>>) = <<>>
  BY MappedEmpty, FlattenEmpty DEF Gathered

LEMMA GatheredOne ==
    ASSUME NEW T, NEW U, NEW W, IsMap(W, T, Seq(U)), NEW x \in T
    PROVE  Gathered(W, <<x>>) = W[x]
  <1>1. W[x] \in Seq(U)
    BY DEF IsMap
  <1>2. QED
    BY <1>1, MappedOne, FlattenOne DEF Gathered

LEMMA GatheredConcat ==
    ASSUME NEW T, NEW U, NEW W, IsMap(W, T, Seq(U)), NEW s \in Seq(T), NEW t \in Seq(T)
    PROVE  Gathered(W, s \o t) = Gathered(W, s) \o Gathered(W, t)
  <1>1. Mapped(W, s) \in Seq(Seq(U)) /\ Mapped(W, t) \in Seq(Seq(U))
    BY MappedType
  <1>2. Mapped(W, s \o t) = Mapped(W, s) \o Mapped(W, t)
    BY MappedConcat
  <1>3. QED
    BY <1>1, <1>2, FlattenConcat DEF Gathered

\* The same for any two, to cite where there are many sequences.
Gathers(W, T) == \A s, t \in Seq(T) : Gathered(W, s \o t) = Gathered(W, s) \o Gathered(W, t)

LEMMA GatheredOfTwo ==
    ASSUME NEW T, NEW U, NEW W, IsMap(W, T, Seq(U))
    PROVE  Gathers(W, T)
  BY GatheredConcat DEF Gathers

LEMMA GatheredAppend ==
    ASSUME NEW T, NEW U, NEW W, IsMap(W, T, Seq(U)), NEW s \in Seq(T), NEW x \in T
    PROVE  Gathered(W, Append(s, x)) = Gathered(W, s) \o W[x]
  <1>1. Mapped(W, s) \in Seq(Seq(U)) /\ W[x] \in Seq(U)
    BY MappedType DEF IsMap
  <1>2. Mapped(W, Append(s, x)) = Append(Mapped(W, s), W[x])
    BY MappedAppend
  <1>3. QED
    BY <1>1, <1>2, FlattenAppend DEF Gathered

\* Z gives what W gathers from what V gives.
Composes(Z, W, V, T) == \A x \in T : Z[x] = Gathered(W, V[x])

LEMMA GatheredOfGathered ==
    ASSUME NEW T, NEW U, NEW X, NEW V, IsMap(V, T, Seq(U)), NEW W, IsMap(W, U, Seq(X)),
           NEW Z, IsMap(Z, T, Seq(X)), Composes(Z, W, V, T), NEW s \in Seq(T)
    PROVE  Gathered(W, Gathered(V, s)) = Gathered(Z, s)
  <1> DEFINE S == {t \in Seq(T) : Gathered(W, Gathered(V, t)) = Gathered(Z, t)}
  <1>1. <<>> \in S
    BY EmptySeq, GatheredEmpty
  <1>2. ASSUME NEW t \in Seq(T), NEW x \in T, t \in S
        PROVE  Append(t, x) \in S
    <2>1. Append(t, x) \in Seq(T)
      BY AppendProperties
    <2>2. Gathered(V, Append(t, x)) = Gathered(V, t) \o V[x]
      BY GatheredAppend
    <2>3. Gathered(V, t) \in Seq(U) /\ V[x] \in Seq(U)
      BY GatheredType DEF IsMap
    <2>4. Gathered(W, Gathered(V, t) \o V[x]) = Gathered(W, Gathered(V, t)) \o Gathered(W, V[x])
      <3>1. PICK a \in Seq(U), b \in Seq(U) : a = Gathered(V, t) /\ b = V[x]
        BY <2>3
      <3>2. Gathered(W, a \o b) = Gathered(W, a) \o Gathered(W, b)
        BY GatheredConcat
      <3>3. QED
        BY <3>1, <3>2
    <2>5. Gathered(Z, Append(t, x)) = Gathered(Z, t) \o Z[x]
      BY GatheredAppend
    <2>6. Gathered(W, Gathered(V, t)) = Gathered(Z, t) /\ Z[x] = Gathered(W, V[x])
      BY <1>2 DEF Composes
    <2>7. QED
      BY <2>1, <2>2, <2>4, <2>5, <2>6
  <1> HIDE DEF S
  <1>3. \A t \in Seq(T) : t \in S
    BY <1>1, <1>2, SequenceInduction
  <1>4. QED
    BY <1>3 DEF S

\* Z gives what V gives, each of it mapped by W.
Maps(Z, W, V, T) == \A x \in T : Z[x] = Mapped(W, V[x])

LEMMA MappedOfGathered ==
    ASSUME NEW T, NEW U, NEW X, NEW V, IsMap(V, T, Seq(U)), NEW W, IsMap(W, U, X),
           NEW Z, IsMap(Z, T, Seq(X)), Maps(Z, W, V, T), NEW s \in Seq(T)
    PROVE  Mapped(W, Gathered(V, s)) = Gathered(Z, s)
  <1> DEFINE S == {t \in Seq(T) : Mapped(W, Gathered(V, t)) = Gathered(Z, t)}
  <1>1. <<>> \in S
    BY EmptySeq, GatheredEmpty, MappedEmpty
  <1>2. ASSUME NEW t \in Seq(T), NEW x \in T, t \in S
        PROVE  Append(t, x) \in S
    <2>1. Append(t, x) \in Seq(T)
      BY AppendProperties
    <2>2. Gathered(V, Append(t, x)) = Gathered(V, t) \o V[x]
      BY GatheredAppend
    <2>3. Gathered(V, t) \in Seq(U) /\ V[x] \in Seq(U)
      BY GatheredType DEF IsMap
    <2>4. Mapped(W, Gathered(V, t) \o V[x]) = Mapped(W, Gathered(V, t)) \o Mapped(W, V[x])
      <3>1. PICK a \in Seq(U), b \in Seq(U) : a = Gathered(V, t) /\ b = V[x]
        BY <2>3
      <3>2. Mapped(W, a \o b) = Mapped(W, a) \o Mapped(W, b)
        BY MappedConcat
      <3>3. QED
        BY <3>1, <3>2
    <2>5. Gathered(Z, Append(t, x)) = Gathered(Z, t) \o Z[x]
      BY GatheredAppend
    <2>6. Mapped(W, Gathered(V, t)) = Gathered(Z, t) /\ Z[x] = Mapped(W, V[x])
      BY <1>2 DEF Maps
    <2>7. QED
      BY <2>1, <2>2, <2>4, <2>5, <2>6
  <1> HIDE DEF S
  <1>3. \A t \in Seq(T) : t \in S
    BY <1>1, <1>2, SequenceInduction
  <1>4. QED
    BY <1>3 DEF S

\* Z gives what W gives for what V gives.
Follows(Z, W, V, T) == \A x \in T : Z[x] = W[V[x]]

LEMMA GatheredOfMapped ==
    ASSUME NEW T, NEW U, NEW V, IsMap(V, T, U), NEW W, NEW Z, Follows(Z, W, V, T),
           NEW s \in Seq(T)
    PROVE  /\ Gathered(W, Mapped(V, s)) = Gathered(Z, s)
           /\ Mapped(W, Mapped(V, s)) = Mapped(Z, s)
  <1>1. /\ Len(Mapped(V, s)) = Len(s)
        /\ \A i \in 1..Len(s) : s[i] \in T /\ Mapped(V, s)[i] = V[s[i]]
    BY MappedType
  <1>2. \A i \in 1..Len(s) : W[Mapped(V, s)[i]] = Z[s[i]]
    BY <1>1 DEF Follows
  <1>3. Mapped(W, Mapped(V, s)) = [i \in 1..Len(s) |-> W[Mapped(V, s)[i]]]
    BY <1>1 DEF Mapped
  <1>4. Mapped(W, Mapped(V, s)) = Mapped(Z, s)
    BY <1>2, <1>3 DEF Mapped
  <1>5. QED
    BY <1>4 DEF Gathered

\* V and W give the same.
SameOn(V, W, T) == \A x \in T : V[x] = W[x]

LEMMA MappedSame ==
    ASSUME NEW T, NEW V, NEW W, SameOn(V, W, T), NEW s \in Seq(T)
    PROVE  Mapped(V, s) = Mapped(W, s) /\ Gathered(V, s) = Gathered(W, s)
  <1>1. \A i \in 1..Len(s) : s[i] \in T
    BY ElementOfSeq
  <1>2. \A i \in 1..Len(s) : V[s[i]] = W[s[i]]
    BY <1>1 DEF SameOn
  <1>3. Mapped(V, s) = Mapped(W, s)
    BY <1>2 DEF Mapped
  <1>4. QED
    BY <1>3 DEF Gathered

\* V gives less than W.
GivesLess(V, W, T) == \A x \in T : Len(V[x]) <= Len(W[x])

LEMMA GatheredLess ==
    ASSUME NEW T, NEW U, NEW X, NEW V, IsMap(V, T, Seq(U)), NEW W, IsMap(W, T, Seq(X)),
           GivesLess(V, W, T), NEW s \in Seq(T)
    PROVE  Len(Gathered(V, s)) <= Len(Gathered(W, s))
  <1> DEFINE S == {t \in Seq(T) : Len(Gathered(V, t)) <= Len(Gathered(W, t))}
  <1>1. <<>> \in S
    BY EmptySeq, GatheredEmpty
  <1>2. ASSUME NEW t \in Seq(T), NEW x \in T, t \in S
        PROVE  Append(t, x) \in S
    <2>1. Append(t, x) \in Seq(T)
      BY AppendProperties
    <2>2. /\ Gathered(V, Append(t, x)) = Gathered(V, t) \o V[x]
          /\ Gathered(V, t) \in Seq(U)
      BY GatheredAppend, GatheredType
    <2>3. /\ Gathered(W, Append(t, x)) = Gathered(W, t) \o W[x]
          /\ Gathered(W, t) \in Seq(X)
      BY GatheredAppend, GatheredType
    <2>a. V[x] \in Seq(U) /\ W[x] \in Seq(X)
      BY DEF IsMap
    <2>4. /\ Len(Gathered(V, t) \o V[x]) = Len(Gathered(V, t)) + Len(V[x])
          /\ Len(Gathered(V, t)) \in Nat /\ Len(V[x]) \in Nat
      BY <2>2, <2>a, ConcatProperties, LenProperties
    <2>5. /\ Len(Gathered(W, t) \o W[x]) = Len(Gathered(W, t)) + Len(W[x])
          /\ Len(Gathered(W, t)) \in Nat /\ Len(W[x]) \in Nat
      BY <2>3, <2>a, ConcatProperties, LenProperties
    <2>6. Len(Gathered(V, t)) <= Len(Gathered(W, t)) /\ Len(V[x]) <= Len(W[x])
      BY <1>2 DEF GivesLess
    <2>7. Len(Gathered(V, Append(t, x))) <= Len(Gathered(W, Append(t, x)))
      BY <2>2, <2>3, <2>4, <2>5, <2>6
    <2>8. QED
      BY <2>1, <2>7
  <1> HIDE DEF S
  <1>3. \A t \in Seq(T) : t \in S
    BY <1>1, <1>2, SequenceInduction
  <1>4. QED
    BY <1>3 DEF S

\* W gives every element itself.
IsIdentity(W, T) == \A x \in T : W[x] = <<x>>

LEMMA GatheredSelf ==
    ASSUME NEW T, NEW W, IsMap(W, T, Seq(T)), IsIdentity(W, T), NEW s \in Seq(T)
    PROVE  Gathered(W, s) = s
  <1> DEFINE S == {t \in Seq(T) : Gathered(W, t) = t}
  <1>1. <<>> \in S
    BY EmptySeq, GatheredEmpty
  <1>2. ASSUME NEW t \in Seq(T), NEW x \in T, t \in S
        PROVE  Append(t, x) \in S
    <2>1. Append(t, x) \in Seq(T) /\ Append(t, x) = t \o <<x>>
      BY AppendProperties, AppendIsConcat
    <2>2. Gathered(W, Append(t, x)) = Gathered(W, t) \o W[x]
      BY GatheredAppend
    <2>3. Gathered(W, t) = t /\ W[x] = <<x>>
      BY <1>2 DEF IsIdentity
    <2>4. QED
      BY <2>1, <2>2, <2>3
  <1> HIDE DEF S
  <1>3. \A t \in Seq(T) : t \in S
    BY <1>1, <1>2, SequenceInduction
  <1>4. QED
    BY <1>3 DEF S

\* W gives nothing.
GivesNothing(W, T) == \A x \in T : W[x] = <<>>

LEMMA GatheredNothing ==
    ASSUME NEW T, NEW W, GivesNothing(W, T), NEW s \in Seq(T)
    PROVE  Gathered(W, s) = <<>>
  <1>1. \A x \in T : W[x] = <<>>
    BY DEF GivesNothing
  <1> DEFINE V == [x \in T |-> <<>>]
  <1>3. IsMap(V, T, Seq({}))
    BY EmptySeq DEF IsMap
  <1>4. Mapped(W, s) = Mapped(V, s)
    <2>1. \A i \in 1..Len(s) : s[i] \in T
      BY ElementOfSeq
    <2>2. \A i \in 1..Len(s) : W[s[i]] = V[s[i]]
      BY <1>1, <2>1
    <2> HIDE DEF V
    <2>3. QED
      BY <2>2 DEF Mapped
  <1> HIDE DEF V
  <1>5. Gathered(V, s) \in Seq({})
    BY <1>3, GatheredType
  <1>6. \A r \in Seq({}) : r = <<>>
    <2>1. ASSUME NEW r \in Seq({}), r # <<>>
          PROVE  FALSE
      BY <2>1, SequenceEmptyOrAppend
    <2>2. QED
      BY <2>1
  <1>7. QED
    BY <1>4, <1>5, <1>6 DEF Gathered

\* W gives elements of U for those of S.
Gives(W, S, U) == \A x \in S : W[x] \in Seq(U)

LEMMA GatheredInto ==
    ASSUME NEW S, NEW U, NEW W, Gives(W, S, U), NEW s \in Seq(S)
    PROVE  Gathered(W, s) \in Seq(U)
  <1>1. PICK V : V = [x \in S |-> W[x]]
    OBVIOUS
  <1>2. IsMap(V, S, Seq(U))
    BY <1>1 DEF IsMap, Gives
  <1>3. SameOn(W, V, S)
    BY <1>1 DEF SameOn
  <1>4. QED
    BY <1>2, <1>3, MappedSame, GatheredType

LEMMA GatheredThrough ==
    ASSUME NEW S, NEW U, NEW X, NEW V, Gives(V, S, U), NEW W, Gives(W, U, X),
           NEW Z, Composes(Z, W, V, S), NEW s \in Seq(S)
    PROVE  Gathered(W, Gathered(V, s)) = Gathered(Z, s)
  <1>1. PICK V1, W1, Z1 : /\ V1 = [x \in S |-> V[x]] /\ W1 = [x \in U |-> W[x]]
                          /\ Z1 = [x \in S |-> Z[x]]
    OBVIOUS
  <1>2. SameOn(V, V1, S) /\ SameOn(W, W1, U) /\ SameOn(Z, Z1, S)
    BY <1>1 DEF SameOn
  <1>3. IsMap(V1, S, Seq(U))
    BY <1>1 DEF IsMap, Gives
  <1>4. IsMap(W1, U, Seq(X))
    BY <1>1 DEF IsMap, Gives
  <1>5. ASSUME NEW x \in S
        PROVE  Z1[x] = Gathered(W1, V1[x]) /\ Z1[x] \in Seq(X)
    <2>1. PICK v \in Seq(U) : v = V[x] /\ v = V1[x]
      BY <1>1 DEF Gives
    <2>2. Gathered(W, v) = Gathered(W1, v) /\ Gathered(W1, v) \in Seq(X)
      BY <1>2, <1>4, MappedSame, GatheredType
    <2>3. Z1[x] = Gathered(W, V[x])
      BY <1>1 DEF Composes
    <2>4. QED
      BY <2>1, <2>2, <2>3
  <1>6. IsMap(Z1, S, Seq(X))
    BY <1>1, <1>5 DEF IsMap
  <1>7. Composes(Z1, W1, V1, S)
    BY <1>5 DEF Composes
  <1>8. Gathered(W1, Gathered(V1, s)) = Gathered(Z1, s)
    BY <1>3, <1>4, <1>6, <1>7, GatheredOfGathered
  <1>9. Gathered(V, s) = Gathered(V1, s) /\ Gathered(Z, s) = Gathered(Z1, s)
    BY <1>2, MappedSame
  <1>10. PICK g \in Seq(U) : g = Gathered(V1, s)
    BY <1>3, GatheredType
  <1>11. Gathered(W, g) = Gathered(W1, g)
    BY <1>2, MappedSame
  <1>12. QED
    BY <1>8, <1>9, <1>10, <1>11

\* When nothing is gathered, W gives nothing for any element.
LEMMA NothingGathered ==
    ASSUME NEW T, NEW U, NEW W, IsMap(W, T, Seq(U)), NEW s \in Seq(T), Gathered(W, s) = <<>>
    PROVE  s \in Seq({x \in T : W[x] = <<>>})
  <1> DEFINE Q == {x \in T : W[x] = <<>>}
             S == {t \in Seq(T) : Gathered(W, t) = <<>> => t \in Seq(Q)}
  <1>1. <<>> \in S
    BY EmptySeq
  <1>2. ASSUME NEW t \in Seq(T), NEW x \in T, t \in S
        PROVE  Append(t, x) \in S
    <2>1. Append(t, x) \in Seq(T)
      BY AppendProperties
    <2>2. Gathered(W, Append(t, x)) = Gathered(W, t) \o W[x] /\ Gathered(W, t) \in Seq(U)
      BY GatheredAppend, GatheredType
    <2>3. W[x] \in Seq(U)
      BY DEF IsMap
    <2>4. ASSUME Gathered(W, Append(t, x)) = <<>>
          PROVE  Append(t, x) \in Seq(Q)
      <3>1. PICK g \in Seq(U) : g = Gathered(W, t)
        BY <2>2
      <3>2. PICK h \in Seq(U) : h = W[x]
        BY <2>3
      <3>3. g \o h = <<>>
        BY <2>2, <2>4, <3>1, <3>2
      <3>4. g = <<>> /\ h = <<>>
        BY <3>3, ConcatEmptySeq, ConcatProperties, EmptySeq
      <3>5. t \in Seq(Q) /\ x \in Q
        BY <1>2, <3>1, <3>2, <3>4
      <3> HIDE DEF Q
      <3>6. QED
        BY <3>5, AppendProperties
    <2>5. QED
      BY <2>1, <2>4
  <1> HIDE DEF S
  <1>3. \A t \in Seq(T) : t \in S
    BY <1>1, <1>2, SequenceInduction
  <1>4. QED
    BY <1>3 DEF S

-----------------------------------------------------------------------------
(* Elements and lengths.                                                   *)

LEMMA NoElements == \A s \in Seq({}) : s = <<>>
  <1>1. ASSUME NEW s \in Seq({}), s # <<>>
        PROVE  FALSE
    BY <1>1, SequenceEmptyOrAppend
  <1>2. QED
    BY <1>1

\* What is an element of one set is one of a larger set.
LEMMA LargerSeq ==
    ASSUME NEW S, NEW T, S \subseteq T
    PROVE  Seq(S) \subseteq Seq(T)
  BY SeqMonotonic

LEMMA Domains == \A T : \A s \in Seq(T) : DOMAIN s = 1..Len(s) /\ Len(s) \in Nat
  BY LenProperties

\* The elements of a sequence that are in S.
LEMMA AllIn ==
    ASSUME NEW T, NEW S, NEW s \in Seq(T), \A i \in 1..Len(s) : s[i] \in S
    PROVE  s \in Seq(S)
  <1>1. /\ s = [i \in 1..Len(s) |-> s[i]] /\ Len(s) \in Nat
    BY SeqDef, LenProperties
  <1>2. QED
    BY <1>1, SeqDef

\* Three sequences one after another.
LEMMA ThreeLengths ==
    ASSUME NEW T, NEW a \in Seq(T), NEW b \in Seq(T), NEW c \in Seq(T)
    PROVE  /\ Len(a \o b \o c) = Len(a) + Len(b) + Len(c)
           /\ Len(a) \in Nat /\ Len(b) \in Nat /\ Len(c) \in Nat
  <1>1. a \o b \in Seq(T) /\ Len(a \o b) = Len(a) + Len(b)
    BY ConcatProperties
  <1>2. Len((a \o b) \o c) = Len(a \o b) + Len(c)
    BY <1>1, ConcatProperties
  <1>3. QED
    BY <1>1, <1>2, LenProperties

\* A function that gives itself for the elements of s gives s.
LEMMA GatheredItself ==
    ASSUME NEW S, NEW W, IsIdentity(W, S), NEW s \in Seq(S)
    PROVE  Gathered(W, s) = s
  <1>1. PICK V : V = [x \in S |-> <<x>>]
    OBVIOUS
  <1>2. \A x \in S : <<x>> \in Seq(S)
    OBVIOUS
  <1>3. IsMap(V, S, Seq(S))
    BY <1>1, <1>2 DEF IsMap
  <1>4. IsIdentity(V, S)
    BY <1>1 DEF IsIdentity
  <1>5. SameOn(W, V, S)
    BY <1>4 DEF IsIdentity, SameOn
  <1>6. Gathered(W, s) = Gathered(V, s)
    BY <1>5, MappedSame
  <1>7. Gathered(V, s) = s
    BY <1>3, <1>4, GatheredSelf
  <1>8. QED
    BY <1>6, <1>7

\* What is gathered from what V gives is no longer when V gives less of it.
LEMMA ThroughLess ==
    ASSUME NEW T, NEW V, IsMap(V, T, Seq(T)), NEW X, NEW W, IsMap(W, T, Seq(X)),
           \A x \in T : Len(Gathered(W, V[x])) <= Len(W[x]), NEW s \in Seq(T)
    PROVE  Len(Gathered(W, Gathered(V, s))) <= Len(Gathered(W, s))
  <1>1. PICK Z : Z = [x \in T |-> Gathered(W, V[x])]
    OBVIOUS
  <1>2. \A x \in T : Gathered(W, V[x]) \in Seq(X)
    <2>1. \A x \in T : V[x] \in Seq(T)
      BY DEF IsMap
    <2>2. \A t \in Seq(T) : Gathered(W, t) \in Seq(X)
      BY GatheredType
    <2>3. QED
      BY <2>1, <2>2
  <1>3. IsMap(Z, T, Seq(X))
    BY <1>1, <1>2 DEF IsMap
  <1>4. Composes(Z, W, V, T)
    BY <1>1 DEF Composes
  <1>5. GivesLess(Z, W, T)
    BY <1>1 DEF GivesLess
  <1>6. Gathered(W, Gathered(V, s)) = Gathered(Z, s)
    BY <1>3, <1>4, GatheredOfGathered
  <1>7. Len(Gathered(Z, s)) <= Len(Gathered(W, s))
    BY <1>3, <1>5, GatheredLess
  <1>8. QED
    BY <1>6, <1>7

\* The concatenation for a sequence of two.
Pairs(W, T) == \A a, b \in T : Gathered(W, <<a, b>>) = W[a] \o W[b]

LEMMA TwoAre ==
    ASSUME NEW T, NEW U, NEW W, IsMap(W, T, Seq(U))
    PROVE  Pairs(W, T)
  <1>1. ASSUME NEW a \in T, NEW b \in T
        PROVE  Gathered(W, <<a, b>>) = W[a] \o W[b]
    <2>1. PICK s \in Seq(T) : s = <<a>>
      <3>1. <<a>> \in Seq(T)
        OBVIOUS
      <3>2. QED
        BY <3>1
    <2>2. <<a, b>> = Append(<<a>>, b)
      OBVIOUS
    <2>3. Gathered(W, Append(s, b)) = Gathered(W, s) \o W[b]
      BY GatheredAppend
    <2>4. Gathered(W, <<a>>) = W[a]
      BY GatheredOne
    <2>5. QED
      BY <2>1, <2>2, <2>3, <2>4
  <1>2. QED
    BY <1>1 DEF Pairs

\* s has three elements of T.
Three(s, a, b, c, T) == s = <<a, b, c>> /\ a \in T /\ b \in T /\ c \in T

Join(x, y, z) == x \o y \o z

LEMMA ThreeAre ==
    ASSUME NEW T, NEW U, NEW W, IsMap(W, T, Seq(U)),
           NEW a, NEW b, NEW c, NEW three, Three(three, a, b, c, T)
    PROVE  Gathered(W, three) = Join(W[a], W[b], W[c])
  <1>0. a \in T /\ b \in T /\ c \in T /\ three = <<a, b, c>>
    BY DEF Three
  <1>1. PICK s \in Seq(T) : s = <<a>>
    <2>1. <<a>> \in Seq(T)
      BY <1>0
    <2>2. QED
      BY <2>1
  <1>2. PICK t \in Seq(T) : t = <<a, b>> /\ t = Append(s, b)
    <2>1. <<a, b>> \in Seq(T) /\ <<a, b>> = Append(<<a>>, b)
      BY <1>0
    <2>2. QED
      BY <1>1, <2>1
  <1>3. <<a, b, c>> = Append(<<a, b>>, c)
    OBVIOUS
  <1>4. Gathered(W, Append(t, c)) = Gathered(W, t) \o W[c]
    BY <1>0, GatheredAppend
  <1>5. Gathered(W, Append(s, b)) = Gathered(W, s) \o W[b]
    BY <1>0, GatheredAppend
  <1>6. Gathered(W, <<a>>) = W[a]
    BY <1>0, GatheredOne
  <1>7. QED
    BY <1>0, <1>1, <1>2, <1>3, <1>4, <1>5, <1>6 DEF Join
=============================================================================
