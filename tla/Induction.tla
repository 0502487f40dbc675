------------------------------ MODULE Induction ------------------------------
(***************************************************************************)
(* Induction and recursion for the proofs of this project.  The library's  *)
(* theorems about them are about predicates and definitions of any form,   *)
(* as parameters; these are about sets and functions, which can be cited.  *)
(***************************************************************************)
EXTENDS Integers, Sequences, SequencesExt, SequenceTheorems, WellFoundedInduction, TLAPS

-----------------------------------------------------------------------------
(* Induction, over sets rather than predicates *)

LEMMA LeastNat ==
  ASSUME NEW T, T \subseteq Nat, T # {}
  PROVE  \E x \in T : \A y \in T : x <= y
<1> DEFINE R == OpToRel(<, Nat)
<1>1. IsWellFoundedOn(R, Nat)
  BY NatLessThanWellFounded
<1>2. \A x, y \in Nat : y < x => <<y, x>> \in R
  <2>1. R = {ss \in Nat \X Nat : ss[1] < ss[2]}
    BY DEF OpToRel
  <2>2. QED
    BY <2>1
<1> HIDE DEF R
<1>3. \E x \in T : \A y \in T : <<y, x>> \notin R
  BY <1>1, WFMin
<1>4. PICK x \in T : \A y \in T : <<y, x>> \notin R
  BY <1>3
<1>5. \A y \in T : y \in Nat /\ x \in Nat /\ ~(y < x)
  BY <1>2, <1>4
<1>6. QED
  BY <1>4, <1>5

LEMMA LeastOf ==
  ASSUME NEW T, T \subseteq Nat, T # {}
  PROVE  Min(T) \in T /\ \A y \in T : Min(T) <= y
<1>1. \E x \in T : \A y \in T : x <= y
  BY LeastNat
<1>2. QED
  BY <1>1 DEF Min

LEMMA InductionOnNat ==
  ASSUME NEW S, S \subseteq Nat, 0 \in S, \A n \in S : n + 1 \in S
  PROVE  S = Nat
<1> DEFINE T == Nat \ S
<1> SUFFICES ASSUME T # {}
             PROVE  FALSE
  OBVIOUS
<1>1. PICK x \in T : \A y \in T : x <= y
  BY LeastNat
<1>2. x \in Nat /\ x # 0
  OBVIOUS
<1>3. x - 1 \in Nat /\ x - 1 \notin T
  BY <1>1, <1>2
<1>4. QED
  BY <1>2, <1>3

LEMMA InductionOnSeq ==
  ASSUME NEW X, NEW P, P \subseteq Seq(X), << >> \in P,
         \A s \in P, x \in X : Append(s, x) \in P
  PROVE  P = Seq(X)
<1> DEFINE S == {n \in Nat : \A s \in Seq(X) : Len(s) = n => s \in P}
<1>1. 0 \in S
  <2>1. \A s \in Seq(X) : Len(s) = 0 => s = << >>
    BY EmptySeq
  <2>2. QED
    BY <2>1
<1>2. ASSUME NEW n \in S
      PROVE  n + 1 \in S
  <2>1. ASSUME NEW s \in Seq(X), Len(s) = n + 1
        PROVE  s \in P
    <3>1. s # << >>
      BY <2>1, EmptySeq
    <3>2. PICK t \in Seq(X), x \in X : s = Append(t, x)
      BY <3>1, SequenceEmptyOrAppend
    <3>3. Len(t) = n
      BY <2>1, <3>2
    <3>4. QED
      BY <3>2, <3>3
  <2>2. QED
    BY <2>1
<1> HIDE DEF S
<1>3. S = Nat
  <2>1. S \subseteq Nat
    BY DEF S
  <2>2. QED
    BY <1>1, <1>2, <2>1, InductionOnNat
<1>4. ASSUME NEW s \in Seq(X)
      PROVE  s \in P
  <2>1. Len(s) \in S
    BY <1>3, LenProperties
  <2>2. QED
    BY <2>1 DEF S
<1>5. QED
  BY <1>4

\* From every number, all that are below may be assumed.
LEMMA StrongInduction ==
  ASSUME NEW S, S \subseteq Nat, \A n \in Nat : (\A m \in 0 .. n - 1 : m \in S) => n \in S
  PROVE  S = Nat
<1> DEFINE T == Nat \ S
<1> SUFFICES ASSUME T # {}
             PROVE  FALSE
  OBVIOUS
<1>1. PICK x \in T : \A y \in T : x <= y
  BY LeastNat
<1>2. \A m \in 0 .. x - 1 : m \in S
  <2> SUFFICES ASSUME NEW m \in 0 .. x - 1, m \notin S
               PROVE  FALSE
    OBVIOUS
  <2>1. m \in T /\ x \in Nat
    OBVIOUS
  <2>2. QED
    BY <1>1, <2>1
<1>3. QED
  BY <1>2

-----------------------------------------------------------------------------
(* Recursion *)

\* f is defined at each number from its value at the one before.
Recurs(f, a, step, n) == f[0] = a /\ \A i \in 1 .. n : f[i] = step[<<i, f[i - 1]>>]

LEMMA RecursionExists ==
  ASSUME NEW V, NEW a \in V, NEW n \in Nat, NEW step \in [(1 .. n) \X V -> V]
  PROVE  \E f \in [0 .. n -> V] : Recurs(f, a, step, n)
<1> DEFINE Rec(f, m) == f = [i \in 0 .. m |-> IF i = 0 THEN a ELSE step[<<i, f[i - 1]>>]]
           S == {m \in Nat : m <= n => \E f \in [0 .. m -> V] : Rec(f, m)}
<1>1. 0 \in S
  <2> DEFINE f == [i \in 0 .. 0 |-> a]
  <2>1. f \in [0 .. 0 -> V] /\ Rec(f, 0)
    OBVIOUS
  <2>2. QED
    BY <2>1
<1>2. ASSUME NEW m \in S, m + 1 <= n
      PROVE  \E f \in [0 .. m + 1 -> V] : Rec(f, m + 1)
  <2>1. PICK f \in [0 .. m -> V] : Rec(f, m)
    BY <1>2
  <2> DEFINE last == step[<<m + 1, f[m]>>]
             g == [i \in 0 .. m + 1 |-> IF i = m + 1 THEN last ELSE f[i]]
             h == [i \in 0 .. m + 1 |-> IF i = 0 THEN a ELSE step[<<i, g[i - 1]>>]]
  <2>2. m \in Nat /\ f[m] \in V /\ m + 1 \in 1 .. n
    BY <1>2
  <2>3. last \in V
    BY <2>2
  <2>4. g \in [0 .. m + 1 -> V]
    BY <2>2, <2>3
  <2>5. ASSUME NEW i \in 0 .. m + 1
        PROVE  g[i] = h[i]
    <3>1. CASE i = m + 1
      <4>1. g[i - 1] = f[m] /\ g[i] = last
        BY <2>2, <3>1
      <4>2. h[i] = IF i = 0 THEN a ELSE step[<<i, g[i - 1]>>]
        OBVIOUS
      <4>3. i # 0
        BY <2>2, <3>1
      <4> HIDE DEF g, h
      <4>4. QED
        BY <3>1, <4>1, <4>2, <4>3
    <3>2. CASE i # m + 1
      <4>1. i \in 0 .. m /\ g[i] = f[i] /\ (i # 0 => g[i - 1] = f[i - 1])
        BY <2>2, <3>2
      <4>2. f[i] = IF i = 0 THEN a ELSE step[<<i, f[i - 1]>>]
        BY <2>1, <4>1
      <4>3. h[i] = IF i = 0 THEN a ELSE step[<<i, g[i - 1]>>]
        OBVIOUS
      <4> HIDE DEF g, h
      <4>4. CASE i = 0
        BY <4>1, <4>2, <4>3, <4>4
      <4>5. CASE i # 0
        BY <4>1, <4>2, <4>3, <4>5
      <4>6. QED
        BY <4>4, <4>5
    <3>3. QED
      BY <3>1, <3>2
  <2>6. g = h
    BY <2>5
  <2>7. QED
    BY <2>4, <2>6
<1>3. S = Nat
  <2>1. \A m \in S : m + 1 \in S
    <3> SUFFICES ASSUME NEW m \in S
                 PROVE  m + 1 \in S
      OBVIOUS
    <3>1. CASE m + 1 <= n
      BY <1>2, <3>1
    <3>2. CASE ~(m + 1 <= n)
      BY <3>2
    <3>3. QED
      BY <3>1, <3>2
  <2>2. S \subseteq Nat
    OBVIOUS
  <2> HIDE DEF S
  <2>3. QED
    BY <1>1, <2>1, <2>2, InductionOnNat
<1>4. PICK f \in [0 .. n -> V] : Rec(f, n)
  BY <1>3
<1>5. Recurs(f, a, step, n)
  BY <1>4 DEF Recurs
<1>6. QED
  BY <1>5

-----------------------------------------------------------------------------
(* FlattenSeq *)

\* f follows FlattenSeq's recursion on ss up to n.
Flattens(f, ss, n) == f = [i \in 1 .. n |-> IF i = 1 THEN ss[i] ELSE f[i - 1] \o ss[i]]

LEMMA FlattensExists ==
  ASSUME NEW X, NEW ss \in Seq(Seq(X)), NEW n \in 1 .. Len(ss)
  PROVE  \E f \in [1 .. n -> Seq(X)] : Flattens(f, ss, n)
<1> DEFINE S == {m \in Nat : m \in 1 .. Len(ss) => \E f \in [1 .. m -> Seq(X)] : Flattens(f, ss, m)}
<1>1. \A i \in 1 .. Len(ss) : ss[i] \in Seq(X)
  BY ElementOfSeq
<1>2. 0 \in S
  OBVIOUS
<1>3. ASSUME NEW m \in S, m + 1 \in 1 .. Len(ss)
      PROVE  \E f \in [1 .. m + 1 -> Seq(X)] : Flattens(f, ss, m + 1)
  <2>1. CASE m = 0
    <3> DEFINE f == [i \in 1 .. 1 |-> ss[1]]
    <3>1. f \in [1 .. 1 -> Seq(X)]
      BY <1>1, <1>3, <2>1
    <3>2. f = [i \in 1 .. 1 |-> IF i = 1 THEN ss[i] ELSE f[i - 1] \o ss[i]]
      OBVIOUS
    <3> HIDE DEF f
    <3>3. Flattens(f, ss, 1)
      BY <3>2 DEF Flattens
    <3>4. m + 1 = 1
      BY <2>1
    <3>5. QED
      BY <3>1, <3>3, <3>4
  <2>2. CASE m # 0
    <3>1. m \in 1 .. Len(ss) /\ m \in Nat
      BY <1>3, <2>2
    <3>2. PICK f \in [1 .. m -> Seq(X)] : Flattens(f, ss, m)
      BY <3>1
    <3> DEFINE last == f[m] \o ss[m + 1]
               g == [i \in 1 .. m + 1 |-> IF i = m + 1 THEN last ELSE f[i]]
               h == [i \in 1 .. m + 1 |-> IF i = 1 THEN ss[i] ELSE g[i - 1] \o ss[i]]
    <3>3. last \in Seq(X)
      BY <1>1, <1>3, <3>1, ConcatProperties
    <3>4. g \in [1 .. m + 1 -> Seq(X)]
      BY <3>1, <3>3
    <3>5. ASSUME NEW i \in 1 .. m + 1
          PROVE  g[i] = h[i]
      <4>1. CASE i = m + 1
        <5>1. g[i] = last /\ g[i - 1] = f[m] /\ i # 1
          BY <2>2, <3>1, <4>1
        <5>2. QED
          BY <4>1, <5>1
      <4>2. CASE i # m + 1
        <5>1. i \in 1 .. m /\ g[i] = f[i] /\ (i # 1 => g[i - 1] = f[i - 1])
          BY <3>1, <4>2
        <5>2. f[i] = IF i = 1 THEN ss[i] ELSE f[i - 1] \o ss[i]
          BY <3>2, <5>1 DEF Flattens
        <5>3. h[i] = IF i = 1 THEN ss[i] ELSE g[i - 1] \o ss[i]
          OBVIOUS
        <5> HIDE DEF g, h
        <5>4. QED
          BY <5>1, <5>2, <5>3
      <4>3. QED
        BY <4>1, <4>2
    <3>6. g = h
      BY <3>5
    <3>7. QED
      BY <3>4, <3>6 DEF Flattens
  <2>3. QED
    BY <2>1, <2>2
<1>4. S = Nat
  <2>1. \A m \in S : m + 1 \in S
    <3> SUFFICES ASSUME NEW m \in S
                 PROVE  m + 1 \in S
      OBVIOUS
    <3>1. CASE m + 1 \in 1 .. Len(ss)
      BY <1>3, <3>1
    <3>2. CASE m + 1 \notin 1 .. Len(ss)
      BY <3>2
    <3>3. QED
      BY <3>1, <3>2
  <2>2. S \subseteq Nat
    OBVIOUS
  <2> HIDE DEF S
  <2>3. QED
    BY <1>2, <2>1, <2>2, InductionOnNat
<1>5. n \in Nat
  BY LenProperties
<1>6. QED
  BY <1>4, <1>5

LEMMA FlattenIs ==
  ASSUME NEW X, NEW ss \in Seq(Seq(X)), ss # << >>
  PROVE  \E f \in [1 .. Len(ss) -> Seq(X)] :
           /\ Flattens(f, ss, Len(ss))
           /\ FlattenSeq(ss) = f[Len(ss)]
<1> DEFINE P(f) == f = [i \in 1 .. Len(ss) |-> IF i = 1 THEN ss[i] ELSE f[i - 1] \o ss[i]]
<1>1. Len(ss) \in Nat /\ Len(ss) # 0
  BY EmptySeq, LenProperties
<1>2. PICK f \in [1 .. Len(ss) -> Seq(X)] : Flattens(f, ss, Len(ss))
  BY <1>1, FlattensExists
<1>3. PICK g : g = (CHOOSE h : P(h))
  OBVIOUS
<1>4. P(g)
  <2>1. P(f)
    BY <1>2 DEF Flattens
  <2>2. QED
    BY <1>3, <2>1
<1>5. FlattenSeq(ss) = g[Len(ss)]
  BY <1>1, <1>3 DEF FlattenSeq
<1>6. \A i \in 1 .. Len(ss) : g[i] = f[i]
  <2> DEFINE S == {i \in Nat : i \in 1 .. Len(ss) => g[i] = f[i]}
  <2>1. 0 \in S
    OBVIOUS
  <2>2. ASSUME NEW i \in S
        PROVE  i + 1 \in S
    <3> SUFFICES ASSUME i + 1 \in 1 .. Len(ss)
                 PROVE  g[i + 1] = f[i + 1]
      OBVIOUS
    <3> DEFINE j == i + 1
    <3>1. g[j] = IF j = 1 THEN ss[j] ELSE g[j - 1] \o ss[j]
      BY <1>4
    <3>2. f[j] = IF j = 1 THEN ss[j] ELSE f[j - 1] \o ss[j]
      BY <1>2 DEF Flattens
    <3>3. j # 1 => g[j - 1] = f[j - 1]
      BY <2>2
    <3> HIDE DEF j
    <3>4. g[j] = f[j]
      BY <3>1, <3>2, <3>3
    <3>5. QED
      BY <3>4 DEF j
  <2>3. S \subseteq Nat
    OBVIOUS
  <2> HIDE DEF S
  <2>4. S = Nat
    BY <2>1, <2>2, <2>3, InductionOnNat
  <2>5. QED
    BY <2>4 DEF S
<1>7. Len(ss) \in 1 .. Len(ss)
  BY <1>1
<1>8. FlattenSeq(ss) = f[Len(ss)]
  BY ONLY <1>5, <1>6, <1>7
<1>9. QED
  BY ONLY <1>2, <1>8

LEMMA FlattenEmpty == FlattenSeq(<< >>) = << >>
<1>1. Len(<< >>) = 0
  BY EmptySeq
<1>2. QED
  BY <1>1 DEF FlattenSeq

LEMMA FlattenType ==
  ASSUME NEW X, NEW ss \in Seq(Seq(X))
  PROVE  FlattenSeq(ss) \in Seq(X)
<1>1. CASE ss = << >>
  BY <1>1, FlattenEmpty, EmptySeq
<1>2. CASE ss # << >>
  <2>1. Len(ss) \in 1 .. Len(ss)
    BY <1>2, EmptySeq, LenProperties
  <2>2. PICK f \in [1 .. Len(ss) -> Seq(X)] : FlattenSeq(ss) = f[Len(ss)]
    BY ONLY <1>2, FlattenIs
  <2>3. QED
    BY ONLY <2>1, <2>2
<1>3. QED
  BY <1>1, <1>2

LEMMA FlattenOne ==
  ASSUME NEW X, NEW s \in Seq(X)
  PROVE  FlattenSeq(<<s>>) = s
<1>1. <<s>> \in Seq(Seq(X)) /\ Len(<<s>>) = 1 /\ <<s>>[1] = s
  OBVIOUS
<1>2. <<s>> # << >>
  BY <1>1, EmptySeq
<1>3. PICK f \in [1 .. 1 -> Seq(X)] : Flattens(f, <<s>>, 1) /\ FlattenSeq(<<s>>) = f[1]
  BY ONLY <1>1, <1>2, FlattenIs
<1>4. f[1] = <<s>>[1]
  BY ONLY <1>3 DEF Flattens
<1>5. QED
  BY <1>1, <1>3, <1>4

LEMMA FlattenAppend ==
  ASSUME NEW X, NEW ss \in Seq(Seq(X)), NEW s \in Seq(X)
  PROVE  FlattenSeq(Append(ss, s)) = FlattenSeq(ss) \o s
<1> DEFINE tt == Append(ss, s)
           n == Len(ss)
<1>1. /\ tt \in Seq(Seq(X)) /\ tt # << >> /\ Len(tt) = n + 1 /\ n \in Nat
      /\ \A i \in 1 .. n : tt[i] = ss[i]
      /\ tt[n + 1] = s
  BY AppendProperties, LenProperties
<1> HIDE DEF tt
<1>2. PICK g \in [1 .. n + 1 -> Seq(X)] : Flattens(g, tt, n + 1) /\ FlattenSeq(tt) = g[n + 1]
  BY ONLY <1>1, FlattenIs
<1>3. \A i \in 1 .. n + 1 : g[i] = IF i = 1 THEN tt[i] ELSE g[i - 1] \o tt[i]
  BY ONLY <1>2 DEF Flattens
<1>4. CASE ss = << >>
  <2>1. n = 0
    BY <1>4, EmptySeq
  <2>2. FlattenSeq(tt) = s
    BY ONLY <1>1, <1>2, <1>3, <2>1
  <2>3. << >> \o s = s
    BY ConcatEmptySeq
  <2>4. QED
    BY <1>4, <2>2, <2>3, FlattenEmpty DEF tt
<1>5. CASE ss # << >>
  <2>1. PICK f \in [1 .. n -> Seq(X)] : Flattens(f, ss, n) /\ FlattenSeq(ss) = f[n]
    BY <1>5, FlattenIs
  <2>2. \A i \in 1 .. n : f[i] = IF i = 1 THEN ss[i] ELSE f[i - 1] \o ss[i]
    BY ONLY <2>1 DEF Flattens
  <2>3. n # 0
    BY <1>5, EmptySeq
  <2> DEFINE S == {i \in Nat : i \in 1 .. n => g[i] = f[i]}
  <2>4. 0 \in S
    OBVIOUS
  <2>5. ASSUME NEW i \in S
        PROVE  i + 1 \in S
    <3> SUFFICES ASSUME i + 1 \in 1 .. n
                 PROVE  g[i + 1] = f[i + 1]
      OBVIOUS
    <3> DEFINE j == i + 1
    <3>1. j \in 1 .. n /\ j \in 1 .. n + 1 /\ (j # 1 => g[j - 1] = f[j - 1])
      BY <1>1, <2>5
    <3>2. g[j] = (IF j = 1 THEN tt[j] ELSE g[j - 1] \o tt[j]) /\ tt[j] = ss[j]
      BY <1>1, <1>3, <3>1
    <3>3. f[j] = IF j = 1 THEN ss[j] ELSE f[j - 1] \o ss[j]
      BY <2>2, <3>1
    <3> HIDE DEF j
    <3>4. g[j] = f[j]
      BY <3>1, <3>2, <3>3
    <3>5. QED
      BY <3>4 DEF j
  <2>6. S \subseteq Nat
    OBVIOUS
  <2> HIDE DEF S
  <2>7. S = Nat
    BY <2>4, <2>5, <2>6, InductionOnNat
  <2>8. g[n] = f[n]
    <3>1. n \in Nat /\ n \in 1 .. n
      BY <1>1, <2>3
    <3>2. n \in S
      BY <2>7, <3>1
    <3>3. QED
      BY <3>1, <3>2 DEF S
  <2>9. g[n + 1] = g[n] \o tt[n + 1]
    <3>1. n + 1 \in 1 .. n + 1 /\ n + 1 # 1 /\ (n + 1) - 1 = n
      BY <1>1, <2>3
    <3> HIDE DEF n
    <3>2. g[n + 1] = IF n + 1 = 1 THEN tt[n + 1] ELSE g[(n + 1) - 1] \o tt[n + 1]
      BY <1>3, <3>1
    <3>3. QED
      BY ONLY <3>1, <3>2
  <2>10. QED
    BY <1>1, <1>2, <2>1, <2>8, <2>9 DEF tt
<1>6. QED
  BY <1>4, <1>5
=============================================================================
