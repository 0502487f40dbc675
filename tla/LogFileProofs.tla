---------------------------- MODULE LogFileProofs ----------------------------
(***************************************************************************)
(* That replay finds again the records a file holds, and no others: for    *)
(* keys and values of any length and content, any number of records, and   *)
(* a file that was cut anywhere.                                           *)
(***************************************************************************)
EXTENDS LogFile, Induction

-----------------------------------------------------------------------------
(* Runs *)

LEMMA UnitsOf ==
  ASSUME NEW s \in Text
  PROVE  Len(s) \in Nat /\ DOMAIN s = 1 .. Len(s) /\ \A i \in 1 .. Len(s) : s[i] \in Unit
BY LenProperties, ElementOfSeq DEF Text

\* A run goes on for as long as it can.
LEMMA RunEndType ==
  ASSUME NEW in \in Text, NEW pos \in 1 .. Len(in) + 1, NEW S
  PROVE  /\ RunEnd(in, pos, S) \in pos .. Len(in) + 1
         /\ \A i \in pos .. RunEnd(in, pos, S) - 1 : in[i] \in S
         /\ RunEnd(in, pos, S) <= Len(in) => in[RunEnd(in, pos, S)] \notin S
<1> DEFINE T == {i \in pos .. Len(in) : in[i] \notin S} \cup {Len(in) + 1}
           e == Min(T)
<1>1. Len(in) \in Nat
  BY UnitsOf
<1>2. T \subseteq Nat /\ T # {} /\ T \subseteq pos .. Len(in) + 1
  BY <1>1
<1> HIDE DEF e
<1>3. e \in T /\ \A y \in T : e <= y
  <2> HIDE DEF T
  <2>1. QED
    BY <1>2, LeastOf DEF e
<1>4. RunEnd(in, pos, S) = e
  BY DEF RunEnd, e
<1>5. ASSUME NEW i \in pos .. e - 1
      PROVE  in[i] \in S
  <2>1. i \in Int /\ i < e /\ e <= Len(in) + 1 /\ i \in pos .. Len(in)
    BY <1>1, <1>2, <1>3
  <2>2. i \notin T
    BY <1>2, <1>3, <2>1
  <2>3. QED
    BY <2>1, <2>2
<1>6. e <= Len(in) => in[e] \notin S
  BY <1>1, <1>3
<1>7. e \in pos .. Len(in) + 1
  BY <1>2, <1>3
<1>8. QED
  BY <1>4, <1>5, <1>6, <1>7

LEMMA RunEndIs ==
  ASSUME NEW in \in Text, NEW pos \in 1 .. Len(in) + 1, NEW S, NEW e \in pos .. Len(in) + 1,
         \A i \in pos .. e - 1 : in[i] \in S,
         e <= Len(in) => in[e] \notin S
  PROVE  RunEnd(in, pos, S) = e
<1> DEFINE r == RunEnd(in, pos, S)
<1>1. /\ r \in pos .. Len(in) + 1
      /\ \A i \in pos .. r - 1 : in[i] \in S
      /\ r <= Len(in) => in[r] \notin S
  BY RunEndType
<1>2. Len(in) \in Nat
  BY UnitsOf
<1> HIDE DEF r
<1>3. ~(r < e)
  BY <1>1, <1>2
<1>4. ~(e < r)
  BY <1>1, <1>2
<1>5. r = e
  BY <1>1, <1>2, <1>3, <1>4
<1>6. QED
  BY <1>5 DEF r

-----------------------------------------------------------------------------
(* Numbers *)

LEMMA NumberOfIs ==
  ASSUME NEW ds \in Seq(Digit)
  PROVE  \E f \in [0 .. Len(ds) -> Nat] :
           /\ f[0] = 0 /\ NumberOf(ds) = f[Len(ds)]
           /\ \A i \in 1 .. Len(ds) : f[i] = 2 * f[i - 1] + (IF ds[i] = "1" THEN 1 ELSE 0)
<1> DEFINE n == Len(ds)
           bit(i) == IF ds[i] = "1" THEN 1 ELSE 0
           P(f) == f = [i \in 0 .. n |-> IF i = 0 THEN 0
                                         ELSE 2 * f[i - 1] + (IF ds[i] = "1" THEN 1 ELSE 0)]
           step == [x \in (1 .. n) \X Nat |-> 2 * x[2] + (IF ds[x[1]] = "1" THEN 1 ELSE 0)]
<1>1. n \in Nat
  BY LenProperties
<1> HIDE DEF n
<1>2. step \in [(1 .. n) \X Nat -> Nat]
  OBVIOUS
<1>3. \A i \in 1 .. n, v \in Nat : step[<<i, v>>] = 2 * v + (IF ds[i] = "1" THEN 1 ELSE 0)
  OBVIOUS
<1> HIDE DEF step
<1>4. PICK f \in [0 .. n -> Nat] : Recurs(f, 0, step, n)
  BY <1>1, <1>2, RecursionExists
<1>5. \A i \in 0 .. n : f[i] = IF i = 0 THEN 0 ELSE step[<<i, f[i - 1]>>]
  BY <1>1, <1>4 DEF Recurs
<1>6. \A i \in 0 .. n : f[i] = IF i = 0 THEN 0 ELSE 2 * f[i - 1] + (IF ds[i] = "1" THEN 1 ELSE 0)
  <2> SUFFICES ASSUME NEW i \in 0 .. n, i # 0
               PROVE  f[i] = 2 * f[i - 1] + (IF ds[i] = "1" THEN 1 ELSE 0)
    BY <1>5
  <2>1. i \in 1 .. n /\ f[i - 1] \in Nat
    BY <1>1
  <2>2. f[i] = step[<<i, f[i - 1]>>]
    BY <1>5
  <2>3. QED
    BY <1>3, <2>1, <2>2
<1>7. P(f)
  BY <1>6
<1>8. PICK g : g = (CHOOSE h : P(h))
  OBVIOUS
<1>9. P(g)
  BY <1>7, <1>8
<1>10. NumberOf(ds) = g[n]
  BY <1>8 DEF NumberOf, n
<1>11. \A i \in 0 .. n : g[i] = IF i = 0 THEN 0 ELSE 2 * g[i - 1] + (IF ds[i] = "1" THEN 1 ELSE 0)
  BY ONLY <1>9
<1> HIDE DEF P
<1>12. \A i \in 0 .. n : g[i] = f[i]
  <2> DEFINE S == {i \in Nat : i \in 0 .. n => g[i] = f[i]}
  <2>1. 0 \in S
    BY <1>6, <1>11
  <2>2. ASSUME NEW i \in S
        PROVE  i + 1 \in S
    <3> SUFFICES ASSUME i + 1 \in 0 .. n
                 PROVE  g[i + 1] = f[i + 1]
      OBVIOUS
    <3>1. i \in Nat /\ i + 1 # 0 /\ (i + 1) - 1 = i /\ g[i] = f[i]
      BY <1>1
    <3>2. g[i + 1] = 2 * g[(i + 1) - 1] + (IF ds[i + 1] = "1" THEN 1 ELSE 0)
      BY <1>11, <3>1
    <3>3. f[i + 1] = 2 * f[(i + 1) - 1] + (IF ds[i + 1] = "1" THEN 1 ELSE 0)
      BY <1>6, <3>1
    <3>4. QED
      BY ONLY <3>1, <3>2, <3>3
  <2>3. S \subseteq Nat
    OBVIOUS
  <2> HIDE DEF S
  <2>4. S = Nat
    BY <2>1, <2>2, <2>3, InductionOnNat
  <2>5. QED
    BY <2>4 DEF S
<1>13. NumberOf(ds) = f[n]
  BY <1>1, <1>10, <1>12
<1>14. f[0] = 0 /\ \A i \in 1 .. n : f[i] = 2 * f[i - 1] + (IF ds[i] = "1" THEN 1 ELSE 0)
  BY <1>1, <1>6
<1>15. QED
  BY <1>13, <1>14 DEF n

LEMMA NumberOfType ==
  ASSUME NEW ds \in Seq(Digit)
  PROVE  NumberOf(ds) \in Nat
<1>1. PICK f \in [0 .. Len(ds) -> Nat] : NumberOf(ds) = f[Len(ds)]
  BY NumberOfIs
<1>2. Len(ds) \in 0 .. Len(ds)
  BY LenProperties
<1>3. QED
  BY <1>1, <1>2

LEMMA NumberOfOne ==
  ASSUME NEW d \in Digit
  PROVE  NumberOf(<<d>>) = IF d = "1" THEN 1 ELSE 0
<1>1. <<d>> \in Seq(Digit) /\ Len(<<d>>) = 1 /\ <<d>>[1] = d
  OBVIOUS
<1>2. PICK f \in [0 .. 1 -> Nat] :
        /\ f[0] = 0 /\ NumberOf(<<d>>) = f[1]
        /\ \A i \in 1 .. 1 : f[i] = 2 * f[i - 1] + (IF <<d>>[i] = "1" THEN 1 ELSE 0)
  BY ONLY <1>1, NumberOfIs
<1>3. f[1] = 2 * f[0] + (IF <<d>>[1] = "1" THEN 1 ELSE 0)
  BY ONLY <1>2
<1>4. QED
  BY <1>1, <1>2, <1>3

LEMMA NumberOfAppend ==
  ASSUME NEW ds \in Seq(Digit), NEW d \in Digit
  PROVE  NumberOf(Append(ds, d)) = 2 * NumberOf(ds) + (IF d = "1" THEN 1 ELSE 0)
<1> DEFINE n == Len(ds)
           es == Append(ds, d)
           bit == IF d = "1" THEN 1 ELSE 0
<1>1. n \in Nat /\ es \in Seq(Digit) /\ Len(es) = n + 1 /\ es[n + 1] = d
      /\ \A i \in 1 .. n : es[i] = ds[i]
  BY LenProperties, AppendProperties
<1> HIDE DEF es
<1>2. PICK f \in [0 .. n -> Nat] :
        /\ f[0] = 0 /\ NumberOf(ds) = f[n]
        /\ \A i \in 1 .. n : f[i] = 2 * f[i - 1] + (IF ds[i] = "1" THEN 1 ELSE 0)
  BY NumberOfIs
<1>3. PICK g \in [0 .. n + 1 -> Nat] :
        /\ g[0] = 0 /\ NumberOf(es) = g[n + 1]
        /\ \A i \in 1 .. n + 1 : g[i] = 2 * g[i - 1] + (IF es[i] = "1" THEN 1 ELSE 0)
  <2>1. PICK g \in [0 .. Len(es) -> Nat] :
        /\ g[0] = 0 /\ NumberOf(es) = g[Len(es)]
        /\ \A i \in 1 .. Len(es) : g[i] = 2 * g[i - 1] + (IF es[i] = "1" THEN 1 ELSE 0)
    BY ONLY <1>1, NumberOfIs
  <2>2. QED
    BY <1>1, <2>1
<1> HIDE DEF n
<1> DEFINE S == {i \in Nat : i \in 0 .. n => g[i] = f[i]}
<1>4. 0 \in S
  BY <1>2, <1>3
<1>5. ASSUME NEW i \in S
      PROVE  i + 1 \in S
  <2> SUFFICES ASSUME i + 1 \in 0 .. n
               PROVE  g[i + 1] = f[i + 1]
    OBVIOUS
  <2>1. i \in Nat /\ i + 1 \in 1 .. n /\ i + 1 \in 1 .. n + 1 /\ (i + 1) - 1 = i /\ g[i] = f[i]
    BY <1>1
  <2>2. g[i + 1] = 2 * g[(i + 1) - 1] + (IF es[i + 1] = "1" THEN 1 ELSE 0)
    BY <1>3, <2>1
  <2>3. f[i + 1] = 2 * f[(i + 1) - 1] + (IF ds[i + 1] = "1" THEN 1 ELSE 0)
    BY <1>2, <2>1
  <2>4. es[i + 1] = ds[i + 1]
    BY <1>1, <2>1
  <2>5. QED
    BY ONLY <2>1, <2>2, <2>3, <2>4
<1>6. S \subseteq Nat
  OBVIOUS
<1> HIDE DEF S
<1>7. S = Nat
  BY <1>4, <1>5, <1>6, InductionOnNat
<1>8. g[n] = f[n]
  BY <1>1, <1>7 DEF S
<1>9. g[n + 1] = 2 * g[n] + bit
  <2>1. n + 1 \in 1 .. n + 1 /\ (n + 1) - 1 = n
    BY <1>1
  <2>2. g[n + 1] = 2 * g[(n + 1) - 1] + (IF es[n + 1] = "1" THEN 1 ELSE 0)
    BY <1>3, <2>1
  <2>3. QED
    BY <1>1, <2>1, <2>2
<1>10. QED
  BY ONLY <1>2, <1>3, <1>8, <1>9 DEF es

LEMMA Halves ==
  ASSUME NEW m \in Nat
  PROVE  /\ m \div 2 \in Nat /\ m % 2 \in {0, 1}
         /\ m = 2 * (m \div 2) + (m % 2)
         /\ m >= 2 => m \div 2 < m /\ m \div 2 >= 1
OBVIOUS

LastDigit(m) == IF m % 2 = 0 THEN "0" ELSE "1"

\* f follows the recursion of Digits up to n.
Writes(f, n) == f = [m \in 0 .. n |-> IF m < 2 THEN <<LastDigit(m)>>
                                      ELSE Append(f[m \div 2], LastDigit(m))]

LEMMA WritesAt ==
  ASSUME NEW n \in Nat, NEW f, Writes(f, n), NEW m \in 0 .. n
  PROVE  f[m] = IF m < 2 THEN <<LastDigit(m)>> ELSE Append(f[m \div 2], LastDigit(m))
BY DEF Writes

LEMMA WritesExists ==
  ASSUME NEW n \in Nat
  PROVE  \E f : Writes(f, n)
<1> DEFINE S == {m \in Nat : \E f : Writes(f, m)}
<1>1. 0 \in S
  <2> DEFINE f == [m \in 0 .. 0 |-> <<LastDigit(m)>>]
             g == [m \in 0 .. 0 |-> IF m < 2 THEN <<LastDigit(m)>>
                                    ELSE Append(f[m \div 2], LastDigit(m))]
  <2>1. f = g
    OBVIOUS
  <2>2. QED
    BY <2>1 DEF Writes
<1>2. ASSUME NEW k \in S
      PROVE  k + 1 \in S
  <2>1. k \in Nat
    OBVIOUS
  <2>2. PICK f : Writes(f, k)
    OBVIOUS
  <2> DEFINE value == IF k + 1 < 2 THEN <<LastDigit(k + 1)>>
                      ELSE Append(f[(k + 1) \div 2], LastDigit(k + 1))
             g == [m \in 0 .. k + 1 |-> IF m = k + 1 THEN value ELSE f[m]]
             h == [m \in 0 .. k + 1 |-> IF m < 2 THEN <<LastDigit(m)>>
                                        ELSE Append(g[m \div 2], LastDigit(m))]
  <2>3. ASSUME NEW m \in 0 .. k + 1
        PROVE  g[m] = h[m]
    <3>1. m \in Nat
      BY <2>1
    <3>2. h[m] = IF m < 2 THEN <<LastDigit(m)>> ELSE Append(g[m \div 2], LastDigit(m))
      OBVIOUS
    <3>3. m >= 2 => m \div 2 \in 0 .. k /\ g[m \div 2] = f[m \div 2]
      <4> SUFFICES ASSUME m >= 2
                   PROVE  m \div 2 \in 0 .. k /\ g[m \div 2] = f[m \div 2]
        OBVIOUS
      <4>1. m \div 2 \in 0 .. k
        BY <2>1, <3>1, Halves
      <4>2. m \div 2 \in 0 .. k + 1 /\ m \div 2 # k + 1
        BY <2>1, <4>1
      <4>3. QED
        BY <4>1, <4>2
    <3>4. CASE m = k + 1
      <4>1. g[m] = value
        BY <3>4
      <4> HIDE DEF g, h
      <4>2. CASE m < 2
        BY <3>2, <3>4, <4>1, <4>2
      <4>3. CASE ~(m < 2)
        <5>1. m >= 2
          BY <3>1, <4>3
        <5>2. QED
          BY <3>2, <3>3, <3>4, <4>1, <4>3, <5>1
      <4>4. QED
        BY <4>2, <4>3
    <3>5. CASE m # k + 1
      <4>1. m \in 0 .. k /\ g[m] = f[m]
        BY <2>1, <3>5
      <4>2. f[m] = IF m < 2 THEN <<LastDigit(m)>> ELSE Append(f[m \div 2], LastDigit(m))
        BY <2>1, <2>2, <4>1, WritesAt
      <4> HIDE DEF g, h
      <4>3. CASE m < 2
        BY <3>2, <4>1, <4>2, <4>3
      <4>4. CASE ~(m < 2)
        <5>1. m >= 2
          BY <3>1, <4>4
        <5>2. QED
          BY <3>2, <3>3, <4>1, <4>2, <4>4, <5>1
      <4>5. QED
        BY <4>3, <4>4
    <3>6. QED
      BY <3>4, <3>5
  <2>4. g = h
    BY <2>3
  <2>5. Writes(g, k + 1)
    BY <2>4 DEF Writes
  <2>6. QED
    BY <2>1, <2>5
<1>3. S \subseteq Nat
  OBVIOUS
<1> HIDE DEF S
<1>4. S = Nat
  BY <1>1, <1>2, <1>3, InductionOnNat
<1>5. QED
  BY <1>4 DEF S

LEMMA WritesTheSame ==
  ASSUME NEW n \in Nat, NEW f, Writes(f, n), NEW k \in Nat, NEW g, Writes(g, k)
  PROVE  \A m \in Nat : m <= n /\ m <= k => f[m] = g[m]
<1> DEFINE S == {m \in Nat : m <= n /\ m <= k => f[m] = g[m]}
<1>1. ASSUME NEW m \in Nat, \A i \in 0 .. m - 1 : i \in S
      PROVE  m \in S
  <2> SUFFICES ASSUME m <= n, m <= k
               PROVE  f[m] = g[m]
    OBVIOUS
  <2>1. f[m] = IF m < 2 THEN <<LastDigit(m)>> ELSE Append(f[m \div 2], LastDigit(m))
    BY WritesAt
  <2>2. g[m] = IF m < 2 THEN <<LastDigit(m)>> ELSE Append(g[m \div 2], LastDigit(m))
    BY WritesAt
  <2>3. m >= 2 => f[m \div 2] = g[m \div 2]
    <3> SUFFICES ASSUME m >= 2
                 PROVE  f[m \div 2] = g[m \div 2]
      OBVIOUS
    <3>1. m \div 2 \in 0 .. m - 1
      BY Halves
    <3>2. m \div 2 \in S
      BY <1>1, <3>1
    <3>3. QED
      BY <3>1, <3>2
  <2>4. QED
    BY <2>1, <2>2, <2>3
<1>2. S \subseteq Nat
  OBVIOUS
<1> HIDE DEF S
<1>3. S = Nat
  BY <1>1, <1>2, StrongInduction
<1>4. QED
  BY <1>3 DEF S

LEMMA DigitsIs ==
  ASSUME NEW n \in Nat
  PROVE  Digits(n) = IF n < 2 THEN <<LastDigit(n)>> ELSE Append(Digits(n \div 2), LastDigit(n))
<1>1. ASSUME NEW m \in Nat
      PROVE  \E f : Writes(f, m) /\ Digits(m) = f[m]
  <2> DEFINE P(f) == f = [i \in 0 .. m |-> IF i < 2 THEN <<LastDigit(i)>>
                                           ELSE Append(f[i \div 2], LastDigit(i))]
  <2>1. PICK f : f = (CHOOSE h : P(h))
    OBVIOUS
  <2>2. P(f)
    <3>1. \E h : P(h)
      BY WritesExists DEF Writes
    <3>2. QED
      BY <2>1, <3>1
  <2>3. Digits(m) = f[m]
    BY <2>1 DEF Digits, LastDigit
  <2>4. QED
    BY <2>2, <2>3 DEF Writes
<1>2. PICK f : Writes(f, n) /\ Digits(n) = f[n]
  BY <1>1
<1>3. f[n] = IF n < 2 THEN <<LastDigit(n)>> ELSE Append(f[n \div 2], LastDigit(n))
  BY <1>2, WritesAt
<1>4. n >= 2 => f[n \div 2] = Digits(n \div 2)
  <2> SUFFICES ASSUME n >= 2
               PROVE  f[n \div 2] = Digits(n \div 2)
    OBVIOUS
  <2> DEFINE k == n \div 2
  <2>1. k \in Nat /\ k <= n
    BY Halves
  <2> HIDE DEF k
  <2>2. PICK g : Writes(g, k) /\ Digits(k) = g[k]
    BY <1>1, <2>1
  <2>3. f[k] = g[k]
    BY <1>2, <2>1, <2>2, WritesTheSame
  <2>4. QED
    BY <2>2, <2>3 DEF k
<1>5. QED
  BY <1>2, <1>3, <1>4

\* What is written for a number is digits, at least one, and read as that number.
LEMMA DigitsReadBack ==
  ASSUME NEW n \in Nat
  PROVE  Digits(n) \in Seq(Digit) /\ Len(Digits(n)) >= 1 /\ NumberOf(Digits(n)) = n
<1> DEFINE Right(m) == Digits(m) \in Seq(Digit) /\ Len(Digits(m)) >= 1 /\ NumberOf(Digits(m)) = m
           S == {m \in Nat : Right(m)}
<1>1. ASSUME NEW m \in Nat, \A i \in 0 .. m - 1 : i \in S
      PROVE  Right(m)
  <2>1. LastDigit(m) \in Digit /\ (LastDigit(m) = "1" <=> (m % 2) = 1)
    BY Halves DEF LastDigit, Digit
  <2>2. CASE m < 2
    <3>1. Digits(m) = <<LastDigit(m)>>
      BY <2>2, DigitsIs
    <3>2. NumberOf(<<LastDigit(m)>>) = IF LastDigit(m) = "1" THEN 1 ELSE 0
      BY <2>1, NumberOfOne
    <3>3. (IF LastDigit(m) = "1" THEN 1 ELSE 0) = m
      BY <2>1, <2>2
    <3>4. <<LastDigit(m)>> \in Seq(Digit) /\ Len(<<LastDigit(m)>>) = 1
      BY <2>1
    <3>5. QED
      BY ONLY <3>1, <3>2, <3>3, <3>4
  <2>3. CASE ~(m < 2)
    <3> DEFINE k == m \div 2
    <3>1. k \in 0 .. m - 1 /\ m = 2 * k + (m % 2) /\ m % 2 \in {0, 1}
      BY <2>3, Halves
    <3>2. Digits(m) = Append(Digits(k), LastDigit(m))
      BY <2>3, DigitsIs
    <3> HIDE DEF k
    <3>3. Right(k)
      BY <1>1, <3>1
    <3>4. NumberOf(Digits(m)) = 2 * k + (IF LastDigit(m) = "1" THEN 1 ELSE 0)
      BY <2>1, <3>2, <3>3, NumberOfAppend
    <3>5. Digits(m) \in Seq(Digit) /\ Len(Digits(m)) = Len(Digits(k)) + 1
      BY <2>1, <3>2, <3>3, AppendProperties
    <3>6. NumberOf(Digits(m)) = m
      BY <2>1, <3>1, <3>4
    <3>7. Len(Digits(m)) >= 1
      BY <3>3, <3>5, LenProperties
    <3>8. QED
      BY <3>5, <3>6, <3>7
  <2>4. QED
    BY <2>2, <2>3
<1>2. S \subseteq Nat
  OBVIOUS
<1>3. \A m \in Nat : (\A i \in 0 .. m - 1 : i \in S) => m \in S
  BY <1>1
<1> HIDE DEF S
<1>4. S = Nat
  BY <1>2, <1>3, StrongInduction
<1>5. QED
  BY <1>4 DEF S

-----------------------------------------------------------------------------
(* What stands where in a file *)

\* s stands in the file from pos on.
Holds(in, pos, s) ==
  pos + Len(s) <= Len(in) + 1 /\ \A i \in 1 .. Len(s) : in[pos + i - 1] = s[i]

LEMMA HoldsConcat ==
  ASSUME NEW in \in Text, NEW pos \in Nat \ {0}, NEW s \in Text, NEW t \in Text
  PROVE  Holds(in, pos, s \o t) <=> Holds(in, pos, s) /\ Holds(in, pos + Len(s), t)
<1> DEFINE m == Len(s)
           n == Len(t)
           u == s \o t
<1>1. m \in Nat /\ n \in Nat /\ Len(in) \in Nat
  BY UnitsOf
<1>2. Len(u) = m + n /\ \A i \in 1 .. m + n : u[i] = IF i <= m THEN s[i] ELSE t[i - m]
  BY ConcatProperties DEF Text
<1> HIDE DEF m, n, u
<1>3. ASSUME Holds(in, pos, u)
      PROVE  Holds(in, pos, s) /\ Holds(in, pos + m, t)
  <2>1. pos + (m + n) <= Len(in) + 1 /\ \A i \in 1 .. m + n : in[pos + i - 1] = u[i]
    BY <1>2, <1>3 DEF Holds
  <2>2. ASSUME NEW i \in 1 .. m
        PROVE  in[pos + i - 1] = s[i]
    BY <1>1, <1>2, <2>1
  <2>3. ASSUME NEW i \in 1 .. n
        PROVE  in[(pos + m) + i - 1] = t[i]
    <3>1. i + m \in 1 .. m + n /\ pos + (i + m) - 1 = (pos + m) + i - 1 /\ (i + m) - m = i
          /\ ~(i + m <= m)
      BY <1>1
    <3>2. in[pos + (i + m) - 1] = u[i + m]
      BY <2>1, <3>1
    <3>3. u[i + m] = t[(i + m) - m]
      BY <1>2, <3>1
    <3>4. QED
      BY <3>1, <3>2, <3>3
  <2>4. QED
    BY SMTT(30), <1>1, <2>1, <2>2, <2>3 DEF Holds, m, n
<1>4. ASSUME Holds(in, pos, s), Holds(in, pos + m, t)
      PROVE  Holds(in, pos, u)
  <2>1. (pos + m) + n <= Len(in) + 1
    BY <1>4 DEF Holds, n
  <2>2. ASSUME NEW i \in 1 .. m + n
        PROVE  in[pos + i - 1] = u[i]
    <3>1. CASE i <= m
      BY <1>1, <1>2, <1>4, <3>1 DEF Holds, m
    <3>2. CASE ~(i <= m)
      <4>1. i - m \in 1 .. n /\ (pos + m) + (i - m) - 1 = pos + i - 1
        BY <1>1, <3>2
      <4>2. in[(pos + m) + (i - m) - 1] = t[i - m]
        BY <1>4, <4>1 DEF Holds, n
      <4>3. QED
        BY <1>2, <3>2, <4>1, <4>2
    <3>3. QED
      BY <3>1, <3>2
  <2>3. QED
    BY <1>1, <1>2, <2>1, <2>2 DEF Holds
<1>5. QED
  BY <1>3, <1>4 DEF m, u

LEMMA HoldsSubSeq ==
  ASSUME NEW in \in Text, NEW pos \in Nat \ {0}, NEW s \in Text, Holds(in, pos, s)
  PROVE  SubSeq(in, pos, pos + Len(s) - 1) = s
<1> DEFINE n == Len(s)
           stop == pos + n - 1
<1>1. n \in Nat /\ Len(in) \in Nat /\ DOMAIN s = 1 .. n /\ \A i \in 1 .. Len(in) : in[i] \in Unit
  BY UnitsOf
<1>2. pos + n <= Len(in) + 1 /\ \A i \in 1 .. n : in[pos + i - 1] = s[i]
  BY DEF Holds
<1> HIDE DEF n
<1>3. pos \in Int /\ stop \in Int /\ \A i \in pos .. stop : in[i] \in Unit
  BY <1>1, <1>2
<1>4. (stop - pos) + 1 = n /\ (IF pos <= stop THEN stop - pos + 1 ELSE 0) = n
  BY <1>1
<1> HIDE DEF stop
<1>5. /\ SubSeq(in, pos, stop) \in Seq(Unit)
      /\ Len(SubSeq(in, pos, stop)) = IF pos <= stop THEN stop - pos + 1 ELSE 0
      /\ \A i \in 1 .. stop - pos + 1 : SubSeq(in, pos, stop)[i] = in[pos + i - 1]
  BY <1>3, SubSeqProperties
<1>6. SubSeq(in, pos, stop) = s
  BY <1>1, <1>2, <1>4, <1>5, SeqEqual DEF n, Text
<1>7. QED
  BY <1>6 DEF stop, n

LEMMA HoldsOne ==
  ASSUME NEW in \in Text, NEW pos \in Nat \ {0}, NEW u
  PROVE  Holds(in, pos, <<u>>) <=> Gets(in, pos, u)
<1>1. Len(in) \in Nat /\ Len(<<u>>) = 1 /\ <<u>>[1] = u
  BY UnitsOf
<1>2. QED
  BY <1>1 DEF Holds, Gets

LEMMA DigitsAreText ==
  ASSUME NEW n \in Nat
  PROVE  Digits(n) \in Text
BY DigitsReadBack, SeqMonotonic DEF Text, Unit

-----------------------------------------------------------------------------
(* A record that stands in the file is read *)

LEMMA ReadsNumber ==
  ASSUME NEW in \in Text, NEW pos \in Nat \ {0}, NEW n \in Nat, Holds(in, pos, Digits(n)),
         pos + Len(Digits(n)) <= Len(in) => in[pos + Len(Digits(n))] \notin Digit
  PROVE  ReadNumber(in, pos) = Read(n, pos + Len(Digits(n)))
<1> DEFINE ds == Digits(n)
           end == pos + Len(ds)
<1>1. ds \in Text /\ ds \in Seq(Digit) /\ Len(ds) \in Nat /\ Len(ds) >= 1 /\ NumberOf(ds) = n
      /\ Len(in) \in Nat
  BY DigitsReadBack, DigitsAreText, UnitsOf
<1>2. end <= Len(in) + 1 /\ \A i \in 1 .. Len(ds) : in[pos + i - 1] = ds[i]
  BY DEF Holds
<1>3. \A i \in 1 .. Len(ds) : ds[i] \in Digit
  BY <1>1, ElementOfSeq
<1>4. SubSeq(in, pos, end - 1) = ds
  BY <1>1, HoldsSubSeq
<1>5. end <= Len(in) => in[end] \notin Digit
  OBVIOUS
<1> HIDE DEF ds
<1>6. ASSUME NEW i \in pos .. end - 1
      PROVE  in[i] \in Digit
  <2>1. i - pos + 1 \in 1 .. Len(ds) /\ pos + (i - pos + 1) - 1 = i
    BY <1>1
  <2>2. QED
    BY <1>2, <1>3, <2>1
<1>7. pos \in 1 .. Len(in) + 1 /\ end \in pos .. Len(in) + 1 /\ pos # end /\ pos \in pos .. end - 1
  BY <1>1, <1>2
<1> HIDE DEF end
<1>8. in[pos] \notin White
  BY <1>6, <1>7 DEF Digit, White
<1>9. RunEnd(in, pos, White) = pos
  <2>1. pos \in pos .. Len(in) + 1 /\ \A i \in pos .. pos - 1 : in[i] \in White
    BY <1>7
  <2>2. QED
    BY <1>7, <1>8, <2>1, RunEndIs
<1>10. RunEnd(in, pos, Digit) = end
  BY <1>5, <1>6, <1>7, RunEndIs
<1>11. ReadNumber(in, pos) = Read(n, end)
  BY <1>1, <1>4, <1>7, <1>9, <1>10 DEF ReadNumber
<1>12. QED
  BY <1>11 DEF end, ds

LEMMA FieldIs ==
  ASSUME NEW w \in Text
  PROVE  /\ Field(w) \in Text /\ <<"blank">> \o Field(w) \in Text
         /\ Len(<<"blank">> \o Field(w)) = 2 + Len(Digits(Len(w))) + Len(w)
         /\ \A in \in Text, pos \in Nat \ {0} :
              Holds(in, pos, <<"blank">> \o Field(w))
                <=> /\ Gets(in, pos, "blank")
                    /\ Holds(in, pos + 1, Digits(Len(w)))
                    /\ Gets(in, pos + 1 + Len(Digits(Len(w))), "blank")
                    /\ Holds(in, pos + 1 + Len(Digits(Len(w))) + 1, w)
<1> DEFINE d == Digits(Len(w))
           b == <<"blank">>
<1>1. Len(w) \in Nat /\ d \in Text /\ Len(d) \in Nat
  BY UnitsOf, DigitsAreText
<1>2. b \in Text /\ Len(b) = 1
  <2>1. "blank" \in Unit
    BY DEF Unit, White
  <2>2. QED
    BY <2>1 DEF Text
<1>3. d \o b \in Text /\ Len(d \o b) = Len(d) + 1
  BY <1>1, <1>2, ConcatProperties DEF Text
<1> DEFINE e == d \o b
           f == Field(w)
<1>4. f = e \o w
  BY DEF Field
<1> HIDE DEF d, b, e, f
<1>5. f \in Text /\ Len(f) = Len(d) + 1 + Len(w)
  <2>1. e \in Text /\ Len(e) = Len(d) + 1
    BY <1>3 DEF e
  <2>2. e \o w \in Text /\ Len(e \o w) = Len(e) + Len(w)
    BY <2>1, ConcatProperties DEF Text
  <2>3. QED
    BY <1>4, <2>1, <2>2
<1>6. b \o f \in Text /\ Len(b \o f) = 2 + Len(d) + Len(w)
  <2>1. b \o f \in Text /\ Len(b \o f) = Len(b) + Len(f)
    BY <1>2, <1>5, ConcatProperties DEF Text
  <2>2. QED
    BY <1>1, <1>2, <1>5, <2>1
<1>7. ASSUME NEW in \in Text, NEW pos \in Nat \ {0}
      PROVE  Holds(in, pos, b \o f)
               <=> /\ Gets(in, pos, "blank")
                   /\ Holds(in, pos + 1, d)
                   /\ Gets(in, pos + 1 + Len(d), "blank")
                   /\ Holds(in, pos + 1 + Len(d) + 1, w)
  <2>1. Holds(in, pos, b \o f) <=> Holds(in, pos, b) /\ Holds(in, pos + 1, f)
    BY <1>2, <1>5, HoldsConcat
  <2>2. pos + 1 \in Nat \ {0} /\ pos + 1 + Len(d) \in Nat \ {0}
        /\ pos + 1 + (Len(d) + 1) = pos + 1 + Len(d) + 1
    BY <1>1
  <2>3. Holds(in, pos + 1, f)
          <=> Holds(in, pos + 1, d \o b) /\ Holds(in, pos + 1 + (Len(d) + 1), w)
    <3>1. e \in Text /\ Len(e) = Len(d) + 1
      BY <1>3 DEF e
    <3>2. Holds(in, pos + 1, e \o w) <=> Holds(in, pos + 1, e) /\ Holds(in, pos + 1 + Len(e), w)
      BY <2>2, <3>1, HoldsConcat
    <3>3. QED
      BY <1>4, <3>1, <3>2 DEF e
  <2>4. Holds(in, pos + 1, d \o b) <=> Holds(in, pos + 1, d) /\ Holds(in, pos + 1 + Len(d), b)
    BY <1>1, <1>2, <2>2, HoldsConcat
  <2>5. (Holds(in, pos, b) <=> Gets(in, pos, "blank"))
        /\ (Holds(in, pos + 1 + Len(d), b) <=> Gets(in, pos + 1 + Len(d), "blank"))
    BY <2>2, HoldsOne DEF b
  <2>6. QED
    BY <2>1, <2>2, <2>3, <2>4, <2>5
<1>10. QED
  BY <1>1, <1>5, <1>6, <1>7 DEF d, b, f

LEMMA ReadsField ==
  ASSUME NEW in \in Text, NEW pos \in Nat \ {0}, NEW w \in Text,
         Holds(in, pos, <<"blank">> \o Field(w))
  PROVE  ReadField(in, pos) = Read(w, pos + Len(<<"blank">> \o Field(w)))
<1> DEFINE d == Len(Digits(Len(w)))
           at == pos + 1 + d
<1>1. /\ Gets(in, pos, "blank") /\ Holds(in, pos + 1, Digits(Len(w)))
      /\ Gets(in, at, "blank") /\ Holds(in, at + 1, w)
      /\ Len(<<"blank">> \o Field(w)) = 2 + d + Len(w)
  BY FieldIs
<1>2. Len(w) \in Nat /\ d \in Nat /\ Len(in) \in Nat
  BY UnitsOf, DigitsAreText
<1>3. at \in Nat \ {0} /\ at + 1 \in Nat \ {0} /\ pos + 1 \in Nat \ {0} /\ at = pos + 1 + d
  BY <1>2
<1> HIDE DEF d, at
<1>4. ReadNumber(in, pos + 1) = Read(Len(w), at)
  <2>1. at <= Len(in) => in[at] \notin Digit
    BY <1>1 DEF Gets, Digit
  <2>2. QED
    BY <1>1, <1>2, <1>3, <2>1, ReadsNumber DEF d
<1>5. SubSeq(in, at + 1, (at + 1) + Len(w) - 1) = w
  BY <1>1, <1>3, HoldsSubSeq
<1>6. Len(w) <= Len(in) - at /\ (at + 1) + Len(w) - 1 = at + Len(w)
      /\ at + Len(w) + 1 = pos + (2 + d + Len(w))
  <2>1. (at + 1) + Len(w) <= Len(in) + 1
    BY <1>1 DEF Holds
  <2>2. QED
    BY <1>2, <1>3, <2>1
<1> DEFINE number == ReadNumber(in, pos + 1)
<1>7. number.ok /\ number.value = Len(w) /\ number.pos = at
  BY <1>4 DEF Read
<1>8. ReadField(in, pos) = IF Gets(in, number.pos, "blank") /\ number.value <= Len(in) - number.pos
       THEN Read(SubSeq(in, number.pos + 1, number.pos + number.value),
                 number.pos + number.value + 1)
       ELSE Refused
  BY <1>1, <1>7 DEF ReadField, AndThen
<1> HIDE DEF number
<1>9. ReadField(in, pos) = Read(SubSeq(in, at + 1, at + Len(w)), at + Len(w) + 1)
  BY <1>1, <1>6, <1>7, <1>8
<1>10. QED
  BY <1>1, <1>3, <1>5, <1>6, <1>9

-----------------------------------------------------------------------------
(* What a reader returns *)

\* Nothing, or a value of T and a place after pos.
Returns(read, T, in, pos) ==
  \/ read = Refused
  \/ \E v \in T, e \in pos + 1 .. Len(in) + 1 : read = Read(v, e)

LEMMA ReadAndRefused ==
  /\ ~Refused.ok
  /\ \A v, e : Read(v, e).ok /\ Read(v, e).value = v /\ Read(v, e).pos = e
BY DEF Refused, Read

LEMMA NotRefused ==
  ASSUME NEW v, NEW e
  PROVE  Read(v, e) # Refused
<1>1. Read(v, e).ok = TRUE /\ Refused.ok = FALSE
  BY DEF Refused, Read
<1>2. QED
  BY <1>1

LEMMA ReadIs ==
  ASSUME NEW v, NEW e
  PROVE  Read(v, e).value = v /\ Read(v, e).pos = e
BY DEF Read

LEMMA ReturnsRead ==
  ASSUME NEW read, NEW T, NEW in, NEW pos, Returns(read, T, in, pos), read # Refused
  PROVE  \E v \in T, e \in pos + 1 .. Len(in) + 1 : read = Read(v, e)
BY DEF Returns

LEMMA ReturnsIs ==
  ASSUME NEW read, NEW T, NEW in, NEW pos, Returns(read, T, in, pos)
  PROVE  /\ read.ok \in BOOLEAN
         /\ ~read.ok => read = Refused
         /\ read.ok => /\ read.value \in T /\ read.pos \in pos + 1 .. Len(in) + 1
                       /\ read = Read(read.value, read.pos)
<1>1. CASE read = Refused
  BY <1>1 DEF Refused
<1>2. CASE \E v \in T, e \in pos + 1 .. Len(in) + 1 : read = Read(v, e)
  <2>1. PICK v \in T, e \in pos + 1 .. Len(in) + 1 : read = Read(v, e)
    BY <1>2
  <2>2. read.ok = TRUE /\ read.value = v /\ read.pos = e
    BY <2>1 DEF Read
  <2>3. QED
    BY <2>1, <2>2
<1>3. QED
  BY <1>1, <1>2 DEF Returns

LEMMA NumberReturns ==
  ASSUME NEW in \in Text, NEW pos \in 1 .. Len(in) + 1
  PROVE  Returns(ReadNumber(in, pos), Nat, in, pos)
<1> DEFINE start == RunEnd(in, pos, White)
           stop == RunEnd(in, start, Digit)
<1>1. Len(in) \in Nat /\ \A i \in 1 .. Len(in) : in[i] \in Unit
  BY UnitsOf
<1>2. start \in pos .. Len(in) + 1
  BY RunEndType
<1> HIDE DEF start
<1>3. start \in 1 .. Len(in) + 1
  BY <1>1, <1>2
<1>4. stop \in start .. Len(in) + 1 /\ \A i \in start .. stop - 1 : in[i] \in Digit
  BY <1>3, RunEndType
<1> HIDE DEF stop
<1>5. SubSeq(in, start, stop - 1) \in Seq(Digit)
  <2>1. start \in Int /\ stop - 1 \in Int
    BY <1>1, <1>3, <1>4
  <2>2. QED
    BY <1>4, <2>1, SubSeqProperties
<1>6. NumberOf(SubSeq(in, start, stop - 1)) \in Nat
  BY <1>5, NumberOfType
<1>7. ReadNumber(in, pos) = IF start = stop THEN Refused
                            ELSE Read(NumberOf(SubSeq(in, start, stop - 1)), stop)
  BY DEF ReadNumber, start, stop
<1>8. start # stop => stop \in pos + 1 .. Len(in) + 1
  BY <1>1, <1>2, <1>4
<1>9. QED
  BY <1>6, <1>7, <1>8 DEF Returns

LEMMA FieldReads ==
  ASSUME NEW in \in Text, NEW pos \in 1 .. Len(in)
  PROVE  LET number == ReadNumber(in, pos + 1)
         IN  ReadField(in, pos) =
               IF /\ Gets(in, pos, "blank") /\ number.ok /\ Gets(in, number.pos, "blank")
                  /\ number.value <= Len(in) - number.pos
               THEN Read(SubSeq(in, number.pos + 1, number.pos + number.value),
                         number.pos + number.value + 1)
               ELSE Refused
<1> DEFINE number == ReadNumber(in, pos + 1)
<1>1. pos + 1 \in 1 .. Len(in) + 1
  BY UnitsOf
<1>2. number.ok \in BOOLEAN
  BY <1>1, NumberReturns, ReturnsIs
<1>3. CASE ~Gets(in, pos, "blank")
  BY <1>3 DEF ReadField
<1>4. CASE ~number.ok
  BY <1>2, <1>4 DEF ReadField, AndThen
<1>5. CASE number.ok /\ Gets(in, pos, "blank")
  BY <1>5 DEF ReadField, AndThen
<1>6. QED
  BY <1>3, <1>4, <1>5

LEMMA FieldReturns ==
  ASSUME NEW in \in Text, NEW pos \in 1 .. Len(in) + 1
  PROVE  Returns(ReadField(in, pos), Text, in, pos)
<1> DEFINE number == ReadNumber(in, pos + 1)
           from == number.pos + 1
           last == number.pos + number.value
<1>1. Len(in) \in Nat /\ \A i \in 1 .. Len(in) : in[i] \in Unit
  BY UnitsOf
<1>2. CASE ~Gets(in, pos, "blank")
  BY <1>2 DEF ReadField, Returns
<1>3. CASE Gets(in, pos, "blank")
  <2>1. pos \in 1 .. Len(in) /\ pos + 1 \in 1 .. Len(in) + 1
    BY <1>1, <1>3 DEF Gets
  <2>2. /\ number.ok \in BOOLEAN
        /\ number.ok => number.value \in Nat /\ number.pos \in pos + 2 .. Len(in) + 1
    <3>1. Returns(number, Nat, in, pos + 1)
      BY <2>1, NumberReturns
    <3>2. (pos + 1) + 1 = pos + 2
      BY <2>1
    <3> HIDE DEF number
    <3>3. QED
      BY <3>1, <3>2, ReturnsIs
  <2>3. ReadField(in, pos) =
          IF number.ok /\ Gets(in, number.pos, "blank") /\ number.value <= Len(in) - number.pos
          THEN Read(SubSeq(in, from, last), last + 1)
          ELSE Refused
    BY <1>3, <2>1, FieldReads
  <2> HIDE DEF number
  <2>4. ASSUME number.ok, number.value <= Len(in) - number.pos
        PROVE  SubSeq(in, from, last) \in Text /\ last + 1 \in pos + 1 .. Len(in) + 1
    <3>1. from \in Int /\ last \in Int /\ from \in 1 .. Len(in) + 1 /\ last <= Len(in)
          /\ last + 1 \in pos + 1 .. Len(in) + 1
      BY SMTT(30), <1>1, <2>1, <2>2, <2>4
    <3> HIDE DEF from, last
    <3>2. \A i \in from .. last : in[i] \in Unit
      BY <1>1, <3>1
    <3>3. SubSeq(in, from, last) \in Seq(Unit)
      BY <3>1, <3>2, SubSeqProperties
    <3>4. QED
      BY <3>1, <3>3 DEF Text
  <2> HIDE DEF from, last
  <2>5. QED
    BY <2>2, <2>3, <2>4 DEF Returns
<1>4. QED
  BY <1>2, <1>3

-----------------------------------------------------------------------------
(* Several fields *)

NextField(in, read) ==
  AndThen(read, LAMBDA words, at :
    AndThen(ReadField(in, at), LAMBDA word, end : Read(Append(words, word), end)))

\* f follows the recursion of ReadFields up to n.
Follows(f, in, pos, n) == f = [i \in 0 .. n |-> IF i = 0 THEN Read(<< >>, pos)
                                                ELSE NextField(in, f[i - 1])]

LEMMA FollowsAt ==
  ASSUME NEW in, NEW pos, NEW n \in Nat, NEW f, Follows(f, in, pos, n)
  PROVE  f[0] = Read(<< >>, pos) /\ \A i \in 1 .. n : f[i] = NextField(in, f[i - 1])
<1>1. \A i \in 0 .. n : f[i] = IF i = 0 THEN Read(<< >>, pos) ELSE NextField(in, f[i - 1])
  BY DEF Follows
<1>2. QED
  BY <1>1

LEMMA FollowsExists ==
  ASSUME NEW in, NEW pos, NEW n \in Nat
  PROVE  \E f : Follows(f, in, pos, n)
<1> DEFINE S == {m \in Nat : \E f : Follows(f, in, pos, m)}
<1>1. 0 \in S
  <2> DEFINE f == [i \in 0 .. 0 |-> Read(<< >>, pos)]
             h == [i \in 0 .. 0 |-> IF i = 0 THEN Read(<< >>, pos) ELSE NextField(in, f[i - 1])]
  <2>1. \A i \in 0 .. 0 : f[i] = h[i]
    OBVIOUS
  <2>2. f = h
    BY <2>1
  <2>3. QED
    BY <2>2 DEF Follows
<1>2. ASSUME NEW k \in S
      PROVE  k + 1 \in S
  <2>1. k \in Nat
    OBVIOUS
  <2>2. PICK f : Follows(f, in, pos, k)
    OBVIOUS
  <2> DEFINE last == NextField(in, f[k])
             g == [i \in 0 .. k + 1 |-> IF i = k + 1 THEN last ELSE f[i]]
             h == [i \in 0 .. k + 1 |-> IF i = 0 THEN Read(<< >>, pos)
                                        ELSE NextField(in, g[i - 1])]
  <2>3. f[0] = Read(<< >>, pos) /\ \A i \in 1 .. k : f[i] = NextField(in, f[i - 1])
    BY <2>1, <2>2, FollowsAt
  <2> HIDE DEF last
  <2>4. /\ \A i \in 0 .. k + 1 : g[i] = IF i = k + 1 THEN last ELSE f[i]
        /\ \A i \in 0 .. k + 1 : h[i] = IF i = 0 THEN Read(<< >>, pos)
                                        ELSE NextField(in, g[i - 1])
    OBVIOUS
  <2>5. DOMAIN g = 0 .. k + 1 /\ DOMAIN h = 0 .. k + 1 /\ g = [i \in 0 .. k + 1 |-> g[i]]
        /\ h = [i \in 0 .. k + 1 |-> h[i]]
    OBVIOUS
  <2>6. ASSUME NEW i \in 0 .. k + 1
        PROVE  g[i] = h[i]
    <3> HIDE DEF g, h
    <3>1. CASE i = 0
      BY <2>1, <2>3, <2>4, <3>1
    <3>2. CASE i = k + 1
      <4>1. i - 1 = k /\ k \in 0 .. k + 1 /\ k # k + 1 /\ i # 0
        BY <2>1, <3>2
      <4>2. h[i] = NextField(in, g[i - 1])
        BY <2>4, <4>1
      <4>3. g[k] = f[k]
        BY <2>4, <4>1
      <4>4. QED
        BY <2>4, <3>2, <4>1, <4>2, <4>3 DEF last
    <3>3. CASE i \in 1 .. k
      <4>1. i - 1 \in 0 .. k + 1 /\ i - 1 # k + 1 /\ i # 0 /\ i # k + 1
        BY <2>1, <3>3
      <4>2. h[i] = NextField(in, g[i - 1]) /\ g[i] = f[i]
        BY <2>4, <4>1
      <4>3. g[i - 1] = f[i - 1]
        BY <2>4, <4>1
      <4>4. QED
        BY <2>3, <3>3, <4>2, <4>3
    <3>4. QED
      BY <2>1, <3>1, <3>2, <3>3
  <2>7. g = h
    <3> HIDE DEF g, h
    <3>1. QED
      BY <2>5, <2>6
  <2>8. Follows(g, in, pos, k + 1)
    BY <2>7 DEF Follows
  <2>9. QED
    BY <2>1, <2>8
<1>3. S \subseteq Nat
  OBVIOUS
<1> HIDE DEF S
<1>4. S = Nat
  BY <1>1, <1>2, <1>3, InductionOnNat
<1>5. QED
  BY <1>4 DEF S

LEMMA FieldsFollow ==
  ASSUME NEW in, NEW pos, NEW n \in Nat
  PROVE  \E f : Follows(f, in, pos, n) /\ ReadFields(in, pos, n) = f[n]
<1> DEFINE P(f) == f = [i \in 0 .. n |->
                         IF i = 0 THEN Read(<< >>, pos)
                         ELSE AndThen(f[i - 1], LAMBDA words, at :
                                AndThen(ReadField(in, at), LAMBDA word, end :
                                  Read(Append(words, word), end)))]
<1>1. PICK f : f = (CHOOSE h : P(h))
  OBVIOUS
<1>2. P(f)
  <2>1. PICK h : Follows(h, in, pos, n)
    BY FollowsExists
  <2>2. P(h)
    BY <2>1 DEF Follows, NextField
  <2> HIDE DEF P
  <2>3. QED
    BY <1>1, <2>2
<1>3. ReadFields(in, pos, n) = f[n]
  BY <1>1 DEF ReadFields
<1>4. QED
  BY <1>2, <1>3 DEF Follows, NextField

LEMMA FieldsZero ==
  ASSUME NEW in, NEW pos
  PROVE  ReadFields(in, pos, 0) = Read(<< >>, pos)
<1>1. PICK f : Follows(f, in, pos, 0) /\ ReadFields(in, pos, 0) = f[0]
  BY FieldsFollow
<1>2. QED
  BY <1>1, FollowsAt

LEMMA FieldsNext ==
  ASSUME NEW in, NEW pos, NEW n \in Nat
  PROVE  ReadFields(in, pos, n + 1) = NextField(in, ReadFields(in, pos, n))
<1>1. PICK f : Follows(f, in, pos, n) /\ ReadFields(in, pos, n) = f[n]
  BY FieldsFollow
<1>2. PICK g : Follows(g, in, pos, n + 1) /\ ReadFields(in, pos, n + 1) = g[n + 1]
  <2>1. n + 1 \in Nat
    OBVIOUS
  <2>2. QED
    BY <2>1, FieldsFollow
<1>3. f[0] = Read(<< >>, pos) /\ \A i \in 1 .. n : f[i] = NextField(in, f[i - 1])
  BY <1>1, FollowsAt
<1>4. g[0] = Read(<< >>, pos) /\ \A i \in 1 .. n + 1 : g[i] = NextField(in, g[i - 1])
  <2> DEFINE m == n + 1
  <2>1. m \in Nat /\ Follows(g, in, pos, m)
    BY <1>2
  <2> HIDE DEF m
  <2>2. g[0] = Read(<< >>, pos) /\ \A i \in 1 .. m : g[i] = NextField(in, g[i - 1])
    BY <2>1, FollowsAt
  <2>3. QED
    BY <2>2 DEF m
<1> DEFINE S == {i \in Nat : i \in 0 .. n => f[i] = g[i]}
<1>5. 0 \in S
  BY <1>3, <1>4
<1>6. ASSUME NEW i \in S
      PROVE  i + 1 \in S
  <2> SUFFICES ASSUME i + 1 \in 0 .. n
               PROVE  f[i + 1] = g[i + 1]
    OBVIOUS
  <2>1. i \in 0 .. n /\ i + 1 \in 1 .. n /\ i + 1 \in 1 .. n + 1 /\ (i + 1) - 1 = i
    OBVIOUS
  <2>2. f[i] = g[i]
    BY <2>1
  <2>3. f[i + 1] = NextField(in, f[(i + 1) - 1]) /\ g[i + 1] = NextField(in, g[(i + 1) - 1])
    BY <1>3, <1>4, <2>1
  <2>4. QED
    BY <2>1, <2>2, <2>3
<1>7. S \subseteq Nat
  OBVIOUS
<1> HIDE DEF S
<1>8. S = Nat
  BY <1>5, <1>6, <1>7, InductionOnNat
<1>9. f[n] = g[n]
  BY <1>8 DEF S
<1>10. g[n + 1] = NextField(in, g[n])
  <2>1. n + 1 \in 1 .. n + 1 /\ (n + 1) - 1 = n
    OBVIOUS
  <2>2. QED
    BY <1>4, <2>1
<1>11. QED
  BY <1>1, <1>2, <1>9, <1>10

LEMMA NextFieldIs ==
  ASSUME NEW in, NEW words, NEW at
  PROVE  /\ NextField(in, Refused) = Refused
         /\ ReadField(in, at) = Refused => NextField(in, Read(words, at)) = Refused
         /\ \A w, e : ReadField(in, at) = Read(w, e)
                        => NextField(in, Read(words, at)) = Read(Append(words, w), e)
<1>1. NextField(in, Refused) = Refused
  BY ReadAndRefused DEF NextField, AndThen
<1>2. Read(words, at).ok /\ Read(words, at).value = words /\ Read(words, at).pos = at
  BY ReadAndRefused
<1>3. NextField(in, Read(words, at)) =
        IF ReadField(in, at).ok
        THEN Read(Append(words, ReadField(in, at).value), ReadField(in, at).pos)
        ELSE Refused
  BY <1>2 DEF NextField, AndThen
<1>4. ASSUME ReadField(in, at) = Refused
      PROVE  NextField(in, Read(words, at)) = Refused
  BY <1>3, <1>4, ReadAndRefused
<1>5. ASSUME NEW w, NEW e, ReadField(in, at) = Read(w, e)
      PROVE  NextField(in, Read(words, at)) = Read(Append(words, w), e)
  <2>1. Read(w, e).ok /\ Read(w, e).value = w /\ Read(w, e).pos = e
    BY ReadAndRefused
  <2>2. QED
    BY <1>3, <1>5, <2>1
<1>6. QED
  BY <1>1, <1>4, <1>5

LEMMA FieldsReturn ==
  ASSUME NEW in \in Text, NEW pos \in 1 .. Len(in) + 1, NEW n \in Nat, n # 0
  PROVE  Returns(ReadFields(in, pos, n), {ws \in Seq(Text) : Len(ws) = n}, in, pos)
<1> DEFINE T(m) == {ws \in Seq(Text) : Len(ws) = m}
           S == {m \in Nat : Returns(ReadFields(in, pos, m + 1), T(m + 1), in, pos)}
<1>1. Len(in) \in Nat
  BY UnitsOf
<1>2. ASSUME NEW m \in Nat, NEW ws \in T(m), NEW at \in pos .. Len(in) + 1,
             ReadFields(in, pos, m) = Read(ws, at)
      PROVE  Returns(ReadFields(in, pos, m + 1), T(m + 1), in, pos)
  <2>1. at \in 1 .. Len(in) + 1
    BY <1>1
  <2>2. Returns(ReadField(in, at), Text, in, at)
    BY <2>1, FieldReturns
  <2>3. ReadFields(in, pos, m + 1) = NextField(in, Read(ws, at))
    BY <1>2, FieldsNext
  <2>4. CASE ReadField(in, at) = Refused
    <3>1. ReadFields(in, pos, m + 1) = Refused
      BY <2>3, <2>4, NextFieldIs
    <3>2. QED
      BY <3>1 DEF Returns
  <2>5. CASE ReadField(in, at) # Refused
    <3>1. PICK w \in Text, e \in at + 1 .. Len(in) + 1 : ReadField(in, at) = Read(w, e)
      BY <2>2, <2>5 DEF Returns
    <3>2. ReadFields(in, pos, m + 1) = Read(Append(ws, w), e)
      BY <2>3, <3>1, NextFieldIs
    <3>3. Append(ws, w) \in T(m + 1)
      BY AppendProperties
    <3>4. e \in pos + 1 .. Len(in) + 1
      BY <1>1
    <3> HIDE DEF T
    <3>5. QED
      BY <3>2, <3>3, <3>4 DEF Returns
  <2>6. QED
    BY <2>4, <2>5
<1>3. 0 \in S
  <2>1. << >> \in T(0) /\ pos \in pos .. Len(in) + 1
    BY <1>1, EmptySeq
  <2>2. ReadFields(in, pos, 0) = Read(<< >>, pos)
    BY FieldsZero
  <2> HIDE DEF T
  <2>3. Returns(ReadFields(in, pos, 0 + 1), T(0 + 1), in, pos)
    BY <1>2, <2>1, <2>2
  <2>4. QED
    BY <2>3
<1>4. ASSUME NEW m \in S
      PROVE  m + 1 \in S
  <2> DEFINE k == m + 1
  <2>1. k \in Nat /\ Returns(ReadFields(in, pos, k), T(k), in, pos)
    OBVIOUS
  <2> HIDE DEF k, T
  <2>2. Returns(ReadFields(in, pos, k + 1), T(k + 1), in, pos)
    <3>1. CASE ReadFields(in, pos, k) = Refused
      <4>1. ReadFields(in, pos, k + 1) = Refused
        BY <2>1, <3>1, FieldsNext, NextFieldIs
      <4>2. QED
        BY <4>1 DEF Returns
    <3>2. CASE ReadFields(in, pos, k) # Refused
      <4>1. PICK ws \in T(k), e \in pos + 1 .. Len(in) + 1 : ReadFields(in, pos, k) = Read(ws, e)
        BY <2>1, <3>2 DEF Returns
      <4>2. e \in pos .. Len(in) + 1
        BY <1>1
      <4>3. QED
        BY <1>2, <2>1, <4>1, <4>2
    <3>3. QED
      BY <3>1, <3>2
  <2>3. QED
    BY <2>1, <2>2 DEF k
<1>5. S \subseteq Nat
  OBVIOUS
<1> HIDE DEF S
<1>6. S = Nat
  BY <1>3, <1>4, <1>5, InductionOnNat
<1>7. n - 1 \in Nat /\ (n - 1) + 1 = n
  OBVIOUS
<1>8. Returns(ReadFields(in, pos, n), T(n), in, pos)
  BY <1>6, <1>7 DEF S
<1>9. QED
  BY <1>8

\* The words of a record as they are written.
Fields(ws) == FlattenSeq([i \in DOMAIN ws |-> <<"blank">> \o Field(ws[i])])

LEMMA FieldsType ==
  ASSUME NEW ws \in Seq(Text)
  PROVE  /\ [i \in DOMAIN ws |-> <<"blank">> \o Field(ws[i])] \in Seq(Text)
         /\ Fields(ws) \in Text /\ Len(Fields(ws)) \in Nat
<1> DEFINE fs == [i \in DOMAIN ws |-> <<"blank">> \o Field(ws[i])]
<1>1. DOMAIN ws = 1 .. Len(ws) /\ Len(ws) \in Nat /\ \A i \in 1 .. Len(ws) : ws[i] \in Text
  BY LenProperties, ElementOfSeq
<1>2. \A i \in 1 .. Len(ws) : <<"blank">> \o Field(ws[i]) \in Text
  BY <1>1, FieldIs
<1>3. fs \in Seq(Text)
  BY <1>1, <1>2
<1> HIDE DEF fs
<1>4. FlattenSeq(fs) \in Seq(Unit)
  BY <1>3, FlattenType DEF Text
<1>5. Fields(ws) = FlattenSeq(fs)
  BY DEF Fields, fs
<1>6. QED
  BY <1>3, <1>4, <1>5, UnitsOf DEF fs, Text

LEMMA FieldsEmpty == Fields(<< >>) = << >>
<1>1. [i \in DOMAIN << >> |-> <<"blank">> \o Field(<< >>[i])] = << >>
  OBVIOUS
<1>2. QED
  BY <1>1, FlattenEmpty DEF Fields

LEMMA FieldsAppend ==
  ASSUME NEW ws \in Seq(Text), NEW w \in Text
  PROVE  Fields(Append(ws, w)) = Fields(ws) \o (<<"blank">> \o Field(w))
<1> DEFINE fs == [i \in DOMAIN ws |-> <<"blank">> \o Field(ws[i])]
           us == Append(ws, w)
           gs == [i \in DOMAIN us |-> <<"blank">> \o Field(us[i])]
           f == <<"blank">> \o Field(w)
           n == Len(ws)
<1>1. fs \in Seq(Text) /\ f \in Text
  BY FieldsType, FieldIs
<1>2. us \in Seq(Text) /\ Len(us) = n + 1 /\ n \in Nat /\ us[n + 1] = w
      /\ \A i \in 1 .. n : us[i] = ws[i]
  BY AppendProperties, LenProperties
<1>3. DOMAIN us = 1 .. n + 1 /\ DOMAIN ws = 1 .. n
  BY <1>2, LenProperties
<1>4. gs \in Seq(Text)
  BY <1>2, FieldsType
<1>5. Len(gs) = n + 1 /\ Len(fs) = n
  BY <1>2, <1>3
<1>6. /\ \A i \in 1 .. n + 1 : gs[i] = <<"blank">> \o Field(us[i])
      /\ \A i \in 1 .. n : fs[i] = <<"blank">> \o Field(ws[i])
  BY <1>3
<1> HIDE DEF fs, us, gs
<1>7. Append(fs, f) \in Seq(Text) /\ Len(Append(fs, f)) = n + 1 /\ Append(fs, f)[n + 1] = f
      /\ \A i \in 1 .. n : Append(fs, f)[i] = fs[i]
  <2> HIDE DEF f
  <2>1. QED
    BY <1>1, <1>5, AppendProperties
<1>8. gs = Append(fs, f)
  <2>1. ASSUME NEW i \in 1 .. n + 1
        PROVE  gs[i] = Append(fs, f)[i]
    <3>1. CASE i = n + 1
      BY <1>2, <1>6, <1>7, <3>1
    <3>2. CASE i # n + 1
      <4>1. i \in 1 .. n
        BY <1>2, <3>2
      <4>2. QED
        BY <1>2, <1>6, <1>7, <4>1
    <3>3. QED
      BY <3>1, <3>2
  <2> HIDE DEF f
  <2>2. QED
    BY <1>4, <1>5, <1>7, <2>1, SeqEqual
<1> HIDE DEF f
<1>9. FlattenSeq(Append(fs, f)) = FlattenSeq(fs) \o f
  BY <1>1, FlattenAppend DEF Text
<1>10. QED
  BY <1>8, <1>9 DEF Fields, fs, gs, us, f

LEMMA ReadsFields ==
  ASSUME NEW in \in Text, NEW pos \in 1 .. Len(in) + 1, NEW ws \in Seq(Text),
         Holds(in, pos, Fields(ws))
  PROVE  ReadFields(in, pos, Len(ws)) = Read(ws, pos + Len(Fields(ws)))
<1> DEFINE P == {us \in Seq(Text) : Holds(in, pos, Fields(us))
                   => ReadFields(in, pos, Len(us)) = Read(us, pos + Len(Fields(us)))}
<1>1. << >> \in P
  <2>1. Len(<< >>) = 0 /\ pos + 0 = pos /\ << >> \in Seq(Text)
    BY EmptySeq
  <2>2. QED
    BY <2>1, FieldsEmpty, FieldsZero
<1>2. ASSUME NEW us \in P, NEW w \in Text
      PROVE  Append(us, w) \in P
  <2> DEFINE f == <<"blank">> \o Field(w)
             n == Len(us)
             at == pos + Len(Fields(us))
  <2>1. us \in Seq(Text) /\ Append(us, w) \in Seq(Text) /\ Len(Append(us, w)) = n + 1 /\ n \in Nat
        /\ f \in Text /\ Fields(us) \in Text /\ Len(Fields(us)) \in Nat /\ Len(f) \in Nat
        /\ Fields(Append(us, w)) = Fields(us) \o f
    <3>1. us \in Seq(Text)
      OBVIOUS
    <3>2. f \in Text
      BY FieldIs
    <3> HIDE DEF P
    <3>3. QED
      BY <3>1, <3>2, AppendProperties, LenProperties, FieldsType, FieldsAppend, UnitsOf
  <2>2. Holds(in, pos, Fields(us)) => ReadFields(in, pos, n) = Read(us, at)
    OBVIOUS
  <2> SUFFICES ASSUME Holds(in, pos, Fields(Append(us, w)))
               PROVE  ReadFields(in, pos, Len(Append(us, w)))
                        = Read(Append(us, w), pos + Len(Fields(Append(us, w))))
    BY <2>1
  <2> HIDE DEF P, f
  <2>3. pos \in Nat \ {0} /\ at \in Nat \ {0}
    BY <2>1, UnitsOf
  <2>4. Holds(in, pos, Fields(us)) /\ Holds(in, at, f)
    BY <2>1, <2>3, HoldsConcat
  <2>5. ReadField(in, at) = Read(w, at + Len(f))
    BY <2>3, <2>4, ReadsField DEF f
  <2>6. ReadFields(in, pos, n + 1) = NextField(in, Read(us, at))
    BY <2>1, <2>2, <2>4, FieldsNext
  <2>7. ReadFields(in, pos, n + 1) = Read(Append(us, w), at + Len(f))
    BY <2>5, <2>6, NextFieldIs
  <2>8. Len(Fields(us) \o f) = Len(Fields(us)) + Len(f)
    BY <2>1, ConcatProperties DEF Text
  <2>9. at + Len(f) = pos + (Len(Fields(us)) + Len(f))
    BY <2>1, <2>3
  <2>10. QED
    BY <2>1, <2>7, <2>8, <2>9
<1>3. P \subseteq Seq(Text)
  OBVIOUS
<1> HIDE DEF P
<1>4. P = Seq(Text)
  BY <1>1, <1>2, <1>3, InductionOnSeq
<1>5. QED
  BY <1>4 DEF P

LEMMA FieldsConcat ==
  ASSUME NEW us \in Seq(Text), NEW ws \in Seq(Text)
  PROVE  Fields(us \o ws) = Fields(us) \o Fields(ws)
<1> DEFINE P == {vs \in Seq(Text) : Fields(us \o vs) = Fields(us) \o Fields(vs)}
<1>1. << >> \in P
  <2>1. us \o << >> = us /\ << >> \in Seq(Text)
    BY ConcatEmptySeq, EmptySeq
  <2>2. Fields(us) \o << >> = Fields(us)
    BY FieldsType, ConcatEmptySeq DEF Text
  <2>3. QED
    BY <2>1, <2>2, FieldsEmpty
<1>2. ASSUME NEW vs \in P, NEW w \in Text
      PROVE  Append(vs, w) \in P
  <2> DEFINE f == <<"blank">> \o Field(w)
  <2>1. vs \in Seq(Text) /\ Fields(us \o vs) = Fields(us) \o Fields(vs)
    OBVIOUS
  <2>2. f \in Text
    BY FieldIs
  <2>3. us \o vs \in Seq(Text) /\ Append(vs, w) \in Seq(Text)
    BY <2>1, ConcatProperties, AppendProperties
  <2> HIDE DEF P, f
  <2>4. us \o Append(vs, w) = Append(us \o vs, w)
    <3>1. Append(vs, w) = vs \o <<w>> /\ Append(us \o vs, w) = (us \o vs) \o <<w>>
      BY <2>1, <2>3, AppendIsConcat
    <3>2. <<w>> \in Seq(Text)
      OBVIOUS
    <3>3. QED
      BY <2>1, <3>1, <3>2, ConcatAssociative
  <2>5. Fields(Append(us \o vs, w)) = Fields(us \o vs) \o f
        /\ Fields(Append(vs, w)) = Fields(vs) \o f
    BY <2>1, <2>3, FieldsAppend DEF f
  <2>6. (Fields(us) \o Fields(vs)) \o f = Fields(us) \o (Fields(vs) \o f)
    BY SMTT(30), <2>1, <2>2, FieldsType, ConcatAssociative DEF Text
  <2>7. QED
    BY <2>1, <2>3, <2>4, <2>5, <2>6 DEF P
<1>3. P \subseteq Seq(Text)
  OBVIOUS
<1> HIDE DEF P
<1>4. P = Seq(Text)
  BY <1>1, <1>2, <1>3, InductionOnSeq
<1>5. QED
  BY <1>4 DEF P

-----------------------------------------------------------------------------
(* A record *)

Arity(v) == IF v = "EXPIRE" THEN 1 ELSE Shape[v]
DeadlineText(r) == IF r.verb = "EXPIRE" THEN <<"blank">> \o Digits(r.deadline) ELSE << >>

LEMMA ShapeIs == DOMAIN Shape = {"SET", "DEL", "HSET"} /\ \A v \in DOMAIN Shape : Shape[v] \in 1 .. 3
BY DEF Shape

LEMMA RecordIs ==
  ASSUME NEW r \in Record
  PROVE  /\ r.verb \in Verb /\ r.verb \in Unit /\ r.words \in Seq(Text)
         /\ Arity(r.verb) = Len(r.words) /\ Arity(r.verb) \in Nat \ {0}
         /\ r.verb # "EXPIRE" => r = [verb |-> r.verb, words |-> r.words]
         /\ r.verb = "EXPIRE" => /\ r.deadline \in Nat
                                 /\ r = [verb |-> r.verb, words |-> r.words, deadline |-> r.deadline]
<1>1. CASE r.verb \in DOMAIN Shape /\ r.words \in Seq(Text) /\ Len(r.words) = Shape[r.verb]
           /\ r = [verb |-> r.verb, words |-> r.words]
  <2>1. r.verb # "EXPIRE"
    BY <1>1, ShapeIs
  <2>2. QED
    BY <1>1, <2>1, ShapeIs DEF Arity, Verb, Unit
<1>2. CASE r.verb = "EXPIRE" /\ r.words \in Seq(Text) /\ Len(r.words) = 1 /\ r.deadline \in Nat
           /\ r = [verb |-> r.verb, words |-> r.words, deadline |-> r.deadline]
  BY <1>2 DEF Arity, Verb, Unit
<1>3. QED
  BY <1>1, <1>2, LogFileAssumption

LEMMA DeadlineTextType ==
  ASSUME NEW r \in Record
  PROVE  DeadlineText(r) \in Text /\ Len(DeadlineText(r)) \in Nat
<1>1. << >> \in Text
  BY EmptySeq DEF Text
<1>2. CASE r.verb = "EXPIRE"
  <2> DEFINE d == Digits(r.deadline)
  <2>1. d \in Text
    BY <1>2, RecordIs, DigitsAreText
  <2>2. <<"blank">> \in Text
    BY DEF Text, Unit, White
  <2> HIDE DEF d
  <2>3. <<"blank">> \o d \in Text
    BY <2>1, <2>2, ConcatProperties DEF Text
  <2>4. QED
    BY <1>2, <2>3, UnitsOf DEF DeadlineText, d
<1>3. CASE r.verb # "EXPIRE"
  BY <1>1, <1>3, UnitsOf DEF DeadlineText
<1>4. QED
  BY <1>2, <1>3

LEMMA FormatIs ==
  ASSUME NEW r \in Record
  PROVE  /\ Format(r) \in Text
         /\ Len(Format(r)) = 2 + Len(Fields(r.words)) + Len(DeadlineText(r))
         /\ \A in \in Text, pos \in Nat \ {0} :
              Holds(in, pos, Format(r))
                <=> /\ Gets(in, pos, r.verb)
                    /\ Holds(in, pos + 1, Fields(r.words))
                    /\ Holds(in, pos + 1 + Len(Fields(r.words)), DeadlineText(r))
                    /\ Gets(in, pos + 1 + Len(Fields(r.words)) + Len(DeadlineText(r)), "newline")
<1> DEFINE v == <<r.verb>>
           f == Fields(r.words)
           d == DeadlineText(r)
           n == <<"newline">>
           a == v \o f
           b == a \o d
<1>1. Format(r) = b \o n
  BY DEF Format, Fields, DeadlineText
<1>2. v \in Text /\ n \in Text /\ Len(v) = 1 /\ Len(n) = 1
  BY RecordIs DEF Text, Unit, White
<1>3. f \in Text /\ d \in Text /\ Len(f) \in Nat /\ Len(d) \in Nat
  BY RecordIs, FieldsType, DeadlineTextType
<1>4. \A in \in Text, pos \in Nat \ {0} :
        (Holds(in, pos, v) <=> Gets(in, pos, r.verb)) /\ (Holds(in, pos, n) <=> Gets(in, pos, "newline"))
  BY HoldsOne
<1> HIDE DEF v, f, d, n
<1>5. a \in Text /\ Len(a) = 1 + Len(f)
  <2>1. v \o f \in Text /\ Len(v \o f) = Len(v) + Len(f)
    BY <1>2, <1>3, ConcatProperties DEF Text
  <2>2. QED
    BY <1>2, <2>1
<1>6. \A in \in Text, pos \in Nat \ {0} :
        Holds(in, pos, a) <=> Holds(in, pos, v) /\ Holds(in, pos + 1, f)
  BY <1>2, <1>3, HoldsConcat
<1> HIDE DEF a
<1>7. b \in Text /\ Len(b) = 1 + Len(f) + Len(d)
  BY <1>3, <1>5, ConcatProperties DEF Text
<1>8. \A in \in Text, pos \in Nat \ {0} :
        Holds(in, pos, b) <=> Holds(in, pos, a) /\ Holds(in, pos + (1 + Len(f)), d)
  BY <1>3, <1>5, HoldsConcat
<1> HIDE DEF b
<1>9. b \o n \in Text /\ Len(b \o n) = 2 + Len(f) + Len(d)
  <2>1. b \o n \in Text /\ Len(b \o n) = Len(b) + Len(n)
    BY <1>2, <1>7, ConcatProperties DEF Text
  <2>2. QED
    BY <1>2, <1>3, <1>7, <2>1
<1>10. \A in \in Text, pos \in Nat \ {0} :
         Holds(in, pos, b \o n) <=> Holds(in, pos, b) /\ Holds(in, pos + (1 + Len(f) + Len(d)), n)
  BY <1>2, <1>7, HoldsConcat
<1>11. ASSUME NEW in \in Text, NEW pos \in Nat \ {0}
       PROVE  Holds(in, pos, b \o n)
                <=> /\ Gets(in, pos, r.verb)
                    /\ Holds(in, pos + 1, f)
                    /\ Holds(in, pos + 1 + Len(f), d)
                    /\ Gets(in, pos + 1 + Len(f) + Len(d), "newline")
  <2>1. pos + (1 + Len(f) + Len(d)) = pos + 1 + Len(f) + Len(d)
        /\ pos + (1 + Len(f)) = pos + 1 + Len(f) /\ pos + 1 + Len(f) + Len(d) \in Nat \ {0}
    BY <1>3
  <2>2. Holds(in, pos + 1 + Len(f) + Len(d), n) <=> Gets(in, pos + 1 + Len(f) + Len(d), "newline")
    BY <1>4, <2>1
  <2>3. Holds(in, pos, v) <=> Gets(in, pos, r.verb)
    BY <1>4
  <2>4. Holds(in, pos, b \o n) <=> Holds(in, pos, b) /\ Holds(in, pos + 1 + Len(f) + Len(d), n)
    BY <1>10, <2>1
  <2>5. Holds(in, pos, b) <=> Holds(in, pos, a) /\ Holds(in, pos + 1 + Len(f), d)
    BY <1>8, <2>1
  <2>6. Holds(in, pos, a) <=> Holds(in, pos, v) /\ Holds(in, pos + 1, f)
    BY <1>6
  <2>7. QED
    BY ONLY <2>2, <2>3, <2>4, <2>5, <2>6
<1>12. QED
  BY <1>1, <1>9, <1>11 DEF f, d

LEMMA ReadRecordIs ==
  ASSUME NEW in, NEW pos, NEW v \in Verb
  PROVE  LET fields == ReadFields(in, pos, Arity(v))
             deadline == ReadDeadline(in, fields.pos)
         IN  ReadRecord(in, <<v>>, pos) =
               IF v = "EXPIRE"
               THEN IF fields.ok
                    THEN IF deadline.ok
                         THEN IF Gets(in, deadline.pos, "newline")
                              THEN Read([verb |-> "EXPIRE", words |-> fields.value,
                                         deadline |-> deadline.value], deadline.pos + 1)
                              ELSE Refused
                         ELSE Refused
                    ELSE Refused
               ELSE IF fields.ok
                    THEN IF Gets(in, fields.pos, "newline")
                         THEN Read([verb |-> v, words |-> fields.value], fields.pos + 1)
                         ELSE Refused
                    ELSE Refused
<1>1. <<v>> \in {<<u>> : u \in Verb} /\ <<v>>[1] = v /\ (<<v>> = <<"EXPIRE">> <=> v = "EXPIRE")
  OBVIOUS
<1>2. CASE v = "EXPIRE"
  <2>1. <<v>> \notin {<<u>> : u \in DOMAIN Shape}
    BY <1>2, ShapeIs
  <2>2. ReadRecord(in, <<v>>, pos) =
          AndThen(ReadFields(in, pos, 1), LAMBDA key, at :
            AndThen(ReadDeadline(in, at), LAMBDA deadline, end :
              IF ~EndsRecord(in, end) THEN Refused
              ELSE Read([verb |-> "EXPIRE", words |-> key, deadline |-> deadline], end + 1)))
    BY <1>1, <1>2, <2>1 DEF ReadRecord
  <2>3. QED
    BY <1>2, <2>2 DEF AndThen, EndsRecord, Arity
<1>3. CASE v # "EXPIRE"
  <2>1. <<v>> \in {<<u>> : u \in DOMAIN Shape} /\ v \in DOMAIN Shape
    BY <1>3 DEF Verb
  <2>2. ReadRecord(in, <<v>>, pos) =
          AndThen(ReadFields(in, pos, Shape[<<v>>[1]]), LAMBDA words, end :
            IF ~EndsRecord(in, end) THEN Refused
            ELSE Read([verb |-> <<v>>[1], words |-> words], end + 1))
    BY <1>1, <1>3, <2>1 DEF ReadRecord
  <2>3. QED
    BY <1>1, <1>3, <2>2 DEF AndThen, EndsRecord, Arity
<1>4. QED
  BY <1>2, <1>3

LEMMA NoSuchVerb ==
  ASSUME NEW in, NEW pos, NEW verb, verb \notin {<<v>> : v \in Verb}
  PROVE  ReadRecord(in, verb, pos) = Refused
<1>1. verb # <<"EXPIRE">> /\ verb \notin {<<v>> : v \in DOMAIN Shape}
  BY DEF Verb
<1>2. QED
  BY <1>1 DEF ReadRecord

\* What replay finds at pos, if a verb is due there.
RecordAt(in, pos) ==
  LET start == RunEnd(in, pos, White)
      stop == RunEnd(in, start, Unit \ White)
  IN  ReadRecord(in, SubSeq(in, start, stop - 1), stop)

LEMMA FieldsSplit ==
  ASSUME NEW ws \in Seq(Text), NEW i \in 1 .. Len(ws)
  PROVE  LET us == SubSeq(ws, 1, i - 1)
             f == <<"blank">> \o Field(ws[i])
             vs == SubSeq(ws, i + 1, Len(ws))
         IN  /\ us \in Seq(Text) /\ Len(us) = i - 1 /\ ws[i] \in Text
             /\ vs \in Seq(Text) /\ Len(vs) = Len(ws) - i
             /\ Fields(ws) = (Fields(us) \o f) \o Fields(vs)
             /\ Len(Fields(ws)) = Len(Fields(us)) + Len(f) + Len(Fields(vs))
             /\ \A in \in Text, pos \in Nat \ {0} :
                  Holds(in, pos, Fields(ws))
                    <=> /\ Holds(in, pos, Fields(us))
                        /\ Holds(in, pos + Len(Fields(us)), f)
                        /\ Holds(in, pos + Len(Fields(us)) + Len(f), Fields(vs))
<1> DEFINE us == SubSeq(ws, 1, i - 1)
           w == ws[i]
           f == <<"blank">> \o Field(w)
           vs == SubSeq(ws, i + 1, Len(ws))
           n == Len(ws)
<1>1. n \in Nat /\ \A j \in 1 .. n : ws[j] \in Text
  BY LenProperties, ElementOfSeq
<1>2. w \in Text /\ f \in Text
  BY <1>1, FieldIs
<1>3. /\ us \in Seq(Text) /\ Len(us) = i - 1
      /\ vs \in Seq(Text) /\ Len(vs) = n - i
  <2>1. \A j \in 1 .. i - 1 : ws[j] \in Text
    BY <1>1
  <2>2. \A j \in i + 1 .. n : ws[j] \in Text
    BY SMTT(30), <1>1
  <2>3. us \in Seq(Text) /\ Len(us) = IF 1 <= i - 1 THEN i - 1 - 1 + 1 ELSE 0
    BY SMTT(30), <1>1, <2>1, SubSeqProperties
  <2>4. vs \in Seq(Text) /\ Len(vs) = IF i + 1 <= n THEN n - (i + 1) + 1 ELSE 0
    BY SMTT(30), <1>1, <2>2, SubSeqProperties
  <2>5. QED
    BY <1>1, <2>3, <2>4
<1>4. ws = Append(us, w) \o vs
  <2>1. SubSeq(ws, 1, i) = SubSeq(ws, 1, i - 1) \o <<w>>
    <3>1. 1 \in 1 .. Len(ws) /\ i \in 1 .. Len(ws)
      BY <1>1
    <3>2. QED
      BY <3>1, SubSeqRecursiveSecond
  <2>2. SubSeq(ws, 1, i) \o SubSeq(ws, i + 1, n) = SubSeq(ws, 1, n)
    BY <1>1, ConcatAdjacentSubSeq
  <2>3. SubSeq(ws, 1, n) = ws
    BY SubSeqFull
  <2> HIDE DEF us, vs, w, n
  <2>4. Append(us, w) = us \o <<w>>
    BY <1>2, <1>3, AppendIsConcat
  <2>5. QED
    BY <2>1, <2>2, <2>3, <2>4 DEF us, vs, n
<1> HIDE DEF us, vs, w
<1>5. Fields(us) \in Text /\ Fields(vs) \in Text
  BY <1>3, FieldsType
<1>6. Append(us, w) \in Seq(Text)
  BY <1>2, <1>3, AppendProperties
<1>7. Fields(ws) = (Fields(us) \o f) \o Fields(vs)
  BY <1>2, <1>3, <1>4, <1>6, FieldsAppend, FieldsConcat
<1> HIDE DEF f
<1> DEFINE a == Fields(us) \o f
<1>8. a \in Text /\ Len(a) = Len(Fields(us)) + Len(f)
  BY <1>2, <1>5, ConcatProperties DEF Text
<1>9. \A in \in Text, pos \in Nat \ {0} :
        Holds(in, pos, a) <=> Holds(in, pos, Fields(us)) /\ Holds(in, pos + Len(Fields(us)), f)
  BY <1>2, <1>5, HoldsConcat
<1> HIDE DEF a
<1>10. \A in \in Text, pos \in Nat \ {0} :
         Holds(in, pos, a \o Fields(vs))
           <=> Holds(in, pos, a) /\ Holds(in, pos + (Len(Fields(us)) + Len(f)), Fields(vs))
  BY <1>5, <1>8, HoldsConcat
<1>11. Len(a \o Fields(vs)) = Len(Fields(us)) + Len(f) + Len(Fields(vs))
  <2>1. Len(a \o Fields(vs)) = Len(a) + Len(Fields(vs))
    BY SMTT(30), <1>5, <1>8, ConcatProperties DEF Text
  <2>2. QED
    BY <1>8, <2>1
<1>12. Fields(ws) = a \o Fields(vs)
  BY <1>7 DEF a
<1>13. \A in \in Text, pos \in Nat \ {0} :
         Holds(in, pos, Fields(ws))
           <=> /\ Holds(in, pos, Fields(us))
               /\ Holds(in, pos + Len(Fields(us)), f)
               /\ Holds(in, pos + Len(Fields(us)) + Len(f), Fields(vs))
  <2> SUFFICES ASSUME NEW in \in Text, NEW pos \in Nat \ {0}
               PROVE  Holds(in, pos, Fields(ws))
                        <=> /\ Holds(in, pos, Fields(us))
                            /\ Holds(in, pos + Len(Fields(us)), f)
                            /\ Holds(in, pos + Len(Fields(us)) + Len(f), Fields(vs))
    OBVIOUS
  <2>1. pos + (Len(Fields(us)) + Len(f)) = pos + Len(Fields(us)) + Len(f)
    BY <1>2, <1>5, UnitsOf
  <2>2. Holds(in, pos, Fields(ws))
          <=> Holds(in, pos, a) /\ Holds(in, pos + Len(Fields(us)) + Len(f), Fields(vs))
    BY <1>10, <1>12, <2>1
  <2>3. Holds(in, pos, a) <=> Holds(in, pos, Fields(us)) /\ Holds(in, pos + Len(Fields(us)), f)
    BY <1>9
  <2>4. QED
    BY ONLY <2>2, <2>3
<1>14. QED
  BY <1>2, <1>3, <1>7, <1>11, <1>12, <1>13 DEF us, vs, w, f

\* Words begin with a blank.
LEMMA FieldsBegin ==
  ASSUME NEW in \in Text, NEW pos \in Nat \ {0}, NEW ws \in Seq(Text), Len(ws) # 0,
         Holds(in, pos, Fields(ws))
  PROVE  Gets(in, pos, "blank")
<1> DEFINE us == SubSeq(ws, 1, 1 - 1)
<1>1. 1 \in 1 .. Len(ws)
  BY LenProperties
<1>2. us \in Seq(Text) /\ Len(us) = 1 - 1 /\ ws[1] \in Text
      /\ Holds(in, pos + Len(Fields(us)), <<"blank">> \o Field(ws[1]))
  BY <1>1, FieldsSplit
<1>3. us = << >>
  BY <1>2, EmptySeq
<1>4. Len(Fields(us)) = 0
  BY <1>3, FieldsEmpty, EmptySeq
<1> HIDE DEF us
<1>5. Holds(in, pos, <<"blank">> \o Field(ws[1]))
  BY <1>2, <1>4
<1>6. QED
  BY <1>2, <1>5, FieldIs

LEMMA VerbReads ==
  ASSUME NEW in \in Text, NEW pos \in 1 .. Len(in), in[pos] \in Verb, Gets(in, pos + 1, "blank")
  PROVE  RecordAt(in, pos) = ReadRecord(in, <<in[pos]>>, pos + 1)
<1>1. Len(in) \in Nat /\ in[pos] \in Unit \ White /\ pos + 1 \in 1 .. Len(in)
      /\ in[pos + 1] \notin Unit \ White
  BY UnitsOf, ShapeIs DEF Gets, Verb, Unit, White
<1>2. RunEnd(in, pos, White) = pos
  <2>1. pos \in 1 .. Len(in) + 1 /\ pos \in pos .. Len(in) + 1 /\ \A i \in pos .. pos - 1 : in[i] \in White
    BY <1>1
  <2>2. QED
    BY <1>1, <2>1, RunEndIs
<1>3. RunEnd(in, pos, Unit \ White) = pos + 1
  <2>1. pos \in 1 .. Len(in) + 1 /\ pos + 1 \in pos .. Len(in) + 1
        /\ \A i \in pos .. (pos + 1) - 1 : in[i] \in Unit \ White
    BY <1>1
  <2>2. QED
    BY <1>1, <2>1, RunEndIs
<1>4. SubSeq(in, pos, (pos + 1) - 1) = <<in[pos]>>
  <2>1. Gets(in, pos, in[pos]) /\ pos \in Nat \ {0}
    BY <1>1 DEF Gets
  <2>2. Holds(in, pos, <<in[pos]>>)
    BY <2>1, HoldsOne
  <2> DEFINE s == <<in[pos]>>
  <2>3. s \in Text /\ Len(s) = 1 /\ pos + 1 - 1 = (pos + 1) - 1
    BY <1>1 DEF Text
  <2> HIDE DEF s
  <2>4. SubSeq(in, pos, pos + Len(s) - 1) = s
    BY <2>1, <2>2, <2>3, HoldsSubSeq DEF s
  <2>5. QED
    BY <2>3, <2>4 DEF s
<1>5. QED
  BY <1>2, <1>3, <1>4 DEF RecordAt

LEMMA ReadsDeadline ==
  ASSUME NEW in \in Text, NEW pos \in Nat \ {0}, NEW n \in Nat,
         Gets(in, pos, "blank"), Holds(in, pos + 1, Digits(n)),
         pos + 1 + Len(Digits(n)) <= Len(in) => in[pos + 1 + Len(Digits(n))] \notin Digit
  PROVE  ReadDeadline(in, pos) = Read(n, pos + 1 + Len(Digits(n)))
<1>1. pos + 1 \in Nat \ {0}
  OBVIOUS
<1>2. ReadNumber(in, pos + 1) = Read(n, pos + 1 + Len(Digits(n)))
  BY <1>1, ReadsNumber
<1>3. QED
  BY <1>2 DEF ReadDeadline

LEMMA ReadsRecord ==
  ASSUME NEW in \in Text, NEW pos \in Nat \ {0}, NEW r \in Record, Holds(in, pos, Format(r))
  PROVE  RecordAt(in, pos) = Read(r, pos + Len(Format(r)))
<1> DEFINE f == Len(Fields(r.words))
           d == Len(DeadlineText(r))
           at == pos + 1 + f
           fields == ReadFields(in, pos + 1, Arity(r.verb))
<1>1. f \in Nat /\ d \in Nat /\ Len(in) \in Nat
  BY RecordIs, FieldsType, DeadlineTextType, UnitsOf
<1>2. /\ Gets(in, pos, r.verb) /\ Holds(in, pos + 1, Fields(r.words))
      /\ Holds(in, at, DeadlineText(r)) /\ Gets(in, at + d, "newline")
      /\ Len(Format(r)) = 2 + f + d
  BY FormatIs
<1>3. pos \in 1 .. Len(in) /\ in[pos] = r.verb /\ at \in Nat \ {0} /\ at + d <= Len(in)
      /\ pos + 1 \in 1 .. Len(in) + 1 /\ pos + 1 \in Nat \ {0}
  BY <1>1, <1>2 DEF Gets
<1>4. Gets(in, pos + 1, "blank")
  BY <1>2, <1>3, RecordIs, FieldsBegin
<1>5. RecordAt(in, pos) = ReadRecord(in, <<r.verb>>, pos + 1)
  BY <1>3, <1>4, RecordIs, VerbReads
<1>6. fields = Read(r.words, at)
  BY SMTT(30), <1>2, <1>3, RecordIs, ReadsFields
<1>7. fields.ok /\ fields.value = r.words /\ fields.pos = at
  BY <1>6, ReadAndRefused
<1>8. at + d + 1 = pos + Len(Format(r))
  BY <1>1, <1>2
<1> HIDE DEF fields, f
<1>9. CASE r.verb # "EXPIRE"
  <2>1. d = 0
    BY <1>9, EmptySeq DEF DeadlineText
  <2>2. Gets(in, at, "newline") /\ at + 1 = pos + Len(Format(r))
    BY <1>1, <1>2, <1>3, <1>8, <2>1
  <2>3. ReadRecord(in, <<r.verb>>, pos + 1) = Read([verb |-> r.verb, words |-> r.words], at + 1)
    BY <1>7, <1>9, <2>2, RecordIs, ReadRecordIs DEF fields
  <2>4. QED
    BY <1>5, <1>9, <2>2, <2>3, RecordIs
<1>10. CASE r.verb = "EXPIRE"
  <2> DEFINE ds == Digits(r.deadline)
             deadline == ReadDeadline(in, fields.pos)
  <2>1. r.deadline \in Nat /\ ds \in Text /\ Len(ds) \in Nat
    BY <1>10, RecordIs, DigitsAreText, UnitsOf
  <2>2. <<"blank">> \in Text /\ Len(<<"blank">>) = 1
    BY DEF Text, Unit, White
  <2>3. DeadlineText(r) = <<"blank">> \o ds
    BY <1>10 DEF DeadlineText
  <2> HIDE DEF ds
  <2>4. d = 1 + Len(ds)
    BY <2>1, <2>2, <2>3, ConcatProperties DEF Text
  <2>5. Gets(in, at, "blank") /\ Holds(in, at + 1, ds)
    <3> DEFINE b == <<"blank">>
    <3> HIDE DEF b
    <3>1. Holds(in, at, b \o ds) /\ b \in Text /\ Len(b) = 1
      BY <1>2, <2>2, <2>3 DEF b
    <3>2. Holds(in, at, b) /\ Holds(in, at + 1, ds)
      BY <1>3, <2>1, <3>1, HoldsConcat
    <3>3. QED
      BY <1>3, <3>2, HoldsOne DEF b
  <2>6. Gets(in, at + 1 + Len(ds), "newline")
    BY <1>2, <1>3, <2>1, <2>4
  <2>7. ReadDeadline(in, at) = Read(r.deadline, at + 1 + Len(ds))
    <3>1. at + 1 + Len(ds) <= Len(in) => in[at + 1 + Len(ds)] \notin Digit
      BY <2>6 DEF Gets, Digit
    <3>2. QED
      BY <1>3, <2>1, <2>5, <3>1, ReadsDeadline DEF ds
  <2>8. deadline.ok /\ deadline.value = r.deadline /\ deadline.pos = at + 1 + Len(ds)
    BY <1>7, <2>7, ReadAndRefused
  <2>9. at + 1 + Len(ds) + 1 = pos + Len(Format(r))
    BY <1>1, <1>3, <1>8, <2>1, <2>4
  <2> HIDE DEF deadline, at
  <2>10. ReadRecord(in, <<r.verb>>, pos + 1)
           = Read([verb |-> "EXPIRE", words |-> fields.value, deadline |-> deadline.value],
                  deadline.pos + 1)
    <3>1. Gets(in, deadline.pos, "newline")
      BY <2>6, <2>8
    <3>2. QED
      BY <1>7, <1>10, <2>8, <3>1, RecordIs, ReadRecordIs DEF fields, deadline
  <2>11. QED
    BY <1>5, <1>7, <1>10, <2>8, <2>9, <2>10, RecordIs
<1>11. QED
  BY <1>9, <1>10

-----------------------------------------------------------------------------
(* Reading looks no further than where it stops *)

Agree(in, to, e) == e <= Len(in) /\ e <= Len(to) /\ \A i \in 1 .. e : in[i] = to[i]

LEMMA AgreeLess ==
  ASSUME NEW in \in Text, NEW to \in Text, NEW e \in Nat, Agree(in, to, e), NEW d \in 0 .. e
  PROVE  Agree(in, to, d)
BY UnitsOf DEF Agree

\* A name for SubSeq, to say that two are equal without taking them apart.
Between(in, i, j) == SubSeq(in, i, j)

LEMMA AgreeSubSeq ==
  ASSUME NEW in \in Text, NEW to \in Text, NEW e \in Nat, Agree(in, to, e),
         NEW i \in Nat \ {0}, NEW j \in Int, j <= e
  PROVE  Between(in, i, j) = Between(to, i, j)
<1>1. \A k \in i .. j : in[k] \in Unit /\ to[k] = in[k]
  BY UnitsOf DEF Agree
<1>2. /\ SubSeq(in, i, j) \in Seq(Unit)
      /\ Len(SubSeq(in, i, j)) = IF i <= j THEN j - i + 1 ELSE 0
      /\ \A k \in 1 .. j - i + 1 : SubSeq(in, i, j)[k] = in[i + k - 1]
  BY <1>1, SubSeqProperties
<1>3. /\ SubSeq(to, i, j) \in Seq(Unit)
      /\ Len(SubSeq(to, i, j)) = IF i <= j THEN j - i + 1 ELSE 0
      /\ \A k \in 1 .. j - i + 1 : SubSeq(to, i, j)[k] = to[i + k - 1]
  BY <1>1, SubSeqProperties
<1> DEFINE s == SubSeq(in, i, j)
           t == SubSeq(to, i, j)
<1>4. Len(s) = Len(t)
  BY <1>2, <1>3
<1>5. ASSUME NEW k \in 1 .. Len(s)
      PROVE  s[k] = t[k]
  <2>1. k \in 1 .. j - i + 1 /\ i + k - 1 \in i .. j
    BY <1>2
  <2>2. QED
    BY <1>1, <1>2, <1>3, <2>1
<1>6. s \in Seq(Unit) /\ t \in Seq(Unit)
  BY <1>2, <1>3
<1> HIDE DEF s, t
<1>7. s = t
  BY <1>4, <1>5, <1>6, SeqEqual
<1>8. QED
  BY <1>7 DEF s, t, Between

LEMMA RunEndLocal ==
  ASSUME NEW in \in Text, NEW to \in Text, NEW pos \in 1 .. Len(in) + 1, NEW S,
         Agree(in, to, RunEnd(in, pos, S))
  PROVE  RunEnd(to, pos, S) = RunEnd(in, pos, S)
<1> DEFINE e == RunEnd(in, pos, S)
<1>1. /\ e \in pos .. Len(in) + 1 /\ \A i \in pos .. e - 1 : in[i] \in S
      /\ e <= Len(in) => in[e] \notin S
  BY RunEndType
<1>2. e <= Len(in) /\ e <= Len(to) /\ \A i \in 1 .. e : in[i] = to[i]
  BY DEF Agree
<1>3. Len(in) \in Nat /\ Len(to) \in Nat
  BY UnitsOf
<1> HIDE DEF e
<1>4. pos \in 1 .. Len(to) + 1 /\ e \in pos .. Len(to) + 1
  BY <1>1, <1>2, <1>3
<1>5. \A i \in pos .. e - 1 : to[i] \in S
  BY <1>1, <1>2, <1>3
<1>6. e <= Len(to) => to[e] \notin S
  <2>1. e \in 1 .. e /\ e <= Len(in)
    BY <1>1, <1>2, <1>3
  <2>2. in[e] = to[e]
    BY <1>2, <2>1
  <2>3. in[e] \notin S
    BY ONLY <1>1, <2>1
  <2>4. QED
    BY ONLY <2>2, <2>3
<1>7. RunEnd(to, pos, S) = e
  BY <1>4, <1>5, <1>6, RunEndIs
<1>8. QED
  BY <1>7 DEF e

LEMMA NumberLocal ==
  ASSUME NEW in \in Text, NEW to \in Text, NEW pos \in 1 .. Len(in) + 1, NEW n, NEW e,
         ReadNumber(in, pos) = Read(n, e), Agree(in, to, e)
  PROVE  ReadNumber(to, pos) = Read(n, e)
<1> DEFINE start == RunEnd(in, pos, White)
           stop == RunEnd(in, start, Digit)
<1>1. Len(in) \in Nat
  BY UnitsOf
<1>2. start \in pos .. Len(in) + 1
  BY RunEndType
<1>3. start \in 1 .. Len(in) + 1
  BY <1>1, <1>2
<1>4. stop \in start .. Len(in) + 1
  <2> HIDE DEF start
  <2>1. QED
    BY <1>3, RunEndType
<1>5. ReadNumber(in, pos) = IF start = stop THEN Refused
                            ELSE Read(NumberOf(SubSeq(in, start, stop - 1)), stop)
  BY DEF ReadNumber
<1> HIDE DEF start, stop
<1>6. start # stop /\ e = stop
  <2>1. start # stop
    BY <1>5, NotRefused
  <2>2. Read(n, e) = Read(NumberOf(SubSeq(in, start, stop - 1)), stop)
    BY <1>5, <2>1
  <2>3. Read(n, e).pos = e /\ Read(NumberOf(SubSeq(in, start, stop - 1)), stop).pos = stop
    BY ReadIs
  <2>4. QED
    BY <2>1, <2>2, <2>3
<1>7. e \in Nat /\ start \in 0 .. e /\ start \in Nat \ {0} /\ stop - 1 \in Int /\ stop - 1 <= e
  BY <1>1, <1>2, <1>3, <1>4, <1>6
<1>8. Agree(in, to, start) /\ Agree(in, to, stop)
  BY <1>6, <1>7, AgreeLess
<1>9. RunEnd(to, pos, White) = start
  BY <1>8, RunEndLocal DEF start
<1>10. RunEnd(to, start, Digit) = stop
  BY <1>3, <1>8, RunEndLocal DEF stop
<1>11. SubSeq(to, start, stop - 1) = SubSeq(in, start, stop - 1)
  <2>1. Between(in, start, stop - 1) = Between(to, start, stop - 1)
    BY <1>7, AgreeSubSeq
  <2>2. QED
    BY <2>1 DEF Between
<1>12. ReadNumber(to, pos) = IF start = stop THEN Refused
                             ELSE Read(NumberOf(SubSeq(to, start, stop - 1)), stop)
  BY <1>9, <1>10 DEF ReadNumber
<1>13. QED
  BY <1>5, <1>6, <1>11, <1>12

\* A number, a blank, and as many units.
LEMMA FieldParts ==
  ASSUME NEW in \in Text, NEW pos \in 1 .. Len(in) + 1, NEW w, NEW e,
         ReadField(in, pos) = Read(w, e)
  PROVE  /\ pos <= Len(in) /\ Gets(in, pos, "blank")
         /\ \E n \in Nat, at \in pos + 2 .. Len(in) :
              /\ ReadNumber(in, pos + 1) = Read(n, at)
              /\ Gets(in, at, "blank") /\ n <= Len(in) - at
              /\ w = SubSeq(in, at + 1, at + n) /\ e = at + n + 1
<1> DEFINE number == ReadNumber(in, pos + 1)
           n == number.value
           at == number.pos
<1>1. Len(in) \in Nat
  BY UnitsOf
<1>2. Gets(in, pos, "blank")
  <2>1. ~Gets(in, pos, "blank") => ReadField(in, pos) = Refused
    BY DEF ReadField
  <2>2. QED
    BY <2>1, ReadAndRefused
<1>3. pos \in 1 .. Len(in) /\ pos + 1 \in 1 .. Len(in) + 1
  BY <1>1, <1>2 DEF Gets
<1>4. ReadField(in, pos) =
        IF number.ok /\ Gets(in, at, "blank") /\ n <= Len(in) - at
        THEN Read(SubSeq(in, at + 1, at + n), at + n + 1) ELSE Refused
  BY <1>2, <1>3, FieldReads
<1>5. Returns(number, Nat, in, pos + 1)
  BY <1>3, NumberReturns
<1> HIDE DEF number
<1>6. number.ok /\ Gets(in, at, "blank") /\ n <= Len(in) - at
  BY <1>4, NotRefused
<1>7. w = SubSeq(in, at + 1, at + n) /\ e = at + n + 1
  <2>1. Read(w, e) = Read(SubSeq(in, at + 1, at + n), at + n + 1)
    BY <1>4, <1>6
  <2>2. Read(w, e).value = w /\ Read(w, e).pos = e
    BY ReadIs
  <2>3. /\ Read(SubSeq(in, at + 1, at + n), at + n + 1).value = SubSeq(in, at + 1, at + n)
        /\ Read(SubSeq(in, at + 1, at + n), at + n + 1).pos = at + n + 1
    BY ReadIs
  <2>4. QED
    BY <2>1, <2>2, <2>3
<1>8. n \in Nat /\ at \in pos + 1 + 1 .. Len(in) + 1 /\ number = Read(n, at)
  BY <1>5, <1>6, ReturnsIs
<1>9. at \in pos + 2 .. Len(in)
  BY <1>1, <1>3, <1>6, <1>8 DEF Gets
<1>10. ReadNumber(in, pos + 1) = Read(n, at)
  BY <1>8 DEF number
<1> HIDE DEF n, at
<1>11. QED
  BY ONLY <1>2, <1>3, <1>6, <1>7, <1>8, <1>9, <1>10

LEMMA FieldMade ==
  ASSUME NEW in \in Text, NEW pos \in 1 .. Len(in), NEW n, NEW at,
         Gets(in, pos, "blank"), ReadNumber(in, pos + 1) = Read(n, at)
  PROVE  ReadField(in, pos) = IF Gets(in, at, "blank") /\ n <= Len(in) - at
                              THEN Read(SubSeq(in, at + 1, at + n), at + n + 1)
                              ELSE Refused
<1> DEFINE number == ReadNumber(in, pos + 1)
<1>1. number.ok /\ number.value = n /\ number.pos = at
  BY ReadAndRefused
<1> HIDE DEF number
<1>2. QED
  BY <1>1, FieldReads DEF number

LEMMA FieldLocal ==
  ASSUME NEW in \in Text, NEW to \in Text, NEW pos \in 1 .. Len(in) + 1, NEW w, NEW e,
         ReadField(in, pos) = Read(w, e), Agree(in, to, e - 1)
  PROVE  ReadField(to, pos) = Read(w, e)
<1>1. /\ pos <= Len(in) /\ Gets(in, pos, "blank")
      /\ \E n \in Nat, at \in pos + 2 .. Len(in) :
           /\ ReadNumber(in, pos + 1) = Read(n, at)
           /\ Gets(in, at, "blank") /\ n <= Len(in) - at
           /\ w = SubSeq(in, at + 1, at + n) /\ e = at + n + 1
  BY FieldParts
<1>2. PICK n \in Nat, at \in pos + 2 .. Len(in) :
           /\ ReadNumber(in, pos + 1) = Read(n, at)
           /\ Gets(in, at, "blank") /\ n <= Len(in) - at
           /\ w = SubSeq(in, at + 1, at + n) /\ e = at + n + 1
  BY <1>1
<1>3. Len(in) \in Nat /\ Len(to) \in Nat
  BY UnitsOf
<1>4. e - 1 \in Nat /\ e - 1 = at + n /\ at \in 0 .. e - 1 /\ at + 1 \in Nat \ {0} /\ at + n \in Int
      /\ pos + 1 \in 1 .. Len(in) + 1
  BY <1>1, <1>2, <1>3
<1>5. Agree(in, to, at)
  BY <1>4, AgreeLess
<1>6. ReadNumber(to, pos + 1) = Read(n, at)
  BY <1>2, <1>4, <1>5, NumberLocal
<1>7. Gets(to, pos, "blank") /\ Gets(to, at, "blank") /\ n <= Len(to) - at /\ pos \in 1 .. Len(to)
  BY SMTT(30), <1>1, <1>2, <1>3, <1>4 DEF Agree, Gets
<1>8. SubSeq(to, at + 1, at + n) = SubSeq(in, at + 1, at + n)
  <2>1. at + n <= e - 1 /\ Agree(in, to, e - 1)
    BY <1>4
  <2>2. Between(in, at + 1, at + n) = Between(to, at + 1, at + n)
    BY <1>4, <2>1, AgreeSubSeq
  <2>3. QED
    BY <2>2 DEF Between
<1>9. ReadField(to, pos) = Read(SubSeq(to, at + 1, at + n), at + n + 1)
  BY <1>6, <1>7, FieldMade
<1>10. QED
  BY <1>2, <1>8, <1>9

LEMMA FieldsLocal ==
  ASSUME NEW in \in Text, NEW to \in Text, NEW pos \in 1 .. Len(in) + 1, NEW n \in Nat
  PROVE  \A ws, e : ReadFields(in, pos, n) = Read(ws, e) /\ Agree(in, to, e - 1)
                      => ReadFields(to, pos, n) = Read(ws, e)
<1> DEFINE Q(m) == \A ws, e : ReadFields(in, pos, m) = Read(ws, e) /\ Agree(in, to, e - 1)
                                => ReadFields(to, pos, m) = Read(ws, e)
           S == {m \in Nat : Q(m)}
<1>1. 0 \in S
  BY FieldsZero
<1>2. ASSUME NEW m \in S
      PROVE  m + 1 \in S
  <2>1. m \in Nat /\ Q(m)
    OBVIOUS
  <2>2. ASSUME NEW ws, NEW e, ReadFields(in, pos, m + 1) = Read(ws, e), Agree(in, to, e - 1)
        PROVE  ReadFields(to, pos, m + 1) = Read(ws, e)
    <3>1. ReadFields(in, pos, m + 1) = NextField(in, ReadFields(in, pos, m))
      BY <2>1, FieldsNext
    <3>2. ReadFields(in, pos, m) # Refused
      <4>1. NextField(in, ReadFields(in, pos, m)) # Refused
        BY <2>2, <3>1, NotRefused
      <4>2. QED
        BY <4>1, NextFieldIs
    <3>3. PICK us \in Seq(Text), at \in pos .. Len(in) + 1 : ReadFields(in, pos, m) = Read(us, at)
      <4>1. CASE m = 0
        <5>1. pos \in pos .. Len(in) + 1
          BY UnitsOf
        <5>2. ReadFields(in, pos, m) = Read(<< >>, pos) /\ << >> \in Seq(Text)
          BY <4>1, FieldsZero, EmptySeq
        <5> HIDE DEF S, Q
        <5>3. QED
          BY ONLY <5>1, <5>2
      <4>2. CASE m # 0
        <5>1. Returns(ReadFields(in, pos, m), {vs \in Seq(Text) : Len(vs) = m}, in, pos)
          BY <2>1, <4>2, FieldsReturn
        <5>2. PICK vs \in {us \in Seq(Text) : Len(us) = m}, at \in pos + 1 .. Len(in) + 1 :
                ReadFields(in, pos, m) = Read(vs, at)
          <6> HIDE DEF S, Q
          <6>1. QED
            BY ONLY <3>2, <5>1, ReturnsRead
        <5>3. at \in pos .. Len(in) + 1
          BY UnitsOf
        <5> HIDE DEF S, Q
        <5>4. QED
          BY ONLY <5>2, <5>3
      <4>3. QED
        BY <4>1, <4>2
    <3>4. at \in 1 .. Len(in) + 1
      BY UnitsOf
    <3>5. ReadField(in, at) # Refused
      <4>1. NextField(in, Read(us, at)) # Refused
        BY <2>2, <3>1, <3>3, NotRefused
      <4>2. QED
        BY <4>1, NextFieldIs
    <3>6. PICK w \in Text, end \in at + 1 .. Len(in) + 1 : ReadField(in, at) = Read(w, end)
      <4>1. Returns(ReadField(in, at), Text, in, at)
        BY <3>4, FieldReturns
      <4>2. QED
        BY ONLY <3>5, <4>1, ReturnsRead
    <3>7. Read(ws, e) = Read(Append(us, w), end)
      BY <2>2, <3>1, <3>3, <3>6, NextFieldIs
    <3>8. ws = Append(us, w) /\ e = end
      <4>1. Read(ws, e).value = ws /\ Read(ws, e).pos = e
        BY ReadIs
      <4>2. Read(Append(us, w), end).value = Append(us, w) /\ Read(Append(us, w), end).pos = end
        BY ReadIs
      <4>3. QED
        BY <3>7, <4>1, <4>2
    <3>9. e - 1 \in Nat /\ at - 1 \in 0 .. e - 1
      BY <3>4, <3>6, <3>8, UnitsOf
    <3>10. Agree(in, to, at - 1)
      BY <2>2, <3>9, AgreeLess
    <3>11. ReadFields(to, pos, m) = Read(us, at)
      BY <2>1, <3>3, <3>10
    <3>12. ReadField(to, at) = Read(w, e)
      BY <2>2, <3>4, <3>6, <3>8, FieldLocal
    <3>13. ReadFields(to, pos, m + 1) = NextField(to, Read(us, at))
      BY <2>1, <3>11, FieldsNext
    <3>14. QED
      BY <3>8, <3>12, <3>13, NextFieldIs
  <2>3. Q(m + 1)
    BY <2>2
  <2> HIDE DEF Q
  <2>4. QED
    BY <2>1, <2>3
<1>3. S \subseteq Nat
  OBVIOUS
<1> HIDE DEF S
<1>4. S = Nat
  BY <1>1, <1>2, <1>3, InductionOnNat
<1>5. Q(n)
  BY <1>4 DEF S
<1>6. QED
  BY <1>5

LEMMA DeadlineReturns ==
  ASSUME NEW in \in Text, NEW pos \in 1 .. Len(in) + 1
  PROVE  Returns(ReadDeadline(in, pos), Nat, in, pos)
<1>1. CASE ~Gets(in, pos, "blank")
  BY <1>1 DEF ReadDeadline, Returns
<1>2. CASE Gets(in, pos, "blank")
  <2>1. Len(in) \in Nat /\ pos + 1 \in 1 .. Len(in) + 1
    BY <1>2, UnitsOf DEF Gets
  <2>2. Returns(ReadNumber(in, pos + 1), Nat, in, pos + 1)
    BY <2>1, NumberReturns
  <2>3. ReadDeadline(in, pos) = ReadNumber(in, pos + 1)
    BY <1>2 DEF ReadDeadline
  <2>4. \A e \in (pos + 1) + 1 .. Len(in) + 1 : e \in pos + 1 .. Len(in) + 1
    BY <2>1
  <2>5. QED
    BY <2>2, <2>3, <2>4 DEF Returns
<1>3. QED
  BY <1>1, <1>2

LEMMA DeadlineLocal ==
  ASSUME NEW in \in Text, NEW to \in Text, NEW pos \in 1 .. Len(in) + 1, NEW n, NEW e,
         ReadDeadline(in, pos) = Read(n, e), Agree(in, to, e)
  PROVE  ReadDeadline(to, pos) = Read(n, e)
<1>1. Gets(in, pos, "blank") /\ ReadNumber(in, pos + 1) = Read(n, e)
  BY NotRefused DEF ReadDeadline
<1>2. Len(in) \in Nat /\ pos + 1 \in 1 .. Len(in) + 1
  BY <1>1, UnitsOf DEF Gets
<1>3. ReadNumber(to, pos + 1) = Read(n, e)
  BY <1>1, <1>2, NumberLocal
<1>4. e \in pos + 1 .. Len(in) + 1
  <2>1. Returns(ReadDeadline(in, pos), Nat, in, pos)
    BY DeadlineReturns
  <2>2. PICK m \in Nat, f \in pos + 1 .. Len(in) + 1 : ReadDeadline(in, pos) = Read(m, f)
    BY <2>1, NotRefused, ReturnsRead
  <2>3. e = f
    <3>1. Read(n, e).pos = e /\ Read(m, f).pos = f
      BY ReadIs
    <3>2. QED
      BY <2>2, <3>1
  <2>4. QED
    BY <2>3
<1>5. Gets(to, pos, "blank")
  BY <1>1, <1>2, <1>4, UnitsOf DEF Agree, Gets
<1>6. QED
  BY <1>3, <1>5 DEF ReadDeadline

\* The record v from start to e: its verb ends at stop, and its words at at.
RecordHas(in, start, stop, v, e) ==
  \E u \in Verb, ws \in Seq(Text), at \in stop + 1 .. Len(in) + 1 :
    /\ SubSeq(in, start, stop - 1) = <<u>>
    /\ ReadFields(in, stop, Arity(u)) = Read(ws, at)
    /\ \/ /\ u # "EXPIRE" /\ Gets(in, at, "newline")
          /\ v = [verb |-> u, words |-> ws] /\ e = at + 1
       \/ /\ u = "EXPIRE"
          /\ \E d \in Nat, end \in at + 1 .. Len(in) + 1 :
               /\ ReadDeadline(in, at) = Read(d, end) /\ Gets(in, end, "newline")
               /\ v = [verb |-> "EXPIRE", words |-> ws, deadline |-> d]
               /\ e = end + 1

LEMMA RecordParts ==
  ASSUME NEW in \in Text, NEW pos \in 1 .. Len(in) + 1, NEW v, NEW e,
         RecordAt(in, pos) = Read(v, e)
  PROVE  \E start \in pos .. Len(in) + 1 : \E stop \in start .. Len(in) :
           /\ start = RunEnd(in, pos, White) /\ stop = RunEnd(in, start, Unit \ White)
           /\ RecordHas(in, start, stop, v, e)
<1> DEFINE start == RunEnd(in, pos, White)
           stop == RunEnd(in, start, Unit \ White)
<1>1. Len(in) \in Nat
  BY UnitsOf
<1>2. start \in pos .. Len(in) + 1
  BY RunEndType
<1>3. start \in 1 .. Len(in) + 1
  BY <1>1, <1>2
<1>4. stop \in start .. Len(in) + 1
  <2> HIDE DEF start
  <2>1. QED
    BY <1>3, RunEndType
<1>5. RecordAt(in, pos) = ReadRecord(in, SubSeq(in, start, stop - 1), stop)
  BY DEF RecordAt
<1> HIDE DEF start, stop
<1>6. SubSeq(in, start, stop - 1) \in {<<u>> : u \in Verb}
  BY <1>5, NoSuchVerb, NotRefused
<1>7. PICK u \in Verb : SubSeq(in, start, stop - 1) = <<u>>
  BY <1>6
<1> DEFINE fields == ReadFields(in, stop, Arity(u))
           deadline == ReadDeadline(in, fields.pos)
<1>8. Read(v, e) =
        IF u = "EXPIRE"
        THEN IF fields.ok
             THEN IF deadline.ok
                  THEN IF Gets(in, deadline.pos, "newline")
                       THEN Read([verb |-> "EXPIRE", words |-> fields.value,
                                  deadline |-> deadline.value], deadline.pos + 1)
                       ELSE Refused
                  ELSE Refused
             ELSE Refused
        ELSE IF fields.ok
             THEN IF Gets(in, fields.pos, "newline")
                  THEN Read([verb |-> u, words |-> fields.value], fields.pos + 1)
                  ELSE Refused
             ELSE Refused
  BY <1>5, <1>7, ReadRecordIs
<1>9. stop \in 1 .. Len(in) + 1 /\ Arity(u) \in Nat /\ Arity(u) # 0
  BY <1>1, <1>3, <1>4, ShapeIs DEF Arity, Verb
<1>10. Returns(fields, {ws \in Seq(Text) : Len(ws) = Arity(u)}, in, stop)
  BY <1>9, FieldsReturn
<1>11. fields # Refused
  <2>1. fields.ok
    BY <1>8, NotRefused
  <2>2. QED
    BY <2>1, ReadAndRefused
<1>12. PICK ws \in Seq(Text), at \in stop + 1 .. Len(in) + 1 : fields = Read(ws, at)
  BY <1>10, <1>11, ReturnsRead
<1>13. fields.ok /\ fields.value = ws /\ fields.pos = at
  BY <1>12, ReadAndRefused
<1> HIDE DEF fields
<1>14. stop \in start .. Len(in)
  BY <1>1, <1>3, <1>4, <1>12
<1> DEFINE Ends == \/ /\ u # "EXPIRE" /\ Gets(in, at, "newline")
                      /\ v = [verb |-> u, words |-> ws] /\ e = at + 1
                   \/ /\ u = "EXPIRE"
                      /\ \E d \in Nat, end \in at + 1 .. Len(in) + 1 :
                           /\ ReadDeadline(in, at) = Read(d, end) /\ Gets(in, end, "newline")
                           /\ v = [verb |-> "EXPIRE", words |-> ws, deadline |-> d]
                           /\ e = end + 1
<1>15. Ends
  <2>1. CASE u # "EXPIRE"
    <3>1. Gets(in, at, "newline") /\ Read(v, e) = Read([verb |-> u, words |-> ws], at + 1)
      BY <1>8, <1>13, <2>1, NotRefused
    <3>2. v = [verb |-> u, words |-> ws] /\ e = at + 1
      <4>1. /\ Read([verb |-> u, words |-> ws], at + 1).value = [verb |-> u, words |-> ws]
            /\ Read([verb |-> u, words |-> ws], at + 1).pos = at + 1
        BY ReadIs
      <4>2. Read(v, e).value = v /\ Read(v, e).pos = e
        BY ReadIs
      <4>3. QED
        BY <3>1, <4>1, <4>2
    <3>3. QED
      BY <2>1, <3>1, <3>2
  <2>2. CASE u = "EXPIRE"
    <3>1. at \in 1 .. Len(in) + 1
      BY <1>1, <1>9, <1>12
    <3>2. deadline = ReadDeadline(in, at)
      BY <1>13
    <3> HIDE DEF deadline
    <3>3. Returns(deadline, Nat, in, at)
      BY <3>1, <3>2, DeadlineReturns
    <3>4. deadline.ok /\ Gets(in, deadline.pos, "newline")
      BY <1>8, <2>2, NotRefused
    <3>5. deadline # Refused
      BY <3>4, ReadAndRefused
    <3>6. PICK d \in Nat, end \in at + 1 .. Len(in) + 1 : deadline = Read(d, end)
      BY <3>3, <3>5, ReturnsRead
    <3>7. deadline.value = d /\ deadline.pos = end
      BY <3>6, ReadIs
    <3> DEFINE w == [verb |-> "EXPIRE", words |-> ws, deadline |-> d]
    <3>8. Read(v, e) = Read(w, end + 1)
      BY <1>8, <1>13, <2>2, <3>4, <3>7
    <3>9. v = w /\ e = end + 1
      <4> HIDE DEF w
      <4>1. Read(w, end + 1).value = w /\ Read(w, end + 1).pos = end + 1
        BY ReadIs
      <4>2. Read(v, e).value = v /\ Read(v, e).pos = e
        BY ReadIs
      <4>3. QED
        BY <3>8, <4>1, <4>2
    <3>10. QED
      BY <2>2, <3>2, <3>4, <3>6, <3>7, <3>9
  <2>3. QED
    BY <2>1, <2>2
<1>16. RecordHas(in, start, stop, v, e)
  BY <1>7, <1>12, <1>15 DEF fields, RecordHas
<1>17. start = RunEnd(in, pos, White) /\ stop = RunEnd(in, start, Unit \ White)
  BY DEF start, stop
<1>18. QED
  BY ONLY <1>2, <1>14, <1>16, <1>17

LEMMA RecordReturns ==
  ASSUME NEW in \in Text, NEW pos \in 1 .. Len(in) + 1, RecordAt(in, pos) # Refused
  PROVE  \E v, e : RecordAt(in, pos) = Read(v, e)
<1> DEFINE start == RunEnd(in, pos, White)
           stop == RunEnd(in, start, Unit \ White)
           verb == SubSeq(in, start, stop - 1)
<1>1. RecordAt(in, pos) = ReadRecord(in, verb, stop)
  BY DEF RecordAt
<1> HIDE DEF stop, verb
<1>2. verb \in {<<u>> : u \in Verb}
  BY <1>1, NoSuchVerb
<1>3. PICK u \in Verb : verb = <<u>>
  BY <1>2
<1> DEFINE fields == ReadFields(in, stop, Arity(u))
           deadline == ReadDeadline(in, fields.pos)
<1>4. ReadRecord(in, <<u>>, stop) =
        IF u = "EXPIRE"
        THEN IF fields.ok
             THEN IF deadline.ok
                  THEN IF Gets(in, deadline.pos, "newline")
                       THEN Read([verb |-> "EXPIRE", words |-> fields.value,
                                  deadline |-> deadline.value], deadline.pos + 1)
                       ELSE Refused
                  ELSE Refused
             ELSE Refused
        ELSE IF fields.ok
             THEN IF Gets(in, fields.pos, "newline")
                  THEN Read([verb |-> u, words |-> fields.value], fields.pos + 1)
                  ELSE Refused
             ELSE Refused
  BY ReadRecordIs
<1> HIDE DEF fields, deadline
<1>5. QED
  BY <1>1, <1>3, <1>4

\* A record that was read ends with a newline, after where it began.
LEMMA RecordEnds ==
  ASSUME NEW in \in Text, NEW pos \in 1 .. Len(in) + 1, NEW v, NEW e,
         RecordAt(in, pos) = Read(v, e)
  PROVE  e \in pos + 1 .. Len(in) + 1 /\ in[e - 1] = "newline"
<1>1. PICK start \in pos .. Len(in) + 1 : \E stop \in start .. Len(in) :
        RecordHas(in, start, stop, v, e)
  BY RecordParts
<1>0. PICK stop \in start .. Len(in) : RecordHas(in, start, stop, v, e)
  BY <1>1
<1>2. PICK at \in stop + 1 .. Len(in) + 1 :
           \/ Gets(in, at, "newline") /\ e = at + 1
           \/ \E end \in at + 1 .. Len(in) + 1 : Gets(in, end, "newline") /\ e = end + 1
  BY <1>0 DEF RecordHas
<1>3. Len(in) \in Nat
  BY UnitsOf
<1>4. CASE Gets(in, at, "newline") /\ e = at + 1
  BY <1>1, <1>2, <1>3, <1>4 DEF Gets
<1>5. ASSUME NEW end \in at + 1 .. Len(in) + 1, Gets(in, end, "newline"), e = end + 1
      PROVE  e \in pos + 1 .. Len(in) + 1 /\ in[e - 1] = "newline"
  BY <1>1, <1>2, <1>3, <1>5 DEF Gets
<1>6. QED
  BY <1>2, <1>4, <1>5

\* A record that was read is read in any file that is the same as far as it goes.
LEMMA RecordLocal ==
  ASSUME NEW in \in Text, NEW to \in Text, NEW pos \in 1 .. Len(in) + 1, NEW v, NEW e,
         RecordAt(in, pos) = Read(v, e), Agree(in, to, e - 1)
  PROVE  RecordAt(to, pos) = Read(v, e)
<1>0. PICK start \in pos .. Len(in) + 1 : \E stop \in start .. Len(in) :
        /\ start = RunEnd(in, pos, White) /\ stop = RunEnd(in, start, Unit \ White)
        /\ RecordHas(in, start, stop, v, e)
  BY RecordParts
<1>1. PICK stop \in start .. Len(in) :
        /\ start = RunEnd(in, pos, White) /\ stop = RunEnd(in, start, Unit \ White)
        /\ RecordHas(in, start, stop, v, e)
  BY <1>0
<1>2. PICK u \in Verb, ws \in Seq(Text), at \in stop + 1 .. Len(in) + 1 :
        /\ SubSeq(in, start, stop - 1) = <<u>>
        /\ ReadFields(in, stop, Arity(u)) = Read(ws, at)
        /\ \/ /\ u # "EXPIRE" /\ Gets(in, at, "newline")
              /\ v = [verb |-> u, words |-> ws] /\ e = at + 1
           \/ /\ u = "EXPIRE"
              /\ \E d \in Nat, end \in at + 1 .. Len(in) + 1 :
                   /\ ReadDeadline(in, at) = Read(d, end) /\ Gets(in, end, "newline")
                   /\ v = [verb |-> "EXPIRE", words |-> ws, deadline |-> d]
                   /\ e = end + 1
  BY <1>1 DEF RecordHas
<1>3. Len(in) \in Nat
  BY UnitsOf
<1>4. e - 1 \in Nat /\ e - 1 \in at .. Len(in)
  <2>1. CASE e = at + 1 /\ Gets(in, at, "newline")
    BY <1>1, <1>2, <1>3, <2>1 DEF Gets
  <2>2. ASSUME NEW end \in at + 1 .. Len(in) + 1, e = end + 1, Gets(in, end, "newline")
        PROVE  e - 1 \in Nat /\ e - 1 \in at .. Len(in)
    BY <1>1, <1>2, <1>3, <2>2 DEF Gets
  <2>3. QED
    BY <1>2, <2>1, <2>2
<1>5. /\ start \in 1 .. Len(in) + 1 /\ stop \in 1 .. Len(in) + 1 /\ at \in 1 .. Len(in) + 1
      /\ start \in 0 .. e - 1 /\ stop \in 0 .. e - 1 /\ at - 1 \in 0 .. e - 1 /\ stop - 1 \in Int
      /\ stop - 1 <= e - 1 /\ start \in Nat \ {0}
  BY SMTT(30), <1>1, <1>2, <1>3, <1>4
<1>6. Agree(in, to, start) /\ Agree(in, to, stop) /\ Agree(in, to, at - 1)
  BY <1>4, <1>5, AgreeLess
<1>7. RunEnd(to, pos, White) = start
  BY <1>1, <1>6, RunEndLocal
<1>8. RunEnd(to, start, Unit \ White) = stop
  BY SMTT(30), <1>1, <1>5, <1>6, RunEndLocal
<1>9. SubSeq(to, start, stop - 1) = <<u>>
  <2>1. SubSeq(in, start, stop - 1) = SubSeq(to, start, stop - 1)
    <3>1. e - 1 \in Nat /\ Agree(in, to, e - 1)
      BY <1>4, <1>5
    <3>2. Between(in, start, stop - 1) = Between(to, start, stop - 1)
      BY <1>5, <3>1, AgreeSubSeq
    <3>3. QED
      BY <3>2 DEF Between
  <2>2. QED
    BY <1>2, <2>1
<1>10. ReadFields(to, stop, Arity(u)) = Read(ws, at)
  <2>1. Arity(u) \in Nat
    BY ShapeIs DEF Arity, Verb
  <2>2. QED
    BY <1>2, <1>5, <1>6, <2>1, FieldsLocal
<1>11. RecordAt(to, pos) = ReadRecord(to, <<u>>, stop)
  BY <1>7, <1>8, <1>9 DEF RecordAt
<1> DEFINE fields == ReadFields(to, stop, Arity(u))
           deadline == ReadDeadline(to, fields.pos)
<1>12. fields.ok /\ fields.value = ws /\ fields.pos = at
  BY <1>10, ReadAndRefused
<1>13. Len(to) \in Nat /\ e - 1 <= Len(to) /\ \A i \in 1 .. e - 1 : in[i] = to[i]
  BY UnitsOf DEF Agree
<1>14. CASE u # "EXPIRE" /\ Gets(in, at, "newline") /\ v = [verb |-> u, words |-> ws] /\ e = at + 1
  <2>1. Gets(to, at, "newline")
    BY <1>5, <1>13, <1>14 DEF Gets
  <2>2. ReadRecord(to, <<u>>, stop) = Read([verb |-> u, words |-> fields.value], fields.pos + 1)
    BY <1>12, <1>14, <2>1, ReadRecordIs
  <2> HIDE DEF fields
  <2>3. QED
    BY <1>11, <1>12, <1>14, <2>2
<1>15. ASSUME u = "EXPIRE", NEW d \in Nat, NEW end \in at + 1 .. Len(in) + 1,
              ReadDeadline(in, at) = Read(d, end), Gets(in, end, "newline"),
              v = [verb |-> "EXPIRE", words |-> ws, deadline |-> d], e = end + 1
       PROVE  RecordAt(to, pos) = Read(v, e)
  <2>1. end = e - 1 /\ end \in 1 .. e - 1
    BY <1>3, <1>4, <1>5, <1>15
  <2>2. Gets(to, end, "newline")
    BY <1>13, <1>15, <2>1 DEF Gets
  <2>3. ReadDeadline(to, at) = Read(d, end)
    BY <1>5, <1>15, <2>1, DeadlineLocal
  <2>4. deadline.ok /\ deadline.value = d /\ deadline.pos = end
    BY <1>12, <2>3, ReadAndRefused
  <2>5. ReadRecord(to, <<u>>, stop)
          = Read([verb |-> "EXPIRE", words |-> fields.value, deadline |-> deadline.value],
                 deadline.pos + 1)
    BY <1>12, <1>15, <2>2, <2>4, ReadRecordIs
  <2> HIDE DEF fields, deadline
  <2>6. QED
    BY <1>11, <1>12, <1>15, <2>4, <2>5
<1>16. QED
  BY <1>2, <1>14, <1>15

-----------------------------------------------------------------------------
(* The records of a file *)

LEMMA ContentsType ==
  ASSUME NEW rs \in Seq(Record)
  PROVE  /\ [i \in DOMAIN rs |-> Format(rs[i])] \in Seq(Text)
         /\ Contents(rs) \in Text /\ Len(Contents(rs)) \in Nat
<1> DEFINE fs == [i \in DOMAIN rs |-> Format(rs[i])]
<1>1. DOMAIN rs = 1 .. Len(rs) /\ Len(rs) \in Nat /\ \A i \in 1 .. Len(rs) : rs[i] \in Record
  BY LenProperties, ElementOfSeq
<1>2. \A i \in 1 .. Len(rs) : Format(rs[i]) \in Text
  BY <1>1, FormatIs
<1>3. fs \in Seq(Text)
  BY <1>1, <1>2
<1> HIDE DEF fs
<1>4. FlattenSeq(fs) \in Seq(Unit)
  BY <1>3, FlattenType DEF Text
<1>5. Contents(rs) = FlattenSeq(fs)
  BY DEF Contents, fs
<1>6. QED
  BY <1>3, <1>4, <1>5, UnitsOf DEF fs, Text

LEMMA ContentsEmpty == Contents(<< >>) = << >>
<1>1. [i \in DOMAIN << >> |-> Format(<< >>[i])] = << >>
  OBVIOUS
<1>2. QED
  BY <1>1, FlattenEmpty DEF Contents

LEMMA ContentsAppend ==
  ASSUME NEW rs \in Seq(Record), NEW r \in Record
  PROVE  Contents(Append(rs, r)) = Contents(rs) \o Format(r)
<1> DEFINE fs == [i \in DOMAIN rs |-> Format(rs[i])]
           us == Append(rs, r)
           gs == [i \in DOMAIN us |-> Format(us[i])]
           n == Len(rs)
<1>1. fs \in Seq(Text) /\ Format(r) \in Text
  BY ContentsType, FormatIs
<1>2. us \in Seq(Record) /\ Len(us) = n + 1 /\ n \in Nat /\ us[n + 1] = r
      /\ \A i \in 1 .. n : us[i] = rs[i]
  BY AppendProperties, LenProperties
<1>3. DOMAIN us = 1 .. n + 1 /\ DOMAIN rs = 1 .. n
  BY <1>2, LenProperties
<1>4. gs \in Seq(Text)
  BY <1>2, ContentsType
<1>5. Len(gs) = n + 1 /\ Len(fs) = n
  BY <1>2, <1>3
<1>6. /\ \A i \in 1 .. n + 1 : gs[i] = Format(us[i])
      /\ \A i \in 1 .. n : fs[i] = Format(rs[i])
  BY <1>3
<1> HIDE DEF fs, us, gs
<1>7. Append(fs, Format(r)) \in Seq(Text) /\ Len(Append(fs, Format(r))) = n + 1
      /\ Append(fs, Format(r))[n + 1] = Format(r)
      /\ \A i \in 1 .. n : Append(fs, Format(r))[i] = fs[i]
  BY <1>1, <1>5, AppendProperties
<1>8. gs = Append(fs, Format(r))
  <2>1. ASSUME NEW i \in 1 .. n + 1
        PROVE  gs[i] = Append(fs, Format(r))[i]
    <3>1. CASE i = n + 1
      BY <1>2, <1>6, <1>7, <3>1
    <3>2. CASE i # n + 1
      <4>1. i \in 1 .. n
        BY <1>2, <3>2
      <4>2. QED
        BY <1>2, <1>6, <1>7, <4>1
    <3>3. QED
      BY <3>1, <3>2
  <2>2. QED
    BY <1>4, <1>5, <1>7, <2>1, SeqEqual
<1>9. FlattenSeq(Append(fs, Format(r))) = FlattenSeq(fs) \o Format(r)
  BY <1>1, FlattenAppend DEF Text
<1>10. QED
  BY <1>8, <1>9 DEF Contents, fs, gs, us

LEMMA ContentsConcat ==
  ASSUME NEW us \in Seq(Record), NEW rs \in Seq(Record)
  PROVE  Contents(us \o rs) = Contents(us) \o Contents(rs)
<1> DEFINE P == {vs \in Seq(Record) : Contents(us \o vs) = Contents(us) \o Contents(vs)}
<1>1. << >> \in P
  <2>1. us \o << >> = us /\ << >> \in Seq(Record)
    BY ConcatEmptySeq, EmptySeq
  <2>2. Contents(us) \o << >> = Contents(us)
    BY ContentsType, ConcatEmptySeq DEF Text
  <2>3. QED
    BY <2>1, <2>2, ContentsEmpty
<1>2. ASSUME NEW vs \in P, NEW r \in Record
      PROVE  Append(vs, r) \in P
  <2>1. vs \in Seq(Record) /\ Contents(us \o vs) = Contents(us) \o Contents(vs)
    OBVIOUS
  <2>2. Format(r) \in Text
    BY FormatIs
  <2>3. us \o vs \in Seq(Record) /\ Append(vs, r) \in Seq(Record)
    BY <2>1, ConcatProperties, AppendProperties
  <2> HIDE DEF P
  <2>4. us \o Append(vs, r) = Append(us \o vs, r)
    <3>1. Append(vs, r) = vs \o <<r>> /\ Append(us \o vs, r) = (us \o vs) \o <<r>>
      BY <2>1, <2>3, AppendIsConcat
    <3>2. <<r>> \in Seq(Record)
      OBVIOUS
    <3>3. QED
      BY <2>1, <3>1, <3>2, ConcatAssociative
  <2>5. Contents(Append(us \o vs, r)) = Contents(us \o vs) \o Format(r)
        /\ Contents(Append(vs, r)) = Contents(vs) \o Format(r)
    BY <2>1, <2>3, ContentsAppend
  <2>6. (Contents(us) \o Contents(vs)) \o Format(r) = Contents(us) \o (Contents(vs) \o Format(r))
    BY SMTT(30), <2>1, <2>2, ContentsType, ConcatAssociative DEF Text
  <2>7. QED
    BY <2>1, <2>3, <2>4, <2>5, <2>6 DEF P
<1>3. P \subseteq Seq(Record)
  OBVIOUS
<1> HIDE DEF P
<1>4. P = Seq(Record)
  BY <1>1, <1>2, <1>3, InductionOnSeq
<1>5. QED
  BY <1>4 DEF P

\* What replay does at pos, f being what it does further on.
LogStep(f, in, pos) ==
  IF RunEnd(in, pos, White) > Len(in) THEN Read(<< >>, RunEnd(in, pos, White))
  ELSE AndThen(RecordAt(in, pos), LAMBDA first, at :
         AndThen(f[at], LAMBDA rest, end : Read(<<first>> \o rest, end)))

LEMMA LogStepIs ==
  ASSUME NEW f, NEW in \in Text, NEW pos \in 1 .. Len(in) + 1
  PROVE  /\ RunEnd(in, pos, White) > Len(in)
              => LogStep(f, in, pos) = Read(<< >>, RunEnd(in, pos, White))
         /\ RunEnd(in, pos, White) <= Len(in) /\ RecordAt(in, pos) = Refused
              => LogStep(f, in, pos) = Refused
         /\ \A v, e : RecordAt(in, pos) = Read(v, e) =>
              /\ f[e] = Refused => LogStep(f, in, pos) = Refused
              /\ \A rest, end : f[e] = Read(rest, end)
                                  => LogStep(f, in, pos) = Read(<<v>> \o rest, end)
              /\ RunEnd(in, pos, White) <= Len(in)
              /\ LogStep(f, in, pos) = IF f[e].ok THEN Read(<<v>> \o f[e].value, f[e].pos) ELSE Refused
<1> DEFINE start == RunEnd(in, pos, White)
<1>1. start \in 1 .. Len(in) + 1 /\ Len(in) \in Nat
  BY RunEndType, UnitsOf
<1>2. start > Len(in) => LogStep(f, in, pos) = Read(<< >>, start)
  BY DEF LogStep
<1>3. ASSUME start <= Len(in), RecordAt(in, pos) = Refused
      PROVE  LogStep(f, in, pos) = Refused
  <2>1. ~(start > Len(in))
    BY <1>1, <1>3
  <2>2. ~RecordAt(in, pos).ok
    BY <1>3, ReadAndRefused
  <2>3. QED
    BY <2>1, <2>2 DEF LogStep, AndThen
<1>4. ASSUME NEW v, NEW e, RecordAt(in, pos) = Read(v, e)
      PROVE  /\ f[e] = Refused => LogStep(f, in, pos) = Refused
             /\ \A rest, end : f[e] = Read(rest, end)
                                 => LogStep(f, in, pos) = Read(<<v>> \o rest, end)
             /\ start <= Len(in)
             /\ LogStep(f, in, pos) = IF f[e].ok THEN Read(<<v>> \o f[e].value, f[e].pos) ELSE Refused
  <2>1. start <= Len(in)
    <3>1. PICK s \in pos .. Len(in) + 1 : \E stop \in s .. Len(in) : s = RunEnd(in, pos, White)
      BY <1>4, RecordParts
    <3>2. QED
      BY <1>1, <3>1
  <2>2. ~(start > Len(in))
    BY <1>1, <2>1
  <2>3. RecordAt(in, pos).ok /\ RecordAt(in, pos).value = v /\ RecordAt(in, pos).pos = e
    BY <1>4, ReadAndRefused
  <2>4. LogStep(f, in, pos) = IF f[e].ok THEN Read(<<v>> \o f[e].value, f[e].pos) ELSE Refused
    BY <2>2, <2>3 DEF LogStep, AndThen
  <2>5. ASSUME f[e] = Refused
        PROVE  LogStep(f, in, pos) = Refused
    BY <2>4, <2>5, ReadAndRefused DEF AndThen
  <2>6. ASSUME NEW rest, NEW end, f[e] = Read(rest, end)
        PROVE  LogStep(f, in, pos) = Read(<<v>> \o rest, end)
    <3>1. f[e].ok /\ f[e].value = rest /\ f[e].pos = end
      BY <2>6, ReadAndRefused
    <3>2. QED
      BY <2>4, <3>1 DEF AndThen
  <2>7. QED
    BY <2>1, <2>4, <2>5, <2>6
<1>5. QED
  BY <1>2, <1>3, <1>4

LEMMA LogStepSame ==
  ASSUME NEW f, NEW g, NEW in \in Text, NEW pos \in 1 .. Len(in) + 1,
         \A at \in pos + 1 .. Len(in) + 1 : f[at] = g[at]
  PROVE  LogStep(f, in, pos) = LogStep(g, in, pos)
<1>1. RunEnd(in, pos, White) \in 1 .. Len(in) + 1 /\ Len(in) \in Nat
  BY RunEndType, UnitsOf
<1>2. CASE RunEnd(in, pos, White) > Len(in)
  BY <1>2, LogStepIs
<1>3. CASE RunEnd(in, pos, White) <= Len(in) /\ RecordAt(in, pos) = Refused
  BY <1>3, LogStepIs
<1>4. CASE RecordAt(in, pos) # Refused
  <2>1. PICK v, e : RecordAt(in, pos) = Read(v, e)
    BY <1>4, RecordReturns
  <2>2. e \in pos + 1 .. Len(in) + 1
    BY <2>1, RecordEnds
  <2>3. f[e] = g[e]
    BY <2>2
  <2>4. /\ LogStep(f, in, pos) = IF f[e].ok THEN Read(<<v>> \o f[e].value, f[e].pos) ELSE Refused
        /\ LogStep(g, in, pos) = IF g[e].ok THEN Read(<<v>> \o g[e].value, g[e].pos) ELSE Refused
    BY <2>1, LogStepIs
  <2>5. QED
    BY <2>3, <2>4
<1>5. QED
  BY <1>1, <1>2, <1>3, <1>4

\* f is what replay does at each place in the file.
Replays(f, in) == f = [pos \in 1 .. Len(in) + 1 |-> LogStep(f, in, pos)]

LEMMA ReplaysAt ==
  ASSUME NEW in \in Text, NEW f, Replays(f, in)
  PROVE  \A pos \in 1 .. Len(in) + 1 : f[pos] = LogStep(f, in, pos)
BY DEF Replays

\* From the end of the file backwards: a record ends after where it begins.
LEMMA ReplaysExists ==
  ASSUME NEW in \in Text
  PROVE  \E f : Replays(f, in)
<1> DEFINE n == Len(in)
           Right(f, k) == /\ DOMAIN f = 1 .. n + 1 /\ f = [pos \in 1 .. n + 1 |-> f[pos]]
                          /\ \A pos \in 1 .. n + 1 : pos > n + 1 - k => f[pos] = LogStep(f, in, pos)
           S == {k \in Nat : k <= n + 1 => \E f : Right(f, k)}
<1>1. n \in Nat
  BY UnitsOf
<1> HIDE DEF n
<1>2. 0 \in S
  <2> DEFINE f == [pos \in 1 .. n + 1 |-> Refused]
  <2>1. Right(f, 0)
    BY <1>1
  <2>2. QED
    BY <2>1
<1>3. ASSUME NEW k \in S
      PROVE  k + 1 \in S
  <2> SUFFICES ASSUME k + 1 <= n + 1
               PROVE  \E f : Right(f, k + 1)
    OBVIOUS
  <2>1. k \in Nat /\ k <= n + 1
    BY <1>1
  <2>2. PICK f : Right(f, k)
    BY <2>1
  <2> DEFINE here == n + 1 - k
             value == LogStep(f, in, here)
             g == [pos \in 1 .. n + 1 |-> IF pos = here THEN value ELSE f[pos]]
  <2>3. here \in 1 .. n + 1
    BY <1>1, <2>1
  <2> HIDE DEF value
  <2>4. DOMAIN g = 1 .. n + 1 /\ g = [pos \in 1 .. n + 1 |-> g[pos]]
        /\ g[here] = value /\ \A pos \in 1 .. n + 1 : pos # here => g[pos] = f[pos]
    BY <2>3
  <2> HIDE DEF g
  <2>5. ASSUME NEW pos \in 1 .. n + 1, pos > n + 1 - (k + 1)
        PROVE  g[pos] = LogStep(g, in, pos)
    <3>1. pos >= here
      BY <1>1, <2>1, <2>5
    <3>2. \A at \in pos + 1 .. n + 1 : f[at] = g[at]
      BY <1>1, <2>3, <2>4, <3>1
    <3>3. LogStep(f, in, pos) = LogStep(g, in, pos)
      BY <3>2, LogStepSame DEF n
    <3>4. CASE pos = here
      BY <2>4, <3>3, <3>4 DEF value
    <3>5. CASE pos # here
      <4>1. pos > n + 1 - k
        BY <1>1, <2>1, <3>1, <3>5
      <4>2. f[pos] = LogStep(f, in, pos)
        BY <2>2, <4>1
      <4>3. QED
        BY <2>4, <3>3, <3>5, <4>2
    <3>6. QED
      BY <3>4, <3>5
  <2>6. Right(g, k + 1)
    BY <2>4, <2>5
  <2>7. QED
    BY <2>6
<1>4. S \subseteq Nat
  OBVIOUS
<1> HIDE DEF S
<1>5. S = Nat
  BY <1>2, <1>3, <1>4, InductionOnNat
<1>6. PICK f : Right(f, n + 1)
  <2>1. n + 1 \in S
    BY <1>1, <1>5
  <2> HIDE DEF Right
  <2>2. QED
    BY <1>1, <2>1 DEF S
<1>7. \A pos \in 1 .. n + 1 : f[pos] = LogStep(f, in, pos)
  <2>1. \A pos \in 1 .. n + 1 : pos > n + 1 - (n + 1)
    BY <1>1
  <2>2. QED
    BY <1>6, <2>1
<1>8. f = [pos \in 1 .. n + 1 |-> LogStep(f, in, pos)]
  BY <1>6, <1>7
<1>9. QED
  BY <1>8 DEF Replays, n

LEMMA LogReplays ==
  ASSUME NEW in \in Text
  PROVE  \E f : Replays(f, in) /\ ReadLog(in) = f[1]
<1> DEFINE P(f) == f = [pos \in 1 .. Len(in) + 1 |->
                         LET start == RunEnd(in, pos, White)
                             stop == RunEnd(in, start, Unit \ White)
                         IN  IF start > Len(in) THEN Read(<< >>, start)
                             ELSE AndThen(ReadRecord(in, SubSeq(in, start, stop - 1), stop),
                                    LAMBDA first, at :
                                    AndThen(f[at], LAMBDA rest, end : Read(<<first>> \o rest, end)))]
<1>1. PICK f : f = (CHOOSE h : P(h))
  OBVIOUS
<1>2. P(f)
  <2>1. PICK h : Replays(h, in)
    BY ReplaysExists
  <2>2. P(h)
    BY <2>1 DEF Replays, LogStep, RecordAt
  <2> HIDE DEF P
  <2>3. QED
    BY <1>1, <2>2
<1>3. ReadLog(in) = f[1]
  BY <1>1 DEF ReadLog
<1>4. QED
  BY <1>2, <1>3 DEF Replays, LogStep, RecordAt

\* Whole records are read, and then what follows them.
LEMMA ReplaysRecords ==
  ASSUME NEW in \in Text, NEW pos \in 1 .. Len(in) + 1, NEW f, Replays(f, in),
         NEW rs \in Seq(Record), Holds(in, pos, Contents(rs))
  PROVE  /\ pos + Len(Contents(rs)) \in 1 .. Len(in) + 1
         /\ f[pos + Len(Contents(rs))] = Refused => f[pos] = Refused
         /\ \A rest \in Seq(Record) : \A end :
              f[pos + Len(Contents(rs))] = Read(rest, end) => f[pos] = Read(rs \o rest, end)
<1> DEFINE After(us) == pos + Len(Contents(us))
           Right(us) == /\ f[After(us)] = Refused => f[pos] = Refused
                        /\ \A rest \in Seq(Record) : \A end :
                             f[After(us)] = Read(rest, end) => f[pos] = Read(us \o rest, end)
           P == {us \in Seq(Record) : Holds(in, pos, Contents(us)) => Right(us)}
<1>1. << >> \in P
  <2>1. After(<< >>) = pos
    BY ContentsEmpty, EmptySeq
  <2>2. \A rest \in Seq(Record) : << >> \o rest = rest
    BY ConcatEmptySeq
  <2> HIDE DEF After
  <2>3. Right(<< >>)
    BY <2>1, <2>2
  <2>4. << >> \in Seq(Record)
    BY EmptySeq
  <2>5. QED
    BY <2>3, <2>4
<1>2. ASSUME NEW us \in P, NEW r \in Record
      PROVE  Append(us, r) \in P
  <2>1. us \in Seq(Record) /\ (Holds(in, pos, Contents(us)) => Right(us))
    OBVIOUS
  <2>2. Append(us, r) \in Seq(Record) /\ Append(us, r) = us \o <<r>>
    BY <2>1, AppendProperties, AppendIsConcat
  <2> SUFFICES ASSUME Holds(in, pos, Contents(Append(us, r)))
               PROVE  Right(Append(us, r))
    BY <2>2
  <2> DEFINE at == After(us)
             end0 == at + Len(Format(r))
  <2>3. Contents(us) \in Text /\ Len(Contents(us)) \in Nat /\ Format(r) \in Text
        /\ Len(Format(r)) \in Nat /\ Contents(Append(us, r)) = Contents(us) \o Format(r)
    BY <2>1, ContentsType, FormatIs, ContentsAppend, UnitsOf
  <2>4. pos \in Nat \ {0}
    BY UnitsOf
  <2>5. Holds(in, pos, Contents(us)) /\ Holds(in, at, Format(r))
    BY <2>3, <2>4, HoldsConcat
  <2>6. at \in Nat \ {0} /\ at \in 1 .. Len(in) + 1
    BY <2>3, <2>4, <2>5, UnitsOf DEF Holds
  <2>7. After(Append(us, r)) = end0
    <3>1. Len(Contents(us) \o Format(r)) = Len(Contents(us)) + Len(Format(r))
      BY <2>3, ConcatProperties DEF Text
    <3>2. QED
      BY <2>3, <2>4, <3>1
  <2> HIDE DEF P, After
  <2>8. RecordAt(in, at) = Read(r, end0)
    BY <2>5, <2>6, ReadsRecord
  <2>9. f[at] = LogStep(f, in, at)
    BY <2>6, ReplaysAt
  <2>10. /\ f[end0] = Refused => f[at] = Refused
         /\ \A rest, end : f[end0] = Read(rest, end) => f[at] = Read(<<r>> \o rest, end)
    BY <2>6, <2>8, <2>9, LogStepIs
  <2>11. Right(us)
    BY <2>1, <2>5
  <2>12. ASSUME f[end0] = Refused
         PROVE  f[pos] = Refused
    BY <2>10, <2>11, <2>12
  <2>13. ASSUME NEW rest \in Seq(Record), NEW end, f[end0] = Read(rest, end)
         PROVE  f[pos] = Read(Append(us, r) \o rest, end)
    <3>1. <<r>> \in Seq(Record) /\ <<r>> \o rest \in Seq(Record)
      BY ConcatProperties
    <3>2. f[at] = Read(<<r>> \o rest, end)
      BY <2>10, <2>13
    <3>3. f[pos] = Read(us \o (<<r>> \o rest), end)
      BY <2>11, <3>1, <3>2
    <3>4. (us \o <<r>>) \o rest = us \o (<<r>> \o rest)
      BY <2>1, <3>1, ConcatAssociative
    <3>5. QED
      BY <2>2, <3>3, <3>4
  <2>14. QED
    BY <2>7, <2>12, <2>13
<1>3. P \subseteq Seq(Record)
  OBVIOUS
<1> HIDE DEF P, Right
<1>4. P = Seq(Record)
  BY <1>1, <1>2, <1>3, InductionOnSeq
<1>5. Right(rs)
  BY <1>4 DEF P
<1>6. pos + Len(Contents(rs)) \in 1 .. Len(in) + 1
  BY ContentsType, UnitsOf DEF Holds
<1>7. QED
  BY <1>5, <1>6 DEF Right

\* Replay reads the records that were logged.
LEMMA ReadsLog ==
  ASSUME NEW rs \in Seq(Record)
  PROVE  ReadLog(Contents(rs)).ok /\ ReadLog(Contents(rs)).value = rs
<1> DEFINE in == Contents(rs)
           last == 1 + Len(in)
<1>1. in \in Text /\ Len(in) \in Nat
  BY ContentsType
<1> HIDE DEF in
<1>2. PICK f : Replays(f, in) /\ ReadLog(in) = f[1]
  BY <1>1, LogReplays
<1>3. Holds(in, 1, in)
  <2>1. \A i \in 1 .. Len(in) : 1 + i - 1 = i
    BY <1>1
  <2>2. 1 + Len(in) <= Len(in) + 1
    BY <1>1
  <2>3. QED
    BY <2>1, <2>2 DEF Holds
<1>4. last \in 1 .. Len(in) + 1 /\ 1 \in 1 .. Len(in) + 1
  BY <1>1
<1>5. RunEnd(in, last, White) = last
  <2>1. RunEnd(in, last, White) \in last .. Len(in) + 1
    BY <1>1, <1>4, RunEndType
  <2>2. QED
    BY <1>1, <2>1
<1>6. f[last] = Read(<< >>, last)
  <2>1. f[last] = LogStep(f, in, last)
    BY <1>1, <1>2, <1>4, ReplaysAt
  <2>2. last > Len(in)
    BY <1>1
  <2>3. QED
    BY <1>1, <1>4, <1>5, <2>1, <2>2, LogStepIs
<1>7. << >> \in Seq(Record)
  BY EmptySeq
<1>8. \A rest \in Seq(Record) : \A end :
        f[1 + Len(Contents(rs))] = Read(rest, end) => f[1] = Read(rs \o rest, end)
  BY <1>1, <1>2, <1>3, <1>4, ReplaysRecords DEF in
<1>9. f[1] = Read(rs \o << >>, last)
  BY <1>6, <1>7, <1>8 DEF in
<1>10. QED
  BY <1>2, <1>9, ConcatEmptySeq, ReadAndRefused DEF in

\* Replay refuses a file in which something else follows them.
LEMMA RefusesLog ==
  ASSUME NEW in \in Text, NEW rs \in Seq(Record), Holds(in, 1, Contents(rs)),
         1 + Len(Contents(rs)) <= Len(in), in[1 + Len(Contents(rs))] \notin White,
         RecordAt(in, 1 + Len(Contents(rs))) = Refused
  PROVE  ~ReadLog(in).ok
<1> DEFINE here == 1 + Len(Contents(rs))
<1>1. Len(in) \in Nat /\ Len(Contents(rs)) \in Nat
  BY ContentsType, UnitsOf
<1>2. here \in 1 .. Len(in) + 1 /\ here \in 1 .. Len(in) /\ 1 \in 1 .. Len(in) + 1
  BY <1>1
<1>3. PICK f : Replays(f, in) /\ ReadLog(in) = f[1]
  BY LogReplays
<1>4. f[here] = Refused => f[1] = Refused
  BY <1>2, <1>3, ReplaysRecords
<1>5. in[here] \notin White /\ RecordAt(in, here) = Refused
  OBVIOUS
<1> HIDE DEF here
<1>6. RunEnd(in, here, White) = here
  <2>1. here \in here .. Len(in) + 1 /\ \A i \in here .. here - 1 : in[i] \in White
    BY <1>2
  <2>2. QED
    BY <1>2, <1>5, <2>1, RunEndIs
<1>7. f[here] = Refused
  <2>1. f[here] = LogStep(f, in, here)
    BY <1>2, <1>3, ReplaysAt
  <2>2. RunEnd(in, here, White) <= Len(in)
    BY <1>2, <1>6
  <2>3. QED
    BY <1>2, <1>5, <2>1, <2>2, LogStepIs
<1>8. QED
  BY <1>3, <1>4, <1>7, ReadAndRefused

-----------------------------------------------------------------------------
(* A record that is not whole *)

\* The records rs, and then the beginning of r: m units of the file are as in
\* one that holds rs and r, and of a verb there may be some letters more.
Torn(in, rs, r, m) ==
  LET full == Contents(Append(rs, r))
  IN  /\ m \in Len(Contents(rs)) .. Len(full) - 1 /\ Agree(in, full, m)
      /\ Len(in) = m \/ (Len(in) = m + 1 /\ in[m + 1] = "x")

LEMMA AgreeHolds ==
  ASSUME NEW in \in Text, NEW to \in Text, NEW e \in Nat, Agree(in, to, e),
         NEW pos \in Nat \ {0}, NEW s \in Text, pos + Len(s) <= e + 1
  PROVE  Holds(in, pos, s) <=> Holds(to, pos, s)
<1>1. Len(s) \in Nat /\ Len(in) \in Nat /\ Len(to) \in Nat
  BY UnitsOf
<1>2. pos + Len(s) <= Len(in) + 1 /\ pos + Len(s) <= Len(to) + 1
  BY <1>1 DEF Agree
<1>3. ASSUME NEW i \in 1 .. Len(s)
      PROVE  in[pos + i - 1] = to[pos + i - 1]
  <2>1. pos + i - 1 \in 1 .. e
    BY <1>1
  <2>2. QED
    BY <2>1 DEF Agree
<1>4. QED
  BY <1>2, <1>3 DEF Holds

LEMMA HoldsItself ==
  ASSUME NEW s \in Text
  PROVE  Holds(s, 1, s)
<1>1. \A i \in 1 .. Len(s) : 1 + i - 1 = i
  BY UnitsOf
<1>2. 1 + Len(s) <= Len(s) + 1
  BY UnitsOf
<1>3. QED
  BY <1>1, <1>2 DEF Holds

LEMMA FullIs ==
  ASSUME NEW rs \in Seq(Record), NEW r \in Record
  PROVE  LET c == Contents(rs)
             full == Contents(Append(rs, r))
         IN  /\ c \in Text /\ full \in Text /\ Len(c) \in Nat /\ Len(full) \in Nat
             /\ Len(full) = Len(c) + Len(Format(r)) /\ Len(Format(r)) \in Nat /\ Len(Format(r)) >= 2
             /\ Holds(full, 1, c) /\ Holds(full, 1 + Len(c), Format(r))
             /\ RecordAt(full, 1 + Len(c)) = Read(r, Len(full) + 1)
<1> DEFINE c == Contents(rs)
           f == Format(r)
           full == Contents(Append(rs, r))
<1>1. c \in Text /\ f \in Text /\ full = c \o f /\ Len(c) \in Nat /\ Len(f) \in Nat
  BY ContentsType, FormatIs, ContentsAppend, UnitsOf
<1>2. Len(f) >= 2
  BY FormatIs, RecordIs, FieldsType, DeadlineTextType
<1> HIDE DEF c, full
<1>3. full \in Text /\ Len(full) = Len(c) + Len(f)
  <2> HIDE DEF f
  <2>1. QED
    BY <1>1, ConcatProperties DEF Text
<1>4. Holds(full, 1, full)
  BY <1>3, HoldsItself
<1>5. Holds(full, 1, c) /\ Holds(full, 1 + Len(c), f)
  <2> HIDE DEF f
  <2>1. 1 \in Nat \ {0} /\ Holds(full, 1, c \o f)
    BY <1>1, <1>4
  <2>2. QED
    BY <1>1, <1>3, <2>1, HoldsConcat
<1>6. RecordAt(full, 1 + Len(c)) = Read(r, (1 + Len(c)) + Len(f))
  <2>1. 1 + Len(c) \in Nat \ {0}
    BY <1>1
  <2>2. QED
    BY <1>3, <1>5, <2>1, ReadsRecord
<1>7. (1 + Len(c)) + Len(f) = Len(full) + 1
  BY <1>1, <1>3
<1>8. QED
  BY <1>1, <1>2, <1>3, <1>5, <1>6, <1>7 DEF c, full

LEMMA TornRefused ==
  ASSUME NEW in \in Text, NEW rs \in Seq(Record), NEW r \in Record, NEW m, Torn(in, rs, r, m),
         in # Contents(rs)
  PROVE  ~ReadLog(in).ok
<1> DEFINE c == Contents(rs)
           f == Format(r)
           full == Contents(Append(rs, r))
           p == 1 + Len(c)
<1>1. /\ c \in Text /\ full \in Text /\ Len(c) \in Nat /\ Len(full) \in Nat
      /\ Len(full) = Len(c) + Len(f) /\ Len(f) \in Nat /\ Len(f) >= 2
      /\ Holds(full, 1, c) /\ Holds(full, p, f) /\ RecordAt(full, p) = Read(r, Len(full) + 1)
  BY FullIs
<1>2. /\ m \in Len(c) .. Len(full) - 1 /\ Agree(in, full, m)
      /\ Len(in) = m \/ (Len(in) = m + 1 /\ in[m + 1] = "x")
  BY DEF Torn
<1>3. Gets(full, p, r.verb)
  BY <1>1, FormatIs
<1> HIDE DEF full, f
<1>4. m \in Nat /\ Len(in) \in Nat
  BY <1>1, <1>2, UnitsOf
<1>5. Holds(in, 1, c)
  <2>1. 1 \in Nat \ {0} /\ 1 + Len(c) <= m + 1
    BY <1>1, <1>2
  <2>2. QED
    BY <1>1, <1>2, <1>4, <2>1, AgreeHolds
<1>6. Len(in) # Len(c)
  <2> SUFFICES ASSUME Len(in) = Len(c)
               PROVE  in = c
    OBVIOUS
  <2>1. \A i \in 1 .. Len(c) : in[i] = c[i]
    <3>1. \A i \in 1 .. Len(c) : in[1 + i - 1] = c[i] /\ 1 + i - 1 = i
      BY <1>1, <1>5 DEF Holds
    <3>2. QED
      BY <3>1
  <2> HIDE DEF c
  <2>2. QED
    BY <1>1, <2>1, SeqEqual DEF Text
<1>7. p \in 1 .. Len(in) /\ p \in 1 .. Len(in) + 1
  BY <1>1, <1>2, <1>4, <1>6
<1>8. in[p] \notin White
  <2>1. CASE p <= m
    <3>1. in[p] = full[p]
      BY <1>2, <1>7, <2>1 DEF Agree
    <3>2. in[p] \in Verb
      BY <1>3, <3>1, RecordIs DEF Gets
    <3>3. QED
      BY <3>2, ShapeIs DEF Verb, White
  <2>2. CASE ~(p <= m)
    <3>1. p = m + 1 /\ in[m + 1] = "x"
      BY <1>1, <1>2, <1>4, <1>7, <2>2
    <3>2. QED
      BY <3>1 DEF White
  <2>3. QED
    BY <2>1, <2>2
<1> HIDE DEF p, c
<1>9. RecordAt(in, p) = Refused
  <2> SUFFICES ASSUME RecordAt(in, p) # Refused
               PROVE  FALSE
    OBVIOUS
  <2>1. PICK v, e : RecordAt(in, p) = Read(v, e)
    BY <1>7, RecordReturns
  <2>2. e \in p + 1 .. Len(in) + 1 /\ in[e - 1] = "newline"
    BY <1>7, <2>1, RecordEnds
  <2>3. e - 1 \in 0 .. m
    BY <1>2, <1>4, <1>7, <2>2
  <2>4. Agree(in, full, e - 1)
    BY <1>1, <1>2, <1>4, <2>3, AgreeLess
  <2>5. RecordAt(full, p) = Read(v, e)
    BY <1>1, <1>7, <2>1, <2>4, RecordLocal
  <2>6. e = Len(full) + 1
    <3>1. Read(v, e).pos = e /\ Read(r, Len(full) + 1).pos = Len(full) + 1
      BY ReadIs
    <3>2. QED
      BY <1>1, <2>5, <3>1
  <2>7. QED
    BY <1>1, <1>2, <1>4, <2>3, <2>6
<1>10. QED
  <2>1. p <= Len(in)
    BY <1>7
  <2>2. QED
    BY <1>5, <1>8, <1>9, <2>1, RefusesLog DEF p, c

-----------------------------------------------------------------------------
(* A record that was written again *)

\* Fields that are refused stay refused, however many are asked for.
LEMMA RefusedStays ==
  ASSUME NEW in, NEW pos, NEW n \in Nat, ReadFields(in, pos, n) = Refused, NEW k \in Nat
  PROVE  ReadFields(in, pos, n + k) = Refused
<1> DEFINE S == {j \in Nat : ReadFields(in, pos, n + j) = Refused}
<1>1. 0 \in S
  BY n + 0 = n
<1>2. ASSUME NEW j \in S
      PROVE  j + 1 \in S
  <2>1. ReadFields(in, pos, n + j) = Refused /\ n + j \in Nat /\ n + (j + 1) = (n + j) + 1
    OBVIOUS
  <2> DEFINE m == n + j
  <2>2. m \in Nat /\ ReadFields(in, pos, m) = Refused
    BY <2>1
  <2> HIDE DEF m
  <2>3. ReadFields(in, pos, m + 1) = Refused
    BY <2>2, FieldsNext, NextFieldIs
  <2>4. QED
    BY <2>1, <2>3 DEF m
<1>3. S \subseteq Nat
  OBVIOUS
<1> HIDE DEF S
<1>4. S = Nat
  BY <1>1, <1>2, <1>3, InductionOnNat
<1>5. QED
  BY <1>4 DEF S

\* Fields are read after those that were, as if reading began there.
LEMMA FieldsGoOn ==
  ASSUME NEW in, NEW pos, NEW n \in Nat, NEW us, NEW z, ReadFields(in, pos, n) = Read(us, z),
         NEW k \in Nat
  PROVE  \/ ReadFields(in, z, k) = Refused /\ ReadFields(in, pos, n + k) = Refused
         \/ \E ws, vs, y : ReadFields(in, z, k) = Read(ws, y)
                             /\ ReadFields(in, pos, n + k) = Read(vs, y)
<1> DEFINE Same(j) == \/ ReadFields(in, z, j) = Refused /\ ReadFields(in, pos, n + j) = Refused
                      \/ \E ws, vs, y : ReadFields(in, z, j) = Read(ws, y)
                                          /\ ReadFields(in, pos, n + j) = Read(vs, y)
           S == {j \in Nat : Same(j)}
<1>1. 0 \in S
  <2>1. n + 0 = n /\ ReadFields(in, z, 0) = Read(<< >>, z)
    BY FieldsZero
  <2>2. Same(0)
    BY <2>1
  <2>3. QED
    BY <2>2
<1>2. ASSUME NEW j \in S
      PROVE  j + 1 \in S
  <2>1. j \in Nat /\ n + j \in Nat /\ n + (j + 1) = (n + j) + 1 /\ Same(j)
    OBVIOUS
  <2> DEFINE m == n + j
             x == ReadFields(in, z, j)
             y == ReadFields(in, pos, m)
  <2>2. m \in Nat /\ n + (j + 1) = m + 1
    BY <2>1
  <2>3. (x = Refused /\ y = Refused) \/ \E ws, vs, e : x = Read(ws, e) /\ y = Read(vs, e)
    BY <2>1
  <2> HIDE DEF m
  <2>4. ReadFields(in, z, j + 1) = NextField(in, x) /\ ReadFields(in, pos, m + 1) = NextField(in, y)
    BY <2>1, <2>2, FieldsNext
  <2> HIDE DEF x, y
  <2>5. CASE x = Refused /\ y = Refused
    <3>1. NextField(in, x) = Refused /\ NextField(in, y) = Refused
      BY <2>5, NextFieldIs
    <3>2. Same(j + 1)
      BY <2>2, <2>4, <3>1
    <3>3. QED
      BY <2>1, <3>2
  <2>6. CASE \E ws, vs, e : x = Read(ws, e) /\ y = Read(vs, e)
    <3>1. PICK ws, vs, e : x = Read(ws, e) /\ y = Read(vs, e)
      BY <2>6
    <3> DEFINE field == ReadField(in, e)
    <3>2. \A words : NextField(in, Read(words, e)) =
                       IF field.ok THEN Read(Append(words, field.value), field.pos) ELSE Refused
      <4> TAKE words
      <4>1. Read(words, e).ok /\ Read(words, e).value = words /\ Read(words, e).pos = e
        BY ReadAndRefused
      <4>2. QED
        BY <4>1 DEF NextField, AndThen
    <3> HIDE DEF field
    <3>3. CASE field.ok
      <4>1. /\ NextField(in, x) = Read(Append(ws, field.value), field.pos)
            /\ NextField(in, y) = Read(Append(vs, field.value), field.pos)
        BY <3>1, <3>2, <3>3
      <4>2. /\ ReadFields(in, z, j + 1) = Read(Append(ws, field.value), field.pos)
            /\ ReadFields(in, pos, n + (j + 1)) = Read(Append(vs, field.value), field.pos)
        BY <2>2, <2>4, <4>1
      <4>3. Same(j + 1)
        BY <4>2
      <4>4. QED
        BY <2>1, <4>3
    <3>4. CASE ~field.ok
      <4>1. NextField(in, x) = Refused /\ NextField(in, y) = Refused
        BY <3>1, <3>2, <3>4
      <4>2. Same(j + 1)
        BY <2>2, <2>4, <4>1
      <4>3. QED
        BY <2>1, <4>2
    <3>5. QED
      BY <3>3, <3>4
  <2>7. QED
    BY <2>3, <2>5, <2>6
<1>3. S \subseteq Nat
  OBVIOUS
<1> HIDE DEF S
<1>4. S = Nat
  BY <1>1, <1>2, <1>3, InductionOnNat
<1>5. Same(k)
  BY <1>4 DEF S
<1>6. QED
  BY <1>5

\* A number that a verb cuts short ends there.
LEMMA NumberCut ==
  ASSUME NEW in \in Text, NEW pos \in 1 .. Len(in), NEW g \in pos .. Len(in), in[g] \in Verb,
         \A i \in pos .. g - 1 : in[i] \in Digit
  PROVE  ReadNumber(in, pos) = Refused \/ \E n \in Nat : ReadNumber(in, pos) = Read(n, g)
<1>1. Len(in) \in Nat /\ pos \in 1 .. Len(in) + 1 /\ g \in pos .. Len(in) + 1
      /\ in[g] \notin White /\ in[g] \notin Digit
  BY UnitsOf, ShapeIs DEF Verb, White, Digit
<1>2. in[pos] \notin White
  <2>1. CASE pos = g
    BY <1>1, <2>1
  <2>2. CASE pos # g
    <3>1. pos \in pos .. g - 1
      BY <1>1, <2>2
    <3>2. QED
      BY <3>1 DEF Digit, White
  <2>3. QED
    BY <2>1, <2>2
<1>3. RunEnd(in, pos, White) = pos
  <2>1. pos \in pos .. Len(in) + 1 /\ \A i \in pos .. pos - 1 : in[i] \in White
    BY <1>1
  <2>2. QED
    BY <1>1, <1>2, <2>1, RunEndIs
<1>4. RunEnd(in, pos, Digit) = g
  BY <1>1, RunEndIs
<1>5. ReadNumber(in, pos) = IF pos = g THEN Refused ELSE Read(NumberOf(SubSeq(in, pos, g - 1)), g)
  BY <1>3, <1>4 DEF ReadNumber
<1>6. NumberOf(SubSeq(in, pos, g - 1)) \in Nat
  <2>1. pos \in Int /\ g - 1 \in Int
    BY <1>1
  <2>2. SubSeq(in, pos, g - 1) \in Seq(Digit)
    BY <2>1, SubSeqProperties
  <2>3. QED
    BY <2>2, NumberOfType
<1>7. QED
  BY <1>5, <1>6

\* What there is of a length, or a deadline, when a verb cuts it short at g.
Cut(in, pos, g) == /\ g \in pos .. Len(in) /\ in[g] \in Verb
                   /\ g > pos => in[pos] = "blank"
                   /\ \A i \in pos + 1 .. g - 1 : in[i] \in Digit

LEMMA CutIs ==
  ASSUME NEW in \in Text, NEW pos \in Nat \ {0}, NEW g, Cut(in, pos, g)
  PROVE  /\ ReadField(in, pos) = Refused
         /\ ReadDeadline(in, pos) = Refused \/ \E n \in Nat : ReadDeadline(in, pos) = Read(n, g)
<1>1. g \in pos .. Len(in) /\ Len(in) \in Nat /\ in[g] # "blank"
  BY UnitsOf, ShapeIs DEF Cut, Verb
<1>2. CASE g = pos
  <2>1. ~Gets(in, pos, "blank")
    BY <1>1, <1>2 DEF Gets
  <2>2. QED
    BY <2>1 DEF ReadField, ReadDeadline
<1>3. CASE g # pos
  <2>1. pos + 1 \in 1 .. Len(in) /\ g \in pos + 1 .. Len(in) /\ pos \in 1 .. Len(in)
        /\ Gets(in, pos, "blank")
    BY <1>1, <1>3 DEF Cut, Gets
  <2>2. \/ ReadNumber(in, pos + 1) = Refused
        \/ \E n \in Nat : ReadNumber(in, pos + 1) = Read(n, g)
    BY <2>1, NumberCut DEF Cut
  <2>3. ReadDeadline(in, pos) = ReadNumber(in, pos + 1)
    BY <2>1 DEF ReadDeadline
  <2>4. ReadField(in, pos) = Refused
    <3>1. CASE ReadNumber(in, pos + 1) = Refused
      <4>1. ~ReadNumber(in, pos + 1).ok
        BY <3>1, ReadAndRefused
      <4>2. QED
        BY <2>1, <4>1, FieldReads
    <3>2. CASE \E n \in Nat : ReadNumber(in, pos + 1) = Read(n, g)
      <4>1. PICK n \in Nat : ReadNumber(in, pos + 1) = Read(n, g)
        BY <3>2
      <4>2. ~Gets(in, g, "blank")
        BY <1>1 DEF Gets
      <4>3. QED
        BY <2>1, <4>1, <4>2, FieldMade
    <3>3. QED
      BY <2>2, <3>1, <3>2
  <2>5. QED
    BY <2>2, <2>3, <2>4
<1>4. QED
  BY <1>2, <1>3

LEMMA LongVerb ==
  ASSUME NEW in \in Text, NEW pos \in Nat \ {0}, pos + 1 <= Len(in),
         in[pos] \notin White, in[pos + 1] \notin White
  PROVE  RecordAt(in, pos) = Refused
<1> DEFINE stop == RunEnd(in, pos, Unit \ White)
           verb == SubSeq(in, pos, stop - 1)
<1>1. Len(in) \in Nat /\ pos \in 1 .. Len(in) + 1 /\ pos \in 1 .. Len(in) /\ pos + 1 \in 1 .. Len(in)
      /\ \A i \in 1 .. Len(in) : in[i] \in Unit
  BY UnitsOf
<1>2. RunEnd(in, pos, White) = pos
  <2>1. pos \in pos .. Len(in) + 1 /\ \A i \in pos .. pos - 1 : in[i] \in White
    BY <1>1
  <2>2. QED
    BY <1>1, <2>1, RunEndIs
<1>3. stop \in pos .. Len(in) + 1 /\ (stop <= Len(in) => in[stop] \notin Unit \ White)
  BY <1>1, RunEndType
<1>4. RecordAt(in, pos) = ReadRecord(in, verb, stop)
  BY <1>2 DEF RecordAt
<1> HIDE DEF stop
<1>5. stop # pos /\ stop # pos + 1
  BY <1>1, <1>3
<1>6. stop >= pos + 2 /\ stop \in Int /\ stop - 1 \in Int
  BY <1>1, <1>3, <1>5
<1>7. \A i \in pos .. stop - 1 : in[i] \in Unit
  BY <1>1, <1>3
<1>8. Len(verb) = IF pos <= stop - 1 THEN (stop - 1) - pos + 1 ELSE 0
  BY <1>6, <1>7, SubSeqProperties
<1>9. Len(verb) # 1
  BY <1>6, <1>8
<1> HIDE DEF verb
<1>10. verb \notin {<<v>> : v \in Verb}
  BY <1>9
<1>11. QED
  BY <1>4, <1>10, NoSuchVerb

LEMMA RecordFails ==
  ASSUME NEW in \in Text, NEW pos \in 1 .. Len(in), in[pos] \in Verb, Gets(in, pos + 1, "blank")
  PROVE  LET fields == ReadFields(in, pos + 1, Arity(in[pos]))
         IN  /\ fields = Refused => RecordAt(in, pos) = Refused
             /\ \A ws, at : fields = Read(ws, at) =>
                  /\ in[pos] # "EXPIRE" /\ ~Gets(in, at, "newline") => RecordAt(in, pos) = Refused
                  /\ in[pos] = "EXPIRE" /\ ReadDeadline(in, at) = Refused
                       => RecordAt(in, pos) = Refused
                  /\ \A d, end : in[pos] = "EXPIRE" /\ ReadDeadline(in, at) = Read(d, end)
                                   /\ ~Gets(in, end, "newline") => RecordAt(in, pos) = Refused
<1> DEFINE v == in[pos]
           fields == ReadFields(in, pos + 1, Arity(v))
           deadline == ReadDeadline(in, fields.pos)
<1>1. RecordAt(in, pos) =
        IF v = "EXPIRE"
        THEN IF fields.ok
             THEN IF deadline.ok
                  THEN IF Gets(in, deadline.pos, "newline")
                       THEN Read([verb |-> "EXPIRE", words |-> fields.value,
                                  deadline |-> deadline.value], deadline.pos + 1)
                       ELSE Refused
                  ELSE Refused
             ELSE Refused
        ELSE IF fields.ok
             THEN IF Gets(in, fields.pos, "newline")
                  THEN Read([verb |-> v, words |-> fields.value], fields.pos + 1)
                  ELSE Refused
             ELSE Refused
  BY VerbReads, ReadRecordIs
<1> HIDE DEF fields
<1>2. fields = Refused => RecordAt(in, pos) = Refused
  BY <1>1, ReadAndRefused
<1>3. ASSUME NEW ws, NEW at, fields = Read(ws, at)
      PROVE  /\ v # "EXPIRE" /\ ~Gets(in, at, "newline") => RecordAt(in, pos) = Refused
             /\ v = "EXPIRE" /\ ReadDeadline(in, at) = Refused => RecordAt(in, pos) = Refused
             /\ \A d, end : v = "EXPIRE" /\ ReadDeadline(in, at) = Read(d, end)
                              /\ ~Gets(in, end, "newline") => RecordAt(in, pos) = Refused
  <2>1. fields.ok /\ fields.value = ws /\ fields.pos = at
    BY <1>3, ReadAndRefused
  <2>2. v # "EXPIRE" /\ ~Gets(in, at, "newline") => RecordAt(in, pos) = Refused
    BY <1>1, <2>1
  <2>3. deadline = ReadDeadline(in, at)
    BY <2>1
  <2> HIDE DEF deadline
  <2>4. v = "EXPIRE" /\ ReadDeadline(in, at) = Refused => RecordAt(in, pos) = Refused
    BY <1>1, <2>1, <2>3, ReadAndRefused
  <2>5. ASSUME NEW d, NEW end, v = "EXPIRE", ReadDeadline(in, at) = Read(d, end),
               ~Gets(in, end, "newline")
        PROVE  RecordAt(in, pos) = Refused
    <3>1. deadline.ok /\ deadline.pos = end
      BY <2>3, <2>5, ReadAndRefused
    <3>2. QED
      BY <1>1, <2>1, <2>5, <3>1
  <2>6. QED
    BY <2>2, <2>4, <2>5
<1>4. QED
  BY <1>2, <1>3 DEF fields

\* From p on, k units of f, of a verb maybe some letters more, and from g on f.
Again(in, p, f, k, g) ==
  /\ k \in 0 .. Len(f) - 1 /\ \A i \in 1 .. k : in[p + i - 1] = f[i]
  /\ g > p
  /\ g = p + k \/ (g = p + k + 1 /\ in[p + k] = "x" /\ f[k + 1] \in Verb)
  /\ Holds(in, g, f) /\ Len(in) = g + Len(f) - 1

LEMMA AgainHolds ==
  ASSUME NEW in \in Text, NEW p \in Nat \ {0}, NEW f \in Text, NEW k, NEW g, Again(in, p, f, k, g),
         NEW j \in Nat \ {0}
  PROVE  /\ \A s \in Text : Holds(f, j, s) =>
              /\ Holds(in, g + j - 1, s)
              /\ j + Len(s) <= k + 1 => Holds(in, p + j - 1, s)
         /\ \A u : Gets(f, j, u) =>
              /\ Gets(in, g + j - 1, u)
              /\ j <= k => Gets(in, p + j - 1, u)
<1>1. Len(f) \in Nat /\ Len(in) \in Nat /\ k \in Nat /\ g \in Nat \ {0} /\ g + Len(f) = Len(in) + 1
      /\ k <= Len(f) - 1 /\ p + k <= g
  <2>1. Len(f) \in Nat /\ Len(in) \in Nat
    BY UnitsOf
  <2>2. QED
    BY <2>1 DEF Again
<1>2. \A i \in 1 .. k : in[p + i - 1] = f[i]
  BY DEF Again
<1>3. \A i \in 1 .. Len(f) : in[g + i - 1] = f[i]
  BY DEF Again, Holds
<1>4. ASSUME NEW s \in Text, Holds(f, j, s)
      PROVE  /\ Holds(in, g + j - 1, s)
             /\ j + Len(s) <= k + 1 => Holds(in, p + j - 1, s)
  <2>1. Len(s) \in Nat /\ j + Len(s) <= Len(f) + 1 /\ \A i \in 1 .. Len(s) : f[j + i - 1] = s[i]
    BY <1>4, UnitsOf DEF Holds
  <2>2. ASSUME NEW i \in 1 .. Len(s)
        PROVE  in[(g + j - 1) + i - 1] = s[i]
    <3>1. j + i - 1 \in 1 .. Len(f) /\ g + (j + i - 1) - 1 = (g + j - 1) + i - 1
      BY <1>1, <2>1
    <3>2. in[g + (j + i - 1) - 1] = f[j + i - 1]
      BY <1>3, <3>1
    <3>3. QED
      BY <2>1, <3>1, <3>2
  <2>3. ASSUME j + Len(s) <= k + 1, NEW i \in 1 .. Len(s)
        PROVE  in[(p + j - 1) + i - 1] = s[i]
    <3>1. j + i - 1 \in 1 .. k /\ p + (j + i - 1) - 1 = (p + j - 1) + i - 1
      BY <1>1, <2>1, <2>3
    <3>2. in[p + (j + i - 1) - 1] = f[j + i - 1]
      BY <1>2, <3>1
    <3>3. QED
      BY <2>1, <3>1, <3>2
  <2>4. (g + j - 1) + Len(s) <= Len(in) + 1
    BY <1>1, <2>1
  <2>5. j + Len(s) <= k + 1 => (p + j - 1) + Len(s) <= Len(in) + 1
    BY <1>1, <2>1
  <2>6. QED
    BY <2>2, <2>3, <2>4, <2>5 DEF Holds
<1>5. ASSUME NEW u, Gets(f, j, u)
      PROVE  /\ Gets(in, g + j - 1, u)
             /\ j <= k => Gets(in, p + j - 1, u)
  <2>1. j \in 1 .. Len(f) /\ f[j] = u
    BY <1>1, <1>5 DEF Gets
  <2>2. in[g + j - 1] = u /\ g + j - 1 <= Len(in)
    BY <1>1, <1>3, <2>1
  <2>3. j <= k => in[p + j - 1] = u /\ p + j - 1 <= Len(in)
    BY <1>1, <1>2, <2>1
  <2>4. QED
    BY <2>2, <2>3 DEF Gets
<1>6. QED
  BY <1>4, <1>5

LEMMA FormatHolds ==
  ASSUME NEW r \in Record
  PROVE  LET f == Format(r)
             n == Len(Fields(r.words))
             d == Len(DeadlineText(r))
         IN  /\ f \in Text /\ n \in Nat /\ d \in Nat /\ Len(f) = 2 + n + d
             /\ Gets(f, 1, r.verb) /\ Gets(f, 2, "blank")
             /\ Holds(f, 2, Fields(r.words)) /\ Holds(f, 2 + n, DeadlineText(r))
             /\ Gets(f, 2 + n + d, "newline")
<1> DEFINE f == Format(r)
<1>1. f \in Text /\ Len(f) = 2 + Len(Fields(r.words)) + Len(DeadlineText(r))
  BY FormatIs
<1>2. Len(Fields(r.words)) \in Nat /\ Len(DeadlineText(r)) \in Nat
  BY RecordIs, FieldsType, DeadlineTextType
<1>3. Holds(f, 1, f)
  BY <1>1, HoldsItself
<1>4. /\ Gets(f, 1, r.verb)
      /\ Holds(f, 1 + 1, Fields(r.words))
      /\ Holds(f, 1 + 1 + Len(Fields(r.words)), DeadlineText(r))
      /\ Gets(f, 1 + 1 + Len(Fields(r.words)) + Len(DeadlineText(r)), "newline")
  <2>1. 1 \in Nat \ {0}
    OBVIOUS
  <2>2. QED
    BY <1>1, <1>3, <2>1, FormatIs
<1>5. 1 + 1 = 2
  OBVIOUS
<1> HIDE DEF f
<1>6. Holds(f, 2, Fields(r.words)) /\ Holds(f, 2 + Len(Fields(r.words)), DeadlineText(r))
      /\ Gets(f, 2 + Len(Fields(r.words)) + Len(DeadlineText(r)), "newline")
  BY <1>4, <1>5
<1>7. Gets(f, 2, "blank")
  <2>1. r.words \in Seq(Text) /\ Len(r.words) # 0 /\ 2 \in Nat \ {0}
    BY RecordIs
  <2>2. QED
    BY <1>1, <1>6, <2>1, FieldsBegin
<1>8. QED
  BY <1>1, <1>2, <1>4, <1>6, <1>7 DEF f

LEMMA DeadlineUnits ==
  ASSUME NEW r \in Record, NEW i \in 1 .. Len(DeadlineText(r))
  PROVE  /\ r.verb = "EXPIRE"
         /\ i = 1 => DeadlineText(r)[i] = "blank"
         /\ i # 1 => DeadlineText(r)[i] \in Digit
<1>1. r.verb = "EXPIRE"
  <2>1. r.verb # "EXPIRE" => Len(DeadlineText(r)) = 0
    BY EmptySeq DEF DeadlineText
  <2>2. QED
    BY <2>1
<1> DEFINE b == <<"blank">>
           d == Digits(r.deadline)
<1>2. DeadlineText(r) = b \o d
  BY <1>1 DEF DeadlineText
<1>3. b \in Text /\ Len(b) = 1 /\ b[1] = "blank"
  BY DEF Text, Unit, White
<1>4. d \in Seq(Digit) /\ d \in Text /\ Len(d) \in Nat
  BY <1>1, RecordIs, DigitsReadBack, DigitsAreText, UnitsOf
<1> HIDE DEF b, d
<1>5. Len(b \o d) = Len(b) + Len(d)
      /\ \A j \in 1 .. Len(b) + Len(d) : (b \o d)[j] = IF j <= Len(b) THEN b[j] ELSE d[j - Len(b)]
  BY <1>3, <1>4, ConcatProperties DEF Text
<1>6. i \in 1 .. 1 + Len(d)
  BY <1>2, <1>3, <1>5
<1>7. i # 1 => i - 1 \in 1 .. Len(d) /\ d[i - 1] \in Digit
  BY <1>4, <1>6, ElementOfSeq
<1>8. QED
  BY <1>1, <1>2, <1>3, <1>5, <1>6, <1>7

\* What any record that was written again begins with.
LEMMA AgainBegins ==
  ASSUME NEW in \in Text, NEW p \in Nat \ {0}, NEW r \in Record, NEW k, NEW g,
         Again(in, p, Format(r), k, g)
  PROVE  /\ p \in 1 .. Len(in) /\ k \in Nat /\ g \in p + k .. p + k + 1 /\ g \in p + 1 .. Len(in)
         /\ in[g] = r.verb /\ r.verb \in Verb
         /\ in[p] \notin White
         /\ k >= 2 => in[p] = r.verb /\ Gets(in, p + 1, "blank")
         /\ k < 2 => RecordAt(in, p) = Refused
<1> DEFINE f == Format(r)
<1>1. f \in Text /\ Len(f) \in Nat /\ Len(f) >= 2 /\ Gets(f, 1, r.verb) /\ Gets(f, 2, "blank")
  BY FormatHolds
<1>2. Len(in) \in Nat
  BY UnitsOf
<1> HIDE DEF f
<1>3. /\ k \in 0 .. Len(f) - 1
      /\ g > p
      /\ g = p + k \/ (g = p + k + 1 /\ in[p + k] = "x" /\ f[k + 1] \in Verb)
      /\ Holds(in, g, f) /\ Len(in) = g + Len(f) - 1
  BY DEF Again, f
<1>4. k \in Nat /\ g \in p + k .. p + k + 1 /\ g \in p + 1 .. Len(in) /\ p \in 1 .. Len(in)
  BY <1>1, <1>2, <1>3
<1>5. 1 \in Nat \ {0} /\ 2 \in Nat \ {0} /\ g + 1 - 1 = g /\ p + 1 - 1 = p /\ p + 2 - 1 = p + 1
  BY <1>4
<1>6. Gets(in, g, r.verb) /\ (1 <= k => Gets(in, p, r.verb))
  <2>1. Gets(in, g + 1 - 1, r.verb) /\ (1 <= k => Gets(in, p + 1 - 1, r.verb))
    BY <1>1, <1>5, AgainHolds DEF f
  <2>2. QED
    BY <1>5, <2>1
<1>7. 2 <= k => Gets(in, p + 1, "blank")
  <2>1. 2 <= k => Gets(in, p + 2 - 1, "blank")
    BY <1>1, <1>5, AgainHolds DEF f
  <2>2. QED
    BY <1>5, <2>1
<1>8. r.verb \in Verb /\ r.verb \notin White
  BY RecordIs, ShapeIs DEF Verb, White
<1>9. k = 0 => in[p] = "x"
  BY <1>3, <1>4
<1>10. in[p] \notin White
  <2>1. CASE k = 0
    BY <1>9, <2>1 DEF White
  <2>2. CASE k # 0
    BY <1>4, <1>6, <1>8, <2>2 DEF Gets
  <2>3. QED
    BY <2>1, <2>2
<1>11. k < 2 => g = p + 1
  <2>1. CASE k = 0
    BY <1>3, <1>4, <2>1
  <2>2. CASE k = 1
    <3>1. f[2] \notin Verb
      BY <1>1, ShapeIs DEF Gets, Verb
    <3>2. QED
      BY <1>3, <1>4, <2>2, <3>1
  <2>3. QED
    BY <1>4, <2>1, <2>2
<1>12. k < 2 => RecordAt(in, p) = Refused
  BY <1>4, <1>6, <1>8, <1>10, <1>11, LongVerb DEF Gets
<1>13. QED
  BY <1>4, <1>6, <1>7, <1>8, <1>10, <1>12 DEF Gets

\* Written again when all its words were there already.
LEMMA AgainLate ==
  ASSUME NEW in \in Text, NEW p \in Nat \ {0}, NEW r \in Record, NEW k, NEW g,
         Again(in, p, Format(r), k, g), k >= 1 + Len(Fields(r.words))
  PROVE  RecordAt(in, p) = Refused
<1> DEFINE f == Format(r)
           n == Len(Fields(r.words))
           d == Len(DeadlineText(r))
           at == p + 1 + n
<1>1. /\ f \in Text /\ n \in Nat /\ d \in Nat /\ Len(f) = 2 + n + d
      /\ Holds(f, 2, Fields(r.words)) /\ Holds(f, 2 + n, DeadlineText(r))
      /\ Gets(f, 2 + n + d, "newline")
  BY FormatHolds
<1>2. /\ p \in 1 .. Len(in) /\ k \in Nat /\ g \in p + k .. p + k + 1 /\ g \in p + 1 .. Len(in)
      /\ in[g] = r.verb /\ r.verb \in Verb
      /\ k >= 2 => in[p] = r.verb /\ Gets(in, p + 1, "blank")
      /\ k < 2 => RecordAt(in, p) = Refused
  BY AgainBegins
<1>3. /\ k \in 0 .. 1 + n + d /\ k >= 1 + n
      /\ g = p + k \/ (g = p + k + 1 /\ f[k + 1] \in Verb)
      /\ \A i \in 1 .. k : in[p + i - 1] = f[i]
  BY <1>1 DEF Again
<1>4. CASE k < 2
  BY <1>2, <1>4
<1>5. CASE k >= 2
  <2>1. in[p] = r.verb /\ Gets(in, p + 1, "blank")
    BY <1>2, <1>5
  <2>2. r.words \in Seq(Text) /\ Fields(r.words) \in Text /\ Arity(in[p]) = Len(r.words)
        /\ DeadlineText(r) \in Text
    BY <2>1, RecordIs, FieldsType, DeadlineTextType
  <2>3. Holds(in, p + 1, Fields(r.words))
    <3>1. 2 \in Nat \ {0} /\ 2 + n <= k + 1 /\ p + 2 - 1 = p + 1
      BY <1>1, <1>2, <1>3
    <3> HIDE DEF f
    <3>2. Holds(in, p + 2 - 1, Fields(r.words))
      BY <1>1, <2>2, <3>1, AgainHolds DEF f
    <3>3. QED
      BY <3>1, <3>2
  <2>4. p + 1 \in 1 .. Len(in) + 1 /\ at \in Nat \ {0}
    BY SMTT(30), <1>1, <1>2
  <2>5. ReadFields(in, p + 1, Arity(in[p])) = Read(r.words, at)
    <3>1. ReadFields(in, p + 1, Len(r.words)) = Read(r.words, p + 1 + n)
      BY <2>2, <2>3, <2>4, ReadsFields
    <3>2. QED
      BY <2>2, <3>1
  <2>6. \A i \in 1 .. d : f[1 + n + i] = DeadlineText(r)[i]
    <3>1. \A i \in 1 .. d : f[(2 + n) + i - 1] = DeadlineText(r)[i]
      BY <1>1 DEF Holds
    <3>2. \A i \in 1 .. d : (2 + n) + i - 1 = 1 + n + i
      BY <1>1
    <3>3. QED
      BY <3>1, <3>2
  <2>7. g = p + k
    <3> SUFFICES ASSUME f[k + 1] \in Verb
                 PROVE  FALSE
      BY <1>3
    <3>1. CASE k + 1 = 2 + n + d
      BY <1>1, <3>1, ShapeIs DEF Gets, Verb
    <3>2. CASE k + 1 # 2 + n + d
      <4> DEFINE i == k - n
      <4>1. i \in 1 .. d /\ 1 + n + i = k + 1
        BY SMTT(30), <1>1, <1>2, <1>3, <3>2
      <4>2. DeadlineText(r)[i] = "blank" \/ DeadlineText(r)[i] \in Digit
        BY <4>1, DeadlineUnits
      <4>3. f[k + 1] = DeadlineText(r)[i]
        BY <2>6, <4>1
      <4>4. QED
        BY <4>2, <4>3, ShapeIs DEF Verb, Digit
    <3>3. QED
      BY <3>1, <3>2
  <2>8. CASE r.verb # "EXPIRE"
    <3>1. d = 0
      BY <2>8, EmptySeq DEF DeadlineText
    <3>2. at = g
      BY <1>1, <1>2, <1>3, <2>7, <3>1
    <3>3. ~Gets(in, at, "newline")
      BY <1>2, <3>2, ShapeIs DEF Gets, Verb
    <3>4. QED
      BY <1>2, <2>1, <2>5, <2>8, <3>3, RecordFails
  <2>9. CASE r.verb = "EXPIRE"
    <3>1. g \in at .. Len(in)
      BY SMTT(30), <1>1, <1>2, <1>3, <2>7
    <3>2. ASSUME g > at
          PROVE  in[at] = "blank"
      <4>1. 2 + n \in 1 .. k /\ p + (2 + n) - 1 = at /\ 1 \in 1 .. d /\ 1 + n + 1 = 2 + n
        BY SMTT(30), <1>1, <1>2, <1>3, <2>7, <3>2
      <4>2. in[p + (2 + n) - 1] = f[2 + n]
        BY <1>3, <4>1
      <4>3. f[1 + n + 1] = DeadlineText(r)[1]
        BY <2>6, <4>1
      <4>4. DeadlineText(r)[1] = "blank"
        BY <4>1, DeadlineUnits
      <4>5. QED
        BY <4>1, <4>2, <4>3, <4>4
    <3>3. ASSUME NEW i \in at + 1 .. g - 1
          PROVE  in[i] \in Digit
      <4> DEFINE j == i - p + 1
                 l == i - p - n
      <4>1. j \in 1 .. k /\ p + j - 1 = i /\ l \in 1 .. d /\ l # 1 /\ 1 + n + l = j
        BY SMTT(30), <1>1, <1>2, <1>3, <2>7
      <4>2. in[p + j - 1] = f[j]
        BY <1>3, <4>1
      <4>3. f[1 + n + l] = DeadlineText(r)[l]
        BY <2>6, <4>1
      <4> HIDE DEF l
      <4>4. DeadlineText(r)[l] \in Digit
        BY <4>1, DeadlineUnits
      <4>5. QED
        BY <4>1, <4>2, <4>3, <4>4
    <3>4. Cut(in, at, g)
      BY <1>2, <3>1, <3>2, <3>3 DEF Cut
    <3>5. ReadDeadline(in, at) = Refused \/ \E m \in Nat : ReadDeadline(in, at) = Read(m, g)
      BY <2>4, <3>4, CutIs
    <3>6. ~Gets(in, g, "newline")
      BY <1>2, ShapeIs DEF Gets, Verb
    <3>7. QED
      BY <1>2, <2>1, <2>5, <2>9, <3>5, <3>6, RecordFails
  <2>10. QED
    BY <2>8, <2>9
<1>6. QED
  BY <1>2, <1>4, <1>5

\* What comes at a place among the fields belongs to one of them.
LEMMA FieldCutAt ==
  ASSUME NEW ws \in Seq(Text), NEW h \in Nat, h < Len(Fields(ws))
  PROVE  \E i \in 1 .. Len(ws) :
           /\ Len(Fields(SubSeq(ws, 1, i - 1))) <= h
           /\ h < Len(Fields(SubSeq(ws, 1, i - 1))) + Len(<<"blank">> \o Field(ws[i]))
<1> DEFINE n == Len(ws)
           to(i) == SubSeq(ws, 1, i)
           T == {i \in Nat : i <= n /\ h < Len(Fields(to(i)))}
<1>1. n \in Nat /\ \A j \in 1 .. n : ws[j] \in Text
  BY LenProperties, ElementOfSeq
<1>2. n \in T
  <2>1. to(n) = ws
    BY SubSeqFull
  <2>2. h < Len(Fields(to(n)))
    BY ONLY <2>1, h < Len(Fields(ws))
  <2>3. n <= n
    BY <1>1
  <2> HIDE DEF n, to
  <2>4. QED
    BY <1>1, <2>2, <2>3
<1>3. T \subseteq Nat
  OBVIOUS
<1>4. PICK i \in T : \A j \in T : i <= j
  <2> HIDE DEF T
  <2>1. QED
    BY <1>2, <1>3, LeastNat
<1>5. i # 0
  <2>1. to(0) = << >>
    BY SubSeqEmpty
  <2>2. Len(Fields(to(0))) = 0
    BY <2>1, FieldsEmpty, EmptySeq
  <2>3. QED
    BY <1>4, <2>2
<1>6. i \in 1 .. n /\ i - 1 \in Nat /\ i - 1 <= n
  BY <1>1, <1>4, <1>5
<1>7. /\ to(i - 1) \in Seq(Text)
      /\ ws[i] \in Text
  BY <1>6, FieldsSplit
<1>8. to(i) = to(i - 1) \o <<ws[i]>>
  <2>1. 1 \in 1 .. Len(ws) /\ i \in 1 .. Len(ws)
    BY <1>1, <1>6
  <2>2. QED
    BY <2>1, SubSeqRecursiveSecond
<1> DEFINE u == to(i - 1)
           w == ws[i]
           f == <<"blank">> \o Field(w)
<1>9. Len(Fields(to(i))) = Len(Fields(u)) + Len(f)
  <2>1. u \in Seq(Text) /\ w \in Text /\ to(i) = u \o <<w>>
    BY <1>7, <1>8
  <2> HIDE DEF u, w, to
  <2>2. Append(u, w) = u \o <<w>>
    BY <2>1, AppendIsConcat
  <2>3. Fields(to(i)) = Fields(u) \o f
    BY <2>1, <2>2, FieldsAppend
  <2>4. Fields(u) \in Text /\ f \in Text
    BY <2>1, FieldsType, FieldIs
  <2> HIDE DEF f
  <2>5. QED
    BY <2>3, <2>4, ConcatProperties DEF Text
<1>10. h < Len(Fields(to(i)))
  BY <1>4
<1>11. ~(h < Len(Fields(u)))
  <2> SUFFICES ASSUME h < Len(Fields(u))
               PROVE  FALSE
    OBVIOUS
  <2>1. i - 1 \in T
    BY <1>6
  <2> HIDE DEF T
  <2>2. i <= i - 1
    BY <1>4, <2>1
  <2>3. QED
    BY <1>6, <2>2
<1>12. Len(Fields(u)) \in Nat /\ Len(f) \in Nat
  BY <1>7, FieldsType, FieldIs, UnitsOf
<1> HIDE DEF f
<1>13. Len(Fields(u)) <= h /\ h < Len(Fields(u)) + Len(f)
  <2> HIDE DEF u, T
  <2>1. QED
    BY <1>9, <1>10, <1>11, <1>12
<1>14. QED
  BY <1>6, <1>13 DEF f

\* The first units of a record: a verb, a blank, digits, a blank.
LEMMA HeadUnits ==
  ASSUME NEW r \in Record
  PROVE  LET f == Format(r)
             d == Len(Digits(Len(r.words[1])))
         IN  /\ d \in Nat /\ d >= 1 /\ Len(f) >= 3 + d
             /\ \A q \in 0 .. 1 + d :
                  /\ f[q + 1] # "newline"
                  /\ q # 1 => f[q + 1] # "blank"
                  /\ q # 0 => f[q + 1] \notin Verb
<1> DEFINE f == Format(r)
           ws == r.words
           w == ws[1]
           t == <<"blank">> \o Field(w)
           us == SubSeq(ws, 1, 1 - 1)
           d == Len(Digits(Len(w)))
<1>1. f \in Text /\ Gets(f, 1, r.verb) /\ Gets(f, 2, "blank") /\ Holds(f, 2, Fields(ws))
  BY FormatHolds
<1>2. ws \in Seq(Text) /\ Len(ws) \in Nat \ {0} /\ 1 \in 1 .. Len(ws)
  BY RecordIs
<1>3. us = << >>
  BY SubSeqEmpty
<1>4. w \in Text /\ Holds(f, 2 + Len(Fields(us)), t)
  <2>1. /\ w \in Text
        /\ \A in \in Text, pos \in Nat \ {0} :
             Holds(in, pos, Fields(ws)) => Holds(in, pos + Len(Fields(us)), t)
    BY <1>2, FieldsSplit
  <2>2. 2 \in Nat \ {0}
    OBVIOUS
  <2> HIDE DEF f, ws, us, w
  <2>3. QED
    BY <1>1, <2>1, <2>2
<1>5. Len(Fields(us)) = 0
  BY <1>3, FieldsEmpty, EmptySeq
<1>6. Holds(f, 2, t)
  <2> HIDE DEF f, us, t
  <2>1. 2 + Len(Fields(us)) = 2
    BY <1>5
  <2>2. QED
    BY <1>4, <2>1
<1>7. Len(w) \in Nat /\ d \in Nat /\ d >= 1 /\ Digits(Len(w)) \in Seq(Digit)
  <2>1. Len(w) \in Nat
    BY <1>4, UnitsOf
  <2>2. Digits(Len(w)) \in Seq(Digit) /\ d >= 1
    BY <2>1, DigitsReadBack
  <2>3. QED
    BY <2>1, <2>2, LenProperties
<1>8. Holds(f, 3, Digits(Len(w))) /\ Gets(f, 3 + d, "blank")
  <2>1. \A in \in Text, pos \in Nat \ {0} :
          Holds(in, pos, t)
                 => /\ Holds(in, pos + 1, Digits(Len(w)))
                    /\ Gets(in, pos + 1 + Len(Digits(Len(w))), "blank")
    BY <1>4, FieldIs
  <2>2. 2 \in Nat \ {0} /\ 2 + 1 = 3
    OBVIOUS
  <2> HIDE DEF f, t, w
  <2>3. Holds(f, 2 + 1, Digits(Len(w))) /\ Gets(f, 2 + 1 + Len(Digits(Len(w))), "blank")
    BY <1>1, <1>6, <2>1, <2>2
  <2>4. QED
    BY <2>2, <2>3
<1> HIDE DEF f, w
<1>9. f[1] = r.verb /\ f[2] = "blank" /\ 3 + d <= Len(f)
  BY <1>1, <1>8 DEF Gets
<1>10. r.verb \in Verb /\ r.verb # "newline" /\ r.verb # "blank"
  BY RecordIs, ShapeIs DEF Verb
<1>11. ASSUME NEW q \in 2 .. 1 + d
       PROVE  f[q + 1] \in Digit
  <2>1. q - 1 \in 1 .. d /\ 3 + (q - 1) - 1 = q + 1
    BY <1>7
  <2>2. f[3 + (q - 1) - 1] = Digits(Len(w))[q - 1]
    BY <1>8, <2>1 DEF Holds
  <2>3. Digits(Len(w))[q - 1] \in Digit
    BY <1>7, <2>1, ElementOfSeq
  <2>4. QED
    BY <2>1, <2>2, <2>3
<1>12. ASSUME NEW q \in 0 .. 1 + d
       PROVE  /\ f[q + 1] # "newline"
              /\ q # 1 => f[q + 1] # "blank"
              /\ q # 0 => f[q + 1] \notin Verb
  <2>1. q = 0 \/ q = 1 \/ q \in 2 .. 1 + d
    BY <1>7
  <2>2. CASE q = 0
    BY <1>9, <1>10, <2>2
  <2>3. CASE q = 1
    BY <1>9, <2>3, ShapeIs DEF Verb
  <2>4. CASE q \in 2 .. 1 + d
    BY <1>11, <2>4, ShapeIs DEF Verb, Digit
  <2>5. QED
    BY <2>1, <2>2, <2>3, <2>4
<1>13. Len(f) >= 3 + d
  <2>1. Len(f) \in Nat
    BY <1>1, UnitsOf
  <2>2. QED
    BY <1>7, <1>9, <2>1
<1>14. QED
  BY <1>7, <1>12, <1>13 DEF f, w

\* A record that was written again and whose first words end in the units that
\* the second one begins with, is refused: the words that follow there are of
\* the second one's first words, and no newline comes after them.
LEMMA AgainTail ==
  ASSUME NEW in \in Text, NEW p \in Nat \ {0}, NEW r \in Record, NEW k, NEW g,
         Again(in, p, Format(r), k, g), k >= 2,
         NEW i \in 1 .. Len(r.words), NEW xs, NEW q \in 0 .. 1 + Len(Digits(Len(r.words[1]))),
         ReadFields(in, p + 1, i) = Read(xs, g + q)
  PROVE  RecordAt(in, p) = Refused
<1> DEFINE f == Format(r)
           ws == r.words
           n == Len(ws)
           d == Len(Digits(Len(ws[1])))
           z == g + q
<1>1. /\ p \in 1 .. Len(in) /\ k \in Nat /\ g \in p + 1 .. Len(in)
      /\ in[p] = r.verb /\ Gets(in, p + 1, "blank") /\ r.verb \in Verb
  BY AgainBegins
<1>2. /\ ws \in Seq(Text) /\ n \in Nat \ {0} /\ Arity(in[p]) = n
      /\ (in[p] = "EXPIRE" => n = 1)
  BY <1>1, RecordIs DEF Arity
<1>3. d \in Nat /\ d >= 1 /\ Len(f) \in Nat /\ Len(f) >= 3 + d /\ f \in Text
      /\ \A j \in 0 .. 1 + d : f[j + 1] # "newline" /\ (j # 1 => f[j + 1] # "blank")
  BY HeadUnits, FormatHolds, UnitsOf
<1>4. Holds(in, g, f) /\ Len(in) = g + Len(f) - 1
  BY DEF Again
<1>5. \A u : Gets(f, 2, u) => Gets(in, g + 1, u)
  <2>1. 2 \in Nat \ {0} /\ g + 2 - 1 = g + 1
    BY <1>1
  <2>2. QED
    BY <1>3, <2>1, AgainHolds
<1>6. Holds(in, g + 1, Fields(ws))
  <2>1. 2 \in Nat \ {0} /\ g + 2 - 1 = g + 1
    BY <1>1
  <2>2. Holds(f, 2, Fields(ws)) /\ Fields(ws) \in Text
    BY <1>2, FormatHolds, FieldsType
  <2>3. \A s \in Text : Holds(f, 2, s) => Holds(in, g + 2 - 1, s)
    BY <1>3, <2>1, AgainHolds
  <2> HIDE DEF f, ws
  <2>4. QED
    BY <2>1, <2>2, <2>3
<1> HIDE DEF f
<1>7. z \in 1 .. Len(in) /\ in[z] = f[q + 1]
  <2>1. q + 1 \in 1 .. Len(f) /\ g + (q + 1) - 1 = z
    BY <1>1, <1>3
  <2>2. in[g + (q + 1) - 1] = f[q + 1]
    BY <1>4, <2>1 DEF Holds
  <2>3. QED
    BY <1>1, <1>3, <1>4, <2>1, <2>2
<1>8. ~Gets(in, z, "newline") /\ (q # 1 => ~Gets(in, z, "blank"))
  BY <1>3, <1>7 DEF Gets
<1>9. ReadFields(in, p + 1, i) = Read(xs, z)
  OBVIOUS
<1> HIDE DEF z
<1>10. CASE i = n /\ in[p] # "EXPIRE"
  BY <1>1, <1>2, <1>8, <1>9, <1>10, RecordFails
<1>11. CASE q # 1
  <2>1. ~Gets(in, z, "blank")
    BY <1>8, <1>11
  <2>2. CASE i = n
    <3>1. ReadDeadline(in, z) = Refused
      BY <2>1 DEF ReadDeadline
    <3>2. QED
      BY <1>1, <1>2, <1>9, <1>10, <2>2, <3>1, RecordFails
  <2>3. CASE i # n
    <3>1. ReadField(in, z) = Refused
      BY <2>1 DEF ReadField
    <3>2. NextField(in, Read(xs, z)) = Refused
      BY <3>1, NextFieldIs
    <3>3. ReadFields(in, p + 1, i + 1) = Refused
      BY <1>9, <3>2, FieldsNext
    <3>4. n - (i + 1) \in Nat /\ i + 1 \in Nat /\ (i + 1) + (n - (i + 1)) = n
      <4>1. i \in 1 .. n /\ n \in Nat
        BY <1>2
      <4> HIDE DEF n
      <4>2. QED
        BY <2>3, <4>1
    <3>5. ReadFields(in, p + 1, (i + 1) + (n - (i + 1))) = Refused
      BY <3>3, <3>4, RefusedStays
    <3>6. QED
      BY <1>1, <1>2, <3>4, <3>5, RecordFails
  <2>4. QED
    BY <2>2, <2>3
<1>12. CASE q = 1
  <2>1. z = g + 1
    BY <1>1, <1>12 DEF z
  <2>2. Gets(in, z, "blank")
    BY <1>5, <2>1, FormatHolds DEF f
  <2>3. CASE i = n
    <3>1. CASE in[p] # "EXPIRE"
      BY <1>10, <2>3, <3>1
    <3>2. CASE in[p] = "EXPIRE"
      <4> DEFINE w == ws[1]
      <4>1. /\ Holds(in, z + 1, Digits(Len(w)))
            /\ Gets(in, z + 1 + Len(Digits(Len(w))), "blank")
            /\ Len(w) \in Nat
        <5> DEFINE us == SubSeq(ws, 1, 1 - 1)
                   t == <<"blank">> \o Field(w)
        <5>1. Len(Fields(us)) = 0
          <6>1. us = << >>
            BY SubSeqEmpty
          <6>2. QED
            BY <6>1, FieldsEmpty, EmptySeq
        <5>2. w \in Text /\ Holds(in, z + Len(Fields(us)), t)
          <6>1. 1 \in 1 .. Len(ws) /\ z \in Nat \ {0}
            BY <1>2, <1>7
          <6>2. /\ w \in Text
                /\ \A io \in Text, pos \in Nat \ {0} :
                     Holds(io, pos, Fields(ws)) => Holds(io, pos + Len(Fields(us)), t)
            BY <1>2, <6>1, FieldsSplit
          <6> HIDE DEF ws, us, w
          <6>3. QED
            BY <1>6, <2>1, <6>1, <6>2
        <5> HIDE DEF us
        <5>3. Holds(in, z, t) /\ z \in Nat \ {0}
          <6>1. z + Len(Fields(us)) = z /\ z \in Nat \ {0}
            BY <1>7, <5>1
          <6>2. QED
            BY <5>2, <6>1
        <5> HIDE DEF w
        <5>4. QED
          BY <5>2, <5>3, FieldIs, UnitsOf
      <4>2. ReadDeadline(in, z) = Read(Len(w), z + 1 + Len(Digits(Len(w))))
        <5>1. z \in Nat \ {0} /\ in[z + 1 + Len(Digits(Len(w)))] \notin Digit
          BY <1>7, <4>1 DEF Gets, Digit
        <5> HIDE DEF w
        <5>2. QED
          BY <2>2, <4>1, <5>1, ReadsDeadline
      <4>3. ~Gets(in, z + 1 + Len(Digits(Len(w))), "newline")
        BY <4>1 DEF Gets
      <4>4. ReadFields(in, p + 1, Arity(in[p])) = Read(xs, z)
        BY <1>2, <1>9, <2>3
      <4> HIDE DEF w
      <4>5. QED
        BY <1>1, <3>2, <4>2, <4>3, <4>4, RecordFails
    <3>3. QED
      BY <3>1, <3>2
  <2>4. CASE i # n
    <3> DEFINE j == n - i
               us == SubSeq(ws, 1, (j + 1) - 1)
               t == <<"blank">> \o Field(ws[j + 1])
               y == z + Len(Fields(us))
    <3>1. j + 1 \in 1 .. Len(ws) /\ j \in Nat /\ i + j = n /\ (j + 1) - 1 = j
      BY <1>2, <2>4
    <3>2. us \in Seq(Text) /\ Len(us) = j /\ ws[j + 1] \in Text
          /\ Holds(in, z, Fields(us)) /\ Holds(in, y, t)
      <4>1. z \in Nat \ {0}
        BY <1>7
      <4>2. /\ us \in Seq(Text) /\ Len(us) = (j + 1) - 1 /\ ws[j + 1] \in Text
            /\ \A io \in Text, pos \in Nat \ {0} :
                     Holds(io, pos, Fields(ws)) =>
                       Holds(io, pos, Fields(us)) /\ Holds(io, pos + Len(Fields(us)), t)
        <5> HIDE DEF j
        <5>1. QED
          BY <1>2, <3>1, FieldsSplit
      <4> HIDE DEF us, t, ws
      <4>3. Holds(in, z, Fields(ws))
        BY <1>6, <2>1
      <4>4. QED
        BY <3>1, <4>1, <4>2, <4>3
    <3> HIDE DEF us, j
    <3>3. y \in Nat \ {0}
      <4>1. Len(Fields(us)) \in Nat
        BY <3>2, FieldsType
      <4>2. QED
        BY <1>7, <4>1
    <3>4. Gets(in, y, "blank")
      <4> HIDE DEF y
      <4>1. QED
        BY <3>2, <3>3, FieldIs
    <3>5. ReadFields(in, z, j) = Read(us, y)
      <4>1. z \in 1 .. Len(in) + 1
        BY <1>7
      <4>2. QED
        BY <3>2, <4>1, ReadsFields
    <3> HIDE DEF y
    <3>6. \/ ReadFields(in, z, j) = Refused /\ ReadFields(in, p + 1, i + j) = Refused
          \/ \E vs, us1, y1 : ReadFields(in, z, j) = Read(vs, y1)
                              /\ ReadFields(in, p + 1, i + j) = Read(us1, y1)
      <4>1. i \in Nat /\ j \in Nat
        BY <3>1
      <4>2. \A l \in Nat :
              \/ ReadFields(in, z, l) = Refused /\ ReadFields(in, p + 1, i + l) = Refused
              \/ \E vs, us1, y1 : ReadFields(in, z, l) = Read(vs, y1)
                                  /\ ReadFields(in, p + 1, i + l) = Read(us1, y1)
        BY <1>9, <4>1, FieldsGoOn
      <4>3. QED
        BY ONLY <4>1, <4>2
    <3>7. PICK vs, us1, y1 : ReadFields(in, z, j) = Read(vs, y1)
                             /\ ReadFields(in, p + 1, i + j) = Read(us1, y1)
      BY <3>5, <3>6, NotRefused
    <3>8. y1 = y
      <4>1. Read(vs, y1) = Read(us, y)
        BY <3>5, <3>7
      <4>2. Read(vs, y1).pos = y1 /\ Read(us, y).pos = y
        BY ReadIs
      <4>3. QED
        BY <4>1, <4>2
    <3>9. ReadFields(in, p + 1, Arity(in[p])) = Read(us1, y)
      BY <1>2, <3>1, <3>7, <3>8
    <3>10. ~Gets(in, y, "newline")
      BY <3>4 DEF Gets
    <3>11. in[p] # "EXPIRE"
      <4>1. i \in 1 .. n
        OBVIOUS
      <4> HIDE DEF n
      <4>2. QED
        BY <1>2, <2>4, <4>1
    <3>12. QED
      BY <1>1, <3>9, <3>10, <3>11, RecordFails
  <2>5. QED
    BY <2>3, <2>4
<1>13. QED
  BY <1>11, <1>12

\* Written again when the first one ends in its words: in front of a word's
\* text, and it is no word; in the text, and the word goes on in what the second
\* one begins with.
LEMMA AgainWord ==
  ASSUME NEW in \in Text, NEW p \in Nat \ {0}, NEW r \in Record, NEW k, NEW g,
         Again(in, p, Format(r), k, g), k >= 2, k <= Len(Fields(r.words)), Short(r)
  PROVE  RecordAt(in, p) = Refused
<1> DEFINE f == Format(r)
           ws == r.words
           n == Len(ws)
<1>1. /\ p \in 1 .. Len(in) /\ k \in Nat /\ g \in p + k .. p + k + 1 /\ g \in p + 1 .. Len(in)
      /\ in[g] = r.verb /\ in[p] = r.verb /\ Gets(in, p + 1, "blank") /\ r.verb \in Verb
  BY AgainBegins
<1>2. ws \in Seq(Text) /\ n \in Nat \ {0} /\ Arity(in[p]) = n
  BY <1>1, RecordIs
<1>3. /\ f \in Text /\ Len(f) \in Nat /\ Len(Fields(ws)) \in Nat /\ Holds(f, 2, Fields(ws))
  <2>1. /\ f \in Text /\ Len(Fields(ws)) \in Nat /\ Holds(f, 2, Fields(ws))
    BY FormatHolds
  <2>2. QED
    BY <2>1, UnitsOf
<1>4. \A s \in Text : \A j \in Nat \ {0} : Holds(f, j, s) =>
               /\ Holds(in, g + j - 1, s)
               /\ j + Len(s) <= k + 1 => Holds(in, p + j - 1, s)
  BY <1>3, AgainHolds
<1>5. \A u : \A j \in Nat \ {0} : Gets(f, j, u) /\ j <= k => Gets(in, p + j - 1, u)
  BY <1>3, AgainHolds
<1>6. \E i \in 1 .. Len(ws) :
           /\ Len(Fields(SubSeq(ws, 1, i - 1))) <= k - 1
           /\ k - 1 < Len(Fields(SubSeq(ws, 1, i - 1))) + Len(<<"blank">> \o Field(ws[i]))
  <2>1. k - 1 \in Nat /\ k - 1 < Len(Fields(ws))
    BY <1>1, <1>3
  <2>2. QED
    BY <1>2, <2>1, FieldCutAt
<1>7. PICK i \in 1 .. Len(ws) :
           /\ Len(Fields(SubSeq(ws, 1, i - 1))) <= k - 1
           /\ k - 1 < Len(Fields(SubSeq(ws, 1, i - 1))) + Len(<<"blank">> \o Field(ws[i]))
  BY <1>6
<1> DEFINE us == SubSeq(ws, 1, i - 1)
           w == ws[i]
           t == <<"blank">> \o Field(w)
           c == Len(Fields(us))
           D == Digits(Len(w))
           d == Len(D)
           a == 2 + c
           at == p + 1 + c
<1>8. /\ us \in Seq(Text) /\ Len(us) = i - 1 /\ w \in Text
      /\ \A io \in Text, pos \in Nat \ {0} :
           Holds(io, pos, Fields(ws)) =>
             Holds(io, pos, Fields(us)) /\ Holds(io, pos + Len(Fields(us)), t)
  BY <1>2, FieldsSplit
<1>9. c \in Nat /\ Fields(us) \in Text
  BY <1>8, FieldsType
<1>10. Holds(f, 2, Fields(us)) /\ Holds(f, a, t)
  <2>1. 2 \in Nat \ {0}
    OBVIOUS
  <2> HIDE DEF f, ws, us, t
  <2>2. QED
    BY <1>3, <1>8, <2>1
<1>11. Len(w) \in Nat /\ D \in Text /\ D \in Seq(Digit) /\ d \in Nat /\ d >= 1
  <2>1. Len(w) \in Nat
    BY <1>8, UnitsOf
  <2>2. D \in Text /\ D \in Seq(Digit) /\ d >= 1
    BY <2>1, DigitsAreText, DigitsReadBack
  <2>3. QED
    BY <2>1, <2>2, UnitsOf
<1>12. /\ Len(t) = 2 + d + Len(w)
       /\ Gets(f, a, "blank") /\ Holds(f, a + 1, D) /\ Gets(f, a + 1 + d, "blank")
  <2>1. /\ Len(t) = 2 + d + Len(w)
        /\ \A io \in Text, pos \in Nat \ {0} :
             Holds(io, pos, t) => /\ Gets(io, pos, "blank") /\ Holds(io, pos + 1, D)
                                  /\ Gets(io, pos + 1 + d, "blank")
    BY <1>8, FieldIs
  <2>2. a \in Nat \ {0}
    BY <1>9
  <2> HIDE DEF f, t, a, d, D
  <2>3. QED
    BY <1>3, <1>10, <2>1, <2>2
<1> HIDE DEF f, us, w, t, D
<1>13. c <= k - 1 /\ k - 1 < c + (2 + d + Len(w))
  BY <1>7, <1>12 DEF us, w, t
<1>14. Len(w) < 2 + Len(Digits(Len(ws[1])))
  BY <1>2 DEF Short, w
<1>15. i \in 1 .. n /\ n \in Nat
  BY <1>2
<1>16. ReadFields(in, p + 1, i - 1) = Read(us, at)
  <2>1. 2 \in Nat \ {0} /\ p + 2 - 1 = p + 1 /\ 2 + c <= k + 1
    BY <1>1, <1>9, <1>13
  <2>2. Holds(in, p + 2 - 1, Fields(us))
    BY <1>4, <1>9, <1>10, <2>1
  <2>3. Holds(in, p + 1, Fields(us)) /\ p + 1 \in 1 .. Len(in) + 1
    BY <1>1, <2>1, <2>2
  <2>4. QED
    BY <1>8, <2>3, ReadsFields
<1> HIDE DEF n
<1>17. ASSUME ReadField(in, at) = Refused
       PROVE  RecordAt(in, p) = Refused
  <2>1. NextField(in, Read(us, at)) = Refused
    BY <1>17, NextFieldIs
  <2>2. i - 1 \in Nat /\ (i - 1) + 1 = i /\ i \in Nat /\ n - i \in Nat /\ i + (n - i) = n
    BY <1>15
  <2>3. ReadFields(in, p + 1, (i - 1) + 1) = Refused
    BY <1>16, <2>1, <2>2, FieldsNext
  <2>4. ReadFields(in, p + 1, i) = Refused
    BY <2>2, <2>3
  <2>5. ReadFields(in, p + 1, i + (n - i)) = Refused
    BY <2>2, <2>4, RefusedStays
  <2>6. QED
    BY <1>1, <1>2, <2>2, <2>5, RecordFails
<1>18. /\ at \in Nat \ {0} /\ a \in Nat \ {0} /\ p + a - 1 = at
       /\ a <= k + 1 /\ k < a + 1 + d + Len(w)
  BY SMTT(30), <1>1, <1>9, <1>11, <1>13
<1> HIDE DEF c, a, at, d
<1>19. CASE k <= a + d
  <2>1. ASSUME NEW j \in a + 1 .. a + d
        PROVE  f[j] \in Digit
    <3>1. j - a \in 1 .. d /\ (a + 1) + (j - a) - 1 = j
      BY <1>11, <1>18
    <3>2. f[(a + 1) + (j - a) - 1] = D[j - a]
      BY <1>12, <3>1 DEF Holds, d
    <3>3. D[j - a] \in Digit
      BY <1>11, <3>1, ElementOfSeq DEF d
    <3>4. QED
      BY <3>1, <3>2, <3>3
  <2>2. f[a] = "blank" /\ f[a + 1 + d] = "blank"
    BY <1>12 DEF Gets, d
  <2>3. k + 1 \in a .. a + 1 + d
    BY <1>1, <1>11, <1>18, <1>19
  <2>4. f[k + 1] \notin Verb
    <3>1. k + 1 = a \/ k + 1 = a + 1 + d \/ k + 1 \in a + 1 .. a + d
      BY SMTT(30), <1>11, <1>18, <2>3
    <3>2. QED
      BY <2>1, <2>2, <3>1, ShapeIs DEF Verb, Digit
  <2>5. g = p + k /\ \A j \in 1 .. k : in[p + j - 1] = f[j]
    BY <2>4 DEF Again, f
  <2>5a. g = p + k
    BY <2>5
  <2>6. g \in at .. Len(in)
    <3>1. k \in Nat /\ g \in Int /\ g <= Len(in)
      BY <1>1
    <3>2. at <= g
      BY <1>18, <2>5a, <3>1
    <3>3. QED
      BY <1>18, <3>1, <3>2
  <2>7. ASSUME g > at
        PROVE  in[at] = "blank"
    <3>1. a \in 1 .. k
      BY <1>1, <1>18, <2>5a, <2>7
    <3>2. in[p + a - 1] = f[a]
      BY <2>5, <3>1
    <3>3. QED
      BY <1>18, <2>2, <3>2
  <2>8. ASSUME NEW j \in at + 1 .. g - 1
        PROVE  in[j] \in Digit
    <3> DEFINE l == j - p + 1
    <3>1. l \in 1 .. k /\ p + l - 1 = j /\ l \in a + 1 .. a + d
      BY <1>1, <1>11, <1>18, <1>19, <2>5a
    <3>2. in[p + l - 1] = f[l]
      BY <2>5, <3>1
    <3> HIDE DEF l
    <3>3. QED
      BY <2>1, <3>1, <3>2
  <2>9. Cut(in, at, g)
    BY <1>1, <2>6, <2>7, <2>8 DEF Cut
  <2>10. ReadField(in, at) = Refused
    BY <1>18, <2>9, CutIs
  <2>11. QED
    BY <1>17, <2>10
<1>20. CASE ~(k <= a + d)
  <2> DEFINE b == at + 1 + d
             z == b + Len(w) + 1
  <2>1. k >= a + 1 + d
    BY <1>1, <1>11, <1>18, <1>20
  <2>2. Gets(in, at, "blank")
    <3>1. a <= k
      BY <1>1, <1>11, <1>18, <2>1
    <3>2. Gets(in, p + a - 1, "blank")
      BY <1>5, <1>12, <1>18, <3>1
    <3>3. QED
      BY <1>18, <3>2
  <2>3. Holds(in, at + 1, D)
    <3>1. a + 1 \in Nat \ {0} /\ (a + 1) + d <= k + 1 /\ p + (a + 1) - 1 = at + 1
      BY <1>1, <1>11, <1>18, <2>1
    <3>2. Holds(in, p + (a + 1) - 1, D)
      BY <1>4, <1>11, <1>12, <3>1 DEF d
    <3>3. QED
      BY <3>1, <3>2
  <2>4. Gets(in, b, "blank")
    <3>1. a + 1 + d \in Nat \ {0} /\ p + (a + 1 + d) - 1 = b
      BY <1>1, <1>11, <1>18 DEF b
    <3>2. Gets(in, p + (a + 1 + d) - 1, "blank")
      BY <1>5, <1>12, <2>1, <3>1
    <3>3. QED
      BY <3>1, <3>2
  <2>5. ReadNumber(in, at + 1) = Read(Len(w), b)
    <3>1. at + 1 \in Nat \ {0} /\ in[at + 1 + Len(D)] \notin Digit
      BY <1>18, <2>4 DEF Gets, Digit, d
    <3>2. ReadNumber(in, at + 1) = Read(Len(w), at + 1 + Len(Digits(Len(w))))
      BY <1>11, <2>3, <3>1, ReadsNumber DEF D
    <3>3. QED
      BY <3>2 DEF D, d
  <2>6. at \in 1 .. Len(in)
    BY <1>18, <2>2 DEF Gets
  <2> HIDE DEF b
  <2>7. ReadField(in, at) = IF Gets(in, b, "blank") /\ Len(w) <= Len(in) - b
                            THEN Read(SubSeq(in, b + 1, b + Len(w)), b + Len(w) + 1)
                            ELSE Refused
    BY <2>2, <2>5, <2>6, FieldMade
  <2>8. CASE ~(Len(w) <= Len(in) - b)
    BY <1>17, <2>7, <2>8
  <2>9. CASE Len(w) <= Len(in) - b
    <3> DEFINE word == SubSeq(in, b + 1, b + Len(w))
               q == z - g
    <3>1. ReadField(in, at) = Read(word, z)
      BY <2>4, <2>7, <2>9
    <3> HIDE DEF word
    <3>2. NextField(in, Read(us, at)) = Read(Append(us, word), z)
      <4> HIDE DEF z
      <4>1. QED
        BY <3>1, NextFieldIs
    <3>3. i - 1 \in Nat /\ (i - 1) + 1 = i
      BY <1>15
    <3>4. ReadFields(in, p + 1, i) = Read(Append(us, word), z)
      <4> HIDE DEF z
      <4>1. ReadFields(in, p + 1, (i - 1) + 1) = Read(Append(us, word), z)
        BY <1>16, <3>2, <3>3, FieldsNext
      <4>2. QED
        BY <3>3, <4>1
    <3>5. q \in 0 .. Len(w) /\ g + q = z
      <4>1. z = p + a + 1 + d + Len(w)
        BY SMTT(30), <1>1, <1>11, <1>18 DEF b
      <4> HIDE DEF z
      <4>2. QED
        BY <1>1, <1>11, <1>18, <2>1, <4>1
    <3> HIDE DEF q, z
    <3>6. q \in 0 .. 1 + Len(Digits(Len(ws[1])))
      <4>1. Len(Digits(Len(ws[1]))) \in Nat
        BY HeadUnits
      <4>2. QED
        BY <1>11, <1>14, <3>5, <4>1
    <3>7. ReadFields(in, p + 1, i) = Read(Append(us, word), g + q)
      BY <3>4, <3>5
    <3>8. QED
      BY <3>6, <3>7, AgainTail
  <2>10. QED
    BY <2>8, <2>9
<1>21. QED
  BY <1>19, <1>20

\* What is left of units: some of the first, and of a verb some letters.
LEMMA PieceIs ==
  ASSUME NEW s \in Text, NEW piece \in Pieces(s)
  PROVE  /\ piece \in Text
         /\ \E k \in 0 .. Len(s) - 1 :
              /\ \A i \in 1 .. k : piece[i] = s[i]
              /\ \/ Len(piece) = k
                 \/ Len(piece) = k + 1 /\ piece[k + 1] = "x" /\ s[k + 1] \in Verb
<1>1. Len(s) \in Nat /\ \A i \in 1 .. Len(s) : s[i] \in Unit
  BY UnitsOf
<1>2. ASSUME NEW k \in 0 .. Len(s) - 1
      PROVE  /\ SubSeq(s, 1, k) \in Text /\ Len(SubSeq(s, 1, k)) = k
             /\ \A i \in 1 .. k : SubSeq(s, 1, k)[i] = s[i]
  <2>1. \A i \in 1 .. k : s[i] \in Unit
    BY <1>1
  <2>2. /\ SubSeq(s, 1, k) \in Seq(Unit)
        /\ Len(SubSeq(s, 1, k)) = IF 1 <= k THEN k - 1 + 1 ELSE 0
        /\ \A i \in 1 .. k - 1 + 1 : SubSeq(s, 1, k)[i] = s[1 + i - 1]
    BY <1>1, <2>1, SubSeqProperties
  <2>3. \A i \in 1 .. k : i \in 1 .. k - 1 + 1 /\ 1 + i - 1 = i
    BY <1>1
  <2>4. \A i \in 1 .. k : SubSeq(s, 1, k)[i] = s[i]
    BY <2>2, <2>3
  <2>5. (IF 1 <= k THEN k - 1 + 1 ELSE 0) = k
    BY <1>1
  <2>6. QED
    BY <2>2, <2>4, <2>5 DEF Text
<1>3. PICK k \in 0 .. Len(s) - 1 :
        \/ piece = SubSeq(s, 1, k)
        \/ piece = SubSeq(s, 1, k) \o <<"x">> /\ s[k + 1] \in Verb
  BY DEF Pieces
<1> DEFINE t == SubSeq(s, 1, k)
<1>4. t \in Text /\ Len(t) = k /\ \A i \in 1 .. k : t[i] = s[i]
  BY <1>2
<1> HIDE DEF t
<1>5. k \in Nat
  BY <1>1
<1>6. CASE piece = t
  BY <1>4, <1>6
<1>7. CASE piece = t \o <<"x">> /\ s[k + 1] \in Verb
  <2> DEFINE x == <<"x">>
  <2>1. x \in Text /\ Len(x) = 1 /\ x[1] = "x"
    BY DEF Text, Unit
  <2> HIDE DEF x
  <2>2. /\ t \o x \in Text /\ Len(t \o x) = Len(t) + Len(x)
        /\ \A i \in 1 .. Len(t) + Len(x) : (t \o x)[i] = IF i <= Len(t) THEN t[i] ELSE x[i - Len(t)]
    BY <1>4, <2>1, ConcatProperties DEF Text
  <2>3. piece \in Text /\ Len(piece) = k + 1
        /\ \A i \in 1 .. k + 1 : piece[i] = IF i <= k THEN t[i] ELSE x[i - k]
    BY <1>4, <1>7, <2>1, <2>2 DEF x
  <2>4. k + 1 \in 1 .. k + 1 /\ ~(k + 1 <= k) /\ (k + 1) - k = 1
    BY <1>5
  <2>5. piece[k + 1] = "x"
    BY <2>1, <2>3, <2>4
  <2>6. \A i \in 1 .. k : piece[i] = s[i]
    BY <1>4, <1>5, <2>3
  <2>7. QED
    BY <1>7, <2>3, <2>5, <2>6
<1>8. QED
  BY <1>3, <1>6, <1>7 DEF t

\* A short record that was written again after what had been left of it.
LEMMA RetryRefused ==
  ASSUME NEW rs \in Seq(Record), NEW r \in Record, Short(r),
         NEW piece \in Pieces(Format(r)), piece # << >>
  PROVE  ~ReadLog((Contents(rs) \o piece) \o Format(r)).ok
<1> DEFINE f == Format(r)
           c == Contents(rs)
           a == c \o piece
           in == a \o f
           p == 1 + Len(c)
           g == p + Len(piece)
<1>1. f \in Text /\ Len(f) \in Nat /\ Len(f) >= 2 /\ c \in Text /\ Len(c) \in Nat
  <2>1. f \in Text
    BY FormatHolds
  <2>2. Len(f) \in Nat
    BY <2>1, UnitsOf
  <2>3. Len(f) >= 2
    BY FullIs
  <2>4. QED
    BY <2>1, <2>2, <2>3, ContentsType
<1>2. /\ piece \in Text
      /\ \E k \in 0 .. Len(f) - 1 :
              /\ \A i \in 1 .. k : piece[i] = f[i]
              /\ \/ Len(piece) = k
                 \/ Len(piece) = k + 1 /\ piece[k + 1] = "x" /\ f[k + 1] \in Verb
  BY <1>1, PieceIs
<1>3. Len(piece) \in Nat /\ Len(piece) # 0
  BY <1>2, UnitsOf, EmptySeq DEF Text
<1>4. PICK k \in 0 .. Len(f) - 1 :
              /\ \A i \in 1 .. k : piece[i] = f[i]
              /\ \/ Len(piece) = k
                 \/ Len(piece) = k + 1 /\ piece[k + 1] = "x" /\ f[k + 1] \in Verb
  BY <1>2
<1> HIDE DEF f, c
<1>5. a \in Text /\ Len(a) = Len(c) + Len(piece)
  BY <1>1, <1>2, ConcatProperties DEF Text
<1>6. \A io \in Text, pos \in Nat \ {0} :
        Holds(io, pos, a) <=> Holds(io, pos, c) /\ Holds(io, pos + Len(c), piece)
  BY <1>1, <1>2, HoldsConcat
<1> HIDE DEF a
<1>7. in \in Text /\ Len(in) = Len(a) + Len(f)
  BY <1>1, <1>5, ConcatProperties DEF Text
<1>8. Holds(in, 1, a) /\ Holds(in, 1 + Len(a), f)
  <2>1. Holds(in, 1, a \o f) /\ 1 \in Nat \ {0}
    BY <1>7, HoldsItself
  <2>2. \A io \in Text : Holds(io, 1, a \o f) <=> Holds(io, 1, a) /\ Holds(io, 1 + Len(a), f)
    BY <1>1, <1>5, <2>1, HoldsConcat
  <2>3. QED
    BY <1>7, <2>1, <2>2
<1>9. Holds(in, 1, c) /\ Holds(in, p, piece) /\ Holds(in, g, f)
  <2> HIDE DEF in
  <2>1. 1 + Len(a) = g /\ 1 \in Nat \ {0}
    BY <1>1, <1>3, <1>5
  <2>2. Holds(in, 1, c) /\ Holds(in, 1 + Len(c), piece)
    BY <1>6, <1>7, <1>8, <2>1
  <2>3. QED
    BY <1>8, <2>1, <2>2
<1> HIDE DEF in
<1>10. p \in Nat \ {0} /\ g \in Nat /\ g > p /\ Len(in) = g + Len(f) - 1
  BY <1>1, <1>3, <1>5, <1>7
<1> HIDE DEF p
<1>11. ASSUME NEW i \in 1 .. Len(piece)
       PROVE  in[p + i - 1] = piece[i]
  BY <1>9 DEF Holds
<1>12. Again(in, p, f, k, g)
  <2>1. k \in Nat
    BY <1>1
  <2>2. \A i \in 1 .. k : in[p + i - 1] = f[i]
    <3>1. \A i \in 1 .. k : i \in 1 .. Len(piece)
      BY <1>4, <2>1
    <3>2. QED
      BY <1>4, <1>11, <3>1
  <2>3. g = p + k \/ (g = p + k + 1 /\ in[p + k] = "x" /\ f[k + 1] \in Verb)
    <3>1. CASE Len(piece) = k
      BY <3>1
    <3>2. CASE Len(piece) = k + 1 /\ piece[k + 1] = "x" /\ f[k + 1] \in Verb
      <4>1. k + 1 \in 1 .. Len(piece) /\ p + (k + 1) - 1 = p + k /\ p + (k + 1) = p + k + 1
        BY <1>10, <2>1, <3>2
      <4>2. in[p + (k + 1) - 1] = piece[k + 1]
        BY <1>11, <4>1
      <4>3. QED
        BY <3>2, <4>1, <4>2
    <3>3. QED
      BY <1>4, <3>1, <3>2
  <2>4. QED
    BY <1>9, <1>10, <2>2, <2>3 DEF Again
<1> HIDE DEF g
<1>13. Again(in, p, Format(r), k, g)
  BY <1>12 DEF f
<1>14. /\ p \in 1 .. Len(in) /\ k \in Nat /\ in[p] \notin White
       /\ k < 2 => RecordAt(in, p) = Refused
  BY <1>7, <1>10, <1>13, AgainBegins
<1>15. RecordAt(in, p) = Refused
  <2>1. Len(Fields(r.words)) \in Nat
    BY FormatHolds
  <2>2. k < 2 \/ k >= 1 + Len(Fields(r.words)) \/ (k >= 2 /\ k <= Len(Fields(r.words)))
    BY <1>14, <2>1
  <2>3. QED
    BY <1>7, <1>10, <1>13, <1>14, <2>2, AgainLate, AgainWord
<1>16. ~ReadLog(in).ok
  BY <1>7, <1>9, <1>14, <1>15, RefusesLog DEF p, c
<1>17. QED
  BY <1>16 DEF in, a, c, f

-----------------------------------------------------------------------------
(* The end of a file that is lost *)

LEMMA GreatestOf ==
  ASSUME NEW n \in Nat, NEW T, T \subseteq 0 .. n, T # {}
  PROVE  Max(T) \in T /\ \A y \in T : y <= Max(T)
<1> DEFINE U == {n - y : y \in T}
<1>1. U \subseteq Nat /\ U # {}
  <2>1. \A y \in T : n - y \in Nat
    <3> SUFFICES ASSUME NEW y \in T
                 PROVE  n - y \in Nat
      OBVIOUS
    <3>1. y \in 0 .. n
      OBVIOUS
    <3>2. QED
      BY <3>1
  <2>2. QED
    BY <2>1
<1> HIDE DEF U
<1>2. PICK u \in U : \A y \in U : u <= y
  BY <1>1, LeastNat
<1> USE DEF U
<1>3. PICK x \in T : u = n - x
  OBVIOUS
<1>4. \A y \in T : x >= y
  <2> SUFFICES ASSUME NEW y \in T
               PROVE  x >= y
    OBVIOUS
  <2>1. n - y \in U /\ x \in 0 .. n /\ y \in 0 .. n
    OBVIOUS
  <2>2. n - x <= n - y
    BY <1>2, <1>3, <2>1
  <2>3. QED
    BY <2>1, <2>2
<1> HIDE DEF U
<1>5. Max(T) \in T /\ \A y \in T : Max(T) >= y
  BY <1>4 DEF Max
<1>6. ASSUME NEW y \in T
      PROVE  y <= Max(T)
  <2>1. y \in 0 .. n /\ Max(T) \in 0 .. n
    BY <1>5
  <2>2. Max(T) >= y
    BY <1>5
  <2>3. QED
    BY <2>1, <2>2
<1>7. QED
  BY <1>5, <1>6

LEMMA PrefixHolds ==
  ASSUME NEW s \in Text, NEW t \in Text
  PROVE  IsPrefix(s, t) <=> Holds(t, 1, s)
<1>1. Len(s) \in Nat /\ Len(t) \in Nat /\ 1 \in Nat \ {0} /\ \A i \in 1 .. Len(t) : t[i] \in Unit
  BY UnitsOf
<1>2. SubSeq(s, 1, Len(s)) = s
  BY SubSeqFull DEF Text
<1>3. ASSUME IsPrefix(s, t)
      PROVE  Holds(t, 1, s)
  <2>1. Len(s) <= Len(t) /\ s = SubSeq(t, 1, Len(s))
    BY <1>2, <1>3 DEF IsPrefix
  <2>2. \A i \in 1 .. Len(s) : t[i] \in Unit
    BY <1>1, <2>1
  <2>3. \A i \in 1 .. Len(s) - 1 + 1 : SubSeq(t, 1, Len(s))[i] = t[1 + i - 1]
    BY <1>1, <2>2, SubSeqProperties
  <2>4. \A i \in 1 .. Len(s) : t[1 + i - 1] = s[i]
    <3>1. Len(s) - 1 + 1 = Len(s)
      BY <1>1
    <3>2. QED
      BY <2>1, <2>3, <3>1
  <2>5. QED
    BY <1>1, <2>1, <2>4 DEF Holds
<1>4. ASSUME Holds(t, 1, s)
      PROVE  IsPrefix(s, t)
  <2>1. SubSeq(t, 1, 1 + Len(s) - 1) = s
    BY <1>1, <1>4, HoldsSubSeq
  <2>2. 1 + Len(s) - 1 = Len(s) /\ Len(s) <= Len(t)
    BY <1>1, <1>4 DEF Holds
  <2>3. QED
    BY <1>2, <2>1, <2>2 DEF IsPrefix
<1>5. QED
  BY <1>3, <1>4

\* The first records of a file are what it begins with.
LEMMA ContentsBegin ==
  ASSUME NEW rs \in Seq(Record), NEW n \in 0 .. Len(rs)
  PROVE  /\ SubSeq(rs, 1, n) \in Seq(Record) /\ Len(SubSeq(rs, 1, n)) = n
         /\ Holds(Contents(rs), 1, Contents(SubSeq(rs, 1, n)))
         /\ n < Len(rs) => /\ rs[n + 1] \in Record
                           /\ SubSeq(rs, 1, n + 1) = Append(SubSeq(rs, 1, n), rs[n + 1])
<1> DEFINE l == Len(rs)
           us == SubSeq(rs, 1, n)
           vs == SubSeq(rs, n + 1, l)
<1>1. l \in Nat /\ \A i \in 1 .. l : rs[i] \in Record
  BY LenProperties, ElementOfSeq
<1>2. us \in Seq(Record) /\ Len(us) = n
  <2>1. \A i \in 1 .. n : rs[i] \in Record
    BY <1>1
  <2>2. us \in Seq(Record) /\ Len(us) = IF 1 <= n THEN n - 1 + 1 ELSE 0
    BY SMTT(30), <1>1, <2>1, SubSeqProperties
  <2>3. QED
    BY <1>1, <2>2
<1>3. vs \in Seq(Record)
  <2>1. \A i \in n + 1 .. l : rs[i] \in Record
    BY SMTT(30), <1>1
  <2>2. QED
    BY SMTT(30), <1>1, <2>1, SubSeqProperties
<1>4. rs = us \o vs
  <2>1. us \o vs = SubSeq(rs, 1, l)
    <3>1. 1 \in 1 .. Len(rs) + 1 /\ n \in 1 - 1 .. Len(rs) /\ l \in n .. Len(rs)
      BY <1>1
    <3>2. QED
      BY <3>1, ConcatAdjacentSubSeq
  <2>2. SubSeq(rs, 1, l) = rs
    BY SubSeqFull
  <2>3. QED
    BY <2>1, <2>2
<1>5. ASSUME n < l
      PROVE  rs[n + 1] \in Record /\ SubSeq(rs, 1, n + 1) = Append(us, rs[n + 1])
  <2>1. n + 1 \in 1 .. l /\ (n + 1) - 1 = n /\ 1 \in 1 .. l
    BY <1>1, <1>5
  <2>2. rs[n + 1] \in Record
    BY <1>1, <2>1
  <2>3. SubSeq(rs, 1, n + 1) = SubSeq(rs, 1, (n + 1) - 1) \o <<rs[n + 1]>>
    BY <2>1, SubSeqRecursiveSecond
  <2>4. SubSeq(rs, 1, n + 1) = us \o <<rs[n + 1]>>
    BY <2>1, <2>3
  <2> HIDE DEF us
  <2>5. Append(us, rs[n + 1]) = us \o <<rs[n + 1]>>
    BY <1>2, <2>2, AppendIsConcat
  <2>6. QED
    BY <2>2, <2>4, <2>5
<1> HIDE DEF us, vs, l
<1>6. Contents(rs) = Contents(us) \o Contents(vs)
  BY <1>2, <1>3, <1>4, ContentsConcat
<1>7. Contents(us) \in Text /\ Contents(vs) \in Text /\ Contents(rs) \in Text
  BY <1>2, <1>3, ContentsType
<1>8. Holds(Contents(rs), 1, Contents(us))
  <2>1. Holds(Contents(rs), 1, Contents(us) \o Contents(vs)) /\ 1 \in Nat \ {0}
    BY <1>6, <1>7, HoldsItself
  <2>2. QED
    BY <1>7, <2>1, HoldsConcat
<1>9. QED
  BY <1>2, <1>5, <1>8 DEF us, l

\* A file that has lost its end is the records that are still in it whole, and
\* of the next one not everything.
LEMMA TailTorn ==
  ASSUME NEW rs \in Seq(Record), NEW in \in Pieces(Contents(rs)),
         NEW kept, kept = {n \in 0 .. Len(rs) : IsPrefix(Contents(SubSeq(rs, 1, n)), in)}
  PROVE  /\ in \in Text /\ SubSeq(rs, 1, Max(kept)) \in Seq(Record)
         /\ \E r \in Record, m \in Nat : Torn(in, SubSeq(rs, 1, Max(kept)), r, m)
<1> DEFINE c == Contents(rs)
           n == Max(kept)
           l == Len(rs)
           us == SubSeq(rs, 1, n)
           cu == Contents(us)
<1>1. c \in Text /\ Len(c) \in Nat /\ l \in Nat
  BY ContentsType, LenProperties
<1>2. /\ in \in Text
      /\ \E k \in 0 .. Len(c) - 1 :
              /\ \A i \in 1 .. k : in[i] = c[i]
              /\ \/ Len(in) = k
                 \/ Len(in) = k + 1 /\ in[k + 1] = "x" /\ c[k + 1] \in Verb
  BY <1>1, PieceIs
<1>3. PICK k \in 0 .. Len(c) - 1 :
              /\ \A i \in 1 .. k : in[i] = c[i]
              /\ \/ Len(in) = k
                 \/ Len(in) = k + 1 /\ in[k + 1] = "x" /\ c[k + 1] \in Verb
  BY <1>2
<1>4. kept \subseteq 0 .. l /\ kept # {}
  <2>1. Contents(SubSeq(rs, 1, 0)) = << >>
    <3>1. SubSeq(rs, 1, 0) = << >>
      BY SubSeqEmpty
    <3>2. QED
      BY <3>1, ContentsEmpty
  <2>2. IsPrefix(<< >>, in)
    <3>1. Len(<< >>) = 0 /\ SubSeq(<< >>, 1, 0) = << >> /\ SubSeq(in, 1, 0) = << >>
      BY SubSeqEmpty, EmptySeq
    <3>2. Len(in) \in Nat
      BY <1>2, UnitsOf
    <3>3. QED
      BY <3>1, <3>2 DEF IsPrefix
  <2>3. 0 \in kept
    BY <1>1, <2>1, <2>2
  <2>4. QED
    BY <2>3
<1>5. n \in kept /\ \A y \in kept : y <= n
  BY <1>1, <1>4, GreatestOf
<1>6. n \in 0 .. l
  BY <1>4, <1>5
<1>7. us \in Seq(Record) /\ Len(us) = n /\ Holds(c, 1, cu)
      /\ (n < l => rs[n + 1] \in Record /\ SubSeq(rs, 1, n + 1) = Append(us, rs[n + 1]))
  <2> HIDE DEF n
  <2>1. QED
    BY <1>6, ContentsBegin
<1>8. cu \in Text /\ Len(cu) \in Nat
  BY <1>7, ContentsType
<1>9. IsPrefix(cu, in)
  BY <1>5
<1> HIDE DEF c, n, us, cu, l
<1>10. Holds(in, 1, cu)
  BY <1>2, <1>8, <1>9, PrefixHolds
<1>11. k \in Nat /\ k < Len(c) /\ Len(in) \in Nat
  BY <1>1, <1>2, UnitsOf
<1>12. \A i \in 1 .. Len(cu) : in[i] = cu[i] /\ c[i] = cu[i]
  <2>1. \A i \in 1 .. Len(cu) : in[1 + i - 1] = cu[i] /\ c[1 + i - 1] = cu[i]
    BY <1>7, <1>10 DEF Holds
  <2>2. \A i \in 1 .. Len(cu) : 1 + i - 1 = i
    BY <1>8
  <2>3. QED
    BY <2>1, <2>2
<1>13. Len(cu) <= k
  <2>1. Len(cu) <= Len(in)
    BY <1>8, <1>10, <1>11 DEF Holds
  <2>2. ASSUME Len(cu) = k + 1, Len(in) = k + 1, in[k + 1] = "x", c[k + 1] \in Verb
        PROVE  FALSE
    <3>1. k + 1 \in 1 .. Len(cu)
      BY <1>11, <2>2
    <3>2. in[k + 1] = c[k + 1]
      BY <1>12, <3>1
    <3>3. QED
      BY <2>2, <3>2, ShapeIs DEF Verb
  <2>3. QED
    BY <1>3, <1>8, <1>11, <2>1, <2>2
<1>14. n < l
  <2> SUFFICES ASSUME n = l
               PROVE  FALSE
    BY <1>1, <1>6
  <2>1. cu = c
    <3>1. SubSeq(rs, 1, Len(rs)) = rs
      BY SubSeqFull
    <3>2. QED
      BY <3>1 DEF cu, us, c, l
  <2>2. QED
    BY <1>11, <1>13, <2>1
<1> DEFINE r == rs[n + 1]
           full == Contents(Append(us, r))
<1>15. r \in Record /\ full = Contents(SubSeq(rs, 1, n + 1)) /\ n + 1 \in 0 .. l
  <2>1. r \in Record /\ SubSeq(rs, 1, n + 1) = Append(us, r)
    BY <1>7, <1>14
  <2>2. n + 1 \in 0 .. l
    BY <1>1, <1>6, <1>14
  <2> HIDE DEF r
  <2>3. QED
    BY <2>1, <2>2
<1>16. full \in Text /\ Len(full) \in Nat /\ Holds(c, 1, full)
  <2>1. SubSeq(rs, 1, n + 1) \in Seq(Record) /\ Holds(c, 1, Contents(SubSeq(rs, 1, n + 1)))
    BY <1>15, ContentsBegin DEF c, l
  <2> HIDE DEF full
  <2>2. QED
    BY <1>15, <2>1, ContentsType
<1> HIDE DEF full, r
<1>17. \A i \in 1 .. Len(full) : c[i] = full[i]
  <2>1. \A i \in 1 .. Len(full) : c[1 + i - 1] = full[i] /\ 1 + i - 1 = i
    BY <1>16 DEF Holds
  <2>2. QED
    BY <2>1
<1>18. k < Len(full)
  <2> SUFFICES ASSUME Len(full) <= k
               PROVE  FALSE
    BY <1>11, <1>16
  <2>1. \A i \in 1 .. Len(full) : in[1 + i - 1] = full[i]
    <3>1. \A i \in 1 .. Len(full) : i \in 1 .. k /\ 1 + i - 1 = i
      BY <1>11, <1>16
    <3>2. QED
      BY <1>3, <1>17, <3>1
  <2>2. Holds(in, 1, full)
    BY <1>3, <1>11, <1>16, <2>1 DEF Holds
  <2>3. IsPrefix(full, in)
    BY <1>2, <1>16, <2>2, PrefixHolds
  <2>4. n + 1 \in kept
    BY <1>15, <2>3 DEF l
  <2>5. n + 1 <= n
    BY <1>5, <2>4
  <2>6. QED
    BY <1>1, <1>6, <2>5
<1>19. Agree(in, full, k)
  <2>1. \A i \in 1 .. k : i \in 1 .. Len(full)
    BY <1>11, <1>16, <1>18
  <2>2. QED
    BY <1>3, <1>11, <1>16, <1>17, <1>18, <2>1 DEF Agree
<1>20. Torn(in, us, r, k)
  <2>1. k \in Len(cu) .. Len(full) - 1
    BY <1>8, <1>11, <1>13, <1>16, <1>18
  <2>2. QED
    BY <1>3, <1>19, <2>1 DEF Torn, cu, full
<1>21. QED
  BY <1>2, <1>7, <1>11, <1>15, <1>20 DEF us, n

-----------------------------------------------------------------------------
(* The file at every moment *)

\* A record was begun, and then written again.
Twice(in, rs, r) == \E piece \in Pieces(Format(r)) :
                      piece # << >> /\ Short(r) /\ in = (Contents(rs) \o piece) \o Format(r)

\* While a process appends to the file it is whole records; after that, part of
\* one may follow, or a short record that was written again.
FileIsLogged ==
  \/ file = Contents(whole)
  \/ /\ ~serving
     /\ \E r \in Record : Twice(file, whole, r) \/ \E m \in Nat : Torn(file, whole, r, m)

TypeOK == /\ file \in Text /\ whole \in Seq(Record)
          /\ serving \in BOOLEAN /\ unread \in BOOLEAN /\ retried \in BOOLEAN

IInv == TypeOK /\ (unread \/ retried \/ FileIsLogged)

\* A file that such a process leaves, if it is not whole records, is refused.
LEMMA LeftIsRefused ==
  ASSUME NEW in \in Text, NEW rs \in Seq(Record), NEW r \in Record,
         Twice(in, rs, r) \/ \E m \in Nat : Torn(in, rs, r, m),
         in # Contents(rs)
  PROVE  ~ReadLog(in).ok
<1>1. CASE Twice(in, rs, r)
  BY <1>1, RetryRefused DEF Twice
<1>2. CASE \E m \in Nat : Torn(in, rs, r, m)
  BY <1>2, TornRefused
<1>3. QED
  BY <1>1, <1>2

LEMMA InitIInv == Init => IInv
<1> SUFFICES ASSUME Init
             PROVE  IInv
  OBVIOUS
<1>1. << >> \in Text /\ << >> \in Seq(Record)
  BY DEF Text
<1>2. QED
  BY <1>1, ContentsEmpty DEF Init, IInv, TypeOK, FileIsLogged

LEMMA NextIInv == IInv /\ [Next]_vars => IInv'
<1> SUFFICES ASSUME IInv, [Next]_vars
             PROVE  IInv'
  OBVIOUS
<1>1. TypeOK /\ (unread \/ retried \/ FileIsLogged)
  BY DEF IInv
<1>2. file \in Text /\ whole \in Seq(Record)
      /\ serving \in BOOLEAN /\ unread \in BOOLEAN /\ retried \in BOOLEAN
  BY <1>1 DEF TypeOK
<1>3. Contents(whole) \in Text
  BY <1>2, ContentsType
<1>4. serving => unread \/ retried \/ file = Contents(whole)
  BY <1>1 DEF FileIsLogged
<1>5. ASSUME NEW r \in Record, Log(r)
      PROVE  IInv'
  <2>1. Format(r) \in Text
    BY FormatIs
  <2>2. file \o Format(r) \in Text /\ Append(whole, r) \in Seq(Record)
    BY <1>2, <2>1, ConcatProperties, AppendProperties DEF Text
  <2>3. TypeOK'
    BY <1>2, <1>5, <2>2 DEF Log, TypeOK
  <2>4. Contents(Append(whole, r)) = Contents(whole) \o Format(r)
    BY <1>2, ContentsAppend
  <2>5. (unread \/ retried \/ FileIsLogged)'
    BY <1>4, <1>5, <2>4 DEF Log, FileIsLogged
  <2>6. QED
    BY <2>3, <2>5 DEF IInv
<1>6. ASSUME NEW r \in Record, StopMidRecord(r)
      PROVE  IInv'
  <2> DEFINE f == Format(r)
             c == Contents(whole)
             full == Contents(Append(whole, r))
  <2>1. f \in Text
    BY FormatIs
  <2>2. PICK piece \in Pieces(f) : file' = file \o piece
    BY <1>6 DEF StopMidRecord
  <2>3. /\ piece \in Text
        /\ \E k \in 0 .. Len(f) - 1 :
              /\ \A i \in 1 .. k : piece[i] = f[i]
              /\ \/ Len(piece) = k
                 \/ Len(piece) = k + 1 /\ piece[k + 1] = "x" /\ f[k + 1] \in Verb
    BY <2>1, PieceIs
  <2>4. file \o piece \in Text
    BY <1>2, <2>3, ConcatProperties DEF Text
  <2>5. TypeOK'
    BY <1>2, <1>6, <2>2, <2>4 DEF StopMidRecord, ProcessGoes, TypeOK
  <2>6. serving /\ whole' = whole /\ unread' = unread /\ retried' = retried /\ ~serving'
    BY <1>6 DEF StopMidRecord, ProcessGoes
  <2>7. ASSUME file = c
        PROVE  \E m \in Nat : Torn(file', whole, r, m)
    <3>1. full = c \o f
      BY <1>2, ContentsAppend
    <3>2. PICK k \in 0 .. Len(f) - 1 :
              /\ \A i \in 1 .. k : piece[i] = f[i]
              /\ \/ Len(piece) = k
                 \/ Len(piece) = k + 1 /\ piece[k + 1] = "x" /\ f[k + 1] \in Verb
      BY <2>3
    <3>3. Len(c) \in Nat /\ Len(f) \in Nat /\ Len(piece) \in Nat /\ c \in Text
      BY <1>3, <2>1, <2>3, UnitsOf
    <3> DEFINE in == c \o piece
    <3>4. in = file'
      BY <2>2, <2>7
    <3> HIDE DEF c, f, full, in
    <3>5. /\ Len(in) = Len(c) + Len(piece)
          /\ \A i \in 1 .. Len(c) + Len(piece) : in[i] = IF i <= Len(c) THEN c[i] ELSE piece[i - Len(c)]
      BY <2>3, <3>3, ConcatProperties DEF Text, in
    <3>6. /\ Len(full) = Len(c) + Len(f)
          /\ \A i \in 1 .. Len(c) + Len(f) : full[i] = IF i <= Len(c) THEN c[i] ELSE f[i - Len(c)]
      BY <2>1, <3>1, <3>3, ConcatProperties DEF Text
    <3> DEFINE m == Len(c) + k
    <3>7. k \in Nat /\ k < Len(f) /\ k <= Len(piece) /\ m \in Nat
      BY <3>2, <3>3
    <3>8. m \in Len(c) .. Len(full) - 1
      BY <3>3, <3>6, <3>7
    <3>9. ASSUME NEW i \in 1 .. m
          PROVE  in[i] = full[i]
      <4>1. i \in 1 .. Len(c) + Len(piece) /\ i \in 1 .. Len(c) + Len(f)
            /\ (~(i <= Len(c)) => i - Len(c) \in 1 .. k)
        BY <3>3, <3>7
      <4>2. ~(i <= Len(c)) => piece[i - Len(c)] = f[i - Len(c)]
        BY <3>2, <4>1
      <4> HIDE DEF m
      <4>3. QED
        BY <3>5, <3>6, <4>1, <4>2
    <3>10. Agree(in, full, m)
      <4>1. m <= Len(in) /\ m <= Len(full)
        BY <3>3, <3>5, <3>6, <3>7
      <4>2. QED
        BY <3>9, <4>1 DEF Agree
    <3>11. Len(in) = m \/ (Len(in) = m + 1 /\ in[m + 1] = "x")
      <4>1. CASE Len(piece) = k
        BY <3>5, <4>1
      <4>2. CASE Len(piece) = k + 1 /\ piece[k + 1] = "x" /\ f[k + 1] \in Verb
        <5>1. m + 1 \in 1 .. Len(c) + Len(piece) /\ ~(m + 1 <= Len(c)) /\ (m + 1) - Len(c) = k + 1
              /\ Len(c) + (k + 1) = m + 1
          BY <3>3, <3>7, <4>2
        <5> HIDE DEF m
        <5>2. in[m + 1] = piece[k + 1]
          BY <3>5, <5>1
        <5>3. QED
          BY <3>5, <4>2, <5>1, <5>2
      <4>3. QED
        BY <3>2, <4>1, <4>2
    <3> HIDE DEF m
    <3>12. Torn(in, whole, r, m)
      BY <3>8, <3>10, <3>11 DEF Torn, full, c
    <3>13. QED
      BY <3>4, <3>7, <3>12
  <2>8. (unread \/ retried \/ FileIsLogged)'
    BY <1>4, <2>6, <2>7 DEF FileIsLogged
  <2>9. QED
    BY <2>5, <2>8 DEF IInv
<1>7. ASSUME NEW r \in Record, StopAndRetry(r)
      PROVE  IInv'
  <2>1. Format(r) \in Text
    BY FormatIs
  <2>2. PICK piece \in Pieces(Format(r)) : piece # << >> /\ file' = (file \o piece) \o Format(r)
    BY <1>7 DEF StopAndRetry
  <2>3. piece \in Text
    BY <2>1, PieceIs
  <2>4. file \o piece \in Text
    BY <1>2, <2>3, ConcatProperties DEF Text
  <2>5. (file \o piece) \o Format(r) \in Text
    <3> DEFINE a == file \o piece
    <3> HIDE DEF a
    <3>1. a \in Text
      BY <2>4 DEF a
    <3>2. a \o Format(r) \in Text
      BY <2>1, <3>1, ConcatProperties DEF Text
    <3>3. QED
      BY <3>2 DEF a
  <2>6. /\ serving /\ whole' = whole /\ unread' = unread /\ ~serving' /\ serving' \in BOOLEAN
        /\ retried' = (retried \/ ~Short(r))
    BY <1>7 DEF StopAndRetry, ProcessGoes
  <2>7. TypeOK'
    <3>1. retried' \in BOOLEAN
      BY <2>6
    <3>2. file' \in Text
      BY <2>2, <2>5
    <3>3. QED
      BY <1>2, <2>6, <3>1, <3>2 DEF TypeOK
  <2>8. file = Contents(whole) /\ Short(r) => Twice(file', whole, r)
    BY <2>2 DEF Twice
  <2>9. (unread \/ retried \/ FileIsLogged)'
    BY <1>4, <2>6, <2>8 DEF FileIsLogged
  <2>10. QED
    BY <2>7, <2>9 DEF IInv
<1>8. ASSUME Stop
      PROVE  IInv'
  <2>1. TypeOK'
    BY <1>2, <1>8 DEF Stop, ProcessGoes, TypeOK
  <2>2. (unread \/ retried \/ FileIsLogged)'
    BY <1>4, <1>8 DEF Stop, ProcessGoes, FileIsLogged
  <2>3. QED
    BY <2>1, <2>2 DEF IInv
<1>9. ASSUME TailLost
      PROVE  IInv'
  <2> DEFINE kept == {n \in 0 .. Len(whole) : IsPrefix(Contents(SubSeq(whole, 1, n)), file')}
  <2>1. /\ serving /\ unread' = unread /\ ~serving' /\ serving' \in BOOLEAN /\ retried' = retried
        /\ file' \in Pieces(file) /\ whole' = SubSeq(whole, 1, Max(kept))
    BY <1>9 DEF TailLost, ProcessGoes
  <2>2. file' \in Text
    BY <1>2, <2>1, PieceIs
  <2>3. SubSeq(whole, 1, Max(kept)) \in Seq(Record)
    <3>1. 0 \in kept
      <4>1. SubSeq(whole, 1, 0) = << >> /\ SubSeq(<< >>, 1, 0) = << >> /\ SubSeq(file', 1, 0) = << >>
        BY SubSeqEmpty
      <4>2. Contents(SubSeq(whole, 1, 0)) = << >>
        BY <4>1, ContentsEmpty
      <4>3. Len(<< >>) = 0 /\ Len(file') \in Nat
        BY <2>2, UnitsOf, EmptySeq
      <4>4. IsPrefix(<< >>, file')
        BY <4>1, <4>3 DEF IsPrefix
      <4>5. 0 \in 0 .. Len(whole)
        BY <1>2, LenProperties
      <4>6. QED
        BY <4>2, <4>4, <4>5
    <3>2. Len(whole) \in Nat /\ kept \subseteq 0 .. Len(whole)
      BY <1>2, LenProperties
    <3> HIDE DEF kept
    <3>3. Max(kept) \in 0 .. Len(whole)
      <4>1. Max(kept) \in kept
        BY <3>1, <3>2, GreatestOf
      <4>2. QED
        BY <3>2, <4>1
    <3>4. QED
      BY <1>2, <3>3, ContentsBegin
  <2>4. TypeOK'
    <3> HIDE DEF kept
    <3>1. QED
      BY <1>2, <2>1, <2>2, <2>3 DEF TypeOK
  <2>5. file = Contents(whole) => \E r \in Record, m \in Nat : Torn(file', whole', r, m)
    <3> SUFFICES ASSUME file = Contents(whole)
                 PROVE  \E r \in Record, m \in Nat : Torn(file', whole', r, m)
      OBVIOUS
    <3>1. file' \in Pieces(Contents(whole))
      BY <2>1
    <3>2. \A k : k = kept => \E r \in Record, m \in Nat : Torn(file', SubSeq(whole, 1, Max(k)), r, m)
      BY <1>2, <3>1, TailTorn
    <3> HIDE DEF kept
    <3>3. QED
      BY <2>1, <3>2
  <2>6. (unread \/ retried \/ FileIsLogged)'
    <3> HIDE DEF kept
    <3>1. QED
      BY <1>4, <2>1, <2>5 DEF FileIsLogged
  <2>7. QED
    BY <2>4, <2>6 DEF IInv
<1>10. ASSUME Start
       PROVE  IInv'
  <2>1. TypeOK'
    BY <1>2, <1>10 DEF Start, TypeOK
  <2>2. unread \/ retried \/ file = Contents(whole)
    <3>1. ~serving /\ ReadLog(file).ok
      BY <1>10 DEF Start
    <3>2. QED
      BY <1>1, <1>2, <3>1, LeftIsRefused DEF FileIsLogged
  <2>3. (unread \/ retried \/ FileIsLogged)'
    BY <1>10, <2>2 DEF Start, FileIsLogged
  <2>4. QED
    BY <2>1, <2>3 DEF IInv
<1>11. ASSUME StartUnread
       PROVE  IInv'
  <2>1. TypeOK'
    BY <1>2, <1>11 DEF StartUnread, TypeOK
  <2>2. (unread \/ retried \/ FileIsLogged)'
    BY <1>11 DEF StartUnread, FileIsLogged
  <2>3. QED
    BY <2>1, <2>2 DEF IInv
<1>12. ASSUME UNCHANGED vars
       PROVE  IInv'
  <2>1. TypeOK'
    BY <1>2, <1>12 DEF vars, TypeOK
  <2>2. (unread \/ retried \/ FileIsLogged)'
    BY <1>1, <1>12 DEF vars, FileIsLogged, Twice
  <2>3. QED
    BY <2>1, <2>2 DEF IInv
<1>13. QED
  BY <1>5, <1>6, <1>7, <1>8, <1>9, <1>10, <1>11, <1>12 DEF Next

LEMMA IInvReadsBack == IInv => WholeLogsReadBack
<1> SUFFICES ASSUME IInv, ~unread, ~retried
             PROVE  IF file = Contents(whole)
                    THEN ReadLog(file).ok /\ ReadLog(file).value = whole ELSE ~ReadLog(file).ok
  BY DEF WholeLogsReadBack
<1>1. file \in Text /\ whole \in Seq(Record) /\ FileIsLogged
  BY DEF IInv, TypeOK
<1>2. CASE file = Contents(whole)
  BY <1>1, <1>2, ReadsLog
<1>3. CASE file # Contents(whole)
  BY <1>1, <1>3, LeftIsRefused DEF FileIsLogged
<1>4. QED
  BY <1>2, <1>3

LEMMA Invariance == Spec => []IInv
<1>1. Init => IInv
  BY InitIInv
<1>2. IInv /\ [Next]_vars => IInv'
  BY NextIInv
<1>3. QED
  BY <1>1, <1>2, PTL DEF Spec

\* What a file can be that log_command's appends, a process that dies, a stream
\* that writes again what failed and a machine that fails leave behind: the
\* records that were logged, and nothing after them if a process serves; else
\* perhaps a piece of one more, or that piece with the record after it.  This is
\* so as long as every process that appended had read the file (to replay_log
\* one that does not open is no log), and no record whose words are longer
\* than Short allows was written again; of a file past that it says nothing.
THEOREM LogFileHoldsLogged == Spec => [](~unread /\ ~retried => FileIsLogged)
<1>1. IInv => (~unread /\ ~retried => FileIsLogged)
  BY DEF IInv
<1>2. QED
  BY <1>1, Invariance, PTL

\* Replay finds again the records that were logged: of a file that holds whole
\* records it reads exactly these, and a file that ends in part of one, or holds
\* a short one that was written again, it refuses; whatever the keys and values
\* are, however many records there are, and wherever the file was cut.
THEOREM LogsReadBack == Spec => []WholeLogsReadBack
<1>1. IInv => WholeLogsReadBack
  BY IInvReadsBack
<1>2. QED
  BY <1>1, Invariance, PTL
=============================================================================
