----------------------------- MODULE RespProofs -----------------------------
(***************************************************************************)
(* That it makes no difference how a stream is cut: for anything a peer    *)
(* may write, in any number of pieces of any size, and any nesting limit.  *)
(***************************************************************************)
EXTENDS RespStream, Induction

Text == Seq(Unit)

-----------------------------------------------------------------------------
(* What the parser answers *)

\* An answer; if it is Ok, the place is in low .. high.
Answers(v, low, high) ==
  \/ v = Incomplete
  \/ v = Malformed
  \/ v.pos \in low .. high /\ v = Ok(v.value, v.pos)

\* More may come, and v stays what it is, unless it says that it waits for more.
Stands(v, w) == v # Incomplete => w = v

LEMMA AnswersDiffer ==
  /\ ~IsOk(Incomplete) /\ ~IsOk(Malformed) /\ Incomplete # Malformed
  /\ \A x, e : /\ IsOk(Ok(x, e)) /\ Ok(x, e).value = x /\ Ok(x, e).pos = e
               /\ Ok(x, e) # Incomplete /\ Ok(x, e) # Malformed
<1>1. ~IsOk(Incomplete) /\ ~IsOk(Malformed) /\ Incomplete # Malformed
  <2>1. Incomplete.status = "Incomplete" /\ Malformed.status = "Malformed"
    BY DEF Incomplete, Malformed
  <2>2. QED
    BY <2>1 DEF IsOk
<1>2. \A x, e : Ok(x, e).status = "Ok" /\ Ok(x, e).value = x /\ Ok(x, e).pos = e
  BY DEF Ok
<1>3. QED
  BY <1>1, <1>2 DEF IsOk

LEMMA UnitsOf ==
  ASSUME NEW s \in Text
  PROVE  Len(s) \in Nat /\ DOMAIN s = 1 .. Len(s) /\ \A i \in 1 .. Len(s) : s[i] \in Unit
BY LenProperties, ElementOfSeq DEF Text

\* to begins with what in is.
Extends(in, to) == Len(in) <= Len(to) /\ \A i \in 1 .. Len(in) : to[i] = in[i]

LEMMA ExtendsSubSeq ==
  ASSUME NEW in \in Text, NEW to \in Text, Extends(in, to),
         NEW a \in Nat \ {0}, NEW b \in Int, b <= Len(in)
  PROVE  SubSeq(to, a, b) = SubSeq(in, a, b)
<1>1. Len(in) \in Nat /\ Len(to) \in Nat
  BY UnitsOf
<1>2. SubSeq(to, a, b) = [i \in 1 .. b - a + 1 |-> to[a + i - 1]]
      /\ SubSeq(in, a, b) = [i \in 1 .. b - a + 1 |-> in[a + i - 1]]
  OBVIOUS
<1>3. \A i \in 1 .. b - a + 1 : to[a + i - 1] = in[a + i - 1]
  <2> SUFFICES ASSUME NEW i \in 1 .. b - a + 1
               PROVE  to[a + i - 1] = in[a + i - 1]
    OBVIOUS
  <2>1. a + i - 1 \in 1 .. Len(in)
    BY <1>1
  <2>2. QED
    BY <2>1 DEF Extends
<1>4. QED
  BY <1>2, <1>3

-----------------------------------------------------------------------------
(* Lines *)

LEMMA LineParts ==
  ASSUME NEW in \in Text, NEW pos \in Nat \ {0}
  PROVE  /\ LineEnds(in, pos) = {} => ReadLine(in, pos) = Incomplete
         /\ LineEnds(in, pos) # {} =>
              \E crlf \in pos .. Len(in) - 1 :
                /\ crlf \in LineEnds(in, pos) /\ \A i \in LineEnds(in, pos) : crlf <= i
                /\ ReadLine(in, pos) = IF HoldsBreak(SubSeq(in, pos, crlf - 1)) THEN Malformed
                                       ELSE Ok(SubSeq(in, pos, crlf - 1), crlf + 2)
<1>1. LineEnds(in, pos) = {} => ReadLine(in, pos) = Incomplete
  BY DEF ReadLine
<1>2. ASSUME LineEnds(in, pos) # {}
      PROVE  \E crlf \in pos .. Len(in) - 1 :
               /\ crlf \in LineEnds(in, pos) /\ \A i \in LineEnds(in, pos) : crlf <= i
               /\ ReadLine(in, pos) = IF HoldsBreak(SubSeq(in, pos, crlf - 1)) THEN Malformed
                                      ELSE Ok(SubSeq(in, pos, crlf - 1), crlf + 2)
  <2> DEFINE T == LineEnds(in, pos)
             crlf == Min(T)
  <2>1. T \subseteq pos .. Len(in) - 1 /\ T \subseteq Nat
    BY UnitsOf DEF LineEnds
  <2>2. crlf \in T /\ \A i \in T : crlf <= i
    <3> HIDE DEF T
    <3>1. QED
      BY <1>2, <2>1, LeastOf DEF T
  <2>3. ReadLine(in, pos) = IF HoldsBreak(SubSeq(in, pos, crlf - 1)) THEN Malformed
                            ELSE Ok(SubSeq(in, pos, crlf - 1), crlf + 2)
    BY <1>2 DEF ReadLine
  <2> HIDE DEF crlf
  <2>4. QED
    BY <2>1, <2>2, <2>3
<1>3. QED
  BY <1>1, <1>2

LEMMA LineAnswers ==
  ASSUME NEW in \in Text, NEW pos \in Nat \ {0}
  PROVE  /\ Answers(ReadLine(in, pos), pos + 2, Len(in) + 1)
         /\ IsOk(ReadLine(in, pos)) => ReadLine(in, pos).value \in Text
<1>1. CASE LineEnds(in, pos) = {}
  BY <1>1, LineParts, AnswersDiffer DEF Answers
<1>2. CASE LineEnds(in, pos) # {}
  <2>1. PICK crlf \in pos .. Len(in) - 1 :
               ReadLine(in, pos) = IF HoldsBreak(SubSeq(in, pos, crlf - 1)) THEN Malformed
                                   ELSE Ok(SubSeq(in, pos, crlf - 1), crlf + 2)
    BY <1>2, LineParts
  <2>2. Len(in) \in Nat
    BY UnitsOf
  <2>3. crlf + 2 \in pos + 2 .. Len(in) + 1
    BY <2>2
  <2>4. SubSeq(in, pos, crlf - 1) \in Text
    <3>1. pos \in 1 .. Len(in) + 1 /\ crlf - 1 \in pos - 1 .. Len(in)
      BY <2>2
    <3>2. QED
      BY <3>1, SubSeqProperties DEF Text
  <2>5. QED
    <3>1. CASE ReadLine(in, pos) = Malformed
      BY <3>1, AnswersDiffer DEF Answers
    <3>2. CASE ReadLine(in, pos) = Ok(SubSeq(in, pos, crlf - 1), crlf + 2)
      BY <2>3, <2>4, <3>2, AnswersDiffer DEF Answers
    <3>3. QED
      BY <2>1, <3>1, <3>2
<1>3. QED
  BY <1>1, <1>2

\* The first CRLF stays the first, and what is before it stays what it is.
LEMMA LineStands ==
  ASSUME NEW in \in Text, NEW to \in Text, Extends(in, to), NEW pos \in Nat \ {0}
  PROVE  Stands(ReadLine(in, pos), ReadLine(to, pos))
<1> SUFFICES ASSUME ReadLine(in, pos) # Incomplete
             PROVE  ReadLine(to, pos) = ReadLine(in, pos)
  BY DEF Stands
<1>1. Len(in) \in Nat /\ Len(to) \in Nat /\ Len(in) <= Len(to)
  BY UnitsOf DEF Extends
<1>2. LineEnds(in, pos) # {}
  BY LineParts
<1>3. PICK crlf \in pos .. Len(in) - 1 :
               /\ crlf \in LineEnds(in, pos) /\ \A i \in LineEnds(in, pos) : crlf <= i
               /\ ReadLine(in, pos) = IF HoldsBreak(SubSeq(in, pos, crlf - 1)) THEN Malformed
                                      ELSE Ok(SubSeq(in, pos, crlf - 1), crlf + 2)
  BY <1>2, LineParts
<1>4. \A i \in pos .. Len(in) - 1 : i \in LineEnds(in, pos) <=> i \in LineEnds(to, pos)
  <2> SUFFICES ASSUME NEW i \in pos .. Len(in) - 1
               PROVE  i \in LineEnds(in, pos) <=> i \in LineEnds(to, pos)
    OBVIOUS
  <2>1. i \in 1 .. Len(in) /\ i + 1 \in 1 .. Len(in) /\ i \in pos .. Len(to) - 1
    BY <1>1
  <2>2. to[i] = in[i] /\ to[i + 1] = in[i + 1]
    BY <2>1 DEF Extends
  <2>3. QED
    BY <2>1, <2>2 DEF LineEnds
<1>5. crlf \in LineEnds(to, pos)
  BY <1>3, <1>4
<1>6. PICK z \in pos .. Len(to) - 1 :
               /\ z \in LineEnds(to, pos) /\ \A i \in LineEnds(to, pos) : z <= i
               /\ ReadLine(to, pos) = IF HoldsBreak(SubSeq(to, pos, z - 1)) THEN Malformed
                                      ELSE Ok(SubSeq(to, pos, z - 1), z + 2)
  BY <1>5, LineParts
<1>7. z = crlf
  <2>1. z <= crlf
    BY <1>5, <1>6
  <2>2. z \in LineEnds(in, pos)
    BY <1>1, <1>4, <1>6, <2>1
  <2>3. crlf <= z
    BY <1>3, <2>2
  <2>4. QED
    BY <2>1, <2>3
<1>8. SubSeq(to, pos, crlf - 1) = SubSeq(in, pos, crlf - 1)
  BY <1>1, ExtendsSubSeq
<1>9. QED
  BY <1>3, <1>6, <1>7, <1>8

-----------------------------------------------------------------------------
(* Bulk strings *)

LEMMA BulkAnswers ==
  ASSUME NEW in \in Text, NEW pos \in 1 .. Len(in) + 1, NEW length \in Int
  PROVE  Answers(ParseBulk(in, pos, length), pos, Len(in) + 1)
<1>1. Len(in) \in Nat
  BY UnitsOf
<1>2. \A x : \A e \in pos .. Len(in) + 1 : Answers(Ok(x, e), pos, Len(in) + 1)
  BY AnswersDiffer DEF Answers
<1>3. Answers(Incomplete, pos, Len(in) + 1) /\ Answers(Malformed, pos, Len(in) + 1)
  BY DEF Answers
<1>4. CASE length = -1
  BY <1>1, <1>2, <1>4 DEF ParseBulk
<1>5. CASE length < -1
  BY <1>3, <1>5 DEF ParseBulk
<1>6. CASE length >= 0 /\ ~BulkArrived(in, pos, length)
  BY <1>3, <1>6 DEF ParseBulk
<1>7. CASE length >= 0 /\ BulkArrived(in, pos, length)
  <2>1. pos + length + 2 \in pos .. Len(in) + 1
    BY <1>1, <1>7 DEF BulkArrived
  <2>2. ParseBulk(in, pos, length) = IF Terminated(in, pos + length)
                                     THEN Ok(Bulk(SubSeq(in, pos, pos + length - 1)), pos + length + 2)
                                     ELSE Malformed
    BY <1>7 DEF ParseBulk
  <2>3. QED
    BY <1>2, <1>3, <2>1, <2>2
<1>8. QED
  BY <1>4, <1>5, <1>6, <1>7

LEMMA BulkStands ==
  ASSUME NEW in \in Text, NEW to \in Text, Extends(in, to),
         NEW pos \in 1 .. Len(in) + 1, NEW length \in Int
  PROVE  Stands(ParseBulk(in, pos, length), ParseBulk(to, pos, length))
<1>1. Len(in) \in Nat /\ Len(to) \in Nat /\ Len(in) <= Len(to)
  BY UnitsOf DEF Extends
<1>2. CASE length = -1
  BY <1>2 DEF ParseBulk, Stands
<1>3. CASE length < -1
  BY <1>3 DEF ParseBulk, Stands
<1>4. CASE length >= 0 /\ ~BulkArrived(in, pos, length)
  <2>1. ParseBulk(in, pos, length) = Incomplete
    BY <1>4 DEF ParseBulk
  <2>2. QED
    BY <2>1 DEF Stands
<1>5. CASE length >= 0 /\ BulkArrived(in, pos, length)
  <2>1. BulkArrived(to, pos, length)
    BY <1>1, <1>5 DEF BulkArrived
  <2>2. /\ pos + length \in 1 .. Len(in) /\ (pos + length) + 1 \in 1 .. Len(in)
        /\ pos + length - 1 \in Int /\ pos + length - 1 <= Len(in)
    BY <1>1, <1>5 DEF BulkArrived
  <2>3. Terminated(to, pos + length) <=> Terminated(in, pos + length)
    BY <2>2 DEF Terminated, Extends
  <2>4. SubSeq(to, pos, pos + length - 1) = SubSeq(in, pos, pos + length - 1)
    BY <2>2, ExtendsSubSeq
  <2>5. ParseBulk(in, pos, length) = IF Terminated(in, pos + length)
                                     THEN Ok(Bulk(SubSeq(in, pos, pos + length - 1)), pos + length + 2)
                                     ELSE Malformed
    BY <1>5 DEF ParseBulk
  <2>6. ParseBulk(to, pos, length) = IF Terminated(to, pos + length)
                                     THEN Ok(Bulk(SubSeq(to, pos, pos + length - 1)), pos + length + 2)
                                     ELSE Malformed
    BY <1>5, <2>1 DEF ParseBulk
  <2>7. ParseBulk(to, pos, length) = ParseBulk(in, pos, length)
    <3>1. CASE Terminated(in, pos + length)
      BY <2>3, <2>4, <2>5, <2>6, <3>1
    <3>2. CASE ~Terminated(in, pos + length)
      BY <2>3, <2>5, <2>6, <3>2
    <3>3. QED
      BY <3>1, <3>2
  <2>8. QED
    BY <2>7 DEF Stands
<1>6. QED
  BY <1>2, <1>3, <1>4, <1>5

-----------------------------------------------------------------------------
(* Elements *)

NextElement(row, read) ==
  AndThen(read, LAMBDA before, at :
    AndThen(row[at], LAMBDA element, end : Ok(Append(before, element), end)))

LEMMA NextElementIs ==
  ASSUME NEW row, NEW read
  PROVE  NextElement(row, read) =
           IF ~IsOk(read) THEN read
           ELSE IF ~IsOk(row[read.pos]) THEN row[read.pos]
           ELSE Ok(Append(read.value, row[read.pos].value), row[read.pos].pos)
BY DEF NextElement, AndThen

\* f follows the recursion of ParseElements up to n.
Follows(f, row, pos, n) == f = [i \in 0 .. n |-> IF i = 0 THEN Ok(<< >>, pos)
                                                 ELSE NextElement(row, f[i - 1])]

LEMMA FollowsAt ==
  ASSUME NEW row, NEW pos, NEW n \in Nat, NEW f, Follows(f, row, pos, n)
  PROVE  f[0] = Ok(<< >>, pos) /\ \A i \in 1 .. n : f[i] = NextElement(row, f[i - 1])
<1>1. \A i \in 0 .. n : f[i] = IF i = 0 THEN Ok(<< >>, pos) ELSE NextElement(row, f[i - 1])
  BY DEF Follows
<1>2. QED
  BY <1>1

LEMMA FollowsExists ==
  ASSUME NEW row, NEW pos, NEW n \in Nat
  PROVE  \E f : Follows(f, row, pos, n)
<1> DEFINE S == {m \in Nat : \E f : Follows(f, row, pos, m)}
<1>1. 0 \in S
  <2> DEFINE f == [i \in 0 .. 0 |-> Ok(<< >>, pos)]
             h == [i \in 0 .. 0 |-> IF i = 0 THEN Ok(<< >>, pos) ELSE NextElement(row, f[i - 1])]
  <2>1. \A i \in 0 .. 0 : f[i] = h[i]
    OBVIOUS
  <2>2. f = h
    BY <2>1
  <2>3. QED
    BY <2>2 DEF Follows
<1>2. ASSUME NEW k \in S
      PROVE  k + 1 \in S
  <2>1. k \in Nat
    OBVIOUS
  <2>2. PICK f : Follows(f, row, pos, k)
    OBVIOUS
  <2> DEFINE last == NextElement(row, f[k])
             g == [i \in 0 .. k + 1 |-> IF i = k + 1 THEN last ELSE f[i]]
             h == [i \in 0 .. k + 1 |-> IF i = 0 THEN Ok(<< >>, pos)
                                        ELSE NextElement(row, g[i - 1])]
  <2>3. f[0] = Ok(<< >>, pos) /\ \A i \in 1 .. k : f[i] = NextElement(row, f[i - 1])
    BY <2>1, <2>2, FollowsAt
  <2> HIDE DEF last
  <2>4. /\ \A i \in 0 .. k + 1 : g[i] = IF i = k + 1 THEN last ELSE f[i]
        /\ \A i \in 0 .. k + 1 : h[i] = IF i = 0 THEN Ok(<< >>, pos)
                                        ELSE NextElement(row, g[i - 1])
    OBVIOUS
  <2>5. DOMAIN g = 0 .. k + 1 /\ DOMAIN h = 0 .. k + 1 /\ g = [i \in 0 .. k + 1 |-> g[i]]
        /\ h = [i \in 0 .. k + 1 |-> h[i]]
    OBVIOUS
  <2>6. ASSUME NEW i \in 0 .. k + 1
        PROVE  g[i] = h[i]
    <3> HIDE DEF g, h
    <3>1. CASE i = 0
      BY <2>1, <2>3, <2>4, <3>1
    <3>2. CASE i = k + 1
      <4>1. i - 1 = k /\ k \in 0 .. k + 1 /\ k # k + 1 /\ i # 0
        BY <2>1, <3>2
      <4>2. h[i] = NextElement(row, g[i - 1])
        BY <2>4, <4>1
      <4>3. g[k] = f[k]
        BY <2>4, <4>1
      <4>4. QED
        BY <2>4, <3>2, <4>1, <4>2, <4>3 DEF last
    <3>3. CASE i \in 1 .. k
      <4>1. i - 1 \in 0 .. k + 1 /\ i - 1 # k + 1 /\ i # 0 /\ i # k + 1
        BY <2>1, <3>3
      <4>2. h[i] = NextElement(row, g[i - 1]) /\ g[i] = f[i]
        BY <2>4, <4>1
      <4>3. g[i - 1] = f[i - 1]
        BY <2>4, <4>1
      <4>4. QED
        BY <2>3, <3>3, <4>2, <4>3
    <3>4. QED
      BY <2>1, <3>1, <3>2, <3>3
  <2>7. g = h
    <3> HIDE DEF g, h
    <3>1. QED
      BY <2>5, <2>6
  <2>8. Follows(g, row, pos, k + 1)
    BY <2>7 DEF Follows
  <2>9. QED
    BY <2>1, <2>8
<1>3. S \subseteq Nat
  OBVIOUS
<1> HIDE DEF S
<1>4. S = Nat
  BY <1>1, <1>2, <1>3, InductionOnNat
<1>5. QED
  BY <1>4 DEF S

LEMMA ElementsFollow ==
  ASSUME NEW row, NEW pos, NEW n \in Nat
  PROVE  \E f : Follows(f, row, pos, n) /\ ParseElements(row, pos, n) = f[n]
<1> DEFINE P(f) == f = [i \in 0 .. n |->
                         IF i = 0 THEN Ok(<< >>, pos)
                         ELSE AndThen(f[i - 1], LAMBDA before, at :
                                AndThen(row[at], LAMBDA element, end :
                                  Ok(Append(before, element), end)))]
<1>1. PICK f : f = (CHOOSE h : P(h))
  OBVIOUS
<1>2. P(f)
  <2>1. PICK h : Follows(h, row, pos, n)
    BY FollowsExists
  <2>2. P(h)
    BY <2>1 DEF Follows, NextElement
  <2> HIDE DEF P
  <2>3. QED
    BY <1>1, <2>2
<1>3. ParseElements(row, pos, n) = f[n]
  BY <1>1 DEF ParseElements
<1>4. QED
  BY <1>2, <1>3 DEF Follows, NextElement

\* Two rows of which the second stands wherever the first reads.
LEMMA ElementsStand ==
  ASSUME NEW row, NEW wider, NEW n \in Nat, NEW pos \in 1 .. n + 1, NEW count \in Nat,
         \A at \in 1 .. n + 1 : /\ Answers(row[at], at, n + 1)
                                /\ Stands(row[at], wider[at])
  PROVE  /\ Answers(ParseElements(row, pos, count), pos, n + 1)
         /\ Stands(ParseElements(row, pos, count), ParseElements(wider, pos, count))
<1>1. PICK f : Follows(f, row, pos, count) /\ ParseElements(row, pos, count) = f[count]
  BY ElementsFollow
<1>2. PICK g : Follows(g, wider, pos, count) /\ ParseElements(wider, pos, count) = g[count]
  BY ElementsFollow
<1>3. f[0] = Ok(<< >>, pos) /\ \A i \in 1 .. count : f[i] = NextElement(row, f[i - 1])
  BY ONLY <1>1, FollowsAt, count \in Nat
<1>4. g[0] = Ok(<< >>, pos) /\ \A i \in 1 .. count : g[i] = NextElement(wider, g[i - 1])
  BY ONLY <1>2, FollowsAt, count \in Nat
<1> DEFINE S == {i \in Nat : i \in 0 .. count =>
                               Answers(f[i], pos, n + 1) /\ Stands(f[i], g[i])}
<1>5. 0 \in S
  <2>1. Answers(f[0], pos, n + 1)
    BY <1>3, AnswersDiffer DEF Answers
  <2>2. QED
    BY <1>3, <1>4, <2>1 DEF Stands
<1>6. ASSUME NEW i \in S
      PROVE  i + 1 \in S
  <2> SUFFICES ASSUME i + 1 \in 0 .. count
               PROVE  Answers(f[i + 1], pos, n + 1) /\ Stands(f[i + 1], g[i + 1])
    OBVIOUS
  <2>1. i \in 0 .. count /\ i + 1 \in 1 .. count /\ (i + 1) - 1 = i
    OBVIOUS
  <2>2. Answers(f[i], pos, n + 1) /\ Stands(f[i], g[i])
    BY <2>1
  <2>3. f[i + 1] = NextElement(row, f[i]) /\ g[i + 1] = NextElement(wider, g[i])
    BY <1>3, <1>4, <2>1
  <2> DEFINE now == f[i]
             then == g[i]
             read == row[now.pos]
  <2>4. NextElement(row, now) =
          IF ~IsOk(now) THEN now
          ELSE IF ~IsOk(row[now.pos]) THEN row[now.pos]
          ELSE Ok(Append(now.value, row[now.pos].value), row[now.pos].pos)
    BY NextElementIs
  <2>5. NextElement(wider, then) =
          IF ~IsOk(then) THEN then
          ELSE IF ~IsOk(wider[then.pos]) THEN wider[then.pos]
          ELSE Ok(Append(then.value, wider[then.pos].value), wider[then.pos].pos)
    BY NextElementIs
  <2> HIDE DEF now, then, S
  <2>6. CASE now = Incomplete
    BY <2>3, <2>4, <2>6, AnswersDiffer DEF Answers, Stands, now
  <2>7. CASE now = Malformed
    <3>1. then = Malformed
      BY <2>2, <2>7, AnswersDiffer DEF Stands, now, then
    <3>2. QED
      BY <2>3, <2>4, <2>5, <2>7, <3>1, AnswersDiffer DEF Answers, Stands, now, then
  <2>8. CASE now.pos \in pos .. n + 1 /\ now = Ok(now.value, now.pos)
    <3>1. IsOk(now) /\ then = now
      BY <2>2, <2>8, AnswersDiffer DEF Stands, now, then
    <3>2. now.pos \in 1 .. n + 1
      BY <2>8
    <3>3. Answers(read, now.pos, n + 1) /\ Stands(read, wider[now.pos])
      BY <3>2
    <3> HIDE DEF read
    <3>4. CASE read = Incomplete
      <4>1. NextElement(row, now) = Incomplete
        BY <2>4, <3>1, <3>4, AnswersDiffer DEF read
      <4>2. QED
        BY <2>3, <4>1 DEF Answers, Stands, now
    <3>5. CASE read = Malformed
      <4>1. NextElement(row, now) = Malformed
        BY <2>4, <3>1, <3>5, AnswersDiffer DEF read
      <4>2. wider[now.pos] = Malformed
        BY <3>3, <3>5, AnswersDiffer DEF Stands
      <4>3. NextElement(wider, then) = Malformed
        BY <2>5, <3>1, <4>2, AnswersDiffer
      <4>4. QED
        BY <2>3, <4>1, <4>3 DEF Answers, Stands, now, then
    <3>6. CASE read.pos \in now.pos .. n + 1 /\ read = Ok(read.value, read.pos)
      <4>1. IsOk(read) /\ wider[now.pos] = read
        BY <3>3, <3>6, AnswersDiffer DEF Stands
      <4>2. NextElement(row, now) = Ok(Append(now.value, read.value), read.pos)
        BY <2>4, <3>1, <4>1 DEF read
      <4>3. NextElement(wider, then) = Ok(Append(now.value, read.value), read.pos)
        BY <2>5, <3>1, <4>1
      <4>4. read.pos \in pos .. n + 1
        BY <2>8, <3>2, <3>6
      <4>5. Answers(NextElement(row, now), pos, n + 1)
        BY <4>2, <4>4, AnswersDiffer DEF Answers
      <4>6. QED
        BY <2>3, <4>2, <4>3, <4>5 DEF Stands, now, then
    <3>7. QED
      BY <3>3, <3>4, <3>5, <3>6 DEF Answers
  <2>9. QED
    BY <2>2, <2>6, <2>7, <2>8 DEF Answers, now
<1>7. S \subseteq Nat
  OBVIOUS
<1> HIDE DEF S
<1>8. S = Nat
  BY <1>5, <1>6, <1>7, InductionOnNat
<1>9. Answers(f[count], pos, n + 1) /\ Stands(f[count], g[count])
  BY <1>8 DEF S
<1>10. QED
  BY <1>1, <1>2, <1>9

-----------------------------------------------------------------------------
(* Values *)

\* What a value of type c is, when its line has been read.
Typed(row, in, c, line, at) ==
  CASE c = "+" -> Ok(SimpleString(line), at)
    [] c = "-" -> Ok(Error(line), at)
    [] c \in {":", "$", "*"} /\ ~IsInteger(line) -> Malformed
    [] c = ":" /\ IsInteger(line) -> Ok(Integer(ToInteger(line)), at)
    [] c = "$" /\ IsInteger(line) -> ParseBulk(in, at, ToInteger(line))
    [] c = "*" /\ IsInteger(line) ->
         LET count == ToInteger(line)
         IN  CASE count = -1 -> Ok(Null("array"), at)
               [] count < -1 -> Malformed
               [] count >= 0 ->
                    AndThen(ParseElements(row, at, count), LAMBDA elements, end :
                      Ok(Array(elements), end))

LEMMA IntegerIs ==
  ASSUME NEW line, IsInteger(line)
  PROVE  ToInteger(line) \in Int
<1>1. line[1] \in {"-2", "-1", "0", "1", "2", "99", "01"}
  BY DEF IsInteger, Numeral
<1>2. ToInteger(line) =
        CASE line[1] = "-2" -> -2 [] line[1] = "-1" -> -1 [] line[1] = "0" -> 0
          [] line[1] \in {"1", "01"} -> 1 [] line[1] = "2" -> 2 [] line[1] = "99" -> 99
  BY <1>1 DEF ToInteger, Numeral
<1>3. QED
  BY <1>1, <1>2

LEMMA ArrayStands ==
  ASSUME NEW row, NEW wider, NEW n \in Nat, NEW pos \in 1 .. n + 1, NEW count \in Nat,
         \A at \in 1 .. n + 1 : /\ Answers(row[at], at, n + 1)
                                /\ Stands(row[at], wider[at])
  PROVE  LET whole(r) == AndThen(ParseElements(r, pos, count), LAMBDA elements, end :
                                   Ok(Array(elements), end))
         IN  Answers(whole(row), pos, n + 1) /\ Stands(whole(row), whole(wider))
<1> DEFINE whole(r) == AndThen(ParseElements(r, pos, count), LAMBDA elements, end :
                                 Ok(Array(elements), end))
           now == ParseElements(row, pos, count)
           then == ParseElements(wider, pos, count)
<1>1. Answers(now, pos, n + 1) /\ Stands(now, then)
  BY ElementsStand
<1>2. whole(row) = (IF IsOk(now) THEN Ok(Array(now.value), now.pos) ELSE now)
      /\ whole(wider) = (IF IsOk(then) THEN Ok(Array(then.value), then.pos) ELSE then)
  BY DEF AndThen
<1> HIDE DEF now, then, whole
<1>3. Answers(whole(row), pos, n + 1) /\ Stands(whole(row), whole(wider))
  <2>1. CASE now = Incomplete
    BY <1>2, <2>1, AnswersDiffer DEF Answers, Stands
  <2>2. CASE now = Malformed
    <3>1. then = Malformed
      BY <1>1, <2>2, AnswersDiffer DEF Stands
    <3>2. QED
      BY <1>2, <2>2, <3>1, AnswersDiffer DEF Answers, Stands
  <2>3. CASE now.pos \in pos .. n + 1 /\ now = Ok(now.value, now.pos)
    <3>1. IsOk(now) /\ then = now
      BY <1>1, <2>3, AnswersDiffer DEF Stands
    <3>2. whole(row) = Ok(Array(now.value), now.pos) /\ whole(wider) = whole(row)
      BY <1>2, <3>1
    <3>3. QED
      BY <2>3, <3>2, AnswersDiffer DEF Answers, Stands
  <2>4. QED
    BY <1>1, <2>1, <2>2, <2>3 DEF Answers
<1>4. QED
  BY <1>3 DEF whole

LEMMA TypedStands ==
  ASSUME NEW in \in Text, NEW to \in Text, Extends(in, to), NEW row, NEW wider,
         \A at \in 1 .. Len(in) + 1 : /\ Answers(row[at], at, Len(in) + 1)
                                      /\ Stands(row[at], wider[at]),
         NEW c \in LineTypes, NEW line, NEW pos \in 1 .. Len(in) + 1
  PROVE  /\ Answers(Typed(row, in, c, line, pos), pos, Len(in) + 1)
         /\ Stands(Typed(row, in, c, line, pos), Typed(wider, to, c, line, pos))
<1> DEFINE now == Typed(row, in, c, line, pos)
           then == Typed(wider, to, c, line, pos)
           count == ToInteger(line)
<1>1. \A x : Answers(Ok(x, pos), pos, Len(in) + 1) /\ Answers(Malformed, pos, Len(in) + 1)
  <2>1. Len(in) \in Nat
    BY UnitsOf
  <2>2. pos \in pos .. Len(in) + 1
    BY <2>1
  <2>3. QED
    BY <2>2, AnswersDiffer DEF Answers
<1>2. \A x : (now = x /\ then = x) => Stands(now, then)
  BY DEF Stands
<1>3. CASE c = "+"
  <2>1. now = Ok(SimpleString(line), pos) /\ then = Ok(SimpleString(line), pos)
    BY <1>3 DEF Typed
  <2>2. QED
    BY <1>1, <1>2, <2>1
<1>4. CASE c = "-"
  <2>1. now = Ok(Error(line), pos) /\ then = Ok(Error(line), pos)
    BY <1>4 DEF Typed
  <2>2. QED
    BY <1>1, <1>2, <2>1
<1>5. CASE c \in {":", "$", "*"} /\ ~IsInteger(line)
  <2>1. now = Malformed /\ then = Malformed
    BY <1>5 DEF Typed
  <2>2. QED
    BY <1>1, <1>2, <2>1
<1>6. CASE c = ":" /\ IsInteger(line)
  <2>1. now = Ok(Integer(count), pos) /\ then = Ok(Integer(count), pos)
    BY <1>6 DEF Typed
  <2>2. QED
    BY <1>1, <1>2, <2>1
<1>7. CASE c = "$" /\ IsInteger(line)
  <2>1. now = ParseBulk(in, pos, count) /\ then = ParseBulk(to, pos, count)
    BY <1>7 DEF Typed
  <2>2. count \in Int
    BY <1>7, IntegerIs
  <2> HIDE DEF count
  <2>3. QED
    BY <2>1, <2>2, BulkAnswers, BulkStands
<1>8. CASE c = "*" /\ IsInteger(line)
  <2> DEFINE whole(r) == AndThen(ParseElements(r, pos, count), LAMBDA elements, end :
                                   Ok(Array(elements), end))
             one(r) == CASE count = -1 -> Ok(Null("array"), pos)
                         [] count < -1 -> Malformed
                         [] count >= 0 -> whole(r)
  <2>1. now = one(row) /\ then = one(wider)
    BY <1>8 DEF Typed
  <2>2. count \in Int
    BY <1>8, IntegerIs
  <2> HIDE DEF count, now, then
  <2>3. CASE count = -1
    <3>1. now = Ok(Null("array"), pos) /\ then = Ok(Null("array"), pos)
      BY <2>1, <2>3
    <3>2. QED
      BY <1>1, <1>2, <3>1 DEF now, then
  <2>4. CASE count < -1
    <3>1. now = Malformed /\ then = Malformed
      <4> HIDE DEF whole
      <4>1. QED
        BY <2>1, <2>2, <2>4
    <3>2. QED
      BY <1>1, <1>2, <3>1 DEF now, then
  <2>5. CASE count >= 0
    <3>1. now = whole(row) /\ then = whole(wider)
      <4> HIDE DEF whole
      <4>1. QED
        BY <2>1, <2>2, <2>5
    <3>2. Len(in) \in Nat /\ count \in Nat
      BY <2>2, <2>5, UnitsOf
    <3>3. Answers(whole(row), pos, Len(in) + 1) /\ Stands(whole(row), whole(wider))
      BY <3>2, ArrayStands
    <3>4. QED
      BY <3>1, <3>3 DEF now, then
  <2>6. QED
    BY <2>2, <2>3, <2>4, <2>5
<1>9. QED
  BY <1>3, <1>4, <1>5, <1>6, <1>7, <1>8 DEF LineTypes

LEMMA ValueIs ==
  ASSUME NEW row, NEW in, NEW pos, NEW depth
  PROVE  ParseValue(row, in, pos, depth) =
           IF NestsTooDeep(depth) THEN Malformed
           ELSE IF pos > Len(in) THEN Incomplete
           ELSE IF in[pos] \notin LineTypes THEN Malformed
           ELSE IF IsOk(ReadLine(in, pos + 1))
                THEN Typed(row, in, in[pos], ReadLine(in, pos + 1).value, ReadLine(in, pos + 1).pos)
                ELSE ReadLine(in, pos + 1)
BY DEF ParseValue, Typed, AndThen

LEMMA ValueStands ==
  ASSUME NEW in \in Text, NEW to \in Text, Extends(in, to), NEW row, NEW wider,
         \A at \in 1 .. Len(in) + 1 : /\ Answers(row[at], at, Len(in) + 1)
                                      /\ Stands(row[at], wider[at]),
         NEW pos \in 1 .. Len(in) + 1, NEW depth \in Nat
  PROVE  /\ Answers(ParseValue(row, in, pos, depth), pos + 1, Len(in) + 1)
         /\ Stands(ParseValue(row, in, pos, depth), ParseValue(wider, to, pos, depth))
<1> DEFINE now == ParseValue(row, in, pos, depth)
           then == ParseValue(wider, to, pos, depth)
           line == ReadLine(in, pos + 1)
           after == ReadLine(to, pos + 1)
<1>1. Len(in) \in Nat /\ Len(to) \in Nat /\ Len(in) <= Len(to)
  BY UnitsOf DEF Extends
<1>2. now = IF NestsTooDeep(depth) THEN Malformed
            ELSE IF pos > Len(in) THEN Incomplete
            ELSE IF in[pos] \notin LineTypes THEN Malformed
            ELSE IF IsOk(line) THEN Typed(row, in, in[pos], line.value, line.pos) ELSE line
  BY ValueIs
<1>3. then = IF NestsTooDeep(depth) THEN Malformed
             ELSE IF pos > Len(to) THEN Incomplete
             ELSE IF to[pos] \notin LineTypes THEN Malformed
             ELSE IF IsOk(after) THEN Typed(wider, to, to[pos], after.value, after.pos) ELSE after
  BY ValueIs
<1>4. /\ Answers(line, pos + 3, Len(in) + 1) /\ Stands(line, after)
      /\ IsOk(line) => line.value \in Text
  <2>1. pos + 1 \in Nat \ {0} /\ (pos + 1) + 2 = pos + 3
    BY <1>1
  <2>2. QED
    BY <2>1, LineAnswers, LineStands
<1> HIDE DEF now, then, line, after
<1>5. CASE NestsTooDeep(depth)
  <2>1. now = Malformed /\ then = Malformed
    BY <1>2, <1>3, <1>5
  <2>2. QED
    BY <2>1 DEF Answers, Stands, now, then
<1>6. CASE ~NestsTooDeep(depth) /\ pos > Len(in)
  <2>1. now = Incomplete
    BY <1>2, <1>6
  <2>2. QED
    BY <2>1 DEF Answers, Stands, now, then
<1>7. CASE ~NestsTooDeep(depth) /\ ~(pos > Len(in))
  <2>1. pos \in 1 .. Len(in) /\ ~(pos > Len(to))
    BY <1>1, <1>7
  <2>2. to[pos] = in[pos]
    BY <2>1 DEF Extends
  <2>3. CASE in[pos] \notin LineTypes
    <3>1. now = Malformed /\ then = Malformed
      BY <1>2, <1>3, <1>7, <2>1, <2>2, <2>3
    <3>2. QED
      BY <3>1 DEF Answers, Stands, now, then
  <2>4. CASE in[pos] \in LineTypes
    <3>1. /\ now = IF IsOk(line) THEN Typed(row, in, in[pos], line.value, line.pos) ELSE line
          /\ then = IF IsOk(after) THEN Typed(wider, to, in[pos], after.value, after.pos) ELSE after
      BY <1>2, <1>3, <1>7, <2>1, <2>2, <2>4
    <3>2. CASE line = Incomplete
      <4>1. now = Incomplete
        BY <3>1, <3>2, AnswersDiffer
      <4>2. QED
        BY <4>1 DEF Answers, Stands, now, then
    <3>3. CASE line = Malformed
      <4>1. after = Malformed
        BY <1>4, <3>3, AnswersDiffer DEF Stands
      <4>2. now = Malformed /\ then = Malformed
        BY <3>1, <3>3, <4>1, AnswersDiffer
      <4>3. QED
        BY <4>2 DEF Answers, Stands, now, then
    <3>4. CASE line.pos \in pos + 3 .. Len(in) + 1 /\ line = Ok(line.value, line.pos)
      <4>1. IsOk(line) /\ after = line
        BY <1>4, <3>4, AnswersDiffer DEF Stands
      <4> DEFINE at == line.pos
      <4>2. now = Typed(row, in, in[pos], line.value, at)
            /\ then = Typed(wider, to, in[pos], line.value, at)
        BY <3>1, <4>1
      <4>3. at \in 1 .. Len(in) + 1 /\ at \in pos + 3 .. Len(in) + 1
        BY <1>1, <3>4
      <4> HIDE DEF at
      <4>4. Answers(now, at, Len(in) + 1) /\ Stands(now, then)
        BY <2>4, <4>2, <4>3, TypedStands
      <4>5. \A p \in at .. Len(in) + 1 : p \in pos + 1 .. Len(in) + 1
        BY <1>1, <4>3
      <4>6. Answers(now, pos + 1, Len(in) + 1)
        BY <4>4, <4>5 DEF Answers
      <4>7. QED
        BY <4>4, <4>6 DEF now, then
    <3>5. QED
      BY <1>4, <3>2, <3>3, <3>4 DEF Answers
  <2>5. QED
    BY <2>3, <2>4
<1>8. QED
  BY <1>5, <1>6, <1>7

\* What is parsed at each place of in at one depth, row being what is parsed one
\* level deeper.
Row(row, in, depth) == [pos \in 1 .. Len(in) + 1 |-> ParseValue(row, in, pos, depth)]

\* There are such values at every depth: beyond the limit they are all malformed,
\* and so each row above it follows from the one below.
LEMMA RowsExist ==
  ASSUME NEW in
  PROVE  \E f : f = [depth \in Nat |-> Row(f[depth + 1], in, depth)]
<1> DEFINE Right(f, n) == /\ f = [depth \in Nat |-> f[depth]]
                          /\ \A depth \in Nat : depth + n > MaxDepth
                                                  => f[depth] = Row(f[depth + 1], in, depth)
           S == {n \in Nat : \E f : Right(f, n)}
<1>1. MaxDepth \in Nat
  BY MaxDepthAssumption
<1>2. 0 \in S
  <2> DEFINE refused == [pos \in 1 .. Len(in) + 1 |-> Malformed]
             f == [depth \in Nat |-> refused]
  <2>1. ASSUME NEW depth \in Nat, depth + 0 > MaxDepth, NEW row
        PROVE  Row(row, in, depth) = refused
    <3>1. NestsTooDeep(depth)
      BY <1>1, <2>1 DEF NestsTooDeep
    <3>2. \A pos : ParseValue(row, in, pos, depth) = Malformed
      BY <3>1, ValueIs
    <3>3. QED
      BY <3>2 DEF Row
  <2> HIDE DEF refused
  <2>2. Right(f, 0)
    BY <2>1
  <2>3. QED
    BY <2>2
<1>3. ASSUME NEW n \in S
      PROVE  n + 1 \in S
  <2>1. n \in Nat
    OBVIOUS
  <2>2. PICK f : Right(f, n)
    OBVIOUS
  <2>3. CASE MaxDepth - n < 0
    <3>1. Right(f, n + 1)
      <4>1. \A depth \in Nat : depth + n > MaxDepth
        BY <1>1, <2>1, <2>3
      <4>2. QED
        BY <2>2, <4>1
    <3> HIDE DEF Right
    <3>2. QED
      BY <2>1, <3>1
  <2>4. CASE MaxDepth - n >= 0
    <3> DEFINE here == MaxDepth - n
               row == Row(f[here + 1], in, here)
               g == [depth \in Nat |-> IF depth = here THEN row ELSE f[depth]]
    <3>1. here \in Nat
      BY <1>1, <2>1, <2>4
    <3> HIDE DEF row
    <3>2. g = [depth \in Nat |-> g[depth]] /\ g[here] = row
          /\ \A depth \in Nat : depth # here => g[depth] = f[depth]
      BY <3>1
    <3> HIDE DEF g
    <3>3. ASSUME NEW depth \in Nat, depth + (n + 1) > MaxDepth
          PROVE  g[depth] = Row(g[depth + 1], in, depth)
      <4>1. depth >= here
        BY <1>1, <2>1, <3>3
      <4>2. g[depth + 1] = f[depth + 1]
        BY <3>1, <3>2, <4>1
      <4>3. CASE depth = here
        BY <3>2, <4>2, <4>3 DEF row
      <4>4. CASE depth # here
        <5>1. depth + n > MaxDepth
          BY <1>1, <2>1, <4>1, <4>4
        <5>2. f[depth] = Row(f[depth + 1], in, depth)
          BY <2>2, <5>1
        <5>3. QED
          BY <3>2, <4>2, <4>4, <5>2
      <4>5. QED
        BY <4>3, <4>4
    <3>4. Right(g, n + 1)
      BY <3>2, <3>3
    <3> HIDE DEF Right
    <3>5. QED
      BY <2>1, <3>4
  <2>5. QED
    BY <1>1, <2>1, <2>3, <2>4
<1>4. S \subseteq Nat
  OBVIOUS
<1> HIDE DEF S
<1>5. S = Nat
  BY <1>2, <1>3, <1>4, InductionOnNat
<1>6. PICK f : Right(f, MaxDepth + 1)
  <2>1. MaxDepth + 1 \in S
    BY <1>1, <1>5
  <2> HIDE DEF Right
  <2>2. QED
    BY <2>1 DEF S
<1>7. \A depth \in Nat : f[depth] = Row(f[depth + 1], in, depth)
  <2>1. \A depth \in Nat : depth + (MaxDepth + 1) > MaxDepth
    BY <1>1
  <2>2. QED
    BY <1>6, <2>1
<1>8. f = [depth \in Nat |-> Row(f[depth + 1], in, depth)]
  BY <1>6, <1>7
<1>9. QED
  BY <1>8

LEMMA ValuesAre ==
  ASSUME NEW in, NEW depth \in Nat
  PROVE  Values(in)[depth] = Row(Values(in)[depth + 1], in, depth)
<1> DEFINE P(f) == f = [d \in Nat |->
                         [pos \in 1 .. Len(in) + 1 |-> ParseValue(f[d + 1], in, pos, d)]]
<1>1. PICK f : f = (CHOOSE h : P(h))
  OBVIOUS
<1>2. P(f)
  <2>1. PICK h : h = [d \in Nat |-> Row(h[d + 1], in, d)]
    BY RowsExist
  <2>2. P(h)
    BY <2>1 DEF Row
  <2> HIDE DEF P
  <2>3. QED
    BY <1>1, <2>2
<1>3. Values(in) = f
  BY <1>1 DEF Values
<1>4. f[depth] = Row(f[depth + 1], in, depth)
  BY <1>2 DEF Row
<1>5. QED
  BY <1>3, <1>4

LEMMA ValuesStand ==
  ASSUME NEW in \in Text, NEW to \in Text, Extends(in, to),
         NEW depth \in Nat, NEW pos \in 1 .. Len(in) + 1
  PROVE  /\ Answers(Values(in)[depth][pos], pos + 1, Len(in) + 1)
         /\ Stands(Values(in)[depth][pos], Values(to)[depth][pos])
<1> DEFINE Good(d) == \A at \in 1 .. Len(in) + 1 :
                        /\ Answers(Values(in)[d][at], at + 1, Len(in) + 1)
                        /\ Stands(Values(in)[d][at], Values(to)[d][at])
           S == {n \in Nat : \A d \in Nat : d + n > MaxDepth => Good(d)}
<1>1. MaxDepth \in Nat /\ Len(in) \in Nat /\ Len(to) \in Nat /\ Len(in) <= Len(to)
  BY MaxDepthAssumption, UnitsOf DEF Extends
<1>2. ASSUME NEW d \in Nat, NEW at \in 1 .. Len(in) + 1
      PROVE  /\ Values(in)[d][at] = ParseValue(Values(in)[d + 1], in, at, d)
             /\ Values(to)[d][at] = ParseValue(Values(to)[d + 1], to, at, d)
  <2>1. at \in 1 .. Len(to) + 1
    BY <1>1
  <2>2. Values(in)[d] = Row(Values(in)[d + 1], in, d) /\ Values(to)[d] = Row(Values(to)[d + 1], to, d)
    BY ValuesAre
  <2>3. QED
    BY <2>1, <2>2 DEF Row
<1>3. 0 \in S
  <2> SUFFICES ASSUME NEW d \in Nat, d + 0 > MaxDepth, NEW at \in 1 .. Len(in) + 1
               PROVE  /\ Answers(Values(in)[d][at], at + 1, Len(in) + 1)
                      /\ Stands(Values(in)[d][at], Values(to)[d][at])
    OBVIOUS
  <2>1. NestsTooDeep(d)
    BY <1>1 DEF NestsTooDeep
  <2>2. Values(in)[d][at] = Malformed /\ Values(to)[d][at] = Malformed
    BY <1>2, <2>1, ValueIs
  <2>3. QED
    BY <2>2 DEF Answers, Stands
<1>4. ASSUME NEW n \in S
      PROVE  n + 1 \in S
  <2> SUFFICES ASSUME NEW d \in Nat, d + (n + 1) > MaxDepth, NEW at \in 1 .. Len(in) + 1
               PROVE  /\ Answers(Values(in)[d][at], at + 1, Len(in) + 1)
                      /\ Stands(Values(in)[d][at], Values(to)[d][at])
    OBVIOUS
  <2> DEFINE row == Values(in)[d + 1]
             wider == Values(to)[d + 1]
  <2>1. d + 1 \in Nat /\ (d + 1) + n > MaxDepth /\ n \in Nat
    BY <1>1
  <2>2. Good(d + 1)
    BY <2>1
  <2>3. \A p \in 1 .. Len(in) + 1 : Answers(row[p], p, Len(in) + 1) /\ Stands(row[p], wider[p])
    <3> SUFFICES ASSUME NEW p \in 1 .. Len(in) + 1
                 PROVE  Answers(row[p], p, Len(in) + 1) /\ Stands(row[p], wider[p])
      OBVIOUS
    <3>1. Answers(row[p], p + 1, Len(in) + 1) /\ Stands(row[p], wider[p])
      BY <2>2
    <3>2. \A e \in p + 1 .. Len(in) + 1 : e \in p .. Len(in) + 1
      BY <1>1
    <3> HIDE DEF row, wider
    <3>3. QED
      BY <3>1, <3>2 DEF Answers
  <2>4. Values(in)[d][at] = ParseValue(row, in, at, d) /\ Values(to)[d][at] = ParseValue(wider, to, at, d)
    BY <1>2
  <2> HIDE DEF row, wider
  <2>5. /\ Answers(ParseValue(row, in, at, d), at + 1, Len(in) + 1)
        /\ Stands(ParseValue(row, in, at, d), ParseValue(wider, to, at, d))
    BY <2>3, ValueStands
  <2>6. QED
    BY <2>4, <2>5
<1>5. S \subseteq Nat
  OBVIOUS
<1> HIDE DEF S
<1>6. S = Nat
  BY <1>3, <1>4, <1>5, InductionOnNat
<1>7. Good(depth)
  <2>1. MaxDepth + 1 \in S /\ depth + (MaxDepth + 1) > MaxDepth
    BY <1>1, <1>6
  <2> HIDE DEF Good
  <2>2. QED
    BY <2>1 DEF S
<1>8. QED
  BY <1>7

\* A verdict stands whatever follows, and a value takes up a part of what there is.
LEMMA ParseStands ==
  ASSUME NEW in \in Text, NEW to \in Text, Extends(in, to)
  PROVE  /\ Answers(Parse(in), 2, Len(in) + 1)
         /\ Stands(Parse(in), Parse(to))
<1>1. Len(in) \in Nat
  BY UnitsOf
<1>2. 1 \in Nat /\ 1 \in 1 .. Len(in) + 1 /\ 1 + 1 = 2
  BY <1>1
<1>3. QED
  BY <1>2, ValuesStand DEF Parse

-----------------------------------------------------------------------------
(* The parse loop *)

Parsed == {Parse(in).value : in \in Text}

Rest(in) == SubSeq(in, Parse(in).pos, Len(in))
Step(f, in) ==
  IF IsOk(Parse(in)) THEN [f[Rest(in)] EXCEPT !.values = <<Parse(in).value>> \o @]
  ELSE [values |-> << >>, rest |-> in, broken |-> Parse(in) = Malformed]

LEMMA RestIs ==
  ASSUME NEW in \in Text, IsOk(Parse(in))
  PROVE  /\ Parse(in).pos \in 2 .. Len(in) + 1 /\ Parse(in) = Ok(Parse(in).value, Parse(in).pos)
         /\ Rest(in) \in Text /\ Len(Rest(in)) < Len(in)
         /\ Len(Rest(in)) = Len(in) + 1 - Parse(in).pos
<1> DEFINE p == Parse(in).pos
<1>1. Len(in) \in Nat
  BY UnitsOf
<1>2. p \in 2 .. Len(in) + 1 /\ Parse(in) = Ok(Parse(in).value, p)
  <2>1. Extends(in, in)
    BY <1>1 DEF Extends
  <2>2. Answers(Parse(in), 2, Len(in) + 1)
    BY <2>1, ParseStands
  <2>3. QED
    BY <2>2, AnswersDiffer DEF Answers
<1>3. Rest(in) = SubSeq(in, p, Len(in))
  BY DEF Rest
<1> HIDE DEF p
<1>4. Rest(in) \in Text /\ Len(Rest(in)) = Len(in) + 1 - p
  <2>1. p \in 1 .. Len(in) + 1 /\ Len(in) \in p - 1 .. Len(in)
    BY <1>1, <1>2
  <2>2. SubSeq(in, p, Len(in)) \in Seq(Unit)
        /\ Len(SubSeq(in, p, Len(in))) = IF p <= Len(in) THEN Len(in) - p + 1 ELSE 0
    BY <2>1, SubSeqProperties DEF Text
  <2>3. QED
    BY <1>1, <1>2, <1>3, <2>2 DEF Text
<1>5. Len(Rest(in)) < Len(in)
  BY <1>1, <1>2, <1>4
<1>6. QED
  BY <1>2, <1>4, <1>5 DEF p

LEMMA StepSame ==
  ASSUME NEW in \in Text, NEW f, NEW g, IsOk(Parse(in)) => f[Rest(in)] = g[Rest(in)]
  PROVE  Step(f, in) = Step(g, in)
BY DEF Step

\* f does what the loop does on what is shorter than n.
Drains(f, n) == \A in \in Text : Len(in) < n => f[in] = Step(f, in)

LEMMA DrainsExist ==
  ASSUME NEW n \in Nat
  PROVE  \E f : Drains(f, n)
<1> DEFINE S == {m \in Nat : \E f : Drains(f, m)}
<1>1. 0 \in S
  <2>1. \A in \in Text : ~(Len(in) < 0)
    BY UnitsOf
  <2>2. Drains(<< >>, 0)
    BY <2>1 DEF Drains
  <2>3. QED
    BY <2>2
<1>2. ASSUME NEW m \in S
      PROVE  m + 1 \in S
  <2>1. m \in Nat
    OBVIOUS
  <2>2. PICK f : Drains(f, m)
    OBVIOUS
  <2> DEFINE g == [in \in Text |-> IF Len(in) = m THEN Step(f, in) ELSE f[in]]
  <2>3. \A in \in Text : g[in] = IF Len(in) = m THEN Step(f, in) ELSE f[in]
    OBVIOUS
  <2> HIDE DEF g
  <2>4. ASSUME NEW in \in Text, Len(in) < m + 1
        PROVE  g[in] = Step(g, in)
    <3>1. Len(in) \in Nat
      BY UnitsOf
    <3>2. IsOk(Parse(in)) => f[Rest(in)] = g[Rest(in)]
      <4> SUFFICES ASSUME IsOk(Parse(in))
                   PROVE  f[Rest(in)] = g[Rest(in)]
        OBVIOUS
      <4>1. Rest(in) \in Text /\ Len(Rest(in)) < Len(in)
        BY RestIs
      <4>2. Len(Rest(in)) # m
        BY <2>1, <2>4, <3>1, <4>1, UnitsOf
      <4>3. QED
        BY <2>3, <4>1, <4>2
    <3>3. Step(f, in) = Step(g, in)
      BY <3>2, StepSame
    <3>4. CASE Len(in) = m
      BY <2>3, <3>3, <3>4
    <3>5. CASE Len(in) # m
      <4>1. Len(in) < m
        BY <2>1, <2>4, <3>1, <3>5
      <4>2. f[in] = Step(f, in)
        BY <2>2, <4>1 DEF Drains
      <4>3. QED
        BY <2>3, <3>3, <3>5, <4>2
    <3>6. QED
      BY <3>4, <3>5
  <2>5. Drains(g, m + 1)
    BY <2>4 DEF Drains
  <2>6. QED
    BY <2>1, <2>5
<1>3. S \subseteq Nat
  OBVIOUS
<1> HIDE DEF S
<1>4. S = Nat
  BY <1>1, <1>2, <1>3, InductionOnNat
<1>5. QED
  BY <1>4 DEF S

LEMMA DrainsAgree ==
  ASSUME NEW n \in Nat, NEW f, Drains(f, n), NEW g, Drains(g, n),
         NEW in \in Text, Len(in) < n
  PROVE  f[in] = g[in]
<1> DEFINE S == {m \in Nat : \A s \in Text : Len(s) = m /\ m < n => f[s] = g[s]}
<1>1. ASSUME NEW m \in Nat, \A i \in 0 .. m - 1 : i \in S
      PROVE  m \in S
  <2> SUFFICES ASSUME NEW s \in Text, Len(s) = m, m < n
               PROVE  f[s] = g[s]
    OBVIOUS
  <2>1. IsOk(Parse(s)) => f[Rest(s)] = g[Rest(s)]
    <3> SUFFICES ASSUME IsOk(Parse(s))
                 PROVE  f[Rest(s)] = g[Rest(s)]
      OBVIOUS
    <3> DEFINE t == Rest(s)
    <3>1. t \in Text /\ Len(t) < m /\ Len(t) \in Nat
      BY RestIs, UnitsOf
    <3>2. Len(t) \in 0 .. m - 1 /\ Len(t) < n
      BY <3>1
    <3> HIDE DEF t
    <3>3. QED
      BY <1>1, <3>1, <3>2 DEF t
  <2>2. Step(f, s) = Step(g, s)
    BY <2>1, StepSame
  <2>3. QED
    BY <2>2 DEF Drains
<1>2. S \subseteq Nat
  OBVIOUS
<1> HIDE DEF S
<1>3. S = Nat
  BY <1>1, <1>2, StrongInduction
<1>4. QED
  BY <1>3, UnitsOf DEF S

LEMMA DrainExists == \E f : f = [in \in Text |-> Step(f, in)]
<1> DEFINE upTo(n) == CHOOSE f : Drains(f, n)
           f == [in \in Text |-> upTo(Len(in) + 1)[in]]
<1>1. \A n \in Nat : Drains(upTo(n), n)
  BY DrainsExist
<1> HIDE DEF upTo
<1>2. \A in \in Text : f[in] = upTo(Len(in) + 1)[in]
  OBVIOUS
<1>3. f = [in \in Text |-> f[in]]
  OBVIOUS
<1> HIDE DEF f
<1>4. ASSUME NEW in \in Text
      PROVE  f[in] = Step(f, in)
  <2> DEFINE n == Len(in) + 1
             g == upTo(n)
  <2>1. n \in Nat /\ Len(in) < n /\ Len(in) \in Nat
    BY UnitsOf
  <2>2. Drains(g, n)
    BY <1>1, <2>1
  <2>3. g[in] = Step(g, in)
    BY <2>1, <2>2 DEF Drains
  <2>4. IsOk(Parse(in)) => g[Rest(in)] = f[Rest(in)]
    <3> SUFFICES ASSUME IsOk(Parse(in))
                 PROVE  g[Rest(in)] = f[Rest(in)]
      OBVIOUS
    <3> DEFINE t == Rest(in)
               m == Len(t) + 1
               h == upTo(m)
    <3>1. t \in Text /\ Len(t) < Len(in) /\ Len(t) \in Nat
      BY RestIs, UnitsOf
    <3>2. m \in Nat /\ Len(t) < m /\ m < n
      BY <2>1, <3>1
    <3>3. Drains(h, m)
      BY <1>1, <3>2
    <3>4. f[t] = h[t]
      BY <1>2, <3>1
    <3> HIDE DEF t, m, h
    <3>5. Drains(g, m)
      <4>1. \A s \in Text : Len(s) < m => Len(s) < n
        BY <2>1, <3>2, UnitsOf
      <4> HIDE DEF g, n
      <4>2. QED
        BY <2>2, <4>1 DEF Drains
    <3> HIDE DEF g
    <3>6. g[t] = h[t]
      BY <3>1, <3>2, <3>3, <3>5, DrainsAgree
    <3>7. QED
      BY <3>4, <3>6 DEF t
  <2>5. Step(g, in) = Step(f, in)
    BY <2>4, StepSame
  <2>6. f[in] = g[in]
    BY <1>2
  <2>7. QED
    BY <2>3, <2>5, <2>6
<1>5. f = [in \in Text |-> Step(f, in)]
  BY <1>3, <1>4
<1>6. QED
  BY <1>5

LEMMA DrainIs ==
  ASSUME NEW in \in Text
  PROVE  Drain[in] = Step(Drain, in)
<1> DEFINE P(f) == f = [s \in Seq(Unit) |->
                         LET result == Parse(s)
                             rest == f[SubSeq(s, result.pos, Len(s))]
                         IN  IF IsOk(result)
                             THEN [rest EXCEPT !.values = <<result.value>> \o @]
                             ELSE [values |-> << >>, rest |-> s, broken |-> result = Malformed]]
<1>1. PICK f : f = (CHOOSE h : P(h))
  BY SMTT(30)
<1>2. P(f)
  <2>1. PICK h : h = [s \in Text |-> Step(h, s)]
    BY SMTT(30), DrainExists
  <2>2. P(h)
    BY <2>1 DEF Step, Rest, Text
  <2> HIDE DEF P
  <2>3. QED
    BY SMTT(30), <1>1, <2>2
<1>3. Drain = f
  BY SMTT(30), <1>1 DEF Drain
<1>4. f = [s \in Text |-> Step(f, s)]
  BY <1>2 DEF Step, Rest, Text
<1>5. f[in] = Step(f, in)
  BY <1>4
<1>6. QED
  BY <1>3, <1>5

Drained == [values : Seq(Parsed), rest : Text, broken : BOOLEAN]

\* d, with values before its own.
After(vs, d) == [values |-> vs \o d.values, rest |-> d.rest, broken |-> d.broken]

LEMMA DrainStops ==
  ASSUME NEW in \in Text, ~IsOk(Parse(in))
  PROVE  Drain[in] = [values |-> << >>, rest |-> in, broken |-> Parse(in) = Malformed]
BY DrainIs DEF Step

LEMMA DrainGoesOn ==
  ASSUME NEW in \in Text, IsOk(Parse(in)), Drain[Rest(in)] \in Drained
  PROVE  Drain[in] = After(<<Parse(in).value>>, Drain[Rest(in)])
<1> DEFINE d == Drain[Rest(in)]
           v == Parse(in).value
<1>1. Drain[in] = [d EXCEPT !.values = <<v>> \o @]
  BY DrainIs DEF Step
<1>2. d \in [values : Seq(Parsed), rest : Text, broken : BOOLEAN]
  BY DEF Drained
<1> HIDE DEF d, v
<1>3. [d EXCEPT !.values = <<v>> \o @]
        = [values |-> <<v>> \o d.values, rest |-> d.rest, broken |-> d.broken]
  <2>1. d = [values |-> d.values, rest |-> d.rest, broken |-> d.broken]
    BY <1>2
  <2>2. DOMAIN d = {"values", "rest", "broken"}
    BY <2>1
  <2> DEFINE vs == <<v>> \o d.values
  <2>3. [d EXCEPT !.values = <<v>> \o @] = [d EXCEPT !.values = vs]
    OBVIOUS
  <2> HIDE DEF vs
  <2>4. [d EXCEPT !.values = vs] = [values |-> vs, rest |-> d.rest, broken |-> d.broken]
    BY <2>1, <2>2
  <2>5. QED
    BY <2>3, <2>4 DEF vs
<1>4. QED
  BY <1>1, <1>3 DEF After, d, v

LEMMA DrainType ==
  ASSUME NEW in \in Text
  PROVE  Drain[in] \in Drained
<1> DEFINE S == {n \in Nat : \A s \in Text : Len(s) = n => Drain[s] \in Drained}
<1>1. ASSUME NEW n \in Nat, \A m \in 0 .. n - 1 : m \in S
      PROVE  n \in S
  <2> SUFFICES ASSUME NEW s \in Text, Len(s) = n
               PROVE  Drain[s] \in Drained
    OBVIOUS
  <2>1. CASE ~IsOk(Parse(s))
    <3> DEFINE b == Parse(s) = Malformed
    <3>1. Drain[s] = [values |-> << >>, rest |-> s, broken |-> b]
      BY <2>1, DrainStops
    <3>2. << >> \in Seq(Parsed) /\ b \in BOOLEAN
      OBVIOUS
    <3> HIDE DEF b
    <3>3. QED
      BY <3>1, <3>2 DEF Drained
  <2>2. CASE IsOk(Parse(s))
    <3> DEFINE t == Rest(s)
               d == Drain[t]
               v == Parse(s).value
    <3>1. t \in Text /\ Len(t) < n /\ Len(t) \in Nat
      BY <2>2, RestIs, UnitsOf
    <3>2. Len(t) \in 0 .. n - 1
      BY <3>1
    <3>3. d \in Drained
      <4> HIDE DEF t
      <4>1. QED
        BY <1>1, <3>1, <3>2
    <3>4. Drain[s] = After(<<v>>, d)
      BY <2>2, <3>3, DrainGoesOn
    <3>5. v \in Parsed
      BY DEF Parsed
    <3> HIDE DEF v, d
    <3>6. <<v>> \o d.values \in Seq(Parsed)
      <4>1. <<v>> \in Seq(Parsed) /\ d.values \in Seq(Parsed)
        BY <3>3, <3>5 DEF Drained
      <4>2. QED
        BY <4>1, ConcatProperties
    <3>7. QED
      BY <3>3, <3>4, <3>6 DEF After, Drained
  <2>3. QED
    BY <2>1, <2>2
<1>2. S \subseteq Nat
  OBVIOUS
<1> HIDE DEF S
<1>3. S = Nat
  BY <1>1, <1>2, StrongInduction
<1>4. QED
  BY <1>3, UnitsOf DEF S

LEMMA ConcatExtends ==
  ASSUME NEW s \in Text, NEW t \in Text
  PROVE  s \o t \in Text /\ Len(s \o t) = Len(s) + Len(t) /\ Extends(s, s \o t)
<1>1. /\ s \o t \in Text /\ Len(s \o t) = Len(s) + Len(t)
      /\ \A i \in 1 .. Len(s) + Len(t) : (s \o t)[i] = IF i <= Len(s) THEN s[i] ELSE t[i - Len(s)]
  BY ConcatProperties DEF Text
<1>2. Len(s) \in Nat /\ Len(t) \in Nat
  BY UnitsOf
<1>3. QED
  BY <1>1, <1>2 DEF Extends

\* If a value comes first, it does whatever follows, and so does what is left of s.
LEMMA RestMore ==
  ASSUME NEW s \in Text, NEW t \in Text, IsOk(Parse(s))
  PROVE  Parse(s \o t) = Parse(s) /\ Rest(s \o t) = Rest(s) \o t
<1> DEFINE p == Parse(s).pos
           u == s \o t
<1>1. Parse(u) = Parse(s)
  BY ConcatExtends, ParseStands, AnswersDiffer DEF Stands
<1>2. Len(s) \in Nat /\ Len(t) \in Nat /\ p \in 2 .. Len(s) + 1
  BY RestIs, UnitsOf
<1>3. Rest(u) = SubSeq(u, p, Len(u)) /\ Rest(s) = SubSeq(s, p, Len(s))
  BY <1>1 DEF Rest
<1> HIDE DEF p
<1>4. SubSeq(s \o t, p, Len(s \o t)) = SubSeq(s, p, Len(s)) \o t
  <2> DEFINE a == SubSeq(s, p, Len(s))
             b == SubSeq(u, p, Len(u))
  <2>1. Len(u) = Len(s) + Len(t) /\ u \in Seq(Unit)
        /\ \A i \in 1 .. Len(s) + Len(t) : u[i] = IF i <= Len(s) THEN s[i] ELSE t[i - Len(s)]
    BY ConcatProperties DEF Text
  <2>2. a \in Seq(Unit) /\ Len(a) = Len(s) - p + 1 /\ \A i \in 1 .. Len(s) - p + 1 : a[i] = s[p + i - 1]
    BY <1>2 DEF Text
  <2>3. b \in Seq(Unit) /\ Len(b) = Len(u) - p + 1 /\ \A i \in 1 .. Len(u) - p + 1 : b[i] = u[p + i - 1]
    <3> HIDE DEF u
    <3>1. QED
      BY <1>2, <2>1
  <2>4. /\ a \o t \in Seq(Unit) /\ Len(a \o t) = Len(a) + Len(t)
        /\ \A i \in 1 .. Len(a) + Len(t) : (a \o t)[i] = IF i <= Len(a) THEN a[i] ELSE t[i - Len(a)]
    <3>1. t \in Seq(Unit)
      BY DEF Text
    <3> HIDE DEF a
    <3>2. QED
      BY <2>2, <3>1, ConcatProperties
  <2> DEFINE c == a \o t
  <2>5. Len(b) = Len(c) /\ Len(c) \in Nat
    <3> HIDE DEF a, b, c, u
    <3>1. QED
      BY <1>2, <2>1, <2>2, <2>3, <2>4 DEF c
  <2>6. ASSUME NEW i \in 1 .. Len(b)
        PROVE  b[i] = c[i]
    <3> HIDE DEF a, b, u
    <3>1. p + i - 1 \in 1 .. Len(s) + Len(t) /\ i \in 1 .. Len(a) + Len(t) /\ i \in 1 .. Len(u) - p + 1
      BY <1>2, <2>1, <2>2, <2>3
    <3>2. b[i] = IF p + i - 1 <= Len(s) THEN s[p + i - 1] ELSE t[(p + i - 1) - Len(s)]
      BY <2>1, <2>3, <3>1
    <3>3. c[i] = IF i <= Len(a) THEN a[i] ELSE t[i - Len(a)]
      BY <2>4, <3>1
    <3>4. CASE i <= Len(a)
      <4>1. p + i - 1 <= Len(s) /\ i \in 1 .. Len(s) - p + 1
        BY <1>2, <2>2, <3>1, <3>4
      <4>2. QED
        BY <2>2, <3>2, <3>3, <3>4, <4>1
    <3>5. CASE ~(i <= Len(a))
      <4>1. ~(p + i - 1 <= Len(s)) /\ (p + i - 1) - Len(s) = i - Len(a)
        BY <1>2, <2>2, <3>1, <3>5
      <4>2. QED
        BY <3>2, <3>3, <3>5, <4>1
    <3>6. QED
      BY <3>4, <3>5
  <2> HIDE DEF b, c
  <2>7. b \in Seq(Unit) /\ c \in Seq(Unit)
    BY <2>3, <2>4 DEF c
  <2>8. b = c
    BY <2>5, <2>6, <2>7, SeqEqual
  <2>9. QED
    BY <2>8 DEF b, c
<1>5. QED
  BY <1>1, <1>3, <1>4

\* What has been received decides: more may follow it, and what came out of it has
\* come out; only what was left is parsed with what follows, and nothing after a
\* stream was found to be malformed.
LEMMA DrainMore ==
  ASSUME NEW s \in Text, NEW t \in Text
  PROVE  /\ ~Drain[s].broken => Drain[s \o t] = After(Drain[s].values, Drain[Drain[s].rest \o t])
         /\ Drain[s].broken => Drain[s \o t].broken /\ Drain[s \o t].values = Drain[s].values
<1> DEFINE More(r) ==
             /\ ~Drain[r].broken => Drain[r \o t] = After(Drain[r].values, Drain[Drain[r].rest \o t])
             /\ Drain[r].broken => Drain[r \o t].broken /\ Drain[r \o t].values = Drain[r].values
           S == {n \in Nat : \A r \in Text : Len(r) = n => More(r)}
<1>1. ASSUME NEW n \in Nat, \A m \in 0 .. n - 1 : m \in S
      PROVE  n \in S
  <2> SUFFICES ASSUME NEW r \in Text, Len(r) = n
               PROVE  More(r)
    OBVIOUS
  <2> DEFINE u == r \o t
  <2>1. u \in Text /\ Drain[u] \in Drained /\ Drain[r] \in Drained
    BY ConcatExtends, DrainType
  <2>2. CASE IsOk(Parse(r))
    <3> DEFINE v == Parse(r).value
               q == Rest(r)
               d == Drain[q]
               e == Drain[q \o t]
               f == Drain[d.rest \o t]
    <3>1. q \in Text /\ Len(q) < n /\ Len(q) \in Nat
      BY <2>2, RestIs, UnitsOf
    <3>2. Len(q) \in 0 .. n - 1
      BY <3>1
    <3>3. d \in Drained /\ q \o t \in Text /\ e \in Drained
      <4> HIDE DEF q
      <4>1. QED
        BY <3>1, ConcatExtends, DrainType
    <3>4. d.rest \o t \in Text /\ f \in Drained
      <4>1. d.rest \in Text
        BY <3>3 DEF Drained
      <4> HIDE DEF d
      <4>2. QED
        BY <4>1, ConcatExtends, DrainType
    <3>5. /\ ~d.broken => e = After(d.values, f)
          /\ d.broken => e.broken /\ e.values = d.values
      <4>1. Len(q) \in S
        BY <1>1, <3>2
      <4>2. \A x \in Text : Len(x) = Len(q) => More(x)
        BY <4>1
      <4>3. More(q)
        <5> HIDE DEF More
        <5>1. QED
          BY ONLY <3>1, <4>2
      <4>4. QED
        BY <4>3
    <3>6. Drain[r] = After(<<v>>, d)
      BY <2>2, <3>3, DrainGoesOn
    <3>7. Drain[u] = After(<<v>>, e)
      <4>1. Parse(u) = Parse(r) /\ Rest(u) = q \o t
        BY <2>2, RestMore
      <4> HIDE DEF u, q
      <4>2. QED
        BY <2>1, <2>2, <3>3, <4>1, DrainGoesOn
    <3>8. v \in Parsed
      BY DEF Parsed
    <3> HIDE DEF v, q, d, e, f, u
    <3>9. CASE ~d.broken
      <4>1. /\ Drain[r].values = <<v>> \o d.values /\ Drain[r].rest = d.rest
            /\ Drain[r].broken = d.broken
        BY <3>6 DEF After
      <4>2. Drain[u] = After(<<v>>, After(d.values, f))
        BY <3>5, <3>7, <3>9
      <4>3. <<v>> \o (d.values \o f.values) = (<<v>> \o d.values) \o f.values
        <5>1. <<v>> \in Seq(Parsed) /\ d.values \in Seq(Parsed) /\ f.values \in Seq(Parsed)
          BY <3>3, <3>4, <3>8 DEF Drained
        <5>2. \A x, y, z \in Seq(Parsed) : x \o (y \o z) = (x \o y) \o z
          BY ConcatAssociative
        <5>3. QED
          BY ONLY <5>1, <5>2
      <4>4. Drain[u] = After(Drain[r].values, f)
        BY <4>1, <4>2, <4>3 DEF After
      <4>5. f = Drain[Drain[r].rest \o t]
        BY <4>1 DEF f
      <4>6. QED
        BY <3>9, <4>1, <4>4, <4>5 DEF u
    <3>10. CASE d.broken
      <4>1. /\ Drain[r].values = <<v>> \o d.values /\ Drain[r].broken = d.broken
            /\ Drain[u].values = <<v>> \o e.values /\ Drain[u].broken = e.broken
        BY <3>6, <3>7 DEF After
      <4>2. QED
        BY <3>5, <3>10, <4>1 DEF u
    <3>11. QED
      BY <3>9, <3>10
  <2>3. CASE ~IsOk(Parse(r)) /\ Parse(r) # Malformed
    <3> DEFINE d == Drain[u]
    <3>1. Drain[r] = [values |-> << >>, rest |-> r, broken |-> FALSE]
      BY <2>3, DrainStops
    <3>2. Drain[r].values = << >> /\ Drain[r].rest = r /\ ~Drain[r].broken
      BY <3>1
    <3>3. d \in [values : Seq(Parsed), rest : Text, broken : BOOLEAN]
      BY <2>1 DEF Drained
    <3> HIDE DEF d
    <3>4. << >> \o d.values = d.values
      BY <3>3, ConcatEmptySeq
    <3>5. d = [values |-> d.values, rest |-> d.rest, broken |-> d.broken]
      BY <3>3
    <3>6. d = After(<< >>, d)
      BY <3>4, <3>5 DEF After
    <3>7. QED
      BY <3>2, <3>6 DEF d
  <2>4. CASE Parse(r) = Malformed
    <3>1. Parse(u) = Malformed
      BY <2>4, ConcatExtends, ParseStands, AnswersDiffer DEF Stands
    <3>2. ~IsOk(Parse(r)) /\ ~IsOk(Parse(u))
      BY <2>4, <3>1, AnswersDiffer
    <3>3. Drain[r] = [values |-> << >>, rest |-> r, broken |-> TRUE]
      BY <2>4, <3>2, DrainStops
    <3> HIDE DEF u
    <3>4. Drain[u] = [values |-> << >>, rest |-> u, broken |-> TRUE]
      BY <2>1, <3>1, <3>2, DrainStops
    <3>5. QED
      BY <3>3, <3>4 DEF u
  <2>5. QED
    BY <2>2, <2>3, <2>4
<1>2. S \subseteq Nat
  OBVIOUS
<1> HIDE DEF S
<1>3. S = Nat
  BY <1>1, <1>2, StrongInduction
<1>4. More(s)
  <2>1. Len(s) \in S
    BY <1>3, UnitsOf
  <2> HIDE DEF More
  <2>2. QED
    BY <2>1 DEF S
<1>5. QED
  BY <1>4

-----------------------------------------------------------------------------
(* The stream at every moment *)

\* What was received, parsed at once, gives the values that came out, what waits
\* and the verdict.
Received(past) == /\ Stream = past \o wire
                  /\ Drain[past] = [values |-> values, rest |-> buffer, broken |-> broken]

IInv == /\ written \in Seq(Text) /\ wire \in Text
        /\ \E past \in Text : Received(past)

LEMMA ReceivedTypes ==
  ASSUME NEW past \in Text, Received(past)
  PROVE  values \in Seq(Parsed) /\ buffer \in Text /\ broken \in BOOLEAN
<1> DEFINE d == [values |-> values, rest |-> buffer, broken |-> broken]
<1>1. d \in [values : Seq(Parsed), rest : Text, broken : BOOLEAN]
  BY DrainType DEF Received, Drained
<1>2. d.values = values /\ d.rest = buffer /\ d.broken = broken
  OBVIOUS
<1> HIDE DEF d
<1>3. QED
  BY <1>1, <1>2

LEMMA InitIInv == Init => IInv
<1> SUFFICES ASSUME Init
             PROVE  IInv
  OBVIOUS
<1> DEFINE none == << >>
<1>1. /\ none \in Text /\ Len(none) = 0 /\ none \o none = none /\ none \in Seq(Text)
  BY EmptySeq, ConcatEmptySeq DEF Text
<1>2. Stream = none
  BY FlattenEmpty DEF Init, Stream
<1>3. Parse(none) = Incomplete
  <2>1. Values(none)[1] = Row(Values(none)[1 + 1], none, 1)
    BY ValuesAre
  <2>2. 1 \in 1 .. Len(none) + 1 /\ 1 > Len(none)
    BY <1>1
  <2>3. ~NestsTooDeep(1)
    BY MaxDepthAssumption DEF NestsTooDeep
  <2> HIDE DEF none
  <2>4. Values(none)[1][1] = ParseValue(Values(none)[1 + 1], none, 1, 1)
    BY <2>1, <2>2 DEF Row
  <2>5. ParseValue(Values(none)[1 + 1], none, 1, 1) = Incomplete
    BY <2>2, <2>3, ValueIs
  <2>6. QED
    BY <2>4, <2>5 DEF Parse
<1>4. Drain[none] = [values |-> << >>, rest |-> none, broken |-> FALSE]
  <2> HIDE DEF none
  <2>1. Drain[none] = [values |-> << >>, rest |-> none, broken |-> Parse(none) = Malformed]
    BY <1>1, <1>3, AnswersDiffer, DrainStops
  <2>2. (Parse(none) = Malformed) = FALSE
    BY <1>3, AnswersDiffer
  <2>3. QED
    BY <2>1, <2>2
<1>5. Received(none)
  BY <1>1, <1>2, <1>4 DEF Received, Init
<1>6. QED
  BY <1>1, <1>5 DEF IInv, Init

LEMMA WriteIInv ==
  ASSUME IInv, NEW p \in Piece, Write(p)
  PROVE  IInv'
<1>1. p \in Text
  BY RespStreamAssumption DEF Text
<1>2. PICK past \in Text : Received(past)
  BY DEF IInv
<1>3. written \in Seq(Text) /\ wire \in Text
  BY DEF IInv
<1>4. written' = Append(written, p) /\ wire' = wire \o p /\ UNCHANGED <<buffer, values, broken>>
  BY DEF Write
<1>5. written' \in Seq(Text) /\ wire' \in Text
  <2>1. Append(written, p) \in Seq(Text)
    BY <1>1, <1>3, AppendProperties
  <2>2. QED
    BY <1>1, <1>3, <1>4, <2>1, ConcatExtends
<1>6. Stream' = past \o wire'
  <2>1. FlattenSeq(Append(written, p)) = FlattenSeq(written) \o p
    BY SMTT(30), <1>1, <1>3, FlattenAppend DEF Text
  <2>2. FlattenSeq(written) = past \o wire
    BY <1>2 DEF Received, Stream
  <2>3. (past \o wire) \o p = past \o (wire \o p)
    BY SMTT(30), <1>1, <1>3, ConcatAssociative DEF Text
  <2>4. QED
    BY <1>4, <2>1, <2>2, <2>3 DEF Stream
<1>7. Received(past)'
  BY SMTT(30), <1>2, <1>4, <1>6 DEF Received
<1>8. QED
  BY <1>5, <1>7 DEF IInv

LEMMA CutIs ==
  ASSUME NEW s \in Text, NEW n \in 0 .. Len(s)
  PROVE  /\ SubSeq(s, 1, n) \in Text /\ SubSeq(s, n + 1, Len(s)) \in Text
         /\ s = SubSeq(s, 1, n) \o SubSeq(s, n + 1, Len(s))
         /\ Len(SubSeq(s, 1, n)) = n
<1>1. Len(s) \in Nat
  BY UnitsOf
<1>2. /\ SubSeq(s, 1, n) \in Text /\ SubSeq(s, n + 1, Len(s)) \in Text
      /\ Len(SubSeq(s, 1, n)) = n
  <2>1. 1 \in 1 .. Len(s) + 1 /\ n \in 1 - 1 .. Len(s)
        /\ n + 1 \in 1 .. Len(s) + 1 /\ Len(s) \in (n + 1) - 1 .. Len(s)
    BY <1>1
  <2>2. QED
    BY <1>1, <2>1, SubSeqProperties DEF Text
<1>3. SubSeq(s, 1, n) \o SubSeq(s, n + 1, Len(s)) = SubSeq(s, 1, Len(s))
  <2>1. 1 \in 1 .. Len(s) + 1 /\ n \in 1 - 1 .. Len(s) /\ Len(s) \in n .. Len(s)
    BY <1>1
  <2>2. QED
    BY <2>1, ConcatAdjacentSubSeq DEF Text
<1>4. SubSeq(s, 1, Len(s)) = s
  BY SubSeqFull DEF Text
<1>5. QED
  BY <1>2, <1>3, <1>4

LEMMA ReceiveIInv ==
  ASSUME IInv, Receive
  PROVE  IInv'
<1>1. PICK past \in Text : Received(past)
  BY DEF IInv
<1>2. written \in Seq(Text) /\ wire \in Text
  BY DEF IInv
<1>3. values \in Seq(Parsed) /\ buffer \in Text /\ ~broken
  BY <1>1, ReceivedTypes DEF Receive
<1>4. PICK n \in 1 .. Len(wire) :
           LET drained == Drain[buffer \o SubSeq(wire, 1, n)]
           IN  /\ wire' = SubSeq(wire, n + 1, Len(wire))
               /\ buffer' = drained.rest
               /\ values' = values \o drained.values
               /\ broken' = drained.broken
               /\ UNCHANGED written
  BY DEF Receive
<1> DEFINE piece == SubSeq(wire, 1, n)
           d == Drain[buffer \o piece]
           now == past \o piece
<1>5. piece \in Text /\ wire' \in Text /\ wire = piece \o wire'
  <2>1. n \in 0 .. Len(wire)
    BY <1>2, UnitsOf
  <2>2. QED
    BY <1>2, <1>4, <2>1, CutIs
<1>6. /\ buffer' = d.rest /\ values' = values \o d.values /\ broken' = d.broken
      /\ written' = written
  BY <1>4
<1> HIDE DEF piece
<1>7. now \in Text /\ buffer \o piece \in Text
  BY <1>3, <1>5, ConcatExtends
<1>8. Stream' = now \o wire'
  <2>1. Stream = past \o (piece \o wire')
    BY <1>1, <1>5 DEF Received
  <2>2. past \o (piece \o wire') = (past \o piece) \o wire'
    <3>1. \A x, y, z \in Seq(Unit) : x \o (y \o z) = (x \o y) \o z
      <4>1. QED
        BY ONLY SMTT(30), ConcatAssociative
    <3>2. past \in Seq(Unit) /\ piece \in Seq(Unit) /\ wire' \in Seq(Unit)
      BY <1>5 DEF Text
    <3>3. QED
      BY ONLY <3>1, <3>2
  <2>3. QED
    BY <1>6, <2>1, <2>2 DEF Stream
<1>9. Drain[now] = [values |-> values', rest |-> buffer', broken |-> broken']
  <2>1. Drain[past] = [values |-> values, rest |-> buffer, broken |-> broken]
    BY <1>1 DEF Received
  <2>2. Drain[past].values = values /\ Drain[past].rest = buffer /\ ~Drain[past].broken
    BY <1>3, <2>1
  <2>3. Drain[now] = After(values, d)
    BY <1>5, <2>2, DrainMore
  <2> HIDE DEF d, now
  <2>4. QED
    BY <1>6, <2>3 DEF After
<1> HIDE DEF now
<1>10. PICK received \in Text : received = now
  BY <1>7
<1>11. Received(received)'
  BY <1>8, <1>9, <1>10 DEF Received
<1>12. QED
  BY <1>2, <1>5, <1>6, <1>11 DEF IInv

LEMMA NextIInv == IInv /\ [Next]_vars => IInv'
<1> SUFFICES ASSUME IInv, [Next]_vars
             PROVE  IInv'
  OBVIOUS
<1>1. ASSUME NEW p \in Piece, Write(p)
      PROVE  IInv'
  BY <1>1, WriteIInv
<1>2. CASE Receive
  BY <1>2, ReceiveIInv
<1>3. CASE UNCHANGED vars
  <2>1. PICK past \in Text : Received(past)
    BY DEF IInv
  <2>2. Received(past)'
    BY <1>3, <2>1 DEF Received, vars, Stream
  <2>3. QED
    BY <1>3, <2>2 DEF IInv, vars
<1>4. QED
  BY <1>1, <1>2, <1>3 DEF Next

LEMMA PrefixIs ==
  ASSUME NEW s \in Text, NEW t \in Text
  PROVE  SubSeq(s \o t, 1, Len(s)) = s
<1> DEFINE u == s \o t
           a == SubSeq(u, 1, Len(s))
<1>1. /\ u \in Text /\ Len(u) = Len(s) + Len(t)
      /\ \A i \in 1 .. Len(s) : u[i] = s[i]
  BY ConcatExtends DEF Extends
<1>2. Len(s) \in Nat /\ Len(t) \in Nat
  BY UnitsOf
<1> HIDE DEF u
<1>3. /\ a \in Seq(Unit) /\ Len(a) = Len(s) /\ \A i \in 1 .. Len(s) : a[i] = u[i]
  BY <1>1, <1>2 DEF Text
<1>4. a = s
  <2>1. s \in Seq(Unit)
    BY DEF Text
  <2> HIDE DEF a
  <2>2. QED
    BY <1>1, <1>3, <2>1, SeqEqual
<1>5. QED
  BY <1>4 DEF u

LEMMA IInvInvisible == IInv => ChunkingIsInvisible
<1> SUFFICES ASSUME IInv
             PROVE  ChunkingIsInvisible
  OBVIOUS
<1>1. PICK past \in Text : Received(past)
  BY DEF IInv
<1>2. wire \in Text /\ Stream = past \o wire
  BY <1>1 DEF IInv, Received
<1>3. SubSeq(Stream, 1, Len(Stream) - Len(wire)) = past
  <2>1. Len(Stream) - Len(wire) = Len(past)
    BY <1>2, ConcatExtends, UnitsOf
  <2>2. SubSeq(past \o wire, 1, Len(past)) = past
    BY <1>2, PrefixIs
  <2>3. QED
    BY <1>2, <2>1, <2>2
<1>4. /\ Drain[past].values = values /\ Drain[past].rest = buffer
      /\ Drain[past].broken = broken
  BY <1>1 DEF Received
<1>5. broken => Drain[Stream].broken /\ Drain[Stream].values = values
  BY <1>2, <1>4, DrainMore
<1>6. QED
  BY <1>3, <1>4, <1>5 DEF ChunkingIsInvisible

\* At every moment what has arrived, parsed from the beginning in one piece, gives
\* exactly the values that came out, the units that wait and the verdict: the parse
\* loop of handle_readable (server.cpp:162-213) loses and repeats nothing, whatever
\* the peer writes and wherever the network cuts it.
THEOREM StreamInvariant == Spec => []IInv
<1>1. QED
  BY InitIInv, NextIInv, PTL DEF Spec

\* parse (resp.cpp:43-183) answers "incomplete" whenever more input could change its
\* answer, and only then is a stream left to wait: so how the stream was cut cannot
\* be told from what comes out of it, and a verdict against it is final.
THEOREM ChunksAreInvisible == Spec => []ChunkingIsInvisible
<1>1. QED
  BY StreamInvariant, IInvInvisible, PTL
=============================================================================
