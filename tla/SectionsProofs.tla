--------------------------- MODULE SectionsProofs ---------------------------
(***************************************************************************)
(* Proofs about Sections, for output of any length: what parseSections and *)
(* nonEmptyLines, which are recursive functions, make of it. An induction  *)
(* is a least counterexample (LeastExists of RegistryProofs).              *)
(***************************************************************************)
EXTENDS Sections, PartsProofs, RegistryProofs, TLAPS

(* Reading is what its loop says: the function exists, by induction on the *)
(* number of lines.                                                        *)
LEMMA ReadingSteps ==
    ASSUME NEW out, Len(out) \in Nat
    PROVE  /\ Reading(out)[0] = NothingRead
           /\ \A i \in 1..Len(out) : Reading(out)[i] = NextLine(Reading(out)[i - 1], out[i])
<1> DEFINE IsReading(g, n) ==
             g = [i \in 0..n |-> IF i = 0 THEN NothingRead ELSE NextLine(g[i - 1], out[i])]
           unread == {n \in Nat : ~ \E g : IsReading(g, n)}
<1>1. Reading(out) = CHOOSE g : IsReading(g, Len(out))
  BY DEF Reading
<1>2. unread = {}
  <2> SUFFICES ASSUME unread # {} PROVE FALSE
    OBVIOUS
  <2>1. unread \in SUBSET Nat
    OBVIOUS
  <2> HIDE DEF unread
  <2>2. PICK m \in unread : \A i \in unread : m <= i
    BY <2>1, LeastExists
  <2>3. m \in Nat /\ ~ \E g : IsReading(g, m)
    BY DEF unread
  <2>4. m # 0
    <3> DEFINE g == [i \in 0..0 |-> NothingRead]
    <3>1. IsReading(g, 0)
      OBVIOUS
    <3> QED
      BY <2>3, <3>1
  <2>5. \E g : IsReading(g, m - 1)
    <3>1. m - 1 \in Nat /\ ~(m <= m - 1)
      BY <2>3, <2>4
    <3>2. m - 1 \notin unread
      BY <2>2, <3>1
    <3> QED
      BY <3>1, <3>2 DEF unread
  <2>6. PICK g : IsReading(g, m - 1)
    BY <2>5
  <2> DEFINE h == [i \in 0..m |-> IF i = m THEN NextLine(g[m - 1], out[m]) ELSE g[i]]
  <2>7. \A i \in 0..m : h[i] = IF i = 0 THEN NothingRead ELSE NextLine(h[i - 1], out[i])
    <3> SUFFICES ASSUME NEW i \in 0..m
                 PROVE  h[i] = IF i = 0 THEN NothingRead ELSE NextLine(h[i - 1], out[i])
      OBVIOUS
    <3>1. CASE i = m
      <4>1. m - 1 \in 0..m /\ m - 1 # m /\ m \in 0..m
        BY <2>3, <2>4
      <4>2. h[m - 1] = g[m - 1] /\ h[m] = NextLine(g[m - 1], out[m])
        BY <4>1
      <4> QED
        BY <2>4, <3>1, <4>2
    <3>2. CASE i # m
      <4>1. i \in 0..m - 1 /\ (i # 0 => i - 1 \in 0..m /\ i - 1 # m)
        BY <2>3, <3>2
      <4>2. g[i] = IF i = 0 THEN NothingRead ELSE NextLine(g[i - 1], out[i])
        BY <2>6, <4>1
      <4>3. h[i] = g[i] /\ (i # 0 => h[i - 1] = g[i - 1])
        BY <3>2, <4>1
      <4> QED
        BY <4>2, <4>3
    <3> QED
      BY <3>1, <3>2
  <2>8. IsReading(h, m)
    <3> DEFINE k == [i \in 0..m |-> IF i = 0 THEN NothingRead ELSE NextLine(h[i - 1], out[i])]
    <3>1. DOMAIN h = 0..m /\ DOMAIN k = 0..m /\ h = [i \in 0..m |-> h[i]] /\ k = [i \in 0..m |-> k[i]]
      OBVIOUS
    <3>2. \A i \in 0..m : h[i] = k[i]
      BY <2>7
    <3> HIDE DEF h
    <3>3. h = k
      BY <3>1, <3>2
    <3> QED
      BY <3>3
  <2> QED
    BY <2>3, <2>8
<1>3. \E g : IsReading(g, Len(out))
  BY <1>2
<1>4. IsReading(Reading(out), Len(out))
  BY <1>1, <1>3
<1> DEFINE r == Reading(out)
<1>5. \A i \in 0..Len(out) : r[i] = IF i = 0 THEN NothingRead ELSE NextLine(r[i - 1], out[i])
  BY <1>4
<1> HIDE DEF r
<1>6. r[0] = NothingRead /\ \A i \in 1..Len(out) : r[i] = NextLine(r[i - 1], out[i])
  BY <1>5
<1> QED
  BY <1>6 DEF r
(* So is the loop of nonEmptyLines.                                        *)
LEMMA KeepingSteps ==
    ASSUME NEW text, Len(text) \in Nat
    PROVE  /\ Keeping(text)[0] = <<>>
           /\ \A i \in 1..Len(text) : Keeping(text)[i] = KeepLine(Keeping(text)[i - 1], text[i])
<1> DEFINE IsKeeping(g, n) ==
             g = [i \in 0..n |-> IF i = 0 THEN <<>> ELSE KeepLine(g[i - 1], text[i])]
           unkept == {n \in Nat : ~ \E g : IsKeeping(g, n)}
<1>1. Keeping(text) = CHOOSE g : IsKeeping(g, Len(text))
  BY DEF Keeping
<1>2. unkept = {}
  <2> SUFFICES ASSUME unkept # {} PROVE FALSE
    OBVIOUS
  <2>1. unkept \in SUBSET Nat
    OBVIOUS
  <2> HIDE DEF unkept
  <2>2. PICK m \in unkept : \A i \in unkept : m <= i
    BY <2>1, LeastExists
  <2>3. m \in Nat /\ ~ \E g : IsKeeping(g, m)
    BY DEF unkept
  <2>4. m # 0
    <3> DEFINE g == [i \in 0..0 |-> <<>>]
    <3>1. IsKeeping(g, 0)
      OBVIOUS
    <3> QED
      BY <2>3, <3>1
  <2>5. \E g : IsKeeping(g, m - 1)
    <3>1. m - 1 \in Nat /\ ~(m <= m - 1)
      BY <2>3, <2>4
    <3>2. m - 1 \notin unkept
      BY <2>2, <3>1
    <3> QED
      BY <3>1, <3>2 DEF unkept
  <2>6. PICK g : IsKeeping(g, m - 1)
    BY <2>5
  <2> DEFINE h == [i \in 0..m |-> IF i = m THEN KeepLine(g[m - 1], text[m]) ELSE g[i]]
  <2>7. \A i \in 0..m : h[i] = IF i = 0 THEN <<>> ELSE KeepLine(h[i - 1], text[i])
    <3> SUFFICES ASSUME NEW i \in 0..m
                 PROVE  h[i] = IF i = 0 THEN <<>> ELSE KeepLine(h[i - 1], text[i])
      OBVIOUS
    <3>1. CASE i = m
      <4>1. m - 1 \in 0..m /\ m - 1 # m /\ m \in 0..m
        BY <2>3, <2>4
      <4>2. h[m - 1] = g[m - 1] /\ h[m] = KeepLine(g[m - 1], text[m])
        BY <4>1
      <4> QED
        BY <2>4, <3>1, <4>2
    <3>2. CASE i # m
      <4>1. i \in 0..m - 1 /\ (i # 0 => i - 1 \in 0..m /\ i - 1 # m)
        BY <2>3, <3>2
      <4>2. g[i] = IF i = 0 THEN <<>> ELSE KeepLine(g[i - 1], text[i])
        BY <2>6, <4>1
      <4>3. h[i] = g[i] /\ (i # 0 => h[i - 1] = g[i - 1])
        BY <3>2, <4>1
      <4> QED
        BY <4>2, <4>3
    <3> QED
      BY <3>1, <3>2
  <2>8. IsKeeping(h, m)
    <3> DEFINE k == [i \in 0..m |-> IF i = 0 THEN <<>> ELSE KeepLine(h[i - 1], text[i])]
    <3>1. DOMAIN h = 0..m /\ DOMAIN k = 0..m /\ h = [i \in 0..m |-> h[i]] /\ k = [i \in 0..m |-> k[i]]
      OBVIOUS
    <3>2. \A i \in 0..m : h[i] = k[i]
      BY <2>7
    <3> HIDE DEF h
    <3>3. h = k
      BY <3>1, <3>2
    <3> QED
      BY <3>3
  <2> QED
    BY <2>3, <2>8
<1>3. \E g : IsKeeping(g, Len(text))
  BY <1>2
<1>4. IsKeeping(Keeping(text), Len(text))
  BY <1>1, <1>3
<1> DEFINE r == Keeping(text)
<1>5. \A i \in 0..Len(text) : r[i] = IF i = 0 THEN <<>> ELSE KeepLine(r[i - 1], text[i])
  BY <1>4
<1> HIDE DEF r
<1>6. r[0] = <<>> /\ \A i \in 1..Len(text) : r[i] = KeepLine(r[i - 1], text[i])
  BY <1>5
<1> QED
  BY <1>6 DEF r

(* A line that the machine may print.                                      *)
Line == STRING \union Tags \union Digests \union Headers \union {Blank, "verbose", "latest"}

(* A prefix, and one more.                                                 *)
LEMMA PrefixStep ==
    ASSUME NEW S, NEW s \in Seq(S), NEW i \in Nat, i + 1 <= Len(s)
    PROVE  Append(SubSeq(s, 1, i), s[i + 1]) = SubSeq(s, 1, i + 1)
<1> DEFINE p == SubSeq(s, 1, i)
           q == SubSeq(s, 1, i + 1)
<1>1. Len(s) \in Nat /\ \A j \in 1..i + 1 : s[j] \in S
  OBVIOUS
<1>2. p \in Seq(S) /\ Len(p) = i /\ \A j \in 1..i : p[j] = s[j]
  BY <1>1, SubSeqProperties
<1>3. q \in Seq(S) /\ Len(q) = i + 1 /\ \A j \in 1..i + 1 : q[j] = s[j]
  BY <1>1, SubSeqProperties
<1>4. s[i + 1] \in S
  BY <1>1
<1> HIDE DEF p, q
<1>5. /\ Append(p, s[i + 1]) \in Seq(S) /\ Len(Append(p, s[i + 1])) = i + 1
      /\ \A j \in 1..i : Append(p, s[i + 1])[j] = p[j]
      /\ Append(p, s[i + 1])[i + 1] = s[i + 1]
  BY <1>2, <1>4, AppendProperties
<1> DEFINE a == Append(p, s[i + 1])
<1> HIDE DEF a
<1>6. a \in Seq(S) /\ Len(a) = Len(q) /\ \A j \in 1..Len(a) : a[j] = q[j]
  BY <1>2, <1>3, <1>5 DEF a
<1>7. a = q
  BY <1>3, <1>6, SeqEqual
<1> QED
  BY <1>7 DEF a, p, q

(* As long as no line is empty, all are kept.                              *)
LEMMA PrefixKept ==
    ASSUME NEW s \in Seq(Line), NEW n \in 0..Len(s), \A i \in 1..n : s[i] # Blank
    PROVE  Keeping(s)[n] = SubSeq(s, 1, n)
<1> DEFINE k == Keeping(s)
           other == {i \in Nat : i <= n /\ k[i] # SubSeq(s, 1, i)}
<1>0. Len(s) \in Nat
  OBVIOUS
<1>1. Len(s) \in Nat /\ n \in Nat /\ n <= Len(s)
  BY <1>0
<1>2. k[0] = <<>> /\ \A i \in 1..Len(s) : k[i] = KeepLine(k[i - 1], s[i])
  BY <1>1, KeepingSteps
<1> HIDE DEF k
<1>3. other = {}
  <2> SUFFICES ASSUME other # {} PROVE FALSE
    OBVIOUS
  <2>1. other \in SUBSET Nat
    OBVIOUS
  <2> HIDE DEF other
  <2>2. PICK m \in other : \A i \in other : m <= i
    BY <2>1, LeastExists
  <2>3. m \in Nat /\ m <= n /\ k[m] # SubSeq(s, 1, m)
    BY DEF other
  <2>4. m # 0
    <3>1. SubSeq(s, 1, 0) = <<>>
      BY SubSeqProperties
    <3> QED
      BY <1>2, <2>3, <3>1
  <2>5. m - 1 \in Nat /\ m \in 1..n /\ m \in 1..Len(s) /\ (m - 1) + 1 = m
    BY <1>1, <2>3, <2>4
  <2>6. k[m - 1] = SubSeq(s, 1, m - 1)
    <3>1. m - 1 \notin other
      BY <2>2, <2>5
    <3> QED
      BY <1>1, <2>3, <2>5, <3>1 DEF other
  <2>7. k[m] = Append(SubSeq(s, 1, m - 1), s[m])
    BY <1>2, <2>5, <2>6 DEF KeepLine
  <2>8. Append(SubSeq(s, 1, m - 1), s[m]) = SubSeq(s, 1, m)
    <3>1. Append(SubSeq(s, 1, m - 1), s[(m - 1) + 1]) = SubSeq(s, 1, (m - 1) + 1)
      BY <1>1, <2>3, <2>5, PrefixStep
    <3> QED
      BY <2>5, <3>1
  <2> QED
    BY <2>3, <2>7, <2>8
<1>4. n \notin other
  BY <1>3
<1>5. k[n] = SubSeq(s, 1, n)
  BY <1>1, <1>4
<1> QED
  BY <1>5 DEF k

(* Lines of which none is empty are all kept, and a last empty one is not. *)
LEMMA LinesKept ==
    ASSUME NEW s \in Seq(Line), \A i \in 1..Len(s) : s[i] # Blank
    PROVE  nonEmptyLines(s) = s /\ nonEmptyLines(Append(s, Blank)) = s
<1> DEFINE n == Len(s)
           t == Append(s, Blank)
<1>1. n \in Nat /\ n \in 0..Len(s) /\ SubSeq(s, 1, n) = s
  OBVIOUS
<1>2. nonEmptyLines(s) = s
  <2>1. Keeping(s)[n] = SubSeq(s, 1, n)
    BY <1>1, PrefixKept
  <2> QED
    BY <1>1, <2>1 DEF nonEmptyLines
<1>3. t \in Seq(Line) /\ Len(t) = n + 1 /\ t[n + 1] = Blank /\ \A i \in 1..n : t[i] = s[i]
  <2>1. Blank \in Line
    BY DEF Line
  <2> QED
    BY <2>1, AppendProperties
<1>4. SubSeq(t, 1, n) = s
  <2> HIDE DEF t, n
  <2> DEFINE p == SubSeq(t, 1, n)
  <2>1. \A i \in 1..n : t[i] \in Line
    BY <1>1, <1>3
  <2>2. p \in Seq(Line) /\ Len(p) = n /\ \A i \in 1..n : p[i] = t[i]
    BY <1>1, <1>3, <2>1, SubSeqProperties
  <2> HIDE DEF p
  <2>3. p = s
    BY <1>3, <2>2, SeqEqual DEF n
  <2> QED
    BY <2>3 DEF p
<1> HIDE DEF t, n
<1>5. Keeping(t)[n] = s
  <2>1. n \in 0..Len(t) /\ \A i \in 1..n : t[i] # Blank
    BY <1>1, <1>3 DEF n
  <2>2. Keeping(t)[n] = SubSeq(t, 1, n)
    BY <1>3, <2>1, PrefixKept
  <2> QED
    BY <1>4, <2>2
<1>6. Keeping(t)[n + 1] = s
  <2>1. \A i \in 1..Len(t) : Keeping(t)[i] = KeepLine(Keeping(t)[i - 1], t[i])
    BY <1>1, <1>3, KeepingSteps
  <2>2. n + 1 \in 1..Len(t) /\ (n + 1) - 1 = n
    BY <1>1, <1>3
  <2>3. Keeping(t)[n + 1] = KeepLine(Keeping(t)[n], t[n + 1])
    BY <2>1, <2>2
  <2> QED
    BY <1>3, <1>5, <2>3 DEF KeepLine
<1>7. nonEmptyLines(t) = s
  BY <1>3, <1>6 DEF nonEmptyLines
<1> QED
  BY <1>2, <1>7 DEF t

(* What is kept is there, and is not empty.                                *)
LEMMA KeptIsThere ==
    ASSUME NEW s \in Seq(Line)
    PROVE  nonEmptyLines(s) \in Seq(Line) /\ ToSet(nonEmptyLines(s)) \subseteq ToSet(s) \ {Blank}
<1> DEFINE k == Keeping(s)
           Good(i) == k[i] \in Seq(Line) /\ ToSet(k[i]) \subseteq ToSet(s) \ {Blank}
           other == {i \in Nat : i <= Len(s) /\ ~Good(i)}
<1>1. Len(s) \in Nat
  OBVIOUS
<1>2. k[0] = <<>> /\ \A i \in 1..Len(s) : k[i] = KeepLine(k[i - 1], s[i])
  BY <1>1, KeepingSteps
<1> HIDE DEF k
<1>3. other = {}
  <2> SUFFICES ASSUME other # {} PROVE FALSE
    OBVIOUS
  <2>1. other \in SUBSET Nat
    OBVIOUS
  <2> HIDE DEF other
  <2>2. PICK m \in other : \A i \in other : m <= i
    BY <2>1, LeastExists
  <2>3. m \in Nat /\ m <= Len(s) /\ ~Good(m)
    BY DEF other
  <2>4. m # 0
    <3>1. <<>> \in Seq(Line) /\ ToSet(<<>>) = {}
      BY DEF ToSet
    <3> QED
      BY <1>2, <2>3, <3>1
  <2>5. m - 1 \in Nat /\ m \in 1..Len(s)
    BY <1>1, <2>3, <2>4
  <2>6. Good(m - 1)
    <3>1. m - 1 \notin other
      BY <2>2, <2>5
    <3> HIDE DEF Good
    <3> QED
      BY <1>1, <2>3, <2>5, <3>1 DEF other
  <2>7. s[m] \in Line /\ s[m] \in ToSet(s)
    BY <2>5 DEF ToSet
  <2>8. k[m] = KeepLine(k[m - 1], s[m])
    BY <1>2, <2>5
  <2>9. CASE s[m] = Blank
    BY <2>3, <2>6, <2>8, <2>9 DEF KeepLine
  <2>10. CASE s[m] # Blank
    <3>1. k[m] = Append(k[m - 1], s[m])
      BY <2>8, <2>10 DEF KeepLine
    <3>2. k[m] \in Seq(Line) /\ ToSet(k[m]) = ToSet(k[m - 1]) \union {s[m]}
      BY <2>6, <2>7, <3>1, Emitted
    <3> QED
      BY <2>3, <2>6, <2>7, <2>10, <3>2
  <2> QED
    BY <2>9, <2>10
<1>4. Len(s) \notin other
  BY <1>3
<1>5. Good(Len(s))
  <2> HIDE DEF Good
  <2> QED
    BY <1>1, <1>4
<1> QED
  BY <1>5 DEF k, nonEmptyLines

(* What the loop of parseSections carries from line to line.               *)
Accumulator == [current : Headers \union {Blank}, text : [Headers -> Seq(Line)]]

(* The empty line is no header.                                            *)
LEMMA BlankFacts == Blank \notin Headers /\ Blank \in Line /\ \A h \in Headers : h \in Line
<1>1. Blank \notin Headers
  BY Zenon DEF Blank, Headers
<1> QED
  BY <1>1 DEF Line

(* A line that is added.                                                   *)
LEMMA AddedLine ==
    ASSUME NEW text \in Seq(Line), NEW line \in Line
    PROVE  /\ AddLine(text, line) \in Seq(Line)
           /\ ToSet(AddLine(text, line)) \subseteq ToSet(text) \union {line}
           /\ line # Blank => AddLine(text, line) = Append(text, line)
<1>1. Append(text, line) \in Seq(Line) /\ ToSet(Append(text, line)) = ToSet(text) \union {line}
  BY Emitted
<1>2. CASE text = <<>> /\ line = Blank
  <2>1. ToSet(<<>>) = {}
    BY DEF ToSet
  <2>2. AddLine(text, line) = <<>>
    BY <1>2 DEF AddLine
  <2> QED
    BY <1>2, <2>1, <2>2
<1>3. CASE ~(text = <<>> /\ line = Blank)
  BY <1>1, <1>3 DEF AddLine
<1> QED
  BY <1>2, <1>3

(* A header begins its section; another line goes to the present one.      *)
LEMMA NextLineCases ==
    ASSUME NEW acc \in Accumulator, NEW line \in Line
    PROVE  /\ NextLine(acc, line) \in Accumulator
           /\ line \in Headers => /\ NextLine(acc, line).current = line
                                  /\ NextLine(acc, line).text = acc.text
           /\ line \notin Headers => NextLine(acc, line).current = acc.current
           /\ line \notin Headers /\ acc.current = Blank => NextLine(acc, line).text = acc.text
           /\ line \notin Headers /\ acc.current # Blank =>
                NextLine(acc, line).text =
                  [acc.text EXCEPT ![acc.current] = AddLine(acc.text[acc.current], line)]
<1>1. CASE line \in Headers
  <2>1. NextLine(acc, line) = [acc EXCEPT !.current = line]
    BY <1>1 DEF NextLine
  <2> QED
    BY <1>1, <2>1 DEF Accumulator
<1>2. CASE line \notin Headers /\ acc.current = Blank
  <2>1. NextLine(acc, line) = acc
    BY <1>2 DEF NextLine
  <2> QED
    BY <1>2, <2>1 DEF Accumulator
<1>3. CASE line \notin Headers /\ acc.current # Blank
  <2>1. NextLine(acc, line) = [acc EXCEPT !.text[acc.current] = AddLine(acc.text[acc.current], line)]
    BY <1>3 DEF NextLine
  <2>2. acc.current \in Headers /\ acc.text[acc.current] \in Seq(Line)
    BY <1>3 DEF Accumulator
  <2>3. AddLine(acc.text[acc.current], line) \in Seq(Line)
    BY <2>2, AddedLine
  <2> DEFINE more == AddLine(acc.text[acc.current], line)
  <2> HIDE DEF more
  <2>4. NextLine(acc, line) = [current |-> acc.current, text |-> [acc.text EXCEPT ![acc.current] = more]]
    BY <2>1 DEF more, Accumulator
  <2>5. [acc.text EXCEPT ![acc.current] = more] \in [Headers -> Seq(Line)]
    BY <2>2, <2>3 DEF Accumulator, more
  <2>6. NextLine(acc, line) \in Accumulator
    BY <2>4, <2>5 DEF Accumulator
  <2> QED
    BY <1>3, <2>4, <2>6 DEF more
<1> QED
  BY <1>1, <1>2, <1>3

(* While it is read, and in the end, every section has lines.              *)
LEMMA ReadingType ==
    ASSUME NEW out \in Seq(Line), NEW i \in 0..Len(out)
    PROVE  Reading(out)[i] \in Accumulator
<1> DEFINE r == Reading(out)
           other == {j \in Nat : j <= Len(out) /\ r[j] \notin Accumulator}
<1>1. Len(out) \in Nat /\ i \in Nat /\ i <= Len(out)
  OBVIOUS
<1>2. r[0] = NothingRead /\ \A j \in 1..Len(out) : r[j] = NextLine(r[j - 1], out[j])
  BY <1>1, ReadingSteps
<1> HIDE DEF r
<1>3. other = {}
  <2> SUFFICES ASSUME other # {} PROVE FALSE
    OBVIOUS
  <2>1. other \in SUBSET Nat
    OBVIOUS
  <2> HIDE DEF other
  <2>2. PICK m \in other : \A j \in other : m <= j
    BY <2>1, LeastExists
  <2>3. m \in Nat /\ m <= Len(out) /\ r[m] \notin Accumulator
    BY DEF other
  <2>4. m # 0
    <3>1. NothingRead \in Accumulator
      BY DEF NothingRead, Accumulator
    <3> QED
      BY <1>2, <2>3, <3>1
  <2>5. m - 1 \in Nat /\ m \in 1..Len(out) /\ m - 1 <= Len(out)
    BY <1>1, <2>3, <2>4
  <2>6. r[m - 1] \in Accumulator
    <3>1. m - 1 \notin other
      BY <2>2, <2>5
    <3> QED
      BY <2>5, <3>1 DEF other
  <2>7. r[m] = NextLine(r[m - 1], out[m]) /\ out[m] \in Line
    BY <1>2, <2>5
  <2>8. NextLine(r[m - 1], out[m]) \in Accumulator
    BY <2>6, <2>7, NextLineCases, Zenon
  <2> QED
    BY <2>3, <2>7, <2>8
<1> QED
  BY <1>1, <1>3 DEF r

(* What happens at each line.                                              *)
LEMMA ReadingLine ==
    ASSUME NEW out \in Seq(Line), NEW i \in 1..Len(out)
    PROVE  LET r == Reading(out)
           IN  /\ r[i - 1] \in Accumulator /\ r[i] \in Accumulator /\ out[i] \in Line
               /\ out[i] \in Headers => r[i].current = out[i] /\ r[i].text = r[i - 1].text
               /\ out[i] \notin Headers => r[i].current = r[i - 1].current
               /\ out[i] \notin Headers /\ r[i - 1].current = Blank => r[i].text = r[i - 1].text
               /\ out[i] \notin Headers /\ r[i - 1].current # Blank =>
                    r[i].text = [r[i - 1].text EXCEPT ![r[i - 1].current] =
                                    AddLine(r[i - 1].text[r[i - 1].current], out[i])]
<1>1. i - 1 \in 0..Len(out) /\ i \in 0..Len(out) /\ Len(out) \in Nat /\ out[i] \in Line
  OBVIOUS
<1>2. Reading(out)[i] = NextLine(Reading(out)[i - 1], out[i])
  BY <1>1, ReadingSteps
<1>3. Reading(out)[i - 1] \in Accumulator /\ Reading(out)[i] \in Accumulator
  BY <1>1, ReadingType
<1> QED
  BY <1>1, <1>2, <1>3, NextLineCases

(* A line of the output that is no header, in the section h.               *)
PrintedIn(out, h, x) ==
    \E j \in 1..Len(out) : out[j] = x /\ x \notin Headers /\ Reading(out)[j - 1].current = h

(* All lines in the text of a section are.                                 *)
LEMMA LinesHaveOrigin ==
    ASSUME NEW out \in Seq(Line), NEW h \in Headers, NEW x \in ToSet(parseSections(out)[h])
    PROVE  PrintedIn(out, h, x)
<1> DEFINE r == Reading(out)
           Origin(i, y) == \E j \in 1..i : out[j] = y /\ y \notin Headers /\ r[j - 1].current = h
           Good(i) == \A y \in ToSet(r[i].text[h]) : Origin(i, y)
           other == {i \in Nat : i <= Len(out) /\ ~Good(i)}
<1>1. Len(out) \in Nat
  OBVIOUS
<1>2. r[0] = NothingRead
  BY <1>1, ReadingSteps
<1>3. \A i \in 1..Len(out) :
        /\ r[i - 1] \in Accumulator /\ r[i] \in Accumulator /\ out[i] \in Line
        /\ out[i] \in Headers => r[i].text = r[i - 1].text
        /\ out[i] \notin Headers /\ r[i - 1].current = Blank => r[i].text = r[i - 1].text
        /\ out[i] \notin Headers /\ r[i - 1].current # Blank =>
             r[i].text = [r[i - 1].text EXCEPT ![r[i - 1].current] =
                             AddLine(r[i - 1].text[r[i - 1].current], out[i])]
  BY ReadingLine
<1> HIDE DEF r
<1>4. other = {}
  <2> SUFFICES ASSUME other # {} PROVE FALSE
    OBVIOUS
  <2>1. other \in SUBSET Nat
    OBVIOUS
  <2> HIDE DEF other
  <2>2. PICK m \in other : \A j \in other : m <= j
    BY <2>1, LeastExists
  <2>3. m \in Nat /\ m <= Len(out) /\ ~Good(m)
    BY DEF other
  <2>4. m # 0
    <3>1. ToSet(NothingRead.text[h]) = {}
      BY DEF NothingRead, ToSet
    <3> QED
      BY <1>2, <2>3, <3>1
  <2>5. m - 1 \in Nat /\ m \in 1..Len(out) /\ m - 1 <= Len(out)
    BY <1>1, <2>3, <2>4
  <2>6. Good(m - 1)
    <3>1. m - 1 \notin other
      BY <2>2, <2>5
    <3> HIDE DEF Good
    <3> QED
      BY <2>5, <3>1 DEF other
  <2>7. PICK y \in ToSet(r[m].text[h]) : ~Origin(m, y)
    BY <2>3
  <2>8. y \notin ToSet(r[m - 1].text[h])
    <3> SUFFICES ASSUME Origin(m - 1, y) PROVE FALSE
      BY <2>6
    <3>1. \A j \in 1..m - 1 : j \in 1..m
      BY <2>5
    <3> QED
      BY <2>7, <3>1
  <2>9. out[m] \notin Headers /\ r[m - 1].current = h
    BY <1>3, <2>5, <2>7, <2>8 DEF Accumulator
  <2>10. y = out[m]
    <3>1. h # Blank
      BY BlankFacts
    <3>2. r[m - 1].text[h] \in Seq(Line) /\ out[m] \in Line
      BY <1>3, <2>5 DEF Accumulator
    <3>3. r[m].text[h] = AddLine(r[m - 1].text[h], out[m])
      BY <1>3, <2>5, <2>9, <3>1 DEF Accumulator
    <3>4. ToSet(AddLine(r[m - 1].text[h], out[m])) \subseteq ToSet(r[m - 1].text[h]) \union {out[m]}
      BY <3>2, AddedLine
    <3> QED
      BY <2>7, <2>8, <3>3, <3>4
  <2> QED
    BY <2>5, <2>7, <2>9, <2>10
<1>5. Good(Len(out))
  <2> HIDE DEF Good
  <2> QED
    BY <1>1, <1>4
<1>6. x \in ToSet(r[Len(out)].text[h])
  BY DEF parseSections, r
<1> QED
  BY <1>5, <1>6 DEF r, PrintedIn

-----------------------------------------------------------------------------
(* A section, its header and lines and an empty one, printed behind the    *)
(* first o lines up to line e.                                             *)
PrintedAt(out, o, e, h, lines) ==
    /\ e = o + Len(lines) + 2 /\ e <= Len(out)
    /\ out[o + 1] = h /\ out[e] = Blank
    /\ \A i \in 1..Len(lines) : out[o + 1 + i] = lines[i]

(* A section of lines that are neither empty nor headers is read as it is, *)
(* and leaves the other sections alone.                                    *)
LEMMA SectionIsRead ==
    ASSUME NEW out \in Seq(Line), NEW o \in Nat, NEW e, NEW h \in Headers, NEW lines \in Seq(Line),
           PrintedAt(out, o, e, h, lines), ToSet(lines) \intersect (Headers \union {Blank}) = {},
           Reading(out)[o].text[h] = <<>>
    PROVE  /\ nonEmptyLines(Reading(out)[e].text[h]) = lines
           /\ \A g \in Headers \ {h} : Reading(out)[e].text[g] = Reading(out)[o].text[g]
<1> DEFINE r == Reading(out)
           n == Len(lines)
           Good(i) == /\ r[o + 1 + i].current = h
                      /\ r[o + 1 + i].text[h] = SubSeq(lines, 1, i)
                      /\ \A g \in Headers \ {h} : r[o + 1 + i].text[g] = r[o].text[g]
           other == {i \in Nat : i <= n /\ ~Good(i)}
<1>1. n \in Nat /\ Len(out) \in Nat
  OBVIOUS
<1>2. \A i \in 1..Len(out) :
        /\ r[i - 1] \in Accumulator /\ r[i] \in Accumulator /\ out[i] \in Line
        /\ out[i] \in Headers => r[i].current = out[i] /\ r[i].text = r[i - 1].text
        /\ out[i] \notin Headers => r[i].current = r[i - 1].current
        /\ out[i] \notin Headers /\ r[i - 1].current = Blank => r[i].text = r[i - 1].text
        /\ out[i] \notin Headers /\ r[i - 1].current # Blank =>
             r[i].text = [r[i - 1].text EXCEPT ![r[i - 1].current] =
                             AddLine(r[i - 1].text[r[i - 1].current], out[i])]
  BY ReadingLine
<1>3. /\ o + n + 2 <= Len(out) /\ out[o + 1] = h /\ out[o + 2 + n] = Blank /\ h # Blank
      /\ \A i \in 1..n : out[o + 1 + i] = lines[i] /\ lines[i] \notin Headers /\ lines[i] # Blank
      /\ r[o].text[h] = <<>> /\ e = o + 2 + n
  <2>1. \A i \in 1..n : lines[i] \in ToSet(lines)
    BY DEF ToSet
  <2>2. e = o + 2 + n
    BY <1>1 DEF PrintedAt
  <2> QED
    BY <2>1, <2>2, BlankFacts DEF PrintedAt
<1>9. Blank \notin Headers
  BY BlankFacts
<1> HIDE DEF r, n
(* One more line, while the section is the present one.                    *)
<1>4. ASSUME NEW i \in o + 2..Len(out), r[i - 1].current = h, out[i] \notin Headers
      PROVE  /\ r[i].current = h
             /\ r[i].text[h] = AddLine(r[i - 1].text[h], out[i])
             /\ \A g \in Headers \ {h} : r[i].text[g] = r[i - 1].text[g]
  <2>1. i \in 1..Len(out)
    BY <1>1
  <2>2. r[i].text = [r[i - 1].text EXCEPT ![h] = AddLine(r[i - 1].text[h], out[i])]
    BY <1>2, <1>3, <1>4, <2>1
  <2>3. r[i - 1].text \in [Headers -> Seq(Line)] /\ r[i].current = h
    BY <1>2, <1>4, <2>1 DEF Accumulator
  <2> QED
    BY <2>2, <2>3
<1>5. other = {}
  <2> SUFFICES ASSUME other # {} PROVE FALSE
    OBVIOUS
  <2>1. other \in SUBSET Nat
    OBVIOUS
  <2> HIDE DEF other
  <2>2. PICK m \in other : \A j \in other : m <= j
    BY <2>1, LeastExists
  <2>3. m \in Nat /\ m <= n /\ ~Good(m)
    BY DEF other
  <2>4. m # 0
    <3>1. o + 1 \in 1..Len(out) /\ (o + 1) - 1 = o /\ o + 1 + 0 = o + 1
      BY <1>1, <1>3
    <3>2. r[o + 1].current = h /\ r[o + 1].text = r[o].text
      BY <1>2, <1>3, <3>1
    <3>3. SubSeq(lines, 1, 0) = <<>>
      BY SubSeqProperties
    <3>4. Good(0)
      BY <1>3, <3>1, <3>2, <3>3
    <3> QED
      BY <2>3, <3>4
  <2>5. m - 1 \in Nat /\ m \in 1..n /\ (m - 1) + 1 = m /\ m <= Len(lines)
    BY <1>1, <2>3, <2>4 DEF n
  <2>6. Good(m - 1)
    <3>1. m - 1 \notin other
      BY <2>2, <2>5
    <3> HIDE DEF Good
    <3> QED
      BY <1>1, <2>3, <2>5, <3>1 DEF other
  <2> DEFINE at == o + 1 + m
  <2>7. at \in o + 2..Len(out) /\ at - 1 = o + 1 + (m - 1) /\ at = o + 1 + m
    <3>1. o + n + 2 <= Len(out) /\ Len(out) \in Nat /\ n \in Nat /\ m \in Nat /\ m <= n /\ m >= 1
      BY <1>1, <1>3, <2>3, <2>5
    <3> QED
      BY ONLY <3>1, o \in Nat
  <2> HIDE DEF at
  <2>8. out[at] = lines[m] /\ lines[m] \notin Headers /\ lines[m] # Blank /\ lines[m] \in Line
    <3>1. lines[m] \in Line
      BY <2>5 DEF n
    <3> QED
      BY <1>3, <2>5, <2>7, <3>1
  <2>9. /\ r[at - 1].current = h /\ r[at - 1].text[h] = SubSeq(lines, 1, m - 1)
        /\ \A g \in Headers \ {h} : r[at - 1].text[g] = r[o].text[g]
    BY <2>6, <2>7
  <2>10. /\ r[at].current = h
         /\ r[at].text[h] = AddLine(SubSeq(lines, 1, m - 1), lines[m])
         /\ \A g \in Headers \ {h} : r[at].text[g] = r[o].text[g]
    <3>1. /\ r[at].current = h
          /\ r[at].text[h] = AddLine(r[at - 1].text[h], out[at])
          /\ \A g \in Headers \ {h} : r[at].text[g] = r[at - 1].text[g]
      BY ONLY <1>4, <2>7, <2>8, <2>9, Zenon
    <3> QED
      BY ONLY <2>8, <2>9, <3>1
  <2>11. AddLine(SubSeq(lines, 1, m - 1), lines[m]) = SubSeq(lines, 1, m)
    <3>1. AddLine(SubSeq(lines, 1, m - 1), lines[m]) = Append(SubSeq(lines, 1, m - 1), lines[m])
      BY <2>8 DEF AddLine
    <3>2. Append(SubSeq(lines, 1, m - 1), lines[(m - 1) + 1]) = SubSeq(lines, 1, (m - 1) + 1)
      BY <2>5, PrefixStep
    <3> QED
      BY <2>5, <3>1, <3>2
  <2>12. Good(m)
    BY <2>7, <2>10, <2>11
  <2> QED
    BY <2>3, <2>12
<1>6. Good(n)
  <2>1. n \notin other
    BY <1>5
  <2> HIDE DEF Good
  <2> QED
    BY <1>1, <2>1
<1>7. /\ r[o + 2 + n].text[h] = AddLine(lines, Blank)
      /\ \A g \in Headers \ {h} : r[o + 2 + n].text[g] = r[o].text[g]
  <2> DEFINE at == o + 2 + n
  <2>1. at \in o + 2..Len(out) /\ at - 1 = o + 1 + n /\ at = o + 2 + n
    BY <1>1, <1>3
  <2> HIDE DEF at
  <2>2. SubSeq(lines, 1, n) = lines
    BY DEF n
  <2>3. /\ r[at - 1].current = h /\ r[at - 1].text[h] = lines
        /\ \A g \in Headers \ {h} : r[at - 1].text[g] = r[o].text[g]
    BY <1>6, <2>1, <2>2
  <2>4. out[at] = Blank /\ out[at] \notin Headers
    BY <1>3, <1>9, <2>1
  <2>5. /\ r[at].text[h] = AddLine(r[at - 1].text[h], out[at])
        /\ \A g \in Headers \ {h} : r[at].text[g] = r[at - 1].text[g]
    BY <1>4, <2>1, <2>3, <2>4
  <2> QED
    BY <2>1, <2>3, <2>4, <2>5
<1>8. nonEmptyLines(AddLine(lines, Blank)) = lines
  <2>1. nonEmptyLines(lines) = lines /\ nonEmptyLines(Append(lines, Blank)) = lines
    BY <1>3, LinesKept DEF n
  <2> QED
    BY <2>1 DEF AddLine
<1> QED
  BY <1>3, <1>7, <1>8 DEF r

(* Four sequences after each other.                                        *)
LEMMA FourFlattened ==
    ASSUME NEW S, NEW seqs \in Seq(Seq(S)), Len(seqs) = 4
    PROVE  FlattenSeq(seqs) = ((seqs[1] \o seqs[2]) \o seqs[3]) \o seqs[4]
<1> DEFINE IsFlat(g) == g = [i \in 1..Len(seqs) |-> IF i = 1 THEN seqs[i] ELSE g[i - 1] \o seqs[i]]
           f == CHOOSE g : IsFlat(g)
           two == seqs[1] \o seqs[2]
           three == two \o seqs[3]
           four == three \o seqs[4]
           h == [i \in 1..4 |-> IF i = 1 THEN seqs[1] ELSE IF i = 2 THEN two
                                ELSE IF i = 3 THEN three ELSE four]
<1>1. FlattenSeq(seqs) = f[4]
  BY DEF FlattenSeq
<1>2. IsFlat(h)
  <2>1. /\ 1 \in 1..4 /\ 2 \in 1..4 /\ 3 \in 1..4 /\ 4 \in 1..4
        /\ 2 - 1 = 1 /\ 3 - 1 = 2 /\ 4 - 1 = 3 /\ \A i \in 1..4 : i = 1 \/ i = 2 \/ i = 3 \/ i = 4
    OBVIOUS
  <2>2. /\ h[1] = seqs[1] /\ h[2] = h[1] \o seqs[2] /\ h[3] = h[2] \o seqs[3]
        /\ h[4] = h[3] \o seqs[4] /\ h = [i \in 1..4 |-> h[i]]
    <3> HIDE DEF two, three, four
    <3>1. h[1] = seqs[1] /\ h[2] = two /\ h[3] = three /\ h[4] = four
      BY ONLY <2>1
    <3>2. h = [i \in 1..4 |-> h[i]]
      OBVIOUS
    <3> QED
      BY <3>1, <3>2, Zenon DEF two, three, four
  <2> HIDE DEF h
  <2>3. \A i \in 1..4 : h[i] = IF i = 1 THEN seqs[i] ELSE h[i - 1] \o seqs[i]
    BY <2>1, <2>2
  <2> QED
    BY <2>2, <2>3
<1>3. IsFlat(f)
  BY <1>2
<1> HIDE DEF f, h
<1> DEFINE Both(s, t) == s \o t
<1>4. \A i \in 1..4 : f[i] = IF i = 1 THEN seqs[i] ELSE Both(f[i - 1], seqs[i])
  BY <1>3
<1>5. /\ 1 \in 1..4 /\ 2 \in 1..4 /\ 3 \in 1..4 /\ 4 \in 1..4
      /\ 2 - 1 = 1 /\ 3 - 1 = 2 /\ 4 - 1 = 3
  OBVIOUS
<1> HIDE DEF Both
<1>6. /\ f[1] = seqs[1] /\ f[2] = Both(f[1], seqs[2]) /\ f[3] = Both(f[2], seqs[3])
      /\ f[4] = Both(f[3], seqs[4])
  BY ONLY <1>4, <1>5
<1> QED
  BY <1>1, <1>6, Zenon DEF Both

(* An output of four sequences.                                            *)
Joins(out, a, b, c, d) ==
    {a, b, c, d} \subseteq Seq(Line) /\ out = ((a \o b) \o c) \o d

(* Where each of them is.                                                  *)
LEMMA FourPlaced ==
    ASSUME NEW a, NEW b, NEW c, NEW d, NEW out, Joins(out, a, b, c, d)
    PROVE  /\ out \in Seq(Line) /\ Len(out) = Len(a) + Len(b) + Len(c) + Len(d)
           /\ \A i \in 1..Len(a) : out[i] = a[i]
           /\ \A i \in 1..Len(b) : out[Len(a) + i] = b[i]
           /\ \A i \in 1..Len(c) : out[Len(a) + Len(b) + i] = c[i]
           /\ \A i \in 1..Len(d) : out[Len(a) + Len(b) + Len(c) + i] = d[i]
<1>0. /\ a \in Seq(Line) /\ b \in Seq(Line) /\ c \in Seq(Line) /\ d \in Seq(Line)
      /\ out = ((a \o b) \o c) \o d
  BY DEF Joins
<1> DEFINE ab == a \o b
           abc == ab \o c
           na == Len(a)
           nb == Len(b)
           nc == Len(c)
           nd == Len(d)
<1>1. na \in Nat /\ nb \in Nat /\ nc \in Nat /\ nd \in Nat
  BY <1>0
<1>2. /\ ab \in Seq(Line) /\ Len(ab) = na + nb
      /\ \A i \in 1..na + nb : ab[i] = IF i <= na THEN a[i] ELSE b[i - na]
  BY <1>0, ConcatProperties
<1> HIDE DEF ab
<1>3. /\ ab \o c \in Seq(Line) /\ Len(ab \o c) = Len(ab) + Len(c)
      /\ \A i \in 1..Len(ab) + Len(c) :
            (ab \o c)[i] = IF i <= Len(ab) THEN ab[i] ELSE c[i - Len(ab)]
  <2>1. ab \in Seq(Line) /\ c \in Seq(Line)
    BY <1>0, <1>2
  <2> QED
    BY ONLY <2>1, ConcatProperties, Zenon
<1> HIDE DEF abc
<1>4. /\ abc \in Seq(Line) /\ Len(abc) = Len(ab) + nc
      /\ \A i \in 1..Len(ab) + nc : abc[i] = IF i <= Len(ab) THEN ab[i] ELSE c[i - Len(ab)]
  BY <1>3, Zenon DEF abc
<1>5. /\ abc \o d \in Seq(Line) /\ Len(abc \o d) = Len(abc) + Len(d)
      /\ \A i \in 1..Len(abc) + Len(d) :
            (abc \o d)[i] = IF i <= Len(abc) THEN abc[i] ELSE d[i - Len(abc)]
  <2>1. abc \in Seq(Line) /\ d \in Seq(Line)
    BY <1>0, <1>4
  <2> QED
    BY ONLY <2>1, ConcatProperties, Zenon
<1>6. /\ out \in Seq(Line) /\ Len(out) = Len(abc) + nd
      /\ \A i \in 1..Len(abc) + nd : out[i] = IF i <= Len(abc) THEN abc[i] ELSE d[i - Len(abc)]
  <2>1. out = abc \o d
    BY <1>0 DEF abc, ab
  <2> QED
    BY <1>5, <2>1, Zenon
<1> HIDE DEF na, nb, nc, nd
<1>7. Len(ab) = na + nb /\ Len(abc) = na + nb + nc /\ Len(out) = na + nb + nc + nd
  BY <1>1, <1>2, <1>4, <1>6
<1>8. ASSUME NEW i \in 1..na PROVE out[i] = a[i]
  <2>1. /\ i \in 1..na + nb /\ i \in 1..na + nb + nc /\ i \in 1..na + nb + nc + nd
        /\ i <= na /\ i <= na + nb /\ i <= na + nb + nc
    BY <1>1
  <2>2. ab[i] = a[i]
    BY <1>2, <2>1
  <2>3. abc[i] = ab[i]
    BY <1>4, <1>7, <2>1
  <2> QED
    BY <1>6, <1>7, <2>1, <2>2, <2>3
<1>9. ASSUME NEW i \in 1..nb PROVE out[na + i] = b[i]
  <2>1. na + i \in 1..na + nb /\ ~(na + i <= na) /\ (na + i) - na = i
    BY <1>1
  <2>2. ab[na + i] = b[i]
    BY <1>2, <2>1
  <2>3. na + i \in 1..na + nb + nc /\ na + i <= na + nb /\ na + i \in 1..na + nb + nc + nd
        /\ na + i <= na + nb + nc
    BY <1>1, <2>1
  <2>4. abc[na + i] = ab[na + i]
    BY <1>4, <1>7, <2>3
  <2> QED
    BY <1>6, <1>7, <2>2, <2>3, <2>4
<1>10. ASSUME NEW i \in 1..nc PROVE out[na + nb + i] = c[i]
  <2>1. /\ na + nb + i \in 1..na + nb + nc /\ ~(na + nb + i <= na + nb)
        /\ (na + nb + i) - (na + nb) = i /\ na + nb + i \in 1..na + nb + nc + nd
        /\ na + nb + i <= na + nb + nc
    BY <1>1
  <2>2. abc[na + nb + i] = c[i]
    BY <1>4, <1>7, <2>1
  <2> QED
    BY <1>6, <1>7, <2>1, <2>2
<1>11. ASSUME NEW i \in 1..nd PROVE out[na + nb + nc + i] = d[i]
  <2>1. /\ na + nb + nc + i \in 1..na + nb + nc + nd /\ ~(na + nb + nc + i <= na + nb + nc)
        /\ (na + nb + nc + i) - (na + nb + nc) = i
    BY <1>1
  <2> QED
    BY <1>6, <1>7, <2>1
<1>12. /\ out \in Seq(Line) /\ Len(out) = na + nb + nc + nd
       /\ \A i \in 1..na : out[i] = a[i]
       /\ \A i \in 1..nb : out[na + i] = b[i]
       /\ \A i \in 1..nc : out[na + nb + i] = c[i]
       /\ \A i \in 1..nd : out[na + nb + nc + i] = d[i]
  BY <1>6, <1>7, <1>8, <1>9, <1>10, <1>11
<1> QED
  BY <1>12 DEF na, nb, nc, nd

(* A section as it is printed.                                             *)
Printed(h, lines) == <<h>> \o lines \o <<Blank>>

(* Its first line, its last one and what is between them.                  *)
LEMMA SectionPrinted ==
    ASSUME NEW h \in Headers, NEW lines \in Seq(Line)
    PROVE  LET p == Printed(h, lines)
           IN  /\ p \in Seq(Line) /\ Len(p) = Len(lines) + 2
               /\ p[1] = h /\ p[Len(lines) + 2] = Blank
               /\ \A i \in 1..Len(lines) : p[1 + i] = lines[i]
<1> DEFINE n == Len(lines)
           first == <<h>>
           last == <<Blank>>
           p == (first \o lines) \o last
<1>1. n \in Nat /\ h \in Line /\ Blank \in Line
  BY BlankFacts
<1>2. first \in Seq(Line) /\ Len(first) = 1 /\ first[1] = h
      /\ last \in Seq(Line) /\ Len(last) = 1 /\ last[1] = Blank
  BY <1>1
<1> HIDE DEF first, last
<1> DEFINE q == first \o lines
<1>3. /\ q \in Seq(Line) /\ Len(q) = 1 + n
      /\ \A i \in 1..1 + n : q[i] = IF i <= 1 THEN first[i] ELSE lines[i - 1]
  BY <1>2, ConcatProperties
<1> HIDE DEF q, n
<1>4. /\ q \o last \in Seq(Line) /\ Len(q \o last) = Len(q) + Len(last)
      /\ \A i \in 1..Len(q) + Len(last) :
            (q \o last)[i] = IF i <= Len(q) THEN q[i] ELSE last[i - Len(q)]
  BY <1>2, <1>3, ConcatProperties, Zenon
<1>5. p \in Seq(Line) /\ Len(p) = (1 + n) + 1
      /\ \A i \in 1..(1 + n) + 1 : p[i] = IF i <= 1 + n THEN q[i] ELSE last[i - (1 + n)]
  BY <1>2, <1>3, <1>4 DEF q
<1>6. p = Printed(h, lines)
  BY DEF Printed, first, last
<1> HIDE DEF p
<1>7. p[1] = h
  <2>1. 1 \in 1..1 + n /\ 1 \in 1..(1 + n) + 1 /\ 1 <= 1 + n
    BY <1>1
  <2> QED
    BY <1>2, <1>3, <1>5, <2>1
<1>8. p[n + 2] = Blank
  <2>1. n + 2 \in 1..(1 + n) + 1 /\ ~(n + 2 <= 1 + n) /\ (n + 2) - (1 + n) = 1
    BY <1>1
  <2> QED
    BY <1>2, <1>5, <2>1
<1>9. ASSUME NEW i \in 1..n PROVE p[1 + i] = lines[i]
  <2>1. 1 + i \in 1..1 + n /\ 1 + i \in 1..(1 + n) + 1 /\ 1 + i <= 1 + n /\ ~(1 + i <= 1)
        /\ (1 + i) - 1 = i
    BY <1>1
  <2> QED
    BY <1>3, <1>5, <2>1
<1>10. (1 + n) + 1 = n + 2
  BY <1>1
<1> QED
  BY <1>5, <1>6, <1>7, <1>8, <1>9, <1>10 DEF n

(* A section that is found line by line is printed there.                  *)
LEMMA PlacedSection ==
    ASSUME NEW out \in Seq(Line), NEW o \in Nat, NEW e, NEW h \in Headers, NEW lines \in Seq(Line),
           e = o + Len(lines) + 2, e <= Len(out),
           \A i \in 1..Len(lines) + 2 : out[o + i] = Printed(h, lines)[i]
    PROVE  PrintedAt(out, o, e, h, lines)
<1> DEFINE p == Printed(h, lines)
           n == Len(lines)
<1>1. /\ Len(p) = n + 2 /\ p[1] = h /\ p[n + 2] = Blank
      /\ \A i \in 1..n : p[1 + i] = lines[i]
  BY SectionPrinted
<1>2. n \in Nat /\ Len(out) \in Nat
  OBVIOUS
<1>3. e = o + n + 2 /\ e <= Len(out) /\ \A i \in 1..Len(p) : out[o + i] = p[i]
  BY <1>1
<1> HIDE DEF p, n
<1>4. out[o + 1] = h
  <2>1. 1 \in 1..Len(p)
    BY <1>1, <1>2
  <2> QED
    BY <1>1, <1>3, <2>1
<1>5. out[e] = Blank
  <2>1. n + 2 \in 1..Len(p) /\ o + (n + 2) = e
    BY <1>1, <1>2, <1>3
  <2> QED
    BY <1>1, <1>3, <2>1
<1>6. ASSUME NEW i \in 1..n PROVE out[o + 1 + i] = lines[i]
  <2>1. i \in Nat /\ i >= 1 /\ i <= n
    BY <1>2
  <2>2. 1 + i \in 1..n + 2 /\ o + (1 + i) = o + 1 + i
    BY <1>2, <2>1
  <2> QED
    BY <1>1, <1>3, <2>2
<1> QED
  BY <1>3, <1>4, <1>5, <1>6 DEF PrintedAt, n

=============================================================================
