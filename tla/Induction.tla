----------------------------- MODULE Induction -----------------------------
(***************************************************************************)
(* Induction over data, from the well-foundedness of < on Nat, and what    *)
(* the operators of SequencesExt that the model is built from compute for  *)
(* every argument.                                                         *)
(***************************************************************************)
EXTENDS Integers, Sequences, SequencesExt, SequenceTheorems, WellFoundedInduction, TLAPS

Less == OpToRel(<, Nat)

\* A set of natural numbers that is not empty has a least element.
LEMMA Least ==
  ASSUME NEW T, T \subseteq Nat, T # {}
  PROVE  \E x \in T : \A y \in T : x <= y
<1>1. IsWellFoundedOn(Less, Nat)
  BY NatLessThanWellFounded DEF Less
<1>2. PICK x \in T : \A y \in T : ~ (<<y, x>> \in Less)
  BY <1>1, WFMin
<1>3. ASSUME NEW y \in T PROVE x <= y
  <2>1. x \in Nat /\ y \in Nat /\ <<y, x>> \notin Less
    BY <1>2
  <2>2. ~ (y < x)
    BY <2>1 DEF Less, OpToRel
  <2> QED BY <2>1, <2>2
<1> QED BY <1>3

\* Induction on the natural numbers, for the set S of the numbers with a property.
LEMMA Induct ==
  ASSUME NEW S, 0 \in S, \A n \in Nat : n \in S => n + 1 \in S
  PROVE  \A n \in Nat : n \in S
<1> SUFFICES ASSUME \E n \in Nat : n \notin S PROVE FALSE
  OBVIOUS
<1> DEFINE T == {n \in Nat : n \notin S}
<1>1. T \subseteq Nat /\ T # {}
  OBVIOUS
<1>2. PICK x \in T : \A y \in T : x <= y
  <2> HIDE DEF T
  <2> QED BY <1>1, Least
<1>3. x \in Nat /\ x # 0
  OBVIOUS
<1>4. x - 1 \in Nat /\ (x - 1) + 1 = x /\ ~ (x <= x - 1)
  BY <1>3
<1>5. x - 1 \in S
  BY <1>2, <1>4
<1> QED BY <1>4, <1>5

\* The concatenation c of two sequences a and b of lengths m and l.
Joined(c, a, b, m, l, X) ==
  /\ c \in Seq(X) /\ Len(c) = m + l
  /\ \A i \in 1 .. m : c[i] = a[i]
  /\ \A i \in 1 .. l : c[m + i] = b[i]

LEMMA ConcatFacts ==
  ASSUME NEW X, NEW a \in Seq(X), NEW b \in Seq(X), NEW c, c = a \o b, NEW m, m = Len(a), NEW l, l = Len(b)
  PROVE  Joined(c, a, b, m, l, X)
BY DEF Joined

-----------------------------------------------------------------------------
(***************************************************************************)
(* FlattenSeq.                                                             *)
(***************************************************************************)
\* f[i] is the concatenation of the first i of n sequences s.
Flattening(f, s, n) == f = [i \in 1 .. n |-> IF i = 1 THEN s[i] ELSE f[i - 1] \o s[i]]

LEMMA FlatteningExists ==
  ASSUME NEW s
  PROVE  \A n \in Nat : \E f : Flattening(f, s, n)
<1> DEFINE S == {n \in Nat : \E f : Flattening(f, s, n)}
<1>1. 0 \in S
  <2> DEFINE f == [i \in 1 .. 0 |-> s[i]]
  <2>1. f = [i \in 1 .. 0 |-> IF i = 1 THEN s[i] ELSE f[i - 1] \o s[i]]
    OBVIOUS
  <2>2. Flattening(f, s, 0)
    BY <2>1 DEF Flattening
  <2> QED BY <2>2
<1>2. ASSUME NEW n \in Nat, n \in S PROVE n + 1 \in S
  <2>1. PICK f : Flattening(f, s, n)
    BY <1>2
  <2>2. \A i \in 1 .. n : f[i] = IF i = 1 THEN s[i] ELSE f[i - 1] \o s[i]
    BY <2>1 DEF Flattening
  <2>3. PICK g : g = [i \in 1 .. n + 1 |-> IF i = 1 THEN s[i] ELSE IF i <= n THEN f[i] ELSE f[i - 1] \o s[i]]
    OBVIOUS
  <2>4. \A i \in 1 .. n + 1 : g[i] = IF i = 1 THEN s[i] ELSE IF i <= n THEN f[i] ELSE f[i - 1] \o s[i]
    BY <2>3
  <2>5. \A i \in 1 .. n : g[i] = f[i]
    BY <2>2, <2>4
  <2>6. ASSUME NEW i \in 1 .. n + 1 PROVE g[i] = IF i = 1 THEN s[i] ELSE g[i - 1] \o s[i]
    <3>1. CASE i = 1
      BY <2>4, <3>1
    <3>2. CASE i # 1
      <4>1. i - 1 \in 1 .. n /\ (i <= n \/ i > n)
        BY <3>2
      <4>2. g[i] = f[i - 1] \o s[i]
        <5>1. CASE i <= n
          <6>1. i \in 1 .. n
            BY <5>1
          <6> QED BY <6>1, <2>2, <2>5, <3>2
        <5>2. CASE i > n
          <6>1. ~ (i <= n)
            BY <5>2
          <6> QED BY <6>1, <2>4, <3>2, Zenon
        <5> QED BY <4>1, <5>1, <5>2
      <4> QED BY <2>5, <3>2, <4>1, <4>2
    <3> QED BY <3>1, <3>2
  <2>7. Flattening(g, s, n + 1)
    BY <2>3, <2>6 DEF Flattening
  <2> QED BY <2>7
<1>3. \A n \in Nat : n \in S
  <2> HIDE DEF S
  <2> QED BY <1>1, <1>2, Induct
<1> QED BY <1>3

LEMMA FlattenRec ==
  ASSUME NEW s, Len(s) \in Nat, Len(s) # 0
  PROVE  \E f : Flattening(f, s, Len(s)) /\ FlattenSeq(s) = f[Len(s)]
<1> DEFINE flatten == CHOOSE f : f = [i \in 1 .. Len(s) |-> IF i = 1 THEN s[i] ELSE f[i - 1] \o s[i]]
<1>1. \E f : f = [i \in 1 .. Len(s) |-> IF i = 1 THEN s[i] ELSE f[i - 1] \o s[i]]
  BY FlatteningExists DEF Flattening
<1>2. flatten = [i \in 1 .. Len(s) |-> IF i = 1 THEN s[i] ELSE flatten[i - 1] \o s[i]]
  BY <1>1
<1>3. FlattenSeq(s) = flatten[Len(s)]
  BY DEF FlattenSeq
<1> HIDE DEF flatten
<1> QED BY <1>2, <1>3 DEF Flattening

\* e[i] is where the i-th of the sequences s ends in their concatenation t.
Ends(e, s, t) ==
  /\ e \in [0 .. Len(s) -> Nat] /\ e[0] = 0
  /\ \A i \in 1 .. Len(s) : e[i] = e[i - 1] + Len(s[i])
  /\ Len(t) = e[Len(s)]
  /\ \A i \in 1 .. Len(s) : \A m \in 1 .. Len(s[i]) : t[e[i - 1] + m] = s[i][m]

\* Ends for the first i sequences, f[i] being their concatenation.
Ending(f, e, s, X, i) ==
  /\ f[i] \in Seq(X) /\ e[i - 1] \in Nat /\ e[i] = e[i - 1] + Len(s[i])
  /\ \A j \in 1 .. i : e[j] <= e[i]
  /\ \A j \in 1 .. i : \A m \in 1 .. Len(s[j]) : f[i][e[j - 1] + m] = s[j][m]

LEMMA Within ==
  ASSUME NEW x \in Nat, NEW y \in Nat, NEW z \in Nat, x + y <= z, NEW m \in 1 .. y
  PROVE  x + m \in 1 .. z
OBVIOUS

LEMMA NextEnding ==
  ASSUME NEW X, NEW s, NEW f, NEW e, NEW n \in Nat, n + 2 <= Len(s), Len(s) \in Nat,
         \A i \in 1 .. Len(s) : s[i] \in Seq(X) /\ Len(s[i]) \in Nat,
         \A i \in 1 .. Len(s) : e[i] = Len(f[i]),
         \A i \in 1 .. n + 1 : Ending(f, e, s, X, i),
         f[n + 2] = f[n + 1] \o s[n + 2]
  PROVE  Ending(f, e, s, X, n + 2)
<1>1. n + 1 \in 1 .. Len(s) /\ n + 2 \in 1 .. Len(s) /\ (n + 2) - 1 = n + 1 /\ n + 1 \in 1 .. n + 1
  OBVIOUS
<1> DEFINE a == f[n + 1]
           b == s[n + 2]
           c == f[n + 2]
<1>2. a \in Seq(X) /\ b \in Seq(X) /\ c = a \o b
  BY <1>1 DEF Ending
<1>3. e[n + 1] = Len(a) /\ e[n + 2] = Len(c)
  BY <1>1
<1>4. \A j \in 1 .. n + 1 : e[j] <= e[n + 1] /\ \A m \in 1 .. Len(s[j]) : a[e[j - 1] + m] = s[j][m]
  BY <1>1 DEF Ending
<1> HIDE DEF a, b, c
<1>5. /\ c \in Seq(X) /\ Len(c) = Len(a) + Len(b) /\ Len(a) \in Nat /\ Len(b) \in Nat
      /\ \A k \in 1 .. Len(a) : c[k] = a[k]
      /\ \A k \in 1 .. Len(b) : c[Len(a) + k] = b[k]
  BY <1>2
<1>6. ASSUME NEW j \in 1 .. n + 2
      PROVE  e[j] <= e[n + 2] /\ \A m \in 1 .. Len(s[j]) : c[e[j - 1] + m] = s[j][m]
  <2>1. CASE j = n + 2
    <3>1. j - 1 = n + 1 /\ s[j] = b /\ e[j] = Len(c) /\ e[j - 1] = Len(a)
      BY <1>1, <1>3, <2>1 DEF b
    <3> QED BY <1>3, <1>5, <2>1, <3>1
  <2>2. CASE j # n + 2
    <3>1. j \in 1 .. n + 1 /\ j \in 1 .. Len(s)
      BY <2>2
    <3>2. e[j - 1] \in Nat /\ e[j] = e[j - 1] + Len(s[j]) /\ Len(s[j]) \in Nat /\ e[j] <= e[n + 1]
      BY <1>4, <3>1 DEF Ending
    <3>3. ASSUME NEW m \in 1 .. Len(s[j]) PROVE c[e[j - 1] + m] = s[j][m]
      <4>1. e[j - 1] + Len(s[j]) <= Len(a) /\ Len(a) \in Nat
        BY <1>3, <1>5, <3>2
      <4>2. e[j - 1] + m \in 1 .. Len(a)
        BY <3>2, <4>1, Within
      <4> QED BY <1>4, <1>5, <3>1, <4>2, Zenon
    <3>4. e[j] <= e[n + 2]
      BY <1>3, <1>5, <3>2
    <3> QED BY <3>3, <3>4
  <2> QED BY <2>1, <2>2
<1>7. e[n + 2] = e[n + 1] + Len(s[n + 2]) /\ e[n + 1] \in Nat
  BY <1>3, <1>5 DEF b
<1>8. f[n + 2] = c
  BY DEF c
<1> QED BY <1>1, <1>5, <1>6, <1>7, <1>8 DEF Ending

\* What FlattenSeq computes: a sequence of the same elements, in which every sequence
\* begins where the one before it ends.
LEMMA FlattenEnds ==
  ASSUME NEW X, NEW s \in Seq(Seq(X))
  PROVE  FlattenSeq(s) \in Seq(X) /\ \E e : Ends(e, s, FlattenSeq(s))
<1>0. Len(s) \in Nat /\ \A i \in 1 .. Len(s) : s[i] \in Seq(X) /\ Len(s[i]) \in Nat
  OBVIOUS
<1>1. CASE Len(s) = 0
  <2>1. s = <<>> /\ FlattenSeq(s) = s
    BY <1>1 DEF FlattenSeq
  <2> DEFINE e == [i \in 0 .. 0 |-> 0]
  <2>2. Ends(e, s, s)
    BY <1>1, <2>1 DEF Ends
  <2>3. s \in Seq(X)
    BY <2>1
  <2> QED BY <2>1, <2>2, <2>3
<1>2. CASE Len(s) # 0
  <2>1. PICK f : Flattening(f, s, Len(s)) /\ FlattenSeq(s) = f[Len(s)]
    BY <1>0, <1>2, FlattenRec
  <2>2. \A i \in 1 .. Len(s) : f[i] = IF i = 1 THEN s[i] ELSE f[i - 1] \o s[i]
    BY <2>1 DEF Flattening
  <2>3. PICK e : e = [i \in 0 .. Len(s) |-> IF i = 0 THEN 0 ELSE Len(f[i])]
    OBVIOUS
  <2>4. e[0] = 0 /\ DOMAIN e = 0 .. Len(s) /\ \A i \in 1 .. Len(s) : e[i] = Len(f[i])
    BY <1>0, <2>3
  <2> DEFINE S == {n \in Nat : n + 1 <= Len(s) => \A i \in 1 .. n + 1 : Ending(f, e, s, X, i)}
  <2>5. 0 \in S
    <3>1. 1 \in 1 .. Len(s)
      BY <1>0, <1>2
    <3>2. f[1] = s[1] /\ f[1] \in Seq(X) /\ Len(f[1]) \in Nat /\ e[1] = Len(f[1])
      BY <1>0, <2>2, <2>4, <3>1
    <3>3. Ending(f, e, s, X, 1)
      BY <2>4, <3>2 DEF Ending
    <3>4. \A i \in 1 .. 0 + 1 : i = 1
      OBVIOUS
    <3> QED BY <3>3, <3>4
  <2>6. ASSUME NEW n \in Nat, n \in S PROVE n + 1 \in S
    <3>0. SUFFICES ASSUME n + 2 <= Len(s) PROVE \A i \in 1 .. n + 2 : Ending(f, e, s, X, i)
      BY <2>6
    <3>1. n + 1 \in 1 .. Len(s) /\ n + 2 \in 1 .. Len(s) /\ (n + 2) - 1 = n + 1 /\ n + 1 <= Len(s) /\ n + 1 \in 1 .. n + 1
      BY <1>0, <3>0
    <3>2. \A i \in 1 .. n + 1 : Ending(f, e, s, X, i)
      BY <2>6, <3>1
    <3>3. f[n + 2] = f[n + 1] \o s[n + 2]
      <4>1. n + 2 # 1
        OBVIOUS
      <4> QED BY <2>2, <3>1, <4>1, Zenon
    <3>4. Ending(f, e, s, X, n + 2)
      BY <1>0, <2>4, <3>0, <3>2, <3>3, NextEnding
    <3>5. \A i \in 1 .. n + 2 : i \in 1 .. n + 1 \/ i = n + 2
      OBVIOUS
    <3> QED BY <3>2, <3>4, <3>5
  <2>7. \A n \in Nat : n \in S
    <3> HIDE DEF S
    <3> QED BY <2>5, <2>6, Induct
  <2>8. Len(s) - 1 \in Nat /\ (Len(s) - 1) + 1 = Len(s) /\ Len(s) \in 1 .. Len(s)
    BY <1>0, <1>2
  <2>9. \A i \in 1 .. Len(s) : Ending(f, e, s, X, i)
    <3>1. Len(s) - 1 \in S
      BY <2>7, <2>8
    <3> QED BY <2>8, <3>1
  <2>10. /\ f[Len(s)] \in Seq(X)
         /\ \A j \in 1 .. Len(s) : \A m \in 1 .. Len(s[j]) : f[Len(s)][e[j - 1] + m] = s[j][m]
    BY <2>8, <2>9 DEF Ending
  <2>11. \A i \in 1 .. Len(s) : e[i] = e[i - 1] + Len(s[i]) /\ e[i] \in Nat
    BY <1>0, <2>9 DEF Ending
  <2>12. e \in [0 .. Len(s) -> Nat]
    <3>1. \A i \in 0 .. Len(s) : e[i] \in Nat
      <4>1. \A i \in 0 .. Len(s) : i = 0 \/ i \in 1 .. Len(s)
        BY <1>0
      <4> QED BY <2>4, <2>11, <4>1
    <3> QED BY <2>3, <2>4, <3>1
  <2>13. Len(FlattenSeq(s)) = e[Len(s)]
    BY <2>1, <2>4, <2>8
  <2>14. Ends(e, s, FlattenSeq(s))
    BY <2>1, <2>4, <2>10, <2>11, <2>12, <2>13 DEF Ends
  <2> QED BY <2>1, <2>10, <2>14
<1> QED BY <1>1, <1>2

\* Every position of the concatenation lies in one of the sequences, and the ends are
\* in order.
LEMMA EndsCover ==
  ASSUME NEW s, Len(s) \in Nat, NEW t, NEW e, Ends(e, s, t), \A i \in 1 .. Len(s) : Len(s[i]) \in Nat
  PROVE  /\ \A p \in 1 .. Len(t) : \E i \in 1 .. Len(s) : e[i - 1] < p /\ p <= e[i]
         /\ \A i \in 0 .. Len(s) : \A j \in 0 .. i : e[j] <= e[i]
<1>0. /\ e \in [0 .. Len(s) -> Nat] /\ e[0] = 0 /\ Len(t) = e[Len(s)]
      /\ \A i \in 1 .. Len(s) : e[i] = e[i - 1] + Len(s[i])
  BY DEF Ends
<1>1. ASSUME NEW p \in 1 .. Len(t) PROVE \E i \in 1 .. Len(s) : e[i - 1] < p /\ p <= e[i]
  <2>1. PICK T : T = {i \in 0 .. Len(s) : p <= e[i]}
    OBVIOUS
  <2>2. T \subseteq Nat /\ Len(s) \in T
    BY <1>0, <2>1
  <2>3. PICK i \in T : \A j \in T : i <= j
    BY <2>2, Least
  <2>4. i \in 0 .. Len(s) /\ p <= e[i]
    BY <2>1
  <2>5. i # 0
    BY <1>0, <2>4
  <2>6. i \in 1 .. Len(s) /\ i - 1 \in 0 .. Len(s) /\ ~ (i <= i - 1)
    BY <2>4, <2>5
  <2>7. ~ (p <= e[i - 1]) /\ e[i - 1] \in Nat
    BY <1>0, <2>1, <2>3, <2>6
  <2>8. e[i - 1] < p
    BY <2>7
  <2> QED BY <2>4, <2>6, <2>8
<1>2. \A i \in 0 .. Len(s) : \A j \in 0 .. i : e[j] <= e[i]
  <2> DEFINE S == {n \in Nat : n <= Len(s) => \A j \in 0 .. n : e[j] <= e[n]}
  <2>1. 0 \in S
    BY <1>0
  <2>2. ASSUME NEW n \in Nat, n \in S PROVE n + 1 \in S
    <3>1. SUFFICES ASSUME n + 1 <= Len(s), NEW j \in 0 .. n + 1 PROVE e[j] <= e[n + 1]
      OBVIOUS
    <3>2. n + 1 \in 1 .. Len(s) /\ (n + 1) - 1 = n /\ n \in 0 .. Len(s) /\ n <= Len(s) /\ j \in 0 .. Len(s) /\ (j = n + 1 \/ j \in 0 .. n)
      BY <3>1
    <3>3. e[n + 1] = e[n] + Len(s[n + 1])
      BY <1>0, <3>2, Zenon
    <3>4. e[n] \in Nat /\ Len(s[n + 1]) \in Nat /\ e[j] \in Nat
      BY <1>0, <3>2
    <3>5. j = n + 1 \/ e[j] <= e[n]
      BY <2>2, <3>2
    <3> QED BY <3>3, <3>4, <3>5
  <2>3. \A n \in Nat : n \in S
    <3> HIDE DEF S
    <3> QED BY <2>1, <2>2, Induct
  <2> QED BY <2>3
<1> QED BY <1>1, <1>2

-----------------------------------------------------------------------------
(***************************************************************************)
(* FoldLeft(+, 0, _).                                                      *)
(***************************************************************************)
\* it[t] is the sum of the elements of s at the positions t.
Summing(it, s, D) ==
  it = [t \in SUBSET D |-> IF t = {} THEN 0 ELSE it[t \ {Max(t)}] + s[Max(t)]]

\* The largest of some of the first positions.
LEMMA MaxOfPositions ==
  ASSUME NEW n \in Nat, NEW t \in SUBSET (1 .. n + 1)
  PROVE  n + 1 \in t => Max(t) = n + 1
<1>1. ASSUME n + 1 \in t PROVE Max(t) = n + 1
  <2>1. \A y \in t : y \in Int /\ n + 1 >= y
    OBVIOUS
  <2>2. \A x \in t : (\A y \in t : x >= y) => x = n + 1
    BY <1>1, <2>1
  <2> QED BY <1>1, <2>1, <2>2 DEF Max
<1> QED BY <1>1

LEMMA SummingExists ==
  ASSUME NEW s
  PROVE  \A n \in Nat : \E it : Summing(it, s, 1 .. n)
<1> DEFINE S == {n \in Nat : \E it : Summing(it, s, 1 .. n)}
<1>1. 0 \in S
  <2>1. PICK it : it = [t \in SUBSET (1 .. 0) |-> 0]
    OBVIOUS
  <2>2. \A t \in SUBSET (1 .. 0) : t = {}
    OBVIOUS
  <2>3. Summing(it, s, 1 .. 0)
    BY <2>1, <2>2 DEF Summing
  <2> QED BY <2>3
<1>2. ASSUME NEW n \in Nat, n \in S PROVE n + 1 \in S
  <2>1. PICK it : Summing(it, s, 1 .. n)
    BY <1>2
  <2>2. PICK ju : ju = [t \in SUBSET (1 .. n + 1) |->
                          IF n + 1 \in t THEN it[t \ {n + 1}] + s[n + 1] ELSE it[t]]
    OBVIOUS
  <2>3. \A t \in SUBSET (1 .. n + 1) : ju[t] = IF n + 1 \in t THEN it[t \ {n + 1}] + s[n + 1] ELSE it[t]
    BY <2>2
  <2>4. \A t \in SUBSET (1 .. n) : it[t] = IF t = {} THEN 0 ELSE it[t \ {Max(t)}] + s[Max(t)]
    BY <2>1 DEF Summing
  <2>5. ASSUME NEW t \in SUBSET (1 .. n) PROVE t \in SUBSET (1 .. n + 1) /\ n + 1 \notin t /\ ju[t] = it[t]
    <3>1. t \in SUBSET (1 .. n + 1) /\ n + 1 \notin t
      OBVIOUS
    <3> QED BY <2>3, <3>1
  <2>6. ASSUME NEW t \in SUBSET (1 .. n + 1)
        PROVE  ju[t] = IF t = {} THEN 0 ELSE ju[t \ {Max(t)}] + s[Max(t)]
    <3>1. CASE n + 1 \in t
      <4>1. Max(t) = n + 1 /\ t # {}
        BY <3>1, MaxOfPositions
      <4>2. t \ {n + 1} \in SUBSET (1 .. n)
        OBVIOUS
      <4>3. ju[t \ {n + 1}] = it[t \ {n + 1}]
        BY <2>5, <4>2
      <4>4. ju[t] = it[t \ {n + 1}] + s[n + 1]
        BY <2>3, <3>1, Zenon
      <4> QED BY <4>1, <4>3, <4>4, Zenon
    <3>2. CASE n + 1 \notin t
      <4>1. t \in SUBSET (1 .. n)
        BY <3>2
      <4>2. ju[t] = IF t = {} THEN 0 ELSE it[t \ {Max(t)}] + s[Max(t)]
        BY <2>4, <2>5, <4>1
      <4>3. t \ {Max(t)} \in SUBSET (1 .. n)
        BY <4>1
      <4>4. ju[t \ {Max(t)}] = it[t \ {Max(t)}]
        BY <2>5, <4>3
      <4> QED BY <4>2, <4>4, Zenon
    <3> QED BY <3>1, <3>2
  <2>7. Summing(ju, s, 1 .. n + 1)
    BY <2>2, <2>6 DEF Summing
  <2> QED BY <2>7
<1>3. \A n \in Nat : n \in S
  <2> HIDE DEF S
  <2> QED BY <1>1, <1>2, Induct
<1> QED BY <1>3

LEMMA SumRec ==
  ASSUME NEW s, Len(s) \in Nat, DOMAIN s = 1 .. Len(s)
  PROVE  \E it : Summing(it, s, DOMAIN s) /\ FoldLeft(+, 0, s) = it[DOMAIN s]
<1>1. PICK su : su = CHOOSE it : Summing(it, s, DOMAIN s)
  OBVIOUS
<1>2. \E it : Summing(it, s, DOMAIN s)
  BY SummingExists
<1>3. Summing(su, s, DOMAIN s)
  BY <1>1, <1>2
<1>4. FoldLeft(+, 0, s) =
        (CHOOSE it : it = [t \in SUBSET DOMAIN s |-> IF t = {} THEN 0 ELSE it[t \ {Max(t)}] + s[Max(t)]])[DOMAIN s]
  BY DEF FoldLeft, MapThenFoldSet
<1>5. FoldLeft(+, 0, s) = su[DOMAIN s]
  BY <1>1, <1>4 DEF Summing
<1> QED BY <1>3, <1>5

\* The total of lengths is one.
LEMMA SumOfNaturals ==
  ASSUME NEW s \in Seq(Nat)
  PROVE  FoldLeft(+, 0, s) \in Nat
<1>0. Len(s) \in Nat /\ DOMAIN s = 1 .. Len(s) /\ \A i \in 1 .. Len(s) : s[i] \in Nat
  OBVIOUS
<1>1. PICK it : Summing(it, s, DOMAIN s) /\ FoldLeft(+, 0, s) = it[DOMAIN s]
  BY <1>0, SumRec
<1>2. \A t \in SUBSET (1 .. Len(s)) : it[t] = IF t = {} THEN 0 ELSE it[t \ {Max(t)}] + s[Max(t)]
  BY <1>0, <1>1 DEF Summing
<1> DEFINE S == {n \in Nat : n <= Len(s) => it[1 .. n] \in Nat}
<1>3. 0 \in S
  <2>1. 1 .. 0 = {} /\ {} \in SUBSET (1 .. Len(s))
    OBVIOUS
  <2>2. it[{}] = 0
    BY <1>2, <2>1, Zenon
  <2>3. it[1 .. 0] \in Nat
    BY <2>1, <2>2
  <2> QED BY <2>3
<1>4. ASSUME NEW n \in Nat, n \in S PROVE n + 1 \in S
  <2>1. SUFFICES ASSUME n + 1 <= Len(s) PROVE it[1 .. n + 1] \in Nat
    OBVIOUS
  <2>2. 1 .. n + 1 \in SUBSET (1 .. Len(s)) /\ 1 .. n + 1 # {} /\ n + 1 \in 1 .. n + 1 /\ n + 1 \in 1 .. Len(s)
    <3>1. n + 1 \in 1 .. n + 1 /\ n + 1 \in 1 .. Len(s)
      BY <1>0, <2>1
    <3>2. \A i \in 1 .. n + 1 : i \in 1 .. Len(s)
      BY <1>0, <2>1
    <3> QED BY <3>1, <3>2, Zenon
  <2>3. Max(1 .. n + 1) = n + 1
    BY <2>2, MaxOfPositions
  <2>4. (1 .. n + 1) \ {n + 1} = 1 .. n
    OBVIOUS
  <2>5. it[1 .. n + 1] = it[1 .. n] + s[n + 1]
    BY <1>2, <2>2, <2>3, <2>4, Zenon
  <2>6. it[1 .. n] \in Nat /\ s[n + 1] \in Nat
    BY <1>0, <1>4, <2>1, <2>2
  <2> QED BY <2>5, <2>6
<1>5. \A n \in Nat : n \in S
  <2> HIDE DEF S
  <2> QED BY <1>3, <1>4, Induct
<1>6. it[DOMAIN s] \in Nat
  <2>1. Len(s) \in S
    BY <1>0, <1>5
  <2>2. it[1 .. Len(s)] \in Nat
    BY <1>0, <2>1
  <2> QED BY <1>0, <2>2, Zenon
<1> QED BY <1>1, <1>6, Zenon

\* The total of no lengths and of one.
LEMMA SumOfOne ==
  ASSUME NEW n \in Nat
  PROVE  FoldLeft(+, 0, <<>>) = 0 /\ FoldLeft(+, 0, <<n>>) = n
<1>1. FoldLeft(+, 0, <<>>) = 0
  <2>1. PICK s : s = <<>>
    OBVIOUS
  <2>2. Len(s) = 0 /\ DOMAIN s = 1 .. Len(s) /\ DOMAIN s = {} /\ Len(s) \in Nat
    BY <2>1
  <2>3. PICK it : Summing(it, s, DOMAIN s) /\ FoldLeft(+, 0, s) = it[DOMAIN s]
    BY <2>2, SumRec
  <2>4. it[{}] = 0
    BY <2>3 DEF Summing
  <2> QED BY <2>1, <2>2, <2>3, <2>4, Zenon
<1>2. FoldLeft(+, 0, <<n>>) = n
  <2>1. PICK s : s = <<n>>
    OBVIOUS
  <2>2. Len(s) = 1 /\ DOMAIN s = 1 .. Len(s) /\ DOMAIN s = {1} /\ Len(s) \in Nat /\ s[1] = n
    BY <2>1
  <2>3. PICK it : Summing(it, s, DOMAIN s) /\ FoldLeft(+, 0, s) = it[DOMAIN s]
    BY <2>2, SumRec
  <2>4. it[{}] = 0
    BY <2>3 DEF Summing
  <2>5. Max({1}) = 1
    BY DEF Max
  <2>6. {1} \in SUBSET DOMAIN s /\ {1} # {} /\ {1} \ {1} = {}
    BY <2>2
  <2>7. it[{1}] = it[{1} \ {Max({1})}] + s[Max({1})]
    BY <2>3, <2>6, Zenon DEF Summing
  <2>8. it[{1}] = 0 + n
    BY <2>2, <2>4, <2>5, <2>6, <2>7, Zenon
  <2>9. FoldLeft(+, 0, <<n>>) = it[{1}]
    BY <2>1, <2>2, <2>3, Zenon
  <2>10. it[{1}] = n
    BY <2>8
  <2> QED BY <2>9, <2>10, Zenon
<1> QED BY <1>1, <1>2
====
