-------------------------- MODULE SchedulerProofs --------------------------
(***************************************************************************)
(* Proof that SchedInv is an invariant of the scheduler and its fibers,    *)
(* whatever the modules on top of it do through its interface.  One lemma  *)
(* per operation says that it preserves SchedInv and what it does to the   *)
(* fibers that wait for I/O.                                               *)
(***************************************************************************)
EXTENDS Scheduler, SequenceTheorems, FiniteSetTheorems, TLAPS

(***************************************************************************)
(* What the list updates do to the members of the lists.                   *)
(***************************************************************************)
\* The lists are pairwise disjoint and each holds a fiber at most once.
ListsOK(L) == L \in [Lists -> Seq(Fibers)] /\ Exclusive(L)

\* Fiber f is in none of the lists.
Unlinked(L, f) == \A l \in Lists : f \notin Members(L[l])

\* Of two lists that share a member, both are the same one.
LEMMA MemberOfOne ==
  ASSUME NEW L, ListsOK(L), NEW k \in Lists, NEW l \in Lists, NEW f,
         f \in Members(L[k]), f \in Members(L[l])
  PROVE  k = l
BY DEF ListsOK, Exclusive, Members

\* Only fibers are members of lists.
LEMMA MembersFibers ==
  ASSUME NEW L, ListsOK(L), NEW l \in Lists
  PROVE  Members(L[l]) \subseteq Fibers
BY DEF ListsOK, Members

\* Appending a fiber whose hook is free keeps the lists well-formed (list.c,
\* dfk_list_append).
LEMMA PutLists ==
  ASSUME NEW L, ListsOK(L), NEW l \in Lists, NEW f \in Fibers, Unlinked(L, f)
  PROVE  /\ ListsOK(Put(L, l, f))
         /\ Members(Put(L, l, f)[l]) = Members(L[l]) \cup {f}
         /\ \A k \in Lists : k # l => Put(L, l, f)[k] = L[k]
<1> DEFINE P == Put(L, l, f)
<1>1. /\ L \in [Lists -> Seq(Fibers)]
      /\ L[l] \in Seq(Fibers)
  BY DEF ListsOK
<1>2. P \in [Lists -> Seq(Fibers)] /\ P[l] = Append(L[l], f)
  BY <1>1 DEF Put
<1>3. \A k \in Lists : k # l => P[k] = L[k]
  BY <1>1 DEF Put
<1>4. /\ DOMAIN P[l] = 1 .. Len(L[l]) + 1
      /\ DOMAIN L[l] = 1 .. Len(L[l])
      /\ Len(L[l]) \in Nat
      /\ \A i \in DOMAIN L[l] : P[l][i] = L[l][i]
      /\ P[l][Len(L[l]) + 1] = f
  BY <1>1, <1>2
<1>5. Members(P[l]) = Members(L[l]) \cup {f}
  BY <1>4 DEF Members
<1>6. Exclusive(P)
  <2> SUFFICES ASSUME NEW a \in Lists, NEW b \in Lists,
                      NEW i \in DOMAIN P[a], NEW j \in DOMAIN P[b],
                      P[a][i] = P[b][j]
               PROVE  a = b /\ i = j
    BY DEF Exclusive
  <2>1. ASSUME NEW x \in Lists, NEW n \in DOMAIN P[x]
        PROVE  \/ n \in DOMAIN L[x] /\ P[x][n] = L[x][n]
               \/ x = l /\ n = Len(L[l]) + 1 /\ P[x][n] = f
    BY <1>3, <1>4
  <2>2. \A x \in Lists : \A n \in DOMAIN L[x] : L[x][n] # f
    BY DEF Unlinked, Members
  <2> QED
    BY <2>1, <2>2 DEF ListsOK, Exclusive
<1> QED
  BY <1>2, <1>3, <1>5, <1>6 DEF ListsOK

\* dfk_list_pop_front unlinks exactly the front.
LEMMA PopLists ==
  ASSUME NEW L, ListsOK(L), NEW l \in Lists, L[l] # <<>>
  PROVE  /\ Head(L[l]) \in Fibers /\ Head(L[l]) \in Members(L[l])
         /\ ListsOK(PopFront(L, l))
         /\ Members(PopFront(L, l)[l]) = Members(L[l]) \ {Head(L[l])}
         /\ \A k \in Lists : k # l => PopFront(L, l)[k] = L[k]
         /\ Unlinked(PopFront(L, l), Head(L[l]))
<1> DEFINE P == PopFront(L, l)
           h == Head(L[l])
<1>1. /\ L \in [Lists -> Seq(Fibers)]
      /\ L[l] \in Seq(Fibers)
  BY DEF ListsOK
<1>2. P \in [Lists -> Seq(Fibers)] /\ P[l] = Tail(L[l])
  BY <1>1 DEF PopFront
<1>3. \A k \in Lists : k # l => P[k] = L[k]
  BY <1>1 DEF PopFront
<1>4. /\ Len(L[l]) \in Nat /\ Len(L[l]) >= 1
      /\ DOMAIN L[l] = 1 .. Len(L[l])
      /\ DOMAIN P[l] = 1 .. Len(L[l]) - 1
      /\ \A i \in DOMAIN P[l] : P[l][i] = L[l][i + 1]
      /\ h = L[l][1]
  BY <1>1, <1>2
<1>5. h \in Fibers /\ h \in Members(L[l])
  BY <1>1, <1>4 DEF Members
<1>6. ASSUME NEW x \in Lists, NEW n \in DOMAIN P[x]
      PROVE  IF x = l THEN n + 1 \in DOMAIN L[x] /\ P[x][n] = L[x][n + 1] /\ n \in Nat
                      ELSE n \in DOMAIN L[x] /\ P[x][n] = L[x][n]
  BY <1>3, <1>4
<1>7. Exclusive(P)
  <2> SUFFICES ASSUME NEW a \in Lists, NEW b \in Lists,
                      NEW i \in DOMAIN P[a], NEW j \in DOMAIN P[b],
                      P[a][i] = P[b][j]
               PROVE  a = b /\ i = j
    BY DEF Exclusive
  <2>1. CASE a = l /\ b = l
    BY <1>6, <2>1, <1>4 DEF ListsOK, Exclusive
  <2>2. CASE ~ (a = l /\ b = l)
    BY <1>6, <2>2 DEF ListsOK, Exclusive
  <2> QED BY <2>1, <2>2
<1>8. Members(P[l]) = Members(L[l]) \ {h}
  <2>1. ASSUME NEW x \in Members(P[l]) PROVE x \in Members(L[l]) \ {h}
    <3>1. PICK n \in DOMAIN P[l] : x = P[l][n]
      BY DEF Members
    <3>2. n + 1 \in DOMAIN L[l] /\ x = L[l][n + 1] /\ n \in Nat /\ n + 1 # 1
      BY <3>1, <1>4
    <3>3. 1 \in DOMAIN L[l]
      BY <1>4
    <3>4. \A i, j \in DOMAIN L[l] : L[l][i] = L[l][j] => i = j
      BY DEF ListsOK, Exclusive
    <3>5. x # h
      BY <3>2, <3>3, <3>4, <1>4
    <3> QED BY <3>2, <3>5 DEF Members
  <2>2. ASSUME NEW x \in Members(L[l]), x # h PROVE x \in Members(P[l])
    <3>1. PICK n \in DOMAIN L[l] : x = L[l][n]
      BY DEF Members
    <3>2. n - 1 \in DOMAIN P[l] /\ P[l][n - 1] = x
      BY <3>1, <2>2, <1>4
    <3> QED BY <3>2 DEF Members
  <2> QED BY <2>1, <2>2
<1>9. Unlinked(P, h)
  <2> SUFFICES ASSUME NEW k \in Lists, h \in Members(P[k]) PROVE FALSE
    BY DEF Unlinked
  <2>1. CASE k = l
    BY <2>1, <1>8
  <2>2. CASE k # l
    BY <2>2, <1>3, <1>5, MemberOfOne
  <2> QED BY <2>1, <2>2
<1> QED
  BY <1>2, <1>3, <1>5, <1>7, <1>8, <1>9 DEF ListsOK

\* Waking the front of a wait queue moves it to the pending list.
LEMMA WakeLists ==
  ASSUME NEW L, ListsOK(L), NEW w \in WaitQueues, L[w] # <<>>
  PROVE  /\ Head(L[w]) \in Fibers /\ Head(L[w]) \in Members(L[w])
         /\ ListsOK(WakeFront(L, w))
         /\ Members(WakeFront(L, w)[w]) = Members(L[w]) \ {Head(L[w])}
         /\ Members(WakeFront(L, w)["pending"]) = Members(L["pending"]) \cup {Head(L[w])}
         /\ \A k \in Lists : k # w /\ k # "pending" => WakeFront(L, w)[k] = L[k]
<1> DEFINE P == PopFront(L, w)
           h == Head(L[w])
<1>1. w \in Lists /\ "pending" \in Lists /\ w # "pending"
  BY SchedulerAssumption DEF Lists
<1>2. /\ h \in Fibers /\ h \in Members(L[w])
      /\ ListsOK(P)
      /\ Members(P[w]) = Members(L[w]) \ {h}
      /\ \A k \in Lists : k # w => P[k] = L[k]
      /\ Unlinked(P, h)
  BY <1>1, PopLists
<1>3. /\ ListsOK(Put(P, "pending", h))
      /\ Members(Put(P, "pending", h)["pending"]) = Members(P["pending"]) \cup {h}
      /\ \A k \in Lists : k # "pending" => Put(P, "pending", h)[k] = P[k]
  BY <1>1, <1>2, PutLists
<1>4. WakeFront(L, w) = Put(P, "pending", h)
  BY DEF WakeFront, Resumed
<1> HIDE DEF P, h
<1> QED
  BY <1>1, <1>2, <1>3, <1>4 DEF P, h

\* The empty list has no members, and only it.
LEMMA EmptyMembers ==
  ASSUME NEW q \in Seq(Fibers)
  PROVE  q = <<>> <=> Members(q) = {}
<1>1. Len(q) \in Nat /\ DOMAIN q = 1 .. Len(q)
  OBVIOUS
<1>2. CASE q = <<>>
  BY <1>1, <1>2 DEF Members
<1>3. CASE q # <<>>
  <2>1. 1 \in DOMAIN q
    BY <1>1, <1>3
  <2> QED BY <2>1, <1>3 DEF Members
<1> QED BY <1>2, <1>3

\* dfk__scheduler: the terminated list is emptied and the pending list becomes
\* the local one.
LEMMA CollectLists ==
  ASSUME NEW L, ListsOK(L), NEW P \in [Lists -> Seq(Fibers)],
         P["batch"] = L["pending"], P["pending"] = <<>>, P["terminated"] = <<>>,
         \A w \in WaitQueues : P[w] = L[w]
  PROVE  ListsOK(P)
<1> SUFFICES ASSUME NEW a \in Lists, NEW b \in Lists,
                    NEW i \in DOMAIN P[a], NEW j \in DOMAIN P[b],
                    P[a][i] = P[b][j]
             PROVE  a = b /\ i = j
  BY DEF ListsOK, Exclusive
<1>1. /\ a \in {"batch"} \cup WaitQueues
      /\ b \in {"batch"} \cup WaitQueues
  BY DEF Lists
<1> DEFINE from(x) == IF x = "batch" THEN "pending" ELSE x
<1>2. /\ P[a] = L[from(a)] /\ from(a) \in Lists
      /\ P[b] = L[from(b)] /\ from(b) \in Lists
  BY <1>1 DEF Lists
<1>3. from(a) = from(b) /\ i = j
  <2> HIDE DEF from
  <2> QED BY <1>2 DEF ListsOK, Exclusive
<1>4. a # "pending" /\ b # "pending"
  BY <1>1, SchedulerAssumption
<1> QED BY <1>3, <1>4

\* A concatenation, element by element.
LEMMA ConcatSeq ==
  ASSUME NEW a \in Seq(Fibers), NEW b \in Seq(Fibers)
  PROVE  /\ a \o b \in Seq(Fibers)
         /\ DOMAIN (a \o b) = 1 .. Len(a) + Len(b)
         /\ \A i \in 1 .. Len(a) : (a \o b)[i] = a[i]
         /\ \A i \in 1 .. Len(b) : (a \o b)[Len(a) + i] = b[i]
         /\ \A i \in DOMAIN (a \o b) :
              \/ i \in DOMAIN a /\ (a \o b)[i] = a[i]
              \/ i - Len(a) \in DOMAIN b /\ (a \o b)[i] = b[i - Len(a)]
<1>1. /\ Len(a) \in Nat /\ DOMAIN a = 1 .. Len(a)
      /\ Len(b) \in Nat /\ DOMAIN b = 1 .. Len(b)
  OBVIOUS
<1>2. /\ a \o b \in Seq(Fibers)
      /\ Len(a \o b) = Len(a) + Len(b)
      /\ \A i \in 1 .. Len(a) + Len(b) :
           (a \o b)[i] = IF i <= Len(a) THEN a[i] ELSE b[i - Len(a)]
  BY ConcatProperties
<1>3. DOMAIN (a \o b) = 1 .. Len(a) + Len(b)
  BY <1>2, <1>1
<1>4. \A i \in 1 .. Len(a) : (a \o b)[i] = a[i]
  BY <1>1, <1>2
<1>5. \A i \in 1 .. Len(b) : (a \o b)[Len(a) + i] = b[i]
  BY <1>1, <1>2
<1> QED BY <1>1, <1>2, <1>3, <1>4, <1>5

\* The members of two lists that are joined.
LEMMA ConcatMembers ==
  ASSUME NEW a \in Seq(Fibers), NEW b \in Seq(Fibers)
  PROVE  Members(a \o b) = Members(a) \cup Members(b)
<1> DEFINE ab == a \o b
<1>1. /\ Len(a) \in Nat /\ DOMAIN a = 1 .. Len(a)
      /\ Len(b) \in Nat /\ DOMAIN b = 1 .. Len(b)
  OBVIOUS
<1>2. /\ DOMAIN ab = 1 .. Len(a) + Len(b)
      /\ \A i \in 1 .. Len(a) : ab[i] = a[i]
      /\ \A i \in 1 .. Len(b) : ab[Len(a) + i] = b[i]
      /\ \A i \in DOMAIN ab : \/ i \in DOMAIN a /\ ab[i] = a[i]
                              \/ i - Len(a) \in DOMAIN b /\ ab[i] = b[i - Len(a)]
  BY ConcatSeq
<1> HIDE DEF ab
<1>3. ASSUME NEW x \in Members(ab) PROVE x \in Members(a) \cup Members(b)
  BY <1>2 DEF Members
<1>4. ASSUME NEW x \in Members(a) PROVE x \in Members(ab)
  BY <1>1, <1>2 DEF Members
<1>5. ASSUME NEW x \in Members(b) PROVE x \in Members(ab)
  <2>1. PICK i \in 1 .. Len(b) : x = b[i]
    BY <1>1 DEF Members
  <2>2. Len(a) + i \in DOMAIN ab /\ ab[Len(a) + i] = x
    BY <2>1, <1>1, <1>2
  <2> QED BY <2>2 DEF Members
<1> QED BY <1>3, <1>4, <1>5 DEF ab

\* dfk_cond_broadcast: a wait queue is appended to the pending list.
LEMMA JoinLists ==
  ASSUME NEW L, ListsOK(L), NEW w \in WaitQueues
  PROVE  /\ ListsOK(WakeAll(L, w))
         /\ Members(WakeAll(L, w)["pending"]) = Members(L["pending"]) \cup Members(L[w])
         /\ Members(WakeAll(L, w)[w]) = {}
         /\ \A x \in Lists : x # w /\ x # "pending" => WakeAll(L, w)[x] = L[x]
<1> DEFINE P == WakeAll(L, w)
           a == L["pending"]
           b == L[w]
           ab == a \o b
<1>1. w \in Lists /\ "pending" \in Lists /\ w # "pending"
  BY SchedulerAssumption DEF Lists
<1>2. a \in Seq(Fibers) /\ b \in Seq(Fibers) /\ L \in [Lists -> Seq(Fibers)]
  BY <1>1 DEF ListsOK
<1>3. /\ Len(a) \in Nat /\ DOMAIN a = 1 .. Len(a)
      /\ Len(b) \in Nat /\ DOMAIN b = 1 .. Len(b)
  BY <1>2
<1>4. /\ ab \in Seq(Fibers)
      /\ DOMAIN ab = 1 .. Len(a) + Len(b)
      /\ \A i \in DOMAIN ab : \/ i \in DOMAIN a /\ ab[i] = a[i]
                              \/ i - Len(a) \in DOMAIN b /\ ab[i] = b[i - Len(a)]
      /\ Members(ab) = Members(a) \cup Members(b)
  BY <1>2, ConcatSeq, ConcatMembers
<1>12. P = [L EXCEPT !["pending"] = ab, ![w] = <<>>]
  BY DEF WakeAll
<1>13. ab \in Seq(Fibers) /\ <<>> \in Seq(Fibers)
  BY <1>4
<1> HIDE DEF ab, P
<1>5. /\ P \in [Lists -> Seq(Fibers)]
      /\ P["pending"] = ab /\ P[w] = <<>>
      /\ \A x \in Lists : x # w /\ x # "pending" => P[x] = L[x]
  BY <1>1, <1>2, <1>12, <1>13
<1>6. Members(P[w]) = {}
  BY <1>1, <1>5, EmptyMembers
<1>7. \A k, l \in Lists : \A m \in DOMAIN L[k], n \in DOMAIN L[l] :
        L[k][m] = L[l][n] => k = l /\ m = n
  BY DEF ListsOK, Exclusive
<1>8. \A i, j \in DOMAIN ab : ab[i] = ab[j] => i = j
  <2> SUFFICES ASSUME NEW i \in DOMAIN ab, NEW j \in DOMAIN ab, ab[i] = ab[j]
               PROVE  i = j
    OBVIOUS
  <2>1. \A m \in DOMAIN a, n \in DOMAIN b : a[m] # b[n]
    BY <1>1, <1>7
  <2>2. \A m, n \in DOMAIN a : a[m] = a[n] => m = n
    BY <1>1, <1>7
  <2>3. \A m, n \in DOMAIN b : b[m] = b[n] => m = n
    BY <1>1, <1>7
  <2> HIDE DEF a, b
  <2>4. CASE i - Len(a) \in DOMAIN b /\ ab[i] = b[i - Len(a)]
    <3>1. j - Len(a) \in DOMAIN b /\ ab[j] = b[j - Len(a)]
      BY <1>4, <2>1, <2>4
    <3>2. i - Len(a) = j - Len(a)
      BY <2>3, <2>4, <3>1
    <3> QED BY <3>2, <1>3, <1>4
  <2>5. CASE i \in DOMAIN a /\ ab[i] = a[i]
    <3>1. j \in DOMAIN a /\ ab[j] = a[j]
      BY <1>4, <2>1, <2>5
    <3> QED BY <2>2, <2>5, <3>1
  <2> QED BY <1>4, <2>4, <2>5
<1>9. ASSUME NEW i \in DOMAIN ab, NEW k \in Lists, k # "pending", k # w, NEW n \in DOMAIN L[k]
      PROVE  ab[i] # L[k][n]
  <2>1. CASE i \in DOMAIN a /\ ab[i] = a[i]
    BY <2>1, <1>1, <1>7, <1>9
  <2>2. CASE i - Len(a) \in DOMAIN b /\ ab[i] = b[i - Len(a)]
    BY <2>2, <1>1, <1>7, <1>9
  <2> QED BY <2>1, <2>2, <1>4
<1>10. DOMAIN P[w] = {}
  BY <1>5
<1>11. Exclusive(P)
  <2> SUFFICES ASSUME NEW k \in Lists, NEW l \in Lists,
                      NEW i \in DOMAIN P[k], NEW j \in DOMAIN P[l],
                      P[k][i] = P[l][j]
               PROVE  k = l /\ i = j
    BY DEF Exclusive
  <2>1. k # w /\ l # w
    BY <1>10
  <2>2. CASE k = "pending" /\ l = "pending"
    BY <2>2, <1>5, <1>8
  <2>3. CASE k = "pending" /\ l # "pending"
    <3>1. i \in DOMAIN ab /\ j \in DOMAIN L[l] /\ P[k][i] = ab[i] /\ P[l][j] = L[l][j]
      BY <2>1, <2>3, <1>5
    <3> QED BY <3>1, <2>1, <2>3, <1>9
  <2>4. CASE k # "pending" /\ l = "pending"
    <3>1. i \in DOMAIN L[k] /\ j \in DOMAIN ab /\ P[k][i] = L[k][i] /\ P[l][j] = ab[j]
      BY <2>1, <2>4, <1>5
    <3> QED BY <3>1, <2>1, <2>4, <1>9
  <2>5. CASE k # "pending" /\ l # "pending"
    <3>1. P[k] = L[k] /\ P[l] = L[l]
      BY <2>1, <2>5, <1>5
    <3> QED BY <3>1, <1>7
  <2> QED BY <2>2, <2>3, <2>4, <2>5
<1> QED
  BY <1>4, <1>5, <1>6, <1>11 DEF ListsOK, P, ab, a, b

(***************************************************************************)
(* Sequences.                                                              *)
(***************************************************************************)
\* Head and tail of a concatenation whose first part is not empty.
LEMMA HeadTailConcat ==
  ASSUME NEW S, NEW a \in Seq(S), NEW b \in Seq(S), a # <<>>
  PROVE  a \o b # <<>> /\ Head(a \o b) = Head(a) /\ Tail(a \o b) = Tail(a) \o b
<1>1. /\ a \o b \in Seq(S) /\ Len(a \o b) = Len(a) + Len(b)
      /\ \A i \in 1 .. Len(a) + Len(b) : (a \o b)[i] =
           IF i <= Len(a) THEN a[i] ELSE b[i - Len(a)]
  BY ConcatProperties
<1>2. Len(a) \in Nat \ {0} /\ Len(b) \in Nat
  BY EmptySeq, LenProperties
<1>3. a \o b # <<>>
  BY <1>1, <1>2
<1>4. Head(a \o b) = Head(a)
  BY <1>1, <1>2, <1>3
<1>5. /\ Tail(a) \in Seq(S) /\ Len(Tail(a)) = Len(a) - 1
      /\ \A i \in 1 .. Len(Tail(a)) : Tail(a)[i] = a[i + 1]
  BY HeadTailProperties
<1>6. /\ Tail(a) \o b \in Seq(S) /\ Len(Tail(a) \o b) = Len(a) - 1 + Len(b)
      /\ \A i \in 1 .. Len(a) - 1 + Len(b) : (Tail(a) \o b)[i] =
           IF i <= Len(a) - 1 THEN Tail(a)[i] ELSE b[i - (Len(a) - 1)]
  BY <1>5, ConcatProperties
<1>7. /\ Tail(a \o b) \in Seq(S) /\ Len(Tail(a \o b)) = Len(a \o b) - 1
      /\ \A i \in 1 .. Len(Tail(a \o b)) : Tail(a \o b)[i] = (a \o b)[i + 1]
  BY <1>1, <1>3, HeadTailProperties
<1>8. \A i \in 1 .. Len(a) - 1 + Len(b) : Tail(a \o b)[i] = (Tail(a) \o b)[i]
  BY <1>1, <1>2, <1>5, <1>6, <1>7
<1>9. Tail(a \o b) = Tail(a) \o b
  BY <1>1, <1>2, <1>6, <1>7, <1>8, SeqEqual
<1> QED BY <1>3, <1>4, <1>9

\* Concatenation of queues of fibers is associative.
LEMMA ConcatRun ==
  \A x, y, z \in Seq(Fibers) : (x \o y) \o z = x \o (y \o z)
BY ConcatAssociative, SMT

\* Appending to a queue with one more element at its front.
LEMMA ConsAppend ==
  ASSUME NEW S, NEW q \in Seq(S), NEW a \in S, NEW f \in S
  PROVE  /\ <<a>> \o q # <<>>
         /\ <<a>> \o Append(q, f) = Append(<<a>> \o q, f)
         /\ Head(<<a>> \o q) = a
         /\ Tail(<<a>> \o q) = q
<1>1. <<a>> \in Seq(S) /\ <<f>> \in Seq(S) /\ <<a>> # <<>> /\ Head(<<a>>) = a /\ Tail(<<a>>) = <<>>
  OBVIOUS
<1>2. Append(q, f) = q \o <<f>> /\ Append(<<a>> \o q, f) = (<<a>> \o q) \o <<f>>
  BY <1>1, AppendIsConcat, ConcatProperties
<1>3. <<a>> \o Append(q, f) = Append(<<a>> \o q, f)
  BY <1>1, <1>2, ConcatAssociative
<1>4. <<>> \o q = q
  BY ConcatEmptySeq
<1> QED BY <1>1, <1>3, <1>4, HeadTailConcat

\* The front of a queue put back before the rest, and what is behind a prefix.
LEMMA HeadCons ==
  ASSUME NEW S, NEW q \in Seq(S), q # <<>>
  PROVE  /\ <<Head(q)>> \o Tail(q) = q
         /\ SubSeq(q, 2, Len(q)) = Tail(q)
         /\ SubSeq(q, Len(q) + 1, Len(q)) = <<>>
         /\ 1 \in 1 .. Len(q) /\ Len(q) \in 1 .. Len(q)
<1>1. Len(q) \in Nat \ {0} /\ q[1] = Head(q)
  BY EmptySeq
<1>2. SubSeq(q, 2, Len(q)) = Tail(q)
  BY TailIsSubSeq
<1>3. SubSeq(q, 1, Len(q)) = <<q[1]>> \o SubSeq(q, 1 + 1, Len(q))
  BY <1>1, SubSeqRecursiveFirst
<1>4. SubSeq(q, 1, Len(q)) = q
  BY SubSeqFull
<1>5. SubSeq(q, Len(q) + 1, Len(q)) = <<>>
  BY <1>1, SubSeqEmpty
<1> QED BY <1>1, <1>2, <1>3, <1>4, <1>5

\* A queue is a prefix of what appending makes of it.
LEMMA PrefixOfConcat ==
  ASSUME NEW S, NEW q \in Seq(S), NEW s \in Seq(S)
  PROVE  Len(q) <= Len(q \o s) /\ SubSeq(q \o s, 1, Len(q)) = q
<1>1. Len(q) \in Nat /\ Len(s) \in Nat /\ Len(q \o s) = Len(q) + Len(s)
  BY LenProperties, ConcatProperties
<1>2. CASE q = <<>>
  BY <1>1, <1>2, SubSeqEmpty
<1>3. CASE q # <<>>
  <2>1. Len(q) \in 1 .. Len(q) /\ 1 \in 1 .. Len(q)
    BY <1>1, <1>3, EmptySeq
  <2> QED BY <1>1, <2>1, SubSeqOfConcat1, SubSeqFull
<1> QED BY <1>2, <1>3

(***************************************************************************)
(* The operations of the scheduler.                                        *)
(***************************************************************************)

\* No wait queue is one of the scheduler's lists.
LEMMA ListNames ==
  /\ "pending" \in Lists /\ "batch" \in Lists /\ "terminated" \in Lists
  /\ \A w \in WaitQueues : /\ w \in Lists /\ w # "pending"
                           /\ w # "batch" /\ w # "terminated"
BY SchedulerAssumption DEF Lists

\* The names of the system fibers are not addresses of user fibers.
LEMMA SystemNames ==
  "scheduler" \notin Fibers /\ "eventloop" \notin Fibers
BY SchedulerAssumption

\* NoLostFiber without the detour through IoWaiters.
LEMMA NoLost ==
  NoLostFiber <=> \A f \in alive : current = f \/ pc[f] = "io" \/ Queued(f)
BY DEF NoLostFiber, IoWaiters

\* What the lemmas below need of SchedInv.
LEMMA SchedFacts ==
  ASSUME SchedInv
  PROVE  /\ ListsOK(list)
         /\ list \in [Lists -> Seq(Fibers)]
         /\ \A f \in Fibers : current = f \/ f \notin alive => Unlinked(list, f)
         /\ alive \subseteq Fibers
         /\ current \in Fibers => current \in alive
         /\ phase = "work" => sys = SystemFibers
         /\ \A l \in Lists : \A f \in Members(list[l]) : f \in alive /\ f # current
         /\ \A f \in Fibers : f \notin alive => pc[f] = "user" /\ [pc EXCEPT ![f] = "user"] = pc
         /\ \A f \in alive : current = f \/ pc[f] = "io" \/ Queued(f)
<1> USE DEF SchedInv, SchedulerConsistent
<1>1. /\ ListsOK(list) /\ list \in [Lists -> Seq(Fibers)] /\ alive \subseteq Fibers
  BY DEF SchedTypeOK, HookExclusive, ListsOK
<1>2. /\ current \in Fibers => current \in alive
      /\ phase = "work" => sys = SystemFibers
      /\ \A l \in Lists : \A f \in Members(list[l]) : f \in alive /\ f # current
  BY SystemNames DEF NoDanglingFiber, SystemFibers
<1>3. \A f \in Fibers : current = f \/ f \notin alive => Unlinked(list, f)
  BY <1>2 DEF Unlinked
<1>4. \A f \in Fibers : f \notin alive => pc[f] = "user" /\ [pc EXCEPT ![f] = "user"] = pc
  BY DEF EndedInUserCode, SchedTypeOK
<1>5. \A f \in alive : current = f \/ pc[f] = "io" \/ Queued(f)
  BY NoLost
<1> QED BY <1>1, <1>2, <1>3, <1>4, <1>5

\* A step that changes neither the counter nor the waiters keeps them equal.
LEMMA IoFrame ==
  ASSUME SchedInv, iowait' = iowait, IoWaiters' = IoWaiters
  PROVE  IowaitExact'
BY DEF SchedInv, SchedulerConsistent, IowaitExact

\* The same fibers wait for I/O if for each of them the conditions are the same.
LEMMA IoSame ==
  ASSUME SchedInv,
         \A g \in Fibers :
           (g \in alive /\ pc[g] = "io" /\ current # g /\ ~ Queued(g)) <=>
           (g \in alive' /\ pc'[g] = "io" /\ current' # g /\ ~ Queued(g)'),
         alive' \subseteq Fibers
  PROVE  IoWaiters' = IoWaiters
BY SchedFacts DEF IoWaiters

\* Cardinality is meaningful: there are finitely many fibers.
LEMMA IoFinite ==
  ASSUME SchedInv
  PROVE  IsFiniteSet(IoWaiters)
<1>1. IoWaiters \subseteq Fibers /\ IsFiniteSet(Fibers)
  BY SchedFacts, SchedulerAssumption DEF IoWaiters
<1> QED BY <1>1, FS_Subset

\* dfk_context_init establishes the invariant.
LEMMA SchedInitInv == SchedInit => SchedInv
<1> SUFFICES ASSUME SchedInit PROVE SchedInv
  OBVIOUS
<1> USE DEF SchedInit
<1>1. SchedTypeOK
  BY DEF SchedTypeOK, SystemFibers
<1>2. \A l \in Lists : Members(list[l]) = {} /\ list[l] = <<>>
  BY DEF Members
<1>3. HookExclusive
  BY DEF HookExclusive, Exclusive
<1>4. NoDanglingFiber /\ SchedulerPoint /\ EndedInUserCode /\ NoLostFiber
  BY <1>2, ListNames, NoLost
     DEF NoDanglingFiber, SchedulerPoint, EndedInUserCode, SystemFibers
<1>5. IowaitExact
  <2>1. IoWaiters = {}
    BY DEF IoWaiters
  <2> QED BY <2>1, FS_EmptySet DEF IowaitExact
<1> QED BY <1>1, <1>3, <1>4, <1>5 DEF SchedInv, SchedulerConsistent
-----------------------------------------------------------------------------

\* dfk__postpone.
LEMMA PostponeInv ==
  ASSUME SchedInv, NEW f \in Fibers, Postpone(f)
  PROVE  SchedInv' /\ IoWaiters' = IoWaiters
<1> USE DEF Postpone, InUserCode, Running, Resumed, YieldToScheduler
<1>1. /\ ListsOK(list')
      /\ Members(list'["pending"]) = Members(list["pending"]) \cup {f}
      /\ \A k \in Lists : k # "pending" => list'[k] = list[k]
  <2>1. ListsOK(list) /\ Unlinked(list, f) /\ list' = Put(list, "pending", f)
    BY SchedFacts
  <2> QED BY <2>1, ListNames, PutLists
<1>2. SchedTypeOK'
  BY <1>1, SchedFacts DEF SchedInv, SchedTypeOK, ListsOK, SystemFibers
<1>3. HookExclusive'
  BY <1>1 DEF ListsOK, HookExclusive
<1>4. NoDanglingFiber'
  BY <1>1, SchedFacts, SystemNames, ListNames DEF NoDanglingFiber, SystemFibers
<1>5. SchedulerPoint' /\ EndedInUserCode'
  <2>1. SchedulerPoint'
    BY <1>1, ListNames, SystemNames DEF SchedInv, SchedulerPoint
  <2>2. EndedInUserCode'
    BY <1>1, SchedFacts, ListNames DEF SchedInv, EndedInUserCode
  <2> QED BY <2>1, <2>2
<1>6. NoLostFiber'
  <2>1. \A h \in alive' : current' = h \/ pc'[h] = "io" \/ Queued(h)'
    BY <1>1, SchedFacts, ListNames, SystemNames DEF Queued
  <2> QED BY <2>1 DEF NoLostFiber, IoWaiters
<1>7. IoWaiters' = IoWaiters
  BY <1>1, SchedFacts, ListNames, SystemNames, IoSame DEF Queued
<1>8. IowaitExact'
  BY <1>1, <1>7, IoFrame
<1> QED BY <1>2, <1>3, <1>4, <1>5, <1>6, <1>7, <1>8 DEF SchedInv, SchedulerConsistent

\* The entry point of a fiber returns.
LEMMA TerminateInv ==
  ASSUME SchedInv, NEW f \in Fibers, Terminate(f)
  PROVE  SchedInv' /\ IoWaiters' = IoWaiters
<1> USE DEF Terminate, InUserCode, Running, YieldToScheduler
<1>1. /\ ListsOK(list')
      /\ Members(list'["terminated"]) = Members(list["terminated"]) \cup {f}
      /\ \A k \in Lists : k # "terminated" => list'[k] = list[k]
  <2>1. ListsOK(list) /\ Unlinked(list, f) /\ list' = Put(list, "terminated", f)
    BY SchedFacts
  <2> QED BY <2>1, ListNames, PutLists
<1>2. SchedTypeOK'
  BY <1>1, SchedFacts DEF SchedInv, SchedTypeOK, ListsOK, SystemFibers
<1>3. HookExclusive'
  BY <1>1 DEF ListsOK, HookExclusive
<1>4. NoDanglingFiber'
  BY <1>1, SchedFacts, SystemNames, ListNames DEF NoDanglingFiber, SystemFibers
<1>5. SchedulerPoint' /\ EndedInUserCode'
  <2>1. SchedulerPoint'
    BY <1>1, ListNames, SystemNames DEF SchedInv, SchedulerPoint
  <2>2. EndedInUserCode'
    BY <1>1, SchedFacts, ListNames DEF SchedInv, EndedInUserCode
  <2> QED BY <2>1, <2>2
<1>6. NoLostFiber'
  <2>1. \A h \in alive' : current' = h \/ pc'[h] = "io" \/ Queued(h)'
    BY <1>1, SchedFacts, ListNames, SystemNames DEF Queued
  <2> QED BY <2>1 DEF NoLostFiber, IoWaiters
<1>7. IoWaiters' = IoWaiters
  BY <1>1, SchedFacts, ListNames, SystemNames, IoSame DEF Queued
<1>8. IowaitExact'
  BY <1>1, <1>7, IoFrame
<1> QED BY <1>2, <1>3, <1>4, <1>5, <1>6, <1>7, <1>8 DEF SchedInv, SchedulerConsistent

\* The return from dfk__iosuspend.
LEMMA IoReturnInv ==
  ASSUME SchedInv, NEW f \in Fibers, IoReturn(f)
  PROVE  SchedInv' /\ IoWaiters' = IoWaiters
<1> USE DEF IoReturn, Running
<1>1. ListsOK(list') /\ list' = list
  BY SchedFacts
<1>2. SchedTypeOK'
  BY <1>1, SchedFacts DEF SchedInv, SchedTypeOK, ListsOK, SystemFibers
<1>3. HookExclusive'
  BY <1>1 DEF ListsOK, HookExclusive
<1>4. NoDanglingFiber'
  BY <1>1, SchedFacts, SystemNames, ListNames DEF NoDanglingFiber, SystemFibers
<1>5. SchedulerPoint' /\ EndedInUserCode'
  <2>1. SchedulerPoint'
    BY <1>1, ListNames, SystemNames DEF SchedInv, SchedulerPoint
  <2>2. EndedInUserCode'
    BY <1>1, SchedFacts, ListNames DEF SchedInv, EndedInUserCode, SchedTypeOK
  <2> QED BY <2>1, <2>2
<1>6. NoLostFiber'
  <2>1. \A h \in alive' : current' = h \/ pc'[h] = "io" \/ Queued(h)'
    BY <1>1, SchedFacts, ListNames, SystemNames DEF Queued, SchedInv, SchedTypeOK
  <2> QED BY <2>1 DEF NoLostFiber, IoWaiters
<1>7. IoWaiters' = IoWaiters
  BY <1>1, SchedFacts, ListNames, SystemNames, IoSame DEF Queued, SchedInv, SchedTypeOK
<1>8. IowaitExact'
  BY <1>1, <1>7, IoFrame
<1> QED BY <1>2, <1>3, <1>4, <1>5, <1>6, <1>7, <1>8 DEF SchedInv, SchedulerConsistent

\* dfk__iosuspend.
LEMMA IoSuspendInv ==
  ASSUME SchedInv, NEW f \in Fibers, IoSuspend(f)
  PROVE  SchedInv' /\ (IoWaiters' = IoWaiters \cup {f} /\ f \notin IoWaiters)
<1> USE DEF IoSuspend, InUserCode, Running, YieldToScheduler
<1>1. ListsOK(list') /\ list' = list
  BY SchedFacts
<1>2. SchedTypeOK'
  BY <1>1, SchedFacts DEF SchedInv, SchedTypeOK, ListsOK, SystemFibers
<1>3. HookExclusive'
  BY <1>1 DEF ListsOK, HookExclusive
<1>4. NoDanglingFiber'
  BY <1>1, SchedFacts, SystemNames, ListNames DEF NoDanglingFiber, SystemFibers
<1>5. SchedulerPoint' /\ EndedInUserCode'
  <2>1. SchedulerPoint'
    BY <1>1, ListNames, SystemNames DEF SchedInv, SchedulerPoint
  <2>2. EndedInUserCode'
    BY <1>1, SchedFacts, ListNames DEF SchedInv, EndedInUserCode, SchedTypeOK
  <2> QED BY <2>1, <2>2
<1>6. NoLostFiber'
  <2>1. \A h \in alive' : current' = h \/ pc'[h] = "io" \/ Queued(h)'
    BY <1>1, SchedFacts, ListNames, SystemNames DEF Queued, SchedInv, SchedTypeOK
  <2> QED BY <2>1 DEF NoLostFiber, IoWaiters
<1>7. (IoWaiters' = IoWaiters \cup {f} /\ f \notin IoWaiters)
  <2>1. f \in IoWaiters' /\ f \notin IoWaiters
    BY <1>1, SchedFacts, ListNames, SystemNames DEF IoWaiters, Queued, Unlinked, SchedInv, SchedTypeOK
  <2> QED BY <1>1, <2>1, SchedFacts, SystemNames DEF IoWaiters, Queued, SchedInv, SchedTypeOK
<1>8. IowaitExact'
  BY <1>1, <1>7, IoFinite, FS_AddElement DEF SchedInv, SchedulerConsistent, IowaitExact
<1> QED BY <1>2, <1>3, <1>4, <1>5, <1>6, <1>7, <1>8 DEF SchedInv, SchedulerConsistent

\* dfk__ioresume, called by the event loop.
LEMMA IoResumeInv ==
  ASSUME SchedInv, NEW f \in Fibers, EventLoopResume(f)
  PROVE  SchedInv' /\ IoWaiters' = IoWaiters \ {f}
<1> USE DEF EventLoopResume, Running, Resumed
<1>1. /\ ListsOK(list')
      /\ Members(list'["pending"]) = Members(list["pending"]) \cup {f}
      /\ \A k \in Lists : k # "pending" => list'[k] = list[k]
  <2>1. ListsOK(list) /\ Unlinked(list, f) /\ list' = Put(list, "pending", f)
    BY SchedFacts DEF IoWaiters, Queued, Unlinked
  <2> QED BY <2>1, ListNames, PutLists
<1>2. SchedTypeOK'
  <2>1. iowait > 0
    <3>1. IsFiniteSet(IoWaiters) /\ IoWaiters # {}
      BY IoFinite
    <3> QED BY <3>1, FS_EmptySet, FS_CardinalityType DEF SchedInv, SchedulerConsistent, IowaitExact
  <2> QED BY <1>1, <2>1, SchedFacts DEF SchedInv, SchedTypeOK, ListsOK, SystemFibers
<1>3. HookExclusive'
  BY <1>1 DEF ListsOK, HookExclusive
<1>4. NoDanglingFiber'
  BY <1>1, SchedFacts, SystemNames, ListNames DEF NoDanglingFiber, SystemFibers, IoWaiters
<1>5. SchedulerPoint' /\ EndedInUserCode'
  <2>1. SchedulerPoint'
    BY <1>1, ListNames, SystemNames DEF SchedInv, SchedulerPoint
  <2>2. EndedInUserCode'
    BY <1>1, SchedFacts, ListNames DEF SchedInv, EndedInUserCode
  <2> QED BY <2>1, <2>2
<1>6. NoLostFiber'
  <2>1. \A h \in alive' : current' = h \/ pc'[h] = "io" \/ Queued(h)'
    BY <1>1, SchedFacts, ListNames, SystemNames DEF Queued
  <2> QED BY <2>1 DEF NoLostFiber, IoWaiters
<1>7. IoWaiters' = IoWaiters \ {f}
  <2>1. f \in IoWaiters /\ f \notin IoWaiters'
    BY <1>1, ListNames DEF IoWaiters, Queued
  <2> QED BY <1>1, <2>1, SchedFacts, ListNames DEF IoWaiters, Queued
<1>8. IowaitExact'
  BY <1>1, <1>7, IoFinite, FS_RemoveElement DEF SchedInv, SchedulerConsistent, IowaitExact
<1> QED BY <1>2, <1>3, <1>4, <1>5, <1>6, <1>7, <1>8 DEF SchedInv, SchedulerConsistent

\* The event loop's fiber gives up control.
LEMMA LoopYieldInv ==
  ASSUME SchedInv, Running("eventloop"), YieldToScheduler,
         UNCHANGED <<phase, result, works, at, list, iowait, alive, sys, pc>>
  PROVE  SchedInv' /\ IoWaiters' = IoWaiters
<1> USE DEF Running, YieldToScheduler
<1>1. ListsOK(list') /\ list' = list
  BY SchedFacts
<1>2. SchedTypeOK'
  BY <1>1, SchedFacts DEF SchedInv, SchedTypeOK, ListsOK, SystemFibers
<1>3. HookExclusive'
  BY <1>1 DEF ListsOK, HookExclusive
<1>4. NoDanglingFiber'
  BY <1>1, SchedFacts, SystemNames, ListNames DEF NoDanglingFiber, SystemFibers
<1>5. SchedulerPoint' /\ EndedInUserCode'
  <2>1. SchedulerPoint'
    BY <1>1, ListNames, SystemNames DEF SchedInv, SchedulerPoint
  <2>2. EndedInUserCode'
    BY <1>1, SchedFacts, ListNames DEF SchedInv, EndedInUserCode
  <2> QED BY <2>1, <2>2
<1>6. NoLostFiber'
  <2>1. \A h \in alive' : current' = h \/ pc'[h] = "io" \/ Queued(h)'
    BY <1>1, SchedFacts, ListNames, SystemNames DEF Queued
  <2> QED BY <2>1 DEF NoLostFiber, IoWaiters
<1>7. IoWaiters' = IoWaiters
  BY <1>1, SchedFacts, ListNames, SystemNames, IoSame DEF Queued
<1>8. IowaitExact'
  BY <1>1, <1>7, IoFrame
<1> QED BY <1>2, <1>3, <1>4, <1>5, <1>6, <1>7, <1>8 DEF SchedInv, SchedulerConsistent

\* The event loop suspends itself.
LEMMA EventLoopSuspendInv ==
  ASSUME SchedInv, EventLoopSuspend
  PROVE  SchedInv' /\ IoWaiters' = IoWaiters
BY LoopYieldInv DEF EventLoopSuspend

\* dfk_spawn.
LEMMA SpawnInv ==
  ASSUME SchedInv, NEW f \in Fibers, NEW g \in Fibers, Spawn(f, g)
  PROVE  SchedInv' /\ IoWaiters' = IoWaiters
<1> USE DEF Spawn, InUserCode, Running, Resumed
<1>1. /\ ListsOK(list')
      /\ Members(list'["pending"]) = Members(list["pending"]) \cup {g}
      /\ \A k \in Lists : k # "pending" => list'[k] = list[k]
      /\ pc' = pc
  <2>1. ListsOK(list) /\ Unlinked(list, g) /\ list' = Put(list, "pending", g)
    BY SchedFacts
  <2>2. pc' = pc
    BY SchedFacts
  <2> QED BY <2>1, <2>2, ListNames, PutLists
<1>2. SchedTypeOK'
  BY <1>1, SchedFacts DEF SchedInv, SchedTypeOK, ListsOK, SystemFibers
<1>3. HookExclusive'
  BY <1>1 DEF ListsOK, HookExclusive
<1>4. NoDanglingFiber'
  <2>1. ASSUME NEW l \in Lists PROVE Members(list'[l]) \subseteq alive' \ {current'}
    <3>1. Members(list[l]) \subseteq alive \ {current}
      BY SchedFacts
    <3> QED BY <1>1, <3>1, SchedFacts, SystemNames, ListNames DEF SystemFibers
  <2>2. current' \in alive' \cup SystemFibers /\ (phase' = "work" => sys' = SystemFibers)
    BY <1>1, SchedFacts, SystemNames, ListNames DEF SystemFibers
  <2> QED BY <2>1, <2>2 DEF NoDanglingFiber
<1>5. SchedulerPoint' /\ EndedInUserCode'
  <2>1. SchedulerPoint'
    BY <1>1, ListNames, SystemNames DEF SchedInv, SchedulerPoint
  <2>2. EndedInUserCode'
    BY <1>1, SchedFacts, ListNames DEF SchedInv, EndedInUserCode
  <2> QED BY <2>1, <2>2
<1>6. NoLostFiber'
  <2>1. \A h \in alive' : current' = h \/ pc'[h] = "io" \/ Queued(h)'
    BY <1>1, SchedFacts, ListNames, SystemNames DEF Queued
  <2> QED BY <2>1 DEF NoLostFiber, IoWaiters
<1>7. IoWaiters' = IoWaiters
  BY <1>1, SchedFacts, ListNames, SystemNames, IoSame DEF Queued
<1>8. IowaitExact'
  BY <1>1, <1>7, IoFrame
<1> QED BY <1>2, <1>3, <1>4, <1>5, <1>6, <1>7, <1>8 DEF SchedInv, SchedulerConsistent

\* dfk_work creates the main fiber.
LEMMA DfkWorkInv ==
  ASSUME SchedInv, NEW f \in Fibers, DfkWork(f)
  PROVE  SchedInv' /\ IoWaiters' = IoWaiters
<1> USE DEF DfkWork, Resumed
<1>1. /\ ListsOK(list')
      /\ Members(list'["pending"]) = Members(list["pending"]) \cup {f}
      /\ \A k \in Lists : k # "pending" => list'[k] = list[k]
      /\ pc' = pc
      /\ iowait' = iowait /\ current = "scheduler"
  <2>1. ListsOK(list) /\ Unlinked(list, f) /\ list' = Put(list, "pending", f)
    <3>1. list = [list EXCEPT !["pending"] = <<>>, !["terminated"] = <<>>]
      BY SchedFacts, ListNames DEF SchedInv, SchedulerPoint
    <3> QED BY <3>1, SchedFacts
  <2>2. pc' = pc
    BY SchedFacts
  <2>3. iowait' = iowait /\ current = "scheduler"
    BY DEF SchedInv, SchedulerPoint
  <2>4. /\ ListsOK(Put(list, "pending", f))
        /\ Members(Put(list, "pending", f)["pending"]) = Members(list["pending"]) \cup {f}
        /\ \A k \in Lists : k # "pending" => Put(list, "pending", f)[k] = list[k]
    BY <2>1, ListNames, PutLists
  <2> QED BY <2>1, <2>2, <2>3, <2>4
<1>2. SchedTypeOK'
  <2>1. works' \in Nat /\ alive' \subseteq Fibers /\ sys' \subseteq SystemFibers
    BY SchedFacts DEF SchedInv, SchedTypeOK
  <2> QED BY <1>1, <2>1 DEF SchedInv, SchedTypeOK, ListsOK, SystemFibers
<1>3. HookExclusive'
  BY <1>1 DEF ListsOK, HookExclusive
<1>4. NoDanglingFiber'
  <2>1. ASSUME NEW l \in Lists, NEW g \in Members(list'[l])
        PROVE  g \in alive' /\ g # current'
    <3>1. CASE l = "pending"
      BY ZenonT(60), <3>1, <1>1, SchedFacts, SystemNames, ListNames
    <3>2. CASE l # "pending"
      BY <3>2, <1>1, SchedFacts, SystemNames
    <3> QED BY <3>1, <3>2
  <2> QED BY <2>1 DEF NoDanglingFiber, SystemFibers
<1>5. SchedulerPoint' /\ EndedInUserCode'
  <2>1. SchedulerPoint'
    BY <1>1, ListNames, SystemNames DEF SchedInv, SchedulerPoint
  <2>2. EndedInUserCode'
    BY <1>1, SchedFacts, ListNames DEF SchedInv, EndedInUserCode
  <2> QED BY <2>1, <2>2
<1>6. NoLostFiber'
  <2>1. \A h \in alive' : current' = h \/ pc'[h] = "io" \/ Queued(h)'
    BY <1>1, SchedFacts, ListNames, SystemNames DEF Queued
  <2> QED BY <2>1 DEF NoLostFiber, IoWaiters
<1>7. IoWaiters' = IoWaiters
  BY <1>1, SchedFacts, ListNames, SystemNames, IoSame DEF Queued
<1>8. IowaitExact'
  BY <1>1, <1>7, IoFrame
<1> QED BY <1>2, <1>3, <1>4, <1>5, <1>6, <1>7, <1>8 DEF SchedInv, SchedulerConsistent

\* dfk_work fails.
LEMMA DfkWorkFailInv ==
  ASSUME SchedInv, DfkWorkNoMem \/ DfkWorkNoEventLoop
  PROVE  SchedInv' /\ IoWaiters' = IoWaiters
<1> USE DEF Running
<1>1. /\ ListsOK(list') /\ list' = list
      /\ UNCHANGED <<phase, at, current, iowait, alive, sys, pc>>
      /\ works' = works + 1 /\ result' \in {"ok", "nomem"}
  BY SchedFacts DEF DfkWorkNoMem, DfkWorkNoEventLoop
<1>2. SchedTypeOK'
  BY <1>1, SchedFacts DEF SchedInv, SchedTypeOK, ListsOK, SystemFibers
<1>3. HookExclusive'
  BY <1>1 DEF ListsOK, HookExclusive
<1>4. NoDanglingFiber'
  BY <1>1 DEF SchedInv, SchedulerConsistent, NoDanglingFiber
<1>5. SchedulerPoint' /\ EndedInUserCode'
  <2>1. SchedulerPoint'
    BY <1>1, ListNames, SystemNames DEF SchedInv, SchedulerPoint
  <2>2. EndedInUserCode'
    BY <1>1, SchedFacts, ListNames DEF SchedInv, EndedInUserCode
  <2> QED BY <2>1, <2>2
<1>6. NoLostFiber'
  <2>1. \A h \in alive' : current' = h \/ pc'[h] = "io" \/ Queued(h)'
    BY <1>1, SchedFacts, ListNames, SystemNames DEF Queued
  <2> QED BY <2>1 DEF NoLostFiber, IoWaiters
<1>7. IoWaiters' = IoWaiters
  BY <1>1 DEF IoWaiters, Queued
<1>8. IowaitExact'
  BY <1>1, <1>7, IoFrame
<1> QED BY <1>2, <1>3, <1>4, <1>5, <1>6, <1>7, <1>8 DEF SchedInv, SchedulerConsistent

\* The work cycle ends.
LEMMA SchedulerExitInv ==
  ASSUME SchedInv, SchedulerExit
  PROVE  SchedInv' /\ IoWaiters' = IoWaiters
<1> USE DEF SchedulerExit, SchedulerAt, Idle
<1>1. ListsOK(list') /\ list' = list
  BY SchedFacts
<1>2. SchedTypeOK'
  BY <1>1, SchedFacts DEF SchedInv, SchedTypeOK, ListsOK, SystemFibers
<1>3. HookExclusive'
  BY <1>1 DEF ListsOK, HookExclusive
<1>4. NoDanglingFiber'
  BY <1>1, SchedFacts, SystemNames, ListNames DEF NoDanglingFiber, SystemFibers
<1>5. SchedulerPoint' /\ EndedInUserCode'
  <2>1. SchedulerPoint'
    BY <1>1, ListNames, SystemNames DEF SchedInv, SchedulerPoint
  <2>2. EndedInUserCode'
    BY <1>1, SchedFacts, ListNames DEF SchedInv, EndedInUserCode
  <2> QED BY <2>1, <2>2
<1>6. NoLostFiber'
  <2>1. \A h \in alive' : current' = h \/ pc'[h] = "io" \/ Queued(h)'
    BY <1>1, SchedFacts, ListNames, SystemNames DEF Queued
  <2> QED BY <2>1 DEF NoLostFiber, IoWaiters
<1>7. IoWaiters' = IoWaiters
  BY <1>1, SchedFacts, ListNames, SystemNames, IoSame DEF Queued
<1>8. IowaitExact'
  BY <1>1, <1>7, IoFrame
<1> QED BY <1>2, <1>3, <1>4, <1>5, <1>6, <1>7, <1>8 DEF SchedInv, SchedulerConsistent

\* The local list is exhausted.
LEMMA SchedulerBatchDoneInv ==
  ASSUME SchedInv, SchedulerBatchDone
  PROVE  SchedInv' /\ IoWaiters' = IoWaiters
<1> USE DEF SchedulerBatchDone, SchedulerAt
<1>1. ListsOK(list') /\ list' = list
  BY SchedFacts
<1>2. SchedTypeOK'
  BY <1>1, SchedFacts DEF SchedInv, SchedTypeOK, ListsOK, SystemFibers
<1>3. HookExclusive'
  BY <1>1 DEF ListsOK, HookExclusive
<1>4. NoDanglingFiber'
  BY <1>1, SchedFacts, SystemNames, ListNames DEF NoDanglingFiber, SystemFibers
<1>5. SchedulerPoint' /\ EndedInUserCode'
  <2>1. SchedulerPoint'
    BY <1>1, ListNames, SystemNames DEF SchedInv, SchedulerPoint
  <2>2. EndedInUserCode'
    BY <1>1, SchedFacts, ListNames DEF SchedInv, EndedInUserCode
  <2> QED BY <2>1, <2>2
<1>6. NoLostFiber'
  <2>1. \A h \in alive' : current' = h \/ pc'[h] = "io" \/ Queued(h)'
    BY <1>1, SchedFacts, ListNames, SystemNames DEF Queued
  <2> QED BY <2>1 DEF NoLostFiber, IoWaiters
<1>7. IoWaiters' = IoWaiters
  BY <1>1, SchedFacts, ListNames, SystemNames, IoSame DEF Queued
<1>8. IowaitExact'
  BY <1>1, <1>7, IoFrame
<1> QED BY <1>2, <1>3, <1>4, <1>5, <1>6, <1>7, <1>8 DEF SchedInv, SchedulerConsistent

\* The scheduler switches to the next fiber.
LEMMA SchedulerDispatchInv ==
  ASSUME SchedInv, SchedulerDispatch
  PROVE  SchedInv' /\ IoWaiters' = IoWaiters
<1> USE DEF SchedulerDispatch, SchedulerAt
<1>1. /\ ListsOK(list')
      /\ Head(list["batch"]) \in Fibers /\ Head(list["batch"]) \in Members(list["batch"])
      /\ Members(list'["batch"]) = Members(list["batch"]) \ {Head(list["batch"])}
      /\ \A k \in Lists : k # "batch" => list'[k] = list[k]
      /\ Unlinked(list', Head(list["batch"]))
  <2>1. ListsOK(list) /\ "batch" \in Lists /\ list["batch"] # <<>>
    BY SchedFacts, ListNames
  <2>2. list' = PopFront(list, "batch")
    OBVIOUS
  <2> QED BY <2>1, <2>2, PopLists
<1>2. SchedTypeOK'
  BY <1>1, SchedFacts DEF SchedInv, SchedTypeOK, ListsOK, SystemFibers
<1>3. HookExclusive'
  BY <1>1 DEF ListsOK, HookExclusive
<1>4. NoDanglingFiber'
  <2>1. ASSUME NEW l \in Lists PROVE Members(list'[l]) \subseteq alive' \ {current'}
    <3>1. Members(list[l]) \subseteq alive \ {current}
      BY SchedFacts
    <3> QED BY <1>1, <3>1, SchedFacts, SystemNames, ListNames DEF SystemFibers, Unlinked
  <2>2. current' \in alive' \cup SystemFibers /\ (phase' = "work" => sys' = SystemFibers)
    BY <1>1, SchedFacts, SystemNames, ListNames DEF SystemFibers
  <2> QED BY <2>1, <2>2 DEF NoDanglingFiber
<1>5. SchedulerPoint' /\ EndedInUserCode'
  <2>1. SchedulerPoint'
    BY <1>1, ListNames, SystemNames DEF SchedInv, SchedulerPoint
  <2>2. EndedInUserCode'
    BY <1>1, SchedFacts, ListNames DEF SchedInv, EndedInUserCode
  <2> QED BY <2>1, <2>2
<1>6. NoLostFiber'
  <2>1. \A h \in alive' : current' = h \/ pc'[h] = "io" \/ Queued(h)'
    BY <1>1, SchedFacts, ListNames, SystemNames DEF Queued
  <2> QED BY <2>1 DEF NoLostFiber, IoWaiters
<1>7. IoWaiters' = IoWaiters
  <2> DEFINE h == Head(list["batch"])
  <2>1. \A g \in Fibers : g # h => (Queued(g)' <=> Queued(g))
    BY <1>1, ListNames DEF Queued
  <2>2. Queued(h) /\ current' = h /\ h \in Fibers
    BY <1>1, ListNames DEF Queued
  <2>3. current \notin Fibers
    BY SystemNames
  <2> HIDE DEF h
  <2> QED BY <2>1, <2>2, <2>3, SchedFacts, IoSame
<1>8. IowaitExact'
  BY <1>1, <1>7, IoFrame
<1> QED BY <1>2, <1>3, <1>4, <1>5, <1>6, <1>7, <1>8 DEF SchedInv, SchedulerConsistent

\* The scheduler frees terminated fibers and moves the pending list.
LEMMA SchedulerCollectInv ==
  ASSUME SchedInv, SchedulerCollect
  PROVE  SchedInv' /\ IoWaiters' = IoWaiters
<1> USE DEF SchedulerCollect, SchedulerAt
<1>1. /\ ListsOK(list')
      /\ list'["batch"] = list["pending"]
      /\ list'["pending"] = <<>> /\ Members(list'["pending"]) = {}
      /\ list'["terminated"] = <<>> /\ Members(list'["terminated"]) = {}
      /\ list["batch"] = <<>> /\ Members(list["batch"]) = {}
      /\ \A w \in WaitQueues : list'[w] = list[w]
      /\ \A k \in Lists : k \in WaitQueues \cup {"pending", "batch", "terminated"}
  <2>1. list \in [Lists -> Seq(Fibers)] /\ ListsOK(list) /\ <<>> \in Seq(Fibers)
    BY SchedFacts
  <2>2. list["batch"] = <<>>
    BY DEF SchedInv, SchedulerPoint
  <2>3. list["pending"] \in Seq(Fibers)
    BY <2>1, ListNames
  <2>4. /\ list' \in [Lists -> Seq(Fibers)]
        /\ list'["batch"] = list["pending"]
        /\ list'["pending"] = <<>> /\ list'["terminated"] = <<>>
        /\ \A w \in WaitQueues : list'[w] = list[w]
    BY <2>1, <2>3, ListNames
  <2>5. ListsOK(list')
    BY <2>1, <2>4, CollectLists
  <2>6. \A k \in Lists : k \in WaitQueues \cup {"pending", "batch", "terminated"}
    BY DEF Lists
  <2>7. Members(<<>>) = {}
    BY DEF Members
  <2> QED BY <2>2, <2>4, <2>5, <2>6, <2>7
<1>2. SchedTypeOK'
  BY <1>1, SchedFacts DEF SchedInv, SchedTypeOK, ListsOK, SystemFibers
<1>3. HookExclusive'
  BY <1>1 DEF ListsOK, HookExclusive
<1>4. NoDanglingFiber'
  <2>1. ASSUME NEW l \in Lists, NEW g \in Members(list'[l])
        PROVE  g \in alive' /\ g # current'
    <3>1. \E k \in Lists : k # "terminated" /\ g \in Members(list[k])
      BY <1>1, ListNames
    <3> QED BY <3>1, SchedFacts, ListNames, MemberOfOne
  <2> QED BY <2>1, SchedFacts DEF NoDanglingFiber, SystemFibers
<1>5. SchedulerPoint' /\ EndedInUserCode'
  <2>1. SchedulerPoint'
    BY <1>1, ListNames, SystemNames DEF SchedInv, SchedulerPoint
  <2>2. EndedInUserCode'
    BY <1>1, SchedFacts, ListNames DEF SchedInv, EndedInUserCode
  <2> QED BY <2>1, <2>2
<1>6. NoLostFiber'
  <2>1. \A h \in alive' : current' = h \/ pc'[h] = "io" \/ Queued(h)'
    <3> SUFFICES ASSUME NEW h \in alive', pc'[h] # "io" PROVE Queued(h)'
      OBVIOUS
    <3>1. h \in alive /\ h \notin Members(list["terminated"]) /\ pc' = pc /\ current \notin Fibers
      BY SchedFacts, SystemNames
    <3>2. PICK k \in Lists : h \in Members(list[k])
      BY <3>1, SchedFacts DEF Queued
    <3>3. CASE k = "pending"
      BY <1>1, <3>2, <3>3, ListNames DEF Queued
    <3>4. CASE k \in WaitQueues
      BY <1>1, <3>2, <3>4, ListNames DEF Queued
    <3> QED BY <1>1, <3>1, <3>2, <3>3, <3>4
  <2> QED BY <2>1 DEF NoLostFiber, IoWaiters
<1>7. IoWaiters' = IoWaiters
  <2>1. \A g \in Fibers : Queued(g) <=> Queued(g)' \/ g \in Members(list["terminated"])
    BY <1>1, ListNames DEF Queued
  <2>2. \A g \in Members(list["terminated"]) : pc[g] # "io"
    BY SchedFacts, ListNames DEF SchedInv, EndedInUserCode
  <2> QED BY <2>1, <2>2, SchedFacts, IoSame
<1>8. IowaitExact'
  BY <1>1, <1>7, IoFrame
<1> QED BY <1>2, <1>3, <1>4, <1>5, <1>6, <1>7, <1>8 DEF SchedInv, SchedulerConsistent

\* A fiber appends itself to a wait queue and suspends itself.
LEMMA ParkInv ==
  ASSUME SchedInv, NEW f \in Fibers, NEW w \in WaitQueues, Park(f, w)
  PROVE  SchedInv' /\ IoWaiters' = IoWaiters
<1> USE DEF Park, InUserCode, Running, YieldToScheduler
<1>1. /\ ListsOK(list')
      /\ Members(list'[w]) = Members(list[w]) \cup {f}
      /\ \A k \in Lists : k # w => list'[k] = list[k]
  <2>1. ListsOK(list) /\ Unlinked(list, f) /\ list' = Put(list, w, f) /\ w \in Lists
    BY SchedFacts, ListNames
  <2> QED BY <2>1, PutLists
<1>2. SchedTypeOK'
  BY <1>1, SchedFacts DEF SchedInv, SchedTypeOK, ListsOK, SystemFibers
<1>3. HookExclusive'
  BY <1>1 DEF ListsOK, HookExclusive
<1>4. NoDanglingFiber'
  BY ZenonT(60), <1>1, SchedFacts, SystemNames, ListNames DEF NoDanglingFiber, SystemFibers
<1>5. SchedulerPoint' /\ EndedInUserCode'
  <2>1. SchedulerPoint'
    BY <1>1, ListNames, SystemNames DEF SchedInv, SchedulerPoint
  <2>2. EndedInUserCode'
    BY <1>1, SchedFacts, ListNames DEF SchedInv, EndedInUserCode, SchedTypeOK
  <2> QED BY <2>1, <2>2
<1>6. NoLostFiber'
  <2>1. \A g \in Fibers : g # f => (Queued(g)' <=> Queued(g)) /\ pc'[g] = pc[g]
    BY <1>1, ListNames DEF Queued, SchedInv, SchedTypeOK
  <2>2. Queued(f)'
    BY <1>1, ListNames DEF Queued
  <2>3. \A g \in alive' : current' = g \/ pc'[g] = "io" \/ Queued(g)'
    BY <2>1, <2>2, SchedFacts
  <2> QED BY <2>3 DEF NoLostFiber, IoWaiters
<1>7. IoWaiters' = IoWaiters
  BY <1>1, SchedFacts, ListNames, SystemNames, IoSame DEF Queued, SchedInv, SchedTypeOK
<1>8. IowaitExact'
  BY <1>1, <1>7, IoFrame
<1> QED BY <1>2, <1>3, <1>4, <1>5, <1>6, <1>7, <1>8 DEF SchedInv, SchedulerConsistent

\* dfk__resume of the front of a wait queue.
LEMMA UnparkInv ==
  ASSUME SchedInv, NEW f \in Fibers, NEW w \in WaitQueues, Unpark(f, w)
  PROVE  SchedInv' /\ IoWaiters' = IoWaiters
<1> USE DEF Unpark, InUserCode, Running
<1>1. /\ ListsOK(list')
      /\ Head(list[w]) \in Fibers /\ Head(list[w]) \in Members(list[w])
      /\ Members(list'[w]) = Members(list[w]) \ {Head(list[w])}
      /\ Members(list'["pending"]) = Members(list["pending"]) \cup {Head(list[w])}
      /\ \A k \in Lists : k # w /\ k # "pending" => list'[k] = list[k]
  <2>1. ListsOK(list) /\ list[w] # <<>> /\ list' = WakeFront(list, w)
    BY SchedFacts
  <2> QED BY <2>1, WakeLists
<1>2. SchedTypeOK'
  BY <1>1, SchedFacts DEF SchedInv, SchedTypeOK, ListsOK, SystemFibers
<1>3. HookExclusive'
  BY <1>1 DEF ListsOK, HookExclusive
<1>4. NoDanglingFiber'
  <2>1. ASSUME NEW l \in Lists PROVE Members(list'[l]) \subseteq alive' \ {current'}
    <3>1. Members(list[l]) \subseteq alive \ {current}
      BY SchedFacts
    <3>2. UNCHANGED <<alive, current>> /\ Head(list[w]) \in alive \ {current}
      BY <1>1, SchedFacts, ListNames
    <3>3. CASE l = w
      BY <1>1, <3>1, <3>2, <3>3
    <3>4. CASE l = "pending"
      BY <1>1, <3>1, <3>2, <3>4
    <3>5. CASE l # w /\ l # "pending"
      BY <1>1, <3>1, <3>2, <3>5
    <3> QED BY <3>3, <3>4, <3>5
  <2>2. current' \in alive' \cup SystemFibers /\ (phase' = "work" => sys' = SystemFibers)
    BY <1>1, SchedFacts, SystemNames, ListNames DEF SystemFibers
  <2> QED BY <2>1, <2>2 DEF NoDanglingFiber
<1>5. SchedulerPoint' /\ EndedInUserCode'
  <2>1. SchedulerPoint'
    BY <1>1, ListNames, SystemNames DEF SchedInv, SchedulerPoint
  <2>2. EndedInUserCode'
    BY <1>1, SchedFacts, ListNames DEF SchedInv, EndedInUserCode
  <2> QED BY <2>1, <2>2
<1>6. NoLostFiber'
  <2>1. \A g \in Fibers : Queued(g)' <=> Queued(g)
    BY <1>1, ListNames DEF Queued
  <2>2. \A g \in alive' : current' = g \/ pc'[g] = "io" \/ Queued(g)'
    BY <2>1, SchedFacts
  <2> QED BY <2>2 DEF NoLostFiber, IoWaiters
<1>7. IoWaiters' = IoWaiters
  <2>1. \A g \in Fibers : Queued(g)' <=> Queued(g)
    BY <1>1, ListNames DEF Queued
  <2> QED BY <2>1, SchedFacts, IoSame
<1>8. IowaitExact'
  BY <1>1, <1>7, IoFrame
<1> QED BY <1>2, <1>3, <1>4, <1>5, <1>6, <1>7, <1>8 DEF SchedInv, SchedulerConsistent

\* The return from dfk__suspend.
LEMMA ParkReturnInv ==
  ASSUME SchedInv, NEW f \in Fibers, ParkReturn(f)
  PROVE  SchedInv' /\ IoWaiters' = IoWaiters
<1> USE DEF ParkReturn, Running
<1>1. ListsOK(list') /\ list' = list
  BY SchedFacts
<1>2. SchedTypeOK'
  BY <1>1, SchedFacts DEF SchedInv, SchedTypeOK, ListsOK, SystemFibers
<1>3. HookExclusive'
  BY <1>1 DEF ListsOK, HookExclusive
<1>4. NoDanglingFiber'
  BY <1>1, SchedFacts, SystemNames, ListNames DEF NoDanglingFiber, SystemFibers
<1>5. SchedulerPoint' /\ EndedInUserCode'
  <2>1. SchedulerPoint'
    BY <1>1, ListNames, SystemNames DEF SchedInv, SchedulerPoint
  <2>2. EndedInUserCode'
    BY <1>1, SchedFacts, ListNames DEF SchedInv, EndedInUserCode, SchedTypeOK
  <2> QED BY <2>1, <2>2
<1>6. NoLostFiber'
  <2>1. \A h \in alive' : current' = h \/ pc'[h] = "io" \/ Queued(h)'
    BY <1>1, SchedFacts, ListNames, SystemNames DEF Queued, SchedInv, SchedTypeOK
  <2> QED BY <2>1 DEF NoLostFiber, IoWaiters
<1>7. IoWaiters' = IoWaiters
  BY <1>1, SchedFacts, ListNames, SystemNames, IoSame DEF Queued, SchedInv, SchedTypeOK
<1>8. IowaitExact'
  BY <1>1, <1>7, IoFrame
<1> QED BY <1>2, <1>3, <1>4, <1>5, <1>6, <1>7, <1>8 DEF SchedInv, SchedulerConsistent

-----------------------------------------------------------------------------
\* A step that leaves the scheduler's variables alone.
LEMMA SchedStutter ==
  ASSUME SchedInv, UNCHANGED schedVars
  PROVE  SchedInv' /\ IoWaiters' = IoWaiters
<1> USE DEF schedVars
<1>1. IoWaiters' = IoWaiters
  BY DEF IoWaiters, Queued
<1>2. SchedTypeOK' /\ SchedulerPoint' /\ EndedInUserCode'
  BY DEF SchedInv, SchedTypeOK, SchedulerPoint, EndedInUserCode
<1>3. HookExclusive' /\ NoDanglingFiber' /\ IowaitExact'
  BY <1>1 DEF SchedInv, SchedulerConsistent, HookExclusive, Exclusive, NoDanglingFiber, IowaitExact
<1>4. NoLostFiber'
  BY <1>1 DEF SchedInv, SchedulerConsistent, NoLostFiber, Queued
<1> QED BY <1>1, <1>2, <1>3, <1>4 DEF SchedInv, SchedulerConsistent

\* Whatever is called through the scheduler's interface preserves the invariant.
THEOREM SchedNextInv == SchedInv /\ [SchedNext]_schedVars => SchedInv'
<1> SUFFICES ASSUME SchedInv, [SchedNext]_schedVars PROVE SchedInv'
  OBVIOUS
<1>1. CASE UNCHANGED schedVars
  BY <1>1, SchedStutter
<1>2. CASE WorkStep
  BY <1>2, DfkWorkInv, DfkWorkFailInv DEF WorkStep
<1>3. CASE SchedulerStep
  BY <1>3, SchedulerExitInv, SchedulerCollectInv, SchedulerDispatchInv, SchedulerBatchDoneInv
     DEF SchedulerStep
<1>4. CASE EventLoopStep
  BY <1>4, IoResumeInv, EventLoopSuspendInv DEF EventLoopStep
<1>5. ASSUME NEW f \in Fibers,
             FiberStep(f) \/ Terminate(f) \/ ParkReturn(f)
             \/ \E w \in WaitQueues : Park(f, w) \/ Unpark(f, w)
      PROVE  SchedInv'
  BY <1>5, SpawnInv, PostponeInv, IoSuspendInv, IoReturnInv, TerminateInv, ParkReturnInv,
     ParkInv, UnparkInv DEF FiberStep
<1> QED BY <1>1, <1>2, <1>3, <1>4, <1>5 DEF SchedNext

\* The invariant makes dfk_work return only when nothing can run any more.
LEMMA SchedExit == SchedInv => ExitQuiescent
<1> SUFFICES ASSUME SchedInv, phase = "idle"
             PROVE  sys = {} /\ alive = UNION {Members(list[w]) : w \in WaitQueues}
  BY DEF ExitQuiescent
<1>1. /\ sys = {} /\ current = "scheduler" /\ iowait = 0
      /\ list["batch"] = <<>> /\ list["pending"] = <<>> /\ list["terminated"] = <<>>
  BY DEF SchedInv, SchedulerPoint
<1>2. IoWaiters = {}
  BY <1>1, IoFinite, FS_EmptySet DEF SchedInv, SchedulerConsistent, IowaitExact
<1>3. Members(<<>>) = {}
  BY DEF Members
<1>4. ASSUME NEW f \in alive PROVE \E w \in WaitQueues : f \in Members(list[w])
  <2>1. Queued(f)
    BY <1>1, <1>2, SchedFacts, SystemNames DEF SchedInv, SchedulerConsistent, NoLostFiber
  <2> QED BY <1>1, <1>3, <2>1 DEF Queued, Lists
<1>5. \A w \in WaitQueues : Members(list[w]) \subseteq alive
  BY SchedFacts, ListNames
<1> QED BY <1>1, <1>4, <1>5

-----------------------------------------------------------------------------
(***************************************************************************)
(* The order in which fibers run.                                          *)
(***************************************************************************)
\* A step that only appends to the pending list.
LEMMA RunAppends ==
  ASSUME SchedInv, NEW s \in Seq(Fibers),
         list'["batch"] = list["batch"], list'["pending"] = list["pending"] \o s
  PROVE  RunsInOrder
<1>1. list["batch"] \in Seq(Fibers) /\ list["pending"] \in Seq(Fibers)
  BY SchedFacts, ListNames
<1>2. RunQueue \in Seq(Fibers)
  BY <1>1, ConcatProperties DEF RunQueue
<1>4. RunQueue' = RunQueue \o s
  <2>1. RunQueue' = list["batch"] \o (list["pending"] \o s)
    BY DEF RunQueue
  <2>2. (list["batch"] \o list["pending"]) \o s = list["batch"] \o (list["pending"] \o s)
    BY <1>1, ConcatRun, Zenon
  <2> QED BY <2>1, <2>2 DEF RunQueue
<1>5. Len(RunQueue) <= Len(RunQueue \o s) /\ SubSeq(RunQueue \o s, 1, Len(RunQueue)) = RunQueue
  BY <1>2, PrefixOfConcat
<1> QED BY <1>4, <1>5 DEF RunsInOrder

\* A step that leaves the run queue alone.
LEMMA RunSame ==
  ASSUME SchedInv, RunQueue' = RunQueue
  PROVE  RunsInOrder
<1>1. list["batch"] \in Seq(Fibers) /\ list["pending"] \in Seq(Fibers)
  BY SchedFacts, ListNames
<1>2. RunQueue \in Seq(Fibers)
  BY <1>1, ConcatProperties DEF RunQueue
<1>3. RunQueue \o <<>> = RunQueue /\ <<>> \in Seq(Fibers)
  BY <1>2, ConcatEmptySeq, EmptySeq
<1>4. Len(RunQueue) <= Len(RunQueue \o <<>>) /\ SubSeq(RunQueue \o <<>>, 1, Len(RunQueue)) = RunQueue
  BY <1>2, <1>3, PrefixOfConcat
<1> QED BY <1>3, <1>4 DEF RunsInOrder

\* dfk__resume.
LEMMA ResumeAppends ==
  ASSUME SchedInv, NEW f \in Fibers, list' = Resumed(list, f)
  PROVE  RunsInOrder
<1>1. list \in [Lists -> Seq(Fibers)] /\ list["pending"] \in Seq(Fibers)
  BY SchedFacts, ListNames
<1>2. list'["batch"] = list["batch"] /\ list'["pending"] = Append(list["pending"], f)
  BY <1>1, ListNames DEF Resumed, Put
<1>3. Append(list["pending"], f) = list["pending"] \o <<f>> /\ <<f>> \in Seq(Fibers)
  BY <1>1, AppendIsConcat
<1> QED BY <1>2, <1>3, RunAppends

\* dfk__resume of the front of a wait queue, the only step that takes from one.
LEMMA WakeAppends ==
  ASSUME SchedInv, NEW w \in WaitQueues, list[w] # <<>>, list' = WakeFront(list, w)
  PROVE  RunsInOrder
<1>1. list \in [Lists -> Seq(Fibers)] /\ list["pending"] \in Seq(Fibers)
  BY SchedFacts, ListNames
<1>2. Head(list[w]) \in Fibers
  BY SchedFacts, WakeLists
<1>3. /\ list'["batch"] = list["batch"]
      /\ list'["pending"] = Append(list["pending"], Head(list[w]))
  BY <1>1, ListNames DEF WakeFront, PopFront, Resumed, Put
<1>4. ASSUME NEW h \in Fibers
      PROVE  Append(list["pending"], h) = list["pending"] \o <<h>> /\ <<h>> \in Seq(Fibers)
  BY <1>1, AppendIsConcat
<1> QED BY <1>2, <1>3, <1>4, RunAppends

\* The scheduler's fiber itself: the switch of the pending list to the local one
\* keeps the order, and it runs the first fiber.
LEMMA SchedulerRunsInOrder ==
  ASSUME SchedInv, SchedulerStep
  PROVE  RunsInOrder
<1>1. /\ list \in [Lists -> Seq(Fibers)]
      /\ list["batch"] \in Seq(Fibers) /\ list["pending"] \in Seq(Fibers)
  BY SchedFacts, ListNames
<1>2. CASE SchedulerExit \/ SchedulerBatchDone
  BY <1>2, RunSame DEF SchedulerExit, SchedulerBatchDone, RunQueue
<1>3. CASE SchedulerCollect
  <2>1. list["batch"] = <<>>
    BY <1>3 DEF SchedulerCollect, SchedulerAt, SchedInv, SchedulerPoint
  <2>2. list'["batch"] = list["pending"] /\ list'["pending"] = <<>>
    BY <1>1, <1>3, ListNames DEF SchedulerCollect
  <2> QED BY <1>1, <2>1, <2>2, ConcatEmptySeq, RunSame DEF RunQueue
<1>4. CASE SchedulerDispatch
  <2>1. /\ list["batch"] # <<>> /\ current' = Head(list["batch"])
        /\ list'["batch"] = Tail(list["batch"]) /\ list'["pending"] = list["pending"]
    BY <1>1, <1>4, ListNames DEF SchedulerDispatch, PopFront
  <2> DEFINE b == list["batch"]
             p == list["pending"]
  <2>2. b \o p # <<>> /\ Head(b \o p) = Head(b) /\ Tail(b \o p) = Tail(b) \o p
    BY <1>1, <2>1, HeadTailConcat
  <2>3. RunQueue = b \o p /\ RunQueue' = Tail(b) \o p
    BY <2>1 DEF RunQueue
  <2> QED BY <2>1, <2>2, <2>3 DEF RunsInOrder
<1> QED BY <1>2, <1>3, <1>4 DEF SchedulerStep

\* A new work cycle begins with empty lists.
LEMMA WorkRunsInOrder ==
  ASSUME SchedInv, WorkStep
  PROVE  RunsInOrder
<1>1. ASSUME NEW f \in Fibers, DfkWork(f) PROVE RunsInOrder
  <2>1. list = [list EXCEPT !["pending"] = <<>>, !["terminated"] = <<>>]
    BY <1>1, SchedFacts, ListNames DEF SchedInv, SchedulerPoint, DfkWork
  <2> QED BY <1>1, <2>1, ResumeAppends DEF DfkWork
<1>2. CASE DfkWorkNoMem \/ DfkWorkNoEventLoop
  BY <1>2, RunSame DEF DfkWorkNoMem, DfkWorkNoEventLoop, RunQueue
<1> QED BY <1>1, <1>2 DEF WorkStep

\* A fiber that puts itself into a list that is not run.
LEMMA PutRunsInOrder ==
  ASSUME SchedInv, NEW f \in Fibers, NEW l \in Lists, l # "batch", l # "pending",
         list' = Put(list, l, f)
  PROVE  RunsInOrder
<1>1. list \in [Lists -> Seq(Fibers)]
  BY SchedFacts
<1>2. list'["batch"] = list["batch"] /\ list'["pending"] = list["pending"]
  BY <1>1, ListNames DEF Put
<1> QED BY <1>2, RunSame DEF RunQueue

\* Fibers run in the order in which they became ready, whatever is called through
\* the scheduler's interface.
THEOREM SchedNextInOrder == SchedInv /\ [SchedNext]_schedVars => [RunsInOrder]_schedVars
<1> SUFFICES ASSUME SchedInv, SchedNext PROVE RunsInOrder
  OBVIOUS
<1>1. CASE WorkStep \/ SchedulerStep
  BY <1>1, WorkRunsInOrder, SchedulerRunsInOrder
<1>2. ASSUME NEW f \in Fibers, EventLoopResume(f) \/ Postpone(f) PROVE RunsInOrder
  BY <1>2, ResumeAppends DEF EventLoopResume, Postpone
<1>3. ASSUME NEW f \in Fibers, NEW g \in Fibers, Spawn(f, g) PROVE RunsInOrder
  BY <1>3, ResumeAppends DEF Spawn
<1>4. ASSUME NEW f \in Fibers,
             EventLoopSuspend \/ IoSuspend(f) \/ IoReturn(f) \/ ParkReturn(f)
      PROVE  RunsInOrder
  BY <1>4, RunSame DEF EventLoopSuspend, IoSuspend, IoReturn, ParkReturn, RunQueue
<1>5. CASE EventLoopSuspend
  BY <1>5, RunSame DEF EventLoopSuspend, RunQueue
<1>6. ASSUME NEW f \in Fibers, Terminate(f) PROVE RunsInOrder
  BY <1>6, ListNames, PutRunsInOrder DEF Terminate
<1>7. ASSUME NEW f \in Fibers, NEW w \in WaitQueues, Park(f, w) \/ Unpark(f, w)
      PROVE  RunsInOrder
  BY <1>7, ListNames, PutRunsInOrder, WakeAppends DEF Park, Unpark
<1> QED BY <1>1, <1>2, <1>3, <1>4, <1>5, <1>6, <1>7 DEF SchedNext, EventLoopStep, FiberStep

\* The properties of the scheduler on its own, for any number of fibers and wait queues.
THEOREM SchedulerCorrect == SchedSpec => [](SchedulerConsistent /\ ExitQuiescent) /\ RunQueueFifo
<1>1. SchedInit => SchedInv
  BY SchedInitInv
<1>2. SchedInv /\ [SchedNext]_schedVars => SchedInv'
  BY SchedNextInv
<1>3. SchedInv => SchedulerConsistent /\ ExitQuiescent
  BY SchedExit DEF SchedInv
<1>4. SchedInv /\ [SchedNext]_schedVars => [RunsInOrder]_schedVars
  BY SchedNextInOrder
<1> QED BY <1>1, <1>2, <1>3, <1>4, PTL DEF SchedSpec, RunQueueFifo

=============================================================================
