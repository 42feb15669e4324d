--------------------------- MODULE MemoryProofs ---------------------------
(***************************************************************************)
(* What the memory structures guarantee for all sizes: the sponge of       *)
(* sponge.c is first-in first-out, the arena of arena.c hands out disjoint *)
(* objects, which leave their segment only behind an object that filled    *)
(* it, and the pointers of list.c, in both layouts, are those of the       *)
(* sequences list.h promises.                                              *)
(***************************************************************************)
EXTENDS Arena, Sponge, List, Induction, FiniteSetTheorems, SequenceTheorems, TLAPS

(***************************************************************************)
(* Pieces of the stream.                                                   *)
(***************************************************************************)
\* They are that piece of the stream.
LEMMA NumberedPiece ==
  ASSUME NEW s, NEW a, NEW e, NEW f, NEW t, Numbered(s, a, e, f),
         t \in Nat, t - f = e - a
  PROVE  SubSeq(s, a, e) = Bytes(f, t)
<1>a. /\ s \in Seq(Nat) /\ a \in Nat /\ e \in Nat /\ f \in Nat
      /\ 1 <= a /\ a <= e + 1 /\ e <= Len(s)
      /\ \A i \in a .. e : s[i] = f + (i - a)
  BY DEF Numbered
<1>0. PICK n \in Nat : n = e - a + 1
  BY <1>a
<1>1. SubSeq(s, a, e) = [i \in 1 .. n |-> s[a + i - 1]]
  BY <1>a, <1>0
<1>2. Bytes(f, t) = [i \in 1 .. n |-> f + i - 1]
  BY <1>a, <1>0 DEF Bytes
<1>3. \A i \in 1 .. n : a + i - 1 \in a .. e /\ f + ((a + i - 1) - a) = f + i - 1
  BY <1>a, <1>0
<1>4. \A i \in 1 .. n : s[a + i - 1] = f + i - 1
  BY <1>a, <1>3
<1> QED BY <1>1, <1>2, <1>4

\* The bytes that dfk__sponge_write is given continue the stream.
LEMMA BytesNumbered ==
  ASSUME NEW t \in Nat, NEW n \in Nat
  PROVE  Numbered(Bytes(t + 1, t + n), 1, n, t + 1) /\ Len(Bytes(t + 1, t + n)) = n
<1>1. t + n - (t + 1) + 1 = n
  OBVIOUS
<1>2. Bytes(t + 1, t + n) = [i \in 1 .. n |-> t + 1 + i - 1]
  BY <1>1 DEF Bytes
<1>3. Bytes(t + 1, t + n) = [i \in 1 .. n |-> t + i]
  BY <1>2
<1> QED BY <1>3 DEF Numbered

\* Pieces in a row.
LEMMA NumberedTail ==
  ASSUME NEW s, NEW a, NEW e, NEW f, Numbered(s, a, e, f), NEW n \in Nat, a + n <= e + 1
  PROVE  Numbered(s, a + n, e, f + n)
BY DEF Numbered

\* Some of them, taken out.
LEMMA NumberedTake ==
  ASSUME NEW s, NEW a, NEW e, NEW f, NEW l, Numbered(s, a, l, f),
         e \in Nat, a <= e + 1, e <= l
  PROVE  /\ Numbered(SubSeq(s, a, e), 1, e - a + 1, f)
         /\ Len(SubSeq(s, a, e)) = e - a + 1
<1>a. /\ s \in Seq(Nat) /\ a \in Nat /\ l \in Nat /\ f \in Nat
      /\ 1 <= a /\ l <= Len(s)
  BY DEF Numbered
<1>b. \A i \in a .. l : s[i] = f + (i - a)
  BY DEF Numbered
<1>0. PICK n \in Nat : n = e - a + 1
  <2>1. e - a + 1 \in Nat
    BY <1>a
  <2> QED BY <2>1
<1>1. SubSeq(s, a, e) = [i \in 1 .. n |-> s[a + i - 1]]
  BY <1>a, <1>0
<1>2. \A i \in 1 .. n : s[a + i - 1] = f + (i - 1)
  <2>1. \A i \in 1 .. n : a + i - 1 \in a .. l /\ (a + i - 1) - a = i - 1
    BY <1>a, <1>0
  <2> QED BY <1>a, <1>b, <2>1
<1>3. SubSeq(s, a, e) = [i \in 1 .. n |-> f + (i - 1)]
  BY <1>1, <1>2
<1>4. Numbered([i \in 1 .. n |-> f + (i - 1)], 1, n, f) /\ Len([i \in 1 .. n |-> f + (i - 1)]) = n
  BY <1>a DEF Numbered
<1> QED BY <1>0, <1>3, <1>4

\* The next bytes, put behind them.
LEMMA NumberedConcat ==
  ASSUME NEW s, NEW a, NEW f, Numbered(s, a, Len(s), f),
         NEW b, NEW g, Numbered(b, 1, Len(b), g), g - f = Len(s) + 1 - a
  PROVE  /\ Numbered(s \o b, a, Len(s) + Len(b), f)
         /\ Len(s \o b) = Len(s) + Len(b)
<1>a. /\ s \in Seq(Nat) /\ a \in Nat /\ Len(s) \in Nat /\ f \in Nat
      /\ 1 <= a /\ a <= Len(s) + 1 /\ b \in Seq(Nat) /\ Len(b) \in Nat /\ g \in Nat
  BY DEF Numbered
<1>b. \A i \in a .. Len(s) : s[i] = f + (i - a)
  BY DEF Numbered
<1>c. \A i \in 1 .. Len(b) : b[i] = g + (i - 1)
  BY DEF Numbered
<1>3. s \o b \in Seq(Nat) /\ Len(s \o b) = Len(s) + Len(b)
  BY <1>a, ConcatProperties
<1>4. ASSUME NEW i \in a .. Len(s) + Len(b)
      PROVE  (s \o b)[i] = f + (i - a)
  <2>1. CASE i <= Len(s)
    BY <1>a, <1>b, <2>1
  <2>2. CASE i > Len(s)
    <3>1. (s \o b)[i] = b[i - Len(s)] /\ i - Len(s) \in 1 .. Len(b)
      BY <1>a, <2>2
    <3>2. PICK j \in 1 .. Len(b) : j = i - Len(s)
      BY <3>1
    <3>4. b[j] = g + (j - 1)
      BY <1>c
    <3>3. g + (j - 1) = f + (i - a)
      <4>1. PICK l \in Nat, x \in Nat : l = Len(s) /\ x = a
        BY <1>a
      <4>2. g - f = l + 1 - x /\ j = i - l /\ i \in Int /\ f \in Nat /\ g \in Nat
        BY <1>a, <3>2, <4>1
      <4> QED BY <4>1, <4>2
    <3> QED BY <3>1, <3>2, <3>3, <3>4
  <2>3. i <= Len(s) \/ i > Len(s)
    BY <1>a
  <2> QED BY <2>1, <2>2, <2>3, Zenon
<1> QED BY <1>a, <1>3, <1>4 DEF Numbered
(***************************************************************************)
(* The sponge.                                                             *)
(***************************************************************************)
LEMMA SpongeFacts ==
  ASSUME SpongeInv
  PROVE  /\ cur \in Nat /\ capacity \in Nat /\ written \in Nat /\ read \in Nat
         /\ data \in Seq(Nat) /\ Len(data) \in Nat
         /\ cur <= Len(data) /\ Len(data) <= capacity
         /\ written - read = Len(data) - cur
BY DEF SpongeInv, SpongeInBounds, Numbered

\* dfk__sponge_read takes the next bytes from the front, whatever their number.
LEMMA TakeInv ==
  ASSUME SpongeInv, NEW n \in Nat, n <= Len(data) - cur,
         out' = SubSeq(data, cur + 1, cur + n), cur' = cur + n, read' = read + n,
         UNCHANGED <<data, capacity, written>>
  PROVE  SpongeInv'
<1>a. /\ cur \in Nat /\ capacity \in Nat /\ written \in Nat /\ read \in Nat
      /\ data \in Seq(Nat) /\ Len(data) \in Nat
      /\ cur <= Len(data) /\ Len(data) <= capacity
      /\ written - read = Len(data) - cur
  BY SpongeFacts
<1>1. Numbered(data, cur + 1, Len(data), read + 1)
  BY DEF SpongeInv
<1>2. Numbered(data', cur' + 1, Len(data'), read' + 1)
  <2>1. (cur + 1) + n <= Len(data) + 1
    BY <1>a
  <2>2. Numbered(data, (cur + 1) + n, Len(data), (read + 1) + n)
    BY <1>1, <2>1, NumberedTail
  <2>3. (cur + 1) + n = cur' + 1 /\ (read + 1) + n = read' + 1 /\ data' = data
    BY <1>a
  <2> QED BY <2>2, <2>3
<1>3. Numbered(out', 1, n, read + 1) /\ Len(out') = n
  <2>1. cur + n <= Len(data) /\ cur + n \in Nat /\ cur + 1 <= cur + n + 1
    BY <1>a
  <2>2. PICK a, e : a = cur + 1 /\ e = cur + n
    OBVIOUS
  <2>3. Numbered(SubSeq(data, a, e), 1, e - a + 1, read + 1) /\ Len(SubSeq(data, a, e)) = e - a + 1
    BY <1>1, <2>1, <2>2, NumberedTake
  <2>4. e - a + 1 = n /\ out' = SubSeq(data, a, e)
    BY <1>a, <2>2
  <2> QED BY <2>3, <2>4
<1>4. Len(out') <= read' /\ Numbered(out', 1, Len(out'), read' - Len(out') + 1)
  <2>1. read' - Len(out') + 1 = read + 1 /\ Len(out') <= read'
    BY <1>a, <1>3
  <2> QED BY <1>3, <2>1
<1>5. /\ cur' \in Nat /\ capacity' \in Nat /\ written' \in Nat /\ read' \in Nat
      /\ cur' <= Len(data') /\ Len(data') <= capacity'
      /\ written' - read' = Len(data') - cur'
  BY <1>a
<1> QED BY <1>2, <1>4, <1>5 DEF SpongeInv, SpongeInBounds

\* dfk__sponge_read takes no more than there is.
LEMMA ToReadFacts ==
  ASSUME SpongeInv, NEW n \in Nat
  PROVE  ToRead(n) \in Nat /\ ToRead(n) <= Len(data) - cur
BY SpongeFacts DEF ToRead, Min2

\* dfk__sponge_write appends, in the buffer it has or in a larger one without what
\* was read: both hold the l - cur' unread bytes from the cursor on.
LEMMA AppendInv ==
  ASSUME SpongeInv, NEW n \in Nat, NEW l \in Nat, cur' \in Nat, capacity' \in Nat,
         l - cur' = written - read, l + n <= capacity',
         Numbered(data', cur' + 1, l + n, read + 1), Len(data') = l + n,
         written' = written + n, UNCHANGED <<read, out>>
  PROVE  SpongeInv'
<1>a. /\ written \in Nat /\ read \in Nat
      /\ cur \in Nat /\ Len(data) \in Nat /\ cur <= Len(data)
      /\ written - read = Len(data) - cur
  BY SpongeFacts
<1>1. Numbered(data', cur' + 1, Len(data'), read' + 1)
  OBVIOUS
<1>2. Len(out') <= read' /\ Numbered(out', 1, Len(out'), read' - Len(out') + 1)
  BY DEF SpongeInv
<1>3. /\ written' \in Nat /\ read' \in Nat
      /\ cur' <= Len(data') /\ Len(data') <= capacity'
      /\ written' - read' = Len(data') - cur'
  <2>1. PICK c \in Nat, p \in Nat : c = cur' /\ p = capacity'
    OBVIOUS
  <2>2. l - c = written - read /\ l + n <= p
    BY <2>1
  <2>3. c <= l + n /\ (written + n) - read = (l + n) - c /\ written + n \in Nat
    BY <1>a, <2>2
  <2> QED BY <1>a, <2>1, <2>2, <2>3
<1> QED BY <1>1, <1>2, <1>3 DEF SpongeInv, SpongeInBounds

\* dfk__sponge_write keeps SpongeInv on each of its three ways: into an empty sponge,
\* into the room that is left, or into a new block.
LEMMA SpongeWriteInv ==
  ASSUME SpongeInv, NEW n \in Nat, SpongeWrite(n)
  PROVE  SpongeInv'
<1>a. /\ cur \in Nat /\ capacity \in Nat /\ written \in Nat /\ read \in Nat
      /\ data \in Seq(Nat) /\ Len(data) \in Nat
      /\ cur <= Len(data) /\ Len(data) <= capacity
      /\ written - read = Len(data) - cur
  BY SpongeFacts
<1>b. Numbered(data, cur + 1, Len(data), read + 1)
  BY DEF SpongeInv
<1>c. written' = written + n /\ UNCHANGED <<read, out>>
  BY DEF SpongeWrite
<1>d. PICK b : b = Bytes(written + 1, written + n)
  OBVIOUS
<1>e. b \in Seq(Nat) /\ Numbered(b, 1, Len(b), written + 1) /\ Len(b) = n
  <2>1. Numbered(b, 1, n, written + 1) /\ Len(b) = n
    BY <1>a, <1>d, BytesNumbered
  <2> QED BY <2>1 DEF Numbered
<1>1. CASE capacity = 0
  <2>1. Len(data) = 0 /\ cur = 0 /\ written - read = 0
    BY <1>a, <1>1
  <2>2. data' = b /\ cur' = 0 /\ capacity' = Max2(n, InitialSize)
    BY <1>d, <1>1 DEF SpongeWrite
  <2>3. Numbered(data', cur' + 1, 0 + n, read + 1) /\ Len(data') = 0 + n
    BY <1>a, <1>e, <2>1, <2>2
  <2>4. capacity' \in Nat /\ 0 + n <= capacity'
    BY <2>2, SpongeAssumption DEF Max2
  <2>5. cur' \in Nat /\ 0 - cur' = written - read
    BY <2>1, <2>2
  <2> QED BY <1>c, <2>3, <2>4, <2>5, AppendInv
<1>2. CASE capacity # 0 /\ n <= capacity - Len(data)
  <2>1. data' = data \o b /\ cur' = cur /\ capacity' = capacity
    BY <1>a, <1>d, <1>2 DEF SpongeWrite
  <2>2. (written + 1) - (read + 1) = Len(data) + 1 - (cur + 1)
    BY <1>a
  <2>3. Numbered(data \o b, cur + 1, Len(data) + Len(b), read + 1) /\ Len(data \o b) = Len(data) + Len(b)
    BY <1>b, <1>e, <2>2, NumberedConcat
  <2>4. Numbered(data', cur' + 1, Len(data) + n, read + 1) /\ Len(data') = Len(data) + n
    BY <1>e, <2>1, <2>3
  <2>5. /\ cur' \in Nat /\ capacity' \in Nat
        /\ Len(data) - cur' = written - read /\ Len(data) + n <= capacity'
    BY <1>a, <1>2, <2>1
  <2> QED BY <1>a, <1>c, <2>4, <2>5, AppendInv
<1>3. CASE capacity # 0 /\ n > capacity - Len(data)
  <2>1. Reallocated(b)
    BY <1>a, <1>d, <1>3 DEF SpongeWrite
  <2>2. PICK keep : keep = SubSeq(data, cur + 1, Len(data))
    OBVIOUS
  <2>3. data' = keep \o b /\ cur' = 0 /\ capacity' = capacity + Max2(Len(data) - cur + n, capacity)
    BY <1>e, <2>1, <2>2 DEF Reallocated
  <2>4. Numbered(keep, 1, Len(keep), read + 1) /\ Len(keep) = Len(data) - cur
    <3>1. cur + 1 <= Len(data) + 1 /\ Len(data) <= Len(data) /\ Len(data) - (cur + 1) + 1 = Len(data) - cur
      BY <1>a
    <3>2. PICK a, l, r : a = cur + 1 /\ l = Len(data) /\ r = read + 1
      OBVIOUS
    <3>5. Numbered(data, a, l, r) /\ l \in Nat /\ a <= l + 1 /\ l <= l /\ keep = SubSeq(data, a, l)
      BY <1>a, <1>b, <2>2, <3>1, <3>2, Zenon
    <3>6. Numbered(keep, 1, l - a + 1, r) /\ Len(keep) = l - a + 1
      BY <3>5, NumberedTake, Zenon
    <3>3. /\ Numbered(keep, 1, Len(data) - a + 1, read + 1)
          /\ Len(keep) = Len(data) - a + 1
      BY <3>2, <3>6, Zenon
    <3>4. Len(data) - a + 1 = Len(data) - cur
      BY <3>1, <3>2, Zenon
    <3> QED BY <3>3, <3>4, Zenon
  <2>5. (written + 1) - (read + 1) = Len(keep) + 1 - 1
    <3>1. PICK w \in Nat, r \in Nat, k \in Nat : w = written /\ r = read /\ k = Len(keep) /\ w - r = k
      BY <1>a, <2>4
    <3>2. (w + 1) - (r + 1) = k + 1 - 1
      BY <3>1
    <3> QED BY <3>1, <3>2, Zenon
  <2>6. Numbered(keep \o b, 1, Len(keep) + Len(b), read + 1) /\ Len(keep \o b) = Len(keep) + Len(b)
    BY <1>e, <2>4, <2>5, NumberedConcat
  <2>7. Numbered(data', cur' + 1, Len(keep) + n, read + 1) /\ Len(data') = Len(keep) + n
    BY <1>e, <2>3, <2>6
  <2>8. capacity' \in Nat /\ Len(keep) + n <= capacity'
    BY <1>a, <2>3, <2>4 DEF Max2
  <2>9. cur' \in Nat /\ Len(keep) \in Nat /\ Len(keep) - cur' = written - read
    BY <1>a, <2>3, <2>4
  <2> QED BY <1>c, <2>7, <2>8, <2>9, AppendInv
<1> QED BY <1>a, <1>1, <1>2, <1>3

\* SpongeInv holds in every state of the sponge.
THEOREM SpongeInvariance == SpongeSpec => []SpongeInv
<1>1. SpongeInit => SpongeInv
  BY DEF SpongeInit, SpongeInv, SpongeInBounds, Numbered
<1>2. ASSUME SpongeInv, [SpongeNext]_spongeVars
      PROVE  SpongeInv'
  <2>1. \A n \in 1 .. MaxChunk : n \in Nat
    BY SpongeAssumption
  <2>2. ASSUME NEW n \in 1 .. MaxChunk, SpongeWrite(n)
        PROVE  SpongeInv'
    BY <1>2, <2>1, <2>2, SpongeWriteInv
  <2>3. ASSUME NEW n \in 1 .. MaxChunk, SpongeRead(n)
        PROVE  SpongeInv'
    <3>1. ToRead(n) \in Nat /\ ToRead(n) <= Len(data) - cur
      BY <1>2, <2>1, ToReadFacts
    <3> QED BY <1>2, <2>3, <3>1, TakeInv DEF SpongeRead
  <2>4. ASSUME NEW n1 \in 1 .. MaxChunk, NEW n2 \in 1 .. MaxChunk, SpongeReadv(n1, n2)
        PROVE  SpongeInv'
    <3>1. PICK first \in Nat : first = ToRead(n1) /\ first <= Len(data) - cur
      BY <1>2, <2>1, ToReadFacts
    <3>2. PICK total :
            /\ total = ToRead(n1) + (IF ToRead(n1) = 0 THEN 0 ELSE Min2(n2, Len(data) - cur - ToRead(n1)))
            /\ out' = SubSeq(data, cur + 1, cur + total) /\ cur' = cur + total
            /\ read' = read + total /\ UNCHANGED <<data, capacity, written>>
      BY <2>4, Zenon DEF SpongeReadv
    <3>3. total = first + (IF first = 0 THEN 0 ELSE Min2(n2, Len(data) - cur - first))
      BY <3>1, <3>2, Zenon
    <3>4. total \in Nat /\ total <= Len(data) - cur
      <4>1. n2 \in Nat
        BY <2>1
      <4>2. PICK r \in Nat : r = Len(data) - cur
        BY <1>2, SpongeFacts
      <4>3. first <= r /\ total = first + (IF first = 0 THEN 0 ELSE Min2(n2, r - first))
        BY <3>1, <3>3, <4>2
      <4>4. Min2(n2, r - first) \in Nat /\ Min2(n2, r - first) <= r - first
        BY <4>1, <4>3 DEF Min2
      <4>5. total \in Nat /\ total <= r
        BY <4>3, <4>4
      <4> QED BY <4>2, <4>5
    <3> QED BY <1>2, <3>2, <3>4, TakeInv
  <2>5. CASE UNCHANGED spongeVars
    BY <1>2, <2>5 DEF spongeVars, SpongeInv, SpongeInBounds
  <2> QED BY <1>2, <2>2, <2>3, <2>4, <2>5 DEF SpongeNext
<1> QED BY <1>1, <1>2, PTL DEF SpongeSpec

\* The in-memory stream is first-in first-out: dfk__sponge_read and dfk__sponge_readv
\* return the bytes that follow those returned before, and what dfk__sponge_write keeps
\* are the rest, through any sequence of reallocations.
THEOREM SpongeFifo == SpongeSpec => []StreamFifo
<1>1. ASSUME SpongeInv PROVE StreamFifo
  <2>1. SubSeq(data, cur + 1, Len(data)) = Bytes(read + 1, written)
    <3>1. Numbered(data, cur + 1, Len(data), read + 1)
      BY <1>1 DEF SpongeInv
    <3>2. written \in Nat /\ written - (read + 1) = Len(data) - (cur + 1)
      BY <1>1, SpongeFacts
    <3> QED BY <3>1, <3>2, NumberedPiece
  <2>2. out = Bytes(read - Len(out) + 1, read)
    <3>1. /\ read \in Nat /\ Len(out) \in Nat /\ Len(out) <= read
          /\ Numbered(out, 1, Len(out), read - Len(out) + 1) /\ out \in Seq(Nat)
      BY <1>1 DEF SpongeInv, Numbered
    <3>2. read - (read - Len(out) + 1) = Len(out) - 1
      BY <3>1
    <3>3. PICK l, f : l = Len(out) /\ f = read - Len(out) + 1
      OBVIOUS
    <3>4. SubSeq(out, 1, l) = Bytes(f, read)
      <4>1. Numbered(out, 1, l, f) /\ read \in Nat /\ read - f = l - 1
        BY <3>1, <3>2, <3>3
      <4> QED BY <4>1, NumberedPiece
    <3> QED BY <3>1, <3>3, <3>4, SubSeqFull
  <2> QED BY <1>1, <2>1, <2>2 DEF SpongeInv, StreamFifo
<1> QED BY <1>1, SpongeInvariance, PTL

(***************************************************************************)
(* The arena.                                                              *)
(***************************************************************************)
\* What MaxLength is for: MaxObjects objects of that length fit below SizeMax, and
\* nothing that is asked for is longer.
LEMMA LengthFacts ==
  ASSUME NEW n \in Sizes
  PROVE  /\ MaxLength \in Nat /\ Header + MaxObjects * MaxLength < SizeMax
         /\ n \in Nat /\ 0 < n /\ n <= MaxLength
         /\ OwcHeader + n \in Nat /\ 0 < OwcHeader + n /\ OwcHeader + n <= MaxLength
<1>1. /\ SizeMax \in Nat /\ Header \in Nat /\ OwcHeader \in Nat /\ n \in Nat /\ 0 < n
      /\ MaxObjects \in Nat /\ MaxObjects >= 1 /\ MaxObjects * (n + OwcHeader) + Header < SizeMax
  BY ArenaAssumption
<1>2. PICK k \in Nat : k = n + OwcHeader
  BY <1>1
<1>3. MaxObjects * k \in Nat /\ MaxObjects * k + Header < SizeMax
  BY <1>1, <1>2
<1>4. PICK x \in Nat : x = SizeMax - 1 - Header
  BY <1>1, <1>3
<1>5. PICK q \in Nat : q = x \div MaxObjects /\ MaxObjects * q <= x /\ x < MaxObjects * q + MaxObjects
  BY <1>1
<1>6. k <= q
  <2>1. MaxObjects * k < MaxObjects * q + MaxObjects
    BY <1>1, <1>3, <1>4, <1>5
  <2> QED BY <1>1, <2>1
<1>7. MaxLength = q
  BY <1>4, <1>5 DEF MaxLength
<1> QED BY <1>1, <1>2, <1>4, <1>5, <1>6, <1>7

\* What ArenaInv says of one segment and of one object.
LEMMA SegmentFacts ==
  ASSUME ArenaInv, NEW i \in 1 .. Len(segments)
  PROVE  /\ segments[i] \in Segment
         /\ segments[i].cap \in Nat /\ segments[i].size \in Nat /\ segments[i].used \in Nat
         /\ segments[i].size = SegmentSize - Header
         /\ segments[i].cap >= SegmentSize
         /\ segments[i].used <= Header + Cardinality(objects) * MaxLength
<1>1. segments[i] \in Segment
  BY DEF ArenaInv, ArenaTypeOK
<1>2. segments[i].cap \in Nat /\ segments[i].size \in Nat /\ segments[i].used \in Nat
  BY <1>1 DEF Segment
<1>3. /\ segments[i].size = SegmentSize - Header
      /\ segments[i].cap >= SegmentSize
      /\ segments[i].used <= Header + Cardinality(objects) * MaxLength
  BY Zenon DEF ArenaInv, SegmentsSound
<1> QED BY <1>1, <1>2, <1>3

\* What ArenaInv says of one object.
LEMMA ObjectFacts ==
  ASSUME ArenaInv, NEW o \in objects
  PROVE  /\ o.seg \in 1 .. Len(segments) /\ o.at \in Nat /\ o.len \in Nat /\ o.len > 0
         /\ segments[o.seg].used \in Nat /\ segments[o.seg].cap \in Nat
         /\ o.at + o.len <= segments[o.seg].used
<1>1. o \in [seg : 1 .. Len(segments), at : Nat, len : Nat \ {0}]
  BY DEF ArenaInv, ArenaTypeOK
<1>2. o.seg \in 1 .. Len(segments) /\ o.at \in Nat /\ o.len \in Nat /\ o.len > 0
  BY <1>1
<1>3. segments[o.seg].used \in Nat /\ segments[o.seg].cap \in Nat
  BY <1>2, SegmentFacts
<1>4. o.at + o.len <= segments[o.seg].used
  BY DEF ArenaInv, BelowUsed
<1> QED BY <1>2, <1>3, <1>4

\* What ArenaInv and the assumptions say of the arena as a whole.
LEMMA ArenaFacts ==
  ASSUME ArenaInv
  PROVE  /\ segments \in Seq(Segment) /\ Len(segments) \in Nat
         /\ IsFiniteSet(objects) /\ Cardinality(objects) \in Nat
         /\ SegmentSize \in Nat /\ Header \in Nat /\ SizeMax \in Nat /\ SizeMax > 0
         /\ 0 < Header /\ 2 * Header < SegmentSize
BY ArenaAssumption, FS_CardinalityType DEF ArenaInv, ArenaTypeOK

\* No size that fits makes `used' wrap around.
LEMMA NoWrap ==
  ASSUME NEW k \in Nat, k < MaxObjects, MaxObjects \in Nat, Header \in Nat, SizeMax \in Nat,
         NEW u \in Nat, u <= Header + k * MaxLength, NEW n \in Nat, n <= MaxLength,
         MaxLength \in Nat, Header + MaxObjects * MaxLength < SizeMax
  PROVE  u + n <= Header + (k + 1) * MaxLength /\ (u + n) % SizeMax = u + n
<1>1. (k + 1) * MaxLength = k * MaxLength + MaxLength /\ k * MaxLength \in Nat
  OBVIOUS
<1>2. (k + 1) * MaxLength <= MaxObjects * MaxLength
  OBVIOUS
<1>3. u + n <= Header + (k + 1) * MaxLength
  BY <1>1
<1>4. u + n < SizeMax
  <2>1. PICK x \in Nat, y \in Nat : x = (k + 1) * MaxLength /\ y = MaxObjects * MaxLength
    OBVIOUS
  <2> QED BY <1>2, <1>3, <2>1
<1> QED BY <1>3, <1>4

\* A new object p that no object of its segment reaches.
LEMMA PlaceInv ==
  ASSUME ArenaInv, NEW p, p \notin objects,
         objects' = objects \cup {p}, owc' \in Seq(objects'),
         segments' \in Seq(Segment), Len(segments) <= Len(segments'),
         p \in [seg : 1 .. Len(segments'), at : Nat, len : Nat \ {0}],
         \A i \in 1 .. Len(segments') :
           /\ segments'[i].size = SegmentSize - Header
           /\ segments'[i].cap >= SegmentSize
           /\ segments'[i].used <= Header + (Cardinality(objects) + 1) * MaxLength,
         \A i \in 1 .. Len(segments) :
           segments'[i].cap = segments[i].cap /\ segments'[i].used >= segments[i].used,
         \A o \in objects : o.seg = p.seg => o.at + o.len <= p.at,
         p.at + p.len <= segments'[p.seg].used,
         FullOnlyBehindLarge',
         Overruns(p)' => \E q \in objects : q.seg = p.seg /\ FillsSegment(q)
  PROVE  ArenaInv'
<1>1. /\ Len(segments) \in Nat /\ Len(segments') \in Nat
      /\ IsFiniteSet(objects) /\ Cardinality(objects) \in Nat
  BY ArenaFacts
<1>2. Cardinality(objects') = Cardinality(objects) + 1 /\ IsFiniteSet(objects')
  BY <1>1, FS_AddElement
<1>3. ArenaTypeOK'
  <2>1. ASSUME NEW o \in objects
        PROVE  o \in [seg : 1 .. Len(segments'), at : Nat, len : Nat \ {0}]
    <3>1. o \in [seg : 1 .. Len(segments), at : Nat, len : Nat \ {0}]
      BY DEF ArenaInv, ArenaTypeOK
    <3> QED BY <1>1, <3>1
  <2> QED BY <1>2, <2>1 DEF ArenaTypeOK
<1>4. SegmentsSound'
  BY <1>2 DEF SegmentsSound
<1>5. ASSUME NEW o \in objects
      PROVE  o.at + o.len <= segments'[o.seg].used /\ (Overruns(o)' <=> Overruns(o))
  <2>1. /\ o.seg \in 1 .. Len(segments) /\ o.at \in Nat /\ o.len \in Nat
        /\ segments[o.seg].used \in Nat /\ o.at + o.len <= segments[o.seg].used
    BY ObjectFacts
  <2>2. segments'[o.seg].cap = segments[o.seg].cap /\ segments'[o.seg].used >= segments[o.seg].used
    BY <2>1
  <2>3. segments'[o.seg].used \in Nat
    <3>1. o.seg \in 1 .. Len(segments')
      BY <1>1, <2>1, SMTT(30)
    <3>2. segments'[o.seg] \in Segment
      BY <3>1
    <3> QED BY <3>2 DEF Segment
  <2>4. o.at + o.len <= segments'[o.seg].used
    <3>1. PICK a \in Nat, n \in Nat, u \in Nat, v \in Nat :
            /\ a = o.at /\ n = o.len /\ u = segments[o.seg].used /\ v = segments'[o.seg].used
      BY <2>1, <2>3
    <3>2. a + n <= u /\ v >= u
      BY <2>1, <2>2, <3>1
    <3>3. a + n <= v
      BY <3>2
    <3> QED BY <3>1, <3>3
  <2>5. Overruns(o)' <=> Overruns(o)
    BY <2>2 DEF Overruns
  <2> QED BY <2>4, <2>5
<1>6. BelowUsed'
  BY <1>5 DEF BelowUsed
<1>7. Disjoint'
  <2>1. ASSUME NEW o \in objects', NEW q \in objects', o.seg = q.seg, o # q
        PROVE  o.at + o.len <= q.at \/ q.at + q.len <= o.at
    <3>1. CASE o \in objects /\ q \in objects
      BY <2>1, <3>1 DEF ArenaInv, Disjoint
    <3>2. CASE o \in objects /\ q = p
      BY <2>1, <3>2
    <3>3. CASE o = p /\ q \in objects
      BY <2>1, <3>3
    <3> QED BY <2>1, <3>1, <3>2, <3>3
  <2> QED BY <2>1 DEF Disjoint
<1>8. OverrunOnlyBehindLarge'
  <2>1. ASSUME NEW o \in objects', Overruns(o)'
        PROVE  \E q \in objects' : q.seg = o.seg /\ q # o /\ FillsSegment(q)
    <3>1. CASE o \in objects
      BY <1>5, <2>1, <3>1 DEF ArenaInv, OverrunOnlyBehindLarge
    <3>2. CASE o = p
      BY <2>1, <3>2
    <3> QED BY <2>1, <3>1, <3>2
  <2> QED BY <2>1 DEF OverrunOnlyBehindLarge, FillsSegment
<1> QED BY <1>3, <1>4, <1>6, <1>7, <1>8 DEF ArenaInv

\* dfk_arena_alloc in the current segment: the object begins at `used' and moves it.
LEMMA PlaceBehind ==
  ASSUME ArenaInv, NEW n \in Nat, 0 < n, n <= MaxLength, MaxLength \in Nat,
         Header + MaxObjects * MaxLength < SizeMax, Cardinality(objects) < MaxObjects,
         Fits(n), objects' = objects \cup {Place(n)}, segments' = Grown(n),
         owc' \in Seq(objects')
  PROVE  ArenaInv' /\ Place(n) \notin objects
<1>a. /\ segments \in Seq(Segment) /\ Len(segments) \in Nat
      /\ IsFiniteSet(objects) /\ Cardinality(objects) \in Nat
      /\ SegmentSize \in Nat /\ Header \in Nat /\ SizeMax \in Nat /\ SizeMax > 0
  BY ArenaFacts
<1>b. segments # << >> /\ Available >= n
  BY DEF Fits
<1>c. PICK l \in 1 .. Len(segments) : l = Len(segments)
  BY <1>a, <1>b
<1>d. PICK u \in Nat : u = segments[l].used /\ u <= Header + Cardinality(objects) * MaxLength
  BY SegmentFacts
<1>e. u + n <= Header + (Cardinality(objects) + 1) * MaxLength /\ (u + n) % SizeMax = u + n
  BY <1>a, <1>d, NoWrap, ArenaAssumption
<1>f. PICK p : p = Place(n)
  OBVIOUS
<1>g. p = [seg |-> l, at |-> u, len |-> n]
  BY <1>c, <1>d, <1>f DEF Place, Current
<1>h. p.seg = l /\ p.at = u /\ p.len = n
  BY <1>g
<1>1. segments' = [segments EXCEPT ![l] = [segments[l] EXCEPT !.used = u + n]]
  <2>1. segments' = [segments EXCEPT ![l].used = (segments[l].used + n) % SizeMax]
    BY <1>c DEF Grown
  <2> QED BY <1>d, <1>e, <2>1
<1>2. /\ segments' \in Seq(Segment) /\ Len(segments') = Len(segments)
      /\ \A i \in 1 .. Len(segments) : i # l => segments'[i] = segments[i]
      /\ segments'[l].size = segments[l].size /\ segments'[l].cap = segments[l].cap
      /\ segments'[l].used = u + n
  <2>1. segments[l] \in Segment
    BY SegmentFacts
  <2>2. [segments[l] EXCEPT !.used = u + n] \in Segment
    <3>1. ASSUME NEW g \in Segment, NEW x \in Nat PROVE [g EXCEPT !.used = x] \in Segment
      BY DEF Segment
    <3>2. u + n \in Nat
      OBVIOUS
    <3> QED BY <2>1, <3>1, <3>2, Zenon
  <2>3. segments' \in Seq(Segment) /\ Len(segments') = Len(segments)
    BY <1>a, <1>1, <2>2
  <2>4. segments'[l] = [segments[l] EXCEPT !.used = u + n]
    BY <1>a, <1>1
  <2>5. /\ segments'[l].size = segments[l].size /\ segments'[l].cap = segments[l].cap
        /\ segments'[l].used = u + n
    BY <2>1, <2>4 DEF Segment
  <2>6. \A i \in 1 .. Len(segments) : i # l => segments'[i] = segments[i]
    BY <1>a, <1>1
  <2> QED BY <2>3, <2>5, <2>6
<1>3. ASSUME NEW o \in objects, o.seg = l PROVE o.at + o.len <= u /\ o.at < u
  BY <1>d, <1>3, ObjectFacts
<1>4. p \notin objects
  BY <1>h, <1>3
<1>5. ASSUME NEW i \in 1 .. Len(segments')
      PROVE  /\ segments'[i].size = SegmentSize - Header
             /\ segments'[i].cap >= SegmentSize
             /\ segments'[i].used <= Header + (Cardinality(objects) + 1) * MaxLength
  <2>1. i \in 1 .. Len(segments)
    BY <1>2
  <2>2. CASE i = l
    BY <1>2, <1>e, <2>1, <2>2, SegmentFacts
  <2>3. CASE i # l
    <3>1. segments'[i] = segments[i]
      BY <1>2, <2>1, <2>3
    <3>2. PICK k \in Nat, v \in Nat : k = Cardinality(objects) /\ v = segments[i].used
      BY <1>a, <2>1, SegmentFacts
    <3>3. v <= Header + k * MaxLength
      BY <2>1, <3>2, SegmentFacts
    <3>4. v <= Header + (k + 1) * MaxLength
      <4>1. PICK x \in Nat : x = k * MaxLength
        OBVIOUS
      <4>2. (k + 1) * MaxLength = x + MaxLength
        BY <4>1
      <4> QED BY <1>a, <3>3, <4>1, <4>2
    <3> QED BY <2>1, <3>1, <3>2, <3>4, SegmentFacts
  <2> QED BY <2>2, <2>3
<1>6. \A i \in 1 .. Len(segments) :
        segments'[i].cap = segments[i].cap /\ segments'[i].used >= segments[i].used
  <2>1. ASSUME NEW i \in 1 .. Len(segments)
        PROVE  segments'[i].cap = segments[i].cap /\ segments'[i].used >= segments[i].used
    <3>1. segments[i].used \in Nat
      BY SegmentFacts
    <3> QED BY <1>2, <1>d, <3>1, SMTT(30)
  <2> QED BY <2>1
<1>7. segments[l].size < u \/ u + n <= segments[l].size
  <2>1. PICK s \in Nat : s = segments[l].size
    BY SegmentFacts
  <2>2. n <= (s - u) % SizeMax
    BY <1>b, <1>c, <1>d, <2>1 DEF Available, Current
  <2>3. CASE u <= s
    <3>1. PICK r \in Nat : r = s - u
      BY <2>3
    <3>2. r % SizeMax <= r
      BY <1>a
    <3>3. r % SizeMax \in Nat
      BY <1>a
    <3>4. n <= r
      BY <2>2, <3>1, <3>2, <3>3
    <3> QED BY <2>1, <3>1, <3>4
  <2> QED BY <2>1, <2>3
<1>8. u > segments[l].size => \E q \in objects : q.seg = l /\ FillsSegment(q)
  BY <1>d DEF ArenaInv, FullOnlyBehindLarge
<1>9. FullOnlyBehindLarge'
  <2>1. ASSUME NEW i \in 1 .. Len(segments), segments'[i].used > segments'[i].size
        PROVE  \E q \in objects : q.seg = i /\ FillsSegment(q)
    <3>1. CASE i = l
      <4>1. PICK s \in Nat : s = segments[l].size
        BY SegmentFacts
      <4>2. u + n > s
        BY <1>2, <2>1, <3>1, <4>1
      <4>3. u > s
        BY <1>7, <4>1, <4>2
      <4> QED BY <1>8, <3>1, <4>1, <4>3
    <3>2. CASE i # l
      BY <1>2, <2>1, <3>2 DEF ArenaInv, FullOnlyBehindLarge
    <3> QED BY <3>1, <3>2
  <2>2. objects \subseteq objects'
    OBVIOUS
  <2> QED BY <1>2, <2>1, <2>2 DEF FullOnlyBehindLarge, FillsSegment
<1>10. Overruns(p)' => \E q \in objects : q.seg = p.seg /\ FillsSegment(q)
  <2>1. /\ segments[l].cap \in Nat /\ segments[l].size \in Nat
        /\ segments[l].size = SegmentSize - Header /\ segments[l].cap >= SegmentSize
    BY SegmentFacts
  <2>2. Overruns(p)' => u + n > segments[l].cap
    BY <1>h, <1>2 DEF Overruns
  <2>3. Overruns(p)' => u > segments[l].size
    BY <1>a, <1>7, <2>1, <2>2, SMTT(30)
  <2> QED BY <1>h, <1>8, <2>3
<1>11. p.at + p.len <= segments'[p.seg].used
  BY <1>2, <1>h
<1>12. p \in [seg : 1 .. Len(segments'), at : Nat, len : Nat \ {0}]
  BY <1>2, <1>g
<1>13. \A o \in objects : o.seg = p.seg => o.at + o.len <= p.at
  BY <1>3, <1>h
<1>14. Len(segments) <= Len(segments')
  BY <1>a, <1>2
<1>15. ArenaInv'
  BY <1>2, <1>4, <1>5, <1>6, <1>9, <1>10, <1>11, <1>12, <1>13, <1>14, <1>f, PlaceInv
<1> QED BY <1>4, <1>15, <1>f

\* dfk_arena_alloc in a new segment: the object begins behind the header.
LEMMA PlaceFirst ==
  ASSUME ArenaInv, NEW n \in Nat, 0 < n, n <= MaxLength, MaxLength \in Nat,
         ~ Fits(n), objects' = objects \cup {Place(n)}, segments' = Grown(n),
         owc' \in Seq(objects')
  PROVE  ArenaInv' /\ Place(n) \notin objects
<1>a. /\ segments \in Seq(Segment) /\ Len(segments) \in Nat
      /\ IsFiniteSet(objects) /\ Cardinality(objects) \in Nat
      /\ SegmentSize \in Nat /\ Header \in Nat /\ 2 * Header < SegmentSize
  BY ArenaFacts
<1>b. PICK l \in Nat : l = Len(segments) + 1
  BY <1>a
<1>c. PICK p : p = Place(n)
  OBVIOUS
<1>d. p = [seg |-> l, at |-> Header, len |-> n]
  BY <1>b, <1>c DEF Place
<1>e. p.seg = l /\ p.at = Header /\ p.len = n
  BY <1>d
<1>1. NewSegment(n) \in Segment
  BY <1>a DEF NewSegment, Segment
<1>f. PICK new \in Segment : new = NewSegment(n)
  BY <1>1
<1>g. /\ new.cap \in Nat /\ new.size \in Nat /\ new.used \in Nat
      /\ new.size = SegmentSize - Header /\ new.cap >= SegmentSize
      /\ new.used = Header + n /\ new.cap >= n + Header
  BY <1>a, <1>f DEF NewSegment, Segment
<1>2. /\ segments' \in Seq(Segment) /\ Len(segments') = l /\ segments'[l] = new
      /\ \A i \in 1 .. Len(segments) : segments'[i] = segments[i]
  <2>1. segments' = Append(segments, new)
    BY <1>f DEF Grown
  <2> QED BY <1>a, <1>b, <2>1
<1>3. \A o \in objects : o.seg # l
  BY <1>a, <1>b, ObjectFacts
<1>4. p \notin objects
  BY <1>e, <1>3
<1>5. ASSUME NEW i \in 1 .. Len(segments')
      PROVE  /\ segments'[i].size = SegmentSize - Header
             /\ segments'[i].cap >= SegmentSize
             /\ segments'[i].used <= Header + (Cardinality(objects) + 1) * MaxLength
  <2>1. PICK k \in Nat : k = Cardinality(objects)
    BY <1>a
  <2>2. PICK x \in Nat : x = k * MaxLength
    OBVIOUS
  <2>3. (k + 1) * MaxLength = x + MaxLength
    BY <2>2
  <2>4. CASE i = l
    BY <1>a, <1>2, <1>g, <2>1, <2>3, <2>4
  <2>5. CASE i # l
    <3>0. Len(segments) \in Nat /\ l = Len(segments) + 1 /\ i \in 1 .. l
      BY <1>a, <1>b, <1>2, Zenon
    <3>a. i \in 1 .. Len(segments)
      BY <2>5, <3>0
    <3>1. i \in 1 .. Len(segments) /\ segments'[i] = segments[i]
      BY <1>2, <3>a, Zenon
    <3>2. PICK v \in Nat : v = segments[i].used /\ v <= Header + x
      BY <2>1, <2>2, <3>1, SegmentFacts
    <3>3. v <= Header + (x + MaxLength)
      <4>1. MaxLength \in Nat /\ Header \in Nat
        BY <1>a
      <4> QED BY <2>2, <3>2, <4>1
    <3> QED BY <2>1, <2>3, <3>1, <3>2, <3>3, SegmentFacts
  <2> QED BY <2>4, <2>5
<1>6. \A i \in 1 .. Len(segments) :
        segments'[i].cap = segments[i].cap /\ segments'[i].used >= segments[i].used
  <2>1. ASSUME NEW i \in 1 .. Len(segments)
        PROVE  segments'[i].cap = segments[i].cap /\ segments'[i].used >= segments[i].used
    <3>1. segments[i].used \in Nat
      BY SegmentFacts
    <3> QED BY <1>2, <3>1
  <2> QED BY <2>1
<1>7. FullOnlyBehindLarge'
  <2>1. ASSUME NEW i \in 1 .. Len(segments'), segments'[i].used > segments'[i].size
        PROVE  \E q \in objects' : q.seg = i /\ FillsSegment(q)
    <3>1. CASE i = l
      <4>1. Header + n > SegmentSize - Header
        BY <1>2, <1>g, <2>1, <3>1
      <4>2. FillsSegment(p)
        BY <1>e, <4>1 DEF FillsSegment
      <4> QED BY <1>c, <1>e, <3>1, <4>2
    <3>2. CASE i # l
      <4>1. i \in 1 .. Len(segments) /\ segments'[i] = segments[i]
        BY <1>a, <1>b, <1>2, <3>2
      <4> QED BY <2>1, <4>1 DEF ArenaInv, FullOnlyBehindLarge
    <3> QED BY <3>1, <3>2
  <2> QED BY <2>1 DEF FullOnlyBehindLarge, FillsSegment
<1>8. ~ Overruns(p)'
  <2>1. ~ (Header + n > new.cap)
    BY <1>a, <1>g
  <2> QED BY <1>e, <1>2, <2>1 DEF Overruns
<1>9. p.at + p.len <= segments'[p.seg].used
  BY <1>a, <1>2, <1>e, <1>g
<1>10. p \in [seg : 1 .. Len(segments'), at : Nat, len : Nat \ {0}]
  BY <1>a, <1>b, <1>2, <1>d
<1>11. Len(segments) <= Len(segments')
  BY <1>a, <1>b, <1>2
<1>12. ArenaInv'
  BY <1>2, <1>3, <1>4, <1>5, <1>6, <1>7, <1>8, <1>9, <1>10, <1>11, <1>c, <1>e, PlaceInv
<1> QED BY <1>4, <1>12, <1>c

\* dfk_arena_alloc keeps ArenaInv, in the current segment as in a new one.
LEMMA AllocInv ==
  ASSUME ArenaInv, NEW n \in Nat, 0 < n, n <= MaxLength, MaxLength \in Nat,
         Header + MaxObjects * MaxLength < SizeMax, Cardinality(objects) < MaxObjects,
         objects' = objects \cup {Place(n)}, segments' = Grown(n),
         owc' \in Seq(objects')
  PROVE  ArenaInv' /\ Place(n) \notin objects
BY PlaceBehind, PlaceFirst

\* ArenaInv holds in every state of the arena.
THEOREM ArenaInvariance == ArenaSpec => []ArenaInv
<1>1. ArenaInit => ArenaInv
  <2> SUFFICES ASSUME ArenaInit PROVE ArenaInv
    OBVIOUS
  <2>1. segments = << >> /\ objects = {} /\ owc = << >> /\ IsFiniteSet(objects)
    BY FS_EmptySet DEF ArenaInit
  <2> QED BY <2>1 DEF ArenaInv, ArenaTypeOK, SegmentsSound, BelowUsed, FullOnlyBehindLarge,
                      Disjoint, OverrunOnlyBehindLarge
<1>2. ASSUME ArenaInv, [ArenaNext]_arenaVars
      PROVE  ArenaInv'
  <2>1. ASSUME NEW n \in Sizes, Cardinality(objects) < MaxObjects, ArenaAlloc(n)
        PROVE  ArenaInv'
    <3>1. owc' \in Seq(objects')
      <4>1. owc \in Seq(objects) /\ owc' = owc /\ objects \subseteq objects'
        BY <1>2, <2>1 DEF ArenaAlloc, ArenaInv, ArenaTypeOK
      <4> QED BY <4>1
    <3> QED BY <1>2, <2>1, <3>1, LengthFacts, AllocInv DEF ArenaAlloc
  <2>2. ASSUME NEW n \in Sizes, Cardinality(objects) < MaxObjects, ArenaAllocEx(n)
        PROVE  ArenaInv'
    <3>1. PICK m \in Nat : m = OwcHeader + n /\ 0 < m /\ m <= MaxLength
      BY LengthFacts
    <3>2. /\ objects' = objects \cup {Place(m)} /\ segments' = Grown(m)
          /\ owc' = Append(owc, Place(m))
      BY <2>2, <3>1 DEF ArenaAllocEx
    <3>3. owc' \in Seq(objects')
      <4>1. owc \in Seq(objects) /\ objects \subseteq objects' /\ Place(m) \in objects'
        BY <1>2, <3>2 DEF ArenaInv, ArenaTypeOK
      <4>2. owc \in Seq(objects')
        BY <4>1
      <4> QED BY <3>2, <4>1, <4>2
    <3> QED BY <1>2, <2>2, <3>1, <3>2, <3>3, LengthFacts, AllocInv
  <2>3. CASE ArenaFree
    <3>1. segments' = << >> /\ objects' = {} /\ owc' = << >> /\ IsFiniteSet(objects')
      BY <2>3, FS_EmptySet DEF ArenaFree
    <3> QED BY <3>1 DEF ArenaInv, ArenaTypeOK, SegmentsSound, BelowUsed, FullOnlyBehindLarge,
                        Disjoint, OverrunOnlyBehindLarge
  <2>4. CASE UNCHANGED arenaVars
    BY <1>2, <2>4 DEF arenaVars, ArenaInv, ArenaTypeOK, SegmentsSound, BelowUsed,
                      FullOnlyBehindLarge, FillsSegment, Disjoint, OverrunOnlyBehindLarge, Overruns
  <2> QED BY <1>2, <2>1, <2>2, <2>3, <2>4 DEF ArenaNext
<1> QED BY <1>1, <1>2, PTL DEF ArenaSpec

\* No two objects of an arena share memory, whatever was asked of dfk_arena_alloc and its
\* variants, although the room left in a segment is computed with an unsigned difference
\* that wraps around.
THEOREM ArenaDisjoint == ArenaSpec => []Disjoint
BY ArenaInvariance, PTL DEF ArenaInv

\* dfk_arena_alloc hands out memory beyond a segment's block only behind an object that
\* filled the segment.
THEOREM ArenaOverrun == ArenaSpec => []OverrunOnlyBehindLarge
BY ArenaInvariance, PTL DEF ArenaInv

-----------------------------------------------------------------------------
(***************************************************************************)
(* Pointers.                                                               *)
(***************************************************************************)
\* XOR with NULL, and with the same pointer twice.
LEMMA XorNull ==
  ASSUME NEW a
  PROVE  PtrXor(a, NULL) = a /\ PtrXor(NULL, a) = a
BY DEF PtrXor, NULL

LEMMA XorTwice ==
  ASSUME NEW a, NEW b
  PROVE  PtrXor(a, PtrXor(a, b)) = b /\ PtrXor(PtrXor(a, b), a) = b /\ PtrXor(PtrXor(b, a), a) = b
BY DEF PtrXor

LEMMA XorFour ==
  ASSUME NEW a, NEW b, NEW c, NEW x, NEW y
  PROVE  /\ x = PtrXor(a, b) /\ y = PtrXor(c, a) => PtrXor(x, y) = PtrXor(c, b)
         /\ x = PtrXor(a, b) /\ y = PtrXor(c, b) => PtrXor(x, y) = PtrXor(a, c)
         /\ x = PtrXor(c, b) /\ y = PtrXor(c, a) => PtrXor(x, y) = PtrXor(a, b)
         /\ x = PtrXor(a, c) /\ y = PtrXor(c, b) => PtrXor(x, y) = PtrXor(a, b)
BY DEF PtrXor

\* The addresses of two hooks give none of a hook.
LEMMA XorOfTwo ==
  ASSUME NEW g, NEW h, g # h
  PROVE  PtrXor({g}, {h}) = {g, h}
BY DEF PtrXor

LEMMA DerefHook ==
  ASSUME NEW h \in Hooks
  PROVE  Valid({h}) /\ Deref({h}) = h /\ {h} # NULL /\ ~ Valid(NULL)
BY DEF Valid, Deref, NULL

LEMMA PtrCases ==
  ASSUME NEW q \in Seq(Hooks), NEW i \in Int
  PROVE  /\ i \in 1 .. Len(q) => Ptr(q, i) = {q[i]} /\ q[i] \in Hooks
         /\ i \notin 1 .. Len(q) => Ptr(q, i) = NULL
         /\ DOMAIN q = 1 .. Len(q) /\ Len(q) \in Nat
BY DEF Ptr

LEMMA PtrsDiffer ==
  ASSUME NEW q \in Seq(Hooks), IsInjective(q), NEW i \in 1 .. Len(q), NEW j \in Int, i # j
  PROVE  Ptr(q, i) # Ptr(q, j) /\ {q[i]} # Ptr(q, j)
<1>1. Ptr(q, i) = {q[i]} /\ i \in DOMAIN q /\ q[i] \in Hooks
  BY PtrCases
<1>2. CASE j \in 1 .. Len(q)
  <2>1. Ptr(q, j) = {q[j]} /\ q[i] # q[j]
    BY <1>1, <1>2, PtrCases DEF IsInjective
  <2> QED BY <1>1, <2>1
<1>3. CASE j \notin 1 .. Len(q)
  BY <1>1, <1>3, PtrCases, DerefHook
<1> QED BY <1>2, <1>3

LEMMA NodeFields ==
  ASSUME NEW l, NEW a, NEW b
  PROVE  /\ Node(l, b, a).list = l
         /\ MemoryOptimized => Node(l, b, a).p = PtrXor(b, a)
         /\ ~ MemoryOptimized => Node(l, b, a).next = a /\ Node(l, b, a).prev = b
BY DEF Node

\* r with field f set to v.
Put(r, f, v) == [r EXCEPT ![f] = v]

LEMMA NodeChanged ==
  ASSUME NEW l, NEW a, NEW b, NEW c
  PROVE  /\ MemoryOptimized => Put(Node(l, b, a), "p", c) = [p |-> c, list |-> l]
         /\ ~ MemoryOptimized => /\ Put(Node(l, b, a), "next", c) = Node(l, b, c)
                                 /\ Put(Node(l, b, a), "prev", c) = Node(l, c, a)
BY DEF Node, Put

-----------------------------------------------------------------------------
(***************************************************************************)
(* Insertion and removal in a chain of hooks.                              *)
(***************************************************************************)
IsPointer(p) == p = NULL \/ \E g \in Hooks : p = {g}

LEMMA StoreFacts ==
  ASSUME NEW hk, DOMAIN hk = Hooks, NEW p, IsPointer(p), NEW f, NEW v, NEW hk2, hk2 = Store(hk, p, f, v)
  PROVE  /\ DOMAIN hk2 = Hooks
         /\ \A g \in Hooks : hk2[g] = IF p = {g} THEN Put(hk[g], f, v) ELSE hk[g]
<1>1. CASE p = NULL
  <2>1. hk2 = hk
    BY <1>1 DEF Store
  <2> QED BY <1>1, <2>1, DerefHook
<1>2. CASE \E g \in Hooks : p = {g}
  <2>1. PICK e \in Hooks : p = {e}
    BY <1>2
  <2>2. hk2 = [hk EXCEPT ![e] = Put(hk[e], f, v)]
    BY <2>1, DerefHook DEF Store, Put
  <2>3. \A g \in Hooks : p = {g} <=> g = e
    BY <2>1
  <2> QED BY <2>1, <2>2, <2>3
<1> QED BY <1>1, <1>2 DEF IsPointer

\* What Link and Unlink do to the hooks: e is set, and a field of each neighbour.
Patched(hk, hk2, e, node, after, fa, va, before, fb, vb) ==
  /\ DOMAIN hk2 = Hooks /\ hk2[e] = node
  /\ \A g \in Hooks : g # e =>
       hk2[g] = IF before = {g} THEN Put(hk[g], fb, vb)
                ELSE IF after = {g} THEN Put(hk[g], fa, va) ELSE hk[g]

LEMMA PatchFacts ==
  ASSUME NEW hk, DOMAIN hk = Hooks, NEW e \in Hooks, NEW node, NEW after, IsPointer(after), NEW fa, NEW va,
         NEW before, IsPointer(before), NEW fb, NEW vb, before # after \/ before = NULL,
         NEW hk2, hk2 = [Store(Store(hk, after, fa, va), before, fb, vb) EXCEPT ![e] = node]
  PROVE  Patched(hk, hk2, e, node, after, fa, va, before, fb, vb)
<1>1. PICK x : x = Store(hk, after, fa, va)
  OBVIOUS
<1>2. PICK y : y = Store(x, before, fb, vb)
  OBVIOUS
<1>3. /\ DOMAIN x = Hooks
      /\ \A g \in Hooks : x[g] = IF after = {g} THEN Put(hk[g], fa, va) ELSE hk[g]
  BY <1>1, StoreFacts
<1>4. /\ DOMAIN y = Hooks
      /\ \A g \in Hooks : y[g] = IF before = {g} THEN Put(x[g], fb, vb) ELSE x[g]
  BY <1>2, <1>3, StoreFacts
<1>5. hk2 = [y EXCEPT ![e] = node]
  BY <1>1, <1>2
<1>6. DOMAIN hk2 = Hooks /\ hk2[e] = node /\ \A g \in Hooks : g # e => hk2[g] = y[g]
  BY <1>4, <1>5
<1>7. ASSUME NEW g \in Hooks, g # e
      PROVE  hk2[g] = IF before = {g} THEN Put(hk[g], fb, vb)
                      ELSE IF after = {g} THEN Put(hk[g], fa, va) ELSE hk[g]
  <2>1. CASE before = {g}
    <3>1. after # {g}
      BY <2>1, DerefHook
    <3>2. x[g] = hk[g]
      BY <1>3, <3>1
    <3> QED BY <1>4, <1>6, <1>7, <2>1, <3>2
  <2>2. CASE before # {g}
    BY <1>3, <1>4, <1>6, <1>7, <2>2, Zenon
  <2> QED BY <2>1, <2>2
<1> QED BY <1>6, <1>7 DEF Patched

\* q2 is q with h at position i, or without its element there.
Inserted(q, q2, i, h) ==
  /\ q2 \in Seq(Hooks) /\ Len(q2) = Len(q) + 1
  /\ q2[i] = h
  /\ \A k \in 1 .. i - 1 : q2[k] = q[k]
  /\ \A k \in i + 1 .. Len(q) + 1 : q2[k] = q[k - 1]

Removed(q, q2, i) ==
  /\ q2 \in Seq(Hooks) /\ Len(q2) = Len(q) - 1
  /\ \A k \in 1 .. i - 1 : q2[k] = q[k]
  /\ \A k \in i .. Len(q) - 1 : q2[k] = q[k + 1]

\* The hooks after an insertion in front of position i, and after a removal there.
Spliced(hk, hk2, l, q, i, h) ==
  /\ DOMAIN hk2 = Hooks
  /\ hk2[h] = Node(l, Ptr(q, i - 1), Ptr(q, i))
  /\ i \in 1 .. Len(q) => hk2[q[i]] = Node(l, {h}, Ptr(q, i + 1))
  /\ i - 1 \in 1 .. Len(q) => hk2[q[i - 1]] = Node(l, Ptr(q, i - 2), {h})
  /\ \A g \in Hooks : g # h /\ {g} # Ptr(q, i - 1) /\ {g} # Ptr(q, i) => hk2[g] = hk[g]

Cut(hk, hk2, l, q, i) ==
  /\ DOMAIN hk2 = Hooks /\ hk2[q[i]] = ErasedHook
  /\ i - 1 \in 1 .. Len(q) => hk2[q[i - 1]] = Node(l, Ptr(q, i - 2), Ptr(q, i + 1))
  /\ i + 1 \in 1 .. Len(q) => hk2[q[i + 1]] = Node(l, Ptr(q, i - 1), Ptr(q, i + 2))
  /\ \A g \in Hooks : g # q[i] /\ {g} # Ptr(q, i - 1) /\ {g} # Ptr(q, i + 1) => hk2[g] = hk[g]

\* The pointers of q2 in terms of those of q.
LEMMA InsertedPtrs ==
  ASSUME NEW q \in Seq(Hooks), NEW i \in 1 .. Len(q) + 1, NEW h, NEW q2, Inserted(q, q2, i, h)
  PROVE  \A k \in Int : Ptr(q2, k) = IF k < i THEN Ptr(q, k) ELSE IF k = i THEN {h} ELSE Ptr(q, k - 1)
<1> SUFFICES ASSUME NEW k \in Int
             PROVE  Ptr(q2, k) = IF k < i THEN Ptr(q, k) ELSE IF k = i THEN {h} ELSE Ptr(q, k - 1)
  OBVIOUS
<1>1. /\ Len(q) \in Nat /\ DOMAIN q = 1 .. Len(q) /\ DOMAIN q2 = 1 .. Len(q) + 1
      /\ q2[i] = h
      /\ k \in 1 .. i - 1 => q2[k] = q[k]
      /\ k \in i + 1 .. Len(q) + 1 => q2[k] = q[k - 1]
  BY DEF Inserted
<1>2. CASE k < i
  <2>1. (k \in DOMAIN q2 <=> k \in DOMAIN q) /\ (k \in DOMAIN q => q2[k] = q[k])
    BY <1>1, <1>2
  <2> QED BY <1>2, <2>1 DEF Ptr
<1>3. CASE k = i
  <2>1. k \in DOMAIN q2 /\ ~ (k < i)
    BY <1>1, <1>3
  <2> QED BY <1>1, <1>3, <2>1 DEF Ptr
<1>4. CASE k > i
  <2>1. (k \in DOMAIN q2 <=> k - 1 \in DOMAIN q) /\ (k - 1 \in DOMAIN q => q2[k] = q[k - 1])
    BY <1>1, <1>4
  <2>2. ~ (k < i) /\ k # i
    BY <1>4
  <2> QED BY <2>1, <2>2 DEF Ptr
<1> QED BY <1>2, <1>3, <1>4

LEMMA RemovedPtrs ==
  ASSUME NEW q \in Seq(Hooks), NEW i \in 1 .. Len(q), NEW q2, Removed(q, q2, i)
  PROVE  \A k \in Int : Ptr(q2, k) = IF k < i THEN Ptr(q, k) ELSE Ptr(q, k + 1)
<1> SUFFICES ASSUME NEW k \in Int
             PROVE  Ptr(q2, k) = IF k < i THEN Ptr(q, k) ELSE Ptr(q, k + 1)
  OBVIOUS
<1>1. /\ Len(q) \in Nat /\ DOMAIN q = 1 .. Len(q) /\ DOMAIN q2 = 1 .. Len(q) - 1
  BY DEF Removed
<1>a. /\ k \in 1 .. i - 1 => q2[k] = q[k]
      /\ k \in i .. Len(q) - 1 => q2[k] = q[k + 1]
  BY DEF Removed
<1>2. CASE k < i
  <2>1. (k \in DOMAIN q2 <=> k \in DOMAIN q) /\ (k \in DOMAIN q => q2[k] = q[k])
    BY <1>1, <1>a, <1>2
  <2> QED BY <1>2, <2>1 DEF Ptr
<1>3. CASE ~ (k < i)
  <2>1. (k \in DOMAIN q2 <=> k + 1 \in DOMAIN q) /\ (k + 1 \in DOMAIN q => q2[k] = q[k + 1])
    BY <1>1, <1>a, <1>3
  <2> QED BY <1>3, <2>1 DEF Ptr
<1> QED BY <1>2, <1>3

LEMMA PtrNull ==
  ASSUME NEW q \in Seq(Hooks), NEW i \in Int
  PROVE  Ptr(q, i) = NULL <=> i \notin 1 .. Len(q)
<1>1. CASE i \in 1 .. Len(q)
  <2>1. Ptr(q, i) = {q[i]} /\ q[i] \in Hooks
    BY <1>1, PtrCases
  <2> QED BY <1>1, <2>1, DerefHook, Zenon
<1>2. CASE i \notin 1 .. Len(q)
  BY <1>2, PtrCases
<1> QED BY <1>1, <1>2

\* The list's own fields.
LEMMA InsertedHeader ==
  ASSUME NEW q \in Seq(Hooks), NEW i \in 1 .. Len(q) + 1, NEW h, NEW q2, Inserted(q, q2, i, h),
         NEW before, before = Ptr(q, i - 1), NEW after, after = Ptr(q, i), NEW old, old = HeaderOf(q), NEW new,
         new = [head |-> IF before = NULL THEN {h} ELSE old.head,
                tail |-> IF after = NULL THEN {h} ELSE old.tail, size |-> old.size + 1]
  PROVE  new = HeaderOf(q2)
<1>1. Len(q) \in Nat /\ i \in Int /\ i - 1 \in Int /\ Len(q) + 1 \in Int
  OBVIOUS
<1>2. \A k \in Int : Ptr(q2, k) = IF k < i THEN Ptr(q, k) ELSE IF k = i THEN {h} ELSE Ptr(q, k - 1)
  BY InsertedPtrs
<1>3. (before = NULL <=> i = 1) /\ (after = NULL <=> i = Len(q) + 1)
  BY <1>1, PtrNull
<1>4. Ptr(q2, 1) = IF i = 1 THEN {h} ELSE Ptr(q, 1)
  BY <1>1, <1>2
<1>5. Ptr(q2, Len(q) + 1) = IF i = Len(q) + 1 THEN {h} ELSE Ptr(q, Len(q))
  <2>1. ~ (Len(q) + 1 < i) /\ (Len(q) + 1) - 1 = Len(q)
    BY <1>1
  <2> QED BY <1>1, <1>2, <2>1
<1>6. old.head = Ptr(q, 1) /\ old.tail = Ptr(q, Len(q)) /\ old.size = Len(q)
  BY DEF HeaderOf
<1>7. Len(q2) = Len(q) + 1
  BY DEF Inserted
<1>8. (IF before = NULL THEN {h} ELSE old.head) = Ptr(q2, 1)
  BY <1>3, <1>4, <1>6
<1>9. (IF after = NULL THEN {h} ELSE old.tail) = Ptr(q2, Len(q2))
  BY <1>3, <1>5, <1>6, <1>7
<1>10. old.size + 1 = Len(q2)
  BY <1>6, <1>7
<1> QED BY <1>8, <1>9, <1>10, Zenon DEF HeaderOf

LEMMA RemovedHeader ==
  ASSUME NEW q \in Seq(Hooks), NEW i \in 1 .. Len(q), NEW q2, Removed(q, q2, i),
         NEW before, before = Ptr(q, i - 1), NEW after, after = Ptr(q, i + 1), NEW old, old = HeaderOf(q), NEW new,
         new = [head |-> IF before = NULL THEN after ELSE old.head,
                tail |-> IF after = NULL THEN before ELSE old.tail, size |-> old.size - 1]
  PROVE  new = HeaderOf(q2)
<1>1. Len(q) \in Nat /\ i \in Int /\ i - 1 \in Int /\ i + 1 \in Int /\ Len(q) - 1 \in Int
  OBVIOUS
<1>2. \A k \in Int : Ptr(q2, k) = IF k < i THEN Ptr(q, k) ELSE Ptr(q, k + 1)
  BY RemovedPtrs
<1>3. (before = NULL <=> i = 1) /\ (after = NULL <=> i = Len(q))
  BY <1>1, PtrNull
<1>4. Ptr(q2, 1) = IF i = 1 THEN Ptr(q, i + 1) ELSE Ptr(q, 1)
  <2>1. Ptr(q2, 1) = IF 1 < i THEN Ptr(q, 1) ELSE Ptr(q, 1 + 1)
    BY <1>2
  <2>2. (1 < i <=> i # 1) /\ (i = 1 => i + 1 = 1 + 1)
    BY <1>1
  <2> QED BY <2>1, <2>2, Zenon
<1>5. Ptr(q2, Len(q) - 1) = IF i = Len(q) THEN Ptr(q, i - 1) ELSE Ptr(q, Len(q))
  <2>1. (Len(q) - 1 < i <=> i = Len(q)) /\ (Len(q) - 1) + 1 = Len(q)
    BY <1>1
  <2> QED BY <1>1, <1>2, <2>1
<1>6. old.head = Ptr(q, 1) /\ old.tail = Ptr(q, Len(q)) /\ old.size = Len(q)
  BY DEF HeaderOf
<1>7. Len(q2) = Len(q) - 1
  BY DEF Removed
<1>8. (IF before = NULL THEN after ELSE old.head) = Ptr(q2, 1)
  BY <1>3, <1>4, <1>6
<1>9. (IF after = NULL THEN before ELSE old.tail) = Ptr(q2, Len(q2))
  BY <1>3, <1>5, <1>6, <1>7
<1>10. old.size - 1 = Len(q2)
  BY <1>6, <1>7
<1> QED BY <1>8, <1>9, <1>10, Zenon DEF HeaderOf

LEMMA InsertedInjective ==
  ASSUME NEW q \in Seq(Hooks), IsInjective(q), NEW i \in 1 .. Len(q) + 1, NEW h, NEW q2, Inserted(q, q2, i, h),
         \A k \in DOMAIN q : q[k] # h
  PROVE  IsInjective(q2)
<1> SUFFICES ASSUME NEW a \in DOMAIN q2, NEW b \in DOMAIN q2, q2[a] = q2[b], a < b PROVE FALSE
  BY DEF IsInjective, Inserted
<1>1. DOMAIN q = 1 .. Len(q) /\ Len(q) \in Nat /\ DOMAIN q2 = 1 .. Len(q) + 1
  BY DEF Inserted
<1>2. \A k \in 1 .. i - 1 : q2[k] = q[k] /\ k \in DOMAIN q
  BY <1>1 DEF Inserted
<1>3. \A k \in i + 1 .. Len(q) + 1 : q2[k] = q[k - 1] /\ k - 1 \in DOMAIN q
  BY <1>1 DEF Inserted
<1>4. q2[i] = h
  BY DEF Inserted
<1>5. CASE b < i
  BY <1>1, <1>2, <1>5 DEF IsInjective
<1>6. CASE b = i
  BY <1>1, <1>2, <1>4, <1>6
<1>7. CASE b > i /\ a < i
  BY <1>1, <1>2, <1>3, <1>7 DEF IsInjective
<1>8. CASE b > i /\ a = i
  <2>0. b \in i + 1 .. Len(q) + 1
    BY <1>1, <1>8
  <2>1. q2[b] = q[b - 1] /\ b - 1 \in DOMAIN q /\ q2[a] = h
    BY <1>3, <1>4, <1>8, <2>0
  <2>2. q[b - 1] # h
    BY <2>1
  <2> QED BY <2>1, <2>2
<1>9. CASE a > i
  BY <1>1, <1>3, <1>9 DEF IsInjective
<1> QED BY <1>1, <1>5, <1>6, <1>7, <1>8, <1>9

LEMMA RemovedInjective ==
  ASSUME NEW q \in Seq(Hooks), IsInjective(q), NEW i \in 1 .. Len(q), NEW q2, Removed(q, q2, i)
  PROVE  IsInjective(q2) /\ \A k \in DOMAIN q2 : q2[k] # q[i]
<1>1. DOMAIN q = 1 .. Len(q) /\ Len(q) \in Nat /\ DOMAIN q2 = 1 .. Len(q) - 1
  BY DEF Removed
<1>2. \A k \in DOMAIN q2 : \E m \in DOMAIN q : q2[k] = q[m] /\ m = (IF k < i THEN k ELSE k + 1)
  BY <1>1 DEF Removed
<1> QED BY <1>1, <1>2 DEF IsInjective

\* Link puts h in front of position i.
LEMMA LinkSplices ==
  ASSUME NEW hk, DOMAIN hk = Hooks, NEW l, NEW q \in Seq(Hooks), IsInjective(q), Chain(hk, l, q),
         NEW i \in 1 .. Len(q) + 1, NEW h \in Hooks, \A k \in DOMAIN q : q[k] # h,
         NEW before, before = Ptr(q, i - 1), NEW after, after = Ptr(q, i), NEW fa, NEW va, NEW fb, NEW vb, NEW hk2,
         Patched(hk, hk2, h, Node(l, before, after), after, fa, va, before, fb, vb),
         i \in 1 .. Len(q) => Put(hk[q[i]], fa, va) = Node(l, {h}, Ptr(q, i + 1)),
         i - 1 \in 1 .. Len(q) => Put(hk[q[i - 1]], fb, vb) = Node(l, Ptr(q, i - 2), {h})
  PROVE  Spliced(hk, hk2, l, q, i, h)
<1>1. DOMAIN q = 1 .. Len(q) /\ Len(q) \in Nat /\ i \in Int /\ i - 1 \in Int
  OBVIOUS
<1>2. /\ DOMAIN hk2 = Hooks /\ hk2[h] = Node(l, before, after)
      /\ \A g \in Hooks : g # h =>
           hk2[g] = IF before = {g} THEN Put(hk[g], fb, vb)
                    ELSE IF after = {g} THEN Put(hk[g], fa, va) ELSE hk[g]
  BY Zenon DEF Patched
<1>3. ASSUME i \in 1 .. Len(q) PROVE hk2[q[i]] = Node(l, {h}, Ptr(q, i + 1))
  <2>1. q[i] \in Hooks /\ q[i] # h /\ after = {q[i]} /\ before # {q[i]}
    BY <1>1, <1>3, PtrCases, PtrsDiffer
  <2> QED BY <1>2, <1>3, <2>1, Zenon
<1>4. ASSUME i - 1 \in 1 .. Len(q) PROVE hk2[q[i - 1]] = Node(l, Ptr(q, i - 2), {h})
  <2>1. q[i - 1] \in Hooks /\ q[i - 1] # h /\ before = {q[i - 1]}
    BY <1>1, <1>4, PtrCases
  <2> QED BY <1>2, <1>4, <2>1, Zenon
<1>5. \A g \in Hooks : g # h /\ {g} # Ptr(q, i - 1) /\ {g} # Ptr(q, i) => hk2[g] = hk[g]
  BY <1>2, Zenon
<1>6. hk2[h] = Node(l, Ptr(q, i - 1), Ptr(q, i))
  BY <1>2, Zenon
<1> QED BY <1>2, <1>3, <1>4, <1>5, <1>6, Zenon DEF Spliced

\* The hooks in a chain, as fields.
LEMMA ChainNode ==
  ASSUME NEW hk, NEW l, NEW q \in Seq(Hooks), Chain(hk, l, q), NEW i \in 1 .. Len(q),
         NEW a, a = i - 1, NEW b, b = i + 1
  PROVE  q[i] \in Hooks /\ hk[q[i]] = Node(l, Ptr(q, a), Ptr(q, b))
BY DEF Chain

LEMMA PtrIsPointer ==
  ASSUME NEW q \in Seq(Hooks), NEW i \in Int
  PROVE  IsPointer(Ptr(q, i))
BY PtrCases DEF IsPointer

LEMMA NodeIs ==
  ASSUME NEW l, NEW a, NEW b, MemoryOptimized
  PROVE  Node(l, b, a) = [p |-> PtrXor(b, a), list |-> l]
BY DEF Node

\* A node of the XOR layout whose pointer is replaced.
LEMMA NodeToggled ==
  ASSUME MemoryOptimized, NEW l, NEW a, NEW b, NEW c, NEW d, NEW n, n = Node(l, b, a), NEW v, v = PtrXor(c, d)
  PROVE  n.p = PtrXor(b, a) /\ Put(n, "p", v) = Node(l, c, d)
<1>1. PICK x, y : x = PtrXor(b, a) /\ y = PtrXor(c, d)
  OBVIOUS
<1>2. n = [p |-> x, list |-> l] /\ Node(l, c, d) = [p |-> y, list |-> l]
  BY <1>1, NodeIs, Zenon
<1>3. n.p = x /\ Put(n, "p", y) = [p |-> y, list |-> l]
  BY <1>2 DEF Put
<1> QED BY <1>1, <1>2, <1>3, Zenon

LEMMA NodeLinked ==
  ASSUME ~ MemoryOptimized, NEW l, NEW a, NEW b, NEW n, n = Node(l, b, a), NEW c
  PROVE  Put(n, "next", c) = Node(l, b, c) /\ Put(n, "prev", c) = Node(l, c, a)
<1>1. /\ Put(Node(l, b, a), "next", c) = Node(l, b, c)
      /\ Put(Node(l, b, a), "prev", c) = Node(l, c, a)
  BY NodeChanged
<1> QED BY <1>1, Zenon

LEMMA LinkHooks ==
  ASSUME DOMAIN hook = Hooks, NEW l, NEW q \in Seq(Hooks), IsInjective(q), Chain(hook, l, q),
         NEW i \in 1 .. Len(q) + 1, NEW h \in Hooks, \A k \in DOMAIN q : q[k] # h,
         NEW before, before = Ptr(q, i - 1), NEW after, after = Ptr(q, i), Link(l, h, before, after)
  PROVE  Spliced(hook, hook', l, q, i, h)
<1>1. DOMAIN q = 1 .. Len(q) /\ Len(q) \in Nat /\ i \in Int /\ i - 1 \in Int
  OBVIOUS
<1>2. IsPointer(before) /\ IsPointer(after) /\ (before # after \/ before = NULL)
  <2>1. IsPointer(before) /\ IsPointer(after)
    BY <1>1, PtrIsPointer
  <2>2. CASE i - 1 \in 1 .. Len(q)
    BY <1>1, <2>1, <2>2, PtrsDiffer
  <2>3. CASE i - 1 \notin 1 .. Len(q)
    BY <1>1, <2>1, <2>3, PtrCases
  <2> QED BY <2>2, <2>3
<1>3. PICK node : node = Node(l, before, after)
  OBVIOUS
<1>4. CASE ~ MemoryOptimized
  <2>1. hook' = [Store(Store(hook, after, "prev", {h}), before, "next", {h}) EXCEPT ![h] = node]
    BY <1>3, <1>4, Zenon DEF Link
  <2>2. Patched(hook, hook', h, node, after, "prev", {h}, before, "next", {h})
    BY <1>2, <2>1, PatchFacts
  <2>3. ASSUME i \in 1 .. Len(q) PROVE Put(hook[q[i]], "prev", {h}) = Node(l, {h}, Ptr(q, i + 1))
    <3>1. hook[q[i]] = Node(l, Ptr(q, i - 1), Ptr(q, i + 1))
      BY <2>3, ChainNode
    <3> QED BY <1>4, <3>1, NodeLinked
  <2>4. ASSUME i - 1 \in 1 .. Len(q) PROVE Put(hook[q[i - 1]], "next", {h}) = Node(l, Ptr(q, i - 2), {h})
    <3>1. hook[q[i - 1]] = Node(l, Ptr(q, i - 2), Ptr(q, i))
      BY <2>4, ChainNode
    <3> QED BY <1>4, <3>1, NodeLinked
  <2> QED BY <1>3, <2>2, <2>3, <2>4, LinkSplices
<1>5. CASE MemoryOptimized
  <2>1. PICK va : va = PtrXor(hook[Deref(after)].p, PtrXor({h}, before))
    OBVIOUS
  <2>2. PICK x : x = Store(hook, after, "p", va)
    OBVIOUS
  <2>3. PICK vb : vb = PtrXor(x[Deref(before)].p, PtrXor({h}, after))
    OBVIOUS
  <2>4. hook' = [Store(x, before, "p", vb) EXCEPT ![h] = node]
    BY <1>3, <1>5, <2>1, <2>2, <2>3 DEF Link, Store
  <2>5. Patched(hook, hook', h, node, after, "p", va, before, "p", vb)
    BY <1>2, <2>2, <2>4, PatchFacts
  <2>6. ASSUME i \in 1 .. Len(q) PROVE Put(hook[q[i]], "p", va) = Node(l, {h}, Ptr(q, i + 1))
    <3>1. hook[q[i]] = Node(l, before, Ptr(q, i + 1)) /\ q[i] \in Hooks
      BY <2>6, ChainNode
    <3>2. after = {q[i]} /\ Deref(after) = q[i]
      BY <1>1, <2>6, <3>1, PtrCases, DerefHook
    <3>3. va = PtrXor(PtrXor(before, Ptr(q, i + 1)), PtrXor({h}, before))
      BY <1>5, <2>1, <3>1, <3>2, NodeToggled
    <3>4. va = PtrXor({h}, Ptr(q, i + 1))
      BY <3>3, XorFour
    <3> QED BY <1>5, <3>1, <3>4, NodeToggled
  <2>7. ASSUME i - 1 \in 1 .. Len(q) PROVE Put(hook[q[i - 1]], "p", vb) = Node(l, Ptr(q, i - 2), {h})
    <3>1. hook[q[i - 1]] = Node(l, Ptr(q, i - 2), after) /\ q[i - 1] \in Hooks
      BY <2>7, ChainNode
    <3>2. before = {q[i - 1]} /\ Deref(before) = q[i - 1] /\ before # NULL
      BY <1>1, <2>7, <3>1, PtrCases, DerefHook
    <3>3. x[q[i - 1]] = hook[q[i - 1]]
      <4>1. after # {q[i - 1]}
        BY <1>2, <3>2
      <4>2. \A g \in Hooks : x[g] = IF after = {g} THEN Put(hook[g], "p", va) ELSE hook[g]
        BY <1>2, <2>2, StoreFacts
      <4> QED BY <3>1, <4>1, <4>2, Zenon
    <3>4. vb = PtrXor(PtrXor(Ptr(q, i - 2), after), PtrXor({h}, after))
      BY <1>5, <2>3, <3>1, <3>2, <3>3, NodeToggled
    <3>5. vb = PtrXor(Ptr(q, i - 2), {h})
      BY <3>4, XorFour
    <3> QED BY <1>5, <3>1, <3>5, NodeToggled
  <2> QED BY <1>3, <2>5, <2>6, <2>7, LinkSplices
<1> QED BY <1>4, <1>5

\* What Unlink does to the hooks, in both layouts.
LEMMA UnlinkHooks ==
  ASSUME DOMAIN hook = Hooks, NEW l, NEW q \in Seq(Hooks), IsInjective(q), Chain(hook, l, q),
         NEW i \in 1 .. Len(q), NEW it, it.value = {q[i]},
         NEW before, before = Ptr(q, i - 1), NEW after, after = Ptr(q, i + 1), Unlink(l, it, before, after)
  PROVE  Cut(hook, hook', l, q, i)
<1>1. DOMAIN q = 1 .. Len(q) /\ Len(q) \in Nat /\ i \in Int /\ i - 1 \in Int /\ i + 1 \in Int /\ i - 1 # i + 1
  OBVIOUS
<1>2. IsPointer(before) /\ IsPointer(after) /\ (before # after \/ before = NULL)
  <2>1. IsPointer(before) /\ IsPointer(after)
    BY <1>1, PtrIsPointer
  <2>2. CASE i - 1 \in 1 .. Len(q)
    BY <1>1, <2>1, <2>2, PtrsDiffer
  <2>3. CASE i - 1 \notin 1 .. Len(q)
    BY <1>1, <2>1, <2>3, PtrCases
  <2> QED BY <2>2, <2>3
<1>3. PICK e \in Hooks : e = q[i] /\ Deref(it.value) = e /\ it.value = {e}
  BY <1>1, PtrCases, DerefHook
<1> DEFINE Mended(fa, fb, va, vb) ==
      /\ Patched(hook, hook', e, ErasedHook, after, fa, va, before, fb, vb)
      /\ i + 1 \in 1 .. Len(q) => Put(hook[q[i + 1]], fa, va) = Node(l, before, Ptr(q, i + 2))
      /\ i - 1 \in 1 .. Len(q) => Put(hook[q[i - 1]], fb, vb) = Node(l, Ptr(q, i - 2), after)
<1>4. \E fa, fb, va, vb : Mended(fa, fb, va, vb)
  <2>0. /\ i + 1 \in 1 .. Len(q) => hook[q[i + 1]] = Node(l, {e}, Ptr(q, i + 2)) /\ q[i + 1] \in Hooks
        /\ i - 1 \in 1 .. Len(q) => hook[q[i - 1]] = Node(l, Ptr(q, i - 2), {e}) /\ q[i - 1] \in Hooks
    <3>1. ASSUME i + 1 \in 1 .. Len(q)
          PROVE  hook[q[i + 1]] = Node(l, {e}, Ptr(q, i + 2)) /\ q[i + 1] \in Hooks
      <4>1. hook[q[i + 1]] = Node(l, Ptr(q, i), Ptr(q, i + 2)) /\ q[i + 1] \in Hooks /\ Ptr(q, i) = {e}
        BY <1>1, <1>3, <3>1, ChainNode, PtrCases
      <4> QED BY <4>1, Zenon
    <3>2. ASSUME i - 1 \in 1 .. Len(q)
          PROVE  hook[q[i - 1]] = Node(l, Ptr(q, i - 2), {e}) /\ q[i - 1] \in Hooks
      <4>1. hook[q[i - 1]] = Node(l, Ptr(q, i - 2), Ptr(q, i)) /\ q[i - 1] \in Hooks /\ Ptr(q, i) = {e}
        BY <1>1, <1>3, <3>2, ChainNode, PtrCases
      <4> QED BY <4>1, Zenon
    <3> QED BY <3>1, <3>2
  <2>1. CASE ~ MemoryOptimized
    <3>1. hook' = [Store(Store(hook, after, "prev", before), before, "next", after) EXCEPT ![e] = ErasedHook]
      BY <1>3, <2>1 DEF Unlink, Store
    <3>2. Patched(hook, hook', e, ErasedHook, after, "prev", before, before, "next", after)
      BY <1>2, <3>1, PatchFacts
    <3>3. i + 1 \in 1 .. Len(q) => Put(hook[q[i + 1]], "prev", before) = Node(l, before, Ptr(q, i + 2))
      BY <2>0, <2>1, NodeLinked
    <3>4. i - 1 \in 1 .. Len(q) => Put(hook[q[i - 1]], "next", after) = Node(l, Ptr(q, i - 2), after)
      BY <2>0, <2>1, NodeLinked
    <3>5. Mended("prev", "next", before, after)
      BY <3>2, <3>3, <3>4, Zenon
    <3> QED BY <3>5, Zenon
  <2>2. CASE MemoryOptimized
    <3>1. PICK va : va = PtrXor(hook[Deref(after)].p, PtrXor(it.value, before))
      OBVIOUS
    <3>2. PICK x : x = Store(hook, after, "p", va)
      OBVIOUS
    <3>3. PICK vb : vb = PtrXor(x[Deref(before)].p, PtrXor(it.value, after))
      OBVIOUS
    <3>4. hook' = [Store(x, before, "p", vb) EXCEPT ![e] = ErasedHook]
      <4>1. PICK y : y = IF after = NULL THEN hook
                         ELSE Store(hook, after, "p", PtrXor(hook[Deref(after)].p, PtrXor(it.value, before)))
        OBVIOUS
      <4>2. hook' = [(IF before = NULL THEN y
                      ELSE Store(y, before, "p", PtrXor(y[Deref(before)].p, PtrXor(it.value, after))))
                     EXCEPT ![Deref(it.value)] = ErasedHook]
        BY <2>2, <4>1, Zenon DEF Unlink
      <4>3. y = x
        BY <3>1, <3>2, <4>1, Zenon DEF Store
      <4>4. Store(x, before, "p", vb) = IF before = NULL THEN x ELSE Store(x, before, "p", vb)
        BY Zenon DEF Store
      <4> QED BY <1>3, <3>3, <4>2, <4>3, <4>4, Zenon
    <3>5. Patched(hook, hook', e, ErasedHook, after, "p", va, before, "p", vb)
      BY <1>2, <3>2, <3>4, PatchFacts
    <3>6. ASSUME i + 1 \in 1 .. Len(q) PROVE Put(hook[q[i + 1]], "p", va) = Node(l, before, Ptr(q, i + 2))
      <4>0. Ptr(q, i + 1) = {q[i + 1]} /\ q[i + 1] \in Hooks
        BY <1>1, <3>6, PtrCases
      <4>1. after = {q[i + 1]} /\ Deref(after) = q[i + 1]
        BY <4>0, DerefHook, Zenon
      <4>2. va = PtrXor(PtrXor({e}, Ptr(q, i + 2)), PtrXor({e}, before))
        BY <1>3, <2>0, <2>2, <3>1, <3>6, <4>1, NodeToggled
      <4>3. va = PtrXor(before, Ptr(q, i + 2))
        BY <4>2, XorFour
      <4>4. hook[q[i + 1]] = Node(l, {e}, Ptr(q, i + 2))
        BY <2>0, <3>6, Zenon
      <4> QED BY <2>2, <4>3, <4>4, NodeToggled, SMTT(30)
    <3>7. ASSUME i - 1 \in 1 .. Len(q) PROVE Put(hook[q[i - 1]], "p", vb) = Node(l, Ptr(q, i - 2), after)
      <4>0. Ptr(q, i - 1) = {q[i - 1]} /\ q[i - 1] \in Hooks
        BY <1>1, <3>7, PtrCases
      <4>1. before = {q[i - 1]} /\ Deref(before) = q[i - 1] /\ before # NULL
        BY <4>0, DerefHook, Zenon
      <4>2. x[q[i - 1]] = hook[q[i - 1]]
        <5>1. after # {q[i - 1]}
          BY <1>2, <4>1
        <5>2. \A g \in Hooks : x[g] = IF after = {g} THEN Put(hook[g], "p", va) ELSE hook[g]
          BY <1>2, <3>2, StoreFacts
        <5> QED BY <2>0, <3>7, <5>1, <5>2, Zenon
      <4>3. vb = PtrXor(PtrXor(Ptr(q, i - 2), {e}), PtrXor({e}, after))
        BY <1>3, <2>0, <2>2, <3>3, <3>7, <4>1, <4>2, NodeToggled
      <4>4. vb = PtrXor(Ptr(q, i - 2), after)
        BY <4>3, XorFour
      <4>5. hook[q[i - 1]] = Node(l, Ptr(q, i - 2), {e})
        BY <2>0, <3>7, Zenon
      <4> QED BY <2>2, <4>4, <4>5, NodeToggled, SMTT(30)
    <3>8. Mended("p", "p", va, vb)
      BY <3>5, <3>6, <3>7, Zenon
    <3> QED BY <3>8, Zenon
  <2> QED BY <2>1, <2>2
<1>a. PICK fa, fb, va, vb : Mended(fa, fb, va, vb)
  <2> HIDE DEF Mended
  <2> QED BY <1>4, Zenon
<1>5. /\ DOMAIN hook' = Hooks /\ hook'[q[i]] = ErasedHook
      /\ \A g \in Hooks : g # e =>
           hook'[g] = IF before = {g} THEN Put(hook[g], fb, vb)
                      ELSE IF after = {g} THEN Put(hook[g], fa, va) ELSE hook[g]
  BY <1>3, <1>a, Zenon DEF Patched
<1>6. ASSUME i - 1 \in 1 .. Len(q) PROVE hook'[q[i - 1]] = Node(l, Ptr(q, i - 2), after)
  <2>1. q[i - 1] \in Hooks /\ before = {q[i - 1]} /\ q[i - 1] # e
    BY <1>1, <1>3, <1>6, PtrCases DEF IsInjective
  <2> QED BY <1>a, <1>5, <1>6, <2>1, Zenon
<1>7. ASSUME i + 1 \in 1 .. Len(q) PROVE hook'[q[i + 1]] = Node(l, before, Ptr(q, i + 2))
  <2>0. i + 1 \in DOMAIN q /\ i \in DOMAIN q /\ i + 1 # i
    BY <1>1, <1>7
  <2>a. q[i + 1] # e
    BY <1>3, <2>0 DEF IsInjective
  <2>b. q[i + 1] \in Hooks /\ Ptr(q, i + 1) = {q[i + 1]}
    BY <1>1, <1>7, PtrCases
  <2>c. {q[i + 1]} # Ptr(q, i - 1)
    BY <1>1, <1>7, PtrsDiffer
  <2>1. q[i + 1] \in Hooks /\ after = {q[i + 1]} /\ q[i + 1] # e /\ before # {q[i + 1]}
    BY <2>a, <2>b, <2>c, Zenon
  <2> QED BY <1>a, <1>5, <1>7, <2>1, Zenon
<1>8. \A g \in Hooks : g # q[i] /\ {g} # Ptr(q, i - 1) /\ {g} # Ptr(q, i + 1) => hook'[g] = hook[g]
  BY <1>3, <1>5, Zenon
<1> QED BY <1>5, <1>6, <1>7, <1>8, Zenon DEF Cut

\* The chain after an insertion.
LEMMA InsertChain ==
  ASSUME NEW hk, NEW hk2, NEW l, NEW q \in Seq(Hooks), IsInjective(q), Chain(hk, l, q),
         NEW i \in 1 .. Len(q) + 1, NEW h \in Hooks, \A k \in DOMAIN q : q[k] # h, Spliced(hk, hk2, l, q, i, h),
         NEW q2, Inserted(q, q2, i, h)
  PROVE  Chain(hk2, l, q2)
<1> SUFFICES ASSUME NEW k \in DOMAIN q2 PROVE hk2[q2[k]] = Node(l, Ptr(q2, k - 1), Ptr(q2, k + 1))
  BY DEF Chain
<1>1. Len(q) \in Nat /\ DOMAIN q = 1 .. Len(q) /\ DOMAIN q2 = 1 .. Len(q) + 1 /\ i \in Int /\ k \in Int
  BY DEF Inserted
<1>2. \A j \in Int : Ptr(q2, j) = IF j < i THEN Ptr(q, j) ELSE IF j = i THEN {h} ELSE Ptr(q, j - 1)
  BY InsertedPtrs
<1>3. \A g \in Hooks : g # h /\ {g} # Ptr(q, i - 1) /\ {g} # Ptr(q, i) => hk2[g] = hk[g]
  BY DEF Spliced
<1>4. CASE k = i
  <2>1. q2[k] = h /\ hk2[h] = Node(l, Ptr(q, i - 1), Ptr(q, i))
    BY <1>4 DEF Inserted, Spliced
  <2>2. Ptr(q2, k - 1) = Ptr(q, i - 1) /\ Ptr(q2, k + 1) = Ptr(q, i)
    BY <1>1, <1>2, <1>4
  <2> QED BY <2>1, <2>2
<1>5. CASE k = i - 1
  <2>1. q2[k] = q[i - 1] /\ hk2[q[i - 1]] = Node(l, Ptr(q, i - 2), {h})
    BY <1>1, <1>5 DEF Inserted, Spliced
  <2>2. Ptr(q2, k - 1) = Ptr(q, i - 2) /\ Ptr(q2, k + 1) = {h}
    BY <1>1, <1>2, <1>5
  <2> QED BY <2>1, <2>2
<1>6. CASE k = i + 1
  <2>1. q2[k] = q[i] /\ hk2[q[i]] = Node(l, {h}, Ptr(q, i + 1))
    BY <1>1, <1>6 DEF Inserted, Spliced
  <2>2. Ptr(q2, k - 1) = {h} /\ Ptr(q2, k + 1) = Ptr(q, i + 1)
    BY <1>1, <1>2, <1>6
  <2> QED BY <2>1, <2>2
<1>7. CASE k < i - 1
  <2>1. k \in 1 .. Len(q) /\ q2[k] = q[k]
    BY <1>1, <1>7 DEF Inserted
  <2>2. q[k] \in Hooks /\ hk[q[k]] = Node(l, Ptr(q, k - 1), Ptr(q, k + 1)) /\ q[k] # h
    BY <1>1, <2>1, ChainNode
  <2>3. {q[k]} # Ptr(q, i - 1) /\ {q[k]} # Ptr(q, i)
    <3>1. i \in Int /\ i - 1 \in Int /\ k # i /\ k # i - 1
      BY <1>1, <1>7
    <3> QED BY <2>1, <3>1, PtrsDiffer
  <2>4. hk2[q[k]] = hk[q[k]]
    BY <1>3, <2>2, <2>3
  <2>5. Ptr(q2, k - 1) = Ptr(q, k - 1) /\ Ptr(q2, k + 1) = Ptr(q, k + 1)
    BY <1>1, <1>2, <1>7
  <2> QED BY <2>1, <2>2, <2>4, <2>5
<1>8. CASE k > i + 1
  <2>0. PICK j : j = k - 1
    OBVIOUS
  <2>1. j \in 1 .. Len(q) /\ q2[k] = q[j]
    <3>1. j \in 1 .. Len(q) /\ k \in i + 1 .. Len(q) + 1
      BY <1>1, <1>8, <2>0
    <3> QED BY <2>0, <3>1, Zenon DEF Inserted
  <2>2. q[j] \in Hooks /\ hk[q[j]] = Node(l, Ptr(q, j - 1), Ptr(q, j + 1)) /\ q[j] # h
    BY <1>1, <2>1, ChainNode
  <2>3. {q[j]} # Ptr(q, i - 1) /\ {q[j]} # Ptr(q, i)
    <3>1. i \in Int /\ i - 1 \in Int /\ j # i /\ j # i - 1
      BY <1>1, <1>8, <2>0
    <3> QED BY <2>1, <3>1, PtrsDiffer
  <2>4. hk2[q[j]] = hk[q[j]]
    BY <1>3, <2>2, <2>3
  <2>5. Ptr(q2, k - 1) = Ptr(q, j - 1) /\ Ptr(q2, k + 1) = Ptr(q, j + 1)
    BY <1>1, <1>2, <1>8, <2>0
  <2> QED BY <2>1, <2>2, <2>4, <2>5
<1> QED BY <1>1, <1>4, <1>5, <1>6, <1>7, <1>8

\* The chain after a removal.
LEMMA RemoveChain ==
  ASSUME NEW hk, NEW hk2, NEW l, NEW q \in Seq(Hooks), IsInjective(q), Chain(hk, l, q),
         NEW i \in 1 .. Len(q), Cut(hk, hk2, l, q, i), NEW q2, Removed(q, q2, i)
  PROVE  Chain(hk2, l, q2)
<1> SUFFICES ASSUME NEW k \in DOMAIN q2 PROVE hk2[q2[k]] = Node(l, Ptr(q2, k - 1), Ptr(q2, k + 1))
  BY DEF Chain
<1>1. Len(q) \in Nat /\ DOMAIN q = 1 .. Len(q) /\ DOMAIN q2 = 1 .. Len(q) - 1 /\ i \in Int /\ k \in Int
  BY DEF Removed
<1>2. \A j \in Int : Ptr(q2, j) = IF j < i THEN Ptr(q, j) ELSE Ptr(q, j + 1)
  BY RemovedPtrs
<1>3. \A g \in Hooks : g # q[i] /\ {g} # Ptr(q, i - 1) /\ {g} # Ptr(q, i + 1) => hk2[g] = hk[g]
  BY DEF Cut
<1>4. CASE k = i
  <2>1. q2[k] = q[i + 1] /\ hk2[q[i + 1]] = Node(l, Ptr(q, i - 1), Ptr(q, i + 2))
    BY <1>1, <1>4 DEF Removed, Cut
  <2>2. Ptr(q2, k - 1) = Ptr(q, i - 1) /\ Ptr(q2, k + 1) = Ptr(q, i + 2)
    BY <1>1, <1>2, <1>4
  <2> QED BY <2>1, <2>2
<1>5. CASE k = i - 1
  <2>1. q2[k] = q[i - 1] /\ hk2[q[i - 1]] = Node(l, Ptr(q, i - 2), Ptr(q, i + 1))
    BY <1>1, <1>5 DEF Removed, Cut
  <2>2. Ptr(q2, k - 1) = Ptr(q, i - 2) /\ Ptr(q2, k + 1) = Ptr(q, i + 1)
    BY <1>1, <1>2, <1>5
  <2> QED BY <2>1, <2>2
<1>6. ASSUME NEW j \in 1 .. Len(q), j # i - 1, j # i, j # i + 1
      PROVE  hk2[q[j]] = Node(l, Ptr(q, j - 1), Ptr(q, j + 1))
  <2>a. q[j] # q[i]
    BY <1>1, <1>6 DEF IsInjective
  <2>1. q[j] \in Hooks /\ hk[q[j]] = Node(l, Ptr(q, j - 1), Ptr(q, j + 1))
    BY <1>6, ChainNode
  <2>2. i - 1 \in Int /\ i + 1 \in Int
    BY <1>1
  <2>3. {q[j]} # Ptr(q, i - 1) /\ {q[j]} # Ptr(q, i + 1)
    BY <1>6, <2>2, PtrsDiffer
  <2> QED BY <1>3, <2>a, <2>1, <2>3
<1>7. CASE k < i - 1
  <2>1. k \in 1 .. Len(q) /\ q2[k] = q[k] /\ k # i - 1 /\ k # i /\ k # i + 1
    BY <1>1, <1>7 DEF Removed
  <2>2. Ptr(q2, k - 1) = Ptr(q, k - 1) /\ Ptr(q2, k + 1) = Ptr(q, k + 1)
    <3>1. k - 1 \in Int /\ k + 1 \in Int /\ k - 1 < i /\ k + 1 < i
      BY <1>1, <1>7
    <3> QED BY <1>2, <3>1, Zenon
  <2> QED BY <1>6, <2>1, <2>2, Zenon
<1>8. CASE k > i
  <2>1. PICK j : j = k + 1
    OBVIOUS
  <2>2. j \in 1 .. Len(q) /\ q2[k] = q[j] /\ j # i - 1 /\ j # i /\ j # i + 1
    BY <1>1, <1>8, <2>1 DEF Removed
  <2>3. Ptr(q2, k - 1) = Ptr(q, j - 1) /\ Ptr(q2, k + 1) = Ptr(q, j + 1)
    <3>1. k - 1 \in Int /\ k + 1 \in Int /\ ~ (k - 1 < i) /\ ~ (k + 1 < i) /\ (k - 1) + 1 = j - 1 /\ (k + 1) + 1 = j + 1
      BY <1>1, <1>8, <2>1
    <3> QED BY <1>2, <3>1, Zenon
  <2> QED BY <1>6, <2>2, <2>3, Zenon
<1> QED BY <1>1, <1>4, <1>5, <1>7, <1>8

-----------------------------------------------------------------------------
(***************************************************************************)
(* The steps of ListADT as insertions and removals.                        *)
(***************************************************************************)
LEMMA InsertAtInserts ==
  ASSUME NEW q \in Seq(Hooks), NEW i \in 1 .. Len(q) + 1, NEW h \in Hooks, NEW q2, q2 = InsertAt(q, i, h)
  PROVE  Inserted(q, q2, i, h)
<1>1. Len(q) \in Nat /\ i \in Int
  OBVIOUS
<1>2. PICK a : a = SubSeq(q, 1, i - 1)
  OBVIOUS
<1>3. PICK b : b = SubSeq(q, i, Len(q))
  OBVIOUS
<1>4. a \in Seq(Hooks) /\ Len(a) = i - 1 /\ \A k \in 1 .. i - 1 : a[k] = q[k]
  BY <1>1, <1>2
<1>5. b \in Seq(Hooks) /\ Len(b) = Len(q) - i + 1 /\ \A k \in 1 .. Len(q) - i + 1 : b[k] = q[i + k - 1]
  BY <1>1, <1>3
<1>6. PICK c : c = a \o << h >>
  OBVIOUS
<1>7. c \in Seq(Hooks) /\ Len(c) = i /\ c[i] = h /\ \A k \in 1 .. i - 1 : c[k] = q[k]
  BY <1>1, <1>4, <1>6
<1>8. q2 = c \o b
  BY <1>2, <1>3, <1>6 DEF InsertAt
<1>9. /\ q2 \in Seq(Hooks) /\ Len(q2) = Len(q) + 1
      /\ \A k \in 1 .. i : q2[k] = c[k]
      /\ \A k \in i + 1 .. Len(q) + 1 : q2[k] = b[k - i]
  <2>1. PICK m : m = Len(q) - i + 1
    OBVIOUS
  <2>2. Joined(q2, c, b, i, m, Hooks)
    BY <1>5, <1>7, <1>8, <2>1, ConcatFacts
  <2>3. /\ q2 \in Seq(Hooks) /\ Len(q2) = i + m
        /\ \A k \in 1 .. i : q2[k] = c[k]
        /\ \A k \in 1 .. m : q2[i + k] = b[k]
    BY <2>2 DEF Joined
  <2>4. ASSUME NEW k \in i + 1 .. Len(q) + 1 PROVE q2[k] = b[k - i]
    <3>1. k - i \in 1 .. m /\ i + (k - i) = k
      BY <1>1, <2>1
    <3> QED BY <2>3, <3>1
  <2> QED BY <1>1, <2>1, <2>3, <2>4
<1>10. \A k \in i + 1 .. Len(q) + 1 : k - i \in 1 .. Len(q) - i + 1 /\ i + (k - i) - 1 = k - 1
  BY <1>1
<1>11. \A k \in i + 1 .. Len(q) + 1 : b[k - i] = q[k - 1]
  BY <1>5, <1>10
<1>12. \A k \in 1 .. i - 1 : k \in 1 .. i
  BY <1>1
<1> QED BY <1>1, <1>7, <1>9, <1>11, <1>12 DEF Inserted

LEMMA PushInserts ==
  ASSUME NEW q \in Seq(Hooks), NEW h \in Hooks
  PROVE  Inserted(q, Append(q, h), Len(q) + 1, h) /\ Inserted(q, << h >> \o q, 1, h)
BY DEF Inserted

LEMMA RemoveAtRemoves ==
  ASSUME NEW q \in Seq(Hooks), NEW i \in 1 .. Len(q), NEW q2, q2 = RemoveAt(q, i)
  PROVE  Removed(q, q2, i)
<1>1. Len(q) \in Nat /\ i \in Int
  OBVIOUS
<1>2. PICK a : a = SubSeq(q, 1, i - 1)
  OBVIOUS
<1>3. PICK b : b = SubSeq(q, i + 1, Len(q))
  OBVIOUS
<1>4. a \in Seq(Hooks) /\ Len(a) = i - 1 /\ \A k \in 1 .. i - 1 : a[k] = q[k]
  BY <1>1, <1>2
<1>5. b \in Seq(Hooks) /\ Len(b) = Len(q) - i /\ \A k \in 1 .. Len(q) - i : b[k] = q[i + k]
  BY <1>1, <1>3
<1>6. q2 = a \o b
  BY <1>2, <1>3 DEF RemoveAt
<1>7. /\ q2 \in Seq(Hooks) /\ Len(q2) = Len(q) - 1
      /\ \A k \in 1 .. i - 1 : q2[k] = a[k]
      /\ \A k \in i .. Len(q) - 1 : q2[k] = b[k - (i - 1)]
  <2>1. PICK m, n : m = Len(q) - i /\ n = i - 1
    OBVIOUS
  <2>2. Joined(q2, a, b, n, m, Hooks)
    BY <1>4, <1>5, <1>6, <2>1, ConcatFacts
  <2>3. /\ q2 \in Seq(Hooks) /\ Len(q2) = n + m
        /\ \A k \in 1 .. n : q2[k] = a[k]
        /\ \A k \in 1 .. m : q2[n + k] = b[k]
    BY <2>2 DEF Joined
  <2>4. ASSUME NEW k \in i .. Len(q) - 1 PROVE q2[k] = b[k - (i - 1)]
    <3>1. k - (i - 1) \in 1 .. m /\ n + (k - (i - 1)) = k
      BY <1>1, <2>1
    <3> QED BY <2>3, <3>1
  <2> QED BY <1>1, <2>1, <2>3, <2>4
<1>8. \A k \in i .. Len(q) - 1 : k - (i - 1) \in 1 .. Len(q) - i /\ i + (k - (i - 1)) = k + 1
  BY <1>1
<1> QED BY <1>4, <1>5, <1>7, <1>8 DEF Removed

LEMMA PopRemoves ==
  ASSUME NEW q \in Seq(Hooks), q # <<>>
  PROVE  Removed(q, Tail(q), 1) /\ Removed(q, Front(q), Len(q))
<1>1. Len(q) \in Nat /\ Len(q) # 0
  OBVIOUS
<1>2. Removed(q, Tail(q), 1)
  <2>1. /\ Tail(q) \in Seq(Hooks) /\ Len(Tail(q)) = Len(q) - 1
        /\ \A i \in 1 .. Len(Tail(q)) : Tail(q)[i] = q[i + 1]
    BY HeadTailProperties
  <2> QED BY <1>1, <2>1 DEF Removed
<1>3. Removed(q, Front(q), Len(q))
  <2>1. PICK n \in Nat : n = Len(q) - 1
    BY <1>1
  <2>2. PICK p : p = SubSeq(q, 1, n)
    OBVIOUS
  <2>3. Front(q) = p
    BY <2>1, <2>2 DEF Front
  <2>4. p \in Seq(Hooks) /\ Len(p) = n /\ \A i \in 1 .. n : p[i] = q[i]
    BY <1>1, <2>1, <2>2
  <2>5. Removed(q, p, Len(q))
    BY <1>1, <2>1, <2>4 DEF Removed
  <2> QED BY <2>3, <2>5
<1> QED BY <1>2, <1>3

-----------------------------------------------------------------------------
(***************************************************************************)
(* Iteration.                                                              *)
(***************************************************************************)
\* The iterator at position j of the sequence r.
Iter(r, j) == [prev |-> IF MemoryOptimized THEN Ptr(r, j - 1) ELSE NULL, value |-> Ptr(r, j)]

\* A list has no more elements than there are hooks.
LEMMA NoMoreThanHooks ==
  ASSUME NEW r \in Seq(Hooks), IsInjective(r)
  PROVE  Cardinality(Hooks) \in Nat /\ Len(r) <= Cardinality(Hooks) /\ Len(r) \in Nat
<1>1. IsFiniteSet(Hooks) /\ Cardinality(Hooks) \in Nat
  BY ListAssumption, FS_CardinalityType
<1>2. Len(r) \in Nat /\ r \in [1 .. Len(r) -> Hooks]
  OBVIOUS
<1>3. r \in Injection(1 .. Len(r), Hooks)
  BY <1>2 DEF Injection
<1>5. Cardinality(1 .. Len(r)) <= Cardinality(Hooks)
  BY <1>1, <1>3, FS_Injection
<1>6. Cardinality(1 .. Len(r)) = Len(r)
  <2>1. Cardinality(1 .. Len(r)) = IF 1 > Len(r) THEN 0 ELSE Len(r) - 1 + 1
    BY <1>2, FS_Interval
  <2> QED BY <1>2, <2>1
<1> QED BY <1>1, <1>2, <1>5, <1>6

\* The iterators of a loop from start, as Walk defines them.
Walking(its, start, f) ==
  its = [n \in 0 .. Cardinality(Hooks) |->
           IF n = 0 THEN start
           ELSE IF Valid(its[n - 1].value) THEN Advance(its[n - 1], f) ELSE its[n - 1]]

\* The loop goes through those of its that are valid.
Walked(its, start, f) ==
  Walk(start, f) = [n \in 1 .. Cardinality({m \in 0 .. Cardinality(Hooks) : Valid(its[m].value)}) |-> its[n - 1]]

LEMMA WalkDef ==
  ASSUME NEW start, NEW f, NEW g, Walking(g, start, f)
  PROVE  \E its : Walking(its, start, f) /\ Walked(its, start, f)
<1> DEFINE its == CHOOSE x : x = [n \in 0 .. Cardinality(Hooks) |->
                    IF n = 0 THEN start
                    ELSE IF Valid(x[n - 1].value) THEN Advance(x[n - 1], f) ELSE x[n - 1]]
<1>1. \E x : x = [n \in 0 .. Cardinality(Hooks) |->
                    IF n = 0 THEN start
                    ELSE IF Valid(x[n - 1].value) THEN Advance(x[n - 1], f) ELSE x[n - 1]]
  BY Zenon DEF Walking
<1>2. its = [n \in 0 .. Cardinality(Hooks) |->
               IF n = 0 THEN start
               ELSE IF Valid(its[n - 1].value) THEN Advance(its[n - 1], f) ELSE its[n - 1]]
  BY <1>1, Zenon
<1>3. Walk(start, f) =
        [n \in 1 .. Cardinality({m \in 0 .. Cardinality(Hooks) : Valid(its[m].value)}) |-> its[n - 1]]
  BY Zenon DEF Walk
<1> HIDE DEF its
<1>4. Walking(its, start, f) /\ Walked(its, start, f)
  BY <1>2, <1>3, Zenon DEF Walking, Walked
<1> QED BY <1>4, Zenon

\* A loop whose steps go from each position of r to the next one visits r.
LEMMA WalkVisits ==
  ASSUME NEW r \in Seq(Hooks), IsInjective(r), NEW start, start = Iter(r, 1), NEW f,
         \A j \in 1 .. Len(r) : Advance(Iter(r, j), f) = Iter(r, j + 1)
  PROVE  Walk(start, f) = [k \in 1 .. Len(r) |-> Iter(r, k)]
<1>1. PICK N \in Nat, n \in Nat : N = Cardinality(Hooks) /\ n = Len(r) /\ n <= N
  BY NoMoreThanHooks
<1>2. \A j \in 1 .. n : Valid(Iter(r, j).value)
  BY <1>1, PtrCases, DerefHook DEF Iter
<1>3. ~ Valid(Iter(r, n + 1).value)
  <2>1. Ptr(r, n + 1) = NULL
    BY <1>1, PtrCases
  <2> QED BY <2>1 DEF Iter, Valid, NULL
<1>4. PICK g : g = [k \in 0 .. N |-> Iter(r, IF k <= n THEN k + 1 ELSE n + 1)]
  OBVIOUS
<1>5. \A k \in 0 .. N : g[k] = Iter(r, IF k <= n THEN k + 1 ELSE n + 1)
  BY <1>4
<1>6. ASSUME NEW k \in 0 .. N, k # 0
      PROVE  /\ Valid(g[k - 1].value) => g[k] = Advance(g[k - 1], f)
             /\ ~ Valid(g[k - 1].value) => g[k] = g[k - 1]
             /\ Valid(g[k - 1].value) <=> k <= n
  <2>1. k - 1 \in 0 .. N
    BY <1>6
  <2>2. CASE k <= n
    <3>1. k - 1 <= n /\ (k - 1) + 1 = k /\ k \in 1 .. n
      BY <1>6, <2>2
    <3>2. g[k - 1] = Iter(r, k) /\ g[k] = Iter(r, k + 1)
      BY <1>5, <2>1, <2>2, <3>1
    <3> QED BY <1>1, <1>2, <2>2, <3>1, <3>2
  <2>3. CASE k > n
    <3>1. g[k] = Iter(r, n + 1)
      BY <1>5, <2>3
    <3>2. g[k - 1] = Iter(r, n + 1)
      <4>1. CASE k - 1 <= n
        <5>1. (k - 1) + 1 = n + 1
          BY <1>6, <2>3, <4>1
        <5> QED BY <1>5, <2>1, <4>1, <5>1
      <4>2. CASE ~ (k - 1 <= n)
        BY <1>5, <2>1, <4>2
      <4> QED BY <4>1, <4>2
    <3> QED BY <1>3, <2>3, <3>1, <3>2
  <2> QED BY <2>2, <2>3
<1>7. g[0] = start
  BY <1>5
<1>8. Walking(g, start, f)
  <2>1. \A k \in 0 .. N : g[k] = IF k = 0 THEN start
                                 ELSE IF Valid(g[k - 1].value) THEN Advance(g[k - 1], f) ELSE g[k - 1]
    BY <1>6, <1>7
  <2>2. g = [k \in 0 .. N |-> g[k]]
    BY <1>4
  <2> QED BY <1>1, <2>1, <2>2 DEF Walking
<1>a. PICK its : Walking(its, start, f) /\ Walked(its, start, f)
  BY <1>8, WalkDef, Zenon
<1>9. /\ Walking(its, start, f)
      /\ Walk(start, f) = [k \in 1 .. Cardinality({m \in 0 .. N : Valid(its[m].value)}) |-> its[k - 1]]
  BY <1>1, <1>a, Zenon DEF Walked
<1>10. \A k \in 0 .. N : its[k] = IF k = 0 THEN start
                                  ELSE IF Valid(its[k - 1].value) THEN Advance(its[k - 1], f) ELSE its[k - 1]
  BY <1>1, <1>9 DEF Walking
<1>11. \A k \in 0 .. N : its[k] = g[k]
  <2> DEFINE S == {k \in Nat : k \in 0 .. N => its[k] = g[k]}
  <2>1. 0 \in S
    BY <1>7, <1>10
  <2>2. ASSUME NEW k \in Nat, k \in S PROVE k + 1 \in S
    <3> SUFFICES ASSUME k + 1 \in 0 .. N PROVE its[k + 1] = g[k + 1]
      OBVIOUS
    <3>1. k \in 0 .. N /\ (k + 1) - 1 = k /\ k + 1 # 0
      OBVIOUS
    <3>2. its[k] = g[k]
      BY <2>2, <3>1
    <3>3. its[k + 1] = IF Valid(its[k].value) THEN Advance(its[k], f) ELSE its[k]
      BY <1>10, <3>1, Zenon
    <3>4. /\ Valid(g[k].value) => g[k + 1] = Advance(g[k], f)
          /\ ~ Valid(g[k].value) => g[k + 1] = g[k]
      BY <1>6, <3>1, Zenon
    <3> QED BY <3>2, <3>3, <3>4, Zenon
  <2>3. \A k \in Nat : k \in S
    <3> HIDE DEF S
    <3> QED BY <2>1, <2>2, Induct
  <2> QED BY <2>3
<1>12. {m \in 0 .. N : Valid(its[m].value)} = 0 .. n - 1
  <2>1. ASSUME NEW m \in 0 .. N PROVE Valid(its[m].value) <=> m < n
    <3>1. CASE m < n
      <4>1. g[m] = Iter(r, m + 1) /\ m + 1 \in 1 .. n
        BY <1>5, <3>1
      <4> QED BY <1>2, <1>11, <3>1, <4>1
    <3>2. CASE ~ (m < n)
      <4>1. g[m] = Iter(r, n + 1)
        <5>1. CASE m <= n
          <6>1. m = n
            BY <3>2, <5>1
          <6> QED BY <1>5, <6>1
        <5>2. CASE ~ (m <= n)
          BY <1>5, <5>2
        <5> QED BY <5>1, <5>2
      <4> QED BY <1>3, <1>11, <3>2, <4>1
    <3> QED BY <3>1, <3>2
  <2>2. \A m \in 0 .. n - 1 : m \in 0 .. N /\ m < n
    BY <1>1
  <2>3. \A m \in 0 .. N : m < n => m \in 0 .. n - 1
    BY <1>1
  <2> QED BY <2>1, <2>2, <2>3, Zenon
<1>13. Cardinality(0 .. n - 1) = n
  <2>1. PICK m \in Int : m = n - 1
    OBVIOUS
  <2>2. Cardinality(0 .. m) = IF 0 > m THEN 0 ELSE m - 0 + 1
    BY FS_Interval
  <2> QED BY <2>1, <2>2
<1>14. Walk(start, f) = [k \in 1 .. n |-> its[k - 1]]
  BY <1>9, <1>12, <1>13, Zenon
<1>15. ASSUME NEW k \in 1 .. n PROVE its[k - 1] = Iter(r, k)
  <2>1. k - 1 \in 0 .. N /\ k - 1 <= n /\ (k - 1) + 1 = k
    BY <1>1
  <2>2. g[k - 1] = Iter(r, k)
    BY <1>5, <2>1
  <2> QED BY <1>11, <2>1, <2>2
<1> QED BY <1>1, <1>14, <1>15

LEMMA XorCommutes ==
  ASSUME NEW a, NEW b
  PROVE  PtrXor(a, b) = PtrXor(b, a)
BY DEF PtrXor

LEMMA IterFields ==
  ASSUME NEW r, NEW j, NEW a, a = j - 1
  PROVE  /\ Iter(r, j).value = Ptr(r, j)
         /\ MemoryOptimized => Iter(r, j) = [prev |-> Ptr(r, a), value |-> Ptr(r, j)] /\ Iter(r, j).prev = Ptr(r, a)
         /\ ~ MemoryOptimized => Iter(r, j) = [prev |-> NULL, value |-> Ptr(r, j)]
BY DEF Iter

\* A step of a loop, from what the hook says about its neighbours.
LEMMA AdvanceAt ==
  ASSUME NEW r \in Seq(Hooks), NEW j \in 1 .. Len(r), NEW f,
         NEW a, a = Ptr(r, j - 1), NEW b, b = Ptr(r, j + 1), NEW h, h = hook[r[j]],
         MemoryOptimized => h.p = PtrXor(a, b),
         ~ MemoryOptimized => h[f] = b
  PROVE  Advance(Iter(r, j), f) = Iter(r, j + 1)
<1>1. j \in Int /\ (j + 1) - 1 = j /\ Ptr(r, j) = {r[j]} /\ r[j] \in Hooks
  BY PtrCases
<1>2. PICK it : it = Iter(r, j)
  OBVIOUS
<1>3. it.value = Ptr(r, j) /\ (MemoryOptimized => it.prev = a)
  BY <1>2, IterFields
<1>4. Deref(it.value) = r[j]
  BY <1>1, <1>3, DerefHook
<1>5. CASE MemoryOptimized
  <2>1. Advance(it, f) = [prev |-> it.value, value |-> PtrXor(it.prev, h.p)]
    BY <1>4, <1>5, Zenon DEF Advance
  <2>2. PtrXor(a, PtrXor(a, b)) = b
    BY XorTwice
  <2>3. Advance(it, f) = [prev |-> Ptr(r, j), value |-> b]
    BY <1>3, <1>5, <2>1, <2>2, Zenon
  <2>4. Iter(r, j + 1) = [prev |-> Ptr(r, j), value |-> b]
    <3>1. PICK k : k = j + 1 /\ j = k - 1
      BY <1>1
    <3>2. Iter(r, k) = [prev |-> Ptr(r, j), value |-> Ptr(r, k)]
      BY <1>5, <3>1, Zenon DEF Iter
    <3> QED BY <3>1, <3>2, Zenon
  <2> QED BY <1>2, <2>3, <2>4, Zenon
<1>6. CASE ~ MemoryOptimized
  <2>1. Advance(it, f) = [prev |-> NULL, value |-> h[f]]
    BY <1>4, <1>6, Zenon DEF Advance
  <2>2. Iter(r, j + 1) = [prev |-> NULL, value |-> b]
    BY <1>6, IterFields
  <2> QED BY <1>2, <1>6, <2>1, <2>2, Zenon
<1> QED BY <1>5, <1>6

\* r is q from the back.
Reversed(q, r) ==
  /\ r \in Seq(Hooks) /\ Len(r) = Len(q) /\ (IsInjective(q) => IsInjective(r))
  /\ \A j \in 1 .. Len(q) : r[j] = q[Len(q) + 1 - j]
  /\ \A j, k \in Int : k = Len(q) + 1 - j => Ptr(r, j) = Ptr(q, k)

LEMMA ReverseFacts ==
  ASSUME NEW q \in Seq(Hooks), NEW r, r = Reverse(q)
  PROVE  Reversed(q, r)
<1>1. Len(q) \in Nat /\ DOMAIN q = 1 .. Len(q)
  OBVIOUS
<1>2. r = [j \in 1 .. Len(q) |-> q[(Len(q) - j) + 1]]
  BY DEF Reverse
<1>3. \A j \in 1 .. Len(q) : (Len(q) - j) + 1 = Len(q) + 1 - j /\ Len(q) + 1 - j \in 1 .. Len(q)
  BY <1>1
<1>4. \A j \in 1 .. Len(q) : r[j] = q[Len(q) + 1 - j] /\ q[Len(q) + 1 - j] \in Hooks
  BY <1>1, <1>2, <1>3
<1>5. r \in Seq(Hooks) /\ Len(r) = Len(q) /\ DOMAIN r = 1 .. Len(q)
  <2>1. r \in [1 .. Len(q) -> Hooks]
    BY <1>2, <1>4, <1>3
  <2> QED BY <1>1, <2>1
<1>6. ASSUME NEW j \in Int, NEW k \in Int, k = Len(q) + 1 - j PROVE Ptr(r, j) = Ptr(q, k)
  <2>1. j \in DOMAIN r <=> k \in DOMAIN q
    BY <1>1, <1>5, <1>6
  <2>2. j \in DOMAIN r => r[j] = q[k]
    BY <1>4, <1>5, <1>6
  <2> QED BY <2>1, <2>2 DEF Ptr
<1>7. ASSUME IsInjective(q) PROVE IsInjective(r)
  <2> SUFFICES ASSUME NEW a \in DOMAIN r, NEW b \in DOMAIN r, r[a] = r[b] PROVE a = b
    BY DEF IsInjective
  <2>1. PICK c, d : c = Len(q) + 1 - a /\ d = Len(q) + 1 - b
    OBVIOUS
  <2>2. c \in DOMAIN q /\ d \in DOMAIN q /\ q[c] = q[d]
    BY <1>1, <1>3, <1>4, <1>5, <2>1
  <2>3. c = d
    BY <1>7, <2>2 DEF IsInjective
  <2> QED BY <1>1, <1>5, <2>1, <2>3
<1> QED BY <1>4, <1>5, <1>6, <1>7 DEF Reversed

\* What a list whose pointers are those of q shows when it is iterated over.
Shows(l, q) ==
  /\ ForwardWalk(l) = [k \in 1 .. Len(q) |-> Iter(q, k)]
  /\ BackwardWalk(l) = [k \in 1 .. Len(q) |-> Iter(Reverse(q), k)]
  /\ Forward(l) = q /\ Backward(l) = Reverse(q)

LEMMA WalkElements ==
  ASSUME NEW r \in Seq(Hooks), NEW w, w = [k \in 1 .. Len(r) |-> Iter(r, k)]
  PROVE  Elements(w) = r
<1>1. DOMAIN w = 1 .. Len(r) /\ DOMAIN r = 1 .. Len(r) /\ Len(r) \in Nat
  OBVIOUS
<1>2. ASSUME NEW k \in 1 .. Len(r) PROVE Deref(w[k].value) = r[k]
  <2>1. w[k].value = Ptr(r, k)
    BY IterFields
  <2>2. Ptr(r, k) = {r[k]} /\ r[k] \in Hooks
    BY <1>1, PtrCases
  <2> QED BY <2>1, <2>2, DerefHook
<1> QED BY <1>1, <1>2 DEF Elements

LEMMA Visits ==
  ASSUME NEW l, NEW q, Linked(list, hook, l, q)
  PROVE  Shows(l, q)
<1>1. /\ q \in Seq(Hooks) /\ IsInjective(q) /\ Chain(hook, l, q)
      /\ list[l].head = Ptr(q, 1) /\ list[l].tail = Ptr(q, Len(q)) /\ Len(q) \in Nat
  BY DEF Linked, HeaderOf
<1>2. PICK r : r = Reverse(q)
  OBVIOUS
<1>a. Reversed(q, r)
  BY <1>1, <1>2, ReverseFacts
<1>3. /\ r \in Seq(Hooks) /\ Len(r) = Len(q) /\ IsInjective(r)
      /\ \A j \in 1 .. Len(q) : r[j] = q[Len(q) + 1 - j]
      /\ \A j, k \in Int : k = Len(q) + 1 - j => Ptr(r, j) = Ptr(q, k)
  BY <1>1, <1>a DEF Reversed
<1>4. Begin(l) = Iter(q, 1) /\ RBegin(l) = Iter(r, 1)
  <2>1. Ptr(q, 0) = NULL /\ Ptr(r, 0) = NULL /\ Ptr(r, 1) = Ptr(q, Len(q))
    BY <1>1, <1>3, PtrCases
  <2>2. Iter(q, 1) = [prev |-> NULL, value |-> Ptr(q, 1)] /\ Iter(r, 1) = [prev |-> NULL, value |-> Ptr(r, 1)]
    BY <2>1, IterFields
  <2> QED BY <1>1, <2>1, <2>2, Zenon DEF Begin, RBegin
<1>5. ASSUME NEW j \in 1 .. Len(q) PROVE Advance(Iter(q, j), "next") = Iter(q, j + 1)
  <2>1. PICK a, b : a = Ptr(q, j - 1) /\ b = Ptr(q, j + 1)
    OBVIOUS
  <2>2. hook[q[j]] = Node(l, a, b)
    BY <1>1, <2>1, ChainNode
  <2>3. /\ MemoryOptimized => hook[q[j]].p = PtrXor(a, b)
        /\ ~ MemoryOptimized => hook[q[j]]["next"] = b
    BY <2>2, NodeFields
  <2> QED BY <1>1, <2>1, <2>3, AdvanceAt
<1>6. ASSUME NEW j \in 1 .. Len(r) PROVE Advance(Iter(r, j), "prev") = Iter(r, j + 1)
  <2>1. PICK a, b : a = Ptr(r, j - 1) /\ b = Ptr(r, j + 1)
    OBVIOUS
  <2>2. PICK i : i = Len(q) + 1 - j
    OBVIOUS
  <2>3. i \in 1 .. Len(q) /\ r[j] = q[i] /\ a = Ptr(q, i + 1) /\ b = Ptr(q, i - 1)
    <3>1. i \in 1 .. Len(q) /\ j \in 1 .. Len(q) /\ j - 1 \in Int /\ j + 1 \in Int /\ i - 1 \in Int /\ i + 1 \in Int
      BY <1>1, <1>3, <2>2
    <3>2. i + 1 = Len(q) + 1 - (j - 1) /\ i - 1 = Len(q) + 1 - (j + 1)
      BY <1>1, <1>3, <2>2
    <3> QED BY <1>3, <2>1, <2>2, <3>1, <3>2
  <2>4. hook[r[j]] = Node(l, b, a)
    BY <1>1, <2>3, ChainNode
  <2>5. /\ MemoryOptimized => hook[r[j]].p = PtrXor(a, b)
        /\ ~ MemoryOptimized => hook[r[j]]["prev"] = b
    BY <2>4, NodeFields, XorCommutes
  <2> QED BY <1>3, <2>1, <2>5, AdvanceAt
<1>7. ForwardWalk(l) = [k \in 1 .. Len(q) |-> Iter(q, k)]
  BY <1>1, <1>4, <1>5, WalkVisits DEF ForwardWalk
<1>8. BackwardWalk(l) = [k \in 1 .. Len(r) |-> Iter(r, k)]
  BY <1>3, <1>4, <1>6, WalkVisits DEF BackwardWalk
<1>9. Forward(l) = q /\ Backward(l) = r
  BY <1>1, <1>3, <1>7, <1>8, WalkElements DEF Forward, Backward
<1> QED BY <1>2, <1>3, <1>7, <1>8, <1>9 DEF Shows

\* The iterator dfk_list_it_from_value makes, and dfk_list_rit_from_value.
LEMMA FoundAt ==
  ASSUME NEW r \in Seq(Hooks), IsInjective(r), NEW i \in 1 .. Len(r), NEW w, w = [k \in 1 .. Len(r) |-> Iter(r, k)]
  PROVE  Found(w, r[i]) = Iter(r, i)
<1>1. DOMAIN w = 1 .. Len(r) /\ Len(r) \in Nat /\ Ptr(r, i) = {r[i]} /\ i \in Int
  BY PtrCases
<1>2. CASE MemoryOptimized
  <2>1. w[i].value = {r[i]}
    BY <1>1, IterFields
  <2>2. PICK n : n = CHOOSE x \in DOMAIN w : w[x].value = {r[i]}
    OBVIOUS
  <2>3. n \in DOMAIN w /\ w[n].value = {r[i]}
    BY <1>1, <2>1, <2>2
  <2>4. w[n] = Iter(r, n)
    BY <1>1, <2>3
  <2>5. Ptr(r, n) = {r[i]}
    BY <2>3, <2>4, IterFields
  <2>6. n = i
    BY <1>1, <2>3, <2>5, PtrsDiffer
  <2>7. Found(w, r[i]) = w[n]
    BY <1>2, <2>2, Zenon DEF Found
  <2> QED BY <2>4, <2>6, <2>7, Zenon
<1>3. CASE ~ MemoryOptimized
  BY <1>1, <1>3, IterFields DEF Found
<1> QED BY <1>2, <1>3

LEMMA Iterators ==
  ASSUME NEW l, NEW q, Linked(list, hook, l, q), NEW i \in 1 .. Len(q)
  PROVE  /\ ItFromValue(l, q[i]) = Iter(q, i)
         /\ RItFromValue(l, q[i]) =
              [prev |-> IF MemoryOptimized THEN Ptr(q, i + 1) ELSE NULL, value |-> {q[i]}]
<1>1. q \in Seq(Hooks) /\ IsInjective(q) /\ Len(q) \in Nat
  BY DEF Linked
<1>2. /\ ForwardWalk(l) = [k \in 1 .. Len(q) |-> Iter(q, k)]
      /\ BackwardWalk(l) = [k \in 1 .. Len(q) |-> Iter(Reverse(q), k)]
  BY Visits, Zenon DEF Shows
<1>3. ItFromValue(l, q[i]) = Iter(q, i)
  <2>1. PICK w : w = [k \in 1 .. Len(q) |-> Iter(q, k)]
    OBVIOUS
  <2>2. Found(w, q[i]) = Iter(q, i)
    BY <1>1, <2>1, FoundAt
  <2> QED BY <1>2, <2>1, <2>2, Zenon DEF ItFromValue
<1>4. PICK r : r = Reverse(q)
  OBVIOUS
<1>5. Reversed(q, r)
  BY <1>1, <1>4, ReverseFacts
<1>6. /\ r \in Seq(Hooks) /\ Len(r) = Len(q) /\ IsInjective(r)
      /\ \A j \in 1 .. Len(q) : r[j] = q[Len(q) + 1 - j]
      /\ \A j, k \in Int : k = Len(q) + 1 - j => Ptr(r, j) = Ptr(q, k)
  BY <1>1, <1>5 DEF Reversed
<1>7. PICK j : j = Len(q) + 1 - i
  OBVIOUS
<1>8. j \in 1 .. Len(q) /\ i = Len(q) + 1 - j /\ i + 1 = Len(q) + 1 - (j - 1)
  BY <1>1, <1>7
<1>9. r[j] = q[i] /\ Ptr(r, j) = {q[i]} /\ Ptr(r, j - 1) = Ptr(q, i + 1)
  <2>1. r[j] = q[i]
    BY <1>6, <1>8
  <2>2. Ptr(r, j) = {r[j]}
    BY <1>6, <1>8, PtrCases
  <2>3. j - 1 \in Int /\ i + 1 \in Int
    BY <1>1, <1>8
  <2> QED BY <1>6, <1>8, <2>1, <2>2, <2>3
<1>10. RItFromValue(l, q[i]) = Iter(r, j)
  <2>1. PICK w : w = [k \in 1 .. Len(q) |-> Iter(r, k)]
    OBVIOUS
  <2>2. Found(w, r[j]) = Iter(r, j)
    BY <1>6, <1>8, <2>1, FoundAt
  <2>3. BackwardWalk(l) = w
    BY <1>2, <1>4, <2>1, Zenon
  <2> QED BY <1>9, <2>2, <2>3, Zenon DEF RItFromValue
<1>11. Iter(r, j) = [prev |-> IF MemoryOptimized THEN Ptr(q, i + 1) ELSE NULL, value |-> {q[i]}]
  BY <1>9, Zenon DEF Iter
<1> QED BY <1>3, <1>10, <1>11, Zenon

-----------------------------------------------------------------------------
(***************************************************************************)
(* The operations.  Every one but dfk_list_rerase in the XOR layout leaves *)
(* the pointers those of the sequences.                                    *)
(***************************************************************************)
Sound ==
  /\ DOMAIN list = Lists /\ DOMAIN hook = Hooks /\ DOMAIN seq = Lists
  /\ \A h \in Hooks : hook[h] \in HookType
  /\ \A m \in Lists : Linked(list, hook, m, seq[m])

Mended ==
  /\ DOMAIN list' = Lists /\ DOMAIN hook' = Hooks /\ DOMAIN seq' = Lists
  /\ \A h \in Hooks : hook'[h] \in HookType
  /\ undefined' = undefined
  /\ \A m \in Lists : Linked(list', hook', m, seq'[m])

\* The types of the hooks that the operations leave.
LEMMA NodeTyped ==
  ASSUME NEW l \in Lists, NEW a, IsPointer(a), NEW b, IsPointer(b), NEW n, n = Node(l, b, a)
  PROVE  n \in HookType
<1>1. a \in Pointer /\ b \in Pointer /\ PtrXor(b, a) \in SUBSET Hooks
  BY DEF IsPointer, Pointer, PtrXor, NULL
<1>2. CASE MemoryOptimized
  BY <1>1, <1>2 DEF Node, HookType
<1>3. CASE ~ MemoryOptimized
  BY <1>1, <1>3 DEF Node, HookType
<1> QED BY <1>2, <1>3

LEMMA HookTyped ==
  /\ FreshHook \in HookType /\ ErasedHook \in HookType
  /\ \A n \in HookType, m \in Lists : Put(n, "list", m) \in HookType
<1>1. CASE MemoryOptimized
  BY <1>1 DEF HookType, FreshHook, ErasedHook, Put, NULL
<1>2. CASE ~ MemoryOptimized
  BY <1>2 DEF HookType, FreshHook, ErasedHook, Put, NULL, Pointer
<1> QED BY <1>1, <1>2

LEMMA SplicedTyped ==
  ASSUME NEW hk, \A g \in Hooks : hk[g] \in HookType, NEW hk2, NEW l \in Lists, NEW q \in Seq(Hooks),
         NEW i \in 1 .. Len(q) + 1, NEW h \in Hooks, Spliced(hk, hk2, l, q, i, h), NEW g \in Hooks
  PROVE  hk2[g] \in HookType
<1>1. i \in Int /\ i - 1 \in Int /\ i - 2 \in Int /\ i + 1 \in Int
  OBVIOUS
<1>2. /\ IsPointer(Ptr(q, i)) /\ IsPointer(Ptr(q, i - 1)) /\ IsPointer(Ptr(q, i - 2))
      /\ IsPointer(Ptr(q, i + 1)) /\ IsPointer({h})
  BY <1>1, PtrIsPointer DEF IsPointer
<1>3. CASE g = h
  <2>1. hk2[g] = Node(l, Ptr(q, i - 1), Ptr(q, i))
    BY <1>3, Zenon DEF Spliced
  <2> QED BY <1>2, <2>1, NodeTyped
<1>4. CASE {g} = Ptr(q, i)
  <2>1. i \in 1 .. Len(q) /\ g = q[i]
    BY <1>1, <1>4, PtrCases, DerefHook
  <2>2. hk2[g] = Node(l, {h}, Ptr(q, i + 1))
    BY <2>1, Zenon DEF Spliced
  <2> QED BY <1>2, <2>2, NodeTyped
<1>5. CASE {g} = Ptr(q, i - 1)
  <2>1. i - 1 \in 1 .. Len(q) /\ g = q[i - 1]
    BY <1>1, <1>5, PtrCases, DerefHook
  <2>2. hk2[g] = Node(l, Ptr(q, i - 2), {h})
    BY <2>1, Zenon DEF Spliced
  <2> QED BY <1>2, <2>2, NodeTyped
<1>6. CASE g # h /\ {g} # Ptr(q, i - 1) /\ {g} # Ptr(q, i)
  BY <1>6, Zenon DEF Spliced
<1> QED BY <1>3, <1>4, <1>5, <1>6

LEMMA CutTyped ==
  ASSUME NEW hk, \A g \in Hooks : hk[g] \in HookType, NEW hk2, NEW l \in Lists, NEW q \in Seq(Hooks),
         NEW i \in 1 .. Len(q), Cut(hk, hk2, l, q, i), NEW g \in Hooks
  PROVE  hk2[g] \in HookType
<1>1. i \in Int /\ i - 1 \in Int /\ i - 2 \in Int /\ i + 1 \in Int /\ i + 2 \in Int
  OBVIOUS
<1>2. IsPointer(Ptr(q, i - 1)) /\ IsPointer(Ptr(q, i - 2)) /\ IsPointer(Ptr(q, i + 1)) /\ IsPointer(Ptr(q, i + 2))
  BY <1>1, PtrIsPointer
<1>3. CASE g = q[i]
  <2>1. hk2[g] = ErasedHook
    BY <1>3, Zenon DEF Cut
  <2> QED BY <2>1, HookTyped
<1>4. CASE {g} = Ptr(q, i + 1)
  <2>1. i + 1 \in 1 .. Len(q) /\ g = q[i + 1]
    BY <1>1, <1>4, PtrCases, DerefHook
  <2>2. hk2[g] = Node(l, Ptr(q, i - 1), Ptr(q, i + 2))
    BY <2>1, Zenon DEF Cut
  <2> QED BY <1>2, <2>2, NodeTyped
<1>5. CASE {g} = Ptr(q, i - 1)
  <2>1. i - 1 \in 1 .. Len(q) /\ g = q[i - 1]
    BY <1>1, <1>5, PtrCases, DerefHook
  <2>2. hk2[g] = Node(l, Ptr(q, i - 2), Ptr(q, i + 1))
    BY <2>1, Zenon DEF Cut
  <2> QED BY <1>2, <2>2, NodeTyped
<1>6. CASE g # q[i] /\ {g} # Ptr(q, i - 1) /\ {g} # Ptr(q, i + 1)
  BY <1>6, Zenon DEF Cut
<1> QED BY <1>3, <1>4, <1>5, <1>6

\* No hook is in two lists: it says which one it is in.
LEMMA Separate ==
  ASSUME Sound, NEW m \in Lists, NEW k \in DOMAIN seq[m]
  PROVE  seq[m][k] \in Hooks /\ hook[seq[m][k]].list = m
<1>1. seq[m] \in Seq(Hooks) /\ Chain(hook, m, seq[m])
  BY DEF Sound, Linked
<1>2. PICK q : q = seq[m]
  OBVIOUS
<1>3. k \in 1 .. Len(q) /\ q \in Seq(Hooks) /\ Chain(hook, m, q)
  BY <1>1, <1>2
<1>4. q[k] \in Hooks /\ hook[q[k]] = Node(m, Ptr(q, k - 1), Ptr(q, k + 1))
  BY <1>3, ChainNode
<1>5. hook[q[k]].list = m
  BY <1>4, NodeFields
<1> QED BY <1>2, <1>4, <1>5

LEMMA Apart ==
  ASSUME Sound, NEW l \in Lists, NEW m \in Lists, l # m, NEW k \in DOMAIN seq[m], NEW g, g = seq[m][k],
         NEW q, q = seq[l], NEW j \in Int
  PROVE  {g} # Ptr(q, j)
<1>1. g \in Hooks /\ hook[g].list = m
  BY Separate
<1>2. q \in Seq(Hooks)
  BY Zenon DEF Sound, Linked
<1>3. CASE j \in 1 .. Len(q)
  <2>1. j \in DOMAIN seq[l] /\ Ptr(q, j) = {q[j]}
    BY <1>2, <1>3, PtrCases
  <2>2. hook[q[j]].list = l
    BY <2>1, Separate
  <2> QED BY <1>1, <2>1, <2>2
<1>4. CASE j \notin 1 .. Len(q)
  BY <1>1, <1>2, <1>4, PtrCases, DerefHook
<1> QED BY <1>3, <1>4

LEMMA ChainKept ==
  ASSUME NEW hk, NEW hk2, NEW m, NEW q, Chain(hk, m, q), \A k \in DOMAIN q : hk2[q[k]] = hk[q[k]]
  PROVE  Chain(hk2, m, q)
BY Zenon DEF Chain

\* A list whose header and hooks an operation does not touch.
LEMMA Untouched ==
  ASSUME Sound, NEW m \in Lists, list'[m] = list[m], seq'[m] = seq[m],
         \A k \in DOMAIN seq[m] : hook'[seq[m][k]] = hook[seq[m][k]]
  PROVE  Linked(list', hook', m, seq'[m])
<1>1. /\ seq[m] \in Seq(Hooks) /\ IsInjective(seq[m])
      /\ list[m] = HeaderOf(seq[m])
      /\ Chain(hook, m, seq[m])
  BY Zenon DEF Sound, Linked
<1>2. Chain(hook', m, seq[m])
  BY <1>1, ChainKept
<1> QED BY <1>1, <1>2, Zenon DEF Linked

LEMMA InsertMends ==
  ASSUME Sound, NEW l \in Lists, NEW h \in Hooks, hook[h].list = NULL, NEW q, q = seq[l],
         NEW i \in 1 .. Len(q) + 1, NEW q2, Inserted(q, q2, i, h), seq' = [seq EXCEPT ![l] = q2],
         NEW before, before = Ptr(q, i - 1), NEW after, after = Ptr(q, i), Link(l, h, before, after)
  PROVE  Mended
<1>1. /\ DOMAIN list = Lists /\ DOMAIN hook = Hooks /\ DOMAIN seq = Lists
      /\ q \in Seq(Hooks) /\ IsInjective(q) /\ Chain(hook, l, q) /\ Len(q) \in Nat /\ DOMAIN q = 1 .. Len(q)
      /\ list[l] = HeaderOf(q)
  <2>1. Linked(list, hook, l, q)
    BY Zenon DEF Sound
  <2> QED BY <2>1 DEF Sound, Linked
<1>2. ASSUME NEW m \in Lists, NEW k \in DOMAIN seq[m] PROVE seq[m][k] # h
  <2>1. hook[seq[m][k]].list = m /\ m # NULL
    BY Separate, ListAssumption DEF NULL
  <2> QED BY <2>1
<1>3. Spliced(hook, hook', l, q, i, h)
  BY <1>1, <1>2, LinkHooks
<1>4. Chain(hook', l, q2)
  BY <1>1, <1>2, <1>3, InsertChain
<1>5. q2 \in Seq(Hooks) /\ IsInjective(q2) /\ Len(q2) = Len(q) + 1
  <2>1. q2 \in Seq(Hooks) /\ Len(q2) = Len(q) + 1
    BY Zenon DEF Inserted
  <2>2. \A k \in DOMAIN q : q[k] # h
    BY <1>2, Zenon
  <2>3. q \in Seq(Hooks) /\ IsInjective(q)
    BY <1>1, Zenon
  <2>4. IsInjective(q2)
    BY <2>2, <2>3, InsertedInjective
  <2> QED BY <2>1, <2>4
<1>a. PICK old : old = list[l]
  OBVIOUS
<1>6. PICK new : new = [head |-> IF before = NULL THEN {h} ELSE old.head,
                        tail |-> IF after = NULL THEN {h} ELSE old.tail, size |-> old.size + 1]
  OBVIOUS
<1>7. list' = [list EXCEPT ![l] = new] /\ undefined' = undefined
  BY <1>a, <1>6, Zenon DEF Link
<1>8. new = HeaderOf(q2)
  <2>1. q \in Seq(Hooks) /\ old = HeaderOf(q)
    BY <1>1, <1>a, Zenon
  <2> QED BY <1>6, <2>1, InsertedHeader
<1>9. Linked(list', hook', l, seq'[l])
  <2>1. list'[l] = new /\ seq'[l] = q2
    BY <1>1, <1>7
  <2> QED BY <1>4, <1>5, <1>8, <2>1, Zenon DEF Linked
<1>10. ASSUME NEW m \in Lists, m # l PROVE Linked(list', hook', m, seq'[m])
  <2>1. list'[m] = list[m] /\ seq'[m] = seq[m]
    BY <1>1, <1>7, <1>10
  <2>2. ASSUME NEW k \in DOMAIN seq[m] PROVE hook'[seq[m][k]] = hook[seq[m][k]]
    <3>1. PICK g : g = seq[m][k]
      OBVIOUS
    <3>2. g \in Hooks /\ hook[g].list = m /\ g # h
      BY <1>2, <3>1, Separate
    <3>4. {g} # Ptr(q, i - 1) /\ {g} # Ptr(q, i)
      BY <1>1, <1>10, <3>1, Apart
    <3>5. hook'[g] = hook[g]
      BY <1>3, <3>2, <3>4, Zenon DEF Spliced
    <3> QED BY <3>1, <3>5
  <2> QED BY <2>1, <2>2, Untouched
<1>11. DOMAIN list' = Lists /\ DOMAIN hook' = Hooks /\ DOMAIN seq' = Lists
  BY <1>1, <1>3, <1>7 DEF Spliced
<1>12. \A g \in Hooks : hook'[g] \in HookType
  <2>1. \A g \in Hooks : hook[g] \in HookType
    BY Zenon DEF Sound
  <2> QED BY <1>1, <1>3, <2>1, SplicedTyped
<1> QED BY <1>7, <1>9, <1>10, <1>11, <1>12, Zenon DEF Mended

LEMMA RemoveMends ==
  ASSUME Sound, NEW l \in Lists, NEW q, q = seq[l], NEW i \in 1 .. Len(q), NEW q2, Removed(q, q2, i),
         seq' = [seq EXCEPT ![l] = q2], NEW it, it.value = {q[i]},
         NEW before, before = Ptr(q, i - 1), NEW after, after = Ptr(q, i + 1), Unlink(l, it, before, after)
  PROVE  Mended
<1>1. /\ DOMAIN list = Lists /\ DOMAIN hook = Hooks /\ DOMAIN seq = Lists
      /\ q \in Seq(Hooks) /\ IsInjective(q) /\ Chain(hook, l, q) /\ Len(q) \in Nat /\ DOMAIN q = 1 .. Len(q)
      /\ list[l] = HeaderOf(q)
  <2>1. Linked(list, hook, l, q)
    BY Zenon DEF Sound
  <2> QED BY <2>1 DEF Sound, Linked
<1>3. Cut(hook, hook', l, q, i)
  BY <1>1, UnlinkHooks
<1>4. Chain(hook', l, q2)
  BY <1>1, <1>3, RemoveChain
<1>5. q2 \in Seq(Hooks) /\ IsInjective(q2)
  <2>1. q2 \in Seq(Hooks)
    BY Zenon DEF Removed
  <2>2. q \in Seq(Hooks) /\ IsInjective(q)
    BY <1>1, Zenon
  <2>3. IsInjective(q2)
    BY <2>2, RemovedInjective
  <2> QED BY <2>1, <2>3
<1>a. PICK old : old = list[l]
  OBVIOUS
<1>6. PICK new : new = [head |-> IF before = NULL THEN after ELSE old.head,
                        tail |-> IF after = NULL THEN before ELSE old.tail, size |-> old.size - 1]
  OBVIOUS
<1>7. list' = [list EXCEPT ![l] = new] /\ undefined' = undefined
  BY <1>a, <1>6, Zenon DEF Unlink
<1>8. new = HeaderOf(q2)
  <2>1. q \in Seq(Hooks) /\ old = HeaderOf(q)
    BY <1>1, <1>a, Zenon
  <2> QED BY <1>6, <2>1, RemovedHeader
<1>9. Linked(list', hook', l, seq'[l])
  <2>1. list'[l] = new /\ seq'[l] = q2
    BY <1>1, <1>7
  <2> QED BY <1>4, <1>5, <1>8, <2>1, Zenon DEF Linked
<1>10. ASSUME NEW m \in Lists, m # l PROVE Linked(list', hook', m, seq'[m])
  <2>1. list'[m] = list[m] /\ seq'[m] = seq[m]
    BY <1>1, <1>7, <1>10
  <2>2. ASSUME NEW k \in DOMAIN seq[m] PROVE hook'[seq[m][k]] = hook[seq[m][k]]
    <3>1. PICK g : g = seq[m][k]
      OBVIOUS
    <3>2. g \in Hooks
      BY <3>1, Separate
    <3>3. {g} # Ptr(q, i - 1) /\ {g} # Ptr(q, i) /\ {g} # Ptr(q, i + 1)
      BY <1>1, <1>10, <3>1, Apart
    <3>4. g # q[i]
      BY <1>1, <3>3, PtrCases
    <3>5. hook'[g] = hook[g]
      BY <1>3, <3>2, <3>3, <3>4, Zenon DEF Cut
    <3> QED BY <3>1, <3>5
  <2> QED BY <2>1, <2>2, Untouched
<1>11. DOMAIN list' = Lists /\ DOMAIN hook' = Hooks /\ DOMAIN seq' = Lists
  BY <1>1, <1>3, <1>7 DEF Cut
<1>12. \A g \in Hooks : hook'[g] \in HookType
  <2>1. \A g \in Hooks : hook[g] \in HookType
    BY Zenon DEF Sound
  <2> QED BY <1>1, <1>3, <2>1, CutTyped
<1> QED BY <1>7, <1>9, <1>10, <1>11, <1>12, Zenon DEF Mended

\* What dfk_list_erase takes for the neighbours of the element at position i.
LEMMA NeighboursFound ==
  ASSUME NEW l, NEW q, Linked(list, hook, l, q), NEW i \in 1 .. Len(q), NEW it, it.value = {q[i]},
         NEW before, before = Ptr(q, i - 1), NEW after, after = Ptr(q, i + 1)
  PROVE  /\ ~ MemoryOptimized \/ it.prev = before \/ i = 1 \/ i = Len(q)
              => Neighbours(l, it)[1] = before /\ Neighbours(l, it)[2] = after
         /\ MemoryOptimized /\ i # 1 /\ i # Len(q) => Neighbours(l, it)[1] = it.prev
<1>1. /\ q \in Seq(Hooks) /\ IsInjective(q) /\ Chain(hook, l, q) /\ Len(q) \in Nat /\ i \in Int
      /\ list[l].head = Ptr(q, 1) /\ list[l].tail = Ptr(q, Len(q)) /\ 1 \in Int /\ Len(q) \in Int
  BY DEF Linked, HeaderOf
<1>2. PICK h : h = hook[Deref(it.value)]
  OBVIOUS
<1>3. h = Node(l, before, after)
  <2>1. q[i] \in Hooks /\ hook[q[i]] = Node(l, before, after)
    BY <1>1, ChainNode
  <2> QED BY <1>2, <2>1, DerefHook
<1>5. (it.value = list[l].head <=> i = 1) /\ (it.value = list[l].tail <=> i = Len(q))
  <2>1. \A j \in Int : j # i => {q[i]} # Ptr(q, j)
    BY <1>1, PtrsDiffer
  <2>2. Ptr(q, i) = {q[i]}
    BY <1>1, PtrCases
  <2> QED BY <1>1, <2>1, <2>2
<1>6. (i = 1 => before = NULL) /\ (i = Len(q) => after = NULL)
  BY <1>1, PtrNull
<1>7. CASE ~ MemoryOptimized
  <2>1. h.prev = before /\ h.next = after
    BY <1>3, <1>7, NodeFields
  <2>2. Neighbours(l, it) = << h.prev, h.next >>
    BY <1>2, <1>7, Zenon DEF Neighbours
  <2> QED BY <1>7, <2>1, <2>2
<1>8. CASE MemoryOptimized /\ i = 1
  <2>1. Neighbours(l, it) = << NULL, IF it.value = list[l].tail THEN NULL ELSE h.p >>
    BY <1>2, <1>5, <1>8, Zenon DEF Neighbours
  <2>2. h.p = after
    BY <1>3, <1>6, <1>8, NodeFields, XorNull
  <2> QED BY <1>5, <1>6, <1>8, <2>1, <2>2
<1>9. CASE MemoryOptimized /\ i # 1 /\ i = Len(q)
  <2>1. Neighbours(l, it) = << h.p, NULL >>
    BY <1>2, <1>5, <1>9, Zenon DEF Neighbours
  <2>2. h.p = before
    BY <1>3, <1>6, <1>9, NodeFields, XorNull
  <2> QED BY <1>6, <1>9, <2>1, <2>2
<1>10. CASE MemoryOptimized /\ i # 1 /\ i # Len(q)
  <2>1. Neighbours(l, it) = << it.prev, PtrXor(h.p, it.prev) >>
    BY <1>2, <1>5, <1>10, Zenon DEF Neighbours
  <2>2. PtrXor(h.p, before) = after
    BY <1>3, <1>10, NodeFields, XorTwice
  <2> QED BY <1>10, <2>1, <2>2
<1> QED BY <1>7, <1>8, <1>9, <1>10

\* dfk_list_erase removes the element at position i if it knows its neighbours.
LEMMA EraseMends ==
  ASSUME Sound, NEW l \in Lists, NEW q, q = seq[l], NEW i \in 1 .. Len(q), NEW q2, Removed(q, q2, i),
         seq' = [seq EXCEPT ![l] = q2], NEW it, it.value = {q[i]},
         ~ MemoryOptimized \/ it.prev = Ptr(q, i - 1) \/ i = 1 \/ i = Len(q), ListErase(l, it)
  PROVE  Mended
<1>1. Linked(list, hook, l, q) /\ q \in Seq(Hooks)
  BY Zenon DEF Sound, Linked
<1>2. PICK before, after : before = Ptr(q, i - 1) /\ after = Ptr(q, i + 1)
  OBVIOUS
<1>3. Neighbours(l, it)[1] = before /\ Neighbours(l, it)[2] = after
  BY <1>1, <1>2, NeighboursFound
<1>4. {before, after} \subseteq {NULL} \cup {{h} : h \in Hooks}
  <2>1. i \in Int /\ i - 1 \in Int /\ i + 1 \in Int
    BY <1>1
  <2>2. IsPointer(before) /\ IsPointer(after)
    BY <1>1, <1>2, <2>1, PtrIsPointer
  <2> QED BY <2>2 DEF IsPointer
<1>5. Unlink(l, it, before, after)
  BY <1>3, <1>4, Zenon DEF ListErase
<1> QED BY <1>2, <1>5, RemoveMends

\* In the XOR layout dfk_list_rerase follows no valid address between two others.
LEMMA RerasePrev ==
  ASSUME NEW q \in Seq(Hooks), IsInjective(q), NEW i \in 1 .. Len(q), i # Len(q),
         NEW p, p = PtrXor(Ptr(q, i + 1), {q[i]})
  PROVE  p \notin {NULL} \cup {{h} : h \in Hooks}
<1>1. i + 1 \in DOMAIN q /\ i \in DOMAIN q /\ i + 1 # i /\ i + 1 \in Int
  OBVIOUS
<1>2. Ptr(q, i + 1) = {q[i + 1]} /\ q[i + 1] # q[i]
  BY <1>1, PtrCases DEF IsInjective
<1>3. PICK a, b : a = q[i + 1] /\ b = q[i] /\ a # b
  BY <1>2
<1>4. a \in p /\ b \in p
  <2>1. p = PtrXor({a}, {b})
    BY <1>2, <1>3, Zenon
  <2>2. p = {a, b}
    BY <1>3, <2>1, XorOfTwo, Zenon
  <2> QED BY <2>2
<1>5. \A h \in Hooks : p # {h}
  BY <1>3, <1>4
<1>6. p # {}
  BY <1>4
<1> QED BY <1>5, <1>6, Zenon DEF NULL

Broken ==
  /\ undefined' = TRUE /\ list' = list /\ hook' = hook /\ DOMAIN seq' = Lists
  /\ MemoryOptimized
  /\ \E l \in Lists : \E i \in 2 .. Len(seq[l]) - 1 : seq' = [seq EXCEPT ![l] = RemoveAt(seq[l], i)]

\* The forward iterator dfk_list_rerase makes has the right position.
LEMMA Rerased ==
  ASSUME Sound, NEW l \in Lists, NEW q, q = seq[l], NEW i \in 1 .. Len(q), NEW q2, q2 = RemoveAt(q, i),
         seq' = [seq EXCEPT ![l] = q2], NEW rit, rit.value = {q[i]},
         MemoryOptimized => rit.prev = Ptr(q, i + 1), ListRerase(l, rit)
  PROVE  Mended \/ Broken
<1>1. Linked(list, hook, l, q) /\ q \in Seq(Hooks) /\ IsInjective(q) /\ DOMAIN seq = Lists
  BY Zenon DEF Sound, Linked
<1>2. PICK it : it = [prev |-> PtrXor(rit.prev, rit.value), value |-> rit.value]
  OBVIOUS
<1>3. it.value = {q[i]} /\ it.prev = PtrXor(rit.prev, rit.value) /\ ListErase(l, it)
  BY <1>2 DEF ListRerase
<1>4. CASE ~ MemoryOptimized \/ i = 1 \/ i = Len(q)
  <2>1. Removed(q, q2, i)
    BY <1>1, RemoveAtRemoves
  <2> QED BY <1>3, <1>4, <2>1, EraseMends
<1>5. CASE MemoryOptimized /\ i # 1 /\ i # Len(q)
  <2>1. PICK before, after : before = Ptr(q, i - 1) /\ after = Ptr(q, i + 1)
    OBVIOUS
  <2>2. Neighbours(l, it)[1] = it.prev
    BY <1>1, <1>3, <1>5, <2>1, NeighboursFound
  <2>3. it.prev = PtrXor(Ptr(q, i + 1), {q[i]})
    BY <1>3, <1>5, Zenon
  <2>4. it.prev \notin {NULL} \cup {{h} : h \in Hooks}
    BY <1>1, <1>5, <2>3, RerasePrev
  <2>5. undefined' = TRUE /\ list' = list /\ hook' = hook
    BY <1>3, <2>2, <2>4 DEF ListErase
  <2>6. i \in 2 .. Len(q) - 1
    BY <1>1, <1>5
  <2>7. DOMAIN seq' = Lists
    BY <1>1
  <2>8. seq' = [seq EXCEPT ![l] = RemoveAt(seq[l], i)] /\ i \in 2 .. Len(seq[l]) - 1
    BY <2>6, Zenon
  <2> QED BY <1>5, <2>5, <2>7, <2>8, Zenon DEF Broken
<1> QED BY <1>4, <1>5

LEMMA LinkedFacts ==
  ASSUME Sound, NEW l \in Lists, NEW q, q = seq[l]
  PROVE  /\ Linked(list, hook, l, q) /\ q \in Seq(Hooks) /\ IsInjective(q) /\ Chain(hook, l, q)
         /\ list[l].head = Ptr(q, 1) /\ list[l].tail = Ptr(q, Len(q)) /\ Len(q) \in Nat /\ DOMAIN q = 1 .. Len(q)
<1>1. Linked(list, hook, l, q)
  BY Zenon DEF Sound
<1> QED BY <1>1 DEF Linked, HeaderOf

\* dfk_list_append and dfk_list_prepend, also as the cases of dfk_list_insert and
\* dfk_list_rinsert for the end.
LEMMA PushMends ==
  ASSUME Sound, NEW l \in Lists, NEW h \in Hooks, hook[h].list = NULL
  PROVE  /\ Link(l, h, list[l].tail, NULL) /\ PushBack(l, h) => Mended
         /\ Link(l, h, NULL, list[l].head) /\ PushFront(l, h) => Mended
<1>1. PICK q : q = seq[l]
  OBVIOUS
<1>2. /\ q \in Seq(Hooks) /\ list[l].head = Ptr(q, 1) /\ list[l].tail = Ptr(q, Len(q)) /\ Len(q) \in Nat
  BY <1>1, LinkedFacts
<1>3. Inserted(q, Append(q, h), Len(q) + 1, h) /\ Inserted(q, << h >> \o q, 1, h)
  BY <1>2, PushInserts
<1>4. ASSUME Link(l, h, list[l].tail, NULL), PushBack(l, h) PROVE Mended
  <2>1. PICK i, q2 : i = Len(q) + 1 /\ q2 = Append(q, h)
    OBVIOUS
  <2>2. i \in 1 .. Len(q) + 1 /\ i - 1 = Len(q)
    BY <1>2, <2>1
  <2>3. Ptr(q, i) = NULL
    BY <1>2, <2>1, PtrNull
  <2>4. seq' = [seq EXCEPT ![l] = q2]
    BY <1>1, <1>4, <2>1, Zenon DEF PushBack
  <2>5. Inserted(q, q2, i, h) /\ Ptr(q, i - 1) = list[l].tail
    BY <1>2, <1>3, <2>1, <2>2, Zenon
  <2> QED BY <1>1, <1>4, <2>2, <2>3, <2>4, <2>5, InsertMends
<1>5. ASSUME Link(l, h, NULL, list[l].head), PushFront(l, h) PROVE Mended
  <2>1. PICK i, q2 : i = 1 /\ q2 = << h >> \o q
    OBVIOUS
  <2>2. i \in 1 .. Len(q) + 1 /\ i - 1 = 0
    BY <1>2, <2>1
  <2>3. Ptr(q, 0) = NULL
    BY <1>2, <2>1, PtrNull
  <2>4. seq' = [seq EXCEPT ![l] = q2]
    BY <1>1, <1>5, <2>1, Zenon DEF PushFront
  <2>5. Inserted(q, q2, i, h) /\ Ptr(q, i - 1) = NULL /\ Ptr(q, i) = list[l].head
    BY <1>2, <1>3, <2>1, <2>2, <2>3, Zenon
  <2> QED BY <1>1, <1>5, <2>2, <2>4, <2>5, InsertMends
<1> QED BY <1>4, <1>5

\* dfk_list_insert and dfk_list_rinsert at an element.
LEMMA InsertBeforeMends ==
  ASSUME Sound, NEW l \in Lists, NEW h \in Hooks, NEW g, NEW it, it = ItFromValue(l, g), ListInsert(l, h, it),
         InsertBefore(l, h, g)
  PROVE  Mended
<1>1. PICK q : q = seq[l]
  OBVIOUS
<1>2. Linked(list, hook, l, q) /\ q \in Seq(Hooks) /\ Chain(hook, l, q) /\ Len(q) \in Nat /\ DOMAIN q = 1 .. Len(q)
  BY <1>1, LinkedFacts
<1>3. PICK i \in DOMAIN q : q[i] = g /\ seq' = [seq EXCEPT ![l] = InsertAt(q, i, h)]
  BY <1>1, Zenon DEF InsertBefore
<1>4. PICK q2 : q2 = InsertAt(q, i, h)
  OBVIOUS
<1>5. i \in 1 .. Len(q) /\ i \in 1 .. Len(q) + 1 /\ i \in Int /\ i - 1 \in Int
  BY <1>2, <1>3
<1>6. Inserted(q, q2, i, h)
  BY <1>2, <1>4, <1>5, InsertAtInserts
<1>7. it = Iter(q, i)
  BY <1>2, <1>3, <1>5, Iterators
<1>8. Ptr(q, i) = {g} /\ g \in Hooks
  BY <1>2, <1>3, <1>5, PtrCases
<1>9. it.value = Ptr(q, i) /\ it.value # NULL /\ Deref(it.value) = g /\ (MemoryOptimized => it.prev = Ptr(q, i - 1))
  BY <1>7, <1>8, IterFields, DerefHook
<1>10. hook[g] = Node(l, Ptr(q, i - 1), Ptr(q, i + 1))
  BY <1>2, <1>3, <1>5, ChainNode
<1>11. ~ MemoryOptimized => hook[g].prev = Ptr(q, i - 1)
  BY <1>10, NodeFields
<1>12. Link(l, h, Ptr(q, i - 1), Ptr(q, i)) /\ hook[h].list = NULL
  BY <1>9, <1>11, Zenon DEF ListInsert, Free
<1> QED BY <1>1, <1>3, <1>4, <1>5, <1>6, <1>12, InsertMends

LEMMA InsertAfterMends ==
  ASSUME Sound, NEW l \in Lists, NEW h \in Hooks, NEW g, NEW it, it = RItFromValue(l, g), ListRinsert(l, h, it),
         InsertAfter(l, h, g)
  PROVE  Mended
<1>1. PICK q : q = seq[l]
  OBVIOUS
<1>2. Linked(list, hook, l, q) /\ q \in Seq(Hooks) /\ Chain(hook, l, q) /\ Len(q) \in Nat /\ DOMAIN q = 1 .. Len(q)
  BY <1>1, LinkedFacts
<1>3. PICK i \in DOMAIN q : q[i] = g /\ seq' = [seq EXCEPT ![l] = InsertAt(q, i + 1, h)]
  BY <1>1, Zenon DEF InsertAfter
<1>4. PICK q2, k : q2 = InsertAt(q, i + 1, h) /\ k = i + 1
  OBVIOUS
<1>5. i \in 1 .. Len(q) /\ k \in 1 .. Len(q) + 1 /\ i \in Int /\ k \in Int /\ k - 1 = i
  BY <1>2, <1>3, <1>4
<1>6. Inserted(q, q2, k, h)
  BY <1>2, <1>4, <1>5, InsertAtInserts
<1>7. it = [prev |-> IF MemoryOptimized THEN Ptr(q, i + 1) ELSE NULL, value |-> {g}]
  BY <1>2, <1>3, <1>5, Iterators
<1>8. Ptr(q, i) = {g} /\ g \in Hooks
  BY <1>2, <1>3, <1>5, PtrCases
<1>9. it.value = Ptr(q, i) /\ it.value # NULL /\ Deref(it.value) = g /\ (MemoryOptimized => it.prev = Ptr(q, k))
  BY <1>4, <1>7, <1>8, DerefHook
<1>10. hook[g] = Node(l, Ptr(q, i - 1), Ptr(q, k))
  BY <1>2, <1>3, <1>4, <1>5, ChainNode
<1>11. ~ MemoryOptimized => hook[g].next = Ptr(q, k)
  BY <1>10, NodeFields
<1>12. Link(l, h, Ptr(q, k - 1), Ptr(q, k)) /\ hook[h].list = NULL
  BY <1>5, <1>9, <1>11, Zenon DEF ListRinsert, Free
<1>13. seq' = [seq EXCEPT ![l] = q2]
  BY <1>3, <1>4, Zenon
<1> QED BY <1>1, <1>5, <1>6, <1>12, <1>13, InsertMends

\* dfk_list_pop_front and dfk_list_pop_back.
LEMMA PopMends ==
  ASSUME Sound, NEW l \in Lists
  PROVE  /\ ListPopFront(l) /\ PopFront(l) => Mended
         /\ ListPopBack(l) /\ PopBack(l) => Mended
<1>1. PICK q : q = seq[l]
  OBVIOUS
<1>2. /\ q \in Seq(Hooks) /\ list[l].head = Ptr(q, 1) /\ list[l].tail = Ptr(q, Len(q)) /\ Len(q) \in Nat
  BY <1>1, LinkedFacts
<1>3. ASSUME ListPopFront(l), PopFront(l) PROVE Mended
  <2>1. list[l].head # NULL /\ ListErase(l, Begin(l))
    BY <1>3 DEF ListPopFront
  <2>2. 1 \in 1 .. Len(q) /\ q # <<>>
    BY <1>2, <2>1, PtrNull
  <2>3. Removed(q, Tail(q), 1)
    BY <1>2, <2>2, PopRemoves
  <2>4. PICK it, q2 : it = Begin(l) /\ q2 = Tail(q)
    OBVIOUS
  <2>5. it.value = {q[1]}
    BY <1>2, <2>2, <2>4, PtrCases DEF Begin
  <2>6. seq' = [seq EXCEPT ![l] = q2]
    BY <1>1, <1>3, <2>4, Zenon DEF PopFront
  <2>7. Removed(q, q2, 1) /\ ListErase(l, it)
    BY <2>1, <2>3, <2>4, Zenon
  <2> QED BY <1>1, <2>2, <2>5, <2>6, <2>7, EraseMends
<1>4. ASSUME ListPopBack(l), PopBack(l) PROVE Mended
  <2>1. list[l].tail # NULL /\ ListRerase(l, RBegin(l))
    BY <1>4 DEF ListPopBack
  <2>2. Len(q) \in 1 .. Len(q) /\ q # <<>>
    BY <1>2, <2>1, PtrNull
  <2>3. Removed(q, Front(q), Len(q))
    BY <1>2, <2>2, PopRemoves
  <2>4. PICK it, q2 : /\ it = [prev |-> PtrXor(RBegin(l).prev, RBegin(l).value), value |-> RBegin(l).value]
                      /\ q2 = Front(q)
    OBVIOUS
  <2>5. it.value = {q[Len(q)]}
    BY <1>2, <2>2, <2>4, PtrCases DEF RBegin
  <2>6. seq' = [seq EXCEPT ![l] = q2]
    BY <1>1, <1>4, <2>4, Zenon DEF PopBack
  <2>7. Removed(q, q2, Len(q)) /\ ListErase(l, it)
    BY <2>1, <2>3, <2>4, Zenon DEF ListRerase
  <2> QED BY <1>1, <2>2, <2>5, <2>6, <2>7, EraseMends
<1> QED BY <1>3, <1>4

\* dfk_list_erase at an element, and dfk_list_rerase.
LEMMA DeleteMends ==
  ASSUME Sound, NEW l \in Lists, NEW g, Delete(l, g)
  PROVE  /\ ListErase(l, ItFromValue(l, g)) => Mended
         /\ ListRerase(l, RItFromValue(l, g)) => Mended \/ Broken
<1>1. PICK q : q = seq[l]
  OBVIOUS
<1>2. Linked(list, hook, l, q) /\ q \in Seq(Hooks) /\ Len(q) \in Nat /\ DOMAIN q = 1 .. Len(q)
  BY <1>1, LinkedFacts
<1>3. PICK i \in DOMAIN q : q[i] = g /\ seq' = [seq EXCEPT ![l] = RemoveAt(q, i)]
  BY <1>1, Zenon DEF Delete
<1>4. PICK q2 : q2 = RemoveAt(q, i)
  OBVIOUS
<1>5. i \in 1 .. Len(q)
  BY <1>2, <1>3
<1>6. seq' = [seq EXCEPT ![l] = q2]
  BY <1>3, <1>4, Zenon
<1>7. /\ ItFromValue(l, g) = Iter(q, i)
      /\ RItFromValue(l, g) = [prev |-> IF MemoryOptimized THEN Ptr(q, i + 1) ELSE NULL, value |-> {g}]
  BY <1>2, <1>3, <1>5, Iterators
<1>8. Ptr(q, i) = {q[i]}
  BY <1>2, <1>5, PtrCases
<1>9. ASSUME ListErase(l, ItFromValue(l, g)) PROVE Mended
  <2>1. PICK it : it = Iter(q, i)
    OBVIOUS
  <2>2. it.value = {q[i]} /\ (MemoryOptimized => it.prev = Ptr(q, i - 1))
    BY <1>8, <2>1, IterFields
  <2>3. Removed(q, q2, i)
    BY <1>2, <1>4, <1>5, RemoveAtRemoves
  <2>4. ListErase(l, it)
    BY <1>7, <1>9, <2>1, Zenon
  <2> QED BY <1>1, <1>5, <1>6, <2>2, <2>3, <2>4, EraseMends
<1>10. ASSUME ListRerase(l, RItFromValue(l, g)) PROVE Mended \/ Broken
  <2>1. PICK rit : rit = RItFromValue(l, g)
    OBVIOUS
  <2>2. rit.value = {q[i]} /\ (MemoryOptimized => rit.prev = Ptr(q, i + 1))
    BY <1>3, <1>7, <2>1
  <2>3. ListRerase(l, rit)
    BY <1>10, <2>1, Zenon
  <2> QED BY <1>1, <1>4, <1>5, <1>6, <2>2, <2>3, Rerased
<1> QED BY <1>9, <1>10

\* A list that holds nothing.
LEMMA EmptyLinked ==
  ASSUME NEW lists, NEW hooks, NEW l, NEW q, lists[l] = EmptyList, q = <<>>
  PROVE  Linked(lists, hooks, l, q)
<1>1. q \in Seq(Hooks) /\ DOMAIN q = {} /\ Len(q) = 0
  OBVIOUS
<1>2. Ptr(q, 1) = NULL /\ Ptr(q, 0) = NULL
  BY <1>1 DEF Ptr
<1>3. HeaderOf(q) = EmptyList
  BY <1>1, <1>2, Zenon DEF HeaderOf, EmptyList
<1> QED BY <1>1, <1>3 DEF Linked, Chain, IsInjective

\* The elements that dfk_list_clear and dfk__list_adjust_hooks go through.
LEMMA Contents ==
  ASSUME Sound, NEW l \in Lists, NEW g
  PROVE  g \in ToSet(Forward(l)) <=> \E k \in DOMAIN seq[l] : seq[l][k] = g
<1>1. Linked(list, hook, l, seq[l])
  BY Zenon DEF Sound
<1>2. Forward(l) = seq[l]
  BY <1>1, Visits, Zenon DEF Shows
<1> QED BY <1>2 DEF ToSet

LEMMA SeparateHooks ==
  ASSUME Sound, NEW l \in Lists, NEW m \in Lists, NEW j \in DOMAIN seq[l], NEW k \in DOMAIN seq[m],
         seq[l][j] = seq[m][k]
  PROVE  l = m
BY Separate

LEMMA AdjustedFacts ==
  ASSUME Sound, NEW l \in Lists, NEW m, NEW hk, NEW hk2, hk2 = Adjusted(hk, l, m)
  PROVE  /\ DOMAIN hk2 = Hooks
         /\ \A g \in Hooks : hk2[g] = IF \E k \in DOMAIN seq[l] : seq[l][k] = g THEN Put(hk[g], "list", m) ELSE hk[g]
<1>1. hk2 = [h \in Hooks |-> IF h \in ToSet(Forward(l)) THEN Put(hk[h], "list", m) ELSE hk[h]]
  BY Zenon DEF Adjusted, Put
<1>2. \A g \in Hooks : g \in ToSet(Forward(l)) <=> \E k \in DOMAIN seq[l] : seq[l][k] = g
  BY Contents
<1>3. DOMAIN hk2 = Hooks /\ \A g \in Hooks : hk2[g] = IF g \in ToSet(Forward(l)) THEN Put(hk[g], "list", m) ELSE hk[g]
  BY <1>1
<1> QED BY <1>2, <1>3, Zenon

\* The content of l goes to m.
LEMMA Transferred ==
  ASSUME Sound, NEW l \in Lists, NEW m, NEW q, q = seq[l], list'[m] = list[l], seq'[m] = q,
         \A k \in DOMAIN q : hook'[q[k]] = Put(hook[q[k]], "list", m)
  PROVE  Linked(list', hook', m, seq'[m])
<1>1. /\ q \in Seq(Hooks) /\ IsInjective(q) /\ list[l] = HeaderOf(q) /\ Chain(hook, l, q)
  BY Zenon DEF Sound, Linked
<1>2. ASSUME NEW k \in DOMAIN q PROVE hook'[q[k]] = Node(m, Ptr(q, k - 1), Ptr(q, k + 1))
  <2>1. PICK a, b : a = Ptr(q, k - 1) /\ b = Ptr(q, k + 1)
    OBVIOUS
  <2>2. hook[q[k]] = Node(l, a, b)
    BY <1>1, <2>1, Zenon DEF Chain
  <2>3. Put(Node(l, a, b), "list", m) = Node(m, a, b)
    BY DEF Put, Node
  <2> QED BY <1>2, <2>1, <2>2, <2>3, Zenon
<1>3. Chain(hook', m, q)
  BY <1>2, Zenon DEF Chain
<1> QED BY <1>1, <1>3, Zenon DEF Linked

LEMMA ClearMends ==
  ASSUME Sound, NEW l \in Lists, ListClear(l), Discard(l)
  PROVE  Mended
<1>1. DOMAIN list = Lists /\ DOMAIN hook = Hooks /\ DOMAIN seq = Lists
  BY DEF Sound
<1>2. /\ hook' = [h \in Hooks |-> IF h \in ToSet(Forward(l)) THEN ErasedHook ELSE hook[h]]
      /\ list' = [list EXCEPT ![l] = EmptyList] /\ undefined' = undefined
      /\ seq' = [seq EXCEPT ![l] = <<>>]
  BY Zenon DEF ListClear, Discard
<1>3. DOMAIN list' = Lists /\ DOMAIN hook' = Hooks /\ DOMAIN seq' = Lists
  BY <1>1, <1>2
<1>4. list'[l] = EmptyList /\ seq'[l] = <<>>
  BY <1>1, <1>2
<1>5. Linked(list', hook', l, seq'[l])
  BY <1>4, EmptyLinked
<1>6. ASSUME NEW m \in Lists, m # l PROVE Linked(list', hook', m, seq'[m])
  <2>1. list'[m] = list[m] /\ seq'[m] = seq[m]
    BY <1>1, <1>2, <1>6
  <2>2. ASSUME NEW k \in DOMAIN seq[m] PROVE hook'[seq[m][k]] = hook[seq[m][k]]
    <3>1. PICK g : g = seq[m][k]
      OBVIOUS
    <3>2. g \in Hooks
      BY <3>1, Separate
    <3>3. g \notin ToSet(Forward(l))
      BY <1>6, <3>1, Contents, SeparateHooks
    <3>4. hook'[g] = hook[g]
      BY <1>2, <3>2, <3>3
    <3> QED BY <3>1, <3>4
  <2> QED BY <2>1, <2>2, Untouched
<1>7. \A g \in Hooks : hook'[g] \in HookType
  BY <1>2, HookTyped DEF Sound
<1> QED BY <1>2, <1>3, <1>5, <1>6, <1>7, Zenon DEF Mended

LEMMA MoveMends ==
  ASSUME Sound, NEW l \in Lists, NEW m \in Lists, ListMove(l, m), MoveAll(l, m)
  PROVE  Mended
<1>1. DOMAIN list = Lists /\ DOMAIN hook = Hooks /\ DOMAIN seq = Lists
  BY DEF Sound
<1>2. /\ hook' = Adjusted(hook, l, m) /\ l # m
      /\ list' = [list EXCEPT ![l] = EmptyList, ![m] = list[l]] /\ undefined' = undefined
      /\ seq' = [seq EXCEPT ![l] = <<>>, ![m] = seq[l]]
  BY Zenon DEF ListMove, MoveAll
<1>3. /\ DOMAIN hook' = Hooks
      /\ \A g \in Hooks :
           hook'[g] = IF \E k \in DOMAIN seq[l] : seq[l][k] = g THEN Put(hook[g], "list", m) ELSE hook[g]
  BY <1>2, AdjustedFacts
<1>4. DOMAIN list' = Lists /\ DOMAIN seq' = Lists
  BY <1>1, <1>2
<1>5. list'[l] = EmptyList /\ seq'[l] = <<>> /\ list'[m] = list[l] /\ seq'[m] = seq[l]
  BY <1>1, <1>2
<1>6. Linked(list', hook', l, seq'[l])
  BY <1>5, EmptyLinked
<1>7. Linked(list', hook', m, seq'[m])
  <2>1. ASSUME NEW k \in DOMAIN seq[l] PROVE hook'[seq[l][k]] = Put(hook[seq[l][k]], "list", m)
    <3>1. seq[l][k] \in Hooks
      BY Separate
    <3> QED BY <1>3, <3>1, Zenon
  <2> QED BY <1>5, <2>1, Transferred
<1>8. ASSUME NEW n \in Lists, n # l, n # m PROVE Linked(list', hook', n, seq'[n])
  <2>1. list'[n] = list[n] /\ seq'[n] = seq[n]
    BY <1>1, <1>2, <1>8
  <2>2. ASSUME NEW k \in DOMAIN seq[n] PROVE hook'[seq[n][k]] = hook[seq[n][k]]
    <3>1. seq[n][k] \in Hooks
      BY Separate
    <3>2. ~ \E j \in DOMAIN seq[l] : seq[l][j] = seq[n][k]
      BY <1>8, SeparateHooks
    <3> QED BY <1>3, <3>1, <3>2, Zenon
  <2> QED BY <2>1, <2>2, Untouched
<1>9. \A g \in Hooks : hook'[g] \in HookType
  BY <1>3, HookTyped DEF Sound
<1> QED BY <1>2, <1>3, <1>4, <1>6, <1>7, <1>8, <1>9, Zenon DEF Mended

LEMMA SwapMends ==
  ASSUME Sound, NEW l \in Lists, NEW m \in Lists, ListSwap(l, m), Exchange(l, m)
  PROVE  Mended
<1>1. DOMAIN list = Lists /\ DOMAIN hook = Hooks /\ DOMAIN seq = Lists
  BY DEF Sound
<1>2. /\ hook' = Adjusted(Adjusted(hook, l, m), m, l) /\ l # m
      /\ list' = [list EXCEPT ![l] = list[m], ![m] = list[l]] /\ undefined' = undefined
      /\ seq' = [seq EXCEPT ![l] = seq[m], ![m] = seq[l]]
  BY Zenon DEF ListSwap, Exchange
<1>3. PICK x : x = Adjusted(hook, l, m)
  OBVIOUS
<1>4. \A g \in Hooks : x[g] = IF \E k \in DOMAIN seq[l] : seq[l][k] = g THEN Put(hook[g], "list", m) ELSE hook[g]
  BY <1>3, AdjustedFacts
<1>5. /\ DOMAIN hook' = Hooks
      /\ \A g \in Hooks : hook'[g] = IF \E k \in DOMAIN seq[m] : seq[m][k] = g THEN Put(x[g], "list", l) ELSE x[g]
  BY <1>2, <1>3, AdjustedFacts
<1>6. DOMAIN list' = Lists /\ DOMAIN seq' = Lists
  BY <1>1, <1>2
<1>7. list'[l] = list[m] /\ seq'[l] = seq[m] /\ list'[m] = list[l] /\ seq'[m] = seq[l]
  BY <1>1, <1>2
<1>8. Linked(list', hook', l, seq'[l])
  <2>1. ASSUME NEW k \in DOMAIN seq[m] PROVE hook'[seq[m][k]] = Put(hook[seq[m][k]], "list", l)
    <3>1. seq[m][k] \in Hooks
      BY Separate
    <3>2. ~ \E j \in DOMAIN seq[l] : seq[l][j] = seq[m][k]
      BY <1>2, SeparateHooks
    <3> QED BY <1>4, <1>5, <3>1, <3>2, Zenon
  <2> QED BY <1>7, <2>1, Transferred
<1>9. Linked(list', hook', m, seq'[m])
  <2>1. ASSUME NEW k \in DOMAIN seq[l] PROVE hook'[seq[l][k]] = Put(hook[seq[l][k]], "list", m)
    <3>1. seq[l][k] \in Hooks
      BY Separate
    <3>2. ~ \E j \in DOMAIN seq[m] : seq[m][j] = seq[l][k]
      BY <1>2, SeparateHooks
    <3> QED BY <1>4, <1>5, <3>1, <3>2, Zenon
  <2> QED BY <1>7, <2>1, Transferred
<1>10. ASSUME NEW n \in Lists, n # l, n # m PROVE Linked(list', hook', n, seq'[n])
  <2>1. list'[n] = list[n] /\ seq'[n] = seq[n]
    BY <1>1, <1>2, <1>10
  <2>2. ASSUME NEW k \in DOMAIN seq[n] PROVE hook'[seq[n][k]] = hook[seq[n][k]]
    <3>1. seq[n][k] \in Hooks
      BY Separate
    <3>2. ~ \E j \in DOMAIN seq[l] : seq[l][j] = seq[n][k]
      BY <1>10, SeparateHooks
    <3>3. ~ \E j \in DOMAIN seq[m] : seq[m][j] = seq[n][k]
      BY <1>10, SeparateHooks
    <3> QED BY <1>4, <1>5, <3>1, <3>2, <3>3, Zenon
  <2> QED BY <2>1, <2>2, Untouched
<1>11. \A g \in Hooks : hook'[g] \in HookType
  BY <1>4, <1>5, HookTyped DEF Sound
<1> QED BY <1>2, <1>5, <1>6, <1>8, <1>9, <1>10, <1>11, Zenon DEF Mended

LEMMA HookInitMends ==
  ASSUME Sound, NEW h \in Hooks, ListHookInit(h), seq' = seq
  PROVE  Mended
<1>1. DOMAIN list = Lists /\ DOMAIN hook = Hooks /\ DOMAIN seq = Lists
  BY DEF Sound
<1>2. /\ \A l \in Lists : h \notin ToSet(Forward(l))
      /\ hook' = [hook EXCEPT ![h] = FreshHook] /\ list' = list /\ undefined' = undefined
  BY DEF ListHookInit
<1>3. ASSUME NEW m \in Lists PROVE Linked(list', hook', m, seq'[m])
  <2>1. ASSUME NEW k \in DOMAIN seq[m] PROVE hook'[seq[m][k]] = hook[seq[m][k]]
    <3>1. seq[m][k] \in Hooks
      BY Separate
    <3>2. seq[m][k] # h
      BY <1>2, Contents
    <3> QED BY <1>1, <1>2, <3>1, <3>2
  <2>2. list'[m] = list[m] /\ seq'[m] = seq[m]
    BY <1>2
  <2> QED BY <2>1, <2>2, Untouched
<1>4. DOMAIN hook' = Hooks
  BY <1>1, <1>2
<1>5. \A g \in Hooks : hook'[g] \in HookType
  BY <1>1, <1>2, HookTyped DEF Sound
<1> QED BY <1>1, <1>2, <1>3, <1>4, <1>5, Zenon DEF Mended

\* Every operation starts where no invalid address was followed.
LEMMA OperationMends ==
  ASSUME ListInv, Step
  PROVE  ~ undefined /\ Sound /\ (Mended \/ Broken)
<1>1. ~ undefined
  <2>1. \A l, it : ListErase(l, it) \/ ListRerase(l, it) => ~ undefined
    BY Zenon DEF ListErase, ListRerase
  <2>2. \A l : ListPopFront(l) \/ ListPopBack(l) \/ ListClear(l) => ~ undefined
    BY <2>1, Zenon DEF ListPopFront, ListPopBack, ListClear
  <2>3. \A l, m : ListMove(l, m) \/ ListSwap(l, m) => ~ undefined
    BY Zenon DEF ListMove, ListSwap
  <2>4. \A l, h : ListAppend(l, h) \/ ListPrepend(l, h) \/ ListHookInit(h) => ~ undefined
    BY Zenon DEF ListAppend, ListPrepend, ListHookInit, Free
  <2>5. \A l, h, it : ListInsert(l, h, it) \/ ListRinsert(l, h, it) => ~ undefined
    BY Zenon DEF ListInsert, ListRinsert, Free
  <2> QED BY <2>1, <2>2, <2>3, <2>4, <2>5, Zenon DEF Step
<1>2. Sound
  BY <1>1, Zenon DEF ListInv, ListTypeOK, Sound
<1>3. ASSUME NEW h \in Hooks, ListHookInit(h), seq' = seq PROVE Mended
  BY <1>2, <1>3, HookInitMends
<1>4. ASSUME NEW l \in Lists,
             \/ ListPopFront(l) /\ PopFront(l)
             \/ ListPopBack(l) /\ PopBack(l)
             \/ ListClear(l) /\ Discard(l)
      PROVE  Mended
  BY <1>2, <1>4, PopMends, ClearMends
<1>5. ASSUME NEW l \in Lists, NEW m \in Lists,
             \/ ListMove(l, m) /\ MoveAll(l, m)
             \/ ListSwap(l, m) /\ Exchange(l, m)
      PROVE  Mended
  BY <1>2, <1>5, MoveMends, SwapMends
<1>6. ASSUME NEW l \in Lists, NEW h \in Hooks,
             \/ ListAppend(l, h) /\ PushBack(l, h)
             \/ ListPrepend(l, h) /\ PushFront(l, h)
             \/ ListInsert(l, h, End) /\ PushBack(l, h)
             \/ ListRinsert(l, h, End) /\ PushFront(l, h)
      PROVE  Mended
  <2>1. End.value = NULL
    BY DEF End
  <2>2. /\ hook[h].list = NULL
        /\ \/ Link(l, h, list[l].tail, NULL) /\ PushBack(l, h)
           \/ Link(l, h, NULL, list[l].head) /\ PushFront(l, h)
    BY <1>6, <2>1, Zenon DEF ListAppend, ListPrepend, ListInsert, ListRinsert, Free
  <2> QED BY <1>2, <2>2, PushMends
<1>7. ASSUME NEW l \in Lists, NEW h \in Hooks, NEW g,
             \/ ListInsert(l, h, ItFromValue(l, g)) /\ InsertBefore(l, h, g)
             \/ ListRinsert(l, h, RItFromValue(l, g)) /\ InsertAfter(l, h, g)
      PROVE  Mended
  BY <1>2, <1>7, InsertBeforeMends, InsertAfterMends
<1>8. ASSUME NEW l \in Lists, NEW h,
             \/ ListErase(l, ItFromValue(l, h)) /\ Delete(l, h)
             \/ ListRerase(l, RItFromValue(l, h)) /\ Delete(l, h)
      PROVE  Mended \/ Broken
  BY <1>2, <1>8, DeleteMends
<1> QED BY <1>1, <1>2, <1>3, <1>4, <1>5, <1>6, <1>7, <1>8, Zenon DEF Step

LEMMA LinkedTyped ==
  ASSUME NEW lists, NEW hooks, NEW l, NEW q, Linked(lists, hooks, l, q)
  PROVE  lists[l] \in [head : Pointer, tail : Pointer, size : 0 .. Cardinality(Hooks)]
<1>1. q \in Seq(Hooks) /\ IsInjective(q) /\ lists[l] = HeaderOf(q) /\ Len(q) \in Int /\ 1 \in Int
  BY DEF Linked
<1>2. Len(q) \in 0 .. Cardinality(Hooks)
  BY <1>1, NoMoreThanHooks
<1>3. IsPointer(Ptr(q, 1)) /\ IsPointer(Ptr(q, Len(q)))
  BY <1>1, PtrIsPointer
<1>4. Ptr(q, 1) \in Pointer /\ Ptr(q, Len(q)) \in Pointer
  BY <1>3 DEF IsPointer, Pointer
<1> QED BY <1>1, <1>2, <1>4 DEF HeaderOf

LEMMA ListInvInit == ListInit => ListInv
<1> SUFFICES ASSUME ListInit PROVE ListInv
  OBVIOUS
<1>1. /\ layout \in {"links", "xor"} /\ undefined = FALSE
      /\ DOMAIN list = Lists /\ DOMAIN hook = Hooks /\ DOMAIN seq = Lists
  BY DEF ListInit, ADTInit
<1>2. ASSUME NEW l \in Lists PROVE Linked(list, hook, l, seq[l])
  <2>1. list[l] = EmptyList /\ seq[l] = <<>>
    BY DEF ListInit, ADTInit
  <2> QED BY <2>1, EmptyLinked
<1>3. \A l \in Lists : list[l] \in [head : Pointer, tail : Pointer, size : 0 .. Cardinality(Hooks)]
  BY <1>2, LinkedTyped
<1>4. \A h \in Hooks : hook[h] \in HookType
  BY HookTyped DEF ListInit
<1> QED BY <1>1, <1>2, <1>3, <1>4 DEF ListInv, ListTypeOK

\* The layout of a build does not change, so neither does what Linked says.
LEMMA LinkedLater ==
  ASSUME layout' = layout, \A m \in Lists : Linked(list', hook', m, seq'[m])
  PROVE  (\A m \in Lists : Linked(list, hook, m, seq[m]))'
BY Zenon DEF Linked, Chain, Node, MemoryOptimized

LEMMA ListInvStep == ListInv /\ [ListNext]_listVars => ListInv'
<1> SUFFICES ASSUME ListInv, [ListNext]_listVars PROVE ListInv'
  OBVIOUS
<1>1. CASE UNCHANGED listVars
  BY <1>1, Zenon DEF listVars, ListInv, ListTypeOK, HookType, Linked, Chain, Node, MemoryOptimized
<1>2. CASE ListNext
  <2>1. Step /\ layout' = layout /\ layout \in {"links", "xor"} /\ undefined \in BOOLEAN
    BY <1>2 DEF ListNext, ListInv, ListTypeOK
  <2>2. ~ undefined /\ Sound /\ (Mended \/ Broken)
    BY <2>1, OperationMends
  <2>3. CASE Mended
    <3>1. (\A m \in Lists : Linked(list, hook, m, seq[m]))'
      BY <2>1, <2>3, LinkedLater, Zenon DEF Mended
    <3>2. \A l \in Lists : list'[l] \in [head : Pointer, tail : Pointer, size : 0 .. Cardinality(Hooks)]
      BY <2>3, LinkedTyped, Zenon DEF Mended
    <3>3. ListTypeOK'
      BY <2>1, <2>3, <3>2, Zenon DEF Mended, ListTypeOK, HookType, MemoryOptimized
    <3> QED BY <2>3, <3>1, <3>3, Zenon DEF Mended, ListInv
  <2>4. CASE Broken
    <3>1. ListTypeOK'
      BY <2>1, <2>4, Zenon DEF Broken, ListInv, ListTypeOK, HookType, MemoryOptimized
    <3> QED BY <2>4, <3>1, Zenon DEF Broken, ListInv
  <2> QED BY <2>2, <2>3, <2>4
<1> QED BY <1>1, <1>2

\* For any number of lists and hooks and in both layouts, the pointers that
\* list.c keeps are those of the sequences list.h promises (ListInv), until an
\* invalid address is followed.
THEOREM ListInvariant == ListInit /\ [][ListNext]_listVars => []ListInv
BY ListInvInit, ListInvStep, PTL

LEMMA ListInvCorrect == ListInv => IterationCorrect
<1> SUFFICES ASSUME ListInv, ~ undefined, NEW l \in Lists
             PROVE  /\ Forward(l) = seq[l]
                    /\ Backward(l) = Reverse(seq[l])
                    /\ list[l].size = Len(seq[l])
                    /\ \A h \in ToSet(seq[l]) : hook[h].list = l
  BY DEF IterationCorrect
<1>1. Sound /\ Linked(list, hook, l, seq[l])
  BY Zenon DEF Sound, ListInv, ListTypeOK
<1>2. Forward(l) = seq[l] /\ Backward(l) = Reverse(seq[l])
  BY <1>1, Visits, Zenon DEF Shows
<1>3. list[l].size = Len(seq[l])
  BY <1>1 DEF Linked, HeaderOf
<1>4. \A h \in ToSet(seq[l]) : hook[h].list = l
  BY <1>1, Separate DEF ToSet
<1> QED BY <1>2, <1>3, <1>4, Zenon

\* Until an invalid address is followed, iterating over a list in either direction
\* visits what the operations put there (IterationCorrect), for any number of lists
\* and hooks and in both layouts.
THEOREM ListCorrect == ListInit /\ [][ListNext]_listVars => []IterationCorrect
BY ListInvariant, ListInvCorrect, PTL

LEMMA BrokenInMiddle ==
  ASSUME ListInv, [ListNext]_listVars, undefined' # undefined
  PROVE  /\ MemoryOptimized
         /\ \E l \in Lists : \E i \in 2 .. Len(seq[l]) - 1 :
              seq' = [seq EXCEPT ![l] = SubSeq(@, 1, i - 1) \o SubSeq(@, i + 1, Len(@))]
<1>1. Step
  BY DEF ListNext, listVars
<1>2. Broken
  BY <1>1, OperationMends DEF Mended
<1> QED BY <1>2, Zenon DEF Broken, RemoveAt

\* An address where there is no hook is followed only in the XOR layout and only
\* when an element between two others is erased (InvalidOnlyInMiddle).
THEOREM ListInvalidOnlyInMiddle == ListInit /\ [][ListNext]_listVars => InvalidOnlyInMiddle
<1>1. ListInv /\ [ListNext]_listVars =>
        [undefined' # undefined =>
           /\ MemoryOptimized
           /\ \E l \in Lists : \E i \in 2 .. Len(seq[l]) - 1 :
                seq' = [seq EXCEPT ![l] = SubSeq(@, 1, i - 1) \o SubSeq(@, i + 1, Len(@))]]_listVars
  BY BrokenInMiddle, Zenon
<1> QED BY <1>1, ListInvariant, PTL DEF InvalidOnlyInMiddle
=============================================================================
