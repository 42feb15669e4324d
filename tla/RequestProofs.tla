--------------------------- MODULE RequestProofs ---------------------------
(***************************************************************************)
(* Proofs about the requests of a connection (http/request.c and the loop  *)
(* of http/protocol.c): the handler is given the body of its own request,  *)
(* in order, and a request begins in the stream where the one before it    *)
(* ends.  The first parts are about the cells of a request and of a        *)
(* stream, which no step changes.                                          *)
(***************************************************************************)
EXTENDS FileServer, Induction, FiniteSetTheorems

-----------------------------------------------------------------------------
(***************************************************************************)
(* The cells of one request.                                               *)
(***************************************************************************)
HeadKinds == {"url", "name", "value"}

Kinds == HeadKinds \cup {"lf", "body", "size", "last"}

\* What Repeat and the header fields are made of.
Piece == [kind : Kinds, line : Nat]

HeadPiece == [kind : HeadKinds, line : Nat]

Cell == [req : Nat, n : Nat, kind : Kinds, line : Nat]

LEMMA RepeatFacts ==
  ASSUME NEW kind \in Kinds, NEW line \in Nat, NEW n \in Nat
  PROVE  /\ Repeat(kind, line, n) \in Seq(Piece) /\ Len(Repeat(kind, line, n)) = n
         /\ \A i \in 1 .. n : Repeat(kind, line, n)[i].kind = kind
         /\ kind \in HeadKinds => Repeat(kind, line, n) \in Seq(HeadPiece)
<1>1. [kind |-> kind, line |-> line] \in Piece
  BY DEF Piece
<1>2. kind \in HeadKinds => [kind |-> kind, line |-> line] \in HeadPiece
  BY DEF HeadPiece
<1>3. [kind |-> kind, line |-> line].kind = kind
  OBVIOUS
<1> DEFINE x == [kind |-> kind, line |-> line]
<1>4. Repeat(kind, line, n) = [i \in 1 .. n |-> x]
  BY DEF Repeat
<1> HIDE DEF x
<1> QED BY <1>1, <1>2, <1>3, <1>4 DEF x

\* The names and the values of the headers.
LEMMA FieldsFacts ==
  ASSUME NEW fields \in Seq(Nat \X Nat)
  PROVE  FlattenSeq([i \in DOMAIN fields |-> Repeat("name", i, fields[i][1]) \o Repeat("value", i, fields[i][2])])
           \in Seq(HeadPiece)
<1> DEFINE s == [i \in DOMAIN fields |-> Repeat("name", i, fields[i][1]) \o Repeat("value", i, fields[i][2])]
<1>1. DOMAIN fields = 1 .. Len(fields) /\ Len(fields) \in Nat
  OBVIOUS
<1>2. ASSUME NEW i \in DOMAIN fields
      PROVE  Repeat("name", i, fields[i][1]) \o Repeat("value", i, fields[i][2]) \in Seq(HeadPiece)
  <2>1. i \in Nat /\ fields[i][1] \in Nat /\ fields[i][2] \in Nat
    <3>1. fields[i] \in Nat \X Nat
      OBVIOUS
    <3> QED BY <1>1, <3>1
  <2>2. "name" \in HeadKinds /\ "value" \in HeadKinds /\ "name" \in Kinds /\ "value" \in Kinds
    BY DEF HeadKinds, Kinds
  <2>3. Repeat("name", i, fields[i][1]) \in Seq(HeadPiece) /\ Repeat("value", i, fields[i][2]) \in Seq(HeadPiece)
    BY <2>1, <2>2, RepeatFacts, Zenon
  <2> QED BY <2>3
<1>3. s \in Seq(Seq(HeadPiece))
  <2>1. \A i \in 1 .. Len(fields) : s[i] \in Seq(HeadPiece)
    BY <1>1, <1>2
  <2>2. s = [i \in 1 .. Len(fields) |-> s[i]]
    BY <1>1
  <2> HIDE DEF s
  <2> QED BY <1>1, <2>1, <2>2
<1> HIDE DEF s
<1>4. FlattenSeq(s) \in Seq(HeadPiece)
  BY <1>3, FlattenEnds
<1> QED BY <1>4 DEF s

\* A stretch that Repeat makes.
Stretch(t, kind, n) == t \in Seq(Piece) /\ Len(t) = n /\ \A i \in 1 .. n : t[i].kind = kind

LEMMA Stretches ==
  ASSUME NEW kind \in Kinds, NEW n \in Nat
  PROVE  Stretch(Repeat(kind, 0, n), kind, n)
BY RepeatFacts DEF Stretch

\* The headers of a request: the URL, the fields and the '\n'.
HeadLayout(head, h) ==
  /\ h \in Nat \ {0} /\ head \in Seq(Piece) /\ Len(head) = h
  /\ \A i \in 1 .. h - 1 : head[i].kind \in HeadKinds
  /\ head[h].kind = "lf"

LEMMA HeadFacts ==
  ASSUME NEW url \in Seq(HeadPiece), NEW flat \in Seq(HeadPiece), NEW lf, Stretch(lf, "lf", 1),
         NEW head, head = url \o flat \o lf
  PROVE  \E h : HeadLayout(head, h)
<1>1. \A x \in HeadPiece : x \in Piece /\ x.kind \in HeadKinds
  BY DEF HeadPiece, Piece, HeadKinds, Kinds
<1>2. PICK before : before = url \o flat
  OBVIOUS
<1>3. before \in Seq(HeadPiece) /\ Len(before) \in Nat /\ head = before \o lf
  BY <1>2
<1>4. before \in Seq(Piece) /\ \A i \in 1 .. Len(before) : before[i].kind \in HeadKinds
  BY <1>1, <1>3
<1>5. /\ head \in Seq(Piece) /\ Len(head) = Len(before) + 1
      /\ \A i \in 1 .. Len(before) : head[i] = before[i]
      /\ \A i \in 1 .. 1 : head[Len(before) + i] = lf[i]
  <2>1. lf \in Seq(Piece) /\ Len(lf) = 1
    BY DEF Stretch
  <2>2. Joined(head, before, lf, Len(before), 1, Piece)
    BY <1>3, <1>4, <2>1, ConcatFacts
  <2> QED BY <2>2 DEF Joined
<1>6. Len(before) + 1 \in Nat \ {0} /\ (Len(before) + 1) - 1 = Len(before) /\ 1 \in 1 .. 1
  BY <1>3
<1>7. head[Len(before) + 1].kind = "lf"
  BY <1>5, <1>6 DEF Stretch
<1>8. \A i \in 1 .. Len(before) : head[i].kind \in HeadKinds
  BY <1>4, <1>5
<1>9. HeadLayout(head, Len(before) + 1)
  BY <1>5, <1>6, <1>7, <1>8 DEF HeadLayout
<1> QED BY <1>9

\* What follows the headers: the body, between two other cells if b is 1.
TailLayout(tail, n, b) ==
  /\ tail \in Seq(Piece) /\ Len(tail) = n + 2 * b
  /\ \A i \in 1 .. n + 2 * b : /\ tail[i].kind \in {"body", "size", "last"}
                               /\ tail[i].kind = "body" <=> b < i /\ i <= b + n

LEMMA ChunkedTail ==
  ASSUME NEW n \in Nat, NEW size, NEW content, NEW last,
         Stretch(size, "size", 1), Stretch(content, "body", n), Stretch(last, "last", 1)
  PROVE  TailLayout(size \o content \o last, n, 1)
<1>1. PICK t : t = size \o content
  OBVIOUS
<1>2. PICK tail : tail = t \o last
  OBVIOUS
<1>3. /\ t \in Seq(Piece) /\ Len(t) = 1 + n
      /\ \A i \in 1 .. 1 : t[i] = size[i]
      /\ \A i \in 1 .. n : t[1 + i] = content[i]
  <2>1. size \in Seq(Piece) /\ Len(size) = 1 /\ content \in Seq(Piece) /\ Len(content) = n
    BY DEF Stretch
  <2>2. Joined(t, size, content, 1, n, Piece)
    BY <1>1, <2>1, ConcatFacts
  <2> QED BY <2>2 DEF Joined
<1>4. /\ tail \in Seq(Piece) /\ Len(tail) = (1 + n) + 1
      /\ \A i \in 1 .. 1 + n : tail[i] = t[i]
      /\ \A i \in 1 .. 1 : tail[(1 + n) + i] = last[i]
  <2>1. last \in Seq(Piece) /\ Len(last) = 1
    BY DEF Stretch
  <2>2. Joined(tail, t, last, 1 + n, 1, Piece)
    BY <1>2, <1>3, <2>1, ConcatFacts
  <2> QED BY <2>2 DEF Joined
<1>5. tail[1].kind = "size"
  <2>1. 1 \in 1 .. 1 /\ 1 \in 1 .. 1 + n
    OBVIOUS
  <2> QED BY <1>3, <1>4, <2>1 DEF Stretch
<1>6. tail[n + 2].kind = "last"
  <2>1. 1 \in 1 .. 1 /\ (1 + n) + 1 = n + 2
    OBVIOUS
  <2> QED BY <1>4, <2>1 DEF Stretch
<1>7. ASSUME NEW i \in 2 .. n + 1 PROVE tail[i].kind = "body"
  <2>1. i - 1 \in 1 .. n /\ 1 + (i - 1) = i /\ i \in 1 .. 1 + n
    OBVIOUS
  <2>2. tail[i] = content[i - 1]
    BY <1>3, <1>4, <2>1, Zenon
  <2> QED BY <2>1, <2>2 DEF Stretch
<1>8. ASSUME NEW i \in 1 .. n + 2 * 1
      PROVE  /\ tail[i].kind \in {"body", "size", "last"}
             /\ tail[i].kind = "body" <=> 1 < i /\ i <= 1 + n
  <2>1. i = 1 \/ i \in 2 .. n + 1 \/ i = n + 2
    OBVIOUS
  <2>2. CASE i = 1
    BY <1>5, <2>2
  <2>3. CASE i \in 2 .. n + 1
    <3>1. 1 < i /\ i <= 1 + n
      BY <2>3
    <3> QED BY <1>7, <2>3, <3>1
  <2>4. CASE i = n + 2
    <3>1. ~ (i <= 1 + n)
      BY <2>4
    <3> QED BY <1>6, <2>4, <3>1
  <2> QED BY <2>1, <2>2, <2>3, <2>4
<1>9. (1 + n) + 1 = n + 2 * 1
  OBVIOUS
<1> QED BY <1>1, <1>2, <1>4, <1>8, <1>9 DEF TailLayout

LEMMA PlainTail ==
  ASSUME NEW n \in Nat, NEW content, Stretch(content, "body", n)
  PROVE  TailLayout(content, n, 0)
<1>1. n + 2 * 0 = n /\ \A i \in 1 .. n : 0 < i /\ i <= 0 + n
  OBVIOUS
<1> QED BY <1>1 DEF TailLayout, Stretch

\* C are cells of request k: h cells end with the '\n' that ends the headers, the
\* body has n cells, with b cells before and b cells behind.
CellLayout(C, k, h, n, b) ==
  /\ h \in Nat \ {0} /\ n \in Nat /\ C \in Seq(Cell) /\ Len(C) = h + n + 2 * b
  /\ \A i \in 1 .. Len(C) :
       /\ C[i].req = k /\ C[i].n = i
       /\ C[i].kind \in HeadKinds <=> i < h
       /\ C[i].kind = "lf" <=> i = h
       /\ C[i].kind = "body" <=> h + b < i /\ i <= h + b + n

\* The headers and what follows.
LEMMA CellsFromParts ==
  ASSUME NEW k \in Nat, NEW h, NEW n \in Nat, NEW b \in Nat, NEW head, NEW tail, NEW all, NEW C,
         HeadLayout(head, h), TailLayout(tail, n, b), all = head \o tail,
         C = [i \in DOMAIN all |-> [req |-> k, n |-> i, kind |-> all[i].kind, line |-> all[i].line]]
  PROVE  CellLayout(C, k, h, n, b)
<1>0. /\ h \in Nat \ {0} /\ head \in Seq(Piece) /\ Len(head) = h
      /\ \A i \in 1 .. h - 1 : head[i].kind \in HeadKinds
      /\ head[h].kind = "lf"
  BY DEF HeadLayout
<1>1. /\ all \in Seq(Piece) /\ Len(all) = h + (n + 2 * b)
      /\ \A i \in 1 .. h : all[i] = head[i]
      /\ \A i \in 1 .. n + 2 * b : all[h + i] = tail[i]
  <2>1. tail \in Seq(Piece) /\ Len(tail) = n + 2 * b
    BY DEF TailLayout
  <2>2. Joined(all, head, tail, h, n + 2 * b, Piece)
    BY <1>0, <2>1, ConcatFacts
  <2> QED BY <2>2 DEF Joined
<1>2. DOMAIN all = 1 .. Len(all) /\ Len(all) = h + n + 2 * b /\ Len(all) \in Nat
  <2>1. DOMAIN all = 1 .. Len(all)
    BY <1>1
  <2>2. h + (n + 2 * b) = h + n + 2 * b /\ h + n + 2 * b \in Nat
    BY <1>0
  <2> QED BY <1>1, <2>1, <2>2, Zenon
<1>3. ASSUME NEW i \in 1 .. Len(all)
      PROVE  /\ all[i] \in Piece
             /\ all[i].kind \in HeadKinds <=> i < h
             /\ all[i].kind = "lf" <=> i = h
             /\ all[i].kind = "body" <=> h + b < i /\ i <= h + b + n
  <2>0. all[i] \in Piece
    BY <1>1
  <2>1. CASE i < h
    <3>1. i \in 1 .. h - 1 /\ i \in 1 .. h /\ ~ (h + b < i) /\ i # h
      BY <1>0, <2>1
    <3>2. all[i].kind \in HeadKinds
      BY <1>0, <1>1, <3>1
    <3> QED BY <2>0, <2>1, <3>1, <3>2 DEF HeadKinds
  <2>2. CASE i = h
    <3>1. i \in 1 .. h /\ ~ (h + b < i) /\ ~ (i < h)
      BY <1>0, <2>2
    <3>2. all[i].kind = "lf"
      BY <1>0, <1>1, <2>2, <3>1
    <3> QED BY <2>0, <2>2, <3>1, <3>2 DEF HeadKinds
  <2>3. CASE i > h
    <3>1. /\ i - h \in 1 .. n + 2 * b /\ h + (i - h) = i /\ ~ (i < h) /\ i # h
          /\ (b < i - h /\ i - h <= b + n) <=> (h + b < i /\ i <= h + b + n)
      BY <1>0, <1>2, <2>3
    <3>2. all[i] = tail[i - h]
      BY <1>1, <3>1, Zenon
    <3>3. /\ all[i].kind \in {"body", "size", "last"}
          /\ all[i].kind = "body" <=> b < i - h /\ i - h <= b + n
      BY <3>1, <3>2 DEF TailLayout
    <3> QED BY <2>0, <3>1, <3>3 DEF HeadKinds
  <2> QED BY <1>0, <1>2, <2>1, <2>2, <2>3
<1>4. ASSUME NEW i \in 1 .. Len(all)
      PROVE  C[i] \in Cell /\ C[i].req = k /\ C[i].n = i /\ C[i].kind = all[i].kind
  <2>1. i \in Nat /\ all[i].kind \in Kinds /\ all[i].line \in Nat
    BY <1>2, <1>3 DEF Piece
  <2>2. C[i] = [req |-> k, n |-> i, kind |-> all[i].kind, line |-> all[i].line]
    BY <1>2
  <2> QED BY <2>1, <2>2 DEF Cell
<1>5. C \in Seq(Cell) /\ Len(C) = Len(all)
  <2>1. DOMAIN C = 1 .. Len(all) /\ C = [i \in DOMAIN C |-> C[i]]
    BY <1>2
  <2>2. PICK m \in Nat : m = Len(all)
    BY <1>2
  <2>a. \A i \in 1 .. m : C[i] \in Cell
    BY <1>4, <2>2, Zenon
  <2>b. DOMAIN C = 1 .. m
    BY <2>1, <2>2, Zenon
  <2>3. C \in [1 .. m -> Cell]
    BY <2>a, <2>b, <2>1
  <2> QED BY <2>2, <2>3
<1>6. ASSUME NEW i \in 1 .. Len(C)
      PROVE  /\ C[i].req = k /\ C[i].n = i
             /\ C[i].kind \in HeadKinds <=> i < h
             /\ C[i].kind = "lf" <=> i = h
             /\ C[i].kind = "body" <=> h + b < i /\ i <= h + b + n
  <2>1. i \in 1 .. Len(all)
    BY <1>5, Zenon
  <2>2. /\ all[i].kind \in HeadKinds <=> i < h
        /\ all[i].kind = "lf" <=> i = h
        /\ all[i].kind = "body" <=> h + b < i /\ i <= h + b + n
    BY <1>3, <2>1, Zenon
  <2>3. C[i].req = k /\ C[i].n = i /\ C[i].kind = all[i].kind
    BY <1>4, <2>1, Zenon
  <2> QED BY <2>2, <2>3
<1>7. Len(C) = h + n + 2 * b
  BY <1>2, <1>5, Zenon
<1> QED BY <1>0, <1>5, <1>6, <1>7, Zenon DEF CellLayout

\* Cells.
LEMMA CellsLayout ==
  ASSUME NEW script, NEW k \in Nat, WellTyped(script[k])
  PROVE  \E h, n, b : /\ CellLayout(Cells(script, k), k, h, n, b)
                      /\ n = IF script[k].len = -1 THEN 0 ELSE script[k].len
                      /\ b = IF script[k].chunked THEN 1 ELSE 0
<1> DEFINE r == script[k]
           n == IF r.len = -1 THEN 0 ELSE r.len
           url == Repeat("url", 0, r.url)
           flat == FlattenSeq([i \in DOMAIN r.fields |->
                     Repeat("name", i, r.fields[i][1]) \o Repeat("value", i, r.fields[i][2])])
           lf == Repeat("lf", 0, 1)
           head == url \o flat \o lf
           content == Repeat("body", 0, n)
           size == Repeat("size", 0, 1)
           last == Repeat("last", 0, 1)
           tail == IF r.chunked THEN size \o content \o last ELSE content
           all == head \o tail
           C == [i \in DOMAIN all |-> [req |-> k, n |-> i, kind |-> all[i].kind, line |-> all[i].line]]
           b == IF r.chunked THEN 1 ELSE 0
<1>1. Cells(script, k) = C
  BY Zenon DEF Cells
<1>2. /\ r.url \in Nat /\ r.fields \in Seq(Nat \X Nat) /\ r.chunked \in BOOLEAN
      /\ n \in Nat /\ b \in Nat
  BY DEF WellTyped
<1>3. "url" \in HeadKinds /\ {"url", "lf", "body", "size", "last"} \subseteq Kinds /\ 0 \in Nat /\ 1 \in Nat
  BY DEF HeadKinds, Kinds
<1> HIDE DEF r, n, url, flat, lf, head, content, size, last, tail, all, C, b
<1>4. url \in Seq(HeadPiece) /\ flat \in Seq(HeadPiece)
  BY <1>2, <1>3, RepeatFacts, FieldsFacts, Zenon DEF url, flat
<1>5. /\ Stretch(lf, "lf", 1) /\ Stretch(content, "body", n)
      /\ Stretch(size, "size", 1) /\ Stretch(last, "last", 1)
  BY <1>2, <1>3, Stretches DEF lf, content, size, last
<1>6. PICK h : HeadLayout(head, h)
  BY <1>4, <1>5, HeadFacts DEF head
<1>7. TailLayout(tail, n, b)
  <2>1. CASE r.chunked
    BY <1>2, <1>5, <2>1, ChunkedTail DEF tail, b
  <2>2. CASE ~ r.chunked
    BY <1>2, <1>5, <2>2, PlainTail DEF tail, b
  <2> QED BY <2>1, <2>2
<1>8. CellLayout(C, k, h, n, b)
  BY <1>2, <1>6, <1>7, CellsFromParts DEF C, all
<1> QED BY <1>1, <1>8, Zenon DEF n, b, r

-----------------------------------------------------------------------------
(***************************************************************************)
(* The requests in the stream.                                             *)
(***************************************************************************)
\* The cells before, and those behind the body.
Extra(r) == IF r.chunked THEN 1 ELSE 0
BodyLength(r) == IF r.len = -1 THEN 0 ELSE r.len

\* Request k, with script r, lies behind position d and up to t; its headers end at h.
RequestAt(k, r, d, h, t) ==
  /\ h \in Nat /\ d < h /\ h + 2 * Extra(r) <= t /\ t - h - 2 * Extra(r) = BodyLength(r)
  /\ \A p \in d + 1 .. t :
       /\ stream[p].req = k /\ stream[p].n = p - d /\ Cells(conf.script, k)[p - d] = stream[p]
       /\ stream[p].kind \in HeadKinds <=> p < h
       /\ stream[p].kind = "lf" <=> p = h
       /\ stream[p].kind = "body" <=> h + Extra(r) < p /\ p <= t - Extra(r)

\* e[k] is where request k ends, and f[k] where its headers do.
StreamLayout(e, f) ==
  /\ e \in [0 .. Len(conf.script) -> Nat] /\ e[0] = 0 /\ e[Len(conf.script)] = Len(stream)
  /\ \A k \in 1 .. Len(conf.script) : RequestAt(k, conf.script[k], e[k - 1], f[k], e[k])
  /\ \A p \in 1 .. Len(stream) : \E k \in 1 .. Len(conf.script) : e[k - 1] < p /\ p <= e[k]
  /\ \A k \in 0 .. Len(conf.script) : \A j \in 0 .. k : e[j] <= e[k]

LEMMA SetupFacts ==
  ASSUME conf \in Setups
  PROVE  /\ conf.limit \in Int /\ conf.faults \in Nat
         /\ Len(conf.script) \in Nat /\ DOMAIN conf.script = 1 .. Len(conf.script)
         /\ \A k \in 1 .. Len(conf.script) : WellTyped(conf.script[k])
<1>1. \A c \in Setups :
        /\ c.limit \in Int /\ c.faults \in Nat
        /\ Len(c.script) \in Nat /\ DOMAIN c.script = 1 .. Len(c.script)
        /\ \A k \in DOMAIN c.script : WellTyped(c.script[k])
  BY HttpProtocolAssumption
<1> QED BY <1>1

\* The arithmetic of one request that begins behind position d and ends at t.
LEMMA Shifted ==
  ASSUME NEW d \in Nat, NEW h \in Nat \ {0}, NEW n \in Nat, NEW b \in {0, 1}, NEW t, t = d + (h + n + 2 * b),
         NEW p \in d + 1 .. t
  PROVE  /\ p - d \in 1 .. h + n + 2 * b /\ d + (p - d) = p
         /\ (p - d < h <=> p < d + h) /\ (p - d = h <=> p = d + h)
         /\ (h + b < p - d /\ p - d <= h + b + n) <=> (d + h + b < p /\ p <= t - b)
OBVIOUS

LEMMA StreamFacts ==
  ASSUME conf \in Setups, stream = Stream(conf.script)
  PROVE  /\ stream \in Seq(Cell)
         /\ \E e, f : StreamLayout(e, f)
<1>1. PICK script : script = conf.script
  OBVIOUS
<1>2. PICK N : N = Len(script)
  OBVIOUS
<1>3. N \in Nat /\ DOMAIN script = 1 .. N /\ \A k \in 1 .. N : WellTyped(script[k])
  BY <1>1, <1>2, SetupFacts
<1>4. PICK s : s = [k \in DOMAIN script |-> Cells(script, k)]
  OBVIOUS
<1>5. \A k \in 1 .. N : \E h, n, b : /\ CellLayout(s[k], k, h, n, b)
                                     /\ n = IF script[k].len = -1 THEN 0 ELSE script[k].len
                                     /\ b = IF script[k].chunked THEN 1 ELSE 0
  <2> SUFFICES ASSUME NEW k \in 1 .. N
               PROVE  \E h, n, b : /\ CellLayout(s[k], k, h, n, b)
                                   /\ n = IF script[k].len = -1 THEN 0 ELSE script[k].len
                                   /\ b = IF script[k].chunked THEN 1 ELSE 0
    OBVIOUS
  <2>1. k \in Nat /\ WellTyped(script[k]) /\ s[k] = Cells(script, k)
    BY <1>3, <1>4
  <2> QED BY <2>1, CellsLayout
<1>6. \A k \in 1 .. N : s[k] \in Seq(Cell) /\ Len(s[k]) \in Nat
  BY <1>5 DEF CellLayout
<1>7. s \in Seq(Seq(Cell)) /\ Len(s) = N
  <2>1. DOMAIN s = 1 .. N /\ s = [k \in DOMAIN s |-> s[k]]
    BY <1>3, <1>4
  <2>2. s \in [1 .. N -> Seq(Cell)]
    BY <1>6, <2>1
  <2> QED BY <1>3, <2>1, <2>2
<1>8. stream = FlattenSeq(s)
  BY <1>1, <1>4 DEF Stream
<1>9. stream \in Seq(Cell) /\ \E e : Ends(e, s, stream)
  BY <1>7, <1>8, FlattenEnds
<1>10. PICK e : Ends(e, s, stream)
  BY <1>9
<1>11. /\ e \in [0 .. N -> Nat] /\ e[0] = 0 /\ Len(stream) = e[N]
       /\ \A k \in 1 .. N : e[k] = e[k - 1] + Len(s[k])
       /\ \A k \in 1 .. N : \A m \in 1 .. Len(s[k]) : stream[e[k - 1] + m] = s[k][m]
  BY <1>7, <1>10 DEF Ends
<1>12. /\ \A p \in 1 .. Len(stream) : \E k \in 1 .. N : e[k - 1] < p /\ p <= e[k]
       /\ \A k \in 0 .. N : \A j \in 0 .. k : e[j] <= e[k]
  BY <1>3, <1>6, <1>7, <1>10, EndsCover
<1>13. PICK f : f = [k \in 1 .. N |-> CHOOSE q : RequestAt(k, script[k], e[k - 1], q, e[k])]
  OBVIOUS
<1>14. ASSUME NEW k \in 1 .. N PROVE RequestAt(k, script[k], e[k - 1], f[k], e[k])
  <2>1. PICK h, n, b : /\ CellLayout(s[k], k, h, n, b) /\ n = BodyLength(script[k]) /\ b = Extra(script[k])
    BY <1>5 DEF BodyLength, Extra
  <2>2. PICK d \in Nat : d = e[k - 1]
    <3>1. k - 1 \in 0 .. N
      BY <1>3
    <3> QED BY <1>11, <3>1
  <2>3. /\ h \in Nat \ {0} /\ n \in Nat /\ b \in {0, 1} /\ Len(s[k]) = h + n + 2 * b
        /\ \A i \in 1 .. Len(s[k]) :
             /\ s[k][i].req = k /\ s[k][i].n = i
             /\ s[k][i].kind \in HeadKinds <=> i < h
             /\ s[k][i].kind = "lf" <=> i = h
             /\ s[k][i].kind = "body" <=> h + b < i /\ i <= h + b + n
    BY <2>1 DEF CellLayout, Extra
  <2>4. PICK t : t = e[k]
    OBVIOUS
  <2>5. t = d + (h + n + 2 * b)
    BY <1>11, <2>2, <2>3, <2>4, SMTT(30)
  <2>6. d + h \in Nat /\ d < d + h /\ (d + h) + 2 * b <= t /\ t - (d + h) - 2 * b = n
    BY <2>3, <2>5
  <2>7. ASSUME NEW p \in d + 1 .. t
        PROVE  /\ stream[p].req = k /\ stream[p].n = p - d
               /\ Cells(script, k)[p - d] = stream[p]
               /\ stream[p].kind \in HeadKinds <=> p < d + h
               /\ stream[p].kind = "lf" <=> p = d + h
               /\ stream[p].kind = "body" <=> d + h + b < p /\ p <= t - b
    <3>1. /\ p - d \in 1 .. h + n + 2 * b /\ d + (p - d) = p
          /\ (p - d < h <=> p < d + h) /\ (p - d = h <=> p = d + h)
          /\ (h + b < p - d /\ p - d <= h + b + n) <=> (d + h + b < p /\ p <= t - b)
      BY <2>3, <2>5, Shifted
    <3>2. p - d \in 1 .. Len(s[k])
      BY <2>3, <3>1, Zenon
    <3>3. stream[p] = s[k][p - d]
      BY <1>11, <2>2, <3>1, <3>2, Zenon
    <3>4. s[k] = Cells(script, k)
      BY <1>3, <1>4
    <3>5. /\ s[k][p - d].req = k /\ s[k][p - d].n = p - d
          /\ s[k][p - d].kind \in HeadKinds <=> p - d < h
          /\ s[k][p - d].kind = "lf" <=> p - d = h
          /\ s[k][p - d].kind = "body" <=> h + b < p - d /\ p - d <= h + b + n
      BY <2>3, <3>2, Zenon
    <3> QED BY <3>1, <3>3, <3>4, <3>5, Zenon
  <2>8. RequestAt(k, script[k], d, d + h, t)
    BY <1>1, <2>1, <2>6, <2>7 DEF RequestAt
  <2>9. \E q : RequestAt(k, script[k], e[k - 1], q, e[k])
    BY <2>2, <2>4, <2>8
  <2>10. f[k] = CHOOSE q : RequestAt(k, script[k], e[k - 1], q, e[k])
    BY <1>13
  <2> QED BY <2>9, <2>10
<1>15. StreamLayout(e, f)
  BY <1>1, <1>2, <1>11, <1>12, <1>14 DEF StreamLayout
<1> QED BY <1>9, <1>15

\* Which request a position belongs to.
LEMMA RequestOf ==
  ASSUME NEW e, NEW f, StreamLayout(e, f), conf \in Setups, Len(stream) \in Nat,
         NEW p \in 1 .. Len(stream), NEW k \in 1 .. Len(conf.script), stream[p].req = k
  PROVE  e[k - 1] < p /\ p <= e[k]
<1>1. PICK j \in 1 .. Len(conf.script) : e[j - 1] < p /\ p <= e[j]
  BY DEF StreamLayout
<1>2. RequestAt(j, conf.script[j], e[j - 1], f[j], e[j])
  BY DEF StreamLayout
<1>3. e[j - 1] \in Nat /\ e[j] \in Nat
  <2>1. Len(conf.script) \in Nat
    BY SetupFacts
  <2>2. j - 1 \in 0 .. Len(conf.script) /\ j \in 0 .. Len(conf.script)
    BY <2>1
  <2> QED BY <2>2 DEF StreamLayout
<1>4. p \in e[j - 1] + 1 .. e[j]
  BY <1>1, <1>3
<1>5. stream[p].req = j
  BY <1>2, <1>4 DEF RequestAt
<1> QED BY <1>1, <1>5

\* MessageEnd and Lf are what StreamLayout says.
LEMMA LayoutNames ==
  ASSUME NEW e, NEW f, StreamLayout(e, f), conf \in Setups, stream \in Seq(Cell)
  PROVE  /\ \A k \in 0 .. Len(conf.script) : End(k) = e[k]
         /\ \A k \in 1 .. Len(conf.script) : Lf(k) = f[k]
<1>0. Len(stream) \in Nat /\ DOMAIN stream = 1 .. Len(stream) /\ Len(conf.script) \in Nat
  BY SetupFacts
<1>1. ASSUME NEW k \in 1 .. Len(conf.script)
      PROVE  /\ RequestAt(k, conf.script[k], e[k - 1], f[k], e[k])
             /\ e[k - 1] \in Nat /\ e[k] \in Nat /\ f[k] \in Nat
             /\ e[k - 1] < f[k] /\ f[k] <= e[k] /\ e[k] <= Len(stream)
             /\ \A p \in e[k - 1] + 1 .. e[k] : stream[p].req = k /\ (stream[p].kind = "lf" <=> p = f[k])
  <2>1. k - 1 \in 0 .. Len(conf.script) /\ k \in 0 .. Len(conf.script)
    BY <1>0
  <2>2. /\ RequestAt(k, conf.script[k], e[k - 1], f[k], e[k])
        /\ e[k - 1] \in Nat /\ e[k] \in Nat
    BY <2>1 DEF StreamLayout
  <2>3. e[k] <= Len(stream)
    <3>1. Len(conf.script) \in 0 .. Len(conf.script) /\ k \in 0 .. Len(conf.script)
      BY <1>0
    <3> QED BY <3>1 DEF StreamLayout
  <2>4. f[k] <= e[k]
    <3>1. Extra(conf.script[k]) \in {0, 1}
      BY DEF Extra
    <3>2. f[k] \in Nat /\ f[k] + 2 * Extra(conf.script[k]) <= e[k]
      BY <2>2 DEF RequestAt
    <3> QED BY <2>2, <3>1, <3>2
  <2> QED BY <2>2, <2>3, <2>4 DEF RequestAt
<1>2. ASSUME NEW k \in 1 .. Len(conf.script) PROVE MessageEnd(k) = e[k]
  <2>1. e[k] \in DOMAIN stream /\ stream[e[k]].req = k
    <3>1. e[k] \in e[k - 1] + 1 .. e[k] /\ e[k] \in 1 .. Len(stream)
      BY <1>0, <1>1
    <3> QED BY <1>0, <1>1, <3>1, Zenon
  <2>2. e[k] = Len(stream) \/ stream[e[k] + 1].req # k
    <3>1. CASE k = Len(conf.script)
      BY <3>1 DEF StreamLayout
    <3>2. CASE k # Len(conf.script)
      <4>1. k + 1 \in 1 .. Len(conf.script) /\ (k + 1) - 1 = k
        BY <1>0, <3>2
      <4>2. /\ e[k] \in Nat /\ e[k + 1] \in Nat /\ e[k] < e[k + 1]
            /\ \A p \in e[k] + 1 .. e[k + 1] : stream[p].req = k + 1
        <5>1. /\ e[k] \in Nat /\ e[k + 1] \in Nat /\ f[k + 1] \in Nat /\ e[k] < f[k + 1] /\ f[k + 1] <= e[k + 1]
              /\ \A p \in e[k] + 1 .. e[k + 1] : stream[p].req = k + 1
          BY <1>1, <4>1, Zenon
        <5> QED BY <5>1
      <4>3. e[k] + 1 \in e[k] + 1 .. e[k + 1] /\ k + 1 # k
        BY <4>2
      <4> QED BY <4>2, <4>3
    <3> QED BY <3>1, <3>2
  <2>3. ASSUME NEW p \in DOMAIN stream, stream[p].req = k, p = Len(stream) \/ stream[p + 1].req # k
        PROVE  p = e[k]
    <3>1. e[k - 1] < p /\ p <= e[k] /\ p \in Nat
      BY <1>0, <2>3, RequestOf
    <3>2. SUFFICES ASSUME p # e[k] PROVE FALSE
      OBVIOUS
    <3>3. p + 1 \in e[k - 1] + 1 .. e[k] /\ p # Len(stream)
      BY <1>0, <1>1, <3>1, <3>2
    <3>4. stream[p + 1].req = k
      BY <1>1, <3>3, Zenon
    <3> QED BY <2>3, <3>3, <3>4
  <2> QED BY <2>1, <2>2, <2>3 DEF MessageEnd
<1>3. ASSUME NEW k \in 1 .. Len(conf.script) PROVE Lf(k) = f[k]
  <2>1. f[k] \in e[k - 1] + 1 .. e[k] /\ f[k] \in 1 .. Len(stream)
    BY <1>0, <1>1
  <2>2. f[k] \in DOMAIN stream /\ stream[f[k]].req = k /\ stream[f[k]].kind = "lf"
    BY <1>0, <1>1, <2>1
  <2>3. ASSUME NEW p \in DOMAIN stream, stream[p].req = k, stream[p].kind = "lf" PROVE p = f[k]
    <3>1. e[k - 1] < p /\ p <= e[k] /\ p \in Nat
      BY <1>0, <2>3, RequestOf
    <3>2. p \in e[k - 1] + 1 .. e[k]
      BY <1>1, <3>1
    <3> QED BY <1>1, <2>3, <3>2
  <2> QED BY <2>2, <2>3 DEF Lf
<1>4. ASSUME NEW k \in 0 .. Len(conf.script) PROVE End(k) = e[k]
  <2>1. CASE k = 0
    BY <2>1 DEF End, StreamLayout
  <2>2. CASE k # 0
    <3>1. k \in 1 .. Len(conf.script)
      BY <1>0, <2>2
    <3> QED BY <1>2, <2>2, <3>1 DEF End
  <2> QED BY <2>1, <2>2
<1> QED BY <1>3, <1>4

\* How the requests follow each other, in the terms of the model.
LEMMA Layout ==
  ASSUME conf \in Setups, stream = Stream(conf.script)
  PROVE  /\ Len(stream) \in Nat /\ DOMAIN stream = 1 .. Len(stream)
         /\ Len(conf.script) \in Nat /\ DOMAIN conf.script = 1 .. Len(conf.script)
         /\ End(0) = 0 /\ End(Len(conf.script)) = Len(stream)
         /\ \A k \in 0 .. Len(conf.script) : End(k) \in Nat /\ End(k) <= Len(stream)
         /\ \A k \in 1 .. Len(conf.script) : RequestAt(k, conf.script[k], End(k - 1), Lf(k), End(k))
         /\ \A p \in 1 .. Len(stream) : \E k \in 1 .. Len(conf.script) : End(k - 1) < p /\ p <= End(k)
         /\ \A k \in 0 .. Len(conf.script) : \A j \in 0 .. k : End(j) <= End(k)
<1>1. PICK e, f : StreamLayout(e, f)
  BY StreamFacts
<1>2. stream \in Seq(Cell)
  BY StreamFacts
<1>3. /\ Len(stream) \in Nat /\ DOMAIN stream = 1 .. Len(stream)
      /\ Len(conf.script) \in Nat /\ DOMAIN conf.script = 1 .. Len(conf.script)
  BY <1>2, SetupFacts
<1>4. /\ \A k \in 0 .. Len(conf.script) : End(k) = e[k]
      /\ \A k \in 1 .. Len(conf.script) : Lf(k) = f[k]
  BY <1>1, <1>2, LayoutNames
<1>5. /\ 0 \in 0 .. Len(conf.script) /\ Len(conf.script) \in 0 .. Len(conf.script)
      /\ \A k \in 1 .. Len(conf.script) : k \in 0 .. Len(conf.script) /\ k - 1 \in 0 .. Len(conf.script)
      /\ \A k \in 0 .. Len(conf.script) : k \in 0 .. Len(conf.script) /\ \A j \in 0 .. k : j \in 0 .. Len(conf.script)
      /\ \A k \in 0 .. Len(conf.script) : k \in 0 .. Len(conf.script)
  BY <1>3
<1>6. /\ e \in [0 .. Len(conf.script) -> Nat] /\ e[0] = 0 /\ e[Len(conf.script)] = Len(stream)
      /\ \A k \in 1 .. Len(conf.script) : RequestAt(k, conf.script[k], e[k - 1], f[k], e[k])
      /\ \A p \in 1 .. Len(stream) : \E k \in 1 .. Len(conf.script) : e[k - 1] < p /\ p <= e[k]
      /\ \A k \in 0 .. Len(conf.script) : \A j \in 0 .. k : e[j] <= e[k]
  BY <1>1 DEF StreamLayout
<1>7. End(0) = 0 /\ End(Len(conf.script)) = Len(stream)
  BY <1>4, <1>5, <1>6
<1>8. \A k \in 0 .. Len(conf.script) : End(k) \in Nat
  BY <1>4, <1>6
<1>9. \A k \in 1 .. Len(conf.script) : RequestAt(k, conf.script[k], End(k - 1), Lf(k), End(k))
  BY <1>4, <1>5, <1>6, Zenon
<1>10. \A p \in 1 .. Len(stream) : \E k \in 1 .. Len(conf.script) : End(k - 1) < p /\ p <= End(k)
  BY <1>4, <1>5, <1>6, Zenon
<1>11. \A k \in 0 .. Len(conf.script) : \A j \in 0 .. k : End(j) <= End(k)
  BY <1>4, <1>5, <1>6, Zenon
<1>12. \A k \in 0 .. Len(conf.script) : k \in 0 .. Len(conf.script) /\ End(k) <= Len(stream)
  <2> SUFFICES ASSUME NEW k \in 0 .. Len(conf.script) PROVE End(k) <= Len(stream)
    OBVIOUS
  <2>1. k \in 0 .. Len(conf.script) /\ Len(conf.script) \in 0 .. Len(conf.script)
    BY <1>3
  <2> QED BY <1>7, <1>11, <2>1
<1> QED BY <1>3, <1>7, <1>8, <1>9, <1>10, <1>11, <1>12

-----------------------------------------------------------------------------
(***************************************************************************)
(* The body of request k.                                                  *)
(***************************************************************************)
LEMMA RequestPlace ==
  ASSUME conf \in Setups, stream = Stream(conf.script), NEW k \in 1 .. Len(conf.script)
  PROVE  /\ End(k - 1) \in Nat /\ Lf(k) \in Nat /\ End(k) \in Nat /\ End(k) <= Len(stream)
         /\ BodyFrom(k) \in Nat /\ BodyTo(k) \in Nat
         /\ End(k - 1) < Lf(k) /\ Lf(k) < BodyFrom(k) /\ BodyFrom(k) <= BodyTo(k) + 1 /\ BodyTo(k) <= End(k)
         /\ MessageEnd(k) = End(k)
<1>1. /\ Len(conf.script) \in Nat /\ RequestAt(k, conf.script[k], End(k - 1), Lf(k), End(k))
      /\ \A j \in 0 .. Len(conf.script) : End(j) \in Nat /\ End(j) <= Len(stream)
  BY Layout
<1>2. k \in 0 .. Len(conf.script) /\ k - 1 \in 0 .. Len(conf.script) /\ k # 0
  BY <1>1
<1>3. End(k - 1) \in Nat /\ End(k) \in Nat /\ End(k) <= Len(stream)
  BY <1>1, <1>2
<1>4. /\ Lf(k) \in Nat /\ End(k - 1) < Lf(k) /\ Lf(k) + 2 * Extra(conf.script[k]) <= End(k)
      /\ Extra(conf.script[k]) \in {0, 1}
  BY <1>1 DEF RequestAt, Extra
<1>5. BodyFrom(k) = Lf(k) + 1 + Extra(conf.script[k]) /\ BodyTo(k) = End(k) - Extra(conf.script[k])
  BY <1>3, <1>4 DEF BodyFrom, BodyTo, Extra
<1>6. MessageEnd(k) = End(k)
  BY <1>2 DEF End
<1> QED BY <1>3, <1>4, <1>5, <1>6

LEMMA RequestCells ==
  ASSUME conf \in Setups, stream = Stream(conf.script), NEW k \in 1 .. Len(conf.script),
         NEW p \in End(k - 1) + 1 .. End(k)
  PROVE  /\ stream[p].req = k /\ stream[p].n = p - End(k - 1)
         /\ Cells(conf.script, k)[p - End(k - 1)] = stream[p]
         /\ stream[p].kind \in HeadKinds <=> p < Lf(k)
         /\ stream[p].kind = "lf" <=> p = Lf(k)
         /\ stream[p].kind = "body" <=> BodyFrom(k) <= p /\ p <= BodyTo(k)
<1>1. RequestAt(k, conf.script[k], End(k - 1), Lf(k), End(k))
  BY Layout
<1>2. /\ stream[p].req = k /\ stream[p].n = p - End(k - 1)
      /\ Cells(conf.script, k)[p - End(k - 1)] = stream[p]
      /\ stream[p].kind \in HeadKinds <=> p < Lf(k)
      /\ stream[p].kind = "lf" <=> p = Lf(k)
      /\ stream[p].kind = "body" <=> /\ Lf(k) + Extra(conf.script[k]) < p
                                     /\ p <= End(k) - Extra(conf.script[k])
  BY <1>1, Zenon DEF RequestAt
<1>3. Extra(conf.script[k]) \in {0, 1} /\ Lf(k) \in Nat /\ End(k) \in Nat /\ End(k - 1) \in Nat
  BY RequestPlace DEF Extra
<1>4. BodyFrom(k) = Lf(k) + 1 + Extra(conf.script[k]) /\ BodyTo(k) = End(k) - Extra(conf.script[k])
  BY <1>3 DEF BodyFrom, BodyTo, Extra
<1>5. (Lf(k) + Extra(conf.script[k]) < p /\ p <= End(k) - Extra(conf.script[k])) <=> (BodyFrom(k) <= p /\ p <= BodyTo(k))
  BY <1>3, <1>4
<1> QED BY <1>2, <1>5

\* How far a body f .. g has come at u and, c cells further, what lies between.
BodyBetween(f, g, u, c, x, y) ==
  /\ x \in Nat /\ y \in Nat /\ x <= y /\ y <= g - f + 1 /\ y - x <= c
  /\ \A q \in u + 1 .. u + 1 + c - 1 : (f <= q /\ q <= g) <=> q \in f + x .. f + y - 1
  /\ \A q \in f + x .. f + y - 1 : q \in u + 1 .. u + 1 + c - 1

LEMMA Stretched ==
  ASSUME NEW f \in Nat, NEW g \in Nat, f <= g + 1, NEW u \in Int, NEW c \in Nat
  PROVE  BodyBetween(f, g, u, c, Larger(0, Smaller(u, g) - f + 1), Larger(0, Smaller(u + c, g) - f + 1))
BY DEF Larger, Smaller, BodyBetween

\* The least element of an interval.
LEMMA MinOfInterval ==
  ASSUME NEW a \in Int, NEW b \in Int, a <= b
  PROVE  Min(a .. b) = a
<1>1. a \in a .. b /\ \A y \in a .. b : a <= y
  OBVIOUS
<1>2. \A x \in a .. b : (\A y \in a .. b : x <= y) => x = a
  BY <1>1
<1> QED BY <1>1, <1>2 DEF Min

\* on_body gets the cells of the body, in order.
LEMMA BytesFacts ==
  ASSUME conf \in Setups, stream = Stream(conf.script), NEW k \in 1 .. Len(conf.script),
         NEW u \in Int, NEW c \in Nat, Lf(k) <= u + 1, u + c <= End(k),
         NEW bytes, bytes = BodyBytes(u + 1, c)
  PROVE  /\ BodyUpTo(k, u) \in Nat /\ BodyUpTo(k, u + c) \in Nat /\ BodyUpTo(k, u) <= BodyUpTo(k, u + c)
         /\ BodyUpTo(k, u + c) <= BodyTo(k) - BodyFrom(k) + 1 /\ BodyUpTo(k, u + c) - BodyUpTo(k, u) <= c
         /\ Len(bytes) = BodyUpTo(k, u + c) - BodyUpTo(k, u)
         /\ \A i \in 1 .. Len(bytes) : bytes[i].n = BodyFrom(k) + BodyUpTo(k, u) + i - 1 - End(k - 1)
<1> DEFINE body == {q \in u + 1 .. u + 1 + c - 1 : stream[q].kind = "body"}
<1>1. PICK f, g, x, y, d : f = BodyFrom(k) /\ g = BodyTo(k) /\ x = BodyUpTo(k, u) /\ y = BodyUpTo(k, u + c) /\ d = End(k - 1)
  OBVIOUS
<1>2. f \in Nat /\ g \in Nat /\ f <= g + 1 /\ d \in Nat /\ d < f /\ g <= End(k) /\ End(k) \in Nat
  BY <1>1, RequestPlace
<1>3. /\ x \in Nat /\ y \in Nat /\ x <= y /\ y <= g - f + 1 /\ y - x <= c
      /\ \A q \in u + 1 .. u + 1 + c - 1 : (f <= q /\ q <= g) <=> q \in f + x .. f + y - 1
      /\ \A q \in f + x .. f + y - 1 : q \in u + 1 .. u + 1 + c - 1
  <2>1. x = Larger(0, Smaller(u, g) - f + 1) /\ y = Larger(0, Smaller(u + c, g) - f + 1)
    BY <1>1 DEF BodyUpTo
  <2>2. BodyBetween(f, g, u, c, Larger(0, Smaller(u, g) - f + 1), Larger(0, Smaller(u + c, g) - f + 1))
    BY <1>2, Stretched
  <2>3. BodyBetween(f, g, u, c, x, y)
    BY <2>1, <2>2
  <2> QED BY <2>3 DEF BodyBetween
<1>4. ASSUME NEW q \in u + 1 .. u + 1 + c - 1
      PROVE  (stream[q].kind = "body" <=> f <= q /\ q <= g) /\ stream[q].n = q - d
  <2>1. q \in End(k - 1) + 1 .. End(k)
    BY RequestPlace
  <2> QED BY <1>1, <2>1, RequestCells
<1>5. body = f + x .. f + y - 1
  BY <1>3, <1>4
<1>6. bytes = [i \in 1 .. Cardinality(body) |-> stream[Min(body) + i - 1]]
  BY DEF BodyBytes
<1> HIDE DEF body
<1>7. Cardinality(body) = y - x
  <2>1. PICK lo \in Int, hi \in Int : lo = f + x /\ hi = f + y - 1
    BY <1>2, <1>3
  <2>2. Cardinality(lo .. hi) = IF lo > hi THEN 0 ELSE hi - lo + 1
    BY FS_Interval
  <2>3. Cardinality(body) = IF lo > hi THEN 0 ELSE hi - lo + 1
    BY <1>5, <2>1, <2>2
  <2> QED BY <1>2, <1>3, <2>1, <2>3
<1>8. Len(bytes) = y - x
  <2>1. y - x \in Nat
    BY <1>3
  <2> QED BY <1>6, <1>7, <2>1
<1>9. ASSUME NEW i \in 1 .. Len(bytes) PROVE bytes[i].n = f + x + i - 1 - d
  <2>1. Min(body) = f + x
    BY <1>2, <1>3, <1>5, <1>8, MinOfInterval
  <2>2. PICK q : q = (f + x) + i - 1
    OBVIOUS
  <2>3. bytes[i] = stream[q]
    BY <1>6, <1>7, <1>8, <2>1, <2>2
  <2>4. q \in f + x .. f + y - 1 /\ q - d = f + x + i - 1 - d
    BY <1>2, <1>3, <1>8, <2>2
  <2>5. q \in u + 1 .. u + 1 + c - 1
    BY <1>3, <2>4
  <2>6. stream[q].n = q - d
    BY <1>4, <2>5
  <2> QED BY <2>3, <2>4, <2>6
<1> QED BY <1>1, <1>3, <1>8, <1>9

-----------------------------------------------------------------------------
(***************************************************************************)
(* One call of http_parser_execute while a body is read.                   *)
(***************************************************************************)
RequestFields ==
  {"k", "base", "err", "nbufs", "cur", "rem", "clen", "conn", "chunked", "nread", "complete", "taken"}

LEMMA FieldNames == DOMAIN NewRequest = RequestFields /\ DOMAIN Idle = {"left", "out", "caller"}
BY DEF NewRequest, Idle, RequestFields

\* What only depends on the script does not change.
LEMMA FrameKept ==
  ASSUME UNCHANGED <<conf, stream>>
  PROVE  /\ \A k : End(k)' = End(k) /\ Lf(k)' = Lf(k) /\ BodyFrom(k)' = BodyFrom(k) /\ BodyTo(k)' = BodyTo(k)
         /\ \A k, p : BodyUpTo(k, p)' = BodyUpTo(k, p)
<1>1. \A k : End(k)' = End(k) /\ Lf(k)' = Lf(k)
  BY DEF End, Lf, MessageEnd
<1>2. \A k : BodyFrom(k)' = BodyFrom(k) /\ BodyTo(k)' = BodyTo(k)
  BY <1>1 DEF BodyFrom, BodyTo
<1>3. \A k, p : BodyUpTo(k, p)' = BodyUpTo(k, p)
  BY <1>2 DEF BodyUpTo
<1> QED BY <1>1, <1>2, <1>3

\* The fields after the parser consumed c cells, the `bytes' among them of the body.
Executed(c, bytes, fromRem) ==
  /\ DOMAIN req' = RequestFields /\ DOMAIN rd' = {"left", "out", "caller"}
  /\ req'.k = req.k /\ req'.base = req.base /\ req'.err = req.err /\ req'.cur = req.cur
  /\ req'.clen = req.clen /\ req'.chunked = req.chunked
  /\ req'.rem = IF fromRem THEN req.rem - c ELSE req.rem
  /\ req'.nread = req.nread + Len(bytes)
  /\ req'.taken = req.taken \o [i \in 1 .. Len(bytes) |-> bytes[i].n]
  /\ rd'.left = rd.left - Len(bytes) /\ rd'.out = rd.out + Len(bytes) /\ rd'.caller = rd.caller

LEMMA ExecutedFields ==
  ASSUME DOMAIN req = RequestFields, DOMAIN rd = {"left", "out", "caller"},
         NEW p, NEW m, NEW fromRem \in BOOLEAN, Execute(p, m, fromRem),
         NEW c, c = Consumed(p, m), NEW bytes, bytes = BodyBytes(p, c)
  PROVE  /\ Executed(c, bytes, fromRem)
         /\ req'.complete <=> req.complete \/ p + c - 1 = MessageEnd(req.k)
<1>1. req' = [req EXCEPT !.rem = IF fromRem THEN @ - c ELSE @,
                         !.nread = @ + Len(bytes),
                         !.taken = @ \o [i \in 1 .. Len(bytes) |-> bytes[i].n],
                         !.complete = @ \/ p + c - 1 = MessageEnd(req.k)]
  BY DEF Execute
<1>2. rd' = [rd EXCEPT !.left = @ - Len(bytes), !.out = @ + Len(bytes)]
  BY DEF Execute
<1>3. PICK t, e : t = req.taken \o [i \in 1 .. Len(bytes) |-> bytes[i].n]
                  /\ e = (req.complete \/ p + c - 1 = MessageEnd(req.k))
  OBVIOUS
<1>4. req' = [req EXCEPT !.rem = IF fromRem THEN @ - c ELSE @, !.nread = @ + Len(bytes),
                         !.taken = t, !.complete = e]
  BY <1>1, <1>3, Zenon
<1>5. /\ DOMAIN req' = RequestFields
      /\ req'.k = req.k /\ req'.base = req.base /\ req'.err = req.err /\ req'.cur = req.cur
      /\ req'.clen = req.clen /\ req'.chunked = req.chunked
      /\ req'.rem = IF fromRem THEN req.rem - c ELSE req.rem
      /\ req'.nread = req.nread + Len(bytes) /\ req'.taken = t /\ req'.complete = e
  BY <1>4 DEF RequestFields
<1>6. /\ DOMAIN rd' = {"left", "out", "caller"}
      /\ rd'.left = rd.left - Len(bytes) /\ rd'.out = rd.out + Len(bytes) /\ rd'.caller = rd.caller
  BY <1>2
<1>7. req'.complete <=> req.complete \/ p + c - 1 = MessageEnd(req.k)
  BY <1>3, <1>5, Zenon
<1>8. req'.taken = req.taken \o [i \in 1 .. Len(bytes) |-> bytes[i].n]
  BY <1>3, <1>5, Zenon
<1> QED BY <1>5, <1>6, <1>7, <1>8, Zenon DEF Executed

\* What is known of the body's cells taken so far.
TakenOf(k, taken, nread) ==
  /\ taken \in Seq(Int) /\ nread = Len(taken)
  /\ \A i \in DOMAIN taken : taken[i] = BodyFrom(k) - End(k - 1) + i - 1
  /\ Len(taken) <= BodyTo(k) - BodyFrom(k) + 1

\* A run of consecutive numbers from f on, of length x, goes on to length y.
Run(s, f, x) == s \in Seq(Int) /\ Len(s) = x /\ \A i \in 1 .. x : s[i] = f + i - 1

LEMMA RunExtended ==
  ASSUME NEW f \in Int, NEW x \in Nat, NEW y \in Nat, x <= y, NEW s, Run(s, f, x),
         NEW t, Run(t, f + x, y - x), NEW u, u = s \o t
  PROVE  Run(u, f, y)
<1>1. PICK n \in Nat : n = y - x /\ x + n = y
  OBVIOUS
<1>2. s \in Seq(Int) /\ t \in Seq(Int) /\ Len(s) = x /\ Len(t) = n
  BY <1>1 DEF Run
<1>3. Joined(u, s, t, x, n, Int)
  BY <1>2, ConcatFacts
<1>4. u \in Seq(Int) /\ Len(u) = y
  BY <1>1, <1>3 DEF Joined
<1>5. ASSUME NEW i \in 1 .. y PROVE u[i] = f + i - 1
  <2>1. CASE i \in 1 .. x
    BY <1>3, <2>1 DEF Joined, Run
  <2>2. CASE i \notin 1 .. x
    <3>1. PICK j : j = i - x
      OBVIOUS
    <3>2. j \in 1 .. n /\ x + j = i /\ (f + x) + j - 1 = f + i - 1
      BY <1>1, <2>2, <3>1
    <3>3. u[x + j] = t[j]
      BY <1>3, <3>2 DEF Joined
    <3>4. t[j] = (f + x) + j - 1
      BY <1>1, <3>2 DEF Run
    <3> QED BY <3>2, <3>3, <3>4
  <2> QED BY <2>1, <2>2
<1> QED BY <1>4, <1>5 DEF Run

\* What one execution does, in numbers: c cells consumed, b of them of the body.
ExecutedCounts(m, fromRem, c, b) ==
  /\ DOMAIN req' = RequestFields /\ DOMAIN rd' = {"left", "out", "caller"}
  /\ req'.k = req.k /\ req'.base = req.base /\ req'.err = req.err /\ req'.cur = req.cur
  /\ req'.clen = req.clen /\ req'.chunked = req.chunked
  /\ req'.rem = IF fromRem THEN req.rem - c ELSE req.rem
  /\ req'.nread = req.nread + b
  /\ rd'.left = rd.left - b /\ rd'.out = rd.out + b /\ rd'.caller = rd.caller
  /\ b <= c /\ c <= m
  /\ req.complete => c = 0 /\ b = 0 /\ req'.complete
  /\ ~ req.complete => /\ c = Smaller(m, End(req.k) - ParsedTo)
                       /\ req'.complete <=> ParsedTo + c = End(req.k)
                       /\ Len(req'.taken) = BodyUpTo(req.k, ParsedTo + c)
                       /\ b = BodyUpTo(req.k, ParsedTo + c) - BodyUpTo(req.k, ParsedTo)
  /\ TakenOf(req.k, req'.taken, req'.nread)

LEMMA ExecuteFacts ==
  ASSUME RequestShape, BodyTaken, req.k # 0, NEW m \in Nat, NEW fromRem \in BOOLEAN,
         NEW p, p = ParsedTo + 1, Execute(p, m, fromRem)
  PROVE  \E c, b \in Nat : ExecutedCounts(m, fromRem, c, b)
<1>1. PICK k, P, c, bytes : k = req.k /\ P = ParsedTo /\ c = Consumed(p, m) /\ bytes = BodyBytes(p, c)
  OBVIOUS
<1>2. /\ conf \in Setups /\ stream = Stream(conf.script) /\ P \in Int /\ p = P + 1
      /\ DOMAIN req = RequestFields /\ DOMAIN rd = {"left", "out", "caller"}
  BY <1>1, FieldNames DEF RequestShape, ParsedTo
<1>3. /\ k \in 1 .. Len(conf.script) /\ TakenOf(k, req.taken, req.nread)
      /\ ~ req.complete => Lf(k) <= P + 1 /\ P < End(k) /\ Len(req.taken) = BodyUpTo(k, P)
  BY <1>1, <1>2, SetupFacts DEF BodyTaken, TakenOf
<1>4. /\ Executed(c, bytes, fromRem)
      /\ req'.complete <=> req.complete \/ p + c - 1 = MessageEnd(k)
  BY <1>1, <1>2, ExecutedFields, Zenon
<1>5. /\ End(k - 1) \in Nat /\ Lf(k) \in Nat /\ End(k) \in Nat /\ BodyFrom(k) \in Nat /\ BodyTo(k) \in Nat
      /\ MessageEnd(k) = End(k)
  BY <1>2, <1>3, RequestPlace
<1>6. CASE req.complete
  <2>1. c = 0
    BY <1>1, <1>6 DEF Consumed
  <2>2. bytes = <<>> /\ Len(bytes) = 0
    <3>1. PICK body, n : body = {q \in p .. p + c - 1 : stream[q].kind = "body"} /\ n = Cardinality(body)
      OBVIOUS
    <3>2. body = {}
      BY <1>2, <2>1, <3>1
    <3>3. n = 0
      BY <3>1, <3>2, FS_EmptySet
    <3>4. bytes = [i \in 1 .. n |-> stream[Min(body) + i - 1]]
      BY <1>1, <3>1 DEF BodyBytes
    <3>5. bytes = <<>>
      BY <3>3, <3>4
    <3> QED BY <3>5
  <2>3. req'.taken = req.taken
    BY <1>3, <1>4, <2>2 DEF Executed, TakenOf
  <2>4. req'.nread = req.nread
    BY <1>3, <1>4, <2>2 DEF Executed, TakenOf
  <2>5. TakenOf(req.k, req'.taken, req'.nread) /\ req'.complete
    BY <1>1, <1>3, <1>4, <1>6, <2>3, <2>4
  <2>6. Executed(0, <<>>, fromRem)
    BY <1>4, <2>1, <2>2
  <2>7. ExecutedCounts(m, fromRem, 0, 0)
    BY <1>6, <2>5, <2>6 DEF Executed, ExecutedCounts
  <2> QED BY <2>7
<1>7. CASE ~ req.complete
  <2>1. c = Smaller(m, MessageEnd(k) - p + 1)
    BY <1>1, <1>7 DEF Consumed
  <2>2. c = Smaller(m, End(k) - P) /\ c \in Nat /\ c <= m /\ P + c <= End(k) /\ P + 1 = p
    BY <1>2, <1>3, <1>5, <1>7, <2>1, SMTT(30) DEF Smaller
  <2>3. PICK x, y : x = BodyUpTo(k, P) /\ y = BodyUpTo(k, P + c)
    OBVIOUS
  <2>4. /\ x \in Nat /\ y \in Nat /\ x <= y /\ y <= BodyTo(k) - BodyFrom(k) + 1 /\ y - x <= c
        /\ Len(bytes) = y - x
        /\ \A i \in 1 .. Len(bytes) : bytes[i].n = BodyFrom(k) + x + i - 1 - End(k - 1)
    <3>1. Lf(k) <= P + 1 /\ P + c <= End(k) /\ bytes = BodyBytes(P + 1, c)
      BY <1>1, <1>3, <1>7, <2>2
    <3> QED BY <1>2, <1>3, <2>2, <2>3, <3>1, BytesFacts, SMTT(30)
  <2>5. PICK new, f : new = [i \in 1 .. Len(bytes) |-> bytes[i].n] /\ f = BodyFrom(k) - End(k - 1)
    OBVIOUS
  <2>6. Run(new, f + x, y - x) /\ f \in Int
    <3>1. f \in Int
      BY <1>5, <2>5
    <3>2. PICK n \in Nat : n = y - x
      BY <2>4
    <3>3. ASSUME NEW i \in 1 .. n PROVE bytes[i].n \in Int /\ bytes[i].n = (f + x) + i - 1
      <4>1. i \in 1 .. Len(bytes) /\ x \in Nat
        BY <2>4, <3>2
      <4>2. bytes[i].n = BodyFrom(k) + x + i - 1 - End(k - 1)
        BY <2>4, <4>1
      <4>3. PICK a \in Nat, d \in Nat : a = BodyFrom(k) /\ d = End(k - 1)
        BY <1>5
      <4>4. bytes[i].n = a + x + i - 1 - d /\ f = a - d
        BY <2>5, <4>2, <4>3
      <4> QED BY <4>1, <4>4
    <3>4. new = [i \in 1 .. n |-> bytes[i].n]
      BY <2>4, <2>5, <3>2
    <3>5. new \in Seq(Int) /\ Len(new) = n /\ \A i \in 1 .. n : new[i] = bytes[i].n
      BY <3>3, <3>4
    <3> QED BY <3>1, <3>2, <3>3, <3>5 DEF Run
  <2>7. req'.taken = req.taken \o new /\ Run(req.taken, f, x) /\ req.nread = x
    BY <1>3, <1>4, <1>7, <2>3, <2>5, SMTT(30) DEF Executed, TakenOf, Run
  <2>8. Run(req'.taken, f, y)
    BY <2>4, <2>6, <2>7, RunExtended
  <2>9. /\ req'.taken \in Seq(Int) /\ Len(req'.taken) = y
        /\ \A i \in DOMAIN req'.taken : req'.taken[i] = BodyFrom(k) - End(k - 1) + i - 1
    BY <2>5, <2>8, SMTT(30) DEF Run
  <2>10. req'.nread = Len(req'.taken)
    BY <1>4, <2>4, <2>7, <2>9 DEF Executed
  <2>11. TakenOf(k, req'.taken, req'.nread)
    BY <2>4, <2>9, <2>10 DEF TakenOf
  <2>12. req'.complete <=> P + c = End(k)
    <3>1. p + c - 1 = P + c
      BY <1>2, <2>2
    <3> QED BY <1>4, <1>5, <1>7, <3>1
  <2>13. ExecutedCounts(m, fromRem, c, y - x)
    BY <1>1, <1>4, <1>7, <2>2, <2>3, <2>4, <2>9, <2>11, <2>12 DEF Executed, ExecutedCounts
  <2> QED BY <2>2, <2>4, <2>13
<1> QED BY <1>6, <1>7

-----------------------------------------------------------------------------
(***************************************************************************)
(* The client sends the headers of a request in one piece, or any cell by  *)
(* itself: it never sends parts of two requests at once.                   *)
(***************************************************************************)
LEMMA NextSentFacts ==
  ASSUME conf \in Setups, stream = Stream(conf.script), sent \in Nat, sent < Len(stream)
  PROVE  \E k \in 1 .. Len(conf.script) : /\ stream[sent + 1].req = k
                                          /\ End(k - 1) <= sent /\ sent < End(k)
                                          /\ NextSent \in sent + 1 .. End(k)
<1>1. Len(stream) \in Nat /\ sent + 1 \in 1 .. Len(stream)
  BY Layout
<1>2. PICK k \in 1 .. Len(conf.script) : End(k - 1) < sent + 1 /\ sent + 1 <= End(k)
  BY <1>1, Layout
<1>3. /\ End(k - 1) \in Nat /\ End(k) \in Nat /\ Lf(k) \in Nat /\ End(k) <= Len(stream)
      /\ End(k - 1) < Lf(k) /\ Lf(k) <= End(k)
  BY RequestPlace
<1>4. sent + 1 \in End(k - 1) + 1 .. End(k)
  BY <1>2, <1>3
<1>5. stream[sent + 1].req = k
  BY <1>4, RequestCells
<1>6. NextSent \in sent + 1 .. End(k)
  <2>1. CASE conf.whole /\ InHead(sent + 1)
    <3> DEFINE FirstLf(p) == stream[p].kind = "lf" /\ \A q \in sent + 1 .. p - 1 : stream[q].kind # "lf"
    <3>1. stream[sent + 1].kind \in HeadKinds \/ stream[sent + 1].kind = "lf"
      BY <2>1 DEF InHead, HeadKinds
    <3>2. sent + 1 <= Lf(k)
      BY <1>3, <1>4, <3>1, RequestCells
    <3>3. Lf(k) \in sent + 1 .. Len(stream) /\ Lf(k) \in End(k - 1) + 1 .. End(k)
      BY <1>3, <3>2
    <3>4. stream[Lf(k)].kind = "lf"
      BY <3>3, RequestCells
    <3>5. ASSUME NEW q \in sent + 1 .. Lf(k) - 1 PROVE stream[q].kind # "lf"
      <4>1. q \in End(k - 1) + 1 .. End(k) /\ q # Lf(k)
        BY <1>3, <1>4
      <4> QED BY <4>1, RequestCells
    <3>6. \E p \in sent + 1 .. Len(stream) : FirstLf(p)
      BY <3>3, <3>4, <3>5
    <3>7. NextSent = CHOOSE p \in sent + 1 .. Len(stream) : FirstLf(p)
      BY <2>1 DEF NextSent
    <3>8. PICK p : p = NextSent
      OBVIOUS
    <3>9. p \in sent + 1 .. Len(stream) /\ FirstLf(p)
      BY <3>6, <3>7, <3>8, Zenon
    <3>10. p <= Lf(k)
      <4>1. ASSUME p > Lf(k) PROVE FALSE
        <5>1. Lf(k) \in sent + 1 .. p - 1
          BY <3>3, <3>9, <4>1
        <5> QED BY <3>4, <3>9, <5>1
      <4> QED BY <1>3, <3>9, <4>1
    <3> QED BY <1>3, <3>8, <3>9, <3>10
  <2>2. CASE ~ (conf.whole /\ InHead(sent + 1))
    <3>1. NextSent = sent + 1
      BY <2>2 DEF NextSent
    <3> QED BY <1>2, <1>3, <3>1
  <2> QED BY <2>1, <2>2
<1> QED BY <1>2, <1>3, <1>5, <1>6

-----------------------------------------------------------------------------
(***************************************************************************)
(* BodyInv is an invariant.                                                *)
(***************************************************************************)
WithinRequest == {"handler", "read", "respond", "skip"}

LEMMA FieldNamesNext == DOMAIN NewRequest' = RequestFields /\ DOMAIN Idle' = {"left", "out", "caller"}
BY DEF NewRequest, Idle, RequestFields

\* The facts of the invariant that the steps use.
LEMMA BodyInvFacts ==
  ASSUME BodyInv
  PROVE  /\ conf \in Setups /\ stream = Stream(conf.script) /\ Len(stream) \in Nat
         /\ sent \in Nat /\ got \in Nat /\ got <= sent /\ sent <= Len(stream)
         /\ DOMAIN req = RequestFields /\ DOMAIN rd = {"left", "out", "caller"}
         /\ req.base \in Nat /\ req.base <= got /\ req.rem \in Nat /\ req.rem <= got
         /\ req.clen \in Int /\ req.cur \in Int /\ rd.left \in Int /\ rd.out \in Nat
         /\ pc = "headers" => req.k = 0
         /\ req.k = 0 => req.taken = <<>> /\ req.nread = 0 /\ ~ req.complete /\ req.err # "ok" /\ pc \notin WithinRequest
         /\ req.k # 0 => req.k \in 1 .. Len(conf.script) /\ TakenOf(req.k, req.taken, req.nread)
         /\ req.nread \in Nat
<1>1. conf \in Setups /\ stream = Stream(conf.script)
  BY DEF BodyInv, RequestShape
<1>2. Len(stream) \in Nat /\ DOMAIN conf.script = 1 .. Len(conf.script)
  BY <1>1, Layout
<1>3. req.k # 0 => req.k \in 1 .. Len(conf.script) /\ TakenOf(req.k, req.taken, req.nread)
  BY <1>2 DEF BodyInv, BodyTaken, TakenOf
<1>4. req.k = 0 => req.taken = <<>> /\ req.nread = 0 /\ ~ req.complete /\ req.err # "ok" /\ pc \notin WithinRequest
  BY DEF BodyInv, NoBodyYet, WithinRequest
<1>5. req.nread \in Nat
  BY <1>3, <1>4 DEF TakenOf
<1> QED BY <1>1, <1>2, <1>3, <1>4, <1>5, FieldNames DEF BodyInv, RequestShape, NoBodyYet

LEMMA BodyTakenNext ==
  ASSUME UNCHANGED <<conf, stream>>, conf \in Setups, NEW k \in 1 .. Len(conf.script), req'.k = k,
         TakenOf(k, req'.taken, req'.nread), NEW P, P = got' - req'.rem,
         ~ req'.complete => Lf(k) <= P + 1 /\ P < End(k) /\ Len(req'.taken) = BodyUpTo(k, P)
  PROVE  BodyTaken'
<1>1. DOMAIN conf'.script = 1 .. Len(conf.script)
  BY SetupFacts
<1>2. /\ End(k)' = End(k) /\ End(k - 1)' = End(k - 1) /\ Lf(k)' = Lf(k) /\ BodyFrom(k)' = BodyFrom(k)
      /\ BodyTo(k)' = BodyTo(k) /\ BodyUpTo(k, P)' = BodyUpTo(k, P)
  BY FrameKept
<1>3. ParsedTo' = P
  BY DEF ParsedTo
<1> QED BY <1>1, <1>2, <1>3 DEF BodyTaken, TakenOf

\* A step that reads nothing.
LEMMA QuietBody ==
  ASSUME BodyInv, UNCHANGED <<conf, stream, sent, got, req>>,
         DOMAIN rd' = {"left", "out", "caller"}, rd'.left \in Int, rd'.out \in Nat,
         pc' = "headers" => pc = "headers", pc' \in WithinRequest => req.k # 0
  PROVE  BodyInv'
<1>1. RequestShape'
  BY FieldNamesNext, BodyInvFacts DEF RequestShape
<1>2. NoBodyYet'
  BY DEF BodyInv, NoBodyYet, WithinRequest
<1>3. BodyTaken'
  <2>1. CASE req.k = 0
    BY <2>1 DEF BodyTaken
  <2>2. CASE req.k # 0
    <3>1. /\ conf \in Setups /\ req.k \in 1 .. Len(conf.script) /\ req'.k = req.k
          /\ TakenOf(req.k, req'.taken, req'.nread)
      BY <2>2, BodyInvFacts
    <3>2. ~ req'.complete => /\ Lf(req.k) <= got' - req'.rem + 1 /\ got' - req'.rem < End(req.k)
                             /\ Len(req'.taken) = BodyUpTo(req.k, got' - req'.rem)
      BY <2>2 DEF BodyInv, BodyTaken, ParsedTo
    <3> QED BY <3>1, <3>2, BodyTakenNext
  <2> QED BY <2>1, <2>2
<1> QED BY <1>1, <1>2, <1>3 DEF BodyInv

\* A step of read_headers that does not end the headers.
LEMMA HeadBody ==
  ASSUME BodyInv, pc = "headers", UNCHANGED <<conf, stream, sent, rd>>, got' \in Nat, got <= got', got' <= sent,
         DOMAIN req' = RequestFields, req'.k = 0, req'.base = req.base, req'.rem = req.rem, req'.clen = req.clen,
         req'.cur \in Int, req'.taken = req.taken, req'.nread = req.nread, req'.complete = req.complete,
         req'.err # "ok", pc' \notin WithinRequest
  PROVE  BodyInv'
<1>1. RequestShape'
  BY FieldNamesNext, BodyInvFacts DEF RequestShape
<1>2. NoBodyYet'
  BY BodyInvFacts DEF NoBodyYet, WithinRequest
<1>3. BodyTaken'
  BY DEF BodyTaken
<1> QED BY <1>1, <1>2, <1>3 DEF BodyInv

\* read_headers returns an error.
LEMMA HeadersReturnBody ==
  ASSUME BodyInv, pc = "headers", UNCHANGED <<conf, stream, sent, rd>>, got' \in Nat, got <= got', got' <= sent,
         NEW e, e # "ok", HeadersReturn(e)
  PROVE  BodyInv'
<1>1. DOMAIN req = RequestFields /\ req.k = 0 /\ req.cur \in Int
  BY BodyInvFacts
<1>2. req' = [req EXCEPT !.err = e] /\ pc' = "returned"
  BY DEF HeadersReturn
<1>3. /\ DOMAIN req' = RequestFields /\ req'.k = 0 /\ req'.base = req.base /\ req'.rem = req.rem
      /\ req'.clen = req.clen /\ req'.cur \in Int /\ req'.taken = req.taken /\ req'.nread = req.nread
      /\ req'.complete = req.complete /\ req'.err # "ok"
  BY <1>1, <1>2 DEF RequestFields
<1>4. pc' \notin WithinRequest
  BY <1>2 DEF WithinRequest
<1> QED BY <1>3, <1>4, HeadBody

\* read_headers has found the end of the headers of request k.
Completed(k, p, hi, lost) ==
  /\ p = Lf(k) /\ End(k - 1) < p /\ p <= End(k) /\ pc' = "returned"
  /\ DOMAIN req' = RequestFields /\ req'.k = k /\ req'.rem = hi - p + 1
  /\ req'.base = req.base /\ req'.cur = req.cur /\ req'.taken = req.taken /\ req'.nread = req.nread
  /\ req'.complete = req.complete /\ req'.chunked = conf.script[k].chunked
  /\ req'.clen = ContentLength(conf.script[k], lost)
  /\ faults' = IF lost = "no" THEN faults ELSE faults - 1

LEMMA CompleteFacts ==
  ASSUME BodyInv, NEW hi \in Nat, hi <= sent, NEW p \in got + 1 .. hi, stream[p].kind = "lf",
         HeadersComplete(p, hi)
  PROVE  \E k, lost : k \in 1 .. Len(conf.script) /\ Completed(k, p, hi, lost)
<1>1. /\ conf \in Setups /\ stream = Stream(conf.script) /\ Len(stream) \in Nat /\ got \in Nat /\ sent \in Nat
      /\ sent <= Len(stream) /\ DOMAIN req = RequestFields
  BY BodyInvFacts
<1>2. p \in 1 .. Len(stream)
  BY <1>1
<1>3. PICK k \in 1 .. Len(conf.script) : End(k - 1) < p /\ p <= End(k)
  BY <1>1, <1>2, Layout
<1>4. p \in End(k - 1) + 1 .. End(k)
  BY <1>1, <1>2, <1>3, RequestPlace
<1>5. stream[p].req = k /\ p = Lf(k)
  BY <1>1, <1>4, RequestCells
<1>6. \E lost, query, conn :
        /\ pc' = "returned"
        /\ req' = [req EXCEPT !.k = k, !.err = query, !.rem = hi - p + 1,
                              !.clen = ContentLength(conf.script[k], lost), !.chunked = conf.script[k].chunked,
                              !.conn = conn]
        /\ faults' = IF lost = "no" THEN faults ELSE faults - 1
  <2>1. PICK j, r, query : /\ j = stream[p].req /\ r = conf.script[j]
                           /\ query = IF r.query = <<>> THEN "ok" ELSE ParseQuery(r.query).err
    OBVIOUS
  <2>2. \E lost \in {"no"} \cup IF faults > 0 /\ r.fields # <<>> THEN {"length", "conn"} ELSE {} :
          /\ pc' = "returned"
          /\ req' = [req EXCEPT !.k = j, !.err = query, !.rem = hi - p + 1,
                                !.clen = ContentLength(r, lost), !.chunked = r.chunked,
                                !.conn = IF lost = "conn" THEN "none" ELSE r.conn]
          /\ faults' = IF lost = "no" THEN faults ELSE faults - 1
    BY <2>1, Zenon DEF HeadersComplete
  <2>3. PICK lost :
          /\ pc' = "returned"
          /\ req' = [req EXCEPT !.k = j, !.err = query, !.rem = hi - p + 1,
                                !.clen = ContentLength(r, lost), !.chunked = r.chunked,
                                !.conn = IF lost = "conn" THEN "none" ELSE r.conn]
          /\ faults' = IF lost = "no" THEN faults ELSE faults - 1
    BY <2>2
  <2>4. PICK conn : conn = IF lost = "conn" THEN "none" ELSE r.conn
    OBVIOUS
  <2>5. j = k /\ r = conf.script[k]
    BY <1>5, <2>1
  <2>6. /\ pc' = "returned"
        /\ req' = [req EXCEPT !.k = k, !.err = query, !.rem = hi - p + 1,
                              !.clen = ContentLength(conf.script[k], lost), !.chunked = conf.script[k].chunked,
                              !.conn = conn]
        /\ faults' = IF lost = "no" THEN faults ELSE faults - 1
    BY <2>3, <2>4, <2>5, Zenon
  <2> QED BY <2>6
<1>6a. PICK lost, query, conn :
        /\ pc' = "returned"
        /\ req' = [req EXCEPT !.k = k, !.err = query, !.rem = hi - p + 1,
                              !.clen = ContentLength(conf.script[k], lost), !.chunked = conf.script[k].chunked,
                              !.conn = conn]
        /\ faults' = IF lost = "no" THEN faults ELSE faults - 1
  BY <1>6
<1>7. /\ DOMAIN req' = RequestFields /\ req'.k = k /\ req'.rem = hi - p + 1
      /\ req'.base = req.base /\ req'.cur = req.cur /\ req'.taken = req.taken /\ req'.nread = req.nread
      /\ req'.complete = req.complete /\ req'.chunked = conf.script[k].chunked
      /\ req'.clen = ContentLength(conf.script[k], lost)
  BY <1>1, <1>6a DEF RequestFields
<1>8. Completed(k, p, hi, lost)
  BY <1>3, <1>5, <1>6a, <1>7 DEF Completed
<1> QED BY <1>8

LEMMA HeadersCompleteBody ==
  ASSUME BodyInv, pc = "headers", UNCHANGED <<conf, stream, sent, rd>>, NEW hi \in Nat, hi <= sent, got' = hi,
         NEW p \in got + 1 .. hi, stream[p].kind = "lf", HeadersComplete(p, hi)
  PROVE  BodyInv'
<1>1. PICK k, lost : k \in 1 .. Len(conf.script) /\ Completed(k, p, hi, lost)
  BY CompleteFacts
<1>2. /\ conf \in Setups /\ stream = Stream(conf.script) /\ got \in Nat /\ req.base \in Nat /\ req.base <= got
      /\ req.taken = <<>> /\ req.nread = 0 /\ ~ req.complete /\ req.cur \in Int
  BY BodyInvFacts
<1>3. WellTyped(conf.script[k])
  BY <1>1, <1>2, SetupFacts
<1>4. req'.clen \in Int
  BY <1>1, <1>3 DEF Completed, ContentLength, WellTyped
<1>5. hi - (hi - p + 1) = p - 1 /\ hi - p + 1 \in Nat /\ hi - p + 1 <= hi /\ got <= hi
  BY <1>2
<1>6. RequestShape'
  <2>1. /\ DOMAIN req' = RequestFields /\ req'.base = req.base /\ req'.rem = hi - p + 1 /\ req'.cur = req.cur
    BY <1>1 DEF Completed
  <2>2. /\ DOMAIN rd = {"left", "out", "caller"} /\ sent \in Nat /\ sent <= Len(stream)
        /\ rd.left \in Int /\ rd.out \in Nat
    BY BodyInvFacts
  <2>3. req'.base <= got' /\ req'.rem \in Nat /\ req'.rem <= got'
    BY <1>2, <1>5, <2>1
  <2> QED BY <1>2, <1>4, <2>1, <2>2, <2>3, FieldNamesNext DEF RequestShape
<1>7. NoBodyYet'
  BY <1>1, <1>2 DEF NoBodyYet, Completed
<1>8. /\ Lf(k) \in Nat /\ Lf(k) < BodyFrom(k) /\ BodyFrom(k) \in Nat /\ BodyTo(k) \in Nat
      /\ BodyFrom(k) <= BodyTo(k) + 1 /\ End(k) \in Nat
  BY <1>1, <1>2, RequestPlace
<1>9. TakenOf(k, req'.taken, req'.nread) /\ Len(req'.taken) = 0
  BY <1>1, <1>2, <1>8 DEF TakenOf, Completed
<1>10. p = Lf(k) /\ p <= End(k)
  BY <1>1 DEF Completed
<1>11. BodyUpTo(k, p - 1) = 0
  BY <1>8, <1>10 DEF BodyUpTo, Larger, Smaller
<1>12. got' - req'.rem = p - 1
  BY <1>1, <1>5 DEF Completed
<1>13. Lf(k) <= (p - 1) + 1 /\ p - 1 < End(k)
  BY <1>8, <1>10
<1>14. req'.k = k
  BY <1>1 DEF Completed
<1>15. BodyTaken'
  BY <1>1, <1>2, <1>9, <1>11, <1>12, <1>13, <1>14, BodyTakenNext
<1> QED BY <1>6, <1>7, <1>15 DEF BodyInv

LEMMA ReadHeadersBody ==
  ASSUME BodyInv, ReadHeaders
  PROVE  BodyInv'
<1> DEFINE n == Smaller(req.cur, sent - got)
           hi == got + n
           ends == HeadersEnd(hi)
           p == CHOOSE q \in ends : \A s \in ends : q <= s
<1>1. /\ pc = "headers" /\ UNCHANGED <<conf, stream, sent, rd>> /\ req.cur > 0 /\ sent > got /\ got' = hi
      /\ \/ HeadersReturn("protocol") \/ HeadersReturn("overflow")
         \/ ends # {} /\ HeadersComplete(p, hi)
         \/ StaleBytes \/ NextBuffer(n, hi)
  BY DEF ReadHeaders, MayReadHeaders, clientVars
<1>2. /\ got \in Nat /\ sent \in Nat /\ req.cur \in Int /\ DOMAIN req = RequestFields /\ req.k = 0
      /\ req.err # "ok"
  BY <1>1, BodyInvFacts
<1>3. n \in Int /\ hi \in Nat /\ hi <= sent /\ got <= hi
  BY <1>1, <1>2 DEF Smaller
<1>4. ends = {q \in got + 1 .. hi : stream[q].kind = "lf"}
  BY DEF HeadersEnd
<1> HIDE DEF n, hi, ends
<1>5. CASE HeadersReturn("protocol") \/ HeadersReturn("overflow")
  BY <1>1, <1>3, <1>5, HeadersReturnBody
<1>6. CASE ends # {} /\ HeadersComplete(p, hi)
  <2>1. p \in ends
    <3>1. \E q \in ends : \A s \in ends : q <= s
      <4>1. ends \in SUBSET Nat /\ ends # {}
        BY <1>2, <1>3, <1>4, <1>6
      <4> QED BY <4>1, Least
    <3> QED BY <3>1, Zenon
  <2> HIDE DEF p
  <2>2. p \in got + 1 .. hi /\ stream[p].kind = "lf"
    BY <1>4, <2>1
  <2> QED BY <1>1, <1>3, <1>6, <2>2, HeadersCompleteBody
<1>7. CASE StaleBytes
  <2>1. CASE HeadersReturn("protocol") \/ HeadersReturn("overflow")
    BY <1>5, <2>1
  <2>2. CASE pc' = (IF conf.ndebug THEN "undefined" ELSE "aborted") /\ UNCHANGED req
    <3>1. pc' \notin WithinRequest
      BY <2>2 DEF WithinRequest
    <3> QED BY <1>1, <1>2, <1>3, <2>2, <3>1, HeadBody
  <2> QED BY <1>7, <2>1, <2>2 DEF StaleBytes
<1>8. CASE NextBuffer(n, hi)
  <2>1. CASE HeadersReturn("overflow")
    BY <1>5, <2>1
  <2>2. CASE req' = [req EXCEPT !.nbufs = @ + 1, !.cur = HeadersBufferSize - n] /\ UNCHANGED pc
    <3>1. /\ DOMAIN req' = RequestFields /\ req'.k = 0 /\ req'.base = req.base /\ req'.rem = req.rem
          /\ req'.clen = req.clen /\ req'.taken = req.taken /\ req'.nread = req.nread
          /\ req'.complete = req.complete /\ req'.err = req.err /\ req'.cur = HeadersBufferSize - n
      BY <1>2, <2>2 DEF RequestFields
    <3>2. req'.cur \in Int /\ pc' \notin WithinRequest
      BY <1>1, <1>3, <2>2, <3>1, HttpRequestAssumption DEF WithinRequest
    <3> QED BY <1>1, <1>2, <1>3, <3>1, <3>2, HeadBody
  <2>3. CASE req' = [req EXCEPT !.cur = @ - n] /\ UNCHANGED pc
    <3>1. /\ DOMAIN req' = RequestFields /\ req'.k = 0 /\ req'.base = req.base /\ req'.rem = req.rem
          /\ req'.clen = req.clen /\ req'.taken = req.taken /\ req'.nread = req.nread
          /\ req'.complete = req.complete /\ req'.err = req.err /\ req'.cur = req.cur - n
      BY <1>2, <2>3 DEF RequestFields
    <3>2. req'.cur \in Int /\ pc' \notin WithinRequest
      BY <1>1, <1>2, <1>3, <2>3, <3>1 DEF WithinRequest
    <3> QED BY <1>1, <1>2, <1>3, <3>1, <3>2, HeadBody
  <2> QED BY <1>8, <2>1, <2>2, <2>3 DEF NextBuffer
<1> QED BY <1>1, <1>5, <1>6, <1>7, <1>8

\* The parser is executed: on m cells of the remainder, or on m cells just read.
LEMMA ExecuteBody ==
  ASSUME BodyInv, pc = "read", UNCHANGED <<conf, stream, sent, pc>>, NEW m \in Nat, NEW fromRem \in BOOLEAN,
         NEW p, p = ParsedTo + 1, Execute(p, m, fromRem),
         IF fromRem THEN m <= req.rem /\ got' = got ELSE req.rem = 0 /\ got' = got + m /\ got' <= sent
  PROVE  BodyInv'
<1>1. /\ conf \in Setups /\ stream = Stream(conf.script) /\ got \in Nat /\ req.rem \in Nat /\ req.rem <= got
      /\ req.base \in Nat /\ req.base <= got /\ sent \in Nat /\ sent <= Len(stream) /\ got <= sent
      /\ req.clen \in Int /\ req.cur \in Int /\ rd.left \in Int /\ rd.out \in Nat
  BY BodyInvFacts
<1>2. req.k # 0 /\ req.k \in 1 .. Len(conf.script)
  BY BodyInvFacts DEF WithinRequest
<1>3. PICK c \in Nat, b \in Nat : ExecutedCounts(m, fromRem, c, b)
  BY <1>2, ExecuteFacts DEF BodyInv
<1>4. /\ req'.rem = (IF fromRem THEN req.rem - c ELSE req.rem) /\ c <= m /\ req'.base = req.base
      /\ req'.clen = req.clen /\ req'.cur = req.cur /\ req'.k = req.k
      /\ rd'.left = rd.left - b /\ rd'.out = rd.out + b
      /\ DOMAIN req' = RequestFields /\ DOMAIN rd' = {"left", "out", "caller"}
      /\ TakenOf(req.k, req'.taken, req'.nread)
  BY <1>3 DEF ExecutedCounts
<1>5. got' \in Nat /\ got' <= sent /\ req'.rem \in Nat /\ req'.rem <= got' /\ req'.base <= got'
  <2>1. PICK r \in Nat, g \in Nat, e \in Nat : r = req.rem /\ g = got /\ e = req.base /\ r <= g /\ e <= g /\ g <= sent
    BY <1>1
  <2>2. CASE fromRem
    <3>1. got' = g /\ req'.rem = r - c /\ m <= r /\ req'.base = e
      BY <1>4, <2>1, <2>2
    <3> QED BY <1>4, <2>1, <3>1
  <2>3. CASE ~ fromRem
    <3>1. got' = g + m /\ req'.rem = 0 /\ got' <= sent /\ req'.base = e
      BY <1>4, <2>1, <2>3
    <3> QED BY <2>1, <3>1
  <2> QED BY <2>2, <2>3
<1>6. rd'.left \in Int /\ rd'.out \in Nat
  <2>1. rd.left \in Int /\ rd.out \in Nat
    BY <1>1, Zenon
  <2>2. rd.left - b \in Int /\ rd.out + b \in Nat
    BY <2>1
  <2> QED BY <1>4, <2>2
<1>7. RequestShape'
  BY <1>1, <1>4, <1>5, <1>6, FieldNamesNext DEF RequestShape
<1>8. NoBodyYet'
  BY <1>2, <1>4 DEF NoBodyYet
<1>9. ASSUME ~ req'.complete
      PROVE  /\ Lf(req.k) <= (got' - req'.rem) + 1 /\ got' - req'.rem < End(req.k)
             /\ Len(req'.taken) = BodyUpTo(req.k, got' - req'.rem)
  <2>1. /\ ~ req.complete /\ c = Smaller(m, End(req.k) - ParsedTo) /\ ParsedTo + c # End(req.k)
        /\ Len(req'.taken) = BodyUpTo(req.k, ParsedTo + c)
    BY <1>3, <1>9 DEF ExecutedCounts
  <2>2. ParsedTo = got - req.rem /\ ParsedTo \in Int
    BY <1>1 DEF ParsedTo
  <2>3. Lf(req.k) <= ParsedTo + 1 /\ ParsedTo < End(req.k)
    BY <1>2, <2>1 DEF BodyInv, BodyTaken
  <2>4. End(req.k) \in Nat /\ Lf(req.k) \in Nat
    BY <1>1, <1>2, RequestPlace
  <2>5. c = m /\ ParsedTo + c < End(req.k)
    BY <2>1, <2>2, <2>3, <2>4 DEF Smaller
  <2>6. got' - req'.rem = ParsedTo + c
    <3>1. CASE fromRem
      <4>1. got' = got /\ req'.rem = req.rem - c
        BY <1>4, <3>1
      <4> QED BY <1>1, <2>2, <4>1, SMTT(30)
    <3>2. CASE ~ fromRem
      <4>1. got' = got + c /\ req'.rem = 0 /\ req.rem = 0
        BY <1>4, <2>5, <3>2
      <4> QED BY <1>1, <2>2, <4>1
    <3> QED BY <3>1, <3>2
  <2>7. Lf(req.k) <= (ParsedTo + c) + 1
    BY <2>2, <2>3, <2>4
  <2> QED BY <2>1, <2>5, <2>6, <2>7
<1>10. BodyTaken'
  BY <1>1, <1>2, <1>4, <1>9, BodyTakenNext
<1> QED BY <1>7, <1>8, <1>10 DEF BodyInv

LEMMA ToReadFacts ==
  ASSUME BodyInv
  PROVE  ToRead \in Int /\ (req.clen # -1 => ToRead <= req.clen - req.nread) /\ ToRead <= rd.left
<1>1. rd.left \in Int /\ req.clen \in Int /\ req.nread \in Nat
  BY BodyInvFacts
<1> QED BY <1>1 DEF ToRead, Smaller

LEMMA ReadRemainderBody ==
  ASSUME BodyInv, ReadRemainder
  PROVE  BodyInv'
<1>1. PICK m : m = Smaller(ToRead, req.rem)
  OBVIOUS
<1>2. /\ pc = "read" /\ UNCHANGED <<conf, stream, sent, pc>> /\ got' = got /\ ToRead > 0 /\ req.rem > 0
      /\ Execute(got - req.rem + 1, m, TRUE)
  BY <1>1 DEF ReadRemainder, ReadGoesOn, clientVars
<1>3. m \in Nat /\ m <= req.rem
  BY <1>1, <1>2, ToReadFacts, BodyInvFacts DEF Smaller
<1>4. got - req.rem + 1 = ParsedTo + 1
  BY DEF ParsedTo
<1> QED BY <1>2, <1>3, <1>4, ExecuteBody

LEMMA ReadSocketBody ==
  ASSUME BodyInv, ReadSocket
  PROVE  BodyInv'
<1>1. PICK m : m = Smaller(ToRead, sent - got)
  OBVIOUS
<1>2. /\ pc = "read" /\ UNCHANGED <<conf, stream, sent, pc>> /\ got' = got + m /\ ToRead > 0 /\ req.rem = 0
      /\ sent > got /\ Execute(got + 1, m, FALSE)
  BY <1>1 DEF ReadSocket, ReadGoesOn, clientVars
<1>3. m \in Nat /\ got + m <= sent /\ got \in Nat
  BY <1>1, <1>2, ToReadFacts, BodyInvFacts DEF Smaller
<1>4. got + 1 = ParsedTo + 1
  BY <1>2, <1>3 DEF ParsedTo
<1> QED BY <1>2, <1>3, <1>4, ExecuteBody

LEMMA RequestDoneBody ==
  ASSUME BodyInv, RequestDone
  PROVE  BodyInv'
<1>1. UNCHANGED <<conf, stream, sent, got, rd>> /\ pc = "skip"
  BY DEF RequestDone, clientVars
<1>2. CASE keepalive
  <2>1. pc' = "headers" /\ req' = NewRequest
    BY <1>2 DEF RequestDone
  <2>2. /\ DOMAIN req' = RequestFields /\ req'.k = 0 /\ req'.base = got /\ req'.rem = 0 /\ req'.clen = -1
        /\ req'.cur = HeadersBufferSize /\ req'.taken = <<>> /\ req'.nread = 0 /\ ~ req'.complete
        /\ req'.err = "none"
    BY <2>1 DEF NewRequest, RequestFields
  <2>3. RequestShape'
    BY <1>1, <2>2, FieldNamesNext, BodyInvFacts, HttpRequestAssumption DEF RequestShape
  <2>4. NoBodyYet'
    BY <2>1, <2>2 DEF NoBodyYet
  <2>5. BodyTaken'
    BY <2>2 DEF BodyTaken
  <2> QED BY <2>3, <2>4, <2>5 DEF BodyInv
<1>3. CASE ~ keepalive
  <2>1. pc' = "closed" /\ req' = req
    BY <1>3 DEF RequestDone
  <2> QED BY <1>1, <2>1, QuietBody, BodyInvFacts DEF WithinRequest
<1> QED BY <1>2, <1>3

LEMMA ClientSendsBody ==
  ASSUME BodyInv, ClientSends
  PROVE  BodyInv'
<1>1. UNCHANGED <<conf, stream, got, req, rd, pc>> /\ sent < Len(stream) /\ sent' = NextSent
  BY DEF ClientSends, requestVars
<1>2. conf \in Setups /\ stream = Stream(conf.script) /\ sent \in Nat /\ got \in Nat /\ got <= sent
  BY BodyInvFacts
<1>3. PICK k \in 1 .. Len(conf.script) : NextSent \in sent + 1 .. End(k)
  BY <1>1, <1>2, NextSentFacts
<1>4. End(k) \in Nat /\ End(k) <= Len(stream) /\ Len(stream) \in Nat
  BY <1>2, RequestPlace, Layout
<1>5. sent' \in Nat /\ got <= sent' /\ sent' <= Len(stream)
  BY <1>1, <1>2, <1>3, <1>4
<1>6. RequestShape'
  BY <1>1, <1>2, <1>5, FieldNamesNext, BodyInvFacts DEF RequestShape
<1>7. NoBodyYet'
  BY <1>1 DEF BodyInv, NoBodyYet
<1>8. BodyTaken'
  <2>1. CASE req.k = 0
    BY <1>1, <2>1 DEF BodyTaken
  <2>2. CASE req.k # 0
    <3>1. req.k \in 1 .. Len(conf.script) /\ req'.k = req.k /\ TakenOf(req.k, req'.taken, req'.nread)
      BY <1>1, <2>2, BodyInvFacts
    <3>2. ~ req'.complete => /\ Lf(req.k) <= got' - req'.rem + 1 /\ got' - req'.rem < End(req.k)
                             /\ Len(req'.taken) = BodyUpTo(req.k, got' - req'.rem)
      BY <1>1, <2>2 DEF BodyInv, BodyTaken, ParsedTo
    <3> QED BY <1>1, <1>2, <3>1, <3>2, BodyTakenNext
  <2> QED BY <2>1, <2>2
<1> QED BY <1>6, <1>7, <1>8 DEF BodyInv

LEMMA HandlerBody ==
  ASSUME BodyInv, pc \in WithinRequest, UNCHANGED <<conf, stream, sent, got, req, rd>>, pc' # "headers"
  PROVE  BodyInv'
<1>1. req.k # 0
  BY BodyInvFacts
<1> QED BY <1>1, QuietBody, BodyInvFacts

LEMMA ReadCallBody ==
  ASSUME BodyInv, pc \in WithinRequest, UNCHANGED <<conf, stream, sent, got, req>>, NEW n \in Int, NEW who,
         ReadCall(n, who)
  PROVE  BodyInv'
<1>1. req.k # 0
  BY BodyInvFacts
<1>2. pc' = "read" /\ rd' = [left |-> n, out |-> 0, caller |-> who]
  BY DEF ReadCall
<1> QED BY <1>1, <1>2, QuietBody

LEMMA BodyInitial == Init => BodyInv
<1> SUFFICES ASSUME Init PROVE BodyInv
  OBVIOUS
<1>1. conf \in Setups /\ stream = Stream(conf.script) /\ sent = 0 /\ got = 0 /\ pc = "headers"
      /\ req = NewRequest /\ rd = Idle
  BY DEF Init
<1>2. Len(stream) \in Nat
  BY <1>1, Layout
<1>3. /\ req.k = 0 /\ req.base = got /\ req.rem = 0 /\ req.clen = -1 /\ req.cur = HeadersBufferSize
      /\ req.taken = <<>> /\ req.nread = 0 /\ ~ req.complete /\ req.err = "none"
      /\ rd.left = 0 /\ rd.out = 0
  BY <1>1 DEF NewRequest, Idle
<1>4. RequestShape
  BY <1>1, <1>2, <1>3, HttpRequestAssumption DEF RequestShape
<1>5. NoBodyYet
  BY <1>1, <1>3 DEF NoBodyYet
<1>6. BodyTaken
  BY <1>3 DEF BodyTaken
<1> QED BY <1>4, <1>5, <1>6 DEF BodyInv

LEMMA BodyStep == BodyInv /\ [Next]_vars => BodyInv'
<1> SUFFICES ASSUME BodyInv, [Next]_vars PROVE BodyInv'
  OBVIOUS
<1>0. got \in Nat /\ got <= sent /\ DOMAIN rd = {"left", "out", "caller"} /\ rd.left \in Int /\ rd.out \in Nat
  BY BodyInvFacts
<1> USE DEF clientVars, requestVars, responseVars, protocolVars
<1>1. CASE HeadersAssertion
  BY <1>0, <1>1, QuietBody DEF HeadersAssertion, WithinRequest
<1>2. CASE HeadersEof
  BY <1>0, <1>2, HeadersReturnBody DEF HeadersEof, MayReadHeaders
<1>3. CASE ReadHeaders
  BY <1>3, ReadHeadersBody
<1>4. CASE HeadersNoMem
  BY <1>0, <1>4, HeadersReturnBody DEF HeadersNoMem, MayReadHeaders
<1>5. CASE ReadRemainder
  BY <1>5, ReadRemainderBody
<1>6. CASE ReadBeyond
  BY <1>6, HandlerBody DEF ReadBeyond, ReadGoesOn, WithinRequest
<1>7. CASE ReadSocket
  BY <1>7, ReadSocketBody
<1>8. CASE ReadEof
  <2>1. rd' = [rd EXCEPT !.left = 0] /\ pc = "read" /\ UNCHANGED <<conf, stream, sent, got, req, pc>>
    BY <1>8 DEF ReadEof, ReadGoesOn
  <2>2. DOMAIN rd' = {"left", "out", "caller"} /\ rd'.left = 0 /\ rd'.out = rd.out
    BY <1>0, <2>1
  <2>3. req.k # 0
    BY <2>1, BodyInvFacts DEF WithinRequest
  <2> QED BY <1>0, <2>1, <2>2, <2>3, QuietBody
<1>9. CASE ReadNothing
  BY <1>9, HandlerBody DEF ReadNothing, ReadGoesOn, WithinRequest
<1>10. CASE ReadFails
  BY <1>10, HandlerBody DEF ReadFails, ReadGoesOn, WithinRequest
<1>11. CASE RequestRefused
  BY <1>0, <1>11, QuietBody DEF RequestRefused, WithinRequest
<1>12. CASE RunHandler
  <2>1. req.k # 0
    BY <1>12, BodyInvFacts DEF RunHandler
  <2> QED BY <1>0, <1>12, <2>1, QuietBody DEF RunHandler
<1>13. CASE HandlerBegins
  BY <1>13, HandlerBody DEF HandlerBegins, InHandler, WithinRequest
<1>14. CASE HandlerReads
  <2>1. PICK n \in 1 .. 2 : ReadCall(n, "handler")
    BY <1>14 DEF HandlerReads
  <2>2. n \in Int /\ pc \in WithinRequest /\ UNCHANGED <<conf, stream, sent, got, req>>
    BY <1>14 DEF HandlerReads, Calls, InHandler, WithinRequest
  <2> QED BY <2>1, <2>2, ReadCallBody
<1>15. CASE HandlerReadDone \/ SkipReadDone
  <2>1. pc = "read" /\ pc' \in {"handler", "skip"} /\ rd' = Idle /\ UNCHANGED <<conf, stream, sent, got, req>>
    BY <1>15 DEF HandlerReadDone, SkipReadDone, ReadReturns
  <2>2. req.k # 0 /\ DOMAIN rd' = {"left", "out", "caller"} /\ rd'.left = 0 /\ rd'.out = 0
    BY <2>1, BodyInvFacts DEF WithinRequest, Idle
  <2> QED BY <2>1, <2>2, QuietBody
<1>16. CASE HandlerSets
  BY <1>16, HandlerBody DEF HandlerSets, Calls, InHandler, WithinRequest
<1>17. CASE HandlerWrites
  <2>1. pc' \in {"undefined", pc} /\ pc = "handler" /\ UNCHANGED <<conf, stream, sent, got, req, rd>>
    BY <1>17 DEF HandlerWrites, Calls, InHandler, Written
  <2> QED BY <2>1, HandlerBody DEF WithinRequest
<1>18. CASE HandlerReturns
  BY <1>18, HandlerBody DEF HandlerReturns, InHandler, Return, WithinRequest
<1>19. CASE Respond
  <2>1. pc' \in {"undefined", "skip"} /\ pc = "respond" /\ UNCHANGED <<conf, stream, sent, got, req, rd>>
    BY <1>19 DEF Respond
  <2> QED BY <2>1, HandlerBody DEF WithinRequest
<1>20. CASE SkipRead
  <2>1. PICK n : n = Smaller(req.clen - req.nread, SkipBuffer)
    OBVIOUS
  <2>2. pc \in WithinRequest /\ UNCHANGED <<conf, stream, sent, got, req>> /\ ReadCall(n, "skip")
    BY <1>20, <2>1 DEF SkipRead, WithinRequest
  <2>3. n \in Int
    BY <2>1, BodyInvFacts, HttpProtocolAssumption DEF Smaller
  <2> QED BY <2>2, <2>3, ReadCallBody
<1>21. CASE RequestDone
  BY <1>21, RequestDoneBody
<1>22. CASE FileServerStep
  <2>1. pc = "handler" /\ UNCHANGED <<conf, stream, sent, got, req, rd>>
    BY <1>22 DEF FileServerStep, FsAnswer, FsListing, FsOpen, FsCopy, FsReadShort, FsDone, Serving
  <2>2. pc' \in {"handler", "respond", "undefined"}
    <3>1. CASE FsAnswer
      BY <3>1 DEF FsAnswer, FsReturn, Return
    <3>2. CASE FsListing
      BY <3>2 DEF FsListing
    <3>3. CASE FsOpen
      BY <2>1, <3>3 DEF FsOpen, Return
    <3>4. CASE FsCopy
      BY <2>1, <3>4 DEF FsCopy, Return
    <3>5. CASE FsReadShort \/ FsDone
      BY <3>5 DEF FsReadShort, FsDone, Return
    <3> QED BY <1>22, <3>1, <3>2, <3>3, <3>4, <3>5 DEF FileServerStep
  <2> QED BY <2>1, <2>2, HandlerBody DEF WithinRequest
<1>23. CASE ClientSends
  BY <1>23, ClientSendsBody
<1>24. CASE ClientLeaves \/ UNCHANGED vars
  <2>1. UNCHANGED <<conf, stream, sent, got, req, rd, pc>>
    BY <1>24 DEF ClientLeaves, vars
  <2> QED BY <1>0, <2>1, QuietBody, BodyInvFacts
<1> QED
  BY <1>1, <1>2, <1>3, <1>4, <1>5, <1>6, <1>7, <1>8, <1>9, <1>10, <1>11, <1>12, <1>13, <1>14, <1>15, <1>16,
     <1>17, <1>18, <1>19, <1>20, <1>21, <1>22, <1>23, <1>24 DEF Next, Server, Connection, HeadersStep, ReadStep

\* While a request is read, what dfk_http_request_read has returned is the beginning of
\* the body, as much of it as was parsed.
THEOREM BodyInvariant == Spec => []BodyInv
BY BodyInitial, BodyStep, PTL DEF Spec

\* dfk_http_request_read returns the bytes of the body of this request, in order,
\* without a gap and none twice: for every script of requests, every buffer size and
\* however the bytes arrive and are asked for.
THEOREM BodyOrder == Spec => []BodyInOrder
<1>1. ASSUME BodyInv PROVE BodyInOrder
  <2>1. CASE req.k = 0
    BY <1>1, <2>1, BodyInvFacts DEF BodyInOrder
  <2>2. CASE req.k # 0
    <3>1. PICK k, t, f, g, d : k = req.k /\ t = req.taken /\ f = BodyFrom(k) /\ g = BodyTo(k) /\ d = End(k - 1)
      OBVIOUS
    <3>2. conf \in Setups /\ stream = Stream(conf.script) /\ k \in 1 .. Len(conf.script) /\ TakenOf(k, t, req.nread)
      BY <1>1, <2>2, <3>1, BodyInvFacts
    <3>3. /\ f \in Nat /\ g \in Nat /\ d \in Nat /\ End(k) \in Nat /\ Lf(k) \in Nat
          /\ d < Lf(k) /\ Lf(k) < f /\ f <= g + 1 /\ g <= End(k)
      BY <3>1, <3>2, RequestPlace
    <3>4. /\ t \in Seq(Int) /\ Len(t) <= g - f + 1 /\ \A i \in DOMAIN t : t[i] = f - d + i - 1
      BY <3>1, <3>2 DEF TakenOf
    <3>5. ASSUME NEW q \in d + 1 .. End(k)
          PROVE  Cells(conf.script, k)[q - d].kind = "body" <=> f <= q /\ q <= g
      BY <3>1, <3>2, RequestCells
    <3>6. ASSUME NEW i \in DOMAIN t
          PROVE  /\ Cells(conf.script, k)[t[i]].kind = "body"
                 /\ i = 1 => Cells(conf.script, k)[t[i] - 1].kind # "body"
                 /\ i > 1 => t[i] = t[i - 1] + 1
      <4>1. i \in 1 .. Len(t) /\ Len(t) \in Nat /\ t[i] = f - d + i - 1
        BY <3>4
      <4>2. Cells(conf.script, k)[t[i]].kind = "body"
        <5>1. PICK q : q = f + i - 1
          OBVIOUS
        <5>2. q \in d + 1 .. End(k) /\ f <= q /\ q <= g /\ q - d = t[i]
          <6>1. PICK n \in Nat : n = Len(t) /\ n <= g - f + 1
            BY <3>4
          <6>2. i \in 1 .. n
            BY <4>1, <6>1
          <6>3. q \in d + 1 .. End(k) /\ f <= q /\ q <= g /\ q - d = f - d + i - 1
            BY <3>3, <5>1, <6>1, <6>2
          <6> QED BY <4>1, <6>3
        <5>3. Cells(conf.script, k)[q - d].kind = "body"
          BY <3>5, <5>2
        <5> QED BY <5>2, <5>3
      <4>3. ASSUME i = 1 PROVE Cells(conf.script, k)[t[i] - 1].kind # "body"
        <5>1. PICK q : q = f - 1
          OBVIOUS
        <5>2. q \in d + 1 .. End(k) /\ ~ (f <= q /\ q <= g) /\ q - d = t[i] - 1
          BY <3>3, <4>1, <4>3, <5>1
        <5>3. Cells(conf.script, k)[q - d].kind # "body"
          BY <3>5, <5>2
        <5> QED BY <5>2, <5>3
      <4>4. ASSUME i > 1 PROVE t[i] = t[i - 1] + 1
        <5>1. i - 1 \in DOMAIN t
          BY <3>4, <4>1, <4>4
        <5>2. t[i - 1] = f - d + (i - 1) - 1
          BY <3>4, <5>1
        <5> QED BY <3>3, <4>1, <5>2
      <4> QED BY <4>2, <4>3, <4>4
    <3> QED BY <3>1, <3>6, Zenon DEF BodyInOrder
  <2> QED BY <2>1, <2>2
<1> QED BY <1>1, BodyInvariant, PTL

-----------------------------------------------------------------------------
(***************************************************************************)
(* The boundaries between requests.  BoundaryInv, with the variables of    *)
(* the client, the request and the loop as arguments.                      *)
(***************************************************************************)
WaitsAt(s, n, skipping) ==
  /\ n < Len(conf.script) /\ ~ skipping => s <= End(n + 1)
  /\ n + 1 < Len(conf.script) => s <= End(n + 2)

PlainAt(k, q, g) ==
  /\ q.clen = End(k) - Lf(k) /\ g <= End(k)
  /\ q.complete => g - q.rem = End(k) /\ q.nread = q.clen
  /\ Lf(k) <= g /\ (q.rem = 0 => Lf(k) <= g - q.rem)
  /\ q.clen = 0 => q.nread = 0 /\ ~ q.complete

StandsAt(n, q, g, c) ==
  /\ n <= Len(conf.script) /\ q.base = End(n)
  /\ c = "headers" /\ n < Len(conf.script) => g < Lf(n + 1)
  /\ q.k # 0 => /\ q.k = n + 1 /\ q.chunked = conf.script[q.k].chunked
                /\ ~ q.chunked /\ ~ conf.script[q.k].padded => PlainAt(q.k, q, g)

LEMMA BoundaryFacts ==
  ASSUME BoundaryInv
  PROVE  /\ BodyInv /\ OneReader /\ nrequests \in Nat /\ faults \in Int /\ faults <= conf.faults
         /\ conf.faults \in Nat
         /\ Undisturbed /\ Live => WaitsAt(sent, nrequests, Skipping) /\ StandsAt(nrequests, req, got, pc)
<1>1. BodyInv /\ OneReader /\ nrequests \in Nat /\ faults \in Int /\ faults <= conf.faults
  BY DEF BoundaryInv, OneReader
<1>2. conf.faults \in Nat
  BY <1>1, BodyInvFacts, SetupFacts
<1>3. ASSUME Undisturbed, Live PROVE WaitsAt(sent, nrequests, Skipping)
  BY <1>3 DEF BoundaryInv, ClientWaits, WaitsAt
<1>4. ASSUME Undisturbed, Live PROVE StandsAt(nrequests, req, got, pc)
  BY <1>4 DEF BoundaryInv, AtBoundary, StandsAt, PlainAt, ParsedTo
<1> QED BY <1>1, <1>2, <1>3, <1>4

LEMMA BoundaryNext ==
  ASSUME UNCHANGED <<conf, stream>>, BodyInv', OneReader', NEW n, n = nrequests', NEW q, q = req', NEW g, g = got',
         Undisturbed' /\ Live' => WaitsAt(sent', n, Skipping') /\ StandsAt(n, q, g, pc')
  PROVE  BoundaryInv'
<1>1. \A k : End(k)' = End(k) /\ Lf(k)' = Lf(k)
  BY FrameKept
<1>2. ClientWaits'
  <2>1. End(n + 1)' = End(n + 1) /\ End(n + 2)' = End(n + 2)
    BY <1>1
  <2> QED BY <2>1 DEF ClientWaits, WaitsAt
<1>3. AtBoundary'
  <2>1. /\ End(n)' = End(n) /\ Lf(n + 1)' = Lf(n + 1) /\ End(q.k)' = End(q.k) /\ Lf(q.k)' = Lf(q.k)
        /\ ParsedTo' = g - q.rem
    BY <1>1 DEF ParsedTo
  <2> QED BY <2>1 DEF AtBoundary, StandsAt, PlainAt
<1> QED BY <1>2, <1>3 DEF BoundaryInv

\* A disturbance does not go away.
LEMMA UndisturbedBefore ==
  ASSUME OneReader, conf' = conf, faults' \in Int, faults' <= faults, conf.faults \in Nat,
         nrequests' \in Nat, nrequests <= nrequests', Undisturbed'
  PROVE  Undisturbed /\ faults' = faults
<1>1. faults \in Int /\ faults <= conf.faults /\ nrequests \in Nat
  BY DEF OneReader
<1>2. faults' = conf.faults /\ ~ conf.pipelined /\ \A k \in 1 .. nrequests' : Sound(conf.script[k])
  BY DEF Undisturbed
<1>3. faults = conf.faults /\ faults' = faults
  BY <1>1, <1>2
<1>4. \A k \in 1 .. nrequests : k \in 1 .. nrequests'
  BY <1>1
<1> QED BY <1>2, <1>3, <1>4 DEF Undisturbed

\* A step that reads nothing, and does not go to the next request.
LEMMA QuietBoundary ==
  ASSUME BoundaryInv, BodyInv', UNCHANGED <<conf, stream, sent, got, req, nrequests>>,
         faults' \in Int, faults' <= faults, Live' => Live, pc' = "headers" => pc = "headers",
         Live' /\ Skipping => Skipping',
         pc' = "read" => rd'.caller \in {"handler", "skip"}, Live' /\ pc' # "read" => rd'.caller = "none"
  PROVE  BoundaryInv'
<1>1. nrequests \in Nat /\ faults \in Int /\ faults <= conf.faults /\ OneReader /\ conf.faults \in Nat
  BY BoundaryFacts
<1>2. OneReader'
  BY <1>1 DEF OneReader
<1>3. ASSUME Undisturbed', Live'
      PROVE  WaitsAt(sent', nrequests', Skipping') /\ StandsAt(nrequests', req', got', pc')
  <2>1. Undisturbed /\ Live
    BY <1>1, <1>3, UndisturbedBefore
  <2>2. WaitsAt(sent, nrequests, Skipping) /\ StandsAt(nrequests, req, got, pc)
    BY <2>1, BoundaryFacts
  <2>3. WaitsAt(sent', nrequests', Skipping')
    BY <1>3, <2>2 DEF WaitsAt
  <2>4. StandsAt(nrequests', req', got', pc')
    BY <2>2 DEF StandsAt
  <2> QED BY <2>3, <2>4
<1> QED BY <1>2, <1>3, BoundaryNext

\* A step within the request, after which the loop stands where it may.
LEMMA WithinBoundary ==
  ASSUME BoundaryInv, BodyInv', UNCHANGED <<conf, stream, sent, nrequests, rd>>, faults' \in Int, faults' <= faults,
         pc = "headers", pc' # "read", Live' => ~ Skipping',
         Undisturbed /\ Live /\ Live' /\ faults' = faults => StandsAt(nrequests, req', got', pc')
  PROVE  BoundaryInv'
<1>1. nrequests \in Nat /\ faults \in Int /\ faults <= conf.faults /\ OneReader /\ conf.faults \in Nat
  BY BoundaryFacts
<1>2. Live /\ ~ Skipping
  BY DEF Live, Skipping
<1>3. OneReader'
  BY <1>1, <1>2 DEF OneReader
<1>4. ASSUME Undisturbed', Live'
      PROVE  WaitsAt(sent', nrequests', Skipping') /\ StandsAt(nrequests', req', got', pc')
  <2>1. Undisturbed /\ faults' = faults
    BY <1>1, <1>4, UndisturbedBefore
  <2>2. WaitsAt(sent, nrequests, Skipping)
    BY <1>2, <2>1, BoundaryFacts
  <2>3. WaitsAt(sent', nrequests', Skipping')
    BY <1>2, <2>2 DEF WaitsAt
  <2> QED BY <1>2, <1>4, <2>1, <2>3
<1> QED BY <1>3, <1>4, BoundaryNext

\* The content of a request whose body is neither chunked nor of a length that is not
\* understood is what its Content-Length says.
LEMMA PlainLength ==
  ASSUME conf \in Setups, stream = Stream(conf.script), NEW k \in 1 .. Len(conf.script),
         ~ conf.script[k].chunked
  PROVE  /\ BodyFrom(k) = Lf(k) + 1 /\ BodyTo(k) = End(k) /\ Lf(k) \in Nat /\ End(k) \in Nat /\ Lf(k) <= End(k)
         /\ End(k) - Lf(k) = BodyLength(conf.script[k])
         /\ ~ conf.script[k].padded => ContentLength(conf.script[k], "no") = End(k) - Lf(k)
<1>1. /\ RequestAt(k, conf.script[k], End(k - 1), Lf(k), End(k)) /\ End(k) \in Nat /\ End(k - 1) \in Nat
      /\ WellTyped(conf.script[k])
  BY Layout, RequestPlace, SetupFacts
<1>2. Extra(conf.script[k]) = 0
  BY DEF Extra
<1>3. Lf(k) \in Nat /\ Lf(k) <= End(k) /\ End(k) - Lf(k) = BodyLength(conf.script[k])
  BY <1>1, <1>2 DEF RequestAt
<1>4. BodyFrom(k) = Lf(k) + 1 /\ BodyTo(k) = End(k)
  BY <1>1, <1>3 DEF BodyFrom, BodyTo
<1>5. ~ conf.script[k].padded => ContentLength(conf.script[k], "no") = BodyLength(conf.script[k])
  BY DEF ContentLength, Strtoll, BodyLength
<1> QED BY <1>1, <1>3, <1>4, <1>5

LEMMA ReadHeadersBoundary ==
  ASSUME BoundaryInv, BodyInv', ReadHeaders, UNCHANGED nrequests
  PROVE  BoundaryInv'
<1> DEFINE m == Smaller(req.cur, sent - got)
           hi == got + m
           ends == HeadersEnd(hi)
           p == CHOOSE x \in ends : \A s \in ends : x <= s
<1>1. /\ pc = "headers" /\ UNCHANGED <<conf, stream, sent, rd>> /\ req.cur > 0 /\ sent > got /\ got' = hi
      /\ \/ (HeadersReturn("protocol") \/ HeadersReturn("overflow")) /\ UNCHANGED faults
         \/ ends # {} /\ HeadersComplete(p, hi)
         \/ ends = {} /\ (StaleBytes \/ NextBuffer(m, hi)) /\ UNCHANGED faults
  BY DEF ReadHeaders, MayReadHeaders, clientVars
<1>2. /\ BodyInv /\ nrequests \in Nat /\ faults \in Int /\ got \in Nat /\ sent \in Nat /\ req.cur \in Int
      /\ DOMAIN req = RequestFields /\ req.k = 0 /\ req.base \in Nat /\ req.base <= got
      /\ conf \in Setups /\ stream = Stream(conf.script) /\ sent <= Len(stream) /\ Len(stream) \in Nat
  BY <1>1, BoundaryFacts, BodyInvFacts
<1>3. hi \in Nat /\ hi <= sent /\ got < hi
  BY <1>1, <1>2 DEF Smaller
<1>4. ends = {x \in got + 1 .. hi : stream[x].kind = "lf"}
  BY DEF HeadersEnd
<1> HIDE DEF m, hi, ends
<1>5. Live /\ ~ Skipping
  BY <1>1 DEF Live, Skipping
<1>6. ASSUME Undisturbed
      PROVE  /\ StandsAt(nrequests, req, got, pc) /\ nrequests + 1 \in 1 .. Len(conf.script)
             /\ got < Lf(nrequests + 1) /\ hi <= End(nrequests + 1) /\ End(nrequests) <= got
             /\ req.base = End(nrequests)
  <2>1. WaitsAt(sent, nrequests, Skipping) /\ StandsAt(nrequests, req, got, pc)
    BY <1>5, <1>6, BoundaryFacts
  <2>2. nrequests <= Len(conf.script) /\ req.base = End(nrequests) /\ End(nrequests) <= got
    BY <1>2, <2>1 DEF StandsAt
  <2>3. Len(conf.script) \in Nat /\ End(Len(conf.script)) = Len(stream)
    BY <1>2, Layout
  <2>4. nrequests < Len(conf.script)
    <3>1. CASE nrequests = Len(conf.script)
      BY <1>1, <1>2, <2>2, <2>3, <3>1
    <3> QED BY <1>2, <2>2, <2>3, <3>1
  <2>5. nrequests + 1 \in 1 .. Len(conf.script)
    BY <1>2, <2>3, <2>4
  <2>6. got < Lf(nrequests + 1) /\ sent <= End(nrequests + 1)
    BY <1>1, <1>5, <2>1, <2>4 DEF StandsAt, WaitsAt
  <2>7. End(nrequests + 1) \in Nat
    BY <1>2, <2>5, RequestPlace
  <2> QED BY <1>2, <1>3, <2>1, <2>2, <2>5, <2>6, <2>7
<1>7. ASSUME UNCHANGED faults, req'.k = 0, req'.base = req.base, pc' # "read", Live' => ~ Skipping',
             pc' = "headers" => ends = {}
      PROVE  BoundaryInv'
  <2>1. ASSUME Undisturbed, Live' PROVE StandsAt(nrequests, req', got', pc')
    <3>1. ASSUME pc' = "headers" PROVE hi < Lf(nrequests + 1)
      <4>1. PICK k : k = nrequests + 1
        OBVIOUS
      <4>2. /\ k \in 1 .. Len(conf.script) /\ got < Lf(k) /\ hi <= End(k) /\ End(k - 1) <= got /\ Lf(k) \in Nat
        <5>1. k - 1 = nrequests
          BY <1>2, <4>1
        <5> QED BY <1>2, <1>6, <2>1, <4>1, <5>1, RequestPlace
      <4>3. ASSUME Lf(k) <= hi PROVE FALSE
        <5>1. Lf(k) \in got + 1 .. hi /\ Lf(k) \in End(k - 1) + 1 .. End(k)
          BY <1>2, <1>3, <4>2, <4>3, RequestPlace, SMTT(30)
        <5>2. stream[Lf(k)].kind = "lf"
          BY <1>2, <4>2, <5>1, RequestCells
        <5> QED BY <1>4, <1>7, <3>1, <5>1, <5>2
      <4> QED BY <1>3, <4>1, <4>2, <4>3
    <3> QED BY <1>1, <1>6, <1>7, <2>1, <3>1 DEF StandsAt
  <2>2. faults' \in Int /\ faults' <= faults
    BY <1>2, <1>7
  <2> QED BY <1>1, <1>7, <2>1, <2>2, WithinBoundary
<1>8. CASE (HeadersReturn("protocol") \/ HeadersReturn("overflow")) /\ UNCHANGED faults
  <2>1. pc' = "returned" /\ \E e : req' = [req EXCEPT !.err = e]
    BY <1>8 DEF HeadersReturn
  <2>2. req'.k = 0 /\ req'.base = req.base
    BY <1>2, <2>1 DEF RequestFields
  <2> QED BY <1>7, <1>8, <2>1, <2>2 DEF Skipping
<1>9. CASE ends # {} /\ HeadersComplete(p, hi)
  <2>1. p \in ends
    <3>1. \E x \in ends : \A s \in ends : x <= s
      <4>1. ends \in SUBSET Nat /\ ends # {}
        BY <1>2, <1>3, <1>4, <1>9, SMTT(30)
      <4> QED BY <4>1, Least
    <3> QED BY <3>1, Zenon
  <2> HIDE DEF p
  <2>2. p \in got + 1 .. hi /\ stream[p].kind = "lf"
    BY <1>4, <2>1
  <2>3. PICK k, lost : k \in 1 .. Len(conf.script) /\ Completed(k, p, hi, lost)
    BY <1>2, <1>3, <1>9, <2>2, CompleteFacts
  <2>4. pc' = "returned" /\ faults' = IF lost = "no" THEN faults ELSE faults - 1
    BY <2>3 DEF Completed
  <2>5. ASSUME Undisturbed, faults' = faults PROVE StandsAt(nrequests, req', got', pc')
    <3>1. lost = "no"
      BY <1>2, <2>4, <2>5
    <3>2. /\ p = Lf(k) /\ End(k - 1) < p /\ p <= End(k) /\ req'.k = k /\ req'.rem = hi - p + 1
          /\ req'.base = req.base /\ req'.nread = req.nread /\ req'.complete = req.complete
          /\ req'.chunked = conf.script[k].chunked /\ req'.clen = ContentLength(conf.script[k], "no")
      BY <2>3, <3>1 DEF Completed
    <3>3. k = nrequests + 1
      <4>1. nrequests + 1 \in 1 .. Len(conf.script) /\ (nrequests + 1) - 1 = nrequests
        BY <1>2, <1>6, <2>5
      <4>2. p \in End((nrequests + 1) - 1) + 1 .. End(nrequests + 1)
        BY <1>2, <1>3, <1>6, <2>2, <2>5, <4>1, RequestPlace, SMTT(30)
      <4>3. stream[p].req = nrequests + 1
        BY <1>2, <4>1, <4>2, RequestCells
      <4>4. p \in End(k - 1) + 1 .. End(k)
        BY <1>2, <2>3, <3>2, RequestPlace
      <4>5. stream[p].req = k
        BY <1>2, <2>3, <4>4, RequestCells
      <4> QED BY <4>3, <4>5
    <3>4. ~ req.complete /\ req.nread = 0
      BY <1>2, BodyInvFacts
    <3>5. ASSUME ~ req'.chunked, ~ conf.script[k].padded PROVE PlainAt(k, req', got')
      <4>1. req'.clen = End(k) - Lf(k) /\ Lf(k) \in Nat /\ End(k) \in Nat
        BY <1>2, <2>3, <3>2, <3>5, PlainLength
      <4>2. got' <= End(k) /\ Lf(k) <= got' /\ req'.rem # 0
        BY <1>1, <1>2, <1>3, <1>6, <2>2, <2>5, <3>2, <3>3
      <4> QED BY <3>2, <3>4, <4>1, <4>2 DEF PlainAt
    <3>6. req'.k = nrequests + 1 /\ req'.base = End(nrequests) /\ nrequests <= Len(conf.script) /\ req'.k = k
      BY <1>6, <2>5, <3>2, <3>3 DEF StandsAt
    <3> QED BY <2>4, <3>2, <3>5, <3>6 DEF StandsAt
  <2>6. faults' \in Int /\ faults' <= faults
    BY <1>2, <2>4
  <2> QED BY <1>1, <2>4, <2>5, <2>6, WithinBoundary DEF Skipping
<1>10. CASE ends = {} /\ (StaleBytes \/ NextBuffer(m, hi)) /\ UNCHANGED faults
  <2>1. CASE HeadersReturn("protocol") \/ HeadersReturn("overflow")
    BY <1>8, <1>10, <2>1
  <2>2. CASE pc' = (IF conf.ndebug THEN "undefined" ELSE "aborted") /\ UNCHANGED req
    BY <1>2, <1>7, <1>10, <2>2 DEF Skipping
  <2>3. CASE /\ UNCHANGED pc
             /\ \/ req' = [req EXCEPT !.nbufs = @ + 1, !.cur = HeadersBufferSize - m]
                \/ req' = [req EXCEPT !.cur = @ - m]
    <3>1. req'.k = 0 /\ req'.base = req.base
      BY <1>2, <2>3 DEF RequestFields
    <3> QED BY <1>1, <1>7, <1>10, <2>3, <3>1 DEF Skipping
  <2> QED BY <1>10, <2>1, <2>2, <2>3 DEF StaleBytes, NextBuffer
<1> QED BY <1>1, <1>8, <1>9, <1>10

\* The parser is executed on the body.
LEMMA ExecuteBoundary ==
  ASSUME BoundaryInv, BodyInv', pc = "read", UNCHANGED <<conf, stream, sent, pc, faults, nrequests>>,
         NEW m \in Nat, NEW fromRem \in BOOLEAN, NEW p, p = ParsedTo + 1, Execute(p, m, fromRem),
         m <= ToRead, 0 < ToRead,
         IF fromRem THEN got' = got /\ ~ req.complete /\ m <= req.rem ELSE req.rem = 0 /\ got' = got + m
  PROVE  BoundaryInv'
<1>1. /\ BodyInv /\ OneReader /\ nrequests \in Nat /\ faults \in Int /\ faults <= conf.faults
      /\ conf.faults \in Nat
  BY BoundaryFacts
<1>2. /\ conf \in Setups /\ stream = Stream(conf.script) /\ got \in Nat /\ req.rem \in Nat /\ req.rem <= got
      /\ req.nread \in Nat /\ req.k # 0 /\ req.k \in 1 .. Len(conf.script) /\ req.clen \in Int
  BY <1>1, BodyInvFacts DEF WithinRequest
<1>3. PICK c \in Nat, b \in Nat : ExecutedCounts(m, fromRem, c, b)
  BY <1>1, <1>2, ExecuteFacts DEF BodyInv
<1>4. /\ req'.rem = (IF fromRem THEN req.rem - c ELSE req.rem) /\ c <= m /\ req'.base = req.base
      /\ req'.clen = req.clen /\ req'.k = req.k /\ req'.chunked = req.chunked /\ rd'.caller = rd.caller
      /\ TakenOf(req.k, req'.taken, req'.nread)
  BY <1>3 DEF ExecutedCounts
<1>5. OneReader'
  BY <1>1, <1>4 DEF OneReader, Live
<1>6. Live /\ (Skipping <=> Skipping')
  BY <1>4 DEF Live, Skipping
<1>7. ASSUME Undisturbed', Live'
      PROVE  WaitsAt(sent', nrequests', Skipping') /\ StandsAt(nrequests', req', got', pc')
  <2>1. Undisturbed
    BY <1>1, <1>7, UndisturbedBefore
  <2>2. WaitsAt(sent, nrequests, Skipping) /\ StandsAt(nrequests, req, got, pc)
    BY <1>6, <2>1, BoundaryFacts
  <2>3. WaitsAt(sent', nrequests', Skipping')
    BY <1>6, <2>2 DEF WaitsAt
  <2>4. PICK k : k = req.k
    OBVIOUS
  <2>5. ASSUME ~ req.chunked, ~ conf.script[k].padded PROVE PlainAt(k, req', got')
    <3>1. PlainAt(k, req, got) /\ ~ conf.script[k].chunked
      BY <1>2, <2>2, <2>4, <2>5 DEF StandsAt
    <3>2. /\ BodyFrom(k) = Lf(k) + 1 /\ BodyTo(k) = End(k) /\ Lf(k) \in Nat /\ End(k) \in Nat /\ Lf(k) <= End(k)
      BY <1>2, <2>4, <3>1, PlainLength
    <3>3. req.clen = End(k) - Lf(k) /\ got <= End(k) /\ Lf(k) <= got /\ req.clen # -1
      BY <3>1, <3>2 DEF PlainAt
    <3>4. ToRead \in Int /\ ToRead <= req.clen - req.nread
      BY <1>1, <3>3, ToReadFacts
    <3>5. ~ req.complete
      BY <1>2, <3>1, <3>3, <3>4 DEF PlainAt
    <3>6. PICK P \in Int : P = ParsedTo /\ P = got - req.rem
      BY <1>2 DEF ParsedTo
    <3>7. /\ P < End(k) /\ req.nread = BodyUpTo(k, P)
      BY <1>1, <1>2, <2>4, <3>5, <3>6 DEF BodyInv, BodyTaken
    <3>8. /\ c = Smaller(m, End(k) - P) /\ (req'.complete <=> P + c = End(k))
          /\ Len(req'.taken) = BodyUpTo(k, P + c)
      BY <1>3, <2>4, <3>5, <3>6 DEF ExecutedCounts
    <3>9. req'.nread = BodyUpTo(k, P + c)
      BY <1>4, <3>8 DEF TakenOf
    <3>10. P + c = End(k) => req'.nread = End(k) - Lf(k)
      BY <3>2, <3>9 DEF BodyUpTo, Larger, Smaller
    <3>11. CASE fromRem
      <4>1. got' = got /\ req'.rem = req.rem - c /\ got' - req'.rem = P + c
        BY <1>2, <1>4, <3>6, <3>11
      <4>2. req'.rem = 0 => Lf(k) <= got' - req'.rem
        BY <1>2, <3>3, <4>1
      <4>3. req.clen # 0
        BY <1>2, <3>3, <3>4
      <4> QED BY <1>4, <3>3, <3>8, <3>10, <4>1, <4>2, <4>3 DEF PlainAt
    <3>12. CASE ~ fromRem
      <4>1. got' = got + m /\ req'.rem = 0 /\ req.rem = 0 /\ P = got
        BY <1>2, <1>4, <3>6, <3>12
      <4>2. req.nread = got - Lf(k)
        BY <1>2, <3>2, <3>3, <3>7, <4>1 DEF BodyUpTo, Larger, Smaller
      <4>3. got + m <= End(k)
        BY <1>2, <3>2, <3>3, <3>4, <4>2, SMTT(30)
      <4>4. c = m
        BY <1>2, <3>2, <3>8, <4>1, <4>3 DEF Smaller
      <4>5. got' - req'.rem = P + c /\ got' = P + c /\ got' <= End(k) /\ Lf(k) <= got'
        BY <1>2, <3>2, <3>3, <4>1, <4>3, <4>4
      <4>6. req.clen # 0
        BY <1>2, <3>3, <3>4
      <4> QED BY <1>4, <3>3, <3>8, <3>10, <4>1, <4>5, <4>6 DEF PlainAt
    <3> QED BY <3>11, <3>12
  <2>6. StandsAt(nrequests', req', got', pc')
    BY <1>2, <1>4, <2>2, <2>4, <2>5 DEF StandsAt
  <2> QED BY <2>3, <2>6
<1> QED BY <1>5, <1>7, BoundaryNext

\* The request is done: everything up to its end has been read, and nothing behind it.
LEMMA RequestDoneBoundary ==
  ASSUME BoundaryInv, BodyInv', RequestDone
  PROVE  BoundaryInv'
<1>1. /\ pc = "skip" /\ ~ MustSkip /\ nrequests' = nrequests + 1
      /\ UNCHANGED <<conf, stream, sent, faults, got, rd>>
      /\ pc' = (IF keepalive THEN "headers" ELSE "closed") /\ req' = (IF keepalive THEN NewRequest ELSE req)
  BY DEF RequestDone, clientVars
<1>2. /\ BodyInv /\ OneReader /\ nrequests \in Nat /\ faults \in Int /\ faults <= conf.faults
      /\ conf.faults \in Nat
  BY BoundaryFacts
<1>3. OneReader'
  BY <1>1, <1>2 DEF OneReader, Live
<1>4. /\ conf \in Setups /\ stream = Stream(conf.script) /\ got \in Nat /\ req.rem \in Nat /\ req.rem <= got
      /\ req.nread \in Nat /\ req.k # 0 /\ req.k \in 1 .. Len(conf.script) /\ req.clen \in Int
      /\ TakenOf(req.k, req.taken, req.nread)
  BY <1>1, <1>2, BodyInvFacts DEF WithinRequest
<1>5. ASSUME Undisturbed', Live'
      PROVE  WaitsAt(sent', nrequests', Skipping') /\ StandsAt(nrequests', req', got', pc')
  <2>1. Undisturbed /\ Live
    BY <1>1, <1>2, <1>5, UndisturbedBefore DEF Live
  <2>2. WaitsAt(sent, nrequests, Skipping) /\ StandsAt(nrequests, req, got, pc)
    BY <2>1, BoundaryFacts
  <2>3. keepalive /\ pc' = "headers" /\ req' = NewRequest
    BY <1>1, <1>5 DEF Live
  <2>4. req'.k = 0 /\ req'.base = got
    BY <2>3 DEF NewRequest
  <2>5. PICK k : k = nrequests + 1
    OBVIOUS
  <2>6. req.k = k /\ k \in 1 .. Len(conf.script) /\ k \in 1 .. nrequests'
    BY <1>1, <1>2, <1>4, <2>2, <2>5 DEF StandsAt
  <2>7. ~ conf.script[k].chunked /\ ~ conf.script[k].padded
    <3>1. Sound(conf.script[k])
      BY <1>1, <1>5, <2>6 DEF Undisturbed
    <3> QED BY <3>1 DEF Sound
  <2>8. PlainAt(k, req, got)
    BY <1>4, <2>2, <2>6, <2>7 DEF StandsAt
  <2>9. BodyFrom(k) = Lf(k) + 1 /\ BodyTo(k) = End(k) /\ Lf(k) \in Nat /\ End(k) \in Nat /\ Lf(k) <= End(k)
    BY <1>4, <2>6, <2>7, PlainLength
  <2>10. got = End(k)
    <3>1. CASE req.clen = 0
      BY <1>4, <2>8, <2>9, <3>1 DEF PlainAt
    <3>2. CASE req.clen # 0
      <4>1. req.clen = End(k) - Lf(k) /\ req.clen <= req.nread /\ req.clen > 0
        BY <1>1, <1>4, <2>8, <2>9, <3>2 DEF PlainAt, MustSkip
      <4>2. req.complete
        <5>1. ASSUME ~ req.complete PROVE FALSE
          <6>1. PICK P \in Int : P = ParsedTo
            BY <1>4 DEF ParsedTo
          <6>2. P < End(k) /\ req.nread = BodyUpTo(k, P)
            BY <1>2, <1>4, <2>6, <5>1, <6>1 DEF BodyInv, BodyTaken
          <6> QED BY <2>9, <4>1, <6>2 DEF BodyUpTo, Larger, Smaller
        <5> QED BY <5>1
      <4>3. got - req.rem = End(k) /\ got <= End(k)
        BY <2>8, <4>2 DEF PlainAt
      <4> QED BY <1>4, <2>9, <4>3
    <3> QED BY <3>1, <3>2
  <2>11. Len(conf.script) \in Nat /\ k <= Len(conf.script)
    BY <1>4, <2>6, Layout
  <2>12. WaitsAt(sent', nrequests', Skipping')
    <3>1. nrequests' = k /\ sent' = sent /\ ~ Skipping'
      BY <1>1, <2>3, <2>5 DEF Skipping
    <3>2. ASSUME k < Len(conf.script) PROVE sent <= End(k + 1)
      <4>1. nrequests + 1 < Len(conf.script) /\ nrequests + 2 = k + 1
        BY <1>2, <2>5, <3>2
      <4> QED BY <2>2, <4>1 DEF WaitsAt
    <3>3. ASSUME k + 1 < Len(conf.script) PROVE sent <= End(k + 2)
      <4>1. /\ k < Len(conf.script) /\ k + 2 \in 0 .. Len(conf.script) /\ k + 1 \in 0 .. k + 2
            /\ k + 1 \in 0 .. Len(conf.script)
        BY <1>2, <2>5, <2>11, <3>3
      <4>2. End(k + 1) <= End(k + 2) /\ End(k + 1) \in Nat /\ End(k + 2) \in Nat
        BY <1>4, <4>1, Layout
      <4>3. sent \in Nat
        BY <1>2, BodyInvFacts
      <4> QED BY <3>2, <4>1, <4>2, <4>3
    <3> QED BY <3>1, <3>2, <3>3 DEF WaitsAt
  <2>13. StandsAt(nrequests', req', got', pc')
    <3>1. ASSUME k < Len(conf.script) PROVE got < Lf(k + 1)
      <4>1. k + 1 \in 1 .. Len(conf.script) /\ (k + 1) - 1 = k
        BY <1>2, <2>5, <2>11, <3>1
      <4>2. End((k + 1) - 1) < Lf(k + 1)
        BY <1>4, <4>1, RequestPlace
      <4> QED BY <2>10, <4>1, <4>2
    <3>2. nrequests' = k /\ got' = got
      BY <1>1, <2>5
    <3> QED BY <2>4, <2>10, <2>11, <3>1, <3>2 DEF StandsAt
  <2> QED BY <2>12, <2>13
<1> QED BY <1>1, <1>3, <1>5, BoundaryNext

\* A client that waits for the response sends no more than a part of the next request.
LEMMA ClientSendsBoundary ==
  ASSUME BoundaryInv, BodyInv', ClientSends
  PROVE  BoundaryInv'
<1>1. /\ UNCHANGED <<conf, stream, faults, got, req, rd, pc, nrequests>> /\ sent < Len(stream) /\ sent' = NextSent
      /\ conf.pipelined \/ Answered(stream[sent + 1].req - 1)
  BY DEF ClientSends, requestVars, protocolVars
<1>2. BodyInv /\ OneReader /\ nrequests \in Nat /\ conf.faults \in Nat /\ faults \in Int /\ faults <= conf.faults
  BY BoundaryFacts
<1>3. OneReader'
  BY <1>1, <1>2 DEF OneReader, Live
<1>4. conf \in Setups /\ stream = Stream(conf.script) /\ sent \in Nat
  BY <1>2, BodyInvFacts
<1>5. PICK k \in 1 .. Len(conf.script) : stream[sent + 1].req = k /\ NextSent \in sent + 1 .. End(k)
  BY <1>1, <1>4, NextSentFacts
<1>6. ASSUME Undisturbed', Live'
      PROVE  WaitsAt(sent', nrequests', Skipping') /\ StandsAt(nrequests', req', got', pc')
  <2>1. Undisturbed /\ Live /\ (Skipping' <=> Skipping)
    BY <1>1, <1>2, <1>6, UndisturbedBefore DEF Live, Skipping
  <2>2. WaitsAt(sent, nrequests, Skipping) /\ StandsAt(nrequests, req, got, pc)
    BY <2>1, BoundaryFacts
  <2>3. Answered(k - 1)
    BY <1>1, <1>5, <2>1 DEF Undisturbed
  <2>4. /\ Skipping => k <= nrequests + 2
        /\ ~ Skipping => k <= nrequests + 1
    <3>1. CASE nrequests >= k - 1
      BY <1>2, <3>1
    <3>2. CASE req.k = k - 1 /\ (pc = "skip" \/ rd.caller = "skip")
      <4>1. Skipping
        BY <1>2, <2>1, <3>2 DEF Skipping, OneReader
      <4>2. CASE req.k = 0
        BY <1>2, <3>2, <4>1, <4>2
      <4>3. CASE req.k # 0
        <5>1. req.k = nrequests + 1
          BY <2>2, <4>3 DEF StandsAt
        <5> QED BY <1>2, <3>2, <4>1, <5>1
      <4> QED BY <4>2, <4>3
    <3> QED BY <2>3, <3>1, <3>2 DEF Answered
  <2>5. sent' <= End(k) /\ sent' \in Int
    <3>1. End(k) \in Nat
      BY <1>4, RequestPlace
    <3> QED BY <1>1, <1>4, <1>5, <3>1
  <2>6. ASSUME NEW j \in 0 .. Len(conf.script), k <= j PROVE sent' <= End(j)
    <3>1. k \in 0 .. j /\ k \in 0 .. Len(conf.script)
      BY <2>6
    <3>2. End(k) <= End(j) /\ End(k) \in Nat /\ End(j) \in Nat
      BY <1>4, <3>1, Layout
    <3> QED BY <2>5, <3>2
  <2>7. Len(conf.script) \in Nat
    BY <1>4, Layout
  <2>8. ASSUME nrequests < Len(conf.script), ~ Skipping PROVE sent' <= End(nrequests + 1)
    <3>1. nrequests + 1 \in 0 .. Len(conf.script) /\ k <= nrequests + 1
      BY <1>2, <2>4, <2>7, <2>8
    <3> QED BY <2>6, <3>1
  <2>9. ASSUME nrequests + 1 < Len(conf.script) PROVE sent' <= End(nrequests + 2)
    <3>1. nrequests + 2 \in 0 .. Len(conf.script) /\ k <= nrequests + 2
      BY <1>2, <2>4, <2>7, <2>9
    <3> QED BY <2>6, <3>1
  <2>10. WaitsAt(sent', nrequests', Skipping')
    BY <1>1, <2>1, <2>8, <2>9 DEF WaitsAt
  <2>11. StandsAt(nrequests', req', got', pc')
    BY <1>1, <2>2
  <2> QED BY <2>10, <2>11
<1> QED BY <1>1, <1>3, <1>6, BoundaryNext

-----------------------------------------------------------------------------
(***************************************************************************)
(* What goes wrong is counted, by every step.                              *)
(***************************************************************************)
LEMMA FlushCost ==
  ASSUME NEW r, NEW f \in FlushOutcomes(r)
  PROVE  f.cost \in Nat
<1>1. CASE r.flushed
  BY <1>1 DEF FlushOutcomes
<1>2. CASE ~ r.flushed
  <2> DEFINE q == [WithLength(r) EXCEPT !.flushed = TRUE]
             fates == IF peer = "broken" THEN {"nothing"}
                      ELSE {"whole"} \cup IF faults > 0 THEN {"cut", "status"} ELSE {}
             adds == r.clen # -1 /\ r.items["Content-Length"] = "absent"
             written(fate) == [resp |-> IF fate = "status" THEN [q EXCEPT !.status = 500] ELSE q,
                               out |-> HeadWritten(q, fate), cost |-> FaultIf(fate \in {"cut", "status"}),
                               crash |-> FALSE, ret |-> 0]
             lost == [resp |-> r, out |-> out, cost |-> 1, crash |-> TRUE, ret |-> 0]
  <2>1. f \in {written(fate) : fate \in fates} \cup IF adds /\ faults > 0 THEN {lost} ELSE {}
    BY <1>2, Zenon DEF FlushOutcomes
  <2>2. /\ \A fate : written(fate).cost = FaultIf(fate \in {"cut", "status"})
        /\ lost.cost = 1
    BY Zenon
  <2> HIDE DEF written, lost, fates, adds
  <2>3. (\E fate : f = written(fate)) \/ f = lost
    BY <2>1, Zenon
  <2>4. \A fate : FaultIf(fate \in {"cut", "status"}) \in Nat
    BY DEF FaultIf
  <2> QED BY <2>2, <2>3, <2>4
<1> QED BY <1>1, <1>2

LEMMA WriteCost ==
  ASSUME NEW r, NEW from, NEW pieces, NEW w \in WriteOutcomes(r, from, pieces)
  PROVE  w.cost \in Nat
<1>1. PICK f \in FlushOutcomes(r) :
        w \in IF f.crash THEN {f}
              ELSE {[resp  |-> f.resp,
                     out   |-> [f.out EXCEPT !.body = @ \o [i \in 1 .. v.n |-> from + i - 1],
                                             !.mishaps = @ \cup IF v.short /\ Len(pieces) > 1
                                                                THEN {"writev"} ELSE {}],
                     cost  |-> f.cost + FaultIf(v.short), crash |-> FALSE, ret |-> v.ret] :
                      v \in {u \in WritevOutcomes(pieces) : f.cost + FaultIf(u.short) <= faults}}
  BY Zenon DEF WriteOutcomes
<1>2. f.cost \in Nat
  BY FlushCost
<1>3. CASE f.crash
  BY <1>1, <1>2, <1>3
<1>4. CASE ~ f.crash
  <2>1. PICK s, o, x, t : w = [resp |-> s, out |-> o, cost |-> f.cost + FaultIf(x), crash |-> FALSE, ret |-> t]
    BY <1>1, <1>4, Zenon
  <2>2. w.cost = f.cost + FaultIf(x)
    BY <2>1
  <2> QED BY <1>2, <2>2 DEF FaultIf
<1> QED BY <1>3, <1>4

LEMMA FaultsCounted ==
  ASSUME faults \in Int, [Next]_vars
  PROVE  faults' \in Int /\ faults' <= faults /\ conf' = conf /\ stream' = stream
<1> USE DEF clientVars, requestVars, responseVars, protocolVars
<1>1. CASE HeadersStep
  <2>1. CASE HeadersAssertion \/ HeadersEof \/ HeadersNoMem
    BY <2>1 DEF HeadersAssertion, HeadersEof, HeadersNoMem
  <2>2. CASE ReadHeaders
    <3>1. conf' = conf /\ stream' = stream
      BY <2>2 DEF ReadHeaders
    <3>2. faults' = faults \/ \E p, hi : HeadersComplete(p, hi)
      BY <2>2, Zenon DEF ReadHeaders
    <3>3. ASSUME NEW p, NEW hi, HeadersComplete(p, hi) PROVE faults' = faults \/ faults' = faults - 1
      BY <3>3, Zenon DEF HeadersComplete
    <3> QED BY <3>1, <3>2, <3>3
  <2> QED BY <1>1, <2>1, <2>2 DEF HeadersStep
<1>2. CASE ReadStep
  <2>1. conf' = conf /\ stream' = stream /\ faults' = faults
    BY <1>2, Zenon DEF ReadStep, ReadRemainder, ReadBeyond, ReadSocket, ReadEof, ReadNothing, ReadFails
  <2> QED BY <2>1
<1>3. CASE \/ RequestRefused \/ RunHandler \/ HandlerBegins \/ HandlerReads \/ HandlerReadDone \/ HandlerSets
           \/ HandlerReturns \/ SkipRead \/ SkipReadDone \/ RequestDone
  <2>1. conf' = conf /\ stream' = stream /\ faults' = faults
    BY <1>3, Zenon DEF RequestRefused, RunHandler, HandlerBegins, HandlerReads, HandlerReadDone, HandlerSets,
                       HandlerReturns, SkipRead, SkipReadDone, RequestDone
  <2> QED BY <2>1
<1>4. CASE HandlerWrites
  <2>1. conf' = conf /\ stream' = stream
    BY <1>4 DEF HandlerWrites
  <2>2. PICK w, from, pieces : w \in WriteOutcomes(resp, from, pieces) /\ faults' = faults - w.cost
    BY <1>4, Zenon DEF HandlerWrites, Written
  <2>3. w.cost \in Nat
    BY <2>2, WriteCost
  <2> QED BY <2>1, <2>2, <2>3
<1>5. CASE Respond
  <2>1. conf' = conf /\ stream' = stream
    BY <1>5 DEF Respond
  <2>2. PICK lost \in SUBSET {"Connection", "Content-Length"} : \E r : \E f \in FlushOutcomes(r) :
          faults' = faults - f.cost - Cardinality(lost)
    BY <1>5, Zenon DEF Respond
  <2>3. PICK r, f : f \in FlushOutcomes(r) /\ faults' = faults - f.cost - Cardinality(lost)
    BY <2>2, Zenon
  <2>4. f.cost \in Nat
    BY <2>3, FlushCost
  <2>5. Cardinality(lost) \in Nat
    <3>1. IsFiniteSet({"Connection", "Content-Length"})
      <4>1. IsFiniteSet({}) /\ {} \cup {"Connection"} = {"Connection"}
        BY FS_EmptySet
      <4>2. IsFiniteSet({"Connection"})
        <5>1. IsFiniteSet({} \cup {"Connection"})
          BY <4>1, FS_AddElement
        <5> QED BY <4>1, <5>1
      <4>3. IsFiniteSet({"Connection"} \cup {"Content-Length"})
        BY <4>2, FS_AddElement
      <4>4. {"Connection"} \cup {"Content-Length"} = {"Connection", "Content-Length"}
        OBVIOUS
      <4> QED BY <4>3, <4>4
    <3>2. IsFiniteSet(lost)
      BY <3>1, FS_Subset
    <3> QED BY <3>2, FS_CardinalityType
  <2> QED BY <2>1, <2>3, <2>4, <2>5
<1>6. CASE FsListing
  <2>1. conf' = conf /\ stream' = stream
    BY <1>6 DEF FsListing
  <2>2. PICK w, r, pieces : w \in WriteOutcomes(r, 1, pieces) /\ faults' = faults - w.cost
    BY <1>6, ZenonT(40) DEF FsListing
  <2>3. w.cost \in Nat
    BY <2>2, WriteCost
  <2> QED BY <2>1, <2>2, <2>3
<1>7. CASE FsCopy
  <2>1. conf' = conf /\ stream' = stream
    BY <1>7 DEF FsCopy
  <2>2. PICK w, from, pieces : w \in WriteOutcomes(resp, from, pieces) /\ faults' = faults - w.cost
    BY <1>7, Zenon DEF FsCopy
  <2>3. w.cost \in Nat
    BY <2>2, WriteCost
  <2> QED BY <2>1, <2>2, <2>3
<1>8. CASE FsAnswer \/ FsOpen \/ FsReadShort \/ FsDone
  <2>1. conf' = conf /\ stream' = stream /\ (faults' = faults \/ faults' = faults - 1)
    BY <1>8 DEF FsAnswer, FsOpen, FsReadShort, FsDone
  <2> QED BY <2>1
<1>9. CASE ClientSends \/ ClientLeaves \/ UNCHANGED vars
  BY <1>9 DEF ClientSends, ClientLeaves, vars
<1> QED
  BY <1>1, <1>2, <1>3, <1>4, <1>5, <1>6, <1>7, <1>8, <1>9, Zenon DEF Next, Server, Connection, FileServerStep

-----------------------------------------------------------------------------
(***************************************************************************)
(* BoundaryInv is an invariant.                                            *)
(***************************************************************************)
LEMMA BoundaryInitial == Init => BoundaryInv
<1> SUFFICES ASSUME Init PROVE BoundaryInv
  OBVIOUS
<1>1. /\ BodyInv /\ conf \in Setups /\ stream = Stream(conf.script) /\ sent = 0 /\ got = 0 /\ pc = "headers"
      /\ req = NewRequest /\ rd = Idle /\ nrequests = 0 /\ faults = conf.faults
  BY BodyInitial DEF Init
<1>2. conf.faults \in Nat /\ Len(conf.script) \in Nat /\ End(0) = 0
  BY <1>1, Layout, SetupFacts
<1>3. req.k = 0 /\ req.base = 0 /\ rd.caller = "none"
  BY <1>1 DEF NewRequest, Idle
<1>4. OneReader
  BY <1>1, <1>2, <1>3 DEF OneReader
<1>5. \A k \in 0 .. Len(conf.script) : End(k) \in Nat
  BY <1>1, Layout
<1>6. ClientWaits
  <2>1. 0 < Len(conf.script) => 0 <= End(0 + 1)
    BY <1>2, <1>5
  <2>2. 0 + 1 < Len(conf.script) => 0 <= End(0 + 2)
    BY <1>2, <1>5
  <2> QED BY <1>1, <2>1, <2>2 DEF ClientWaits
<1>7. AtBoundary
  <2>1. ASSUME 0 < Len(conf.script) PROVE 0 < Lf(0 + 1)
    <3>1. 1 \in 1 .. Len(conf.script) /\ 0 + 1 = 1 /\ 1 - 1 = 0
      BY <1>2, <2>1
    <3>2. End(1 - 1) < Lf(1)
      BY <1>1, <3>1, RequestPlace
    <3> QED BY <1>2, <3>1, <3>2
  <2> QED BY <1>1, <1>2, <1>3, <2>1 DEF AtBoundary
<1> QED BY <1>1, <1>4, <1>6, <1>7 DEF BoundaryInv

LEMMA BoundaryStep == BoundaryInv /\ [Next]_vars => BoundaryInv'
<1> SUFFICES ASSUME BoundaryInv, [Next]_vars PROVE BoundaryInv'
  OBVIOUS
<1>0. /\ BodyInv' /\ BodyInv /\ faults' \in Int /\ faults' <= faults /\ conf' = conf /\ stream' = stream
      /\ pc = "read" => rd.caller \in {"handler", "skip"}
      /\ Live /\ pc # "read" => rd.caller = "none"
      /\ DOMAIN rd = {"left", "out", "caller"} /\ DOMAIN req = RequestFields
      /\ got \in Nat /\ sent \in Nat /\ req.rem \in Nat /\ req.rem <= got /\ got <= sent
  BY BoundaryFacts, BodyStep, FaultsCounted, BodyInvFacts DEF BoundaryInv, OneReader
<1> USE DEF clientVars, requestVars, responseVars, protocolVars
<1>1. ASSUME UNCHANGED <<sent, got, req, nrequests>>, Live' => Live, pc' = "headers" => pc = "headers",
             Live' /\ Skipping => Skipping',
             pc' = "read" => rd'.caller \in {"handler", "skip"}, Live' /\ pc' # "read" => rd'.caller = "none"
      PROVE  BoundaryInv'
  BY <1>0, <1>1, QuietBoundary
<1>2. ASSUME UNCHANGED <<sent, got, req, nrequests, rd>>, pc \in {"returned", "handler", "respond"},
             pc' \in {"handler", "respond", "skip", "closed", "undefined"}
      PROVE  BoundaryInv'
  BY <1>0, <1>1, <1>2 DEF Live, Skipping
<1>3. ASSUME UNCHANGED <<sent, got, req, nrequests>>, pc' \in {"aborted", "undefined", "spinning"}
      PROVE  BoundaryInv'
  BY <1>0, <1>1, <1>3 DEF Live, Skipping
<1>4. CASE HeadersStep /\ UNCHANGED <<responseVars, protocolVars>>
  <2>1. CASE HeadersAssertion
    BY <1>3, <1>4, <2>1 DEF HeadersAssertion
  <2>2. CASE HeadersEof \/ HeadersNoMem
    <3>1. /\ pc = "headers" /\ pc' = "returned" /\ \E e : req' = [req EXCEPT !.err = e]
          /\ UNCHANGED <<conf, stream, sent, nrequests, rd, got>>
      BY <1>4, <2>2 DEF HeadersEof, HeadersNoMem, HeadersReturn, MayReadHeaders
    <3>2. req'.k = req.k /\ req'.base = req.base /\ req.k = 0
      BY <1>0, <3>1, BodyInvFacts DEF RequestFields
    <3>3. ASSUME Undisturbed, Live PROVE StandsAt(nrequests, req', got', pc')
      <4>1. StandsAt(nrequests, req, got, pc)
        BY <3>3, BoundaryFacts
      <4> QED BY <3>1, <3>2, <4>1 DEF StandsAt
    <3> QED BY <1>0, <3>1, <3>3, WithinBoundary DEF Skipping
  <2>3. CASE ReadHeaders
    BY <1>0, <1>4, <2>3, ReadHeadersBoundary
  <2> QED BY <1>4, <2>1, <2>2, <2>3 DEF HeadersStep
<1>5. CASE ReadStep /\ UNCHANGED <<responseVars, protocolVars>>
  <2>1. CASE ReadRemainder
    <3>1. PICK m : m = Smaller(ToRead, req.rem)
      OBVIOUS
    <3>2. /\ pc = "read" /\ UNCHANGED <<conf, stream, sent, pc, faults, nrequests>> /\ got' = got /\ ToRead > 0
          /\ req.rem > 0 /\ ~ req.complete /\ Execute(got - req.rem + 1, m, TRUE)
      BY <1>5, <2>1, <3>1 DEF ReadRemainder, ReadGoesOn
    <3>3. m \in Nat /\ m <= req.rem /\ m <= ToRead /\ 0 < ToRead
      BY <1>0, <3>1, <3>2, ToReadFacts DEF Smaller
    <3>4. got - req.rem + 1 = ParsedTo + 1
      BY DEF ParsedTo
    <3> QED BY <1>0, <3>2, <3>3, <3>4, ExecuteBoundary
  <2>2. CASE ReadSocket
    <3>1. PICK m : m = Smaller(ToRead, sent - got)
      OBVIOUS
    <3>2. /\ pc = "read" /\ UNCHANGED <<conf, stream, sent, pc, faults, nrequests>> /\ got' = got + m /\ ToRead > 0
          /\ req.rem = 0 /\ sent > got /\ Execute(got + 1, m, FALSE)
      BY <1>5, <2>2, <3>1 DEF ReadSocket, ReadGoesOn
    <3>3. m \in Nat /\ m <= ToRead /\ 0 < ToRead
      BY <1>0, <3>1, <3>2, ToReadFacts DEF Smaller
    <3>4. got + 1 = ParsedTo + 1
      BY <1>0, <3>2 DEF ParsedTo
    <3> QED BY <1>0, <3>2, <3>3, <3>4, ExecuteBoundary
  <2>3. CASE ReadEof
    <3>1. rd' = [rd EXCEPT !.left = 0] /\ pc = "read" /\ UNCHANGED <<sent, got, req, pc, nrequests>>
      BY <1>5, <2>3 DEF ReadEof, ReadGoesOn
    <3>2. rd'.caller = rd.caller
      BY <1>0, <3>1
    <3> QED BY <1>0, <1>1, <3>1, <3>2 DEF Live, Skipping
  <2>4. CASE ReadBeyond \/ ReadNothing \/ ReadFails
    <3>1. UNCHANGED <<sent, got, req, nrequests>> /\ pc' \in {"aborted", "undefined", "spinning"}
      BY <1>5, <2>4 DEF ReadBeyond, ReadNothing, ReadFails
    <3> QED BY <1>3, <3>1
  <2> QED BY <1>5, <2>1, <2>2, <2>3, <2>4 DEF ReadStep
<1>6. CASE RequestRefused
  BY <1>2, <1>6 DEF RequestRefused
<1>7. CASE RunHandler
  BY <1>2, <1>7 DEF RunHandler
<1>8. CASE HandlerBegins \/ HandlerSets
  BY <1>2, <1>8 DEF HandlerBegins, HandlerSets, Calls, InHandler
<1>9. CASE HandlerReads \/ SkipRead
  <2>1. /\ UNCHANGED <<sent, got, req, nrequests>> /\ pc' = "read" /\ pc \in {"handler", "skip"}
        /\ \E n : rd' = [left |-> n, out |-> 0, caller |-> pc]
    BY <1>9 DEF HandlerReads, SkipRead, ReadCall, Calls, InHandler
  <2>2. rd'.caller = pc
    BY <2>1
  <2> QED BY <1>1, <2>1, <2>2 DEF Live, Skipping
<1>10. CASE HandlerReadDone \/ SkipReadDone
  <2>1. /\ UNCHANGED <<sent, got, req, nrequests>> /\ pc = "read" /\ pc' = rd.caller /\ pc' \in {"handler", "skip"}
        /\ rd' = Idle
    BY <1>10 DEF HandlerReadDone, SkipReadDone, ReadReturns
  <2>2. rd'.caller = "none"
    BY <2>1 DEF Idle
  <2> QED BY <1>1, <2>1, <2>2 DEF Live, Skipping
<1>11. CASE HandlerWrites
  <2>1. pc' \in {"undefined", pc} /\ pc = "handler" /\ UNCHANGED <<sent, got, req, rd, nrequests>>
    BY <1>11 DEF HandlerWrites, Calls, InHandler, Written
  <2> QED BY <1>2, <2>1
<1>12. CASE HandlerReturns
  BY <1>2, <1>12 DEF HandlerReturns, InHandler, Return
<1>13. CASE Respond
  <2>1. pc' \in {"undefined", "skip"} /\ pc = "respond" /\ UNCHANGED <<sent, got, req, rd, nrequests>>
    BY <1>13 DEF Respond
  <2> QED BY <1>2, <2>1
<1>14. CASE RequestDone
  BY <1>0, <1>14, RequestDoneBoundary
<1>15. CASE FileServerStep
  <2>1. pc = "handler" /\ UNCHANGED <<sent, got, req, rd, nrequests>>
    BY <1>15 DEF FileServerStep, FsAnswer, FsListing, FsOpen, FsCopy, FsReadShort, FsDone, Serving
  <2>2. pc' \in {"handler", "respond", "undefined"}
    <3>1. CASE FsAnswer
      BY <3>1 DEF FsAnswer, FsReturn, Return
    <3>2. CASE FsListing
      BY <3>2 DEF FsListing
    <3>3. CASE FsOpen
      BY <2>1, <3>3 DEF FsOpen, Return
    <3>4. CASE FsCopy
      BY <2>1, <3>4 DEF FsCopy, Return
    <3>5. CASE FsReadShort \/ FsDone
      BY <3>5 DEF FsReadShort, FsDone, Return
    <3> QED BY <1>15, <3>1, <3>2, <3>3, <3>4, <3>5 DEF FileServerStep
  <2> QED BY <1>2, <2>1, <2>2
<1>16. CASE ClientSends
  BY <1>0, <1>16, ClientSendsBoundary
<1>17. CASE ClientLeaves \/ UNCHANGED vars
  <2>1. UNCHANGED <<sent, got, req, rd, nrequests, pc>>
    BY <1>17 DEF ClientLeaves, vars
  <2> QED BY <1>0, <1>1, <2>1 DEF Live, Skipping
<1> QED
  BY <1>4, <1>5, <1>6, <1>7, <1>8, <1>9, <1>10, <1>11, <1>12, <1>13, <1>14, <1>15, <1>16, <1>17
     DEF Next, Server, Connection

\* On a connection that nothing has disturbed the loop of dfk__http_protocol stands
\* between two requests, or within one of which it has not read past the end.
THEOREM BoundaryInvariant == Spec => []BoundaryInv
BY BoundaryInitial, BoundaryStep, PTL DEF Spec

\* dfk__http_protocol begins to read every request at its first byte, whatever the
\* handler read of the body before it and however that arrived: for every script of
\* requests, every buffer size and every file.
THEOREM BoundarySafety == Spec => []RequestBoundary
<1>1. ASSUME BoundaryInv PROVE RequestBoundary
  <2> SUFFICES ASSUME pc = "headers", got = req.base, got < Len(stream), Undisturbed
               PROVE  stream[got + 1].n = 1 /\ stream[got + 1].req = nrequests + 1
    BY DEF RequestBoundary, Undisturbed
  <2>1. StandsAt(nrequests, req, got, pc) /\ BodyInv /\ nrequests \in Nat
    BY <1>1, BoundaryFacts DEF Live
  <2>2. /\ conf \in Setups /\ stream = Stream(conf.script) /\ got \in Nat /\ got = End(nrequests)
        /\ nrequests <= Len(conf.script)
    BY <2>1, BodyInvFacts DEF StandsAt
  <2>3. Len(conf.script) \in Nat /\ End(Len(conf.script)) = Len(stream) /\ Len(stream) \in Nat
    BY <2>2, Layout
  <2>4. nrequests # Len(conf.script)
    BY <2>2, <2>3
  <2>5. PICK k : k = nrequests + 1
    OBVIOUS
  <2>6. k \in 1 .. Len(conf.script) /\ k - 1 = nrequests
    BY <2>1, <2>2, <2>3, <2>4, <2>5
  <2>7. End(k - 1) = got /\ End(k) \in Nat /\ End(k - 1) < End(k)
    BY <2>2, <2>6, RequestPlace
  <2>8. PICK x : x = got + 1
    OBVIOUS
  <2>9. x \in End(k - 1) + 1 .. End(k) /\ x - End(k - 1) = 1
    BY <2>2, <2>7, <2>8
  <2>10. conf \in Setups /\ stream = Stream(conf.script)
    BY <2>2, Zenon
  <2>11. stream[x].req = k /\ stream[x].n = x - End(k - 1)
    BY <2>6, <2>9, <2>10, RequestCells
  <2> QED BY <2>5, <2>8, <2>9, <2>11, Zenon
<1> QED BY <1>1, BoundaryInvariant, PTL
=============================================================================
