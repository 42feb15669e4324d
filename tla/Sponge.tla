------------------------------- MODULE Sponge -------------------------------
(***************************************************************************)
(* The in-memory byte stream of sponge.c, which stands in for a socket     *)
(* when the HTTP code is tested.  The n-th byte that is written is the     *)
(* number n; `written' and `read' count bytes and are history variables.   *)
(* If malloc fails, a write changes nothing.                               *)
(***************************************************************************)
EXTENDS Integers, Sequences

CONSTANTS
  InitialSize,   \* DFK_SPONGE_INITIAL_SIZE
  MaxChunk,      \* bound on the size of one read or write
  MaxBytes       \* bound on the number of bytes written

ASSUME SpongeAssumption == {InitialSize, MaxChunk, MaxBytes} \subseteq Nat \ {0}

VARIABLES
  data,       \* the bytes from base to base + size
  cur,        \* cur - base
  capacity,
  written,
  read,
  out         \* the bytes the last dfk__sponge_read or _readv returned

spongeVars == <<data, cur, capacity, written, read, out>>

Max2(a, b) == IF a < b THEN b ELSE a
Min2(a, b) == IF a < b THEN a ELSE b

\* The bytes from, ..., to of the stream.
Bytes(from, to) == [i \in 1 .. to - from + 1 |-> from + i - 1]

SpongeInit ==
  /\ data = <<>> /\ cur = 0 /\ capacity = 0
  /\ written = 0 /\ read = 0 /\ out = <<>>

\* Mutant: the bytes at the base are kept instead of those not read yet.
ReallocatedFromBase(buf) ==
  LET nused == Len(data) - cur IN
  /\ data' = SubSeq(data, 1, nused) \o buf
  /\ cur' = 0
  /\ capacity' = capacity + Max2(nused + Len(buf), capacity)

\* The third case of dfk__sponge_write: what was read is dropped.
Reallocated(buf) ==
  LET nused == Len(data) - cur IN
  /\ data' = SubSeq(data, cur + 1, Len(data)) \o buf
  /\ cur' = 0
  /\ capacity' = capacity + Max2(nused + Len(buf), capacity)

\* dfk__sponge_write, and one step of dfk__sponge_writev.
SpongeWrite(nbytes) ==
  LET buf == Bytes(written + 1, written + nbytes) IN
  /\ \/ /\ capacity = 0
        /\ data' = buf /\ cur' = 0 /\ capacity' = Max2(nbytes, InitialSize)
     \/ /\ capacity # 0 /\ nbytes <= capacity - Len(data)
        /\ data' = data \o buf /\ UNCHANGED <<cur, capacity>>
     \/ /\ capacity # 0 /\ nbytes > capacity - Len(data)
        /\ Reallocated(buf)
  /\ written' = written + nbytes
  /\ UNCHANGED <<read, out>>

ToRead(nbytes) == IF data = <<>> THEN 0 ELSE Min2(nbytes, Len(data) - cur)

\* dfk__sponge_read
SpongeRead(nbytes) ==
  /\ out' = SubSeq(data, cur + 1, cur + ToRead(nbytes))
  /\ cur' = cur + ToRead(nbytes)
  /\ read' = read + ToRead(nbytes)
  /\ UNCHANGED <<data, capacity, written>>

\* dfk__sponge_readv with buffers of the given sizes: an empty read ends it.
SpongeReadv(n1, n2) ==
  LET first == ToRead(n1)
      second == IF first = 0 THEN 0 ELSE Min2(n2, Len(data) - cur - first)
      total == first + second
  IN
  /\ out' = SubSeq(data, cur + 1, cur + total)
  /\ cur' = cur + total
  /\ read' = read + total
  /\ UNCHANGED <<data, capacity, written>>

SpongeNext ==
  \/ \E n \in 1 .. MaxChunk :
       \/ written + n <= MaxBytes /\ SpongeWrite(n)
       \/ SpongeRead(n)
  \/ \E n1, n2 \in 1 .. MaxChunk : SpongeReadv(n1, n2)

SpongeSpec == SpongeInit /\ [][SpongeNext]_spongeVars

-----------------------------------------------------------------------------
\* dfk__sponge_check_invariants: base <= cur <= base + size <= base + capacity,
\* through any sequence of reallocations.
SpongeInBounds == cur <= Len(data) /\ Len(data) <= capacity

\* The stream is first-in first-out: what is returned are the bytes that follow
\* those returned before, and what is left are the rest of those written.
StreamFifo ==
  /\ SpongeInBounds
  /\ SubSeq(data, cur + 1, Len(data)) = Bytes(read + 1, written)
  /\ out = Bytes(read - Len(out) + 1, read)

(***************************************************************************)
(* The inductive invariant behind it, byte by byte.                        *)
(***************************************************************************)
\* The bytes at the positions a to e of s have consecutive numbers, from f on.
Numbered(s, a, e, f) ==
  /\ s \in Seq(Nat) /\ a \in Nat /\ e \in Nat /\ f \in Nat
  /\ 1 <= a /\ a <= e + 1 /\ e <= Len(s)
  /\ \A i \in a .. e : s[i] = f + (i - a)

SpongeInv ==
  /\ cur \in Nat /\ capacity \in Nat /\ written \in Nat /\ read \in Nat
  /\ SpongeInBounds
  /\ written - read = Len(data) - cur
  /\ Numbered(data, cur + 1, Len(data), read + 1)
  /\ Len(out) <= read /\ Numbered(out, 1, Len(out), read - Len(out) + 1)
=============================================================================
