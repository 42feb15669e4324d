------------------------------- MODULE Arena -------------------------------
(***************************************************************************)
(* The memory arena of arena.c: segments from malloc, handed out from the  *)
(* front to the back, and freed together.  Sizes are counted in words; the *)
(* arithmetic on size_t wraps at SizeMax.                                  *)
(***************************************************************************)
EXTENDS Integers, FiniteSets, Sequences

CONSTANTS
  SegmentSize,   \* DFK_ARENA_SEGMENT_SIZE
  Header,        \* sizeof(segment_t)
  OwcHeader,     \* sizeof(owc_t)
  Sizes,         \* sizes that are asked for
  SizeMax,       \* 2 ^ width of size_t
  MaxObjects     \* bound on the number of objects

ASSUME ArenaAssumption ==
  /\ {SegmentSize, Header, OwcHeader, SizeMax, MaxObjects} \subseteq Nat \ {0}
  /\ 2 * Header < SegmentSize
  /\ \A n \in Sizes : n \in Nat \ {0} /\ MaxObjects * (n + OwcHeader) + Header < SizeMax

VARIABLES
  segments,   \* capacity of the block, `size' and `used' of every segment
  objects,    \* what was handed out: segment, offset and length
  owc         \* the objects with cleanup, in the order of _owc

arenaVars == <<segments, objects, owc>>

ArenaInit == segments = <<>> /\ objects = {} /\ owc = <<>>

Current == segments[Len(segments)]

\* dfk__arena_bytes_available; its assertion is HasRoom.
Available == (Current.size - Current.used) % SizeMax

\* Mutant: the room left is not looked at.
FitsAlways(size) == segments # <<>>

Fits(size) == segments # <<>> /\ Available >= size

\* Mutant: `used' of a new segment does not count its header.
NewSegmentNoHeader(size) ==
  [cap |-> IF SegmentSize < size + Header THEN size + Header ELSE SegmentSize,
   size |-> SegmentSize - Header, used |-> size]

NewSegment(size) ==
  [cap |-> IF SegmentSize < size + Header THEN size + Header ELSE SegmentSize,
   size |-> SegmentSize - Header, used |-> Header + size]

\* What dfk_arena_alloc returns, and the segments after it.  If malloc fails it
\* returns NULL and changes nothing.
Place(size) ==
  IF Fits(size) THEN [seg |-> Len(segments), at |-> Current.used, len |-> size]
                ELSE [seg |-> Len(segments) + 1, at |-> Header, len |-> size]

Grown(size) ==
  IF Fits(size) THEN [segments EXCEPT ![Len(segments)].used = (@ + size) % SizeMax]
                ELSE Append(segments, NewSegment(size))

\* dfk_arena_alloc and dfk_arena_alloc_copy
ArenaAlloc(size) ==
  /\ objects' = objects \cup {Place(size)}
  /\ segments' = Grown(size)
  /\ UNCHANGED owc

\* dfk_arena_alloc_ex and dfk_arena_alloc_copy_ex: the hook comes first.
ArenaAllocEx(size) ==
  LET total == OwcHeader + size IN
  /\ objects' = objects \cup {Place(total)}
  /\ segments' = Grown(total)
  /\ owc' = Append(owc, Place(total))

\* All cleanups run, in the order of the list, before any segment is freed.  The
\* list of the cleanups is emptied by dfk_arena_init only, which an arena that is
\* used again needs: this is the one followed by the other.
ArenaFree ==
  /\ segments # <<>>
  /\ segments' = <<>> /\ objects' = {} /\ owc' = <<>>

ArenaNext ==
  \/ /\ Cardinality(objects) < MaxObjects
     /\ \E size \in Sizes : ArenaAlloc(size) \/ ArenaAllocEx(size)
  \/ ArenaFree

ArenaSpec == ArenaInit /\ [][ArenaNext]_arenaVars

-----------------------------------------------------------------------------
(***************************************************************************)
(* Properties.                                                             *)
(***************************************************************************)
Overruns(o) == o.at + o.len > segments[o.seg].cap

\* An object that fills the usable part of a new segment to the last word or
\* beyond: `size' leaves out the header that `used' counts.
FillsSegment(o) == o.at = Header /\ Header + o.len > SegmentSize - Header

\* An object ends beyond the block its segment got from malloc only if the segment
\* began with an object that filled it, which makes size - used wrap around.
\* Everything else, in particular the space lost to counting the header twice, is
\* harmless.
OverrunOnlyBehindLarge ==
  \A o \in objects :
    Overruns(o) => \E q \in objects : q.seg = o.seg /\ q # o /\ FillsSegment(q)

\* No two objects share memory, so a cleanup finds its object as it was left.
Disjoint ==
  \A o, q \in objects :
    o.seg = q.seg /\ o # q => o.at + o.len <= q.at \/ q.at + q.len <= o.at

(***************************************************************************)
(* The inductive invariant behind these properties.                        *)
(***************************************************************************)
Segment == [cap : Nat, size : Nat, used : Nat]

ArenaTypeOK ==
  /\ segments \in Seq(Segment)
  /\ objects \subseteq [seg : 1 .. Len(segments), at : Nat, len : Nat \ {0}]
  /\ IsFiniteSet(objects)
  /\ owc \in Seq(objects)

\* The largest object for which MaxObjects of them do not wrap `used'.
MaxLength == (SizeMax - 1 - Header) \div MaxObjects

\* Every segment has the header, and never had more than all objects put into it.
SegmentsSound ==
  \A i \in 1 .. Len(segments) :
    /\ segments[i].size = SegmentSize - Header
    /\ segments[i].cap >= SegmentSize
    /\ segments[i].used <= Header + Cardinality(objects) * MaxLength

\* What is handed out lies in front of `used', where the next object will begin.
BelowUsed == \A o \in objects : o.at + o.len <= segments[o.seg].used

\* `used' passes `size' only in a segment that began with an object that filled it.
FullOnlyBehindLarge ==
  \A i \in 1 .. Len(segments) :
    segments[i].used > segments[i].size => \E q \in objects : q.seg = i /\ FillsSegment(q)

ArenaInv ==
  /\ ArenaTypeOK
  /\ SegmentsSound
  /\ BelowUsed
  /\ FullOnlyBehindLarge
  /\ Disjoint
  /\ OverrunOnlyBehindLarge

(***************************************************************************)
(* What the repository says and the code does not do.                      *)
(***************************************************************************)
\* "Allocate uninitialized buffer of the given size" (dfk_arena_alloc, arena.h):
\* the buffer is inside the block its segment got from malloc, and behind the
\* header.
InBounds == \A o \in objects : Header <= o.at /\ ~ Overruns(o)

\* The assertion of dfk__arena_bytes_available.
HasRoom == segments # <<>> => Current.size > Current.used
=============================================================================
