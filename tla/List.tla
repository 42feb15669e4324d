------------------------------- MODULE List -------------------------------
(***************************************************************************)
(* The intrusive doubly linked list of list.c at the level of its          *)
(* pointers, in both layouts the build offers: `_next' and `_prev', or the *)
(* XOR of the two addresses in `_p' (DFK_LIST_MEMORY_OPTIMIZED), together  *)
(* with the `_list' field of debug builds.  Scheduler, Mutex and Cond use  *)
(* sequences instead.                                                      *)
(*                                                                         *)
(* A pointer is a set of hooks: {} is NULL, {h} the address of h, and the  *)
(* XOR of pointers is their symmetric difference.  A set of several hooks  *)
(* is an address where there is no hook; what happens when it is followed  *)
(* is undefined: the model records that and goes no further.               *)
(*                                                                         *)
(* The assertions at the entry of the functions are guards: callers mind   *)
(* them.  An iterator is made right before it is used.                     *)
(*                                                                         *)
(* ListNext pairs every operation with the step of ListADT it is meant to  *)
(* be; `seq' is a history variable, which no operation reads.              *)
(***************************************************************************)
EXTENDS ListADT, FiniteSets

CONSTANTS
  Hooks,     \* dfk_list_hook_t objects
  DEADBEEF   \* DFK_PDEADBEEF, the address nobody may use

ASSUME ListAssumption ==
  /\ IsFiniteSet(Hooks)
  /\ DEADBEEF \notin Hooks
  /\ {} \notin Lists          \* a list is not at NULL

VARIABLES
  layout,     \* how the build links hooks; it never changes
  list,       \* _head, _tail and _size of every list
  hook,       \* the links of every hook, and its _list
  undefined   \* has an invalid pointer been followed?

listVars == <<layout, list, hook, undefined, seq>>

MemoryOptimized == layout = "xor"   \* DFK_LIST_MEMORY_OPTIMIZED

NULL == {}
PtrXor(p, q) == (p \ q) \cup (q \ p)
Valid(p) == \E h \in Hooks : p = {h}
Deref(p) == CHOOSE h \in Hooks : p = {h}

\* hooks' with field f of *p set to v, if p is not NULL.
Store(hooks, p, f, v) == IF p = NULL THEN hooks ELSE [hooks EXCEPT ![Deref(p)][f] = v]

EmptyList == [head |-> NULL, tail |-> NULL, size |-> 0]
FreshHook == IF MemoryOptimized THEN [p |-> NULL, list |-> NULL]
                                ELSE [next |-> NULL, prev |-> NULL, list |-> NULL]
ErasedHook == IF MemoryOptimized THEN [p |-> {DEADBEEF}, list |-> NULL]
                                 ELSE [next |-> {DEADBEEF}, prev |-> {DEADBEEF}, list |-> NULL]

-----------------------------------------------------------------------------
(***************************************************************************)
(* Iterators: value, and the element visited before it in the XOR layout.  *)
(***************************************************************************)
Begin(l) == [prev |-> NULL, value |-> list[l].head]
RBegin(l) == [prev |-> NULL, value |-> list[l].tail]
End == [prev |-> NULL, value |-> NULL]

Advance(it, f) ==
  LET h == hook[Deref(it.value)] IN
  IF MemoryOptimized THEN [prev |-> it.value, value |-> PtrXor(it.prev, h.p)]
                     ELSE [prev |-> NULL, value |-> h[f]]

\* The iterators a loop from `start' goes through, and one more than there are
\* hooks if it does not come to an end.
Walk(start, f) ==
  LET its[n \in 0 .. Cardinality(Hooks)] ==
        IF n = 0 THEN start
        ELSE IF Valid(its[n - 1].value) THEN Advance(its[n - 1], f) ELSE its[n - 1]
      valid == {n \in 0 .. Cardinality(Hooks) : Valid(its[n].value)}
  IN  [n \in 1 .. Cardinality(valid) |-> its[n - 1]]

Elements(walk) == [n \in DOMAIN walk |-> Deref(walk[n].value)]
ForwardWalk(l) == Walk(Begin(l), "next")
BackwardWalk(l) == Walk(RBegin(l), "prev")
Forward(l) == Elements(ForwardWalk(l))
Backward(l) == Elements(BackwardWalk(l))

\* dfk_list_it_from_value, dfk_list_rit_from_value
Found(walk, h) ==
  IF MemoryOptimized THEN walk[CHOOSE n \in DOMAIN walk : walk[n].value = {h}]
                     ELSE [prev |-> NULL, value |-> {h}]
ItFromValue(l, h) == Found(ForwardWalk(l), h)
RItFromValue(l, h) == Found(BackwardWalk(l), h)

-----------------------------------------------------------------------------
(***************************************************************************)
(* Insertion.                                                              *)
(***************************************************************************)
Free(h) == ~ undefined /\ hook[h].list = NULL

\* A hook of l between two others.
Node(l, before, after) ==
  IF MemoryOptimized THEN [p |-> PtrXor(before, after), list |-> l]
                     ELSE [next |-> after, prev |-> before, list |-> l]

\* Put h between `before' and `after', which are neighbours or the ends of l.
Link(l, h, before, after) ==
  LET Toggle(hooks, p, q) ==
        IF p = NULL THEN hooks
        ELSE Store(hooks, p, "p", PtrXor(hooks[Deref(p)].p, PtrXor({h}, q)))
  IN
  /\ hook' = [(IF MemoryOptimized
               THEN Toggle(Toggle(hook, after, before), before, after)
               ELSE Store(Store(hook, after, "prev", {h}), before, "next", {h}))
              EXCEPT ![h] = Node(l, before, after)]
  /\ list' = [list EXCEPT ![l] = [head |-> IF before = NULL THEN {h} ELSE @.head,
                                  tail |-> IF after = NULL THEN {h} ELSE @.tail,
                                  size |-> @.size + 1]]
  /\ UNCHANGED undefined

ListAppend(l, h) == Free(h) /\ Link(l, h, list[l].tail, NULL)

ListPrepend(l, h) == Free(h) /\ Link(l, h, NULL, list[l].head)

ListInsert(l, h, position) ==
  /\ Free(h)
  /\ Link(l, h,
          IF position.value = NULL THEN list[l].tail
          ELSE IF MemoryOptimized THEN position.prev
          ELSE hook[Deref(position.value)].prev,
          position.value)

ListRinsert(l, h, position) ==
  /\ Free(h)
  /\ Link(l, h,
          position.value,
          IF position.value = NULL THEN list[l].head
          ELSE IF MemoryOptimized THEN position.prev
          ELSE hook[Deref(position.value)].next)

-----------------------------------------------------------------------------
(***************************************************************************)
(* Removal.                                                                *)
(***************************************************************************)
\* Mutant: the last element is not treated on its own.
NeighboursNoLast(l, it) ==
  LET h == hook[Deref(it.value)] IN
  IF ~ MemoryOptimized THEN <<h.prev, h.next>>
  ELSE IF it.value = list[l].head THEN <<NULL, h.p>>
  ELSE <<it.prev, PtrXor(h.p, it.prev)>>

\* The elements before and after the one `it' points at, as dfk_list_erase
\* works them out.
Neighbours(l, it) ==
  LET h == hook[Deref(it.value)]
      first == it.value = list[l].head
      last == it.value = list[l].tail
  IN
  IF ~ MemoryOptimized THEN <<h.prev, h.next>>
  ELSE IF first THEN <<NULL, IF last THEN NULL ELSE h.p>>
  ELSE IF last THEN <<h.p, NULL>>
  ELSE <<it.prev, PtrXor(h.p, it.prev)>>

\* Mutant: the list's tail is left alone.
UnlinkKeepsTail(l, it, before, after) ==
  LET Join(hooks, p, f, q) ==
        IF p = NULL THEN hooks
        ELSE Store(hooks, p, IF MemoryOptimized THEN "p" ELSE f,
                   IF MemoryOptimized THEN PtrXor(hooks[Deref(p)].p, PtrXor(it.value, q)) ELSE q)
  IN
  /\ hook' = [Join(Join(hook, after, "prev", before), before, "next", after)
              EXCEPT ![Deref(it.value)] = ErasedHook]
  /\ list' = [list EXCEPT ![l] = [head |-> IF before = NULL THEN after ELSE @.head,
                                  tail |-> @.tail,
                                  size |-> @.size - 1]]
  /\ UNCHANGED undefined

Unlink(l, it, before, after) ==
  LET Join(hooks, p, f, q) ==
        IF p = NULL THEN hooks
        ELSE Store(hooks, p, IF MemoryOptimized THEN "p" ELSE f,
                   IF MemoryOptimized THEN PtrXor(hooks[Deref(p)].p, PtrXor(it.value, q)) ELSE q)
  IN
  /\ hook' = [Join(Join(hook, after, "prev", before), before, "next", after)
              EXCEPT ![Deref(it.value)] = ErasedHook]
  /\ list' = [list EXCEPT ![l] = [head |-> IF before = NULL THEN after ELSE @.head,
                                  tail |-> IF after = NULL THEN before ELSE @.tail,
                                  size |-> @.size - 1]]
  /\ UNCHANGED undefined

ListErase(l, it) ==
  LET before == Neighbours(l, it)[1]
      after == Neighbours(l, it)[2]
  IN
  /\ ~ undefined /\ list[l].size > 0
  /\ \/ /\ {before, after} \subseteq {NULL} \cup {{h} : h \in Hooks}
        /\ Unlink(l, it, before, after)
     \/ /\ ~ {before, after} \subseteq {NULL} \cup {{h} : h \in Hooks}
        /\ undefined' = TRUE
        /\ UNCHANGED <<list, hook>>

\* The forward iterator is made of the addresses in the reverse iterator.
ListRerase(l, rit) == ListErase(l, [prev |-> PtrXor(rit.prev, rit.value), value |-> rit.value])

ListPopFront(l) == list[l].head # NULL /\ ListErase(l, Begin(l))

ListPopBack(l) == list[l].tail # NULL /\ ListRerase(l, RBegin(l))

ListClear(l) ==
  /\ ~ undefined
  /\ hook' = [h \in Hooks |-> IF h \in ToSet(Forward(l)) THEN ErasedHook ELSE hook[h]]
  /\ list' = [list EXCEPT ![l] = EmptyList]
  /\ UNCHANGED undefined

-----------------------------------------------------------------------------
(***************************************************************************)
(* Whole lists.                                                            *)
(***************************************************************************)
\* dfk__list_adjust_hooks for the hooks of list l, which now belong to m.
Adjusted(hooks, l, m) ==
  [h \in Hooks |-> IF h \in ToSet(Forward(l)) THEN [hooks[h] EXCEPT !.list = m] ELSE hooks[h]]

\* What dst held before is dropped; its hooks still say that they are in dst.
ListMove(src, dst) ==
  /\ ~ undefined /\ src # dst
  /\ list' = [list EXCEPT ![src] = EmptyList, ![dst] = list[src]]
  /\ hook' = Adjusted(hook, src, dst)
  /\ UNCHANGED undefined

ListSwap(lhs, rhs) ==
  /\ ~ undefined /\ lhs # rhs
  /\ list' = [list EXCEPT ![lhs] = list[rhs], ![rhs] = list[lhs]]
  /\ hook' = Adjusted(Adjusted(hook, lhs, rhs), rhs, lhs)
  /\ UNCHANGED undefined

\* The owner of a hook that is in no list makes it usable again.
ListHookInit(h) ==
  /\ ~ undefined /\ \A l \in Lists : h \notin ToSet(Forward(l))
  /\ hook' = [hook EXCEPT ![h] = FreshHook]
  /\ UNCHANGED <<list, undefined>>

ListInit ==
  /\ layout \in {"links", "xor"}
  /\ list = [l \in Lists |-> EmptyList]
  /\ hook = [h \in Hooks |-> FreshHook]
  /\ undefined = FALSE
  /\ ADTInit

Step ==
  \/ \E h \in Hooks : ListHookInit(h) /\ UNCHANGED seq
  \/ \E l \in Lists :
       \/ ListPopFront(l) /\ PopFront(l)
       \/ ListPopBack(l) /\ PopBack(l)
       \/ ListClear(l) /\ Discard(l)
       \/ \E m \in Lists :
            \/ ListMove(l, m) /\ MoveAll(l, m)
            \/ ListSwap(l, m) /\ Exchange(l, m)
       \/ \E h \in Hooks :
            \/ ListAppend(l, h) /\ PushBack(l, h)
            \/ ListPrepend(l, h) /\ PushFront(l, h)
            \/ ListInsert(l, h, End) /\ PushBack(l, h)
            \/ ListRinsert(l, h, End) /\ PushFront(l, h)
            \/ \E g \in ToSet(seq[l]) :
                 \/ ListInsert(l, h, ItFromValue(l, g)) /\ InsertBefore(l, h, g)
                 \/ ListRinsert(l, h, RItFromValue(l, g)) /\ InsertAfter(l, h, g)
       \/ \E h \in ToSet(seq[l]) :
            \/ ListErase(l, ItFromValue(l, h)) /\ Delete(l, h)
            \/ ListRerase(l, RItFromValue(l, h)) /\ Delete(l, h)

ListNext == Step /\ UNCHANGED layout

-----------------------------------------------------------------------------
(***************************************************************************)
(* Properties.                                                             *)
(***************************************************************************)
Pointer == {NULL, {DEADBEEF}} \cup {{h} : h \in Hooks}

\* The XOR of two pointers is a set of hooks.
HookType ==
  IF MemoryOptimized THEN [p : SUBSET (Hooks \cup {DEADBEEF}), list : Lists \cup {NULL}]
                     ELSE [next : Pointer, prev : Pointer, list : Lists \cup {NULL}]

\* Every variable has its type.
ListTypeOK ==
  /\ layout \in {"links", "xor"} /\ undefined \in BOOLEAN
  /\ DOMAIN list = Lists
  /\ \A l \in Lists : list[l] \in [head : Pointer, tail : Pointer, size : 0 .. Cardinality(Hooks)]
  /\ DOMAIN hook = Hooks
  /\ \A h \in Hooks : hook[h] \in HookType

\* After any sequence of operations, iterating forward visits what list.h says the
\* list contains, in that order, iterating backward visits it in the opposite order,
\* _size counts it, and in debug builds every hook knows the list it is in, so that
\* dfk_list_append rejects a hook that is in one.
IterationCorrect ==
  ~ undefined => \A l \in Lists : /\ Forward(l) = seq[l]
                                  /\ Backward(l) = Reverse(seq[l])
                                  /\ list[l].size = Len(seq[l])
                                  /\ \A h \in ToSet(seq[l]) : hook[h].list = l

(***************************************************************************)
(* The inductive invariant behind these properties: the pointers that a    *)
(* list and its hooks hold are those of the sequence.                      *)
(***************************************************************************)
Ptr(q, i) == IF i \in DOMAIN q THEN {q[i]} ELSE NULL

Chain(hooks, l, q) == \A i \in DOMAIN q : hooks[q[i]] = Node(l, Ptr(q, i - 1), Ptr(q, i + 1))

HeaderOf(q) == [head |-> Ptr(q, 1), tail |-> Ptr(q, Len(q)), size |-> Len(q)]

Linked(lists, hooks, l, q) ==
  /\ q \in Seq(Hooks) /\ IsInjective(q)
  /\ lists[l] = HeaderOf(q)
  /\ Chain(hooks, l, q)

ListInv ==
  /\ ListTypeOK /\ DOMAIN seq = Lists
  /\ ~ undefined => \A l \in Lists : Linked(list, hook, l, seq[l])

\* "Erase element pointed by `rit' from the list" (dfk_list_rerase, list.h) is not
\* true of the XOR layout, where the address before the element is computed from
\* the wrong operands.  Nothing else goes wrong: an address where there is no hook
\* is followed only when an element between two others is erased.
InvalidOnlyInMiddle ==
  [][undefined' # undefined =>
       /\ MemoryOptimized
       /\ \E l \in Lists : \E i \in 2 .. Len(seq[l]) - 1 :
            seq' = [seq EXCEPT ![l] = SubSeq(@, 1, i - 1) \o SubSeq(@, i + 1, Len(@))]]_listVars
=============================================================================
