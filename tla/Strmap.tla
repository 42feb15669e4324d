------------------------------- MODULE Strmap -------------------------------
(***************************************************************************)
(* The associative container of strmap.c: an AVL tree of items that are    *)
(* compared by their keys.  A key is a sequence of characters, none of     *)
(* which is 0.                                                             *)
(***************************************************************************)
EXTENDS Integers, FiniteSets, Sequences

CONSTANTS
  Items,   \* dfk_strmap_item_t objects
  Key,     \* the key of every item
  Keys,    \* keys that are looked up
  NoItem

ASSUME StrmapAssumption ==
  /\ IsFiniteSet(Items) /\ NoItem \notin Items
  /\ Key \in [Items -> Keys]
  /\ Keys \subseteq Seq(Nat \ {0}) /\ <<>> \notin Keys

VARIABLES root, count, node, members     \* those of the tree

\* strncmp: the difference of the first n characters.
Strncmp(a, b, n) ==
  IF \A i \in 1 .. n : a[i] = b[i] THEN 0
  ELSE LET i == CHOOSE i \in 1 .. n : a[i] # b[i] /\ \A j \in 1 .. i - 1 : a[j] = b[j]
       IN  a[i] - b[i]

\* Mutant: the last common character is not compared.
LookupCmpShort(i, key) ==
  LET tocmp == (IF Len(Key[i]) < Len(key) THEN Len(Key[i]) ELSE Len(key)) - 1
      res == Strncmp(Key[i], key, tocmp)
  IN  IF res # 0 THEN res ELSE IF Len(Key[i]) > Len(key) THEN 1 ELSE 0

LookupCmp(i, key) ==
  LET tocmp == IF Len(Key[i]) < Len(key) THEN Len(Key[i]) ELSE Len(key)
      res == Strncmp(Key[i], key, tocmp)
  IN  IF res # 0 THEN res ELSE IF Len(Key[i]) > Len(key) THEN 1 ELSE 0

StrmapCmp(i, e) == LookupCmp(i, Key[e])

Tree == INSTANCE AvlTree WITH
          Nodes <- Items, Cmp <- StrmapCmp, NULL <- NoItem, size <- count, hook <- node

strmapVars == <<root, count, node, members>>

StrmapInsert(item) == Tree!AvltreeInsert(item)

StrmapErase(item) == Tree!AvltreeErase(item)

\* The item whose value dfk_strmap_get returns; NoItem stands for {NULL, 0}.
StrmapGet(key) == Tree!AvltreeFind(LAMBDA i : LookupCmp(i, key))

StrmapInit == Tree!Init

StrmapNext ==
  \/ \E e \in Items \ members :
       StrmapInsert(e) /\ Tree!Inserted(e, LAMBDA m, n : Key[m] = Key[n])
  \/ \E e \in members : StrmapErase(e) /\ members' = members \ {e}

-----------------------------------------------------------------------------
\* The tree of the map keeps its shape (dfk__avltree_check_invariants): balance
\* factors are differences of heights and never exceed 1, and links agree.
Balanced == Tree!AvlTypeOK /\ Tree!Balanced

\* Iterating over the map visits its items in the order of their keys, each once,
\* whatever was inserted and erased before, and the size counts them.
VisitsMembers == Tree!VisitsMembers

\* "Associative container, maps dfk_buf_t to dfk_buf_t" (strmap.h): a key that
\* was inserted and not erased is found, with its own value, and no other is.
GetExact ==
  \A k \in Keys :
    LET i == StrmapGet(k) IN
    IF \E m \in members : Key[m] = k THEN i \in members /\ Key[i] = k ELSE i = NoItem
=============================================================================
