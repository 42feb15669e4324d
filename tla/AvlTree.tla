------------------------------ MODULE AvlTree ------------------------------
(***************************************************************************)
(* The intrusive AVL tree of avltree.c at the level of its pointers.  The  *)
(* code writes every case twice, once per side; here the side is a         *)
(* parameter.  Strmap instantiates this module.                            *)
(*                                                                         *)
(* A comparison orders nodes: Cmp(i, e) < 0 sends e to the left of i.  The *)
(* `_tree' field that debug builds check, and never assign, is left out.   *)
(*                                                                         *)
(* `members' is a history variable: the nodes that were inserted and not   *)
(* erased.  No operation reads it; callers erase members only.             *)
(***************************************************************************)
EXTENDS Integers, FiniteSets, Sequences, SequencesExt

CONSTANTS
  Nodes,       \* dfk_avltree_hook_t objects
  Cmp(_, _),   \* tree->_cmp
  NULL

VARIABLES
  root,   \* tree->_root
  size,   \* tree->_size
  hook,   \* the links and the balance of every node
  members

vars == <<root, size, hook, members>>

Sides == {"left", "right"}
Other(s) == IF s = "left" THEN "right" ELSE "left"
Sign(s) == IF s = "left" THEN -1 ELSE 1      \* what a child on side s adds to _bal
FreshHook == [left |-> NULL, right |-> NULL, parent |-> NULL, bal |-> 0]

\* Which child of its parent a node is, in the heap H.
SideOf(H, n) == IF H[H[n].parent].left = n THEN "left" ELSE "right"

SetParent(H, n, p) == IF n = NULL THEN H ELSE [H EXCEPT ![n].parent = p]

-----------------------------------------------------------------------------
(***************************************************************************)
(* Rotations of the node `prime', whose balance is 2 or -2.  The node that *)
(* takes its place is Lifted(H, prime, double).                            *)
(***************************************************************************)
HeavySide(H, prime) == IF H[prime].bal = 2 THEN "right" ELSE "left"

SingleRot(H, prime) ==
  LET s == HeavySide(H, prime)
      x == H[prime][s]
      b == H[x][Other(s)]
  IN  [SetParent(H, b, prime) EXCEPT
         ![prime][s] = b, ![prime].parent = x, ![prime].bal = Sign(s) - H[x].bal,
         ![x][Other(s)] = prime, ![x].bal = H[x].bal - Sign(s)]

DoubleRot(H, prime) ==
  LET s == HeavySide(H, prime)
      b == H[prime][s]
      x == H[b][Other(s)]
      near == H[x][Other(s)]
      far == H[x][s]
  IN  [SetParent(SetParent(H, near, prime), far, b) EXCEPT
         ![prime][s] = near, ![prime].parent = x,
         ![prime].bal = IF H[x].bal = Sign(s) THEN -Sign(s) ELSE 0,
         ![b][Other(s)] = far, ![b].parent = x,
         ![b].bal = IF H[x].bal = -Sign(s) THEN Sign(s) ELSE 0,
         ![x][Other(s)] = prime, ![x][s] = b, ![x].bal = 0]

\* Rotate prime and hang the result where it was (dfk__avltree_promote_prime);
\* a tree is a heap and a root.
Rotated(t, prime) ==
  LET s == HeavySide(t.hook, prime)
      c == t.hook[prime][s]
      double == t.hook[c].bal = -Sign(s)
      top == IF double THEN t.hook[c][Other(s)] ELSE c
      p == t.hook[prime].parent
      H == [(IF double THEN DoubleRot(t.hook, prime) ELSE SingleRot(t.hook, prime))
            EXCEPT ![top].parent = p]
  IN  [root |-> IF p = NULL THEN top ELSE t.root,
       hook |-> IF p = NULL THEN H ELSE [H EXCEPT ![p][SideOf(t.hook, prime)] = top],
       top  |-> top]

Settled(t, prime) == IF t.hook[prime].bal \in {-2, 2} THEN Rotated(t, prime) ELSE t

-----------------------------------------------------------------------------
(***************************************************************************)
(* dfk_avltree_insert                                                      *)
(***************************************************************************)
Toward(i, e) == IF Cmp(i, e) < 0 THEN "left" ELSE "right"

\* The nodes the search for e goes through.
Path(e) ==
  LET from[i \in Nodes] ==
        LET c == hook[i][Toward(i, e)] IN
        <<i>> \o (IF Cmp(i, e) = 0 \/ c = NULL THEN <<>> ELSE from[c])
  IN  IF root = NULL THEN <<>> ELSE from[root]

\* Index of prime: the last node on the path that is not in balance, or the root.
PrimeIndex(path) ==
  IF \E k \in DOMAIN path : hook[path[k]].bal # 0
  THEN SelectLastInSeq(path, LAMBDA n : hook[n].bal # 0)
  ELSE 1

\* The heap after e is attached and the balance of the nodes from prime on is
\* updated.
Attached(path, e) ==
  LET last == path[Len(path)]
      below == {path[k] : k \in PrimeIndex(path) .. Len(path)}
      H == [n \in Nodes |-> IF n \in below
                            THEN [hook[n] EXCEPT !.bal = @ + Sign(Toward(n, e))]
                            ELSE hook[n]]
  IN  [H EXCEPT ![last][Toward(last, e)] = e, ![e].parent = last]

\* dfk_avltree_insert returns e, or NULL if an equal node is in the tree.
AvltreeInsert(e) ==
  /\ hook[e] = FreshHook /\ root # e
  /\ \E path \in {Path(e)} :
       \/ /\ path = <<>>
          /\ root' = e /\ size' = 1 /\ UNCHANGED hook
       \/ /\ path # <<>> /\ Cmp(Last(path), e) = 0
          /\ UNCHANGED <<root, size, hook>>
       \/ /\ path # <<>> /\ Cmp(Last(path), e) # 0
          /\ \E t \in {Settled([root |-> root, hook |-> Attached(path, e)],
                                path[PrimeIndex(path)])} :
               root' = t.root /\ hook' = t.hook
          /\ size' = size + 1

-----------------------------------------------------------------------------
(***************************************************************************)
(* dfk_avltree_erase                                                       *)
(***************************************************************************)
Leftmost(n) == LET down[m \in Nodes] == IF hook[m].left = NULL THEN m ELSE down[hook[m].left]
               IN  down[n]

\* The three cases of dfk_avltree_erase: the node `newe' that takes e's place,
\* the heap in which its subtrees are e's, and where to start rebalancing: a
\* node was lost from side `from' of `prime'.
Unlinked(e) ==
  LET r == hook[e].right
      a == hook[e].left
      y == Leftmost(r)
      x == hook[y].parent
      z == hook[y].right
  IN
  IF r = NULL
    THEN [newe |-> a, prime |-> hook[e].parent, hook |-> hook,
          from |-> IF hook[e].parent = NULL THEN NULL ELSE SideOf(hook, e)]
  ELSE IF hook[r].left = NULL
    THEN [newe |-> r, prime |-> r, from |-> "right",
          hook |-> [SetParent(hook, a, r) EXCEPT ![r].left = a, ![r].bal = hook[e].bal]]
  ELSE [newe |-> y, prime |-> x, from |-> "left",
        hook |-> [SetParent(hook, z, x) EXCEPT
                    ![y].left = a, ![y].right = r, ![y].bal = hook[e].bal,
                    ![r].parent = y, ![a].parent = y, ![x].left = z]]

\* The tree in which newe has e's place.
Replaced(e) ==
  LET u == Unlinked(e)
      p == hook[e].parent
      H == SetParent(u.hook, u.newe, p)
  IN  [root |-> IF p = NULL THEN u.newe ELSE root,
       hook |-> IF p = NULL THEN H ELSE [H EXCEPT ![p][SideOf(hook, e)] = u.newe],
       prime |-> u.prime, from |-> u.from]

\* Mutant: a rotation is taken to have shortened the subtree in every case.
RebalanceGoesOn(t) ==
  LET d == -Sign(t.from)
      b == t.hook[t.prime].bal + d
      H == [t.hook EXCEPT ![t.prime].bal = b]
      rot == Rotated([root |-> t.root, hook |-> H], t.prime)
      now == IF b = 2 * d THEN rot ELSE [root |-> t.root, hook |-> H, top |-> t.prime]
      p == now.hook[now.top].parent
  IN  [root |-> now.root, hook |-> now.hook,
       prime |-> IF b = d THEN NULL ELSE p,
       from |-> IF p = NULL THEN NULL ELSE SideOf(now.hook, now.top)]

\* One iteration of the loop: side `from' of prime got shorter.  It ends when
\* the height of the subtree is what it was before.
Rebalance(t) ==
  LET d == -Sign(t.from)
      b == t.hook[t.prime].bal + d
      H == [t.hook EXCEPT ![t.prime].bal = b]
      same == \/ b = d
              \/ b = 2 * d /\ t.hook[t.hook[t.prime][Other(t.from)]].bal = 0
      rot == Rotated([root |-> t.root, hook |-> H], t.prime)
      now == IF b = 2 * d THEN rot ELSE [root |-> t.root, hook |-> H, top |-> t.prime]
      p == now.hook[now.top].parent
  IN  [root |-> now.root, hook |-> now.hook,
       prime |-> IF same THEN NULL ELSE p,
       from |-> IF p = NULL THEN NULL ELSE SideOf(now.hook, now.top)]

Rebalanced(start) ==
  LET after[n \in 0 .. Cardinality(Nodes)] ==
        IF n = 0 THEN start
        ELSE CHOOSE u \in {IF t.prime = NULL THEN t ELSE Rebalance(t) : t \in {after[n - 1]}} : TRUE
  IN  after[Cardinality(Nodes)]

\* The links of e, which dfk_avltree_erase leaves as they are, are not used
\* before the owner calls dfk_avltree_hook_init; that is part of this action.
AvltreeErase(e) ==
  /\ \E t \in {Rebalanced(Replaced(e))} :
       /\ root' = t.root
       /\ hook' = [t.hook EXCEPT ![e] = FreshHook]
  /\ size' = size - 1

-----------------------------------------------------------------------------
(***************************************************************************)
(* dfk_avltree_find and the iterator.                                      *)
(***************************************************************************)
\* cmp(i) compares node i with what is looked for.
AvltreeFind(cmp(_)) ==
  LET find[i \in Nodes \cup {NULL}] ==
        IF i = NULL \/ cmp(i) = 0 THEN i
        ELSE find[hook[i][IF cmp(i) < 0 THEN "left" ELSE "right"]]
  IN  find[root]

AvltreeBegin == IF root = NULL THEN NULL ELSE Leftmost(root)

\* Mutant: the parent is next even if n is its right child.
ItNextNoClimb(n) == IF hook[n].right # NULL THEN Leftmost(hook[n].right) ELSE hook[n].parent

AvltreeItNext(n) ==
  LET up[m \in Nodes] == IF hook[m].parent # NULL /\ hook[hook[m].parent].right = m
                         THEN up[hook[m].parent] ELSE hook[m].parent
  IN  IF hook[n].right # NULL THEN Leftmost(hook[n].right) ELSE up[n]

\* The nodes a loop from begin to end visits.
Visited ==
  LET upto[k \in 0 .. Cardinality(Nodes)] ==
        IF k = 0 THEN <<AvltreeBegin>>
        ELSE CHOOSE v \in {IF Last(w) = NULL THEN w ELSE Append(w, AvltreeItNext(Last(w)))
                             : w \in {upto[k - 1]}} : TRUE
  IN  SelectSeq(upto[Cardinality(Nodes)], LAMBDA n : n # NULL)

-----------------------------------------------------------------------------
Init ==
  /\ root = NULL /\ size = 0
  /\ hook = [n \in Nodes |-> FreshHook]
  /\ members = {}

\* What is in the tree after the insertion of e, if nodes are told apart by Same.
Inserted(e, Same(_, _)) ==
  members' = IF \E m \in members : Same(m, e) THEN members ELSE members \cup {e}

-----------------------------------------------------------------------------
(***************************************************************************)
(* Properties.                                                             *)
(***************************************************************************)
\* Every variable has its type, and every balance factor is -1, 0 or 1.
AvlTypeOK ==
  /\ root \in Nodes \cup {NULL}
  /\ size \in 0 .. Cardinality(Nodes)
  /\ hook \in [Nodes -> [left : Nodes \cup {NULL}, right : Nodes \cup {NULL},
                         parent : Nodes \cup {NULL}, bal : {-1, 0, 1}]]
  /\ members \subseteq Nodes

\* dfk__avltree_check_invariants: parents and children agree, and _bal is the
\* difference of the heights of the subtrees.
Balanced ==
  LET height[n \in Nodes \cup {NULL}] ==
        IF n = NULL THEN 0
        ELSE LET l == height[hook[n].left]
                 r == height[hook[n].right]
             IN  1 + (IF l < r THEN r ELSE l)
  IN
  /\ root # NULL => hook[root].parent = NULL
  /\ \A n \in members :
       /\ hook[n].bal = height[hook[n].right] - height[hook[n].left]
       /\ \A s \in Sides : hook[n][s] # NULL => hook[hook[n][s]].parent = n

\* The iterator visits the members of the tree in the order of the comparison,
\* each once, whatever was inserted and erased before, and _size counts them.
VisitsMembers ==
  \E v \in {Visited} :
    /\ ToSet(v) = members /\ Len(v) = Cardinality(members) /\ size = Cardinality(members)
    /\ \A i, j \in DOMAIN v : i < j => Cmp(v[i], v[j]) > 0
=============================================================================
