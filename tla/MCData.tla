------------------------------- MODULE MCData -------------------------------
(***************************************************************************)
(* The data structures and the URL functions for TLC.  They share nothing, *)
(* so `part' chooses which of them a behaviour exercises; the others stay  *)
(* as they are created.                                                    *)
(***************************************************************************)
EXTENDS List, Arena, Sponge, Strmap, UrlProperties

VARIABLE part

vars == <<part, listVars, arenaVars, spongeVars, strmapVars, urlVars>>

Init ==
  /\ part \in {"list", "arena", "sponge", "strmap", "url"}
  /\ ListInit /\ ArenaInit /\ SpongeInit /\ StrmapInit /\ UrlInit
  /\ part # "list" => layout = "links"

Next ==
  /\ \/ part = "list" /\ ListNext /\ UNCHANGED <<arenaVars, spongeVars, strmapVars, urlVars>>
     \/ part = "arena" /\ ArenaNext /\ UNCHANGED <<listVars, spongeVars, strmapVars, urlVars>>
     \/ part = "sponge" /\ SpongeNext /\ UNCHANGED <<listVars, arenaVars, strmapVars, urlVars>>
     \/ part = "strmap" /\ StrmapNext /\ UNCHANGED <<listVars, arenaVars, spongeVars, urlVars>>
     \/ part = "url" /\ UrlNext /\ UNCHANGED <<listVars, arenaVars, spongeVars, strmapVars>>
  /\ UNCHANGED part

Spec == Init /\ [][Next]_vars

\* Hooks are interchangeable.
Symmetry == Permutations(Hooks)

\* Keys of several lengths, none a prefix of another; two items share a key.
PrefixFree ==
  <<<<1, 1>>, <<1, 2, 1>>, <<1, 2, 2>>, <<1, 3>>, <<2>>, <<3, 1>>, <<3, 2>>, <<3, 3>>,
    <<4, 1>>, <<4, 2, 1>>, <<4, 2, 2>>, <<5>>, <<2>>>>

\* Keys such as Accept and Accept-Encoding.
NestedKeys == <<<<1>>, <<1, 2>>>>

ItemsOf(keys) == DOMAIN keys
KeysOf(keys) == {keys[i] : i \in DOMAIN keys}
FreeItems == ItemsOf(PrefixFree)
FreeKeys == KeysOf(PrefixFree) \cup {<<1, 4>>, <<6>>}
PrefixItems == ItemsOf(NestedKeys)
PrefixKeys == KeysOf(NestedKeys)
=============================================================================
