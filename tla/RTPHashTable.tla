---------------------------- MODULE RTPHashTable ----------------------------
(***************************************************************************)
(* RTPHashTable, which holds destinations and multicast groups: written    *)
(* out again with the element itself for its key.                          *)
(***************************************************************************)
CONSTANTS Element, NULL, Wild, HashSize, GetIndex(_)

VARIABLES table, hashnext, hashprev, listnext, listprev,
          firsthashelem, lasthashelem, curhashelem, element

Keyed == INSTANCE RTPKeyHashTable WITH Key <- Element

Init == Keyed!Init

GotoElement(e)       == Keyed!GotoElement(e)
HasElement(e)        == Keyed!HasElement(e)
DeleteCurrentElement == Keyed!DeleteCurrentElement
DeleteElement(e)     == Keyed!DeleteElement(e)
Clear                == Keyed!Clear
AddElement(e)        == Keyed!AddElement(e, e)
Walk                 == \/ Keyed!GotoFirstElement \/ Keyed!GotoLastElement
                        \/ Keyed!GotoNextElement \/ Keyed!GotoPreviousElement

Next ==
  \/ Walk \/ DeleteCurrentElement \/ Clear
  \/ \E e \in Element : GotoElement(e) \/ DeleteElement(e) \/ AddElement(e)
=============================================================================
