---------------------------- MODULE OrderedTable ----------------------------
(***************************************************************************)
(* What the hash tables of the library promise to those who walk them: the *)
(* entries in the order they were added, and a cursor that a deletion      *)
(* moves to the entry behind, so that a walk that deletes on its way meets *)
(* every entry once.  A search moves the cursor as well.                   *)
(***************************************************************************)
EXTENDS Sequences, Naturals, Lists

CONSTANTS Key, Element, NULL,
          Nowhere   \* the cursor before the first walk, and after Clear

VARIABLES order,    \* the keys
          element,  \* key -> element, NULL for no entry
          cursor

tableVars == <<order, element, cursor>>

Entries == {order[i] : i \in DOMAIN order}
At(i) == IF i \in DOMAIN order THEN order[i] ELSE NULL
Place(k) == CHOOSE i \in DOMAIN order : order[i] = k

Init == order = <<>> /\ element = [k \in Key |-> NULL] /\ cursor = Nowhere

Goto(to) == cursor' = to /\ UNCHANGED <<order, element>>

Add(k, e) ==
  /\ k \notin Entries
  /\ order' = Append(order, k) /\ element' = [element EXCEPT ![k] = e]
  /\ UNCHANGED cursor

Remove(k) ==
  /\ k \in Entries
  /\ order' = Selected(order, Key \ {k})
  /\ element' = [element EXCEPT ![k] = NULL]
  /\ cursor' = At(Place(k) + 1)

Clear == order' = <<>> /\ element' = [k \in Key |-> NULL] /\ cursor' = Nowhere

Next ==
  \/ Goto(At(1)) \/ Goto(At(Len(order)))
  \/ cursor \in Entries /\ (Goto(At(Place(cursor) + 1)) \/ Goto(At(Place(cursor) - 1)))
  \/ \E k \in Key : Goto(IF k \in Entries THEN k ELSE NULL) \/ Remove(k) \/ \E e \in Element : Add(k, e)
  \/ Clear

Spec == Init /\ [][Next]_tableVars
=============================================================================
