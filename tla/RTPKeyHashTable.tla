-------------------------- MODULE RTPKeyHashTable --------------------------
(***************************************************************************)
(* RTPKeyHashTable, which holds the source table and the accept and ignore *)
(* lists: hash buckets, a list through all elements and a cursor, all of   *)
(* them pointers.  A HashElement is named by its key.                      *)
(*                                                                         *)
(* The cursor is not initialised, and Clear leaves it at a deleted         *)
(* element: Wild.  Nobody may move it before going somewhere.              *)
(***************************************************************************)
EXTENDS Naturals, Sequences, FiniteSets

CONSTANTS Key, Element, NULL, Wild,
          HashSize, GetIndex(_)   \* the bucket of a key

VARIABLES table, hashnext, hashprev, listnext, listprev,
          firsthashelem, lasthashelem, curhashelem, element

buckets == <<table, hashnext, hashprev>>
list    == <<listnext, listprev, firsthashelem, lasthashelem>>
tableVars == <<buckets, list, curhashelem, element>>

Init ==
  /\ table = [i \in 0 .. HashSize - 1 |-> NULL]
  /\ hashnext = [k \in Key |-> NULL] /\ hashprev = hashnext
  /\ listnext = hashnext /\ listprev = hashnext /\ element = hashnext
  /\ firsthashelem = NULL /\ lasthashelem = NULL /\ curhashelem = Wild

\* The elements on a chain of pointers, from one of them on.
From(next, k) ==
  LET step[n \in Nat] == IF n = 0 THEN k
                         ELSE IF step[n - 1] = NULL THEN NULL ELSE next[step[n - 1]]
  IN [i \in 1 .. Cardinality({n \in 0 .. Cardinality(Key) - 1 : step[n] # NULL}) |-> step[i - 1]]

Chain(i) == {From(hashnext, table[i])[j] : j \in DOMAIN From(hashnext, table[i])}

HasElement(k) == GetIndex(k) < HashSize /\ k \in Chain(GetIndex(k))

Goto(e) == curhashelem' = e /\ UNCHANGED <<buckets, list, element>>

GotoFirstElement == Goto(firsthashelem)
GotoLastElement  == Goto(lasthashelem)
HasCurrentElement == curhashelem # NULL

GotoNextElement ==
  /\ curhashelem # Wild
  /\ Goto(IF HasCurrentElement THEN listnext[curhashelem] ELSE NULL)

GotoPreviousElement ==
  /\ curhashelem # Wild
  /\ Goto(IF HasCurrentElement THEN listprev[curhashelem] ELSE NULL)

GotoElement(k) ==
  /\ GetIndex(k) < HashSize
  /\ Goto(IF HasElement(k) THEN k ELSE NULL)

\* p.next = n, where p may be no element at all.
Link(next, p, n) == IF p = NULL THEN next ELSE [next EXCEPT ![p] = n]

Delete_StopsAtPrevious(k) ==
  LET hp == hashprev[k] hn == hashnext[k] lp == listprev[k] ln == listnext[k] IN
  /\ table' = IF hp = NULL THEN [table EXCEPT ![GetIndex(k)] = hn] ELSE table
  /\ hashnext' = [Link(hashnext, hp, hn) EXCEPT ![k] = NULL]
  /\ hashprev' = [Link(hashprev, hn, hp) EXCEPT ![k] = NULL]
  /\ listnext' = [Link(listnext, lp, ln) EXCEPT ![k] = NULL]
  /\ listprev' = [Link(listprev, ln, lp) EXCEPT ![k] = NULL]
  /\ firsthashelem' = IF lp = NULL THEN ln ELSE firsthashelem
  /\ lasthashelem' = IF ln = NULL THEN lp ELSE lasthashelem
  /\ element' = [element EXCEPT ![k] = NULL]
  /\ curhashelem' = lp

\* The element k leaves its bucket and the list; the cursor is at the next.
Delete(k) ==
  LET hp == hashprev[k] hn == hashnext[k] lp == listprev[k] ln == listnext[k] IN
  /\ table' = IF hp = NULL THEN [table EXCEPT ![GetIndex(k)] = hn] ELSE table
  /\ hashnext' = [Link(hashnext, hp, hn) EXCEPT ![k] = NULL]
  /\ hashprev' = [Link(hashprev, hn, hp) EXCEPT ![k] = NULL]
  /\ listnext' = [Link(listnext, lp, ln) EXCEPT ![k] = NULL]
  /\ listprev' = [Link(listprev, ln, lp) EXCEPT ![k] = NULL]
  /\ firsthashelem' = IF lp = NULL THEN ln ELSE firsthashelem
  /\ lasthashelem' = IF ln = NULL THEN lp ELSE lasthashelem
  /\ element' = [element EXCEPT ![k] = NULL]
  /\ curhashelem' = ln

DeleteCurrentElement ==
  /\ HasCurrentElement /\ curhashelem # Wild
  /\ Delete(curhashelem)

\* DeleteElement is GotoElement and DeleteCurrentElement.
DeleteElement(k) == IF HasElement(k) THEN Delete(k) ELSE GotoElement(k)

Clear ==
  /\ table' = [i \in 0 .. HashSize - 1 |-> NULL]
  /\ hashnext' = [k \in Key |-> NULL] /\ hashprev' = hashnext'
  /\ listnext' = hashnext' /\ listprev' = hashnext' /\ element' = hashnext'
  /\ firsthashelem' = NULL /\ lasthashelem' = NULL
  /\ curhashelem' = Wild

\* At the head of its bucket and the end of the list.
AddElement(k, e) ==
  LET i == GetIndex(k) IN
  /\ i < HashSize /\ ~HasElement(k)
  /\ table' = [table EXCEPT ![i] = k]
  /\ hashnext' = [hashnext EXCEPT ![k] = table[i]]
  /\ hashprev' = Link(hashprev, table[i], k)
  /\ firsthashelem' = IF firsthashelem = NULL THEN k ELSE firsthashelem
  /\ listnext' = Link(listnext, lasthashelem, k)
  /\ listprev' = [listprev EXCEPT ![k] = lasthashelem]
  /\ lasthashelem' = k
  /\ element' = [element EXCEPT ![k] = e]
  /\ UNCHANGED curhashelem

Next ==
  \/ GotoFirstElement \/ GotoLastElement \/ GotoNextElement \/ GotoPreviousElement
  \/ DeleteCurrentElement \/ Clear
  \/ \E k \in Key : GotoElement(k) \/ DeleteElement(k) \/ \E e \in Element : AddElement(k, e)

Spec == Init /\ [][Next]_tableVars

-----------------------------------------------------------------------------
(* Properties                                                              *)

Ordered == INSTANCE OrderedTable WITH order <- From(listnext, firsthashelem),
                                      cursor <- curhashelem, Nowhere <- Wild

\* The pointers are the ordered table: whatever is added and deleted in the
\* middle of a walk, the walk goes on where it should, and a search finds
\* exactly what is in the list.
ImplementsTable == Ordered!Spec
=============================================================================
