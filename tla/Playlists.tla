------------------------------ MODULE Playlists ------------------------------
(***************************************************************************)
(* CMetaDataContainer and CMetaDataContainerIndexer                        *)
(* (PSPRadio/MetaDataContainer.cpp): lists of tracks, and the cursors that *)
(* walk them.  The map of containers is a sequence of sequences of tracks. *)
(* The operators are the cursor's methods; they do no checking beyond the  *)
(* code's own.                                                             *)
(*                                                                         *)
(* An indexer is a record: container is the position of m_ContainerIterator*)
(* (0 is end()), list that of the container m_ElementList belongs to (0 is *)
(* NULL), element the position of m_ElementIterator in the list (0 when it *)
(* leads into a list that was emptied; one past the last element is end()).*)
(***************************************************************************)
EXTENDS Naturals, Sequences

Indexers(lists) ==
    [container : 0..Len(lists), list : 0..Len(lists), element : Nat]

HasElements(lists, x) == x.list # 0 /\ lists[x.list] # <<>>

(* *m_ElementIterator is an element, and which one.                        *)
AtElement(lists, x) == x.list # 0 /\ x.element \in DOMAIN lists[x.list]

Element(lists, x) == lists[x.list][x.element]

(* The position n steps round a circle of m, from i.                       *)
Round(i, n, m) == ((i - 1 + n) % m) + 1

AssociateElementList(lists, x) ==
    IF lists = <<>> THEN x
    ELSE [x EXCEPT !.list = x.container, !.element = 1]

(* n calls of NextContainer or PrevContainer.                              *)
NextContainer(lists, x, n) ==
    IF lists = <<>> THEN x
    ELSE AssociateElementList(lists,
             [x EXCEPT !.container = Round(@, n, Len(lists))])

PrevContainer(lists, x, n) == NextContainer(lists, x, n * (Len(lists) - 1))

(* n calls of NextElement or PrevElement.                                  *)
NextElement(lists, x, n) ==
    IF HasElements(lists, x)
    THEN [x EXCEPT !.element = Round(@, n, Len(lists[x.list]))]
    ELSE x

PrevElement(lists, x, n) ==
    IF HasElements(lists, x)
    THEN NextElement(lists, x, n * (Len(lists[x.list]) - 1))
    ELSE x

(* Mutant: the iterator is tested before it is moved.                      *)
NextGlobalTested(lists, x) ==
    IF ~HasElements(lists, x) THEN x
    ELSE IF x.element > Len(lists[x.list]) THEN NextContainer(lists, x, 1)
    ELSE [x EXCEPT !.element = @ + 1]

(* Past the last element comes the next container, be it empty or not.     *)
NextGlobalElement(lists, x) ==
    IF ~HasElements(lists, x) THEN x
    ELSE IF x.element = Len(lists[x.list]) THEN NextContainer(lists, x, 1)
    ELSE [x EXCEPT !.element = @ + 1]

(* Before the first element comes the first one of the container before.   *)
PrevGlobalElement(lists, x) ==
    IF ~HasElements(lists, x) THEN x
    ELSE IF x.element = 1 THEN PrevContainer(lists, x, 1)
    ELSE [x EXCEPT !.element = @ - 1]

(* After Clear and a load from the directory: the selection is at the      *)
(* first container; the playing cursor's iterators still lead to the end   *)
(* of the map and into what was freed.                                     *)
SelectionOf(lists) ==
    AssociateElementList(lists,
        [container |-> IF lists = <<>> THEN 0 ELSE 1, list |-> 0, element |-> 0])

Unset == [container |-> 0, list |-> 0, element |-> 0]

=============================================================================
