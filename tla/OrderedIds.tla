----------------------------- MODULE OrderedIds -----------------------------
(***************************************************************************)
(* The engine keeps its read sources in vectors of distinct ids: immutable *)
(* memtables by epoch id, segments by segment id, both newest first, and   *)
(* the manifest's segment list.  Such a vector is modelled by the set of   *)
(* its ids and its "before" relation: <<x, y>> \in l.before says that x    *)
(* stands in front of y.  insert(0, x), push(x) and retain are then set    *)
(* operations, and the first source with an opinion on a record is found   *)
(* with a quantifier, not by a walk over indices.                          *)
(***************************************************************************)

EmptyIds == [ids |-> {}, before |-> {}]

\* Vec::insert(0, x): x takes the place in front of every other id.
PushFront(l, x) ==
    [ids    |-> l.ids \cup {x},
     before |-> l.before \cup {<<x, y>> : y \in l.ids \ {x}}]

\* Vec::push(x): x takes the place behind every other id.
PushBack(l, x) ==
    [ids    |-> l.ids \cup {x},
     before |-> l.before \cup {<<y, x>> : y \in l.ids \ {x}}]

\* Vec::retain(|id| !S.contains(id)), and Vec::remove of the one id in S.
Without(l, S) ==
    [ids    |-> l.ids \ S,
     before |-> {p \in l.before : p[1] \notin S /\ p[2] \notin S}]

\* iter().rev()
Reversed(l) == [ids |-> l.ids, before |-> {<<p[2], p[1]>> : p \in l.before}]

\* iter().find / iter().rposition: the members of S nothing of S stands in front of / behind.
FirstOf(l, S) == {x \in l.ids \cap S : \A y \in l.ids \cap S : <<y, x>> \notin l.before}
LastOf(l, S)  == {x \in l.ids \cap S : \A y \in l.ids \cap S : <<x, y>> \notin l.before}

\* The vectors over a set of ids.
IdLists(Id) == [ids : SUBSET Id, before : SUBSET (Id \X Id)]
=============================================================================
