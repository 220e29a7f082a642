---------------------------- MODULE JsonForest ----------------------------
(* What cJSON promises to its callers, without a pointer: items form a forest; the *)
(* items of an array or object are a sequence; an item is deleted with all below it. *)
EXTENDS Naturals, FiniteSets, Sequences, SequencesExt, TLC

CONSTANT NoName

VARIABLES forest    \* item -> [kind, text, name, ref, kids]

RECURSIVE Tree(_, _)
\* The value of item i: what remains of it when the identity of its items is forgotten.
Tree(f, i) == [kind |-> f[i].kind, text |-> f[i].text, name |-> f[i].name,
               kids |-> [k \in DOMAIN f[i].kids |-> Tree(f, f[i].kids[k])]]

RECURSIVE Owned(_, _)
\* The items deleted with i: a reference does not own what it shows.
Owned(f, i) == {i} \cup (IF f[i].ref THEN {}
                         ELSE UNION {Owned(f, k) : k \in ToSet(f[i].kids)})

RECURSIVE AsText(_)
\* A value as its text shows it: an item without a name has the empty one there.
AsText(t) ==
  LET Shown(k) == IF t.kind = "Array" THEN NoName ELSE IF k.name = NoName THEN <<>> ELSE k.name
  IN [t EXCEPT !.kids = [n \in DOMAIN t.kids |->
                           AsText([t.kids[n] EXCEPT !.name = Shown(t.kids[n])])]]

Items == DOMAIN forest
Owner(c, i) == ~forest[c].ref /\ i \in ToSet(forest[c].kids)
Loose == {i \in Items : ~\E c \in Items : Owner(c, i)}
Without(f, gone) == [i \in DOMAIN f \ gone |-> f[i]]

---------------------------------------------------------------------------
Init == forest = <<>>

New == DOMAIN forest' \ Items
Leaf(i) == forest'[i].kids = <<>> /\ ~forest'[i].ref

Create == \E i \in New : Leaf(i) /\ forest' = (i :> forest'[i]) @@ forest

AddNew == \E c \in Items, i \in New :
  Leaf(i) /\ forest' = (i :> forest'[i]) @@ [forest EXCEPT ![c].kids = Append(@, i)]

\* A loose item goes to place w of c; in an object w is past the last, and it gets a name.
Add == \E c \in Items, i \in Loose : \E w \in 1..Len(forest[c].kids) + 1 :
  /\ Items = DOMAIN forest'
  /\ IF forest[c].kind = "Object" THEN w = Len(forest[c].kids) + 1
     ELSE forest'[i].name = forest[i].name
  /\ forest' = [forest EXCEPT ![c].kids = InsertAt(@, w, i), ![i].name = forest'[i].name]

Refer == \E c \in Items, i \in Items, r \in New :
  forest' = (r :> [forest[i] EXCEPT !.ref = TRUE, !.name = forest'[r].name])
            @@ [forest EXCEPT ![c].kids = Append(@, r)]

Detach == \E c \in Items : \E w \in DOMAIN forest[c].kids :
  forest' = [forest EXCEPT ![c].kids = RemoveAt(@, w)]

\* Of the items with one name the first is deleted.
DeleteNamed == \E c \in Items : \E w \in DOMAIN forest[c].kids :
  /\ \A v \in 1..w : (forest[forest[c].kids[v]].name = forest[forest[c].kids[w]].name) <=> v = w
  /\ forest' = Without([forest EXCEPT ![c].kids = RemoveAt(@, w)], Owned(forest, forest[c].kids[w]))

Replace == \E c \in Items, i \in Loose : \E w \in DOMAIN forest[c].kids :
  forest' = Without([forest EXCEPT ![c].kids[w] = i], Owned(forest, forest[c].kids[w]))

Delete == \E i \in Loose : forest' = Without(forest, Owned(forest, i))

\* A new tree next to the old ones that has the value of item i, or of i alone (shallow),
\* or the value i has as text.
Copy == \E i \in Items, c \in New :
  /\ DOMAIN forest' = Items \cup Owned(forest', c)
  /\ \A old \in Items : forest'[old] = forest[old]
  /\ \A new \in Owned(forest', c) : ~forest'[new].ref
  /\ Tree(forest', c) \in
       {Tree(forest, i), [Tree(forest, i) EXCEPT !.kids = <<>>],
        [AsText(Tree(forest, i)) EXCEPT !.name = NoName]}

Next == Create \/ AddNew \/ Add \/ Refer \/ Detach \/ DeleteNamed \/ Replace \/ Delete \/ Copy

Spec == Init /\ [][Next]_forest
===========================================================================
