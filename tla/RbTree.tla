------------------------------- MODULE RbTree -------------------------------
(***************************************************************************)
(* The red-black tree of inc/sys/tree.h, as RB_GENERATE makes it.  A tree  *)
(* is its root and the entries of its nodes, pointers included; the nodes  *)
(* are the keys themselves, as a tree holds one node of a key.  Left and   *)
(* right are mirror images in the code: an operator has a side.            *)
(***************************************************************************)
EXTENDS Integers, FiniteSets, Sequences

CONSTANTS NULL      \* the null pointer

RB_INIT == [root |-> NULL, node |-> <<>>]

\* RB_SET
RB_ENTRY(parent) == [left |-> NULL, right |-> NULL, parent |-> parent, color |-> "RED"]

RB_EMPTY(t) == t.root = NULL

Nodes(t) == DOMAIN t.node

Opposite(side) == IF side = "left" THEN "right" ELSE "left"

\* A null pointer has no color: the code tests it first.
IsRed(t, n) == n # NULL /\ t.node[n].color = "RED"
IsBlack(t, n) == n # NULL /\ t.node[n].color = "BLACK"

Paint(t, n, color) == IF n = NULL THEN t ELSE [t EXCEPT !.node[n].color = color]

RB_SET_BLACKRED(t, black, red) == Paint(Paint(t, black, "BLACK"), red, "RED")

SetParent(t, n, parent) ==
    IF n = NULL THEN t ELSE [t EXCEPT !.node[n].parent = parent]

\* What pointed to old, a child of parent or the root, points to new.
Relink(t, parent, old, new) ==
    IF parent = NULL THEN [t EXCEPT !.root = new]
    ELSE IF t.node[parent].left = old THEN [t EXCEPT !.node[parent].left = new]
    ELSE [t EXCEPT !.node[parent].right = new]

\* RB_ROTATE_LEFT and RB_ROTATE_RIGHT.
RB_ROTATE(t, side, elm) ==
    LET far    == Opposite(side)
        tmp    == t.node[elm][far]
        inner  == t.node[tmp][side]
        parent == t.node[elm].parent
        t1 == SetParent([t EXCEPT !.node[elm][far] = inner], inner, elm)
        t2 == Relink(SetParent(t1, tmp, parent), parent, elm, tmp)
    IN  SetParent([t2 EXCEPT !.node[tmp][side] = elm], elm, tmp)

-----------------------------------------------------------------------------
(* Insertion. *)

\* Mutant: the color of the uncle is not looked at.
RECURSIVE InsertColorNoUncle(_, _)
InsertColorNoUncle(t, elm) ==
    LET parent == t.node[elm].parent IN
    IF ~IsRed(t, parent) THEN Paint(t, t.root, "BLACK")
    ELSE LET gparent == t.node[parent].parent
             side == IF t.node[gparent].left = parent THEN "left" ELSE "right"
             t1 == RB_SET_BLACKRED(t, parent, gparent)
         IN  InsertColorNoUncle(RB_ROTATE(t1, Opposite(side), gparent), elm)

RECURSIVE RB_INSERT_COLOR(_, _)
RB_INSERT_COLOR(t, elm) ==
    LET parent == t.node[elm].parent IN
    IF ~IsRed(t, parent) THEN Paint(t, t.root, "BLACK")
    ELSE LET gparent == t.node[parent].parent
             side  == IF t.node[gparent].left = parent THEN "left" ELSE "right"
             uncle == t.node[gparent][Opposite(side)]
             inner == t.node[parent][Opposite(side)] = elm
             t1 == IF inner THEN RB_ROTATE(t, side, parent) ELSE t
             upper == IF inner THEN elm ELSE parent
             lower == IF inner THEN parent ELSE elm
         IN  IF IsRed(t, uncle)
             THEN RB_INSERT_COLOR(
                      RB_SET_BLACKRED(Paint(t, uncle, "BLACK"), parent, gparent), gparent)
             ELSE RB_INSERT_COLOR(
                      RB_ROTATE(RB_SET_BLACKRED(t1, upper, gparent), Opposite(side), gparent),
                      lower)

\* The walk of RB_INSERT and of RB_FIND: the last node it meets, which is the
\* one of the key if there is one.
RECURSIVE Descend(_, _, _)
Descend(t, n, key) ==
    LET next == CASE key < n -> t.node[n].left
                  [] key > n -> t.node[n].right
                  [] key = n -> NULL
    IN  IF next = NULL THEN n ELSE Descend(t, next, key)

RB_FIND(t, key) ==
    IF t.root # NULL /\ Descend(t, t.root, key) = key THEN key ELSE NULL

\* The tree after an insertion.  It stays as it is if there is a node of the key,
\* which the code returns.
RB_INSERT(t, key) ==
    LET parent == IF t.root = NULL THEN NULL ELSE Descend(t, t.root, key)
        node == [n \in Nodes(t) \cup {key} |->
                    IF n = key THEN RB_ENTRY(parent) ELSE t.node[n]]
        linked ==
            IF parent = NULL THEN [root |-> key, node |-> node]
            ELSE [root |-> t.root,
                  node |-> [node EXCEPT ![parent][IF key < parent THEN "left"
                                                  ELSE "right"] = key]]
    IN  IF parent = key THEN t ELSE RB_INSERT_COLOR(linked, key)

-----------------------------------------------------------------------------
(* Removal. *)

\* The steps of a turn are local operators, the last one first.
RECURSIVE RB_REMOVE_COLOR(_, _, _)
RB_REMOVE_COLOR(t, parent, elm) ==
    LET side == IF t.node[parent].left = elm THEN "left" ELSE "right"
        far  == Opposite(side)
        PaintRoot(u) == Paint(u, u.root, "BLACK")
        Turn(u, tmp) ==
            PaintRoot(RB_ROTATE(Paint(u, u.node[tmp][far], "BLACK"), side, parent))
        FarIsRed(u, tmp) ==
            Turn(Paint(Paint(u, tmp, u.node[parent].color), parent, "BLACK"), tmp)
        Bent(u) == FarIsRed(u, u.node[parent][far])
        \* The sibling is black.
        Sibling(u, tmp, near) ==
            CASE IsRed(u, u.node[tmp][far]) -> FarIsRed(u, tmp)
              [] ~IsRed(u, u.node[tmp][far]) /\ IsRed(u, near) ->
                   Bent(RB_ROTATE(Paint(Paint(u, near, "BLACK"), tmp, "RED"), far, tmp))
              [] OTHER -> RB_REMOVE_COLOR(Paint(u, tmp, "RED"), u.node[parent].parent, parent)
        Straight(u) ==
            Sibling(u, u.node[parent][far], u.node[u.node[parent][far]][side])
        \* A red sibling is turned into a black one.
        Black(red) ==
            IF IsRed(t, red) THEN RB_ROTATE(RB_SET_BLACKRED(t, red, parent), side, parent)
            ELSE t
    IN  IF IsRed(t, elm) \/ elm = t.root THEN Paint(t, elm, "BLACK")
        ELSE Straight(Black(t.node[parent][far]))

\* RB_MINMAX from a node on.
RECURSIVE Outermost(_, _, _)
Outermost(t, n, side) ==
    IF t.node[n][side] = NULL THEN n ELSE Outermost(t, t.node[n][side], side)

RB_MIN(t) == IF t.root = NULL THEN NULL ELSE Outermost(t, t.root, "left")

\* The node out of the tree, its one child at most in its place.
Unlink(t, elm, child) ==
    Relink(SetParent(t, child, t.node[elm].parent), t.node[elm].parent, elm, child)

\* elm takes the entry of old, and what pointed to old points to elm.
TakePlace(t, elm, old) ==
    LET e  == t.node[old]
        t1 == Relink([t EXCEPT !.node[elm] = e], e.parent, old, elm)
    IN  SetParent(SetParent(t1, e.left, elm), e.right, elm)

\* The entry of a node that was removed is freed with the node.
Forget(t, key) == [t EXCEPT !.node = [n \in Nodes(t) \ {key} |-> t.node[n]]]

\* A node with two children gives its place to its successor.
RB_REMOVE(t, old) ==
    LET Repair(u, elm, child, parent) ==
            IF t.node[elm].color = "BLACK"
            THEN RB_REMOVE_COLOR(u, IF parent = old /\ elm # old THEN elm ELSE parent, child)
            ELSE u
        Moved(u, elm) == IF elm = old THEN u ELSE TakePlace(u, elm, old)
        Remove(elm, child) ==
            Repair(Moved(Unlink(t, elm, child), elm), elm, child, t.node[elm].parent)
        l == t.node[old].left
        r == t.node[old].right
        Child(elm) == Remove(elm, IF l = NULL \/ elm # old THEN t.node[elm].right ELSE l)
    IN  Forget(Child(IF l = NULL \/ r = NULL THEN old ELSE Outermost(t, r, "left")), old)

-----------------------------------------------------------------------------
\* The first ancestor that n is not on the right of.
RECURSIVE Above(_, _)
Above(t, n) ==
    LET p == t.node[n].parent IN
    IF p # NULL /\ t.node[p].right = n THEN Above(t, p) ELSE p

RB_NEXT(t, n) ==
    IF t.node[n].right # NULL THEN Outermost(t, t.node[n].right, "left") ELSE Above(t, n)

-----------------------------------------------------------------------------
(* What makes a tree a red-black tree. *)

\* The keys from n on, as RB_NEXT enumerates them.
RECURSIVE Enumerate(_, _)
Enumerate(t, n) == IF n = NULL THEN <<>> ELSE <<n>> \o Enumerate(t, RB_NEXT(t, n))

\* The numbers of black nodes on the ways down from n.
RECURSIVE BlackHeights(_, _)
BlackHeights(t, n) ==
    IF n = NULL THEN {0}
    ELSE {h + (IF IsBlack(t, n) THEN 1 ELSE 0) :
             h \in BlackHeights(t, t.node[n].left) \cup BlackHeights(t, t.node[n].right)}

Linked(t) ==
    /\ t.root = NULL <=> Nodes(t) = {}
    /\ \A n \in Nodes(t), side \in {"left", "right"} :
          LET c == t.node[n][side] IN c # NULL => c \in Nodes(t) /\ t.node[c].parent = n
    /\ t.root # NULL => t.node[t.root].parent = NULL

Balanced(t) ==
    /\ ~IsRed(t, t.root)
    /\ \A n \in Nodes(t) :
          IsRed(t, n) => ~IsRed(t, t.node[n].left) /\ ~IsRed(t, t.node[n].right)
    /\ Cardinality(BlackHeights(t, t.root)) = 1

\* All nodes are met, once, and in the order of their keys.
Ordered(t) ==
    LET s == Enumerate(t, RB_MIN(t)) IN
    /\ Len(s) = Cardinality(Nodes(t))
    /\ \A i \in 1..(Len(s) - 1) : s[i] < s[i + 1]
=============================================================================
