------------------------------ MODULE FreeList ------------------------------
(***************************************************************************)
(* The free list of the byte queue (bigcache/queue/freeList.go): free      *)
(* blocks of the byte array, found by size through eight lists of size     *)
(* classes and by position through a tree that holds every block under its *)
(* first and under its last byte.                                          *)
(*                                                                         *)
(* A block is the record of its fields (the code compares pointers, but no *)
(* two blocks have the same position).  The tree is a set of [pos, item]   *)
(* pairs.  A size list is a set: find may take any block that is large     *)
(* enough from the first list that has one, where the code takes the one   *)
(* that was entered first, so every choice of the code is covered.         *)
(***************************************************************************)
EXTENDS Integers

Item == [parentIndex : Int, actualSize : Int]

Block(index, size) == [parentIndex |-> index, actualSize |-> size]

First(item) == item.parentIndex
Last(item) == item.parentIndex + item.actualSize - 1

Classes == 0 .. 7

\* Exclusive upper bound of the size classes 0 .. 6.
Bound == [c \in 0 .. 6 |-> <<64, 128, 256, 512, 1024, 2048, 4096>>[c + 1]]

\* The class of a size; there is none for exactly 4096.
ClassOf(size) ==
    {c \in Classes :
        \/ c = 7 /\ size > Bound[6]
        \/ c < 7 /\ size < Bound[c] /\ (c > 0 => size >= Bound[c - 1])}

\* Where the search for a block of the size begins.
FirstClass(size) == IF ClassOf(size) = {} THEN 0 ELSE CHOOSE c \in ClassOf(size) : TRUE

newFreeList == [sizeList |-> [c \in Classes |-> {}], indexTree |-> {}]

-----------------------------------------------------------------------------
(* The tree: an ordered map from positions to items *)

TreeGet(tree, pos) == {e.item : e \in {x \in tree : x.pos = pos}}

TreeRemove(tree, pos) == {e \in tree : e.pos # pos}

TreePut(tree, pos, item) == TreeRemove(tree, pos) \union {[pos |-> pos, item |-> item]}

-----------------------------------------------------------------------------
(* The size lists *)

\* A block that no class takes is in no list.
removeFromSizeList(lists, v) ==
    IF ClassOf(v.actualSize) = {} THEN lists
    ELSE [lists EXCEPT ![FirstClass(v.actualSize)] = @ \ {v}]

putIntoSizeList(lists, item) ==
    IF ClassOf(item.actualSize) = {} THEN lists
    ELSE [lists EXCEPT ![FirstClass(item.actualSize)] = @ \union {item}]

-----------------------------------------------------------------------------
(* add *)

Link(list, item) ==
    [sizeList  |-> putIntoSizeList(list.sizeList, item),
     indexTree |-> TreePut(TreePut(list.indexTree, First(item), item), Last(item), item)]

\* With a neighbour on each side the second IF overwrites what the first one
\* has put into the new block.
add(list, index, size) ==
    LET left  == TreeGet(list.indexTree, index - 1)
        l     == CHOOSE v \in left : TRUE
        list1 == IF left = {} THEN list
                 ELSE [sizeList  |-> removeFromSizeList(list.sizeList, l),
                       indexTree |-> TreeRemove(TreeRemove(list.indexTree, index - 1), First(l))]
        item1 == IF left = {} THEN Block(index, size)
                              ELSE Block(First(l), l.actualSize + size)
        right == TreeGet(list1.indexTree, index + size)
        r     == CHOOSE v \in right : TRUE
        list2 == IF right = {} THEN list1
                 ELSE [sizeList  |-> removeFromSizeList(list1.sizeList, r),
                       indexTree |-> TreeRemove(TreeRemove(list1.indexTree, index + size), Last(r))]
        item2 == IF right = {} THEN item1 ELSE Block(index, size + r.actualSize)
    IN
    Link(list2, item2)

-----------------------------------------------------------------------------
(* find: the possible results, none if no block is large enough *)

Fitting(list, c, size) == {v \in list.sizeList[c] : size <= v.actualSize}

\* The bucket size find has arrived at when it searches class c.
buckSize(c, size) ==
    IF c = 7 THEN 4097 ELSE IF ClassOf(size) = {} THEN 0 ELSE Bound[c]

\* The entry under the last byte of a block that is used up stays in the tree.
MutTaken(list, c, v) ==
    [sizeList  |-> [list.sizeList EXCEPT ![c] = @ \ {v}],
     indexTree |-> TreeRemove(list.indexTree, First(v))]

Taken(list, c, v) ==
    [sizeList  |-> [list.sizeList EXCEPT ![c] = @ \ {v}],
     indexTree |-> TreeRemove(TreeRemove(list.indexTree, First(v)), Last(v))]

\* The size of the block is reduced, its position is not advanced.
MutShortened(list, c, v, size) ==
    LET w == Block(First(v), v.actualSize - size) IN
    [sizeList  |-> [list.sizeList EXCEPT ![c] = (@ \ {v}) \union {w}],
     indexTree |-> TreePut(TreePut(TreeRemove(list.indexTree, First(v)), Last(v), w),
                           First(w), w)]

\* The block is shortened where it is; the tree's last-byte entry points at
\* the same block.
Shortened(list, c, v, size) ==
    LET w == Block(First(v) + size, v.actualSize - size) IN
    [sizeList  |-> [list.sizeList EXCEPT ![c] = (@ \ {v}) \union {w}],
     indexTree |-> TreePut(TreePut(TreeRemove(list.indexTree, First(v)), Last(v), w),
                           First(w), w)]

findInSizeList(list, c, size, v) ==
    IF size = v.actualSize THEN Taken(list, c, v)
    ELSE IF v.actualSize - size >= buckSize(c, size) THEN Shortened(list, c, v, size)
    ELSE add(Taken(list, c, v), First(v) + size, v.actualSize - size)

\* The first list, from the size's own class on, with a large enough block.
SearchedClass(list, size) ==
    LET first == FirstClass(size) IN
    {c \in first .. 7 :
        /\ Fitting(list, c, size) # {}
        /\ \A d \in first .. c - 1 : Fitting(list, d, size) = {}}

find(list, size) ==
    UNION {{[index |-> First(v), list |-> findInSizeList(list, c, size, v)] :
               v \in Fitting(list, c, size)} : c \in SearchedClass(list, size)}
=============================================================================
