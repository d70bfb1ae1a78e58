-------------------------- MODULE BytesQueueProofs --------------------------
(***************************************************************************)
(* Proofs about the byte queue (bigcache/queue), for every capacity, every *)
(* limit, every set of entry lengths and every number of pushes.           *)
(*                                                                         *)
(* First the free list alone.  A free list that is in order is determined  *)
(* by the set of its blocks: ListOf(B) holds every block of B in the size  *)
(* list of its class, if it has one, and in the tree under its first and   *)
(* its last byte.  add and find lead from such a list to such a list, and  *)
(* the bytes of the new blocks come from where they should.                *)
(*                                                                         *)
(* Then the placement of entries and free blocks (Placed) and the count    *)
(* that goes with it (Counted), which together are inductive; and what     *)
(* follows: entries are read back, free blocks stay apart, Pop finds its   *)
(* entry, and the queue implements EntryStore.                             *)
(***************************************************************************)
EXTENDS BytesQueue, TLAPS

-----------------------------------------------------------------------------
(* The free list *)

TreeOf(B) == {[pos |-> First(v), item |-> v] : v \in B} \union {[pos |-> Last(v), item |-> v] : v \in B}

ListsOf(B) == [c \in Classes |-> {v \in B : c \in ClassOf(v.actualSize)}]

ListOf(B) == [sizeList |-> ListsOf(B), indexTree |-> TreeOf(B)]

\* The bytes first .. last are not part of the block.
Clear(v, first, last) == Last(v) < first \/ last < First(v)

\* Blocks of one byte or more that do not overlap.
Separate(B) ==
    /\ B \subseteq Item
    /\ \A v \in B : v.actualSize > 0
    /\ \A v, w \in B : v # w => Clear(v, First(w), Last(w))

\* The bytes of the blocks.
BytesOf(B) == UNION {First(v) .. Last(v) : v \in B}

-----------------------------------------------------------------------------
(* Size classes *)

LEMMA ClassUnique ==
    ASSUME NEW size \in Int, NEW c \in ClassOf(size), NEW d \in ClassOf(size)
    PROVE  c = d
  BY DEF ClassOf, Classes, Bound

LEMMA FirstClassIs ==
    ASSUME NEW size \in Int, NEW c \in ClassOf(size)
    PROVE  FirstClass(size) = c
  BY ClassUnique DEF FirstClass

LEMMA ClassIsClass ==
    ASSUME NEW size, NEW c \in ClassOf(size)
    PROVE  c \in Classes
  BY DEF ClassOf

-----------------------------------------------------------------------------
(* Trees and lists of separate blocks *)

LEMMA GetIs ==
    ASSUME NEW B, NEW p
    PROVE  TreeGet(TreeOf(B), p) = {v \in B : p \in {First(v), Last(v)}}
  <1>1. ASSUME NEW v \in B, p \in {First(v), Last(v)} PROVE v \in TreeGet(TreeOf(B), p)
    <2>1. [pos |-> p, item |-> v] \in {x \in TreeOf(B) : x.pos = p}
      BY <1>1 DEF TreeOf
    <2> QED BY <2>1 DEF TreeGet
  <1>2. ASSUME NEW v \in TreeGet(TreeOf(B), p) PROVE v \in B /\ p \in {First(v), Last(v)}
    <2> PICK e \in TreeOf(B) : e.pos = p /\ v = e.item
      BY <1>2 DEF TreeGet
    <2> QED BY DEF TreeOf
  <1> QED BY <1>1, <1>2

LEMMA EndsDiffer ==
    ASSUME NEW B, Separate(B), NEW v \in B, NEW w \in B, v # w
    PROVE  /\ First(v) # First(w) /\ First(v) # Last(w)
           /\ Last(v) # First(w) /\ Last(v) # Last(w)
  BY DEF Separate, Clear, First, Last, Item

LEMMA GetAtEnd ==
    ASSUME NEW B, Separate(B), NEW v \in B, NEW p \in {First(v), Last(v)}
    PROVE  TreeGet(TreeOf(B), p) = {v}
  BY GetIs, EndsDiffer

LEMMA TreeWithout ==
    ASSUME NEW B, Separate(B), NEW v \in B
    PROVE  /\ TreeRemove(TreeRemove(TreeOf(B), First(v)), Last(v)) = TreeOf(B \ {v})
           /\ TreeRemove(TreeRemove(TreeOf(B), Last(v)), First(v)) = TreeOf(B \ {v})
  BY EndsDiffer DEF TreeOf, TreeRemove

LEMMA ListsWithout ==
    ASSUME NEW B, Separate(B), NEW v \in B
    PROVE  /\ removeFromSizeList(ListsOf(B), v) = ListsOf(B \ {v})
           /\ \A c \in ClassOf(v.actualSize) : [ListsOf(B) EXCEPT ![c] = @ \ {v}] = ListsOf(B \ {v})
  <1>1. v.actualSize \in Int
    BY DEF Separate, Item
  <1>2. ASSUME NEW c \in ClassOf(v.actualSize)
        PROVE  [ListsOf(B) EXCEPT ![c] = @ \ {v}] = ListsOf(B \ {v})
    <2>1. \A d \in Classes : ListsOf(B)[d] = {w \in B : d \in ClassOf(w.actualSize)}
      BY DEF ListsOf
    <2>2. \A d \in Classes : d # c => v \notin ListsOf(B)[d]
      BY <1>1, <2>1, ClassUnique
    <2>3. \A d \in Classes : [ListsOf(B) EXCEPT ![c] = @ \ {v}][d] = {w \in B \ {v} : d \in ClassOf(w.actualSize)}
      BY <2>1, <2>2 DEF ListsOf
    <2> QED BY <2>3, ZenonT(60) DEF ListsOf
  <1>3. CASE ClassOf(v.actualSize) = {}
    BY <1>3 DEF removeFromSizeList, ListsOf
  <1>4. CASE ClassOf(v.actualSize) # {}
    <2> PICK c \in ClassOf(v.actualSize) : TRUE
      BY <1>4
    <2> QED BY <1>1, <1>2, <1>4, FirstClassIs DEF removeFromSizeList
  <1> QED BY <1>2, <1>3, <1>4

LEMMA ListsWith ==
    ASSUME NEW B, NEW v \in Item
    PROVE  putIntoSizeList(ListsOf(B), v) = ListsOf(B \union {v})
  <1>1. v.actualSize \in Int
    BY DEF Item
  <1>2. CASE ClassOf(v.actualSize) = {}
    BY <1>2 DEF putIntoSizeList, ListsOf
  <1>3. CASE ClassOf(v.actualSize) # {}
    <2> PICK c \in ClassOf(v.actualSize) : TRUE
      BY <1>3
    <2>1. putIntoSizeList(ListsOf(B), v) = [ListsOf(B) EXCEPT ![c] = @ \union {v}]
      BY <1>1, <1>3, FirstClassIs, ZenonT(60) DEF putIntoSizeList
    <2>2. c \in Classes /\ \A d \in Classes : d \in ClassOf(v.actualSize) => d = c
      BY <1>1, ClassUnique, ClassIsClass
    <2>3. \A d \in Classes : [ListsOf(B) EXCEPT ![c] = @ \union {v}][d]
                              = {w \in B \union {v} : d \in ClassOf(w.actualSize)}
      BY <2>2 DEF ListsOf
    <2> QED BY <2>1, <2>3, ZenonT(60) DEF ListsOf
  <1> QED BY <1>2, <1>3

LEMMA TreeWith ==
    ASSUME NEW B, NEW v, Separate(B \union {v}), v \notin B
    PROVE  /\ TreePut(TreePut(TreeOf(B), First(v), v), Last(v), v) = TreeOf(B \union {v})
           /\ TreePut(TreePut(TreeOf(B), Last(v), v), First(v), v) = TreeOf(B \union {v})
  <1>1. \A w \in B : {First(w), Last(w)} \intersect {First(v), Last(v)} = {}
    BY EndsDiffer
  <1>2. \A e \in TreeOf(B) : e.pos # First(v) /\ e.pos # Last(v)
    <2> SUFFICES ASSUME NEW e \in TreeOf(B) PROVE e.pos # First(v) /\ e.pos # Last(v)
      OBVIOUS
    <2>1. PICK w \in B : e.pos = First(w) \/ e.pos = Last(w)
      BY DEF TreeOf
    <2> QED BY <1>1, <2>1, ZenonT(60)
  <1> DEFINE a == [pos |-> First(v), item |-> v]
             b == [pos |-> Last(v), item |-> v]
  <1>3. TreePut(TreeOf(B), First(v), v) = TreeOf(B) \union {a} /\ TreePut(TreeOf(B), Last(v), v) = TreeOf(B) \union {b}
    BY <1>2 DEF TreePut, TreeRemove
  <1>4. (a.pos = Last(v) \/ b.pos = First(v) => a = b) /\ TreeOf(B) \union {a, b} = TreeOf(B \union {v})
    BY DEF TreeOf
  <1>5. TreePut(TreeOf(B) \union {a}, Last(v), v) = TreeOf(B) \union {a, b}
    <2> HIDE DEF a
    <2> QED BY <1>2, <1>4 DEF TreePut, TreeRemove
  <1>6. TreePut(TreeOf(B) \union {b}, First(v), v) = TreeOf(B) \union {a, b}
    <2> HIDE DEF b
    <2> QED BY <1>2, <1>4 DEF TreePut, TreeRemove
  <1> QED BY <1>3, <1>4, <1>5, <1>6, Zenon

LEMMA LinkedList ==
    ASSUME NEW B, NEW v, Separate(B \union {v}), v \notin B
    PROVE  Link(ListOf(B), v) = ListOf(B \union {v})
  <1>1. v \in Item
    BY DEF Separate
  <1> QED BY <1>1, ListsWith, TreeWith DEF Link, ListOf

LEMMA FewerSeparate ==
    ASSUME NEW B, Separate(B), NEW C, C \subseteq B
    PROVE  Separate(C)
  BY DEF Separate

-----------------------------------------------------------------------------
(* add *)

(* add, for bytes that no block contains: what comes out is the list of    *)
(* some separate blocks again, whose bytes were free before or are the     *)
(* added ones.                                                             *)
THEOREM AddKeepsOrder ==
    ASSUME NEW B, Separate(B), NEW index \in Int, NEW size \in Int, size > 0,
           \A v \in B : Clear(v, index, index + size - 1)
    PROVE  \E C : /\ add(ListOf(B), index, size) = ListOf(C)
                  /\ Separate(C)
                  /\ BytesOf(C) \subseteq BytesOf(B) \union index .. index + size - 1
  <1> DEFINE left  == TreeGet(ListOf(B).indexTree, index - 1)
             l     == CHOOSE v \in left : TRUE
             list1 == IF left = {} THEN ListOf(B)
                      ELSE [sizeList  |-> removeFromSizeList(ListOf(B).sizeList, l),
                            indexTree |-> TreeRemove(TreeRemove(ListOf(B).indexTree, index - 1), First(l))]
             item1 == IF left = {} THEN Block(index, size)
                                   ELSE Block(First(l), l.actualSize + size)
             B1    == IF left = {} THEN B ELSE B \ {l}
             right == TreeGet(list1.indexTree, index + size)
             r     == CHOOSE v \in right : TRUE
             list2 == IF right = {} THEN list1
                      ELSE [sizeList  |-> removeFromSizeList(list1.sizeList, r),
                            indexTree |-> TreeRemove(TreeRemove(list1.indexTree, index + size), Last(r))]
             item2 == IF right = {} THEN item1 ELSE Block(index, size + r.actualSize)
             B2    == IF right = {} THEN B1 ELSE B1 \ {r}
  <1>1. add(ListOf(B), index, size) = Link(list2, item2)
    BY Zenon DEF add
  <1>2. /\ list1 = ListOf(B1) /\ Separate(B1) /\ B1 \subseteq B
        /\ item1 \in Item /\ item1.actualSize > 0 /\ Last(item1) = index + size - 1
        /\ \A v \in B1 : Clear(v, First(item1), Last(item1))
        /\ First(item1) .. Last(item1) \subseteq BytesOf(B) \union index .. index + size - 1
    <2>1. CASE left = {}
      BY <2>1, Zenon DEF Block, Item, First, Last
    <2>2. CASE left # {}
      <3>1. l \in B /\ index - 1 \in {First(l), Last(l)}
        BY <2>2, GetIs DEF ListOf
      <3> HIDE DEF l, left
      <3>2. l \in Item /\ l.actualSize > 0 /\ Clear(l, index, index + size - 1)
        BY <3>1 DEF Separate
      <3>3. Last(l) = index - 1
        BY <3>1, <3>2 DEF Clear, First, Last, Item
      <3>4. list1 = ListOf(B \ {l})
        BY <2>2, <3>1, <3>3, TreeWithout, ListsWithout DEF ListOf
      <3>5. /\ item1 \in Item /\ item1.actualSize > 0 /\ First(item1) = First(l)
            /\ Last(item1) = index + size - 1
        BY <2>2, <3>2, <3>3 DEF Block, Item, First, Last
      <3>6. \A v \in B \ {l} : Clear(v, First(l), Last(l)) /\ v \in Item /\ v.actualSize > 0
        BY <3>1 DEF Separate
      <3>7. \A v \in B \ {l} : Clear(v, First(item1), Last(item1))
        BY <3>2, <3>3, <3>5, <3>6 DEF Clear, First, Last, Item
      <3>8. First(l) .. Last(l) \subseteq BytesOf(B)
        BY <3>1 DEF BytesOf
      <3>9. First(item1) .. Last(item1) \subseteq BytesOf(B) \union index .. index + size - 1
        BY <3>2, <3>3, <3>5, <3>8, SMTT(30) DEF First, Last, Item
      <3> QED BY <2>2, <3>4, <3>5, <3>7, <3>9, FewerSeparate, Zenon
    <2> QED BY <2>1, <2>2, Zenon
  <1> HIDE DEF list1, item1, B1
  <1>3. /\ list2 = ListOf(B2) /\ Separate(B2) /\ B2 \subseteq B
        /\ item2 \in Item /\ item2.actualSize > 0
        /\ \A v \in B2 : Clear(v, First(item2), Last(item2))
        /\ First(item2) .. Last(item2) \subseteq BytesOf(B) \union index .. index + size - 1
    <2>1. CASE right = {}
      BY <1>2, <2>1, Zenon
    <2>2. CASE right # {}
      <3>1. r \in B1 /\ index + size \in {First(r), Last(r)}
        BY <1>2, <2>2, GetIs DEF ListOf
      <3> HIDE DEF r, right
      <3>2. r \in B /\ r \in Item /\ r.actualSize > 0 /\ Clear(r, index, index + size - 1)
        BY <1>2, <3>1 DEF Separate
      <3>3. First(r) = index + size
        BY <3>1, <3>2 DEF Clear, First, Last, Item
      <3>4. list2 = ListOf(B1 \ {r})
        BY <1>2, <2>2, <3>1, <3>3, TreeWithout, ListsWithout, Zenon DEF ListOf
      <3>5. /\ item2 \in Item /\ item2.actualSize > 0 /\ First(item2) = index
            /\ Last(item2) = Last(r)
        BY <2>2, <3>2, <3>3 DEF Block, Item, First, Last
      <3>6. \A v \in B1 \ {r} : /\ Clear(v, First(r), Last(r)) /\ Clear(v, index, index + size - 1)
                                /\ v \in Item /\ v.actualSize > 0
        BY <1>2, <3>1 DEF Separate
      <3>7. \A v \in B1 \ {r} : Clear(v, First(item2), Last(item2))
        BY <3>2, <3>3, <3>5, <3>6 DEF Clear, First, Last, Item
      <3>8. First(r) .. Last(r) \subseteq BytesOf(B)
        BY <3>2 DEF BytesOf
      <3>9. First(item2) .. Last(item2) \subseteq BytesOf(B) \union index .. index + size - 1
        BY <3>2, <3>3, <3>5, <3>8 DEF First, Last, Item
      <3> QED BY <1>2, <2>2, <3>4, <3>5, <3>7, <3>9, FewerSeparate, Zenon
    <2> QED BY <2>1, <2>2, Zenon
  <1> HIDE DEF list2, item2, B2
  <1>4. item2 \notin B2 /\ Separate(B2 \union {item2})
    BY <1>3 DEF Separate, Clear, First, Last, Item
  <1>5. BytesOf(B2 \union {item2}) \subseteq BytesOf(B) \union index .. index + size - 1
    BY <1>3 DEF BytesOf
  <1> QED BY <1>1, <1>3, <1>4, <1>5, LinkedList, ZenonT(60)

-----------------------------------------------------------------------------
(* find *)

LEMMA TakenList ==
    ASSUME NEW B, Separate(B), NEW v \in B, NEW c \in ClassOf(v.actualSize)
    PROVE  Taken(ListOf(B), c, v) = ListOf(B \ {v})
  BY TreeWithout, ListsWithout, Zenon DEF Taken, ListOf

\* Only a block of the last class is ever shortened, and it stays in its class.
LEMMA ShortenedClass ==
    ASSUME NEW size \in Int, size > 0, NEW s \in Int, size <= s, NEW c \in ClassOf(s),
           s - size >= buckSize(c, size)
    PROVE  c = 7 /\ c \in ClassOf(s - size)
  <1>1. CASE c = 7
    BY <1>1 DEF buckSize, ClassOf, Classes, Bound
  <1>2. CASE c # 7
    <2>1. c \in 0 .. 6 /\ s < Bound[c] /\ Bound[c] \in Int /\ Bound[c] <= 4096
      BY <1>2 DEF ClassOf, Classes, Bound
    <2>2. CASE ClassOf(size) # {}
      BY <1>2, <2>1, <2>2 DEF buckSize
    <2>3. CASE ClassOf(size) = {}
      <3>1. size = 4096
        <4>1. SUFFICES ASSUME size # 4096 PROVE \E d \in Classes : d \in ClassOf(size)
          BY <2>3
        <4>2. \/ size < 64
              \/ 64 <= size /\ size < 128
              \/ 128 <= size /\ size < 256
              \/ 256 <= size /\ size < 512
              \/ 512 <= size /\ size < 1024
              \/ 1024 <= size /\ size < 2048
              \/ 2048 <= size /\ size < 4096
              \/ size > 4096
          BY <4>1
        <4>3. /\ Bound[0] = 64 /\ Bound[1] = 128 /\ Bound[2] = 256 /\ Bound[3] = 512
              /\ Bound[4] = 1024 /\ Bound[5] = 2048 /\ Bound[6] = 4096
          BY DEF Bound
        <4> QED
          <5>1. 0 \in ClassOf(size) \/ 1 \in ClassOf(size) \/ 2 \in ClassOf(size) \/ 3 \in ClassOf(size)
                \/ 4 \in ClassOf(size) \/ 5 \in ClassOf(size) \/ 6 \in ClassOf(size) \/ 7 \in ClassOf(size)
            BY <4>2, <4>3 DEF ClassOf, Classes
          <5> QED BY <5>1 DEF Classes
      <3> QED BY <2>1, <3>1
    <2> QED BY <2>2, <2>3
  <1> QED BY <1>1, <1>2

LEMMA ShortenedList ==
    ASSUME NEW B, Separate(B), NEW v \in B, NEW size \in Int, size > 0, size < v.actualSize,
           NEW c \in ClassOf(v.actualSize), c \in ClassOf(v.actualSize - size)
    PROVE  LET w == Block(First(v) + size, v.actualSize - size) IN
           /\ Shortened(ListOf(B), c, v, size) = ListOf((B \ {v}) \union {w})
           /\ Separate((B \ {v}) \union {w}) /\ First(w) = First(v) + size /\ Last(w) = Last(v)
  <1> DEFINE w == Block(First(v) + size, v.actualSize - size)
             C == B \ {v}
  <1>1. v \in Item /\ v.actualSize > 0
    BY DEF Separate
  <1>2. /\ w \in Item /\ w.actualSize = v.actualSize - size /\ w.actualSize > 0
        /\ First(w) = First(v) + size /\ Last(w) = Last(v)
    BY <1>1 DEF Block, First, Last, Item
  <1> HIDE DEF w
  <1>3. \A u \in C : Clear(u, First(v), Last(v)) /\ u \in Item /\ u.actualSize > 0
    BY DEF Separate
  <1>4. Separate(C \union {w}) /\ w \notin C
    <2>1. \A u \in C : Clear(u, First(w), Last(w)) /\ Clear(w, First(u), Last(u))
      BY <1>1, <1>2, <1>3 DEF Clear, First, Last, Item
    <2>2. ~Clear(w, First(w), Last(w))
      BY <1>2 DEF Clear, First, Last, Item
    <2>3. Separate(C)
      BY FewerSeparate
    <2> QED BY <1>2, <2>1, <2>2, <2>3 DEF Separate
  <1>5. TreePut(TreePut(TreeRemove(TreeOf(B), First(v)), Last(v), w), First(w), w) = TreeOf(C \union {w})
    <2>1. TreePut(TreeRemove(TreeOf(B), First(v)), Last(v), w) = TreePut(TreeOf(C), Last(w), w)
      <3>1. TreeRemove(TreeOf(C), Last(v)) = TreeOf(C)
        BY TreeWithout, Zenon DEF TreeRemove
      <3> QED BY <1>2, <3>1, TreeWithout, Zenon DEF TreePut
    <2> QED BY <1>4, <2>1, TreeWith
  <1>6. [ListsOf(B) EXCEPT ![c] = (@ \ {v}) \union {w}] = ListsOf(C \union {w})
    <2>1. c \in Classes /\ \A d \in Classes : d # c => d \notin ClassOf(v.actualSize) /\ d \notin ClassOf(w.actualSize)
      BY <1>1, <1>2, ClassUnique, ClassIsClass DEF Item
    <2>2. \A d \in Classes : [ListsOf(B) EXCEPT ![c] = (@ \ {v}) \union {w}][d]
                               = {u \in C \union {w} : d \in ClassOf(u.actualSize)}
      BY <1>2, <2>1 DEF ListsOf
    <2> QED BY <2>2, ZenonT(60) DEF ListsOf
  <1> QED BY <1>2, <1>4, <1>5, <1>6, Zenon DEF Shortened, ListOf, w

(* find hands out the first bytes of some block that is large enough, and  *)
(* leaves the list of separate blocks without these bytes.                 *)
THEOREM FindKeepsOrder ==
    ASSUME NEW B, Separate(B), NEW size \in Int, size > 0, NEW found \in find(ListOf(B), size)
    PROVE  \E v \in B : \E C :
              /\ size <= v.actualSize /\ found.index = First(v) /\ found.list = ListOf(C)
              /\ Separate(C)
              /\ BytesOf(C) \subseteq BytesOf(B) \ First(v) .. First(v) + size - 1
  <1>1. PICK c \in SearchedClass(ListOf(B), size) : \E v \in Fitting(ListOf(B), c, size) :
           found = [index |-> First(v), list |-> findInSizeList(ListOf(B), c, size, v)]
    BY Zenon DEF find
  <1>2. PICK v \in Fitting(ListOf(B), c, size) :
           found = [index |-> First(v), list |-> findInSizeList(ListOf(B), c, size, v)]
    BY <1>1
  <1>3. c \in Classes
    <2>1. FirstClass(size) \in 0 .. 7
      BY ClassIsClass DEF FirstClass, Classes
    <2> QED BY <2>1 DEF SearchedClass, Classes
  <1>4. v \in B /\ c \in ClassOf(v.actualSize) /\ size <= v.actualSize
    BY <1>3 DEF Fitting, ListOf, ListsOf
  <1>5. /\ v \in Item /\ v.actualSize > 0
        /\ \A u \in B \ {v} : Clear(u, First(v), Last(v)) /\ u \in Item /\ u.actualSize > 0
    BY <1>4 DEF Separate
  <1>6. Separate(B \ {v})
    BY FewerSeparate
  <1>7. /\ BytesOf(B \ {v}) \subseteq BytesOf(B)
        /\ First(v) .. Last(v) \subseteq BytesOf(B)
        /\ \A x \in BytesOf(B \ {v}) : x \notin First(v) .. Last(v)
    <2>1. BytesOf(B \ {v}) \subseteq BytesOf(B) /\ First(v) .. Last(v) \subseteq BytesOf(B)
      BY <1>4, Zenon DEF BytesOf
    <2>2. ASSUME NEW x \in BytesOf(B \ {v}) PROVE x \notin First(v) .. Last(v)
      <3>1. PICK u \in B \ {v} : x \in First(u) .. Last(u)
        BY Zenon DEF BytesOf
      <3> QED BY <1>5, <3>1 DEF Clear, First, Last, Item
    <2> QED BY <2>1, <2>2, Zenon
  <1> SUFFICES \E C : /\ findInSizeList(ListOf(B), c, size, v) = ListOf(C)
                      /\ Separate(C)
                      /\ BytesOf(C) \subseteq BytesOf(B) \ First(v) .. First(v) + size - 1
    BY <1>2, <1>4, Zenon
  <1>8. CASE size = v.actualSize
    <2>1. findInSizeList(ListOf(B), c, size, v) = ListOf(B \ {v})
      BY <1>4, <1>8, TakenList DEF findInSizeList
    <2>2. First(v) + size - 1 = Last(v)
      BY <1>8 DEF Last, First
    <2> QED BY <1>6, <1>7, <2>1, <2>2, ZenonT(60)
  <1>9. CASE size # v.actualSize /\ v.actualSize - size >= buckSize(c, size)
    <2> DEFINE w == Block(First(v) + size, v.actualSize - size)
               C == (B \ {v}) \union {w}
    <2>1. c \in ClassOf(v.actualSize - size) /\ size < v.actualSize
      BY <1>4, <1>5, <1>9, ShortenedClass DEF Item
    <2>2. /\ findInSizeList(ListOf(B), c, size, v) = ListOf(C) /\ Separate(C)
          /\ First(w) = First(v) + size /\ Last(w) = Last(v)
      BY <1>4, <1>9, <2>1, ShortenedList DEF findInSizeList
    <2> HIDE DEF w
    <2>3. BytesOf(C) = BytesOf(B \ {v}) \union First(w) .. Last(w)
      BY Zenon DEF BytesOf
    <2>4. \A x \in First(w) .. Last(w) : x \in First(v) .. Last(v) /\ x \notin First(v) .. First(v) + size - 1
      BY <1>5, <2>1, <2>2 DEF First, Last, Item
    <2>5. First(v) .. First(v) + size - 1 \subseteq First(v) .. Last(v)
      BY <1>4, <1>5 DEF First, Last, Item
    <2> QED BY <1>7, <2>2, <2>3, <2>4, <2>5, ZenonT(60)
  <1>10. CASE size # v.actualSize /\ ~(v.actualSize - size >= buckSize(c, size))
    <2> DEFINE index == First(v) + size
               rest  == v.actualSize - size
    <2>1. findInSizeList(ListOf(B), c, size, v) = add(ListOf(B \ {v}), index, rest)
      BY <1>4, <1>10, TakenList, Zenon DEF findInSizeList
    <2>2. /\ index \in Int /\ rest \in Int /\ rest > 0 /\ index + rest - 1 = Last(v)
          /\ index - 1 = First(v) + size - 1
          /\ \A x \in index .. Last(v) : x \in First(v) .. Last(v) /\ x \notin First(v) .. index - 1
          /\ First(v) .. index - 1 \subseteq First(v) .. Last(v)
      BY <1>4, <1>5, <1>10 DEF First, Last, Item
    <2>3. \A u \in B \ {v} : Clear(u, index, index + rest - 1)
      BY <1>4, <1>5, <1>10 DEF Clear, First, Last, Item
    <2> HIDE DEF index, rest
    <2>4. PICK C : /\ add(ListOf(B \ {v}), index, rest) = ListOf(C) /\ Separate(C)
                   /\ BytesOf(C) \subseteq BytesOf(B \ {v}) \union index .. index + rest - 1
      BY <1>6, <2>2, <2>3, AddKeepsOrder, ZenonT(60)
    <2>5. BytesOf(C) \subseteq BytesOf(B) \ First(v) .. index - 1
      BY <1>7, <2>2, <2>4, Zenon
    <2> QED BY <2>1, <2>2, <2>4, <2>5, Zenon
  <1> QED BY <1>8, <1>9, <1>10, Zenon

-----------------------------------------------------------------------------
(* The queue *)

\* No two entries of the array share a byte.
Packed(arr) ==
    \A x, y \in arr : x # y => End(x) <= Start(y) \/ End(y) <= Start(x)

BytesOfEntry(e) == Start(e) .. End(e) - 1

Common ==
    /\ client \in Clients
    /\ capacity \in Nat /\ head \in Nat /\ tail \in Nat /\ rightMargin \in Nat
    /\ count \in Nat /\ pushes \in Nat
    /\ 1 <= head /\ 1 <= tail /\ 1 <= rightMargin /\ rightMargin <= capacity
    /\ \A x \in array : x \in EntryType
    /\ Packed(array)
    /\ live \subseteq array
    /\ \A e \in live : /\ e.val # 0 /\ e.len # 0
                       /\ leftMarginIndex <= Start(e) /\ End(e) <= rightMargin

\* The free list holds separate blocks of the array's used part, and none of
\* their bytes is a byte of a live entry.
FreeOK ==
    /\ freelist = ListOf(FreeBlocks)
    /\ Separate(FreeBlocks)
    /\ BytesOf(FreeBlocks) \subseteq leftMarginIndex .. tail - 1
    /\ \A e \in live : BytesOf(FreeBlocks) \intersect BytesOfEntry(e) = {}

\* A client that deletes: the queue never wraps around.
Straight ==
    /\ head = leftMarginIndex /\ rightMargin = tail

\* The part of the array between head and tail.
InUse(p) ==
    IF tail >= head THEN head <= p /\ p < tail
    ELSE (head <= p /\ p < rightMargin) \/ (leftMarginIndex <= p /\ p < tail)

Queued == {x \in array : InUse(Start(x))}

PartEnd(x) == IF Start(x) < tail THEN tail ELSE rightMargin

\* Entries without a gap from an entry to the end of its part.
Chained(x) ==
    /\ End(x) <= PartEnd(x)
    /\ End(x) # PartEnd(x) => \E y \in Queued : Start(y) = End(x)

\* A client that pops: the queue is a ring.
Ring ==
    /\ FreeBlocks = {}
    /\ tail >= head => rightMargin = tail /\ (head = tail => head = leftMarginIndex)
    /\ tail < head => /\ leftMarginIndex < tail /\ tail + minimumEmptyBlobSize <= head
                      /\ head < rightMargin
                      /\ \E x \in Queued : Start(x) = leftMarginIndex
    /\ head # tail => \E x \in Queued : Start(x) = head
    /\ \A x \in Queued : Chained(x)
    /\ live \subseteq Queued
    /\ \A x \in Queued \ live : x.val = 0

Placed ==
    /\ Common
    /\ FreeOK
    /\ IF client.uses \subseteq {"Delete"} THEN Straight ELSE Ring

\* What count counts.
Held == IF client.uses \subseteq {"Delete"} THEN live ELSE Queued

\* The count follows.
Tally ==
    \/ \E e : e \notin Held /\ Held' = Held \union {e} /\ count' = count + 1
    \/ \E b, e : /\ b \notin Held /\ e \notin Held \union {b}
                 /\ Held' = (Held \union {b}) \union {e} /\ count' = count + 1 + 1
    \/ \E z \in Held : Held' = Held \ {z} /\ count' = count - 1
    \/ Held' = {} /\ count' = 0
    \/ Held' = Held /\ count' = count

-----------------------------------------------------------------------------
(* Entries and the array *)

LEMMA Ends ==
    ASSUME NEW x \in EntryType
    PROVE  /\ Start(x) \in Nat /\ End(x) \in Nat /\ Start(x) + 4 <= End(x)
           /\ End(x) = Start(x) + 4 + x.len
  BY DEF EntryType, Start, End, headerEntrySize

\* Two entries of a packed array that share a byte are one.
LEMMA SameEntry ==
    ASSUME NEW arr, Packed(arr), \A x \in arr : x \in EntryType,
           NEW x \in arr, NEW y \in arr, Start(x) <= Start(y), Start(y) < End(x)
    PROVE  x = y
  <1>1. Start(x) \in Nat /\ End(x) \in Nat /\ Start(y) \in Nat /\ End(y) \in Nat /\ Start(y) + 4 <= End(y)
    BY Ends
  <1> QED BY <1>1 DEF Packed

LEMMA Written ==
    ASSUME NEW arr, Packed(arr), \A x \in arr : x \in EntryType, NEW e \in EntryType
    PROVE  /\ Packed(Write(arr, e)) /\ \A x \in Write(arr, e) : x \in EntryType
           /\ e \in Write(arr, e)
           /\ \A x \in arr : End(x) <= Start(e) \/ End(e) <= Start(x) => x \in Write(arr, e)
           /\ \A x \in Write(arr, e) : x # e => x \in arr /\ (End(x) <= Start(e) \/ End(e) <= Start(x))
  BY Zenon DEF Packed, Write

LEMMA BlocksOfList ==
    ASSUME NEW B
    PROVE  {x.item : x \in ListOf(B).indexTree} = B
  <1>1. ASSUME NEW v \in B PROVE v \in {x.item : x \in TreeOf(B)}
    <2>1. [pos |-> First(v), item |-> v] \in TreeOf(B)
      BY DEF TreeOf
    <2> QED BY <2>1
  <1>2. ASSUME NEW v \in {x.item : x \in TreeOf(B)} PROVE v \in B
    BY DEF TreeOf
  <1> QED BY <1>1, <1>2 DEF ListOf

LEMMA NewBlocks ==
    ASSUME NEW B, freelist' = ListOf(B)
    PROVE  FreeBlocks' = B
  BY BlocksOfList DEF FreeBlocks

LEMMA EmptyList == newFreeList = ListOf({}) /\ Separate({}) /\ BytesOf({}) = {}
  BY ZenonT(60) DEF newFreeList, ListOf, TreeOf, ListsOf, Separate, BytesOf

LEMMA LengthOfClient ==
    ASSUME client \in Clients, NEW len \in client.lens
    PROVE  len \in Nat /\ len # 0
  BY QueueAssumption, ClientAssumption

LEMMA InitPlaced == Init => Placed /\ Held = {} /\ count = 0
  <1> SUFFICES ASSUME Init PROVE Placed /\ Held = {} /\ count = 0
    OBVIOUS
  <1>1. FreeBlocks = {}
    BY BlocksOfList, EmptyList, ZenonT(60) DEF Init, FreeBlocks
  <1>2. Common
    BY QueueAssumption DEF Init, Common, leftMarginIndex, Packed
  <1>3. FreeOK
    BY <1>1, EmptyList DEF Init, FreeOK
  <1>4. Straight
    BY DEF Init, Straight
  <1>5. Ring /\ Queued = {}
    <2>1. Queued = {}
      BY DEF Init, Queued
    <2> QED BY <1>1, <2>1 DEF Init, Ring, leftMarginIndex
  <1> QED BY <1>2, <1>3, <1>4, <1>5 DEF Init, Placed, Held

-----------------------------------------------------------------------------
(* An entry is appended at the tail of a queue that has not wrapped: what  *)
(* PushAfterTail and, with the copied array, PushAndGrow do to it.         *)

AppendAtTail(arr, len) ==
    LET e == Entry(tail, len, pushes + 1) IN
    /\ arr \subseteq array /\ \A x \in array : End(x) <= tail => x \in arr
    /\ array' = Write(arr, e)
    /\ head' = head /\ tail' = End(e) /\ rightMargin' = End(e)
    /\ capacity' \in Nat /\ End(e) <= capacity'
    /\ count' = count + 1
    /\ live' = live \union {e} /\ pushes' = pushes + 1
    /\ freelist' = freelist /\ client' = client

LEMMA Appended ==
    ASSUME Common, FreeOK, head <= tail, rightMargin = tail,
           NEW arr, NEW len \in Nat, len # 0, AppendAtTail(arr, len)
    PROVE  /\ Common' /\ FreeOK' /\ FreeBlocks' = FreeBlocks
           /\ Entry(tail, len, pushes + 1) \in array' \ live
           /\ \A x \in array : End(x) <= tail => x \in array'
           /\ \A x \in array' : \/ x = Entry(tail, len, pushes + 1)
                                \/ x \in array /\ (Start(x) < tail => End(x) <= tail)
                                               /\ (Start(x) >= tail => End(Entry(tail, len, pushes + 1)) <= Start(x))
  <1> DEFINE e == Entry(tail, len, pushes + 1)
  <1>1. /\ e \in EntryType /\ Start(e) = tail /\ End(e) = tail + 4 + len
        /\ e.len = len /\ e.val = pushes + 1
    <2>1. tail \in Nat /\ pushes + 1 \in Nat
      BY DEF Common
    <2> QED BY <2>1, SMT DEF Entry, EntryType, Start, End, headerEntrySize
  <1>2. /\ arr \subseteq array /\ \A x \in array : End(x) <= tail => x \in arr
        /\ array' = Write(arr, e)
        /\ head' = head /\ tail' = End(e) /\ rightMargin' = End(e)
        /\ capacity' \in Nat /\ End(e) <= capacity'
        /\ count' = count + 1
        /\ live' = live \union {e} /\ pushes' = pushes + 1
        /\ freelist' = freelist /\ client' = client
    BY DEF AppendAtTail
  <1> HIDE DEF e
  <1>3. Packed(arr) /\ \A x \in arr : x \in EntryType
    BY <1>2 DEF Common, Packed
  <1>4. /\ Packed(array') /\ \A x \in array' : x \in EntryType
        /\ e \in array'
        /\ \A x \in arr : End(x) <= Start(e) \/ End(e) <= Start(x) => x \in array'
        /\ \A x \in array' : x # e => x \in arr /\ (End(x) <= Start(e) \/ End(e) <= Start(x))
    BY <1>1, <1>2, <1>3, Written, Zenon
  <1>5. \A x \in array : /\ Start(x) \in Nat /\ End(x) \in Nat /\ Start(x) + 4 <= End(x)
    BY Ends DEF Common
  <1>6. \A x \in array : End(x) <= tail => x \in array'
    BY <1>1, <1>2, <1>4, Zenon
  <1>7. \A x \in array' : \/ x = e
                          \/ x \in array /\ (Start(x) < tail => End(x) <= tail)
                                         /\ (Start(x) >= tail => End(e) <= Start(x))
    BY <1>1, <1>2, <1>4, <1>5 DEF Common
  <1>8. e \notin live
    BY <1>1, <1>5 DEF Common
  <1>9. Common'
    <2>1. /\ client' \in Clients
          /\ capacity' \in Nat /\ head' \in Nat /\ tail' \in Nat /\ rightMargin' \in Nat
          /\ count' \in Nat /\ pushes' \in Nat
          /\ 1 <= head' /\ 1 <= tail' /\ 1 <= rightMargin' /\ rightMargin' <= capacity'
      BY <1>1, <1>2 DEF Common
    <2>2. live' \subseteq array'
      BY <1>2, <1>4, <1>6, Zenon DEF Common
    <2>3. \A x \in live' : /\ x.val # 0 /\ x.len # 0
                           /\ leftMarginIndex <= Start(x) /\ End(x) <= rightMargin'
      BY <1>1, <1>2, <1>5 DEF Common, leftMarginIndex
    <2> QED BY <1>4, <2>1, <2>2, <2>3, Zenon DEF Common, leftMarginIndex
  <1>10. FreeBlocks' = FreeBlocks
    BY <1>2 DEF FreeBlocks
  <1>11. FreeOK'
    <2>1. \A x \in live' : BytesOf(FreeBlocks) \intersect BytesOfEntry(x) = {}
      <3>1. BytesOf(FreeBlocks) \intersect BytesOfEntry(e) = {}
        BY <1>1 DEF FreeOK, BytesOfEntry, leftMarginIndex, Common
      <3> QED BY <1>2, <3>1, Zenon DEF FreeOK
    <2>2. BytesOf(FreeBlocks) \subseteq leftMarginIndex .. tail' - 1
      BY <1>1, <1>2 DEF FreeOK, leftMarginIndex, Common
    <2> QED BY <1>2, <1>10, <2>1, <2>2 DEF FreeOK
  <1> QED BY <1>4, <1>6, <1>7, <1>8, <1>9, <1>10, <1>11, Zenon DEF e

LEMMA AppendedStraight ==
    ASSUME Common, FreeOK, Straight, NEW arr, NEW len \in Nat, len # 0, AppendAtTail(arr, len)
    PROVE  /\ Common' /\ FreeOK' /\ Straight'
           /\ Entry(tail, len, pushes + 1) \notin live
  <1>1. head <= tail /\ rightMargin = tail
    BY DEF Straight, Common, leftMarginIndex
  <1>2. Common' /\ FreeOK' /\ Entry(tail, len, pushes + 1) \notin live
    BY <1>1, Appended
  <1>3. head' = leftMarginIndex' /\ rightMargin' = tail'
    BY DEF Straight, AppendAtTail, leftMarginIndex
  <1> QED BY <1>2, <1>3 DEF Straight

LEMMA AppendedRing ==
    ASSUME Common, FreeOK, Ring, head <= tail,
           NEW arr, NEW len \in Nat, len # 0, AppendAtTail(arr, len)
    PROVE  /\ Common' /\ FreeOK' /\ Ring'
           /\ \E x : x \notin Queued /\ Queued' = Queued \union {x}
  <1> DEFINE e == Entry(tail, len, pushes + 1)
  <1>1. /\ tail \in Nat /\ head \in Nat /\ 1 <= head
        /\ rightMargin = tail /\ ~(tail < head)
        /\ (head = tail => head = leftMarginIndex)
    BY DEF Ring, Common
  <1>2. Start(e) = tail /\ End(e) = tail + 4 + len
    <2>1. tail \in Nat /\ pushes + 1 \in Nat
      BY DEF Common
    <2> QED BY <2>1, SMT DEF Entry, EntryType, Start, End, headerEntrySize
  <1>3. /\ Common' /\ FreeOK' /\ FreeBlocks' = FreeBlocks
        /\ e \in array' \ live
        /\ \A x \in array : End(x) <= tail => x \in array'
        /\ \A x \in array' : \/ x = e
                             \/ x \in array /\ (Start(x) < tail => End(x) <= tail)
                                            /\ (Start(x) >= tail => End(e) <= Start(x))
    BY <1>1, Appended, Zenon
  <1>4. /\ head' = head /\ tail' = End(e) /\ rightMargin' = End(e)
        /\ count' = count + 1 /\ live' = live \union {e}
    BY DEF AppendAtTail
  <1> HIDE DEF e
  <1>5. \A x \in array : Start(x) \in Nat /\ End(x) \in Nat /\ Start(x) + 4 <= End(x)
    BY Ends DEF Common
  <1>6. /\ Queued = {x \in array : head <= Start(x) /\ Start(x) < tail}
        /\ Queued' = {x \in array' : head <= Start(x) /\ Start(x) < End(e)}
    BY <1>1, <1>2, <1>4 DEF Queued, InUse
  <1>7. \A x \in Queued : End(x) <= tail /\ (End(x) # tail => \E y \in Queued : Start(y) = End(x))
    BY <1>1, <1>6, Zenon DEF Ring, Chained, PartEnd
  <1>8. Queued' = Queued \union {e} /\ e \notin Queued
    <2>1. ASSUME NEW x \in Queued' PROVE x = e \/ x \in Queued
      BY <1>1, <1>2, <1>3, <1>5, <1>6, <2>1
    <2>2. \A x \in Queued : x \in Queued'
      BY <1>1, <1>2, <1>3, <1>5, <1>6, <1>7
    <2>3. e \in Queued' /\ e \notin Queued
      BY <1>1, <1>2, <1>3, <1>6
    <2> QED BY <2>1, <2>2, <2>3
  <1>9. ASSUME NEW x \in Queued' PROVE Chained(x)'
    <2>1. PartEnd(x)' = End(e)
      BY <1>4, <1>6 DEF PartEnd
    <2>2. CASE x = e
      BY <1>1, <1>2, <2>1, <2>2 DEF Chained
    <2>3. CASE x \in Queued
      <3>1. End(x) <= tail /\ End(x) \in Nat
        BY <1>5, <1>6, <1>7, <2>3
      <3>2. \E y \in Queued' : Start(y) = End(x)
        BY <1>2, <1>7, <1>8, <2>3
      <3> QED BY <1>2, <1>1, <2>1, <3>1, <3>2 DEF Chained
    <2> QED BY <1>8, <2>2, <2>3
  <1>10. \E x \in Queued' : Start(x) = head'
    BY <1>1, <1>2, <1>4, <1>8 DEF Ring
  <1>11. \E x : x \notin Queued /\ Queued' = Queued \union {x}
    BY <1>8
  <1>12. live' \subseteq Queued' /\ \A x \in Queued' \ live' : x.val = 0
    BY <1>4, <1>8 DEF Ring
  <1>13. tail' >= head' /\ ~(tail' < head') /\ head' # tail' /\ rightMargin' = tail'
    BY <1>1, <1>2, <1>4
  <1>14. Ring'
    BY <1>3, <1>9, <1>10, <1>12, <1>13, Zenon DEF Ring
  <1> QED BY <1>3, <1>11, <1>14

-----------------------------------------------------------------------------
(* An entry is pushed in front of the head of a ring: behind the tail of a *)
(* queue that has wrapped, or at the left margin, which makes it wrap.     *)

PushInFront(t, len) ==
    LET e == Entry(t, len, pushes + 1) IN
    /\ \/ tail < head /\ t = tail
       \/ head <= tail /\ t = leftMarginIndex
    /\ End(e) + minimumEmptyBlobSize <= head
    /\ array' = Write(array, e)
    /\ head' = head /\ tail' = End(e) /\ rightMargin' = rightMargin
    /\ capacity' = capacity
    /\ count' = count + 1
    /\ live' = live \union {e} /\ pushes' = pushes + 1
    /\ freelist' = freelist /\ client' = client

LEMMA PushedInFront ==
    ASSUME Common, FreeOK, Ring, NEW t, NEW len \in Nat, len # 0, PushInFront(t, len)
    PROVE  /\ Common' /\ FreeOK' /\ Ring'
           /\ \E x : x \notin Queued /\ Queued' = Queued \union {x}
  <1> DEFINE e == Entry(t, len, pushes + 1)
  <1>1. /\ tail \in Nat /\ head \in Nat /\ rightMargin \in Nat /\ capacity \in Nat
        /\ 1 <= head /\ 1 <= tail /\ rightMargin <= capacity /\ pushes \in Nat /\ count \in Nat
        /\ client \in Clients
    BY DEF Common
  <1>2. /\ e \in EntryType /\ Start(e) = t /\ End(e) = t + 4 + len /\ t \in Nat /\ 1 <= t
        /\ e.val # 0 /\ e.len # 0
    <2>1. t \in Nat /\ pushes + 1 \in Nat /\ 1 <= t
      BY <1>1 DEF PushInFront, leftMarginIndex
    <2> QED BY <1>1, <2>1, SMT DEF Entry, EntryType, Start, End, headerEntrySize
  <1>3. /\ \/ tail < head /\ t = tail
           \/ head <= tail /\ t = 1
        /\ End(e) + 36 <= head
        /\ array' = Write(array, e)
        /\ head' = head /\ tail' = End(e) /\ rightMargin' = rightMargin
        /\ capacity' = capacity
        /\ count' = count + 1
        /\ live' = live \union {e} /\ pushes' = pushes + 1
        /\ freelist' = freelist /\ client' = client
    BY DEF PushInFront, minimumEmptyBlobSize, headerEntrySize, leftMarginIndex
  <1> HIDE DEF e
  <1>4. head < rightMargin /\ head # tail /\ (head <= tail => rightMargin = tail)
    BY <1>1, <1>2, <1>3 DEF Ring, leftMarginIndex
  <1>5. /\ Packed(array') /\ \A x \in array' : x \in EntryType
        /\ e \in array'
        /\ \A x \in array : End(x) <= t \/ End(e) <= Start(x) => x \in array'
        /\ \A x \in array' : x # e => x \in array /\ (End(x) <= t \/ End(e) <= Start(x))
    <2>1. Packed(array) /\ \A x \in array : x \in EntryType
      BY DEF Common
    <2> QED BY <1>2, <1>3, <2>1, Written, Zenon
  <1>6. \A x \in array : Start(x) \in Nat /\ End(x) \in Nat /\ Start(x) + 4 <= End(x)
    BY Ends DEF Common
  <1>7. /\ Queued = {x \in array : \/ head <= Start(x) /\ Start(x) < rightMargin
                                   \/ tail < head /\ 1 <= Start(x) /\ Start(x) < tail}
        /\ Queued' = {x \in array' : \/ head <= Start(x) /\ Start(x) < rightMargin
                                     \/ 1 <= Start(x) /\ Start(x) < End(e)}
    BY <1>1, <1>2, <1>3, <1>4 DEF Queued, InUse, leftMarginIndex
  <1>8. ASSUME NEW x \in Queued
        PROVE  /\ head <= Start(x) => End(x) <= rightMargin /\ PartEnd(x) = rightMargin
               /\ Start(x) < head => End(x) <= tail /\ tail < head /\ Start(x) < tail /\ PartEnd(x) = tail
               /\ End(x) # PartEnd(x) => \E y \in Queued : Start(y) = End(x)
    BY <1>1, <1>4, <1>6, <1>7 DEF Ring, Chained, PartEnd
  <1>9. Queued' = Queued \union {e} /\ e \notin Queued
    <2>1. ASSUME NEW x \in Queued' PROVE x = e \/ x \in Queued
      BY <1>1, <1>2, <1>3, <1>5, <1>6, <1>7, <2>1, SMTT(30)
    <2>2. ASSUME NEW x \in Queued PROVE x \in Queued'
      BY <1>1, <1>2, <1>3, <1>5, <1>6, <1>7, <1>8
    <2>3. e \in Queued' /\ e \notin Queued
      BY <1>1, <1>2, <1>3, <1>5, <1>7
    <2> QED BY <2>1, <2>2, <2>3
  <1>10. ASSUME NEW x \in Queued' PROVE Chained(x)'
    <2>1. CASE x = e
      <3>1. PartEnd(x)' = End(x)
        BY <1>2, <1>3, <2>1 DEF PartEnd
      <3> QED BY <1>2, <2>1, <3>1 DEF Chained
    <2>2. CASE x \in Queued /\ head <= Start(x)
      <3>1. PartEnd(x)' = PartEnd(x) /\ End(x) <= PartEnd(x)
        BY <1>1, <1>2, <1>3, <1>6, <1>7, <1>8, <2>2 DEF PartEnd
      <3> QED BY <1>8, <1>9, <2>2, <3>1, Zenon DEF Chained
    <2>3. CASE x \in Queued /\ Start(x) < head
      <3>1. /\ End(x) <= tail /\ tail < head /\ Start(x) < tail /\ PartEnd(x) = tail
            /\ Start(x) \in Nat /\ End(x) \in Nat
        BY <1>6, <1>7, <1>8, <2>3, Zenon
      <3>2. PartEnd(x)' = End(e) /\ End(x) <= End(e)
        BY <1>1, <1>2, <1>3, <3>1 DEF PartEnd
      <3>3. \E y \in Queued' : Start(y) = End(x)
        BY <1>1, <1>2, <1>3, <1>8, <1>9, <2>3, <3>1
      <3> QED BY <3>2, <3>3 DEF Chained
    <2>4. Start(x) \in Nat
      BY <1>2, <1>6, <1>7, <1>9, Zenon
    <2> QED BY <1>1, <1>9, <2>1, <2>2, <2>3, <2>4
  <1>11. /\ \E x \in Queued' : Start(x) = head'
         /\ \E x \in Queued' : Start(x) = leftMarginIndex'
    BY <1>2, <1>3, <1>4, <1>9, Zenon DEF Ring, leftMarginIndex
  <1>12. \E x : x \notin Queued /\ Queued' = Queued \union {x}
    BY <1>9
  <1>13. live' \subseteq Queued' /\ \A x \in Queued' \ live' : x.val = 0
    BY <1>3, <1>9, Zenon DEF Ring
  <1>14. FreeBlocks' = {}
    BY <1>3, Zenon DEF Ring, FreeBlocks
  <1>15. Ring'
    <2>1. /\ tail' < head' /\ ~(tail' >= head') /\ 1 < tail' /\ tail' + 36 <= head'
          /\ head' < rightMargin'
      BY <1>1, <1>2, <1>3, <1>4
    <2> QED
      BY <1>10, <1>11, <1>12, <1>13, <1>14, <2>1
      DEF Ring, leftMarginIndex, minimumEmptyBlobSize, headerEntrySize
  <1>16. FreeOK'
    BY <1>3, <1>14, EmptyList, Zenon DEF FreeOK, Ring
  <1>17. Common'
    <2>1. live' \subseteq array'
      BY <1>7, <1>13, Zenon
    <2>2. \A x \in live' : /\ x.val # 0 /\ x.len # 0
                           /\ leftMarginIndex' <= Start(x) /\ End(x) <= rightMargin'
      BY <1>1, <1>2, <1>3, <1>4 DEF Common, leftMarginIndex
    <2> QED BY <1>1, <1>2, <1>3, <1>5, <2>1, <2>2 DEF Common
  <1> QED BY <1>12, <1>15, <1>16, <1>17

-----------------------------------------------------------------------------
(* A ring that has wrapped grows: the gap between tail and head becomes an *)
(* empty blob, the ring begins at the left margin again, and the new entry *)
(* is appended at the right one.                                           *)

GrowWrapped(len) ==
    LET b == Entry(tail, head - tail - headerEntrySize, 0)
        e == Entry(rightMargin, len, pushes + 1)
    IN
    /\ tail < head
    /\ array' = Write(Write({x \in array : End(x) <= rightMargin}, b), e)
    /\ head' = leftMarginIndex /\ tail' = End(e) /\ rightMargin' = End(e)
    /\ capacity' \in Nat /\ End(e) <= capacity'
    /\ count' = count + 1 + 1
    /\ live' = live \union {e} /\ pushes' = pushes + 1
    /\ freelist' = freelist /\ client' = client

LEMMA GrownWrapped ==
    ASSUME Common, FreeOK, Ring, NEW len \in Nat, len # 0, GrowWrapped(len)
    PROVE  /\ Common' /\ FreeOK' /\ Ring'
           /\ \E x, y : /\ x \notin Queued /\ y \notin Queued \union {x}
                        /\ Queued' = (Queued \union {x}) \union {y}
  <1> DEFINE b == Entry(tail, head - tail - headerEntrySize, 0)
             e == Entry(rightMargin, len, pushes + 1)
             copied == {x \in array : End(x) <= rightMargin}
  <1>1. /\ tail \in Nat /\ head \in Nat /\ rightMargin \in Nat /\ capacity \in Nat
        /\ 1 <= head /\ 1 <= tail /\ rightMargin <= capacity /\ pushes \in Nat /\ count \in Nat
        /\ client \in Clients
    BY DEF Common
  <1>2. /\ tail < head
        /\ array' = Write(Write(copied, b), e)
        /\ head' = 1 /\ tail' = End(e) /\ rightMargin' = End(e)
        /\ capacity' \in Nat /\ End(e) <= capacity'
        /\ count' = count + 1 + 1
        /\ live' = live \union {e} /\ pushes' = pushes + 1
        /\ freelist' = freelist /\ client' = client
    BY Zenon DEF GrowWrapped, leftMarginIndex
  <1>3. 1 < tail /\ tail + 36 <= head /\ head < rightMargin
    BY <1>2 DEF Ring, leftMarginIndex, minimumEmptyBlobSize, headerEntrySize
  <1>4. /\ b \in EntryType /\ Start(b) = tail /\ End(b) = head /\ b.val = 0
    BY <1>1, <1>3, SMT DEF Entry, EntryType, Start, End, headerEntrySize
  <1>5. /\ e \in EntryType /\ Start(e) = rightMargin /\ End(e) = rightMargin + 4 + len
        /\ e.val # 0 /\ e.len # 0
    BY <1>1, SMT DEF Entry, EntryType, Start, End, headerEntrySize
  <1> HIDE DEF b, e
  <1>6. \A x \in array : Start(x) \in Nat /\ End(x) \in Nat /\ Start(x) + 4 <= End(x)
    BY Ends, Zenon DEF Common
  <1>7. /\ Packed(array') /\ \A x \in array' : x \in EntryType
        /\ b \in array' /\ e \in array'
        /\ \A x \in array : /\ End(x) <= rightMargin
                            /\ End(x) <= tail \/ head <= Start(x)
                            => x \in array'
        /\ \A x \in array' : x \notin {b, e} =>
               /\ x \in array /\ End(x) <= rightMargin
               /\ End(x) <= tail \/ head <= Start(x)
    <2> DEFINE arr == Write(copied, b)
    <2>1. Packed(copied) /\ \A x \in copied : x \in EntryType
      BY Zenon DEF Common, Packed
    <2>2. /\ Packed(arr) /\ \A x \in arr : x \in EntryType
          /\ b \in arr
          /\ \A x \in copied : End(x) <= Start(b) \/ End(b) <= Start(x) => x \in arr
          /\ \A x \in arr : x # b => x \in copied /\ (End(x) <= Start(b) \/ End(b) <= Start(x))
      BY <1>4, <2>1, Written, ZenonT(60)
    <2> HIDE DEF arr
    <2>3. /\ Packed(array') /\ \A x \in array' : x \in EntryType
          /\ e \in array'
          /\ \A x \in arr : End(x) <= Start(e) \/ End(e) <= Start(x) => x \in array'
          /\ \A x \in array' : x # e => x \in arr
      BY <1>2, <1>5, <2>2, Written, ZenonT(60) DEF arr
    <2> QED BY <1>1, <1>3, <1>4, <1>5, <2>2, <2>3
  <1>8. /\ Queued = {x \in array : \/ head <= Start(x) /\ Start(x) < rightMargin
                                   \/ 1 <= Start(x) /\ Start(x) < tail}
        /\ Queued' = {x \in array' : 1 <= Start(x) /\ Start(x) < End(e)}
    BY <1>1, <1>2, <1>3, <1>5 DEF Queued, InUse, leftMarginIndex
  <1>9. ASSUME NEW x \in Queued
        PROVE  /\ head <= Start(x) => End(x) <= rightMargin /\ PartEnd(x) = rightMargin
               /\ Start(x) < head => End(x) <= tail /\ Start(x) < tail /\ PartEnd(x) = tail
               /\ End(x) # PartEnd(x) => \E y \in Queued : Start(y) = End(x)
    BY <1>1, <1>3, <1>6, <1>8 DEF Ring, Chained, PartEnd
  <1>10. Queued' = (Queued \union {b}) \union {e} /\ b \notin Queued /\ e \notin Queued \union {b}
    <2>1. ASSUME NEW x \in Queued' PROVE x \in {b, e} \/ x \in Queued
      BY <1>1, <1>3, <1>6, <1>7, <1>8, <2>1, SMTT(30)
    <2>2. ASSUME NEW x \in Queued PROVE x \in Queued'
      BY <1>1, <1>3, <1>5, <1>6, <1>7, <1>8, <1>9
    <2>3. {b, e} \subseteq Queued' /\ b \notin Queued /\ e \notin Queued /\ e # b
      BY <1>1, <1>3, <1>4, <1>5, <1>7, <1>8
    <2> QED BY <2>1, <2>2, <2>3
  <1>11. ASSUME NEW x \in Queued' PROVE Chained(x)'
    <2>1. PartEnd(x)' = End(e) /\ Start(x) \in Nat
      BY <1>1, <1>2, <1>4, <1>5, <1>6, <1>8, <1>10, Zenon DEF PartEnd
    <2>2. CASE x = e
      BY <1>1, <1>5, <2>1, <2>2 DEF Chained
    <2>3. CASE x = b
      <3>1. \E y \in Queued' : Start(y) = head
        BY <1>1, <1>3, <1>10 DEF Ring
      <3> QED BY <1>1, <1>3, <1>4, <1>5, <2>1, <2>3, <3>1 DEF Chained
    <2>4. CASE x \in Queued /\ head <= Start(x)
      BY <1>1, <1>5, <1>6, <1>8, <1>9, <1>10, <2>1, <2>4 DEF Chained
    <2>5. CASE x \in Queued /\ Start(x) < head
      <3>1. End(x) <= tail /\ End(x) \in Nat /\ PartEnd(x) = tail
        BY <1>6, <1>8, <1>9, <2>5, Zenon
      <3>2. \E y \in Queued' : Start(y) = End(x)
        BY <1>4, <1>9, <1>10, <2>5, <3>1, Zenon
      <3> QED BY <1>1, <1>3, <1>5, <2>1, <3>1, <3>2 DEF Chained
    <2> QED BY <1>1, <1>10, <2>1, <2>2, <2>3, <2>4, <2>5
  <1>12. \E x \in Queued' : Start(x) = head'
    BY <1>2, <1>3, <1>10, Zenon DEF Ring, leftMarginIndex
  <1>13. \E x, y : /\ x \notin Queued /\ y \notin Queued \union {x}
                   /\ Queued' = (Queued \union {x}) \union {y}
    BY <1>10
  <1>14. live' \subseteq Queued' /\ \A x \in Queued' \ live' : x.val = 0
    BY <1>2, <1>4, <1>10, Zenon DEF Ring
  <1>15. FreeBlocks' = {}
    BY <1>2, ZenonT(60) DEF Ring, FreeBlocks
  <1>16. Ring'
    <2>1. tail' >= head' /\ ~(tail' < head') /\ head' # tail' /\ rightMargin' = tail'
      BY <1>1, <1>2, <1>5
    <2> QED BY <1>11, <1>12, <1>13, <1>14, <1>15, <2>1, Zenon DEF Ring
  <1>17. FreeOK'
    BY <1>2, <1>15, EmptyList, ZenonT(60) DEF FreeOK, Ring
  <1>18. Common'
    <2>1. live' \subseteq array'
      BY <1>8, <1>14
    <2>2. \A x \in live' : /\ x.val # 0 /\ x.len # 0
                           /\ leftMarginIndex' <= Start(x) /\ End(x) <= rightMargin'
      BY <1>1, <1>2, <1>5, <1>6 DEF Common, leftMarginIndex
    <2> QED BY <1>1, <1>2, <1>5, <1>7, <2>1, <2>2 DEF Common
  <1> QED BY <1>13, <1>16, <1>17, <1>18

-----------------------------------------------------------------------------
(* Pop and Reset of a ring *)

LEMMA Popped ==
    ASSUME Common, FreeOK, Ring, Queued # {}, Pop, client' = client
    PROVE  /\ Common' /\ FreeOK' /\ Ring'
           /\ \E z \in Queued : Queued' = Queued \ {z}
  <1>1. /\ tail \in Nat /\ head \in Nat /\ rightMargin \in Nat /\ capacity \in Nat
        /\ 1 <= head /\ 1 <= tail /\ rightMargin <= capacity /\ pushes \in Nat /\ count \in Nat
        /\ client \in Clients
    BY Zenon DEF Common
  <1>2. PICK z \in array :
           /\ Start(z) = head
           /\ live' = live \ {z}
           /\ \/ /\ End(z) = rightMargin
                 /\ head' = 1
                 /\ tail' = IF tail = rightMargin THEN 1 ELSE tail
                 /\ rightMargin' = tail'
              \/ /\ End(z) # rightMargin
                 /\ head' = End(z)
                 /\ tail' = tail /\ rightMargin' = rightMargin
    BY Zenon DEF Pop, Start, leftMarginIndex
  <1>3. /\ count # 0 /\ count' = count - 1
        /\ array' = array /\ capacity' = capacity /\ freelist' = freelist /\ pushes' = pushes
    BY Zenon DEF Pop, Readable
  <1>4. \A x \in array : Start(x) \in Nat /\ End(x) \in Nat /\ Start(x) + 4 <= End(x)
    BY Ends, Zenon DEF Common
  <1>5. head # tail
    <2>1. PICK x \in Queued : TRUE
      OBVIOUS
    <2> QED BY <1>1, <1>4, <2>1 DEF Ring, Queued, InUse
  <1>6. /\ Queued = {x \in array : \/ tail >= head /\ head <= Start(x) /\ Start(x) < tail
                                   \/ tail < head /\ head <= Start(x) /\ Start(x) < rightMargin
                                   \/ tail < head /\ 1 <= Start(x) /\ Start(x) < tail}
        /\ Queued' = {x \in array : \/ tail' >= head' /\ head' <= Start(x) /\ Start(x) < tail'
                                    \/ tail' < head' /\ head' <= Start(x) /\ Start(x) < rightMargin'
                                    \/ tail' < head' /\ 1 <= Start(x) /\ Start(x) < tail'}
    BY <1>1, <1>2, <1>3, <1>4 DEF Queued, InUse, leftMarginIndex
  <1>7. /\ tail >= head => rightMargin = tail
        /\ tail < head => 1 < tail /\ tail + 36 <= head /\ head < rightMargin
    BY DEF Ring, leftMarginIndex, minimumEmptyBlobSize, headerEntrySize
  <1>8. z \in Queued
    BY <1>1, <1>2, <1>5, <1>6, <1>7
  <1>9. \A x \in array : x # z => Start(x) < Start(z) \/ End(z) <= Start(x)
    BY <1>2, <1>4, SameEntry DEF Common
  <1>10. ASSUME NEW x \in Queued
         PROVE  /\ End(x) <= PartEnd(x)
                /\ End(x) # PartEnd(x) => \E y \in Queued : Start(y) = End(x)
    BY Zenon DEF Ring, Chained
  <1>11. PartEnd(z) = rightMargin
    BY <1>1, <1>2, <1>5, <1>7 DEF PartEnd
  <1> DEFINE Moved ==
          /\ head' \in Nat /\ tail' \in Nat /\ rightMargin' \in Nat
          /\ 1 <= head' /\ 1 <= tail' /\ 1 <= rightMargin' /\ rightMargin' <= capacity
          /\ Queued' = Queued \ {z}
          /\ tail' >= head' => rightMargin' = tail' /\ (head' = tail' => head' = 1)
          /\ tail' < head' => /\ 1 < tail' /\ tail' + 36 <= head' /\ head' < rightMargin'
                              /\ \E x \in Queued' : Start(x) = 1
          /\ head' # tail' => \E x \in Queued' : Start(x) = head'
          /\ \A x \in Queued' : Chained(x)'
          /\ \A x \in Queued' : End(x) <= rightMargin'
  <1>12. ASSUME End(z) = rightMargin, tail >= head PROVE Moved
    <2>1. head' = 1 /\ tail' = 1 /\ rightMargin' = 1
      BY <1>2, <1>7, <1>12, Zenon
    <2>2. Queued' = {} /\ Queued = {z}
      BY <1>1, <1>2, <1>4, <1>6, <1>7, <1>8, <1>9, <1>12, <2>1
    <2>3. 1 <= rightMargin /\ ~(1 < 1)
      BY DEF Common
    <2> QED BY <1>1, <2>1, <2>2, <2>3
  <1>13. ASSUME End(z) = rightMargin, tail < head PROVE Moved
    <2>1. head' = 1 /\ tail' = tail /\ rightMargin' = tail /\ 1 < tail /\ head < rightMargin
      BY <1>1, <1>2, <1>7, <1>13
    <2>2. Queued' = {x \in array : 1 <= Start(x) /\ Start(x) < tail}
      BY <1>1, <1>4, <1>6, <2>1, Zenon
    <2>3. Queued' = Queued \ {z}
      BY <1>1, <1>2, <1>4, <1>6, <1>7, <1>9, <1>13, <2>2
    <2>4. ASSUME NEW x \in Queued' PROVE Chained(x)' /\ End(x) <= tail
      <3>1. PartEnd(x) = tail /\ PartEnd(x)' = tail /\ End(x) \in Nat
        BY <1>4, <2>1, <2>2, Zenon DEF PartEnd
      <3>2. End(x) # tail => \E y \in Queued : Start(y) = End(x)
        BY <1>10, <2>3, <3>1
      <3>3. End(x) <= tail
        BY <1>10, <2>3, <3>1
      <3> QED BY <1>1, <1>2, <1>13, <2>3, <3>1, <3>2, <3>3 DEF Chained
    <2>5. \E x \in Queued' : Start(x) = 1
      BY <1>1, <1>2, <1>7, <1>13, <2>3 DEF Ring, leftMarginIndex
    <2>6. tail <= rightMargin
      BY <1>1, <1>13, <2>1, SMTT(30)
    <2> QED BY <1>1, <2>1, <2>3, <2>4, <2>5, <2>6
  <1>14. ASSUME End(z) # rightMargin PROVE Moved
    <2>1. head' = End(z) /\ tail' = tail /\ rightMargin' = rightMargin
      BY <1>2, <1>14, Zenon
    <2>2. End(z) \in Nat /\ head + 4 <= End(z) /\ End(z) < rightMargin
      BY <1>1, <1>2, <1>4, <1>8, <1>10, <1>11, <1>14, SMTT(30)
    <2>3. Queued' = Queued \ {z}
      BY <1>1, <1>2, <1>4, <1>6, <1>7, <1>8, <1>9, <2>1, <2>2, SMTT(30)
    <2>4. ASSUME NEW x \in Queued' PROVE Chained(x)' /\ End(x) <= rightMargin
      <3>1. PartEnd(x)' = PartEnd(x) /\ x \in Queued /\ Start(x) \in Nat /\ End(x) \in Nat /\ Start(x) + 4 <= End(x)
        BY <1>4, <1>6, <2>1, <2>3, Zenon DEF PartEnd
      <3>2. End(x) <= PartEnd(x) /\ (PartEnd(x) = tail \/ PartEnd(x) = rightMargin)
        BY <1>10, <3>1, Zenon DEF PartEnd
      <3>3. End(x) # head
        BY <1>1, <1>6, <1>7, <3>1, <3>2 DEF PartEnd
      <3>4. End(x) # PartEnd(x) => \E y \in Queued' : Start(y) = End(x)
        BY <1>2, <1>10, <2>3, <3>1, <3>3, Zenon
      <3>5. tail <= rightMargin
        BY <1>1, <1>7
      <3> QED BY <1>1, <3>1, <3>2, <3>4, <3>5, SMTT(30) DEF Chained
    <2>5. \E y \in Queued' : Start(y) = End(z)
      BY <1>2, <1>8, <1>10, <1>11, <1>14, <2>2, <2>3, SMTT(30)
    <2>6. tail < head => \E y \in Queued' : Start(y) = 1
      BY <1>1, <1>2, <1>7, <2>3 DEF Ring, leftMarginIndex
    <2>7. /\ tail < End(z) => tail < head
          /\ tail >= End(z) => tail >= head /\ tail # End(z)
      BY <1>1, <1>7, <2>2
    <2>8. tail + 36 <= head => tail + 36 <= End(z)
      BY <1>1, <2>2, SMTT(30)
    <2> QED BY <1>1, <1>7, <2>1, <2>2, <2>3, <2>4, <2>5, <2>6, <2>7, <2>8
  <1>15. Moved
    BY <1>1, <1>12, <1>13, <1>14
  <1> HIDE DEF Moved
  <1>a. Queued' = Queued \ {z}
    BY <1>15, Zenon DEF Moved
  <1>16. count' \in Nat
    BY <1>1, <1>3
  <1>17. live' \subseteq Queued' /\ \A x \in Queued' \ live' : x.val = 0
    BY <1>2, <1>a, Zenon DEF Ring
  <1>18. FreeBlocks' = {}
    BY <1>3, ZenonT(60) DEF Ring, FreeBlocks
  <1>19. Ring'
    <2>1. /\ tail' >= head' => rightMargin' = tail' /\ (head' = tail' => head' = leftMarginIndex)
          /\ tail' < head' => /\ leftMarginIndex < tail' /\ tail' + minimumEmptyBlobSize <= head'
                              /\ head' < rightMargin'
      <3>1. /\ tail' >= head' => rightMargin' = tail' /\ (head' = tail' => head' = 1)
            /\ tail' < head' => 1 < tail' /\ tail' + 36 <= head' /\ head' < rightMargin'
        BY <1>15, Zenon DEF Moved
      <3> QED BY <3>1 DEF leftMarginIndex, minimumEmptyBlobSize, headerEntrySize
    <2>2. /\ tail' < head' => \E x \in Queued' : Start(x) = leftMarginIndex
          /\ head' # tail' => \E x \in Queued' : Start(x) = head'
          /\ \A x \in Queued' : Chained(x)'
      BY <1>15, ZenonT(60) DEF Moved, leftMarginIndex
    <2> QED BY <1>17, <1>18, <2>1, <2>2, Zenon DEF Ring
  <1>20. FreeOK'
    BY <1>3, <1>18, EmptyList, ZenonT(60) DEF FreeOK, Ring
  <1>21. Common'
    <2>1. live' \subseteq array' /\ \A x \in live' : End(x) <= rightMargin'
      BY <1>3, <1>6, <1>15, <1>17, Zenon DEF Moved
    <2> QED BY <1>1, <1>2, <1>3, <1>15, <1>16, <2>1, Zenon DEF Common, Moved, leftMarginIndex
  <1> QED BY <1>8, <1>a, <1>19, <1>20, <1>21

LEMMA ResetRing ==
    ASSUME Common, FreeOK, Ring, Reset, client' = client
    PROVE  Common' /\ FreeOK' /\ Ring' /\ Queued' = {}
  <1>1. /\ head' = 1 /\ tail' = 1 /\ rightMargin' = 1 /\ count' = 0 /\ live' = {}
        /\ array' = array /\ capacity' = capacity /\ freelist' = freelist /\ pushes' = pushes
    BY SMTT(30) DEF Reset, leftMarginIndex
  <1>2. FreeBlocks' = {}
    BY <1>1, Zenon DEF Ring, FreeBlocks
  <1>3. Queued' = {}
    <2>1. \A x \in array : Start(x) \in Nat
      BY Ends, Zenon DEF Common
    <2> QED BY <1>1, <2>1 DEF Queued, InUse
  <1>4. Ring'
    BY <1>1, <1>2, <1>3 DEF Ring, leftMarginIndex
  <1>5. FreeOK'
    BY <1>1, <1>2, EmptyList, Zenon DEF FreeOK, Ring
  <1>6. Common'
    BY <1>1 DEF Common
  <1> QED BY <1>3, <1>4, <1>5, <1>6

-----------------------------------------------------------------------------
(* An entry in a free block, and a deleted one *)

LEMMA BlockBytes ==
    ASSUME NEW B, NEW v \in B
    PROVE  First(v) .. Last(v) \subseteq BytesOf(B)
  BY DEF BytesOf

LEMMA PushedIntoFree ==
    ASSUME Common, FreeOK, Straight, NEW len \in Nat, len # 0, PushIntoFree(len), client' = client
    PROVE  /\ Common' /\ FreeOK' /\ Straight' /\ FreeBlocks # {}
           /\ \E e : e \notin live /\ live' = live \union {e} /\ count' = count + 1
  <1> DEFINE size == len + headerEntrySize
  <1>1. size \in Int /\ size > 0 /\ size = len + 4
    BY DEF headerEntrySize
  <1>2. PICK found \in find(freelist, size) :
           /\ pushes' = pushes + 1
           /\ live' = live \union {Entry(found.index, len, pushes + 1)}
           /\ array' = Write(array, Entry(found.index, len, pushes + 1))
           /\ freelist' = found.list
           /\ count' = count + 1
           /\ capacity' = capacity /\ head' = head /\ tail' = tail /\ rightMargin' = rightMargin
    BY Zenon DEF PushIntoFree, Pushed
  <1>3. found \in find(ListOf(FreeBlocks), size) /\ Separate(FreeBlocks)
    BY <1>2, Zenon DEF FreeOK
  <1>4. PICK v \in FreeBlocks : \E C :
           /\ size <= v.actualSize /\ found.index = First(v) /\ found.list = ListOf(C)
           /\ Separate(C)
           /\ BytesOf(C) \subseteq BytesOf(FreeBlocks) \ First(v) .. First(v) + size - 1
    BY <1>1, <1>3, FindKeepsOrder, Zenon
  <1>5. PICK C :
           /\ size <= v.actualSize /\ found.index = First(v) /\ found.list = ListOf(C)
           /\ Separate(C)
           /\ BytesOf(C) \subseteq BytesOf(FreeBlocks) \ First(v) .. First(v) + size - 1
    BY <1>4, Zenon
  <1> DEFINE e == Entry(First(v), len, pushes + 1)
  <1>6. v \in Item
    BY <1>3 DEF Separate
  <1>7. /\ tail \in Nat /\ head \in Nat /\ rightMargin \in Nat /\ capacity \in Nat /\ rightMargin = tail
        /\ 1 <= head /\ 1 <= tail /\ rightMargin <= capacity /\ pushes \in Nat /\ count \in Nat
        /\ client \in Clients
    BY Zenon DEF Common, Straight
  <1>8. /\ First(v) \in Nat /\ 1 <= First(v) /\ First(v) + size <= tail
        /\ First(v) .. First(v) + size - 1 \subseteq BytesOf(FreeBlocks)
    <2>1. /\ First(v) \in Int /\ Last(v) \in Int /\ First(v) + size - 1 <= Last(v)
          /\ First(v) \in First(v) .. Last(v) /\ Last(v) \in First(v) .. Last(v)
      BY <1>1, <1>5, <1>6 DEF First, Last, Item
    <2>2. First(v) .. Last(v) \subseteq BytesOf(FreeBlocks)
      BY BlockBytes
    <2>3. First(v) \in 1 .. tail - 1 /\ Last(v) \in 1 .. tail - 1
      BY <2>1, <2>2, Zenon DEF FreeOK, leftMarginIndex
    <2> QED BY <1>1, <1>7, <2>1, <2>2, <2>3
  <1>9. /\ e \in EntryType /\ Start(e) = First(v) /\ End(e) = First(v) + size
        /\ e.val # 0 /\ e.len # 0
    BY <1>1, <1>7, <1>8, SMT DEF Entry, EntryType, Start, End, headerEntrySize
  <1>10. live' = live \union {e} /\ array' = Write(array, e)
    BY <1>2, <1>5, Zenon
  <1> HIDE DEF e
  <1>11. \A x \in array : x \in EntryType /\ Start(x) \in Nat /\ End(x) \in Nat /\ Start(x) + 4 <= End(x)
    BY Ends, Zenon DEF Common
  <1>12. /\ Packed(array') /\ \A x \in array' : x \in EntryType
         /\ e \in array'
         /\ \A x \in array : End(x) <= Start(e) \/ End(e) <= Start(x) => x \in array'
    <2>1. Packed(array) /\ \A x \in array : x \in EntryType
      BY Zenon DEF Common
    <2> QED BY <1>9, <1>10, <2>1, Written, Zenon
  <1>13. \A x \in live : End(x) <= Start(e) \/ End(e) <= Start(x)
    <2> SUFFICES ASSUME NEW x \in live, End(x) > Start(e), End(e) > Start(x) PROVE FALSE
      BY <1>1, <1>8, <1>9, <1>11 DEF Common
    <2>1. Start(x) \in Nat /\ End(x) \in Nat /\ Start(x) + 4 <= End(x)
      BY <1>11, Zenon DEF Common
    <2>2. \E p \in BytesOfEntry(x) : p \in First(v) .. First(v) + size - 1
      <3>1. CASE Start(x) <= Start(e)
        <4>1. Start(e) \in BytesOfEntry(x) /\ Start(e) \in First(v) .. First(v) + size - 1
          BY <1>1, <1>8, <1>9, <2>1, <3>1 DEF BytesOfEntry
        <4> QED BY <4>1, Zenon
      <3>2. CASE Start(x) > Start(e)
        <4>1. Start(x) \in BytesOfEntry(x) /\ Start(x) \in First(v) .. First(v) + size - 1
          BY <1>1, <1>8, <1>9, <2>1, <3>2 DEF BytesOfEntry
        <4> QED BY <4>1, Zenon
      <3> QED BY <1>8, <1>9, <2>1, <3>1, <3>2
    <2> QED BY <1>8, <2>2, Zenon DEF FreeOK
  <1>14. e \notin live
    BY <1>1, <1>8, <1>9, <1>13, SMTT(30)
  <1>15. Common'
    <2>1. live' \subseteq array'
      BY <1>10, <1>12, <1>13, Zenon DEF Common
    <2>2. \A x \in live' : /\ x.val # 0 /\ x.len # 0
                           /\ leftMarginIndex' <= Start(x) /\ End(x) <= rightMargin'
      BY <1>2, <1>7, <1>8, <1>9, <1>10, Zenon DEF Common, leftMarginIndex
    <2> QED BY <1>2, <1>7, <1>12, <2>1, <2>2 DEF Common
  <1>16. FreeOK'
    <2>1. FreeBlocks' = C
      BY <1>2, <1>5, NewBlocks, Zenon
    <2>2. BytesOf(C) \intersect BytesOfEntry(e) = {}
      BY <1>1, <1>5, <1>8, <1>9, SMTT(30) DEF BytesOfEntry
    <2>3. \A x \in live' : BytesOf(C) \intersect BytesOfEntry(x) = {}
      BY <1>5, <1>10, <2>2, Zenon DEF FreeOK
    <2>4. BytesOf(C) \subseteq leftMarginIndex .. tail' - 1
      BY <1>2, <1>5, Zenon DEF FreeOK
    <2> QED BY <1>2, <1>5, <2>1, <2>3, <2>4, Zenon DEF FreeOK
  <1>17. Straight'
    BY <1>2, Zenon DEF Straight
  <1> QED BY <1>2, <1>10, <1>14, <1>15, <1>16, <1>17, Zenon

LEMMA Deleted ==
    ASSUME Common, FreeOK, Straight, count # 0, NEW e \in live, Delete(e), client' = client
    PROVE  Common' /\ FreeOK' /\ Straight' /\ live' = live \ {e} /\ count' = count - 1
  <1>1. PICK x \in array : /\ x.index = e.index
                           /\ freelist' = add(freelist, x.index, x.len + headerEntrySize)
    BY Zenon DEF Delete
  <1>2. /\ count' = count - 1 /\ live' = live \ {e}
        /\ array' = array /\ capacity' = capacity /\ head' = head /\ tail' = tail
        /\ rightMargin' = rightMargin /\ pushes' = pushes
    BY Zenon DEF Delete
  <1>3. /\ e \in array /\ e \in EntryType /\ x \in EntryType
        /\ Start(e) \in Nat /\ End(e) \in Nat /\ Start(e) + 4 <= End(e)
        /\ Start(x) \in Nat /\ End(x) \in Nat /\ Start(x) + 4 <= End(x)
        /\ End(x) = Start(x) + 4 + x.len
    BY Ends, Zenon DEF Common
  <1>4. x = e
    <2>1. Start(x) = Start(e)
      BY <1>1, Zenon DEF Start
    <2> QED BY <1>3, <2>1, SameEntry DEF Common
  <1> DEFINE size == End(e) - Start(e)
  <1>5. freelist' = add(ListOf(FreeBlocks), Start(e), size)
    <2>1. x.len + headerEntrySize = size
      BY <1>3, <1>4 DEF EntryType, headerEntrySize
    <2> QED BY <1>1, <1>4, <2>1, Zenon DEF FreeOK, Start
  <1>6. size \in Int /\ size > 0 /\ Start(e) + size - 1 = End(e) - 1 /\ Start(e) \in Int
    BY <1>3
  <1> HIDE DEF size
  <1>7. \A v \in FreeBlocks : Clear(v, Start(e), Start(e) + size - 1)
    <2> SUFFICES ASSUME NEW v \in FreeBlocks, ~Clear(v, Start(e), End(e) - 1) PROVE FALSE
      BY <1>6
    <2>1. v \in Item /\ v.actualSize > 0
      BY Zenon DEF FreeOK, Separate
    <2>2. First(v) \in Int /\ Last(v) \in Int /\ First(v) <= Last(v)
      BY <2>1 DEF First, Last, Item
    <2>3. \E p \in BytesOfEntry(e) : p \in First(v) .. Last(v)
      <3>1. CASE Start(e) <= First(v)
        <4>1. First(v) \in BytesOfEntry(e) /\ First(v) \in First(v) .. Last(v)
          BY <1>3, <2>2, <3>1 DEF BytesOfEntry, Clear
        <4> QED BY <4>1, Zenon
      <3>2. CASE Start(e) > First(v)
        <4>1. Start(e) \in BytesOfEntry(e) /\ Start(e) \in First(v) .. Last(v)
          BY <1>3, <2>2, <3>2 DEF BytesOfEntry, Clear
        <4> QED BY <4>1, Zenon
      <3> QED BY <1>3, <2>2, <3>1, <3>2
    <2>4. First(v) .. Last(v) \subseteq BytesOf(FreeBlocks)
      BY BlockBytes
    <2> QED BY <2>3, <2>4, Zenon DEF FreeOK
  <1>8. PICK C : /\ add(ListOf(FreeBlocks), Start(e), size) = ListOf(C)
                 /\ Separate(C)
                 /\ BytesOf(C) \subseteq BytesOf(FreeBlocks) \union BytesOfEntry(e)
    <2>1. Separate(FreeBlocks) /\ BytesOfEntry(e) = Start(e) .. Start(e) + size - 1
      BY <1>6, Zenon DEF FreeOK, BytesOfEntry
    <2> QED BY <1>6, <1>7, <2>1, AddKeepsOrder, ZenonT(60)
  <1>9. FreeBlocks' = C
    BY <1>5, <1>8, NewBlocks, Zenon
  <1>10. FreeOK'
    <2>1. ASSUME NEW y \in live' PROVE BytesOf(C) \intersect BytesOfEntry(y) = {}
      <3>1. y \in live /\ y # e /\ y \in array
        BY <1>2, Zenon DEF Common
      <3>2. Start(y) \in Nat /\ End(y) \in Nat
        BY <3>1, Ends, Zenon DEF Common
      <3>3. BytesOfEntry(e) \intersect BytesOfEntry(y) = {}
        BY <1>3, <3>1, <3>2 DEF Common, Packed, BytesOfEntry
      <3>4. BytesOf(FreeBlocks) \intersect BytesOfEntry(y) = {}
        BY <3>1, Zenon DEF FreeOK
      <3> QED BY <1>8, <3>3, <3>4, Zenon
    <2>2. BytesOf(C) \subseteq leftMarginIndex .. tail - 1
      <3>1. 1 <= Start(e) /\ End(e) <= tail /\ tail \in Nat
        BY Zenon DEF Common, Straight, leftMarginIndex
      <3>2. BytesOfEntry(e) \subseteq leftMarginIndex .. tail - 1
        BY <1>3, <3>1, SMTT(30) DEF BytesOfEntry, leftMarginIndex
      <3> QED BY <1>8, <3>2, Zenon DEF FreeOK
    <2> QED BY <1>2, <1>5, <1>8, <1>9, <2>1, <2>2, Zenon DEF FreeOK
  <1>11. Common'
    <2>1. live' \subseteq live /\ count - 1 \in Nat
      BY <1>2 DEF Common
    <2> QED BY <1>2, <2>1, Zenon DEF Common
  <1>12. Straight'
    BY <1>2 DEF Straight
  <1> QED BY <1>2, <1>10, <1>11, <1>12, SMTT(30)

-----------------------------------------------------------------------------
(* One step of the queue *)

LEMMA LeftIsRoomless ==
    ASSUME Straight, Common
    PROVE  availableSpaceBeforeHead < 0 /\ tail >= head
  BY DEF Straight, Common, availableSpaceBeforeHead, leftMarginIndex, minimumEmptyBlobSize, headerEntrySize

LEMMA Grown ==
    ASSUME Common, NEW len \in Nat, ~Full(len)
    PROVE  /\ GrownCapacity(len + headerEntrySize) \in Nat
           /\ capacity + len + 4 <= GrownCapacity(len + headerEntrySize)
  <1>1. MaxCapacity \in Nat /\ capacity \in Nat
    BY QueueAssumption, Zenon DEF MaxCapacity, Common
  <1> QED BY <1>1 DEF GrownCapacity, Full, headerEntrySize

\* A push that appends at the tail of an unwrapped queue.
LEMMA PushAppends ==
    ASSUME Common, head <= tail, rightMargin = tail, NEW len \in Nat,
           PushAfterTail(len) \/ PushAndGrow(len), client' = client
    PROVE  \E arr : AppendAtTail(arr, len)
  <1>1. /\ tail \in Nat /\ head \in Nat /\ capacity \in Nat /\ tail <= capacity /\ pushes \in Nat
        /\ tail >= head /\ ~(tail < head)
    BY DEF Common
  <1>2. End(Entry(tail, len, pushes + 1)) = tail + 4 + len
    BY <1>1, SMT DEF Entry, End, headerEntrySize
  <1>3. CASE PushAfterTail(len)
    <2>1. push(array, head, tail, rightMargin, count, len) /\ capacity' = capacity /\ tail + 4 + len <= capacity
      BY <1>1, <1>3, SMTT(30) DEF PushAfterTail, availableSpaceAfterTail, headerEntrySize
    <2>2. AppendAtTail(array, len)
      BY <1>1, <1>2, <2>1 DEF AppendAtTail, push, Pushed
    <2> QED BY <2>2
  <1>4. CASE PushAndGrow(len)
    <2> DEFINE copied == {x \in array : End(x) <= rightMargin}
    <2>1. push(copied, head, tail, rightMargin, count, len) /\ capacity' = GrownCapacity(len + headerEntrySize) /\ ~Full(len)
      BY <1>1, <1>4, Zenon DEF PushAndGrow
    <2>2. capacity' \in Nat /\ tail + 4 + len <= capacity'
      BY <1>1, <2>1, Grown
    <2>3. copied \subseteq array /\ \A x \in array : End(x) <= tail => x \in copied
      BY SMTT(30)
    <2> HIDE DEF copied
    <2>4. AppendAtTail(copied, len)
      BY <1>1, <1>2, <2>1, <2>2, <2>3, SMTT(30) DEF AppendAtTail, push, Pushed
    <2> QED BY <2>4, SMTT(30)
  <1> QED BY <1>3, <1>4

LEMMA PushOfRing ==
    ASSUME Common, FreeOK, Ring, NEW len \in Nat, len # 0, Push(len), client' = client
    PROVE  /\ Common' /\ FreeOK' /\ Ring'
           /\ \/ (\E x : x \notin Queued /\ Queued' = Queued \union {x}) /\ count' = count + 1
              \/ /\ \E x, y : /\ x \notin Queued /\ y \notin Queued \union {x}
                              /\ Queued' = (Queued \union {x}) \union {y}
                 /\ count' = count + 1 + 1
  <1>1. /\ tail \in Nat /\ head \in Nat /\ rightMargin \in Nat /\ capacity \in Nat
        /\ 1 <= head /\ 1 <= tail /\ rightMargin <= capacity /\ pushes \in Nat /\ client \in Clients
    BY Zenon DEF Common
  <1>2. ~PushIntoFree(len)
    <2>1. find(freelist, len + headerEntrySize) = {}
      <3> SUFFICES ASSUME NEW found \in find(ListOf({}), len + headerEntrySize) PROVE FALSE
        BY Zenon DEF Ring, FreeOK
      <3>1. len + headerEntrySize \in Int /\ len + headerEntrySize > 0
        BY DEF headerEntrySize
      <3> QED BY <3>1, EmptyList, FindKeepsOrder, Zenon
    <2> QED BY <2>1, Zenon DEF PushIntoFree
  <1>3. CASE head <= tail /\ (PushAfterTail(len) \/ PushAndGrow(len))
    <2>1. rightMargin = tail
      BY <1>1, <1>3, Zenon DEF Ring
    <2>2. PICK arr : AppendAtTail(arr, len)
      BY <1>3, <2>1, PushAppends, Zenon
    <2>3. count' = count + 1
      BY <2>2, Zenon DEF AppendAtTail
    <2> QED BY <1>3, <2>2, <2>3, AppendedRing, Zenon
  <1>4. CASE tail < head /\ PushAfterTail(len)
    <2>1. /\ push(array, head, tail, rightMargin, count, len) /\ capacity' = capacity
          /\ tail + 4 + len + 36 <= head
      BY <1>1, <1>4 DEF PushAfterTail, availableSpaceAfterTail, headerEntrySize, minimumEmptyBlobSize
    <2>2. End(Entry(tail, len, pushes + 1)) = tail + 4 + len
      BY <1>1, SMT, SMTT(30) DEF Entry, End, headerEntrySize
    <2>3. PushInFront(tail, len)
      BY <1>1, <1>4, <2>1, <2>2 DEF PushInFront, push, Pushed, headerEntrySize, minimumEmptyBlobSize
    <2>4. count' = count + 1
      BY <2>1, Zenon DEF push
    <2> QED BY <2>3, <2>4, PushedInFront, Zenon
  <1>5. CASE PushBeforeHead(len)
    <2>1. /\ head <= tail /\ push(array, head, 1, rightMargin, count, len) /\ capacity' = capacity
          /\ 1 + 4 + len + 36 <= head
      BY <1>1, <1>5 DEF PushBeforeHead, availableSpaceAfterTail, availableSpaceBeforeHead,
                        headerEntrySize, minimumEmptyBlobSize, leftMarginIndex
    <2>2. End(Entry(1, len, pushes + 1)) = 1 + 4 + len
      BY <1>1, SMT, SMTT(30) DEF Entry, End, headerEntrySize
    <2>3. PushInFront(1, len)
      BY <1>1, <2>1, <2>2 DEF PushInFront, push, Pushed, headerEntrySize, minimumEmptyBlobSize, leftMarginIndex
    <2>4. count' = count + 1
      BY <2>1, Zenon DEF push
    <2> QED BY <2>3, <2>4, PushedInFront, Zenon
  <1>6. CASE tail < head /\ PushAndGrow(len)
    <2> DEFINE arr == Write({x \in array : End(x) <= rightMargin}, Entry(tail, head - tail - headerEntrySize, 0))
    <2>1. rightMargin # leftMarginIndex
      BY <1>1, <1>6 DEF Ring, leftMarginIndex
    <2>2. /\ push(arr, leftMarginIndex, rightMargin, rightMargin, count + 1, len)
          /\ capacity' = GrownCapacity(len + headerEntrySize) /\ ~Full(len)
      BY <1>6, <2>1, Zenon DEF PushAndGrow
    <2>3. capacity' \in Nat /\ rightMargin + 4 + len <= capacity'
      BY <1>1, <2>2, Grown
    <2>4. End(Entry(rightMargin, len, pushes + 1)) = rightMargin + 4 + len
      BY <1>1, SMT DEF Entry, End, headerEntrySize
    <2>5. rightMargin + 4 + len > leftMarginIndex
      BY <1>1, SMTT(30) DEF leftMarginIndex
    <2>6. GrowWrapped(len)
      BY <1>6, <2>2, <2>3, <2>4, <2>5, Zenon DEF GrowWrapped, push, Pushed
    <2>7. count' = count + 1 + 1
      BY <2>6, Zenon DEF GrowWrapped
    <2> QED BY <2>6, <2>7, GrownWrapped, Zenon
  <1> QED BY <1>1, <1>2, <1>3, <1>4, <1>5, <1>6 DEF Push

LEMMA PushOfStraight ==
    ASSUME Common, FreeOK, Straight, NEW len \in Nat, len # 0, Push(len), client' = client
    PROVE  /\ Common' /\ FreeOK' /\ Straight'
           /\ \E e : e \notin live /\ live' = live \union {e} /\ count' = count + 1
  <1>1. CASE PushIntoFree(len)
    BY <1>1, PushedIntoFree, Zenon
  <1>2. CASE PushAfterTail(len) \/ PushAndGrow(len)
    <2>1. head <= tail /\ rightMargin = tail
      BY LeftIsRoomless, Zenon DEF Straight, Common
    <2>2. PICK arr : AppendAtTail(arr, len)
      BY <1>2, <2>1, PushAppends, Zenon
    <2>3. /\ Common' /\ FreeOK' /\ Straight'
          /\ Entry(tail, len, pushes + 1) \notin live
      BY <2>2, AppendedStraight, Zenon
    <2> QED BY <2>2, <2>3, Zenon DEF AppendAtTail
  <1>3. CASE PushBeforeHead(len)
    <2>1. availableSpaceBeforeHead \in Int /\ availableSpaceBeforeHead < 0
      BY LeftIsRoomless DEF Straight, Common, availableSpaceBeforeHead, leftMarginIndex,
                            minimumEmptyBlobSize, headerEntrySize
    <2> QED BY <1>3, <2>1, SMTT(30) DEF PushBeforeHead, headerEntrySize
  <1> QED BY <1>1, <1>2, <1>3, Zenon DEF Push

(* Every step keeps every entry and every free block in its place, and the *)
(* count in step with what is held.                                        *)
LEMMA NextPlaced ==
    ASSUME Placed, count # 0 => Held # {}, [Next]_vars
    PROVE  Placed' /\ Tally
  <1>1. CASE UNCHANGED vars
    <2>1. Common' /\ FreeOK' /\ (Straight => Straight') /\ Held' = Held /\ count' = count /\ client' = client
      BY <1>1, Zenon DEF vars, queueVars, Placed, Common, FreeOK, Straight, Held, FreeBlocks, Queued, InUse
    <2>2. Ring => Ring'
      <3>1. FreeBlocks' = FreeBlocks /\ Queued' = Queued
        BY <1>1, Zenon DEF vars, queueVars, FreeBlocks, Queued, InUse
      <3>2. \A x : Chained(x) => Chained(x)'
        BY <1>1, <3>1, Zenon DEF vars, queueVars, Chained, PartEnd
      <3> QED BY <1>1, <3>1, <3>2, Zenon DEF vars, queueVars, Ring
    <2> QED BY <2>1, <2>2, Zenon DEF Placed, Tally
  <1>2. CASE Next /\ client.uses \subseteq {"Delete"}
    <2>1. Common /\ FreeOK /\ Straight /\ Held = live /\ client' = client /\ Held' = live' /\ client \in Clients
      BY <1>2, Zenon DEF Placed, Held, Next, Common
    <2> SUFFICES Common' /\ FreeOK' /\ Straight' /\ Tally
      BY <1>2, <2>1, Zenon DEF Placed
    <2>2. CASE \E len \in client.lens : Push(len)
      <3>1. PICK len \in client.lens : Push(len)
        BY <2>2, Zenon
      <3>2. /\ Common' /\ FreeOK' /\ Straight'
            /\ \E e : e \notin live /\ live' = live \union {e} /\ count' = count + 1
        BY <2>1, <3>1, LengthOfClient, PushOfStraight, Zenon
      <3> QED BY <2>1, <3>2, Zenon DEF Tally
    <2>3. CASE \E e \in live : Delete(e)
      <3>1. PICK e \in live : Delete(e)
        BY <2>3
      <3>2. count # 0
        BY <3>1, Zenon DEF Delete, Readable
      <3> QED BY <2>1, <3>1, <3>2, Deleted, Zenon DEF Tally
    <2>4. ~Pop /\ ~Reset
      BY <1>2, Zenon DEF Pop, Reset
    <2> QED BY <1>2, <2>2, <2>3, <2>4, ZenonT(60) DEF Next
  <1>3. CASE Next /\ ~(client.uses \subseteq {"Delete"})
    <2>1. /\ Common /\ FreeOK /\ Ring /\ Held = Queued /\ client' = client /\ Held' = Queued' /\ client \in Clients
          /\ client.uses \subseteq {"Pop", "Reset"}
      BY <1>3, ClientAssumption, Zenon DEF Placed, Held, Next, Common
    <2> SUFFICES Common' /\ FreeOK' /\ Ring' /\ Tally
      BY <1>3, <2>1, Zenon DEF Placed
    <2>2. CASE \E len \in client.lens : Push(len)
      <3>1. PICK len \in client.lens : Push(len)
        BY <2>2
      <3>2. /\ Common' /\ FreeOK' /\ Ring'
            /\ \/ (\E x : x \notin Queued /\ Queued' = Queued \union {x}) /\ count' = count + 1
               \/ /\ \E x, y : /\ x \notin Queued /\ y \notin Queued \union {x}
                               /\ Queued' = (Queued \union {x}) \union {y}
                  /\ count' = count + 1 + 1
        BY <2>1, <3>1, LengthOfClient, PushOfRing, Zenon
      <3> QED BY <2>1, <3>2, Zenon DEF Tally
    <2>3. CASE Pop
      <3>1. Queued # {} /\ count' = count - 1
        BY <2>1, <2>3, Zenon DEF Pop, Readable
      <3> QED BY <2>1, <2>3, <3>1, Popped, Zenon DEF Tally
    <2>4. CASE Reset
      <3>1. count' = 0
        BY <2>4, Zenon DEF Reset
      <3> QED BY <2>1, <2>4, <3>1, ResetRing, Zenon DEF Tally
    <2>5. \A e : ~Delete(e)
      BY <2>1, Zenon DEF Delete
    <2> QED BY <1>3, <2>2, <2>3, <2>4, <2>5, ZenonT(60) DEF Next
  <1> QED BY <1>1, <1>2, <1>3, SMTT(30)

-----------------------------------------------------------------------------
(* The count *)

\* The set has n elements: they can be numbered from 1 to n, each once.
Numbered(S, n) ==
    \E f \in [1 .. n -> S] : \A x \in S : \E i \in 1 .. n : \A j \in 1 .. n : f[j] = x <=> j = i

LEMMA NumberedNone ==
    ASSUME NEW S, NEW n \in Nat, Numbered(S, n)
    PROVE  n = 0 <=> S = {}
  <1>1. PICK f \in [1 .. n -> S] : \A x \in S : \E i \in 1 .. n : \A j \in 1 .. n : f[j] = x <=> j = i
    BY Zenon DEF Numbered
  <1>2. CASE n = 0
    BY <1>1, <1>2
  <1>3. CASE n # 0
    BY <1>1, <1>3
  <1> QED BY <1>2, <1>3

LEMMA NumberedEmpty == Numbered({}, 0)
  <1>1. [i \in 1 .. 0 |-> i] \in [1 .. 0 -> {}]
    OBVIOUS
  <1> QED BY <1>1, Zenon DEF Numbered

LEMMA NumberedMore ==
    ASSUME NEW S, NEW n \in Nat, Numbered(S, n), NEW e, e \notin S
    PROVE  Numbered(S \union {e}, n + 1)
  <1>1. PICK f \in [1 .. n -> S] : \A x \in S : \E i \in 1 .. n : \A j \in 1 .. n : f[j] = x <=> j = i
    BY Zenon DEF Numbered
  <1> DEFINE g == [i \in 1 .. n + 1 |-> IF i = n + 1 THEN e ELSE f[i]]
  <1>2. g \in [1 .. n + 1 -> S \union {e}]
    OBVIOUS
  <1>3. ASSUME NEW x \in S \union {e}
        PROVE  \E i \in 1 .. n + 1 : \A j \in 1 .. n + 1 : g[j] = x <=> j = i
    <2>1. CASE x = e
      <3>1. \A j \in 1 .. n + 1 : g[j] = x <=> j = n + 1
        BY <2>1
      <3> QED BY <3>1
    <2>2. CASE x \in S
      <3>1. PICK i \in 1 .. n : \A j \in 1 .. n : f[j] = x <=> j = i
        BY <1>1, <2>2, Zenon
      <3>2. \A j \in 1 .. n + 1 : g[j] = x <=> j = i
        BY <2>2, <3>1
      <3>3. i \in 1 .. n + 1
        OBVIOUS
      <3> QED BY <3>2, <3>3, Zenon
    <2> QED BY <2>1, <2>2, Zenon
  <1> HIDE DEF g
  <1> QED BY <1>2, <1>3, Zenon DEF Numbered

LEMMA NumberedLess ==
    ASSUME NEW S, NEW n \in Nat, Numbered(S, n), NEW z \in S
    PROVE  n - 1 \in Nat /\ Numbered(S \ {z}, n - 1)
  <1>1. PICK f \in [1 .. n -> S] : \A x \in S : \E i \in 1 .. n : \A j \in 1 .. n : f[j] = x <=> j = i
    BY Zenon DEF Numbered
  <1>2. PICK p \in 1 .. n : \A j \in 1 .. n : f[j] = z <=> j = p
    BY <1>1, Zenon
  <1> DEFINE g == [i \in 1 .. n - 1 |-> IF i = p THEN f[n] ELSE f[i]]
  <1>3. n - 1 \in Nat
    BY <1>2
  <1>4. g \in [1 .. n - 1 -> S \ {z}]
    <2> SUFFICES ASSUME NEW i \in 1 .. n - 1 PROVE (IF i = p THEN f[n] ELSE f[i]) \in S \ {z}
      BY Zenon
    <2>1. i \in 1 .. n /\ n \in 1 .. n /\ i # n
      BY <1>3
    <2> QED BY <1>1, <1>2, <2>1, Zenon
  <1>5. ASSUME NEW x \in S \ {z}
        PROVE  \E i \in 1 .. n - 1 : \A j \in 1 .. n - 1 : g[j] = x <=> j = i
    <2>1. PICK i \in 1 .. n : \A j \in 1 .. n : f[j] = x <=> j = i
      BY <1>1, Zenon
    <2>2. i # p
      BY <1>2, <2>1
    <2>3. CASE i = n
      <3>1. p \in 1 .. n - 1
        BY <2>2, <2>3
      <3>2. ASSUME NEW j \in 1 .. n - 1 PROVE g[j] = x <=> j = p
        <4>1. j \in 1 .. n /\ j # n /\ n \in 1 .. n
          BY <1>3
        <4> QED BY <2>1, <2>3, <4>1, Zenon
      <3> QED BY <3>1, <3>2, Zenon
    <2>4. CASE i # n
      <3>1. i \in 1 .. n - 1
        BY <2>4
      <3>2. ASSUME NEW j \in 1 .. n - 1 PROVE g[j] = x <=> j = i
        <4>1. j \in 1 .. n /\ n \in 1 .. n
          BY <1>3
        <4> QED BY <2>1, <2>2, <2>4, <4>1, Zenon
      <3> QED BY <3>1, <3>2, Zenon
    <2> QED BY <2>3, <2>4, Zenon
  <1> HIDE DEF g
  <1> QED BY <1>3, <1>4, <1>5, Zenon DEF Numbered

Counted == Numbered(Held, count)

IInv == Placed /\ Counted

LEMMA NothingHeld ==
    ASSUME IInv
    PROVE  count = 0 <=> Held = {}
  BY NumberedNone, Zenon DEF IInv, Counted, Placed, Common

LEMMA TallyCounts ==
    ASSUME IInv, Tally
    PROVE  Counted'
  <1>0. count \in Nat /\ Numbered(Held, count)
    BY Zenon DEF IInv, Counted, Placed, Common
  <1>1. CASE \E e : e \notin Held /\ Held' = Held \union {e} /\ count' = count + 1
    <2>1. PICK e : e \notin Held /\ Held' = Held \union {e} /\ count' = count + 1
      BY <1>1
    <2> QED BY <1>0, <2>1, NumberedMore, Zenon DEF Counted
  <1>2. CASE \E b, e : /\ b \notin Held /\ e \notin Held \union {b}
                       /\ Held' = (Held \union {b}) \union {e} /\ count' = count + 1 + 1
    <2>1. PICK b, e : /\ b \notin Held /\ e \notin Held \union {b}
                      /\ Held' = (Held \union {b}) \union {e} /\ count' = count + 1 + 1
      BY <1>2, Zenon
    <2>2. Numbered(Held \union {b}, count + 1) /\ count + 1 \in Nat
      BY <1>0, <2>1, NumberedMore
    <2> QED BY <2>1, <2>2, NumberedMore, Zenon DEF Counted
  <1>3. CASE \E z \in Held : Held' = Held \ {z} /\ count' = count - 1
    <2>1. PICK z \in Held : Held' = Held \ {z} /\ count' = count - 1
      BY <1>3
    <2> QED BY <1>0, <2>1, NumberedLess, Zenon DEF Counted
  <1>4. CASE Held' = {} /\ count' = 0
    BY <1>4, NumberedEmpty DEF Counted
  <1>5. CASE Held' = Held /\ count' = count
    BY <1>0, <1>5 DEF Counted
  <1> QED BY <1>1, <1>2, <1>3, <1>4, <1>5, Zenon DEF Tally

LEMMA Invariant == Spec => []IInv
  <1>1. Init => IInv
    BY InitPlaced, NumberedEmpty DEF IInv, Counted
  <1>2. IInv /\ [Next]_vars => IInv'
    BY NothingHeld, NextPlaced, TallyCounts, Zenon DEF IInv
  <1> QED BY <1>1, <1>2, PTL DEF Spec

-----------------------------------------------------------------------------
(* What follows in every state *)

LEMMA LiveHeld ==
    ASSUME Placed
    PROVE  live \subseteq Held
  BY Zenon DEF Placed, Held, Ring

LEMMA TypeFollows ==
    ASSUME IInv
    PROVE  QueueTypeOK
  <1>1. Common /\ freelist = ListOf(FreeBlocks) /\ Separate(FreeBlocks)
    BY Zenon DEF IInv, Placed, FreeOK
  <1>2. Listed \subseteq FreeBlocks
    BY <1>1, Zenon DEF Listed, ListOf, ListsOf
  <1>3. \A v \in FreeBlocks \union Listed : v \in Item /\ v.actualSize > 0
    BY <1>1, <1>2, Zenon DEF Separate
  <1> QED BY <1>1, <1>3, Zenon DEF Common, QueueTypeOK

LEMMA ReadBackFollows ==
    ASSUME IInv
    PROVE  ReadBack
  <1>1. Common /\ (count # 0 \/ live = {})
    BY LiveHeld, NothingHeld, Zenon DEF IInv, Placed
  <1>2. ASSUME NEW e \in live PROVE e \in array /\ Readable(e.index) /\ End(e) <= capacity
    <2>1. /\ e \in array /\ Start(e) \in Nat /\ End(e) \in Nat /\ End(e) = Start(e) + 4 + e.len
          /\ 1 <= Start(e) /\ End(e) <= capacity /\ e.len \in Nat /\ e.len # 0
          /\ count # 0 /\ capacity \in Nat
      <3>1. Common /\ count # 0 /\ e \in array /\ e \in EntryType
        BY <1>1, Zenon DEF IInv, Placed, Common
      <3>2. e.len \in Nat
        BY <3>1 DEF EntryType
      <3> QED BY <3>1, <3>2, Ends, SMTT(30) DEF Common, leftMarginIndex
    <2> QED BY <2>1 DEF Readable, Start, headerEntrySize
  <1> QED BY <1>2, Zenon DEF ReadBack

LEMMA ApartFollows ==
    ASSUME IInv
    PROVE  FreeBlocksApart
  <1>1. Common /\ FreeOK
    BY Zenon DEF IInv, Placed
  <1>2. ASSUME NEW v \in FreeBlocks
        PROVE  /\ First(v) \in Int /\ Last(v) \in Int /\ First(v) <= Last(v)
               /\ First(v) .. Last(v) \subseteq BytesOf(FreeBlocks)
    <2>1. v \in Item /\ v.actualSize > 0
      BY <1>1, Zenon DEF FreeOK, Separate
    <2> QED BY <2>1, BlockBytes DEF First, Last, Item
  <1>3. ASSUME NEW v \in FreeBlocks PROVE First(v) >= leftMarginIndex /\ Last(v) < tail
    <2>1. First(v) \in leftMarginIndex .. tail - 1 /\ Last(v) \in leftMarginIndex .. tail - 1
      BY <1>1, <1>2 DEF FreeOK
    <2> QED BY <1>1, <1>2, <2>1, SMTT(30) DEF Common, leftMarginIndex
  <1>4. ASSUME NEW v \in FreeBlocks, NEW e \in live
        PROVE  Apart(First(v), Last(v), Start(e), End(e) - 1)
    <2>1. Start(e) \in Nat /\ End(e) \in Nat /\ Start(e) + 4 <= End(e)
      BY <1>1, Ends, Zenon DEF Common
    <2> SUFFICES ASSUME Start(e) <= Last(v), First(v) <= End(e) - 1 PROVE FALSE
      BY <1>2, <2>1 DEF Apart
    <2>2. CASE Start(e) <= First(v)
      <3>1. First(v) \in BytesOfEntry(e) /\ First(v) \in BytesOf(FreeBlocks)
        BY <1>2, <2>1, <2>2, SMTT(30) DEF BytesOfEntry
      <3> QED BY <1>1, <3>1, Zenon DEF FreeOK
    <2>3. CASE Start(e) > First(v)
      <3>1. Start(e) \in BytesOfEntry(e) /\ Start(e) \in BytesOf(FreeBlocks)
        BY <1>2, <2>1, <2>3, SMTT(30) DEF BytesOfEntry
      <3> QED BY <1>1, <3>1, Zenon DEF FreeOK
    <2> QED BY <1>2, <2>1, <2>2, <2>3, SMTT(30)
  <1>5. \A v, w \in FreeBlocks : v # w => Apart(First(v), Last(v), First(w), Last(w))
    BY <1>1, Zenon DEF FreeOK, Separate, Clear, Apart
  <1> QED BY <1>3, <1>4, <1>5, Zenon DEF FreeBlocksApart

LEMMA ListsFollow ==
    ASSUME IInv
    PROVE  ListsMatchTree
  <1> DEFINE B == FreeBlocks
  <1>1. freelist = ListOf(B) /\ Separate(B)
    BY Zenon DEF IInv, Placed, FreeOK
  <1> HIDE DEF B
  <1>2. \A c \in Classes : freelist.sizeList[c] = {v \in B : c \in ClassOf(v.actualSize)}
    BY <1>1, Zenon DEF ListOf, ListsOf
  <1>3. \A v \in B : /\ TreeGet(freelist.indexTree, First(v)) = {v}
                     /\ TreeGet(freelist.indexTree, Last(v)) = {v}
    BY <1>1, GetAtEnd, Zenon DEF ListOf
  <1>4. ASSUME NEW x \in freelist.indexTree
        PROVE  x.item \in B /\ x.pos \in {First(x.item), Last(x.item)}
    BY <1>1 DEF ListOf, TreeOf
  <1>5. ASSUME NEW v \in B PROVE v \in Listed \/ ClassOf(v.actualSize) = {}
    <2> SUFFICES ASSUME NEW c \in ClassOf(v.actualSize) PROVE v \in Listed
      OBVIOUS
    <2> QED BY <1>2, ClassIsClass, Zenon DEF Listed
  <1> QED BY <1>2, <1>3, <1>4, <1>5, Zenon DEF ListsMatchTree

LEMMA HeadFollows ==
    ASSUME IInv
    PROVE  HeadIsEntry
  <1> SUFFICES ASSUME "Pop" \in client.uses
               PROVE  IF count = 0 THEN live = {} ELSE \E x \in EntryAtHead : x \in live \/ x.val = 0
    BY Zenon DEF HeadIsEntry
  <1>1. ~(client.uses \subseteq {"Delete"})
    OBVIOUS
  <1>2. Common /\ Ring /\ Held = Queued /\ (count = 0 <=> Queued = {})
    BY <1>1, NothingHeld, Zenon DEF IInv, Placed, Held
  <1>3. CASE count = 0
    BY <1>2, <1>3, Zenon DEF Ring
  <1>4. CASE count # 0
    <2>1. PICK x \in Queued : TRUE
      BY <1>2, <1>4, Zenon
    <2>2. head # tail
      <3>1. Start(x) \in Nat
        BY <1>2, Ends, Zenon DEF Common, Queued
      <3>2. InUse(Start(x))
        BY <2>1, Zenon DEF Queued
      <3>3. head \in Nat /\ tail \in Nat
        BY <1>2, Zenon DEF Common
      <3> QED BY <3>1, <3>2, <3>3 DEF InUse
    <2>3. PICK y \in Queued : Start(y) = head
      BY <1>2, <2>2, Zenon DEF Ring
    <2>4. y \in EntryAtHead /\ (y \in live \/ y.val = 0)
      BY <1>2, <2>3, Zenon DEF EntryAtHead, Queued, Start, Ring
    <2> QED BY <1>4, <2>4, Zenon
  <1> QED BY <1>3, <1>4, Zenon

-----------------------------------------------------------------------------
(* The theorems *)

(* The variables of bytes_queue.go and freeList.go keep their types, and   *)
(* no block of the free list is empty.                                     *)
THEOREM QueueTypes == Spec => []QueueTypeOK
  BY Invariant, TypeFollows, PTL

(* Get on the index of an entry that was not removed yields that entry,    *)
(* whatever was pushed, deleted, popped or grown since.                    *)
THEOREM EntriesReadBack == Spec => []ReadBack
  BY Invariant, ReadBackFollows, PTL

(* Free blocks overlap neither an entry in use nor each other, and lie in  *)
(* the used part of the array: add and find never hand out a byte twice.   *)
THEOREM BlocksApart == Spec => []FreeBlocksApart
  BY Invariant, ApartFollows, PTL

(* The size lists and the position tree of the free list agree.            *)
THEOREM ListsAgree == Spec => []ListsMatchTree
  BY Invariant, ListsFollow, PTL

(* Pop finds an entry with its header intact at the head while the queue   *)
(* counts any.                                                             *)
THEOREM PopFindsEntry == Spec => []HeadIsEntry
  BY Invariant, HeadFollows, PTL

-----------------------------------------------------------------------------
(* The refinement: the queue is an EntryStore *)

ReadsLive ==
    /\ DOMAIN contents = {e.index : e \in live}
    /\ \A e \in live : contents[e.index] = e.val /\ e.val # 0
    /\ \A e, f \in live : e.index = f.index => e = f

LEMMA ContentsAre == IInv => ReadsLive
  <1> SUFFICES ASSUME IInv PROVE ReadsLive
    OBVIOUS
  <1>1. ASSUME NEW e \in live, NEW x \in array, x.index = e.index PROVE x = e
    <2>1. Common /\ e \in array /\ e \in EntryType
      BY Zenon DEF IInv, Placed, Common
    <2>2. Start(x) = Start(e) /\ Start(e) \in Nat /\ End(x) \in Nat /\ Start(x) + 4 <= End(x)
      BY <1>1, <2>1, Ends, Zenon DEF Common, Start
    <2> QED BY <2>1, <2>2, SameEntry, SMTT(30) DEF Common
  <1>2. ASSUME NEW e \in live PROVE contents[e.index] = e.val /\ e.val # 0
    <2>1. e \in array /\ Readable(e.index) /\ e.val # 0
      BY ReadBackFollows, Zenon DEF ReadBack, IInv, Placed, Common
    <2>2. {x \in array : x.index = e.index /\ Readable(e.index)} = {e}
      BY <1>1, <2>1, Zenon
    <2>3. {x.val : x \in {y \in array : y.index = e.index /\ Readable(e.index)}} = {e.val}
      BY <2>2, Zenon
    <2>4. Read(e.index) = e.val
      BY <2>3, Zenon DEF Read
    <2> QED BY <2>1, <2>4, Zenon DEF contents
  <1>3. \A e, f \in live : e.index = f.index => e = f
    BY <1>1, Zenon DEF IInv, Placed, Common
  <1> QED BY <1>2, <1>3, Zenon DEF contents, ReadsLive

LEMMA ContentsStay == IInv' => ReadsLive'
  BY ContentsAre, PTL

LEMMA PushStores ==
    ASSUME IInv, IInv', NEW e, e \notin live, live' = live \union {e}
    PROVE  Store!Push
  <1> DEFINE i == e.index
  <1>1. /\ DOMAIN contents = {x.index : x \in live}
        /\ \A x \in live : contents[x.index] = x.val
    BY ContentsAre, Zenon DEF ReadsLive
  <1>2. /\ DOMAIN contents' = {x.index : x \in live'}
        /\ \A x \in live' : contents'[x.index] = x.val /\ x.val # 0
        /\ \A x, y \in live' : x.index = y.index => x = y
    BY ContentsStay, Zenon DEF ReadsLive
  <1>3. i \in DOMAIN contents' \ DOMAIN contents /\ contents'[i] # 0
    BY <1>1, <1>2, Zenon
  <1>4. DOMAIN contents' = DOMAIN contents \union {i}
    BY <1>1, <1>2, Zenon
  <1>5. \A j \in DOMAIN contents' : contents'[j] = IF j = i THEN contents'[i] ELSE contents[j]
    <2> SUFFICES ASSUME NEW j \in DOMAIN contents', j # i PROVE contents'[j] = contents[j]
      BY Zenon
    <2>1. PICK x \in live' : x.index = j
      BY <1>2, Zenon
    <2>2. x \in live
      BY <2>1, Zenon
    <2> QED BY <1>1, <1>2, <2>1, <2>2, Zenon
  <1>6. contents' = [j \in DOMAIN contents' |-> contents'[j]]
    BY Zenon DEF contents
  <1> HIDE DEF i
  <1>7. contents' = [j \in DOMAIN contents \union {i} |-> IF j = i THEN contents'[i] ELSE contents[j]]
    BY <1>4, <1>5, <1>6, Zenon
  <1> QED BY <1>3, <1>7, Zenon DEF Store!Push, Store!Indexes, Store!Lost

LEMMA RemoveStores ==
    ASSUME IInv, IInv', NEW e \in live, live' = live \ {e}
    PROVE  Store!Remove
  <1> DEFINE i == e.index
  <1>1. /\ DOMAIN contents = {x.index : x \in live}
        /\ \A x \in live : contents[x.index] = x.val
        /\ \A x, y \in live : x.index = y.index => x = y
    BY ContentsAre, Zenon DEF ReadsLive
  <1>2. /\ DOMAIN contents' = {x.index : x \in live'}
        /\ \A x \in live' : contents'[x.index] = x.val
    BY ContentsStay, Zenon DEF ReadsLive
  <1>3. i \in DOMAIN contents
    BY <1>1, Zenon
  <1>4. DOMAIN contents' = DOMAIN contents \ {i}
    BY <1>1, <1>2
  <1>5. \A j \in DOMAIN contents' : contents'[j] = contents[j]
    BY <1>1, <1>2
  <1>6. contents' = [j \in DOMAIN contents' |-> contents'[j]]
    BY Zenon DEF contents
  <1> HIDE DEF i
  <1>7. contents' = [j \in DOMAIN contents \ {i} |-> contents[j]]
    BY <1>4, <1>5, <1>6, Zenon
  <1> QED BY <1>3, <1>7, Zenon DEF Store!Remove, Store!Indexes

LEMMA SameStores ==
    ASSUME IInv, IInv', live' = live
    PROVE  contents' = contents
  <1>1. DOMAIN contents = {x.index : x \in live} /\ \A x \in live : contents[x.index] = x.val
    BY ContentsAre, Zenon DEF ReadsLive
  <1>2. DOMAIN contents' = {x.index : x \in live'} /\ \A x \in live' : contents'[x.index] = x.val
    BY ContentsStay, Zenon DEF ReadsLive
  <1>3. DOMAIN contents' = DOMAIN contents /\ \A j \in DOMAIN contents : contents'[j] = contents[j]
    BY <1>1, <1>2, Zenon
  <1>4. contents' = [j \in DOMAIN contents' |-> contents'[j]] /\ contents = [j \in DOMAIN contents |-> contents[j]]
    BY Zenon DEF contents
  <1> QED BY <1>3, <1>4

LEMMA StepStores ==
    ASSUME IInv, IInv', [Next]_vars
    PROVE  [Store!Next]_contents
  <1>1. \/ live' = live
        \/ \E e : live' = live \union {e}
        \/ \E e : live' = live \ {e}
        \/ live' = {}
    <2>1. CASE UNCHANGED vars
      BY <2>1, Zenon DEF vars
    <2>2. CASE \E len \in client.lens : Push(len)
      BY <2>2, Zenon DEF Push, PushIntoFree, PushAfterTail, PushBeforeHead, PushAndGrow, push, Pushed
    <2>3. CASE \E e \in live : Delete(e)
      BY <2>3, Zenon DEF Delete
    <2>4. CASE Pop
      BY <2>4, Zenon DEF Pop
    <2>5. CASE Reset
      BY <2>5, Zenon DEF Reset
    <2> QED BY <2>1, <2>2, <2>3, <2>4, <2>5, ZenonT(60) DEF Next
  <1>2. CASE live' = live
    BY <1>2, SameStores, SMTT(30)
  <1>3. CASE live' # live /\ \E e : live' = live \union {e}
    <2>1. PICK e : live' = live \union {e}
      BY <1>3
    <2>2. e \notin live
      BY <1>3, <2>1, SMTT(30)
    <2> QED BY <2>1, <2>2, PushStores, SMTT(30) DEF Store!Next
  <1>4. CASE live' # live /\ \E e : live' = live \ {e}
    <2>1. PICK e : live' = live \ {e}
      BY <1>4
    <2>2. e \in live
      BY <1>4, <2>1, SMTT(30)
    <2> QED BY <2>1, <2>2, RemoveStores, SMTT(30) DEF Store!Next
  <1>5. CASE live' = {}
    BY <1>5, Zenon DEF Store!Next, Store!Reset, Store!Lost, contents
  <1> QED BY <1>1, <1>2, <1>3, <1>4, <1>5, Zenon

(* The byte queue implements the store the shard relies on: every push     *)
(* hands out an index that is not in use, and no push, growth, delete, pop *)
(* or reset changes what is read under another index in use.               *)
THEOREM QueueIsStore == Spec => ImplementsStore
  <1>1. Init => Store!Init
    BY Zenon DEF Init, Store!Init, Store!Lost, contents
  <1>2. IInv /\ IInv' /\ [Next]_vars => [Store!Next]_contents
    BY StepStores
  <1> QED BY <1>1, <1>2, Invariant, PTL DEF Spec, ImplementsStore, Store!Spec
=============================================================================
