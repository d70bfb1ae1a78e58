----------------------------- MODULE BytesQueue -----------------------------
(***************************************************************************)
(* The byte queue a shard keeps its entries in                             *)
(* (bigcache/queue/bytes_queue.go) with its free list (module FreeList).   *)
(*                                                                         *)
(* The byte array is the set of the entries that can be read from it whole *)
(* (position, length, contents); writing an entry destroys those whose     *)
(* bytes it overwrites.  Lengths and positions are real byte counts.  The  *)
(* contents of the n-th pushed entry are the number n, those of the empty  *)
(* blob that fills a gap are 0.                                            *)
(*                                                                         *)
(* live is what the client knows: the entries it has pushed and neither    *)
(* deleted nor popped.  The cache shard uses Push and Delete, the queue's  *)
(* own doc describes Push and Pop.                                         *)
(***************************************************************************)
EXTENDS FreeList

CONSTANTS InitialCapacity,
          Clients       \* the clients explored: records with fields
                        \*   lens: lengths of the entries it pushes
                        \*   maxCapacity: of its queue, 0 is no limit
                        \*   uses: operations it calls besides Push
                        \*   pushes: bound on the number of entries

ASSUME QueueAssumption ==
    /\ InitialCapacity \in Nat \ {0}
    /\ \A c \in Clients : /\ c.lens \subseteq Nat
                          /\ c.maxCapacity \in Nat /\ c.pushes \in Nat
                          /\ c.uses \subseteq {"Delete", "Pop", "Reset"}

(* A client that frees entries out of order does not pop or reset as well: *)
(* Reset keeps the free list, so that blocks are left behind the new tail  *)
(* (CacheShard has what that does to a shard), and Pop puts none into it.  *)
(* No client pushes empty entries: peek refuses one at the very end of the *)
(* array.  The shard's entries have a header.                              *)
ASSUME ClientAssumption ==
    \A c \in Clients :
        /\ 0 \notin c.lens
        /\ c.uses \subseteq {"Delete"} \/ c.uses \subseteq {"Pop", "Reset"}

VARIABLES client,
          array,        \* entries readable from the byte array
          capacity, head, tail, rightMargin, count,
          freelist,
          live,         \* the client's entries
          pushes        \* number of entries pushed

queueVars == <<array, capacity, head, tail, rightMargin, count, freelist>>
vars == <<client, queueVars, live, pushes>>

MaxCapacity == client.maxCapacity

headerEntrySize == 4
leftMarginIndex == 1
minimumEmptyBlobSize == 32 + headerEntrySize

Entry(index, len, val) == [index |-> index, len |-> len, val |-> val]

Start(e) == e.index
End(e) == e.index + headerEntrySize + e.len    \* exclusive

\* Copying an entry into the array.
Write(arr, e) == {x \in arr : End(x) <= Start(e) \/ End(e) <= Start(x)} \union {e}

-----------------------------------------------------------------------------
(* Push *)

\* The room is always counted up to the end of the array.
MutAvailableSpaceAfterTail == capacity - tail

availableSpaceAfterTail ==
    IF tail >= head THEN capacity - tail ELSE head - tail - minimumEmptyBlobSize

availableSpaceBeforeHead ==
    IF tail >= head THEN head - leftMarginIndex - minimumEmptyBlobSize
                    ELSE head - tail - minimumEmptyBlobSize

Pushed(index, len) ==
    /\ pushes < client.pushes
    /\ pushes' = pushes + 1
    /\ live' = live \union {Entry(index, len, pushes + 1)}

PushIntoFree(len) ==
    \E found \in find(freelist, len + headerEntrySize) :
        /\ Pushed(found.index, len)
        /\ array' = Write(array, Entry(found.index, len, pushes + 1))
        /\ freelist' = found.list
        /\ count' = count + 1
        /\ UNCHANGED <<capacity, head, tail, rightMargin>>

\* push: an entry at position t, the margin and the count brought up to date.
push(arr, h, t, margin, n, len) ==
    LET e == Entry(t, len, pushes + 1) IN
    /\ Pushed(t, len)
    /\ array' = Write(arr, e)
    /\ head' = h
    /\ tail' = End(e)
    /\ rightMargin' = IF End(e) > h THEN End(e) ELSE margin
    /\ count' = n + 1
    /\ UNCHANGED freelist

NoFreeBlock(len) == find(freelist, len + headerEntrySize) = {}

PushAfterTail(len) ==
    /\ NoFreeBlock(len)
    /\ availableSpaceAfterTail >= len + headerEntrySize
    /\ push(array, head, tail, rightMargin, count, len)
    /\ UNCHANGED capacity

PushBeforeHead(len) ==
    /\ NoFreeBlock(len)
    /\ availableSpaceAfterTail < len + headerEntrySize
    /\ availableSpaceBeforeHead >= len + headerEntrySize
    /\ push(array, head, leftMarginIndex, rightMargin, count, len)
    /\ UNCHANGED capacity

Full(len) == capacity + headerEntrySize + len >= MaxCapacity /\ MaxCapacity > 0

\* The array is doubled once, however long the entry is.
MutGrownCapacity(minimum) ==
    IF 2 * capacity > MaxCapacity /\ MaxCapacity > 0 THEN MaxCapacity ELSE 2 * capacity

GrownCapacity(minimum) ==
    LET doubled == 2 * (IF capacity < minimum THEN capacity + minimum ELSE capacity) IN
    IF doubled > MaxCapacity /\ MaxCapacity > 0 THEN MaxCapacity ELSE doubled

\* allocateAdditionalMemory and the push after it.  The gap between tail and
\* head of a wrapped queue is filled with an empty blob.
PushAndGrow(len) ==
    LET copied == {e \in array : End(e) <= rightMargin} IN
    /\ NoFreeBlock(len)
    /\ availableSpaceAfterTail < len + headerEntrySize
    /\ availableSpaceBeforeHead < len + headerEntrySize
    /\ ~Full(len)
    /\ capacity' = GrownCapacity(len + headerEntrySize)
    /\ IF tail < head /\ rightMargin # leftMarginIndex
         THEN push(Write(copied, Entry(tail, head - tail - headerEntrySize, 0)),
                   leftMarginIndex, rightMargin, rightMargin, count + 1, len)
         ELSE push(copied, head, tail, rightMargin, count, len)

\* A push that finds the queue full changes nothing.
Push(len) ==
    PushIntoFree(len) \/ PushAfterTail(len) \/ PushBeforeHead(len) \/ PushAndGrow(len)

-----------------------------------------------------------------------------
(* Delete, Pop, Reset *)

\* peek: reading the entry at an index succeeds.
Readable(index) == count # 0 /\ index > 0 /\ index + headerEntrySize < capacity

Delete(e) ==
    /\ "Delete" \in client.uses
    /\ Readable(e.index)
    /\ \E x \in array :
         /\ x.index = e.index
         /\ freelist' = add(freelist, x.index, x.len + headerEntrySize)
    /\ count' = count - 1
    /\ live' = live \ {e}
    /\ UNCHANGED <<array, capacity, head, tail, rightMargin, pushes>>

\* The head is not moved back to the left margin at the right one.
MutPop ==
    /\ "Pop" \in client.uses
    /\ Readable(head)
    /\ \E x \in array :
         /\ x.index = head
         /\ live' = live \ {x}
         /\ head' = End(x)
    /\ count' = count - 1
    /\ UNCHANGED <<array, capacity, tail, rightMargin, freelist, pushes>>

Pop ==
    /\ "Pop" \in client.uses
    /\ Readable(head)
    /\ \E x \in array :
         /\ x.index = head
         /\ live' = live \ {x}
         /\ IF End(x) = rightMargin
              THEN /\ head' = leftMarginIndex
                   /\ tail' = IF tail = rightMargin THEN leftMarginIndex ELSE tail
                   /\ rightMargin' = tail'
              ELSE /\ head' = End(x)
                   /\ UNCHANGED <<tail, rightMargin>>
    /\ count' = count - 1
    /\ UNCHANGED <<array, capacity, freelist, pushes>>

\* The free list is not cleared.
Reset ==
    /\ "Reset" \in client.uses
    /\ head' = leftMarginIndex /\ tail' = leftMarginIndex
    /\ rightMargin' = leftMarginIndex
    /\ count' = 0
    /\ live' = {}
    /\ UNCHANGED <<array, capacity, freelist, pushes>>

-----------------------------------------------------------------------------
Init ==
    /\ client \in Clients
    /\ array = {}
    /\ capacity = InitialCapacity
    /\ head = leftMarginIndex /\ tail = leftMarginIndex
    /\ rightMargin = leftMarginIndex
    /\ count = 0
    /\ freelist = newFreeList
    /\ live = {}
    /\ pushes = 0

Next ==
    /\ \/ \E len \in client.lens : Push(len)
       \/ \E e \in live : Delete(e)
       \/ Pop
       \/ Reset
    /\ UNCHANGED client

Spec == Init /\ [][Next]_vars

-----------------------------------------------------------------------------
(* Properties *)

FreeBlocks == {e.item : e \in freelist.indexTree}
Listed == UNION {freelist.sizeList[c] : c \in Classes}

EntryType == [index : Nat, len : Nat, val : Nat]

QueueTypeOK ==
    /\ client \in Clients
    /\ \A e \in array \union live : e \in EntryType
    /\ capacity \in Nat /\ head \in Nat /\ tail \in Nat
    /\ rightMargin \in Nat /\ count \in Nat /\ pushes \in Nat
    /\ \A v \in FreeBlocks \union Listed : v \in Item /\ v.actualSize > 0

(* "For every push operation index of entry is returned. It can be used to *)
(* read the entry later": whatever is pushed, deleted and popped in        *)
(* between, Get on the index of an entry that was not removed succeeds and *)
(* yields that entry, and no part of it was cut off at the end of the      *)
(* array when it was copied.                                               *)
ReadBack == \A e \in live : e \in array /\ Readable(e.index) /\ End(e) <= capacity

\* The contents Get yields at an index, 0 if there are none.
Read(index) ==
    LET there == {e.val : e \in {x \in array : x.index = index /\ Readable(index)}} IN
    IF there = {} THEN 0 ELSE CHOOSE val \in there : TRUE

contents == [i \in {e.index : e \in live} |-> Read(i)]

Store == INSTANCE EntryStore WITH store <- contents

(* The queue is a store as the shard needs it: no index is handed out      *)
(* twice, and no push, growth, delete or pop changes what is read under    *)
(* another index in use.                                                   *)
ImplementsStore == Store!Spec

Apart(first, last, f, l) == last < f \/ l < first

(* What add and find keep true of the free blocks: they lie behind the     *)
(* left margin and before the tail, overlap neither an entry in use nor    *)
(* each other.                                                             *)
FreeBlocksApart ==
    /\ \A v \in FreeBlocks : First(v) >= leftMarginIndex /\ Last(v) < tail
    /\ \A v \in FreeBlocks, e \in live : Apart(First(v), Last(v), Start(e), End(e) - 1)
    /\ \A v, w \in FreeBlocks : v # w => Apart(First(v), Last(v), First(w), Last(w))

(* The two views of the free list agree: a block in a size list is in the  *)
(* list of its class and is in the tree under its first and its last byte, *)
(* and the tree holds nothing else but blocks of the size no class takes.  *)
ListsMatchTree ==
    /\ \A c \in Classes : \A v \in freelist.sizeList[c] :
         /\ c \in ClassOf(v.actualSize)
         /\ TreeGet(freelist.indexTree, First(v)) = {v}
         /\ TreeGet(freelist.indexTree, Last(v)) = {v}
    /\ \A e \in freelist.indexTree :
         /\ e.pos \in {First(e.item), Last(e.item)}
         /\ e.item \in Listed \/ ClassOf(e.item.actualSize) = {}

EntryAtHead == {x \in array : x.index = head}

(* Pop always has an entry to take while the queue counts any: at the head *)
(* there is an entry in use, or the empty blob of a gap, with its header   *)
(* intact, also after the queue has wrapped around, has grown while it was *)
(* wrapped or was reset; and it counts none only if all were taken.        *)
HeadIsEntry ==
    "Pop" \in client.uses =>
        IF count = 0 THEN live = {} ELSE \E x \in EntryAtHead : x \in live \/ x.val = 0
=============================================================================
