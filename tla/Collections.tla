---------------------------- MODULE Collections -----------------------------
(***************************************************************************)
(* The collections of utils: heap, sorting and priority queue, bimap, linked*)
(* hash map, sampleable set. Each has its section and its variable.        *)
(***************************************************************************)
EXTENDS Integers, SequencesExt

-----------------------------------------------------------------------------
(***************************************************************************)
(* The heaps of utils/avalanche/heap: Map keeps one entry per key in a     *)
(* binary heap ordered by value, with an index from keys to positions that *)
(* every Swap, Push and Pop must maintain; Queue is the same heap without  *)
(* the index. The benchlist takes the next expiry from a Map. Sifting is   *)
(* container/heap's, which calls back Less, Swap, Push and Pop.            *)
(***************************************************************************)

CONSTANTS
    HeapKeys,
    HeapValues  \* the values, ordered as integers

VARIABLE
    heap        \* [entries, index]: the array, and the place of each key in it

-----------------------------------------------------------------------------
\* Positions count from 0 in the code and in index, from 1 in entries.
At(h, i) == h.entries[i + 1]
HeapLen(h) == Len(h.entries)
Less(h, i, j) == At(h, i).v < At(h, j).v

Swap(h, i, j) ==
    [h EXCEPT !.entries[i + 1] = At(h, j), !.entries[j + 1] = At(h, i),
              !.index[At(h, j).k] = i, !.index[At(h, i).k] = j]

PushEnd(h, k, v) ==
    [h EXCEPT !.entries = Append(@, [k |-> k, v |-> v]),
              !.index = [x \in DOMAIN @ \cup {k} |->
                           IF x = k THEN HeapLen(h) ELSE @[x]]]

PopEnd(h) ==
    LET k == At(h, HeapLen(h) - 1).k IN
    [h EXCEPT !.entries = Front(@),
              !.index = [x \in DOMAIN @ \ {k} |-> @[x]]]

\* container/heap: up, down over the first n entries, Fix, Push, Pop, Remove.
RECURSIVE Up(_, _)
Up(h, j) ==
    LET i == (j - 1) \div 2 IN
    IF j = 0 \/ ~Less(h, j, i) THEN h ELSE Up(Swap(h, i, j), i)

RECURSIVE Down(_, _, _)
Down(h, i, n) ==
    LET left  == 2 * i + 1
        child == IF left + 1 < n /\ Less(h, left + 1, left) THEN left + 1 ELSE left
    IN  IF left >= n \/ ~Less(h, child, i) THEN h ELSE Down(Swap(h, i, child), child, n)

FixAt(h, i, n) ==
    LET down == Down(h, i, n) IN IF down # h THEN down ELSE Up(h, i)

SiftOut(h, i) ==
    LET n == HeapLen(h) - 1
        moved == IF n # i THEN FixAt(Swap(h, i, n), i, n) ELSE h
    IN  PopEnd(moved)

-----------------------------------------------------------------------------
Push(k, v) ==
    heap' =
         IF k \in DOMAIN heap.index
         THEN LET i == heap.index[k]
              IN  FixAt([heap EXCEPT !.entries[i + 1].v = v], i, HeapLen(heap))
         ELSE LET h == PushEnd(heap, k, v) IN Up(h, HeapLen(h) - 1)

Pop ==
    /\ heap.entries # <<>>
    /\ LET n == HeapLen(heap) - 1 IN heap' = PopEnd(Down(Swap(heap, 0, n), 0, n))

RemoveKey(k) ==
    /\ k \in DOMAIN heap.index
    /\ heap' = SiftOut(heap, heap.index[k])

HeapInit == heap = [entries |-> <<>>, index |-> <<>>]

HeapNext ==
    \/ \E k \in HeapKeys, v \in HeapValues : Push(k, v)
    \/ Pop
    \/ \E k \in HeapKeys : RemoveKey(k)

-----------------------------------------------------------------------------
\* What is read of the map.
HeapHasKey(k) == k \in DOMAIN heap.index
GetOf(k) == At(heap, heap.index[k]).v
MapValues == [i \in 1 .. HeapLen(heap) |-> heap.entries[i].v]

\* The index always names where a key's entry is, and no key has two: Push of a
\* known key and Remove touch the right entry whatever was sifted before, and
\* Get, Contains and MapValues show the same entries.
HeapIndexed ==
    /\ \A k \in HeapKeys : HeapHasKey(k) => At(heap, heap.index[k]).k = k
    /\ {GetOf(k) : k \in {j \in HeapKeys : HeapHasKey(j)}} = ToSet(MapValues)
    /\ \A i \in 0 .. HeapLen(heap) - 1 : heap.index[At(heap, i).k] = i
    /\ Cardinality(DOMAIN heap.index) = HeapLen(heap)

\* The least value is in front, so Peek and Pop give the next one to expire.
LeastInFront ==
    \A i \in 0 .. HeapLen(heap) - 1 : At(heap, 0).v <= At(heap, i).v

-----------------------------------------------------------------------------
(***************************************************************************)
(* utils/sorting.go and the Queue of utils/avalanche/heap. Elements are    *)
(* numbers in the order that Compare, or less, gives them; HashOf gives    *)
(* the place of an element's hash among the hashes.                        *)
(***************************************************************************)

CONSTANT HashOf(_)

-----------------------------------------------------------------------------
(* Sorting                                                                 *)

\* The library's sort: a permutation in which nothing is before a lesser one.
Sort(s) == SortSeq(s, LAMBDA x, y : x < y)
SortByHash(s) == SortSeq(s, LAMBDA x, y : HashOf(x) < HashOf(y))

IsSortedBytes(s) == \A i \in 1 .. Len(s) - 1 : ~(s[i] > s[i + 1])

IsSortedAndUnique(s) == \A i \in 1 .. Len(s) - 1 : ~(s[i] >= s[i + 1])

IsSortedAndUniqueByHash(s) ==
    Len(s) <= 1 \/ \A i \in 2 .. Len(s) : HashOf(s[i - 1]) < HashOf(s[i])

-----------------------------------------------------------------------------
(* Queue: container/heap over a slice                                      *)

QueueLess(q, i, j) == q[i + 1] < q[j + 1]

QueueSwap(q, i, j) == [q EXCEPT ![i + 1] = q[j + 1], ![j + 1] = q[i + 1]]

RECURSIVE QueueUp(_, _)
QueueUp(q, j) ==
    LET i == (j - 1) \div 2 IN
    IF j = 0 \/ ~QueueLess(q, j, i) THEN q ELSE QueueUp(QueueSwap(q, i, j), i)

RECURSIVE QueueDown(_, _, _)
QueueDown(q, i, n) ==
    LET left  == 2 * i + 1
        child == IF left + 1 < n /\ QueueLess(q, left + 1, left) THEN left + 1 ELSE left
    IN  IF left >= n \/ ~QueueLess(q, child, i) THEN q ELSE QueueDown(QueueSwap(q, i, child), child, n)

\* heap.Init: down from the last parent to the root.
RECURSIVE Heapified(_, _)
Heapified(q, i) == IF i < 0 THEN q ELSE Heapified(QueueDown(q, i, Len(q)), i - 1)

QueueOf(entries) == Heapified(entries, (Len(entries) \div 2) - 1)

QueuePush(q, e) == QueueUp(Append(q, e), Len(q))

\* What is left when the front is popped: it is swapped with the last entry,
\* which sinks, and is cut off.
QueuePop(q) == LET n == Len(q) - 1 IN Front(QueueDown(QueueSwap(q, 0, n), 0, n))

Peek(q) == q[1]

\* Once the entry in place i has changed.
Fix(q, i) == LET d == QueueDown(q, i, Len(q)) IN IF d # q THEN d ELSE QueueUp(q, i)

RECURSIVE Popped(_)
Popped(q) == IF q = <<>> THEN <<>> ELSE <<Peek(q)>> \o Popped(QueuePop(q))

-----------------------------------------------------------------------------
\* A queue gives its entries back in order, however they got in: at once, by
\* QueuePush, or by a change of one of them that Fix was told of.
QueueGivesInOrder(entries, e, i, x) ==
    LET q == QueuePush(QueueOf(entries), e)
    IN  /\ Popped(q) = Sort(Append(entries, e))
        /\ Popped(Fix([q EXCEPT ![i + 1] = x], i)) = Sort([q EXCEPT ![i + 1] = x])

\* The tests recognise what the sorts give, and nothing with an element twice.
SortedIsRecognised(s) ==
    LET unique == Len(s) = Cardinality(ToSet(s)) IN
    /\ IsSortedBytes(Sort(s))
    /\ IsSortedAndUnique(Sort(s)) <=> unique
    /\ IsSortedAndUniqueByHash(SortByHash(s)) <=> unique
    /\ IsSortedAndUnique(s) => s = Sort(s)

-----------------------------------------------------------------------------
(***************************************************************************)
(* utils/bimap: a map that can be read in both directions. A BiPut removes   *)
(* every older entry of its key and of its value, and returns them.        *)
(***************************************************************************)

CONSTANTS BiKeys, BiValues

VARIABLE
    bimap   \* [keyToValue, valueToKey, removed]: the two maps, the last answer

-----------------------------------------------------------------------------
Drop(f, x) == [y \in DOMAIN f \ {x} |-> f[y]]
Bind(f, x, y) == [z \in DOMAIN f \cup {x} |-> IF z = x THEN y ELSE f[z]]

DeleteKey(m, k) ==
    IF k \notin DOMAIN m.keyToValue THEN m
    ELSE [m EXCEPT !.keyToValue = Drop(@, k),
                   !.valueToKey = Drop(@, m.keyToValue[k]),
                   !.removed = Append(@, <<k, m.keyToValue[k]>>)]

DeleteValue(m, v) ==
    IF v \notin DOMAIN m.valueToKey THEN m
    ELSE [m EXCEPT !.keyToValue = Drop(@, m.valueToKey[v]),
                   !.valueToKey = Drop(@, v),
                   !.removed = Append(@, <<m.valueToKey[v], v>>)]

(* What is read of a map m.                                                *)
GetKey(m, v) == IF v \in DOMAIN m.valueToKey THEN {m.valueToKey[v]} ELSE {}
GetValue(m, k) == IF k \in DOMAIN m.keyToValue THEN {m.keyToValue[k]} ELSE {}
HasKey(m, k) == k \in DOMAIN m.keyToValue
HasValue(m, v) == v \in DOMAIN m.valueToKey
Length(m) == Cardinality(DOMAIN m.keyToValue)

BiPut(k, v) ==
    LET m == DeleteValue(DeleteKey([bimap EXCEPT !.removed = <<>>], k), v)
    IN  bimap' = [m EXCEPT !.keyToValue = Bind(@, k, v),
                           !.valueToKey = Bind(@, v, k)]

\* BiUnmarshalJSON: a decoded map replaces the contents if no two of its keys have
\* the same value. The inverse is filled in some order of the keys.
BiUnmarshalJSON(f) ==
    LET valueToKey == [v \in {f[k] : k \in DOMAIN f} |->
                          CHOOSE k \in DOMAIN f : f[k] = v]
    IN  /\ Cardinality(DOMAIN f) = Cardinality(DOMAIN valueToKey)
        /\ bimap' = [keyToValue |-> f, valueToKey |-> valueToKey, removed |-> <<>>]

BiInit == bimap = [keyToValue |-> <<>>, valueToKey |-> <<>>, removed |-> <<>>]

BiNext ==
    \/ \E k \in BiKeys, v \in BiValues : BiPut(k, v)
    \/ \E k \in BiKeys : bimap' = DeleteKey([bimap EXCEPT !.removed = <<>>], k)
    \/ \E v \in BiValues : bimap' = DeleteValue([bimap EXCEPT !.removed = <<>>], v)
    \/ \E D \in SUBSET BiKeys : \E f \in [D -> BiValues] : BiUnmarshalJSON(f)

-----------------------------------------------------------------------------
\* The two maps are inverse to each other after any sequence of calls: no key is
\* left that reads as a value it does not own, and none is counted twice.
Bijective ==
    /\ \A k \in BiKeys, v \in BiValues : v \in GetValue(bimap, k) <=> k \in GetKey(bimap, v)
    /\ \A k \in BiKeys : HasKey(bimap, k) => \E v \in GetValue(bimap, k) : HasValue(bimap, v)
    /\ Length(bimap) = Cardinality({v \in BiValues : HasValue(bimap, v)})

-----------------------------------------------------------------------------
(***************************************************************************)
(* utils/linkedhashmap: a map whose entries are in a list from the oldest  *)
(* to the newest, and its iterator, which holds on to the list's next      *)
(* element between two calls. While the iterator is in use its caller may  *)
(* delete entries that it has passed, and nothing else.                    *)
(***************************************************************************)

CONSTANTS HashKeys, HashValues, None

VARIABLE
    lhm     \* [list, map, next, initialized, exhausted, start, visited]: the keys
            \* in order, and the value that the map's entry has; the iterator's
            \* next key and flags; the keys when it was made, and the keys that
            \* it has returned

-----------------------------------------------------------------------------
\* The key behind k in the list; nil behind the last one.
After(list, k) ==
    LET i == CHOOSE j \in DOMAIN list : list[j] = k
    IN  IF i = Len(list) THEN None ELSE list[i + 1]

Iterating == lhm.start # None

Without(list, k) == SelectSeq(list, LAMBDA x : x # k)

\* put: an entry that is there moves to the back and gets the value.
put(m, k, v) ==
    [m EXCEPT !.list = IF k \in DOMAIN m.map THEN Append(Without(@, k), k) ELSE Append(@, k),
              !.map = [x \in DOMAIN @ \cup {k} |-> IF x = k THEN v ELSE @[x]]]

delete(m, k) ==
    IF k \in DOMAIN m.map
    THEN [m EXCEPT !.list = Without(@, k), !.map = [x \in DOMAIN @ \ {k} |-> @[x]]]
    ELSE m

get(m, k) == IF k \in DOMAIN m.map THEN m.map[k] ELSE None
len(m) == Cardinality(DOMAIN m.map)
oldest(m) == IF m.list = <<>> THEN None ELSE Head(m.list)
newest(m) == IF m.list = <<>> THEN None ELSE m.list[Len(m.list)]

Put(k, v) == ~Iterating /\ lhm' = put(lhm, k, v)

\* Delete, of an entry that a running iterator has passed.
Delete(k) == (Iterating => Contains(lhm.visited, k)) /\ lhm' = delete(lhm, k)

NewIterator ==
    /\ ~Iterating
    /\ lhm' = [lhm EXCEPT !.next = None, !.initialized = FALSE,
                          !.exhausted = FALSE, !.start = lhm.list, !.visited = <<>>]

Next ==
    LET at == IF lhm.initialized THEN lhm.next
              ELSE IF lhm.list = <<>> THEN None ELSE Head(lhm.list)
    IN  /\ Iterating /\ ~lhm.exhausted
        /\ lhm' = IF at = None
                  THEN [lhm EXCEPT !.initialized = TRUE, !.exhausted = TRUE]
                  ELSE [lhm EXCEPT !.initialized = TRUE,
                                   !.next = After(lhm.list, at),
                                   !.exhausted = After(lhm.list, at) = None,
                                   !.visited = Append(@, at)]

\* The caller is done with the iterator once Next has said so.
Forget ==
    /\ Iterating /\ lhm.exhausted
    /\ lhm' = [lhm EXCEPT !.start = None]

LHMInit ==
    lhm = [list |-> <<>>, map |-> <<>>, next |-> None, initialized |-> FALSE,
           exhausted |-> FALSE, start |-> None, visited |-> <<>>]

LHMNext ==
    \/ \E k \in HashKeys, v \in HashValues : Put(k, v)
    \/ \E k \in HashKeys : Delete(k)
    \/ NewIterator \/ Next \/ Forget

-----------------------------------------------------------------------------
\* "Iterates over the keys and values in a LinkedHashmap from oldest to newest
\* elements": with the deletions that are allowed in between, the iterator
\* returns every entry there was, once and in order.
IteratesAll ==
    Iterating =>
        /\ IsPrefix(lhm.visited, lhm.start)
        /\ lhm.exhausted => lhm.visited = lhm.start

\* The map and the list hold the same entries whatever was called: the length is
\* that of the list, and the oldest and the newest entry can be looked up, which
\* is what lets a cache take them away one by one until it is empty.
EntriesAgree ==
    /\ ToSet(lhm.list) = DOMAIN lhm.map /\ len(lhm) = Len(lhm.list)
    /\ oldest(lhm) = None <=> len(lhm) = 0
    /\ lhm.list # <<>> => get(lhm, oldest(lhm)) # None /\ get(lhm, newest(lhm)) # None

-----------------------------------------------------------------------------
(***************************************************************************)
(* utils/set/sampleable_set.go: a set whose elements are also in a slice,  *)
(* so that it can be sampled; indices says where. A removed element's      *)
(* place is taken by the last one. It offers what set.Set offers, and is   *)
(* shown to behave as one (PlainSet). Elements are numbers in the order of *)
(* their JSON encodings.                                                   *)
(***************************************************************************)

CONSTANT SetElements

VARIABLE
    sset    \* [indices, elements, isNil]: isNil until the slice is allocated

-----------------------------------------------------------------------------
\* resize: a set without a slice gets new indices.
Resized(s) == IF s.isNil THEN [s EXCEPT !.indices = <<>>] ELSE s

AddOne(s, e) ==
    IF e \in DOMAIN s.indices THEN s
    ELSE [indices  |-> [x \in DOMAIN s.indices \cup {e} |->
                           IF x = e THEN Len(s.elements) ELSE s.indices[x]],
          elements |-> Append(s.elements, e),
          isNil    |-> FALSE]

RemoveOne(s, e) ==
    LET last == s.elements[Len(s.elements)] IN
    IF e \notin DOMAIN s.indices THEN s
    ELSE [s EXCEPT !.elements = Front([@ EXCEPT ![s.indices[e] + 1] = last]),
                   !.indices = [x \in DOMAIN @ \ {e} |->
                                  IF x = last THEN s.indices[e] ELSE @[x]]]

AddList(s, list) == FoldLeft(AddOne, Resized(s), list)

Cleared(s) == [s EXCEPT !.indices = <<>>, !.elements = <<>>]

-----------------------------------------------------------------------------
(* Add and Union (a list of elements), Remove, Difference, Clear,          *)
(* UnmarshalJSON.                                                          *)

Add(list) == sset' = AddList(sset, list)

RemoveElements(list) == sset' = FoldLeft(RemoveOne, sset, list)

\* The elements of the other set, in the order of its slice.
Difference(other) == sset' = FoldLeft(RemoveOne, sset, other.elements)

Clear == sset' = Cleared(sset)

\* A mutant: the elements are added to the old ones.
UnmarshalJSONKeeps(list) == sset' = AddList(sset, list)

UnmarshalJSON(list) == sset' = AddList(Cleared(sset), list)

\* The zero value, or NewSampleableSet with a size >= 0.
SSetInit == \E n \in BOOLEAN : sset = [indices |-> <<>>, elements |-> <<>>, isNil |-> n]

Lists == [1 .. 2 -> SetElements] \cup {<<>>}

SetOf(list) == AddList([indices |-> <<>>, elements |-> <<>>, isNil |-> TRUE], list)

SSetNext ==
    \/ \E list \in Lists :
          Add(list) \/ RemoveElements(list) \/ Difference(SetOf(list)) \/ UnmarshalJSON(list)
    \/ Clear

-----------------------------------------------------------------------------
\* Overlaps: the smaller of the two is looked up in the larger.
Overlaps(s, t) ==
    LET small == IF Len(s.elements) > Len(t.elements) THEN t ELSE s
        big   == IF Len(s.elements) > Len(t.elements) THEN s ELSE t
    IN  \E e \in ToSet(small.elements) : e \in DOMAIN big.indices

Equals(s, t) ==
    /\ Cardinality(DOMAIN s.indices) = Cardinality(DOMAIN t.indices)
    /\ DOMAIN s.indices \subseteq DOMAIN t.indices

\* A plain set with the elements of the slice.
Plain == INSTANCE PlainSet WITH pset <- ToSet(sset.elements)

\* Sample: the elements at the places that the uniform sampler gives, which are
\* any different ones, as many as were asked for if there are as many.
Samples(s, n) ==
    LET k == IF n < Len(s.elements) THEN n ELSE Len(s.elements)
    IN  {[i \in 1 .. k |-> s.elements[f[i]]] :
             f \in {g \in [1 .. k -> DOMAIN s.elements] : IsInjective(g)}}

\* "Sort for determinism"
MarshalJSON(s) == SortSeq(s.elements, <)

\* The indices are those of the elements, none of them twice, so a sample of
\* different places has different elements; the tests that read the indices agree
\* with those that read the slice; and sets of the same elements, whatever the
\* order of their slices, have one JSON text, the one a plain Set has.
SampleableIndexed ==
    /\ \A i \in DOMAIN sset.elements : sset.indices[sset.elements[i]] = i - 1
    /\ Cardinality(DOMAIN sset.indices) = Len(sset.elements)
    /\ \A list \in Lists :
          LET t == SetOf(list)
          IN  /\ Overlaps(sset, t) <=> ToSet(sset.elements) \cap ToSet(list) # {}
              /\ Equals(sset, t) <=> ToSet(sset.elements) = ToSet(list)
              /\ Equals(sset, t) <=> MarshalJSON(sset) = MarshalJSON(t)
    /\ \A n \in 0 .. 2 : \A r \in Samples(sset, n) :
          Cardinality(ToSet(r)) = Len(r) /\ ToSet(r) \subseteq DOMAIN sset.indices
    /\ MarshalJSON(sset) = Plain!MarshalJSON(ToSet(sset.elements))

\* Read through its slice, a SampleableSet is a Set: every call does to the
\* elements what the call of the same name does there.
ActsAsSet ==
    /\ \A list \in Lists :
          /\ Add(list) => Plain!AddAll(ToSet(list))
          /\ RemoveElements(list) => Plain!RemoveElements(ToSet(list))
          /\ Difference(SetOf(list)) => Plain!Difference(ToSet(list))
          /\ UnmarshalJSON(list) => Plain!UnmarshalJSON(list)
    /\ Clear => Plain!Clear

ImplementsSet == [][ActsAsSet]_sset
=============================================================================
