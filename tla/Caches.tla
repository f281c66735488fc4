------------------------------- MODULE Caches -------------------------------
(***************************************************************************)
(* The two caches of utils/cache over utils/linkedhashmap: sizedLRU bounds *)
(* the total size of its entries (DecidedBlocks, UnverifiedBlocks and      *)
(* BytesToIDCache of the VM), LRU their number (MissingBlocks). A value is *)
(* abstracted to its size, and a key's values have one size, as in the VM. *)
(* Every method runs under the cache's lock.                               *)
(***************************************************************************)
EXTENDS Integers, SequencesExt

CONSTANTS
    Keys,
    SizeOf,         \* the size of a key's values
    MaxSize,        \* of the sizedLRU
    ConfiguredSize  \* the Size field of the LRU as its caller sets it

ASSUME CachesAssumption ==
    /\ SizeOf \in [Keys -> Nat]
    /\ MaxSize \in Nat
    /\ ConfiguredSize \in Int

VARIABLES
    kind,         \* which of the two caches this is; chosen once
    elements,     \* keys of the linked hash map, oldest entry first
    currentSize,  \* of the sizedLRU
    recency       \* history: all keys ever used, least recently used first

vars == <<kind, elements, currentSize, recency>>

-----------------------------------------------------------------------------
Without(s, k) == SelectSeq(s, LAMBDA x : x # k)

\* linkedHashmap.put: the entry becomes the newest one.
PutNewest(s, k) == Append(Without(s, k), k)

TotalSize(s) == FoldLeft(LAMBDA acc, k : acc + SizeOf[k], 0, s)

Newest(n) == SubSeq(elements, n + 1, Len(elements))

-----------------------------------------------------------------------------
(* sizedLRU                                                                *)

\* How many of the oldest entries the loop of put removes to make room for v,
\* when it starts from the size c.
Evictions(c, v) ==
    CHOOSE n \in 0 .. Len(elements) :
        /\ c - TotalSize(SubSeq(elements, 1, n)) <= MaxSize - v
        /\ \A m \in 0 .. n - 1 :
              c - TotalSize(SubSeq(elements, 1, m)) > MaxSize - v

flushSized ==
    /\ elements' = <<>>
    /\ currentSize' = 0
    /\ UNCHANGED recency

\* A mutant: the size of the replaced value is not subtracted.
putSizedLeaky(k) ==
    /\ SizeOf[k] <= MaxSize
    /\ LET n == Evictions(currentSize, SizeOf[k])
       IN  /\ elements' = PutNewest(Newest(n), k)
           /\ currentSize' = currentSize - TotalSize(SubSeq(elements, 1, n))
                             + SizeOf[k]
    /\ recency' = PutNewest(recency, k)

\* The old value's size is subtracted first, but its entry stays in the list
\* while the loop removes old entries. A value larger than the cache empties it.
putSized(k) ==
    \/ SizeOf[k] > MaxSize /\ flushSized
    \/ /\ SizeOf[k] <= MaxSize
       /\ LET c == currentSize - IF Contains(elements, k) THEN SizeOf[k] ELSE 0
              n == Evictions(c, SizeOf[k])
          IN  /\ elements' = PutNewest(Newest(n), k)
              /\ currentSize' = c - TotalSize(SubSeq(elements, 1, n))
                                + SizeOf[k]
       /\ recency' = PutNewest(recency, k)

evictSized(k) ==
    /\ Contains(elements, k)
    /\ elements' = Without(elements, k)
    /\ currentSize' = currentSize - SizeOf[k]
    /\ UNCHANGED recency

getSized(k) ==
    /\ Contains(elements, k)
    /\ elements' = PutNewest(elements, k)
    /\ recency' = PutNewest(recency, k)
    /\ UNCHANGED currentSize

portionFilledSized == <<currentSize, MaxSize>>

-----------------------------------------------------------------------------
(* LRU                                                                     *)

\* resize: a Size <= 0 becomes 1.
Size == IF ConfiguredSize <= 0 THEN 1 ELSE ConfiguredSize

\* Room is made even for a key that is already there.
put(k) ==
    /\ elements' = PutNewest(IF Len(elements) = Size THEN Newest(1) ELSE elements, k)
    /\ recency' = PutNewest(recency, k)
    /\ UNCHANGED currentSize

evict(k) ==
    /\ Contains(elements, k)
    /\ elements' = Without(elements, k)
    /\ UNCHANGED <<currentSize, recency>>

flush ==
    /\ elements' = <<>>
    /\ UNCHANGED <<currentSize, recency>>

get(k) ==
    /\ Contains(elements, k)
    /\ elements' = PutNewest(elements, k)
    /\ recency' = PutNewest(recency, k)
    /\ UNCHANGED currentSize

\* How full the cache is, as a fraction of two numbers.
portionFilled == <<Len(elements), Size>>

-----------------------------------------------------------------------------
(* The methods that take the lock: one action each, whoever calls them.    *)

Put(k)   == kind = "LRU" /\ put(k) /\ UNCHANGED kind
Get(k)   == kind = "LRU" /\ get(k) /\ UNCHANGED kind
Evict(k) == kind = "LRU" /\ evict(k) /\ UNCHANGED kind
Flush    == kind = "LRU" /\ flush /\ UNCHANGED kind

PutSized(k)   == kind = "sizedLRU" /\ putSized(k) /\ UNCHANGED kind
GetSized(k)   == kind = "sizedLRU" /\ getSized(k) /\ UNCHANGED kind
EvictSized(k) == kind = "sizedLRU" /\ evictSized(k) /\ UNCHANGED kind
FlushSized    == kind = "sizedLRU" /\ flushSized /\ UNCHANGED kind

\* What the locked readers answer.
PortionFilled      == portionFilled
PortionFilledSized == portionFilledSized

Init ==
    /\ kind \in {"sizedLRU", "LRU"}
    /\ elements = <<>> /\ currentSize = 0 /\ recency = <<>>

Next ==
    \/ FlushSized \/ Flush
    \/ \E k \in Keys : \/ PutSized(k) \/ GetSized(k) \/ EvictSized(k)
                       \/ Put(k) \/ Get(k) \/ Evict(k)

Spec == Init /\ [][Next]_vars

-----------------------------------------------------------------------------
\* "elements are removed from the cache until the bound is honored": in a
\* sizedLRU the sizes of the entries add up to currentSize and stay within
\* maxSize, which is what lets the loop of put stop before the list is empty;
\* an LRU never has more entries than its Size. Neither is ever more than full.
BoundHonored ==
    /\ kind = "sizedLRU" =>
          /\ currentSize = TotalSize(elements)
          /\ PortionFilledSized[1] <= PortionFilledSized[2]
    /\ kind = "LRU" => PortionFilled[1] <= PortionFilled[2]

\* The list is in the order of last use, so the entries that go first are the
\* least recently used ones: between two entries, the one nearer the front was
\* put or read earlier.
OrderIsRecency == elements = SelectSeq(recency, LAMBDA k : Contains(elements, k))

\* Both: within the bound, and the least recently used in front.
CachesSound == BoundHonored /\ OrderIsRecency

\* What a put on a sizedLRU keeps, said without its loop: a value larger than
\* the cache empties it; otherwise the key is there, and another entry stays
\* exactly when it fits with the new value and all the entries used after it.
PutKeepsWhatFits ==
    [][\A k \in Keys :
          LET Fits(i) == TotalSize(Without(SubSeq(elements, i, Len(elements)), k))
                         + SizeOf[k] <= MaxSize
          IN  PutSized(k) =>
                ToSet(elements') =
                    IF SizeOf[k] > MaxSize
                    THEN {}
                    ELSE {k} \cup {elements[i] : i \in
                             {j \in DOMAIN elements : Fits(j)}}]_vars

-----------------------------------------------------------------------------
(***************************************************************************)
(* utils/cache/unique_cache.go: a cache that hands out one instance per    *)
(* key, so that two users of a key share it, and tells an instance when it *)
(* is evicted. The UniqueSize field belongs to the caller, who may change it     *)
(* between calls; a call brings the list within it first.                  *)
(***************************************************************************)

CONSTANTS
    LRUKeys,
    LRUSizes,     \* values that the caller gives Size
    MaxInstances  \* bound: instances that callers make

VARIABLE
    lru     \* [entryMap, entryList, size, evicted, given, made]: given has every
            \* instance that a caller was ever given

-----------------------------------------------------------------------------
(* An instance is [key, n]; entryMap names the instance that a list element*)
(* of the key holds.                                                       *)

Forget(c, v) == [c EXCEPT !.entryMap = [k \in DOMAIN @ \ {v.key} |-> @[k]],
                          !.evicted = @ \cup {v}]

\* resize: the oldest entries are evicted until there are no more than size.
Resize(c, size) ==
    LET n    == IF Len(c.entryList) <= size THEN 0 ELSE Len(c.entryList) - size
        gone == {c.entryList[i] : i \in 1 .. n}
    IN  [c EXCEPT !.entryMap = [k \in DOMAIN @ \ {v.key : v \in gone} |-> @[k]],
                  !.evicted = @ \cup gone,
                  !.entryList = SubSeq(@, n + 1, Len(@))]

\* init: a Size <= 0 becomes 1.
UniqueSize(c) == IF c.size <= 0 THEN 1 ELSE c.size

\* The oldest element moves to the back and takes the new value.
Replace(c, v) ==
    LET old == Head(c.entryList) IN
    [Forget(c, old) EXCEPT !.entryList = Append(Tail(@), v)]

Deduplicate(key) ==
    LET v  == [key |-> key, n |-> lru.made]
        c1 == Resize([lru EXCEPT !.size = UniqueSize(lru), !.made = @ + 1], UniqueSize(lru))
        c2 == IF Len(c1.entryList) >= c1.size THEN Replace(c1, v)
              ELSE [c1 EXCEPT !.entryList = Append(@, v)]
        known == c1.entryMap[key]
    IN  /\ lru.made < MaxInstances
        /\ lru' = IF key \in DOMAIN c1.entryMap
                  THEN [c1 EXCEPT !.entryList =
                                     Append(SelectSeq(@, LAMBDA x : x # known), known),
                                  !.given = @ \cup {known}]
                  ELSE [c2 EXCEPT !.entryMap = [k \in DOMAIN @ \cup {key} |->
                                                  IF k = key THEN v ELSE @[k]],
                                  !.given = @ \cup {v}]

FlushUnique == lru' = Resize([lru EXCEPT !.size = UniqueSize(lru)], 0)

SetSize(n) == lru' = [lru EXCEPT !.size = n]

LRUInit ==
    \E n \in LRUSizes :
        lru = [entryMap |-> <<>>, entryList |-> <<>>, size |-> n, evicted |-> {},
               given |-> {}, made |-> 1]

LRUNext ==
    \/ \E k \in LRUKeys : Deduplicate(k)
    \/ FlushUnique
    \/ \E n \in LRUSizes : SetSize(n)

-----------------------------------------------------------------------------
\* One live instance per key: of the instances that callers were given, those in
\* the cache are exactly those that were not told of their eviction, and no two
\* of them have the same key, whatever the caller does to Size in between.
OneLiveInstance ==
    /\ lru.given \ lru.evicted = ToSet(lru.entryList)
    /\ lru.evicted \subseteq lru.given
    /\ \A v \in ToSet(lru.entryList) : lru.entryMap[v.key] = v
    /\ Cardinality(DOMAIN lru.entryMap) = Len(lru.entryList)
=============================================================================
