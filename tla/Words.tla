------------------------------- MODULE Words --------------------------------
(***************************************************************************)
(* Algorithms of utils on numbers, bits and names: random numbers, checked *)
(* arithmetic, averages, versions, bit sets, Bloom filters, IDs and their  *)
(* texts.                                                                  *)
(***************************************************************************)
EXTENDS Integers, FiniteSets, Bitwise, FiniteSetsExt, SequencesExt

-----------------------------------------------------------------------------
(***************************************************************************)
(* utils/sampler/rand.go: random numbers in a range, from a source of      *)
(* random words.                                                           *)
(***************************************************************************)

CONSTANT WordBits   \* 64 in the code

MaxWord == 2 ^ WordBits - 1
MaxInt  == 2 ^ (WordBits - 1) - 1
Words   == 0 .. MaxWord

-----------------------------------------------------------------------------
Rejected == -1

\* The default case: v is the word without its highest bit.
Folded(n, word) ==
    LET limit == 2 ^ (WordBits - 1) - 1 - (2 ^ (WordBits - 1) % (n + 1))
        v     == word & MaxInt
    IN  IF v > limit THEN Rejected ELSE v % (n + 1)

\* What Uint64Inclusive(n) makes of one word of the source. A word that is
\* rejected is followed by another.
Uint64Inclusive(n, word) ==
    CASE (n & ((n + 1) % (MaxWord + 1))) = 0 -> word & n
      [] n > MaxInt /\ (n & ((n + 1) % (MaxWord + 1))) # 0 ->
            IF word > n THEN Rejected ELSE word
      [] OTHER -> Folded(n, word)

-----------------------------------------------------------------------------
\* Uint64Inclusive is uniform on [0, n]: every result comes from the same number
\* of words, at least one, so the loop ends and prefers nobody.
UniformDraws(n) ==
    LET Sources(x) == {w \in Words : Uint64Inclusive(n, w) = x} IN
    \A x \in 0 .. n :
        /\ Sources(x) # {}
        /\ Cardinality(Sources(x)) = Cardinality(Sources(0))

-----------------------------------------------------------------------------
(***************************************************************************)
(* math.Add, Sub, Mul and AbsDiff: unsigned arithmetic of a fixed width    *)
(* that reports an overflow instead of wrapping round. The weights of      *)
(* validators are added with it.                                           *)
(***************************************************************************)

CONSTANT MathBits   \* the width of T

MaxUint == 2 ^ MathBits - 1

\* What the machine's operation gives.
Wrap(n) == n % 2 ^ MathBits

Overflow == [err |-> TRUE, val |-> 0]
Value(n) == [err |-> FALSE, val |-> n]

Add(a, b) == IF a > MaxUint - b THEN Overflow ELSE Value(Wrap(a + b))

Sub(a, b) == IF a < b THEN Overflow ELSE Value(Wrap(a - b))

Mul(a, b) == IF b # 0 /\ a > MaxUint \div b THEN Overflow ELSE Value(Wrap(a * b))

AbsDiff(a, b) == Wrap((IF a > b THEN a ELSE b) - (IF a > b THEN b ELSE a))

-----------------------------------------------------------------------------

\* An operation fails if and only if the true result is not a number of the
\* width, and otherwise gives the true result, up to the last number before
\* the overflow.
ExactOrRefused(a, b) ==
    LET exact(r, n) == IF n \in 0 .. MaxUint THEN r = Value(n) ELSE r.err
    IN  /\ exact(Add(a, b), a + b)
        /\ exact(Sub(a, b), a - b)
        /\ exact(Mul(a, b), a * b)
        /\ AbsDiff(a, b) \in {a - b, b - a} \cap Nat

-----------------------------------------------------------------------------
(***************************************************************************)
(* math.continuousAverager: an average whose observations lose half their  *)
(* weight with every half-life, as the network keeps of failed sends. Time *)
(* is counted in half-lives and a value in units of 2^-MaxHalfLives, so    *)
(* that every weight is exact.                                             *)
(***************************************************************************)

CONSTANT MaxHalfLives

Unit == 2 ^ MaxHalfLives

NewAverager(prediction, now) ==
    [weightedSum |-> prediction * Unit, normalizer |-> Unit, lastUpdated |-> now]

\* Observe: in order, at the same time, or out of order.
Observe(a, o) ==
    LET delta == a.lastUpdated - o.time IN
    IF delta < 0
    THEN LET w == 2 ^ (-delta) IN
         [weightedSum |-> o.value * Unit + a.weightedSum \div w,
          normalizer  |-> Unit + a.normalizer \div w, lastUpdated |-> o.time]
    ELSE LET w == Unit \div 2 ^ delta IN
         [a EXCEPT !.weightedSum = @ + w * o.value, !.normalizer = @ + w]

-----------------------------------------------------------------------------

\* The average is that of all the observations, each weighed by its own age,
\* in whatever order they were reported: one that comes late counts as much
\* as if it had come in time, and the prediction as one at the start.
WeighsByAge(prediction, start, observations) ==
    LET all  == <<[value |-> prediction, time |-> start]>> \o observations
        last == Max({all[i].time : i \in DOMAIN all})
        w(i) == Unit \div 2 ^ (last - all[i].time)
    IN  FoldLeft(Observe, NewAverager(prediction, start), observations) =
           [weightedSum |-> MapThenSumSet(LAMBDA i : w(i) * all[i].value, DOMAIN all),
            normalizer  |-> MapThenSumSet(w, DOMAIN all),
            lastUpdated |-> last]

-----------------------------------------------------------------------------
(***************************************************************************)
(* version.Compatibility: whether a peer's version is compatible with the  *)
(* local one, before and after the upgrade at minCompatibleTime. A peer    *)
(* asks it for every ping that it sends (peer.shouldDisconnect).           *)
(***************************************************************************)

CONSTANT MaxPart   \* bound of a version's numbers

Applications == [major : 0 .. MaxPart, minor : 0 .. MaxPart, patch : 0 .. MaxPart]

\* Application.Compare
Compare(a, o) ==
    IF a.major # o.major THEN a.major - o.major
    ELSE IF a.minor # o.minor THEN a.minor - o.minor ELSE a.patch - o.patch

Before(a, o) == Compare(a, o) < 0

\* Application.Compatible
MajorCompatible(a, o) == a.major <= o.major

\* compatibility.Compatible; upgraded is ~now.Before(minCompatibleTime).
Compatible(c, peer, upgraded) ==
    /\ MajorCompatible(c.version, peer)
    /\ \/ ~Before(peer, c.minCompatible)
       \/ ~upgraded /\ ~Before(peer, c.prevMinCompatible)

-----------------------------------------------------------------------------

\* Upgrading a peer never makes it incompatible, whichever part of its version
\* grows, and the passing of minCompatibleTime never makes one compatible: a
\* connection that is refused for its version is not accepted later on.
VersionsMonotone(c, peer, newer) ==
    LET le(a, b) == \/ a.major < b.major
                    \/ a.major = b.major /\ a.minor < b.minor
                    \/ a.major = b.major /\ a.minor = b.minor /\ a.patch <= b.patch
    IN  /\ \A up \in BOOLEAN :
              Compatible(c, peer, up) /\ le(peer, newer) => Compatible(c, newer, up)
        /\ Compatible(c, peer, TRUE) => Compatible(c, peer, FALSE)

-----------------------------------------------------------------------------
(***************************************************************************)
(* utils/set/bits.go: a set of small numbers as the bits of a big.Int,     *)
(* which a warp signature carries as bytes. The number keeps no leading    *)
(* zeros, so neither do its bytes. ByteBits is the width of a byte.        *)
(***************************************************************************)

CONSTANT ByteBits

-----------------------------------------------------------------------------
BitsContains(b, i) == (b \div 2^i) % 2 = 1
BitsAdd(b, i) == IF BitsContains(b, i) THEN b ELSE b + 2^i
BitsRemove(b, i) == IF BitsContains(b, i) THEN b - 2^i ELSE b
BitsUnion(b, c) == b | c
BitsIntersection(b, c) == b & c

\* AndNot
BitsDifference(b, c) == b - (b & c)
BitsClear(b) == 0

\* NewBits, of numbers in some order and perhaps twice.
RECURSIVE NewBits(_)
NewBits(bits) ==
    IF bits = <<>> THEN 0
    ELSE BitsAdd(NewBits(SubSeq(bits, 1, Len(bits) - 1)), bits[Len(bits)])

BitLen(b) == CHOOSE n \in 0 .. b : b < 2^n /\ (n = 0 \/ b >= 2^(n - 1))

\* The Hamming weight.
RECURSIVE BitsLen(_)
BitsLen(b) == IF b = 0 THEN 0 ELSE (b % 2) + BitsLen(b \div 2)

\* Big endian, without leading zeros.
RECURSIVE BitsBytes(_)
BitsBytes(b) ==
    IF b = 0 THEN <<>> ELSE Append(BitsBytes(b \div 2^ByteBits), b % 2^ByteBits)

RECURSIVE BitsFromBytes(_)
BitsFromBytes(bytes) ==
    IF bytes = <<>> THEN 0
    ELSE BitsFromBytes(SubSeq(bytes, 1, Len(bytes) - 1)) * 2^ByteBits + bytes[Len(bytes)]

-----------------------------------------------------------------------------
Members(b) == {i \in 0 .. 2 * ByteBits + 2 : BitsContains(b, i)}

\* A bit set is the set of its members: every operation does to the number what
\* it says it does to the set, and bytes that came from a bit set give it back.
\* Bytes that did not are those of a bit set only if they have no leading zero,
\* which is what a signature's bits are checked for before they are used.
BitsAreSets(bits, others, bytes) ==
    LET b == NewBits(bits)
        c == NewBits(others)
        S == {bits[i] : i \in DOMAIN bits}
        T == {others[i] : i \in DOMAIN others}
    IN  /\ Members(b) = S /\ BitsLen(b) = Cardinality(S)
        /\ BitLen(b) = IF S = {} THEN 0 ELSE 1 + CHOOSE m \in S : \A i \in S : i <= m
        /\ Members(BitsUnion(b, c)) = S \cup T
        /\ Members(BitsIntersection(b, c)) = S \cap T
        /\ Members(BitsDifference(b, c)) = S \ T
        /\ \A i \in T : Members(BitsRemove(b, i)) = S \ {i}
        /\ BitsClear(b) = NewBits(<<>>)
        /\ BitsFromBytes(BitsBytes(b)) = b
        /\ BitsBytes(BitsFromBytes(bytes)) = bytes <=> (bytes = <<>> \/ bytes[1] # 0)

-----------------------------------------------------------------------------
(***************************************************************************)
(* utils/bloom: a filter that hashes an element once per seed and sets the *)
(* bits it lands on (filter.go), its bytes as they go to a peer, and the   *)
(* filter that the peer parses from them (read_filter.go). The bits are    *)
(* in bytes; a seed takes BytesPerSeed of them, most significant first.    *)
(***************************************************************************)

CONSTANTS
    HashBits,      \* 64 in the code
    Rotation,      \* hashRotation, 17 in the code
    MaxHashes,     \* 16 in the code
    MaxEntries,    \* bound: bytes in a filter
    MaxAdded       \* bound: elements that are added

VARIABLE
    bf      \* [hashSeeds, entries, added]: the seeds, the bytes, the elements added

Hashes       == 0 .. 2 ^ HashBits - 1
BytesPerSeed == HashBits \div ByteBits

-----------------------------------------------------------------------------
RotateLeft(h) == ((h * 2 ^ Rotation) % 2 ^ HashBits) + h \div 2 ^ (HashBits - Rotation)

\* The hashes of an element, each made from the one before.
HashesOf(seeds, hash) ==
    FoldLeft(LAMBDA hs, seed :
                Append(hs, RotateLeft(IF hs = <<>> THEN hash ELSE Last(hs)) ^^ seed),
             <<>>, seeds)

\* Where they land in n bytes.
IndicesOf(seeds, n, hash) ==
    {h % (n * ByteBits) : h \in ToSet(HashesOf(seeds, hash))}

BitAt(entries, i) == (entries[(i \div ByteBits) + 1] \div 2 ^ (i % ByteBits)) % 2

ContainsHash(f, hash) ==
    \A i \in IndicesOf(f.hashSeeds, Len(f.entries), hash) : BitAt(f.entries, i) = 1

AddHash(hash) ==
    LET n == Len(bf.entries)
        set == IndicesOf(bf.hashSeeds, n, hash)
        InByte(b) == {i % ByteBits : i \in {j \in set : j \div ByteBits = b - 1}}
        Bits(B) == FoldLeft(LAMBDA acc, i : acc + 2 ^ i, 0, SetToSeq(B))
    IN  bf' = [bf EXCEPT !.entries = [b \in 1 .. n |-> @[b] | Bits(InByte(b))],
                         !.added = @ \cup {hash}]

-----------------------------------------------------------------------------
SeedBytes(seed) ==
    [i \in 1 .. BytesPerSeed |->
        (seed \div 2 ^ (ByteBits * (BytesPerSeed - i))) % 2 ^ ByteBits]

SeedOf(bytes) == FoldLeft(LAMBDA acc, b : acc * 2 ^ ByteBits + b, 0, bytes)

Marshal(f) ==
    <<Len(f.hashSeeds)>> \o FlattenSeq([i \in DOMAIN f.hashSeeds |-> SeedBytes(f.hashSeeds[i])])
        \o f.entries

Invalid == [hashSeeds |-> <<>>, entries |-> <<>>]

Parse(bytes) ==
    LET n == IF bytes = <<>> THEN 0 ELSE bytes[1]
        offset == 1 + n * BytesPerSeed
    IN  IF n < 1 \/ n > MaxHashes \/ Len(bytes) < offset + 1 THEN Invalid
        ELSE [hashSeeds |-> [i \in 1 .. n |->
                                SeedOf(SubSeq(bytes, 2 + (i - 1) * BytesPerSeed,
                                              1 + i * BytesPerSeed))],
              entries   |-> SubSeq(bytes, offset + 1, Len(bytes))]

\* Random seeds, at least one and not too many.
NewHashSeeds == UNION {[1 .. n -> Hashes] : n \in 1 .. MaxHashes}

\* New: all bits are clear.
BloomInit ==
    \E seeds \in NewHashSeeds, m \in 1 .. MaxEntries :
        bf = [hashSeeds |-> seeds, entries |-> [b \in 1 .. m |-> 0], added |-> {}]

BloomNext ==
    /\ Cardinality(bf.added) < MaxAdded
    /\ \E hash \in Hashes \ bf.added : AddHash(hash)

-----------------------------------------------------------------------------
\* No false negatives: the filter, and the filter that a peer parses from its
\* bytes, hold every element that was added, so a peer that says what it has in
\* this way is not sent it again.
NoFalseNegatives ==
    \A hash \in bf.added :
        ContainsHash(bf, hash) /\ ContainsHash(Parse(Marshal(bf)), hash)

\* The peer's filter is this one: same seeds, same bits.
ParsesBack == Parse(Marshal(bf)) = [hashSeeds |-> bf.hashSeeds, entries |-> bf.entries]

-----------------------------------------------------------------------------
(***************************************************************************)
(* utils/ids/bits.go: comparing a range of the bits of two IDs, byte by    *)
(* byte with masks on the first and the last byte. An ID is a sequence of  *)
(* bytes; bit i is bit i % BitsPerByte of byte i \div BitsPerByte.         *)
(***************************************************************************)

CONSTANTS
    BitsPerByte,  \* 8 in the code
    NumBytes      \* 32 in the code

NumBits == BitsPerByte * NumBytes
Bytes   == 0 .. 2 ^ BitsPerByte - 1
IDs     == [0 .. NumBytes - 1 -> Bytes]

-----------------------------------------------------------------------------
\* -1 << startBit, as far as the bits of a byte go.
StartMask(start) == (2 ^ BitsPerByte - 1) - (2 ^ (start % BitsPerByte) - 1)

StopMask(stop) == 2 ^ ((stop % BitsPerByte) + 1) - 1

\* stop is the last bit of the range in what follows.
EqualSubset(start, end, id1, id2) ==
    LET stop == end - 1
        i == start \div BitsPerByte
        j == stop \div BitsPerByte
        Same(mask, b) == (mask & id1[b]) = (mask & id2[b])
    IN  CASE start > stop \/ stop < 0 -> TRUE
          [] start <= stop /\ stop >= NumBits -> FALSE
          [] OTHER ->
               /\ \A b \in i + 1 .. j - 1 : id1[b] = id2[b]
               /\ IF i = j THEN Same(StartMask(start) & StopMask(stop), i)
                  ELSE Same(StartMask(start), i) /\ Same(StopMask(stop), j)

NoDifference == -1

TrailingZeros(x) == CHOOSE n \in 0 .. BitsPerByte - 1 :
                        x % 2 ^ n = 0 /\ (x \div 2 ^ n) % 2 = 1

\* The bytes of the range are looked at in order, the ends through their masks.
FirstDifferenceSubset(start, end, id1, id2) ==
    LET stop == end - 1
        i == start \div BitsPerByte
        j == stop \div BitsPerByte
        mask == [b \in i .. j |->
                    IF i = j THEN StartMask(start) & StopMask(stop)
                    ELSE IF b = i THEN StartMask(start)
                    ELSE IF b = j THEN StopMask(stop) ELSE 2 ^ BitsPerByte - 1]
        Differs(b) == (mask[b] & id1[b]) # (mask[b] & id2[b])
        first == Min({b \in i .. j : Differs(b)})
    IN  IF \/ start > stop \/ stop < 0 \/ stop >= NumBits
           \/ \A b \in i .. j : ~Differs(b)
        THEN NoDifference
        ELSE TrailingZeros((mask[first] & id1[first]) ^^ (mask[first] & id2[first]))
             + first * BitsPerByte

\* utils/ids/id.go
XOR(id1, id2) == [b \in DOMAIN id1 |-> id1[b] ^^ id2[b]]

Bit(id, i) == (id[i \div BitsPerByte] \div 2 ^ (i % BitsPerByte)) % 2

-----------------------------------------------------------------------------
\* Both functions agree with the comparison bit by bit, on every range: at byte
\* borders, inside one byte, for empty ranges and for ranges past the end; and
\* the bits that differ are those of the exclusive or.
SubsetsAgree(start, end, id1, id2) ==
    LET differing == {i \in start .. end - 1 : Bit(id1, i) # Bit(id2, i)} IN
    IF end > NumBits /\ start < end
    THEN /\ ~EqualSubset(start, end, id1, id2)
         /\ FirstDifferenceSubset(start, end, id1, id2) = NoDifference
    ELSE /\ EqualSubset(start, end, id1, id2) <=> differing = {}
         /\ FirstDifferenceSubset(start, end, id1, id2) =
                IF differing = {} THEN NoDifference ELSE Min(differing)
         /\ differing = {i \in start .. end - 1 : Bit(XOR(id1, id2), i) = 1}

-----------------------------------------------------------------------------
(***************************************************************************)
(* IDs as text: utils/ids (ID, ShortID, NodeID) on top of utils/cb58, in   *)
(* strings, JSON and map keys.                                             *)
(*                                                                         *)
(* Bytes are sequences; a text is a sequence of tokens: quotes, "null",    *)
(* the prefix of node IDs, and a run of base58 digits, which is one token. *)
(* External: base58 (a bijection with its runs of digits; a run with       *)
(* another character is a token "other") and the hashes, taken to have no  *)
(* collisions.                                                             *)
(***************************************************************************)

CONSTANTS
    IDLen,        \* bytes of an ID
    ShortIDLen,   \* bytes of a ShortID and of a NodeID
    LongBase      \* values of half of a long

Quote == [t |-> "quote"]
Null == [t |-> "null"]
NodeIDPrefix == [t |-> "NodeID-"]

Err == [err |-> TRUE]
Ok(v) == [err |-> FALSE, val |-> v]

-----------------------------------------------------------------------------
(* cb58: a run of digits stands for bytes and a checksum over some bytes   *)

Checksum(bytes) == [over |-> bytes]

Encode(bytes) == <<[t |-> "digits", raw |-> bytes, sum |-> Checksum(bytes)]>>

\* A run may be too short to hold a checksum ("short"), or not be in base58.
Decode(text) ==
    IF Len(text) # 1 \/ text[1].t # "digits" THEN Err
    ELSE IF text[1].sum # Checksum(text[1].raw) THEN Err
    ELSE Ok(text[1].raw)

-----------------------------------------------------------------------------
(* IDs, which are hashes                                                   *)

ToHash(len, bytes) == IF Len(bytes) = len THEN Ok(bytes) ELSE Err
Zeros(len) == [i \in 1 .. len |-> 0]
Quoted(text) == <<Quote>> \o text \o <<Quote>>
Inner(text) == SubSeq(text, 2, Len(text) - 1)

\* UnmarshalJSON into an ID that was old gives the ID after it, and whether it
\* fails. Of bytes that have the wrong length zeros are left.
Kept(old) == [err |-> TRUE, val |-> old]

UnmarshalHash(len, old, text) ==
    IF text = <<Null>> THEN Ok(old)
    ELSE IF Len(text) < 2 \/ text[1] # Quote \/ text[Len(text)] # Quote THEN Kept(old)
    ELSE LET d == Decode(Inner(text))
         IN  IF d.err THEN Kept(old)
             ELSE IF ToHash(len, d.val).err THEN Kept(Zeros(len))
             ELSE Ok(d.val)

\* ID
ToID(bytes) == ToHash(IDLen, bytes)
FromString(text) == IF Decode(text).err THEN Err ELSE ToID(Decode(text).val)
IDString(id) == Encode(id)
IDMarshalJSON(id) == Quoted(Encode(id))
IDUnmarshalJSON(old, text) == UnmarshalHash(IDLen, old, text)

\* ShortID
ToShortID(bytes) == ToHash(ShortIDLen, bytes)
ShortFromString(text) == IF Decode(text).err THEN Err ELSE ToShortID(Decode(text).val)
ShortIDString(id) == Encode(id)
ShortIDMarshalJSON(id) == Quoted(Encode(id))
ShortIDUnmarshalJSON(old, text) == UnmarshalHash(ShortIDLen, old, text)

ShortFromPrefixedString(text, prefix) ==
    IF text = <<>> \/ text[1] # prefix THEN Err ELSE ShortFromString(Tail(text))

PrefixedString(id, prefix) == <<prefix>> \o ShortIDString(id)

\* NodeID: every error of its text leaves zeros.
NodeIDFromString(text) == ShortFromPrefixedString(text, NodeIDPrefix)
NodeIDString(id) == PrefixedString(id, NodeIDPrefix)
NodeIDMarshalJSON(id) == Quoted(NodeIDString(id))

NodeIDUnmarshalJSON(old, text) ==
    IF text = <<Null>> THEN Ok(old)
    ELSE IF Len(text) < 4 \/ text[1] # Quote \/ text[Len(text)] # Quote THEN Kept(old)
    ELSE IF NodeIDFromString(Inner(text)).err THEN Kept(Zeros(ShortIDLen))
    ELSE NodeIDFromString(Inner(text))

-----------------------------------------------------------------------------
(* Prefix: the hash of the prefixes, each as a long, and the ID            *)

PackLong(n) == <<n \div LongBase, n % LongBase>>

Prefix(id, prefixes) ==
    [sha256 |-> FlattenSeq([i \in DOMAIN prefixes |-> PackLong(prefixes[i])]) \o id]

-----------------------------------------------------------------------------
Kinds == {"ID", "ShortID", "NodeID"}
LenOf(kind) == IF kind = "ID" THEN IDLen ELSE ShortIDLen

Written(kind, id) ==
    CASE kind = "ID" -> IDString(id) [] kind = "ShortID" -> ShortIDString(id)
      [] OTHER -> NodeIDString(id)

Read(kind, text) ==
    CASE kind = "ID" -> FromString(text) [] kind = "ShortID" -> ShortFromString(text)
      [] OTHER -> NodeIDFromString(text)

WrittenJSON(kind, id) ==
    CASE kind = "ID" -> IDMarshalJSON(id) [] kind = "ShortID" -> ShortIDMarshalJSON(id)
      [] OTHER -> NodeIDMarshalJSON(id)

ReadJSON(kind, old, text) ==
    CASE kind = "ID" -> IDUnmarshalJSON(old, text)
      [] kind = "ShortID" -> ShortIDUnmarshalJSON(old, text)
      [] OTHER -> NodeIDUnmarshalJSON(old, text)

\* What an ID is written as is read as the same ID, by the functions and by
\* JSON, whatever the target held before, and by no other kind of ID.
WrittenIsRead(kind, id, old) ==
    /\ Read(kind, Written(kind, id)) = Ok(id)
    /\ ReadJSON(kind, old, WrittenJSON(kind, id)) = Ok(id)
    /\ \A k \in Kinds \ {kind} : Read(k, Written(kind, id)).err

\* Only one text is read as an ID: its own, or "null" for what was there. Under
\* an error the target keeps its value or is zero.
ReadIsWritten(kind, old, text) ==
    LET r == ReadJSON(kind, old, text)
        s == Read(kind, text)
    IN  /\ ~r.err => text = WrittenJSON(kind, r.val) \/ (text = <<Null>> /\ r.val = old)
        /\ r.err => r.val \in {old, Zeros(LenOf(kind))}
        /\ ~s.err => text = Written(kind, s.val)

\* Keys derived with prefixes do not meet: different lists of prefixes, of any
\* lengths, or different IDs give different keys.
PrefixesTellApart(id, p, other, q) ==
    Prefix(id, p) = Prefix(other, q) => id = other /\ p = q
=============================================================================
