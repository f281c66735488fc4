----------------------------- MODULE MCLibrary -----------------------------
(***************************************************************************)
(* The library: one data structure per behaviour, or one input of a pure   *)
(* algorithm or format, beside a reference definition of what it should    *)
(* compute. part says which; state is the structure or the input, with s2  *)
(* .. s7 for the other variables of IPTracker and Metrics. The variables   *)
(* of Caches are its own. Every input within the bounds is picked.         *)
(***************************************************************************)
EXTENDS Caches, FiniteSets, TLC

CONSTANTS
    k1, k2, k3, k4, k5,     \* Caches
    WordBits,               \* Words: random words
    BitsPerByte, NumBytes,  \* IDs
    MaxPart,                \* a version's numbers
    MaxHalfLives,           \* the averager's span of time
    MathBits,               \* the width of a number
    ByteBits,               \* bit sets
    HashBits, Rotation,     \* Bloom filters
    MaxHashes, MaxEntries, MaxAdded,
    Base, ShortLen, IntLen, CodecMaxSize, MaxBytes,   \* Codec, and the inputs' length
    DefaultPerPage, MaxPerPage, ChunkSize, MaxHeight, \* Jsonrpc
    HeapKeys, HeapValues,                             \* Collections
    BiKeys, BiValues, HashKeys, HashValues, SetElements,
    PeerIDs, VdrPeers, FitPeers, Quotas,              \* PeerSelection
    TrackedNodes, TrackerVersions, DesiredMinResponsive,
    ReservoirSize, RescaleThreshold, MaxTime, Draws,  \* Metrics
    TimerUsers, MaxEvents, GaugeValues,
    Callers, Names, MetricKinds, MaxMetrics, MaxMarks,
    AddressNodes, Subnets, TrackedSubnets,            \* IPTracker
    MaxTimestamp, MinCountEstimate,
    Primary, Absent, None

VARIABLES part, state, s2, s3, s4, s5, s6, s7

shared == <<state, s2, s3, s4, s5, s6, s7>>
mcVars == <<part, shared, vars, lru>>

\* Five keys whose values have sizes 1, 2, 2, 3 and 6, in a sizedLRU of size 5 or
\* an LRU of three entries.
MCSizeOf ==
    [k \in Keys |-> CASE k = k1 -> 1 [] k \in {k2, k5} -> 2 [] k = k3 -> 3 [] OTHER -> 6]

\* Some elements have one hash, and the order of the hashes is another one.
Hash(x) == (3 * x) % 5

Coll == INSTANCE Collections WITH
    HashOf <- Hash, heap <- state, bimap <- state, lhm <- state, sset <- state
Word == INSTANCE Words WITH IDLen <- 3, ShortIDLen <- 2, LongBase <- 2, bf <- state
Peers == INSTANCE PeerSelection WITH Nodes <- TrackedNodes, ps <- state, tracker <- state
Measure == INSTANCE Metrics WITH
    Users <- TimerUsers, decay <- state, timer <- state,
    enabled <- state, registry <- s2, metric <- s3, meters <- s4, ticking <- s5,
    caller <- s6, removed <- s7
IPs == INSTANCE IPTracker WITH
    Nodes <- AddressNodes,
    tracked <- state, connected <- s2, subnets <- s3, bloom <- s4
Code == INSTANCE Codec WITH
    MaxSize <- CodecMaxSize, Registrations <- <<"leaf", "wrapper", "leaf">>
RPC == INSTANCE Jsonrpc WITH
    MaxBlockSizeBytes <- 9, DefaultMaxBytes <- 6, DefaultMaxGas <- 4, DefaultEvidence <- 2,
    DefaultSubscriptions <- 1, HeaderBytes <- 2, CommitBytes <- 1
Message == INSTANCE Messages WITH
    MaxMessageSize <- 2, MaxMessageTimeout <- 3, MaxTime <- 100,
    FrameBase <- 2, FrameLen <- 2, DeadlineBits <- 4,
    MaxCertificateLen <- 2, AllowedModulusLens <- {1, 3}
DB == INSTANCE Database WITH
    Keys <- {"a", "b"}, Empty <- Absent, NumEntries <- 0, MaxBatch <- 0, MaxCalls <- 0,
    pos <- state, fpc <- state, fetched <- state, data <- state, err <- state,
    onClose <- state, dbClosed <- state, user <- state, seen <- state
AppMsg == INSTANCE AppMessages WITH Half <- 2, MaxVarintLen <- 3, IDLen <- 1

\* The nodes of IPTracker are alike, and nothing else here names them.
Symmetry == Permutations(AddressNodes)

-----------------------------------------------------------------------------
(* Inputs                                                                   *)

UpTo(n, S) == UNION {[1 .. k -> S] : k \in 0 .. n}

\* Texts of up to four tokens, written by no encoder most of them.
IDKinds == {"ID", "ShortID", "NodeID"}
IDsOf(k) == [1 .. Word!LenOf(k) -> 0 .. 1]
EncodedDigits ==
    LET raw == UpTo(3, 0 .. 1)
    IN {Word!Encode(r)[1] : r \in raw}
       \cup {[Word!Encode(r)[1] EXCEPT !.sum = Word!Checksum(<<1>>)] : r \in raw}
Texts ==
    LET short == UpTo(2, {[t |-> x] : x \in {"quote", "null", "NodeID-", "short", "other"}}
                         \cup EncodedDigits)
    IN short \cup {<<a>> \o s \o <<b>> : a, b \in {Word!Quote, Word!Null}, s \in short}

-----------------------------------------------------------------------------
(* Jsonrpc: one request of any method, or two of some                       *)

Params(f) ==
    {None, [other |-> 0]}
    \cup {[array |-> a] : a \in UNION {[1 .. n -> {-1, 0, 2}] : n \in {0, 1, Len(f.argNames)}}}
    \cup {[map |-> m] : m \in UNION {[S -> {-1, 0, 2}] : S \in SUBSET ToSet(f.argNames)}}

Calls(names) ==
    UNION {[id : {None, 1}, method : {n}, params : Params(RPC!Routes[n]),
            result : {"ok", "error", "panic"}] : n \in names}
    \cup [id : {1}, method : {"nosuch"}, params : {None}, result : {"ok"}]

Batches ==
    LET some == Calls({"health", "genesis", "block", "validators"})
        plain == {[r EXCEPT !.id = 2] : r \in
                    {r \in some : /\ r.id = 1 /\ r.result = "ok"
                                  /\ r.params \in {None, [array |-> <<2>>], [array |-> <<0>>],
                                                   [map |-> [height |-> 2]]}}}
    IN {<<r>> : r \in Calls(DOMAIN RPC!Routes)} \cup (some \X plain) \cup (plain \X some)

-----------------------------------------------------------------------------
(* Messages: what is built, and bytes with up to two layers of compression  *)

IPAddrs == [form : {"v4", "4in6", "v6"}, a : {"a1"}]

Outbound ==
    [kind : {"Ping"}, uptime : {0, 100}] \cup [kind : {"Pong"}]
    \cup [kind : {"Handshake"}, network : {1}, myTime : {0}, sig : {"s"}, filter : {"f"},
          ip : [addr : IPAddrs, port : {1}, timestamp : {0, 1}], subnets : {<<>>, <<"n">>}]
    \cup [kind : {"GetPeerList"}, filter : {"f"}]
    \cup [kind : {"PeerList"}, bypass : BOOLEAN,
          peers : UpTo(1, [cert : {"c1"}, addr : IPAddrs, port : {1}, timestamp : {1},
                           sig : {"s"}])]
    \cup [kind : {"AppRequest"}, chain : {"ch"}, id : {0, 1}, deadline : 0 .. 15, bytes : {"b"}]
    \cup [kind : {"AppResponse"}, chain : {"ch"}, id : {0}, bytes : {"b"}]
    \cup [kind : {"AppError"}, chain : {"ch"}, id : {0}, code : {-1}]
    \cup [kind : {"AppGossip"}, chain : {"ch"}, bytes : {"b"}]

Plain ==
    {Message!ProtoMarshal(m, n) : n \in 1 .. 4,
        m \in {[kind |-> "Pong"], [kind |-> "AppGossip", chain |-> "ch", bytes |-> "b"],
               [kind |-> "AppResponse", chain |-> "ch", id |-> 0, bytes |-> "b"]}}

Zipped(bs, lens) == {[term |-> "zstd", of |-> b, len |-> n] : b \in bs, n \in lens}
Wrapped(zs) == {Message!ProtoMarshal(Message!CompressedZstd(z), 2) : z \in zs}

Layers ==
    LET once == Wrapped(Zipped(Plain, {1}))
    IN Plain \cup Zipped(Plain, {1}) \cup once \cup Wrapped(Zipped(once, 0 .. 1))

-----------------------------------------------------------------------------
(* Certificates                                                             *)

CertKeys ==
    [oid : {"RSA"}, n : {-1, 0, 4, 5}, bits : {1, 2, 3}, e : {3, 65537}]
    \cup [oid : {"ECDSA"}, curve : {"P256", "P384"}] \cup [oid : {"Ed25519"}]

CertFields == Message!Fields

Certs ==
    [len : {1, 2, 3}, strict : BOOLEAN, key : CertKeys,
     elements : {CertFields, <<"VERSION">> \o CertFields, Tail(CertFields), <<>>}]

FewCerts ==
    {c \in Certs : /\ c.len # 2 /\ c.strict /\ c.elements = CertFields
                   /\ c.key.oid # "Ed25519" /\ (c.key.oid = "RSA" => c.key.n = 5 /\ c.key.bits = 1)}

-----------------------------------------------------------------------------
(* AppRouting: routers with no, one or several handlers                     *)

RouterNodes ==
    LET handlers == [validators : {{"a"}, {"a", "b"}}, answers : {0, -1}]
        one(h) == AppMsg!AddHandler(AppMsg!NewRouter, 2, h)
    IN [closed : BOOLEAN, served : BOOLEAN,
        handlers : {AppMsg!NewRouter} \cup {one(h) : h \in handlers}
                   \cup {AppMsg!AddHandler(AppMsg!AddHandler(one(h), 5, k), 2, k) :
                            h, k \in handlers}]

(* WarpMessages: messages of two networks and chains, and nodes that have   *)
(* accepted some blocks and added one message                               *)

Payloads ==
    {AppMsg!NewHash(b).bytes : b \in {"b1", "b2"}}
    \cup {AppMsg!NewAddressedCall(s, "d").bytes : s \in {"", "s"}}
    \cup {[type |-> 3, body |-> "b1", extra |-> FALSE], [type |-> 1, body |-> "b1", extra |-> TRUE]}

WarpMsgs ==
    {AppMsg!NewUnsignedMessage(n, c, p) : n \in {1, 2}, c \in {"c1", "c2"}, p \in Payloads}

WarpNodes ==
    {LET fresh == [sk |-> 1, net |-> 1, chain |-> "c1", db |-> {}, blocks |-> bs]
     IN AppMsg!APIAddMessage(AppMsg!APIAddMessage(fresh, m.bytes), [m.bytes EXCEPT !.extra = TRUE]) :
        bs \in SUBSET {"b1", "b2"}, m \in WarpMsgs}

-----------------------------------------------------------------------------
(* ValidatorState, Config and NodeUptimes                                   *)

SubnetIDs == {Primary, "s1", "s2"}

\* A configuration that says something of the fields in f.
Given(f, a, b, c, d, e) ==
    [x \in f |-> CASE x = "name" -> e = d [] x = "maxBytes" -> a [] x = "maxGas" -> b
                   [] x = "evidence" -> c [] x = "perClient" -> d [] OTHER -> e]

Configs ==
    {Given(f, a, b, c, d, e) :
        f \in SUBSET {"name", "maxBytes", "maxGas", "evidence", "perClient", "clients"},
        a \in {-2, -1, 0, 1, 5, 9, 10}, b \in {-2, -1, 3}, c \in {-1, 0, 2, 5, 9, 10},
        d, e \in {-1, 0}}

Observed(up, of) == [up |-> up, of |-> of, err |-> FALSE]
Observations == [up : {0, 2, 3}, of : {3, 4}, err : BOOLEAN]

Pick(p, inputs) == part' = p /\ state' \in inputs

PickAlgorithm ==
    /\ part = "start"
    /\ \/ Pick("draw", [n : 0 .. Word!MaxWord])
       \/ Pick("sample", [length : 0 .. 5, k : 0 .. 4])
       \/ Pick("idbits", [start : 0 .. Word!NumBits + 1, end : 0 .. Word!NumBits + 1,
                          a : Word!IDs, b : {f \in Word!IDs : f[0] = 1 \/ f[1] = 1}])
       \/ \E t \in DOMAIN Code!Universe :
             Pick("values", [t : {t}, v : Code!Universe[t].values])
       \/ \E n \in 0 .. MaxBytes :
             Pick("bytes", [t : DOMAIN Code!Universe, b : [1 .. n -> 0 .. Base - 1]])
       \/ Pick("versions", [min : Word!Applications, prev : Word!Applications,
                            peer : Word!Applications])
       \/ Pick("average", [prediction : {0, 3}, start : {0, 1},
                           obs : [1 .. 3 -> [value : {0, 1, 4}, time : 0 .. MaxHalfLives]]])
       \/ Pick("math", [a : 0 .. Word!MaxUint, b : 0 .. Word!MaxUint])
       \/ Pick("pages", [length : 0 .. MaxHeight,
                         perPage : {None} \cup (-1 .. MaxPerPage + 1)])
       \/ Pick("search", [found : SUBSET [height : 1 .. 3, index : 0 .. 1]])
       \/ Pick("range", [height : 0 .. MaxHeight, base : 0 .. MaxHeight, limit : 1 .. 3,
                         min : -1 .. MaxHeight + 1, max : -1 .. MaxHeight + 1])
       \/ Pick("bitset", [a : UpTo(2, 0 .. 4), b : UpTo(2, 0 .. 4), bytes : UpTo(2, 0 .. 3)])
       \/ Pick("queue", [items : UpTo(4, 0 .. 2), pushed : 0 .. 2, at : 0 .. 4, to : 0 .. 2])
       \/ Pick("sort", UpTo(4, 0 .. 4))
       \/ Pick("batch", [db : [{"a", "b"} -> {None, 1, Absent}],
                         ops : UpTo(3, [key : {"a", "b"}, value : {1, 2, None, Absent}])])
       \/ Pick("reservoir", 1 .. 6)
       \/ Pick("percentiles", UpTo(4, {-1, 0, 2, 5}))
       \/ Pick("ewma", UpTo(4, {0, 1, 3}))
       \/ \E k \in IDKinds : Pick("write", [kind : {k}, id : IDsOf(k), old : IDsOf(k)])
       \/ \E k \in IDKinds : Pick("read", [kind : {k}, old : IDsOf(k), text : Texts])
       \/ Pick("prefix", [a : IDsOf("ID"), p : UpTo(2, 0 .. 3),
                          b : IDsOf("ID"), q : UpTo(2, 0 .. 3)])
       \/ Pick("views", [base : {<<>>} \cup {n :> 1 : n \in UpTo(3, {1, 2})},
                         v : UpTo(2, {<<1>>, <<2>>}), w : UpTo(2, {<<1>>, <<2>>}),
                         n : UpTo(1, {1, 2}), o : UpTo(1, {1, 2})])

PickFormat ==
    /\ part = "start"
    /\ \/ Pick("rpc", Batches)
       \/ Pick("build", [msg : Outbound, compression : {"none", "zstd", "other"},
                         size : [plain : 1 .. 4, packed : 1 .. 3]])
       \/ Pick("parse", Layers)
       \/ Pick("frames", UpTo(2, Plain \cup Wrapped(Zipped(Plain, {1}))))
       \/ Pick("cert", Certs)
       \/ Pick("chain", UpTo(2, FewCerts))
       \/ Pick("route", [n : RouterNodes, from : {"a", "b"}, id : 0 .. 7, msg : UpTo(2, 0 .. 3),
                         late : BOOLEAN])
       \/ Pick("request", [n : RouterNodes, from : {"a", "b"}, msg : UpTo(4, 0 .. 3),
                           late : BOOLEAN])
       \/ Pick("signed", [msg : WarpMsgs, signers : SUBSET {1, 2, 3}])
       \/ Pick("fetch", [msg : WarpMsgs, node : WarpNodes])
       \/ Pick("say", [a : WarpMsgs, b : WarpMsgs])
       \/ \E s \in SubnetIDs :
             Pick("signers",
                  [node : [subnet : SubnetIDs, source : {Primary, "c"}, requirePrimary : BOOLEAN],
                   named : SubnetIDs \cup {None},
                   pchain : {[x \in SubnetIDs |-> IF x = s THEN a ELSE <<>>] :
                                a \in UpTo(2, [node : {"n1", "n2", None}, weight : {1},
                                               key : {"k1", Absent, None}])}])
       \/ Pick("validations",
               UpTo(2, [node : {"n1", "n2", None}, key : {"k1", None}, weight : {1},
                        validation : {"v1", "v2", None}]))
       \/ Pick("config", [given : Configs, validators : 0 .. 3])
       \/ Pick("uptime",
               [stake : {0, 2}, requirement : {66, 75, 100},
                a : [weight : {0, 1, 3}, connected : BOOLEAN,
                     pings : UpTo(1, Observations) \cup {<<Observed(2, 4), m>> : m \in Observations}],
                b : [weight : {0, 2}, connected : BOOLEAN,
                     pings : {<<>>, <<Observed(3, 4)>>, <<Observed(5, 4)>>}]])

-----------------------------------------------------------------------------
\* The two caches while something else runs.
UniqueStill == LRUInit /\ lru.size = 1
Still == Init /\ kind = "LRU" /\ UniqueStill

From5 == s5 = 0 /\ s6 = 0 /\ s7 = 0

From2 == s2 = 0 /\ s3 = 0 /\ s4 = 0 /\ From5

StructureInit ==
    \/ part = "heap" /\ Coll!HeapInit
    \/ part = "bimap" /\ Coll!BiInit
    \/ part = "lhm" /\ Coll!LHMInit
    \/ part = "peers" /\ Peers!SampleInit
    \/ part = "sset" /\ Coll!SSetInit
    \/ part = "bloom" /\ Word!BloomInit
    \/ part = "tracker" /\ Peers!TrackerInit
    \/ part = "timer" /\ Measure!TimersInit
    \/ part = "decay" /\ Measure!DecayInit

MCInit ==
    \/ part = "caches" /\ Init /\ UniqueStill /\ state = None /\ From2
    \/ part = "lru" /\ Init /\ kind = "LRU" /\ LRUInit /\ state = None /\ From2
    \/ part = "start" /\ Still /\ state = None /\ From2
    \/ Still /\ StructureInit /\ From2
    \/ part = "addresses" /\ Still /\ IPs!Init /\ From5
    \/ part = "metrics" /\ Still /\ Measure!MetricsInit

StructureNext ==
    \/ part = "heap" /\ Coll!HeapNext
    \/ part = "bimap" /\ Coll!BiNext
    \/ part = "lhm" /\ Coll!LHMNext
    \/ part = "peers" /\ Peers!SampleNext
    \/ part = "sset" /\ Coll!SSetNext
    \/ part = "bloom" /\ Word!BloomNext
    \/ part = "tracker" /\ Peers!TrackerNext
    \/ part = "timer" /\ Measure!TimersNext
    \/ part = "decay" /\ Measure!DecayNext

MCNext ==
    \/ part = "caches" /\ Next /\ UNCHANGED <<part, shared, lru>>
    \/ part = "lru" /\ LRUNext /\ UNCHANGED <<part, shared, vars>>
    \/ PickAlgorithm /\ UNCHANGED <<vars, lru, s2, s3, s4, s5, s6, s7>>
    \/ PickFormat /\ UNCHANGED <<vars, lru, s2, s3, s4, s5, s6, s7>>
    \/ StructureNext /\ UNCHANGED <<part, vars, lru, s2, s3, s4, s5, s6, s7>>
    \/ part = "addresses" /\ IPs!Next /\ UNCHANGED <<part, vars, lru, s5, s6, s7>>
    \/ part = "metrics" /\ Measure!MetricsNext /\ UNCHANGED <<part, vars, lru>>

MCSpec == MCInit /\ [][MCNext]_mcVars

-----------------------------------------------------------------------------
\* What a step may do: every operation of a SampleableSet is one of the PlainSet it
\* implements, and a put on a sizedLRU drops the least recently used entries that
\* do not fit beside the new one, and only those.
StepsAsPromised ==
    /\ [][part = "sset" => Coll!ActsAsSet]_mcVars
    /\ PutKeepsWhatFits

\* The data structures agree with what was put into them: the index of a heap or
\* of a slice names where every entry is, the two maps of a bimap are inverse, an
\* iterator gives every entry once, a key has one instance that is not evicted,
\* samples fit and are not short, what was added to a filter is found, also after
\* it was sent, and the addresses that are gossiped are the connected validators'
\* latest ones. (What is gossiped depends on the subnets alone and RunTimers
\* changes the filter alone: all subnets occur with a fresh filter.)
StructuresSound ==
    /\ part = "heap" => Coll!HeapIndexed /\ Coll!LeastInFront
    /\ part = "bimap" => Coll!Bijective
    /\ part = "lhm" => Coll!IteratesAll /\ Coll!EntriesAgree
    /\ part = "sset" => Coll!SampleableIndexed
    /\ part = "lru" => OneLiveInstance
    /\ part = "peers" => Peers!PeerSetIndexed /\ Peers!SampleFits /\ Peers!SampleNotShort
    /\ part = "tracker" => Peers!ResponsiveAreConnected /\ Peers!FreshPeersFirst
    /\ part = "bloom" => Word!NoFalseNegatives /\ Word!ParsesBack
    /\ part = "addresses" => /\ IPs!GossipedRight
                             /\ IPs!ConnectedAddressKnown
                             /\ IPs!LatestInBloom
                             /\ s4 = IPs!ResetBloomFor(state) => IPs!GossipComplete

\* The metrics tell the truth while callers, snapshots and the arbiter's ticks
\* interleave: no mark of a running meter is lost and none is counted before it was
\* made, all who are handed the registered metric of a name share one metric and a
\* registered meter is ticked, a gauge
\* reaches what it was raised to, priorities of one reservoir stay comparable
\* over a rescale, a uniform reservoir keeps every value with one probability,
\* percentiles grow, a rate is the weighted mean, and a metric is found through
\* every view of its registry.
MeasuresTrue ==
    /\ part = "timer" => Measure!TimerSnapshotAgrees /\ Measure!GaugeReached
    /\ part = "decay" => Measure!PrioritiesComparable /\ Measure!LeastDiscarded
    /\ part = "metrics" => /\ Measure!MarksKept /\ Measure!SnapshotNeverAhead
                           /\ Measure!SharedByName /\ Measure!RegisteredIsTicked
    /\ part = "reservoir" => Measure!KeptUniformly(state)
    /\ part = "percentiles" => Measure!PercentilesOrdered(state, 6)
    /\ part = "ewma" => Measure!RateIsAverage(state)
    /\ part = "views" =>
          Measure!RegisteredThroughViews(state.base, state.v, state.w, state.n, state.o, 2)

Numbers(n) == [i \in 1 .. n |-> i]

\* The pure algorithms compute what their reference definitions say: draws and
\* samples without bias, bits of IDs, versions, averages by age, checked
\* arithmetic, pages and ranges that leave nothing out, bit sets, priority queues
\* and sorting, batches of writes as their writes one after the other,
\* configurations whose evidence fits the block, uptimes as observed.
AlgorithmsCorrect ==
    /\ part = "draw" => Word!UniformDraws(state.n)
    /\ part = "sample" /\ state.k <= state.length => Peers!SamplesAll(state.length, state.k)
    /\ part = "idbits" => Word!SubsetsAgree(state.start, state.end, state.a, state.b)
    /\ part = "versions" =>
          \A newer \in Word!Applications : \A major \in 0 .. MaxPart :
             Word!VersionsMonotone([version |-> [major |-> major, minor |-> 0, patch |-> 0],
                                    minCompatible |-> state.min,
                                    prevMinCompatible |-> state.prev], state.peer, newer)
    /\ part = "average" => Word!WeighsByAge(state.prediction, state.start, state.obs)
    /\ part = "math" => Word!ExactOrRefused(state.a, state.b)
    /\ part = "pages" => /\ RPC!PagesPartition(Numbers(state.length), state.perPage)
                         /\ RPC!ChunksWhole(Numbers(state.length))
    /\ part = "search" => RPC!SearchOrdersAgree(state.found)
    /\ part = "range" /\ state.base <= state.height /\ (state.base = 0 <=> state.height = 0) =>
          RPC!RangeServed(state.base, state.height, state.min, state.max, state.limit)
    /\ part = "config" => RPC!LimitsConsistent(state.given, state.validators)
    /\ part = "bitset" => Word!BitsAreSets(state.a, state.b, state.bytes)
    /\ part = "queue" /\ state.at <= Len(state.items) =>
          Coll!QueueGivesInOrder(state.items, state.pushed, state.at, state.to)
    /\ part = "sort" => Coll!SortedIsRecognised(state)
    /\ part = "batch" => DB!BatchIsSequential(state.db, state.ops)
    /\ part = "uptime" =>
          Peers!UptimeAsObserved(state.stake, <<state.a, state.b>>, state.requirement)

CodecType == Code!Universe[state.t].type

\* What is written is read back as the same thing, and nothing else is read as it:
\* values of the codec (with the size foretold, and one encoding only), IDs as
\* text, messages of the network and their frames, warp messages and signatures,
\* certificates, batches of JSON-RPC, and requests and gossip routed to their
\* handlers and answered once.
FormatsReadBack ==
    /\ part = "values" => Code!RoundTrip(CodecType, state.v)
    /\ part = "bytes" => Code!OneEncoding(CodecType, state.b)
    /\ part = "write" => Word!WrittenIsRead(state.kind, state.id, state.old)
    /\ part = "read" => Word!ReadIsWritten(state.kind, state.old, state.text)
    /\ part = "prefix" => Word!PrefixesTellApart(state.a, state.p, state.b, state.q)
    /\ part = "build" => /\ Message!BuiltIsParsed(state.msg, state.compression, state.size)
                         /\ Message!ExpiresInTime(Message!Content(state.msg), 2)
    /\ part = "parse" => Message!WholeOrRefused(state) /\ Message!OnlyKnownMessages(state)
    /\ part = "frames" => Message!FramesArrive(state)
    /\ part = "cert" => Message!GossipAndTLSAgree(state)
    /\ part = "chain" => Message!IdOfLeaf(state)
    /\ part = "signed" => AppMsg!ParsedIsBuilt(state.msg, state.signers)
    /\ part = "fetch" => AppMsg!FetchedCovers(state.msg, state.node)
    /\ part = "say" => AppMsg!SignaturesSayOneThing(1, state.a.bytes, state.b.bytes)
    /\ part = "signers" => AppMsg!SignersAreThePChains(state.node, state.named, state.pchain)
    /\ part = "validations" => AppMsg!EveryValidationKept(state)
    /\ part = "route" =>
          AppMsg!RoutedToOwner(state.n, state.from, state.id, state.msg, state.late)
    /\ part = "request" =>
          /\ AppMsg!RequestAnswered(state.n, state.from, state.msg, state.late)
          /\ \A D \in SUBSET {1, 3} : \A i \in {1, 3} :
                AppMsg!RequestRoundTrip(state.n, state.from,
                                        [d \in D |-> IF d = 1 THEN "h1" ELSE "h3"],
                                        i, state.msg, state.late)
    /\ part = "rpc" => RPC!AnsweredInOrder(state) /\ RPC!CachedOnlyIfPinned(state)
=============================================================================
