--------------------------- MODULE PeerSelection ----------------------------
(***************************************************************************)
(* Which peers are chosen: the uniform sampler, the peer set that messages are*)
(* sampled from, the tracker of responsive peers, and the uptimes that peers*)
(* tell each other.                                                        *)
(***************************************************************************)
EXTENDS Integers, SequencesExt, FiniteSets, FiniteSetsExt, Functions

-----------------------------------------------------------------------------
(***************************************************************************)
(* utils/sampler/uniform_replacer.go: samples without replacement. The     *)
(* range 0 .. length - 1 is shuffled lazily: drawn holds the places that   *)
(* no longer have their own number, count is how many have been drawn.     *)
(***************************************************************************)

\* defaultMap.get, and Next of the uniformReplacer for one random number.
ReplacerGet(drawn, key) == IF key \in DOMAIN drawn THEN drawn[key] ELSE key

ReplacerPut(drawn, draw, count) ==
    [k \in DOMAIN drawn \cup {draw} |->
        IF k = draw THEN ReplacerGet(drawn, count) ELSE drawn[k]]

\* Sample(k) of a sampler over length numbers: every result that it may have.
RECURSIVE Samples(_, _, _, _)
Samples(length, k, drawn, count) ==
    IF k = 0 THEN {<<>>}
    ELSE UNION {{<<ReplacerGet(drawn, draw)>> \o s :
                    s \in Samples(length, k - 1, ReplacerPut(drawn, draw, count), count + 1)} :
                draw \in count .. length - 1}

-----------------------------------------------------------------------------
\* Sample gives the sequences of k different numbers below length, all of them
\* and no other.
SamplesAll(length, k) ==
    Samples(length, k, <<>>, 0) =
        {s \in [1 .. k -> 0 .. length - 1] : \A i, j \in 1 .. k : s[i] = s[j] => i = j}

-----------------------------------------------------------------------------
(***************************************************************************)
(* The set of connected peers (network/peer/set.go) and the sampling of    *)
(* peers to send to (network.samplePeers) over the sampler without         *)
(* replacement (utils/sampler/uniform_replacer.go), which shuffles the     *)
(* range 0 .. length - 1 lazily. A sample is taken under the lock of the   *)
(* peers, one draw after the other.                                        *)
(***************************************************************************)

CONSTANTS
    PeerIDs,
    VdrPeers,   \* those that validate the subnet
    FitPeers,   \* those that track the subnet and are allowed there
    Quotas      \* numbers of peers that a message may ask for

VARIABLE
    ps          \* [slice, map, sample]: peersSlice, peersMap, the sample in progress

-----------------------------------------------------------------------------
\* Next of the uniformReplacer, when Uint64Inclusive gives draw.
Draw(s, draw) == ReplacerGet(s.drawn, draw)

Drawn(s, draw) ==
    [s EXCEPT !.drawn = ReplacerPut(@, draw, s.count), !.count = @ + 1]

-----------------------------------------------------------------------------
(* peerSet                                                                 *)

Idle == ~ps.sample.running

Add(n) ==
    /\ Idle
    /\ ps' = IF n \in DOMAIN ps.map THEN ps
             ELSE [ps EXCEPT !.slice = Append(@, n),
                             !.map = [x \in DOMAIN @ \cup {n} |->
                                        IF x = n THEN Len(ps.slice) ELSE @[x]]]

RemovePeer(n) ==
    LET last == ps.slice[Len(ps.slice)] IN
    /\ Idle /\ n \in DOMAIN ps.map
    /\ ps' = [ps EXCEPT !.slice = Front([@ EXCEPT ![ps.map[n] + 1] = last]),
                        !.map = [x \in DOMAIN @ \ {n} |->
                                   IF x = last THEN ps.map[n] ELSE @[x]]]

-----------------------------------------------------------------------------
(* samplePeers                                                             *)

\* The quotas as the precondition counts them down; asked keeps what they were.
SamplePeers(named, vdrs, nonVdrs, peers) ==
    LET v == Min({vdrs, Cardinality(VdrPeers)}) IN
    /\ Idle
    /\ v + nonVdrs + peers > 0
    /\ ps' = [ps EXCEPT !.sample =
                [running |-> TRUE, drawn |-> <<>>, count |-> 0, out |-> <<>>,
                 named |-> named, left |-> [v |-> v, n |-> nonVdrs, p |-> peers],
                 asked |-> [v |-> v, n |-> nonVdrs, p |-> peers]]]

\* Every so often one validator is asked for the addresses it knows.
PullGossipPeerLists == SamplePeers({}, 1, 0, 0)

\* Whether the precondition takes a fit peer, and the quotas afterwards.
Taken(left, vdr) ==
    CASE left.p > 0 -> <<TRUE, [left EXCEPT !.p = @ - 1]>>
      [] left.p <= 0 /\ vdr -> <<left.v - 1 >= 0, [left EXCEPT !.v = @ - 1]>>
      [] OTHER -> <<left.n - 1 >= 0, [left EXCEPT !.n = @ - 1]>>

Unfit(s, n) == n \notin FitPeers \/ n \in s.named

Full(s) == Len(s.out) >= s.asked.v + s.asked.n + s.asked.p

Over(s) == Full(s) \/ s.count >= Len(ps.slice)

SampleOne ==
    LET s == ps.sample IN
    /\ s.running /\ ~Over(s)
    /\ \E draw \in s.count .. Len(ps.slice) - 1 :
          LET n == ps.slice[Draw(s, draw) + 1]
              d == Drawn(s, draw)
              t == Taken(s.left, n \in VdrPeers)
          IN  ps' = [ps EXCEPT !.sample =
                       IF Unfit(s, n) THEN d
                       ELSE [d EXCEPT !.left = t[2],
                                      !.out = IF t[1] THEN Append(@, n) ELSE @]]

NoSample ==
    [running |-> FALSE, drawn |-> <<>>, count |-> 0, out |-> <<>>, named |-> {},
     left |-> [v |-> 0, n |-> 0, p |-> 0], asked |-> [v |-> 0, n |-> 0, p |-> 0]]

SampleEnd ==
    /\ ps.sample.running /\ Over(ps.sample)
    /\ ps' = [ps EXCEPT !.sample = NoSample]

SampleInit == ps = [slice |-> <<>>, map |-> <<>>, sample |-> NoSample]

SampleNext ==
    \/ \E n \in PeerIDs : Add(n) \/ RemovePeer(n)
    \/ \E named \in {{}} \cup {{n} : n \in PeerIDs}, v, m, p \in Quotas :
          SamplePeers(named, v, m, p)
    \/ PullGossipPeerLists
    \/ SampleOne
    \/ SampleEnd

-----------------------------------------------------------------------------
\* "invariant: len(peersSlice) == len(peersMap)", and the map says where each peer
\* is: GetByID answers with the peer that was asked for after any removals.
PeerSetIndexed ==
    /\ Len(ps.slice) = Cardinality(DOMAIN ps.map)
    /\ \A n \in DOMAIN ps.map :
          ps.map[n] < Len(ps.slice) /\ ps.slice[ps.map[n] + 1] = n

\* A sample has no peer twice, none that was named or is unfit, and at most as
\* many of a class as the message asked for.
SampleFits ==
    LET s == ps.sample
        out == ToSet(s.out)
    IN  /\ Cardinality(out) = Len(s.out)
        /\ out \subseteq FitPeers \ s.named
        /\ Cardinality(out \cap VdrPeers) <= s.asked.v + s.asked.p
        /\ Cardinality(out \ VdrPeers) <= s.asked.n + s.asked.p

\* A sample that ends passes over a fit peer only when there are as many as the
\* message asked for of its class: it is never short while peers are there.
SampleNotShort ==
    LET s == ps.sample
        passed == (ToSet(ps.slice) \cap FitPeers) \ (s.named \cup ToSet(s.out))
    IN  s.running /\ Over(s) =>
            \A n \in passed :
                Len(s.out) >= s.asked.p + IF n \in VdrPeers THEN s.asked.v ELSE s.asked.n

-----------------------------------------------------------------------------
(***************************************************************************)
(* Which peers the request client prefers (utils/evm/peer/peer_tracker.go):*)
(* the connected ones with their version, those that a request was sent to *)
(* and those that answered their last one. Calls are serialised by the     *)
(* caller. The random draws are choices.                                   *)
(***************************************************************************)

CONSTANTS
    Nodes,
    TrackerVersions,
    DesiredMinResponsive,   \* desiredMinResponsivePeers
    None

VARIABLE tracker   \* peers, tracked, responsive and the two gauges

NewPeerTracker ==
    [peers |-> [n \in {} |-> None], tracked |-> {}, responsive |-> {},
     numTracked |-> 0, numResponsive |-> 0]

TrackerInit == tracker = NewPeerTracker

-----------------------------------------------------------------------------
\* What shouldTrackNewPeer may return.
shouldTrackNewPeer ==
    IF Cardinality(tracker.responsive) < DesiredMinResponsive THEN {TRUE}
    ELSE IF Cardinality(tracker.tracked) >= Cardinality(DOMAIN tracker.peers) THEN {FALSE}
    ELSE BOOLEAN

\* The peers that were never tried and are recent enough.
Fresh(min) == {n \in DOMAIN tracker.peers \ tracker.tracked :
                   min = None \/ tracker.peers[n] >= min}

\* Peek returns some element, or none of an empty set.
Peek(S) == IF S = {} THEN {None} ELSE S

\* The peers that GetAnyPeer may return, None for none: of the known ones a
\* responsive one by chance and otherwise any, whatever its version.
GetAnyPeer(min) ==
    UNION {IF new /\ Fresh(min) # {} THEN Fresh(min)
           ELSE Peek(tracker.tracked) \cup tracker.responsive : new \in shouldTrackNewPeer}

-----------------------------------------------------------------------------
\* Update of a gauge to the size of its set.
Tracked(t, S) == [t EXCEPT !.tracked = S, !.numTracked = Cardinality(S)]
Responsive(t, S) == [t EXCEPT !.responsive = S, !.numResponsive = Cardinality(S)]

TrackPeer(n) == tracker' = Tracked(tracker, tracker.tracked \cup {n})

\* Of a peer that is not connected, nothing is kept.
TrackBandwidth(n, bandwidth) ==
    tracker' = IF n \notin DOMAIN tracker.peers THEN tracker
               ELSE Responsive(tracker, IF bandwidth = 0 THEN tracker.responsive \ {n}
                                        ELSE tracker.responsive \cup {n})

\* Also for a peer that is connected already: the version is updated.
TrackerConnected(n, v) ==
    tracker' = [tracker EXCEPT !.peers =
                    [x \in DOMAIN @ \cup {n} |-> IF x = n THEN v ELSE @[x]]]

TrackerDisconnected(n) ==
    tracker' = [Responsive(Tracked(tracker, tracker.tracked \ {n}), tracker.responsive \ {n})
                    EXCEPT !.peers = Restrict(@, DOMAIN @ \ {n})]

TrackerSize == Cardinality(DOMAIN tracker.peers)

\* A request is sent to a peer that GetAnyPeer returned, or to one the caller
\* names.
TrackerNext ==
    \E n \in Nodes :
        \/ TrackPeer(n) \/ TrackerDisconnected(n)
        \/ \E bandwidth \in {0, 1} : TrackBandwidth(n, bandwidth)
        \/ \E v \in TrackerVersions : TrackerConnected(n, v)

-----------------------------------------------------------------------------
\* A late answer, an answer from a peer that has gone and a second connection
\* leave the sets and the gauges in step: a peer counts as responsive only while
\* it is connected, so that a node that left is never preferred for its old
\* bandwidth (TrackBandwidth, Disconnected).
ResponsiveAreConnected ==
    /\ tracker.responsive \subseteq DOMAIN tracker.peers
    /\ tracker.numTracked = Cardinality(tracker.tracked)
    /\ tracker.numResponsive = Cardinality(tracker.responsive)
    /\ tracker.numResponsive <= TrackerSize

\* As long as too few peers respond, one that was not tried yet and is recent
\* enough is chosen before any other; no peer is found only if none is tracked
\* (GetAnyPeer, shouldTrackNewPeer).
FreshPeersFirst ==
    \A min \in TrackerVersions \cup {None} :
        /\ (Fresh(min) # {} /\ tracker.numResponsive < DesiredMinResponsive) =>
               GetAnyPeer(min) \subseteq Fresh(min)
        /\ None \in GetAnyPeer(min) => tracker.tracked = {}

-----------------------------------------------------------------------------
(***************************************************************************)
(* What the peers make of this node's uptime (network/peer/peer.go's ping  *)
(* and getUptime, network.NodeUptime). A peer sends the share of the time  *)
(* it saw this node, as a percentage; the network weighs what its          *)
(* connected validators said by their stakes.                              *)
(*                                                                         *)
(* A peer is [weight, connected, pings]: its stake, 0 for one that does    *)
(* not validate, and what it measured before each of its pings,            *)
(* [up, of, err]. Percentages are exact here, floating point in the code.  *)
(***************************************************************************)

Hundred == 100

\* The percentage is cut off, not rounded; an uptime that cannot be had is none.
GetUptime(m) == IF m.err THEN 0 ELSE (Hundred * m.up) \div m.of

\* handlePing: the peer is closed for a percentage that is none.
HandlePingUptime(peer, percent) ==
    IF percent > Hundred THEN [peer EXCEPT !.connected = FALSE]
    ELSE [peer EXCEPT !.observed = percent]

\* A peer as it stands after its pings; before the first it observed nothing.
AfterPings(peer) ==
    FoldLeft(LAMBDA acc, m : IF acc.connected THEN HandlePingUptime(acc, GetUptime(m)) ELSE acc,
             [weight |-> peer.weight, connected |-> peer.connected, observed |-> 0], peer.pings)

ObservedUptime(peer) == peer.observed

\* network.PeerInfo: of the connected peers, or of those of them that are named.
PeerInfo(peers, named) ==
    [i \in {i \in DOMAIN peers : peers[i].connected /\ (named = {} \/ i \in named)} |->
        ObservedUptime(peers[i])]

\* network.NodeUptime, its two percentages multiplied by the total: this node
\* speaks for itself, of the others only the connected validators count. It is
\* an error to ask of a node that does not validate.
NodeUptime(myStake, totalWeight, peers, requirement) ==
    LET said == {i \in DOMAIN peers : peers[i].connected /\ peers[i].weight # 0}
        content == {i \in said : ObservedUptime(peers[i]) >= requirement}
    IN  [validates |-> myStake # 0,
         weighted |-> Hundred * myStake
             + MapThenSumSet(LAMBDA i : ObservedUptime(peers[i]) * peers[i].weight, said),
         rewarding |-> Hundred * (myStake + MapThenSumSet(LAMBDA i : peers[i].weight, content)),
         total |-> totalWeight]

-----------------------------------------------------------------------------
\* What this node tells of its uptime is borne out by its peers: no percentage
\* exceeds 100, no peer is quoted with more than it last measured, and the whole
\* stake is rewarding exactly when every validator is connected and last sent
\* what is required, a peer that only just does included.
UptimeAsObserved(myStake, all, requirement) ==
    LET peers == [i \in DOMAIN all |-> AfterPings(all[i])]
        total == myStake + MapThenSumSet(LAMBDA i : all[i].weight, DOMAIN all)
        u     == NodeUptime(myStake, total, peers, requirement)
        last(i) == all[i].pings[Len(all[i].pings)]
        info  == PeerInfo(peers, {})
    IN  u.validates =>
        /\ u.weighted <= Hundred * u.total /\ u.rewarding <= Hundred * u.total
        /\ u.rewarding = Hundred * u.total <=>
             \A i \in DOMAIN all : all[i].weight # 0 =>
                 i \in DOMAIN info /\ info[i] >= requirement
        /\ \A i \in DOMAIN info : all[i].pings # <<>> =>
             info[i] * last(i).of <= Hundred * (IF last(i).err THEN 0 ELSE last(i).up)
=============================================================================
