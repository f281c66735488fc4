------------------------------ MODULE IPTracker ------------------------------
(***************************************************************************)
(* The addresses this node knows of the others: ipTracker of               *)
(* utils/avalanche/network/ip_tracker.go. Every method holds its lock, so  *)
(* every method is one action. A claimed address is its timestamp, 0 is no *)
(* address; a bloom filter is the set of the addresses added to it.        *)
(***************************************************************************)
EXTENDS Integers, Sequences, FiniteSets, FiniteSetsExt, SequencesExt

CONSTANTS
    Nodes,
    Subnets,
    Primary,          \* constants.PrimaryNetworkID
    TrackedSubnets,   \* the subnets this node is configured to track
    MaxTimestamp,     \* bound: timestamps are 1..MaxTimestamp
    MinCountEstimate,
    None

VARIABLES
    tracked,    \* per node: None or a trackedNode
    connected,  \* per node: None or a connectedNode
    subnets,    \* per subnet: None or a gossipableSubnet
    bloom       \* the filter, with bloomAdditions and maxBloomCount

vars == <<tracked, connected, subnets, bloom>>

maxIPEntriesPerNode == 2

Timestamps == 1..MaxTimestamp

Followed(s) == s = Primary \/ s \in TrackedSubnets

WantsConnection(t) == t # None /\ (t.manuallyTracked \/ t.trackedSubnets # {})

CanDelete(t) == ~t.manuallyTracked /\ t.validatedSubnets = {}

-----------------------------------------------------------------------------
(* The addresses a subnet gossips: a slice, and each node's index into it  *)
(* (0 when it has none)                                                    *)

emptySubnet ==
    [manuallyGossipable |-> {}, gossipableIDs |-> {},
     index |-> [n \in Nodes |-> 0], ips |-> <<>>]

SetGossipable(sub, n, ts) ==
    LET ip == [node |-> n, ts |-> ts]
    IN  IF sub.index[n] # 0
        THEN [sub EXCEPT !.ips[sub.index[n]] = ip]
        ELSE [sub EXCEPT !.index[n] = Len(sub.ips) + 1,
                         !.ips = Append(@, ip)]

\* A mutant: the moved address keeps its old index.
RemoveGossipableUnindexed(sub, n) ==
    LET last == Len(sub.ips)
        hole == sub.index[n]
    IN  IF hole = 0 THEN sub
        ELSE [sub EXCEPT !.index = [@ EXCEPT ![n] = 0],
                         !.ips = Front([@ EXCEPT ![hole] = sub.ips[last]])]

\* The last address moves into the hole.
RemoveGossipable(sub, n) ==
    LET last == Len(sub.ips)
        hole == sub.index[n]
    IN  IF hole = 0 THEN sub
        ELSE [sub EXCEPT !.index = [@ EXCEPT ![sub.ips[last].node] = hole, ![n] = 0],
                         !.ips = Front([@ EXCEPT ![hole] = sub.ips[last]])]

\* ipTracker.setGossipableIP: in each of the given subnets that may gossip n.
SetGossipableIn(subs, n, ts, among) ==
    [s \in Subnets |->
        IF s \in among /\ subs[s] # None /\ n \in subs[s].gossipableIDs
        THEN SetGossipable(subs[s], n, ts) ELSE subs[s]]

-----------------------------------------------------------------------------
(* The bloom filter                                                        *)

\* A filter for the addresses in tr. Its real capacity is larger than count,
\* which is what this model takes.
ResetBloomFor(tr) ==
    LET known == {n \in Nodes : tr[n] # None /\ tr[n].ip # 0}
        numTracked == Cardinality({n \in Nodes : tr[n] # None})
    IN  [added |-> {<<n, tr[n].ip>> : n \in known},
         additions |-> [n \in Nodes |-> IF n \in known THEN 1 ELSE 0],
         count |-> Cardinality(known),
         maxCount |-> Max({maxIPEntriesPerNode * numTracked, MinCountEstimate})]

\* updateMostRecentTrackedIP, after the address has been stored in tr.
AddToBloom(tr, n) ==
    IF bloom.additions[n] >= maxIPEntriesPerNode THEN bloom
    ELSE IF bloom.count >= bloom.maxCount
         THEN ResetBloomFor(tr)
         ELSE [bloom EXCEPT !.added = @ \cup {<<n, tr[n].ip>>},
                            !.additions[n] = @ + 1,
                            !.count = @ + 1]

-----------------------------------------------------------------------------
(* addIP stores an address that is newer than the one known; Connected     *)
(* calls it twice, and the second call finds the timestamp it has stored.  *)

Newer(n, ts) == tracked[n] # None /\ tracked[n].ip < ts

AddIPSteps(n, ts) ==
    IF Newer(n, ts)
    THEN /\ tracked' = [tracked EXCEPT ![n].ip = ts]
         /\ bloom' = AddToBloom(tracked', n)
    ELSE UNCHANGED <<tracked, bloom>>

AddIP(n, ts) ==
    /\ AddIPSteps(n, ts)
    /\ subnets' = IF Newer(n, ts) /\ connected[n] # None
                  THEN SetGossipableIn(subnets, n, ts, connected[n].trackedSubnets)
                  ELSE subnets
    /\ UNCHANGED connected

Connected(n, ts, syncing) ==
    /\ connected' = [connected EXCEPT ![n] = [trackedSubnets |-> syncing, ip |-> ts]]
    /\ AddIPSteps(n, ts)
    /\ subnets' = IF tracked[n] # None
                  THEN SetGossipableIn(subnets, n, tracked'[n].ip, syncing)
                  ELSE subnets

Disconnected(n) ==
    /\ connected[n] # None
    /\ connected' = [connected EXCEPT ![n] = None]
    /\ subnets' = [s \in Subnets |->
                      IF s \in connected[n].trackedSubnets /\ subnets[s] # None
                      THEN RemoveGossipable(subnets[s], n) ELSE subnets[s]]
    /\ UNCHANGED <<tracked, bloom>>

-----------------------------------------------------------------------------
(* addTrackableID and addGossipableID. ManuallyGossip may track a node     *)
(* twice; only the first of the two can find it untracked.                 *)

Track(n, manual, validated) ==
    LET fresh == tracked[n] = None /\ connected[n] # None
        old == IF tracked[n] # None THEN tracked[n]
               ELSE [manuallyTracked |-> FALSE, validatedSubnets |-> {},
                     trackedSubnets |-> {},
                     ip |-> IF fresh THEN connected[n].ip ELSE 0]
    IN  /\ tracked' = [tracked EXCEPT ![n] =
                [manuallyTracked |-> old.manuallyTracked \/ manual,
                 validatedSubnets |-> old.validatedSubnets \cup validated,
                 trackedSubnets |-> old.trackedSubnets \cup {s \in validated : Followed(s)},
                 ip |-> old.ip]]
        /\ bloom' = IF fresh THEN AddToBloom(tracked', n) ELSE bloom

AddGossipableID(n, s, manual) ==
    LET sub == IF subnets[s] # None THEN subnets[s] ELSE emptySubnet
        listed == [sub EXCEPT !.manuallyGossipable = IF manual THEN @ \cup {n} ELSE @,
                              !.gossipableIDs = @ \cup {n}]
        gossiped == n \notin sub.gossipableIDs /\ connected[n] # None
                    /\ s \in connected[n].trackedSubnets
    IN  subnets' = [subnets EXCEPT ![s] =
            IF gossiped THEN SetGossipable(listed, n, tracked'[n].ip) ELSE listed]

ManuallyTrack(n) ==
    /\ Track(n, TRUE, {})
    /\ UNCHANGED <<connected, subnets>>

ManuallyGossip(s, n) ==
    /\ Track(n, Followed(s), {s})
    /\ AddGossipableID(n, s, TRUE)
    /\ UNCHANGED connected

OnValidatorAdded(s, n) ==
    /\ Track(n, FALSE, {s})
    /\ AddGossipableID(n, s, FALSE)
    /\ UNCHANGED connected

\* A manually gossiped node stays as it is. The validator manager calls this
\* for validators only, so that the node is listed and tracked.
OnValidatorRemoved(s, n) ==
    /\ subnets[s] # None
    /\ n \in subnets[s].gossipableIDs \ subnets[s].manuallyGossipable
    /\ LET rest == RemoveGossipable([subnets[s] EXCEPT !.gossipableIDs = @ \ {n}], n)
           t == [tracked[n] EXCEPT !.validatedSubnets = @ \ {s},
                                   !.trackedSubnets = @ \ {s}]
       IN  /\ subnets' = [subnets EXCEPT ![s] =
                             IF rest.gossipableIDs = {} THEN None ELSE rest]
           /\ tracked' = [tracked EXCEPT ![n] = IF CanDelete(t) THEN None ELSE t]
    /\ UNCHANGED <<connected, bloom>>

ResetBloom ==
    /\ bloom' = ResetBloomFor(tracked)
    /\ UNCHANGED <<tracked, connected, subnets>>

\* The network's timers: of what they do, only this changes the tracker.
RunTimers == ResetBloom

-----------------------------------------------------------------------------
(* getGossipableIPs: the addresses sent to a peer that asks with a filter  *)
(* of those it knows. The order of the subnets is that of a Go map, the    *)
(* order within one a random permutation of the slice.                     *)

Orders(k) == {p \in [1..k -> 1..k] : {p[i] : i \in 1..k} = 1..k}

GossipOne(sub, except, known, maxNum, order, got) ==
    FoldLeft(LAMBDA acc, i :
                LET ip == sub.ips[i]
                IN  IF Len(acc) >= maxNum \/ ip.node = except \/ ip \in known
                       \/ \E j \in DOMAIN acc : acc[j].node = ip.node
                    THEN acc ELSE Append(acc, ip),
             got, order)

\* subs is a sequence of the subnets asked for that are allowed and known.
GetGossipableIPs(subs, except, known, maxNum, order) ==
    FoldLeft(LAMBDA acc, s :
                GossipOne(subnets[s], except, known, maxNum, order[s], acc),
             <<>>, subs)

\* network.Peers: the subnets whose addresses a peer is told, of those it tracks
\* or, when it asks for all of a primary network validator, of those known.
Peers(weValidate, peerTracks, requestAllPeers) ==
    LET asked == IF weValidate /\ requestAllPeers THEN Subnets ELSE peerTracks
    IN  {s \in asked : subnets[s] # None /\ (weValidate \/ Followed(s))}

-----------------------------------------------------------------------------
Init ==
    /\ tracked = [n \in Nodes |-> None]
    /\ connected = [n \in Nodes |-> None]
    /\ subnets = [s \in Subnets |-> None]
    /\ bloom = ResetBloomFor(tracked)

\* A peer syncs the primary network and perhaps others. The network connects
\* a node that is not connected.
Next ==
    \/ \E n \in Nodes, ts \in Timestamps : AddIP(n, ts)
    \/ \E n \in Nodes, ts \in Timestamps, more \in SUBSET (Subnets \ {Primary}) :
            connected[n] = None /\ Connected(n, ts, {Primary} \cup more)
    \/ \E n \in Nodes : Disconnected(n) \/ ManuallyTrack(n)
    \/ \E n \in Nodes, s \in Subnets :
            ManuallyGossip(s, n) \/ OnValidatorAdded(s, n) \/ OnValidatorRemoved(s, n)
    \/ RunTimers

Spec == Init /\ [][Next]_vars

-----------------------------------------------------------------------------
\* The gossiped addresses of a subnet are exactly those of the nodes that it
\* lists and that are connected and sync it, each with the latest address
\* known of the node, at the index the map gives.
GossipedRight ==
    \A s \in Subnets : subnets[s] # None =>
        LET sub == subnets[s]
        IN  /\ \A n \in Nodes :
                 sub.index[n] # 0 <=> /\ n \in sub.gossipableIDs
                                      /\ connected[n] # None
                                      /\ s \in connected[n].trackedSubnets
            /\ \A n \in Nodes : sub.index[n] # 0 =>
                 /\ sub.index[n] \in DOMAIN sub.ips
                 /\ sub.ips[sub.index[n]] = [node |-> n, ts |-> tracked[n].ip]
            /\ Len(sub.ips) = Cardinality({n \in Nodes : sub.index[n] # 0})

\* A node that is tracked while connected has an address, at least as new as
\* the one it connected with: addGossipableID reads it without a test, and
\* addTrackableID takes that of the connection as "guaranteed to be the most
\* up-to-date IP that we know".
ConnectedAddressKnown ==
    \A n \in Nodes : tracked[n] # None /\ connected[n] # None =>
        tracked[n].ip >= connected[n].ip /\ tracked[n].ip # 0

\* "The bloom filter contains the most recent tracked IPs": an address is
\* missing from it only when its node has used up its additions.
LatestInBloom ==
    \A n \in Nodes : tracked[n] # None /\ tracked[n].ip # 0 =>
        \/ <<n, tracked[n].ip>> \in bloom.added
        \/ bloom.additions[n] = maxIPEntriesPerNode

\* What a peer is to be told of, by the three "types of responses" of
\* network.Peers.
ResponseType(weValidate, peerTracks, requestAllPeers) ==
    IF ~weValidate THEN peerTracks \cap ({Primary} \cup TrackedSubnets)
    ELSE IF requestAllPeers THEN Subnets ELSE peerTracks

\* An answer to a peer, itself tracked or not, names no node twice, even one
\* that several subnets list, and holds every address of the subnets the peer
\* is to be told of, unless it is full, and of no other subnet.
GossipComplete ==
    LET answers == {<<Peers(w, p, a), {s \in ResponseType(w, p, a) : subnets[s] # None}>> :
                        w, a \in BOOLEAN, p \in {Subnets, {Primary}}}
    IN
    \A answer \in answers :
    LET told == UNION {ToSet(subnets[s].ips) : s \in answer[2]}
        longest == Max({0} \cup {Len(subnets[s].ips) : s \in answer[1]}) IN
    \A subs \in SetToSeqs(answer[1]), perm \in Orders(longest),
       except \in Nodes \cup {None}, maxNum \in 1..Cardinality(Nodes),
       filter \in {{}} \cup {{ip} : ip \in told} :
        LET order == [s \in answer[1] |->
                        SelectSeq(perm, LAMBDA i : i <= Len(subnets[s].ips))]
            got == GetGossipableIPs(subs, except, filter, maxNum, order)
            nodes == {got[i].node : i \in DOMAIN got}
            due == {ip.node : ip \in {x \in told : x.node # except /\ x \notin filter}}
        IN  /\ Cardinality(nodes) = Len(got)
            /\ nodes \subseteq due
            /\ Len(got) < maxNum => nodes = due
=============================================================================
