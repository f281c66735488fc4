------------------------------- MODULE Network -------------------------------
(***************************************************************************)
(* The peers of this node: utils/avalanche/network/network.go with         *)
(* tracked_ip.go. Goroutines that dial, connections that come in, and      *)
(* peers that finish their handshake or end, all work on the maps          *)
(* trackedIPs, connectingPeers and connectedPeers. What a goroutine does   *)
(* under peersLock is one action; what it does between two sections is not *)
(* in them. A peer is module Peer reduced to its calls of Connected and    *)
(* Disconnected, the ipTracker is module IPTracker reduced to the nodes it *)
(* wants connected, knows an address of, and takes for connected.          *)
(*                                                                         *)
(* There is one dial goroutine per trackedIP, so that an entry stands for  *)
(* both. An entry or a peer that nobody refers to any more is used again.  *)
(***************************************************************************)
EXTENDS Integers, FiniteSets, FiniteSetsExt

CONSTANTS
    Nodes,
    NumEntries,    \* bound: trackedIPs and dial goroutines at a time
    NumPeers,      \* bound: peers at a time
    RequireValidatorToConnect,
    None

VARIABLES
    trackedIPs,     \* per node: its entry or None
    stopped,        \* entries whose onStopTracking is closed
    dialer,         \* per entry: the goroutine that dials it
    peer,           \* per peer: its node and how far it has come
    connectingPeers,
    connectedPeers,
    inbound,        \* per node: an inbound connection that was allowed
    wanted, known, noted, pinned,  \* ipTracker: WantsConnection, GetIP,
                    \* connected, manuallyTracked
    routed,         \* per node: router.Connected less router.Disconnected
    halted,         \* nodes whose dialing ended at another node, or unwanted
    networkClosing

vars == <<trackedIPs, stopped, dialer, peer, connectingPeers, connectedPeers,
          inbound, wanted, known, noted, pinned, routed, halted, networkClosing>>

Entries == 1..NumEntries
PeerIDs == 1..NumPeers

ASSUME NetworkAssumption ==
    /\ NumEntries \in Nat /\ NumPeers \in Nat
    /\ None \notin Nodes \cup Entries \cup PeerIDs

dialVars == <<trackedIPs, stopped, dialer, halted>>
peerVars == <<peer, connectingPeers, connectedPeers>>
trackerVars == <<wanted, known, noted, pinned>>

Dialing(e) == dialer[e].pc # "done"

noPeer == [node |-> None, pc |-> "none", told |-> FALSE]

FreeEntries == {e \in Entries : ~Dialing(e) /\ \A n \in Nodes : trackedIPs[n] # e}
FreePeers == {p \in PeerIDs : peer[p].pc = "none"}

-----------------------------------------------------------------------------
(* Entries: newTrackedIP or trackNewIP, with the goroutine that dial       *)
(* starts; stopTracking with the removal of the entry                      *)

\* newTrackedIP: no entry is expected, and none is stopped.
DialNew(n) ==
    /\ FreeEntries # {}
    /\ LET e == Min(FreeEntries)
       IN  /\ trackedIPs' = [trackedIPs EXCEPT ![n] = e]
           /\ dialer' = [dialer EXCEPT ![e] = [node |-> n, pc |-> "wait", to |-> None]]
           /\ stopped' = stopped \ {e}
    /\ halted' = halted \ {n}

\* trackNewIP: the entry of the node, if there is one, is stopped.
DialAnew(n) ==
    /\ FreeEntries # {}
    /\ LET e == Min(FreeEntries)
       IN  /\ trackedIPs' = [trackedIPs EXCEPT ![n] = e]
           /\ dialer' = [dialer EXCEPT ![e] = [node |-> n, pc |-> "wait", to |-> None]]
           /\ stopped' = (stopped \cup ({trackedIPs[n]} \ {None})) \ {e}
    /\ halted' = halted \ {n}

Forget(ns) ==
    /\ stopped' = stopped \cup ({trackedIPs[n] : n \in ns} \ {None})
    /\ trackedIPs' = [n \in Nodes |-> IF n \in ns THEN None ELSE trackedIPs[n]]
    /\ halted' = halted \ ns

-----------------------------------------------------------------------------
(* Addresses                                                               *)

\* ManuallyTrack, which the owner of the network calls while it is in use: a
\* node that is connected or has an entry is left alone.
ManuallyTrack(n) ==
    /\ ~networkClosing
    /\ pinned' = pinned \cup {n}
    /\ wanted' = wanted \cup {n}
    /\ known' = IF n \in noted THEN known \cup {n} ELSE known
    /\ IF connectedPeers[n] = None /\ trackedIPs[n] = None
       THEN DialAnew(n)
       ELSE UNCHANGED dialVars
    /\ UNCHANGED <<peerVars, inbound, noted, routed, networkClosing>>

\* A reader hands in addresses: in a network that closes, one of a peer that
\* is still up.
Listening == networkClosing => \E p \in PeerIDs : peer[p].pc = "up"

\* A mutant: a connected node is dialled too.
TrackConnected(n) ==
    /\ Listening
    /\ n \in wanted
    /\ known' = known \cup {n}
    /\ DialAnew(n)
    /\ UNCHANGED <<peerVars, inbound, wanted, noted, pinned, routed, networkClosing>>

\* track, for an address that AddIP finds newer.
Track(n) ==
    /\ Listening
    /\ n \in wanted
    /\ known' = known \cup {n}
    /\ IF connectedPeers[n] = None THEN DialAnew(n) ELSE UNCHANGED dialVars
    /\ UNCHANGED <<peerVars, inbound, wanted, noted, pinned, routed, networkClosing>>

\* The validator sets change. A node that is no longer tracked loses its
\* address; one that is tracked for another subnet keeps it.
Want(n) ==
    /\ n \notin wanted
    /\ wanted' = wanted \cup {n}
    /\ known' = IF n \in noted THEN known \cup {n} ELSE known
    /\ UNCHANGED <<dialVars, peerVars, inbound, noted, pinned, routed, networkClosing>>

Unwant(n) ==
    /\ n \in wanted \ pinned
    /\ wanted' = wanted \ {n}
    /\ known' \in {known, known \ {n}}
    /\ UNCHANGED <<dialVars, peerVars, inbound, noted, pinned, routed, networkClosing>>

-----------------------------------------------------------------------------
(* dial                                                                    *)

EndDial(e) == dialer' = [dialer EXCEPT ![e].pc = "done"]

\* A case of the select; the timer's goes on to the section under peersLock.
DialStops(e) ==
    /\ dialer[e].pc = "wait"
    /\ networkClosing \/ e \in stopped
    /\ EndDial(e)
    /\ UNCHANGED <<trackedIPs, stopped, halted, peerVars, inbound, trackerVars,
                   routed, networkClosing>>

\* A node that is not wanted any more loses its entry, whichever it is now.
DialWakes(e) ==
    LET n == dialer[e].node
    IN  /\ dialer[e].pc = "wait"
        /\ IF n \notin wanted
           THEN Forget({n}) /\ EndDial(e)
           ELSE /\ IF connectingPeers[n] # None \/ connectedPeers[n] # None
                   THEN EndDial(e)
                   ELSE dialer' = [dialer EXCEPT ![e].pc = "dial"]
                /\ UNCHANGED <<trackedIPs, stopped, halted>>
        /\ UNCHANGED <<peerVars, inbound, trackerVars, routed, networkClosing>>

\* A private address, no answer, or an upgrade that fails: after a delay
\* another attempt.
DialFails(e) ==
    /\ dialer[e].pc = "dial"
    /\ dialer' = [dialer EXCEPT ![e].pc = "wait"]
    /\ UNCHANGED <<trackedIPs, stopped, halted, peerVars, inbound, trackerVars,
                   routed, networkClosing>>

-----------------------------------------------------------------------------
(* upgrade, of a connection that turns out to be one to node m; None is    *)
(* this node itself, or a node other than the Nodes                        *)

\* Whether this node validates the primary network is looked up every time.
AllowConnection(m, validates) ==
    ~RequireValidatorToConnect \/ validates \/ m \in wanted

Upgraded(e, m, validates) ==
    LET allowed == m # None /\ AllowConnection(m, validates)
        n == dialer[e].node
    IN  /\ dialer[e].pc = "dial"
        /\ IF allowed
           THEN dialer' = [dialer EXCEPT ![e].pc = "allowed", ![e].to = m]
           ELSE EndDial(e)
        /\ halted' = IF (m # n \/ ~allowed) /\ trackedIPs[n] = e
                     THEN halted \cup {n} ELSE halted
        /\ UNCHANGED <<trackedIPs, stopped, peerVars, inbound, trackerVars,
                       routed, networkClosing>>

InboundUpgraded(m) ==
    /\ inbound[m] = FALSE
    /\ \E validates \in BOOLEAN : AllowConnection(m, validates)
    /\ ~networkClosing    \* the listener is closed before
    /\ inbound' = [inbound EXCEPT ![m] = TRUE]
    /\ UNCHANGED <<dialVars, peerVars, trackerVars, routed, networkClosing>>

\* The section under peersLock: a connection that is not needed is dropped,
\* any other becomes a peer, which runs before it is in connectingPeers.
StartPeer(m) ==
    IF networkClosing \/ connectingPeers[m] # None \/ connectedPeers[m] # None
    THEN UNCHANGED peerVars
    ELSE /\ FreePeers # {}
         /\ LET p == Min(FreePeers)
            IN  /\ peer' = [peer EXCEPT ![p] = [node |-> m, pc |-> "handshake", told |-> FALSE]]
                /\ connectingPeers' = [connectingPeers EXCEPT ![m] = p]
         /\ UNCHANGED connectedPeers

DialStartsPeer(e) ==
    /\ dialer[e].pc = "allowed"
    /\ StartPeer(dialer[e].to)
    /\ EndDial(e)
    /\ UNCHANGED <<trackedIPs, stopped, halted, inbound, trackerVars, routed, networkClosing>>

InboundStartsPeer(m) ==
    /\ inbound[m]
    /\ StartPeer(m)
    /\ inbound' = [inbound EXCEPT ![m] = FALSE]
    /\ UNCHANGED <<dialVars, trackerVars, routed, networkClosing>>

-----------------------------------------------------------------------------
(* Connected, which the reader of peer p calls                             *)

At(p, pc) == peer[p].pc = pc
MoveTo(p, pc) == peer' = [peer EXCEPT ![p].pc = pc]
NodeOf(p) == peer[p].node

Connected(p) ==
    LET n == NodeOf(p)
    IN  /\ At(p, "handshake")
        /\ IF connectingPeers[n] = None
           THEN MoveTo(p, "up") /\ UNCHANGED <<dialVars, connectingPeers, connectedPeers>>
           ELSE /\ Forget({n})
                /\ connectingPeers' = [connectingPeers EXCEPT ![n] = None]
                /\ connectedPeers' = [connectedPeers EXCEPT ![n] = connectingPeers[n]]
                /\ MoveTo(p, "moved")
                /\ UNCHANGED dialer
        /\ UNCHANGED <<inbound, trackerVars, routed, networkClosing>>

ConnectedTracker(p) ==
    /\ At(p, "moved")
    /\ MoveTo(p, "noted")
    /\ noted' = noted \cup {NodeOf(p)}
    /\ known' = IF NodeOf(p) \in wanted THEN known \cup {NodeOf(p)} ELSE known
    /\ UNCHANGED <<dialVars, connectingPeers, connectedPeers, inbound, wanted,
                   pinned, routed, networkClosing>>

ConnectedRouter(p) ==
    /\ At(p, "noted")
    /\ MoveTo(p, "up")
    /\ routed' = [routed EXCEPT ![NodeOf(p)] = @ + 1]
    /\ UNCHANGED <<dialVars, connectingPeers, connectedPeers, inbound, trackerVars,
                   networkClosing>>

-----------------------------------------------------------------------------
(* Disconnected, which the last goroutine of peer p calls                  *)

PeerEnds(p) ==
    /\ At(p, "handshake") \/ At(p, "up")
    /\ MoveTo(p, "ended")
    /\ UNCHANGED <<dialVars, connectingPeers, connectedPeers, inbound, trackerVars,
                   routed, networkClosing>>

Disconnected(p) ==
    LET n == NodeOf(p)
    IN  /\ At(p, "ended")
        /\ CASE connectingPeers[n] # None -> MoveTo(p, "leave connecting")
             [] connectedPeers[n] # None -> MoveTo(p, "tell tracker")
             [] OTHER -> peer' = [peer EXCEPT ![p] = noPeer]
        /\ UNCHANGED <<dialVars, connectingPeers, connectedPeers, inbound,
                       trackerVars, routed, networkClosing>>

DisconnectedFromConnecting(p) ==
    LET n == NodeOf(p)
    IN  /\ At(p, "leave connecting")
        /\ connectingPeers' = [connectingPeers EXCEPT ![n] = None]
        /\ peer' = [peer EXCEPT ![p] = noPeer]
        /\ CASE trackedIPs[n] = None -> UNCHANGED dialVars
             [] trackedIPs[n] # None /\ n \in wanted -> DialAnew(n)
             [] OTHER -> Forget({n}) /\ UNCHANGED dialer
        /\ UNCHANGED <<connectedPeers, inbound, trackerVars, routed, networkClosing>>

DisconnectedTracker(p) ==
    /\ At(p, "tell tracker")
    /\ MoveTo(p, "tell router")
    /\ noted' = noted \ {NodeOf(p)}
    /\ UNCHANGED <<dialVars, connectingPeers, connectedPeers, inbound, wanted, known,
                   pinned, routed, networkClosing>>

DisconnectedRouter(p) ==
    /\ At(p, "tell router")
    /\ MoveTo(p, "leave connected")
    /\ routed' = [routed EXCEPT ![NodeOf(p)] = @ - 1]
    /\ UNCHANGED <<dialVars, connectingPeers, connectedPeers, inbound, trackerVars,
                   networkClosing>>

\* The code does not look for an entry to stop here.
DisconnectedFromConnected(p) ==
    LET n == NodeOf(p)
    IN  /\ At(p, "leave connected")
        /\ connectedPeers' = [connectedPeers EXCEPT ![n] = None]
        /\ peer' = [peer EXCEPT ![p] = noPeer]
        /\ IF n \in wanted \cap known THEN DialNew(n) ELSE UNCHANGED dialVars
        /\ UNCHANGED <<connectingPeers, inbound, trackerVars, routed, networkClosing>>

-----------------------------------------------------------------------------
\* StartClose: every peer that is in one of the sets now is told to close.
StartClose ==
    /\ ~networkClosing
    /\ networkClosing' = TRUE
    /\ Forget(Nodes)
    /\ peer' = [p \in PeerIDs |->
                  [peer[p] EXCEPT !.told = @ \/ \E n \in Nodes :
                        p \in {connectingPeers[n], connectedPeers[n]}]]
    /\ UNCHANGED <<dialer, connectingPeers, connectedPeers, inbound, trackerVars, routed>>

-----------------------------------------------------------------------------
Init ==
    /\ trackedIPs = [n \in Nodes |-> None]
    /\ stopped = {}
    /\ dialer = [e \in Entries |-> [node |-> None, pc |-> "done", to |-> None]]
    /\ peer = [p \in PeerIDs |-> noPeer]
    /\ connectingPeers = [n \in Nodes |-> None]
    /\ connectedPeers = [n \in Nodes |-> None]
    /\ inbound = [n \in Nodes |-> FALSE]
    /\ wanted = {} /\ known = {} /\ noted = {} /\ pinned = {}
    /\ routed = [n \in Nodes |-> 0]
    /\ halted = {}
    /\ networkClosing = FALSE

DialStep(e) ==
    \/ DialStops(e) \/ DialWakes(e) \/ DialFails(e) \/ DialStartsPeer(e)
    \/ \E m \in Nodes \cup {None}, validates \in BOOLEAN : Upgraded(e, m, validates)

PeerStep(p) ==
    \/ ConnectedTracker(p) \/ ConnectedRouter(p)
    \/ Disconnected(p) \/ DisconnectedFromConnecting(p) \/ DisconnectedTracker(p)
    \/ DisconnectedRouter(p) \/ DisconnectedFromConnected(p)

Next ==
    \/ \E n \in Nodes : \/ ManuallyTrack(n) \/ Track(n) \/ Want(n) \/ Unwant(n)
                        \/ InboundUpgraded(n) \/ InboundStartsPeer(n)
    \/ \E e \in Entries : DialStep(e)
    \/ \E p \in PeerIDs : Connected(p) \/ PeerEnds(p) \/ PeerStep(p)
    \/ StartClose

\* Goroutines go on; a peer that is told to close ends (PeerCloses of module
\* Peer); a select whose cases are ready again and again takes each of them.
Fairness ==
    /\ \A e \in Entries : WF_vars(DialStep(e)) /\ SF_vars(DialStops(e))
    /\ \A p \in PeerIDs : WF_vars(PeerStep(p) \/ (peer[p].told /\ PeerEnds(p)))
    /\ \A n \in Nodes : WF_vars(InboundStartsPeer(n))

Spec == Init /\ [][Next]_vars /\ Fairness

-----------------------------------------------------------------------------
\* There is "only ever one peer instance running" for a node, and it is in one
\* of the two sets until it has been taken out: no peer is left in a set that
\* has ended, though it runs before it is put there.
OnePeerPerNode ==
    /\ \A p, q \in PeerIDs :
            peer[p].pc # "none" /\ peer[q].pc # "none" /\ NodeOf(p) = NodeOf(q) => p = q
    /\ \A n \in Nodes :
            /\ connectingPeers[n] = None \/ connectedPeers[n] = None
            /\ \A p \in {connectingPeers[n], connectedPeers[n]} \ {None} :
                    peer[p].pc # "none" /\ NodeOf(p) = n

\* "[Connected] and [Disconnected] are called in consistent ways": the router
\* hears of a node's connection only when it has heard of none, and of its end
\* only after it, across the peers of the node that follow each other.
RouterConsistent ==
    /\ \A n \in Nodes : routed[n] \in {0, 1}
    /\ \A n \in Nodes : routed[n] = 1 => connectedPeers[n] # None

\* A node that is connected is not dialled: it has no entry, and
\* disconnectedFromConnected, which does not look for one, leaves none behind
\* that runs on unstopped and unknown.
NoStrayDialer ==
    /\ \A n \in Nodes : connectedPeers[n] # None => trackedIPs[n] = None
    /\ \A e \in Entries : Dialing(e) /\ e \notin stopped =>
            trackedIPs[dialer[e].node] = e
    /\ \A n \in Nodes : trackedIPs[n] \notin stopped

\* An entry of a node that is not reached is being dialled, or a connection
\* whose end dials it again is under way; only a dialer that met another node,
\* or found the connection not wanted, gives up.
TrackedIsDialled ==
    ~networkClosing => \A n \in Nodes : trackedIPs[n] # None =>
        Dialing(trackedIPs[n]) \/ connectingPeers[n] # None \/ n \in halted

\* Connections, entries, goroutines and the router agree about who is connected
\* and who is dialled, at every step of those that work on the maps.
PeersConsistent ==
    OnePeerPerNode /\ RouterConsistent /\ NoStrayDialer /\ TrackedIsDialled

\* No peer and no goroutine that dials is left, and the router knows of no node.
AllEnded ==
    /\ \A p \in PeerIDs : peer[p].pc = "none"
    /\ \A e \in Entries : ~Dialing(e)
    /\ \A n \in Nodes : routed[n] = 0

\* After StartClose every peer ends, is reported to the router, and every
\* goroutine that dials stops: Dispatch returns.
NetworkCloses == networkClosing ~> AllEnded
=============================================================================
