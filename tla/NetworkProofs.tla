--------------------------- MODULE NetworkProofs ---------------------------
(***************************************************************************)
(* Proofs about the network that dials nodes and keeps its peers (module   *)
(* Network): any nodes, any number of trackedIPs, dial goroutines and      *)
(* peers, and any order of their sections under peersLock.                 *)
(*                                                                         *)
(* A peer that runs is in exactly one of the two sets, under its node.     *)
(* Everything else hangs on this: the router's count of a node follows     *)
(* from the place where the node's connected peer is, a connected node has *)
(* no entry, so that the dialer that disconnectedFromConnected starts is   *)
(* the only one, and an entry whose dialer ended has a connecting peer.    *)
(***************************************************************************)
EXTENDS Network, WellFoundedInduction, TLAPS

DialPCs == {"wait", "dial", "allowed", "done"}

\* Where a peer is while it is in connectingPeers, and in connectedPeers.
ConnectingPCs == {"handshake", "ended", "leave connecting"}
ConnectedPCs ==
    {"moved", "noted", "up", "ended", "tell tracker", "tell router", "leave connected"}
RoutedPCs == {"up", "ended", "tell tracker", "tell router"}

Dialers == [node : Nodes \cup {None}, pc : DialPCs, to : Nodes \cup {None}]
Peers == [node : Nodes \cup {None}, pc : ConnectingPCs \cup ConnectedPCs \cup {"none"},
          told : BOOLEAN]

\* The types of the maps: those of the dialing, and those of the peers.
DialType ==
    /\ trackedIPs \in [Nodes -> Entries \cup {None}]
    /\ stopped \subseteq Entries
    /\ dialer \in [Entries -> Dialers]
    /\ halted \subseteq Nodes

PeerType ==
    /\ peer \in [PeerIDs -> Peers]
    /\ connectingPeers \in [Nodes -> PeerIDs \cup {None}]
    /\ connectedPeers \in [Nodes -> PeerIDs \cup {None}]
    /\ routed \in [Nodes -> Int]

\* A peer that runs is in one of the sets, and what is in a set runs.
PeerInv ==
    /\ \A p \in PeerIDs : peer[p].pc # "none" =>
          /\ NodeOf(p) \in Nodes
          /\ connectingPeers[NodeOf(p)] = p \/ connectedPeers[NodeOf(p)] = p
    /\ \A n \in Nodes : connectingPeers[n] = None \/ connectedPeers[n] = None
    /\ \A n \in Nodes, p \in PeerIDs :
          /\ connectingPeers[n] = p => NodeOf(p) = n /\ peer[p].pc \in ConnectingPCs
          /\ connectedPeers[n] = p => NodeOf(p) = n /\ peer[p].pc \in ConnectedPCs

\* The router has heard of a node while its connected peer is at these places.
RoutedInv ==
    \A n \in Nodes :
        /\ connectedPeers[n] = None => routed[n] = 0
        /\ \A p \in PeerIDs : connectedPeers[n] = p =>
              routed[n] = IF peer[p].pc \in RoutedPCs THEN 1 ELSE 0

\* An entry is of one node, which its dialer dials. A dialer that is not stopped
\* is the one of the node's entry; one that has another node at the other end
\* has been noted down.
DialInv ==
    /\ \A n \in Nodes : trackedIPs[n] # None =>
          trackedIPs[n] \notin stopped /\ dialer[trackedIPs[n]].node = n
    /\ \A e \in Entries : Dialing(e) =>
          dialer[e].node \in Nodes /\ (e \notin stopped => trackedIPs[dialer[e].node] = e)
    /\ \A e \in Entries : dialer[e].pc = "allowed" =>
          /\ dialer[e].to \in Nodes
          /\ trackedIPs[dialer[e].node] = e =>
                dialer[e].to = dialer[e].node \/ dialer[e].node \in halted

\* A connected node has no entry.
Apart == \A n \in Nodes : connectedPeers[n] # None => trackedIPs[n] = None

\* The inductive invariant.
PeersInv == PeerType /\ PeerInv /\ RoutedInv
DialersInv == DialType /\ DialInv
NetInv == PeersInv /\ DialersInv /\ Apart /\ TrackedIsDialled

USE NetworkAssumption

-----------------------------------------------------------------------------
(* Entries and peers that nobody refers to.                                *)

\* A set of entries, or of peers, has a least one.
LEMMA MinIn ==
    ASSUME NEW S, S \subseteq Nat, S # {}
    PROVE  Min(S) \in S
<1> DEFINE R == {ss \in Nat \X Nat : ss[1] < ss[2]}
<1>1. IsWellFoundedOn(R, Nat)
      BY NatLessThanWellFounded, Zenon DEF OpToRel
<1> HIDE DEF R
<1>2. PICK x \in S : \A y \in S : <<y, x>> \notin R
      BY <1>1, WFMin
<1>3. ASSUME NEW y \in S PROVE x =< y
  <2>1. <<y, x>> \in Nat \X Nat /\ <<y, x>> \notin R
        BY <1>2
  <2>2. ~(y < x)
        BY <2>1 DEF R
  <2> QED
      BY <2>2
<1> QED
    BY <1>3 DEF Min

\* What FreeEntries gives is new, and so is what FreePeers gives.
LEMMA FreshEntry ==
    ASSUME FreeEntries # {}
    PROVE  /\ Min(FreeEntries) \in Entries
           /\ ~Dialing(Min(FreeEntries))
           /\ \A n \in Nodes : trackedIPs[n] # Min(FreeEntries)
BY MinIn DEF FreeEntries, Entries

LEMMA FreshPeer ==
    ASSUME FreePeers # {}
    PROVE  Min(FreePeers) \in PeerIDs /\ peer[Min(FreePeers)].pc = "none"
BY MinIn DEF FreePeers, PeerIDs

-----------------------------------------------------------------------------
(* The dialing.                                                            *)

\* trackNewIP: the new entry takes the place of the old one, whose dialer is
\* stopped; nothing changes for other nodes.
LEMMA AnewDials ==
    ASSUME DialersInv, NEW n \in Nodes, DialAnew(n)
    PROVE  /\ DialersInv'
           /\ trackedIPs'[n] \in Entries /\ Dialing(trackedIPs[n])'
           /\ \A m \in Nodes \ {n} :
                 /\ trackedIPs'[m] = trackedIPs[m]
                 /\ trackedIPs[m] # None => dialer'[trackedIPs[m]] = dialer[trackedIPs[m]]
           /\ halted' = halted \ {n}
<1> DEFINE new == [node |-> n, pc |-> "wait", to |-> None]
<1>0. PICK e : e = Min(FreeEntries)
      OBVIOUS
<1>1. e \in Entries /\ ~Dialing(e) /\ \A m \in Nodes : trackedIPs[m] # e
      BY <1>0, FreshEntry DEF DialAnew
<1>2. /\ trackedIPs' = [trackedIPs EXCEPT ![n] = e]
      /\ dialer' = [dialer EXCEPT ![e] = new]
      /\ stopped' = (stopped \cup ({trackedIPs[n]} \ {None})) \ {e}
      /\ halted' = halted \ {n}
      BY <1>0 DEF DialAnew
<1> USE DEF DialersInv, DialType
<1>3. DialType'
  <2>1. new \in Dialers
        BY DEF Dialers, DialPCs
  <2> HIDE DEF new
  <2> QED
      BY <1>1, <1>2, <2>1
<1>4. trackedIPs'[n] = e /\ Dialing(e)'
      BY <1>1, <1>2 DEF Dialing
<1>5. \A m \in Nodes \ {n} :
         /\ trackedIPs'[m] = trackedIPs[m]
         /\ trackedIPs[m] # None => dialer'[trackedIPs[m]] = dialer[trackedIPs[m]]
      BY <1>1, <1>2
<1>6. \A d \in Entries \ {e} : dialer'[d] = dialer[d]
      BY <1>1, <1>2
<1>7. dialer'[e] = new
      BY <1>1, <1>2
<1>8. DialInv'
  <2>1. ASSUME NEW m \in Nodes, trackedIPs'[m] # None
        PROVE  trackedIPs'[m] \notin stopped' /\ dialer'[trackedIPs'[m]].node = m
    <3>1. CASE m = n
          BY <1>1, <1>2, <1>4, <1>7, <3>1
    <3>2. CASE m # n
      <4>1. trackedIPs'[m] = trackedIPs[m] /\ dialer'[trackedIPs[m]] = dialer[trackedIPs[m]]
            BY <1>5, <2>1, <3>2
      <4>2. trackedIPs[m] \notin stopped /\ dialer[trackedIPs[m]].node = m
            BY <2>1, <4>1 DEF DialInv
      <4>3. trackedIPs[n] # None => dialer[trackedIPs[n]].node = n
            BY DEF DialInv
      <4>4. trackedIPs[m] # trackedIPs[n] \/ trackedIPs[n] = None
            BY <3>2, <4>2, <4>3
      <4> QED
          BY <1>2, <2>1, <4>1, <4>2, <4>4
    <3> QED
        BY <3>1, <3>2
  <2>2. ASSUME NEW d \in Entries, Dialing(d)'
        PROVE  dialer'[d].node \in Nodes /\ (d \notin stopped' => trackedIPs'[dialer'[d].node] = d)
    <3>1. CASE d = e
          BY <1>2, <1>4, <1>7, <3>1
    <3>2. CASE d # e
      <4>1. dialer'[d] = dialer[d] /\ Dialing(d)
            BY <1>6, <2>2, <3>2 DEF Dialing
      <4>2. dialer[d].node \in Nodes /\ (d \notin stopped => trackedIPs[dialer[d].node] = d)
            BY <4>1 DEF DialInv
      <4>3. d \notin stopped' => d \notin stopped /\ (trackedIPs[n] = d => FALSE)
            BY <1>2, <3>2
      <4> QED
          BY <1>2, <4>1, <4>2, <4>3
    <3> QED
        BY <3>1, <3>2
  <2>3. ASSUME NEW d \in Entries, dialer'[d].pc = "allowed"
        PROVE  /\ dialer'[d].to \in Nodes
               /\ trackedIPs'[dialer'[d].node] = d =>
                     dialer'[d].to = dialer'[d].node \/ dialer'[d].node \in halted'
    <3>1. d # e /\ dialer'[d] = dialer[d] /\ Dialing(d)
          BY <1>6, <1>7, <2>3 DEF Dialing
    <3>2. dialer[d].node \in Nodes /\ dialer[d].to \in Nodes
          BY <2>3, <3>1 DEF DialInv
    <3>3. trackedIPs'[dialer[d].node] = d =>
             dialer[d].node # n /\ trackedIPs[dialer[d].node] = d
          BY <1>2, <3>1, <3>2
    <3> QED
        BY <1>2, <2>3, <3>1, <3>2, <3>3 DEF DialInv
  <2> QED
      BY <2>1, <2>2, <2>3 DEF DialInv, Dialing
<1> QED
    BY <1>1, <1>2, <1>3, <1>4, <1>5, <1>8

\* Without an entry, newTrackedIP does the same.
LEMMA NewIsAnew ==
    ASSUME NEW n \in Nodes, trackedIPs[n] = None, DialNew(n)
    PROVE  DialAnew(n)
BY DEF DialNew, DialAnew

\* stopTracking: the nodes lose their entries, whose dialers are stopped; one
\* dialer may end at the same time.
LEMMA ForgetDials ==
    ASSUME DialersInv, NEW ns \in SUBSET Nodes, Forget(ns),
           dialer' = dialer \/ \E e \in Entries : EndDial(e)
    PROVE  /\ DialersInv'
           /\ \A m \in ns : trackedIPs'[m] = None
           /\ \A m \in Nodes \ ns : trackedIPs'[m] = trackedIPs[m]
           /\ halted' = halted \ ns
<1> USE DEF DialersInv, DialType
<1>1. /\ stopped' = stopped \cup ({trackedIPs[n] : n \in ns} \ {None})
      /\ trackedIPs' = [n \in Nodes |-> IF n \in ns THEN None ELSE trackedIPs[n]]
      /\ halted' = halted \ ns
      BY DEF Forget
<1>2. /\ dialer' \in [Entries -> Dialers]
      /\ \A d \in Entries :
            /\ dialer'[d].node = dialer[d].node /\ dialer'[d].to = dialer[d].to
            /\ dialer'[d].pc \in {dialer[d].pc, "done"}
      BY DEF EndDial, Dialers, DialPCs
<1>3. DialType'
      BY <1>1, <1>2
<1>4. ASSUME NEW m \in Nodes, trackedIPs'[m] # None
      PROVE  trackedIPs'[m] \notin stopped' /\ dialer'[trackedIPs'[m]].node = m
  <2>1. m \notin ns /\ trackedIPs'[m] = trackedIPs[m] /\ trackedIPs[m] \in Entries
        BY <1>1, <1>4
  <2>2. trackedIPs[m] \notin stopped /\ dialer[trackedIPs[m]].node = m
        BY <1>4, <2>1 DEF DialInv
  <2>3. \A n \in ns : trackedIPs[n] # trackedIPs[m]
        BY <1>4, <2>1, <2>2 DEF DialInv
  <2> QED
      BY <1>1, <1>2, <2>1, <2>2, <2>3
<1>5. ASSUME NEW d \in Entries, Dialing(d)'
      PROVE  dialer'[d].node \in Nodes /\ (d \notin stopped' => trackedIPs'[dialer'[d].node] = d)
  <2>1. Dialing(d) /\ dialer'[d].node = dialer[d].node
        BY <1>2, <1>5 DEF Dialing
  <2>2. dialer[d].node \in Nodes /\ (d \notin stopped => trackedIPs[dialer[d].node] = d)
        BY <2>1 DEF DialInv
  <2> QED
      BY <1>1, <2>1, <2>2
<1>6. ASSUME NEW d \in Entries, dialer'[d].pc = "allowed"
      PROVE  /\ dialer'[d].to \in Nodes
             /\ trackedIPs'[dialer'[d].node] = d =>
                   dialer'[d].to = dialer'[d].node \/ dialer'[d].node \in halted'
  <2>1. /\ dialer[d].pc = "allowed" /\ Dialing(d)
        /\ dialer'[d].node = dialer[d].node /\ dialer'[d].to = dialer[d].to
        BY <1>2, <1>6 DEF Dialing
  <2>2. dialer[d].node \in Nodes /\ dialer[d].to \in Nodes
        BY <2>1 DEF DialInv
  <2>3. trackedIPs'[dialer[d].node] = d =>
           dialer[d].node \notin ns /\ trackedIPs[dialer[d].node] = d
        BY <1>1, <2>2
  <2> QED
      BY <1>1, <2>1, <2>2, <2>3 DEF DialInv
<1>7. DialInv'
      BY <1>4, <1>5, <1>6 DEF DialInv, Dialing
<1> QED
    BY <1>1, <1>3, <1>7

\* A dialer that ends leaves the rest as it is.
LEMMA EndDials ==
    ASSUME DialersInv, NEW e \in Entries, EndDial(e), UNCHANGED <<trackedIPs, stopped, halted>>
    PROVE  /\ DialersInv'
           /\ ~Dialing(e)'
           /\ \A d \in Entries \ {e} : dialer'[d] = dialer[d]
<1> USE DEF DialersInv, DialType
<1>1. /\ dialer' \in [Entries -> Dialers]
      /\ dialer'[e].pc = "done"
      /\ dialer'[e].node = dialer[e].node
      /\ \A d \in Entries \ {e} : dialer'[d] = dialer[d]
      BY DEF EndDial, Dialers, DialPCs
<1> QED
    BY <1>1 DEF DialInv, Dialing

-----------------------------------------------------------------------------
(* The peers.                                                              *)

\* A running peer is in one set or in the other, as its place says.
LEMMA WherePeerIs ==
    ASSUME PeersInv, NEW p \in PeerIDs, peer[p].pc # "none"
    PROVE  /\ NodeOf(p) \in Nodes
           /\ \/ /\ connectingPeers[NodeOf(p)] = p /\ connectedPeers[NodeOf(p)] = None
                 /\ peer[p].pc \in ConnectingPCs
              \/ /\ connectedPeers[NodeOf(p)] = p /\ connectingPeers[NodeOf(p)] = None
                 /\ peer[p].pc \in ConnectedPCs
BY DEF PeersInv, PeerInv, PeerIDs

\* A peer that goes on in its set, while the router hears what it should.
LEMMA PeerGoesOn ==
    ASSUME PeersInv, NEW p \in PeerIDs, peer[p].pc # "none",
           NEW to \in ConnectingPCs \cup ConnectedPCs, MoveTo(p, to),
           UNCHANGED <<connectingPeers, connectedPeers>>,
           connectingPeers[NodeOf(p)] = p => to \in ConnectingPCs /\ UNCHANGED routed,
           connectedPeers[NodeOf(p)] = p =>
              /\ to \in ConnectedPCs
              /\ routed' = [routed EXCEPT ![NodeOf(p)] = IF to \in RoutedPCs THEN 1 ELSE 0]
    PROVE  PeersInv'
<1> DEFINE n == NodeOf(p)
<1> USE DEF PeersInv, PeerType
<1>1. n \in Nodes /\ n # None
      BY WherePeerIs
<1>2. /\ peer' \in [PeerIDs -> Peers]
      /\ peer'[p].node = n /\ peer'[p].pc = to
      /\ \A q \in PeerIDs \ {p} : peer'[q] = peer[q]
      BY DEF MoveTo, Peers, NodeOf
<1>3. \A q \in PeerIDs : peer'[q].node = peer[q].node
      BY <1>2 DEF NodeOf
<1>4. PeerType'
      BY <1>1, <1>2, WherePeerIs
<1>5. to # "none"
      BY DEF ConnectingPCs, ConnectedPCs
<1>6. PeerInv'
  <2>1. ASSUME NEW q \in PeerIDs, peer'[q].pc # "none"
        PROVE  /\ peer'[q].node \in Nodes
               /\ connectingPeers'[peer'[q].node] = q \/ connectedPeers'[peer'[q].node] = q
        BY <1>2, <1>3, <2>1 DEF PeerInv, NodeOf
  <2>2. ASSUME NEW m \in Nodes, NEW q \in PeerIDs
        PROVE  /\ connectingPeers'[m] = q => peer'[q].node = m /\ peer'[q].pc \in ConnectingPCs
               /\ connectedPeers'[m] = q => peer'[q].node = m /\ peer'[q].pc \in ConnectedPCs
        BY <1>2, <1>3 DEF PeerInv, NodeOf
  <2> QED
      BY <2>1, <2>2 DEF PeerInv, NodeOf
<1>7. RoutedInv'
  <2> SUFFICES ASSUME NEW m \in Nodes
               PROVE  /\ connectedPeers[m] = None => routed'[m] = 0
                      /\ \A q \in PeerIDs : connectedPeers[m] = q =>
                            routed'[m] = IF peer'[q].pc \in RoutedPCs THEN 1 ELSE 0
      BY DEF RoutedInv
  <2>1. CASE m = n /\ connectedPeers[n] = p
        BY <1>1, <1>2, <2>1
  <2>2. CASE m # n \/ connectedPeers[n] # p
    <3>1. routed'[m] = routed[m]
          BY <1>1, <2>2, WherePeerIs
    <3>2. connectedPeers[m] # p
          BY <2>2 DEF PeerInv
    <3> QED
        BY <1>2, <3>1, <3>2 DEF RoutedInv
  <2> QED
      BY <2>1, <2>2
<1> QED
    BY <1>4, <1>6, <1>7

\* The section of upgrade under peersLock keeps the peers in order, and a
\* connection to a node that has no peer becomes one.
LEMMA StartPeers ==
    ASSUME PeersInv, NEW m \in Nodes, StartPeer(m), UNCHANGED routed
    PROVE  /\ PeersInv'
           /\ UNCHANGED connectedPeers
           /\ \A n \in Nodes : connectingPeers[n] # None => connectingPeers'[n] # None
           /\ networkClosing \/ connectingPeers'[m] # None \/ connectedPeers[m] # None
<1> USE DEF PeersInv, PeerType
<1>1. CASE UNCHANGED peerVars
      <2>1. networkClosing \/ connectingPeers'[m] # None \/ connectedPeers[m] # None
            BY <1>1, FreshPeer DEF StartPeer, peerVars
      <2> QED BY <1>1, <2>1 DEF peerVars, PeerInv, RoutedInv, NodeOf
<1>2. CASE /\ connectingPeers[m] = None /\ connectedPeers[m] = None
           /\ ~UNCHANGED peerVars
  <2> DEFINE new == [node |-> m, pc |-> "handshake", told |-> FALSE]
  <2>0. PICK p : p = Min(FreePeers)
        OBVIOUS
  <2>1. /\ FreePeers # {}
        /\ peer' = [peer EXCEPT ![p] = new]
        /\ connectingPeers' = [connectingPeers EXCEPT ![m] = p]
        /\ UNCHANGED connectedPeers
        BY <1>2, <2>0 DEF StartPeer
  <2>2. p \in PeerIDs /\ peer[p].pc = "none"
        BY <2>0, <2>1, FreshPeer
  <2>3. \A n \in Nodes : connectingPeers[n] # p /\ connectedPeers[n] # p
        BY <2>2 DEF PeerInv, ConnectingPCs, ConnectedPCs
  <2>4. new \in Peers
        BY DEF Peers, ConnectingPCs
  <2>5. PeerType'
        BY <2>1, <2>2, <2>4
  <2>6. /\ peer'[p] = new
        /\ \A q \in PeerIDs \ {p} : peer'[q] = peer[q]
        /\ connectingPeers'[m] = p
        /\ \A n \in Nodes \ {m} : connectingPeers'[n] = connectingPeers[n]
        BY <2>1, <2>2
  <2>7. new.node = m /\ new.pc \in ConnectingPCs
        BY DEF ConnectingPCs
  <2> HIDE DEF new
  <2>8. PeerInv'
    <3>1. ASSUME NEW q \in PeerIDs, peer'[q].pc # "none"
          PROVE  /\ peer'[q].node \in Nodes
                 /\ connectingPeers'[peer'[q].node] = q \/ connectedPeers'[peer'[q].node] = q
      <4>1. CASE q = p
            BY <2>6, <2>7, <4>1
      <4>2. CASE q # p
            BY <1>2, <2>1, <2>6, <3>1, <4>2 DEF PeerInv, NodeOf
      <4> QED
          BY <4>1, <4>2
    <3>2. ASSUME NEW n \in Nodes
          PROVE  connectingPeers'[n] = None \/ connectedPeers'[n] = None
          BY <1>2, <2>1, <2>6 DEF PeerInv
    <3>3. ASSUME NEW n \in Nodes, NEW q \in PeerIDs
          PROVE  /\ connectingPeers'[n] = q => peer'[q].node = n /\ peer'[q].pc \in ConnectingPCs
                 /\ connectedPeers'[n] = q => peer'[q].node = n /\ peer'[q].pc \in ConnectedPCs
      <4>1. CASE q = p
            BY <2>1, <2>3, <2>6, <2>7, <4>1
      <4>2. CASE q # p
            BY <2>1, <2>6, <4>2 DEF PeerInv, NodeOf
      <4> QED
          BY <4>1, <4>2
    <3> QED
        BY <3>1, <3>2, <3>3 DEF PeerInv, NodeOf
  <2>9. RoutedInv'
        BY <2>1, <2>3, <2>6 DEF RoutedInv
  <2> QED
      BY <2>1, <2>2, <2>5, <2>6, <2>8, <2>9
<1> QED
    BY <1>1, <1>2 DEF StartPeer

\* A peer that has ended, and the router knows of it no more, leaves its set.
LEMMA PeerLeaves ==
    ASSUME PeersInv, NEW p \in PeerIDs, peer[p].pc # "none",
           peer' = [peer EXCEPT ![p] = noPeer], UNCHANGED routed,
           routed[NodeOf(p)] = 0,
           connectingPeers' = [connectingPeers EXCEPT ![NodeOf(p)] = None],
           connectedPeers' = [connectedPeers EXCEPT ![NodeOf(p)] = None]
    PROVE  PeersInv'
<1> DEFINE n == NodeOf(p)
<1> USE DEF PeersInv, PeerType
<1>1. n \in Nodes
      BY WherePeerIs
<1>2. noPeer \in Peers /\ noPeer.pc = "none"
      BY DEF noPeer, Peers
<1>3. /\ peer'[p].pc = "none"
      /\ \A q \in PeerIDs \ {p} : peer'[q] = peer[q]
      /\ connectingPeers'[n] = None /\ connectedPeers'[n] = None
      /\ \A m \in Nodes \ {n} : /\ connectingPeers'[m] = connectingPeers[m]
                              /\ connectedPeers'[m] = connectedPeers[m]
      BY <1>1, <1>2
<1>4. PeerType'
      BY <1>1, <1>2
<1>5. \A q \in PeerIDs \ {p} : peer[q].pc # "none" => NodeOf(q) # n
      BY WherePeerIs
<1>6. \A m \in Nodes \ {n} : connectingPeers[m] # p /\ connectedPeers[m] # p
      BY DEF PeerInv
<1>7. None \notin PeerIDs
      OBVIOUS
<1> HIDE DEF n
<1>8. PeerInv'
  <2>1. ASSUME NEW q \in PeerIDs, peer'[q].pc # "none"
        PROVE  /\ peer'[q].node \in Nodes
               /\ connectingPeers'[peer'[q].node] = q \/ connectedPeers'[peer'[q].node] = q
        BY <1>3, <1>5, <2>1 DEF PeerInv, NodeOf
  <2>2. ASSUME NEW m \in Nodes
        PROVE  connectingPeers'[m] = None \/ connectedPeers'[m] = None
        BY <1>3 DEF PeerInv
  <2>3. ASSUME NEW m \in Nodes, NEW q \in PeerIDs
        PROVE  /\ connectingPeers'[m] = q => peer'[q].node = m /\ peer'[q].pc \in ConnectingPCs
               /\ connectedPeers'[m] = q => peer'[q].node = m /\ peer'[q].pc \in ConnectedPCs
    <3>1. CASE m = n
          BY <1>3, <1>7, <3>1
    <3>2. CASE m # n
          BY <1>3, <1>6, <3>2 DEF PeerInv, NodeOf
    <3> QED
        BY <3>1, <3>2
  <2> QED
      BY <2>1, <2>2, <2>3 DEF PeerInv, NodeOf
<1>9. RoutedInv'
  <2> SUFFICES ASSUME NEW m \in Nodes
               PROVE  /\ connectedPeers'[m] = None => routed'[m] = 0
                      /\ \A q \in PeerIDs : connectedPeers'[m] = q =>
                            routed'[m] = IF peer'[q].pc \in RoutedPCs THEN 1 ELSE 0
      BY DEF RoutedInv
  <2>1. CASE m = n
        BY <1>3, <1>7, <2>1 DEF n
  <2>2. CASE m # n
        BY <1>3, <1>6, <2>2 DEF RoutedInv
  <2> QED
      BY <2>1, <2>2
<1> QED
    BY <1>4, <1>8, <1>9

\* The record of a peer that has moved on.
LEMMA PeerRecord ==
    ASSUME NEW x \in Peers, NEW to \in ConnectingPCs \cup ConnectedPCs
    PROVE  /\ [x EXCEPT !.pc = to] \in Peers
           /\ [x EXCEPT !.pc = to].pc = to /\ [x EXCEPT !.pc = to].node = x.node
BY DEF Peers

\* The record of a peer that StartClose has told to end.
LEMMA ToldRecord ==
    ASSUME NEW x \in Peers, NEW b \in BOOLEAN
    PROVE  /\ [x EXCEPT !.told = b] \in Peers
           /\ [x EXCEPT !.told = b].pc = x.pc /\ [x EXCEPT !.told = b].node = x.node
BY DEF Peers

\* Connected moves a peer from the one set to the other.
LEMMA PeerConnects ==
    ASSUME PeersInv, NEW p \in PeerIDs, At(p, "handshake"), MoveTo(p, "moved"),
           connectingPeers' = [connectingPeers EXCEPT ![NodeOf(p)] = None],
           connectedPeers' = [connectedPeers EXCEPT ![NodeOf(p)] = connectingPeers[NodeOf(p)]],
           UNCHANGED routed
    PROVE  PeersInv'
<1> DEFINE n == NodeOf(p)
<1> USE DEF PeersInv, PeerType
<1>1. n \in Nodes /\ connectingPeers[n] = p /\ connectedPeers[n] = None
      BY WherePeerIs DEF At, ConnectedPCs
<1>2. /\ peer' \in [PeerIDs -> Peers]
      /\ peer'[p].pc = "moved" /\ peer'[p].node = n
      /\ \A q \in PeerIDs \ {p} : peer'[q] = peer[q]
  <2> DEFINE moved == [peer[p] EXCEPT !.pc = "moved"]
  <2>0. peer[p] \in Peers /\ "moved" \in ConnectingPCs \cup ConnectedPCs
        BY DEF ConnectedPCs
  <2>1. moved \in Peers /\ moved.pc = "moved" /\ moved.node = n
        BY <2>0, PeerRecord, Zenon DEF NodeOf
  <2>2. peer' = [peer EXCEPT ![p] = moved]
        BY DEF MoveTo
  <2> HIDE DEF moved
  <2> QED
      BY <2>1, <2>2
<1>3. /\ connectingPeers'[n] = None /\ connectedPeers'[n] = p
      /\ \A m \in Nodes \ {n} : /\ connectingPeers'[m] = connectingPeers[m]
                              /\ connectedPeers'[m] = connectedPeers[m]
      BY <1>1
<1>4. PeerType'
      BY <1>1, <1>2
<1>5. \A q \in PeerIDs \ {p} : peer[q].pc # "none" => NodeOf(q) # n
      BY <1>1, WherePeerIs
<1>6. \A m \in Nodes \ {n} : connectingPeers[m] # p /\ connectedPeers[m] # p
      BY DEF PeerInv
<1>7. None \notin PeerIDs /\ "moved" \in ConnectedPCs /\ "moved" \notin RoutedPCs
      BY DEF ConnectedPCs, RoutedPCs
<1>8. routed[n] = 0
      BY <1>1 DEF RoutedInv
<1> HIDE DEF n
<1>9. PeerInv'
  <2>1. ASSUME NEW q \in PeerIDs, peer'[q].pc # "none"
        PROVE  /\ peer'[q].node \in Nodes
               /\ connectingPeers'[peer'[q].node] = q \/ connectedPeers'[peer'[q].node] = q
    <3>1. CASE q = p
          BY <1>1, <1>2, <1>3, <3>1
    <3>2. CASE q # p
          BY <1>2, <1>3, <1>5, <2>1, <3>2 DEF PeerInv, NodeOf
    <3> QED
        BY <3>1, <3>2
  <2>2. ASSUME NEW m \in Nodes
        PROVE  connectingPeers'[m] = None \/ connectedPeers'[m] = None
        BY <1>3 DEF PeerInv
  <2>3. ASSUME NEW m \in Nodes, NEW q \in PeerIDs
        PROVE  /\ connectingPeers'[m] = q => peer'[q].node = m /\ peer'[q].pc \in ConnectingPCs
               /\ connectedPeers'[m] = q => peer'[q].node = m /\ peer'[q].pc \in ConnectedPCs
    <3>1. CASE m = n
          BY <1>2, <1>3, <1>7, <3>1
    <3>2. CASE m # n
          BY <1>2, <1>3, <1>6, <3>2 DEF PeerInv, NodeOf
    <3> QED
        BY <3>1, <3>2
  <2> QED
      BY <2>1, <2>2, <2>3 DEF PeerInv, NodeOf
<1>10. RoutedInv'
  <2> SUFFICES ASSUME NEW m \in Nodes
               PROVE  /\ connectedPeers'[m] = None => routed'[m] = 0
                      /\ \A q \in PeerIDs : connectedPeers'[m] = q =>
                            routed'[m] = IF peer'[q].pc \in RoutedPCs THEN 1 ELSE 0
      BY DEF RoutedInv
  <2>1. CASE m = n
        BY <1>2, <1>3, <1>7, <1>8, <2>1
  <2>2. CASE m # n
        BY <1>2, <1>3, <1>6, <2>2 DEF RoutedInv
  <2> QED
      BY <2>1, <2>2
<1> QED
    BY <1>4, <1>9, <1>10

-----------------------------------------------------------------------------
(* The steps.                                                              *)

\* What does not touch the peers, or the dialing, keeps their invariants.
LEMMA SamePeers ==
    ASSUME PeersInv, UNCHANGED <<peer, connectingPeers, connectedPeers, routed>>
    PROVE  PeersInv'
BY DEF PeersInv, PeerType, PeerInv, RoutedInv, NodeOf

LEMMA SameDialers ==
    ASSUME DialersInv, UNCHANGED dialVars
    PROVE  DialersInv'
BY DEF DialersInv, DialType, DialInv, Dialing, dialVars

\* A new address of a node that is not connected, whatever was tracked before.
LEMMA AnewStep ==
    ASSUME NetInv, NEW n \in Nodes, DialAnew(n), PeersInv',
           networkClosing' = networkClosing, connectedPeers'[n] = None,
           \A m \in Nodes \ {n} : /\ connectedPeers'[m] = connectedPeers[m]
                               /\ connectingPeers'[m] = connectingPeers[m]
    PROVE  NetInv'
<1>1. /\ DialersInv'
      /\ trackedIPs'[n] \in Entries /\ Dialing(trackedIPs[n])'
      /\ \A m \in Nodes \ {n} :
            /\ trackedIPs'[m] = trackedIPs[m]
            /\ trackedIPs[m] # None => dialer'[trackedIPs[m]] = dialer[trackedIPs[m]]
      /\ halted' = halted \ {n}
      BY AnewDials DEF NetInv
<1>2. Apart'
      BY <1>1 DEF NetInv, Apart
<1>3. TrackedIsDialled'
  <2> SUFFICES ASSUME ~networkClosing', NEW m \in Nodes, trackedIPs'[m] # None
               PROVE  (Dialing(trackedIPs[m]) \/ connectingPeers[m] # None \/ m \in halted)'
      BY DEF TrackedIsDialled
  <2>1. CASE m = n
        BY <1>1, <2>1
  <2>2. CASE m # n
    <3>1. trackedIPs'[m] = trackedIPs[m] /\ dialer'[trackedIPs[m]] = dialer[trackedIPs[m]]
          BY <1>1, <2>2
    <3>2. Dialing(trackedIPs[m]) \/ connectingPeers[m] # None \/ m \in halted
          BY <3>1 DEF NetInv, TrackedIsDialled
    <3> QED
        BY <1>1, <2>2, <3>1, <3>2 DEF Dialing
  <2> QED
      BY <2>1, <2>2
<1> QED
    BY <1>1, <1>2, <1>3 DEF NetInv

\* The nodes in ns are tracked no more.
LEMMA ForgetStep ==
    ASSUME NetInv, NEW ns \in SUBSET Nodes, Forget(ns), PeersInv',
           UNCHANGED dialer \/ \E e \in Entries : EndDial(e) /\ dialer[e].node \in ns,
           networkClosing => networkClosing',
           \A m \in Nodes \ ns : /\ connectedPeers'[m] = connectedPeers[m]
                              /\ connectingPeers'[m] = connectingPeers[m]
    PROVE  NetInv'
<1>1. /\ DialersInv'
      /\ \A m \in ns : trackedIPs'[m] = None
      /\ \A m \in Nodes \ ns : trackedIPs'[m] = trackedIPs[m]
      /\ halted' = halted \ ns
      BY ForgetDials DEF NetInv
<1>2. Apart'
      BY <1>1 DEF NetInv, Apart
<1>3. ASSUME NEW m \in Nodes \ ns, trackedIPs[m] # None
      PROVE  dialer'[trackedIPs[m]] = dialer[trackedIPs[m]]
  <2>1. trackedIPs[m] \in Entries
        BY <1>3 DEF NetInv, DialersInv, DialType
  <2>2. dialer[trackedIPs[m]].node = m
        BY <1>3 DEF NetInv, DialersInv, DialInv
  <2> QED
      BY <2>1, <2>2 DEF NetInv, DialersInv, DialType, EndDial
<1>4. TrackedIsDialled'
  <2> SUFFICES ASSUME ~networkClosing', NEW m \in Nodes, trackedIPs'[m] # None
               PROVE  (Dialing(trackedIPs[m]) \/ connectingPeers[m] # None \/ m \in halted)'
      BY DEF TrackedIsDialled
  <2>1. m \in Nodes \ ns /\ trackedIPs'[m] = trackedIPs[m] /\ trackedIPs[m] # None
        BY <1>1
  <2>2. Dialing(trackedIPs[m]) \/ connectingPeers[m] # None \/ m \in halted
        BY <2>1 DEF NetInv, TrackedIsDialled
  <2>3. dialer'[trackedIPs[m]] = dialer[trackedIPs[m]]
        BY <1>3, <2>1
  <2> QED
      BY <1>1, <2>1, <2>2, <2>3 DEF Dialing
<1> QED
    BY <1>1, <1>2, <1>4 DEF NetInv

\* The dialing is left alone, and no node that has an entry is connected, or
\* loses its connecting peer.
LEMMA PeerStepOnly ==
    ASSUME NetInv, PeersInv', UNCHANGED dialVars, networkClosing' = networkClosing,
           \A n \in Nodes : trackedIPs[n] # None =>
              /\ connectedPeers'[n] = connectedPeers[n]
              /\ connectingPeers[n] # None => connectingPeers'[n] # None
    PROVE  NetInv'
<1>1. DialersInv'
      BY SameDialers DEF NetInv
<1> QED
    BY <1>1 DEF NetInv, Apart, TrackedIsDialled, Dialing, dialVars

\* Addresses and validator sets.
LEMMA TrackSteps ==
    ASSUME NetInv, NEW n \in Nodes,
           ManuallyTrack(n) \/ Track(n) \/ Want(n) \/ Unwant(n) \/ InboundUpgraded(n)
    PROVE  NetInv'
<1>1. UNCHANGED <<peer, connectingPeers, connectedPeers, routed, networkClosing>>
      BY DEF ManuallyTrack, Track, Want, Unwant, InboundUpgraded, peerVars
<1>2. PeersInv'
      BY <1>1, SamePeers DEF NetInv
<1>3. CASE UNCHANGED dialVars
      BY <1>1, <1>2, <1>3, PeerStepOnly
<1>4. CASE connectedPeers[n] = None /\ DialAnew(n)
      BY <1>1, <1>2, <1>4, AnewStep
<1> QED
    BY <1>3, <1>4 DEF ManuallyTrack, Track, Want, Unwant, InboundUpgraded

\* A dial goroutine waits, dials, and ends or makes a peer.
LEMMA DialSteps ==
    ASSUME NetInv, NEW e \in Entries, DialStep(e)
    PROVE  NetInv'
<1> DEFINE n == dialer[e].node
<1>0. /\ networkClosing' = networkClosing /\ UNCHANGED routed
      /\ dialer[e].pc # "done" /\ n \in Nodes
      BY DEF DialStep, DialStops, DialWakes, DialFails, DialStartsPeer, Upgraded,
             NetInv, DialersInv, DialInv, Dialing
<1>1. ASSUME EndDial(e), UNCHANGED <<trackedIPs, stopped>>, PeersInv', UNCHANGED connectedPeers,
             halted' = halted \/ halted' = halted \cup {n},
             \A m \in Nodes : connectingPeers[m] # None => connectingPeers'[m] # None,
             trackedIPs[n] = e => networkClosing \/ connectingPeers'[n] # None \/ n \in halted'
      PROVE  NetInv'
  <2> USE DEF NetInv, DialersInv, DialType
  <2>1. /\ dialer' \in [Entries -> Dialers]
        /\ dialer'[e].pc = "done"
        /\ dialer'[e].node = dialer[e].node
        /\ \A d \in Entries \ {e} : dialer'[d] = dialer[d]
        BY <1>1 DEF EndDial, Dialers, DialPCs
  <2>2. DialersInv'
    <3>1. DialType'
          BY <1>0, <1>1, <2>1
    <3>0. DialInv /\ trackedIPs' = trackedIPs /\ stopped' = stopped /\ halted \subseteq halted'
          BY <1>1
    <3> HIDE DEF NetInv, DialersInv
    <3>2. ASSUME NEW m \in Nodes, trackedIPs'[m] # None
          PROVE  trackedIPs'[m] \notin stopped' /\ dialer'[trackedIPs'[m]].node = m
      <4>1. trackedIPs[m] \notin stopped /\ dialer[trackedIPs[m]].node = m
            BY <3>0, <3>2 DEF DialInv
      <4>2. trackedIPs'[m] \in Entries
            BY <3>1, <3>2
      <4> QED
          BY <2>1, <3>0, <4>1, <4>2
    <3>3. \A d \in Entries : Dialing(d)' => d # e /\ Dialing(d) /\ dialer'[d] = dialer[d]
          BY <2>1 DEF Dialing
    <3>4. \A d \in Entries : Dialing(d)' =>
             dialer'[d].node \in Nodes /\ (d \notin stopped' => trackedIPs'[dialer'[d].node] = d)
          BY <3>0, <3>3 DEF DialInv
    <3>5. \A d \in Entries : dialer'[d].pc = "allowed" =>
             /\ dialer'[d].to \in Nodes
             /\ trackedIPs'[dialer'[d].node] = d =>
                   dialer'[d].to = dialer'[d].node \/ dialer'[d].node \in halted'
      <4> SUFFICES ASSUME NEW d \in Entries, dialer'[d].pc = "allowed"
                   PROVE  /\ dialer'[d].to \in Nodes
                          /\ trackedIPs'[dialer'[d].node] = d =>
                                dialer'[d].to = dialer'[d].node \/ dialer'[d].node \in halted'
          OBVIOUS
      <4>1. dialer'[d] = dialer[d]
            BY <2>1
      <4> QED
          BY <3>0, <4>1 DEF DialInv
    <3> QED
        BY <3>1, <3>2, <3>4, <3>5 DEF DialInv, DialersInv
  <2>3. \A m \in Nodes : trackedIPs[m] = e => m = n
        BY DEF DialInv
  <2>4. TrackedIsDialled'
    <3> SUFFICES ASSUME ~networkClosing', NEW m \in Nodes, trackedIPs'[m] # None
                 PROVE  (Dialing(trackedIPs[m]) \/ connectingPeers[m] # None \/ m \in halted)'
        BY DEF TrackedIsDialled
    <3>1. CASE trackedIPs[m] = e
          BY <1>0, <1>1, <2>3, <3>1
    <3>2. CASE trackedIPs[m] # e
      <4>1. trackedIPs'[m] = trackedIPs[m] /\ trackedIPs[m] \in Entries \ {e}
            BY <1>1, <3>2
      <4>2. Dialing(trackedIPs[m]) \/ connectingPeers[m] # None \/ m \in halted
            BY <1>0, <4>1 DEF TrackedIsDialled
      <4> QED
          BY <1>1, <2>1, <4>1, <4>2 DEF Dialing
    <3> QED
        BY <3>1, <3>2
  <2> QED
      BY <1>1, <2>2, <2>4 DEF Apart
<1>on. ASSUME UNCHANGED <<trackedIPs, stopped, halted, connectingPeers, connectedPeers>>,
             PeersInv', NEW to \in {"dial", "wait"}, dialer' = [dialer EXCEPT ![e].pc = to]
      PROVE  NetInv'
  <2> USE DEF NetInv, DialersInv, DialType
  <2>1. /\ dialer' \in [Entries -> Dialers]
        /\ dialer'[e].pc = to /\ dialer'[e].node = dialer[e].node
        /\ \A d \in Entries \ {e} : dialer'[d] = dialer[d]
        BY <1>on DEF Dialers, DialPCs
  <2>2. DialersInv'
        BY <1>0, <1>on, <2>1 DEF DialInv, Dialing
  <2>3. TrackedIsDialled'
        BY <1>0, <1>on, <2>1 DEF TrackedIsDialled, Dialing
  <2> QED
      BY <1>on, <2>2, <2>3 DEF Apart
<1>2. CASE DialStops(e)
  <2>1. trackedIPs[n] = e => networkClosing
    <3>1. networkClosing \/ e \in stopped
          BY <1>2 DEF DialStops
    <3>2. trackedIPs[n] # None => trackedIPs[n] \notin stopped
          BY <1>0 DEF NetInv, DialersInv, DialInv
    <3> QED
        BY <3>1, <3>2
  <2> QED
      BY <1>1, <1>2, <2>1, SamePeers DEF DialStops, peerVars, NetInv
<1>3. CASE DialWakes(e)
  <2>1. PeersInv' /\ UNCHANGED <<connectingPeers, connectedPeers>>
        BY <1>3, SamePeers DEF DialWakes, peerVars, NetInv
  <2>2. CASE n \notin wanted
        BY <1>0, <1>3, <2>1, <2>2, ForgetStep DEF DialWakes
  <2>3. CASE n \in wanted /\ (connectingPeers[n] # None \/ connectedPeers[n] # None)
    <3>1. trackedIPs[n] = e => connectingPeers[n] # None
          BY <1>0, <2>3 DEF NetInv, Apart
    <3> QED
        BY <1>0, <1>1, <1>3, <2>1, <2>3, <3>1 DEF DialWakes
  <2>4. CASE dialer' = [dialer EXCEPT ![e].pc = "dial"] /\ UNCHANGED <<trackedIPs, stopped, halted>>
        BY <2>1, <2>4, <1>on
  <2> QED
      BY <1>3, <2>2, <2>3, <2>4 DEF DialWakes
<1>4. CASE DialFails(e)
      BY <1>4, <1>on, SamePeers DEF DialFails, peerVars, NetInv
<1>5. ASSUME NEW m \in Nodes \cup {None}, NEW validates \in BOOLEAN, Upgraded(e, m, validates)
      PROVE  NetInv'
  <2>1. /\ PeersInv' /\ UNCHANGED <<trackedIPs, stopped, connectingPeers, connectedPeers>>
        /\ halted' = halted \/ halted' = halted \cup {n}
        BY <1>5, SamePeers DEF Upgraded, peerVars, NetInv
  <2>2. CASE EndDial(e)
    <3>1. ~(m # None /\ AllowConnection(m, validates))
          BY <1>0, <1>5, <2>2 DEF Upgraded, EndDial, NetInv, DialersInv, DialType, Dialers
    <3>2. trackedIPs[n] = e => n \in halted'
          BY <1>5, <3>1 DEF Upgraded
    <3> QED
        BY <1>1, <2>1, <2>2, <3>2
  <2>3. CASE m # None /\ dialer' = [dialer EXCEPT ![e].pc = "allowed", ![e].to = m]
    <3> USE DEF NetInv, DialersInv, DialType
    <3>1. /\ dialer' \in [Entries -> Dialers]
          /\ dialer'[e].pc = "allowed" /\ dialer'[e].node = n /\ dialer'[e].to = m
          /\ \A d \in Entries \ {e} : dialer'[d] = dialer[d]
          BY <2>3 DEF Dialers, DialPCs
    <3>2. trackedIPs[n] = e => m = n \/ n \in halted'
          BY <1>5 DEF Upgraded
    <3>3. DialersInv'
          BY <1>0, <2>1, <2>3, <3>1, <3>2 DEF DialInv, Dialing
    <3>4. TrackedIsDialled'
          BY <1>0, <2>1, <3>1 DEF TrackedIsDialled, Dialing
    <3> QED
        BY <2>1, <3>3, <3>4 DEF Apart
  <2> QED
      BY <1>5, <2>2, <2>3 DEF Upgraded
<1>6. CASE DialStartsPeer(e)
  <2> DEFINE m == dialer[e].to
  <2>1. /\ m \in Nodes /\ StartPeer(m) /\ EndDial(e)
        /\ UNCHANGED <<trackedIPs, stopped, halted>>
        /\ trackedIPs[n] = e => m = n \/ n \in halted
        BY <1>6 DEF DialStartsPeer, NetInv, DialersInv, DialInv
  <2> HIDE DEF m
  <2>2. /\ PeersInv'
        /\ UNCHANGED connectedPeers
        /\ \A x \in Nodes : connectingPeers[x] # None => connectingPeers'[x] # None
        /\ networkClosing \/ connectingPeers'[m] # None \/ connectedPeers[m] # None
        BY <1>0, <2>1, StartPeers DEF NetInv
  <2>3. trackedIPs[n] = e => networkClosing \/ connectingPeers'[n] # None \/ n \in halted'
        BY <1>0, <2>1, <2>2 DEF NetInv, Apart
  <2> QED
      BY <1>1, <2>1, <2>2, <2>3
<1> QED
    BY <1>2, <1>3, <1>4, <1>5, <1>6 DEF DialStep

\* A connection that was accepted makes a peer.
LEMMA InboundSteps ==
    ASSUME NetInv, NEW n \in Nodes, InboundStartsPeer(n)
    PROVE  NetInv'
<1>1. /\ PeersInv' /\ UNCHANGED connectedPeers
      /\ \A m \in Nodes : connectingPeers[m] # None => connectingPeers'[m] # None
      BY StartPeers DEF NetInv, InboundStartsPeer
<1> QED
    BY <1>1, PeerStepOnly DEF InboundStartsPeer

\* A peer's reader and its last goroutine report to the network.
LEMMA PeerSteps ==
    ASSUME NetInv, NEW p \in PeerIDs, Connected(p) \/ PeerEnds(p) \/ PeerStep(p)
    PROVE  NetInv'
<1> DEFINE n == NodeOf(p)
<1>0. /\ networkClosing' = networkClosing /\ peer[p].pc # "none"
      /\ PeersInv /\ PeerType
      BY DEF Connected, PeerEnds, PeerStep, ConnectedTracker, ConnectedRouter,
             Disconnected, DisconnectedFromConnecting, DisconnectedTracker,
             DisconnectedRouter, DisconnectedFromConnected, At, NetInv, PeersInv
<1>1. /\ n \in Nodes
      /\ \/ /\ connectingPeers[n] = p /\ connectedPeers[n] = None
            /\ peer[p].pc \in ConnectingPCs
         \/ /\ connectedPeers[n] = p /\ connectingPeers[n] = None
            /\ peer[p].pc \in ConnectedPCs
      /\ p # None
      BY <1>0, WherePeerIs
<1>2. /\ connectedPeers[n] = p => routed[n] = IF peer[p].pc \in RoutedPCs THEN 1 ELSE 0
      /\ connectedPeers[n] = None => routed[n] = 0
      /\ routed \in [Nodes -> Int]
      BY <1>1 DEF NetInv, PeersInv, PeerType, RoutedInv
<1>3. ASSUME NEW to \in ConnectingPCs \cup ConnectedPCs, MoveTo(p, to),
             UNCHANGED <<connectingPeers, connectedPeers>>, UNCHANGED dialVars,
             connectingPeers[n] = p => to \in ConnectingPCs /\ UNCHANGED routed,
             connectedPeers[n] = p =>
                /\ to \in ConnectedPCs
                /\ routed' = [routed EXCEPT ![n] = IF to \in RoutedPCs THEN 1 ELSE 0]
      PROVE  NetInv'
  <2>1. PeersInv'
        BY <1>0, <1>3, PeerGoesOn
  <2> QED
      BY <1>0, <1>3, <2>1, PeerStepOnly
<1>4. ASSUME UNCHANGED routed, connectedPeers[n] = p, NEW b \in {0, 1}, routed[n] = b
      PROVE  routed' = [routed EXCEPT ![n] = b]
      BY <1>1, <1>2, <1>4
<1>5. CASE Connected(p)
  <2>1. connectingPeers[n] = p /\ connectedPeers[n] = None
        BY <1>1, <1>5 DEF Connected, At, ConnectedPCs
  <2>2. /\ Forget({n}) /\ MoveTo(p, "moved")
        /\ connectingPeers' = [connectingPeers EXCEPT ![n] = None]
        /\ connectedPeers' = [connectedPeers EXCEPT ![n] = connectingPeers[n]]
        /\ UNCHANGED <<dialer, routed>> /\ At(p, "handshake")
        BY <1>1, <1>5, <2>1 DEF Connected
  <2>3. PeersInv'
        BY <1>0, <2>2, PeerConnects
  <2>4. \A m \in Nodes \ {n} : /\ connectedPeers'[m] = connectedPeers[m]
                             /\ connectingPeers'[m] = connectingPeers[m]
        BY <1>0, <1>1, <2>2 DEF PeerType
  <2> QED
      BY <1>0, <1>1, <2>2, <2>3, <2>4, ForgetStep
<1>6. CASE ConnectedTracker(p)
  <2>1. connectedPeers[n] = p /\ routed[n] = 0
        BY <1>1, <1>2, <1>6 DEF ConnectedTracker, At, ConnectingPCs, RoutedPCs
  <2> QED
      BY <1>1, <1>3, <1>4, <1>6, <2>1 DEF ConnectedTracker, ConnectedPCs, RoutedPCs
<1>7. CASE ConnectedRouter(p)
  <2>1. connectedPeers[n] = p /\ routed[n] = 0
        BY <1>1, <1>2, <1>7 DEF ConnectedRouter, At, ConnectingPCs, RoutedPCs
  <2>2. routed' = [routed EXCEPT ![n] = 1]
    <3>1. routed' = [routed EXCEPT ![n] = routed[n] + 1]
          BY <1>7 DEF ConnectedRouter
    <3>2. routed[n] + 1 = 1
          BY <2>1
    <3> QED
        BY <3>1, <3>2, Zenon
  <2> QED
      BY <1>1, <1>3, <1>7, <2>1, <2>2 DEF ConnectedRouter, ConnectedPCs, RoutedPCs
<1>8. CASE PeerEnds(p)
  <2>1. connectedPeers[n] = p => routed[n] = 1
        BY <1>1, <1>2, <1>8 DEF PeerEnds, At, ConnectedPCs, RoutedPCs
  <2> QED
      BY <1>1, <1>3, <1>4, <1>8, <2>1 DEF PeerEnds, ConnectedPCs, ConnectingPCs, RoutedPCs
<1>9. CASE Disconnected(p)
  <2>1. connectedPeers[n] = p => routed[n] = 1
        BY <1>1, <1>2, <1>9 DEF Disconnected, At, RoutedPCs
  <2>2. CASE connectingPeers[n] = p
    <3>1. MoveTo(p, "leave connecting")
          BY <1>1, <1>9, <2>2 DEF Disconnected
    <3> QED
        BY <1>1, <1>3, <1>9, <2>2, <3>1 DEF Disconnected, ConnectingPCs
  <2>3. CASE connectedPeers[n] = p
    <3>1. MoveTo(p, "tell tracker")
          BY <1>1, <1>9, <2>3 DEF Disconnected
    <3> QED
        BY <1>1, <1>3, <1>4, <1>9, <2>1, <2>3, <3>1 DEF Disconnected, ConnectedPCs, RoutedPCs
  <2> QED
      BY <1>1, <2>2, <2>3
<1>10. CASE DisconnectedFromConnecting(p)
  <2>1. connectingPeers[n] = p /\ connectedPeers[n] = None /\ routed[n] = 0
        BY <1>1, <1>2, <1>10 DEF DisconnectedFromConnecting, At, ConnectedPCs
  <2>2. /\ connectingPeers' = [connectingPeers EXCEPT ![n] = None]
        /\ peer' = [peer EXCEPT ![p] = noPeer]
        /\ UNCHANGED <<connectedPeers, routed>>
        BY <1>10 DEF DisconnectedFromConnecting
  <2>3. connectedPeers' = [connectedPeers EXCEPT ![n] = None]
        BY <1>0, <1>1, <2>1, <2>2 DEF PeerType
  <2>4. PeersInv'
        BY <1>0, <2>1, <2>2, <2>3, PeerLeaves
  <2>5. connectedPeers'[n] = None /\ \A m \in Nodes \ {n} :
            connectedPeers'[m] = connectedPeers[m] /\ connectingPeers'[m] = connectingPeers[m]
        BY <1>0, <1>1, <2>1, <2>2 DEF PeerType
  <2>6. CASE trackedIPs[n] = None /\ UNCHANGED dialVars
        BY <1>0, <1>1, <2>4, <2>5, <2>6, PeerStepOnly
  <2>7. CASE DialAnew(n)
        BY <1>0, <1>1, <2>4, <2>5, <2>7, AnewStep
  <2>8. CASE Forget({n}) /\ UNCHANGED dialer
        BY <1>0, <1>1, <2>4, <2>5, <2>8, ForgetStep
  <2> QED
      BY <1>10, <2>6, <2>7, <2>8 DEF DisconnectedFromConnecting
<1>11. CASE DisconnectedTracker(p)
  <2>1. connectedPeers[n] = p /\ routed[n] = 1
        BY <1>1, <1>2, <1>11 DEF DisconnectedTracker, At, ConnectingPCs, RoutedPCs
  <2> QED
      BY <1>1, <1>3, <1>4, <1>11, <2>1 DEF DisconnectedTracker, ConnectedPCs, RoutedPCs
<1>12. CASE DisconnectedRouter(p)
  <2>1. connectedPeers[n] = p /\ routed[n] = 1
        BY <1>1, <1>2, <1>12 DEF DisconnectedRouter, At, ConnectingPCs, RoutedPCs
  <2>2. routed' = [routed EXCEPT ![n] = 0]
    <3>1. routed' = [routed EXCEPT ![n] = routed[n] - 1]
          BY <1>12 DEF DisconnectedRouter
    <3>2. routed[n] - 1 = 0
          BY <2>1
    <3> QED
        BY <3>1, <3>2
  <2> QED
      BY <1>1, <1>3, <1>12, <2>1, <2>2 DEF DisconnectedRouter, ConnectedPCs, RoutedPCs
<1>13. CASE DisconnectedFromConnected(p)
  <2>1. connectedPeers[n] = p /\ connectingPeers[n] = None /\ routed[n] = 0
        BY <1>1, <1>2, <1>13 DEF DisconnectedFromConnected, At, ConnectingPCs, RoutedPCs
  <2>2. /\ connectedPeers' = [connectedPeers EXCEPT ![n] = None]
        /\ peer' = [peer EXCEPT ![p] = noPeer]
        /\ UNCHANGED <<connectingPeers, routed>>
        BY <1>13 DEF DisconnectedFromConnected
  <2>3. connectingPeers' = [connectingPeers EXCEPT ![n] = None]
        BY <1>0, <1>1, <2>1, <2>2 DEF PeerType
  <2>4. PeersInv'
        BY <1>0, <2>1, <2>2, <2>3, PeerLeaves
  <2>5. connectedPeers'[n] = None /\ \A m \in Nodes \ {n} :
            connectedPeers'[m] = connectedPeers[m] /\ connectingPeers'[m] = connectingPeers[m]
        BY <1>0, <1>1, <2>1, <2>2 DEF PeerType
  <2>6. trackedIPs[n] = None
        BY <1>1, <2>1 DEF NetInv, Apart
  <2>7. CASE UNCHANGED dialVars
        BY <1>0, <1>1, <2>4, <2>5, <2>6, <2>7, PeerStepOnly
  <2>8. CASE DialNew(n)
    <3>1. DialAnew(n)
          BY <1>1, <2>6, <2>8, NewIsAnew
    <3> QED
        BY <1>0, <1>1, <2>4, <2>5, <3>1, AnewStep
  <2> QED
      BY <1>13, <2>7, <2>8 DEF DisconnectedFromConnected
<1> QED
    BY <1>5, <1>6, <1>7, <1>8, <1>9, <1>10, <1>11, <1>12, <1>13 DEF PeerStep

\* StartClose stops every dialer and tells every peer.
LEMMA CloseSteps ==
    ASSUME NetInv, StartClose
    PROVE  NetInv'
<1>1. \A p \in PeerIDs : /\ peer'[p].pc = peer[p].pc /\ peer'[p].node = peer[p].node
                        /\ peer'[p] \in Peers
  <2> SUFFICES ASSUME NEW p \in PeerIDs
               PROVE  /\ peer'[p].pc = peer[p].pc /\ peer'[p].node = peer[p].node
                      /\ peer'[p] \in Peers
      OBVIOUS
  <2> DEFINE b == peer[p].told \/ \E n \in Nodes : p \in {connectingPeers[n], connectedPeers[n]}
  <2>1. peer[p] \in Peers /\ b \in BOOLEAN
        BY DEF NetInv, PeersInv, PeerType
  <2>2. peer'[p] = [peer[p] EXCEPT !.told = b]
        BY DEF StartClose
  <2> HIDE DEF b
  <2>3. /\ [peer[p] EXCEPT !.told = b] \in Peers
        /\ [peer[p] EXCEPT !.told = b].pc = peer[p].pc
        /\ [peer[p] EXCEPT !.told = b].node = peer[p].node
        BY <2>1, ToldRecord, Zenon
  <2> QED
      BY <2>2, <2>3, Zenon
<1>2. peer' \in [PeerIDs -> Peers]
      BY <1>1 DEF StartClose
<1>3. PeersInv'
      BY <1>1, <1>2 DEF StartClose, NetInv, PeersInv, PeerType, PeerInv, RoutedInv, NodeOf
<1> QED
    BY <1>3, ForgetStep DEF StartClose

-----------------------------------------------------------------------------
LEMMA InitNet == Init => NetInv
<1> SUFFICES ASSUME Init PROVE NetInv
    OBVIOUS
<1> USE DEF Init
<1>1. noPeer \in Peers /\ noPeer.pc = "none"
      BY DEF noPeer, Peers
<1>2. PeersInv
  <2>1. PeerType
    <3>1. peer \in [PeerIDs -> Peers]
          BY <1>1
    <3>2. /\ connectingPeers \in [Nodes -> PeerIDs \cup {None}]
          /\ connectedPeers \in [Nodes -> PeerIDs \cup {None}]
          OBVIOUS
    <3>3. routed \in [Nodes -> Int]
          OBVIOUS
    <3> QED
        BY <3>1, <3>2, <3>3 DEF PeerType
  <2>2. PeerInv
        BY <1>1 DEF PeerInv
  <2>3. RoutedInv
        BY DEF RoutedInv
  <2> QED
      BY <2>1, <2>2, <2>3 DEF PeersInv
<1>3. DialersInv
      BY DEF DialersInv, DialType, DialInv, Dialing, Dialers, DialPCs
<1> QED
    BY <1>2, <1>3 DEF NetInv, Apart, TrackedIsDialled

LEMMA NextNet == NetInv /\ [Next]_vars => NetInv'
<1> SUFFICES ASSUME NetInv, [Next]_vars PROVE NetInv'
    OBVIOUS
<1>1. CASE UNCHANGED vars
      BY <1>1, SamePeers, PeerStepOnly DEF vars, dialVars, peerVars, NetInv
<1>2. ASSUME NEW n \in Nodes,
             \/ ManuallyTrack(n) \/ Track(n) \/ Want(n) \/ Unwant(n)
             \/ InboundUpgraded(n) \/ InboundStartsPeer(n)
      PROVE  NetInv'
      BY <1>2, TrackSteps, InboundSteps
<1>3. ASSUME NEW e \in Entries, DialStep(e) PROVE NetInv'
      BY <1>3, DialSteps
<1>4. ASSUME NEW p \in PeerIDs, Connected(p) \/ PeerEnds(p) \/ PeerStep(p) PROVE NetInv'
      BY <1>4, PeerSteps
<1>5. CASE StartClose
      BY <1>5, CloseSteps
<1> QED
    BY <1>1, <1>2, <1>3, <1>4, <1>5 DEF Next

\* A peer that runs is in exactly one set, under its node, with the router's
\* count that its place calls for; entries and dialers belong together.
THEOREM NetInvariance == Spec => []NetInv
BY InitNet, NextNet, PTL DEF Spec

\* The invariant says what the run checks: one peer per node, the router told of
\* connections and disconnections in turn, no dialer that nobody stops and no
\* entry that nobody dials, in upgrade, dial, Connected, Disconnected and
\* StartClose of network.go.
THEOREM PeersAlwaysConsistent == Spec => []PeersConsistent
<1>1. NetInv => PeersConsistent
  <2> SUFFICES ASSUME NetInv PROVE PeersConsistent
      OBVIOUS
  <2> USE DEF NetInv, PeersInv, DialersInv
  <2>1. ASSUME NEW p \in PeerIDs, NEW q \in PeerIDs,
               peer[p].pc # "none", peer[q].pc # "none", NodeOf(p) = NodeOf(q)
        PROVE  p = q
        BY <2>1, WherePeerIs DEF PeerIDs
  <2>2. ASSUME NEW n \in Nodes
        PROVE  /\ connectingPeers[n] = None \/ connectedPeers[n] = None
               /\ \A p \in {connectingPeers[n], connectedPeers[n]} \ {None} :
                     peer[p].pc # "none" /\ NodeOf(p) = n
    <3>1. ASSUME NEW p \in {connectingPeers[n], connectedPeers[n]} \ {None}
          PROVE  peer[p].pc # "none" /\ NodeOf(p) = n
      <4>1. p \in PeerIDs
            BY <2>2, <3>1 DEF PeerType
      <4>2. NodeOf(p) = n /\ peer[p].pc \in ConnectingPCs \cup ConnectedPCs
            BY <2>2, <3>1, <4>1 DEF PeerInv
      <4> QED
          BY <4>2 DEF ConnectingPCs, ConnectedPCs
    <3> QED
        BY <2>2, <3>1 DEF PeerInv
  <2>3. OnePeerPerNode
        BY <2>1, <2>2 DEF OnePeerPerNode
  <2>4. RouterConsistent
        BY DEF RouterConsistent, RoutedInv, PeerType
  <2>5. NoStrayDialer
    <3>1. \A n \in Nodes : connectedPeers[n] # None => trackedIPs[n] = None
          BY DEF Apart
    <3>2. \A e \in Entries : Dialing(e) /\ e \notin stopped => trackedIPs[dialer[e].node] = e
          BY DEF DialInv
    <3>3. None \notin stopped
          BY DEF DialType
    <3>4. ASSUME NEW n \in Nodes PROVE trackedIPs[n] \notin stopped
          BY <3>3, <3>4 DEF DialInv
    <3> QED
        BY <3>1, <3>2, <3>4 DEF NoStrayDialer
  <2> QED
      BY <2>3, <2>4, <2>5 DEF PeersConsistent
<1> QED
    BY <1>1, NetInvariance, PTL
=============================================================================
