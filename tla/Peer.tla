-------------------------------- MODULE Peer --------------------------------
(***************************************************************************)
(* One connection to a remote node: utils/avalanche/network/peer/peer.go.  *)
(* Its three goroutines (readMessages, writeMessages, sendNetworkMessages) *)
(* share the handshake's state, a bounded message queue and StartClose,    *)
(* and the last of them to end tells the network. The network's Connected  *)
(* and Disconnected are taken apart where the router hears of them.        *)
(*                                                                         *)
(* The remote node may send anything; a malformed message of a kind is the *)
(* same kind with a "bad" name. The queue is a number of messages, module  *)
(* MessageQueue has the rest.                                              *)
(***************************************************************************)
EXTENDS Naturals, FiniteSets

CONSTANTS
    QueueSize,
    Nobody

VARIABLES
    pc,          \* per goroutine: what it does; "network" calls StartClose only
    stage,       \* of StartClose: 1 connection, 2 queue closed, 3 context done
    owner,       \* the goroutine that runs StartClose
    executing,   \* numExecuting
    gotHandshake,
    finished,    \* finishedHandshake
    verifiedTx,  \* txIDOfVerifiedBLSKey
    queued,      \* messages in the queue
    listAsked,   \* getPeerListChan holds a request
    validator,   \* what the validator set says of the remote node
    standing,    \* "wanted", "unwanted" by the network, or a version "too old"
    net,         \* the network's view: connecting, connected or gone
    router,      \* the router's: never, up or down
    misrouted,   \* the router was given a message of a peer it did not know
    closed       \* onClosed

connVars == <<pc, stage, owner, executing, gotHandshake, finished, verifiedTx, queued,
          listAsked, validator, standing, net, router, misrouted, closed>>

handshakeVars == <<gotHandshake, finished, verifiedTx>>
closeVars == <<stage, owner, executing, closed>>
queuedVars == <<queued, listAsked>>
outside == <<validator, standing>>
views == <<net, router, misrouted>>

Goroutines == {"reader", "writer", "sender"}

\* A validator's registration: its key may be the one the peer signs with, or
\* another. "none" is no validator, or one without a key.
Registrations == {"none", "signing key", "other key"}

Standings == {"wanted", "unwanted", "too old"}

Go(g, to) == pc' = [pc EXCEPT ![g] = to]

-----------------------------------------------------------------------------
(* StartClose: one caller does the work, the others wait for it            *)

CloseStep(g) ==
    /\ pc[g] \in {"close", "exit"}
    /\ \/ stage = 0 /\ stage' = 1 /\ owner' = g /\ UNCHANGED queued
       \/ stage = 1 /\ owner = g /\ stage' = 2 /\ queued' = 0 /\ UNCHANGED owner
       \/ stage = 2 /\ owner = g /\ stage' = 3 /\ UNCHANGED <<owner, queued>>
    /\ UNCHANGED <<pc, executing, closed, listAsked, handshakeVars, outside, views>>

\* After StartClose a handler returns to its loop and a goroutine ends.
CloseReturns(g) ==
    /\ stage = 3
    /\ \/ pc[g] = "close" /\ Go(g, IF g = "reader" THEN "read" ELSE "done")
       \/ pc[g] = "exit" /\ Go(g, "end")
    /\ UNCHANGED <<closeVars, queuedVars, handshakeVars, outside, views>>

\* The network closes the peer, at any time.
NetworkStartsClose ==
    /\ pc["network"] = "idle"
    /\ Go("network", "close")
    /\ UNCHANGED <<closeVars, queuedVars, handshakeVars, outside, views>>

\* close
End(g) ==
    /\ pc[g] = "end"
    /\ executing' = executing - 1
    /\ Go(g, IF executing' = 0 THEN "disconnect" ELSE "done")
    /\ UNCHANGED <<stage, owner, closed, queuedVars, handshakeVars, outside, views>>

\* Network.Disconnected: the router hears of a connected peer, then the peer
\* is removed from the network's sets, and onClosed is closed.
Disconnect(g) ==
    /\ pc[g] = "disconnect"
    /\ router' = IF net = "connected" THEN "down" ELSE router
    /\ Go(g, "remove")
    /\ UNCHANGED <<closeVars, queuedVars, handshakeVars, outside, net, misrouted>>

Remove(g) ==
    /\ pc[g] = "remove"
    /\ net' = "gone"
    /\ closed' = TRUE
    /\ Go(g, "done")
    /\ UNCHANGED <<stage, owner, executing, queuedVars, handshakeVars, outside, router, misrouted>>

-----------------------------------------------------------------------------
(* Sending: Push blocks while the queue is full and open                   *)

\* handleHandshake closes the peer when its reply cannot be sent; the other
\* senders do not look.
Send(g) ==
    /\ pc[g] \in {"send", "reply"}
    /\ \/ /\ stage < 2 /\ queued < QueueSize
          /\ queued' = queued + 1
          /\ Go(g, IF g = "reader" THEN "read" ELSE "select")
       \/ /\ stage >= 2
          /\ Go(g, CASE pc[g] = "reply" -> "close"
                     [] g = "reader" -> "read"
                     [] OTHER -> "select")
          /\ UNCHANGED queued
    /\ UNCHANGED <<closeVars, listAsked, handshakeVars, outside, views>>

-----------------------------------------------------------------------------
(* shouldDisconnect, for goroutine g that goes on to "pass" or "fail"      *)

MustVerify == validator # "none" /\ validator # verifiedTx

ShouldDisconnect(g, pass, fail) ==
    IF standing # "too old" /\ (MustVerify => validator = "signing key")
    THEN /\ Go(g, pass)
         /\ verifiedTx' = IF MustVerify THEN validator ELSE verifiedTx
    ELSE Go(g, fail) /\ UNCHANGED verifiedTx

-----------------------------------------------------------------------------
(* readMessages and the handlers it calls                                  *)

\* A deadline that cannot be set, a timeout, an error, a bad length.
ReadFails ==
    /\ pc["reader"] = "read"
    /\ Go("reader", "exit")
    /\ UNCHANGED <<closeVars, queuedVars, handshakeVars, outside, views>>

Reading == pc["reader"] = "read" /\ stage = 0

\* Ping, or Pong, or bytes that cannot be parsed (which are skipped).
HandlePing ==
    /\ Reading
    /\ \E good \in BOOLEAN : Go("reader", IF good THEN "send" ELSE "close")
    /\ UNCHANGED <<closeVars, queuedVars, handshakeVars, outside, views>>

\* The handshake is refused when one has been taken, and when a field is bad.
HandleHandshake ==
    /\ Reading
    /\ \E good \in BOOLEAN :
          Go("reader", IF good /\ ~gotHandshake THEN "verify" ELSE "close")
    /\ UNCHANGED <<closeVars, queuedVars, handshakeVars, outside, views>>

VerifyHandshake ==
    /\ pc["reader"] = "verify"
    /\ ShouldDisconnect("reader", "accept", "close")
    /\ UNCHANGED <<closeVars, queuedVars, gotHandshake, finished, outside, views>>

\* The peer list that answers a handshake may be impossible to build.
AcceptHandshake ==
    /\ pc["reader"] = "accept"
    /\ gotHandshake' = TRUE
    /\ \E built \in BOOLEAN : Go("reader", IF built THEN "reply" ELSE "close")
    /\ UNCHANGED <<closeVars, queuedVars, finished, verifiedTx, outside, views>>

\* Dropped before the end of the handshake. No addresses to tell, no answer.
HandleGetPeerList ==
    /\ Reading
    /\ finished
    /\ \E to \in {"send", "close"} : Go("reader", to)
    /\ UNCHANGED <<closeVars, queuedVars, handshakeVars, outside, views>>

\* The first peer list after the handshake calls Network.Connected. The
\* addresses may be malformed or rejected by Network.Track.
HandlePeerList ==
    /\ Reading
    /\ IF finished
       THEN \E good \in BOOLEAN :
                Go("reader", IF good THEN "read" ELSE "close") /\ UNCHANGED net
       ELSE gotHandshake /\ net' = "connected" /\ Go("reader", "notify")
    /\ UNCHANGED <<closeVars, queuedVars, handshakeVars, outside, router, misrouted>>

NotifyRouter ==
    /\ pc["reader"] = "notify"
    /\ router' = "up"
    /\ Go("reader", "finish")
    /\ UNCHANGED <<closeVars, queuedVars, handshakeVars, outside, net, misrouted>>

FinishHandshake ==
    /\ pc["reader"] = "finish"
    /\ finished' = TRUE
    /\ \E good \in BOOLEAN : Go("reader", IF good THEN "read" ELSE "close")
    /\ UNCHANGED <<closeVars, queuedVars, gotHandshake, verifiedTx, outside, views>>

\* A mutant: messages are routed before the handshake ends.
HandleAppEarly ==
    /\ Reading
    /\ misrouted' = (misrouted \/ router # "up")
    /\ UNCHANGED <<pc, closeVars, queuedVars, handshakeVars, outside, net, router>>

\* Any other message goes to the router, once the handshake has finished.
HandleApp ==
    /\ Reading
    /\ finished
    /\ misrouted' = (misrouted \/ router # "up")
    /\ UNCHANGED <<pc, closeVars, queuedVars, handshakeVars, outside, net, router>>

-----------------------------------------------------------------------------
(* writeMessages. A message whose write fails is only logged; the flush    *)
(* then fails.                                                             *)

\* The signed address or the handshake may be impossible to make.
WriteHandshake ==
    /\ pc["writer"] = "start"
    /\ \E made \in BOOLEAN : Go("writer", IF made THEN "now" ELSE "exit")
    /\ UNCHANGED <<closeVars, queuedVars, handshakeVars, outside, views>>

WriteNow ==
    /\ pc["writer"] = "now"
    /\ IF queued > 0
       THEN queued' = queued - 1 /\ UNCHANGED pc
       ELSE \E flushed \in IF stage = 0 THEN BOOLEAN ELSE {FALSE} :
                Go("writer", IF flushed THEN "pop" ELSE "exit") /\ UNCHANGED queued
    /\ UNCHANGED <<closeVars, listAsked, handshakeVars, outside, views>>

WritePopped ==
    /\ pc["writer"] = "pop"
    /\ \/ queued > 0 /\ queued' = queued - 1 /\ Go("writer", "now")
       \/ stage >= 2 /\ Go("writer", "exit") /\ UNCHANGED queued
    /\ UNCHANGED <<closeVars, listAsked, handshakeVars, outside, views>>

-----------------------------------------------------------------------------
(* sendNetworkMessages: one select, whose ready cases are chosen at random *)

StartSendGetPeerList ==
    /\ net = "connected"
    /\ listAsked' = TRUE
    /\ UNCHANGED <<pc, closeVars, queued, handshakeVars, outside, views>>

SendGetPeerList ==
    /\ pc["sender"] = "select"
    /\ listAsked
    /\ listAsked' = FALSE
    /\ \E built \in BOOLEAN : Go("sender", IF built THEN "send" ELSE "exit")
    /\ UNCHANGED <<closeVars, queued, handshakeVars, outside, views>>

Tick ==
    /\ pc["sender"] = "select"
    /\ IF standing # "unwanted" /\ finished
       THEN ShouldDisconnect("sender", "ping", "exit")
       ELSE Go("sender", IF standing # "unwanted" THEN "ping" ELSE "exit") /\ UNCHANGED verifiedTx
    /\ UNCHANGED <<closeVars, queuedVars, gotHandshake, finished, outside, views>>

SendPing ==
    /\ pc["sender"] = "ping"
    /\ \E built \in BOOLEAN : Go("sender", IF built THEN "send" ELSE "exit")
    /\ UNCHANGED <<closeVars, queuedVars, handshakeVars, outside, views>>

ContextDone ==
    /\ pc["sender"] = "select"
    /\ stage = 3
    /\ Go("sender", "exit")
    /\ UNCHANGED <<closeVars, queuedVars, handshakeVars, outside, views>>

-----------------------------------------------------------------------------
\* Once the peer closes the outcome no longer depends on these.
Environment ==
    /\ \/ validator' \in Registrations /\ UNCHANGED standing
       \/ standing # "too old" /\ standing' \in Standings /\ UNCHANGED validator
    /\ stage = 0
    /\ UNCHANGED <<pc, closeVars, queuedVars, handshakeVars, views>>

PeerInit ==
    /\ pc = [g \in Goroutines \cup {"network"} |->
                CASE g = "reader" -> "read" [] g = "writer" -> "start"
                  [] g = "sender" -> "select" [] g = "network" -> "idle"]
    /\ stage = 0 /\ owner = Nobody /\ executing = 3 /\ closed = FALSE
    /\ gotHandshake = FALSE /\ finished = FALSE /\ verifiedTx = Nobody
    /\ queued = 0 /\ listAsked = FALSE
    /\ validator \in Registrations /\ standing = "wanted"
    /\ net = "connecting" /\ router = "never" /\ misrouted = FALSE

Closing == \E g \in DOMAIN pc : CloseStep(g) \/ CloseReturns(g)

Ending == \E g \in Goroutines : End(g) \/ Disconnect(g) \/ Remove(g)

Handling == VerifyHandshake \/ AcceptHandshake \/ NotifyRouter \/ FinishHandshake

Writing == WriteHandshake \/ WriteNow \/ WritePopped

Ticking == Tick \/ SendPing \/ ContextDone

PeerNext ==
    \/ Closing \/ NetworkStartsClose \/ Ending
    \/ \E g \in {"reader", "sender"} : Send(g)
    \/ ReadFails \/ HandlePing \/ HandleHandshake \/ HandleGetPeerList
    \/ HandlePeerList \/ HandleApp \/ Handling
    \/ Writing
    \/ StartSendGetPeerList \/ SendGetPeerList \/ Ticking
    \/ Environment

\* What goroutine g, or the network's call of StartClose, does without waiting
\* for a choice of the others.
Proceeds(g) ==
    \/ CloseStep(g) \/ CloseReturns(g) \/ End(g) \/ Disconnect(g) \/ Remove(g)
    \/ g = "reader" /\ (Handling \/ Send(g) \/ (stage > 0 /\ ReadFails))
    \/ g = "writer" /\ Writing
    \/ g = "sender" /\ SendPing

\* A goroutine that can go on does: its reads and writes have deadlines. The
\* select of the sender picks at random, so no case is passed over for ever,
\* and a channel serves the goroutines that wait for it in turn, so a Send of
\* the sender is not overtaken for ever.
PeerFairness ==
    /\ \A g \in Goroutines \cup {"network"} : WF_connVars(Proceeds(g))
    /\ SF_connVars(Send("sender")) /\ SF_connVars(Tick) /\ SF_connVars(ContextDone)

PeerSpec == PeerInit /\ [][PeerNext]_connVars /\ PeerFairness

-----------------------------------------------------------------------------
\* "Connected" and "Disconnected" reach the router once each and in this
\* order, and a message only between them, whichever goroutine ends first.
RoutedWhileConnected ==
    /\ ~misrouted
    /\ router = "down" => closed \/ \A g \in Goroutines : pc[g] \in {"done", "remove"}
    /\ router = "up" => net = "connected"

\* When onClosed is closed nothing of the peer is left: no goroutine, no
\* message in the queue, no entry in the network, and the router was told.
ClosedIsClean ==
    closed => /\ \A g \in Goroutines : pc[g] = "done"
              /\ stage = 3 /\ executing = 0 /\ queued = 0
              /\ net = "gone" /\ router # "up"

\* The verified key and the version belong to the reader until the handshake
\* has finished and to the sender afterwards, so that they need no lock: the
\* reader never works on them once the sender may.
KeyAccessExclusive == pc["reader"] \in {"verify", "accept"} => ~finished

\* The router gets messages only between Connected and Disconnected, the reader
\* and the sender do not work on the key at the same time, and a closed peer has
\* left nothing behind.
PeerOrderly == RoutedWhileConnected /\ KeyAccessExclusive /\ ClosedIsClean

\* Once somebody has started to close the peer it becomes closed, though its
\* goroutines may be blocked on a full queue or wait for each other.
PeerCloses == stage > 0 ~> closed

\* A connected peer whose registered key is not the one it signs with is
\* closed in the end, whenever the validator set changed (unless it changes
\* again).
UnfitPeerCloses ==
    finished /\ validator = "other key" ~> closed \/ validator # "other key"
=============================================================================
