----------------------------- MODULE PeerProofs -----------------------------
(***************************************************************************)
(* Proofs about one peer and its goroutines (module Peer), for a queue of  *)
(* any size: what the router hears of the peer, who works on its key, and  *)
(* what is left when onClosed is closed.                                   *)
(*                                                                         *)
(* The three goroutines share no lock. The argument rests on two facts:    *)
(* numExecuting counts those that have not ended, so that the one that     *)
(* calls Disconnected is alone; and each place of the reader fixes what    *)
(* the handshake, the network and the router have got to.                  *)
(*                                                                         *)
(* The second part is about the queue between them (MessageQueue).         *)
(***************************************************************************)
EXTENDS Peer, MessageQueue, FiniteSetTheorems, TLAPS

\* The places where a goroutine has left its loop, and where it counts no more.
EndPCs == {"exit", "end", "disconnect", "remove", "done"}
Ended == {"disconnect", "remove", "done"}
ReaderPCs ==
    {"read", "send", "reply", "verify", "accept", "notify", "finish", "close"} \cup EndPCs
WriterPCs == {"start", "now", "pop"} \cup EndPCs
SenderPCs == {"select", "send", "ping"} \cup EndPCs
NetworkPCs == {"idle", "close", "done"}
Places == ReaderPCs \cup WriterPCs \cup SenderPCs \cup NetworkPCs

\* The types of what the proofs speak of.
PeerType ==
    /\ pc \in [Goroutines \cup {"network"} -> Places]
    /\ pc["reader"] \in ReaderPCs /\ pc["writer"] \in WriterPCs
    /\ pc["sender"] \in SenderPCs /\ pc["network"] \in NetworkPCs
    /\ stage \in 0..3 /\ queued \in Nat /\ executing \in Nat
    /\ gotHandshake \in BOOLEAN /\ finished \in BOOLEAN
    /\ misrouted \in BOOLEAN /\ closed \in BOOLEAN
    /\ net \in {"connecting", "connected", "gone"} /\ router \in {"never", "up", "down"}

\* numExecuting counts the goroutines that have not ended; the one that took it
\* to 0 is the last, and StartClose has done its work before the first ends.
Counted(g) == IF pc[g] \in Ended THEN 0 ELSE 1

CountInv ==
    /\ executing = Counted("reader") + Counted("writer") + Counted("sender")
    /\ \A g \in Goroutines : pc[g] \in {"disconnect", "remove"} =>
          \A h \in Goroutines : h # g => pc[h] = "done"
    /\ \A g \in Goroutines : pc[g] \in {"end"} \cup Ended => stage = 3
    /\ closed <=> \A g \in Goroutines : pc[g] = "done"
    /\ stage >= 2 => queued = 0

\* What the place of the reader says of the handshake.
HandshakeInv ==
    /\ finished => gotHandshake
    /\ pc["reader"] \in {"verify", "accept"} => ~gotHandshake
    /\ pc["reader"] \in {"notify", "finish"} => gotHandshake /\ ~finished

\* How far the network and the router have got.
ViewsInv ==
    /\ ~misrouted
    /\ net = "gone" <=> closed
    /\ pc["reader"] = "notify" => net = "connected" /\ router = "never"
    /\ pc["reader"] = "finish" => router = "up"
    /\ net = "connected" => router # "never" \/ pc["reader"] = "notify"
    /\ router = "up" => net = "connected"
    /\ router # "never" => finished \/ pc["reader"] = "finish"
    /\ finished => router # "never"
    /\ router = "down" => \A g \in Goroutines : pc[g] \in {"done", "remove"}
    /\ \A g \in Goroutines : pc[g] = "remove" => router # "up"

\* The inductive invariant.
PeerInv == PeerType /\ CountInv /\ HandshakeInv /\ ViewsInv

\* The router hears of the connection, then of its end, and of neither twice.
RouterInTurn ==
    [][router' # router => \/ router = "never" /\ router' = "up"
                           \/ router = "up" /\ router' = "down"]_connVars

-----------------------------------------------------------------------------
LEMMA InitPeer == PeerInit => PeerInv
<1> SUFFICES ASSUME PeerInit PROVE PeerInv
    OBVIOUS
<1>1. /\ pc \in [Goroutines \cup {"network"} -> Places]
      /\ pc["reader"] = "read" /\ pc["writer"] = "start" /\ pc["sender"] = "select"
      /\ pc["network"] = "idle"
  <2>1. PICK v : v = pc
        OBVIOUS
  <2>2. /\ v = [g \in {"reader", "writer", "sender", "network"} |-> v[g]]
        /\ v["reader"] = "read" /\ v["writer"] = "start" /\ v["sender"] = "select"
        /\ v["network"] = "idle"
        BY <2>1 DEF PeerInit, Goroutines
  <2>3. Goroutines \cup {"network"} = {"reader", "writer", "sender", "network"}
        BY DEF Goroutines
  <2>4. \A g \in Goroutines \cup {"network"} : v[g] \in Places
        BY <2>2, <2>3 DEF Places, ReaderPCs, WriterPCs, SenderPCs, NetworkPCs
  <2>5. v = [g \in Goroutines \cup {"network"} |-> v[g]]
        BY <2>2, <2>3, Zenon
  <2>6. v \in [Goroutines \cup {"network"} -> Places]
        BY <2>4, <2>5
  <2> QED
      BY <2>1, <2>2, <2>6
<1>2. PeerType
  <2>1. stage \in 0..3 /\ queued \in Nat /\ executing \in Nat
        BY DEF PeerInit
  <2>2. /\ gotHandshake \in BOOLEAN /\ finished \in BOOLEAN
        /\ misrouted \in BOOLEAN /\ closed \in BOOLEAN
        BY Zenon DEF PeerInit
  <2> QED
      BY <1>1, <2>1, <2>2 DEF PeerInit, PeerType, ReaderPCs, WriterPCs, SenderPCs, NetworkPCs
<1>3. CountInv
      BY <1>1 DEF PeerInit, CountInv, Counted, Goroutines, Ended
<1>4. HandshakeInv /\ ViewsInv
      BY <1>1 DEF PeerInit, HandshakeInv, ViewsInv, Goroutines
<1> QED
    BY <1>2, <1>3, <1>4 DEF PeerInv

\* A goroutine that stays in its loop, or leaves it, while nobody has ended: all
\* that the counting depends on is left alone.
LEMMA CountKept ==
    ASSUME PeerInv, NEW g \in Goroutines \cup {"network"}, NEW to \in Places, Go(g, to),
           pc[g] \notin {"end"} \cup Ended \/ g = "network",
           to \notin {"end"} \cup Ended \/ g = "network",
           stage' = stage, executing' = executing, closed' = closed,
           queued' \in Nat, stage >= 2 => queued' = queued
    PROVE  CountInv'
<1>1. pc'[g] = to /\ \A h \in Goroutines : h # g => pc'[h] = pc[h]
      BY DEF PeerInv, PeerType, Go
<1>2. \A h \in Goroutines : pc'[h] \in {"end"} \cup Ended \/ pc[h] \in {"end"} \cup Ended => pc'[h] = pc[h]
      BY <1>1 DEF Goroutines
<1> QED
    BY <1>1, <1>2 DEF PeerInv, CountInv, Counted, Goroutines, Ended

\* The writer, the sender and the network's call move; the reader's views stay.
LEMMA OtherMoves ==
    ASSUME PeerInv, NEW g \in {"writer", "sender", "network"}, NEW to \in Places, Go(g, to),
           pc[g] \notin {"end"} \cup Ended, to \notin {"end"} \cup Ended \/ g = "network",
           UNCHANGED <<stage, executing, closed, gotHandshake, finished, net, router, misrouted>>,
           queued' \in Nat, stage >= 2 => queued' = queued,
           PeerType'
    PROVE  PeerInv'
<1>1. CountInv'
      BY CountKept DEF Goroutines
<1>2. pc'["reader"] = pc["reader"] /\ \A h \in Goroutines : h # g => pc'[h] = pc[h]
      BY DEF Go, PeerInv, PeerType
<1>3. HandshakeInv'
      BY <1>2 DEF PeerInv, HandshakeInv
<1>4. ViewsInv'
      BY <1>2 DEF PeerInv, ViewsInv, Goroutines, PeerType, Ended, Go
<1> QED
    BY <1>1, <1>3, <1>4 DEF PeerInv

\* The reader goes on where neither the network nor the router hears of it.
LEMMA ReaderMoves ==
    ASSUME PeerInv, NEW to \in {"read", "send", "reply", "verify", "accept", "close", "exit"},
           Go("reader", to),
           pc["reader"] \notin {"end", "notify", "finish"} \cup Ended,
           to \in {"verify", "accept"} => ~gotHandshake',
           gotHandshake' \in BOOLEAN, gotHandshake => gotHandshake',
           UNCHANGED <<stage, executing, closed, finished, net, router, misrouted>>,
           queued' \in Nat, stage >= 2 => queued' = queued
    PROVE  PeerInv'
<1>1. to \in Places /\ to \notin {"end"} \cup Ended
      BY DEF Places, ReaderPCs, Ended, EndPCs
<1>2. CountInv'
      BY <1>1, CountKept DEF Goroutines
<1>3. /\ pc' \in [Goroutines \cup {"network"} -> Places]
      /\ pc'["reader"] = to
      /\ \A h \in {"writer", "sender", "network"} : pc'[h] = pc[h]
      BY <1>1 DEF Go, PeerInv, PeerType, Goroutines
<1>4. PeerType'
      BY <1>3 DEF PeerInv, PeerType, ReaderPCs, EndPCs
<1>5. HandshakeInv'
      BY <1>3 DEF PeerInv, HandshakeInv
<1>6. ViewsInv'
  <2>1. router # "down"
        BY DEF PeerInv, ViewsInv, Ended, Goroutines
  <2> QED
      BY <1>3, <2>1 DEF PeerInv, ViewsInv, Goroutines
<1> QED
    BY <1>2, <1>4, <1>5, <1>6 DEF PeerInv

\* The reader tells the network, the network the router, and the handshake ends.
LEMMA ReaderReports ==
    ASSUME PeerInv, HandlePeerList \/ NotifyRouter \/ FinishHandshake
    PROVE  PeerInv'
<1> PICK to \in {"read", "close", "notify", "finish"} : Go("reader", to)
    BY DEF HandlePeerList, NotifyRouter, FinishHandshake
<1>1. pc["reader"] \notin {"end"} \cup Ended
      BY DEF HandlePeerList, NotifyRouter, FinishHandshake, Reading, Ended
<1>2. to \in Places /\ to \notin {"end"} \cup Ended
      BY DEF Places, ReaderPCs, Ended, EndPCs
<1>3. /\ UNCHANGED <<stage, executing, closed, queued, misrouted, gotHandshake>>
      /\ queued' \in Nat
      BY DEF HandlePeerList, NotifyRouter, FinishHandshake, closeVars, queuedVars, handshakeVars,
             views, PeerInv, PeerType
<1>4. CountInv'
      BY <1>1, <1>2, <1>3, CountKept DEF Goroutines
<1>5. /\ pc' \in [Goroutines \cup {"network"} -> Places]
      /\ pc'["reader"] = to
      /\ \A h \in {"writer", "sender", "network"} : pc'[h] = pc[h]
      BY <1>2 DEF Go, PeerInv, PeerType, Goroutines
<1>6. router # "down" /\ ~closed
      BY <1>1 DEF PeerInv, CountInv, ViewsInv, Ended, Goroutines
<1>7. \A g \in Goroutines : pc[g] # "remove" /\ pc'[g] # "remove"
      BY <1>1, <1>2, <1>5 DEF PeerInv, CountInv, Goroutines, Ended
<1>8. PeerType' /\ HandshakeInv' /\ ViewsInv'
  <2>1. CASE HandlePeerList /\ finished
    <3>0. Go("reader", "read") \/ Go("reader", "close")
          BY <2>1 DEF HandlePeerList
    <3>1. to \in {"read", "close"} /\ UNCHANGED <<finished, net, router>>
          BY <1>5, <2>1, <3>0 DEF HandlePeerList, handshakeVars, Go, PeerInv, PeerType, Goroutines
    <3> QED
        BY <1>1, <1>3, <2>1, <3>1, ReaderMoves DEF PeerInv, HandlePeerList, Reading, PeerType
  <2>2. CASE HandlePeerList /\ ~finished
    <3>1. to = "notify" /\ net' = "connected" /\ UNCHANGED <<finished, router>> /\ gotHandshake
          BY <1>5, <2>2 DEF HandlePeerList, handshakeVars, Go, PeerInv, PeerType
    <3>2. router = "never"
          BY <1>6, <2>2 DEF HandlePeerList, Reading, PeerInv, ViewsInv, PeerType
    <3>3. PeerType'
          BY <1>3, <1>5, <3>1 DEF PeerInv, PeerType, ReaderPCs
    <3>4. HandshakeInv'
          BY <1>3, <1>5, <2>2, <3>1 DEF PeerInv, HandshakeInv
    <3>5. ViewsInv'
          BY <1>3, <1>5, <1>6, <1>7, <2>2, <3>1, <3>2 DEF PeerInv, ViewsInv
    <3> QED
        BY <3>3, <3>4, <3>5
  <2>3. CASE NotifyRouter
    <3>1. to = "finish" /\ router' = "up" /\ UNCHANGED <<finished, net>>
          BY <1>5, <2>3 DEF NotifyRouter, handshakeVars, Go, PeerInv, PeerType
    <3>2. net = "connected" /\ pc["reader"] = "notify"
          BY <2>3 DEF NotifyRouter, PeerInv, ViewsInv
    <3>3. PeerType'
          BY <1>3, <1>5, <3>1 DEF PeerInv, PeerType, ReaderPCs
    <3>4. HandshakeInv'
          BY <1>3, <1>5, <3>1, <3>2 DEF PeerInv, HandshakeInv
    <3>5. ViewsInv'
          BY <1>3, <1>5, <1>6, <1>7, <3>1, <3>2 DEF PeerInv, ViewsInv
    <3> QED
        BY <3>3, <3>4, <3>5
  <2>4. CASE FinishHandshake
    <3>1. to \in {"read", "close"} /\ finished' = TRUE /\ UNCHANGED <<router, net>>
          BY <1>5, <2>4 DEF FinishHandshake, views, Go, PeerInv, PeerType
    <3>2. gotHandshake /\ pc["reader"] = "finish" /\ router = "up"
          BY <2>4 DEF FinishHandshake, PeerInv, HandshakeInv, ViewsInv
    <3>3. PeerType'
          BY <1>3, <1>5, <3>1 DEF PeerInv, PeerType, ReaderPCs
    <3>4. HandshakeInv'
          BY <1>3, <1>5, <3>1, <3>2 DEF PeerInv, HandshakeInv
    <3>5. ViewsInv'
          BY <1>3, <1>5, <1>6, <1>7, <3>1, <3>2 DEF PeerInv, ViewsInv
    <3> QED
        BY <3>3, <3>4, <3>5
  <2> QED
      BY <2>1, <2>2, <2>3, <2>4
<1> QED
    BY <1>4, <1>8 DEF PeerInv

\* StartClose goes on: the queue is emptied before its stage is seen.
LEMMA CloseSteps ==
    ASSUME PeerInv, NEW g \in DOMAIN pc, CloseStep(g)
    PROVE  PeerInv'
<1>1. /\ UNCHANGED <<pc, executing, closed, gotHandshake, finished, net, router, misrouted>>
      /\ stage \in 0..2 /\ stage' = stage + 1
      /\ queued' = IF stage = 1 THEN 0 ELSE queued
      BY DEF CloseStep, handshakeVars, views
<1>2. PeerType'
      BY <1>1 DEF PeerInv, PeerType
<1>3. CountInv'
      BY <1>1 DEF PeerInv, PeerType, CountInv, Counted
<1>4. HandshakeInv' /\ ViewsInv'
      BY <1>1 DEF PeerInv, HandshakeInv, ViewsInv
<1> QED
    BY <1>2, <1>3, <1>4 DEF PeerInv

\* A goroutine that ends: after StartClose it leaves, and the last one reports.
LEMMA EndSteps ==
    ASSUME PeerInv, NEW g \in Goroutines,
           \/ pc[g] = "exit" /\ stage = 3 /\ Go(g, "end")
              /\ UNCHANGED <<closeVars, queuedVars, handshakeVars, views>>
           \/ End(g) \/ Disconnect(g) \/ Remove(g)
    PROVE  PeerInv'
<1>0. /\ UNCHANGED <<stage, queued, gotHandshake, finished, misrouted>>
      /\ stage = 3 /\ pc[g] \in {"exit", "end", "disconnect", "remove"} /\ ~closed
      BY DEF End, Disconnect, Remove, closeVars, queuedVars, handshakeVars, views, PeerInv,
             CountInv, Ended
<1> PICK to \in {"end", "disconnect", "remove", "done"} : Go(g, to)
    BY DEF End, Disconnect, Remove
<1>1. /\ to \in Places /\ to \in EndPCs
      BY DEF Places, ReaderPCs, EndPCs
<1>2. /\ pc' \in [Goroutines \cup {"network"} -> Places]
      /\ pc'[g] = to
      /\ \A h \in (Goroutines \cup {"network"}) \ {g} : pc'[h] = pc[h]
      BY <1>1 DEF Go, PeerInv, PeerType
<1>3. /\ pc'["reader"] \in ReaderPCs /\ pc'["writer"] \in WriterPCs
      /\ pc'["sender"] \in SenderPCs /\ pc'["network"] \in NetworkPCs
      BY <1>1, <1>2 DEF PeerInv, PeerType, ReaderPCs, WriterPCs, SenderPCs, Goroutines
<1>4. HandshakeInv'
      BY <1>0, <1>2 DEF PeerInv, HandshakeInv, Goroutines
<1>5. CASE pc[g] = "exit"
  <2>1. to = "end" /\ UNCHANGED <<executing, closed, net, router>>
        BY <1>2, <1>5 DEF End, Disconnect, Remove, Go, closeVars, views, PeerInv, PeerType
  <2>2. PeerType'
        BY <1>0, <1>2, <1>3, <2>1 DEF PeerInv, PeerType
  <2>3. CountInv'
        BY <1>0, <1>2, <1>5, <2>1 DEF PeerInv, CountInv, Counted, Goroutines, Ended
  <2>4. ViewsInv'
        BY <1>0, <1>2, <1>5, <2>1 DEF PeerInv, ViewsInv, Goroutines
  <2> QED
      BY <1>4, <2>2, <2>3, <2>4 DEF PeerInv
<1>6. CASE End(g)
  <2>1. /\ executing' = executing - 1 /\ pc[g] = "end"
        /\ to = IF executing' = 0 THEN "disconnect" ELSE "done"
        /\ UNCHANGED <<closed, net, router>>
        BY <1>2, <1>6 DEF End, Go, views, PeerInv, PeerType
  <2>2. executing' = Counted("reader")' + Counted("writer")' + Counted("sender")' /\ executing' \in Nat
        BY <1>2, <2>1 DEF PeerInv, PeerType, CountInv, Counted, Goroutines, Ended
  <2>3. executing' = 0 => \A h \in Goroutines \ {g} : pc[h] \in Ended
        BY <1>2, <2>2 DEF Counted, Goroutines
  <2>4. \A h \in Goroutines : pc[h] \notin {"disconnect", "remove"}
        BY <2>1 DEF PeerInv, CountInv, Goroutines
  <2>5. executing' = 0 => \A h \in Goroutines \ {g} : pc[h] = "done"
        BY <2>3, <2>4 DEF Ended
  <2>6. executing' # 0 => \E h \in Goroutines \ {g} : pc[h] # "done"
    <3>1. ASSUME \A h \in Goroutines \ {g} : pc[h] = "done"
          PROVE  \A h \in Goroutines : pc'[h] \in Ended
          BY <1>2, <2>1, <3>1 DEF Ended
    <3>2. (\A h \in Goroutines : pc'[h] \in Ended) => executing' = 0
          BY <2>2 DEF Counted, Goroutines
    <3> QED
        BY <3>1, <3>2
  <2>7. PeerType'
        BY <1>0, <1>2, <1>3, <2>1, <2>2 DEF PeerInv, PeerType
  <2>8. CountInv'
    <3>1. closed' <=> \A h \in Goroutines : pc'[h] = "done"
          BY <1>0, <1>2, <2>1, <2>6
    <3>2. \A h \in Goroutines : pc'[h] \in {"disconnect", "remove"} =>
             \A k \in Goroutines : k # h => pc'[k] = "done"
          BY <1>2, <2>1, <2>4, <2>5
    <3> QED
        BY <1>0, <2>2, <3>1, <3>2 DEF PeerInv, CountInv
  <2>9. ViewsInv'
        BY <1>0, <1>2, <2>1 DEF PeerInv, ViewsInv, Goroutines
  <2> QED
      BY <1>4, <2>7, <2>8, <2>9 DEF PeerInv
<1>7. CASE Disconnect(g)
  <2>1. /\ to = "remove" /\ pc[g] = "disconnect"
        /\ router' = IF net = "connected" THEN "down" ELSE router
        /\ UNCHANGED <<closed, net, executing>>
        BY <1>2, <1>7 DEF Disconnect, Go, closeVars, PeerInv, PeerType
  <2>2. \A h \in Goroutines \ {g} : pc[h] = "done" /\ pc'[h] = "done"
        BY <1>2, <2>1 DEF PeerInv, CountInv
  <2>3. PeerType'
        BY <1>0, <1>2, <1>3, <2>1 DEF PeerInv, PeerType
  <2>4. CountInv'
        BY <1>0, <1>2, <2>1, <2>2 DEF PeerInv, CountInv, Counted, Goroutines, Ended
  <2>5. ViewsInv'
        BY <1>0, <1>2, <2>1, <2>2 DEF PeerInv, ViewsInv, Goroutines
  <2> QED
      BY <1>4, <2>3, <2>4, <2>5 DEF PeerInv
<1>8. CASE Remove(g)
  <2>1. /\ to = "done" /\ pc[g] = "remove"
        /\ net' = "gone" /\ closed' = TRUE
        /\ UNCHANGED <<router, executing>>
        BY <1>2, <1>8 DEF Remove, Go, PeerInv, PeerType
  <2>2. \A h \in Goroutines : pc'[h] = "done"
        BY <1>2, <2>1 DEF PeerInv, CountInv
  <2>3. PeerType'
        BY <1>0, <1>2, <1>3, <2>1 DEF PeerInv, PeerType
  <2>4. CountInv'
        BY <1>0, <1>2, <2>1, <2>2 DEF PeerInv, CountInv, Counted, Goroutines, Ended
  <2>5. ViewsInv'
        BY <1>0, <1>2, <2>1, <2>2 DEF PeerInv, ViewsInv, Goroutines
  <2> QED
      BY <1>4, <2>3, <2>4, <2>5 DEF PeerInv
<1> QED
    BY <1>5, <1>6, <1>7, <1>8

-----------------------------------------------------------------------------
\* Every step keeps the invariant.
LEMMA NextPeer == PeerInv /\ [PeerNext]_connVars => PeerInv'
<1> SUFFICES ASSUME PeerInv, [PeerNext]_connVars PROVE PeerInv'
    OBVIOUS
<1> USE DEF closeVars, queuedVars, handshakeVars, views, outside
<1>0. PeerType /\ queued \in Nat
      BY DEF PeerInv, PeerType
<1>1. CASE UNCHANGED <<pc, stage, executing, closed, queued, gotHandshake, finished,
                       net, router, misrouted>>
      BY <1>1 DEF PeerInv, PeerType, CountInv, Counted, HandshakeInv, ViewsInv
<1>2. CASE Closing
  <2>1. PICK g \in DOMAIN pc : CloseStep(g) \/ CloseReturns(g)
        BY <1>2 DEF Closing
  <2>2. g \in Goroutines \cup {"network"}
        BY <1>0 DEF PeerType
  <2>3. CASE CloseStep(g)
        BY <2>1, <2>3, CloseSteps
  <2>4. CASE CloseReturns(g) /\ pc[g] = "exit"
    <3>1. g \in Goroutines
          BY <1>0, <2>2, <2>4 DEF PeerType, NetworkPCs
    <3> QED
        BY <2>4, <3>1, EndSteps DEF CloseReturns
  <2>5. CASE CloseReturns(g) /\ pc[g] = "close"
    <3>1. g \in {"reader", "network"}
          BY <1>0, <2>2, <2>5 DEF PeerType, WriterPCs, SenderPCs, EndPCs, Goroutines
    <3>2. CASE g = "reader"
          BY <1>0, <2>5, <3>2, ReaderMoves DEF CloseReturns, PeerType, Ended
    <3>3. CASE g = "network"
      <4>1. /\ Go("network", "done") /\ "done" \in Places /\ "done" \in NetworkPCs
            /\ pc["network"] \notin {"end"} \cup Ended
            BY <2>5, <3>3 DEF CloseReturns, Places, NetworkPCs, Ended
      <4>2. PeerType'
            BY <1>0, <2>5, <4>1 DEF CloseReturns, PeerType, Go, Goroutines
      <4> QED
          BY <1>0, <2>5, <4>1, <4>2, OtherMoves DEF CloseReturns
    <3> QED
        BY <3>1, <3>2, <3>3
  <2> QED
      BY <2>1, <2>3, <2>4, <2>5 DEF CloseReturns
<1>3. CASE Ending
      BY <1>3, EndSteps DEF Ending
<1>4. ASSUME NEW g \in {"writer", "sender"},
             NEW to \in (IF g = "writer" THEN {"now", "pop", "exit"} ELSE {"select", "send", "ping", "exit"}),
             Go(g, to), pc[g] \notin {"end"} \cup Ended,
             UNCHANGED <<closeVars, gotHandshake, finished, views>>,
             queued' \in Nat, stage >= 2 => queued' = queued
      PROVE  PeerInv'
  <2>1. /\ to \in Places /\ to \notin {"end"} \cup Ended
        /\ g = "writer" => to \in WriterPCs
        /\ g = "sender" => to \in SenderPCs
        BY <1>4 DEF Places, WriterPCs, SenderPCs, Ended, EndPCs
  <2>2. /\ pc' \in [Goroutines \cup {"network"} -> Places]
        /\ pc'[g] = to
        /\ \A h \in (Goroutines \cup {"network"}) \ {g} : pc'[h] = pc[h]
    <3>1. g \in Goroutines \cup {"network"}
          BY <1>4 DEF Goroutines
    <3> QED
        BY <1>0, <1>4, <2>1, <3>1 DEF Go, PeerType
  <2>3. PeerType'
        BY <1>0, <1>4, <2>1, <2>2 DEF PeerType, Goroutines
  <2> QED
      BY <1>4, <2>1, <2>3, OtherMoves
<1>5. CASE NetworkStartsClose
  <2>1. /\ Go("network", "close") /\ "close" \in Places /\ "close" \in NetworkPCs
        /\ pc["network"] \notin {"end"} \cup Ended
        BY <1>5 DEF NetworkStartsClose, Places, NetworkPCs, Ended
  <2>2. PeerType'
        BY <1>0, <1>5, <2>1 DEF NetworkStartsClose, PeerType, Go, Goroutines
  <2> QED
      BY <1>0, <1>5, <2>1, <2>2, OtherMoves DEF NetworkStartsClose
<1>6. CASE Send("reader")
  <2>1. PICK to \in {"read", "close"} : Go("reader", to)
        BY <1>6 DEF Send
  <2>2. queued' \in Nat /\ (stage >= 2 => queued' = queued)
        BY <1>0, <1>6 DEF Send, PeerType
  <2> QED
      BY <1>0, <1>6, <2>1, <2>2, ReaderMoves DEF Send, Ended, PeerType
<1>7. CASE Send("sender")
  <2>1. Go("sender", "select") /\ pc["sender"] = "send"
        BY <1>0, <1>7 DEF Send, PeerType, SenderPCs, EndPCs
  <2>2. queued' \in Nat /\ (stage >= 2 => queued' = queued)
        BY <1>0, <1>7 DEF Send, PeerType
  <2> QED
      BY <1>4, <1>7, <2>1, <2>2 DEF Send, Ended
<1>8. CASE ReadFails \/ HandlePing \/ HandleGetPeerList
  <2>1. PICK to \in {"exit", "send", "close"} : Go("reader", to)
        BY <1>8 DEF ReadFails, HandlePing, HandleGetPeerList
  <2> QED
      BY <1>0, <1>8, <2>1, ReaderMoves
      DEF ReadFails, HandlePing, HandleGetPeerList, Reading, Ended, PeerType
<1>9. CASE HandleHandshake
  <2>1. PICK to \in {"verify", "close"} : Go("reader", to) /\ (to = "verify" => ~gotHandshake)
        BY <1>9 DEF HandleHandshake
  <2> QED
      BY <1>0, <1>9, <2>1, ReaderMoves DEF HandleHandshake, Reading, Ended, PeerType
<1>10. CASE VerifyHandshake
  <2>1. PICK to \in {"accept", "close"} : Go("reader", to)
        BY <1>10 DEF VerifyHandshake, ShouldDisconnect
  <2>2. ~gotHandshake
        BY <1>10 DEF VerifyHandshake, PeerInv, HandshakeInv
  <2> QED
      BY <1>0, <1>10, <2>1, <2>2, ReaderMoves DEF VerifyHandshake, Ended, PeerType
<1>11. CASE AcceptHandshake
  <2>1. PICK to \in {"reply", "close"} : Go("reader", to)
        BY <1>11 DEF AcceptHandshake
  <2> QED
      BY <1>0, <1>11, <2>1, ReaderMoves DEF AcceptHandshake, Ended
<1>12. CASE HandlePeerList \/ NotifyRouter \/ FinishHandshake
      BY <1>12, ReaderReports
<1>13. CASE HandleApp
  <2>1. router = "up"
        BY <1>13 DEF HandleApp, Reading, PeerInv, PeerType, ViewsInv, Goroutines
  <2>2. ~misrouted'
        BY <1>13, <2>1 DEF HandleApp, PeerInv, ViewsInv
  <2> QED
      BY <1>1, <1>13, <2>2 DEF HandleApp, PeerInv, ViewsInv, PeerType
<1>14. CASE WriteHandshake
  <2>1. Go("writer", "now") \/ Go("writer", "exit")
        BY <1>14 DEF WriteHandshake
  <2> QED
      BY <1>0, <1>4, <1>14, <2>1 DEF WriteHandshake, Ended
<1>15. CASE WriteNow
  <2>1. CASE queued > 0
    <3>1. UNCHANGED pc /\ queued' = queued - 1 /\ queued' \in Nat /\ ~(stage >= 2)
          BY <1>0, <1>15, <2>1 DEF WriteNow, PeerInv, CountInv
    <3> QED
        BY <1>15, <3>1
        DEF WriteNow, PeerInv, PeerType, CountInv, Counted, HandshakeInv, ViewsInv
  <2>2. CASE ~(queued > 0)
    <3>1. (Go("writer", "pop") \/ Go("writer", "exit")) /\ UNCHANGED queued
          BY <1>15, <2>2 DEF WriteNow
    <3> QED
        BY <1>0, <1>4, <1>15, <3>1 DEF WriteNow, Ended
  <2> QED
      BY <2>1, <2>2
<1>16. CASE WritePopped
  <2>1. Go("writer", "now") \/ Go("writer", "exit")
        BY <1>16 DEF WritePopped
  <2>2. queued' \in Nat /\ (stage >= 2 => queued' = queued)
        BY <1>0, <1>16 DEF WritePopped, PeerInv, CountInv
  <2> QED
      BY <1>4, <1>16, <2>1, <2>2 DEF WritePopped, Ended
<1>17. CASE SendGetPeerList
  <2>1. Go("sender", "send") \/ Go("sender", "exit")
        BY <1>17 DEF SendGetPeerList
  <2> QED
      BY <1>0, <1>4, <1>17, <2>1 DEF SendGetPeerList, Ended
<1>18. CASE Tick
  <2>1. Go("sender", "ping") \/ Go("sender", "exit")
        BY <1>18 DEF Tick, ShouldDisconnect
  <2> QED
      BY <1>0, <1>4, <1>18, <2>1 DEF Tick, Ended
<1>19. CASE SendPing
  <2>1. Go("sender", "send") \/ Go("sender", "exit")
        BY <1>19 DEF SendPing
  <2> QED
      BY <1>0, <1>4, <1>19, <2>1 DEF SendPing, Ended
<1>20. CASE ContextDone
      BY <1>0, <1>4, <1>20 DEF ContextDone, Ended
<1>21. CASE StartSendGetPeerList \/ Environment \/ UNCHANGED connVars
      BY <1>1, <1>21 DEF StartSendGetPeerList, Environment, connVars
<1> QED
    BY <1>2, <1>3, <1>5, <1>6, <1>7, <1>8, <1>9, <1>10, <1>11, <1>12, <1>13, <1>14, <1>15,
       <1>16, <1>17, <1>18, <1>19, <1>20, <1>21
    DEF PeerNext, Handling, Writing, Ticking

\* numExecuting, StartClose and the handshake of one peer: the invariant.
THEOREM PeerInvariance == PeerSpec => []PeerInv
BY InitPeer, NextPeer, PTL DEF PeerSpec

\* What the invariant says of the router, of a closed peer and of the key.
LEMMA PeerInOrder == PeerInv => RoutedWhileConnected /\ ClosedIsClean /\ KeyAccessExclusive
<1> SUFFICES ASSUME PeerInv
             PROVE  RoutedWhileConnected /\ ClosedIsClean /\ KeyAccessExclusive
    OBVIOUS
<1>1. RoutedWhileConnected
      BY DEF PeerInv, ViewsInv, RoutedWhileConnected
<1>2. ASSUME closed PROVE ClosedIsClean
  <2>1. \A g \in Goroutines : pc[g] = "done"
        BY <1>2 DEF PeerInv, CountInv
  <2>2. stage = 3 /\ executing = 0 /\ queued = 0
        BY <2>1 DEF PeerInv, CountInv, Counted, Goroutines, Ended
  <2>3. net = "gone" /\ router # "up"
        BY <1>2 DEF PeerInv, ViewsInv
  <2> QED
      BY <2>1, <2>2, <2>3 DEF ClosedIsClean
<1>3. KeyAccessExclusive
      BY DEF PeerInv, HandshakeInv, KeyAccessExclusive
<1> QED
    BY <1>1, <1>2, <1>3 DEF ClosedIsClean

\* handle: the router gets messages of a peer only after Connected and before
\* Disconnected, whichever of the three goroutines fails first.
THEOREM RoutedOnlyWhileConnected == PeerSpec => []RoutedWhileConnected
BY PeerInvariance, PeerInOrder, PTL

\* close: when onClosed is closed all three goroutines have ended, the queue is
\* empty and the network and the router know nothing of the peer any more.
THEOREM ClosedAlwaysClean == PeerSpec => []ClosedIsClean
BY PeerInvariance, PeerInOrder, PTL

\* shouldDisconnect: txIDOfVerifiedBLSKey needs no lock, the reader has finished
\* with it when the sender begins.
THEOREM KeyAlwaysExclusive == PeerSpec => []KeyAccessExclusive
BY PeerInvariance, PeerInOrder, PTL

\* The peer's goroutines, in whichever order: all three at once.
THEOREM PeerAlwaysOrderly == PeerSpec => []PeerOrderly
<1>1. PeerInv => PeerOrderly
      BY PeerInOrder DEF PeerOrderly
<1> QED
    BY <1>1, PeerInvariance, PTL

\* handlePeerList and close: Connected is reported once, Disconnected once after
\* it, and never for a peer whose connection was not reported.
THEOREM RouterAlwaysInTurn == PeerSpec => RouterInTurn
<1> DEFINE InTurn == router' # router => \/ router = "never" /\ router' = "up"
                                         \/ router = "up" /\ router' = "down"
<1>1. PeerInv /\ [PeerNext]_connVars => [InTurn]_connVars
  <2> SUFFICES ASSUME PeerInv, PeerNext, router' # router PROVE InTurn
      BY DEF connVars
  <2>1. NotifyRouter \/ \E g \in Goroutines : Disconnect(g)
        BY DEF PeerNext, Closing, Ending, Handling, Writing, Ticking, views, CloseStep, CloseReturns,
               NetworkStartsClose, End, Remove, Send, ReadFails, HandlePing, HandleHandshake,
               VerifyHandshake, AcceptHandshake, HandleGetPeerList, HandlePeerList,
               FinishHandshake, HandleApp, WriteHandshake, WriteNow, WritePopped,
               StartSendGetPeerList, SendGetPeerList, Tick, SendPing, ContextDone, Environment
  <2>2. CASE NotifyRouter
        BY <2>2 DEF NotifyRouter, PeerInv, ViewsInv
  <2>3. ASSUME NEW g \in Goroutines, Disconnect(g) PROVE InTurn
    <3>1. pc[g] = "disconnect" /\ net = "connected" /\ router' = "down"
          BY <2>3 DEF Disconnect
    <3>2. router # "never"
          BY <2>3, <3>1 DEF PeerInv, CountInv, ViewsInv, Goroutines
    <3> QED
        BY <2>3, <3>1, <3>2 DEF PeerInv, PeerType
  <2> QED
      BY <2>1, <2>2, <2>3
<1>2. [][InTurn]_connVars => RouterInTurn
      BY DEF RouterInTurn
<1> HIDE DEF InTurn
<1> QED
    BY <1>1, <1>2, PeerInvariance, PTL DEF PeerSpec

-----------------------------------------------------------------------------
(* MessageQueue, for any messages, any number of goroutines that push them *)
(* and any size of the buffer: no message is lost and none is handled      *)
(* twice, though Push, Pop and Close run at the same time.                 *)
(*                                                                         *)
(* The heart is the order in Close: it closes the channel, then waits for  *)
(* the lock that every Push holds from its first select to its end. Hence  *)
(* no Push is past its first select while Close drains, and a later one    *)
(* sees the closed channel there.                                          *)

PushPCs == {"idle", "locked", "checked", "sent", "dropped"}
CloserPCs == {"open", "closing", "waiting", "draining", "closed"}

\* The types of the variables.
QueueTypeOK ==
    /\ queue \in Seq(Messages)
    /\ push \in [Messages -> PushPCs]
    /\ failed \in [Messages -> Nat]
    /\ popped \subseteq Messages
    /\ queueCloser \in CloserPCs

Waiting(m) == \E i \in 1 .. Len(queue) : queue[i] = m

\* Where a message is: in the queue once, with the writer, or reported.
Placed(m) ==
    /\ Waiting(m) => push[m] = "sent" /\ m \notin popped /\ failed[m] = 0
    /\ m \in popped => push[m] = "sent" /\ failed[m] = 0
    /\ push[m] = "sent" => Waiting(m) \/ m \in popped \/ failed[m] = 1
    /\ push[m] = "dropped" => failed[m] = 1
    /\ push[m] \notin {"sent", "dropped"} => failed[m] = 0
    /\ failed[m] \in {0, 1}

Distinct == \A i, j \in 1 .. Len(queue) : queue[i] = queue[j] => i = j

\* No Push is past its first select once Close holds the lock.
Barred ==
    /\ queueCloser \in {"draining", "closed"} => \A m \in Messages : push[m] # "checked"
    /\ queueCloser = "closed" => queue = <<>>

\* The inductive invariant.
QueueInv == QueueTypeOK /\ Distinct /\ Barred /\ \A m \in Messages : Placed(m)

-----------------------------------------------------------------------------
LEMMA InitQueue == QueueInit => QueueInv
BY DEF QueueInit, QueueInv, QueueTypeOK, Distinct, Barred, Placed, Waiting, PushPCs, CloserPCs

\* The head of the queue leaves it; nothing else does.
LEMMA HeadLeaves ==
    ASSUME QueueTypeOK, Distinct, queue # <<>>, queue' = Tail(queue), NEW h, h = Head(queue)
    PROVE  /\ queue' \in Seq(Messages) /\ h \in Messages
           /\ Distinct'
           /\ Waiting(h) /\ ~Waiting(h)'
           /\ \A m \in Messages : m # h => (Waiting(m)' <=> Waiting(m))
<1>1. /\ Len(queue) \in Nat \ {0} /\ h = queue[1]
      /\ Len(queue') = Len(queue) - 1
      /\ \A i \in 1 .. Len(queue') : queue'[i] = queue[i + 1]
      /\ queue' \in Seq(Messages) /\ h \in Messages
      BY DEF QueueTypeOK
<1>2. Distinct'
  <2> SUFFICES ASSUME NEW i \in 1 .. Len(queue'), NEW j \in 1 .. Len(queue'), queue'[i] = queue'[j]
               PROVE  i = j
      BY DEF Distinct
  <2>1. i + 1 \in 1 .. Len(queue) /\ j + 1 \in 1 .. Len(queue) /\ queue[i + 1] = queue[j + 1]
        BY <1>1
  <2>2. i + 1 = j + 1
        BY <2>1 DEF Distinct
  <2> QED
      BY <2>2
<1>3. Waiting(h)
      BY <1>1 DEF Waiting
<1>4. ~Waiting(h)'
  <2> SUFFICES ASSUME NEW i \in 1 .. Len(queue'), queue'[i] = h
               PROVE  FALSE
      BY DEF Waiting
  <2>1. i + 1 \in 1 .. Len(queue) /\ queue[i + 1] = queue[1] /\ 1 \in 1 .. Len(queue)
        BY <1>1
  <2> QED
      BY <1>1, <2>1 DEF Distinct
<1>5. ASSUME NEW m \in Messages, m # h
      PROVE  Waiting(m)' <=> Waiting(m)
  <2>1. ASSUME Waiting(m)' PROVE Waiting(m)
        BY <1>1, <2>1 DEF Waiting
  <2>2. ASSUME Waiting(m) PROVE Waiting(m)'
    <3>1. PICK i \in 1 .. Len(queue) : queue[i] = m
          BY <2>2 DEF Waiting
    <3>2. i - 1 \in 1 .. Len(queue') /\ queue'[i - 1] = m
          BY <1>1, <1>5, <3>1
    <3> QED
        BY <3>2 DEF Waiting
  <2> QED
      BY <2>1, <2>2
<1> QED
    BY <1>1, <1>2, <1>3, <1>4, <1>5

\* A message that is new to the queue joins it at the end.
LEMMA TailJoins ==
    ASSUME QueueTypeOK, Distinct, NEW m \in Messages, ~Waiting(m), queue' = Append(queue, m)
    PROVE  /\ queue' \in Seq(Messages) /\ Distinct' /\ Waiting(m)'
           /\ \A k \in Messages : k # m => (Waiting(k)' <=> Waiting(k))
<1>1. /\ Len(queue) \in Nat /\ Len(queue') = Len(queue) + 1
      /\ \A i \in 1 .. Len(queue) : queue'[i] = queue[i]
      /\ queue'[Len(queue) + 1] = m
      /\ queue' \in Seq(Messages)
      BY DEF QueueTypeOK
<1>2. Distinct'
  <2> SUFFICES ASSUME NEW i \in 1 .. Len(queue'), NEW j \in 1 .. Len(queue'), queue'[i] = queue'[j]
               PROVE  i = j
      BY DEF Distinct
  <2>1. CASE i \in 1 .. Len(queue) /\ j \in 1 .. Len(queue)
        BY <1>1, <2>1 DEF Distinct
  <2>2. CASE i = Len(queue) + 1 /\ j \in 1 .. Len(queue)
        BY <1>1, <2>2 DEF Waiting
  <2>3. CASE j = Len(queue) + 1 /\ i \in 1 .. Len(queue)
        BY <1>1, <2>3 DEF Waiting
  <2> QED
      BY <1>1, <2>1, <2>2, <2>3
<1>3. Waiting(m)'
      BY <1>1 DEF Waiting
<1>4. ASSUME NEW k \in Messages, k # m
      PROVE  Waiting(k)' <=> Waiting(k)
  <2>1. ASSUME Waiting(k) PROVE Waiting(k)'
        BY <1>1, <2>1 DEF Waiting
  <2>2. ASSUME Waiting(k)' PROVE Waiting(k)
        BY <1>1, <1>4, <2>2 DEF Waiting
  <2> QED
      BY <2>1, <2>2
<1> QED
    BY <1>1, <1>2, <1>3, <1>4

\* The queue is left alone, and with it who waits in it.
LEMMA QueueSame ==
    ASSUME QueueTypeOK, Distinct, UNCHANGED queue
    PROVE  queue' \in Seq(Messages) /\ Distinct' /\ \A m \in Messages : Waiting(m)' <=> Waiting(m)
BY DEF QueueTypeOK, Distinct, Waiting

-----------------------------------------------------------------------------
\* Push of one message, in its steps.
LEMMA PushSteps ==
    ASSUME QueueInv, NEW m \in Messages, PushLock(m) \/ PushStep(m)
    PROVE  QueueInv'
<1> USE DEF QueueInv, QueueTypeOK
<1>0. UNCHANGED <<queueCloser, popped>> /\ push[m] \in {"idle", "locked", "checked"}
      BY DEF PushLock, PushStep, PushCheck, PushSend, PushGiveUp
<1> PICK to \in {"locked", "checked", "sent", "dropped"} : push' = [push EXCEPT ![m] = to]
    BY DEF PushLock, PushStep, PushCheck, PushSend, PushGiveUp, Drop
<1>1. /\ push' \in [Messages -> PushPCs] /\ push'[m] = to
      /\ \A k \in Messages \ {m} : push'[k] = push[k]
      BY DEF PushPCs
<1>2. failed[m] = 0 /\ ~Waiting(m) /\ m \notin popped
      BY <1>0 DEF Placed
<1>3. ASSUME to # "sent", UNCHANGED queue,
             to = "dropped" => failed' = [failed EXCEPT ![m] = failed[m] + 1],
             to # "dropped" => UNCHANGED failed,
             to = "checked" => queueCloser \notin {"draining", "closed"}
      PROVE  QueueInv'
  <2>1. /\ failed' \in [Messages -> Nat] /\ failed'[m] = IF to = "dropped" THEN 1 ELSE 0
        /\ \A k \in Messages \ {m} : failed'[k] = failed[k]
        BY <1>2, <1>3
  <2>2. queue' \in Seq(Messages) /\ Distinct' /\ \A k \in Messages : Waiting(k)' <=> Waiting(k)
        BY <1>3, QueueSame
  <2>3. QueueTypeOK'
        BY <1>0, <1>1, <2>1, <2>2
  <2>4. Barred'
        BY <1>0, <1>1, <1>3 DEF Barred
  <2>5. Placed(m)'
        BY <1>0, <1>1, <1>2, <1>3, <2>1, <2>2 DEF Placed
  <2>6. ASSUME NEW k \in Messages \ {m} PROVE Placed(k)'
        BY <1>0, <1>1, <2>1, <2>2, <2>6 DEF Placed
  <2> QED
      BY <2>2, <2>3, <2>4, <2>5, <2>6
<1>4. CASE PushLock(m)
  <2>1. to = "locked"
        BY <1>1, <1>4 DEF PushLock
  <2> QED
      BY <1>3, <1>4, <2>1 DEF PushLock
<1>5. CASE PushCheck(m)
  <2>1. CASE QueueClosing \/ m \in expired
    <3>1. to = "dropped"
          BY <1>1, <1>5, <2>1 DEF PushCheck, Drop
    <3> QED
        BY <1>3, <1>5, <2>1, <3>1 DEF PushCheck, Drop
  <2>2. CASE ~(QueueClosing \/ m \in expired)
    <3>1. to = "checked"
          BY <1>1, <1>5, <2>2 DEF PushCheck
    <3> QED
        BY <1>3, <1>5, <2>2, <3>1 DEF PushCheck, QueueClosing
  <2> QED
      BY <2>1, <2>2
<1>6. CASE PushGiveUp(m)
  <2>1. to = "dropped"
        BY <1>1, <1>6 DEF PushGiveUp, Drop
  <2> QED
      BY <1>3, <1>6, <2>1 DEF PushGiveUp, Drop
<1>7. CASE PushSend(m)
  <2>1. to = "sent" /\ queue' = Append(queue, m) /\ UNCHANGED failed /\ push[m] = "checked"
        BY <1>1, <1>7 DEF PushSend
  <2>2. /\ queue' \in Seq(Messages) /\ Distinct' /\ Waiting(m)'
        /\ \A k \in Messages : k # m => (Waiting(k)' <=> Waiting(k))
        BY <1>2, <2>1, TailJoins
  <2>3. QueueTypeOK'
        BY <1>0, <1>1, <2>1, <2>2
  <2>4. Barred'
        BY <1>0, <1>1, <2>1 DEF Barred
  <2>5. Placed(m)'
        BY <1>0, <1>1, <1>2, <2>1, <2>2 DEF Placed
  <2>6. ASSUME NEW k \in Messages \ {m} PROVE Placed(k)'
        BY <1>0, <1>1, <2>1, <2>2, <2>6 DEF Placed
  <2> QED
      BY <2>2, <2>3, <2>4, <2>5, <2>6
<1> QED
    BY <1>4, <1>5, <1>6, <1>7 DEF PushStep

\* The head goes to the writer, or is reported by Close: one of the two.
LEMMA HeadMoves ==
    ASSUME QueueInv, queue # <<>>, queue' = Tail(queue), UNCHANGED <<push, queueCloser>>,
           \/ popped' = popped \cup {Head(queue)} /\ UNCHANGED failed
           \/ failed' = [failed EXCEPT ![Head(queue)] = @ + 1] /\ UNCHANGED popped
    PROVE  QueueInv'
<1> USE DEF QueueInv, QueueTypeOK
<1>0. PICK h : h = Head(queue)
      OBVIOUS
<1>1. /\ queue' \in Seq(Messages) /\ h \in Messages
      /\ Distinct'
      /\ Waiting(h) /\ ~Waiting(h)'
      /\ \A m \in Messages : m # h => (Waiting(m)' <=> Waiting(m))
      BY <1>0, HeadLeaves
<1>2. push[h] = "sent" /\ h \notin popped /\ failed[h] = 0
      BY <1>1 DEF Placed
<1>3. /\ popped' \subseteq Messages /\ failed' \in [Messages -> Nat]
      /\ \/ h \in popped' /\ failed'[h] = 0
         \/ h \notin popped' /\ failed'[h] = 1
      /\ \A m \in Messages \ {h} : (m \in popped' <=> m \in popped) /\ failed'[m] = failed[m]
      BY <1>0, <1>1, <1>2
<1>4. QueueTypeOK'
      BY <1>1, <1>3
<1>5. Barred'
      BY DEF Barred
<1>6. Placed(h)'
      BY <1>1, <1>2, <1>3 DEF Placed
<1>7. ASSUME NEW m \in Messages \ {h} PROVE Placed(m)'
      BY <1>1, <1>3, <1>7 DEF Placed
<1> QED
    BY <1>1, <1>4, <1>5, <1>6, <1>7

\* Close goes on to the next stage.
LEMMA CloserMoves ==
    ASSUME QueueInv, UNCHANGED <<queue, push, popped, failed>>,
           \/ UNCHANGED queueCloser \/ CloseQueue \/ CloseWait \/ CloseLock
           \/ queueCloser = "draining" /\ queueCloser' = "closed" /\ queue = <<>>
    PROVE  QueueInv'
<1>1. QueueTypeOK' /\ Barred'
      BY DEF QueueInv, QueueTypeOK, Barred, CloseQueue, CloseWait, CloseLock, Pushing, CloserPCs
<1>2. Distinct' /\ \A m \in Messages : Waiting(m)' <=> Waiting(m)
      BY QueueSame DEF QueueInv
<1>3. \A m \in Messages : Placed(m)'
      BY <1>2 DEF QueueInv, Placed
<1> QED
    BY <1>1, <1>2, <1>3 DEF QueueInv

\* Every step keeps the invariant.
LEMMA NextQueue == QueueInv /\ [QueueNext]_queueVars => QueueInv'
<1> SUFFICES ASSUME QueueInv, [QueueNext]_queueVars PROVE QueueInv'
    OBVIOUS
<1>1. ASSUME NEW m \in Messages, PushLock(m) \/ PushStep(m) PROVE QueueInv'
      BY <1>1, PushSteps
<1>2. ASSUME NEW m \in Messages, CancelPush(m) PROVE QueueInv'
      BY <1>2, CloserMoves DEF CancelPush
<1>3. CASE PopNow \/ Pop
  <2>1. CASE Take
        BY <2>1, HeadMoves DEF Take
  <2> QED
      BY <1>3, <2>1, CloserMoves DEF PopNow, Pop
<1>4. CASE CloseQueue \/ CloseWait \/ CloseLock
      BY <1>4, CloserMoves DEF CloseQueue, CloseWait, CloseLock
<1>5. CASE Drain
      BY <1>5, HeadMoves, CloserMoves DEF Drain
<1>6. CASE UNCHANGED queueVars
      BY <1>6, CloserMoves DEF queueVars
<1> QED
    BY <1>1, <1>2, <1>3, <1>4, <1>5, <1>6 DEF QueueNext, QueueCloseStep

-----------------------------------------------------------------------------
\* Push, Pop and Close: the invariant.
THEOREM QueueInvariance == QueueSpec => []QueueInv
BY InitQueue, NextQueue, PTL DEF QueueSpec

\* A message occurs in the queue at most once.
LEMMA Occurrences ==
    ASSUME QueueInv, NEW m \in Messages
    PROVE  Cardinality({i \in DOMAIN queue : queue[i] = m}) = IF Waiting(m) THEN 1 ELSE 0
<1>1. DOMAIN queue = 1 .. Len(queue)
      BY DEF QueueInv, QueueTypeOK
<1>2. CASE ~Waiting(m)
  <2>1. {i \in DOMAIN queue : queue[i] = m} = {}
        BY <1>1, <1>2 DEF Waiting
  <2> QED
      BY <1>2, <2>1, FS_EmptySet
<1>3. CASE Waiting(m)
  <2>1. PICK k \in 1 .. Len(queue) : queue[k] = m
        BY <1>3 DEF Waiting
  <2>2. {i \in DOMAIN queue : queue[i] = m} = {k}
        BY <1>1, <2>1 DEF QueueInv, Distinct
  <2> QED
      BY <1>3, <2>2, FS_Singleton
<1> QED
    BY <1>2, <1>3

\* What the invariant says of the places of a message, and of a closed queue.
LEMMA PlacesOfMessages == QueueInv => OnePlace /\ ClosedStaysEmpty
<1> SUFFICES ASSUME QueueInv PROVE OnePlace /\ ClosedStaysEmpty
    OBVIOUS
<1>1. OnePlace
  <2> SUFFICES ASSUME NEW m \in Messages
               PROVE  LET places == (IF m \in popped THEN 1 ELSE 0) + failed[m]
                                    + Cardinality({i \in DOMAIN queue : queue[i] = m})
                      IN  /\ push[m] \in {"sent", "dropped"} <=> places = 1
                          /\ push[m] \notin {"sent", "dropped"} <=> places = 0
                          /\ push[m] = "dropped" => failed[m] = 1
      BY DEF OnePlace
  <2>1. Placed(m)
        BY DEF QueueInv
  <2> QED
      BY <2>1, Occurrences DEF Placed
<1>2. ClosedStaysEmpty
      BY DEF QueueInv, Barred, ClosedStaysEmpty
<1> QED
    BY <1>1, <1>2

\* blockingMessageQueue: a message whose Push returned true is in the queue, with
\* the writer or reported as failed, and in one of these places only; after
\* false it has been reported once and is in none of the others.
THEOREM ExactlyOnceAlways == QueueSpec => []ExactlyOnce
<1>1. QueueInv => ExactlyOnce
      BY PlacesOfMessages DEF ExactlyOnce
<1> QED
    BY <1>1, QueueInvariance, PTL
=============================================================================
