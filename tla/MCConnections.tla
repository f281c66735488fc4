--------------------------- MODULE MCConnections ----------------------------
(***************************************************************************)
(* The connections to other nodes and the requests over them, one          *)
(* component per behaviour: part says which, and the others stay in an     *)
(* initial state, which satisfies their properties. The variables of       *)
(* Network, Peer and AppNetwork are their own; those of Requests share     *)
(* r1 .. r11, in the order of declaration.                                 *)
(***************************************************************************)
EXTENDS Network, Peer, AppNetwork

CONSTANTS
    VdrSet, Quorums, QuorumDen, MaxFailures,  \* Requests: aggregator
    Self, Others                              \* and sender

\* Five validators: two share a key, one has none, one has twice the weight.
MCVdrSet ==
    << [weight |-> 2, publicKey |-> 2], [weight |-> 1, publicKey |-> 1],
       [weight |-> 1, publicKey |-> 2], [weight |-> 1, publicKey |-> 0],
       [weight |-> 1, publicKey |-> 3] >>

VARIABLES part, r1, r2, r3, r4, r5, r6, r7, r8, r9, r10, r11

askVars == <<r1, r2, r3, r4, r5, r6, r7, r8, r9, r10, r11>>
mcVars == <<part, vars, connVars, appVars, askVars>>

Ask == INSTANCE Requests WITH
    validators <- r1, totalWeight <- r2, quorumNum <- r3, fetcher <- r4,
    received <- r5, signers <- r6, aggregate <- r7, sigWeight <- r8,
    outcome <- r9, fetchDone <- r10,
    spc <- r1, requested <- r2, nodeIDs <- r3, pending <- r4, sentTo <- r5,
    going <- r6, inbound <- r7, unreachable <- r8, isBenched <- r9,
    connected <- r10, allowed <- r11

-----------------------------------------------------------------------------
PeerStill == PeerInit /\ validator = "none"

Unused ==
    /\ r1 = 0 /\ r2 = 0 /\ r3 = 0 /\ r4 = 0 /\ r5 = 0 /\ r6 = 0
    /\ r7 = 0 /\ r8 = 0 /\ r9 = 0 /\ r10 = 0 /\ r11 = 0

MCInit ==
    /\ Init /\ AppInit
    /\ \/ part = "peer" /\ PeerInit /\ Unused
       \/ part \in {"network", "app"} /\ PeerStill /\ Unused
       \/ part = "aggregator" /\ PeerStill /\ Ask!AggInit /\ r11 = 0
       \/ part = "sender" /\ PeerStill /\ Ask!SenderInit

InPeer(A) == part = "peer" /\ A /\ UNCHANGED <<part, vars, appVars, askVars>>
InNetwork(A) == part = "network" /\ A /\ UNCHANGED <<part, connVars, appVars, askVars>>
InApp(A) == part = "app" /\ A /\ UNCHANGED <<part, vars, connVars, askVars>>
InAggregator(A) ==
    part = "aggregator" /\ A /\ UNCHANGED <<part, vars, connVars, appVars, r11>>
InSender(A) == part = "sender" /\ A /\ UNCHANGED <<part, vars, connVars, appVars>>

MCNext ==
    \/ InPeer(PeerNext)
    \/ InNetwork(Next)
    \/ InApp(AppNext)
    \/ InAggregator(Ask!AggNext)
    \/ InSender(Ask!SenderNext)

\* The fairness of each component, for three entries, one node, two clients and
\* three keys. A behaviour stays in its part, so a condition on steps of different
\* parts is a condition on each of them.
MCSpec ==
    /\ MCInit /\ [][MCNext]_mcVars
    /\ WF_mcVars(\/ InPeer(Proceeds("reader")) \/ InNetwork(DialStep(1))
                 \/ InApp(fatal = "no" /\ Proceed(1)) \/ InAggregator(Ask!AggStep(1))
                 \/ InSender(Ask!CallStep))
    /\ WF_mcVars(\/ InPeer(Proceeds("writer")) \/ InNetwork(DialStep(2))
                 \/ InApp(fatal = "no" /\ Proceed(2)) \/ InAggregator(Ask!AggStep(2))
                 \/ InSender(\E m \in r6 : Ask!HandleInbound(m)))
    /\ WF_mcVars(\/ InPeer(Proceeds("sender")) \/ InNetwork(DialStep(3))
                 \/ InAggregator(Ask!AggStep(3)))
    /\ WF_mcVars(\/ InPeer(Proceeds("network"))
                 \/ InNetwork(\E n \in Nodes : InboundStartsPeer(n))
                 \/ InApp(fatal = "no" /\ Answer))
    /\ \A p \in PeerIDs :
          WF_mcVars(InNetwork(PeerStep(p) \/ (peer[p].told /\ PeerEnds(p))))
    /\ \A w \in Workers : WF_mcVars(InApp(fatal = "no" /\ Work(w)))
    /\ SF_mcVars(InPeer(Send("sender")) \/ InNetwork(DialStops(1)))
    /\ SF_mcVars(InPeer(Tick) \/ InNetwork(DialStops(2)))
    /\ SF_mcVars(InPeer(ContextDone) \/ InNetwork(DialStops(3)))

-----------------------------------------------------------------------------
\* What has begun and must come to an end: a peer's closing, StartClose, a call of
\* AppNetwork's first client (they are alike), a call of the sender.
Due ==
    \/ part = "peer" /\ (stage > 0 \/ (finished /\ validator = "other key"))
    \/ part = "network" /\ networkClosing
    \/ part = "app" /\ at[1] # "idle"
    \/ part = "sender" /\ r1 # "idle"

Settled ==
    \/ part = "peer" /\ (closed \/ (stage = 0 /\ validator # "other key"))
    \/ part = "network" /\ AllEnded
    \/ part = "app" /\ (at[1] = "idle" \/ fatal # "no")
    \/ part = "sender" /\ Ask!Accounted

\* Peer: a peer that is being closed becomes closed, and so does a peer with another
\* key than the registered one, unless another one is registered before anybody
\* has begun to close it. Network: after StartClose everything ends. AppNetwork: a
\* call returns (CallsReturn). Requests: every node that the sender was given is
\* accounted for (EveryNodeAccounted).
BegunThingsEnd == Due ~> Settled

\* Requests: the aggregate that is returned verifies, and the call fails only when
\* the weight was not there.
AggregateVerifies ==
    part = "aggregator" => Ask!AggregateVerifies /\ Ask!InsufficientOnlyIfShort

\* Requests: as requests fail a bounded number of times only, the aggregator returns.
AggregateReturns == <>(part = "aggregator" => r9 # "none")
=============================================================================
