------------------------------ MODULE Requests ------------------------------
(***************************************************************************)
(* Requests to many nodes: the signature aggregator and the sender.        *)
(***************************************************************************)
EXTENDS Integers, FiniteSets, FiniteSetsExt, SequencesExt

-----------------------------------------------------------------------------
(***************************************************************************)
(* GetMessageAggregateSignature (vm/warp_service.go): the validators of a  *)
(* subnet in their canonical order (avalanche/warp/validator.go), one      *)
(* goroutine per validator that fetches its signature and retries with a   *)
(* backoff (aggregator/signature_getter.go), the loop that collects them   *)
(* until their weight suffices (aggregator/aggregator.go), and what the    *)
(* receiver of the message checks (avalanche/warp/signature.go). The API   *)
(* passes a context that nobody cancels; the collector cancels a child of  *)
(* it when it returns.                                                     *)
(***************************************************************************)

CONSTANTS
    VdrSet,       \* the validator set: a function from nodes to records with
                  \* a weight and a publicKey, a number, or 0 if it has none
    Quorums,      \* the quorumNum that a client may ask for
    QuorumDen,    \* WarpQuorumDenominator
    MaxFailures   \* bound: how often the requests to a validator fail

VARIABLES
    validators,   \* in their canonical order
    totalWeight,
    quorumNum,
    fetcher,    \* per validator: the goroutine, its timer and its result
    received,   \* how many results the collector has received
    signers,    \* signersBitset, a number
    aggregate,  \* the keys of the signatures collected
    sigWeight,
    outcome,    \* of AggregateSignatures
    fetchDone   \* signatureFetchCtx is cancelled

aggVars == <<validators, totalWeight, quorumNum, fetcher, received, signers,
             aggregate, sigWeight, outcome, fetchDone>>

-----------------------------------------------------------------------------
(* The canonical order, and bit sets as numbers.                           *)

\* FlattenValidatorSet: nodes that share a key are one validator; nodes without
\* a key count in the total only.
Keyed == {n \in DOMAIN VdrSet : VdrSet[n].publicKey # 0}
FlattenValidatorSet ==
    LET keys == SetToSortSeq({VdrSet[n].publicKey : n \in Keyed}, <)
        HaveKey(k) == {n \in Keyed : VdrSet[n].publicKey = k}
    IN  [i \in DOMAIN keys |->
            [publicKey |-> keys[i],
             weight |-> MapThenSumSet(LAMBDA n : VdrSet[n].weight, HaveKey(keys[i]))]]
SumOfWeights == MapThenSumSet(LAMBDA n : VdrSet[n].weight, DOMAIN VdrSet)

\* Bit i - 1 is validator i.
HasBit(bits, i) == (bits \div 2 ^ (i - 1)) % 2 = 1
BitLen(bits) ==
    CHOOSE n \in 0 .. Len(validators) + 1 :
        2 ^ n > bits /\ (n > 0 => 2 ^ (n - 1) <= bits)

FilterValidators(bits) == {i \in DOMAIN validators : HasBit(bits, i)}
SumWeight(S) == MapThenSumSet(LAMBDA i : validators[i].weight, S)

VerifyWeight(w, quorum) == quorum * totalWeight <= QuorumDen * w

\* BitSetSignature.Verify, for the validator set that the signatures were
\* collected from. An aggregate verifies under the sum of the keys that made it.
VerifySignature(bits, keys, quorum) ==
    /\ BitLen(bits) <= Len(validators)
    /\ VerifyWeight(SumWeight(FilterValidators(bits)), quorum)
    /\ keys = {validators[i].publicKey : i \in FilterValidators(bits)}

-----------------------------------------------------------------------------
(* GetSignature. The timer is running, has fired, or was drained after it  *)
(* fired.                                                                  *)

AggInit ==
    /\ validators = FlattenValidatorSet /\ totalWeight = SumOfWeights
    /\ quorumNum \in Quorums
    /\ fetcher = [i \in DOMAIN validators |->
                    [pc |-> "request", timer |-> "running", failures |-> 0,
                     sig |-> "none"]]
    /\ received = 0 /\ signers = 0 /\ aggregate = {} /\ sigWeight = 0
    /\ outcome = "none"
    /\ fetchDone = FALSE

collectorVars == <<validators, totalWeight, quorumNum, received, signers,
                   aggregate, sigWeight, outcome, fetchDone>>

TimerFires(i) ==
    /\ fetcher[i].timer = "running"
    /\ fetcher' = [fetcher EXCEPT ![i].timer = "fired"]
    /\ UNCHANGED collectorVars

\* The request fails, at once if the context is done.
RequestFails(i) ==
    /\ fetcher[i].pc = "request"
    /\ fetchDone \/ fetcher[i].failures < MaxFailures
    /\ fetcher' = [fetcher EXCEPT ![i].pc = "rearm",
                                  ![i].failures = IF fetchDone THEN @ ELSE @ + 1]
    /\ UNCHANGED collectorVars

\* Stop returns false for a timer that has fired, and its channel is drained:
\* if that was done before, the receive waits for ever.
Rearm(i) ==
    /\ fetcher[i].pc = "rearm"
    /\ fetcher[i].timer \in {"running", "fired"}
    /\ fetcher' = [fetcher EXCEPT ![i].pc = "backoff", ![i].timer = "running"]
    /\ UNCHANGED collectorVars

Backoff(i) ==
    /\ fetcher[i].pc = "backoff"
    /\ \/ /\ fetcher[i].timer = "fired"
          /\ fetcher' = [fetcher EXCEPT ![i].pc = "request", ![i].timer = "drained"]
       \/ /\ fetchDone
          /\ fetcher' = [fetcher EXCEPT ![i].pc = "result"]
    /\ UNCHANGED collectorVars

\* The answer has no signature that parses, one that does not verify, or a good
\* one; only the last is passed on.
Answered(i, sig) ==
    /\ fetcher[i].pc = "request"
    /\ fetcher' = [fetcher EXCEPT ![i].pc = "result", ![i].sig = sig]
    /\ UNCHANGED collectorVars

-----------------------------------------------------------------------------
(* AggregateSignatures. The channel has no buffer.                         *)

\* A mutant: a signature that does not verify is counted.
CollectUnverified(i) ==
    IF fetcher[i].sig = "none"
    THEN UNCHANGED <<signers, aggregate, sigWeight>>
    ELSE /\ signers' = signers + 2 ^ (i - 1)
         /\ aggregate' = IF fetcher[i].sig = "good"
                         THEN aggregate \cup {validators[i].publicKey} ELSE aggregate
         /\ sigWeight' = sigWeight + validators[i].weight

Collect(i) ==
    IF fetcher[i].sig # "good"
    THEN UNCHANGED <<signers, aggregate, sigWeight>>
    ELSE /\ signers' = signers + 2 ^ (i - 1)
         /\ aggregate' = aggregate \cup {validators[i].publicKey}
         /\ sigWeight' = sigWeight + validators[i].weight

Settle(i) ==
    outcome' = IF fetcher[i].sig = "good" /\ VerifyWeight(sigWeight', quorumNum)
               THEN "signed"
               ELSE IF received' = Len(fetcher) THEN "insufficient" ELSE "none"

Receive(i) ==
    /\ outcome = "none"
    /\ fetcher[i].pc = "result"
    /\ received' = received + 1
    /\ Collect(i)
    /\ Settle(i)
    /\ fetchDone' = (outcome' # "none")
    /\ fetcher' = [fetcher EXCEPT ![i].pc = "done"]
    /\ UNCHANGED <<validators, totalWeight, quorumNum>>

Fetch(i) ==
    \/ RequestFails(i) \/ Rearm(i) \/ Backoff(i)
    \/ \E sig \in {"none", "wrong", "good"} : Answered(i, sig)

\* Goroutines run, timers fire, requests are answered or fail, and results are
\* received.
AggStep(i) == TimerFires(i) \/ Fetch(i) \/ Receive(i)

AggNext == \E i \in DOMAIN fetcher : AggStep(i)

AggFairness == \A i \in DOMAIN FlattenValidatorSet : WF_aggVars(AggStep(i))

AggSpec == AggInit /\ [][AggNext]_aggVars /\ AggFairness

-----------------------------------------------------------------------------
\* The message that is returned verifies: the bit set names exactly the
\* validators whose signatures were aggregated, in the order that the receiver
\* derives from the same validator set, and their weight meets the quorum.
AggregateVerifies ==
    outcome = "signed" => VerifySignature(signers, aggregate, quorumNum)

\* The call fails only if every validator was heard and those with a good
\* signature do not have the weight.
InsufficientOnlyIfShort ==
    outcome = "insufficient" =>
        LET good == {i \in DOMAIN fetcher : fetcher[i].sig = "good"} IN
        /\ \A i \in DOMAIN fetcher : fetcher[i].pc = "done"
        /\ good = {} \/ ~VerifyWeight(SumWeight(good), quorumNum)

\* GetSignature, "this function will continue attempting to fetch the signature
\* from [nodeID] until it receives an invalid value or [ctx] is cancelled": as
\* requests fail at most MaxFailures times, every fetch comes to an end and the
\* call returns.
AggregateReturns == <>(outcome # "none")

-----------------------------------------------------------------------------
(***************************************************************************)
(* SendAppRequest of the VM's sender (networking/sender/sender.go) over    *)
(* the network's Send (network/network.go). A request goes to a set of     *)
(* nodes: this node itself is served through the router, benched nodes     *)
(* fail at once, and the rest is handed to the network, which sends to the *)
(* connected peers that the allower lets in. Answers that the sender makes *)
(* up are put into the router by goroutines, in any order. Between two     *)
(* steps of the call nodes are benched, unbenched, connect and leave.      *)
(***************************************************************************)

CONSTANTS
    Self,    \* NodeID of the sender
    Others   \* the other nodes

VARIABLES
    spc,        \* where the call is
    requested,  \* the nodes that the caller named
    nodeIDs,    \* what is left of them
    pending,    \* the nodes that the loop has not visited yet
    sentTo,     \* the nodes that Send reported
    going,      \* goroutines that have not reached the router
    inbound,    \* what the router was given
    unreachable,\* nodes for which RegisterRequestToUnreachableValidator ran
    isBenched, connected, allowed

callVars == <<spc, requested, nodeIDs, pending, sentTo, unreachable>>
routerVars == <<going, inbound>>
worldVars == <<isBenched, connected, allowed>>
senderVars == <<callVars, routerVars, worldVars>>

-----------------------------------------------------------------------------
AllNodes == Others \cup {Self}

InboundAppRequest == [op |-> "AppRequest", node |-> Self]
InboundAppError(n) == [op |-> "AppError", node |-> n]

\* getPeers: the connected peers among the named nodes that the allower lets in.
GetPeers(nodes) == {n \in nodes : n \in connected /\ n \in allowed}

SenderInit ==
    /\ spc = "idle"
    /\ requested = {} /\ nodeIDs = {} /\ pending = {}
    /\ sentTo = {} /\ unreachable = {}
    /\ going = {} /\ inbound = {}
    /\ isBenched = {}
    /\ connected \in SUBSET Others
    /\ allowed \in SUBSET Others

\* Nodes come and go, and the benchlist changes, while the call runs.
World ==
    /\ \/ \E n \in Others :
             /\ isBenched' = IF n \in isBenched THEN isBenched \ {n}
                             ELSE isBenched \cup {n}
             /\ UNCHANGED connected
       \/ \E n \in Others :
             /\ connected' = IF n \in connected THEN connected \ {n}
                             ELSE connected \cup {n}
             /\ UNCHANGED isBenched
    /\ UNCHANGED <<callVars, routerVars, allowed>>

-----------------------------------------------------------------------------
\* Every node is registered with the router (which keeps nothing), then a
\* request to this node itself goes into the router.
Begin(nodes) ==
    /\ spc = "idle"
    /\ requested' = nodes
    /\ nodeIDs' = nodes \ {Self}
    /\ pending' = nodes \ {Self}
    /\ going' = IF Self \in nodes THEN {InboundAppRequest} ELSE {}
    /\ spc' = "bench"
    /\ UNCHANGED <<sentTo, unreachable, inbound, worldVars>>

BenchedFails(n) ==
    /\ nodeIDs' = nodeIDs \ {n}
    /\ unreachable' = unreachable \cup {n}
    /\ going' = going \cup {InboundAppError(n)}

SkipBenched(n) ==
    /\ spc = "bench" /\ n \in pending
    /\ pending' = pending \ {n}
    /\ IF n \in isBenched
       THEN BenchedFails(n)
       ELSE UNCHANGED <<nodeIDs, unreachable, going>>
    /\ UNCHANGED <<spc, requested, sentTo, inbound, worldVars>>

\* The message cannot be built, and nothing is sent.
BuildFails ==
    /\ spc = "bench" /\ pending = {}
    /\ pending' = nodeIDs
    /\ spc' = "fail"
    /\ UNCHANGED <<requested, nodeIDs, sentTo, unreachable, routerVars,
                   worldVars>>

\* Send looks the peers up under the lock and pushes the message to each of
\* their queues without it: a peer may have gone, or its queue refuse.
Look ==
    /\ spc = "bench" /\ pending = {}
    /\ pending' = GetPeers(nodeIDs)
    /\ spc' = "push"
    /\ UNCHANGED <<requested, nodeIDs, sentTo, unreachable, routerVars,
                   worldVars>>

Push(n) ==
    /\ spc = "push" /\ n \in pending
    /\ pending' = pending \ {n}
    /\ sentTo' \in {sentTo, sentTo \cup {n}}
    /\ UNCHANGED <<spc, requested, nodeIDs, unreachable, routerVars, worldVars>>

Pushed ==
    /\ spc = "push" /\ pending = {}
    /\ pending' = nodeIDs
    /\ spc' = "fail"
    /\ UNCHANGED <<requested, nodeIDs, sentTo, unreachable, routerVars,
                   worldVars>>

\* The last loop. Only the log entry depends on sentTo.
Fail(n) ==
    /\ spc = "fail" /\ n \in pending
    /\ pending' = pending \ {n}
    /\ unreachable' = unreachable \cup {n}
    /\ going' = going \cup {InboundAppError(n)}
    /\ UNCHANGED <<spc, requested, nodeIDs, sentTo, inbound, worldVars>>

Return ==
    /\ spc = "fail" /\ pending = {}
    /\ spc' = "done"
    /\ UNCHANGED <<requested, nodeIDs, pending, sentTo, unreachable,
                   routerVars, worldVars>>

\* A goroutine runs HandleInbound.
HandleInbound(m) ==
    /\ m \in going
    /\ going' = going \ {m}
    /\ inbound' = inbound \cup {m}
    /\ UNCHANGED <<callVars, worldVars>>

CallStep ==
    \/ \E n \in Others : SkipBenched(n) \/ Push(n) \/ Fail(n)
    \/ BuildFails \/ Look \/ Pushed \/ Return

SenderNext ==
    \/ World
    \/ \E nodes \in SUBSET AllNodes \ {{}} : Begin(nodes)
    \/ CallStep
    \/ \E m \in going : HandleInbound(m)

\* The call and its goroutines run.
SenderFairness ==
    /\ WF_senderVars(CallStep)
    /\ WF_senderVars(\E m \in going : HandleInbound(m))

SenderSpec == SenderInit /\ [][SenderNext]_senderVars /\ SenderFairness

-----------------------------------------------------------------------------
\* The call has returned, and nobody waits in vain for a node that was named: the
\* router got this node's own request, and an error in the place of an answer for
\* every node that was not sent the request ("Register failures for nodes we
\* didn't send a request to"). The last loop does so for the others too.
Accounted ==
    /\ spc = "done"
    /\ \A n \in requested :
          IF n = Self THEN InboundAppRequest \in inbound
          ELSE n \notin sentTo => InboundAppError(n) \in inbound

\* The call never waits for the router, and in the end every node that was named
\* is accounted for, however nodes are benched and leave while it runs.
EveryNodeAccounted == (spc # "idle") ~> Accounted
=============================================================================
