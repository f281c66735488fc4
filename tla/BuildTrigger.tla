---------------------------- MODULE BuildTrigger ----------------------------
(***************************************************************************)
(* How a transaction in the mempool makes the engine build a block. The    *)
(* mempool signals once per height; one goroutine of Initialize forwards   *)
(* the signal to the channel toEngine, another sends it to the engine by   *)
(* Notify (vm/vm.go). The engine then calls BuildBlock, and every accepted *)
(* block updates the mempool, which signals again if transactions are left *)
(* (vm/types/state/executor.go). A lost signal is not repeated.            *)
(***************************************************************************)
EXTENDS Integers, FiniteSets

CONSTANTS
    Txs,
    MaxForeign,  \* bound: how many blocks of other proposers are accepted
    MaxLost      \* bound: how many signals are lost

VARIABLES
    mempool,     \* transactions in the mempool
    done,        \* transactions in accepted blocks
    notified,    \* CListMempool.notifiedTxsAvailable
    available,   \* messages in the channel TxsAvailable, of capacity 1
    forwarder,   \* the goroutine between TxsAvailable and toEngine
    toEngine,    \* messages in the channel toEngine
    notifier,    \* the goroutine between toEngine and Notify
    pending,     \* builds that the engine owes
    processing,  \* our proposals in consensus, each the set of its transactions
    foreign,     \* blocks of other proposers accepted so far
    lost,        \* signals lost so far
    closed       \* Shutdown has closed vm.closed

mempoolVars == <<mempool, done, notified, available>>
engineVars == <<pending, processing, foreign, lost>>
triggerVars == <<mempoolVars, forwarder, toEngine, notifier, engineVars, closed>>

-----------------------------------------------------------------------------
\* External: CListMempool.CheckTx admits a transaction and signals, unless it
\* has done so since the last Update.
CheckTx(tx) ==
    /\ ~closed
    /\ tx \notin mempool \cup done
    /\ mempool' = mempool \cup {tx}
    /\ available' = IF notified THEN available ELSE 1
    /\ notified' = TRUE
    /\ UNCHANGED <<done, forwarder, toEngine, notifier, engineVars, closed>>

\* External: CListMempool.Update removes the block's transactions and signals
\* if others are left.
Update(S) ==
    /\ mempool' = mempool \ S
    /\ done' = done \cup S
    /\ notified' = (mempool \ S # {})
    /\ available' = IF mempool \ S # {} THEN 1 ELSE available

ForwarderReceive ==
    /\ forwarder = "receive"
    /\ available = 1
    /\ available' = 0
    /\ forwarder' = "send"
    /\ UNCHANGED <<mempool, done, notified, toEngine, notifier, engineVars, closed>>

\* The channel holds one message; a send waits for room.
ForwarderSend ==
    /\ forwarder = "send"
    /\ toEngine = 0
    /\ toEngine' = 1
    /\ forwarder' = "receive"
    /\ UNCHANGED <<mempoolVars, notifier, engineVars, closed>>

NotifierReceive ==
    /\ notifier = "select"
    /\ toEngine > 0
    /\ toEngine' = toEngine - 1
    /\ notifier' = "notify"
    /\ UNCHANGED <<mempoolVars, forwarder, engineVars, closed>>

Notify ==
    /\ notifier = "notify"
    /\ notifier' = "select"
    /\ pending' = pending + 1
    /\ UNCHANGED <<mempoolVars, forwarder, toEngine, processing, foreign, lost,
                   closed>>

\* An error is logged and the message is gone.
NotifyFails ==
    /\ notifier = "notify"
    /\ lost < MaxLost
    /\ notifier' = "select"
    /\ lost' = lost + 1
    /\ UNCHANGED <<mempoolVars, forwarder, toEngine, pending, processing, foreign,
                   closed>>

\* select takes either ready case.
NotifierCloses ==
    /\ notifier = "select"
    /\ closed
    /\ notifier' = "exit"
    /\ UNCHANGED <<mempoolVars, forwarder, toEngine, engineVars, closed>>

-----------------------------------------------------------------------------
\* CreateProposalBlock reaps what fits; an empty mempool gives an empty block.
\* External: PrepareProposal keeps at least one of the transactions it is given.
BuildBlock ==
    /\ pending > 0
    /\ ~closed
    /\ \E S \in SUBSET mempool :
          /\ mempool # {} => S # {}
          /\ processing' = processing \cup {S}
    /\ pending' = pending - 1
    /\ UNCHANGED <<mempoolVars, forwarder, toEngine, notifier, foreign, lost,
                   closed>>

\* PrepareProposal fails: the engine drops the request.
BuildBlockFails ==
    /\ pending > 0
    /\ ~closed
    /\ lost < MaxLost
    /\ pending' = pending - 1
    /\ lost' = lost + 1
    /\ UNCHANGED <<mempoolVars, forwarder, toEngine, notifier, processing, foreign,
                   closed>>

\* A mutant: a block without transactions does not update the mempool.
CommitSkipsEmpty(S) ==
    /\ ~closed
    /\ IF S = {} THEN UNCHANGED mempoolVars ELSE Update(S)
    /\ processing' = {}
    /\ UNCHANGED <<forwarder, toEngine, notifier, pending, lost, closed>>

\* BlockAccept commits the block and updates the mempool. Every block in
\* consensus is a child of the last accepted one, so the engine rejects the
\* others.
AcceptTxs(S) ==
    /\ ~closed
    /\ Update(S)
    /\ processing' = {}
    /\ UNCHANGED <<forwarder, toEngine, notifier, pending, lost, closed>>

AcceptOwn == \E S \in processing : AcceptTxs(S) /\ UNCHANGED foreign

AcceptForeign ==
    /\ foreign < MaxForeign
    /\ foreign' = foreign + 1
    /\ \E S \in SUBSET (Txs \ done) : AcceptTxs(S)

Shutdown ==
    /\ ~closed
    /\ closed' = TRUE
    /\ UNCHANGED <<mempoolVars, forwarder, toEngine, notifier, engineVars>>

TriggerInit ==
    /\ mempool = {} /\ done = {} /\ notified = FALSE /\ available = 0
    /\ forwarder = "receive"
    /\ toEngine = 0
    /\ notifier = "select"
    /\ pending = 0 /\ processing = {} /\ foreign = 0 /\ lost = 0
    /\ closed = FALSE

NotifyReturns == Notify \/ NotifyFails
BuildReturns == BuildBlock \/ BuildBlockFails
EngineDecides == processing # {} /\ (AcceptOwn \/ AcceptForeign)

TriggerNext ==
    \/ \E tx \in Txs : CheckTx(tx)
    \/ ForwarderReceive \/ ForwarderSend
    \/ NotifierReceive \/ NotifyReturns \/ NotifierCloses
    \/ BuildReturns \/ AcceptOwn \/ AcceptForeign
    \/ Shutdown

TriggerSpec == TriggerInit /\ [][TriggerNext]_triggerVars

\* Goroutines run, a Notify call returns, and the engine acts on what it owes:
\* it builds when told to, and decides among the blocks in consensus.
TriggerFairSpec ==
    /\ TriggerSpec
    /\ WF_triggerVars(ForwarderReceive) /\ WF_triggerVars(ForwarderSend)
    /\ WF_triggerVars(NotifierReceive) /\ WF_triggerVars(NotifyReturns)
    /\ WF_triggerVars(BuildReturns)
    /\ WF_triggerVars(EngineDecides)

-----------------------------------------------------------------------------
\* The channels stay within their capacity and the goroutines in their loops.
TriggerTypeOK ==
    /\ mempool \subseteq Txs /\ done \subseteq Txs /\ notified \in BOOLEAN
    /\ available \in 0 .. 1
    /\ forwarder \in {"receive", "send"}
    /\ toEngine \in 0 .. 1
    /\ notifier \in {"select", "notify", "exit"}
    /\ pending \in Nat /\ processing \subseteq SUBSET Txs
    /\ foreign \in Nat /\ lost \in Nat
    /\ closed \in BOOLEAN

\* A signal is on its way from the mempool to the engine.
SignalInFlight ==
    \/ available = 1 \/ forwarder = "send" \/ toEngine = 1 \/ notifier = "notify"

\* As long as no Notify and no BuildBlock fails, transactions never wait for
\* nothing: a signal is on its way, the engine owes a build, or a proposal is
\* in consensus, whose decision will signal again.
NeverForgotten ==
    mempool # {} /\ lost = 0 /\ ~closed =>
        SignalInFlight \/ pending > 0 \/ processing # {}

\* Under the same condition every transaction gets into an accepted block,
\* whichever proposer's, unless the VM is shut down.
TxsGetAccepted ==
    \A tx \in Txs : (tx \in mempool) ~> (tx \in done \/ lost > 0 \/ closed)
=============================================================================
