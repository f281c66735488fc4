------------------------------ MODULE Serving -------------------------------
(***************************************************************************)
(* What the VM answers while blocks are accepted: RPC methods that read in *)
(* pieces, broadcast_tx_commit, and requests for warp signatures.          *)
(***************************************************************************)
EXTENDS Integers, FiniteSets, Sequences

-----------------------------------------------------------------------------
(***************************************************************************)
(* The RPC methods that answer from the stores (vm/rpc.go), beside a       *)
(* BlockAccept that applies and saves blocks. A method takes no lock: it   *)
(* reads a height, a block, its metadata and a commit one after the other, *)
(* and blocks are saved, announced and pruned in between.                  *)
(*                                                                         *)
(* The block of a height stands for its ID, its header and its one         *)
(* transaction. External are the block store, which writes a block before  *)
(* it raises its height, the mempool and the indexer.                      *)
(***************************************************************************)

CONSTANTS
    ReadBlocks,
    MaxPool,    \* of transactions in the mempool
    Limit,      \* of UnconfirmedTxs
    Nil

VARIABLES
    storeBase, height,   \* of the block store
    saved,          \* the heights whose block, metadata and seen commit it has
    applied,        \* the height that ApplyBlock has finished
    indexed,        \* the heights whose transaction is indexed
    unconfirmed,           \* how many transactions the mempool has
    reader          \* the method that runs: what is asked, what it has read

readsVars == <<storeBase, height, saved, applied, indexed, unconfirmed, reader>>

Heights == 1 .. ReadBlocks

-----------------------------------------------------------------------------
(* BlockAccept, the indexer and the mempool                                *)

\* ApplyBlock: the mempool drops what the block has, the application may let
\* old blocks go, and the events are published.
BlockApplied ==
    /\ applied = height /\ applied < ReadBlocks
    /\ applied' = applied + 1
    /\ unconfirmed' \in 0 .. unconfirmed
    /\ \E retain \in {storeBase} \cup (storeBase + 1 .. height) :
          /\ storeBase' = retain
          /\ saved' = {h \in saved : h >= retain}
    /\ UNCHANGED <<height, indexed, reader>>

BlockSaved ==
    /\ applied > height /\ applied \notin saved
    /\ saved' = saved \cup {applied}
    /\ UNCHANGED <<storeBase, height, applied, indexed, unconfirmed, reader>>

RaiseHeight ==
    /\ applied > height /\ applied \in saved
    /\ height' = applied
    /\ storeBase' = IF storeBase = 0 THEN applied ELSE storeBase
    /\ UNCHANGED <<saved, applied, indexed, unconfirmed, reader>>

Index ==
    /\ \E h \in 1 .. applied : h \notin indexed /\ indexed' = indexed \cup {h}
    /\ UNCHANGED <<storeBase, height, saved, applied, unconfirmed, reader>>

Receive ==
    /\ unconfirmed < MaxPool
    /\ unconfirmed' = unconfirmed + 1
    /\ UNCHANGED <<storeBase, height, saved, applied, indexed, reader>>

-----------------------------------------------------------------------------
(* The methods. reader.pc is the next step; what a step has read is kept   *)
(* under the name of the local variable.                                   *)

ReaderIdle == [pc |-> "idle"]
Load(h) == IF h \in saved THEN h ELSE Nil
LoadBlockCommit(h) == IF h \in saved /\ h + 1 \in saved THEN [of |-> h, seen |-> FALSE] ELSE Nil
LoadSeenCommit(h) == IF h \in saved THEN [of |-> h, seen |-> TRUE] ELSE Nil

Step(r) == reader' = r /\ UNCHANGED <<storeBase, height, saved, applied, indexed, unconfirmed>>
ReadReturns(op, result) == Step([pc |-> "done", op |-> op, result |-> result])

\* getHeight, of Nil for the latest; Nil for an error.
GetHeight(h) == IF h = Nil THEN height ELSE IF h > height \/ h < storeBase THEN Nil ELSE h

AskRPC(h) ==
    /\ reader = ReaderIdle
    /\ \E pc \in {"block", "commit"} : Step([pc |-> pc, height |-> GetHeight(h)])

Refuse ==
    /\ reader.pc \in {"block", "commit"} /\ reader.height = Nil
    /\ ReadReturns("error", Nil)

\* Block
BlockLoad ==
    /\ reader.pc = "block" /\ reader.height # Nil
    /\ Step([pc |-> "meta", height |-> reader.height, block |-> Load(reader.height)])

BlockMeta ==
    /\ reader.pc = "meta"
    /\ ReadReturns("block", [height |-> reader.height, block |-> reader.block,
                        id |-> Load(reader.height)])

\* BlockByHash
ByHashLoad(h) ==
    /\ reader = ReaderIdle
    /\ IF Load(h) = Nil THEN ReadReturns("none", Nil)
       ELSE Step([pc |-> "hash", height |-> h, block |-> h])

\* Without its metadata the block's ID cannot be read: the handler panics.
ByHashMeta ==
    /\ reader.pc = "hash"
    /\ IF Load(reader.height) = Nil THEN ReadReturns("panic", reader.height)
       ELSE ReadReturns("block", [height |-> reader.height, block |-> reader.block,
                             id |-> Load(reader.height)])

\* Commit: the height is compared with the latest one twice.
CommitMeta ==
    /\ reader.pc = "commit" /\ reader.height # Nil
    /\ IF Load(reader.height) = Nil THEN ReadReturns("none", Nil)
       ELSE Step([pc |-> "which", height |-> reader.height, header |-> Load(reader.height)])

\* A mutant: the commit of the latest height, whichever that is by now.
CommitLoadLatest ==
    /\ reader.pc = "which"
    /\ Step([pc |-> "flag", height |-> reader.height, header |-> reader.header,
             commit |-> IF reader.height = height THEN LoadSeenCommit(height)
                        ELSE LoadBlockCommit(height - 1)])

CommitLoad ==
    /\ reader.pc = "which"
    /\ Step([pc |-> "flag", height |-> reader.height, header |-> reader.header,
             commit |-> IF reader.height = height THEN LoadSeenCommit(reader.height)
                        ELSE LoadBlockCommit(reader.height)])

CommitFlag ==
    /\ reader.pc = "flag"
    /\ ReadReturns("commit", [header |-> reader.header, commit |-> reader.commit,
                         canonical |-> reader.height # height])

\* Status: LoadBaseMeta, Height, LoadBlockMeta.
StatusBase ==
    /\ reader = ReaderIdle
    /\ Step([pc |-> "latest", earliest |-> IF storeBase = 0 THEN Nil ELSE Load(storeBase)])

StatusLatest ==
    /\ reader.pc = "latest"
    /\ Step([pc |-> "hash of", earliest |-> reader.earliest, latest |-> height])

StatusMeta ==
    /\ reader.pc = "hash of"
    /\ ReadReturns("status", [earliest |-> reader.earliest, latest |-> reader.latest,
                         id |-> IF reader.latest = 0 THEN Nil ELSE Load(reader.latest)])

\* Tx, with the proof that needs the block.
TxGet(h, prove) ==
    /\ reader = ReaderIdle
    /\ IF h \notin indexed THEN ReadReturns("error", Nil)
       ELSE IF prove THEN Step([pc |-> "prove", height |-> h])
       ELSE ReadReturns("tx", [height |-> h, tx |-> h, proof |-> Nil])

TxProve ==
    /\ reader.pc = "prove"
    /\ IF Load(reader.height) = Nil THEN ReadReturns("panic", reader.height)
       ELSE ReadReturns("tx", [height |-> reader.height, tx |-> reader.height,
                          proof |-> Load(reader.height)])

\* UnconfirmedTxs and NumUnconfirmedTxs: what is counted, then the total.
UnconfirmedTxs(limit) ==
    /\ reader = ReaderIdle
    /\ Step([pc |-> "total", count |-> IF unconfirmed < limit THEN unconfirmed ELSE limit])

NumUnconfirmedTxs == reader = ReaderIdle /\ Step([pc |-> "total", count |-> unconfirmed])

Total == reader.pc = "total" /\ ReadReturns("txs", [count |-> reader.count, total |-> unconfirmed])

\* ConsensusParams: of the genesis, whatever height is asked for.
ConsensusParams == reader = ReaderIdle /\ ReadReturns("params", height)

\* Initialize has saved the first block.
ReadsInit ==
    /\ storeBase = 1 /\ height = 1 /\ saved = {1} /\ applied = 1 /\ indexed \in {{}, {1}}
    /\ unconfirmed = 0
    /\ reader = ReaderIdle

Forget == reader.pc = "done" /\ Step(ReaderIdle)

ReadsNext ==
    \/ BlockApplied \/ BlockSaved \/ RaiseHeight \/ Index \/ Receive
    \/ \E h \in Heights : AskRPC(h) \/ ByHashLoad(h) \/ \E prove \in BOOLEAN : TxGet(h, prove)
    \/ AskRPC(Nil) \/ Refuse
    \/ BlockLoad \/ BlockMeta \/ ByHashMeta \/ CommitMeta \/ CommitLoad \/ CommitFlag
    \/ StatusBase \/ StatusLatest \/ StatusMeta \/ TxProve
    \/ UnconfirmedTxs(Limit) \/ NumUnconfirmedTxs \/ Total \/ ConsensusParams
    \/ Forget

ReadsSpec == ReadsInit /\ [][ReadsNext]_readsVars

-----------------------------------------------------------------------------
Answered(op) == reader.pc = "done" /\ reader.op = op

\* What an answer puts together is of one block, although it was read in pieces
\* while blocks were accepted: the block and its ID, a header and the commit for
\* it, the height in the status and the hash beside it, a transaction and its
\* proof. A piece may be missing; it is never another block's.
PiecesOfOneBlock ==
    LET r == reader.result
        Same(a, b) == a = Nil \/ b = Nil \/ a = b
    IN  /\ Answered("block") => Same(r.block, r.id) /\ Same(r.block, r.height)
        /\ Answered("commit") => r.commit = Nil \/ r.commit.of = r.header
        /\ Answered("status") => Same(r.id, r.latest)
        /\ Answered("status") => r.earliest = Nil \/ r.earliest <= r.latest
        /\ Answered("tx") => Same(r.tx, r.proof)

\* A commit that a block of the chain contains is said to be canonical, also if
\* the next block was saved while the method ran: an answer that denies it has
\* the commit that was seen.
BlockCommitIsCanonical ==
    Answered("commit") /\ reader.result.commit # Nil =>
        (~reader.result.commit.seen => reader.result.canonical)

\* A height within those the store offers is answered with its block: a block is
\* missing from an answer only if it was pruned after the height was checked.
OfferedIsServed ==
    /\ Answered("block") /\ reader.result.height # 0 =>
           reader.result.block # Nil \/ reader.result.height < storeBase
    /\ Answered("status") /\ reader.result.latest # 0 =>
           reader.result.id # Nil \/ reader.result.latest < storeBase

\* The RPC methods: the pieces of an answer are of one block, a commit that a
\* block contains is not denied, and a height that is offered is served.
PiecesBelongTogether == PiecesOfOneBlock /\ BlockCommitIsCanonical /\ OfferedIsServed

-----------------------------------------------------------------------------
(***************************************************************************)
(* The RPC handlers that submit a transaction (vm/rpc.go). A handler of    *)
(* broadcast_tx_commit subscribes to the transaction, gives it to the      *)
(* mempool and waits for the event that an accepted block publishes, for a *)
(* cancelled subscription or for a timeout; it unsubscribes when it        *)
(* returns. Handlers of several requests run beside each other and beside  *)
(* the engine, which applies blocks and then publishes their transactions  *)
(* one by one (vm/types/state/executor.go).                                *)
(*                                                                         *)
(* External: the mempool and the event bus of CometBFT. A subscription     *)
(* holds one message; one more cancels it.                                 *)
(***************************************************************************)

CONSTANTS
    Handlers,       \* goroutines that serve a broadcast_tx_commit
    Txs,
    Remotes,        \* remote addresses of clients
    MaxSubscriptionClients,
    MaxSubscriptionsPerClient,
    TxBlocks        \* bound: blocks that the engine applies

VARIABLES
    pool,       \* transactions in the mempool
    seen,       \* the mempool's cache of transactions
    chain,      \* the transactions of each applied block
    unsent,     \* transactions of the last block whose event is not yet published
    subs,       \* subscriptions: by client and transaction
    handler     \* each handler's place and locals

txVars == <<pool, seen, chain, unsent, subs, handler>>

Keys == Remotes \X Txs

HandlerIdle == [pc |-> "idle", key |-> Nil, from |-> 0, height |-> 0, result |-> Nil]

SubscriptionsOf(client) == {k \in Keys : subs[k] # Nil /\ k[1] = client}
NumClients == Cardinality({k[1] : k \in {x \in Keys : subs[x] # Nil}})
NumClientSubscriptions(client) == Cardinality(SubscriptionsOf(client))

SubType == [out : {Nil} \cup Nat, cancelled : BOOLEAN]
NewSub == [out |-> Nil, cancelled |-> FALSE]

\* Nil is no height, no subscription and no result.
ASSUME ServeAssumption ==
    /\ ReadBlocks \in Nat
    /\ Nil \notin Int /\ Nil \notin SubType /\ Nil # "included"

Sub(h) == subs[handler[h].key]

\* A handler returns: what it deferred ends its subscription.
HandlerReturn(h, result) ==
    /\ subs' = [subs EXCEPT ![handler[h].key] = Nil]
    /\ handler' = [handler EXCEPT ![h].pc = "done", ![h].result = result]

\* The same before it has subscribed.
ReturnEarly(h, result) ==
    /\ handler' = [handler EXCEPT ![h].pc = "done", ![h].result = result]
    /\ UNCHANGED subs

-----------------------------------------------------------------------------
(* External: CListMempool.CheckTx. A transaction in the cache is an error, *)
(* and so is a full mempool; the application's verdict is known when the   *)
(* call returns, for the application is in the same process.               *)

CheckTxRefuses(tx) == UNCHANGED <<pool, seen>>

CheckTxAdmits(tx) ==
    /\ tx \notin seen
    /\ pool' = pool \cup {tx}
    /\ seen' = seen \cup {tx}

-----------------------------------------------------------------------------
(* BroadcastTxCommit                                                       *)

BroadcastTxCommit(h, client, tx) ==
    /\ handler[h].pc = "idle"
    /\ handler' = [handler EXCEPT ![h] =
          IF \/ NumClients >= MaxSubscriptionClients
             \/ NumClientSubscriptions(client) >= MaxSubscriptionsPerClient
          THEN [HandlerIdle EXCEPT !.pc = "done", !.result = "refused"]
          ELSE [HandlerIdle EXCEPT !.pc = "subscribe", !.key = <<client, tx>>]]
    /\ UNCHANGED <<pool, seen, chain, unsent, subs>>

\* A mutant: the handler submits first.
SubscribeLate(h) ==
    /\ handler[h].pc = "subscribe"
    /\ \/ CheckTxAdmits(handler[h].key[2])
       \/ handler[h].key[2] \in seen /\ UNCHANGED <<pool, seen>>
    /\ handler' = [handler EXCEPT ![h].pc = "wait", ![h].from = Len(chain)]
    /\ UNCHANGED <<chain, unsent, subs>>

\* The bus refuses a second subscription of a client to a transaction.
Subscribe(h) ==
    /\ handler[h].pc = "subscribe"
    /\ IF subs[handler[h].key] # Nil
       THEN ReturnEarly(h, "error")
       ELSE /\ subs' = [subs EXCEPT ![handler[h].key] = NewSub]
            /\ handler' = [handler EXCEPT ![h].pc = "check"]
    /\ UNCHANGED <<pool, seen, chain, unsent>>

CheckTxError(h) ==
    /\ handler[h].pc = "check"
    /\ CheckTxRefuses(handler[h].key[2])
    /\ HandlerReturn(h, "error")
    /\ UNCHANGED <<chain, unsent>>

\* The callback puts the verdict into a channel that has room for it.
CheckTxRejected(h) ==
    /\ handler[h].pc = "check"
    /\ handler[h].key[2] \notin seen
    /\ HandlerReturn(h, "rejected")
    /\ UNCHANGED <<pool, seen, chain, unsent>>

CheckTxOk(h) ==
    /\ handler[h].pc = "check"
    /\ CheckTxAdmits(handler[h].key[2])
    /\ handler' = [handler EXCEPT ![h].pc = "wait", ![h].from = Len(chain)]
    /\ UNCHANGED <<chain, unsent, subs>>

\* The request's context ends before the verdict is read.
ContextDone(h) ==
    /\ handler[h].pc = "check"
    /\ \/ CheckTxAdmits(handler[h].key[2])
       \/ handler[h].key[2] \notin seen /\ UNCHANGED <<pool, seen>>
    /\ HandlerReturn(h, "error")
    /\ UNCHANGED <<chain, unsent>>

Included(h) ==
    /\ handler[h].pc = "wait"
    /\ Sub(h) # Nil /\ Sub(h).out # Nil
    /\ subs' = [subs EXCEPT ![handler[h].key] = Nil]
    /\ handler' = [handler EXCEPT ![h].pc = "done", ![h].result = "included",
                                  ![h].height = Sub(h).out]
    /\ UNCHANGED <<pool, seen, chain, unsent>>

Canceled(h) ==
    /\ handler[h].pc = "wait"
    /\ Sub(h) # Nil /\ Sub(h).cancelled
    /\ HandlerReturn(h, "cancelled")
    /\ UNCHANGED <<pool, seen, chain, unsent>>

Timeout(h) ==
    /\ handler[h].pc = "wait"
    /\ HandlerReturn(h, "timeout")
    /\ UNCHANGED <<pool, seen, chain, unsent>>

\* The response is written and the goroutine is free for another request.
Done(h) ==
    /\ handler[h].pc = "done"
    /\ handler' = [handler EXCEPT ![h] = HandlerIdle]
    /\ UNCHANGED <<pool, seen, chain, unsent, subs>>

\* BroadcastTxSync and BroadcastTxAsync only give the transaction to the
\* mempool; with an error or a rejection nothing changes.
BroadcastTx(tx) ==
    /\ CheckTxAdmits(tx)
    /\ UNCHANGED <<chain, unsent, subs, handler>>

-----------------------------------------------------------------------------
(* The engine                                                              *)

\* BlockAccept: the mempool drops the transactions of the block, and forgets
\* the ones that failed. A block of another node may hold any transaction.
AcceptBlock ==
    /\ Len(chain) < TxBlocks /\ unsent = {}
    /\ \E T \in SUBSET Txs, F \in SUBSET Txs :
          /\ T # {} /\ F \subseteq T
          /\ chain' = Append(chain, T)
          /\ unsent' = T
          /\ pool' = pool \ T
          /\ seen' = (seen \cup T) \ F
    /\ UNCHANGED <<subs, handler>>

Delivered(sub, at) ==
    IF sub = Nil \/ sub.cancelled THEN sub
    ELSE IF sub.out = Nil THEN [sub EXCEPT !.out = at]
    ELSE [sub EXCEPT !.cancelled = TRUE]

\* fireEvents; external: the bus hands the message to every subscription.
PublishEventTx(tx) ==
    /\ tx \in unsent
    /\ unsent' = unsent \ {tx}
    /\ subs' = [k \in Keys |-> IF k[2] = tx THEN Delivered(subs[k], Len(chain))
                               ELSE subs[k]]
    /\ UNCHANGED <<pool, seen, chain, handler>>

-----------------------------------------------------------------------------
TxInit ==
    /\ pool = {} /\ seen = {} /\ chain = <<>> /\ unsent = {}
    /\ subs = [k \in Keys |-> Nil]
    /\ handler = [h \in Handlers |-> HandlerIdle]

HandlerStep(h) ==
    \/ Subscribe(h)
    \/ CheckTxError(h) \/ CheckTxRejected(h) \/ CheckTxOk(h) \/ ContextDone(h)
    \/ Included(h) \/ Canceled(h) \/ Timeout(h)
    \/ Done(h)

TxNext ==
    \/ \E h \in Handlers :
          \/ \E client \in Remotes, tx \in Txs : BroadcastTxCommit(h, client, tx)
          \/ HandlerStep(h)
    \/ \E tx \in Txs : BroadcastTx(tx) \/ PublishEventTx(tx)
    \/ AcceptBlock

TxSpec == TxInit /\ [][TxNext]_txVars

-----------------------------------------------------------------------------
\* A handler that waits has not missed its transaction: once a block that was
\* applied since the mempool took the transaction has been published, the
\* message is in the handler's subscription. It subscribes before it submits.
InclusionNotMissed ==
    \A h \in Handlers :
        handler[h].pc = "wait" /\ handler[h].key[2] \notin unsent
          /\ (\E i \in handler[h].from + 1 .. Len(chain) : handler[h].key[2] \in chain[i])
            => Sub(h) # Nil /\ Sub(h).out # Nil

\* A client that is given a height finds its transaction in that block. (It may
\* be an earlier copy that failed: a block updates the mempool before it is
\* published, and the client may submit in between.)
HeightIsRight ==
    \A h \in Handlers :
        handler[h].result = "included" =>
            /\ handler[h].height \in DOMAIN chain
            /\ handler[h].key[2] \in chain[handler[h].height]

\* Every subscription belongs to a handler that is running, so that clients
\* which come and go do not use up the limits of BroadcastTxCommit.
NoSubscriptionLeaks ==
    \A k \in Keys : subs[k] # Nil =>
        \E h \in Handlers : handler[h].pc \in {"check", "wait"} /\ handler[h].key = k

\* broadcast_tx_commit: a handler that waits has not missed its transaction, the
\* height that it answers has it, and its subscription ends with it.
CommitAnswersRight == InclusionNotMissed /\ HeightIsRight /\ NoSubscriptionLeaks

-----------------------------------------------------------------------------
(***************************************************************************)
(* Requests for warp signatures that reach this node: from a peer through  *)
(* the network (utils/evm/peer/network.go) and the handler of the VM       *)
(* (utils/evm/warp/handlers), from a peer through the SDK router           *)
(* (network/p2p/router.go, network/acp118), or from a client of the API    *)
(* (vm/warp_service.go). All of them ask the backend (warp/backend.go,     *)
(* warp/verifier_backend.go) whether the message may be signed, and then   *)
(* the node's signer, a remote call. Several requests are served at once,  *)
(* while messages are added, blocks are accepted and uptimes grow.         *)
(***************************************************************************)

CONSTANTS
    Requests,   \* bound: the requests that are made
    WarpBlocks,     \* IDs of blocks
    MaxUptime   \* bound: the uptime of the validator, in seconds

VARIABLES
    warpDB,    \* IDs of the messages in the backend's database
    warpAccepted,  \* accepted blocks that can be loaded
    uptime,    \* of the one validator that is known
    request,   \* per request: what it asks, and how far it is
    warpSigned,    \* messages that the signer has signed for a request
    stopped    \* an error has reached the node, which is fatal

warpVars == <<warpDB, warpAccepted, uptime, request, warpSigned, stopped>>

-----------------------------------------------------------------------------
(* Messages: an addressed call that a contract made, one about the uptime  *)
(* of a validator, a block hash, or a payload that does not parse. A call  *)
(* made off the chain has no source address.                               *)

NoArg == [validation |-> "none", total |-> 0, source |-> FALSE]

AddressedCall == [payload |-> "call", block |-> "none", arg |-> [NoArg EXCEPT !.source = TRUE]]
Hash(b) == [payload |-> "hash", block |-> b, arg |-> NoArg]
Unparsable == [payload |-> "junk", block |-> "none", arg |-> NoArg]
Uptime(v, t, s) ==
    [payload |-> "uptime", block |-> "none",
     arg |-> [validation |-> v, total |-> t, source |-> s]]

Messages ==
    {AddressedCall, Unparsable} \cup {Hash(b) : b \in WarpBlocks}
    \cup {Uptime(v, MaxUptime, s) : v \in {"known", "unknown"}, s \in BOOLEAN}

ErrNotFound == <<"not found">>
ParseErrCode == <<"parse error">>
VerifyErrCode == <<"verify error">>
Ok == <<>>

\* The database has no error for a missing key, but its empty value does not
\* parse; GetMessage wraps whatever goes wrong.
GetMessage(m) == IF m \in warpDB THEN Ok ELSE <<"failed to get", "not found">>

\* A known block is accepted when the height it claims holds its own ID.
GetAcceptedBlock(b) == IF b \in warpAccepted THEN Ok ELSE ErrNotFound

VerifyBlockMessage(b) == IF GetAcceptedBlock(b) = Ok THEN Ok ELSE VerifyErrCode

VerifyUptimeMessage(arg) ==
    IF arg.validation = "known" /\ uptime >= arg.total THEN Ok ELSE VerifyErrCode

\* The codec of the package messages has no types registered: Parse fails for
\* every payload, those of other implementations about an uptime included.
RegisteredTypes == {}

ParsePayload(m) == IF m.payload \in RegisteredTypes THEN Ok ELSE ParseErrCode

VerifyOffchainAddressedCall(m) ==
    IF ParsePayload(m) # Ok THEN ParseErrCode
    ELSE IF m.arg.source THEN VerifyErrCode
    ELSE VerifyUptimeMessage(m.arg)

VerifyPayload(m) ==
    CASE m.payload \in {"call", "uptime"} -> VerifyOffchainAddressedCall(m)
      [] m.payload = "hash" -> VerifyBlockMessage(m.block)
      [] OTHER -> ParseErrCode

\* A mutant: an addressed call that was never added is let through.
VerifyLax(m) ==
    IF m \in warpDB THEN Ok
    ELSE IF m.payload = "call" THEN Ok ELSE VerifyPayload(m)

Verify(m) ==
    LET err == GetMessage(m) IN
    IF err = Ok THEN Ok
    ELSE IF err # ErrNotFound THEN ParseErrCode
    ELSE VerifyPayload(m)

\* ValidateMessage: no known message is Signable.
ValidateMessage(m) == IF GetMessage(m) = Ok THEN Ok ELSE ParseErrCode

GetMessageSignature(m) == IF Verify(m) # Ok THEN Verify(m) ELSE ValidateMessage(m)

GetBlockSignature(m) == VerifyBlockMessage(m.block)

-----------------------------------------------------------------------------
(* What a request asks and what it gets. A signature that is missing is    *)
(* sent as zeros by the handler of the VM, as an error by the SDK handler. *)

Kinds ==
    {"message", "block",     \* MessageSignatureRequest, BlockSignatureRequest
     "acp118",               \* the SDK's SignatureRequest
     "unregistered",         \* for the SDK router, with no handler
     "api_add", "api_message", "api_block"}

RequestIdle == [pc |-> "idle", kind |-> "none", msg |-> Unparsable, answer |-> "none"]

FromPeer(r) == request[r].kind \in {"message", "block", "acp118", "unregistered"}

\* Whether the handler or the method of the API finds the message fit to sign.
OnMessageSignatureRequest(m) ==
    IF GetMessage(m) # Ok THEN GetMessage(m) ELSE GetMessageSignature(m)

OnBlockSignatureRequest(m) == GetBlockSignature(m)

SdkAppRequest(m) == Verify(m)

APIGetMessageSignature(m) ==
    IF GetMessage(m) # Ok THEN GetMessage(m) ELSE GetMessageSignature(m)

APIGetBlockSignature(m) == GetBlockSignature(m)

Checked(kind, m) ==
    CASE kind = "acp118" -> SdkAppRequest(m)
      [] kind = "message" -> OnMessageSignatureRequest(m)
      [] kind = "block" -> OnBlockSignatureRequest(m)
      [] kind = "api_message" -> APIGetMessageSignature(m)
      [] kind = "api_block" -> APIGetBlockSignature(m)
      [] OTHER -> Ok

Refusal(kind) ==
    CASE kind \in {"message", "block"} -> "zeros" [] OTHER -> "error"

WarpInit ==
    /\ warpDB = {} /\ warpAccepted = {} /\ uptime = 0
    /\ request = [r \in Requests |-> RequestIdle]
    /\ warpSigned = {}
    /\ stopped = FALSE

WarpAccept(b) ==
    /\ b \notin warpAccepted
    /\ warpAccepted' = warpAccepted \cup {b}
    /\ UNCHANGED <<warpDB, uptime, request, warpSigned, stopped>>

StayUp ==
    /\ uptime < MaxUptime
    /\ uptime' = uptime + 1
    /\ UNCHANGED <<warpDB, warpAccepted, request, warpSigned, stopped>>

AskSignature(r, kind, m) ==
    /\ request[r] = RequestIdle
    /\ kind \in {"block", "api_block"} => m.payload = "hash"
    /\ request' = [request EXCEPT ![r] =
                     [pc |-> "check", kind |-> kind, msg |-> m, answer |-> "none"]]
    /\ UNCHANGED <<warpDB, warpAccepted, uptime, warpSigned, stopped>>

\* calculateTimeUntilDeadline: a late request is dropped without an answer. The
\* SDK router does not look at the deadline.
Expire(r) ==
    /\ request[r].pc = "check" /\ request[r].kind \in {"message", "block"}
    /\ request' = [request EXCEPT ![r].pc = "done", ![r].answer = "expired"]
    /\ UNCHANGED <<warpDB, warpAccepted, uptime, warpSigned, stopped>>

\* AddMessage stores the message before it is signed.
Check(r) ==
    LET q == request[r] IN
    /\ q.pc = "check"
    /\ request' = [request EXCEPT
          ![r].pc = IF q.kind # "unregistered" /\ Checked(q.kind, q.msg) = Ok
                    THEN "sign" ELSE "send",
          ![r].answer = Refusal(q.kind)]
    /\ warpDB' = IF q.kind = "api_add" THEN warpDB \cup {q.msg} ELSE warpDB
    /\ UNCHANGED <<warpAccepted, uptime, warpSigned, stopped>>

\* AddMessage has its message signed to see that the signer works, and drops
\* the signature.
WarpSign(r) ==
    LET q == request[r] IN
    /\ q.pc = "sign"
    /\ \/ /\ request' = [request EXCEPT ![r].pc = "send", ![r].answer = "signature"]
          /\ warpSigned' = IF q.kind = "api_add" THEN warpSigned ELSE warpSigned \cup {q.msg}
       \/ /\ request' = [request EXCEPT ![r].pc = "send"]
          /\ UNCHANGED warpSigned
    /\ UNCHANGED <<warpDB, warpAccepted, uptime, stopped>>

\* SendAppResponse or SendAppError, whose error is returned to the node.
Send(r) ==
    /\ request[r].pc = "send"
    /\ request' = [request EXCEPT ![r].pc = "done"]
    /\ stopped' \in IF FromPeer(r) THEN BOOLEAN ELSE {FALSE}
    /\ UNCHANGED <<warpDB, warpAccepted, uptime, warpSigned>>

WarpNext ==
    /\ ~stopped
    /\ \/ \E b \in WarpBlocks : WarpAccept(b)
       \/ StayUp
       \/ \E r \in Requests :
             \/ \E kind \in Kinds, m \in Messages : AskSignature(r, kind, m)
             \/ Expire(r) \/ Check(r) \/ WarpSign(r) \/ Send(r)

WarpSpec == WarpInit /\ [][WarpNext]_warpVars

-----------------------------------------------------------------------------
\* A request only obtains a signature of a message that was added to the
\* backend, of an accepted block, or of an uptime that the validator has had,
\* whichever of the three ways the request came by and whatever happened
\* between the check and the signature.
SignedRight ==
    \A m \in warpSigned :
        \/ m \in warpDB
        \/ m.payload = "hash" /\ m.block \in warpAccepted
        \/ m.payload = "uptime" /\ m.arg.validation = "known" /\ ~m.arg.source
              /\ uptime >= m.arg.total
=============================================================================
