---------------------------- MODULE LandslideVM ----------------------------
(***************************************************************************)
(* The block life cycle of the plugin VM (vm/vm.go): the handlers that the *)
(* consensus engine calls to build, parse, fetch, verify, accept and       *)
(* reject blocks, the five block caches of WrappedBlocksStorage            *)
(* (vm/types/state/wrapped_block.go), and the goroutines that fetch an     *)
(* accepted block in order to sign it (warp/block_client.go).              *)
(*                                                                         *)
(* The engine calls one handler at a time; the signing goroutines run      *)
(* beside it, so GetBlock is a procedure of several steps that any thread  *)
(* runs while every other handler is one step of the engine.               *)
(***************************************************************************)
EXTENDS Integers, FiniteSets

CONSTANTS
    Blocks,         \* block IDs: a hash fixes a block's whole contents
    Genesis,        \* the block that Initialize makes at height 1
    Parent,         \* Header.LastBlockID of every block
    Height,         \* Header.Height of every block
    WellFormed,     \* blocks whose other header fields pass ValidateBlock
    Own,            \* blocks that this node would be the proposer of
    RetainHeights,  \* ResponseCommit.RetainHeight values of the application
    Room,           \* how many blocks fit in DecidedBlocks or UnverifiedBlocks
    BytesRoom,      \* how many keys fit in BytesToIDCache
    RPCs,           \* goroutines that serve a block-signature request
    Engine,         \* the thread of the consensus engine
    None            \* nil

ASSUME ChainAssumption ==
    /\ Genesis \in Blocks
    /\ Parent \in [Blocks -> Blocks \cup {None}]
    /\ Height \in [Blocks -> Nat]
    /\ WellFormed \subseteq Blocks
    /\ Own \subseteq Blocks \ {Genesis}
    /\ RetainHeights \subseteq Nat

ASSUME ThreadAssumption == Engine \notin RPCs

VARIABLES
    accepted,    \* every block that was ever applied and saved
    base,        \* lowest height that blockStore still holds
    last,        \* vm.state.LastBlockID; LastBlockHeight is Height[last]
    built,       \* blocks of Own that BuildBlock has made
    verified,    \* VerifiedBlocks
    decided,     \* DecidedBlocks
    unverified,  \* UnverifiedBlocks
    missing,     \* MissingBlocks
    bytesToID,   \* keys of BytesToIDCache
    call,        \* per thread: where it is in GetBlock, and its locals
    signed       \* blocks that a signing goroutine accepted for signing

storeVars == <<accepted, base, last>>
cacheVars == <<verified, decided, unverified, missing, bytesToID>>
vars == <<storeVars, built, cacheVars, call, signed>>

-----------------------------------------------------------------------------
Threads == {Engine} \cup RPCs

Status == {"PROCESSING", "ACCEPTED", "REJECTED"}

\* What EncodeBlockWithStatus writes: the block, and the status it had at the
\* node that encoded it.
Bytes == Blocks \X Status

\* A *WrappedBlock. "by" is the place that allocated it: two cache entries for
\* one block with the same "by" are the same pointer.
Wrapper == [status : Status, by : {"parse", "verify", "load", "accept"}]

ASSUME NoneAssumption == None \notin Blocks \cup Wrapper

Cache == [Blocks -> Wrapper \cup {None}]

EmptyCache == [b \in Blocks |-> None]

Wrapped(s, by) == [status |-> s, by |-> by]

Idle == [pc |-> "idle", blk |-> None, w |-> None]

\* The contents of blockStore.
Stored == {b \in accepted : Height[b] >= base}

LoadBlock(h) == {b \in Stored : Height[b] = h}

\* The caches that a Put on a sizedLRU may leave behind: an entry larger than
\* the whole cache flushes it; otherwise any number of the other entries go.
\* The order in which they go is the subject of module Caches.
SizedPut(c, b, w) ==
    {EmptyCache} \cup
    {[x \in Blocks |-> IF x = b THEN w ELSE IF x \in K THEN c[x] ELSE None] :
        K \in {K \in SUBSET {x \in Blocks : c[x] # None} :
                  Cardinality(K \cup {b}) <= Room}}

\* The same for the keys of BytesToIDCache, which is a sizedLRU too.
SizedPutKey(S, k) ==
    {{}} \cup {K \cup {k} : K \in {K \in SUBSET S :
                                    Cardinality(K \cup {k}) <= BytesRoom}}

\* A Put on an LRU drops at most its oldest key.
LRUPut(S, k) == {S \cup {k}} \cup {(S \ {x}) \cup {k} : x \in S}

GetCachedBlock(b) ==
    IF verified[b] # None THEN verified[b]
    ELSE IF decided[b] # None THEN decided[b]
    ELSE unverified[b]

\* Store a wrapped block in the cache that its status selects.
PutByStatus(b, w) ==
    \/ /\ w.status \in {"ACCEPTED", "REJECTED"}
       /\ decided' \in SizedPut(decided, b, w)
       /\ UNCHANGED unverified
    \/ /\ w.status = "PROCESSING"
       /\ unverified' \in SizedPut(unverified, b, w)
       /\ UNCHANGED decided

EvictMissing(b) == missing' = missing \ {b}

\* A mutant: a decided block stays in the map.
DeleteVerifiedForgotten(b) == UNCHANGED verified

DeleteVerified(b) == verified' = [verified EXCEPT ![b] = None]

EvictUnverified(b) == unverified' = [unverified EXCEPT ![b] = None]

\* A mutant: the block is compared with its parent instead of the state.
ValidateBlockWithParent(b) ==
    /\ b \in WellFormed
    /\ Parent[b] \in accepted
    /\ Height[b] = Height[Parent[b]] + 1

ValidateBlock(b) ==
    /\ b \in WellFormed
    /\ Height[b] = Height[last] + 1
    /\ Parent[b] = last

\* A block that exists somewhere in the network.
Exists(b) == b \in built \/ b \notin Own

EngineIdle == call[Engine].pc = "idle"

-----------------------------------------------------------------------------
(* Handlers of the engine's thread.                                        *)

\* The proposal extends the last accepted block, whatever block is preferred.
\* Its commit holds random bytes, so its hash is new.
BuildBlock(b) ==
    /\ EngineIdle
    /\ b \in Own \ built
    /\ Parent[b] = last
    /\ Height[b] = Height[last] + 1
    /\ built' = built \cup {b}
    /\ unverified' \in SizedPut(unverified, b, Wrapped("PROCESSING", "parse"))
    /\ EvictMissing(b)
    /\ UNCHANGED <<storeVars, verified, decided, bytesToID, call, signed>>

\* Bytes whose ID is cached are not decoded: if the block itself has left the
\* caches there is no status to file it under, and the call fails.
ParseBlock(b, s) ==
    /\ EngineIdle
    /\ Exists(b)
    /\ IF <<b, s>> \in bytesToID
       THEN UNCHANGED bytesToID
       ELSE bytesToID' \in SizedPutKey(bytesToID, <<b, s>>)
    /\ IF GetCachedBlock(b) = None /\ <<b, s>> \notin bytesToID
       THEN /\ PutByStatus(b, Wrapped(s, "parse"))
            /\ EvictMissing(b)
       ELSE UNCHANGED <<decided, unverified, missing>>
    /\ UNCHANGED <<storeVars, built, verified, call, signed>>

\* A mutant: the block stays in the bounded cache.
BlockVerifyEvictable(b, s) ==
    /\ EngineIdle
    /\ Exists(b)
    /\ ValidateBlock(b)
    /\ unverified' \in SizedPut(unverified, b, Wrapped(s, "verify"))
    /\ UNCHANGED <<storeVars, built, verified, decided, missing, bytesToID,
                   call, signed>>

BlockVerify(b, s) ==
    /\ EngineIdle
    /\ Exists(b)
    /\ ValidateBlock(b)
    /\ EvictUnverified(b)
    /\ verified' = [verified EXCEPT ![b] = Wrapped(s, "verify")]
    /\ UNCHANGED <<storeVars, built, decided, missing, bytesToID, call, signed>>

\* A mutant: the retain height is not compared with the store's height.
PruneBlocksUnbounded(r) == base' = IF r > base THEN r ELSE base

\* pruneBlocks runs before the new block is saved; a retain height above the
\* store's height is an error that is only logged.
PruneBlocks(r) == base' = IF r > base /\ r <= Height[last] THEN r ELSE base

BlockAccept(b) ==
    /\ EngineIdle
    /\ GetCachedBlock(b) # None
    /\ ValidateBlock(b)
    /\ \E r \in RetainHeights : PruneBlocks(r)
    /\ accepted' = accepted \cup {b}
    /\ last' = b
    /\ DeleteVerified(b)
    /\ EvictMissing(b)
    /\ EvictUnverified(b)
    /\ decided' \in SizedPut(decided, b, Wrapped("ACCEPTED", "accept"))
    /\ UNCHANGED <<built, bytesToID, call, signed>>

\* ApplyBlock returns the error of FinalizeBlock, of a result too many or too few,
\* of validator updates that are refused, or of Commit, and BlockAccept returns
\* it with vm.state and the caches as they were. (A panic in ApplyBlock, and a
\* failure of the stores, stop the process: Restart, and module Recovery.)
BlockAcceptFails(b) ==
    /\ EngineIdle
    /\ GetCachedBlock(b) # None
    /\ UNCHANGED vars

\* The status is written through the pointer, so every holder of the same
\* wrapper sees it; UnverifiedBlocks is not told to evict. A goroutine may hold
\* the same wrapper, or an older one that has left the caches since.
BlockReject(b) ==
    LET w == GetCachedBlock(b)
        Rejected(v) == IF v # None /\ v.by = w.by
                       THEN [v EXCEPT !.status = "REJECTED"] ELSE v
    IN  /\ EngineIdle
        /\ w # None
        /\ DeleteVerified(b)
        /\ decided' \in SizedPut(decided, b, Rejected(w))
        /\ unverified' = [unverified EXCEPT ![b] = Rejected(@)]
        /\ \E H \in SUBSET RPCs :
              call' = [t \in Threads |->
                          IF t \in H /\ call[t].blk = b
                          THEN [call[t] EXCEPT !.w = Rejected(@)] ELSE call[t]]
        /\ UNCHANGED <<storeVars, built, missing, bytesToID, signed>>

-----------------------------------------------------------------------------
(* GetBlock, run by the engine or by a signing goroutine.                  *)

\* Only a signing goroutine goes on: GetAcceptedBlock asks for the block at
\* the height it was given. A miss answers height 0, where no block is.
Return(t, found) ==
    call' = [call EXCEPT ![t] = IF found /\ t \in RPCs
                                THEN [call[t] EXCEPT !.pc = "height"]
                                ELSE Idle]

GetBlock(t, b) ==
    /\ call[t].pc = "idle"
    /\ Exists(b)
    /\ LET w == GetCachedBlock(b)
       IN  \/ /\ w # None
              /\ call' = [call EXCEPT ![t] = [pc |-> "put", blk |-> b, w |-> w]]
           \/ /\ w = None
              /\ b \notin missing
              /\ call' = [call EXCEPT
                            ![t] = [pc |-> "load", blk |-> b, w |-> None]]
    /\ UNCHANGED <<storeVars, built, cacheVars, signed>>

LoadBlockByHash(t) ==
    /\ call[t].pc = "load"
    /\ call' = [call EXCEPT ![t] =
                  IF call[t].blk \in Stored
                  THEN [call[t] EXCEPT !.pc = "put",
                                       !.w = Wrapped("ACCEPTED", "load")]
                  ELSE [call[t] EXCEPT !.pc = "miss"]]
    /\ UNCHANGED <<storeVars, built, cacheVars, signed>>

PutMissing(t) ==
    /\ call[t].pc = "miss"
    /\ missing' \in LRUPut(missing, call[t].blk)
    /\ Return(t, FALSE)
    /\ UNCHANGED <<storeVars, built, verified, decided, unverified, bytesToID,
                   signed>>

PutFound(t) ==
    /\ call[t].pc = "put"
    /\ PutByStatus(call[t].blk, call[t].w)
    /\ Return(t, TRUE)
    /\ UNCHANGED <<storeVars, built, verified, missing, bytesToID, signed>>

\* A mutant: any block that GetBlock returned is signed.
GetBlockIDAtHeightUnchecked(t) ==
    /\ call[t].pc = "height"
    /\ signed' = signed \cup {call[t].blk}
    /\ call' = [call EXCEPT ![t] = Idle]
    /\ UNCHANGED <<storeVars, built, cacheVars>>

\* GetAcceptedBlock compares the stored ID with the one it was asked about.
GetBlockIDAtHeight(t) ==
    /\ call[t].pc = "height"
    /\ signed' = IF LoadBlock(Height[call[t].blk]) = {call[t].blk}
                 THEN signed \cup {call[t].blk} ELSE signed
    /\ call' = [call EXCEPT ![t] = Idle]
    /\ UNCHANGED <<storeVars, built, cacheVars>>

-----------------------------------------------------------------------------
\* The process stops outside BlockAccept, and Initialize loads the last block
\* from the stores. What a stop inside BlockAccept leaves behind is the subject
\* of module Recovery.
Restart ==
    /\ verified' = EmptyCache
    /\ decided' = EmptyCache
    /\ unverified' = EmptyCache
    /\ missing' = {}
    /\ bytesToID' = {}
    /\ call' = [t \in Threads |-> Idle]
    /\ UNCHANGED <<storeVars, built, signed>>

Init ==
    /\ accepted = {Genesis}
    /\ base = Height[Genesis]
    /\ last = Genesis
    /\ built = {}
    /\ verified = EmptyCache
    /\ decided = EmptyCache
    /\ unverified = EmptyCache
    /\ missing = {}
    /\ bytesToID = {}
    /\ call = [t \in Threads |-> Idle]
    /\ signed = {}

GetBlockStep(t) ==
    \/ \E b \in Blocks : GetBlock(t, b)
    \/ LoadBlockByHash(t)
    \/ PutMissing(t)
    \/ PutFound(t)

EngineNext ==
    \/ \E b \in Blocks : BuildBlock(b)
    \/ \E b \in Blocks, s \in Status : ParseBlock(b, s)
    \/ \E b \in Blocks, s \in Status : BlockVerify(b, s)
    \/ \E b \in Blocks : BlockAccept(b) \/ BlockAcceptFails(b)
    \/ \E b \in Blocks : BlockReject(b)
    \/ GetBlockStep(Engine)
    \/ Restart

RPCNext == \E t \in RPCs : GetBlockStep(t) \/ GetBlockIDAtHeight(t)

Next == EngineNext \/ RPCNext

\* The VM beside its signing goroutines, and the VM called by the engine only.
Spec == Init /\ [][Next]_vars
SerialSpec == Init /\ [][EngineNext]_vars

-----------------------------------------------------------------------------
Call == [pc : {"idle", "load", "miss", "put", "height"},
         blk : Blocks \cup {None}, w : Wrapper \cup {None}]

\* Every variable has its type; a thread that is inside GetBlock has a block,
\* and one that is about to cache what it found has its wrapper.
TypeOK ==
    /\ accepted \subseteq Blocks
    /\ base \in Nat
    /\ last \in Blocks
    /\ built \subseteq Own
    /\ verified \in Cache
    /\ decided \in Cache
    /\ unverified \in Cache
    /\ missing \subseteq Blocks
    /\ bytesToID \subseteq Bytes
    /\ call \in [Threads -> Call]
    /\ \A t \in Threads :
          /\ call[t].pc # "idle" => call[t].blk \in Blocks
          /\ call[t].pc = "put" => call[t].w \in Wrapper
    /\ signed \subseteq Blocks

\* Whatever handlers the engine calls, in whatever order, the accepted blocks
\* form one chain that ends in vm.state.LastBlockID: BlockAccept validates
\* against the state of the moment, so of two verified siblings only one can
\* ever be applied, and a block is never applied twice.
ChainLinear ==
    /\ last \in accepted
    /\ \A b \in accepted : Height[b] <= Height[last]
    /\ \A b, c \in accepted : Height[b] = Height[c] => b = c
    /\ \A b \in accepted \ {Genesis} :
          Parent[b] \in accepted /\ Height[b] = Height[Parent[b]] + 1

\* Pruning never opens a hole: blockStore.LoadBlock finds exactly one block at
\* every height from the base to the last accepted one, so SetState, Initialize
\* and GetBlockIDAtHeight never miss the last block.
StoreContiguous ==
    /\ base <= Height[last]
    /\ \A h \in base .. Height[last] : \E b \in Blocks : LoadBlock(h) = {b}

\* GetAcceptedBlock "only returns accepted blocks": whatever the caches say
\* about a block's status, and however the engine's calls fall between the
\* steps of the goroutine, a block that is signed was accepted.
SignedAccepted == signed \subseteq accepted

\* While calls are serialised, no block in the store is listed as missing, so
\* GetBlock finds every accepted block that was not pruned.
StoredNotMissing == Stored \cap missing = {}

\* A block that was accepted and not pruned is there for whoever asks: the store
\* has no hole below the last block, and no cache calls a stored block missing.
StoredAreServed == StoreContiguous /\ StoredNotMissing

\* Every step of the VM extends the chain by one block, signs an accepted
\* block, or is invisible to a client: the life cycle implements AcceptedChain.
Ledger == INSTANCE AcceptedChain WITH accepted <- accepted, last <- last, signed <- signed
ImplementsLedger == Ledger!Spec
=============================================================================
