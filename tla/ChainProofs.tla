---------------------------- MODULE ChainProofs ----------------------------
(***************************************************************************)
(* Proofs about the block life cycle (module LandslideVM) and about the VM *)
(* under the consensus engine (module SnowmanVM), for every block tree,    *)
(* every set of signing goroutines and caches of any size.                 *)
(*                                                                         *)
(* The first half assumes nothing about the order in which the engine      *)
(* calls the handlers. The second half is about the engine's decisions:    *)
(* VerifiedBlocks holds exactly the issued blocks, so the wrapper of a     *)
(* block in consensus cannot be evicted; and a block is only issued when   *)
(* it is a valid child of its parent, which is what acceptance checks      *)
(* again once the parent is the last accepted block.                       *)
(***************************************************************************)
EXTENDS SnowmanVM, TLAPS

USE ChainAssumption, ThreadAssumption, NoneAssumption

-----------------------------------------------------------------------------
(* The caches.                                                             *)

\* A Put on a sizedLRU leaves a cache behind.
LEMMA SizedPutType ==
    ASSUME NEW c \in Cache, NEW b \in Blocks, NEW w \in Wrapper
    PROVE  SizedPut(c, b, w) \subseteq Cache
<1> SUFFICES ASSUME NEW d \in SizedPut(c, b, w) PROVE d \in Cache
    OBVIOUS
<1>1. CASE d = EmptyCache
      BY <1>1 DEF Cache, EmptyCache
<1>2. CASE \E K \in SUBSET Blocks :
              d = [x \in Blocks |-> IF x = b THEN w
                                    ELSE IF x \in K THEN c[x] ELSE None]
      BY <1>2 DEF Cache
<1> QED
    BY <1>1, <1>2 DEF SizedPut

\* A Put on BytesToIDCache adds no key but its own.
LEMMA SizedPutKeyType ==
    ASSUME NEW S, NEW k
    PROVE  \A T \in SizedPutKey(S, k) : T \subseteq S \cup {k}
BY DEF SizedPutKey

\* A Put on an LRU adds no key but its own.
LEMMA LRUPutType ==
    ASSUME NEW S, NEW k
    PROVE  \A T \in LRUPut(S, k) : T \subseteq S \cup {k}
BY DEF LRUPut

\* GetCachedBlock returns a wrapper or nil.
LEMMA GetCachedBlockType ==
    ASSUME TypeOK, NEW b \in Blocks
    PROVE  GetCachedBlock(b) \in Wrapper \cup {None}
BY DEF TypeOK, GetCachedBlock, Cache

\* Filing a wrapped block by its status keeps both caches well typed.
LEMMA PutByStatusType ==
    ASSUME TypeOK, NEW b \in Blocks, NEW w \in Wrapper, PutByStatus(b, w)
    PROVE  decided' \in Cache /\ unverified' \in Cache
<1>1. decided \in Cache /\ unverified \in Cache
      BY DEF TypeOK
<1>2. SizedPut(decided, b, w) \subseteq Cache /\ SizedPut(unverified, b, w) \subseteq Cache
      BY <1>1, SizedPutType
<1> QED
    BY <1>1, <1>2 DEF PutByStatus

-----------------------------------------------------------------------------
(* Type correctness.                                                       *)

\* A *WrappedBlock made with one of the four allocation sites is well typed.
LEMMA WrappedType ==
    ASSUME NEW s \in Status, NEW by \in {"parse", "verify", "load", "accept"}
    PROVE  Wrapped(s, by) \in Wrapper
BY DEF Wrapped, Wrapper

\* The handlers of the engine keep every variable well typed.
LEMMA EngineType ==
    ASSUME TypeOK, NEW b \in Blocks, NEW s \in Status,
           BuildBlock(b) \/ ParseBlock(b, s) \/ BlockVerify(b, s)
               \/ BlockAccept(b) \/ Restart
    PROVE  TypeOK'
<1>1. CASE BuildBlock(b)
  <2>1. unverified' \in Cache
        BY <1>1, SizedPutType, WrappedType DEF BuildBlock, TypeOK, Status
  <2> QED
      BY <1>1, <2>1 DEF BuildBlock, TypeOK, storeVars, EvictMissing
<1>2. CASE ParseBlock(b, s)
  <2>1. decided' \in Cache /\ unverified' \in Cache /\ missing' \subseteq Blocks
    <3>1. CASE GetCachedBlock(b) = None /\ <<b, s>> \notin bytesToID
          BY <1>2, <3>1, PutByStatusType, WrappedType
             DEF ParseBlock, TypeOK, EvictMissing
    <3>2. CASE ~(GetCachedBlock(b) = None /\ <<b, s>> \notin bytesToID)
          BY <1>2, <3>2 DEF ParseBlock, TypeOK
    <3> QED
        BY <3>1, <3>2
  <2>2. bytesToID' \subseteq Bytes
        BY <1>2, SizedPutKeyType DEF ParseBlock, TypeOK, Bytes
  <2> QED
      BY <1>2, <2>1, <2>2 DEF ParseBlock, TypeOK, storeVars
<1>3. CASE BlockVerify(b, s)
  <2>1. verified' \in Cache /\ unverified' \in Cache
        BY <1>3, WrappedType DEF BlockVerify, TypeOK, Cache, EvictUnverified
  <2> QED
      BY <1>3, <2>1 DEF BlockVerify, TypeOK, storeVars
<1>4. CASE BlockAccept(b)
  <2>1. verified' \in Cache /\ unverified' \in Cache
        BY <1>4 DEF BlockAccept, TypeOK, Cache, DeleteVerified,
                    EvictUnverified
  <2>2. decided' \in Cache
        BY <1>4, SizedPutType, WrappedType DEF BlockAccept, TypeOK, Status
  <2>3. base' \in Nat
        BY <1>4 DEF BlockAccept, TypeOK, PruneBlocks
  <2> QED
      BY <1>4, <2>1, <2>2, <2>3 DEF BlockAccept, TypeOK, EvictMissing
<1>5. CASE Restart
  <2>1. EmptyCache \in Cache
        BY DEF EmptyCache, Cache
  <2>2. Idle \in Call
        BY DEF Idle, Call
  <2> QED
      BY <1>5, <2>1, <2>2 DEF Restart, TypeOK, storeVars, Idle
<1> QED
    BY <1>1, <1>2, <1>3, <1>4, <1>5

\* Rejecting a block writes through the shared wrappers and nothing else.
LEMMA RejectType ==
    ASSUME TypeOK, NEW b \in Blocks, BlockReject(b)
    PROVE  TypeOK'
<1> DEFINE w == GetCachedBlock(b)
           Rejected(v) == IF v # None /\ v.by = w.by
                          THEN [v EXCEPT !.status = "REJECTED"] ELSE v
<1>1. w \in Wrapper
      BY GetCachedBlockType DEF BlockReject
<1>2. \A v \in Wrapper \cup {None} : Rejected(v) \in Wrapper \cup {None}
      BY DEF Wrapper, Status
<1>3. \A v \in Wrapper : Rejected(v) \in Wrapper
      BY DEF Wrapper, Status
<1>4. verified' \in Cache
      BY DEF BlockReject, TypeOK, Cache, DeleteVerified
<1>5. decided' \in Cache
      BY <1>1, <1>3, SizedPutType DEF BlockReject, TypeOK
<1>6. unverified' \in Cache
      BY <1>2 DEF BlockReject, TypeOK, Cache
<1>7. /\ call' \in [Threads -> Call]
      /\ \A t \in Threads :
            /\ call'[t].pc # "idle" => call'[t].blk \in Blocks
            /\ call'[t].pc = "put" => call'[t].w \in Wrapper
  <2>1. PICK H \in SUBSET RPCs :
              call' = [t \in Threads |->
                          IF t \in H /\ call[t].blk = b
                          THEN [call[t] EXCEPT !.w = Rejected(@)] ELSE call[t]]
        BY DEF BlockReject
  <2>2. \A t \in Threads : call[t] \in Call
        BY DEF TypeOK
  <2> HIDE DEF Rejected
  <2> QED
      BY <2>1, <2>2, <1>2, <1>3 DEF TypeOK, Call
<1> QED
    BY <1>4, <1>5, <1>6, <1>7 DEF BlockReject, TypeOK, storeVars

\* The steps of GetBlock and of a signing goroutine keep every variable well
\* typed: a thread that reaches a Put has a block, and the wrapper to put.
LEMMA GetBlockType ==
    ASSUME TypeOK, NEW t \in Threads,
           GetBlockStep(t) \/ GetBlockIDAtHeight(t)
    PROVE  TypeOK'
<1>1. call[t] \in Call /\ Idle \in Call
      BY DEF TypeOK, Idle, Call
<1>2. ASSUME NEW b \in Blocks, GetBlock(t, b)
      PROVE  TypeOK'
  <2>1. GetCachedBlock(b) \in Wrapper \cup {None}
        BY GetCachedBlockType
  <2> QED
      BY <1>2, <2>1 DEF GetBlock, TypeOK, Call, storeVars, cacheVars
<1>3. CASE LoadBlockByHash(t)
  <2>1. Wrapped("ACCEPTED", "load") \in Wrapper
        BY WrappedType DEF Status
  <2>2. call[t].blk \in Blocks
        BY <1>3 DEF LoadBlockByHash, TypeOK
  <2>3. \/ call'[t] = [pc |-> "put", blk |-> call[t].blk,
                       w |-> Wrapped("ACCEPTED", "load")]
        \/ call'[t] = [pc |-> "miss", blk |-> call[t].blk, w |-> call[t].w]
        BY <1>1, <1>3 DEF LoadBlockByHash, TypeOK, Call
  <2>4. call'[t] \in Call
        BY <1>1, <2>1, <2>2, <2>3 DEF Call
  <2>5. call' = [call EXCEPT ![t] = call'[t]]
        BY <1>3 DEF LoadBlockByHash, TypeOK
  <2> QED
      BY <1>3, <2>1, <2>2, <2>3, <2>4, <2>5
         DEF LoadBlockByHash, TypeOK, storeVars, cacheVars
<1>4. ASSUME NEW found \in BOOLEAN, Return(t, found),
             found => call[t].pc = "put"
      PROVE  /\ call' \in [Threads -> Call]
             /\ \A u \in Threads :
                   /\ call'[u].pc # "idle" => call'[u].blk \in Blocks
                   /\ call'[u].pc = "put" => call'[u].w \in Wrapper
  <2>1. \/ call'[t] = Idle
        \/ found /\ call'[t] = [pc |-> "height", blk |-> call[t].blk,
                                w |-> call[t].w]
        BY <1>1, <1>4 DEF Return, TypeOK, Call
  <2>2. call' = [call EXCEPT ![t] = call'[t]]
        BY <1>4 DEF Return, TypeOK
  <2>3. call'[t] \in Call
        BY <1>1, <2>1 DEF Call
  <2> QED
      BY <1>4, <2>1, <2>2, <2>3 DEF TypeOK, Idle
<1>5. CASE PutMissing(t)
  <2>1. call[t].blk \in Blocks
        BY <1>5 DEF PutMissing, TypeOK
  <2>2. missing' \subseteq Blocks
        BY <1>5, <2>1, LRUPutType DEF PutMissing, TypeOK
  <2> QED
      BY <1>4, <1>5, <2>2 DEF PutMissing, TypeOK, storeVars
<1>6. CASE PutFound(t)
  <2>1. call[t].blk \in Blocks /\ call[t].w \in Wrapper
        BY <1>6 DEF PutFound, TypeOK
  <2>2. decided' \in Cache /\ unverified' \in Cache
        BY <1>6, <2>1, PutByStatusType DEF PutFound
  <2> QED
      BY <1>4, <1>6, <2>2 DEF PutFound, TypeOK, storeVars
<1>7. CASE GetBlockIDAtHeight(t)
  <2>1. call[t].blk \in Blocks
        BY <1>7 DEF GetBlockIDAtHeight, TypeOK
  <2> QED
      BY <1>1, <1>7, <2>1
         DEF GetBlockIDAtHeight, TypeOK, Idle, storeVars, cacheVars
<1> QED
    BY <1>2, <1>3, <1>5, <1>6, <1>7 DEF GetBlockStep

\* A BlockAccept that fails leaves everything as it was.
LEMMA FailStutters == ASSUME NEW b, BlockAcceptFails(b) PROVE UNCHANGED vars
BY DEF BlockAcceptFails

\* Every step keeps every variable well typed.
LEMMA NextType == TypeOK /\ [Next]_vars => TypeOK'
<1> SUFFICES ASSUME TypeOK, [Next]_vars PROVE TypeOK'
    OBVIOUS
<1>0. ASSUME UNCHANGED vars PROVE TypeOK'
      BY <1>0 DEF vars, storeVars, cacheVars, TypeOK
<1>1. CASE EngineNext
  <2>1. Engine \in Threads /\ "ACCEPTED" \in Status
        BY DEF Threads, Status
  <2> QED
      BY <1>0, <1>1, <2>1, FailStutters, EngineType, RejectType, GetBlockType, ChainAssumption
         DEF EngineNext
<1>2. CASE RPCNext
      BY <1>2, GetBlockType DEF RPCNext, Threads
<1> QED
    BY <1>0, <1>1, <1>2 DEF Next

\* An idle VM with empty caches is well typed.
LEMMA InitType == Init => TypeOK
BY DEF Init, TypeOK, EmptyCache, Cache, Idle, Call

\* Every variable of the VM has its type in every reachable state.
THEOREM TypeCorrect == Spec => []TypeOK
BY InitType, NextType, PTL DEF Spec

-----------------------------------------------------------------------------
(* The chain.                                                              *)

\* The only step that touches the stores is BlockAccept.
LEMMA StoreSteps ==
    ASSUME [Next]_vars
    PROVE  UNCHANGED storeVars \/ \E b \in Blocks : BlockAccept(b)
<1>1. CASE UNCHANGED vars
      BY <1>1 DEF vars
<1>2. ASSUME NEW t \in Threads, GetBlockStep(t) \/ GetBlockIDAtHeight(t)
      PROVE  UNCHANGED storeVars
      BY <1>2 DEF GetBlockStep, GetBlock, LoadBlockByHash, PutMissing, PutFound,
                  GetBlockIDAtHeight
<1>3. CASE EngineNext
      BY <1>2, <1>3, FailStutters
         DEF EngineNext, BuildBlock, ParseBlock, BlockVerify, BlockReject, Restart,
             Threads, vars
<1>4. CASE RPCNext
      BY <1>2, <1>4 DEF RPCNext, Threads
<1> QED
    BY <1>1, <1>3, <1>4 DEF Next

\* ChainLinear is not inductive alone: StoreContiguous also needs that no
\* height between the genesis block and the last one was skipped.
ChainInv ==
    /\ ChainLinear
    /\ base \in Height[Genesis] .. Height[last]
    /\ \A b \in accepted : Height[Genesis] <= Height[b]
    /\ \A h \in Height[Genesis] .. Height[last] :
          \E b \in accepted : Height[b] = h

\* Accepting a block that passes ValidateBlock keeps the chain a chain.
LEMMA AcceptChain ==
    ASSUME TypeOK, ChainInv, NEW b \in Blocks, BlockAccept(b)
    PROVE  ChainInv'
<1>1. /\ accepted' = accepted \cup {b}
      /\ last' = b
      /\ Height[b] = Height[last] + 1
      /\ Parent[b] = last
      BY DEF BlockAccept, ValidateBlock
<1>2. /\ accepted \subseteq Blocks /\ last \in accepted /\ base \in Nat
      /\ \A x \in Blocks : Height[x] \in Nat
      BY DEF TypeOK, ChainInv, ChainLinear
<1>3. ChainLinear'
  <2>1. \A x \in accepted : Height[x] <= Height[last]
        BY DEF ChainInv, ChainLinear
  <2>2. \A x \in accepted' : Height[x] <= Height[last']
        BY <1>1, <1>2, <2>1
  <2>3. \A x, y \in accepted' : Height[x] = Height[y] => x = y
        BY <1>1, <1>2, <2>1 DEF ChainInv, ChainLinear
  <2>4. \A x \in accepted' \ {Genesis} :
           Parent[x] \in accepted' /\ Height[x] = Height[Parent[x]] + 1
        BY <1>1, <1>2 DEF ChainInv, ChainLinear
  <2> QED
      BY <1>1, <2>2, <2>3, <2>4 DEF ChainLinear
<1>4. base' \in Height[Genesis] .. Height[last']
      BY <1>1, <1>2 DEF BlockAccept, PruneBlocks, ChainInv
<1>5. \A x \in accepted' : Height[Genesis] <= Height[x]
      BY <1>1, <1>2 DEF ChainInv
<1>6. \A h \in Height[Genesis] .. Height[last'] :
         \E x \in accepted' : Height[x] = h
  <2> SUFFICES ASSUME NEW h \in Height[Genesis] .. Height[last']
               PROVE  \E x \in accepted' : Height[x] = h
      OBVIOUS
  <2>1. CASE h = Height[b]
        BY <1>1, <2>1
  <2>2. CASE h # Height[b]
    <3>1. h \in Height[Genesis] .. Height[last]
          BY <1>1, <1>2, <2>2
    <3> QED
        BY <1>1, <3>1 DEF ChainInv
  <2> QED
      BY <2>1, <2>2
<1> QED
    BY <1>3, <1>4, <1>5, <1>6 DEF ChainInv

\* The chain invariant holds in every reachable state.
THEOREM ChainInvariance == Spec => []ChainInv
<1>1. Init => ChainInv
      BY DEF Init, ChainInv, ChainLinear
<1>2. TypeOK /\ ChainInv /\ [Next]_vars => ChainInv'
  <2> SUFFICES ASSUME TypeOK, ChainInv, [Next]_vars PROVE ChainInv'
      OBVIOUS
  <2>1. CASE UNCHANGED storeVars
        BY <2>1 DEF storeVars, ChainInv, ChainLinear
  <2> QED
      BY <2>1, StoreSteps, AcceptChain
<1> QED
    BY <1>1, <1>2, TypeCorrect, PTL DEF Spec

\* Whatever the engine calls, and in whatever order, the accepted blocks form
\* one chain that ends in vm.state.LastBlockID.
THEOREM ChainAlwaysLinear == Spec => []ChainLinear
<1>1. ChainInv => ChainLinear
      BY DEF ChainInv
<1> QED
    BY <1>1, ChainInvariance, PTL

\* The store holds exactly one block at every height from its base to the last
\* accepted height, however the application prunes it.
THEOREM StoreAlwaysContiguous == Spec => []StoreContiguous
<1>1. TypeOK /\ ChainInv => StoreContiguous
  <2> SUFFICES ASSUME TypeOK, ChainInv PROVE StoreContiguous
      OBVIOUS
  <2>1. /\ accepted \subseteq Blocks /\ last \in Blocks /\ base \in Nat
        /\ \A x \in Blocks : Height[x] \in Nat
        /\ base \in Height[Genesis] .. Height[last]
        BY DEF TypeOK, ChainInv
  <2>2. ASSUME NEW h \in base .. Height[last]
        PROVE  \E b \in Blocks : LoadBlock(h) = {b}
    <3>1. h \in Height[Genesis] .. Height[last] /\ h >= base
          BY <2>1
    <3>2. PICK b \in accepted : Height[b] = h
          BY <3>1 DEF ChainInv
    <3>3. \A x \in accepted : Height[x] = h => x = b
          BY <3>2 DEF ChainInv, ChainLinear
    <3>4. LoadBlock(h) = {b}
          BY <3>1, <3>2, <3>3 DEF LoadBlock, Stored
    <3> QED
        BY <2>1, <3>2, <3>4
  <2> QED
      BY <2>1, <2>2 DEF StoreContiguous
<1> QED
    BY <1>1, TypeCorrect, ChainInvariance, PTL

-----------------------------------------------------------------------------
(* Signatures, and the refinement.                                         *)

\* The only step that adds a signature is the goroutine's height check, which
\* found the block in the store.
LEMMA SignSteps ==
    ASSUME TypeOK, [Next]_vars
    PROVE  \/ UNCHANGED signed
           \/ /\ \E b \in accepted : signed' = signed \cup {b}
              /\ UNCHANGED storeVars
<1>1. CASE UNCHANGED vars
      BY <1>1 DEF vars
<1>2. ASSUME NEW t \in Threads, GetBlockStep(t)
      PROVE  UNCHANGED signed
      BY <1>2 DEF GetBlockStep, GetBlock, LoadBlockByHash, PutMissing, PutFound
<1>3. CASE EngineNext
      BY <1>2, <1>3, FailStutters
         DEF EngineNext, BuildBlock, ParseBlock, BlockVerify, BlockAccept, BlockReject,
             Restart, Threads, vars
<1>4. ASSUME NEW t \in RPCs, GetBlockIDAtHeight(t)
      PROVE  \/ UNCHANGED signed
             \/ /\ \E b \in accepted : signed' = signed \cup {b}
                /\ UNCHANGED storeVars
  <2>1. LoadBlock(Height[call[t].blk]) \subseteq accepted
        BY DEF LoadBlock, Stored
  <2> QED
      BY <1>4, <2>1 DEF GetBlockIDAtHeight
<1>5. CASE RPCNext
      BY <1>2, <1>4, <1>5 DEF RPCNext, Threads
<1> QED
    BY <1>1, <1>3, <1>5 DEF Next

\* Only accepted blocks are signed, whatever the caches say of their status
\* and however the engine's calls interleave with the goroutine.
THEOREM SignedAlwaysAccepted == Spec => []SignedAccepted
<1>1. Init => SignedAccepted
      BY DEF Init, SignedAccepted
<1>2. TypeOK /\ SignedAccepted /\ [Next]_vars => SignedAccepted'
  <2> SUFFICES ASSUME TypeOK, SignedAccepted, [Next]_vars
               PROVE  SignedAccepted'
      OBVIOUS
  <2>1. accepted \subseteq accepted'
        BY StoreSteps DEF storeVars, BlockAccept
  <2> QED
      BY <2>1, SignSteps DEF SignedAccepted
<1> QED
    BY <1>1, <1>2, TypeCorrect, PTL DEF Spec

\* The block life cycle, with all its caches and threads, implements the
\* abstract chain: every step extends it by one child of its last block, signs
\* one accepted block, or changes nothing that a client can see.
THEOREM Refinement == Spec => ImplementsLedger
<1>1. Init => Ledger!Init
      BY DEF Init, Ledger!Init
<1>2. TypeOK /\ ChainInv /\ [Next]_vars => [Ledger!Next]_Ledger!chainVars
  <2> SUFFICES ASSUME TypeOK, ChainInv, [Next]_vars
               PROVE  [Ledger!Next]_Ledger!chainVars
      OBVIOUS
  <2>1. ASSUME NEW b \in Blocks, BlockAccept(b)
        PROVE  Ledger!Extend(b)
    <3>1. b \notin accepted
      <4>1. \A x \in accepted : Height[x] <= Height[last]
            BY DEF ChainInv, ChainLinear
      <4>2. Height[b] = Height[last] + 1 /\ Height[last] \in Nat
            BY <2>1 DEF BlockAccept, ValidateBlock, TypeOK
      <4> QED
          BY <4>1, <4>2
    <3> QED
        BY <2>1, <3>1 DEF BlockAccept, ValidateBlock, Ledger!Extend
  <2>2. CASE \E b \in Blocks : BlockAccept(b)
        BY <2>1, <2>2 DEF Ledger!Next
  <2>3. CASE UNCHANGED storeVars
    <3>1. CASE UNCHANGED signed
          BY <2>3, <3>1 DEF storeVars, Ledger!chainVars
    <3>2. CASE \E b \in accepted : signed' = signed \cup {b}
          BY <2>3, <3>2 DEF storeVars, Ledger!Next, Ledger!Sign, TypeOK
    <3> QED
        BY <3>1, <3>2, SignSteps
  <2> QED
      BY <2>2, <2>3, StoreSteps
<1> QED
    BY <1>1, <1>2, TypeCorrect, ChainInvariance, PTL
       DEF Spec, ImplementsLedger, Ledger!Spec

-----------------------------------------------------------------------------
(* MissingBlocks, when the engine is the only caller.                      *)

\* What the engine's own GetBlock knows between its store lookup and its Put.
MissIsStillMissing ==
    call[Engine].pc = "miss" => call[Engine].blk \notin Stored

\* A serialised step keeps stored blocks out of MissingBlocks: BlockAccept
\* evicts what it stores, and GetBlock cannot be overtaken.
LEMMA SerialStep ==
    ASSUME TypeOK, StoredNotMissing, MissIsStillMissing, [EngineNext]_vars
    PROVE  StoredNotMissing' /\ MissIsStillMissing'
<1> USE DEF StoredNotMissing, MissIsStillMissing, Stored, storeVars, cacheVars
<1>0. Engine \in Threads
      BY DEF Threads
<1>1. ASSUME NEW b \in Blocks, BuildBlock(b)
      PROVE  StoredNotMissing' /\ MissIsStillMissing'
      BY <1>1 DEF BuildBlock, EvictMissing
<1>2. ASSUME NEW b \in Blocks, NEW s \in Status, ParseBlock(b, s)
      PROVE  StoredNotMissing' /\ MissIsStillMissing'
      BY <1>2 DEF ParseBlock, EvictMissing
<1>3. ASSUME NEW b \in Blocks, NEW s \in Status, BlockVerify(b, s)
      PROVE  StoredNotMissing' /\ MissIsStillMissing'
      BY <1>3 DEF BlockVerify
<1>4. ASSUME NEW b \in Blocks, BlockAccept(b)
      PROVE  StoredNotMissing' /\ MissIsStillMissing'
  <2>1. base \in Nat /\ base' \in Nat /\ base' >= base
        BY <1>4 DEF BlockAccept, PruneBlocks, TypeOK
  <2>2. \A x \in accepted : Height[x] \in Nat
        BY DEF TypeOK
  <2>3. Stored' \subseteq Stored \cup {b}
        BY <1>4, <2>1, <2>2 DEF BlockAccept
  <2>4. missing' = missing \ {b} /\ call'[Engine].pc = "idle"
        BY <1>4 DEF BlockAccept, EvictMissing, EngineIdle
  <2> QED
      BY <2>3, <2>4
<1>5. ASSUME NEW b \in Blocks, BlockReject(b)
      PROVE  StoredNotMissing' /\ MissIsStillMissing'
  <2>1. call'[Engine].pc = "idle"
        BY <1>0, <1>5 DEF BlockReject, EngineIdle, TypeOK, Call
  <2> QED
      BY <1>5, <2>1 DEF BlockReject
<1>6. ASSUME NEW b \in Blocks, GetBlock(Engine, b)
      PROVE  StoredNotMissing' /\ MissIsStillMissing'
      BY <1>0, <1>6 DEF GetBlock, TypeOK
<1>7. CASE LoadBlockByHash(Engine)
  <2>1. call[Engine] \in Call
        BY <1>0 DEF TypeOK
  <2>2. call'[Engine].pc = "miss" => call'[Engine].blk \notin Stored
        BY <1>0, <1>7, <2>1 DEF LoadBlockByHash, TypeOK, Call
  <2> QED
      BY <1>7, <2>2 DEF LoadBlockByHash
<1>8. CASE PutMissing(Engine)
  <2>1. call'[Engine].pc = "idle"
        BY <1>0, <1>8 DEF PutMissing, Return, Idle, TypeOK
  <2>2. missing' \subseteq missing \cup {call[Engine].blk}
        BY <1>8, LRUPutType DEF PutMissing
  <2>3. Stored' = Stored /\ call[Engine].blk \notin Stored
        BY <1>8 DEF PutMissing
  <2> QED
      BY <2>1, <2>2, <2>3
<1>9. CASE PutFound(Engine)
  <2>1. call'[Engine].pc = "idle"
        BY <1>0, <1>9 DEF PutFound, Return, Idle, TypeOK
  <2> QED
      BY <1>9, <2>1 DEF PutFound
<1>10. CASE Restart
       BY <1>0, <1>10 DEF Restart, Idle
<1>11. ASSUME UNCHANGED vars PROVE StoredNotMissing' /\ MissIsStillMissing'
       BY <1>11 DEF vars
<1> QED
    BY <1>1, <1>2, <1>3, <1>4, <1>5, <1>6, <1>7, <1>8, <1>9, <1>10, <1>11, FailStutters
       DEF EngineNext, GetBlockStep

\* While the engine's calls are serialised and nobody else calls GetBlock, no
\* block that the store holds is ever listed as missing.
THEOREM StoredNeverMissing == SerialSpec => []StoredNotMissing
<1>1. Init => TypeOK /\ StoredNotMissing /\ MissIsStillMissing
  <2>1. Init => TypeOK
        BY InitType
  <2> QED
      BY <2>1 DEF Init, StoredNotMissing, MissIsStillMissing, Idle, Threads
<1>2. TypeOK /\ [EngineNext]_vars => TypeOK'
      BY NextType DEF Next
<1>3. /\ TypeOK /\ StoredNotMissing /\ MissIsStillMissing
      /\ [EngineNext]_vars
      => StoredNotMissing' /\ MissIsStillMissing'
      BY SerialStep
<1> QED
    BY <1>1, <1>2, <1>3, PTL DEF SerialSpec

\* While the engine's calls are serialised, a block that was accepted and not
\* pruned is there for whoever asks: at every height from the base to the last
\* one there is one block, and MissingBlocks names none of them.
THEOREM StoredAlwaysServed == SerialSpec => []StoredAreServed
<1>1. SerialSpec => Spec
  <2>1. [EngineNext]_vars => [Next]_vars
        BY DEF Next
  <2> QED
      BY <2>1, PTL DEF SerialSpec, Spec
<1>2. StoreContiguous /\ StoredNotMissing => StoredAreServed
      BY DEF StoredAreServed
<1> QED
    BY <1>1, <1>2, StoreAlwaysContiguous, StoredNeverMissing, PTL

-----------------------------------------------------------------------------
(* The engine's decisions.                                                 *)

\* An issued block passed the checks of ValidateBlock that do not depend on the
\* state.
IssuedValid ==
    \A b \in issued : b \in WellFormed /\ Height[b] = Height[Parent[b]] + 1

IssueInv == TypeOK /\ issued \subseteq Blocks /\ VerifiedIsIssued /\ IssuedValid

\* Nothing is issued at first.
LEMMA InitIssue == SnowmanInit => IssueInv
<1> SUFFICES ASSUME SnowmanInit PROVE IssueInv
    OBVIOUS
<1>1. TypeOK
      BY InitType DEF SnowmanInit
<1> QED
    BY <1>1 DEF SnowmanInit, Init, IssueInv, VerifiedIsIssued, IssuedValid,
                EmptyCache

\* So does one that the engine has decided on.
LEMMA AcceptFailStutters == ASSUME NEW b, AcceptFails(b) PROVE UNCHANGED allVars
BY DEF AcceptFails, BlockAcceptFails, allVars

\* A step of the composition is a step of the VM.
LEMMA StepIsVMStep == [SnowmanNext]_allVars => [Next]_vars
BY DEF SnowmanNext, SnowmanEngine, Build, Parse, Issue, Accept, AcceptFails, Reject, Get,
       RestartNode, Sign, Next, EngineNext, RPCNext, allVars

\* Steps that neither verify nor decide leave VerifiedBlocks alone.
LEMMA OtherSteps ==
    ASSUME \/ \E b \in Blocks : BuildBlock(b)
           \/ \E b \in Blocks, s \in Status : ParseBlock(b, s)
           \/ GetBlockStep(Engine) \/ RPCNext
    PROVE  UNCHANGED verified
BY DEF BuildBlock, ParseBlock, RPCNext, GetBlockStep, GetBlock, LoadBlockByHash,
       PutMissing, PutFound, GetBlockIDAtHeight, cacheVars

\* Issuing, accepting and rejecting keep VerifiedBlocks equal to the issued blocks,
\* and no other step touches either.
LEMMA StepIssue == IssueInv /\ [SnowmanNext]_allVars => IssueInv'
<1> SUFFICES ASSUME IssueInv, [SnowmanNext]_allVars PROVE IssueInv'
    OBVIOUS
<1>0. TypeOK'
      BY StepIsVMStep, NextType DEF IssueInv
<1> USE <1>0 DEF IssueInv
<1>1. ASSUME UNCHANGED <<verified, issued>> PROVE IssueInv'
      BY <1>1 DEF VerifiedIsIssued, IssuedValid
<1>2. CASE Build \/ Parse \/ Get \/ Sign
      BY <1>1, <1>2, OtherSteps DEF Build, Parse, Get, Sign, engineVars
<1>3. ASSUME NEW b \in Blocks, Issue(b) PROVE IssueInv'
  <2>1. PICK s \in Status : BlockVerify(b, s)
        BY <1>3 DEF Issue
  <2>2. verified' = [verified EXCEPT ![b] = Wrapped(s, "verify")]
        BY <2>1 DEF BlockVerify
  <2>3. Wrapped(s, "verify") # None
        BY WrappedType, NoneAssumption
  <2>4. VerifiedIsIssued'
        BY <1>3, <2>2, <2>3 DEF Issue, VerifiedIsIssued, TypeOK, Cache
  <2>5. IssuedValid'
        BY <1>3, <2>1 DEF Issue, BlockVerify, ValidateBlock, IssuedValid
  <2> QED
      BY <1>3, <2>4, <2>5 DEF Issue
<1>4. ASSUME NEW b \in Blocks, Accept(b) \/ Reject(b) PROVE IssueInv'
  <2>1. DeleteVerified(b) /\ issued' = issued \ {b}
        BY <1>4 DEF Accept, Reject, BlockAccept, BlockReject
  <2>2. VerifiedIsIssued'
        BY <2>1 DEF DeleteVerified, VerifiedIsIssued, TypeOK, Cache
  <2> QED
      BY <2>1, <2>2 DEF IssuedValid
<1>5. CASE RestartNode
      BY <1>5 DEF RestartNode, Restart, EmptyCache, VerifiedIsIssued, IssuedValid
<1>6. ASSUME UNCHANGED allVars PROVE IssueInv'
      BY <1>1, <1>6 DEF allVars, engineVars, vars, cacheVars
<1> QED
    BY <1>2, <1>3, <1>4, <1>5, <1>6, AcceptFailStutters DEF SnowmanNext, SnowmanEngine

\* VerifiedBlocks, the only cache that is not bounded, holds the blocks in
\* consensus and nothing else, with any number of signing goroutines.
THEOREM VerifiedAlwaysIssued == SnowmanSpec => []VerifiedIsIssued
<1>1. IssueInv => VerifiedIsIssued
      BY DEF IssueInv
<1> QED
    BY InitIssue, StepIssue, <1>1, PTL DEF SnowmanSpec

\* BlockAccept and BlockReject never fail on a decision of the engine, whatever
\* the bounded caches have evicted.
THEOREM DecisionsAlwaysSucceed == SnowmanSpec => []DecisionsSucceed
<1>1. IssueInv => DecisionsSucceed
  <2> SUFFICES ASSUME IssueInv, NEW b \in Blocks
               PROVE  /\ MayAccept(b) => GetCachedBlock(b) # None /\ ValidateBlock(b)
                      /\ MayReject(b) => GetCachedBlock(b) # None
      BY DEF DecisionsSucceed
  <2>1. b \in issued => GetCachedBlock(b) # None
        BY DEF IssueInv, VerifiedIsIssued, GetCachedBlock
  <2> QED
      BY <2>1 DEF IssueInv, IssuedValid, MayAccept, MayReject, Conflicts,
                  ValidateBlock
<1> QED
    BY InitIssue, StepIssue, <1>1, PTL DEF SnowmanSpec

-----------------------------------------------------------------------------
(* Stale wrappers, when the engine is the only caller.                     *)

\* A wrapper of a block that is not in consensus: what BlockVerify made says
\* that it was rejected.
Settled(b, w) == w # None /\ w.by = "verify" /\ b \notin issued => w.status = "REJECTED"

\* VerifiedBlocks has what BlockVerify made; the wrappers in the two bounded
\* caches, and the one that the engine's GetBlock is about to file, are settled.
StaleInv ==
    /\ \A b \in Blocks : verified[b] # None => verified[b].by = "verify"
    /\ \A b \in Blocks : Settled(b, decided[b]) /\ Settled(b, unverified[b])
    /\ call[Engine].pc = "put" => Settled(call[Engine].blk, call[Engine].w)

\* A Put on a sizedLRU writes one entry and keeps or drops each of the others.
LEMMA SizedPutEntry ==
    ASSUME NEW c, NEW b \in Blocks, NEW w, NEW d \in SizedPut(c, b, w), NEW x \in Blocks
    PROVE  \/ d[x] = None
           \/ x = b /\ d[x] = w
           \/ x # b /\ d[x] = c[x]
BY DEF SizedPut, EmptyCache

\* A Put of a settled wrapper leaves a cache of settled wrappers.
LEMMA SizedPutSettled ==
    ASSUME NEW c, NEW b \in Blocks, NEW w, NEW d \in SizedPut(c, b, w),
           \A x \in Blocks : Settled(x, c[x]),
           Settled(b, w)
    PROVE  \A x \in Blocks : Settled(x, d[x])
BY SizedPutEntry DEF Settled

\* PutByStatus keeps the two caches settled, if what it files is.
LEMMA PutByStatusSettled ==
    ASSUME NEW b \in Blocks, NEW w, PutByStatus(b, w), Settled(b, w),
           \A x \in Blocks : Settled(x, decided[x]) /\ Settled(x, unverified[x]),
           UNCHANGED issued
    PROVE  \A x \in Blocks : Settled(x, decided[x])' /\ Settled(x, unverified[x])'
<1>1. CASE decided' \in SizedPut(decided, b, w) /\ UNCHANGED unverified
      BY <1>1, SizedPutSettled DEF Settled
<1>2. CASE unverified' \in SizedPut(unverified, b, w) /\ UNCHANGED decided
      BY <1>2, SizedPutSettled DEF Settled
<1> QED
    BY <1>1, <1>2 DEF PutByStatus

\* GetCachedBlock answers with a settled wrapper.
LEMMA CachedSettled ==
    ASSUME IssueInv, StaleInv, NEW b \in Blocks
    PROVE  Settled(b, GetCachedBlock(b))
BY DEF IssueInv, VerifiedIsIssued, StaleInv, Settled, GetCachedBlock

\* The steps of the engine's GetBlock.
LEMMA GetStale ==
    ASSUME IssueInv, StaleInv, Get
    PROVE  StaleInv'
<1> USE DEF engineVars, storeVars, cacheVars
<1>0. TypeOK /\ Engine \in Threads /\ UNCHANGED issued
      BY DEF Get, IssueInv, Threads
<1>1. ASSUME NEW b \in Blocks, GetBlock(Engine, b) PROVE StaleInv'
  <2>1. UNCHANGED <<verified, decided, unverified>>
        BY <1>1 DEF GetBlock
  <2>2. CASE call'[Engine].pc = "put"
    <3>1. call'[Engine].blk = b /\ call'[Engine].w = GetCachedBlock(b)
          BY <1>0, <1>1, <2>2 DEF GetBlock, TypeOK
    <3>2. Settled(b, GetCachedBlock(b))
          BY CachedSettled
    <3>3. Settled(call[Engine].blk, call[Engine].w)'
          BY <1>0, <3>1, <3>2 DEF Settled
    <3> QED
        BY <1>0, <2>1, <3>3 DEF StaleInv, Settled
  <2>3. CASE call'[Engine].pc # "put"
        BY <1>0, <2>1, <2>3 DEF StaleInv, Settled
  <2> QED
      BY <2>2, <2>3
<1>2. ASSUME LoadBlockByHash(Engine) PROVE StaleInv'
  <2>1. UNCHANGED <<verified, decided, unverified>>
        BY <1>2 DEF LoadBlockByHash
  <2>2. call'[Engine].pc = "put" => call'[Engine].w.by = "load"
        BY <1>0, <1>2 DEF LoadBlockByHash, TypeOK, Call, Wrapped
  <2> QED
      BY <1>0, <2>1, <2>2 DEF StaleInv, Settled
<1>3. ASSUME NEW found, Return(Engine, found) PROVE call'[Engine].pc # "put"
      BY <1>0, <1>3 DEF Return, TypeOK, Idle, Call
<1>4. ASSUME PutMissing(Engine) PROVE StaleInv'
      BY <1>0, <1>3, <1>4 DEF PutMissing, StaleInv, Settled
<1>5. ASSUME PutFound(Engine) PROVE StaleInv'
  <2>1. call[Engine].blk \in Blocks
        BY <1>0, <1>5 DEF PutFound, TypeOK
  <2>2. /\ UNCHANGED verified
        /\ PutByStatus(call[Engine].blk, call[Engine].w)
        /\ call'[Engine].pc # "put"
        BY <1>3, <1>5 DEF PutFound
  <2>3. Settled(call[Engine].blk, call[Engine].w)
        BY <1>5 DEF PutFound, StaleInv
  <2>4. \A x \in Blocks : Settled(x, decided[x])' /\ Settled(x, unverified[x])'
        BY <1>0, <2>1, <2>2, <2>3, PutByStatusSettled DEF StaleInv
  <2> QED
      BY <2>2, <2>4 DEF StaleInv
<1> QED
    BY <1>1, <1>2, <1>4, <1>5 DEF Get, GetBlockStep

\* BlockReject writes "rejected" through the wrapper that BlockVerify made.
LEMMA RejectStale ==
    ASSUME IssueInv, StaleInv, NEW b \in Blocks, Reject(b)
    PROVE  StaleInv'
<1> DEFINE w == GetCachedBlock(b)
           Rejected(v) == IF v # None /\ v.by = w.by
                          THEN [v EXCEPT !.status = "REJECTED"] ELSE v
<1>1. b \in issued /\ w = verified[b] /\ w # None /\ w.by = "verify" /\ w \in Wrapper
      BY DEF Reject, MayReject, Conflicts, IssueInv, VerifiedIsIssued, StaleInv,
             GetCachedBlock, TypeOK, Cache
<1>2. /\ EngineIdle
      /\ verified' = [verified EXCEPT ![b] = None]
      /\ decided' \in SizedPut(decided, b, Rejected(w))
      /\ unverified' = [unverified EXCEPT ![b] = Rejected(@)]
      /\ issued' = issued \ {b}
      BY DEF Reject, BlockReject, DeleteVerified
<1>3. call'[Engine] = call[Engine]
      BY ChainAssumption DEF Reject, BlockReject, Threads
<1> USE DEF IssueInv, TypeOK, Cache, Wrapper
<1>4. Rejected(w) = [status |-> "REJECTED", by |-> "verify"]
      BY <1>1
<1>5. \A x \in Blocks : Settled(x, decided[x])'
  <2> SUFFICES ASSUME NEW x \in Blocks PROVE Settled(x, decided[x])'
      OBVIOUS
  <2>1. \/ decided'[x] = None
        \/ x = b /\ decided'[x] = Rejected(w)
        \/ x # b /\ decided'[x] = decided[x]
        BY <1>2, SizedPutEntry
  <2> HIDE DEF w, Rejected
  <2>2. CASE decided'[x] = None
        BY <2>2 DEF Settled
  <2>3. CASE x = b /\ decided'[x] = Rejected(w)
        BY <1>4, <2>3 DEF Settled
  <2>4. CASE x # b /\ decided'[x] = decided[x]
    <3>1. Settled(x, decided[x])
          BY DEF StaleInv
    <3>2. x \in issued' <=> x \in issued
          BY <1>2, <2>4
    <3> QED
        BY <2>4, <3>1, <3>2 DEF Settled
  <2> QED
      BY <2>1, <2>2, <2>3, <2>4
<1>6. \A x \in Blocks : Settled(x, unverified[x])'
  <2>1. unverified[b] # None /\ unverified[b].by = "verify" =>
           unverified'[b].status = "REJECTED"
        BY <1>1, <1>2
  <2>2. unverified'[b] # None => unverified[b] # None /\ unverified'[b].by = unverified[b].by
        BY <1>2
  <2>3. \A x \in Blocks \ {b} : unverified'[x] = unverified[x]
        BY <1>2
  <2> HIDE DEF w, Rejected
  <2> QED
      BY <1>2, <2>1, <2>2, <2>3 DEF StaleInv, Settled
<1> QED
    BY <1>2, <1>3, <1>5, <1>6 DEF StaleInv, EngineIdle

\* The other handlers leave what BlockVerify made alone, or evict it.
LEMMA HandlerStale ==
    ASSUME IssueInv, StaleInv, Build \/ Parse
    PROVE  StaleInv'
<1>1. EngineIdle /\ UNCHANGED <<verified, call, issued>>
      BY DEF Build, Parse, BuildBlock, ParseBlock, engineVars
<1>2. \A b \in Blocks, s \in Status : Settled(b, Wrapped(s, "parse"))
      BY DEF Settled, Wrapped
<1>3. \A x \in Blocks : Settled(x, decided[x])' /\ Settled(x, unverified[x])'
  <2> DEFINE All == \A x \in Blocks : Settled(x, decided[x]) /\ Settled(x, unverified[x])
  <2> SUFFICES All'
      OBVIOUS
  <2>1. CASE UNCHANGED <<decided, unverified>>
        BY <1>1, <2>1 DEF StaleInv, Settled
  <2>2. ASSUME NEW b \in Blocks, NEW s \in Status, PutByStatus(b, Wrapped(s, "parse"))
        PROVE  All'
        BY <1>1, <1>2, <2>2, PutByStatusSettled DEF StaleInv
  <2>3. CASE Build
    <3>1. PICK b \in Blocks : BuildBlock(b)
          BY <2>3 DEF Build
    <3>2. PutByStatus(b, Wrapped("PROCESSING", "parse"))
          BY <3>1 DEF BuildBlock, PutByStatus, Wrapped
    <3> QED
        BY <2>2, <3>2 DEF Status
  <2>4. CASE Parse
    <3>1. PICK b \in Blocks, s \in Status : ParseBlock(b, s)
          BY <2>4 DEF Parse
    <3> QED
        BY <2>1, <2>2, <3>1 DEF ParseBlock
  <2> QED
      BY <2>3, <2>4
<1> QED
    BY <1>1, <1>3 DEF StaleInv, EngineIdle

\* Every step of the engine keeps the wrappers settled.
LEMMA StepStale ==
    ASSUME IssueInv, StaleInv, [SnowmanEngine]_allVars
    PROVE  StaleInv'
<1>1. ASSUME NEW b \in Blocks, Issue(b) PROVE StaleInv'
  <2>1. PICK s \in Status : BlockVerify(b, s)
        BY <1>1 DEF Issue
  <2>2. /\ EngineIdle /\ UNCHANGED <<decided, call>>
        /\ verified' = [verified EXCEPT ![b] = Wrapped(s, "verify")]
        /\ unverified' = [unverified EXCEPT ![b] = None]
        /\ issued' = issued \cup {b}
        BY <1>1, <2>1 DEF Issue, BlockVerify, EvictUnverified
  <2>3. Wrapped(s, "verify").by = "verify"
        BY DEF Wrapped
  <2> QED
      BY <2>2, <2>3 DEF StaleInv, Settled, EngineIdle, IssueInv, TypeOK, Cache
<1>2. ASSUME NEW b \in Blocks, Accept(b) PROVE StaleInv'
  <2>1. /\ EngineIdle /\ UNCHANGED call
        /\ verified' = [verified EXCEPT ![b] = None]
        /\ decided' \in SizedPut(decided, b, Wrapped("ACCEPTED", "accept"))
        /\ unverified' = [unverified EXCEPT ![b] = None]
        /\ issued' = issued \ {b}
        BY <1>2 DEF Accept, BlockAccept, DeleteVerified, EvictUnverified
  <2>2. Wrapped("ACCEPTED", "accept").by # "verify"
        BY DEF Wrapped
  <2>3. \A x \in Blocks : Settled(x, decided[x])'
    <3> SUFFICES ASSUME NEW x \in Blocks PROVE Settled(x, decided[x])'
        OBVIOUS
    <3>1. \/ decided'[x] = None
          \/ x = b /\ decided'[x] = Wrapped("ACCEPTED", "accept")
          \/ x # b /\ decided'[x] = decided[x]
          BY <2>1, SizedPutEntry
    <3> QED
        BY <2>1, <2>2, <3>1 DEF StaleInv, Settled
  <2> QED
      BY <2>1, <2>3 DEF StaleInv, Settled, EngineIdle, IssueInv, TypeOK, Cache
<1>3. ASSUME RestartNode PROVE StaleInv'
  <2>1. \A b \in Blocks : verified'[b] = None /\ decided'[b] = None /\ unverified'[b] = None
        BY <1>3 DEF RestartNode, Restart, EmptyCache
  <2>2. call'[Engine].pc = "idle"
        BY <1>3 DEF RestartNode, Restart, Idle, Threads
  <2> QED
      BY <2>1, <2>2 DEF StaleInv, Settled
<1>4. ASSUME UNCHANGED allVars PROVE StaleInv'
      BY <1>4 DEF StaleInv, Settled, allVars, engineVars, vars, cacheVars
<1> QED
    BY <1>1, <1>2, <1>3, <1>4, HandlerStale, GetStale, RejectStale, AcceptFailStutters
       DEF SnowmanEngine

\* As long as the engine is the only caller, VerifiedBlocks holds the issued
\* blocks and nothing else, and no wrapper that BlockVerify made goes on saying
\* "processing" in UnverifiedBlocks after the block's decision: GetBlock files a
\* wrapper of consensus there, BlockAccept evicts it and BlockReject writes
\* through it. (A goroutine that holds the wrapper meanwhile can file it later.)
THEOREM CachesAlwaysFollow == SnowmanSerialSpec => []CachesFollowConsensus
<1>1. SnowmanInit => StaleInv
      BY DEF SnowmanInit, Init, StaleInv, Settled, EmptyCache, Idle, Threads
<1>2. [SnowmanEngine]_allVars => [SnowmanNext]_allVars
      BY DEF SnowmanNext
<1>3. IssueInv /\ StaleInv /\ [SnowmanEngine]_allVars => IssueInv' /\ StaleInv'
      BY <1>2, StepIssue, StepStale
<1>4. IssueInv /\ StaleInv => CachesFollowConsensus
      BY DEF IssueInv, StaleInv, Settled, CachesFollowConsensus, NoStaleProcessing
<1> QED
    BY InitIssue, <1>1, <1>3, <1>4, PTL DEF SnowmanSerialSpec

\* What serialised calls of the handlers promise in any order, they promise in
\* the order of the engine: every stored block is served.
COROLLARY StoredAlwaysServedSnowman == SnowmanSerialSpec => []StoredAreServed
<1>1. [SnowmanEngine]_allVars => [EngineNext]_vars
      BY DEF SnowmanEngine, EngineNext, Build, Parse, Get, RestartNode, Issue, Accept,
             AcceptFails, Reject, allVars
<1>2. SnowmanSerialSpec => SerialSpec
      BY <1>1, PTL DEF SnowmanSerialSpec, SnowmanInit, SerialSpec
<1> QED
    BY <1>2, StoredAlwaysServed, PTL
=============================================================================
