---------------------------- MODULE ServingProofs ---------------------------
(***************************************************************************)
(* Proofs about what the VM serves (module Serving), for any number of     *)
(* handlers, requests, transactions and blocks: the RPC methods that read  *)
(* in pieces, broadcast_tx_commit, and the requests for warp signatures.   *)
(***************************************************************************)
EXTENDS Serving, TLAPS

-----------------------------------------------------------------------------
(* Serving, the methods that read in pieces                                *)

\* The block store offers only what it has.
OffersInv ==
    /\ storeBase \in Nat /\ height \in Nat /\ applied \in Nat
    /\ 0 < storeBase /\ storeBase <= height
    /\ applied \in {height, height + 1}
    /\ storeBase .. height \subseteq saved

\* A height that was checked is not above the latest one.
Asked(h) == h \in Int /\ h <= height

\* What was loaded for a height is its block, or nothing, for it was pruned.
Piece(x, h) == x = h \/ (x = Nil /\ h < storeBase)

CommitFor(c, h) == c # Nil => c.of = h /\ (~c.seen => h < height)

\* What a method has read, at each of its steps.
ReadSoFar ==
    /\ reader.pc \in {"block", "commit"} /\ reader.height # Nil => Asked(reader.height)
    /\ reader.pc = "meta" => Asked(reader.height) /\ Piece(reader.block, reader.height)
    /\ reader.pc = "hash" => reader.height \in Int /\ reader.block = reader.height
    /\ reader.pc = "which" => Asked(reader.height) /\ reader.header = reader.height
    /\ reader.pc = "flag" =>
          Asked(reader.height) /\ reader.header = reader.height
          /\ CommitFor(reader.commit, reader.height)
    /\ reader.pc = "latest" =>
          reader.earliest = Nil \/ (reader.earliest \in Int /\ reader.earliest <= height)
    /\ reader.pc = "hash of" =>
          /\ Asked(reader.latest)
          /\ \/ reader.earliest = Nil
             \/ reader.earliest \in Int /\ reader.earliest <= reader.latest

\* What it has answered.
AnswersInv ==
    LET r == reader.result IN
    /\ Answered("block") =>
          r.height \in Int /\ Piece(r.block, r.height) /\ r.id \in {r.height, Nil}
    /\ Answered("commit") /\ r.commit # Nil =>
          r.commit.of = r.header /\ (~r.commit.seen => r.canonical)
    /\ Answered("status") =>
          /\ r.latest \in Int /\ Piece(r.id, r.latest)
          /\ r.earliest = Nil \/ r.earliest <= r.latest
    /\ Answered("tx") => r.proof \in {r.tx, Nil}

ReadsInv == OffersInv /\ ReadSoFar /\ AnswersInv

\* Initialize has saved the first block.
LEMMA ReadsInitInv == ReadsInit => ReadsInv
<1> SUFFICES ASSUME ReadsInit PROVE ReadsInv
    OBVIOUS
<1>1. OffersInv
      BY DEF ReadsInit, OffersInv
<1>2. reader.pc = "idle"
      BY DEF ReadsInit, ReaderIdle
<1> QED
    BY <1>1, <1>2 DEF ReadsInv, ReadSoFar, AnswersInv, Answered

\* Blocks that are applied, saved and pruned meanwhile falsify nothing that was read.
LEMMA StoreMoves ==
    ASSUME ReadsInv, OffersInv', storeBase <= storeBase', height <= height', UNCHANGED reader
    PROVE  ReadsInv'
<1>1. /\ storeBase \in Int /\ storeBase' \in Int /\ height \in Int /\ height' \in Int
      BY DEF ReadsInv, OffersInv
<1>2. ASSUME NEW h, Asked(h) PROVE Asked(h)'
      BY <1>1, <1>2 DEF Asked
<1>3. ASSUME NEW x, NEW h \in Int, Piece(x, h) PROVE Piece(x, h)'
      BY <1>1, <1>3 DEF Piece
<1>4. ASSUME NEW c, NEW h, Asked(h), CommitFor(c, h) PROVE CommitFor(c, h)'
      BY <1>1, <1>4 DEF CommitFor, Asked
<1>5. ReadSoFar'
  <2>1. reader.pc \in {"block", "commit"} /\ reader.height # Nil => Asked(reader.height)'
        BY <1>2 DEF ReadsInv, ReadSoFar
  <2>2. reader.pc = "meta" => Asked(reader.height)' /\ Piece(reader.block, reader.height)'
        BY <1>2, <1>3 DEF ReadsInv, ReadSoFar, Asked
  <2>3. reader.pc = "which" => Asked(reader.height)'
        BY <1>2 DEF ReadsInv, ReadSoFar
  <2>4. reader.pc = "flag" => Asked(reader.height)' /\ CommitFor(reader.commit, reader.height)'
        BY <1>2, <1>4 DEF ReadsInv, ReadSoFar
  <2>5. reader.pc = "latest" =>
           reader.earliest = Nil \/ (reader.earliest \in Int /\ reader.earliest <= height')
        BY <1>1 DEF ReadsInv, ReadSoFar
  <2>6. reader.pc = "hash of" => Asked(reader.latest)'
        BY <1>2 DEF ReadsInv, ReadSoFar
  <2> QED
      BY <2>1, <2>2, <2>3, <2>4, <2>5, <2>6 DEF ReadsInv, ReadSoFar, Asked, Piece, CommitFor
<1>6. AnswersInv'
  <2>1. Answered("block") => Piece(reader.result.block, reader.result.height)'
        BY <1>3 DEF ReadsInv, AnswersInv
  <2>2. Answered("status") => Piece(reader.result.id, reader.result.latest)'
        BY <1>3 DEF ReadsInv, AnswersInv
  <2> QED
      BY <2>1, <2>2 DEF ReadsInv, AnswersInv, Answered, Piece
<1> QED
    BY <1>5, <1>6 DEF ReadsInv

\* BlockAccept beside the methods.
LEMMA StoreSteps ==
    ASSUME ReadsInv, BlockApplied \/ BlockSaved \/ RaiseHeight \/ Index \/ Receive
    PROVE  ReadsInv'
<1> USE DEF OffersInv
<1>1. OffersInv' /\ storeBase <= storeBase' /\ height <= height' /\ UNCHANGED reader
  <2>1. CASE BlockApplied
    <3>1. PICK retain \in {storeBase} \cup (storeBase + 1 .. height) :
              storeBase' = retain /\ saved' = {h \in saved : h >= retain}
          BY <2>1 DEF BlockApplied
    <3> QED
        BY <2>1, <3>1 DEF BlockApplied, ReadsInv
  <2>2. CASE BlockSaved \/ Index \/ Receive
        BY <2>2 DEF BlockSaved, Index, Receive, ReadsInv
  <2>3. CASE RaiseHeight
        BY <2>3 DEF RaiseHeight, ReadsInv
  <2> QED
      BY <2>1, <2>2, <2>3
<1> QED
    BY <1>1, StoreMoves

\* A height that the store still offers is loaded.
LEMMA Loaded == ASSUME OffersInv, NEW h, Asked(h) PROVE Piece(Load(h), h)
BY DEF OffersInv, Asked, Piece, Load

\* A step of a method, which leaves the stores as they are.
LEMMA MethodSteps ==
    ASSUME ReadsInv,
           \/ \E h \in Heights : \/ AskRPC(h) \/ ByHashLoad(h)
                                 \/ \E prove \in BOOLEAN : TxGet(h, prove)
           \/ AskRPC(Nil) \/ Refuse
           \/ BlockLoad \/ BlockMeta \/ ByHashMeta \/ CommitMeta \/ CommitLoad \/ CommitFlag
           \/ StatusBase \/ StatusLatest \/ StatusMeta \/ TxProve
           \/ UnconfirmedTxs(Limit) \/ NumUnconfirmedTxs \/ Total \/ ConsensusParams
           \/ Forget
    PROVE  ReadsInv'
<1>1. UNCHANGED <<storeBase, height, saved, applied>>
      BY DEF AskRPC, ByHashLoad, TxGet, Refuse, BlockLoad, BlockMeta, ByHashMeta, CommitMeta,
             CommitLoad, CommitFlag, StatusBase, StatusLatest, StatusMeta, TxProve,
             UnconfirmedTxs, NumUnconfirmedTxs, Total, ConsensusParams, Forget, Step, ReadReturns
<1> Nil \notin Int
    BY ServeAssumption
<1>2. OffersInv /\ OffersInv' /\ ReadSoFar /\ AnswersInv
      BY <1>1 DEF ReadsInv, OffersInv
<1> SUFFICES ReadSoFar' /\ AnswersInv'
    BY <1>2 DEF ReadsInv
<1>a. reader'.pc # "done" => AnswersInv'
      BY DEF AnswersInv, Answered
<1>b. reader'.pc = "done" => ReadSoFar'
      BY DEF ReadSoFar
<1>c. reader'.pc = "done" /\ reader'.op \notin {"block", "commit", "status", "tx"} => AnswersInv'
      BY DEF AnswersInv, Answered
<1> USE DEF Step, ReadReturns
<1>3. ASSUME NEW h, h \in Heights \/ h = Nil, AskRPC(h) PROVE ReadSoFar' /\ AnswersInv'
  <2>1. PICK pc \in {"block", "commit"} : reader' = [pc |-> pc, height |-> GetHeight(h)]
        BY <1>3 DEF AskRPC
  <2>2. GetHeight(h) # Nil => Asked(GetHeight(h))
        BY <1>2, <1>3 DEF GetHeight, Asked, OffersInv, Heights
  <2> QED
      BY <1>1, <2>1, <2>2 DEF ReadSoFar, AnswersInv, Answered, Asked
<1>4. CASE \/ Refuse \/ UnconfirmedTxs(Limit) \/ NumUnconfirmedTxs \/ Total
           \/ ConsensusParams \/ Forget
  <2>1. \/ reader'.pc \in {"total", "idle"}
        \/ reader'.pc = "done" /\ reader'.op \in {"error", "txs", "params"}
        BY <1>4 DEF Refuse, UnconfirmedTxs, NumUnconfirmedTxs, Total, ConsensusParams, Forget,
                    ReaderIdle
  <2> QED
      BY <2>1 DEF ReadSoFar, AnswersInv, Answered
<1>5. CASE BlockLoad
      BY <1>1, <1>2, <1>5, Loaded DEF BlockLoad, ReadSoFar, AnswersInv, Answered, Asked, Piece
<1>6. CASE BlockMeta
  <2>1. /\ Asked(reader.height) /\ Piece(reader.block, reader.height)
        /\ Load(reader.height) \in {reader.height, Nil}
        BY <1>2, <1>6 DEF BlockMeta, ReadSoFar, Load
  <2> QED
      BY <1>1, <1>6, <2>1 DEF BlockMeta, ReadSoFar, AnswersInv, Answered, Asked, Piece
<1>7. ASSUME NEW h \in Heights, ByHashLoad(h) PROVE ReadSoFar' /\ AnswersInv'
  <2>1. h \in Int
        BY DEF Heights
  <2>2. CASE reader' = [pc |-> "done", op |-> "none", result |-> Nil]
        BY <2>2, <1>b, <1>c
  <2>3. CASE reader' = [pc |-> "hash", height |-> h, block |-> h]
        BY <2>1, <2>3, <1>a DEF ReadSoFar
  <2> QED
      BY <1>7, <2>2, <2>3 DEF ByHashLoad
<1>8. CASE ByHashMeta
  <2>1. /\ reader.height \in Int /\ reader.block = reader.height
        /\ Load(reader.height) \in {reader.height, Nil}
        BY <1>2, <1>8 DEF ByHashMeta, ReadSoFar, Load
  <2> QED
      BY <1>8, <1>b, <1>c, <2>1 DEF ByHashMeta, AnswersInv, Answered, Piece
<1>9. CASE CommitMeta
  <2>1. Asked(reader.height) /\ Load(reader.height) \in {reader.height, Nil}
        BY <1>2, <1>9 DEF CommitMeta, ReadSoFar, Load
  <2>2. CASE reader' = [pc |-> "done", op |-> "none", result |-> Nil]
        BY <2>2, <1>b, <1>c
  <2>3. CASE /\ Load(reader.height) # Nil
             /\ reader' = [pc |-> "which", height |-> reader.height,
                           header |-> Load(reader.height)]
        BY <1>1, <2>1, <2>3, <1>a DEF ReadSoFar, Asked
  <2> QED
      BY <1>9, <2>2, <2>3 DEF CommitMeta
<1>10. CASE CommitLoad
  <2> DEFINE c == IF reader.height = height THEN LoadSeenCommit(reader.height)
                  ELSE LoadBlockCommit(reader.height)
  <2>1. Asked(reader.height) /\ reader.header = reader.height
        BY <1>2, <1>10 DEF CommitLoad, ReadSoFar
  <2>2. CommitFor(c, reader.height)
        BY <1>2, <2>1 DEF CommitFor, LoadSeenCommit, LoadBlockCommit, Asked, OffersInv
  <2>3. reader' = [pc |-> "flag", height |-> reader.height, header |-> reader.header,
                   commit |-> c]
        BY <1>10 DEF CommitLoad
  <2> HIDE DEF c
  <2> QED
      BY <1>1, <2>1, <2>2, <2>3 DEF ReadSoFar, AnswersInv, Answered, Asked, CommitFor
<1>11. CASE CommitFlag
  <2>1. Asked(reader.height) /\ reader.header = reader.height
        /\ CommitFor(reader.commit, reader.height) /\ height \in Int
        BY <1>2, <1>11 DEF CommitFlag, ReadSoFar, OffersInv
  <2>2. reader' = [pc |-> "done", op |-> "commit",
                   result |-> [header |-> reader.header, commit |-> reader.commit,
                               canonical |-> reader.height # height]]
        BY <1>11 DEF CommitFlag
  <2>3. /\ Answered("commit")' /\ reader'.result.commit = reader.commit
        /\ reader'.result.header = reader.height
        /\ reader'.result.canonical = (reader.height # height)
        BY <2>1, <2>2, Zenon DEF Answered
  <2>4. /\ ~Answered("block")' /\ ~Answered("status")' /\ ~Answered("tx")'
        /\ reader'.pc = "done"
        BY <2>2 DEF Answered
  <2>5. reader'.result.commit # Nil =>
            /\ reader'.result.commit.of = reader'.result.header
            /\ ~reader'.result.commit.seen => reader'.result.canonical
    <3>1. reader.height < height => reader.height # height
          BY <2>1 DEF Asked
    <3> QED
        BY <2>1, <2>3, <3>1, Zenon DEF CommitFor
  <2> QED
      BY <1>b, <2>4, <2>5 DEF AnswersInv
<1>12. CASE StatusBase
  <2>1. Load(storeBase) = storeBase /\ storeBase \in Int /\ storeBase <= height
        BY <1>2 DEF OffersInv, Load
  <2>2. reader' = [pc |-> "latest", earliest |-> IF storeBase = 0 THEN Nil ELSE Load(storeBase)]
        BY <1>12 DEF StatusBase
  <2> QED
      BY <1>1, <1>a, <2>1, <2>2 DEF ReadSoFar
<1>13. CASE StatusLatest
  <2>1. /\ height \in Int
        /\ reader.earliest = Nil \/ (reader.earliest \in Int /\ reader.earliest <= height)
    <3>1. height \in Int
          BY <1>2 DEF OffersInv
    <3>2. reader.pc = "latest"
          BY <1>13 DEF StatusLatest
    <3> QED
        BY <1>2, <3>1, <3>2 DEF ReadSoFar
  <2>2. reader' = [pc |-> "hash of", earliest |-> reader.earliest, latest |-> height]
        BY <1>13 DEF StatusLatest
  <2>3. /\ reader'.pc = "hash of" /\ reader'.latest = height /\ height' = height
        /\ reader'.earliest = reader.earliest
        BY <1>1, <2>2
  <2>4. height <= height
        BY <2>1
  <2> QED
      BY <1>a, <2>1, <2>3, <2>4 DEF ReadSoFar, Asked
<1>14. CASE StatusMeta
  <2>1. /\ Asked(reader.latest)
        /\ \/ reader.earliest = Nil
           \/ reader.earliest \in Int /\ reader.earliest <= reader.latest
        BY <1>2, <1>14 DEF StatusMeta, ReadSoFar
  <2>2. Piece(IF reader.latest = 0 THEN Nil ELSE Load(reader.latest), reader.latest)
        BY <1>2, <2>1, Loaded DEF Piece, OffersInv
  <2> QED
      BY <1>1, <1>14, <2>1, <2>2 DEF StatusMeta, ReadSoFar, AnswersInv, Answered, Asked, Piece
<1>15. ASSUME NEW h \in Heights, NEW prove \in BOOLEAN, TxGet(h, prove)
       PROVE  ReadSoFar' /\ AnswersInv'
  <2>1. CASE reader' = [pc |-> "done", op |-> "error", result |-> Nil]
        BY <2>1, <1>b, <1>c
  <2>2. CASE reader' = [pc |-> "prove", height |-> h]
        BY <2>2, <1>a DEF ReadSoFar
  <2>3. CASE reader' = [pc |-> "done", op |-> "tx",
                        result |-> [height |-> h, tx |-> h, proof |-> Nil]]
        BY <2>3, <1>b DEF AnswersInv, Answered
  <2> QED
      BY <1>15, <2>1, <2>2, <2>3 DEF TxGet
<1>16. CASE TxProve
  <2>1. CASE reader' = [pc |-> "done", op |-> "panic", result |-> reader.height]
        BY <2>1, <1>b, <1>c
  <2>2. CASE /\ Load(reader.height) = reader.height
             /\ reader' = [pc |-> "done", op |-> "tx",
                           result |-> [height |-> reader.height, tx |-> reader.height,
                                       proof |-> Load(reader.height)]]
        BY <2>2, <1>b DEF AnswersInv, Answered
  <2> QED
      BY <1>16, <2>1, <2>2 DEF TxProve, Load
<1> QED
    BY <1>3, <1>4, <1>5, <1>6, <1>7, <1>8, <1>9, <1>10, <1>11, <1>12, <1>13, <1>14, <1>15, <1>16

\* Every step keeps the invariant.
LEMMA ReadsStepInv == ReadsInv /\ [ReadsNext]_readsVars => ReadsInv'
<1> SUFFICES ASSUME ReadsInv, [ReadsNext]_readsVars PROVE ReadsInv'
    OBVIOUS
<1>1. CASE UNCHANGED readsVars
  <2>1. OffersInv' /\ storeBase <= storeBase' /\ height <= height' /\ UNCHANGED reader
        BY <1>1 DEF readsVars, ReadsInv, OffersInv
  <2> QED
      BY <2>1, StoreMoves
<1> QED
    BY <1>1, StoreSteps, MethodSteps, ServeAssumption DEF ReadsNext

\* What the invariant says of the answers.
LEMMA ReadsInOrder == ReadsInv => PiecesBelongTogether
<1> SUFFICES ASSUME ReadsInv PROVE PiecesBelongTogether
    OBVIOUS
<1>1. PiecesOfOneBlock
      BY DEF ReadsInv, AnswersInv, PiecesOfOneBlock, Piece
<1>2. BlockCommitIsCanonical
      BY DEF ReadsInv, AnswersInv, BlockCommitIsCanonical
<1>3. OfferedIsServed
      BY ServeAssumption DEF ReadsInv, AnswersInv, OfferedIsServed, Piece
<1> QED
    BY <1>1, <1>2, <1>3 DEF PiecesBelongTogether

\* The RPC methods that read the stores piece by piece while blocks are applied, pruned
\* and saved (vm/rpc.go): the pieces are of one block, a commit that a block contains is
\* canonical, and a block is missing only if it was pruned.
THEOREM ReadsAlwaysInOrder == ReadsSpec => []PiecesBelongTogether
<1>1. ReadsSpec => []ReadsInv
      BY ReadsInitInv, ReadsStepInv, PTL DEF ReadsSpec
<1> QED
    BY <1>1, ReadsInOrder, PTL

-----------------------------------------------------------------------------
(* Serving, the handlers of broadcast_tx_commit                            *)

HandlerType ==
    [pc : {"idle", "subscribe", "check", "wait", "done"}, key : Keys \cup {Nil},
     from : Nat, height : Nat,
     result : {Nil, "refused", "error", "rejected", "included", "cancelled", "timeout"}]

TxType ==
    /\ chain \in Seq(SUBSET Txs)
    /\ subs \in [Keys -> SubType \cup {Nil}]
    /\ handler \in [Handlers -> HandlerType]

\* A handler that has a subscription.
Subscribed(q) == q.pc \in {"check", "wait"}

\* What holds of a handler: it has the subscription that it believes to have,
\* its event is still to come or is in there, and its answer is right.
HandlerInOrder(q) ==
    /\ q.pc = "subscribe" \/ Subscribed(q) => q.key \in Keys
    /\ Subscribed(q) => subs[q.key] # Nil
    /\ q.pc = "wait" /\ q.key[2] \notin unsent
         /\ (\E i \in q.from + 1 .. Len(chain) : q.key[2] \in chain[i])
           => subs[q.key].out # Nil
    /\ q.result = "included" => q.height \in DOMAIN chain /\ q.key[2] \in chain[q.height]

\* What a subscription holds is the height of a block with its transaction.
SubInOrder(k) ==
    subs[k] # Nil =>
        /\ subs[k].cancelled => subs[k].out # Nil
        /\ subs[k].out # Nil => subs[k].out \in DOMAIN chain /\ k[2] \in chain[subs[k].out]

\* No two handlers share a subscription.
SubsOwned ==
    \A g, h \in Handlers :
        Subscribed(handler[g]) /\ Subscribed(handler[h]) /\ handler[g].key = handler[h].key
            => g = h

UnsentInv == unsent # {} => Len(chain) > 0 /\ unsent \subseteq chain[Len(chain)]

TxInv ==
    /\ TxType
    /\ \A h \in Handlers : HandlerInOrder(handler[h])
    /\ \A k \in Keys : SubInOrder(k)
    /\ SubsOwned
    /\ NoSubscriptionLeaks
    /\ UnsentInv

\* No handler runs at the start.
LEMMA TxInitInv == TxInit => TxInv
<1> SUFFICES ASSUME TxInit PROVE TxInv
    OBVIOUS
<1>1. TxType
      BY DEF TxInit, TxType, HandlerIdle, HandlerType
<1>2. \A h \in Handlers : HandlerInOrder(handler[h]) /\ ~Subscribed(handler[h])
      BY ServeAssumption DEF TxInit, HandlerIdle, HandlerInOrder, Subscribed
<1>3. \A k \in Keys : SubInOrder(k)
      BY DEF TxInit, SubInOrder
<1> QED
    BY <1>1, <1>2, <1>3 DEF TxInv, SubsOwned, NoSubscriptionLeaks, UnsentInv, TxInit

\* A handler moves and keeps its subscription, if it has one.
LEMMA HandlerMoves ==
    ASSUME TxInv, NEW h \in Handlers, NEW q \in HandlerType,
           handler' = [handler EXCEPT ![h] = q], UNCHANGED <<chain, unsent, subs>>,
           HandlerInOrder(q),
           Subscribed(q) <=> Subscribed(handler[h]), Subscribed(q) => q.key = handler[h].key
    PROVE  TxInv'
<1>1. TxType'
      BY DEF TxInv, TxType
<1>2. ASSUME NEW g \in Handlers PROVE HandlerInOrder(handler[g])'
  <2>1. CASE g = h
        BY <2>1 DEF TxInv, TxType, HandlerInOrder, Subscribed
  <2>2. CASE g # h
        BY <2>2 DEF TxInv, TxType, HandlerInOrder, Subscribed
  <2> QED
      BY <2>1, <2>2
<1>3. \A g \in Handlers : /\ Subscribed(handler[g])' <=> Subscribed(handler[g])
                          /\ Subscribed(handler[g]) => handler'[g].key = handler[g].key
      BY DEF TxInv, TxType, Subscribed
<1>4. SubsOwned' /\ NoSubscriptionLeaks'
      BY <1>3 DEF TxInv, SubsOwned, NoSubscriptionLeaks, Subscribed
<1>5. (\A k \in Keys : SubInOrder(k))' /\ UnsentInv'
      BY DEF TxInv, SubInOrder, UnsentInv
<1> QED
    BY <1>1, <1>2, <1>4, <1>5 DEF TxInv

\* A handler returns, and what it deferred ends its subscription.
LEMMA HandlerReturns ==
    ASSUME TxInv, NEW h \in Handlers, NEW q \in HandlerType, Subscribed(handler[h]),
           handler' = [handler EXCEPT ![h] = q], UNCHANGED <<chain, unsent>>,
           subs' = [subs EXCEPT ![handler[h].key] = Nil],
           HandlerInOrder(q), ~Subscribed(q)
    PROVE  TxInv'
<1>1. TxType'
      BY DEF TxInv, TxType
<1>2. handler[h].key \in Keys
      BY DEF TxInv, HandlerInOrder
<1>3. \A k \in Keys : k # handler[h].key => subs'[k] = subs[k]
      BY <1>2 DEF TxInv, TxType
<1>4. subs'[handler[h].key] = Nil
      BY <1>2 DEF TxInv, TxType
<1>5. handler'[h] = q /\ \A g \in Handlers : g # h => handler'[g] = handler[g]
      BY DEF TxInv, TxType
<1>6. ASSUME NEW g \in Handlers PROVE HandlerInOrder(handler[g])'
  <2>1. CASE g = h
        BY <1>5, <2>1 DEF HandlerInOrder, Subscribed
  <2>2. CASE g # h
    <3>1. HandlerInOrder(handler[g]) /\ handler'[g] = handler[g]
          BY <1>5, <2>2 DEF TxInv
    <3>2. Subscribed(handler[g]) => handler[g].key \in Keys /\ handler[g].key # handler[h].key
          BY <2>2 DEF TxInv, SubsOwned, HandlerInOrder
    <3> QED
        BY <1>3, <3>1, <3>2 DEF HandlerInOrder, Subscribed
  <2> QED
      BY <2>1, <2>2
<1>7. SubsOwned'
      BY <1>5 DEF TxInv, SubsOwned
<1>8. NoSubscriptionLeaks'
  <2> SUFFICES ASSUME NEW k \in Keys, subs'[k] # Nil
               PROVE  \E g \in Handlers : Subscribed(handler[g])' /\ handler'[g].key = k
      BY DEF NoSubscriptionLeaks, Subscribed
  <2>1. k # handler[h].key /\ subs[k] # Nil
        BY <1>3, <1>4
  <2>2. PICK g \in Handlers : Subscribed(handler[g]) /\ handler[g].key = k
        BY <2>1 DEF TxInv, NoSubscriptionLeaks, Subscribed
  <2> QED
      BY <1>5, <2>1, <2>2 DEF Subscribed
<1>9. (\A k \in Keys : SubInOrder(k))' /\ UnsentInv'
      BY <1>3, <1>4 DEF TxInv, SubInOrder, UnsentInv
<1> QED
    BY <1>1, <1>6, <1>7, <1>8, <1>9 DEF TxInv

\* Subscribe gives a handler a subscription that nobody has.
LEMMA HandlerSubscribes ==
    ASSUME TxInv, NEW h \in Handlers, Subscribe(h)
    PROVE  TxInv'
<1>1. /\ handler[h].pc = "subscribe" /\ handler[h].key \in Keys /\ handler[h] \in HandlerType
      /\ HandlerInOrder(handler[h])
      BY DEF Subscribe, TxInv, TxType, HandlerInOrder
<1>2. CASE subs[handler[h].key] # Nil
  <2>1. PICK q : q = [handler[h] EXCEPT !.pc = "done", !.result = "error"]
        OBVIOUS
  <2>2. q \in HandlerType /\ q.pc = "done" /\ q.result = "error"
        BY <1>1, <2>1 DEF HandlerType
  <2>3. handler' = [handler EXCEPT ![h] = q] /\ UNCHANGED <<chain, unsent, subs>>
        BY <1>2, <2>1 DEF Subscribe, ReturnEarly, TxInv, TxType
  <2>4. HandlerInOrder(q) /\ ~Subscribed(q) /\ ~Subscribed(handler[h])
        BY <1>1, <2>2 DEF HandlerInOrder, Subscribed
  <2> QED
      BY <2>2, <2>3, <2>4, HandlerMoves
<1>3. CASE subs[handler[h].key] = Nil
  <2> DEFINE key == handler[h].key
  <2>1. PICK q : q = [handler[h] EXCEPT !.pc = "check"]
        OBVIOUS
  <2>2. /\ q \in HandlerType /\ q.pc = "check" /\ q.key = key
        /\ q.result = handler[h].result /\ q.height = handler[h].height
        BY <1>1, <2>1 DEF HandlerType
  <2>3. /\ handler' = [handler EXCEPT ![h] = q] /\ UNCHANGED <<chain, unsent>>
        /\ subs' = [subs EXCEPT ![key] = NewSub]
        BY <1>3, <2>1 DEF Subscribe, TxInv, TxType
  <2>4. NewSub \in SubType /\ NewSub # Nil /\ ~NewSub.cancelled /\ NewSub.out = Nil
    <3>1. NewSub \in SubType
          BY DEF NewSub, SubType
    <3>2. NewSub.cancelled = FALSE /\ NewSub.out = Nil
          BY DEF NewSub
    <3> QED
        BY <3>1, <3>2, ServeAssumption
  <2>5. TxType'
        BY <1>1, <2>2, <2>3, <2>4 DEF TxInv, TxType
  <2>6. /\ handler'[h] = q /\ \A g \in Handlers : g # h => handler'[g] = handler[g]
        /\ subs'[key] = NewSub /\ \A k \in Keys : k # key => subs'[k] = subs[k]
        BY <1>1, <2>3 DEF TxInv, TxType
  <2>7. \A g \in Handlers : Subscribed(handler[g]) =>
                                handler[g].key # key /\ handler[g].key \in Keys
        BY <1>3 DEF TxInv, HandlerInOrder
  <2> HIDE DEF key
  <2>8. ASSUME NEW g \in Handlers PROVE HandlerInOrder(handler[g])'
    <3>1. CASE g = h
      <4>1. /\ handler[h].result = "included" =>
                   /\ handler[h].height \in DOMAIN chain
                   /\ handler[h].key[2] \in chain[handler[h].height]
            /\ key \in Keys
            BY <1>1 DEF HandlerInOrder, key
      <4> QED
          BY <2>2, <2>3, <2>4, <2>6, <3>1, <4>1 DEF HandlerInOrder, Subscribed, key
    <3>2. CASE g # h
          BY <2>3, <2>6, <2>7, <3>2 DEF TxInv, HandlerInOrder, Subscribed
    <3> QED
        BY <3>1, <3>2
  <2>9. SubsOwned'
        BY <2>2, <2>6, <2>7 DEF TxInv, SubsOwned, Subscribed
  <2>10. NoSubscriptionLeaks'
    <3> SUFFICES ASSUME NEW k \in Keys, subs'[k] # Nil
                 PROVE  \E g \in Handlers : Subscribed(handler[g])' /\ handler'[g].key = k
        BY DEF NoSubscriptionLeaks, Subscribed
    <3>1. CASE k = key
          BY <2>2, <2>6, <3>1 DEF Subscribed
    <3>2. CASE k # key
      <4>1. PICK g \in Handlers : Subscribed(handler[g]) /\ handler[g].key = k
            BY <2>6, <3>2 DEF TxInv, NoSubscriptionLeaks, Subscribed
      <4>2. g # h
            BY <1>1, <4>1 DEF Subscribed
      <4> QED
          BY <2>6, <4>1, <4>2 DEF Subscribed
    <3> QED
        BY <3>1, <3>2
  <2>11. ASSUME NEW k \in Keys PROVE SubInOrder(k)'
         BY <2>3, <2>4, <2>6 DEF TxInv, SubInOrder
  <2>12. UnsentInv'
         BY <2>3 DEF TxInv, UnsentInv
  <2> QED
      BY <2>5, <2>8, <2>9, <2>10, <2>11, <2>12 DEF TxInv
<1> QED
    BY <1>2, <1>3

\* The other steps of a handler.
LEMMA HandlerStepInv ==
    ASSUME TxInv, NEW h \in Handlers, HandlerStep(h)
    PROVE  TxInv'
<1>1. handler[h] \in HandlerType /\ HandlerInOrder(handler[h])
      BY DEF TxInv, TxType
<1>2. ASSUME NEW result \in {"error", "rejected", "cancelled", "timeout"},
             Subscribed(handler[h]), HandlerReturn(h, result), UNCHANGED <<chain, unsent>>
      PROVE  TxInv'
  <2>1. PICK q : q = [handler[h] EXCEPT !.pc = "done", !.result = result]
        OBVIOUS
  <2>2. q \in HandlerType /\ q.pc = "done" /\ q.result # "included"
        BY <1>1, <2>1 DEF HandlerType
  <2>3. /\ handler' = [handler EXCEPT ![h] = q]
        /\ subs' = [subs EXCEPT ![handler[h].key] = Nil]
        BY <1>2, <2>1 DEF HandlerReturn, TxInv, TxType
  <2>4. HandlerInOrder(q) /\ ~Subscribed(q)
        BY <2>2 DEF HandlerInOrder, Subscribed
  <2> QED
      BY <1>2, <2>2, <2>3, <2>4, HandlerReturns
<1>3. CASE CheckTxError(h) \/ CheckTxRejected(h) \/ ContextDone(h)
      BY <1>2, <1>3 DEF CheckTxError, CheckTxRejected, ContextDone, Subscribed
<1>4. CASE Canceled(h) \/ Timeout(h)
      BY <1>2, <1>4 DEF Canceled, Timeout, Subscribed
<1>5. CASE CheckTxOk(h)
  <2>1. PICK q : q = [handler[h] EXCEPT !.pc = "wait", !.from = Len(chain)]
        OBVIOUS
  <2>2. Len(chain) \in Nat
        BY DEF TxInv, TxType
  <2>3. /\ q \in HandlerType /\ q.pc = "wait" /\ q.key = handler[h].key /\ q.from = Len(chain)
        /\ q.result = handler[h].result /\ q.height = handler[h].height
        BY <1>1, <2>1, <2>2 DEF HandlerType
  <2>4. handler' = [handler EXCEPT ![h] = q] /\ UNCHANGED <<chain, unsent, subs>>
        BY <1>5, <2>1 DEF CheckTxOk, TxInv, TxType
  <2>5. Subscribed(handler[h]) /\ Subscribed(q)
        BY <1>5, <2>3 DEF CheckTxOk, Subscribed
  <2>6. HandlerInOrder(q)
    <3>1. q.from + 1 .. Len(chain) = {}
          BY <2>2, <2>3
    <3> QED
        BY <1>1, <2>3, <2>5, <3>1 DEF HandlerInOrder
  <2> QED
      BY <2>3, <2>4, <2>5, <2>6, HandlerMoves
<1>6. CASE Included(h)
  <2>1. /\ handler[h].pc = "wait" /\ handler[h].key \in Keys
        /\ subs[handler[h].key] # Nil /\ subs[handler[h].key].out # Nil
        BY <1>1, <1>6 DEF Included, Sub, HandlerInOrder, Subscribed
  <2>2. /\ subs[handler[h].key].out \in Nat
        /\ subs[handler[h].key].out \in DOMAIN chain
        /\ handler[h].key[2] \in chain[subs[handler[h].key].out]
        BY <2>1 DEF TxInv, TxType, SubType, SubInOrder
  <2>3. PICK q : q = [handler[h] EXCEPT !.pc = "done", !.result = "included",
                                        !.height = subs[handler[h].key].out]
        OBVIOUS
  <2>4. /\ q \in HandlerType /\ q.pc = "done" /\ q.key = handler[h].key
        /\ q.height = subs[handler[h].key].out
        BY <1>1, <2>2, <2>3 DEF HandlerType
  <2>5. /\ handler' = [handler EXCEPT ![h] = q] /\ UNCHANGED <<chain, unsent>>
        /\ subs' = [subs EXCEPT ![handler[h].key] = Nil]
        BY <1>6, <2>3 DEF Included, Sub, TxInv, TxType
  <2>6. HandlerInOrder(q) /\ ~Subscribed(q) /\ Subscribed(handler[h])
        BY <2>1, <2>2, <2>4 DEF HandlerInOrder, Subscribed
  <2> QED
      BY <2>4, <2>5, <2>6, HandlerReturns
<1>7. CASE Done(h)
  <2>1. /\ HandlerIdle \in HandlerType /\ HandlerInOrder(HandlerIdle) /\ ~Subscribed(HandlerIdle)
        /\ ~Subscribed(handler[h])
        BY <1>7, ServeAssumption DEF HandlerIdle, HandlerType, HandlerInOrder, Subscribed, Done
  <2> QED
      BY <1>7, <2>1, HandlerMoves DEF Done
<1> QED
    BY <1>3, <1>4, <1>5, <1>6, <1>7, HandlerSubscribes DEF HandlerStep

\* A request begins; it may be refused for the limits on subscriptions.
LEMMA HandlerBegins ==
    ASSUME TxInv, NEW h \in Handlers, NEW client \in Remotes, NEW tx \in Txs,
           BroadcastTxCommit(h, client, tx)
    PROVE  TxInv'
<1>1. PICK q \in {[HandlerIdle EXCEPT !.pc = "done", !.result = "refused"],
                  [HandlerIdle EXCEPT !.pc = "subscribe", !.key = <<client, tx>>]} :
          handler' = [handler EXCEPT ![h] = q]
      BY DEF BroadcastTxCommit
<1>2. /\ q \in HandlerType /\ q.pc \in {"done", "subscribe"} /\ q.result # "included"
      /\ q.pc = "subscribe" => q.key \in Keys
  <2>1. HandlerIdle \in HandlerType /\ <<client, tx>> \in Keys
        BY DEF HandlerIdle, HandlerType, Keys
  <2>2. CASE q = [HandlerIdle EXCEPT !.pc = "done", !.result = "refused"]
        BY <2>1, <2>2 DEF HandlerType
  <2>3. CASE q = [HandlerIdle EXCEPT !.pc = "subscribe", !.key = <<client, tx>>]
    <3>1. HandlerIdle.result = Nil
          BY DEF HandlerIdle
    <3> QED
        BY <2>1, <2>3, <3>1, ServeAssumption DEF HandlerType
  <2> QED
      BY <1>1, <2>2, <2>3
<1>3. HandlerInOrder(q) /\ ~Subscribed(q) /\ ~Subscribed(handler[h])
      BY <1>2 DEF HandlerInOrder, Subscribed, BroadcastTxCommit
<1> QED
    BY <1>1, <1>2, <1>3, HandlerMoves DEF BroadcastTxCommit

\* A block is accepted when the events of the one before have been published.
LEMMA BlockAccepted ==
    ASSUME TxInv, AcceptBlock
    PROVE  TxInv'
<1>1. PICK T \in SUBSET Txs : chain' = Append(chain, T) /\ unsent' = T
      BY DEF AcceptBlock
<1>2. unsent = {} /\ UNCHANGED <<subs, handler>> /\ chain \in Seq(SUBSET Txs)
      BY DEF AcceptBlock, TxInv, TxType
<1>3. /\ chain' \in Seq(SUBSET Txs) /\ Len(chain') = Len(chain) + 1 /\ chain'[Len(chain) + 1] = T
      /\ Len(chain) \in Nat
      /\ \A i \in 1 .. Len(chain) : chain'[i] = chain[i]
      /\ DOMAIN chain = 1 .. Len(chain) /\ DOMAIN chain' = 1 .. Len(chain) + 1
      BY <1>1, <1>2
<1>4. \A i \in DOMAIN chain : i \in DOMAIN chain' /\ chain'[i] = chain[i]
      BY <1>3
<1>5. TxType'
      BY <1>2, <1>3 DEF TxInv, TxType
<1>6. ASSUME NEW h \in Handlers PROVE HandlerInOrder(handler[h])'
  <2>1. HandlerInOrder(handler[h]) /\ handler[h] \in HandlerType
        BY DEF TxInv, TxType
  <2>2. PICK q : q = handler[h] /\ q = handler'[h]
        BY <1>2
  <2>3. ASSUME q.pc = "wait", q.key[2] \notin unsent',
               NEW i \in q.from + 1 .. Len(chain'), q.key[2] \in chain'[i]
        PROVE  subs'[q.key].out # Nil
    <3>1. q.from \in Nat
          BY <2>1, <2>2 DEF HandlerType
    <3>2. i # Len(chain) + 1
          BY <1>1, <1>3, <2>3
    <3>3. i \in q.from + 1 .. Len(chain) /\ i \in 1 .. Len(chain)
          BY <1>3, <3>1, <3>2
    <3>4. q.key[2] \in chain[i]
          BY <1>3, <2>3, <3>3
    <3> QED
        BY <1>2, <2>1, <2>2, <2>3, <3>3, <3>4 DEF HandlerInOrder
  <2>4. q.result = "included" => q.height \in DOMAIN chain' /\ q.key[2] \in chain'[q.height]
        BY <1>4, <2>1, <2>2 DEF HandlerInOrder
  <2>5. /\ q.pc = "subscribe" \/ Subscribed(q) => q.key \in Keys
        /\ Subscribed(q) => subs'[q.key] # Nil
        BY <1>2, <2>1, <2>2 DEF HandlerInOrder
  <2> QED
      BY <2>2, <2>3, <2>4, <2>5 DEF HandlerInOrder, Subscribed
<1>7. ASSUME NEW k \in Keys PROVE SubInOrder(k)'
      BY <1>2, <1>4 DEF TxInv, SubInOrder
<1>8. SubsOwned' /\ NoSubscriptionLeaks'
      BY <1>2 DEF TxInv, SubsOwned, NoSubscriptionLeaks, Subscribed
<1>9. UnsentInv'
      BY <1>1, <1>3 DEF UnsentInv
<1> QED
    BY <1>5, <1>6, <1>7, <1>8, <1>9 DEF TxInv

\* An event reaches every subscription to its transaction.
LEMMA EventPublished ==
    ASSUME TxInv, NEW tx \in Txs, PublishEventTx(tx)
    PROVE  TxInv'
<1>1. /\ tx \in unsent /\ unsent' = unsent \ {tx} /\ UNCHANGED <<chain, handler>>
      /\ \A k \in Keys : subs'[k] = IF k[2] = tx THEN Delivered(subs[k], Len(chain)) ELSE subs[k]
      /\ DOMAIN subs' = Keys /\ subs' = [k \in Keys |-> subs'[k]]
      BY DEF PublishEventTx
<1>2. /\ chain \in Seq(SUBSET Txs) /\ Len(chain) \in Nat /\ Len(chain) > 0
      /\ tx \in chain[Len(chain)] /\ Len(chain) \in DOMAIN chain
      BY <1>1 DEF TxInv, TxType, UnsentInv
<1>3. ASSUME NEW k \in Keys
      PROVE  /\ subs'[k] \in SubType \cup {Nil}
             /\ subs'[k] = Nil <=> subs[k] = Nil
             /\ subs[k] # Nil /\ subs[k].out # Nil => subs'[k].out # Nil
             /\ subs[k] # Nil /\ k[2] = tx => subs'[k].out # Nil
             /\ SubInOrder(k)'
  <2>1. subs[k] \in SubType \cup {Nil} /\ SubInOrder(k)
        BY DEF TxInv, TxType
  <2>2. CASE k[2] # tx \/ subs[k] = Nil \/ subs[k].cancelled
    <3>1. subs'[k] = subs[k]
          BY <1>1, <2>2 DEF Delivered
    <3>2. subs[k] # Nil /\ k[2] = tx => subs[k].out # Nil
          BY <2>1, <2>2 DEF SubInOrder
    <3> QED
        BY <1>1, <2>1, <3>1, <3>2 DEF SubInOrder
  <2>3. CASE k[2] = tx /\ subs[k] # Nil /\ ~subs[k].cancelled /\ subs[k].out = Nil
    <3>1. subs'[k] = [subs[k] EXCEPT !.out = Len(chain)]
          BY <1>1, <2>3 DEF Delivered
    <3>2. subs'[k] \in SubType /\ subs'[k].out = Len(chain)
          BY <1>2, <2>1, <2>3, <3>1 DEF SubType
    <3> QED
        BY <1>1, <1>2, <2>3, <3>2, ServeAssumption DEF SubInOrder
  <2>4. CASE k[2] = tx /\ subs[k] # Nil /\ ~subs[k].cancelled /\ subs[k].out # Nil
    <3>1. subs'[k] = [subs[k] EXCEPT !.cancelled = TRUE]
          BY <1>1, <2>4 DEF Delivered
    <3>2. subs'[k] \in SubType /\ subs'[k].out = subs[k].out
          BY <2>1, <2>4, <3>1 DEF SubType
    <3> QED
        BY <1>1, <2>1, <2>4, <3>2, ServeAssumption DEF SubInOrder
  <2> QED
      BY <2>2, <2>3, <2>4
<1>4. TxType'
      BY <1>1, <1>3 DEF TxInv, TxType
<1>5. ASSUME NEW h \in Handlers PROVE HandlerInOrder(handler[h])'
  <2>1. HandlerInOrder(handler[h])
        BY DEF TxInv
  <2>2. PICK q : q = handler[h] /\ q = handler'[h]
        BY <1>1
  <2>3. ASSUME q.pc = "wait", q.key[2] \notin unsent',
               NEW i \in q.from + 1 .. Len(chain), q.key[2] \in chain[i]
        PROVE  subs'[q.key].out # Nil
    <3>1. q.key \in Keys /\ subs[q.key] # Nil
          BY <2>1, <2>2, <2>3 DEF HandlerInOrder, Subscribed
    <3>2. CASE q.key[2] = tx
          BY <1>3, <3>1, <3>2
    <3>3. CASE q.key[2] # tx
      <4>1. subs[q.key].out # Nil
            BY <1>1, <2>1, <2>2, <2>3, <3>3 DEF HandlerInOrder
      <4> QED
          BY <1>3, <3>1, <4>1
    <3> QED
        BY <3>2, <3>3
  <2>4. /\ q.pc = "subscribe" \/ Subscribed(q) => q.key \in Keys
        /\ Subscribed(q) => subs'[q.key] # Nil
        /\ q.result = "included" => q.height \in DOMAIN chain /\ q.key[2] \in chain[q.height]
        BY <1>3, <2>1, <2>2 DEF HandlerInOrder
  <2> QED
      BY <1>1, <2>2, <2>3, <2>4 DEF HandlerInOrder, Subscribed
<1>6. SubsOwned' /\ NoSubscriptionLeaks'
      BY <1>1, <1>3 DEF TxInv, SubsOwned, NoSubscriptionLeaks, Subscribed
<1>7. UnsentInv'
      BY <1>1, <1>2 DEF TxInv, UnsentInv
<1> QED
    BY <1>3, <1>4, <1>5, <1>6, <1>7 DEF TxInv

\* Every step keeps the invariant.
LEMMA TxStepInv == TxInv /\ [TxNext]_txVars => TxInv'
<1> SUFFICES ASSUME TxInv, [TxNext]_txVars PROVE TxInv'
    OBVIOUS
<1>1. CASE UNCHANGED <<chain, unsent, subs, handler>>
      BY <1>1 DEF TxInv, TxType, HandlerInOrder, Subscribed, SubInOrder, SubsOwned,
                  NoSubscriptionLeaks, UnsentInv
<1>2. CASE \E tx \in Txs : BroadcastTx(tx)
      BY <1>1, <1>2 DEF BroadcastTx
<1>3. CASE UNCHANGED txVars
      BY <1>1, <1>3 DEF txVars
<1> QED
    BY <1>2, <1>3, HandlerBegins, HandlerStepInv, BlockAccepted, EventPublished DEF TxNext

\* What the invariant says of the answers.
LEMMA TxInOrder == TxInv => CommitAnswersRight
    BY DEF TxInv, CommitAnswersRight, InclusionNotMissed, HeightIsRight, HandlerInOrder,
           Subscribed, Sub

\* BroadcastTxCommit, its subscription and the events of accepted blocks, for any number of
\* handlers: no event is missed, the height is right and no subscription is left behind.
THEOREM CommitsAlwaysAnswered == TxSpec => []CommitAnswersRight
<1>1. TxSpec => []TxInv
      BY TxInitInv, TxStepInv, PTL DEF TxSpec
<1> QED
    BY <1>1, TxInOrder, PTL

-----------------------------------------------------------------------------
(* Serving, requests for warp signatures                                   *)

\* What may be signed: it stays so, for messages are only added, blocks only
\* accepted, and an uptime only grows.
MaySign(m) ==
    \/ m \in warpDB
    \/ m.payload = "hash" /\ m.block \in warpAccepted

\* A request that has been checked holds a message that may be signed, unless it
\* is AddMessage's own, whose signature is dropped.
RequestType ==
    [pc : {"idle", "check", "sign", "send", "done"}, kind : Kinds \cup {"none"},
     msg : Messages, answer : {"none", "expired", "zeros", "error", "signature"}]

RequestInOrder(q) ==
    /\ q.pc = "check" => q.kind \in Kinds
    /\ q.pc = "check" /\ q.kind \in {"block", "api_block"} => q.msg.payload = "hash"
    /\ q.pc = "sign" /\ q.kind # "api_add" => MaySign(q.msg)

WarpInv ==
    /\ request \in [Requests -> RequestType]
    /\ \A r \in Requests : RequestInOrder(request[r])
    /\ \A m \in warpSigned : MaySign(m)

\* Nothing is signed at the start.
LEMMA WarpInitInv == WarpInit => WarpInv
    BY DEF WarpInit, WarpInv, RequestType, RequestInOrder, RequestIdle, Messages

\* A message that passes the check of a request may be signed.
LEMMA CheckedMaySign ==
    ASSUME NEW kind \in Kinds \ {"api_add", "unregistered"}, NEW m \in Messages,
           kind \in {"block", "api_block"} => m.payload = "hash",
           Checked(kind, m) = Ok
    PROVE  MaySign(m)
<1> USE DEF Ok, ErrNotFound, ParseErrCode, VerifyErrCode
<1>1. GetMessage(m) = Ok => MaySign(m)
      BY DEF GetMessage, MaySign
<1>2. m.payload = "hash" /\ VerifyBlockMessage(m.block) = Ok => MaySign(m)
      BY DEF VerifyBlockMessage, GetAcceptedBlock, MaySign
<1>3. VerifyPayload(m) = Ok => MaySign(m)
      BY <1>2 DEF VerifyPayload, VerifyOffchainAddressedCall, ParsePayload, RegisteredTypes
<1>4. Verify(m) = Ok => MaySign(m)
      BY <1>1, <1>3 DEF Verify
<1>5. CASE kind = "acp118"
      BY <1>4, <1>5 DEF Checked, SdkAppRequest
<1>6. CASE kind \in {"message", "api_message"}
      BY <1>1, <1>6 DEF Checked, OnMessageSignatureRequest, APIGetMessageSignature
<1>7. CASE kind \in {"block", "api_block"}
      BY <1>2, <1>7 DEF Checked, OnBlockSignatureRequest, APIGetBlockSignature, GetBlockSignature
<1> QED
    BY <1>5, <1>6, <1>7 DEF Kinds

\* Every step keeps the invariant.
LEMMA WarpStepInv == WarpInv /\ [WarpNext]_warpVars => WarpInv'
<1> SUFFICES ASSUME WarpInv, [WarpNext]_warpVars PROVE WarpInv'
    OBVIOUS
<1>1. ASSUME warpDB \subseteq warpDB', warpAccepted \subseteq warpAccepted', UNCHANGED warpSigned,
             NEW r \in Requests, NEW q \in RequestType,
             request' = [request EXCEPT ![r] = q], RequestInOrder(q)'
      PROVE  WarpInv'
  <2>1. \A m : MaySign(m) => MaySign(m)'
        BY <1>1 DEF MaySign
  <2>2. request' \in [Requests -> RequestType]
        BY <1>1 DEF WarpInv
  <2>3. ASSUME NEW s \in Requests PROVE RequestInOrder(request[s])'
    <3>1. CASE s = r
          BY <1>1, <3>1 DEF WarpInv
    <3>2. CASE s # r
          BY <1>1, <2>1, <3>2 DEF WarpInv, RequestInOrder
    <3> QED
        BY <3>1, <3>2
  <2>4. \A m \in warpSigned' : MaySign(m)'
        BY <1>1, <2>1 DEF WarpInv
  <2> QED
      BY <2>2, <2>3, <2>4 DEF WarpInv
<1>2. ASSUME warpDB \subseteq warpDB', warpAccepted \subseteq warpAccepted',
             UNCHANGED <<request, warpSigned>>
      PROVE  WarpInv'
      BY <1>2 DEF WarpInv, RequestInOrder, MaySign
<1>3. CASE UNCHANGED warpVars
      BY <1>2, <1>3 DEF warpVars
<1>4. CASE StayUp \/ \E b \in WarpBlocks : WarpAccept(b)
      BY <1>2, <1>4 DEF StayUp, WarpAccept
<1>5. ASSUME NEW r \in Requests, NEW kind \in Kinds, NEW m \in Messages, AskSignature(r, kind, m)
      PROVE  WarpInv'
  <2> DEFINE q == [pc |-> "check", kind |-> kind, msg |-> m, answer |-> "none"]
  <2>1. q \in RequestType /\ RequestInOrder(q)'
        BY <1>5 DEF AskSignature, RequestType, RequestInOrder
  <2>2. /\ request' = [request EXCEPT ![r] = q] /\ UNCHANGED warpSigned
        /\ warpDB \subseteq warpDB' /\ warpAccepted \subseteq warpAccepted'
        BY <1>5 DEF AskSignature
  <2> HIDE DEF q
  <2> QED
      BY <1>1, <2>1, <2>2
<1>a. ASSUME NEW r \in Requests
      PROVE  request[r] = [pc |-> request[r].pc, kind |-> request[r].kind,
                           msg |-> request[r].msg, answer |-> request[r].answer]
      BY DEF WarpInv, RequestType
<1>6. ASSUME NEW r \in Requests, Expire(r) \/ Send(r) PROVE WarpInv'
  <2>1. request[r] \in RequestType
        BY DEF WarpInv
  <2>2. PICK q : q = [request[r] EXCEPT !.pc = "done",
                                        !.answer = IF Expire(r) THEN "expired"
                                                   ELSE request[r].answer]
        OBVIOUS
  <2>3. q \in RequestType /\ q.pc = "done"
        BY <2>1, <2>2 DEF RequestType
  <2>4. request' = [request EXCEPT ![r] = q]
    <3>1. CASE Expire(r)
          BY <2>1, <2>2, <3>1 DEF Expire, RequestType, WarpInv
    <3>2. CASE Send(r) /\ ~Expire(r)
          BY <1>a, <2>1, <2>2, <3>2 DEF Send, RequestType, WarpInv
    <3> QED
        BY <1>6, <3>1, <3>2
  <2>5. /\ UNCHANGED warpSigned
        /\ warpDB \subseteq warpDB' /\ warpAccepted \subseteq warpAccepted'
        BY <1>6 DEF Expire, Send
  <2>6. RequestInOrder(q)'
        BY <2>3 DEF RequestInOrder
  <2> QED
      BY <1>1, <2>3, <2>4, <2>5, <2>6
<1>7. ASSUME NEW r \in Requests, Check(r) PROVE WarpInv'
  <2>1. /\ request[r] \in RequestType /\ RequestInOrder(request[r])
        /\ request[r].pc = "check" /\ request[r].kind \in Kinds /\ request[r].msg \in Messages
        BY <1>7 DEF WarpInv, RequestInOrder, RequestType, Check
  <2>2. PICK q : q = [request[r] EXCEPT
            !.pc = IF /\ request[r].kind # "unregistered"
                      /\ Checked(request[r].kind, request[r].msg) = Ok
                   THEN "sign" ELSE "send",
            !.answer = Refusal(request[r].kind)]
        OBVIOUS
  <2>3. Refusal(request[r].kind) \in {"zeros", "error"}
        BY DEF Refusal
  <2>4. q \in RequestType
        BY <2>1, <2>2, <2>3 DEF RequestType
  <2>5. request' = [request EXCEPT ![r] = q]
        BY <1>7, <2>1, <2>2 DEF Check, WarpInv
  <2>6. warpDB \subseteq warpDB' /\ warpAccepted \subseteq warpAccepted' /\ UNCHANGED warpSigned
        BY <1>7 DEF Check
  <2>7. /\ q.kind = request[r].kind /\ q.msg = request[r].msg /\ q.pc \in {"sign", "send"}
        /\ q.pc = "sign" => /\ request[r].kind # "unregistered"
                            /\ Checked(request[r].kind, request[r].msg) = Ok
        BY <2>1, <2>2 DEF RequestType
  <2>8. q.pc = "sign" /\ q.kind # "api_add" => MaySign(q.msg)
        BY <2>1, <2>7, CheckedMaySign DEF RequestInOrder
  <2>9. RequestInOrder(q)'
        BY <2>6, <2>7, <2>8 DEF RequestInOrder, MaySign
  <2> QED
      BY <1>1, <2>4, <2>5, <2>6, <2>9
<1>8. ASSUME NEW r \in Requests, WarpSign(r) PROVE WarpInv'
  <2>1. request[r] \in RequestType /\ RequestInOrder(request[r]) /\ request[r].pc = "sign"
        BY <1>8 DEF WarpInv, WarpSign
  <2>2. PICK q \in RequestType : q.pc = "send" /\ request' = [request EXCEPT ![r] = q]
    <3>1. CASE request' = [request EXCEPT ![r].pc = "send", ![r].answer = "signature"]
      <4>1. [request[r] EXCEPT !.pc = "send", !.answer = "signature"] \in RequestType
            BY <2>1 DEF RequestType
      <4> QED
          BY <2>1, <3>1, <4>1 DEF RequestType, WarpInv
    <3>2. CASE request' = [request EXCEPT ![r].pc = "send"]
      <4>1. [request[r] EXCEPT !.pc = "send"] \in RequestType
            BY <2>1 DEF RequestType
      <4> QED
          BY <2>1, <3>2, <4>1 DEF RequestType, WarpInv
    <3> QED
        BY <1>8, <3>1, <3>2 DEF WarpSign
  <2>3. UNCHANGED <<warpDB, warpAccepted>>
        BY <1>8 DEF WarpSign
  <2>4. \A m \in warpSigned' : MaySign(m)'
        BY <1>8, <2>1, <2>3 DEF WarpSign, WarpInv, RequestInOrder, MaySign
  <2>5. request' \in [Requests -> RequestType]
        BY <2>2 DEF WarpInv
  <2>6. ASSUME NEW s \in Requests PROVE RequestInOrder(request[s])'
        BY <2>2, <2>3 DEF WarpInv, RequestInOrder, MaySign
  <2> QED
      BY <2>4, <2>5, <2>6 DEF WarpInv
<1> QED
    BY <1>3, <1>4, <1>5, <1>6, <1>7, <1>8 DEF WarpNext

\* What the invariant says of the signatures.
LEMMA WarpInOrder == WarpInv => SignedRight
    BY DEF WarpInv, MaySign, SignedRight

\* Requests for warp signatures, from peers and from the API: what is signed was added to
\* the backend, or is a block that has been accepted.
THEOREM OnlyRightSigned == WarpSpec => []SignedRight
<1>1. WarpSpec => []WarpInv
      BY WarpInitInv, WarpStepInv, PTL DEF WarpSpec
<1> QED
    BY <1>1, WarpInOrder, PTL
=============================================================================
