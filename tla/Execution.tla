----------------------------- MODULE Execution ------------------------------
(***************************************************************************)
(* What applying a block does to the validator sets, the stores and the    *)
(* subscribers (vm/types/state/executor.go, vm/vm.go), and what the RPC    *)
(* handlers that read the stores meanwhile return (vm/rpc.go). An update   *)
(* that the application returns at height h takes effect at h + 2, so the  *)
(* state carries three validator sets. BlockAccept is a sequence of steps: *)
(* a reader runs between any two of them.                                  *)
(*                                                                         *)
(* External: CometBFT's state store, block store, validator sets and       *)
(* MakeBlock, as far as the code here calls them.                          *)
(***************************************************************************)
EXTENDS Integers, SequencesExt

CONSTANTS
    Addresses,      \* validator addresses, numbered in address order
    Powers,         \* voting powers in updates; 0 removes, a negative is refused
    GenesisVals,    \* the validator set of the genesis document
    Timestamps,     \* readings of the clock
    ExecRetainHeights,  \* ResponseCommit.RetainHeight values of the application
    MaxHeight,      \* bound: the last block
    Absent          \* what is not in a store

VARIABLES
    st,         \* vm.state
    valStore,   \* stateStore: LoadValidators of a height
    results,    \* stateStore: heights that have a FinalizeBlockResponse
    bs,         \* blockStore: base and height
    candidates, \* blocks in consensus at the next height
    apply,      \* the BlockAccept that is running, or NotApplying
    halted,     \* how the process stopped, or "no"
    decidedVals,    \* history: the validators decided for each height
    times,      \* history: times of the applied blocks
    announced,  \* heights of the blocks published on the event bus
    query       \* an RPC handler that reads at a height

execVars == <<st, valStore, results, bs, candidates, apply, halted, decidedVals,
              times, announced, query>>

InitialHeight == 1
NotApplying == [step |-> "idle"]
GenesisTime == CHOOSE t \in Timestamps : \A u \in Timestamps : t <= u
ZeroTime == GenesisTime - 1

-----------------------------------------------------------------------------
(* Validator sets: an address has a voting power.                          *)

\* External: a ValidatorSet lists its validators by power, then address.
Listed(vals) ==
    SetToSortSeq(DOMAIN vals,
                 LAMBDA a, b : vals[a] > vals[b] \/ (vals[a] = vals[b] /\ a < b))

\* External: UpdateWithChangeSet refuses to remove a stranger or everyone.
ChangeRefused(vals, upd) ==
    \/ \E a \in DOMAIN upd : upd[a] = 0 /\ a \notin DOMAIN vals
    \/ {a \in DOMAIN vals \cup DOMAIN upd :
            a \notin DOMAIN upd \/ upd[a] > 0} = {}

WithChangeSet(vals, upd) ==
    [a \in {x \in DOMAIN vals \cup DOMAIN upd : x \notin DOMAIN upd \/ upd[x] > 0} |->
        IF a \in DOMAIN upd THEN upd[a] ELSE vals[a]]

ValidateValidatorUpdates(upd) == \A a \in DOMAIN upd : upd[a] >= 0

\* A mutant: the change takes effect a height early.
UpdateStateEarly(blk, upd) ==
    LET next == WithChangeSet(st.nextVals, upd)
    IN  [height |-> blk.height, time |-> blk.time,
         nextVals |-> next, vals |-> next, lastVals |-> st.vals]

UpdateState(blk, upd) ==
    [height |-> blk.height, time |-> blk.time,
     nextVals |-> WithChangeSet(st.nextVals, upd),
     vals |-> st.nextVals,
     lastVals |-> st.vals]

\* External: Save stores the validators of the height after the next.
Saved(store, new) == [store EXCEPT ![new.height + 2] = new.nextVals]

-----------------------------------------------------------------------------
(* Blocks                                                                  *)

\* A commit: signatures in the order of a validator list, each with the time
\* at which BuildBlock made it.
Weight(sig, vals) == IF sig.by \in DOMAIN vals THEN vals[sig.by] ELSE 0

WeightUntil(commit, vals, t) ==
    FoldLeft(LAMBDA sum, sig : sum + (IF sig.at <= t THEN Weight(sig, vals) ELSE 0),
             0, commit)

\* MedianTime, and WeightedMedian that it calls: the first time by which half
\* of the power that is known had signed; the zero time when none is.
MedianTime(commit, vals) ==
    LET known == {i \in DOMAIN commit : commit[i].by \in DOMAIN vals}
        total == FoldLeft(LAMBDA sum, sig : sum + Weight(sig, vals), 0, commit)
        reached == {t \in {commit[i].at : i \in known} :
                        total \div 2 <= WeightUntil(commit, vals, t)}
    IN  IF known = {} THEN ZeroTime
        ELSE CHOOSE t \in reached : \A u \in reached : t <= u

\* External: State.MakeBlock.
MakeBlock(commit) ==
    [height |-> st.height + 1, commit |-> commit,
     vals |-> st.vals, nextVals |-> st.nextVals,
     time |-> IF st.height + 1 = InitialHeight THEN GenesisTime
              ELSE MedianTime(commit, st.lastVals)]

ExecutorValidateBlock(blk) ==
    /\ blk.height = st.height + 1
    /\ blk.vals = st.vals
    /\ blk.nextVals = st.nextVals
    /\ blk.height = InitialHeight => blk.commit = <<>> /\ blk.time = st.time
    /\ blk.height > InitialHeight =>
          /\ blk.time >= st.time
          /\ blk.time = MedianTime(blk.commit, st.lastVals)

\* buildExtendedCommitInfoFromStore and BuildExtendedCommitInfo panic unless
\* the signatures are those of the validators stored for the commit's height.
ExtendedCommitMatches(height, commit) ==
    \/ height < InitialHeight
    \/ /\ valStore[height] # Absent
       /\ [i \in DOMAIN commit |-> commit[i].by] = Listed(valStore[height])

\* buildLastCommitInfoFromStore and BuildLastCommitInfo compare sizes only.
LastCommitMatches(blk) ==
    \/ blk.height = InitialHeight
    \/ /\ valStore[blk.height - 1] # Absent
       /\ Len(blk.commit) = Len(Listed(valStore[blk.height - 1]))

-----------------------------------------------------------------------------
Running == halted = "no"

\* CreateProposalBlock: the block, or a panic.
CreateProposalBlock(height, commit) ==
    IF ExtendedCommitMatches(height, commit)
    THEN /\ candidates' = candidates \cup {MakeBlock(commit)}
         /\ UNCHANGED halted
    ELSE /\ halted' = "build"
         /\ UNCHANGED candidates

\* Initialize makes the first block, with an empty commit.
MakeGenesis ==
    /\ Running /\ apply = NotApplying /\ candidates = {}
    /\ st.height = 0
    /\ CreateProposalBlock(0, <<>>)
    /\ UNCHANGED <<st, valStore, results, bs, apply, decidedVals, times, announced, query>>

\* The commit is signed by vm.state.Validators, one after the other, for the
\* last block. Blocks of other nodes are built from the same state by the same
\* code, with another clock.
VMBuildBlock ==
    /\ Running /\ apply = NotApplying /\ candidates = {}
    /\ st.height \in InitialHeight .. MaxHeight - 1
    /\ LET signers == Listed(st.vals)
       IN  \E at \in [DOMAIN signers -> Timestamps] :
              /\ \A i \in DOMAIN at : i > 1 => at[i - 1] <= at[i]
              /\ CreateProposalBlock(st.height,
                     [i \in DOMAIN signers |-> [by |-> signers[i], at |-> at[i]]])
    /\ UNCHANGED <<st, valStore, results, bs, apply, decidedVals, times, announced, query>>

\* BlockVerify refuses the block, and the engine drops it.
RefuseBlock ==
    /\ Running /\ apply = NotApplying
    /\ \E blk \in candidates :
          /\ ~ExecutorValidateBlock(blk)
          /\ candidates' = candidates \ {blk}
    /\ UNCHANGED <<st, valStore, results, bs, apply, halted, decidedVals, times, announced,
                   query>>

\* ApplyBlock up to the saved state. What the application returns may be
\* refused when its response is already saved; the engine then stops the VM.
ApplyBlock(blk, upd, retain) ==
    /\ Running /\ apply = NotApplying
    /\ ExecutorValidateBlock(blk)
    /\ IF ~LastCommitMatches(blk)
       THEN /\ halted' = "apply"
            /\ UNCHANGED <<valStore, results, apply, decidedVals, times>>
       ELSE /\ results' = results \cup {blk.height}
            /\ IF ~ValidateValidatorUpdates(upd) \/ ChangeRefused(st.nextVals, upd)
               THEN /\ halted' = "updates"
                    /\ UNCHANGED <<valStore, apply, decidedVals, times>>
               ELSE /\ valStore' = Saved(valStore, UpdateState(blk, upd))
                    /\ apply' = [step |-> "prune", new |-> UpdateState(blk, upd),
                                 base |-> bs.base, retain |-> retain]
                    /\ decidedVals' =
                          Append(decidedVals, WithChangeSet(decidedVals[Len(decidedVals)], upd))
                    /\ times' = Append(times, blk.time)
                    /\ UNCHANGED halted
    /\ candidates' = {}
    /\ UNCHANGED <<st, bs, announced, query>>

\* pruneBlocks. External: the block store refuses to prune past its height.
ExecutorPruneBlocks ==
    /\ Running /\ apply.step = "prune"
    /\ IF apply.retain > bs.base /\ apply.retain <= bs.height
       THEN /\ bs' = [bs EXCEPT !.base = apply.retain]
            /\ apply' = [apply EXCEPT !.step = "states"]
       ELSE /\ apply' = [apply EXCEPT !.step = "events"]
            /\ UNCHANGED bs
    /\ UNCHANGED <<st, valStore, results, candidates, halted, decidedVals, times, announced,
                   query>>

\* External: PruneStates keeps the validators that evidence may still need.
PruneStates ==
    /\ Running /\ apply.step = "states"
    /\ \E needed \in apply.base .. apply.retain :
          valStore' = [h \in DOMAIN valStore |->
                          IF h \in apply.base .. needed - 1 THEN Absent ELSE valStore[h]]
    /\ results' = results \ (apply.base .. apply.retain - 1)
    /\ apply' = [apply EXCEPT !.step = "events"]
    /\ UNCHANGED <<st, bs, candidates, halted, decidedVals, times, announced, query>>

FireEvents ==
    /\ Running /\ apply.step = "events"
    /\ announced' = Append(announced, apply.new.height)
    /\ apply' = [apply EXCEPT !.step = "block"]
    /\ UNCHANGED <<st, valStore, results, bs, candidates, halted, decidedVals, times, query>>

\* BlockAccept saves the block, saves the state once more and keeps it.
SaveBlock ==
    /\ Running /\ apply.step = "block"
    /\ bs' = [base |-> IF bs.base = 0 THEN apply.new.height ELSE bs.base,
              height |-> apply.new.height]
    /\ valStore' = Saved(valStore, apply.new)
    /\ st' = apply.new
    /\ apply' = NotApplying
    /\ UNCHANGED <<results, candidates, halted, decidedVals, times, announced, query>>

-----------------------------------------------------------------------------
(* An RPC handler that reads the validators or the results of a height.    *)

HeightOffered(h) == h \in bs.base .. bs.height /\ h > 0

QueryBegin ==
    /\ Running /\ query = Absent
    /\ \E h \in 1 .. MaxHeight, of \in {"validators", "results"} :
          /\ HeightOffered(h)
          /\ query' = [of |-> of, height |-> h, answer |-> Absent, done |-> FALSE,
                       base |-> bs.base]
    /\ UNCHANGED <<st, valStore, results, bs, candidates, apply, halted, decidedVals, times,
                   announced>>

\* Validators, BlockResults: an error when the store has nothing.
QueryLoad ==
    /\ Running /\ query # Absent /\ ~query.done
    /\ query' = [query EXCEPT
          !.done = TRUE,
          !.base = bs.base,
          !.answer = CASE query.of = "validators" -> valStore[query.height]
                       [] query.of = "results" /\ query.height \in results -> query.height
                       [] OTHER -> Absent]
    /\ UNCHANGED <<st, valStore, results, bs, candidates, apply, halted, decidedVals, times,
                   announced>>

QueryEnd ==
    /\ query # Absent /\ query.done
    /\ query' = Absent
    /\ UNCHANGED <<st, valStore, results, bs, candidates, apply, halted, decidedVals, times,
                   announced>>

-----------------------------------------------------------------------------
NoVals == [a \in {} |-> 0]

\* What the code takes for granted of its types.
ASSUME ExecAssumption ==
    /\ \E D \in SUBSET Addresses : GenesisVals \in [D -> Int]
    /\ \A D \in SUBSET Addresses : Absent \notin [D -> Int]
    /\ Powers \subseteq Int /\ ExecRetainHeights \subseteq Int
    /\ MaxHeight \in Nat

ExecInit ==
    /\ st = [height |-> 0, time |-> GenesisTime, lastVals |-> NoVals,
             vals |-> GenesisVals, nextVals |-> GenesisVals]
    /\ valStore = [h \in 1 .. MaxHeight + 2 |-> IF h <= 2 THEN GenesisVals ELSE Absent]
    /\ results = {}
    /\ bs = [base |-> 0, height |-> 0]
    /\ candidates = {} /\ apply = NotApplying /\ halted = "no"
    /\ decidedVals = <<GenesisVals, GenesisVals>> /\ times = <<>> /\ announced = <<>>
    /\ query = Absent

Changes == UNION {[D -> Powers] : D \in SUBSET Addresses}

ExecNext ==
    \/ MakeGenesis \/ VMBuildBlock \/ RefuseBlock
    \/ \E blk \in candidates, upd \in Changes, retain \in ExecRetainHeights :
          ApplyBlock(blk, upd, retain)
    \/ ExecutorPruneBlocks \/ PruneStates \/ FireEvents \/ SaveBlock
    \/ QueryBegin \/ QueryLoad \/ QueryEnd

ExecSpec == ExecInit /\ [][ExecNext]_execVars

-----------------------------------------------------------------------------
\* Whatever the application updates and prunes, the validators stored for a
\* height, and the three sets of vm.state, are the ones decided for that height:
\* those of the genesis document for the first two, and for a later one those of
\* the height before with the update that was returned two heights earlier
\* (updateState and Save in ApplyBlock).
SetsAsDecided ==
    /\ \A h \in DOMAIN valStore :
          valStore[h] # Absent => h \in DOMAIN decidedVals /\ valStore[h] = decidedVals[h]
    /\ apply = NotApplying =>
          /\ st.height > 0 => st.lastVals = decidedVals[st.height]
          /\ st.vals = decidedVals[st.height + 1]
          /\ st.nextVals = decidedVals[st.height + 2]

\* An RPC handler that got past getHeight finds what it looks for, unless its
\* height was pruned in the meantime: the block store gives a height up before
\* the state store does.
QueryAnswered ==
    query # Absent /\ query.done =>
        \/ query.answer = Absent /\ query.height < query.base
        \/ query.answer = IF query.of = "validators" THEN decidedVals[query.height]
                          ELSE query.height

\* Block times never decrease along the chain, whatever the clocks of the
\* proposers say and whoever joins or leaves the validators.
TimesMonotone == \A i \in 2 .. Len(times) : times[i - 1] <= times[i]

\* Every block is published once, in the order of heights, before it is the
\* last accepted one.
AnnouncedInOrder ==
    /\ \A i \in DOMAIN announced : announced[i] = i
    /\ bs.height <= Len(announced) /\ Len(announced) <= bs.height + 1

\* All of it, while ApplyBlock, BlockAccept and the RPC handlers run beside each
\* other.
ExecutionInOrder == SetsAsDecided /\ QueryAnswered /\ TimesMonotone /\ AnnouncedInOrder

\* BuildBlock finds the validators that signed its commit in the store: "Ensure
\* that the size of the validator set in the extended commit matches the size of
\* the validator set in the state store" does not fail (executor.go:513).
CommitMatchesStore == halted # "build"
=============================================================================
