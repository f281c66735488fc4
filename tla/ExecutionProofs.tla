--------------------------- MODULE ExecutionProofs --------------------------
(***************************************************************************)
(* Proofs about the execution of blocks (module Execution), for any        *)
(* validators, updates, retain heights and clocks.                         *)
(*                                                                         *)
(* The validator sets are those that were decided because the three sets   *)
(* of the state that was saved last are the last three decided ones. A     *)
(* query that was let through finds what it looks for because the block    *)
(* store gives a height up before the state store does.                    *)
(***************************************************************************)
EXTENDS Execution, TLAPS

\* Who has which voting power.
ValidatorSets == UNION {[D -> Int] : D \in SUBSET Addresses}

\* The types of the constants.
LEMMA ExecConstants ==
    /\ GenesisVals \in ValidatorSets /\ Absent \notin ValidatorSets
    /\ Powers \subseteq Int /\ ExecRetainHeights \subseteq Int
    /\ MaxHeight \in Nat
    BY ExecAssumption DEF ValidatorSets

\* The state that ApplyBlock made last: BlockAccept has still to keep it, or has.
Latest == IF apply = NotApplying THEN st ELSE apply.new

Steps == {"prune", "states", "events", "block"}

\* A BlockAccept that is under way.
Applying ==
    /\ apply = [step |-> apply.step, new |-> apply.new, base |-> apply.base,
                retain |-> apply.retain]
    /\ apply.step \in Steps
    /\ apply.base \in Int /\ apply.retain \in Int
    /\ apply.new.height = st.height + 1

Queries ==
    [of : {"validators", "results"}, height : 1 .. MaxHeight,
     answer : ValidatorSets \cup Nat \cup {Absent}, done : BOOLEAN, base : Int]

IsSequence(s) == s \in Seq({s[i] : i \in DOMAIN s})

ExecType ==
    /\ decidedVals \in Seq(ValidatorSets)
    /\ IsSequence(times)
    /\ announced \in Seq(Nat)
    /\ bs \in [base : Int, height : Nat]
    /\ valStore \in [1 .. MaxHeight + 2 -> ValidatorSets \cup {Absent}]
    /\ st.height = bs.height
    /\ apply = NotApplying \/ Applying

\* The last state has the last three of the decided sets and the last time.
LatestInv ==
    /\ Latest.height \in Nat
    /\ Len(decidedVals) = Latest.height + 2
    /\ Latest.height > 0 => Latest.lastVals = decidedVals[Latest.height]
    /\ Latest.vals = decidedVals[Latest.height + 1]
    /\ Latest.nextVals = decidedVals[Latest.height + 2]
    /\ Len(times) = Latest.height
    /\ Latest.height > 0 => times[Latest.height] = Latest.time
    /\ TimesMonotone

\* What the state store has: nothing that was not decided, and everything from the
\* block store's base on.
StoreInv ==
    /\ \A h \in DOMAIN valStore :
          /\ valStore[h] # Absent => h <= Len(decidedVals) /\ valStore[h] = decidedVals[h]
          /\ bs.base <= h /\ h <= Len(decidedVals) => valStore[h] # Absent
    /\ \A h \in 1 .. Latest.height : bs.base <= h => h \in results
    /\ apply.step = "states" => bs.base = apply.retain

\* A block is announced between the pruning and the save.
AnnouncedInv ==
    /\ Len(announced) = IF apply.step = "block" THEN bs.height + 1 ELSE bs.height
    /\ \A i \in 1 .. Len(announced) : announced[i] = i

\* A query has a height that the block store had, and still has or gave up.
QueryInv ==
    query # Absent =>
        /\ query \in Queries
        /\ query.height <= bs.height
        /\ QueryAnswered

ExecInv == ExecType /\ LatestInv /\ StoreInv /\ AnnouncedInv /\ QueryInv

-----------------------------------------------------------------------------
\* An application's update of a validator set leaves a validator set.
LEMMA ChangedSets ==
    ASSUME NEW vals \in ValidatorSets, NEW upd \in Changes
    PROVE  WithChangeSet(vals, upd) \in ValidatorSets
<1>1. PICK D \in SUBSET Addresses : vals \in [D -> Int]
      BY DEF ValidatorSets
<1>2. PICK E \in SUBSET Addresses : upd \in [E -> Powers]
      BY DEF Changes
<1> DEFINE F == {x \in DOMAIN vals \cup DOMAIN upd : x \notin DOMAIN upd \/ upd[x] > 0}
<1>3. F \subseteq Addresses
      BY <1>1, <1>2
<1>4. WithChangeSet(vals, upd) \in [F -> Int]
  <2> SUFFICES ASSUME NEW a \in F
               PROVE  (IF a \in DOMAIN upd THEN upd[a] ELSE vals[a]) \in Int
      BY DEF WithChangeSet
  <2> QED
      BY <1>1, <1>2, ExecConstants
<1> HIDE DEF F
<1> QED
    BY <1>3, <1>4 DEF ValidatorSets

\* What Append leaves and adds.
LEMMA Appended ==
    ASSUME NEW S, NEW s \in Seq(S), NEW e \in S
    PROVE  /\ Append(s, e) \in Seq(S)
           /\ Len(Append(s, e)) = Len(s) + 1
           /\ \A i \in 1 .. Len(s) : Append(s, e)[i] = s[i]
           /\ Append(s, e)[Len(s) + 1] = e
OBVIOUS

\* The same of a sequence of whatever values.
LEMMA AppendedAny ==
    ASSUME NEW s, IsSequence(s), NEW e
    PROVE  /\ IsSequence(Append(s, e))
           /\ Len(s) \in Nat
           /\ Len(Append(s, e)) = Len(s) + 1
           /\ \A i \in 1 .. Len(s) : Append(s, e)[i] = s[i]
           /\ Append(s, e)[Len(s) + 1] = e
<1> DEFINE S == {s[i] : i \in DOMAIN s} \cup {e}
<1> DEFINE t == Append(s, e)
<1>1. s \in Seq(S) /\ e \in S
      BY DEF IsSequence
<1>2. /\ t \in Seq(S) /\ Len(t) = Len(s) + 1
      /\ \A i \in 1 .. Len(s) : t[i] = s[i]
      /\ t[Len(s) + 1] = e
      BY <1>1, Appended
<1>3. Len(s) \in Nat
      BY <1>1
<1>4. DOMAIN t = 1 .. Len(t)
      BY <1>2
<1> HIDE DEF t, S
<1>5. t \in Seq({t[i] : i \in DOMAIN t})
      BY <1>2, <1>4
<1> QED
    BY <1>2, <1>3, <1>5 DEF t, IsSequence

\* Initialize starts from the genesis document.
LEMMA ExecInitInv == ASSUME ExecInit PROVE ExecInv
<1>1. decidedVals \in Seq(ValidatorSets) /\ Len(decidedVals) = 2
      /\ decidedVals[1] = GenesisVals /\ decidedVals[2] = GenesisVals
      BY ExecConstants DEF ExecInit
<1>2. IsSequence(times) /\ Len(times) = 0
      BY DEF ExecInit, IsSequence
<1>3. announced \in Seq(Nat) /\ Len(announced) = 0
      BY DEF ExecInit
<1>4. valStore \in [1 .. MaxHeight + 2 -> ValidatorSets \cup {Absent}]
      BY ExecConstants DEF ExecInit
<1>5. apply = NotApplying /\ apply.step = "idle" /\ Latest = st /\ st.height = 0
      /\ st.vals = GenesisVals /\ st.nextVals = GenesisVals
      /\ bs = [base |-> 0, height |-> 0] /\ query = Absent
      BY DEF ExecInit, NotApplying, Latest
<1>6. ExecType
      BY <1>1, <1>2, <1>3, <1>4, <1>5 DEF ExecType
<1>7. LatestInv
      BY <1>1, <1>2, <1>5 DEF LatestInv, TimesMonotone
<1>8. StoreInv
  <2>1. ASSUME NEW h \in DOMAIN valStore
        PROVE  /\ valStore[h] # Absent => h <= Len(decidedVals) /\ valStore[h] = decidedVals[h]
               /\ bs.base <= h /\ h <= Len(decidedVals) => valStore[h] # Absent
        BY <1>1, <1>5, <2>1, ExecConstants DEF ExecInit
  <2> QED
      BY <1>5, <2>1 DEF StoreInv
<1> QED
    BY <1>3, <1>5, <1>6, <1>7, <1>8 DEF ExecInv, AnnouncedInv, QueryInv

\* Steps that touch none of it but results, which grow: what the engine builds and
\* drops, and an ApplyBlock that fails.
LEMMA CandidatesInv ==
    ASSUME ExecInv, results \subseteq results',
           UNCHANGED <<st, valStore, bs, apply, decidedVals, times, announced, query>>
    PROVE  ExecInv'
<1>1. ExecType' /\ LatestInv' /\ AnnouncedInv' /\ QueryInv'
      BY DEF ExecInv, ExecType, LatestInv, AnnouncedInv, QueryInv, Latest, Applying,
             TimesMonotone, QueryAnswered
<1>2. StoreInv'
      BY DEF ExecInv, StoreInv, Latest
<1> QED
    BY <1>1, <1>2 DEF ExecInv

\* A block is applied: the state that results has the set that was decided now, and
\* the two before it.
LEMMA AppliedInv ==
    ASSUME ExecInv, Running, NEW blk, NEW upd \in Changes,
           NEW retain \in ExecRetainHeights, ApplyBlock(blk, upd, retain), UNCHANGED halted
    PROVE  ExecInv'
<1> DEFINE new == UpdateState(blk, upd)
<1>1. /\ apply = NotApplying /\ ExecutorValidateBlock(blk)
      /\ UNCHANGED <<st, bs, announced, query>>
      /\ results' = results \cup {blk.height}
      /\ valStore' = Saved(valStore, new)
      /\ apply' = [step |-> "prune", new |-> new, base |-> bs.base, retain |-> retain]
      /\ decidedVals' = Append(decidedVals, WithChangeSet(decidedVals[Len(decidedVals)], upd))
      /\ times' = Append(times, blk.time)
      BY DEF ApplyBlock, Running
<1>2. Latest = st /\ apply.step = "idle"
      BY <1>1 DEF Latest, NotApplying
<1>3. /\ st.height \in Nat /\ st.height = bs.height /\ bs.base \in Int
      /\ Len(decidedVals) = st.height + 2 /\ decidedVals \in Seq(ValidatorSets)
      /\ st.vals = decidedVals[st.height + 1] /\ st.nextVals = decidedVals[st.height + 2]
      /\ Len(times) = st.height /\ (st.height > 0 => times[st.height] = st.time)
      /\ IsSequence(times) /\ TimesMonotone
      BY <1>2 DEF ExecInv, ExecType, LatestInv
<1>4. /\ new.height = st.height + 1 /\ new.time = blk.time
      /\ new.lastVals = st.vals /\ new.vals = st.nextVals
      /\ new.nextVals = WithChangeSet(st.nextVals, upd)
      BY <1>1 DEF UpdateState, ExecutorValidateBlock
<1>5. new.nextVals \in ValidatorSets /\ decidedVals' = Append(decidedVals, new.nextVals)
      BY <1>1, <1>3, <1>4, ChangedSets
<1>6. /\ decidedVals' \in Seq(ValidatorSets) /\ Len(decidedVals') = st.height + 3
      /\ \A i \in 1 .. st.height + 2 : decidedVals'[i] = decidedVals[i]
      /\ decidedVals'[st.height + 3] = new.nextVals
      BY <1>3, <1>5, Appended
<1>7. /\ IsSequence(times') /\ Len(times') = st.height + 1
      /\ \A i \in 1 .. st.height : times'[i] = times[i]
      /\ times'[st.height + 1] = blk.time
      BY <1>1, <1>3, AppendedAny
<1>8. apply' # NotApplying /\ apply'.step = "prune" /\ Latest' = new
      BY <1>1 DEF NotApplying, Latest
<1> HIDE DEF new
<1>9. ExecType'
  <2>1. valStore' \in [1 .. MaxHeight + 2 -> ValidatorSets \cup {Absent}]
        BY <1>1, <1>5 DEF ExecInv, ExecType, Saved
  <2>2. Applying'
        BY <1>1, <1>3, <1>4, ExecConstants DEF Applying, Steps
  <2> QED
      BY <1>1, <1>3, <1>6, <1>7, <2>1, <2>2 DEF ExecInv, ExecType
<1>10. LatestInv'
  <2>1. TimesMonotone'
    <3> SUFFICES ASSUME NEW i \in 2 .. st.height + 1 PROVE times'[i - 1] <= times'[i]
        BY <1>7 DEF TimesMonotone
    <3>1. CASE i <= st.height
      <4>1. i \in 2 .. Len(times) /\ i \in 1 .. st.height /\ i - 1 \in 1 .. st.height
            BY <1>3, <3>1
      <4>2. times'[i] = times[i] /\ times'[i - 1] = times[i - 1]
            BY <1>7, <4>1
      <4>3. times[i - 1] <= times[i]
            BY <1>3, <4>1 DEF TimesMonotone
      <4> QED
          BY <4>2, <4>3
    <3>2. CASE i = st.height + 1
      <4>1. st.height > 0 /\ st.height \in 1 .. st.height /\ i - 1 = st.height
        <5>1. st.height \in Nat
              BY <1>3
        <5> QED
            BY <3>2, <5>1
      <4>2. times'[i - 1] = st.time
            BY <1>3, <1>7, <4>1
      <4>3. times'[i] = blk.time
            BY <1>7, <3>2
      <4>4. st.time <= blk.time
            BY <1>1, <1>3, <4>1 DEF ExecutorValidateBlock, InitialHeight
      <4> QED
          BY <4>2, <4>3, <4>4
    <3> QED
        BY <1>3, <3>1, <3>2
  <2>2. /\ Latest'.height \in Nat /\ Latest'.height = st.height + 1
        /\ Len(decidedVals') = Latest'.height + 2 /\ Len(times') = Latest'.height
        BY <1>3, <1>4, <1>6, <1>7, <1>8
  <2>3. /\ Latest'.lastVals = decidedVals'[st.height + 1]
        /\ Latest'.vals = decidedVals'[st.height + 2]
        /\ Latest'.nextVals = decidedVals'[st.height + 3]
    <3>1. /\ st.height + 1 \in 1 .. st.height + 2 /\ st.height + 2 \in 1 .. st.height + 2
      <4>1. st.height \in Nat
            BY <1>3
      <4> QED
          BY <4>1
    <3>2. /\ decidedVals'[st.height + 1] = st.vals /\ decidedVals'[st.height + 2] = st.nextVals
          /\ decidedVals'[st.height + 3] = new.nextVals
          BY <1>3, <1>6, <3>1
    <3> QED
        BY <1>4, <1>8, <3>2
  <2>4. Latest'.time = times'[st.height + 1]
        BY <1>4, <1>7, <1>8
  <2>5. /\ st.height + 1 = Latest'.height /\ st.height + 2 = Latest'.height + 1
        /\ st.height + 3 = Latest'.height + 2
    <3>1. st.height \in Nat
          BY <1>3
    <3> QED
        BY <2>2, <3>1
  <2> QED
      BY <2>1, <2>2, <2>3, <2>4, <2>5 DEF LatestInv
<1>11. StoreInv'
  <2>1. ASSUME NEW h \in DOMAIN valStore'
        PROVE  /\ valStore'[h] # Absent => h <= Len(decidedVals') /\ valStore'[h] = decidedVals'[h]
               /\ bs'.base <= h /\ h <= Len(decidedVals') => valStore'[h] # Absent
    <3>1. h \in 1 .. MaxHeight + 2 /\ DOMAIN valStore = 1 .. MaxHeight + 2
          BY <1>9, <2>1 DEF ExecInv, ExecType
    <3>2. CASE h = st.height + 3
          BY <1>1, <1>3, <1>4, <1>5, <1>6, <3>1, <3>2, ExecConstants DEF Saved
    <3>3. CASE h # st.height + 3
      <4>1. valStore'[h] = valStore[h]
            BY <1>1, <1>3, <1>4, <3>1, <3>3 DEF Saved
      <4> QED
          BY <1>1, <1>3, <1>6, <3>1, <3>3, <4>1, ExecConstants DEF ExecInv, StoreInv
    <3> QED
        BY <3>2, <3>3
  <2>2. ASSUME NEW h \in 1 .. st.height + 1, bs.base <= h PROVE h \in results'
        BY <1>1, <1>2, <1>3, <2>2 DEF ExecInv, StoreInv, ExecutorValidateBlock
  <2> QED
      BY <1>1, <1>4, <1>8, <2>1, <2>2 DEF StoreInv
<1>12. AnnouncedInv'
       BY <1>1, <1>2, <1>8 DEF ExecInv, AnnouncedInv
<1>13. QueryInv'
  <2> SUFFICES ASSUME query # Absent PROVE query \in Queries /\ query.height <= bs.height
                                         /\ QueryAnswered'
      BY <1>1 DEF QueryInv
  <2>1. query \in Queries /\ query.height <= bs.height /\ QueryAnswered
        BY DEF ExecInv, QueryInv
  <2>2. decidedVals'[query.height] = decidedVals[query.height]
        BY <1>3, <1>6, <2>1, ExecConstants DEF Queries
  <2> QED
      BY <1>1, <2>1, <2>2 DEF QueryAnswered
<1> QED
    BY <1>9, <1>10, <1>11, <1>12, <1>13 DEF ExecInv

\* ApplyBlock, whether it fails or not.
LEMMA ApplyBlockInv ==
    ASSUME ExecInv, NEW blk, NEW upd \in Changes,
           NEW retain \in ExecRetainHeights, ApplyBlock(blk, upd, retain)
    PROVE  ExecInv'
<1>1. CASE UNCHANGED halted
      BY <1>1, AppliedInv DEF ApplyBlock
<1>2. CASE halted' # halted
  <2>1. results \subseteq results'
        /\ UNCHANGED <<st, valStore, bs, apply, decidedVals, times, announced, query>>
        BY <1>2 DEF ApplyBlock
  <2> QED
      BY <2>1, CandidatesInv
<1> QED
    BY <1>1, <1>2

\* The steps of BlockAccept after the state was saved.
LEMMA PruneBlocksInv == ASSUME ExecInv, ExecutorPruneBlocks PROVE ExecInv'
<1> USE DEF ExecutorPruneBlocks
<1>1. /\ apply.step = "prune" /\ apply # NotApplying /\ Applying
      /\ UNCHANGED <<st, valStore, results, decidedVals, times, announced, query>>
      /\ bs.base \in Int /\ bs.height \in Nat /\ bs = [base |-> bs.base, height |-> bs.height]
      BY DEF ExecInv, ExecType, NotApplying
<1>2. /\ apply'.step \in {"states", "events"} /\ apply'.new = apply.new
      /\ apply' = [step |-> apply'.step, new |-> apply'.new, base |-> apply'.base,
                   retain |-> apply'.retain]
      /\ apply'.base = apply.base /\ apply'.retain = apply.retain /\ apply' # NotApplying
      BY <1>1 DEF Applying, NotApplying
<1>3. /\ bs' \in [base : Int, height : Nat] /\ bs'.height = bs.height /\ bs.base <= bs'.base
      /\ apply'.step = "states" => bs'.base = apply'.retain
      BY <1>1, <1>2 DEF Applying
<1>4. Latest' = Latest
      BY <1>1, <1>2 DEF Latest
<1>5. ExecType'
      BY <1>1, <1>2, <1>3 DEF ExecInv, ExecType, Applying, Steps
<1>6. LatestInv'
      BY <1>1, <1>4 DEF ExecInv, LatestInv, TimesMonotone
<1>7. StoreInv'
  <2>1. \A h \in Int : bs'.base <= h => bs.base <= h
        BY <1>1, <1>3
  <2>2. DOMAIN valStore \subseteq Int /\ 1 .. Latest.height \subseteq Int
        BY DEF ExecInv, ExecType, LatestInv
  <2> QED
      BY <1>1, <1>3, <1>4, <2>1, <2>2 DEF ExecInv, StoreInv
<1>8. AnnouncedInv'
      BY <1>1, <1>2, <1>3 DEF ExecInv, AnnouncedInv
<1>9. QueryInv'
      BY <1>1, <1>3 DEF ExecInv, QueryInv, QueryAnswered
<1> QED
    BY <1>5, <1>6, <1>7, <1>8, <1>9 DEF ExecInv

\* The state store gives up only what the block store gave up.
LEMMA PruneStatesInv == ASSUME ExecInv, PruneStates PROVE ExecInv'
<1>1. /\ apply.step = "states" /\ apply # NotApplying /\ Applying /\ bs.base = apply.retain
      /\ UNCHANGED <<st, bs, decidedVals, times, announced, query>>
      /\ results' = results \ (apply.base .. apply.retain - 1)
      /\ apply' = [apply EXCEPT !.step = "events"]
      BY DEF ExecInv, ExecType, StoreInv, NotApplying, PruneStates
<1>2. PICK needed \in apply.base .. apply.retain :
          valStore' = [h \in DOMAIN valStore |->
                          IF h \in apply.base .. needed - 1 THEN Absent ELSE valStore[h]]
      BY DEF PruneStates
<1>3. /\ apply'.step = "events" /\ apply'.new = apply.new
      /\ apply' = [step |-> apply'.step, new |-> apply'.new, base |-> apply'.base,
                   retain |-> apply'.retain]
      /\ apply'.base = apply.base /\ apply'.retain = apply.retain /\ apply' # NotApplying
      BY <1>1 DEF Applying, NotApplying
<1>4. Latest' = Latest
      BY <1>1, <1>3 DEF Latest
<1>5. ExecType'
  <2>1. valStore' \in [1 .. MaxHeight + 2 -> ValidatorSets \cup {Absent}]
        BY <1>2 DEF ExecInv, ExecType
  <2> QED
      BY <1>1, <1>3, <2>1 DEF ExecInv, ExecType, Applying, Steps
<1>6. LatestInv'
      BY <1>1, <1>4 DEF ExecInv, LatestInv, TimesMonotone
<1>7. StoreInv'
  <2>1. ASSUME NEW h \in DOMAIN valStore'
        PROVE  /\ valStore'[h] # Absent => h <= Len(decidedVals) /\ valStore'[h] = decidedVals[h]
               /\ bs.base <= h /\ h <= Len(decidedVals) => valStore'[h] # Absent
    <3>1. h \in DOMAIN valStore /\ h \in Int
          BY <1>2, <2>1 DEF ExecInv, ExecType
    <3>2. bs.base <= h => valStore'[h] = valStore[h]
          BY <1>1, <1>2, <3>1 DEF Applying
    <3>3. valStore'[h] # Absent => valStore'[h] = valStore[h]
          BY <1>2, <3>1
    <3> QED
        BY <3>1, <3>2, <3>3 DEF ExecInv, StoreInv
  <2>2. ASSUME NEW h \in 1 .. Latest.height, bs.base <= h PROVE h \in results'
    <3>1. h \in results /\ h \in Int
          BY <2>2 DEF ExecInv, StoreInv, LatestInv
    <3> QED
        BY <1>1, <2>2, <3>1 DEF Applying
  <2> QED
      BY <1>1, <1>3, <1>4, <2>1, <2>2 DEF StoreInv
<1>8. AnnouncedInv'
      BY <1>1, <1>3 DEF ExecInv, AnnouncedInv
<1>9. QueryInv'
      BY <1>1 DEF ExecInv, QueryInv, QueryAnswered
<1> QED
    BY <1>5, <1>6, <1>7, <1>8, <1>9 DEF ExecInv

\* A block is announced once, after it was applied.
LEMMA FireEventsInv == ASSUME ExecInv, FireEvents PROVE ExecInv'
<1>1. /\ apply.step = "events" /\ apply # NotApplying /\ Applying
      /\ UNCHANGED <<st, valStore, results, bs, decidedVals, times, query>>
      /\ announced' = Append(announced, apply.new.height)
      /\ apply' = [apply EXCEPT !.step = "block"]
      BY DEF ExecInv, ExecType, NotApplying, FireEvents
<1>2. /\ apply'.step = "block" /\ apply'.new = apply.new
      /\ apply' = [step |-> apply'.step, new |-> apply'.new, base |-> apply'.base,
                   retain |-> apply'.retain]
      /\ apply'.base = apply.base /\ apply'.retain = apply.retain /\ apply' # NotApplying
      BY <1>1 DEF Applying, NotApplying
<1>3. Latest' = Latest
      BY <1>1, <1>2 DEF Latest
<1>4. /\ bs.height \in Nat /\ Len(announced) = bs.height /\ announced \in Seq(Nat)
      /\ apply.new.height = bs.height + 1
      BY <1>1 DEF ExecInv, ExecType, AnnouncedInv, Applying
<1>5. /\ announced' \in Seq(Nat) /\ Len(announced') = bs.height + 1
      /\ \A i \in 1 .. bs.height : announced'[i] = announced[i]
      /\ announced'[bs.height + 1] = bs.height + 1
      BY <1>1, <1>4, Appended
<1>6. ExecType'
      BY <1>1, <1>2, <1>5 DEF ExecInv, ExecType, Applying, Steps
<1>7. LatestInv'
      BY <1>1, <1>3 DEF ExecInv, LatestInv, TimesMonotone
<1>8. StoreInv'
      BY <1>1, <1>2, <1>3 DEF ExecInv, StoreInv
<1>9. AnnouncedInv'
  <2> SUFFICES ASSUME NEW i \in 1 .. bs.height + 1 PROVE announced'[i] = i
      BY <1>1, <1>2, <1>5 DEF AnnouncedInv
  <2>1. CASE i = bs.height + 1
        BY <1>5, <2>1
  <2>2. CASE i \in 1 .. bs.height
        BY <1>1, <1>4, <1>5, <2>2 DEF ExecInv, AnnouncedInv
  <2> QED
      BY <1>4, <2>1, <2>2
<1>10. QueryInv'
       BY <1>1 DEF ExecInv, QueryInv, QueryAnswered
<1> QED
    BY <1>6, <1>7, <1>8, <1>9, <1>10 DEF ExecInv

\* The last step of BlockAccept: the state becomes the VM's.
LEMMA SaveBlockInv == ASSUME ExecInv, SaveBlock PROVE ExecInv'
<1>1. /\ apply.step = "block" /\ apply # NotApplying /\ Applying
      /\ UNCHANGED <<results, decidedVals, times, announced, query>>
      /\ bs' = [base |-> IF bs.base = 0 THEN apply.new.height ELSE bs.base,
                height |-> apply.new.height]
      /\ valStore' = Saved(valStore, apply.new)
      /\ st' = apply.new /\ apply' = NotApplying
      BY DEF ExecInv, ExecType, NotApplying, SaveBlock
<1>2. Latest = apply.new /\ Latest' = apply.new /\ apply'.step = "idle"
      BY <1>1 DEF Latest, NotApplying
<1>3. /\ bs.height \in Nat /\ bs.base \in Int /\ apply.new.height = bs.height + 1
      /\ Len(decidedVals) = bs.height + 3 /\ decidedVals \in Seq(ValidatorSets)
      /\ apply.new.nextVals = decidedVals[bs.height + 3]
  <2>1. bs.height \in Nat /\ bs.base \in Int /\ apply.new.height = bs.height + 1
        BY <1>1 DEF ExecInv, ExecType, Applying
  <2>2. /\ Len(decidedVals) = (bs.height + 1) + 2 /\ decidedVals \in Seq(ValidatorSets)
        /\ apply.new.nextVals = decidedVals[(bs.height + 1) + 2]
        BY <1>2, <2>1 DEF ExecInv, ExecType, LatestInv
  <2>3. (bs.height + 1) + 2 = bs.height + 3
        BY <2>1
  <2> QED
      BY <2>1, <2>2, <2>3
<1>4. apply.new.nextVals \in ValidatorSets
      BY <1>3
<1>5. /\ bs' \in [base : Int, height : Nat] /\ bs'.height = bs.height + 1
      /\ bs.base <= bs'.base
      BY <1>1, <1>3
<1>6. ExecType'
  <2>1. valStore' \in [1 .. MaxHeight + 2 -> ValidatorSets \cup {Absent}]
        BY <1>1, <1>4 DEF ExecInv, ExecType, Saved
  <2> QED
      BY <1>1, <1>3, <1>5, <2>1 DEF ExecInv, ExecType
<1>7. LatestInv'
      BY <1>1, <1>2 DEF ExecInv, LatestInv, TimesMonotone
<1>8. StoreInv'
  <2>1. ASSUME NEW h \in DOMAIN valStore'
        PROVE  /\ valStore'[h] # Absent => h <= Len(decidedVals) /\ valStore'[h] = decidedVals[h]
               /\ bs'.base <= h /\ h <= Len(decidedVals) => valStore'[h] # Absent
    <3>1. h \in Int /\ h \in DOMAIN valStore
          BY <1>6, <2>1, ExecConstants DEF ExecInv, ExecType
    <3>2. CASE h = bs.height + 3
          BY <1>1, <1>3, <1>4, <3>1, <3>2, ExecConstants DEF Saved
    <3>3. CASE h # bs.height + 3
      <4>1. valStore'[h] = valStore[h]
            BY <1>1, <1>3, <3>1, <3>3 DEF Saved
      <4>2. bs'.base <= h => bs.base <= h
            BY <1>3, <1>5, <3>1
      <4> QED
          BY <3>1, <4>1, <4>2 DEF ExecInv, StoreInv
    <3> QED
        BY <3>2, <3>3
  <2>2. ASSUME NEW h \in 1 .. Latest.height, bs'.base <= h PROVE h \in results
    <3>1. h \in Int
          BY <2>2 DEF ExecInv, LatestInv
    <3>2. bs.base <= h
          BY <1>3, <1>5, <2>2, <3>1
    <3> QED
        BY <2>2, <3>2 DEF ExecInv, StoreInv
  <2> QED
      BY <1>1, <1>2, <2>1, <2>2 DEF StoreInv
<1>9. AnnouncedInv'
      BY <1>1, <1>2, <1>5 DEF ExecInv, AnnouncedInv
<1>10. QueryInv'
  <2>1. query # Absent => query.height <= bs.height + 1
        BY <1>3 DEF ExecInv, QueryInv, Queries
  <2> QED
      BY <1>1, <1>5, <2>1 DEF ExecInv, QueryInv, QueryAnswered
<1> QED
    BY <1>6, <1>7, <1>8, <1>9, <1>10 DEF ExecInv

\* What a query is told of the validators or the results of its height.
LEMMA QueryLoadInv == ASSUME ExecInv, QueryLoad PROVE QueryInv'
<1>1. query # Absent /\ query \in Queries /\ query.height <= bs.height
      BY DEF ExecInv, QueryInv, QueryLoad
<1> DEFINE h == query.height
<1> DEFINE a == CASE query.of = "validators" -> valStore[h]
                  [] query.of = "results" /\ h \in results -> h
                  [] OTHER -> Absent
<1>2. /\ query' = [query EXCEPT !.done = TRUE, !.base = bs.base, !.answer = a]
      /\ UNCHANGED <<bs, decidedVals>>
      BY DEF QueryLoad
<1>3. /\ bs.height \in Nat /\ bs.base \in Int /\ h \in 1 .. MaxHeight /\ h \in Int
      /\ h \in 1 .. bs.height
      BY <1>1, ExecConstants DEF ExecInv, ExecType, Queries
<1>4. h \in DOMAIN valStore /\ valStore[h] \in ValidatorSets \cup {Absent}
      BY <1>3, ExecConstants DEF ExecInv, ExecType
<1>5. Latest.height \in Nat /\ bs.height <= Latest.height /\ Len(decidedVals) = Latest.height + 2
      BY <1>3 DEF ExecInv, ExecType, LatestInv, Latest, Applying
<1>6. /\ valStore[h] # Absent => valStore[h] = decidedVals[h]
      /\ valStore[h] = Absent => h < bs.base
      BY <1>3, <1>4, <1>5 DEF ExecInv, StoreInv
<1>7. h \notin results => h < bs.base
      BY <1>3, <1>5 DEF ExecInv, StoreInv
<1>8. \/ a = Absent /\ h < bs.base
      \/ a = IF query.of = "validators" THEN decidedVals[h] ELSE h
      BY <1>1, <1>6, <1>7 DEF Queries
<1>9. a \in ValidatorSets \cup Nat \cup {Absent}
      BY <1>3, <1>4
<1> HIDE DEF a
<1>10. /\ query' \in Queries /\ query'.height = h /\ query'.of = query.of
       /\ query'.answer = a /\ query'.base = bs.base
       BY <1>1, <1>2, <1>3, <1>9 DEF Queries
<1> QED
    BY <1>1, <1>2, <1>8, <1>10 DEF QueryInv, QueryAnswered

\* The queries read only.
LEMMA QueriesInv ==
    ASSUME ExecInv, QueryBegin \/ QueryLoad \/ QueryEnd
    PROVE  ExecInv'
<1>1. UNCHANGED <<st, valStore, results, bs, apply, decidedVals, times, announced>>
      BY DEF QueryBegin, QueryLoad, QueryEnd
<1>2. ExecType' /\ LatestInv' /\ StoreInv' /\ AnnouncedInv'
      BY <1>1 DEF ExecInv, ExecType, LatestInv, StoreInv, AnnouncedInv, Latest, Applying,
                  TimesMonotone
<1>3. CASE QueryBegin
  <2>1. PICK h \in 1 .. MaxHeight, of \in {"validators", "results"} :
            /\ HeightOffered(h)
            /\ query' = [of |-> of, height |-> h, answer |-> Absent, done |-> FALSE,
                         base |-> bs.base]
        BY <1>3 DEF QueryBegin
  <2>2. bs.base \in Int /\ h <= bs.height
        BY <2>1 DEF ExecInv, ExecType, HeightOffered
  <2>3. query' \in Queries /\ query'.height = h /\ ~query'.done
        BY <2>1, <2>2 DEF Queries
  <2>4. QueryInv'
        BY <1>1, <2>2, <2>3 DEF QueryInv, QueryAnswered
  <2> QED
      BY <1>2, <2>4 DEF ExecInv
<1>4. CASE QueryLoad
      BY <1>2, <1>4, QueryLoadInv DEF ExecInv
<1>5. CASE QueryEnd
      BY <1>2, <1>5 DEF ExecInv, QueryInv, QueryEnd
<1> QED
    BY <1>3, <1>4, <1>5

\* Every step keeps the invariant.
LEMMA ExecStepInv ==
    ExecInv /\ [ExecNext]_execVars => ExecInv'
<1> SUFFICES ASSUME ExecInv, [ExecNext]_execVars PROVE ExecInv'
    OBVIOUS
<1>1. CASE MakeGenesis \/ VMBuildBlock \/ RefuseBlock \/ UNCHANGED execVars
  <2>1. /\ results \subseteq results'
        /\ UNCHANGED <<st, valStore, bs, apply, decidedVals, times, announced, query>>
        BY <1>1 DEF MakeGenesis, VMBuildBlock, RefuseBlock, execVars
  <2> QED
      BY <2>1, CandidatesInv
<1>2. ASSUME NEW blk \in candidates, NEW upd \in Changes, NEW retain \in ExecRetainHeights,
             ApplyBlock(blk, upd, retain)
      PROVE  ExecInv'
      BY <1>2, ApplyBlockInv
<1>3. CASE ExecutorPruneBlocks \/ PruneStates \/ FireEvents \/ SaveBlock
      BY <1>3, PruneBlocksInv, PruneStatesInv, FireEventsInv, SaveBlockInv
<1>4. CASE QueryBegin \/ QueryLoad \/ QueryEnd
      BY <1>4, QueriesInv
<1> QED
    BY <1>1, <1>2, <1>3, <1>4 DEF ExecNext

-----------------------------------------------------------------------------
\* What the invariant says of the properties.
LEMMA ExecInOrder == ExecInv => ExecutionInOrder
<1> SUFFICES ASSUME ExecInv
             PROVE  SetsAsDecided /\ QueryAnswered /\ TimesMonotone /\ AnnouncedInOrder
    BY DEF ExecutionInOrder
<1>1. SetsAsDecided
  <2>1. DOMAIN decidedVals = 1 .. Len(decidedVals) /\ DOMAIN valStore = 1 .. MaxHeight + 2
        BY DEF ExecInv, ExecType
  <2>2. ASSUME NEW h \in DOMAIN valStore, valStore[h] # Absent
        PROVE  h \in DOMAIN decidedVals /\ valStore[h] = decidedVals[h]
        BY <2>1, <2>2, ExecConstants DEF ExecInv, ExecType, StoreInv
  <2>3. apply = NotApplying => Latest = st
        BY DEF Latest
  <2> QED
      BY <2>2, <2>3 DEF SetsAsDecided, ExecInv, LatestInv
<1>2. QueryAnswered
      BY DEF ExecInv, QueryInv, QueryAnswered
<1>3. TimesMonotone
      BY DEF ExecInv, LatestInv
<1>4. AnnouncedInOrder
      BY DEF ExecInv, ExecType, AnnouncedInv, AnnouncedInOrder
<1> QED
    BY <1>1, <1>2, <1>3, <1>4

\* Every execution has the invariant.
THEOREM ExecInvariance == ExecSpec => []ExecInv
<1>1. ExecInit => ExecInv
      BY ExecInitInv
<1>2. ExecInv /\ [ExecNext]_execVars => ExecInv'
      BY ExecStepInv
<1> QED
    BY <1>1, <1>2, PTL DEF ExecSpec

\* ApplyBlock, BlockAccept and the RPC handlers beside them, for any application and any
\* clocks: the validators of a height are those decided for it (updateState, Save,
\* PruneStates), a query that got past getHeight is answered rightly or was overtaken by
\* the pruning, and blocks are timed and published in order (validateBlock, fireEvents).
THEOREM ExecutionAlwaysInOrder == ExecSpec => []ExecutionInOrder
    BY ExecInvariance, ExecInOrder, PTL
=============================================================================
