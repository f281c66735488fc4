----------------------------- MODULE VdrManager -----------------------------
(***************************************************************************)
(* The validators of each subnet with their weights (validators.Manager    *)
(* and its vdrSets), as the warp API, the benchlist and the IP tracker     *)
(* read them. The manager's lock guards the map of sets and each set has a *)
(* lock of its own: a reader gives the first up before it takes the        *)
(* second, AddWeight keeps both. Listeners are told of every change.       *)
(***************************************************************************)
EXTENDS Integers, FiniteSets, FiniteSetsExt, SequencesExt, TLC

CONSTANTS
    VdrSubnets, VdrNodes,
    MaxWeight,      \* math.MaxUint64
    MaxSets,        \* bound: sets in memory, those behind a pointer included
    None

VARIABLE vm
(* vm.sets: the sets in memory, by an identity that stands for a pointer;
   vm.subnetToVdrs, vm.listening (the manager's listener is registered);
   vm.onSet[s]: the listener of subnet s is registered;
   vm.view[l]: what listener l makes of what it is told, of subnet and node;
   vm.misled: a listener was told of a change from what it did not know;
   vm.ledger: the weights that the calls which returned without an error add
   up to; vm.adder, vm.reader: a call of AddWeight, of TotalWeight.          *)

Keys == VdrSubnets \X VdrNodes

NewSet(subnet, listening) ==
    [subnet |-> subnet, vdrs |-> <<>>, vdrSlice |-> <<>>, weights |-> <<>>, totalWeight |-> 0,
     managerListener |-> listening, setListener |-> FALSE]

\* The sets that something points to, and an identity for another one.
Pointers == {vm.subnetToVdrs[s] : s \in VdrSubnets} \cup {vm.adder.set, vm.reader.set}
Fresh == CHOOSE i \in 1 .. MaxSets : i \notin Pointers

NoCall == [set |-> None, node |-> None, weight |-> 0, key |-> None]

VdrInit ==
    vm = [sets |-> [i \in 1 .. MaxSets |-> None], subnetToVdrs |-> [s \in VdrSubnets |-> None],
          listening |-> FALSE, view |-> [l \in {"manager"} \cup VdrSubnets |-> <<>>],
          misled |-> FALSE, ledger |-> [k \in Keys |-> 0],
          adder |-> NoCall,
          reader |-> [set |-> None, subnet |-> None, seen |-> {}, wrong |-> FALSE]]

-----------------------------------------------------------------------------
(* The callbacks: to the manager's listener if the set has it, and to its  *)
(* own. A listener keeps a map of what it was told.                        *)

Told(v, set, Op(_), Expects(_)) ==
    LET to == (IF set.managerListener THEN {"manager"} ELSE {})
              \cup (IF set.setListener THEN {set.subnet} ELSE {})
    IN  [v EXCEPT !.view = [l \in DOMAIN @ |-> IF l \in to THEN Op(@[l]) ELSE @[l]],
                  !.misled = @ \/ \E l \in to : ~Expects(v.view[l])]

OnValidatorAdded(v, set, n, w) ==
    LET k == <<set.subnet, n>> IN
    Told(v, set, LAMBDA f : (k :> w) @@ f, LAMBDA f : k \notin DOMAIN f)

OnWeightChanged(v, set, n, old, new) ==
    LET k == <<set.subnet, n>> IN
    Told(v, set, LAMBDA f : (k :> new) @@ f, LAMBDA f : k \in DOMAIN f /\ f[k] = old)

OnValidatorRemoved(v, set, n, old) ==
    LET k == <<set.subnet, n>> IN
    Told(v, set, LAMBDA f : [x \in DOMAIN f \ {k} |-> f[x]],
         LAMBDA f : k \in DOMAIN f /\ f[k] = old)

-----------------------------------------------------------------------------
(* vdrSet, of the set behind pointer i. Each gives the new state, and the  *)
(* old one if it returns an error.                                         *)

SetAdd(v, i, n, w) ==
    LET s == v.sets[i] IN
    IF n \in DOMAIN s.vdrs THEN v
    ELSE OnValidatorAdded(
           [v EXCEPT !.sets[i].vdrs = (n :> [weight |-> w, index |-> Len(s.vdrSlice) + 1]) @@ @,
                     !.sets[i].vdrSlice = Append(@, n), !.sets[i].weights = Append(@, w),
                     !.sets[i].totalWeight = @ + w, !.ledger[<<s.subnet, n>>] = @ + w],
           s, n, w)

SetAddWeight(v, i, n, w) ==
    LET s   == v.sets[i]
        new == s.vdrs[n].weight + w
    IN  IF n \notin DOMAIN s.vdrs THEN v ELSE IF new > MaxWeight THEN v
        ELSE OnWeightChanged(
               [v EXCEPT !.sets[i].vdrs[n].weight = new,
                         !.sets[i].weights[s.vdrs[n].index] = new,
                         !.sets[i].totalWeight = @ + w, !.ledger[<<s.subnet, n>>] = @ + w],
               s, n, s.vdrs[n].weight, new)

\* The last validator takes the place of the one removed.
TakenOut(s, n) ==
    LET i == s.vdrs[n].index  last == Len(s.vdrSlice)  moved == s.vdrSlice[last] IN
    [s EXCEPT !.vdrs = [m \in DOMAIN @ \ {n} |-> IF m = moved THEN [@[m] EXCEPT !.index = i]
                                                  ELSE @[m]],
              !.vdrSlice = Front([@ EXCEPT ![i] = moved]),
              !.weights = Front([@ EXCEPT ![i] = s.vdrs[moved].weight])]

SetRemoveWeight(v, i, n, w) ==
    LET s   == v.sets[i]
        old == s.vdrs[n].weight
        sub == [v EXCEPT !.sets[i].totalWeight = @ - w, !.ledger[<<s.subnet, n>>] = @ - w]
    IN  IF n \notin DOMAIN s.vdrs THEN v ELSE IF old < w THEN v
        ELSE IF old = w
        THEN OnValidatorRemoved([sub EXCEPT !.sets[i] = TakenOut(@, n)], s, n, old)
        ELSE OnWeightChanged([sub EXCEPT !.sets[i].vdrs[n].weight = old - w,
                                         !.sets[i].weights[s.vdrs[n].index] = old - w],
                             s, n, old, old - w)

\* TotalWeight of a set; -1, an error, where it is not a uint64.
SetTotal(s) == IF s.totalWeight > MaxWeight THEN -1 ELSE s.totalWeight

\* What else is read of a set. SubsetWeight is -1, an error, where the sum is no
\* uint64; Map and GetValidatorIDs go through the slice.
setGet(s, n) == IF n \in DOMAIN s.vdrs THEN s.vdrs[n] ELSE None
setGetWeight(s, n) == IF n \in DOMAIN s.vdrs THEN s.vdrs[n].weight ELSE 0
setSubsetWeight(s, subset) ==
    LET total == MapThenSumSet(LAMBDA n : setGetWeight(s, n), subset) IN
    IF total > MaxWeight THEN -1 ELSE total
setLen(s) == Len(s.vdrSlice)
HasCallbackRegistered(s) == s.setListener
setMap(s) == [n \in ToSet(s.vdrSlice) |-> s.vdrs[n].weight]
setGetValidatorIDs(s) == s.vdrSlice

-----------------------------------------------------------------------------
(* manager.                                                                *)

\* Reads that take one lock after the other and look at one set. Of a subnet
\* without a set they return what they would of an empty one.
Reading(v, s) ==
    IF v.subnetToVdrs[s] = None THEN NewSet(s, FALSE) ELSE v.sets[v.subnetToVdrs[s]]

GetWeight(v, s, n) == setGetWeight(Reading(v, s), n)
GetValidator(v, s, n) == setGet(Reading(v, s), n)
SubsetWeight(v, s, subset) == setSubsetWeight(Reading(v, s), subset)
NumValidators(v, s) == setLen(Reading(v, s))
GetMap(v, s) == setMap(Reading(v, s))
GetValidatorIDs(v, s) == setGetValidatorIDs(Reading(v, s))

\* The total that TotalWeight should give.
TotalIn(v, s) ==
    LET total == MapThenSumSet(LAMBDA n : v.ledger[<<s, n>>], VdrNodes) IN
    IF total > MaxWeight THEN -1 ELSE total

\* What a change leads to: a reader in the midst of its call could as well
\* have read after it. Sets that nothing points to any more are collected.
Changed(v) ==
    LET keep == {v.subnetToVdrs[s] : s \in VdrSubnets} \cup {v.adder.set, v.reader.set} IN
    vm' = [v EXCEPT !.reader.seen = IF v.reader.subnet = None THEN {}
                                     ELSE @ \cup {TotalIn(v, v.reader.subnet)},
                    !.sets = [i \in DOMAIN @ |-> IF i \in keep THEN @[i] ELSE None]]

\* The manager's write lock is to be had.
Unlocked == vm.adder.key = None

\* The set of a subnet, made if there is none.
Ensured(s) ==
    IF vm.subnetToVdrs[s] # None THEN vm
    ELSE [vm EXCEPT !.subnetToVdrs[s] = Fresh, !.sets[Fresh] = NewSet(s, vm.listening)]

AddStaker(s, n, w) ==
    LET v == Ensured(s) IN
    /\ Unlocked
    /\ Changed(SetAdd(v, v.subnetToVdrs[s], n, w))

\* A mutant: a set is dropped with validators in it.
DesertedInUse(set) == ~HasCallbackRegistered(set)

\* The last validator is gone and no listener is registered on the set.
Deserted(set) == setLen(set) = 0 /\ ~HasCallbackRegistered(set)

RemoveWeight(s, n, w) ==
    LET i == vm.subnetToVdrs[s]
        v == SetRemoveWeight(vm, i, n, w)
    IN  /\ Unlocked /\ i # None
        /\ v # vm
        /\ IF Deserted(v.sets[i])
           THEN Changed([v EXCEPT !.subnetToVdrs[s] = None]) ELSE Changed(v)

\* AddWeight keeps the manager's lock over both of its steps.
AddWeightFind(s, n, w) ==
    /\ vm.adder.set = None /\ vm.subnetToVdrs[s] # None
    /\ vm' = [vm EXCEPT !.adder = [set |-> vm.subnetToVdrs[s], node |-> n, weight |-> w,
                                   key |-> <<s, n>>]]

AddWeightDo ==
    /\ vm.adder.set # None
    /\ Changed([SetAddWeight(vm, vm.adder.set, vm.adder.node, vm.adder.weight) EXCEPT
                  !.adder = NoCall])

\* TotalWeight: the set is found under the lock, and read without it.
TotalWeightFind(s) ==
    /\ vm.reader.subnet = None /\ vm.subnetToVdrs[s] # None
    /\ vm' = [vm EXCEPT !.reader = [@ EXCEPT !.set = vm.subnetToVdrs[s], !.subnet = s,
                                             !.seen = {TotalIn(vm, s)}]]

TotalWeightRead ==
    /\ vm.reader.subnet # None
    /\ Changed([vm EXCEPT !.reader =
                  [set |-> None, subnet |-> None, seen |-> {},
                   wrong |-> SetTotal(vm.sets[vm.reader.set]) \notin vm.reader.seen]])

\* The new listener alone is told of the validators there are.
Replay(v, i, to) ==
    LET s == v.sets[i] IN
    FoldLeft(LAMBDA acc, n : OnValidatorAdded(acc, to, n, s.vdrs[n].weight), v, s.vdrSlice)

RegisterCallbackListener ==
    LET held == {vm.subnetToVdrs[s] : s \in VdrSubnets} \ {None} IN
    /\ Unlocked /\ ~vm.listening
    /\ Changed(FoldLeft(LAMBDA v, i :
                   Replay([v EXCEPT !.sets[i].managerListener = TRUE], i,
                          [v.sets[i] EXCEPT !.managerListener = TRUE, !.setListener = FALSE]),
                 [vm EXCEPT !.listening = TRUE], SetToSeq(held)))

RegisterSetCallbackListener(s) ==
    LET v == Ensured(s)
        i == v.subnetToVdrs[s]
    IN  /\ Unlocked /\ ~v.sets[i].setListener
        /\ Changed(Replay([v EXCEPT !.sets[i].setListener = TRUE], i,
                          [v.sets[i] EXCEPT !.managerListener = FALSE, !.setListener = TRUE]))

VdrNext ==
    \/ \E s \in VdrSubnets, n \in VdrNodes, w \in 1 .. MaxWeight :
          AddStaker(s, n, w) \/ RemoveWeight(s, n, w) \/ AddWeightFind(s, n, w)
    \/ \E s \in VdrSubnets : TotalWeightFind(s) \/ RegisterSetCallbackListener(s)
    \/ AddWeightDo \/ TotalWeightRead \/ RegisterCallbackListener

-----------------------------------------------------------------------------

\* The indices, the slice of weights and the total belong to the validators
\* of the set, however validators come and go.
VdrsIndexed ==
    \A i \in 1 .. MaxSets : vm.sets[i] # None =>
        LET s == vm.sets[i] IN
        /\ Len(s.vdrSlice) = Cardinality(DOMAIN s.vdrs) /\ Len(s.weights) = Len(s.vdrSlice)
        /\ \A n \in DOMAIN s.vdrs :
              /\ s.vdrs[n].index \in DOMAIN s.vdrSlice
              /\ s.vdrSlice[s.vdrs[n].index] = n
              /\ s.weights[s.vdrs[n].index] = s.vdrs[n].weight
        /\ s.totalWeight = MapThenSumSet(LAMBDA n : s.vdrs[n].weight, DOMAIN s.vdrs)

\* No weight is lost or made up: what the calls that returned without an
\* error add up to is what the manager says, also where a set is dropped and
\* made anew while AddWeight runs; and all ways to read it say the same.
WeightsAccounted ==
    \A s \in VdrSubnets :
        LET staked == {n \in VdrNodes : vm.ledger[<<s, n>>] > 0} IN
        /\ \A n \in VdrNodes : GetWeight(vm, s, n) = vm.ledger[<<s, n>>]
        /\ GetMap(vm, s) = [n \in staked |-> vm.ledger[<<s, n>>]]
        /\ ToSet(GetValidatorIDs(vm, s)) = staked
        /\ NumValidators(vm, s) = Cardinality(staked)
        /\ \A n \in VdrNodes : (GetValidator(vm, s, n) # None) <=> n \in staked
        /\ SubsetWeight(vm, s, VdrNodes) = TotalIn(vm, s)

\* A listener that keeps a map of what it is told has the manager's, from its
\* registration on, and is told of no change that does not fit its map.
ListenersAgree ==
    LET actual(s) == [k \in {j \in Keys : j[1] = s /\ vm.ledger[j] > 0} |-> vm.ledger[k]] IN
    /\ ~vm.misled
    /\ vm.listening => vm.view["manager"] = [k \in {j \in Keys : vm.ledger[j] > 0} |-> vm.ledger[k]]
    /\ \A s \in VdrSubnets :
          vm.subnetToVdrs[s] # None =>
             (vm.sets[vm.subnetToVdrs[s]].setListener => vm.view[s] = actual(s))

\* The total that a reader gets was the subnet's at some moment of its call,
\* although it reads a set that may have been dropped meanwhile.
TotalWasTrue == ~vm.reader.wrong
=============================================================================
