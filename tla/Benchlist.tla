----------------------------- MODULE Benchlist ------------------------------
(***************************************************************************)
(* The benchlist of a chain (networking/benchlist/benchlist.go): nodes     *)
(* that failed to answer several requests in a row are benched for a       *)
(* while, and a goroutine unbenches them when their time is over. The      *)
(* goroutine sleeps on a timer, or on the channel resetTimer while nobody  *)
(* is benched; resetTimer holds one message. benchlistSet and benchedHeap  *)
(* change together under the lock and are one variable here. Whoever       *)
(* registers a failure holds that lock while it asks the validator manager *)
(* three times, and the validators may change in between.                  *)
(***************************************************************************)
EXTENDS Integers, FiniteSets, FiniteSetsExt

CONSTANTS
    Nodes,
    Threshold,               \* consecutive failures that bench a node
    MinimumFailingDuration,
    Duration,                \* a node is benched for at most this long
    PortionNum, PortionDen,  \* maxPortion, a fraction in [0, 1)
    Weights,                 \* the weights that a validator may have
    MaxTime,                 \* bound: until when failures are registered
    Unset                    \* no time

VARIABLES
    clock,
    benched,     \* per node: when it is unbenched, or Unset
    streaks,     \* failureStreaks
    resetTimer,  \* a message is pending
    run,         \* the goroutine: where it is, when its timer fires, for how
                 \* long it has decided to sleep
    weight,      \* the validators of the subnet; 0: not a validator
    bencher,     \* the call of bench: where it is and what it has read
    steady       \* history: the validators have not changed since a node was
                 \* benched or about to be, with nobody else benched

benchState == <<clock, benched, streaks, resetTimer, run, weight, bencher>>
benchVars == <<benchState, steady>>

-----------------------------------------------------------------------------
NoCall == [pc |-> "none", node |-> Unset, stake |-> 0, benchedStake |-> 0]
Unlocked == bencher = NoCall

NoStreak == [consecutive |-> 0, firstFailure |-> Unset]

Benched == {n \in Nodes : benched[n] # Unset}
SubsetWeight(S) == MapThenSumSet(LAMBDA n : weight[n], S)
TotalWeight == SubsetWeight(Nodes)

IsBenched(n) == n \in Benched

\* What Peek returns: the earliest time at which a node is unbenched.
NextExpiry == Min({benched[n] : n \in Benched})

BenchInit ==
    /\ clock = 0
    /\ benched = [n \in Nodes |-> Unset]
    /\ streaks = [n \in Nodes |-> NoStreak]
    /\ resetTimer = FALSE
    /\ run = [pc |-> "select", wake |-> 0, sleep |-> 0]
    /\ weight \in [Nodes -> Weights]
    /\ bencher = NoCall
    /\ steady = TRUE

-----------------------------------------------------------------------------
(* The environment: time passes, and the validators change.                *)

\* After MaxTime the clock goes on as far as somebody waits for it.
Tick ==
    /\ \/ clock < MaxTime
       \/ run.pc = "select" /\ clock < run.wake
       \/ \E n \in Benched : clock < benched[n]
    /\ clock' = clock + 1
    /\ UNCHANGED <<benched, streaks, resetTimer, run, weight, bencher>>

SetWeight(n, w) ==
    /\ w # weight[n]
    /\ weight' = [weight EXCEPT ![n] = w]
    /\ UNCHANGED <<clock, benched, streaks, resetTimer, run, bencher>>

-----------------------------------------------------------------------------
(* RegisterResponse and RegisterFailure, called as requests are answered   *)
(* or time out.                                                            *)

RegisterResponse(n) ==
    /\ streaks' = [streaks EXCEPT ![n] = NoStreak]
    /\ UNCHANGED <<clock, benched, resetTimer, run, weight, bencher>>

\* The count is only compared with the threshold, so it stops there.
Extended(streak) ==
    [consecutive |-> Min({streak.consecutive + 1, Threshold}),
     firstFailure |-> IF streak.firstFailure = Unset THEN clock
                      ELSE streak.firstFailure]

FailingLongEnough(streak) ==
    /\ streak.consecutive >= Threshold
    /\ clock > streak.firstFailure + MinimumFailingDuration

\* GetWeight, the first thing that bench does: only validators are benched.
RegisterFailure(n) ==
    LET streak == Extended(streaks[n]) IN
    /\ Unlocked
    /\ clock < MaxTime
    /\ ~IsBenched(n)
    /\ streaks' = [streaks EXCEPT ![n] = streak]
    /\ bencher' = IF FailingLongEnough(streak) /\ weight[n] > 0
                  THEN [pc |-> "subset", node |-> n, stake |-> weight[n], benchedStake |-> 0]
                  ELSE NoCall
    /\ UNCHANGED <<clock, benched, resetTimer, run, weight>>

\* SubsetWeight
ReadBenchedStake ==
    /\ bencher.pc = "subset"
    /\ bencher' = [bencher EXCEPT !.pc = "total", !.benchedStake = SubsetWeight(Benched)]
    /\ UNCHANGED <<clock, benched, streaks, resetTimer, run, weight>>

\* A mutant: the stake of the node itself is left out of the comparison.
WithinPortionExcluding == PortionDen * bencher.benchedStake <= PortionNum * TotalWeight

\* TotalWeight, and the comparison with what was read before.
WithinPortion ==
    PortionDen * (bencher.benchedStake + bencher.stake) <= PortionNum * TotalWeight

Bench(n, until) ==
    /\ benched' = [benched EXCEPT ![n] = until]
    /\ streaks' = [streaks EXCEPT ![n] = NoStreak]
    /\ resetTimer' = TRUE

BenchReturns ==
    /\ bencher.pc = "total"
    /\ IF WithinPortion
       THEN \E d \in Duration \div 2 .. Duration - 1 : Bench(bencher.node, clock + d)
       ELSE UNCHANGED <<benched, streaks, resetTimer>>
    /\ bencher' = NoCall
    /\ UNCHANGED <<clock, run, weight>>

-----------------------------------------------------------------------------
(* The goroutine. A timer that has fired is drained on both paths.         *)

TimerFires ==
    /\ run.pc = "select"
    /\ clock >= run.wake
    /\ run' = [run EXCEPT !.pc = "wait"]
    /\ UNCHANGED <<clock, benched, streaks, resetTimer, weight, bencher>>

TimerReset ==
    /\ run.pc = "select"
    /\ resetTimer
    /\ resetTimer' = FALSE
    /\ run' = [run EXCEPT !.pc = "wait"]
    /\ UNCHANGED <<clock, benched, streaks, weight, bencher>>

\* waitForBenchedNodes looks at the heap and then blocks on resetTimer.
WaitForBenchedNodes ==
    /\ run.pc = "wait" /\ Unlocked
    /\ run' = [run EXCEPT !.pc = IF Benched = {} THEN "blocked" ELSE "remove"]
    /\ UNCHANGED <<clock, benched, streaks, resetTimer, weight, bencher>>

WaitWoken ==
    /\ run.pc = "blocked"
    /\ resetTimer
    /\ resetTimer' = FALSE
    /\ run' = [run EXCEPT !.pc = "wait"]
    /\ UNCHANGED <<clock, benched, streaks, weight, bencher>>

RemovedExpiredNodes ==
    /\ run.pc = "remove" /\ Unlocked
    /\ benched' = [n \in Nodes |->
                     IF IsBenched(n) /\ benched[n] <= clock THEN Unset ELSE benched[n]]
    /\ run' = [run EXCEPT !.pc = "duration"]
    /\ UNCHANGED <<clock, streaks, resetTimer, weight, bencher>>

DurationToSleep ==
    /\ run.pc = "duration" /\ Unlocked
    /\ run' = [run EXCEPT !.pc = "reset",
                          !.sleep = IF Benched = {} THEN 0 ELSE NextExpiry - clock]
    /\ UNCHANGED <<clock, benched, streaks, resetTimer, weight, bencher>>

\* The clock may have moved since the duration was computed.
ResetTimer ==
    /\ run.pc = "reset"
    /\ run' = [pc |-> "select", wake |-> clock + run.sleep, sleep |-> 0]
    /\ UNCHANGED <<clock, benched, streaks, resetTimer, weight, bencher>>

Run ==
    \/ TimerFires \/ TimerReset \/ WaitForBenchedNodes \/ WaitWoken
    \/ RemovedExpiredNodes \/ DurationToSleep \/ ResetTimer

BenchCallStep == ReadBenchedStake \/ BenchReturns

Observed(A) ==
    /\ A
    /\ steady' = \/ Benched' = {} /\ bencher' = NoCall
                 \/ steady /\ weight' = weight

BenchNext ==
    \/ Observed(Tick) \/ Observed(Run) \/ Observed(BenchCallStep)
    \/ \E n \in Nodes :
          \/ Observed(RegisterResponse(n)) \/ Observed(RegisterFailure(n))
          \/ \E w \in Weights : Observed(SetWeight(n, w))

\* Time passes, and the goroutine and the calls run. Nothing is assumed of the
\* requests.
BenchSpec ==
    /\ BenchInit /\ [][BenchNext]_benchVars
    /\ WF_benchVars(Observed(Tick)) /\ WF_benchVars(Observed(Run))
    /\ WF_benchVars(Observed(BenchCallStep))

-----------------------------------------------------------------------------
\* Every benched node is unbenched once its time is over, whoever else is
\* benched while the goroutine decides how long to sleep: "Whenever a new node
\* is benched we ensure that resetTimer has a pending message".
UnbenchedInTime ==
    \A n \in Nodes : IsBenched(n) ~> ~IsBenched(n)

\* However failures, answers and expiries interleave with the three reads of a
\* call, the stake that is benched stays within its portion of the total for as
\* long as the validators have not changed since the first of the benched nodes
\* failed: the calls exclude each other. (When they change, it may exceed it.)
BenchWithinPortion ==
    steady => PortionDen * SubsetWeight(Benched) <= PortionNum * TotalWeight
=============================================================================
