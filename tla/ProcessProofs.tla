---------------------------- MODULE ProcessProofs ---------------------------
(***************************************************************************)
(* Proofs about the process and its goroutines: the trigger of builds, the *)
(* life of the process, the iterator over the node's database, and the     *)
(* recovery after a stop. Their modules share no variable; each has its    *)
(* own specification.                                                      *)
(***************************************************************************)
EXTENDS BuildTrigger, Lifecycle, Database, Recovery, TLAPS

-----------------------------------------------------------------------------
(* BuildTrigger                                                            *)

\* NeverForgotten is not inductive: that a signal exists follows from the
\* mempool's own flag, which stays set until the next Update. The mempool has
\* signalled whenever it holds a transaction, and a signal that
\* was given has not been lost.
SignalInv ==
    /\ TriggerTypeOK
    /\ mempool # {} => notified
    /\ notified /\ lost = 0 /\ ~closed =>
          SignalInFlight \/ pending > 0 \/ processing # {}

\* An idle trigger with an empty mempool owes no signal.
LEMMA InitSignal == TriggerInit => SignalInv
<1> SUFFICES ASSUME TriggerInit PROVE SignalInv
    OBVIOUS
<1>1. notified \in BOOLEAN /\ closed \in BOOLEAN /\ ~notified
      BY Zenon DEF TriggerInit
<1>2. mempool = {}
      BY DEF TriggerInit
<1>3. TriggerTypeOK
      BY <1>1 DEF TriggerInit, TriggerTypeOK
<1> QED
    BY <1>1, <1>2, <1>3, Zenon DEF SignalInv

\* Every step of the trigger keeps the types.
LEMMA StepType == TriggerTypeOK /\ [TriggerNext]_triggerVars => TriggerTypeOK'
<1> SUFFICES ASSUME TriggerTypeOK, [TriggerNext]_triggerVars PROVE TriggerTypeOK'
    OBVIOUS
<1> USE DEF TriggerTypeOK, mempoolVars, engineVars
<1>1. ASSUME NEW tx \in Txs, CheckTx(tx) PROVE TriggerTypeOK'
      BY <1>1 DEF CheckTx
<1>2. CASE ForwarderReceive \/ ForwarderSend \/ NotifierReceive
      BY <1>2 DEF ForwarderReceive, ForwarderSend, NotifierReceive
<1>3. CASE NotifyReturns \/ NotifierCloses
      BY <1>3 DEF NotifyReturns, Notify, NotifyFails, NotifierCloses
<1>10. CASE Shutdown
      BY <1>10, Zenon DEF Shutdown
<1>4. CASE BuildBlock
  <2>1. processing' \subseteq SUBSET Txs
        BY <1>4 DEF BuildBlock
  <2> QED
      BY <1>4, <2>1 DEF BuildBlock
<1>5. CASE BuildBlockFails
      BY <1>5 DEF BuildBlockFails
<1>6. ASSUME NEW S \in SUBSET Txs, AcceptTxs(S), foreign' \in Nat PROVE TriggerTypeOK'
      BY <1>6 DEF AcceptTxs, Update
<1>7. CASE AcceptOwn
      BY <1>6, <1>7 DEF AcceptOwn
<1>8. CASE AcceptForeign
      BY <1>6, <1>8 DEF AcceptForeign
<1>9. CASE UNCHANGED triggerVars
      BY <1>9 DEF triggerVars
<1> QED
    BY <1>1, <1>2, <1>3, <1>4, <1>5, <1>7, <1>8, <1>9, <1>10
    DEF TriggerNext, BuildReturns

\* Every step keeps the signal: it moves along the pipeline, turns into a debt
\* of the engine, into a proposal, and at the decision into a new signal.
LEMMA StepSignal == SignalInv /\ [TriggerNext]_triggerVars => SignalInv'
<1> SUFFICES ASSUME SignalInv, [TriggerNext]_triggerVars PROVE SignalInv'
    OBVIOUS
<1>0. TriggerTypeOK'
      BY StepType DEF SignalInv
<1> USE <1>0 DEF SignalInv, SignalInFlight, mempoolVars, engineVars
<1>1. ASSUME NEW tx \in Txs, CheckTx(tx) PROVE SignalInv'
      BY <1>1 DEF CheckTx
<1>2. CASE ForwarderReceive \/ ForwarderSend
      BY <1>2 DEF ForwarderReceive, ForwarderSend
<1>3. CASE NotifierReceive \/ NotifierCloses \/ Shutdown
      BY <1>3 DEF NotifierReceive, NotifierCloses, Shutdown, TriggerTypeOK
<1>4. CASE NotifyReturns
      BY <1>4 DEF NotifyReturns, Notify, NotifyFails, TriggerTypeOK
<1>5. CASE BuildReturns
  <2>1. CASE BuildBlock
        BY <1>5, <2>1 DEF BuildBlock, TriggerTypeOK
  <2>2. CASE BuildBlockFails
        BY <1>5, <2>2 DEF BuildBlockFails, TriggerTypeOK
  <2> QED
      BY <1>5, <2>1, <2>2 DEF BuildReturns
<1>6. ASSUME NEW S \in SUBSET Txs, AcceptTxs(S) PROVE SignalInv'
      BY <1>6 DEF AcceptTxs, Update
<1>7. CASE AcceptOwn
      BY <1>6, <1>7 DEF AcceptOwn, TriggerTypeOK
<1>8. CASE AcceptForeign
      BY <1>6, <1>8 DEF AcceptForeign
<1>9. CASE UNCHANGED triggerVars
      BY <1>9 DEF triggerVars
<1> QED
    BY <1>1, <1>2, <1>3, <1>4, <1>5, <1>7, <1>8, <1>9 DEF TriggerNext

\* For any set of transactions and any number of foreign blocks and losses, the
\* goroutines and channels of Initialize never forget the mempool.
THEOREM SignalNeverForgotten == TriggerSpec => []NeverForgotten
<1>1. SignalInv => NeverForgotten
      BY DEF SignalInv, NeverForgotten
<1> QED
    BY InitSignal, StepSignal, <1>1, PTL DEF TriggerSpec

-----------------------------------------------------------------------------
(* Lifecycle                                                               *)

\* The places of the goroutines, the stages of Initialize and the services.
LifeTypeOK ==
    /\ grpc \in {"new", "serving", "draining", "stopped"}
    /\ watcher \in {"no", "select", "stop", "drain", "exit"}
    /\ stage \in 0 .. Failed
    /\ held \subseteq Fields /\ running \subseteq held \cup {"forwarder"}
    /\ server \in [Servers -> {"no", "made", "added", "unused", "serving", "stopped"}]
    /\ closer \in [closed : BOOLEAN, servers : SUBSET Servers]
    /\ shutdown \in {"no", "services", "servers", "conns", "returned"}

\* The watcher stops the server for a reason, and a server that it stops because
\* of Shutdown is one that drains: it waits for that call.
StopInv ==
    /\ serve = "start" => watcher = "no"
    /\ allow <=> shutdown # "no"
    /\ allow => grpc # "new"
    /\ watcher \in {"no", "select", "stop"} => grpc \in {"new", "serving"}
    /\ watcher \in {"drain", "exit"} => grpc \in {"draining", "stopped"}
    /\ watcher \in {"stop", "drain", "exit"} => cancelled \/ allow
    /\ watcher = "drain" /\ allow => grpc = "draining"

\* What is left to stop at each step of Shutdown.
TakenDownInv ==
    /\ shutdown # "no" => stage \in {0, Ready, Failed}
    /\ shutdown \in {"servers", "conns"} => 
          running \subseteq {"conn", "dbConn", "notifier", "forwarder"}
    /\ shutdown \in {"conns", "returned"} => closer.closed
    /\ closer.closed => closer.servers = {}
    /\ \A s \in Servers : server[s] \in {"added", "unused", "serving"} => s \in closer.servers

\* The inductive invariant.
LifeInv ==
    /\ LifeTypeOK /\ StopInv /\ TakenDownInv /\ NoEarlyExit /\ ShutdownComplete

\* The stages and the numbers after them.
LEMMA StageNumbers ==
    /\ Len(Stages) = 11 /\ Ready = 12 /\ Failed = 13
    /\ DOMAIN Stages = 1 .. 11
BY DEF Stages, Ready, Failed

\* A process that has just started satisfies the invariant.
LEMMA LifeInitInv == LifeInit => LifeInv
<1> SUFFICES ASSUME LifeInit PROVE LifeInv
    OBVIOUS
<1>1. LifeTypeOK
      BY StageNumbers DEF LifeInit, LifeTypeOK
<1>2. StopInv /\ NoEarlyExit
      BY DEF LifeInit, StopInv, NoEarlyExit
<1>3. TakenDownInv /\ ShutdownComplete
      BY DEF LifeInit, TakenDownInv, ShutdownComplete
<1> QED
    BY <1>1, <1>2, <1>3 DEF LifeInv

\* Serve, the signals and the watcher leave what the engine's calls have made; the
\* watcher ends the process only when the server has drained.
LEMMA ProcessSideInv ==
    ASSUME LifeInv, UNCHANGED engineSide,
           \/ ServeStep \/ Cancel \/ WatcherStep
           \/ \E s \in {"SIGINT", "SIGTERM"} : Signal(s)
    PROVE  LifeInv'
<1> USE DEF engineSide
<1>1. TakenDownInv' /\ ShutdownComplete'
      BY DEF LifeInv, TakenDownInv, ShutdownComplete
<1>2. LifeTypeOK'
      BY DEF LifeInv, LifeTypeOK, ServeStep, ServeStart, ServeFails, ServeListens,
             ServeReturns, Cancel, WatcherStep, WatcherReceive, WatcherCancelled,
             StopBegins, StopEnds, Signal
<1>3. StopInv'
  <2> USE DEF LifeInv, StopInv
  <2>1. CASE ServeStep
        BY <2>1 DEF LifeTypeOK, ServeStep, ServeStart, ServeFails, ServeListens,
                    ServeReturns
  <2>2. CASE Cancel \/ \E s \in {"SIGINT", "SIGTERM"} : Signal(s)
        BY <2>2 DEF Cancel, Signal
  <2>3. CASE WatcherReceive \/ WatcherCancelled
        BY <2>3 DEF WatcherReceive, WatcherCancelled
  <2>4. CASE StopBegins \/ StopEnds
        BY <2>4 DEF LifeTypeOK, StopBegins, StopEnds
  <2> QED
      BY <2>1, <2>2, <2>3, <2>4 DEF WatcherStep
<1>4. NoEarlyExit'
      BY DEF LifeInv, LifeTypeOK, StopInv, NoEarlyExit, InCall, ServeStep, ServeStart,
             ServeFails, ServeListens, ServeReturns, Cancel, WatcherStep,
             WatcherReceive, WatcherCancelled, StopBegins, StopEnds, Signal
<1> QED
    BY <1>1, <1>2, <1>3, <1>4 DEF LifeInv

\* Initialize only adds to what is held, and not once Shutdown has begun.
LEMMA InitializeInv ==
    ASSUME LifeInv,
           \/ InitializeCalled \/ StageDone \/ InitializeReturns \/ StageFails
           \/ \E s \in {"BOOTSTRAPPING", "NORMAL_OP", "STATE_SYNCING"} : SetState(s)
    PROVE  LifeInv'
<1> USE StageNumbers DEF processSide
<1>1. LifeTypeOK'
  <2>1. CASE InitializeCalled \/ InitializeReturns
        BY <2>1 DEF LifeInv, LifeTypeOK, InitializeCalled, InitializeReturns
  <2>2. CASE StageDone
        BY <2>2 DEF LifeInv, LifeTypeOK, StageDone, Services
  <2>3. CASE StageFails
    <3>1. HeldFirst \subseteq Fields
          BY DEF HeldFirst, Fields
    <3> QED
        BY <2>3, <3>1 DEF LifeInv, LifeTypeOK, StageFails
  <2>4. CASE \E s \in {"BOOTSTRAPPING", "NORMAL_OP", "STATE_SYNCING"} : SetState(s)
        BY <2>4 DEF LifeInv, LifeTypeOK, SetState
  <2> QED
      BY <2>1, <2>2, <2>3, <2>4
<1>2. StopInv' /\ NoEarlyExit'
      BY DEF LifeInv, StopInv, NoEarlyExit, InitializeCalled, StageDone,
             InitializeReturns, StageFails, SetState
<1>3. TakenDownInv' /\ ShutdownComplete'
      BY DEF LifeInv, TakenDownInv, ShutdownComplete, InitializeCalled, StageDone,
             InitializeReturns, StageFails, SetState
<1> QED
    BY <1>1, <1>2, <1>3 DEF LifeInv

\* A server that may come to serve is with the closer, or is refused by it.
LEMMA ServerInv ==
    ASSUME LifeInv, NEW s \in Servers,
           NewServer(s) \/ AddServer(s) \/ ListenFails(s) \/ ServeHTTP(s)
    PROVE  LifeInv'
<1> USE DEF processSide
<1>1. LifeTypeOK'
      BY DEF LifeInv, LifeTypeOK, NewServer, AddServer, ListenFails, ServeHTTP
<1>2. StopInv' /\ NoEarlyExit'
      BY DEF LifeInv, StopInv, NoEarlyExit, NewServer, AddServer, ListenFails,
             ServeHTTP
<1>3. TakenDownInv' /\ ShutdownComplete'
      BY DEF LifeInv, LifeTypeOK, TakenDownInv, ShutdownComplete, NewServer, AddServer,
             ListenFails, ServeHTTP
<1> QED
    BY <1>1, <1>2, <1>3 DEF LifeInv

\* Each step of Shutdown takes down what is its own, and nothing comes back.
LEMMA ShutdownInv ==
    ASSUME LifeInv,
           ShutdownBegin \/ StopServices \/ StopServers \/ CloseConns \/ NotifierEnds
    PROVE  LifeInv'
<1> USE DEF processSide
<1>1. LifeTypeOK'
  <2>1. CASE ShutdownBegin \/ StopServices \/ CloseConns \/ NotifierEnds
        BY <2>1 DEF LifeInv, LifeTypeOK, ShutdownBegin, StopServices, CloseConns,
                    NotifierEnds
  <2>2. CASE StopServers
    <3>1. closer' \in [closed : BOOLEAN, servers : SUBSET Servers]
      <4>1. TRUE \in BOOLEAN /\ {} \in SUBSET Servers
            OBVIOUS
      <4> QED
          BY <2>2, <4>1, Zenon DEF StopServers
    <3> QED
        BY <2>2, <3>1 DEF LifeInv, LifeTypeOK, StopServers
  <2> QED
      BY <2>1, <2>2
<1>2. StopInv' /\ NoEarlyExit'
  <2>1. CASE ShutdownBegin
    <3>1. allow'
          BY <2>1, Zenon DEF ShutdownBegin
    <3> QED
        BY <2>1, <3>1 DEF LifeInv, LifeTypeOK, StopInv, NoEarlyExit, Callable,
                          ShutdownBegin
  <2>2. CASE StopServices \/ StopServers \/ CloseConns \/ NotifierEnds
        BY <2>2 DEF LifeInv, LifeTypeOK, StopInv, NoEarlyExit, StopServices,
                    StopServers, CloseConns, NotifierEnds
  <2> QED
      BY <2>1, <2>2
<1>3. TakenDownInv' /\ ShutdownComplete'
      BY DEF LifeInv, LifeTypeOK, TakenDownInv, ShutdownComplete, ShutdownBegin,
             StopServices, StopServers, CloseConns, NotifierEnds
<1> QED
    BY <1>1, <1>2, <1>3 DEF LifeInv

\* Every step of the process and of the engine's calls preserves the invariant.
LEMMA LifeStepInv == LifeInv /\ [LifeNext]_lifeVars => LifeInv'
<1> SUFFICES ASSUME LifeInv, [LifeNext]_lifeVars PROVE LifeInv'
    OBVIOUS
<1>1. CASE \/ ServeStep \/ Cancel \/ WatcherStep
           \/ \E s \in {"SIGINT", "SIGTERM"} : Signal(s)
  <2>1. UNCHANGED engineSide
        BY <1>1 DEF ServeStep, ServeStart, ServeFails, ServeListens, ServeReturns, Cancel,
                    WatcherStep, WatcherReceive, WatcherCancelled, StopBegins, StopEnds,
                    Signal
  <2> QED
      BY <1>1, <2>1, ProcessSideInv
<1>2. CASE UNCHANGED lifeVars
      BY <1>2 DEF lifeVars, LifeInv, LifeTypeOK, StopInv, TakenDownInv, NoEarlyExit,
                  ShutdownComplete
<1> QED
    BY <1>1, <1>2, InitializeInv, ServerInv, ShutdownInv DEF LifeNext, CallStep

\* For any number of HTTP servers and signals, the process exits for a signal only
\* after Shutdown, and a Shutdown that has returned has left nothing running but
\* the two goroutines that it does not wait for.
THEOREM ShutdownAlwaysInOrder == LifeSpec => []ExitsAfterShutdown
<1>1. LifeInv => ExitsAfterShutdown
      BY DEF LifeInv, ExitsAfterShutdown
<1> QED
    BY <1>1, LifeInitInv, LifeStepInv, PTL DEF LifeSpec

-----------------------------------------------------------------------------
(* Database, the iterator                                                  *)

\* The last entry that the server sent and fetch no longer offers.
Delivered == IF fpc \in {"offer", "update"} THEN Head(fetched) - 1 ELSE pos

\* Where a call of the user is, and how it came to that.
UserStates ==
    [pc : {"idle", "next", "receive", "error", "asked", "checked", "close", "await"},
     after : {"none", "valid", "close"}, calls : Nat, nexts : Nat, loop : BOOLEAN]

\* A batch that is offered has an entry, and only a user who has asked is told of
\* errors.
IterTypeOK ==
    /\ pos \in Nat /\ fetched \in Seq(Nat) /\ data \in Seq(Nat)
    /\ fpc \in {"offer", "update"} => fetched # <<>> /\ Head(fetched) <= pos
    /\ fpc = "update" => user.pc = "asked"
    /\ user \in UserStates
    /\ seen \in Seq([key : Nat, nexts : Nat])

\* What was read is behind the entries still to come, and behind the current one
\* unless it was read since the last Next.
BehindInv ==
    /\ \A i \in 1 .. Len(seen) :
          /\ seen[i].nexts <= user.nexts
          /\ seen[i].key <= Delivered
          /\ user.pc # "receive" /\ data # <<>> /\ seen[i].nexts < user.nexts =>
                seen[i].key < Head(data)
    /\ user.pc # "receive" /\ data # <<>> => Head(data) <= Delivered

\* The inductive invariant.
IterInv == IterTypeOK /\ BehindInv /\ DatabaseInOrder

\* An iterator that has just been made satisfies the invariant.
LEMMA IterInitInv == IterInit => IterInv
<1> SUFFICES ASSUME IterInit PROVE IterInv
    OBVIOUS
<1>1. IterTypeOK
      BY DEF IterInit, IterTypeOK, UserStates
<1> QED
    BY <1>1 DEF IterInit, IterInv, BehindInv, DatabaseInOrder

\* The head of a batch is an entry.
LEMMA HeadIsEntry == ASSUME NEW s \in Seq(Nat), s # <<>> PROVE Head(s) \in Nat
OBVIOUS

\* The elements of a sequence over a set.
LEMMA ElementIn == ASSUME NEW S, NEW s \in Seq(S), NEW i \in 1 .. Len(s) PROVE s[i] \in S
OBVIOUS

\* A reading has a key and a number of calls.
LEMMA ReadingTyped ==
    ASSUME NEW s \in Seq([key : Nat, nexts : Nat]), NEW i \in 1 .. Len(s)
    PROVE  s[i].key \in Nat /\ s[i].nexts \in Nat
<1>1. s[i] \in [key : Nat, nexts : Nat]
      BY ElementIn
<1> QED
    BY <1>1

\* Entries that were delivered are counted.
LEMMA DeliveredIsInt == IterTypeOK => Delivered \in Int
BY HeadIsEntry DEF IterTypeOK, Delivered

\* Whatever fetch does, it only moves on: the entries behind it stay behind.
LEMMA FetchInv == ASSUME IterInv, Fetch PROVE IterInv'
<1>1. UNCHANGED <<data, seen>> /\ user'.nexts = user.nexts
      BY DEF IterInv, IterTypeOK, UserStates, Fetch, FetchNext, UpdateError, FetchClosed, Release
<1>2. user'.pc = "receive" <=> user.pc = "receive"
      BY DEF IterInv, IterTypeOK, UserStates, Fetch, FetchNext, UpdateError, FetchClosed, Release
<1>3. IterTypeOK' /\ Delivered <= Delivered'
  <2>0. Delivered \in Int
        BY DeliveredIsInt DEF IterInv
  <2>1. ASSUME NEW n \in 1 .. MaxBatch, fpc = "next", fpc' = "offer", pos' = pos + n,
               fetched' = [i \in 1 .. n |-> pos + i], UNCHANGED user
        PROVE  IterTypeOK' /\ Delivered <= Delivered'
    <3>1. n \in Nat /\ n >= 1 /\ pos \in Nat
          BY <2>1 DEF IterInv, IterTypeOK
    <3>2. fetched' \in Seq(Nat)
          BY <2>1, <3>1
    <3>3. Len(fetched') = n /\ fetched'[1] = pos + 1
          BY <2>1, <3>1
    <3>4. fetched' # <<>> /\ Head(fetched') = pos + 1
          BY <3>1, <3>2, <3>3
    <3>5. IterTypeOK'
      <4>1. pos' \in Nat /\ Head(fetched') <= pos'
            BY <2>1, <3>1, <3>4
      <4> QED
          BY <1>1, <2>1, <3>2, <3>4, <4>1 DEF IterInv, IterTypeOK
    <3>6. Delivered = pos /\ Delivered' = pos
          BY <2>1, <3>1, <3>4 DEF Delivered
    <3> QED
        BY <3>1, <3>5, <3>6
  <2>2. ASSUME UNCHANGED <<pos, fetched, user>>, fpc' \in {"release", "closing", "ended"}
        PROVE  IterTypeOK' /\ Delivered <= Delivered'
    <3>1. IterTypeOK'
          BY <1>1, <2>2 DEF IterInv, IterTypeOK
    <3>2. Delivered' = pos /\ Delivered <= pos
          BY <2>2, HeadIsEntry DEF IterInv, IterTypeOK, Delivered
    <3> QED
        BY <3>1, <3>2
  <2>3. CASE FetchNext \/ FetchClosed \/ Release
        BY <2>1, <2>2, <2>3 DEF FetchNext, FetchClosed, Release
  <2>4. CASE UpdateError
    <3>1. UNCHANGED <<pos, fetched>> /\ fpc = "update" /\ fpc' = "offer"
          BY <2>4 DEF UpdateError
    <3>2. user' = [user EXCEPT !.pc = "checked"]
          BY <2>4 DEF UpdateError
    <3>3. IterTypeOK'
          BY <1>1, <3>1, <3>2 DEF IterInv, IterTypeOK, UserStates
    <3>4. Delivered' = Delivered
          BY <3>1 DEF Delivered
    <3> QED
        BY <2>0, <3>3, <3>4
  <2> QED
      BY <2>3, <2>4 DEF Fetch
<1>4. Delivered \in Int /\ Delivered' \in Int
  <2>1. Delivered \in Int
        BY DeliveredIsInt DEF IterInv
  <2>2. fetched' \in Seq(Nat) /\ pos' \in Nat
        BY <1>3 DEF IterTypeOK
  <2>3. fpc' \in {"offer", "update"} => fetched' # <<>>
        BY <1>3 DEF IterTypeOK
  <2> QED
      BY <2>1, <2>2, <2>3, HeadIsEntry DEF Delivered
<1>5. seen \in Seq([key : Nat, nexts : Nat]) /\ data \in Seq(Nat)
      BY DEF IterInv, IterTypeOK
<1>6. BehindInv'
  <2>0. \A i \in 1 .. Len(seen) : seen[i].key \in Nat
        BY <1>5, ReadingTyped
  <2>1. \A i \in 1 .. Len(seen) : seen[i].key <= Delivered'
        BY <1>3, <1>4, <2>0 DEF IterInv, BehindInv
  <2>2. data # <<>> => Head(data) \in Nat
        BY <1>5, HeadIsEntry
  <2> QED
      BY <1>1, <1>2, <1>3, <1>4, <2>1, <2>2 DEF IterInv, BehindInv
<1>7. DatabaseInOrder'
      BY <1>1 DEF IterInv, DatabaseInOrder
<1> QED
    BY <1>3, <1>6, <1>7 DEF IterInv

\* Calls that neither move the iterator nor read it.
Quiet == CloseDB \/ CallNext \/ CallValid \/ CallClose \/ ErrorAsk \/ CloseBegin \/ CloseEnd

\* Such a call changes nothing that the invariant is about but the place of the user.
LEMMA QuietInv == ASSUME IterInv, Quiet PROVE IterInv'
<1>1. UNCHANGED <<pos, fetched, data, seen>>
      BY DEF Quiet, CloseDB, CallNext, CallValid, CallClose, ErrorAsk, CloseBegin, CloseEnd
<1>2. UNCHANGED fpc \/ (fpc = "offer" /\ fpc' = "update")
      BY DEF Quiet, CloseDB, CallNext, CallValid, CallClose, ErrorAsk, CloseBegin, CloseEnd
<1>3. IterTypeOK' /\ user'.nexts = user.nexts /\ (user'.pc = "receive" <=> user.pc = "receive")
  <2>0. user \in UserStates
        BY DEF IterInv, IterTypeOK
  <2>1. CASE UNCHANGED <<fpc, user>>
        BY <1>1, <2>1 DEF IterInv, IterTypeOK
  <2>2. ASSUME NEW p \in {"next", "error", "close", "await", "checked"},
               NEW a \in {"none", "valid", "close"}, NEW c \in Nat,
               user.pc \in {"idle", "error", "close", "await"},
               user' = [user EXCEPT !.pc = p, !.after = a, !.calls = c], UNCHANGED fpc
        PROVE  /\ IterTypeOK' /\ user'.nexts = user.nexts
               /\ user'.pc = "receive" <=> user.pc = "receive"
    <3>1. user' \in UserStates /\ user'.nexts = user.nexts /\ user'.pc = p
          BY <2>0, <2>2 DEF UserStates
    <3> QED
        BY <1>1, <2>2, <3>1 DEF IterInv, IterTypeOK
  <2>3. ASSUME NEW p \in {"next", "error", "close", "await", "checked"},
               user.pc \in {"idle", "error", "close", "await"},
               user' = [user EXCEPT !.pc = p], UNCHANGED fpc
        PROVE  /\ IterTypeOK' /\ user'.nexts = user.nexts
               /\ user'.pc = "receive" <=> user.pc = "receive"
    <3>1. user' \in UserStates /\ user'.nexts = user.nexts /\ user'.pc = p
          BY <2>0, <2>3 DEF UserStates
    <3> QED
        BY <1>1, <2>3, <3>1 DEF IterInv, IterTypeOK
  <2>4. ASSUME user.pc = "error", fpc = "offer", fpc' = "update",
               user' = [user EXCEPT !.pc = "asked"]
        PROVE  /\ IterTypeOK' /\ user'.nexts = user.nexts
               /\ user'.pc = "receive" <=> user.pc = "receive"
    <3>1. user' \in UserStates /\ user'.nexts = user.nexts /\ user'.pc = "asked"
          BY <2>0, <2>4 DEF UserStates
    <3> QED
        BY <1>1, <2>4, <3>1 DEF IterInv, IterTypeOK
  <2>5. CASE CloseDB
        BY <2>1, <2>5 DEF CloseDB
  <2>6. CASE CallNext \/ CallValid \/ CallClose
    <3>1. user.calls + 1 \in Nat
          BY <2>0 DEF UserStates
    <3> QED
        BY <2>2, <2>6, <3>1 DEF CallNext, CallValid, CallClose, Start
  <2>7. CASE ErrorAsk
        BY <2>3, <2>4, <2>7 DEF ErrorAsk
  <2>8. CASE CloseBegin \/ CloseEnd
        BY <2>3, <2>8 DEF CloseBegin, CloseEnd
  <2> QED
      BY <2>5, <2>6, <2>7, <2>8 DEF Quiet
<1>4. Delivered' = Delivered
      BY <1>1, <1>2 DEF Delivered
<1> QED
    BY <1>1, <1>3, <1>4 DEF IterInv, BehindInv, DatabaseInOrder

\* Next leaves its batch behind ...
LEMMA NextBeginInv == ASSUME IterInv, NextBegin PROVE IterInv'
<1>1. UNCHANGED <<pos, fpc, fetched, seen>> /\ user.pc = "next"
      BY DEF NextBegin
<1>2. user' = [user EXCEPT !.pc = "receive", !.nexts = @ + 1] /\ user.nexts \in Nat
      BY DEF NextBegin, IterInv, IterTypeOK, UserStates
<1>3. data' \in Seq(Nat)
  <2>1. data \in Seq(Nat)
        BY DEF IterInv, IterTypeOK
  <2>2. Len(data) > 1 => Tail(data) \in Seq(Nat)
        BY <2>1
  <2>3. data' \in {<<>>, data} \/ (Len(data) > 1 /\ data' = Tail(data))
        BY DEF NextBegin
  <2>4. <<>> \in Seq(Nat)
        OBVIOUS
  <2> QED
      BY <2>1, <2>2, <2>3, <2>4
<1>4. IterTypeOK' /\ user'.nexts = user.nexts + 1 /\ user'.pc = "receive"
  <2>0. user.nexts + 1 \in Nat /\ user \in UserStates
        BY <1>2 DEF IterInv, IterTypeOK
  <2>1. user' \in UserStates /\ user'.nexts = user.nexts + 1 /\ user'.pc = "receive"
        BY <1>2, <2>0 DEF UserStates
  <2> QED
      BY <1>1, <1>3, <2>1 DEF IterInv, IterTypeOK
<1>5. Delivered' = Delivered
      BY <1>1 DEF Delivered
<1>6. \A i \in 1 .. Len(seen) : seen[i].nexts \in Nat
      BY ReadingTyped DEF IterInv, IterTypeOK
<1>7. BehindInv'
      BY <1>1, <1>2, <1>4, <1>5, <1>6 DEF IterInv, BehindInv
<1> QED
    BY <1>1, <1>4, <1>7 DEF IterInv, DatabaseInOrder

\* ... and takes the one that fetch offers, which is after all that was read.
LEMMA NextReceiveInv == ASSUME IterInv, NextReceive PROVE IterInv'
<1>1. UNCHANGED <<pos, fetched, seen>> /\ user.pc = "receive"
      BY DEF NextReceive
<1>2. user' = [user EXCEPT !.pc = IF user.loop THEN "error" ELSE "idle", !.after = "valid"]
      BY DEF NextReceive
<1>3. \/ fpc = "offer" /\ data' = fetched /\ fpc' = "next"
      \/ data' = <<>> /\ fpc' = fpc
      BY DEF NextReceive, Offered
<1>4. IterTypeOK' /\ user'.nexts = user.nexts /\ user'.pc \in {"idle", "error"}
  <2>1. user' \in UserStates /\ user'.nexts = user.nexts /\ user'.pc \in {"idle", "error"}
        BY <1>2 DEF IterInv, IterTypeOK, UserStates
  <2>2. data' \in Seq(Nat)
    <3>1. <<>> \in Seq(Nat)
          OBVIOUS
    <3> QED
        BY <1>3, <3>1 DEF IterInv, IterTypeOK
  <2>3. fpc' \in {"offer", "update"} => fpc' = fpc
        BY <1>3
  <2> QED
      BY <1>1, <2>1, <2>2, <2>3 DEF IterInv, IterTypeOK
<1>5. \A i \in 1 .. Len(seen) : seen[i].key \in Nat
      BY ReadingTyped DEF IterInv, IterTypeOK
<1>6. BehindInv'
  <2>1. CASE fpc = "offer" /\ data' = fetched /\ fpc' = "next"
    <3>1. Head(fetched) \in Nat /\ Head(fetched) <= pos /\ pos \in Nat
          BY <2>1, HeadIsEntry DEF IterInv, IterTypeOK
    <3>2. Delivered = Head(fetched) - 1 /\ Delivered' = pos
          BY <1>1, <2>1 DEF Delivered
    <3> QED
        BY <1>1, <1>4, <1>5, <2>1, <3>1, <3>2 DEF IterInv, BehindInv
  <2>2. CASE data' = <<>> /\ fpc' = fpc
    <3>1. Delivered' = Delivered
          BY <1>1, <2>2 DEF Delivered
    <3> QED
        BY <1>1, <1>4, <2>2, <3>1 DEF IterInv, BehindInv
  <2> QED
      BY <1>3, <2>1, <2>2
<1> QED
    BY <1>1, <1>4, <1>6 DEF IterInv, DatabaseInOrder

\* A key that is read is after all that were read before the last Next.
LEMMA CheckedInv == ASSUME IterInv, Checked PROVE IterInv'
<1>1. UNCHANGED <<pos, fpc, fetched, data>> /\ user.pc = "checked"
      BY DEF Checked
<1>2. user'.nexts = user.nexts /\ user'.pc \in {"idle", "next", "close"} /\ user.nexts \in Nat
      BY DEF Checked, IterInv, IterTypeOK, UserStates
<1>3. \/ seen' = seen
      \/ data # <<>> /\ seen' = Append(seen, [key |-> Head(data), nexts |-> user.nexts])
      BY DEF Checked, Key
<1>4. user' \in UserStates
      BY DEF Checked, IterInv, IterTypeOK, UserStates
<1>5. Delivered' = Delivered /\ Delivered \in Int
      BY <1>1, DeliveredIsInt DEF Delivered, IterInv
<1>6. CASE seen' = seen
  <2>1. IterTypeOK'
        BY <1>1, <1>4, <1>6 DEF IterInv, IterTypeOK
  <2> QED
      BY <1>1, <1>2, <1>5, <1>6, <2>1 DEF IterInv, BehindInv, DatabaseInOrder
<1>7. CASE data # <<>> /\ seen' = Append(seen, [key |-> Head(data), nexts |-> user.nexts])
  <2> DEFINE it == [key |-> Head(data), nexts |-> user.nexts]
  <2>1. Head(data) \in Nat /\ it \in [key : Nat, nexts : Nat]
        BY <1>2, <1>7, HeadIsEntry DEF IterInv, IterTypeOK
  <2>2. seen \in Seq([key : Nat, nexts : Nat])
        BY DEF IterInv, IterTypeOK
  <2>3. seen' \in Seq([key : Nat, nexts : Nat]) /\ Len(seen') = Len(seen) + 1
        BY <1>7, <2>1, <2>2
  <2>4. \A i \in 1 .. Len(seen) : seen'[i] = seen[i]
        BY <1>7, <2>1, <2>2
  <2>5. seen'[Len(seen) + 1] = it
        BY <1>7, <2>1, <2>2
  <2>6. IterTypeOK'
        BY <1>1, <1>4, <2>3 DEF IterInv, IterTypeOK
  <2>7. \A i \in 1 .. Len(seen) : /\ seen[i].key \in Nat /\ seen[i].nexts \in Nat
                                  /\ seen[i].nexts <= user.nexts
                                  /\ seen[i].key <= Delivered
                                  /\ seen[i].nexts < user.nexts => seen[i].key < Head(data)
        BY <1>1, <1>7, <2>2, ReadingTyped DEF IterInv, BehindInv
  <2>8. Head(data) <= Delivered
        BY <1>1, <1>7 DEF IterInv, BehindInv
  <2>9. Len(seen) \in Nat /\ it.key = Head(data) /\ it.nexts = user.nexts
        BY <2>2
  <2> HIDE DEF it
  <2>10. BehindInv'
    <3> SUFFICES ASSUME NEW i \in 1 .. Len(seen')
                 PROVE  /\ seen'[i].nexts <= user'.nexts
                        /\ seen'[i].key <= Delivered'
                        /\ seen'[i].nexts < user'.nexts => seen'[i].key < Head(data')
        BY <1>1, <1>5, <2>8 DEF BehindInv
    <3>1. CASE i \in 1 .. Len(seen)
          BY <1>1, <1>2, <1>5, <2>4, <2>7, <3>1
    <3>2. CASE i = Len(seen) + 1
          BY <1>2, <1>5, <2>5, <2>8, <2>9, <3>2
    <3> QED
        BY <2>3, <2>9, <3>1, <3>2
  <2>11. DatabaseInOrder'
    <3> SUFFICES ASSUME NEW i \in 1 .. Len(seen'), NEW j \in 1 .. Len(seen'),
                        seen'[i].nexts < seen'[j].nexts
                 PROVE  seen'[i].key < seen'[j].key
        BY DEF DatabaseInOrder
    <3>1. CASE i \in 1 .. Len(seen) /\ j \in 1 .. Len(seen)
          BY <2>4, <3>1 DEF IterInv, DatabaseInOrder
    <3>2. CASE i \in 1 .. Len(seen) /\ j = Len(seen) + 1
          BY <2>4, <2>5, <2>7, <2>9, <3>2
    <3>3. CASE i = Len(seen) + 1
      <4>1. CASE j \in 1 .. Len(seen)
            BY <1>2, <2>4, <2>5, <2>7, <2>9, <3>3, <4>1
      <4>2. CASE j = Len(seen) + 1
            BY <1>2, <2>5, <2>9, <3>3, <4>2
      <4> QED
          BY <2>3, <2>9, <4>1, <4>2
    <3> QED
        BY <2>3, <2>9, <3>1, <3>2, <3>3
  <2> QED
      BY <2>6, <2>10, <2>11 DEF IterInv
<1> QED
    BY <1>3, <1>6, <1>7

\* Every step of fetch, of the user and of the database preserves the invariant.
LEMMA IterStepInv == IterInv /\ [IterNext]_iterVars => IterInv'
<1> SUFFICES ASSUME IterInv, [IterNext]_iterVars PROVE IterInv'
    OBVIOUS
<1>1. CASE UNCHANGED iterVars
      BY <1>1 DEF iterVars, IterInv, IterTypeOK, BehindInv, DatabaseInOrder, Delivered
<1> QED
    BY <1>1, FetchInv, QuietInv, NextBeginInv, NextReceiveInv, CheckedInv
    DEF IterNext, UserStep, Quiet

\* For any number of entries, batches and calls, a key that is read after more
\* calls of Next is a later key (Next, fetch and Key of iterator.go).
THEOREM IteratorReadsInOrder == IterSpec => []DatabaseInOrder
<1>1. IterInv => DatabaseInOrder
      BY DEF IterInv
<1> QED
    BY <1>1, IterInitInv, IterStepInv, PTL DEF IterSpec

-----------------------------------------------------------------------------
(* Recovery                                                                *)

\* How far each step of ApplyBlock has got in the three stores.
StepHeights ==
    /\ pc \in {"finalize", "commit"} =>
          state = mem /\ store = mem /\ acked = mem /\ app >= mem
    /\ pc = "commit" => app = mem
    /\ pc = "save" => app = mem + 1 /\ state = mem /\ store = mem /\ acked = mem
    /\ pc \in {"prune", "block"} =>
          app = mem + 1 /\ state = mem + 1 /\ store = mem /\ acked = mem
    /\ pc = "resave" =>
          app = mem + 1 /\ state = mem + 1 /\ store = mem + 1 /\ acked = mem

\* What the handshake has established by the time it replays, and at its end.
HandshakeHeights ==
    /\ pc = "handshake" /\ store > 0 => app <= store /\ state <= store
    /\ pc = "last" => mem = state /\ app >= store
    /\ pc = "last" /\ store > 0 => app = store /\ state = store

\* A durable application is never behind the block store.
DurableAhead == durable => app >= store

\* The inductive invariant.
IInv ==
    /\ TypeOK
    /\ StoresWithinOne
    /\ ReadyAgrees
    /\ FailsOnlyWhenTorn
    /\ StepHeights
    /\ HandshakeHeights
    /\ DurableAhead
    /\ base <= store

USE RecoveryAssumption

\* The heights of an empty disk satisfy the invariant.
LEMMA InitInv == Init => IInv
BY DEF Init, IInv, TypeOK, StoresWithinOne, ReadyAgrees, FailsOnlyWhenTorn,
       StepHeights, HandshakeHeights, DurableAhead, PCs, Applying, Starting

\* Every step of Initialize, of BlockAccept and of a stop preserves it.
LEMMA NextInv == IInv /\ [Next]_vars => IInv'
<1> SUFFICES ASSUME IInv, [Next]_vars PROVE IInv'
    OBVIOUS
<1> USE DEF IInv, TypeOK, StoresWithinOne, ReadyAgrees, FailsOnlyWhenTorn,
            StepHeights, HandshakeHeights, DurableAhead, PCs, Applying,
            Starting, Torn, Unreplayable, disk
<1>1. CASE LoadState
      BY <1>1 DEF LoadState
<1>2. CASE HandshakeRefuses
      BY <1>2 DEF HandshakeRefuses, HeightsRefused, AppTooLow, HashMayDiffer
<1>3. CASE HandshakeBegins
      BY <1>3 DEF HandshakeBegins, HeightsRefused
<1>4. CASE ReplayBlock
      BY <1>4 DEF ReplayBlock
<1>5. CASE HandshakeEnds
      BY <1>5 DEF HandshakeEnds
<1>6. CASE LoadLastBlock
      BY <1>6 DEF LoadLastBlock
<1>7. CASE CreateGenesis
      BY <1>7 DEF CreateGenesis
<1>8. CASE BlockAccept
      BY <1>8 DEF BlockAccept
<1>9. CASE FinalizeBlock
      BY <1>9 DEF FinalizeBlock
<1>10. CASE Commit
      BY <1>10 DEF Commit
<1>11. CASE SaveState
      BY <1>11 DEF SaveState
<1>12. CASE PruneBlocks
      BY <1>12 DEF PruneBlocks
<1>13. CASE SaveBlock
      BY <1>13 DEF SaveBlock
<1>14. CASE ReturnAccepted
      BY <1>14 DEF ReturnAccepted
<1>15. CASE Stop
      BY <1>15 DEF Stop
<1>16. CASE UNCHANGED vars
      BY <1>16 DEF vars
<1> QED
    BY <1>1, <1>2, <1>3, <1>4, <1>5, <1>6, <1>7, <1>8, <1>9, <1>10, <1>11,
       <1>12, <1>13, <1>14, <1>15, <1>16 DEF Next, Initialize, ApplyBlock

\* The inductive invariant holds in every behaviour of the recovery model.
THEOREM Invariance == Spec => []IInv
BY InitInv, NextInv, PTL DEF Spec

\* No stop inside BlockAccept or Initialize loses an acknowledged block, and
\* the three stores are never more than one block apart.
THEOREM StoresWithinOneAlways == Spec => []StoresWithinOne
<1>1. IInv => StoresWithinOne
      BY DEF IInv
<1> QED
    BY <1>1, Invariance, PTL

\* A VM that Initialize has let through is at one height everywhere.
THEOREM ReadyAgreesAlways == Spec => []ReadyAgrees
<1>1. IInv => ReadyAgrees
      BY DEF IInv
<1> QED
    BY <1>1, Invariance, PTL

\* Initialize gives up only on a disk that a stop between the application's
\* Commit and SaveBlock has torn, or when an application that lost its state
\* needs blocks that were pruned.
THEOREM FailsOnlyWhenTornAlways == Spec => []FailsOnlyWhenTorn
<1>1. IInv => FailsOnlyWhenTorn
      BY DEF IInv
<1> QED
    BY <1>1, Invariance, PTL

\* Whenever a stop came, Initialize lets a VM through only if all of it agrees,
\* and gives up only on a disk that it cannot make agree.
THEOREM InitializeAlwaysHonest == Spec => []InitializeHonest
<1>1. ReadyAgrees /\ FailsOnlyWhenTorn => InitializeHonest
      BY DEF InitializeHonest
<1> QED
    BY <1>1, ReadyAgreesAlways, FailsOnlyWhenTornAlways, PTL
=============================================================================
