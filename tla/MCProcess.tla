----------------------------- MODULE MCProcess ------------------------------
(***************************************************************************)
(* The process and its goroutines, one component per behaviour: part says  *)
(* which, and the others stay in an initial state. The properties are      *)
(* those of the components: an initial state satisfies them all.           *)
(***************************************************************************)
EXTENDS Recovery, BuildTrigger, Lifecycle, Database, MessageQueue, Benchlist

VARIABLE part

mcVars == <<part, vars, triggerVars, lifeVars, iterVars, queueVars, benchVars>>

-----------------------------------------------------------------------------
RecoveryStill == Init /\ durable
IteratorStill == IterInit /\ ~user.loop
BenchStill == BenchInit /\ \A n \in Nodes : weight[n] = 0

MCInit ==
    /\ part \in {"recovery", "trigger", "life", "iterator", "queue", "benchlist"}
    /\ IF part = "recovery" THEN Init ELSE RecoveryStill
    /\ TriggerInit /\ LifeInit
    /\ IF part = "iterator" THEN IterInit ELSE IteratorStill
    /\ QueueInit
    /\ IF part = "benchlist" THEN BenchInit ELSE BenchStill

InRecovery(A) ==
    /\ part = "recovery" /\ A
    /\ UNCHANGED <<part, triggerVars, lifeVars, iterVars, queueVars, benchVars>>
InTrigger(A) ==
    /\ part = "trigger" /\ A
    /\ UNCHANGED <<part, vars, lifeVars, iterVars, queueVars, benchVars>>
InLife(A) ==
    /\ part = "life" /\ A
    /\ UNCHANGED <<part, vars, triggerVars, iterVars, queueVars, benchVars>>
InIterator(A) ==
    /\ part = "iterator" /\ A
    /\ UNCHANGED <<part, vars, triggerVars, lifeVars, queueVars, benchVars>>
InQueue(A) ==
    /\ part = "queue" /\ A
    /\ UNCHANGED <<part, vars, triggerVars, lifeVars, iterVars, benchVars>>
InBenchlist(A) ==
    /\ part = "benchlist" /\ A
    /\ UNCHANGED <<part, vars, triggerVars, lifeVars, iterVars, queueVars>>

MCNext ==
    \/ InRecovery(Next)
    \/ InTrigger(TriggerNext)
    \/ InLife(LifeNext)
    \/ InIterator(IterNext)
    \/ InQueue(QueueNext)
    \/ InBenchlist(BenchNext)

\* The fairness of each component. A behaviour stays in its part, so a condition
\* on steps of different parts is a condition on each of them.
MCSpec ==
    /\ MCInit /\ [][MCNext]_mcVars
    /\ WF_mcVars(\/ InRecovery(Initialize \/ ApplyBlock)
                 \/ InTrigger(ForwarderReceive)
                 \/ InLife(WatcherStep)
                 \/ InIterator(Fetch)
                 \/ InQueue(PopNow \/ Pop)
                 \/ InBenchlist(Observed(Tick)))
    /\ WF_mcVars(\/ InTrigger(ForwarderSend)
                 \/ InLife(CallStep)
                 \/ InIterator(UserStep)
                 \/ InQueue(QueueCloseStep)
                 \/ InBenchlist(Observed(Run)))
    /\ WF_mcVars(InTrigger(NotifierReceive) \/ InLife(NotifierEnds))
    /\ WF_mcVars(InTrigger(NotifyReturns) \/ InBenchlist(Observed(BenchCallStep)))
    /\ WF_mcVars(InTrigger(BuildReturns))
    /\ WF_mcVars(InTrigger(EngineDecides))
    /\ \A m \in Messages : WF_mcVars(InQueue(PushStep(m)))

-----------------------------------------------------------------------------
\* What somebody waits for: in Lifecycle the exit on a SIGTERM once Shutdown has
\* begun, and the end of the notifier once vm.closed is closed; in Database the
\* return of an iterator's call; in MessageQueue the end of Close, of the pushers
\* and of the writer; in Benchlist the end of a node's time (the nodes are alike).
Awaited ==
    \/ part = "life" /\ \/ /\ allow /\ watcher # "exit"
                           /\ \E i \in DOMAIN signals : signals[i] = "SIGTERM"
                        \/ /\ shutdown \in {"servers", "conns", "returned"}
                           /\ "notifier" \in running
    \/ part = "iterator" /\ user.pc # "idle"
    \/ part = "queue" /\ QueueClosing
                      /\ ~(queueCloser = "closed" /\ Pushing = {} /\ popper = "done")
    \/ part = "benchlist" /\ IsBenched(CHOOSE n \in Nodes : TRUE)

=============================================================================
