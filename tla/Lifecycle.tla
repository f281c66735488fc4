----------------------------- MODULE Lifecycle ------------------------------
(***************************************************************************)
(* The life of the plugin process. Serve (server/sdk_server.go) runs the   *)
(* gRPC server that the engine calls and a goroutine that waits for        *)
(* signals; Initialize (vm/vm.go) brings the services up one after the     *)
(* other and may fail at each; CreateHandlers starts an HTTP server; and   *)
(* Shutdown takes down whatever is there. The engine sends SIGTERM when    *)
(* Shutdown has returned; other signals come at any time.                  *)
(*                                                                         *)
(* External: gRPC servers, whose GracefulStop waits for the calls in       *)
(* flight, and os/signal, which drops what its channel has no room for.    *)
(***************************************************************************)
EXTENDS Integers, Sequences

CONSTANTS
    Servers,     \* HTTP servers that CreateHandlers makes
    MaxSignals   \* bound: signals that are sent

VARIABLES
    serve,       \* where Serve is
    grpc,        \* the gRPC server of the VM
    watcher,     \* the goroutine that waits for signals
    signals,     \* the channel of signals, of capacity 2
    sent,        \* how many signals were sent
    cancelled,   \* Serve's context is cancelled
    stage,       \* the next stage of Initialize, or how it ended
    held,        \* services that a field of the VM or the closer refers to
    running,     \* services that run
    server,      \* where each HTTP server is
    closer,      \* serverCloser: closed, and the servers it was given
    shutdown,    \* where Shutdown is
    allow,       \* allowShutdown
    mode         \* bootstrapped and vmstate

lifeVars == <<serve, grpc, watcher, signals, sent, cancelled, stage, held, running,
              server, closer, shutdown, allow, mode>>
engineSide == <<stage, held, running, server, closer, shutdown, allow, mode>>
processSide == <<serve, grpc, watcher, signals, sent, cancelled>>

\* The stages of Initialize, by what each leaves behind; then how it ended.
Stages == <<"conn", "notifier", "dbConn", "stores", "config", "app", "eventBus",
            "indexer", "handshake", "forwarder", "rest">>
Ready == Len(Stages) + 1
Failed == Len(Stages) + 2

\* What a field of the VM or the closer refers to; and the goroutine that passes
\* the mempool's signals on, which nothing refers to.
Fields == {"conn", "notifier", "dbConn", "stores", "app", "eventBus", "indexer"}
Services == Fields \cup {"forwarder"}

\* Stages that cannot fail.
Sure == {"notifier", "forwarder"}

\* A service of these is in its field before it is started.
HeldFirst == {"app", "eventBus", "indexer"}

-----------------------------------------------------------------------------
(* Serve                                                                   *)

ServeStart ==
    /\ serve = "start"
    /\ serve' = "runtime"
    /\ watcher' = "select"
    /\ UNCHANGED <<grpc, signals, sent, cancelled, engineSide>>

\* No address in the environment, no connection, no listener, or a runtime
\* that does not answer in time.
ServeFails ==
    /\ serve = "runtime"
    /\ serve' = "error"
    /\ UNCHANGED <<grpc, watcher, signals, sent, cancelled, engineSide>>

\* The runtime is told the address; Serve of a stopped server returns at once.
ServeListens ==
    /\ serve = "runtime"
    /\ IF grpc = "new"
       THEN serve' = "serving" /\ grpc' = "serving"
       ELSE serve' = "returned" /\ UNCHANGED grpc
    /\ UNCHANGED <<watcher, signals, sent, cancelled, engineSide>>

ServeReturns ==
    /\ serve = "serving" /\ grpc = "stopped"
    /\ serve' = "returned"
    /\ UNCHANGED <<grpc, watcher, signals, sent, cancelled, engineSide>>

\* SIGTERM of the engine after Shutdown, and signals from elsewhere.
Signal(s) ==
    /\ serve \in {"runtime", "serving"}
    /\ sent < MaxSignals
    /\ sent' = sent + 1
    /\ signals' = IF Len(signals) < 2 THEN Append(signals, s) ELSE signals
    /\ UNCHANGED <<serve, grpc, watcher, cancelled, engineSide>>

Cancel ==
    /\ ~cancelled
    /\ cancelled' = TRUE
    /\ UNCHANGED <<serve, grpc, watcher, signals, sent, engineSide>>

\* A mutant: CanShutdown is not asked.
WatcherReceiveAny ==
    /\ watcher = "select"
    /\ signals # <<>>
    /\ signals' = Tail(signals)
    /\ watcher' = IF Head(signals) = "SIGTERM" THEN "stop" ELSE "select"
    /\ UNCHANGED <<serve, grpc, sent, cancelled, engineSide>>

WatcherReceive ==
    /\ watcher = "select"
    /\ signals # <<>>
    /\ signals' = Tail(signals)
    /\ watcher' = IF allow /\ Head(signals) = "SIGTERM" THEN "stop" ELSE "select"
    /\ UNCHANGED <<serve, grpc, sent, cancelled, engineSide>>

WatcherCancelled ==
    /\ watcher = "select"
    /\ cancelled
    /\ watcher' = "stop"
    /\ UNCHANGED <<serve, grpc, signals, sent, cancelled, engineSide>>

\* GracefulStop takes no new calls and waits for the others.
StopBegins ==
    /\ watcher = "stop"
    /\ grpc' = IF grpc = "serving" THEN "draining" ELSE "stopped"
    /\ watcher' = "drain"
    /\ UNCHANGED <<serve, signals, sent, cancelled, engineSide>>

InCall ==
    \/ stage \in DOMAIN Stages
    \/ \E s \in Servers : server[s] \in {"made", "added"}
    \/ shutdown \notin {"no", "returned"}

StopEnds ==
    /\ watcher = "drain"
    /\ grpc = "draining" => ~InCall
    /\ grpc' = "stopped"
    /\ watcher' = "exit"
    /\ UNCHANGED <<serve, signals, sent, cancelled, engineSide>>

-----------------------------------------------------------------------------
(* Initialize                                                              *)

Callable == grpc = "serving"

InitializeCalled ==
    /\ Callable /\ stage = 0
    /\ shutdown = "no"
    /\ stage' = 1
    /\ UNCHANGED <<processSide, held, running, server, closer, shutdown, allow, mode>>

StageDone ==
    /\ stage \in 1 .. Len(Stages) - 1
    /\ stage' = stage + 1
    /\ held' = held \cup ({Stages[stage]} \cap Fields)
    /\ running' = running \cup ({Stages[stage]} \cap Services)
    /\ UNCHANGED <<processSide, server, closer, shutdown, allow, mode>>

\* The genesis block, the validators manager, the warp backend and its service, the network and
\* its handlers: none of them runs anything of its own.
InitializeReturns ==
    /\ stage = Len(Stages)
    /\ stage' = Ready
    /\ UNCHANGED <<processSide, held, running, server, closer, shutdown, allow, mode>>

\* Initialize returns an error and leaves what it has started.
StageFails ==
    /\ stage \in DOMAIN Stages
    /\ Stages[stage] \notin Sure
    /\ stage' = Failed
    /\ held' = held \cup ({Stages[stage]} \cap HeldFirst)
    /\ UNCHANGED <<processSide, running, server, closer, shutdown, allow, mode>>

\* Any other state is refused.
SetState(s) ==
    /\ Callable /\ stage = Ready /\ shutdown = "no"
    /\ mode' = IF s \in {"BOOTSTRAPPING", "NORMAL_OP"}
               THEN [bootstrapped |-> (s = "NORMAL_OP"), vmstate |-> s]
               ELSE mode
    /\ UNCHANGED <<processSide, stage, held, running, server, closer, shutdown, allow>>

-----------------------------------------------------------------------------
(* CreateHandlers, and the closer of its servers                           *)

NewServer(s) ==
    /\ Callable /\ stage = Ready
    /\ server[s] = "no"
    /\ \A t \in Servers : server[t] \notin {"made", "added"}
    /\ server' = [server EXCEPT ![s] = "made"]
    /\ UNCHANGED <<processSide, stage, held, running, closer, shutdown, allow, mode>>

AddServer(s) ==
    /\ server[s] = "made"
    /\ IF closer.closed
       THEN server' = [server EXCEPT ![s] = "stopped"] /\ UNCHANGED closer
       ELSE /\ closer' = [closer EXCEPT !.servers = @ \cup {s}]
            /\ server' = [server EXCEPT ![s] = "added"]
    /\ UNCHANGED <<processSide, stage, held, running, shutdown, allow, mode>>

\* No listener: the server stays with the closer and never serves.
ListenFails(s) ==
    /\ server[s] = "added"
    /\ server' = [server EXCEPT ![s] = "unused"]
    /\ UNCHANGED <<processSide, stage, held, running, closer, shutdown, allow, mode>>

ServeHTTP(s) ==
    /\ server[s] = "added"
    /\ server' = [server EXCEPT ![s] = "serving"]
    /\ UNCHANGED <<processSide, stage, held, running, closer, shutdown, allow, mode>>

-----------------------------------------------------------------------------
(* Shutdown                                                                *)

ShutdownBegin ==
    /\ Callable
    /\ shutdown = "no"
    /\ stage \in {0, Ready, Failed}
    /\ allow' = TRUE
    /\ shutdown' = "services"
    /\ UNCHANGED <<processSide, stage, held, running, server, closer, mode>>

\* vm.closed is closed, which the notifier will see; indexer, bus, application
\* and stores are stopped if they are there. One that was never started only
\* adds an error.
StopServices ==
    /\ shutdown = "services"
    /\ shutdown' = "servers"
    /\ running' = running \ (held \ {"conn", "dbConn", "notifier"})
    /\ UNCHANGED <<processSide, stage, held, server, closer, allow, mode>>

\* The notifier finds vm.closed closed, after a Notify that is under way.
NotifierEnds ==
    /\ shutdown \notin {"no", "services"}
    /\ "notifier" \in running
    /\ running' = running \ {"notifier"}
    /\ UNCHANGED <<processSide, stage, held, server, closer, shutdown, allow, mode>>

\* ServerCloser.Stop
StopServers ==
    /\ shutdown = "servers"
    /\ shutdown' = "conns"
    /\ server' = [s \in Servers |-> IF s \in closer.servers THEN "stopped" ELSE server[s]]
    /\ closer' = [closed |-> TRUE, servers |-> {}]
    /\ UNCHANGED <<processSide, stage, held, running, allow, mode>>

\* Closer.Close
CloseConns ==
    /\ shutdown = "conns"
    /\ shutdown' = "returned"
    /\ held' = held \ {"conn", "dbConn"}
    /\ running' = running \ {"conn", "dbConn"}
    /\ UNCHANGED <<processSide, stage, server, closer, allow, mode>>

-----------------------------------------------------------------------------
LifeInit ==
    /\ serve = "start" /\ grpc = "new" /\ watcher = "no" /\ signals = <<>> /\ sent = 0
    /\ cancelled = FALSE
    /\ stage = 0 /\ held = {} /\ running = {}
    /\ server = [s \in Servers |-> "no"]
    /\ closer = [closed |-> FALSE, servers |-> {}]
    /\ shutdown = "no" /\ allow = FALSE
    /\ mode = [bootstrapped |-> FALSE, vmstate |-> "UNSPECIFIED"]

WatcherStep == WatcherReceive \/ WatcherCancelled \/ StopBegins \/ StopEnds

CallStep ==
    \/ StageDone \/ StageFails \/ InitializeReturns
    \/ \E s \in Servers : AddServer(s) \/ ListenFails(s) \/ ServeHTTP(s)
    \/ StopServices \/ StopServers \/ CloseConns

ServeStep == ServeStart \/ ServeFails \/ ServeListens \/ ServeReturns

LifeNext ==
    \/ ServeStep
    \/ \E s \in {"SIGINT", "SIGTERM"} : Signal(s)
    \/ Cancel
    \/ WatcherStep
    \/ InitializeCalled
    \/ \E s \in {"BOOTSTRAPPING", "NORMAL_OP", "STATE_SYNCING"} : SetState(s)
    \/ \E s \in Servers : NewServer(s)
    \/ ShutdownBegin
    \/ CallStep
    \/ NotifierEnds

LifeSpec == LifeInit /\ [][LifeNext]_lifeVars

\* Goroutines run, and a call that has begun goes on.
LifeFairness ==
    WF_lifeVars(WatcherStep) /\ WF_lifeVars(CallStep) /\ WF_lifeVars(NotifierEnds)

FairLifeSpec == LifeSpec /\ LifeFairness

-----------------------------------------------------------------------------
\* When Shutdown has returned, however far Initialize came, no HTTP server serves,
\* not even one that CreateHandlers was making at that time, and every service
\* is stopped. Only goroutines that no Stop waits for may run on: the notifier
\* until it looks at vm.closed, and the forwarder, which nothing ends.
ShutdownComplete ==
    shutdown = "returned" =>
        /\ running \subseteq {"notifier", "forwarder"}
        /\ \A s \in Servers : server[s] # "serving"

\* A signal ends the process only after Shutdown has done its work; without it
\* only a cancelled context does.
NoEarlyExit ==
    watcher = "exit" /\ ~cancelled => shutdown = "returned"

\* A signal ends the process only after Shutdown, and then only the goroutines
\* that Shutdown does not wait for can be left.
ExitsAfterShutdown == NoEarlyExit /\ ShutdownComplete

\* A SIGTERM that is in the channel when Shutdown has begun ends the process,
\* whatever signals are before it: "we will gracefully exit upon receiving a
\* SIGTERM".
TermEndsProcess ==
    (allow /\ \E i \in DOMAIN signals : signals[i] = "SIGTERM") ~> (watcher = "exit")

\* The notifier ends once Shutdown has closed vm.closed.
NotifierIsToldToEnd ==
    (shutdown = "servers") ~> ("notifier" \notin running)
=============================================================================
