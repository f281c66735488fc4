----------------------------- MODULE AppNetwork -----------------------------
(***************************************************************************)
(* Requests to peers: the client that sends one and waits for its answer   *)
(* (utils/evm/peer/client.go, waiting_handler.go) and the network that     *)
(* limits how many are active and finds the handler of an answer           *)
(* (utils/evm/peer/network.go). The node is external: it answers every     *)
(* request that it was given once, by AppResponse or AppRequestFailed, on  *)
(* any of several threads. The SDK router behind the network has no        *)
(* requests of its own, so an answer that the network does not know is     *)
(* refused there with an error, which is fatal. Request IDs are even       *)
(* numbers of 32 bits, and the model looks at fewer requests than there    *)
(* are: no ID comes back.                                                  *)
(***************************************************************************)
EXTENDS Integers, FiniteSets

CONSTANTS
    Clients,       \* goroutines that send requests
    Workers,       \* threads of the node that deliver answers
    MaxActive,     \* weight of the semaphore activeAppRequests
    IDSpace,       \* 2^32
    MaxSends,      \* bound: how many requests are made
    MaxAmbiguous,  \* bound: how many sends fail after the node took the request
    NoHandler

ASSUME AppNetworkAssumption ==
    /\ MaxActive \in Nat \ {0}
    /\ IDSpace \in Nat \ {0} 
    /\ MaxSends \in Nat /\ 2 * MaxSends < IDSpace
    /\ MaxAmbiguous \in Nat
    /\ NoHandler \notin Nat
    /\ IsFiniteSet(Clients) /\ IsFiniteSet(Workers)

VARIABLES
    at,           \* per client: where it is in SendAppRequest
    mine,         \* per client: its waitingResponseHandler
    sends,        \* handlers made so far; handlers are 1 .. sends
    chan,         \* per handler: responseChan
    slots,        \* free slots of the semaphore
    gen,          \* requestIDGen
    outstanding,  \* outstandingRequestHandlers
    owed,         \* requests that the node has to answer
    worker,       \* per thread: the answer that it is delivering
    ambiguous,
    fatal         \* what has reached the node: "no", the router's error or a panic

netVars == <<slots, gen, outstanding, owed, ambiguous>>
appVars == <<at, mine, sends, chan, netVars, worker, fatal>>

-----------------------------------------------------------------------------
IDs == 0 .. IDSpace - 1
Handlers == 1 .. MaxSends
Answers == {"response", "failure"}
IdleWorker == [pc |-> "idle", h |-> NoHandler, answer |-> NoHandler]

nextRequestID == (gen + 2) % IDSpace

Request(c) == [id |-> gen, h |-> mine[c]]

-----------------------------------------------------------------------------
(* SendAppRequest of the client.                                           *)

Call(c) ==
    /\ at[c] = "idle"
    /\ sends < MaxSends
    /\ sends' = sends + 1
    /\ mine' = [mine EXCEPT ![c] = sends + 1]
    /\ at' = [at EXCEPT ![c] = "acquire"]
    /\ UNCHANGED <<chan, netVars, worker, fatal>>

Acquire(c) ==
    /\ at[c] = "acquire"
    /\ slots > 0
    /\ slots' = slots - 1
    /\ at' = [at EXCEPT ![c] = "send"]
    /\ UNCHANGED <<mine, sends, chan, gen, outstanding, owed, ambiguous, worker,
                   fatal>>

AcquireCancelled(c) ==
    /\ at[c] = "acquire"
    /\ at' = [at EXCEPT ![c] = "idle"]
    /\ UNCHANGED <<mine, sends, chan, netVars, worker, fatal>>

SendCancelled(c) ==
    /\ at[c] = "send"
    /\ slots' = slots + 1
    /\ at' = [at EXCEPT ![c] = "idle"]
    /\ UNCHANGED <<mine, sends, chan, gen, outstanding, owed, ambiguous, worker,
                   fatal>>

\* From here to the end of sendAppRequest the lock is held, which AppResponse
\* needs.
\* A mutant: the handler is registered under the ID after the one sent.
SendShifted(c) ==
    /\ at[c] = "send"
    /\ gen' = nextRequestID
    /\ outstanding' = [outstanding EXCEPT ![nextRequestID] = mine[c]]
    /\ owed' = owed \cup {Request(c)}
    /\ at' = [at EXCEPT ![c] = "wait"]
    /\ UNCHANGED <<mine, sends, chan, slots, ambiguous, worker, fatal>>

SendRequest(c) ==
    /\ at[c] = "send"
    /\ gen' = nextRequestID
    /\ outstanding' = [outstanding EXCEPT ![gen] = mine[c]]
    /\ owed' = owed \cup {Request(c)}
    /\ at' = [at EXCEPT ![c] = "wait"]
    /\ UNCHANGED <<mine, sends, chan, slots, ambiguous, worker, fatal>>

\* The call to the node returns an error; as with any remote call, the node may
\* have taken the request.
SendFails(c) ==
    /\ at[c] = "send"
    /\ gen' = nextRequestID
    /\ slots' = slots + 1
    /\ outstanding' = [outstanding EXCEPT ![gen] = NoHandler]
    /\ \/ UNCHANGED <<owed, ambiguous>>
       \/ /\ ambiguous < MaxAmbiguous
          /\ ambiguous' = ambiguous + 1
          /\ owed' = owed \cup {Request(c)}
    /\ at' = [at EXCEPT ![c] = "idle"]
    /\ UNCHANGED <<mine, sends, chan, worker, fatal>>

WaitForResult(c) ==
    /\ at[c] = "wait"
    /\ chan[mine[c]] # "open"
    /\ at' = [at EXCEPT ![c] = "idle"]
    /\ UNCHANGED <<mine, sends, chan, netVars, worker, fatal>>

\* A mutant: a caller that gives up returns its slot.
WaitCancelledReleases(c) ==
    /\ at[c] = "wait"
    /\ at' = [at EXCEPT ![c] = "idle"]
    /\ slots' = slots + 1
    /\ UNCHANGED <<mine, sends, chan, gen, outstanding, owed, ambiguous, worker,
                   fatal>>

\* The caller gives up; its handler and its slot stay until the answer.
WaitCancelled(c) ==
    /\ at[c] = "wait"
    /\ at' = [at EXCEPT ![c] = "idle"]
    /\ UNCHANGED <<mine, sends, chan, netVars, worker, fatal>>

-----------------------------------------------------------------------------
(* AppResponse and AppRequestFailed, called by a thread of the node.       *)

\* markRequestFulfilled, or the router's error when there is no handler.
Deliver(w, o, a) ==
    /\ worker[w].pc = "idle"
    /\ o \in owed
    /\ owed' = owed \ {o}
    /\ IF outstanding[o.id] # NoHandler
       THEN /\ worker' = [worker EXCEPT ![w] =
                  [pc |-> "release", h |-> outstanding[o.id], answer |-> a]]
            /\ outstanding' = [outstanding EXCEPT ![o.id] = NoHandler]
            /\ UNCHANGED fatal
       ELSE /\ fatal' = "unrequested"
            /\ UNCHANGED <<worker, outstanding>>
    /\ UNCHANGED <<at, mine, sends, chan, slots, gen, ambiguous>>

ReleaseSlot(w) ==
    /\ worker[w].pc = "release"
    /\ slots' = slots + 1
    /\ worker' = [worker EXCEPT ![w].pc = "handle"]
    /\ UNCHANGED <<at, mine, sends, chan, gen, outstanding, owed, ambiguous, fatal>>

\* A mutant: OnFailure leaves the channel open.
HandleUnclosed(w) ==
    /\ worker[w].pc = "handle"
    /\ chan' = [chan EXCEPT ![worker[w].h] =
                  IF worker[w].answer = "failure" THEN @ ELSE "response"]
    /\ worker' = [worker EXCEPT ![w] = IdleWorker]
    /\ UNCHANGED <<at, mine, sends, netVars, fatal>>

\* OnResponse fills the buffer of one and closes the channel, OnFailure closes
\* it; closing it twice panics. Neither waits for the caller.
Handle(w) ==
    /\ worker[w].pc = "handle"
    /\ chan' = [chan EXCEPT ![worker[w].h] = worker[w].answer]
    /\ fatal' = IF chan[worker[w].h] = "open" THEN fatal ELSE "panic"
    /\ worker' = [worker EXCEPT ![w] = IdleWorker]
    /\ UNCHANGED <<at, mine, sends, netVars>>

AppInit ==
    /\ at = [c \in Clients |-> "idle"]
    /\ mine = [c \in Clients |-> NoHandler]
    /\ sends = 0
    /\ chan = [h \in Handlers |-> "open"]
    /\ slots = MaxActive
    /\ gen = 0
    /\ outstanding = [i \in IDs |-> NoHandler]
    /\ owed = {}
    /\ worker = [w \in Workers |-> IdleWorker]
    /\ ambiguous = 0
    /\ fatal = "no"

GiveUp(c) == AcquireCancelled(c) \/ SendCancelled(c) \/ WaitCancelled(c)
Proceed(c) == Acquire(c) \/ SendRequest(c) \/ SendFails(c) \/ WaitForResult(c)
Answer == \E w \in Workers, o \in owed, a \in Answers : Deliver(w, o, a)
Work(w) == ReleaseSlot(w) \/ Handle(w)

\* A fatal error stops the node.
AppNext ==
    /\ fatal = "no"
    /\ \/ \E c \in Clients : Call(c) \/ Proceed(c) \/ GiveUp(c)
       \/ Answer
       \/ \E w \in Workers : Work(w)

AppSpec == AppInit /\ [][AppNext]_appVars

\* Callers and threads run, and the node answers what it owes. Contexts need
\* not be cancelled.
FairAppSpec ==
    /\ AppSpec
    /\ WF_appVars(fatal = "no" /\ Answer)
    /\ \A c \in Clients : WF_appVars(fatal = "no" /\ Proceed(c))
    /\ \A w \in Workers : WF_appVars(fatal = "no" /\ Work(w))

-----------------------------------------------------------------------------
\* Handlers, IDs and answers are in range; the semaphore is never released more
\* often than it was acquired, which would panic.
AppTypeOK ==
    /\ at \in [Clients -> {"idle", "acquire", "send", "wait"}]
    /\ mine \in [Clients -> Handlers \cup {NoHandler}]
    /\ sends \in 0 .. MaxSends
    /\ chan \in [Handlers -> Answers \cup {"open"}]
    /\ slots \in 0 .. MaxActive
    /\ gen \in IDs
    /\ outstanding \in [IDs -> Handlers \cup {NoHandler}]
    /\ owed \subseteq [id : IDs, h : Handlers]
    /\ worker \in [Workers -> [pc : {"idle", "release", "handle"},
                               h : Handlers \cup {NoHandler},
                               answer : Answers \cup {NoHandler}]]
    /\ ambiguous \in Nat
    /\ fatal \in {"no", "unrequested", "panic"}

\* No slot leaks and none is returned twice: a slot is taken exactly while a
\* client is about to send, a request is outstanding, or its answer is on the
\* way to ReleaseSlot. Errors, cancelled contexts and late answers included.
SlotsAccounted ==
    MaxActive - slots =
        Cardinality({c \in Clients : at[c] = "send"})
        + Cardinality({i \in IDs : outstanding[i] # NoHandler})
        + Cardinality({w \in Workers : worker[w].pc = "release"})

\* An outstanding handler is owed an answer, is open, and no thread is delivering
\* to it.
AnsweredOnce ==
    \A i \in IDs :
        outstanding[i] # NoHandler =>
            /\ [id |-> i, h |-> outstanding[i]] \in owed
            /\ chan[outstanding[i]] = "open"
            /\ \A w \in Workers : worker[w].h # outstanding[i]
            /\ \A j \in IDs \ {i} : outstanding[j] # outstanding[i]

\* An answer reaches the handler of the request that it answers, and a handler is
\* answered once: nobody closes its channel twice, whatever threads answer and
\* whichever callers have gone.
AnswersMatch == AnsweredOnce /\ fatal # "panic"

\* "If [requestID] is not known, this function will emit a log and return a nil
\* error" (AppResponse): an answer to a request that was forgotten, because the
\* call that sent it returned an error, stops nobody.
UnknownAnswersIgnored == fatal # "unrequested"

\* A call returns even if its context is never cancelled: the semaphore lets it
\* in, and its answer is delivered and closes the channel.
CallsReturn ==
    \A c \in Clients : (at[c] # "idle") ~> (at[c] = "idle" \/ fatal # "no")

=============================================================================
