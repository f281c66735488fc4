-------------------------- MODULE AppNetworkProofs --------------------------
(***************************************************************************)
(* Proofs about requests to peers, for any number of callers, threads,     *)
(* slots and request IDs. SlotsAccounted and AnswersMatch are not          *)
(* inductive by themselves: that a slot is never returned twice rests on   *)
(* the ID of a new request not being outstanding, and that an answer finds *)
(* its own request rests on who else can hold a handler. CountInv and      *)
(* OwedInv say the first, HandlerInv the second; NetInv is their           *)
(* conjunction with the types.                                             *)
(***************************************************************************)
EXTENDS AppNetwork, FiniteSetTheorems, TLAPS

\* The types without the upper bound of the semaphore, which follows from the
\* account of its slots.
NetType ==
    /\ at \in [Clients -> {"idle", "acquire", "send", "wait"}]
    /\ mine \in [Clients -> Handlers \cup {NoHandler}]
    /\ sends \in 0 .. MaxSends
    /\ chan \in [Handlers -> Answers \cup {"open"}]
    /\ slots \in Nat
    /\ gen \in IDs
    /\ outstanding \in [IDs -> Handlers \cup {NoHandler}]
    /\ owed \subseteq [id : IDs, h : Handlers]
    /\ worker \in [Workers -> [pc : {"idle", "release", "handle"},
                               h : Handlers \cup {NoHandler},
                               answer : Answers \cup {NoHandler}]]
    /\ ambiguous \in Nat
    /\ fatal \in {"no", "unrequested", "panic"}

\* A handler that the network does not know of yet.
Unknown(h) ==
    /\ chan[h] = "open"
    /\ \A i \in IDs : outstanding[i] # h
    /\ \A w \in Workers : worker[w].h # h

\* A client that holds a handler it has not yet registered.
Unsent(c) == at[c] \in {"acquire", "send"}

\* Who can hold a handler: one client before it sends, or one thread while it
\* answers; handlers that were not made yet are held by nobody.
HandlerInv ==
    /\ \A h \in Handlers : h > sends => Unknown(h) /\ \A c \in Clients : mine[c] # h
    /\ \A c \in Clients : Unsent(c) => mine[c] \in Handlers /\ Unknown(mine[c])
    /\ \A c, d \in Clients : c # d /\ Unsent(c) /\ Unsent(d) => mine[c] # mine[d]
    /\ \A w \in Workers : worker[w].pc # "idle" =>
          /\ worker[w].h \in Handlers /\ worker[w].answer \in Answers
          /\ chan[worker[w].h] = "open"
    /\ \A w \in Workers : worker[w].pc = "idle" => worker[w].h = NoHandler
    /\ \A v, w \in Workers : v # w /\ worker[v].pc # "idle" => worker[v].h # worker[w].h

\* What the node owes: one answer per ID, and only for IDs that were given out.
OwedInv ==
    /\ \A o, p \in owed : o.id = p.id => o = p
    /\ \A o \in owed : o.id < gen
    /\ AnsweredOnce
    /\ fatal # "panic"

\* Every client that has not sent yet has its own number of a handler, and the IDs
\* are given out one per handler: so they do not come to their end.
Unsents == {c \in Clients : Unsent(c)}
CountInv == gen + 2 * Cardinality(Unsents) <= 2 * sends

\* The inductive invariant.
NetInv == NetType /\ HandlerInv /\ OwedInv /\ CountInv /\ SlotsAccounted

-----------------------------------------------------------------------------
(* Types.                                                                  *)

\* IDs are in range.
LEMMA NextIDType == gen \in IDs => nextRequestID \in IDs
BY AppNetworkAssumption DEF IDs, nextRequestID

\* Every step of callers, threads and node keeps the types.
LEMMA StepNetType == NetType /\ HandlerInv /\ [AppNext]_appVars => NetType'
<1> SUFFICES ASSUME NetType, HandlerInv, [AppNext]_appVars PROVE NetType'
    OBVIOUS
<1> USE AppNetworkAssumption DEF NetType, netVars
<1>1. ASSUME NEW c \in Clients, Call(c) PROVE NetType'
      BY <1>1 DEF Call, Handlers
<1>2. ASSUME NEW c \in Clients, Acquire(c) PROVE NetType'
      BY <1>2 DEF Acquire
<1>3. ASSUME NEW c \in Clients, GiveUp(c) PROVE NetType'
      BY <1>3 DEF GiveUp, AcquireCancelled, SendCancelled, WaitCancelled
<1>4. ASSUME NEW c \in Clients, at[c] = "send" PROVE Request(c) \in [id : IDs, h : Handlers]
      BY <1>4 DEF Request, HandlerInv, Unsent
<1>5. ASSUME NEW c \in Clients, SendRequest(c) PROVE NetType'
      BY <1>4, <1>5, NextIDType DEF SendRequest
<1>6. ASSUME NEW c \in Clients, SendFails(c) PROVE NetType'
      BY <1>4, <1>6, NextIDType DEF SendFails
<1>7. ASSUME NEW c \in Clients, WaitForResult(c) PROVE NetType'
      BY <1>7 DEF WaitForResult
<1>8. ASSUME NEW w \in Workers, NEW o \in owed, NEW a \in Answers, Deliver(w, o, a)
      PROVE NetType'
  <2>1. CASE outstanding[o.id] # NoHandler
        BY <1>8, <2>1 DEF Deliver
  <2>2. CASE outstanding[o.id] = NoHandler
        BY <1>8, <2>2 DEF Deliver
  <2> QED
      BY <2>1, <2>2
<1>9. ASSUME NEW w \in Workers, ReleaseSlot(w) PROVE NetType'
      BY <1>9 DEF ReleaseSlot
<1>10. ASSUME NEW w \in Workers, Handle(w) PROVE NetType'
  <2>1. worker[w].answer \in Answers
        BY <1>10 DEF Handle, HandlerInv
  <2> QED
      BY <1>10, <2>1 DEF Handle, IdleWorker
<1>11. CASE UNCHANGED appVars
      BY <1>11 DEF appVars
<1> QED
    BY <1>1, <1>2, <1>3, <1>5, <1>6, <1>7, <1>8, <1>9, <1>10, <1>11
    DEF AppNext, Proceed, Answer, Work

-----------------------------------------------------------------------------
(* Handlers and answers.                                                   *)

\* One more or one less.
LEMMA CountOne ==
    ASSUME NEW S, IsFiniteSet(S), NEW x
    PROVE  /\ x \notin S => Cardinality(S \cup {x}) = Cardinality(S) + 1
           /\ x \in S => Cardinality(S \ {x}) = Cardinality(S) - 1
BY FS_AddElement, FS_RemoveElement

\* The clients that have not sent yet can be counted.
LEMMA UnsentsFinite == IsFiniteSet(Unsents) /\ Cardinality(Unsents) \in Nat
BY AppNetworkAssumption, FS_Subset, FS_CardinalityType DEF Unsents

\* A client that is about to send gets an ID that nobody has, and there is another
\* one after it.
LEMMA FreshID ==
    ASSUME NetType, OwedInv, CountInv, NEW c \in Clients, at[c] = "send"
    PROVE  /\ outstanding[gen] = NoHandler
           /\ \A o \in owed : o.id # gen
           /\ nextRequestID = gen + 2
<1>1. c \in Unsents
      BY DEF Unsents, Unsent
<1>2. Cardinality(Unsents) >= 1
  <2>1. Cardinality(Unsents \ {c}) = Cardinality(Unsents) - 1
        BY <1>1, UnsentsFinite, CountOne
  <2>2. IsFiniteSet(Unsents \ {c})
        BY UnsentsFinite, FS_Subset
  <2> QED
      BY <2>1, <2>2, UnsentsFinite, FS_CardinalityType
<1>3. gen + 2 < IDSpace /\ gen \in Nat /\ IDSpace \in Nat
      BY <1>2, UnsentsFinite, AppNetworkAssumption DEF CountInv, NetType, IDs
<1>4. nextRequestID = gen + 2
      BY <1>3 DEF nextRequestID
<1>5. \A o \in owed : o.id # gen
      BY <1>3 DEF OwedInv, NetType, IDs
<1> QED
    BY <1>4, <1>5 DEF NetType, OwedInv, AnsweredOnce

\* Every step keeps the count: a call takes a number, and sending gives it up for
\* an ID.
LEMMA StepCount == NetType /\ OwedInv /\ CountInv /\ [AppNext]_appVars => CountInv'
<1> SUFFICES ASSUME NetType, OwedInv, CountInv, [AppNext]_appVars PROVE CountInv'
    OBVIOUS
<1>0. /\ gen \in Nat /\ sends \in Nat /\ Cardinality(Unsents) \in Nat
      /\ gen + 2 * Cardinality(Unsents) <= 2 * sends
      BY UnsentsFinite DEF NetType, IDs, CountInv
<1>s. CountInv' <=> gen' + 2 * Cardinality(Unsents') <= 2 * sends'
      BY DEF CountInv, Unsents
<1> USE UnsentsFinite DEF netVars
<1>1. ASSUME NEW c \in Clients, Call(c) PROVE CountInv'
  <2>1. c \notin Unsents /\ Unsents' = Unsents \cup {c}
        BY <1>1 DEF Call, Unsents, Unsent, NetType
  <2>2. Cardinality(Unsents') = Cardinality(Unsents) + 1
        BY <2>1, CountOne
  <2>3. gen' = gen /\ sends' = sends + 1
        BY <1>1 DEF Call
  <2> QED
      BY <1>0, <1>s, <2>2, <2>3
<1>2. ASSUME NEW c \in Clients, Acquire(c) PROVE CountInv'
  <2>1. Unsents' = Unsents
        BY <1>2 DEF Acquire, Unsents, Unsent, NetType
  <2> QED
      BY <1>0, <1>2, <1>s, <2>1 DEF Acquire
<1>3. ASSUME NEW c \in Clients, AcquireCancelled(c) \/ SendCancelled(c) PROVE CountInv'
  <2>1. c \in Unsents /\ Unsents' = Unsents \ {c}
        BY <1>3 DEF AcquireCancelled, SendCancelled, Unsents, Unsent, NetType
  <2>2. Cardinality(Unsents') = Cardinality(Unsents) - 1
        BY <2>1, CountOne
  <2>3. gen' = gen /\ sends' = sends
        BY <1>3 DEF AcquireCancelled, SendCancelled
  <2> QED
      BY <1>0, <1>s, <2>2, <2>3
<1>4. ASSUME NEW c \in Clients, SendRequest(c) \/ SendFails(c) PROVE CountInv'
  <2>1. c \in Unsents /\ Unsents' = Unsents \ {c}
        BY <1>4 DEF SendRequest, SendFails, Unsents, Unsent, NetType
  <2>2. Cardinality(Unsents') = Cardinality(Unsents) - 1
        BY <2>1, CountOne
  <2>3. at[c] = "send" /\ gen' = nextRequestID /\ sends' = sends
        BY <1>4 DEF SendRequest, SendFails
  <2>4. gen' = gen + 2
        BY <2>3, FreshID
  <2> QED
      BY <1>0, <1>s, <2>2, <2>3, <2>4
<1>5. ASSUME NEW c \in Clients, WaitForResult(c) \/ WaitCancelled(c) PROVE CountInv'
  <2>1. Unsents' = Unsents
        BY <1>5 DEF WaitForResult, WaitCancelled, Unsents, Unsent, NetType
  <2> QED
      BY <1>0, <1>5, <1>s, <2>1 DEF WaitForResult, WaitCancelled
<1>6. ASSUME UNCHANGED <<at, gen, sends>> PROVE CountInv'
      BY <1>0, <1>6, <1>s DEF Unsents, Unsent
<1> QED
    BY <1>1, <1>2, <1>3, <1>4, <1>5, <1>6
    DEF AppNext, appVars, Proceed, GiveUp, Answer, Deliver, Work, ReleaseSlot, Handle

\* An answer that is waited for: its handler passes from the table to the thread.
LEMMA DeliverFound ==
    ASSUME NetType, NEW w \in Workers, NEW o \in owed, NEW a \in Answers, Deliver(w, o, a),
           outstanding[o.id] # NoHandler
    PROVE  /\ worker[w].pc = "idle"
           /\ worker'[w].pc = "release" /\ worker'[w].h = outstanding[o.id]
           /\ \A v \in Workers \ {w} : worker'[v] = worker[v]
           /\ o.id \in IDs /\ outstanding'[o.id] = NoHandler
           /\ \A i \in IDs \ {o.id} : outstanding'[i] = outstanding[i]
<1>1. worker' = [worker EXCEPT ![w] = [pc |-> "release", h |-> outstanding[o.id], answer |-> a]]
      BY DEF Deliver
<1>2. outstanding' = [outstanding EXCEPT ![o.id] = NoHandler]
      BY DEF Deliver
<1>3. o.id \in IDs /\ DOMAIN outstanding = IDs /\ DOMAIN worker = Workers
      BY DEF NetType
<1>4. worker[w].pc = "idle"
      BY DEF Deliver
<1>5. worker'[w] = [pc |-> "release", h |-> outstanding[o.id], answer |-> a]
      BY <1>1, <1>3
<1> QED
    BY <1>1, <1>2, <1>3, <1>4, <1>5

\* Every step leaves a handler with one holder.
LEMMA StepHandler == NetType /\ HandlerInv /\ OwedInv /\ [AppNext]_appVars => HandlerInv'
<1> SUFFICES ASSUME NetType, HandlerInv, OwedInv, [AppNext]_appVars PROVE HandlerInv'
    OBVIOUS
<1> USE AppNetworkAssumption DEF NetType, HandlerInv, Unknown, Unsent, netVars, Handlers
<1>1. ASSUME NEW c \in Clients, Call(c) PROVE HandlerInv'
  <2>1. sends + 1 \in Handlers /\ mine'[c] = sends + 1 /\ sends' = sends + 1
        BY <1>1 DEF Call
  <2>2. Unknown(sends + 1) /\ \A d \in Clients : mine[d] # sends + 1
        BY <2>1
  <2>3. \A d \in Clients \ {c} : mine'[d] = mine[d] /\ at'[d] = at[d]
        BY <1>1 DEF Call
  <2>4. UNCHANGED <<chan, outstanding, worker>>
        BY <1>1 DEF Call
  <2>5. \A h \in Handlers : Unknown(h) => Unknown(h)'
        BY <2>4
  <2> HIDE DEF Unknown
  <2>6. ASSUME NEW h \in Handlers, h > sends'
        PROVE  Unknown(h)' /\ \A d \in Clients : mine'[d] # h
    <3>1. h > sends /\ h # sends + 1
          BY <2>1, <2>6
    <3> QED
        BY <2>1, <2>3, <2>5, <3>1
  <2>7. \A d \in Clients : Unsent(d)' => mine'[d] \in Handlers /\ Unknown(mine[d])'
        BY <2>1, <2>2, <2>3, <2>5
  <2>8. \A d, e \in Clients : d # e /\ Unsent(d)' /\ Unsent(e)' => mine'[d] # mine'[e]
        BY <2>1, <2>2, <2>3
  <2> QED
      BY <2>4, <2>6, <2>7, <2>8
<1>2. ASSUME NEW c \in Clients, Acquire(c) PROVE HandlerInv'
      BY <1>2 DEF Acquire
<1>3. ASSUME NEW c \in Clients, GiveUp(c) PROVE HandlerInv'
      BY <1>3 DEF GiveUp, AcquireCancelled, SendCancelled, WaitCancelled
<1>5. ASSUME NEW c \in Clients, SendRequest(c) PROVE HandlerInv'
      BY <1>5 DEF SendRequest
<1>6. ASSUME NEW c \in Clients, SendFails(c) PROVE HandlerInv'
      BY <1>6 DEF SendFails
<1>7. ASSUME NEW c \in Clients, WaitForResult(c) PROVE HandlerInv'
      BY <1>7 DEF WaitForResult
<1>8. ASSUME NEW w \in Workers, NEW o \in owed, NEW a \in Answers, Deliver(w, o, a)
      PROVE HandlerInv'
  <2>1. CASE outstanding[o.id] # NoHandler
    <3> DEFINE h == outstanding[o.id]
    <3> HIDE DEF HandlerInv
    <3>0. o.id \in IDs /\ h \in Handlers
          BY <2>1
    <3>1. chan[h] = "open" /\ \A v \in Workers : worker[v].h # h
          BY <2>1, <3>0 DEF OwedInv, AnsweredOnce
    <3>2. /\ worker'[w] = [pc |-> "release", h |-> h, answer |-> a]
          /\ \A v \in Workers \ {w} : worker'[v] = worker[v]
          BY <1>8, <2>1 DEF Deliver
    <3>3. /\ outstanding'[o.id] = NoHandler
          /\ \A i \in IDs \ {o.id} : outstanding'[i] = outstanding[i]
          BY <1>8, <2>1, <3>0 DEF Deliver
    <3>4. UNCHANGED <<at, mine, sends, chan>>
          BY <1>8 DEF Deliver
    <3>5. ASSUME NEW k \in Handlers, Unknown(k) PROVE Unknown(k)'
      <4>1. \A i \in IDs : outstanding'[i] # k
            BY <3>3, <3>5
      <4>2. ASSUME NEW v \in Workers PROVE worker'[v].h # k
        <5>1. CASE v = w
              BY <3>0, <3>2, <3>5, <5>1
        <5>2. CASE v # w
              BY <3>2, <3>5, <5>2
        <5> QED
            BY <5>1, <5>2
      <4> QED
          BY <3>4, <3>5, <4>1, <4>2
    <3> HIDE DEF Unknown, h
    <3>6. \A v \in Workers : worker'[v].pc # "idle" =>
             /\ worker'[v].h \in Handlers /\ worker'[v].answer \in Answers
             /\ chan'[worker'[v].h] = "open"
          BY <3>0, <3>1, <3>2, <3>4 DEF HandlerInv
    <3>7. ASSUME NEW u \in Workers, NEW v \in Workers, u # v, worker'[u].pc # "idle"
          PROVE  worker'[u].h # worker'[v].h
      <4>1. CASE u = w
            BY <3>1, <3>2, <3>7, <4>1
      <4>2. CASE v = w
            BY <3>1, <3>2, <3>7, <4>2
      <4>3. CASE u # w /\ v # w
            BY <3>2, <3>7, <4>3 DEF HandlerInv
      <4> QED
          BY <4>1, <4>2, <4>3
    <3>8. \A v \in Workers : worker'[v].pc = "idle" => worker'[v].h = NoHandler
          BY <3>2 DEF HandlerInv
    <3> QED
        BY <3>4, <3>5, <3>6, <3>7, <3>8 DEF HandlerInv
  <2>2. CASE outstanding[o.id] = NoHandler
        BY <1>8, <2>2 DEF Deliver
  <2> QED
      BY <2>1, <2>2
<1>9. ASSUME NEW w \in Workers, ReleaseSlot(w) PROVE HandlerInv'
      BY <1>9 DEF ReleaseSlot
<1>10. ASSUME NEW w \in Workers, Handle(w) PROVE HandlerInv'
  <2>1. /\ worker'[w].pc = "idle" /\ worker'[w].h = NoHandler
        /\ \A v \in Workers \ {w} : worker'[v] = worker[v]
        BY <1>10 DEF Handle, IdleWorker
  <2>2. worker[w].pc # "idle" /\ worker[w].h \in Handlers
        BY <1>10 DEF Handle
  <2>3. /\ \A h \in Handlers \ {worker[w].h} : chan'[h] = chan[h]
        /\ UNCHANGED <<outstanding, mine, at, sends>>
        BY <1>10 DEF Handle
  <2>4. NoHandler \notin Handlers
        OBVIOUS
  <2> HIDE DEF Handlers
  <2>5. ASSUME NEW h \in Handlers, Unknown(h) PROVE Unknown(h)'
    <3>1. h # worker[w].h /\ h # NoHandler
          BY <2>4, <2>5
    <3>2. chan'[h] = "open" /\ \A i \in IDs : outstanding'[i] # h
          BY <2>3, <2>5, <3>1
    <3>3. ASSUME NEW v \in Workers PROVE worker'[v].h # h
          BY <2>1, <2>5, <3>1
    <3> HIDE DEF HandlerInv, NetType
    <3> QED
        BY <3>2, <3>3
  <2>6. \A v \in Workers \ {w} : worker[v].pc # "idle" => chan'[worker[v].h] = "open"
        BY <2>2, <2>3
  <2> HIDE DEF Unknown
  <2>7. /\ \A h \in Handlers : h > sends' => Unknown(h)' /\ \A c \in Clients : mine'[c] # h
        /\ \A c \in Clients : Unsent(c)' => mine'[c] \in Handlers /\ Unknown(mine[c])'
        /\ \A c, d \in Clients : c # d /\ Unsent(c)' /\ Unsent(d)' => mine'[c] # mine'[d]
        BY <2>3, <2>5
  <2>8. \A v \in Workers : worker'[v].pc # "idle" =>
           /\ worker'[v].h \in Handlers /\ worker'[v].answer \in Answers
           /\ chan'[worker'[v].h] = "open"
        BY <2>1, <2>6
  <2>9. \A v \in Workers : worker'[v].pc = "idle" => worker'[v].h = NoHandler
        BY <2>1
  <2>10. ASSUME NEW u \in Workers, NEW v \in Workers, u # v, worker'[u].pc # "idle"
         PROVE  worker'[u].h # worker'[v].h
    <3>1. u # w /\ worker'[u] = worker[u] /\ worker[u].h \in Handlers
          BY <2>1, <2>10
    <3>2. CASE v = w
          BY <2>1, <2>4, <3>1, <3>2
    <3>3. CASE v # w
          BY <2>1, <2>10, <3>1, <3>3
    <3> QED
        BY <3>2, <3>3
  <2> HIDE DEF NetType, Unsent
  <2> QED
      BY <2>7, <2>8, <2>9, <2>10
<1>11. CASE UNCHANGED appVars
      BY <1>11 DEF appVars
<1> QED
    BY <1>1, <1>2, <1>3, <1>5, <1>6, <1>7, <1>8, <1>9, <1>10, <1>11
    DEF AppNext, Proceed, Answer, Work

\* Every step leaves one answer per ID, for the handler that waits for it.
LEMMA StepOwed ==
    NetType /\ HandlerInv /\ OwedInv /\ CountInv /\ [AppNext]_appVars => OwedInv'
<1> SUFFICES ASSUME NetType, HandlerInv, OwedInv, CountInv, [AppNext]_appVars PROVE OwedInv'
    OBVIOUS
<1>0. ASSUME NEW c \in Clients, at[c] = "send"
      PROVE  /\ outstanding[gen] = NoHandler /\ nextRequestID = gen + 2
             /\ \A o \in owed : o.id # gen
      BY <1>0, FreshID
<1> USE AppNetworkAssumption DEF NetType, OwedInv, AnsweredOnce, netVars, Handlers
<1>1. ASSUME NEW c \in Clients, Call(c) \/ Acquire(c) \/ GiveUp(c) \/ WaitForResult(c)
      PROVE OwedInv'
  <2>1. UNCHANGED <<outstanding, owed, worker, chan, gen, fatal>>
        BY <1>1 DEF Call, Acquire, GiveUp, AcquireCancelled, SendCancelled, WaitCancelled,
                    WaitForResult
  <2> QED
      BY <2>1
<1>2. ASSUME gen' = gen + 2, NEW o \in owed PROVE o.id < gen'
      BY <1>2 DEF IDs
<1>5. ASSUME NEW c \in Clients, SendRequest(c) PROVE OwedInv'
  <2>1. /\ mine[c] \in Handlers /\ chan[mine[c]] = "open"
        /\ \A i \in IDs : outstanding[i] # mine[c]
        /\ \A w \in Workers : worker[w].h # mine[c]
        BY <1>5 DEF SendRequest, HandlerInv, Unsent, Unknown
  <2>2. /\ outstanding' = [outstanding EXCEPT ![gen] = mine[c]]
        /\ owed' = owed \cup {[id |-> gen, h |-> mine[c]]}
        /\ \A o \in owed : o.id # gen
        /\ gen' = gen + 2
        /\ UNCHANGED <<chan, worker, fatal>>
        BY <1>0, <1>5 DEF SendRequest, Request
  <2>3. AnsweredOnce'
    <3> SUFFICES ASSUME NEW i \in IDs, outstanding'[i] # NoHandler
                 PROVE  /\ [id |-> i, h |-> outstanding'[i]] \in owed'
                        /\ chan'[outstanding'[i]] = "open"
                        /\ \A w \in Workers : worker'[w].h # outstanding'[i]
                        /\ \A j \in IDs \ {i} : outstanding'[j] # outstanding'[i]
        OBVIOUS
    <3>1. CASE i = gen
          BY <2>1, <2>2, <3>1
    <3>2. CASE i # gen
      <4>1. outstanding'[i] = outstanding[i]
            BY <2>2, <3>2
      <4>2. \A j \in IDs \ {i} : outstanding'[j] # outstanding[i]
            BY <2>1, <2>2, <4>1
      <4> QED
          BY <2>2, <4>1, <4>2
    <3> QED
        BY <3>1, <3>2
  <2>4. \A o, p \in owed' : o.id = p.id => o = p
        BY <2>2
  <2>5. \A o \in owed' : o.id < gen'
        BY <1>2, <2>2 DEF IDs
  <2> QED
      BY <2>2, <2>3, <2>4, <2>5
<1>6. ASSUME NEW c \in Clients, SendFails(c) PROVE OwedInv'
  <2>1. outstanding' = outstanding
    <3>1. outstanding' = [outstanding EXCEPT ![gen] = NoHandler] /\ at[c] = "send"
          BY <1>6 DEF SendFails
    <3> HIDE DEF OwedInv, AnsweredOnce
    <3>2. outstanding[gen] = NoHandler
          BY <1>0, <3>1
    <3> QED
        BY <3>1, <3>2
  <2>2. UNCHANGED <<chan, worker, fatal>> /\ owed \subseteq owed' /\ gen' = gen + 2
        BY <1>0, <1>6 DEF SendFails
  <2>3. AnsweredOnce'
        BY <2>1, <2>2
  <2>4. CASE UNCHANGED owed
        BY <1>2, <2>1, <2>2, <2>3, <2>4
  <2>5. CASE owed' = owed \cup {Request(c)}
    <3>1. Request(c).id = gen /\ \A o \in owed : o.id # Request(c).id
          BY <1>0, <1>6 DEF SendFails, Request
    <3>2. \A o, p \in owed' : o.id = p.id => o = p
          BY <2>5, <3>1
    <3>3. \A o \in owed' : o.id < gen'
          BY <1>2, <2>2, <2>5, <3>1 DEF IDs
    <3> HIDE DEF AnsweredOnce, NetType
    <3> QED
        BY <2>2, <2>3, <3>2, <3>3
  <2> QED
      BY <1>6, <2>4, <2>5 DEF SendFails
<1>8. ASSUME NEW w \in Workers, NEW o \in owed, NEW a \in Answers, Deliver(w, o, a)
      PROVE OwedInv'
  <2>1. CASE outstanding[o.id] # NoHandler
    <3> DEFINE h == outstanding[o.id]
    <3>1. /\ o.id \in IDs /\ h \in Handlers
          /\ [id |-> o.id, h |-> h] \in owed
          /\ \A i \in IDs \ {o.id} : outstanding[i] # h
          BY <2>1
    <3>2. \A p \in owed \ {o} : p.id # o.id
          OBVIOUS
    <3>3. /\ outstanding'[o.id] = NoHandler /\ owed' = owed \ {o}
          /\ \A i \in IDs \ {o.id} : outstanding'[i] = outstanding[i]
      <4>1. owed' = owed \ {o}
            BY <1>8 DEF Deliver
      <4> HIDE DEF OwedInv, AnsweredOnce, NetType
      <4> QED
          BY <1>8, <2>1, <4>1, DeliverFound
    <3>4. /\ worker'[w].h = h
          /\ \A v \in Workers \ {w} : worker'[v] = worker[v]
      <4> HIDE DEF OwedInv, AnsweredOnce, NetType
      <4> QED
          BY <1>8, <2>1, DeliverFound
    <3>5. UNCHANGED <<chan, gen, fatal>>
          BY <1>8, <2>1 DEF Deliver
    <3>6. ASSUME NEW i \in IDs, outstanding'[i] # NoHandler
          PROVE  /\ [id |-> i, h |-> outstanding'[i]] \in owed'
                 /\ chan'[outstanding'[i]] = "open"
                 /\ \A v \in Workers : worker'[v].h # outstanding'[i]
                 /\ \A j \in IDs \ {i} : outstanding'[j] # outstanding'[i]
      <4>1. i # o.id /\ outstanding'[i] = outstanding[i] /\ outstanding[i] # h
            BY <3>1, <3>3, <3>6
      <4>0. /\ chan[outstanding[i]] = "open"
            /\ \A v \in Workers : worker[v].h # outstanding[i]
            /\ \A j \in IDs \ {i} : outstanding[j] # outstanding[i]
            BY <3>6, <4>1
      <4>2. [id |-> i, h |-> outstanding[i]] \in owed'
            BY <3>3, <3>6, <4>1
      <4> HIDE DEF OwedInv, AnsweredOnce, NetType
      <4>3. ASSUME NEW v \in Workers PROVE worker'[v].h # outstanding[i]
        <5>1. CASE v = w
              BY <3>4, <4>1, <5>1
        <5>2. CASE v # w
              BY <3>4, <4>0, <5>2
        <5> QED
            BY <5>1, <5>2
      <4>4. ASSUME NEW j \in IDs \ {i} PROVE outstanding'[j] # outstanding[i]
        <5>1. CASE j = o.id
              BY <3>3, <3>6, <4>1, <5>1
        <5>2. CASE j # o.id
              BY <3>3, <4>0, <5>2
        <5> QED
            BY <5>1, <5>2
      <4> QED
          BY <3>5, <4>0, <4>1, <4>2, <4>3, <4>4
    <3>7. \A p \in owed' : p.id < gen'
          BY <3>3, <3>5
    <3>8. AnsweredOnce'
          BY <3>6
    <3>9. \A p, q \in owed' : p.id = q.id => p = q
          BY <3>3
    <3>10. fatal' # "panic"
           BY <3>5
    <3> HIDE DEF AnsweredOnce, NetType
    <3> QED
        BY <3>7, <3>8, <3>9, <3>10
  <2>2. CASE outstanding[o.id] = NoHandler
    <3>1. /\ owed' = owed \ {o} /\ fatal' = "unrequested"
          /\ UNCHANGED <<worker, outstanding, chan, gen>>
          BY <1>8, <2>2 DEF Deliver
    <3>3. \A i \in IDs : outstanding[i] # NoHandler => [id |-> i, h |-> outstanding[i]] # o
          BY <2>2
    <3>4. AnsweredOnce'
          BY <3>1, <3>3
    <3>5. \A p, q \in owed' : p.id = q.id => p = q
          BY <3>1
    <3>6. \A p \in owed' : p.id < gen'
          BY <3>1
    <3> HIDE DEF AnsweredOnce, NetType
    <3> QED
        BY <3>1, <3>4, <3>5, <3>6
  <2> QED
      BY <2>1, <2>2
<1>9. ASSUME NEW w \in Workers, ReleaseSlot(w) PROVE OwedInv'
      BY <1>9 DEF ReleaseSlot
<1>10. ASSUME NEW w \in Workers, Handle(w) PROVE OwedInv'
      BY <1>10 DEF Handle, IdleWorker, HandlerInv
<1>11. CASE UNCHANGED appVars
      BY <1>11 DEF appVars
<1> QED
    BY <1>1, <1>5, <1>6, <1>8, <1>9, <1>10, <1>11 DEF AppNext, Proceed, Answer, Work

-----------------------------------------------------------------------------
(* Slots of the semaphore.                                                 *)

Senders == {c \in Clients : at[c] = "send"}
Waiting == {i \in IDs : outstanding[i] # NoHandler}
Releasing == {w \in Workers : worker[w].pc = "release"}

\* All who hold a slot can be counted.
LEMMA HoldersFinite ==
    /\ IsFiniteSet(Senders) /\ Cardinality(Senders) \in Nat
    /\ IsFiniteSet(Waiting) /\ Cardinality(Waiting) \in Nat
    /\ IsFiniteSet(Releasing) /\ Cardinality(Releasing) \in Nat
<1>1. IsFiniteSet(IDs)
      BY AppNetworkAssumption, FS_Interval DEF IDs
<1>2. IsFiniteSet(Senders) /\ IsFiniteSet(Waiting) /\ IsFiniteSet(Releasing)
      BY <1>1, AppNetworkAssumption, FS_Subset DEF Senders, Waiting, Releasing
<1> QED
    BY <1>2, FS_CardinalityType

\* Every step moves a slot from one holder to the next, or takes or returns one.
LEMMA StepSlots ==
    NetType /\ HandlerInv /\ OwedInv /\ CountInv /\ SlotsAccounted /\ [AppNext]_appVars
        => SlotsAccounted'
<1> SUFFICES ASSUME NetType, HandlerInv, OwedInv, CountInv, SlotsAccounted,
                    [AppNext]_appVars
             PROVE  SlotsAccounted'
    OBVIOUS
<1>0. /\ MaxActive \in Nat /\ slots \in Nat
      /\ MaxActive - slots = Cardinality(Senders) + Cardinality(Waiting) + Cardinality(Releasing)
      BY AppNetworkAssumption DEF SlotsAccounted, Senders, Waiting, Releasing, NetType
<1> USE AppNetworkAssumption, HoldersFinite
<1>s. SlotsAccounted' <=>
      MaxActive - slots' =
        Cardinality(Senders') + Cardinality(Waiting') + Cardinality(Releasing')
      BY DEF SlotsAccounted, Senders, Waiting, Releasing
<1> USE DEF netVars
<1>1. ASSUME NEW c \in Clients, Call(c) \/ AcquireCancelled(c) \/ WaitForResult(c)
             \/ WaitCancelled(c)
      PROVE  SlotsAccounted'
  <2>1. Senders' = Senders
        BY <1>1 DEF Call, AcquireCancelled, WaitForResult, WaitCancelled, Senders, NetType
  <2>2. Waiting' = Waiting /\ Releasing' = Releasing /\ slots' = slots
        BY <1>1 DEF Call, AcquireCancelled, WaitForResult, WaitCancelled, Waiting, Releasing
  <2> QED
      BY <1>0, <1>s, <2>1, <2>2
<1>2. ASSUME NEW c \in Clients, Acquire(c) PROVE SlotsAccounted'
  <2>1. c \notin Senders /\ Senders' = Senders \cup {c}
        BY <1>2 DEF Acquire, Senders, NetType
  <2>2. Waiting' = Waiting /\ Releasing' = Releasing /\ slots' = slots - 1
        BY <1>2 DEF Acquire, Waiting, Releasing
  <2> QED
      BY <1>0, <1>s, <2>1, <2>2, CountOne
<1>3. ASSUME NEW c \in Clients, SendCancelled(c) PROVE SlotsAccounted'
  <2>1. c \in Senders /\ Senders' = Senders \ {c}
        BY <1>3 DEF SendCancelled, Senders, NetType
  <2>2. Waiting' = Waiting /\ Releasing' = Releasing /\ slots' = slots + 1
        BY <1>3 DEF SendCancelled, Waiting, Releasing
  <2>3. Cardinality(Senders') = Cardinality(Senders) - 1
        BY <2>1, CountOne
  <2> QED
      BY <1>0, <1>s, <2>2, <2>3
<1>4. ASSUME NEW c \in Clients, SendRequest(c) PROVE SlotsAccounted'
  <2>1. c \in Senders /\ Senders' = Senders \ {c}
        BY <1>4 DEF SendRequest, Senders, NetType
  <2>2. mine[c] # NoHandler
        BY <1>4 DEF SendRequest, HandlerInv, Unsent, Handlers
  <2>3. gen \notin Waiting /\ Waiting' = Waiting \cup {gen}
        BY <1>4, <2>2, FreshID DEF SendRequest, Waiting, NetType
  <2>4. Releasing' = Releasing /\ slots' = slots
        BY <1>4 DEF SendRequest, Releasing
  <2>5. Cardinality(Senders') = Cardinality(Senders) - 1
        BY <2>1, CountOne
  <2>6. Cardinality(Waiting') = Cardinality(Waiting) + 1
        BY <2>3, CountOne
  <2> QED
      BY <1>0, <1>s, <2>4, <2>5, <2>6
<1>5. ASSUME NEW c \in Clients, SendFails(c) PROVE SlotsAccounted'
  <2>1. c \in Senders /\ Senders' = Senders \ {c}
        BY <1>5 DEF SendFails, Senders, NetType
  <2>2. Waiting' = Waiting
        BY <1>5, FreshID DEF SendFails, Waiting, NetType
  <2>3. Releasing' = Releasing /\ slots' = slots + 1
        BY <1>5 DEF SendFails, Releasing
  <2>4. Cardinality(Senders') = Cardinality(Senders) - 1
        BY <2>1, CountOne
  <2> QED
      BY <1>0, <1>s, <2>2, <2>3, <2>4
<1>6. ASSUME NEW w \in Workers, NEW o \in owed, NEW a \in Answers, Deliver(w, o, a)
      PROVE SlotsAccounted'
  <2>1. Senders' = Senders /\ slots' = slots
        BY <1>6 DEF Deliver, Senders
  <2>2. CASE outstanding[o.id] # NoHandler
    <3>1. o.id \in Waiting /\ Waiting' = Waiting \ {o.id}
      <4>1. /\ o.id \in IDs /\ outstanding'[o.id] = NoHandler
            /\ \A i \in IDs \ {o.id} : outstanding'[i] = outstanding[i]
            BY <1>6, <2>2, DeliverFound
      <4> QED
          BY <2>2, <4>1 DEF Waiting
    <3>2. w \notin Releasing /\ Releasing' = Releasing \cup {w}
      <4>1. worker[w].pc = "idle" /\ worker'[w].pc = "release"
            BY <1>6, <2>2, DeliverFound
      <4>2. \A v \in Workers \ {w} : worker'[v] = worker[v]
            BY <1>6, <2>2, DeliverFound
      <4> QED
          BY <4>1, <4>2 DEF Releasing
    <3>3. Cardinality(Waiting') = Cardinality(Waiting) - 1
          BY <3>1, CountOne
    <3>4. Cardinality(Releasing') = Cardinality(Releasing) + 1
          BY <3>2, CountOne
    <3> QED
        BY <1>0, <1>s, <2>1, <3>3, <3>4
  <2>3. CASE outstanding[o.id] = NoHandler
    <3>1. Waiting' = Waiting /\ Releasing' = Releasing
          BY <1>6, <2>3 DEF Deliver, Waiting, Releasing
    <3> QED
        BY <1>0, <1>s, <2>1, <3>1
  <2> QED
      BY <2>2, <2>3
<1>7. ASSUME NEW w \in Workers, ReleaseSlot(w) PROVE SlotsAccounted'
  <2>1. w \in Releasing /\ Releasing' = Releasing \ {w}
        BY <1>7 DEF ReleaseSlot, Releasing, NetType
  <2>2. Senders' = Senders /\ Waiting' = Waiting /\ slots' = slots + 1
        BY <1>7 DEF ReleaseSlot, Senders, Waiting
  <2>3. Cardinality(Releasing') = Cardinality(Releasing) - 1
        BY <2>1, CountOne
  <2> QED
      BY <1>0, <1>s, <2>2, <2>3
<1>8. ASSUME NEW w \in Workers, Handle(w) PROVE SlotsAccounted'
  <2>1. Releasing' = Releasing
        BY <1>8 DEF Handle, IdleWorker, Releasing, NetType
  <2>2. Senders' = Senders /\ Waiting' = Waiting /\ slots' = slots
        BY <1>8 DEF Handle, Senders, Waiting
  <2> QED
      BY <1>0, <1>s, <2>1, <2>2
<1>9. CASE UNCHANGED appVars
  <2>1. Senders' = Senders /\ Waiting' = Waiting /\ Releasing' = Releasing /\ slots' = slots
        BY <1>9 DEF appVars, Senders, Waiting, Releasing
  <2> QED
      BY <1>0, <1>s, <2>1
<1> QED
    BY <1>1, <1>2, <1>3, <1>4, <1>5, <1>6, <1>7, <1>8, <1>9
    DEF AppNext, Proceed, GiveUp, Answer, Work
-----------------------------------------------------------------------------
(* The theorems.                                                           *)

\* Nobody has asked yet.
LEMMA InitNet == AppInit => NetInv
<1> SUFFICES ASSUME AppInit PROVE NetInv
    OBVIOUS
<1> USE AppNetworkAssumption
<1>1. NetType
  <2>1. 0 \in IDs
        BY DEF IDs
  <2> QED
      BY <2>1 DEF AppInit, NetType, IdleWorker, Answers
<1>2. HandlerInv
      BY DEF AppInit, HandlerInv, Unknown, Unsent, IdleWorker, Handlers
<1>3. OwedInv
      BY DEF AppInit, OwedInv, AnsweredOnce
<1>4. Senders = {} /\ Waiting = {} /\ Releasing = {}
      BY DEF AppInit, Senders, Waiting, Releasing, IdleWorker
<1>5. SlotsAccounted
  <2>1. MaxActive - slots = Cardinality(Senders) + Cardinality(Waiting) + Cardinality(Releasing)
        BY <1>4, FS_EmptySet DEF AppInit
  <2> QED
      BY <2>1 DEF SlotsAccounted, Senders, Waiting, Releasing
<1>6. CountInv
  <2>1. Unsents = {}
        BY DEF AppInit, Unsents, Unsent
  <2> QED
      BY <2>1, FS_EmptySet DEF AppInit, CountInv
<1> QED
    BY <1>1, <1>2, <1>3, <1>5, <1>6 DEF NetInv

\* NetInv holds of every reachable state.
LEMMA NetInvariant == AppSpec => []NetInv
<1>1. NetInv /\ [AppNext]_appVars => NetInv'
      BY StepNetType, StepHandler, StepOwed, StepCount, StepSlots DEF NetInv
<1> QED
    BY InitNet, <1>1, PTL DEF AppSpec

\* Handlers, IDs and answers are always in range, and the semaphore is never
\* released more often than it was acquired, which would panic.
THEOREM TypeCorrect == AppSpec => []AppTypeOK
<1>1. NetInv => AppTypeOK
  <2> SUFFICES ASSUME NetInv PROVE AppTypeOK
      OBVIOUS
  <2>1. MaxActive - slots = Cardinality(Senders) + Cardinality(Waiting) + Cardinality(Releasing)
        BY DEF NetInv, SlotsAccounted, Senders, Waiting, Releasing
  <2>2. slots \in 0 .. MaxActive
        BY <2>1, HoldersFinite, AppNetworkAssumption DEF NetInv, NetType
  <2> QED
      BY <2>2 DEF NetInv, NetType, AppTypeOK
<1> QED
    BY NetInvariant, <1>1, PTL

\* No slot leaks and none is returned twice, whatever errors, cancelled contexts
\* and late answers the callers of SendAppRequest meet, for any number of requests
\* that the IDs suffice for.
THEOREM SlotsAlwaysAccounted == AppSpec => []SlotsAccounted
<1>1. NetInv => SlotsAccounted
      BY DEF NetInv
<1> QED
    BY NetInvariant, <1>1, PTL

\* An answer reaches the handler of its own request, once, and no channel is closed
\* twice, for any number of callers, threads and requests.
THEOREM AnswersAlwaysMatch == AppSpec => []AnswersMatch
<1>1. NetInv => AnswersMatch
      BY DEF NetInv, OwedInv, AnswersMatch
<1> QED
    BY NetInvariant, <1>1, PTL
=============================================================================
