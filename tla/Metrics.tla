------------------------------ MODULE Metrics -------------------------------
(***************************************************************************)
(* The metrics package: prefixed registries, samples, timers and gauges, and*)
(* the registry with its meters and their ticking goroutine.               *)
(***************************************************************************)
EXTENDS Integers, SequencesExt, Functions, FiniteSets, FiniteSetsExt

-----------------------------------------------------------------------------
(***************************************************************************)
(* Registries with a prefix, over a registry or over one another           *)
(* (utils/evm/metrics/registry.go). A view is the sequence of the prefixes *)
(* from the one next to the base to the one that is called, and the empty  *)
(* sequence is the base itself, such as the DefaultRegistry behind the     *)
(* package's own functions. A name is a sequence of numbers, and the base  *)
(* a function from names to metrics. What happens when calls run at the    *)
(* same time is in Metrics.                                                *)
(***************************************************************************)

CONSTANT None

\* The name that a call arrives with at the base: each registry on the way puts
\* its prefix in front.
RealName(view, name) == FoldRight(LAMBDA prefix, n : prefix \o n, view, name)

\* findPrefix walks to the base and collects the prefixes.
FindPrefix(view) == FoldRight(LAMBDA prefix, found : prefix \o found, view, <<>>)

-----------------------------------------------------------------------------
(* The calls through a view.                                               *)

Get(base, view, name) ==
    LET n == RealName(view, name) IN IF n \in DOMAIN base THEN base[n] ELSE None

\* ViewRegister, MustRegister: the base afterwards, unchanged for a duplicate.
ViewRegister(base, view, name, metric) ==
    LET n == RealName(view, name)
    IN  IF n \in DOMAIN base THEN base
        ELSE [x \in DOMAIN base \cup {n} |-> IF x = n THEN metric ELSE base[x]]

\* MustRegister panics where ViewRegister returns a DuplicateMetric.
Duplicate(base, view, name) == RealName(view, name) \in DOMAIN base

\* ViewGetOrRegister: the metric that is there afterwards.
ViewGetOrRegister(base, view, name, metric) ==
    Get(ViewRegister(base, view, name, metric), view, name)

ViewUnregister(base, view, name) == Restrict(base, DOMAIN base \ {RealName(view, name)})

\* The names that Each calls its function for: the full ones.
Each(base, view) == {n \in DOMAIN base : IsPrefix(FindPrefix(view), n)}

\* The order of sort.Strings.
NameLess(a, b) ==
    \/ IsStrictPrefix(a, b)
    \/ \E i \in DOMAIN a \cap DOMAIN b :
          a[i] < b[i] /\ \A j \in 1 .. i - 1 : a[j] = b[j]

\* orderedRegistry.Each: the names in the order they are visited in.
EachOrdered(base) == SetToSortSeq(DOMAIN base, NameLess)

\* Unlike Each, GetAll does not look at the prefix.
GetAll(base, view) == DOMAIN base

-----------------------------------------------------------------------------
\* A metric that is registered through a view is found through every view that
\* spells the same full name and through no other; it is visited by Each of
\* exactly the views that its full name lies in, the one it was registered
\* through among them; what was there before stays as it was; and ViewUnregister
\* takes exactly this metric out again.
RegisteredThroughViews(base, view, other, name, otherName, metric) ==
    LET full == RealName(view, name)
        r == ViewRegister(base, view, name, metric)
    IN  /\ ~Duplicate(base, view, name) =>
             /\ Get(r, other, otherName) =
                   IF RealName(other, otherName) = full THEN metric
                   ELSE Get(base, other, otherName)
             /\ full \in Each(r, view)
             /\ Each(r, other) \ Each(base, other) =
                   IF IsPrefix(RealName(other, <<>>), full) THEN {full} ELSE {}
             /\ ViewUnregister(r, view, name) = base
             /\ ToSet(EachOrdered(r)) = DOMAIN r
             /\ \A i, j \in DOMAIN EachOrdered(r) :
                   i < j <=> NameLess(EachOrdered(r)[i], EachOrdered(r)[j])
        /\ Duplicate(base, view, name) => r = base
        /\ ViewGetOrRegister(base, view, name, metric) =
              IF Duplicate(base, view, name) THEN base[full] ELSE metric
        /\ Each(r, other) \subseteq GetAll(r, other)

-----------------------------------------------------------------------------
(***************************************************************************)
(* The samples, percentiles and moving averages of utils/evm/metrics       *)
(* (sample.go, ewma.go).                                                   *)
(*                                                                         *)
(* The exponentially decaying sample keeps a min-heap of the values seen,  *)
(* each under the priority exp(alpha * (t - t0)) / random. Priorities are  *)
(* kept here as their logarithms, a time in units of 1 / alpha plus the    *)
(* draw, so that they are exact.                                           *)
(***************************************************************************)

CONSTANTS ReservoirSize,
          RescaleThreshold,  \* the hour after which the priorities are rescaled
          MaxTime,           \* bound on the clock
          Draws              \* the logarithms of 1 / rand.Float64()

VARIABLE decay               \* an ExpDecaySample

-----------------------------------------------------------------------------
RECURSIVE Up(_, _)
RECURSIVE Down(_, _, _)

Swapped(h, i, j) == [h EXCEPT ![i] = h[j], ![j] = h[i]]

\* up and down of expDecaySampleHeap, with indices from one.
Up(h, j) ==
    LET i == j \div 2
    IN  IF j = 1 \/ h[j].k >= h[i].k THEN h ELSE Up(Swapped(h, i, j), i)

Down(h, i, n) ==
    LET l == 2 * i
        j == IF l < n /\ h[l].k >= h[l + 1].k THEN l + 1 ELSE l
    IN  IF l > n \/ h[j].k >= h[i].k THEN h ELSE Down(Swapped(h, i, j), j, n)

HeapPush(h, s) == Up(Append(h, s), Len(h) + 1)

\* Pop sends the least to the end and cuts it off.
HeapPop(h) == Front(Down(Swapped(h, 1, Len(h)), 1, Len(h) - 1))

-----------------------------------------------------------------------------
DecayInit == decay = [t |-> 0, t0 |-> 0, t1 |-> RescaleThreshold, count |-> 0, s |-> <<>>]

\* The values are pushed anew, with priorities relative to the new landmark.
Rescale(d) ==
    [d EXCEPT !.t0 = d.t, !.t1 = d.t + RescaleThreshold,
              !.s = FoldLeft(LAMBDA h, x : HeapPush(h, [x EXCEPT !.k = @ - (d.t - d.t0)]),
                             <<>>, d.s)]

\* update: room is made first, the value pushed, and the priorities rescaled
\* once the landmark is more than the threshold old.
SampleUpdate(draw) ==
    LET room == IF Len(decay.s) = ReservoirSize THEN HeapPop(decay.s) ELSE decay.s
        d    == [decay EXCEPT !.count = @ + 1,
                     !.s = HeapPush(room, [k |-> decay.t - decay.t0 + draw,
                                           at |-> decay.t, draw |-> draw])]
    IN  decay' = IF d.t > d.t1 THEN Rescale(d) ELSE d

Clear == decay' = [decay EXCEPT !.t0 = decay.t, !.t1 = decay.t + RescaleThreshold,
                                !.count = 0, !.s = <<>>]

ClockAdvances == decay.t < MaxTime /\ decay' = [decay EXCEPT !.t = @ + 1]

DecayNext ==
    \/ decay.count < ReservoirSize + 2 /\ \E draw \in Draws : SampleUpdate(draw)
    \/ Clear
    \/ ClockAdvances

\* The priorities in one reservoir are all relative to the same landmark, the
\* current one, and so comparable, however often they were rescaled while
\* values came and went (ExpDecaySample.update).
PrioritiesComparable ==
    \A i \in DOMAIN decay.s : decay.s[i].k = decay.s[i].at - decay.t0 + decay.s[i].draw

\* The value the next update discards is one of the least priority, and the
\* reservoir is full as soon as enough values were seen (expDecaySampleHeap).
LeastDiscarded ==
    /\ Len(decay.s) = Min({decay.count, ReservoirSize})
    /\ \A i \in DOMAIN decay.s : decay.s[1].k <= decay.s[i].k

-----------------------------------------------------------------------------
\* UniformSample.Update of the count-th value, when Int63n(count) draws r.
KeptAt(reservoir, v, r, count) ==
    IF Len(reservoir) < ReservoirSize THEN Append(reservoir, v)
    ELSE LET i == r + 1
         IN  IF i <= Len(reservoir) THEN [reservoir EXCEPT ![i] = v] ELSE reservoir

UniformSample(draws) ==
    FoldLeft(LAMBDA res, i : KeptAt(res, i, draws[i], i), <<>>, [i \in DOMAIN draws |-> i])

\* Each of n values is kept by as many of the equally likely draws as any other
\* (UniformSample, "A uniform sample using Vitter's Algorithm R").
KeptUniformly(n) ==
    LET draws  == {d \in [1 .. n -> 0 .. n - 1] : \A i \in 1 .. n : d[i] < i}
        Kept(v) == Cardinality({d \in draws : v \in ToSet(UniformSample(d))})
    IN  \A v, w \in 1 .. n : Kept(v) = Kept(w)

-----------------------------------------------------------------------------
\* CalculatePercentiles of sorted values at num / den, as a multiple of
\* 1 / den; an empty sample scores zero.
Score(values, num, den) ==
    LET size == Len(values)
        pos  == num * (size + 1)
        i    == pos \div den
    IN  IF size = 0 THEN 0
        ELSE IF pos < den THEN values[1] * den
        ELSE IF pos >= size * den THEN values[size] * den
        ELSE values[i] * den + (pos % den) * (values[i + 1] - values[i])

\* newSampleSnapshot: the extremes, the sum and the mean as a fraction.
SampleSnapshot(values) ==
    LET n == Len(values)
    IN  IF n = 0 THEN [min |-> 0, max |-> 0, sum |-> 0, size |-> 0]
        ELSE [min |-> Min(ToSet(values)), max |-> Max(ToSet(values)),
              sum |-> FoldLeft(LAMBDA x, y : x + y, 0, values), size |-> n]

\* SampleVariance, as a multiple of 1 / size^3.
Variance(values) ==
    LET s == SampleSnapshot(values)
    IN  FoldLeft(LAMBDA x, v : x + (v * s.size - s.sum) * (v * s.size - s.sum), 0, values)

\* Percentiles never fall when asked for higher ones, stay within the extremes
\* of the snapshot, and mirror those of the mirrored values; the variance is
\* zero for equal values only (CalculatePercentiles, SampleVariance).
PercentilesOrdered(seq, den) ==
    LET values == SortSeq(seq, <)
        s      == SampleSnapshot(values)
        mirror == [i \in DOMAIN values |-> s.max + s.min - values[Len(values) + 1 - i]]
    IN  /\ \A p \in 0 .. den : s.min * den <= Score(values, p, den)
                            /\ Score(values, p, den) <= s.max * den
        /\ \A p \in 0 .. den - 1 : Score(values, p, den) <= Score(values, p + 1, den)
        /\ \A p \in 0 .. den : Score(mirror, den - p, den) =
                                 (s.max + s.min) * den - Score(values, p, den)
        /\ (Variance(values) = 0) <=> (s.min = s.max)

-----------------------------------------------------------------------------
\* Tick of a StandardEWMA with alpha one half: the first tick sets the rate,
\* each later one moves it by alpha towards the rate of the tick.
EwmaTick(a, count) ==
    [a EXCEPT !.init = TRUE,
              !.rate = IF a.init THEN a.rate + (count * a.scale - a.rate) \div 2
                       ELSE count * a.scale]

EwmaOf(counts) ==
    FoldLeft(EwmaTick, [rate |-> 0, scale |-> 2 ^ Len(counts), init |-> FALSE], counts)

\* The rate is an average of what the ticks counted: their weights add up to
\* one, and each is half that of the next (StandardEWMA.Tick).
RateIsAverage(counts) ==
    LET n    == Len(counts)
        w(i) == IF i = 1 THEN 2 ELSE 2 ^ (i - 1)
    IN  EwmaOf(counts).rate = MapThenSumSet(LAMBDA i : w(i) * counts[i], 1 .. n)

-----------------------------------------------------------------------------
(***************************************************************************)
(* Timers and gauges that several goroutines use at once                   *)
(* (utils/evm/metrics/timer.go, gauge.go). A timer is a histogram and a    *)
(* meter behind one mutex. The arbiter ticks the meter without that mutex, *)
(* and the meter's count is two atomics (see Metrics). A gauge is one      *)
(* atomic, that UpdateIfGt raises with a compare-and-swap loop.            *)
(***************************************************************************)

CONSTANTS
    Users,
    MaxEvents,     \* bound on the updates of the timer
    GaugeValues

VARIABLE timer

IdleUser == [pc |-> "idle", v |-> None, hist |-> 0, meter |-> 0]

TimersInit ==
    timer = [hist |-> 0, count |-> 0, uncounted |-> 0, tick |-> None, mutex |-> None,
             gauge |-> 0, reached |-> 0, user |-> [u \in Users |-> IdleUser]]

Is(u, pc) == timer.user[u].pc = pc
Free == timer.mutex = None
With(t, u, pc) == [t EXCEPT !.user[u].pc = pc]

-----------------------------------------------------------------------------
\* Update, UpdateSince and Time: the histogram first, then the meter.
Update(u) ==
    /\ Is(u, "idle") /\ Free /\ timer.hist < MaxEvents
    /\ timer' = With([timer EXCEPT !.mutex = u, !.hist = @ + 1], u, "mark")

UpdateMark(u) ==
    /\ Is(u, "mark")
    /\ timer' = [timer EXCEPT !.mutex = None, !.uncounted = @ + 1, !.user[u] = IdleUser]

\* Snapshot: of the histogram ...
Snapshot(u) ==
    /\ Is(u, "idle") /\ Free
    /\ timer' = With([timer EXCEPT !.mutex = u, !.user[u].hist = timer.hist], u, "meter")

\* ... and of the meter's two halves.
SnapshotMeter(u) ==
    /\ Is(u, "meter")
    /\ timer' = With([timer EXCEPT !.user[u].meter = timer.count], u, "rest")

SnapshotRest(u) ==
    /\ Is(u, "rest")
    /\ timer' = With([timer EXCEPT !.user[u].meter = @ + timer.uncounted,
                                   !.mutex = IF timer.mutex = u THEN None ELSE @], u, "read")

\* The tick of the meter: the events are taken, and counted.
Tick ==
    /\ timer.tick = None /\ timer.uncounted > 0
    /\ timer' = [timer EXCEPT !.tick = timer.uncounted, !.uncounted = 0]

TickCounted ==
    /\ timer.tick # None
    /\ timer' = [timer EXCEPT !.count = @ + timer.tick, !.tick = None]

-----------------------------------------------------------------------------
\* UpdateIfGt loads the value and gives up if it is large enough ...
UpdateIfGt(u, v) ==
    /\ Is(u, "idle")
    /\ timer' = IF timer.gauge >= v
                THEN [timer EXCEPT !.reached = IF v > @ THEN v ELSE @]
                ELSE [timer EXCEPT !.user[u] =
                          [IdleUser EXCEPT !.pc = "swap", !.v = v, !.hist = timer.gauge]]

\* ... and otherwise swaps it for v, or begins again if it has changed.
CompareAndSwap(u) ==
    /\ Is(u, "swap")
    /\ LET v == timer.user[u].v
       IN  timer' = IF timer.gauge = timer.user[u].hist
                    THEN [timer EXCEPT !.gauge = v, !.reached = IF v > @ THEN v ELSE @,
                                       !.user[u] = IdleUser]
                    ELSE IF timer.gauge >= v
                    THEN [timer EXCEPT !.reached = IF v > @ THEN v ELSE @,
                                       !.user[u] = IdleUser]
                    ELSE [timer EXCEPT !.user[u].hist = timer.gauge]

Done(u) ==
    /\ Is(u, "read")
    /\ timer' = [timer EXCEPT !.user[u] = IdleUser]

TimersNext ==
    \/ \E u \in Users :
        \/ Update(u) \/ UpdateMark(u)
        \/ Snapshot(u) \/ SnapshotMeter(u) \/ SnapshotRest(u) \/ Done(u)
        \/ CompareAndSwap(u) \/ \E v \in GaugeValues : UpdateIfGt(u, v)
    \/ Tick \/ TickCounted

-----------------------------------------------------------------------------
\* A snapshot of a timer never shows more events in its rate than in its
\* histogram, although events and the meter's ticks go on around it
\* (StandardTimer.Snapshot and Update hold the mutex).
TimerSnapshotAgrees ==
    \A u \in Users : Is(u, "read") => timer.user[u].meter <= timer.user[u].hist

\* A gauge that is raised with UpdateIfGt is at least every value that such a
\* call has returned for, and is one of the values given.
GaugeReached ==
    /\ timer.gauge >= timer.reached
    /\ timer.gauge \in GaugeValues \cup {0}

-----------------------------------------------------------------------------
(***************************************************************************)
(* The metrics registry and the meters of utils/evm/metrics: callers that  *)
(* look up, create, register, mark, read and unregister metrics at the     *)
(* same time, and the one arbiter goroutine that ticks every started meter *)
(* (meter.go, registry.go, counter.go, gauge.go, timer.go, histogram.go).  *)
(*                                                                         *)
(* A metric is an index into the sequence of all metrics created so far.   *)
(* A "meter" stands for meters and timers (whose rate is a meter), a       *)
(* "counter" for counters and histograms, a "gauge" for gauges and health  *)
(* checks, and "nil" for the stub that every constructor returns while     *)
(* metrics are disabled.                                                   *)
(***************************************************************************)

CONSTANTS Callers, Names, MetricKinds,
          MaxMetrics,      \* bound on the metrics created
          MaxMarks         \* bound on the events of one metric

VARIABLES enabled,         \* metrics.Enabled
          registry,        \* the name each metric is registered under
          metric,          \* the metrics created
          meters,          \* arbiter.meters
          ticking,         \* what the arbiter's goroutine is doing
          caller,          \* what each caller is doing
          removed          \* history: metrics taken out of the registry

metricsVars == <<enabled, registry, metric, meters, ticking, caller, removed>>

\* The arbiter holds its read lock from the start to the end of a round.
Locked == ticking.todo # {} \/ ticking.meter # None

Idle == [pc |-> "idle", name |-> None, kind |-> None, m |-> None, count |-> 0]

MetricsInit ==
    /\ enabled \in BOOLEAN
    /\ registry = [n \in Names |-> None]
    /\ metric = <<>>
    /\ meters = {}
    /\ ticking = [todo |-> {}, meter |-> None, n |-> 0, taken |-> FALSE]
    /\ caller = [c \in Callers |-> Idle]
    /\ removed = {}

\* Stoppable: the metrics with a Stop method; the stub of a meter has one too.
Stoppable(m) == metric[m].kind \in {"meter", "nil"}

\* loadOrRegister stores the kinds of its type switch only: a gauge falls
\* through to the default.
Registrable(m) == metric[m].kind # "gauge"

Set(c, r) == caller' = [caller EXCEPT ![c] = r]

-----------------------------------------------------------------------------
\* The constructors: NewMeter adds the meter to the arbiter under its lock.
Create(c, next) ==
    LET k == IF enabled THEN caller[c].kind ELSE "nil"
        m == Len(metric) + 1
    IN  /\ Len(metric) < MaxMetrics
        /\ k = "meter" => ~Locked
        /\ metric' = Append(metric, [kind |-> k, count |-> 0, uncounted |-> 0,
                                     rated |-> 0, marks |-> 0, stopped |-> FALSE])
        /\ meters' = IF k = "meter" THEN meters \cup {m} ELSE meters
        /\ Set(c, [caller[c] EXCEPT !.pc = next, !.m = m])
        /\ UNCHANGED <<enabled, registry, ticking, removed>>

\* GetOrRegister: the fast path returns what is registered.
GetOrRegister(c, n, k) ==
    /\ caller[c].pc = "idle"
    /\ IF registry[n] # None
       THEN Set(c, [Idle EXCEPT !.pc = "got", !.name = n, !.m = registry[n]])
       ELSE Set(c, [Idle EXCEPT !.pc = "create", !.name = n, !.kind = k])
    /\ UNCHANGED <<enabled, registry, metric, meters, ticking, removed>>

GetOrRegisterCreate(c) == caller[c].pc = "create" /\ Create(c, "store")

\* sync.Map's LoadOrStore: the metric already there, or else this one.
LoadOrStore(n, m) ==
    IF registry[n] # None
    THEN [reg |-> registry, item |-> registry[n]]
    ELSE [reg |-> [registry EXCEPT ![n] = m], item |-> m]

\* loadOrRegister of GetOrRegister; a metric it does not know is returned
\* unregistered.
GetOrRegisterStore(c) ==
    /\ caller[c].pc = "store"
    /\ LET r == LoadOrStore(caller[c].name, caller[c].m)
       IN  IF Registrable(caller[c].m)
           THEN registry' = r.reg /\ Set(c, [caller[c] EXCEPT !.pc = "got", !.m = r.item])
           ELSE UNCHANGED registry /\ Set(c, [caller[c] EXCEPT !.pc = "private"])
    /\ UNCHANGED <<enabled, metric, meters, ticking, removed>>

\* NewRegisteredCounter and its like create the metric, register it, drop the
\* error of a duplicate and return the metric they created.
NewRegistered(c, n, k) ==
    /\ caller[c].pc = "idle"
    /\ Set(c, [Idle EXCEPT !.pc = "new", !.name = n, !.kind = k])
    /\ UNCHANGED <<enabled, registry, metric, meters, ticking, removed>>

NewRegisteredCreate(c) == caller[c].pc = "new" /\ Create(c, "register")

Register(c) ==
    /\ caller[c].pc = "register"
    /\ LET r == LoadOrStore(caller[c].name, caller[c].m)
       IN  IF Registrable(caller[c].m) /\ r.item = caller[c].m
           THEN registry' = r.reg /\ Set(c, [caller[c] EXCEPT !.pc = "got"])
           ELSE UNCHANGED registry /\ Set(c, [caller[c] EXCEPT !.pc = "private"])
    /\ UNCHANGED <<enabled, metric, meters, ticking, removed>>

-----------------------------------------------------------------------------
\* Unregister: stop loads the metric ...
Unregister(c, n) ==
    /\ caller[c].pc = "idle"
    /\ LET m == registry[n]
           next == IF m # None /\ Stoppable(m) THEN "stop" ELSE "delete"
       IN  Set(c, [Idle EXCEPT !.pc = next, !.name = n, !.m = m])
    /\ UNCHANGED <<enabled, registry, metric, meters, ticking, removed>>

\* ... Stop swaps the flag, the first to do so goes on to the arbiter ...
Stop(c) ==
    /\ caller[c].pc = "stop"
    /\ LET m == caller[c].m
       IN  /\ metric' = [metric EXCEPT ![m].stopped = TRUE]
           /\ Set(c, [caller[c] EXCEPT !.pc =
                  IF metric[m].stopped \/ metric[m].kind = "nil"
                  THEN "delete" ELSE "forget"])
    /\ UNCHANGED <<enabled, registry, meters, ticking, removed>>

\* ... which forgets the meter, under its lock ...
StopMeter(c) ==
    /\ caller[c].pc = "forget"
    /\ ~Locked
    /\ meters' = meters \ {caller[c].m}
    /\ Set(c, [caller[c] EXCEPT !.pc = "delete"])
    /\ UNCHANGED <<enabled, registry, metric, ticking, removed>>

\* ... and whatever is registered under the name by then is deleted.
LoadAndDelete(c) ==
    /\ caller[c].pc = "delete"
    /\ LET n == caller[c].name
       IN  /\ registry' = [registry EXCEPT ![n] = None]
           /\ removed' = removed \cup ({registry[n]} \ {None})
    /\ Set(c, Idle)
    /\ UNCHANGED <<enabled, metric, meters, ticking>>

-----------------------------------------------------------------------------
Holds(c) == caller[c].pc \in {"got", "private"}

\* Mark of a meter, Inc of a counter or a gauge; a stub ignores it.
Mark(c) ==
    /\ Holds(c)
    /\ LET m == caller[c].m
       IN  /\ metric[m].marks < MaxMarks
           /\ metric' = IF metric[m].kind = "nil" THEN metric ELSE
                  IF metric[m].kind = "meter"
                  THEN [metric EXCEPT ![m].uncounted = @ + 1, ![m].marks = @ + 1]
                  ELSE [metric EXCEPT ![m].count = @ + 1, ![m].marks = @ + 1]
    /\ UNCHANGED <<enabled, registry, meters, ticking, caller, removed>>

\* The two atomics a meter's count is the sum of, in the order they are read.
Half(i, m) == IF i = 1 THEN metric[m].count ELSE metric[m].uncounted

\* Snapshot of a meter reads the count ...
SnapshotCount(c) ==
    /\ Holds(c)
    /\ Set(c, [caller[c] EXCEPT !.pc = "snapshot", !.count = Half(1, caller[c].m)])
    /\ UNCHANGED <<enabled, registry, metric, meters, ticking, removed>>

\* ... and then the events not counted yet.
SnapshotUncounted(c) ==
    /\ caller[c].pc = "snapshot"
    /\ Set(c, [caller[c] EXCEPT !.pc = "read", !.count = @ + Half(2, caller[c].m)])
    /\ UNCHANGED <<enabled, registry, metric, meters, ticking, removed>>

\* The caller is done with what it holds.
Release(c) ==
    /\ Holds(c) \/ caller[c].pc = "read"
    /\ Set(c, Idle)
    /\ UNCHANGED <<enabled, registry, metric, meters, ticking, removed>>

-----------------------------------------------------------------------------
\* tickMeters: the read lock is taken and every started meter is ticked.
TickMeters ==
    /\ ~Locked
    /\ meters # {}
    /\ ticking' = [ticking EXCEPT !.todo = meters]
    /\ UNCHANGED <<enabled, registry, metric, meters, caller, removed>>

\* A mutant: the events are read, not swapped for zero.
TakeUncountedLate(m) ==
    /\ ticking.meter = None
    /\ m \in ticking.todo
    /\ ticking' = [ticking EXCEPT !.todo = @ \ {m}, !.meter = m,
                                  !.n = metric[m].uncounted, !.taken = TRUE]
    /\ UNCHANGED <<enabled, registry, metric, meters, caller, removed>>

\* tick swaps the uncounted events for zero ...
TakeUncounted(m) ==
    /\ ticking.meter = None
    /\ m \in ticking.todo
    /\ ticking' = [todo |-> ticking.todo \ {m}, meter |-> m,
                   n |-> metric[m].uncounted, taken |-> TRUE]
    /\ metric' = [metric EXCEPT ![m].uncounted = 0]
    /\ UNCHANGED <<enabled, registry, meters, caller, removed>>

\* ... adds them to the count ...
AddCounted ==
    /\ ticking.taken
    /\ metric' = [metric EXCEPT ![ticking.meter].count = @ + ticking.n]
    /\ ticking' = [ticking EXCEPT !.taken = FALSE]
    /\ UNCHANGED <<enabled, registry, meters, caller, removed>>

\* ... and passes them to the moving averages, which fold them into the rate
\* at once: only the arbiter's goroutine ticks them.
UpdateRates ==
    /\ ticking.meter # None
    /\ ~ticking.taken
    /\ metric' = [metric EXCEPT ![ticking.meter].rated = @ + ticking.n]
    /\ ticking' = [ticking EXCEPT !.meter = None, !.n = 0]
    /\ UNCHANGED <<enabled, registry, meters, caller, removed>>

MetricsNext ==
    \/ \E c \in Callers :
        \/ \E n \in Names : Unregister(c, n)
        \/ \E n \in Names, k \in MetricKinds : GetOrRegister(c, n, k) \/ NewRegistered(c, n, k)
        \/ GetOrRegisterCreate(c) \/ GetOrRegisterStore(c)
        \/ NewRegisteredCreate(c) \/ Register(c)
        \/ Stop(c) \/ StopMeter(c) \/ LoadAndDelete(c)
        \/ Mark(c) \/ SnapshotCount(c) \/ SnapshotUncounted(c) \/ Release(c)
    \/ TickMeters \/ AddCounted \/ UpdateRates
    \/ \E m \in 1..Len(metric) : TakeUncounted(m)

MetricsSpec == MetricsInit /\ [][MetricsNext]_metricsVars

-----------------------------------------------------------------------------
InTick(m) == IF ticking.meter = m THEN ticking.n ELSE 0

\* Every event marked on a meter that is not stopped is counted exactly once, in
\* the count and in the rates alike, whatever marks and snapshots run beside the
\* tick that moves it (StandardMeter.Mark and tick). Nothing is said of a stopped
\* meter: Mark does not look at the flag.
MarksKept ==
    \A m \in 1..Len(metric) : metric[m].kind = "meter" /\ ~metric[m].stopped =>
        /\ metric[m].count + metric[m].uncounted
             + (IF ticking.taken THEN InTick(m) ELSE 0) = metric[m].marks
        /\ metric[m].rated + metric[m].uncounted + InTick(m) = metric[m].marks

\* A snapshot never shows more events than were marked, although it reads the
\* two halves of the count one after the other (StandardMeter.Snapshot).
SnapshotNeverAhead ==
    \A c \in Callers : caller[c].pc = "read" => caller[c].count <= metric[caller[c].m].marks

\* What GetOrRegister or a successful Register hands out of a kind that the
\* registry stores is the metric of that name for everyone: it is registered
\* still, or an Unregister took it out since (GetOrRegister's "Threadsafe
\* alternative to calling Get and Register"). A gauge is none of these kinds.
SharedByName ==
    \A c \in Callers : caller[c].pc = "got" =>
        registry[caller[c].name] = caller[c].m \/ caller[c].m \in removed

\* A registered meter is ticked, unless an Unregister that has stopped it is
\* about to delete its name (NewMeter, StandardMeter.Stop, Unregister).
RegisteredIsTicked ==
    \A n \in Names : LET m == registry[n] IN
        (m # None /\ metric[m].kind = "meter") =>
            \/ m \in meters
            \/ \E c \in Callers : /\ caller[c].pc \in {"forget", "delete"}
                                  /\ caller[c].m = m
                                  /\ caller[c].name = n
=============================================================================
