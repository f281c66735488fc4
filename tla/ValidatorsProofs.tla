-------------------------- MODULE ValidatorsProofs --------------------------
(* Proofs about module Validators, for any number of validation IDs and     *)
(* nodes, any start times and any clock.                                    *)
EXTENDS Validators, TLAPS

USE ValidatorsAssumption, NoVdrAssumption

\* The numbers of an entry may only grow, the uptime by no more than the time
\* of the last update.
Grown(d, e) ==
    d.up <= e.up /\ d.last <= e.last /\ e.up - d.up <= e.last - d.last

\* What a step other than WriteState and RestartManager does to an entry: it leaves
\* the entry alone, or changes, deletes or adds it and marks it accordingly.
Untouched(v) ==
    data'[v] = data[v] /\ updatedData'[v] \in {updatedData[v], "updated"}
Changed(v) ==
    /\ data[v] \in Data /\ data'[v] \in Data /\ Grown(data[v], data'[v])
    /\ updatedData'[v] = "updated"
Deleted(v) == data'[v] = NoVdr /\ updatedData'[v] = "deleted"
Added(v) ==
    /\ data[v] = NoVdr /\ data'[v] \in Data
    /\ data'[v].up <= data'[v].last - StartTime[v]
    /\ updatedData'[v] = "updated"
TableStep ==
    /\ \A v \in ValidationIDs : Untouched(v) \/ Changed(v) \/ Deleted(v) \/ Added(v)
    /\ data' = [v \in ValidationIDs |-> data'[v]]
    /\ updatedData' = [v \in ValidationIDs |-> updatedData'[v]]

-----------------------------------------------------------------------------
\* CalculateUptime returns an entry with the same status; neither the uptime
\* nor the time of the last update decreases, and the uptime does not grow by
\* more than the time since the last update.
LEMMA CalculateUptimeFacts ==
    ASSUME VdrsTypeOK, NEW d \in Data, NEW n \in Nodes
    PROVE  /\ CalculateUptime(d, n) \in Data
           /\ CalculateUptime(d, n).active = d.active
           /\ Grown(d, CalculateUptime(d, n))
<1> USE DEF Grown
<1> DEFINE c == connections[n]
<1>1. now \in Int /\ (c = NoVdr \/ c \in Int)
      BY DEF VdrsTypeOK
<1>2. d.up \in Nat /\ d.last \in Int /\ d.active \in BOOLEAN
      BY DEF Data
<1>3. CASE now < d.last
      BY <1>1, <1>2, <1>3 DEF CalculateUptime
<1>4. CASE ~(now < d.last) /\ ~tracking
      <2> DEFINE u == d.up + (now - d.last)
      <2>1. CalculateUptime(d, n) = [d EXCEPT !.up = u, !.last = now]
            BY <1>4 DEF CalculateUptime
      <2>2. u \in Nat /\ d.up <= u /\ d.last <= now /\ u - d.up <= now - d.last
            BY <1>1, <1>2, <1>4
      <2> HIDE DEF u
      <2>3. /\ CalculateUptime(d, n) \in Data
            /\ CalculateUptime(d, n).up = u
            /\ CalculateUptime(d, n).last = now
            /\ CalculateUptime(d, n).active = d.active
            BY <2>1, <2>2, <1>1 DEF Data
      <2> QED BY <2>2, <2>3
<1>5. CASE ~(now < d.last) /\ tracking /\ c = NoVdr
      <2>1. CalculateUptime(d, n) = [d EXCEPT !.last = now]
            BY <1>5 DEF CalculateUptime
      <2> QED BY <2>1, <1>1, <1>2, <1>5 DEF Data
<1>6. CASE ~(now < d.last) /\ tracking /\ c # NoVdr
      <2> DEFINE u == d.up + Later(now - Later(c, d.last), 0)
      <2>1. CalculateUptime(d, n) = [d EXCEPT !.up = u, !.last = now]
            BY <1>6 DEF CalculateUptime
      <2>2. u \in Nat /\ d.up <= u /\ d.last <= now /\ u - d.up <= now - d.last
            BY <1>1, <1>2, <1>6 DEF Later
      <2> HIDE DEF u
      <2>3. /\ CalculateUptime(d, n) \in Data
            /\ CalculateUptime(d, n).up = u
            /\ CalculateUptime(d, n).last = now
            /\ CalculateUptime(d, n).active = d.active
            BY <2>1, <2>2, <1>1 DEF Data
      <2> QED BY <2>2, <2>3
<1>7. tracking \in BOOLEAN
      BY DEF VdrsTypeOK
<1> QED BY <1>3, <1>4, <1>5, <1>6, <1>7

\* The same of the entry that a pause leaves behind.
LEMMA PausedEntryFacts ==
    ASSUME VdrsTypeOK, NEW d \in Data, NEW n \in Nodes
    PROVE  /\ PausedEntry(d, n) \in Data
           /\ PausedEntry(d, n).active = d.active
           /\ Grown(d, PausedEntry(d, n))
<1>1. PausedEntry(d, n) = d \/ PausedEntry(d, n) = CalculateUptime(d, n)
      BY DEF PausedEntry, Disconnected
<1>2. d.up \in Nat /\ d.last \in Int
      BY DEF Data
<1> QED BY <1>1, <1>2, CalculateUptimeFacts DEF Grown

-----------------------------------------------------------------------------
\* updateUptime changes and marks the entries of its nodes.
LEMMA UpdateUptimesStep ==
    ASSUME VdrsTypeOK, NEW N, UpdateUptimes(N)
    PROVE  /\ TableStep
           /\ Known(data') = Known(data)
           /\ \A v \in Known(data) : data'[v].active = data[v].active
<1>1. \A v \in Known(data) : data[v] \in Data /\ NodeID[v] \in Nodes
      BY DEF VdrsTypeOK, Known
<1>2. \A v \in Indexed(N) : Changed(v) /\ data'[v].active = data[v].active
      BY <1>1, CalculateUptimeFacts DEF UpdateUptimes, Indexed, Known, Changed
<1>3. \A v \in ValidationIDs \ Indexed(N) : Untouched(v)
      BY DEF UpdateUptimes, Untouched
<1> QED BY <1>1, <1>2, <1>3 DEF UpdateUptimes, TableStep, Known, Changed, Untouched, Indexed

\* A change of status leaves an entry with that status whose numbers have grown.
LEMMA StatusUpdatedStep ==
    ASSUME VdrsTypeOK, NEW v \in ValidationIDs, NEW d \in Data, StatusUpdated(v, d)
    PROVE  /\ data' = [data EXCEPT ![v] = data'[v]]
           /\ data'[v] \in Data
           /\ data'[v].active = d.active
           /\ Grown(d, data'[v])
<1>1. Grown(d, d)
      BY DEF Grown, Data
<1>2. d.active \in BOOLEAN /\ NodeID[v] \in Nodes
      BY DEF Data
<1>3. data' = [data EXCEPT ![v] = d] \/ data' = [data EXCEPT ![v] = PausedEntry(d, NodeID[v])]
      BY <1>2 DEF StatusUpdated
<1> QED BY <1>1, <1>2, <1>3, PausedEntryFacts DEF VdrsTypeOK

\* A new status for an entry of the table changes and marks it.
LEMMA NewStatusStep ==
    ASSUME VdrsTypeOK, NEW v \in Known(data), NEW a \in BOOLEAN,
           StatusUpdated(v, [data[v] EXCEPT !.active = a]),
           updatedData' = [updatedData EXCEPT ![v] = "updated"]
    PROVE  /\ TableStep
           /\ data'[v].active = a
<1> DEFINE d == [data[v] EXCEPT !.active = a]
<1>1. v \in ValidationIDs /\ data[v] \in Data
      BY DEF VdrsTypeOK, Known
<1>2. d \in Data /\ d.active = a /\ d.up = data[v].up /\ d.last = data[v].last
      BY <1>1 DEF Data
<1>3. /\ data' = [data EXCEPT ![v] = data'[v]]
      /\ data'[v] \in Data
      /\ data'[v].active = a
      /\ Grown(d, data'[v])
      BY <1>1, <1>2, StatusUpdatedStep
<1>4. Changed(v)
      BY <1>1, <1>2, <1>3 DEF Changed, Grown, VdrsTypeOK
<1>5. \A w \in ValidationIDs \ {v} : Untouched(w)
      BY <1>3 DEF Untouched, VdrsTypeOK
<1> QED BY <1>1, <1>3, <1>4, <1>5 DEF TableStep, VdrsTypeOK

\* Deleting an entry deletes and marks it.
LEMMA DeleteStep ==
    ASSUME VdrsTypeOK, NEW v \in ValidationIDs, DeleteValidator(v)
    PROVE  TableStep
<1>1. Deleted(v)
      BY DEF DeleteValidator, OnValidatorRemoved, Deleted, VdrsTypeOK
<1>2. \A w \in ValidationIDs \ {v} : Untouched(w)
      BY DEF DeleteValidator, OnValidatorRemoved, Untouched, VdrsTypeOK
<1> QED BY <1>1, <1>2 DEF TableStep, VdrsTypeOK, DeleteValidator, OnValidatorRemoved

\* Updating an entry leaves it alone or changes it; it has the new status.
LEMMA UpdateStep ==
    ASSUME VdrsTypeOK, NEW v \in ValidationIDs, NEW a \in BOOLEAN, UpdateValidator(v, a)
    PROVE  TableStep /\ data'[v].active = a
<1>1. v \in Known(data)
      BY DEF UpdateValidator, Known
<1>2. CASE data[v].active # a
      <2>1. /\ StatusUpdated(v, [data[v] EXCEPT !.active = a])
            /\ updatedData' = [updatedData EXCEPT ![v] = "updated"]
            BY <1>2, Zenon DEF UpdateValidator
      <2> QED BY <1>1, <2>1, NewStatusStep
<1>3. CASE data[v].active = a
      <2>1. /\ data' = data
            /\ updatedData' \in {updatedData, [updatedData EXCEPT ![v] = "updated"]}
            BY <1>3, Zenon DEF UpdateValidator
      <2>2. \A w \in ValidationIDs : Untouched(w)
            BY <2>1 DEF Untouched, VdrsTypeOK
      <2> QED BY <1>3, <2>1, <2>2 DEF TableStep, VdrsTypeOK
<1> QED BY <1>2, <1>3

\* Adding an entry adds and marks it; it has the status it was added with.
LEMMA AddStep ==
    ASSUME VdrsTypeOK, NEW v \in ValidationIDs, NEW a \in BOOLEAN, AddValidator(v, a)
    PROVE  TableStep /\ data'[v] \in Data /\ data'[v].active = a
<1> DEFINE d == [up |-> 0, last |-> StartTime[v], active |-> a]
<1>1. d \in Data /\ d.active = a /\ d.up = 0 /\ d.last = StartTime[v]
      BY DEF Data
<1>2. data[v] = NoVdr /\ updatedData' = [updatedData EXCEPT ![v] = "updated"]
      BY DEF AddValidator, OnValidatorAdded, MayAdd
<1>3. data' = [data EXCEPT ![v] = d] \/ StatusUpdated(v, d)
      BY Zenon DEF AddValidator, OnValidatorAdded
<1>4. Grown(d, d)
      BY <1>1 DEF Grown
<1> HIDE DEF d
<1>5. /\ data' = [data EXCEPT ![v] = data'[v]]
      /\ data'[v] \in Data
      /\ data'[v].active = a
      /\ Grown(d, data'[v])
      BY <1>1, <1>3, <1>4, StatusUpdatedStep DEF VdrsTypeOK
<1>6. data'[v].up <= data'[v].last - StartTime[v]
      <2>1. data'[v].up \in Nat /\ data'[v].last \in Int /\ StartTime[v] \in Int
            BY <1>5 DEF Data
      <2> QED BY <2>1, <1>1, <1>5 DEF Grown
<1>7. Added(v)
      BY <1>2, <1>5, <1>6 DEF Added, VdrsTypeOK
<1>8. \A w \in ValidationIDs \ {v} : Untouched(w)
      BY <1>2, <1>5 DEF Untouched, VdrsTypeOK
<1> QED BY <1>2, <1>5, <1>7, <1>8 DEF TableStep, VdrsTypeOK

\* A sync has an answer about each validator that it has still to load.
LEMMA AnswerIsStatus ==
    ASSUME VdrsTypeOK, NEW v \in ValidationIDs, MayLoad(v)
    PROVE  sync.set[v] \in BOOLEAN
<1>1. sync.set \in Answers /\ sync.set[v] # NoVdr
      BY DEF VdrsTypeOK, MayLoad, CurrentSets
<1> QED BY <1>1 DEF Answers

\* The steps that neither write nor load the table.
TableNext ==
    \/ BeginSync \/ Tick
    \/ \E v \in ValidationIDs : SyncDeletes(v) \/ SyncUpdates(v) \/ SyncAdds(v)
    \/ \E v \in ValidationIDs, a \in BOOLEAN : SetStatus(v, a)
    \/ \E N \in SUBSET Nodes : StartTracking(N) \/ StopTracking(N)
    \/ \E n \in Nodes : Connect(n) \/ Disconnect(n)

\* A step that leaves the table alone is one that touches no entry.
LEMMA IdleTableStep ==
    ASSUME VdrsTypeOK, UNCHANGED <<data, updatedData>> PROVE TableStep
BY DEF VdrsTypeOK, TableStep, Untouched

\* Every such step touches the entries of the table as TableStep says.
LEMMA NextIsTableStep ==
    ASSUME VdrsTypeOK, TableNext PROVE TableStep /\ disk' = disk /\ lost' = lost
<1>1. CASE BeginSync \/ Tick
      BY <1>1, IdleTableStep DEF BeginSync, Tick, tableVars
<1>2. ASSUME NEW v \in ValidationIDs, SyncDeletes(v) PROVE TableStep /\ disk' = disk /\ lost' = lost
      BY <1>2, DeleteStep DEF SyncDeletes
<1>3. ASSUME NEW v \in ValidationIDs, SyncUpdates(v) PROVE TableStep /\ disk' = disk /\ lost' = lost
      BY <1>3, UpdateStep, AnswerIsStatus DEF SyncUpdates
<1>4. ASSUME NEW v \in ValidationIDs, SyncAdds(v) PROVE TableStep /\ disk' = disk /\ lost' = lost
      BY <1>4, AddStep, AnswerIsStatus DEF SyncAdds
<1>5. ASSUME NEW v \in ValidationIDs, NEW a \in BOOLEAN, SetStatus(v, a)
      PROVE  TableStep /\ disk' = disk /\ lost' = lost
      BY <1>5, NewStatusStep DEF SetStatus, Known
<1>6. ASSUME NEW N \in SUBSET Nodes, StartTracking(N) \/ StopTracking(N)
      PROVE  TableStep /\ disk' = disk /\ lost' = lost
      <2>1. PICK Done \in SUBSET N : UpdateUptimes(Done)
            BY <1>6, Zenon DEF StartTracking, StopTracking
      <2>2. disk' = disk /\ lost' = lost
            BY <1>6, Zenon DEF StartTracking, StopTracking
      <2> QED BY <2>1, <2>2, UpdateUptimesStep
<1>7. ASSUME NEW n \in Nodes, Connect(n) PROVE TableStep /\ disk' = disk /\ lost' = lost
      BY <1>7, IdleTableStep DEF Connect, tableVars
<1>8. ASSUME NEW n \in Nodes, Disconnect(n) PROVE TableStep /\ disk' = disk /\ lost' = lost
      <2>1. UpdateUptimes({n}) \/ UNCHANGED <<data, updatedData>>
            BY <1>8, Zenon DEF Disconnect
      <2>2. disk' = disk /\ lost' = lost
            BY <1>8, Zenon DEF Disconnect
      <2> QED BY <2>1, <2>2, UpdateUptimesStep, IdleTableStep
<1> QED BY <1>1, <1>2, <1>3, <1>4, <1>5, <1>6, <1>7, <1>8 DEF TableNext

\* VdrsNext is one of these steps, a write or a restart.
LEMMA NextCases == VdrsNext => TableNext \/ WriteState \/ RestartManager
BY Zenon DEF VdrsNext, TableNext

-----------------------------------------------------------------------------
(* Type correctness.                                                       *)

\* The part of the type invariant that is not about the table's entries.
RestTypeOK ==
    /\ index \in [Nodes -> ValidationIDs \cup {NoVdr}]
    /\ lost \in BOOLEAN
    /\ paused \subseteq Nodes /\ connected \subseteq Nodes
    /\ connections \in [Nodes -> Int \cup {NoVdr}]
    /\ tracking \in BOOLEAN
    /\ now \in Int
    /\ sync \in [pc : {"idle", "load"}, set : CurrentSets,
                known : SUBSET ValidationIDs, todo : SUBSET ValidationIDs]
    /\ \A v \in sync.todo : sync.set[v] # NoVdr

\* An idle sync is a well-typed one.
LEMMA NoSyncType ==
    /\ NoSync \in [pc : {"idle", "load"}, set : CurrentSets,
                   known : SUBSET ValidationIDs, todo : SUBSET ValidationIDs]
    /\ NoSync.todo = {} /\ NoSync.pc = "idle"
BY DEF NoSync, CurrentSets, Answers

\* Pausing and resuming a node leave sets of nodes and times behind.
LEMMA PauseResumeType ==
    ASSUME VdrsTypeOK, NEW n \in Nodes, Pause(n) \/ Resume(n)
    PROVE  paused' \subseteq Nodes /\ connections' \in [Nodes -> Int \cup {NoVdr}]
BY DEF VdrsTypeOK, Pause, Resume

\* A change of status pauses or resumes the node.
LEMMA StatusUpdatedType ==
    ASSUME VdrsTypeOK, NEW v \in ValidationIDs, NEW d, StatusUpdated(v, d)
    PROVE  paused' \subseteq Nodes /\ connections' \in [Nodes -> Int \cup {NoVdr}]
<1>1. Pause(NodeID[v]) \/ Resume(NodeID[v])
      BY Zenon DEF StatusUpdated
<1> QED BY <1>1, PauseResumeType

\* Every such step leaves the rest well typed.
LEMMA RestType == ASSUME VdrsTypeOK, TableNext PROVE RestTypeOK'
<1> USE DEF VdrsTypeOK, RestTypeOK
<1>1. CASE BeginSync
      <2>1. CASE UNCHANGED sync
            BY <1>1, <2>1 DEF BeginSync, tableVars, uptimeVars
      <2>2. ASSUME NEW S \in CurrentSets,
                   sync' = [pc |-> "load", set |-> S, known |-> Known(data), todo |-> Known(S)]
            PROVE  RestTypeOK'
            <3>1. Known(data) \subseteq ValidationIDs /\ Known(S) \subseteq ValidationIDs
                  BY DEF Known
            <3>2. \A v \in sync'.todo : sync'.set[v] # NoVdr
                  BY <2>2 DEF Known
            <3> QED BY <1>1, <2>2, <3>1, <3>2 DEF BeginSync, tableVars, uptimeVars
      <2> QED BY <1>1, <2>1, <2>2 DEF BeginSync
<1>2. CASE Tick
      BY <1>2 DEF Tick, tableVars, uptimeVars
<1>3. ASSUME NEW v \in ValidationIDs, SyncDeletes(v) PROVE RestTypeOK'
      <2>1. paused' \subseteq Nodes /\ connections' \in [Nodes -> Int \cup {NoVdr}]
            BY <1>3, PauseResumeType DEF SyncDeletes, DeleteValidator, OnValidatorRemoved
      <2> QED BY <1>3, <2>1 DEF SyncDeletes, DeleteValidator, OnValidatorRemoved
<1>4. ASSUME NEW v \in ValidationIDs, SyncUpdates(v) PROVE RestTypeOK'
      <2>1. \/ StatusUpdated(v, [data[v] EXCEPT !.active = sync.set[v]])
            \/ UNCHANGED <<paused, connections>>
            BY <1>4, Zenon DEF SyncUpdates, UpdateValidator
      <2>2. paused' \subseteq Nodes /\ connections' \in [Nodes -> Int \cup {NoVdr}]
            BY <2>1, StatusUpdatedType
      <2> QED BY <1>4, <2>2 DEF SyncUpdates, UpdateValidator, MayLoad
<1>5. ASSUME NEW v \in ValidationIDs, SyncAdds(v) PROVE RestTypeOK'
      <2> DEFINE d == [up |-> 0, last |-> StartTime[v], active |-> sync.set[v]]
      <2>1. StatusUpdated(v, d) \/ UNCHANGED <<paused, connections>>
            BY <1>5, Zenon DEF SyncAdds, AddValidator, OnValidatorAdded
      <2> HIDE DEF d
      <2>2. paused' \subseteq Nodes /\ connections' \in [Nodes -> Int \cup {NoVdr}]
            BY <2>1, StatusUpdatedType
      <2> QED BY <1>5, <2>2 DEF SyncAdds, AddValidator, OnValidatorAdded, MayLoad
<1>6. ASSUME NEW v \in ValidationIDs, NEW a \in BOOLEAN, SetStatus(v, a) PROVE RestTypeOK'
      <2>1. paused' \subseteq Nodes /\ connections' \in [Nodes -> Int \cup {NoVdr}]
            BY <1>6, StatusUpdatedType DEF SetStatus
      <2> QED BY <1>6, <2>1 DEF SetStatus
<1>7. ASSUME NEW N \in SUBSET Nodes, StartTracking(N) \/ StopTracking(N) PROVE RestTypeOK'
      <2>1. UNCHANGED <<index, lost, paused, connected, connections, now, sync>>
            BY <1>7, Zenon DEF StartTracking, StopTracking
      <2>2. tracking' \in BOOLEAN
            BY <1>7, Zenon DEF StartTracking, StopTracking
      <2> QED BY <2>1, <2>2
<1>8. ASSUME NEW n \in Nodes, Connect(n) PROVE RestTypeOK'
      BY <1>8 DEF Connect, tableVars
<1>9. ASSUME NEW n \in Nodes, Disconnect(n) PROVE RestTypeOK'
      BY <1>9 DEF Disconnect
<1> QED BY <1>1, <1>2, <1>3, <1>4, <1>5, <1>6, <1>7, <1>8, <1>9 DEF TableNext

\* The table as a TableStep leaves it is well typed.
LEMMA TableType ==
    ASSUME VdrsTypeOK, TableStep
    PROVE  /\ data' \in [ValidationIDs -> Data \cup {NoVdr}]
           /\ updatedData' \in [ValidationIDs -> {"updated", "deleted", NoVdr}]
BY DEF VdrsTypeOK, TableStep, Untouched, Changed, Deleted, Added

\* The type invariant is inductive.
LEMMA TypeStep == VdrsTypeOK /\ [VdrsNext]_vdrsVars => VdrsTypeOK'
<1> SUFFICES ASSUME VdrsTypeOK, [VdrsNext]_vdrsVars PROVE VdrsTypeOK'
    OBVIOUS
<1>1. CASE TableNext
      BY <1>1, NextIsTableStep, TableType, RestType DEF VdrsTypeOK, RestTypeOK
<1>2. CASE WriteState
      <2>1. Written \in [ValidationIDs -> Data \cup {NoVdr}]
            BY DEF Written, VdrsTypeOK
      <2>2. disk' \in [ValidationIDs -> Data \cup {NoVdr}] /\ lost' \in BOOLEAN
            BY <1>2, <2>1 DEF WriteState, VdrsTypeOK
      <2> QED BY <1>2, <2>2, NoSyncType DEF WriteState, VdrsTypeOK, uptimeVars
<1>3. CASE RestartManager
      <2>1. index' \in [Nodes -> ValidationIDs \cup {NoVdr}]
            BY <1>3 DEF RestartManager, RegisterListener, Known
      <2>2. paused' \subseteq Nodes
            BY <1>3 DEF RestartManager, RegisterListener, Known
      <2> QED BY <1>3, <2>1, <2>2, NoSyncType DEF RestartManager, RegisterListener, VdrsTypeOK
<1>4. CASE UNCHANGED vdrsVars
      BY <1>4 DEF vdrsVars, tableVars, uptimeVars, VdrsTypeOK
<1> QED BY <1>1, <1>2, <1>3, <1>4, NextCases

\* The empty table is well typed.
LEMMA TypeInit == VdrsInit => VdrsTypeOK
BY NoSyncType DEF VdrsInit, VdrsTypeOK

\* The variables keep their types.
THEOREM TypeCorrect == VdrsSpec => []VdrsTypeOK
BY TypeInit, TypeStep, PTL DEF VdrsSpec

-----------------------------------------------------------------------------
(* The table, its index and the paused nodes.                              *)

\* The nodes and their status: what a step does to which validators there are
\* and to who is active.
SameStatus ==
    /\ Known(data') = Known(data)
    /\ index' = index
    /\ \A v \in Known(data) : data'[v].active = data[v].active
SetsStatus(v, a) ==
    /\ v \in Known(data)
    /\ Known(data') = Known(data)
    /\ index' = index
    /\ data'[v].active = a
    /\ \A w \in ValidationIDs \ {v} : data'[w] = data[w]
    /\ IF a THEN Resume(NodeID[v]) ELSE Pause(NodeID[v])
Removes(v) ==
    /\ Known(data') = Known(data) \ {v}
    /\ index' = [index EXCEPT ![NodeID[v]] = NoVdr]
    /\ \A w \in ValidationIDs \ {v} : data'[w] = data[w]
    /\ IF NodeID[v] \in paused THEN Resume(NodeID[v]) ELSE UNCHANGED <<paused, connections>>
Inserts(v, a) ==
    /\ v \notin Known(data) /\ index[NodeID[v]] = NoVdr
    /\ Known(data') = Known(data) \cup {v}
    /\ index' = [index EXCEPT ![NodeID[v]] = v]
    /\ data'[v].active = a
    /\ \A w \in ValidationIDs \ {v} : data'[w] = data[w]
    /\ IF a THEN UNCHANGED <<paused, connections>> ELSE Pause(NodeID[v])

\* A new status for an entry of the table.
LEMMA StatusSets ==
    ASSUME VdrsTypeOK, NEW v \in Known(data), NEW a \in BOOLEAN, index' = index,
           StatusUpdated(v, [data[v] EXCEPT !.active = a])
    PROVE  SetsStatus(v, a)
<1> DEFINE d == [data[v] EXCEPT !.active = a]
<1>1. v \in ValidationIDs /\ data[v] \in Data
      BY DEF VdrsTypeOK, Known
<1>2. d \in Data /\ d.active = a
      BY <1>1 DEF Data
<1>3. StatusUpdated(v, d)
      OBVIOUS
<1> HIDE DEF d
<1>4. /\ data' = [data EXCEPT ![v] = data'[v]]
      /\ data'[v] \in Data
      /\ data'[v].active = a
      BY <1>1, <1>2, <1>3, StatusUpdatedStep
<1>5. Known(data') = Known(data)
      BY <1>1, <1>4 DEF Known, VdrsTypeOK
<1>6. \A w \in ValidationIDs \ {v} : data'[w] = data[w]
      BY <1>4 DEF VdrsTypeOK
<1>7. IF a THEN Resume(NodeID[v]) ELSE Pause(NodeID[v])
      BY <1>2, <1>3, Zenon DEF StatusUpdated
<1> QED BY <1>4, <1>5, <1>6, <1>7 DEF SetsStatus

\* Each step of a sync and each call of the table is one of the four.
LEMMA DeleteRemoves ==
    ASSUME VdrsTypeOK, NEW v \in ValidationIDs, DeleteValidator(v) PROVE Removes(v)
<1>1. data' = [data EXCEPT ![v] = NoVdr] /\ index' = [index EXCEPT ![NodeID[v]] = NoVdr]
      BY DEF DeleteValidator, OnValidatorRemoved
<1>2. Known(data') = Known(data) \ {v}
      BY <1>1 DEF Known, VdrsTypeOK
<1>3. \A w \in ValidationIDs \ {v} : data'[w] = data[w]
      BY <1>1 DEF VdrsTypeOK
<1>4. IF NodeID[v] \in paused THEN Resume(NodeID[v]) ELSE UNCHANGED <<paused, connections>>
      BY DEF DeleteValidator, OnValidatorRemoved
<1> QED BY <1>1, <1>2, <1>3, <1>4 DEF Removes

\* Adding a validator inserts it.
LEMMA AddInserts ==
    ASSUME VdrsTypeOK, NEW v \in ValidationIDs, NEW a \in BOOLEAN, AddValidator(v, a)
    PROVE  Inserts(v, a)
<1> DEFINE d == [up |-> 0, last |-> StartTime[v], active |-> a]
<1>1. d \in Data /\ d.active = a
      BY DEF Data
<1>2. /\ data[v] = NoVdr /\ index[NodeID[v]] = NoVdr
      /\ index' = [index EXCEPT ![NodeID[v]] = v]
      BY DEF AddValidator, OnValidatorAdded, MayAdd
<1>3. IF a THEN data' = [data EXCEPT ![v] = d] /\ UNCHANGED <<paused, connections>>
           ELSE StatusUpdated(v, d)
      BY Zenon DEF AddValidator, OnValidatorAdded
<1> HIDE DEF d
<1>4. data' = [data EXCEPT ![v] = data'[v]] /\ data'[v] \in Data /\ data'[v].active = a
      BY <1>1, <1>3, StatusUpdatedStep DEF VdrsTypeOK
<1>5. Known(data') = Known(data) \cup {v}
      BY <1>4 DEF Known, VdrsTypeOK
<1>6. \A w \in ValidationIDs \ {v} : data'[w] = data[w]
      BY <1>4 DEF VdrsTypeOK
<1>7. IF a THEN UNCHANGED <<paused, connections>> ELSE Pause(NodeID[v])
      BY <1>1, <1>3, Zenon DEF StatusUpdated
<1> QED BY <1>2, <1>4, <1>5, <1>6, <1>7 DEF Inserts, Known

\* The three invariants support one another: a pause or a resume of a node is
\* right because the node has one validation ID and is connected as it should.
StatusInv == IndexInverse /\ ConnectionsMatch /\ PausedAreInactive

\* A step that leaves the validators and their status alone preserves them.
LEMMA SameStatusInv ==
    ASSUME VdrsTypeOK, VdrsTypeOK', StatusInv, SameStatus, UNCHANGED paused, ConnectionsMatch'
    PROVE  StatusInv'
<1>1. IndexInverse'
      BY DEF StatusInv, IndexInverse, SameStatus
<1>2. {w \in Known(data') : ~data'[w].active} = {w \in Known(data) : ~data[w].active}
      BY DEF SameStatus
<1>3. PausedAreInactive'
      BY <1>2 DEF StatusInv, PausedAreInactive
<1> QED BY <1>1, <1>3 DEF StatusInv

\* Pausing or resuming a node keeps the inner manager's view of it right.
LEMMA PauseMatches ==
    ASSUME VdrsTypeOK, ConnectionsMatch, NEW n \in Nodes, Pause(n) \/ Resume(n),
           UNCHANGED connected, now \in Int
    PROVE  ConnectionsMatch'
BY DEF VdrsTypeOK, ConnectionsMatch, Pause, Resume

\* A new status pauses or resumes the one node that it is about.
LEMMA SetsStatusInv ==
    ASSUME VdrsTypeOK, VdrsTypeOK', StatusInv, NEW v \in ValidationIDs, NEW a \in BOOLEAN,
           SetsStatus(v, a), UNCHANGED connected
    PROVE  StatusInv'
<1>1. IndexInverse'
      BY DEF StatusInv, IndexInverse, SetsStatus
<1>2. Pause(NodeID[v]) \/ Resume(NodeID[v])
      BY Zenon DEF SetsStatus
<1>3. ConnectionsMatch'
      BY <1>2, PauseMatches DEF StatusInv, VdrsTypeOK
<1>4. \A w \in Known(data) : NodeID[w] = NodeID[v] => w = v
      BY DEF StatusInv, IndexInverse, SetsStatus, Known
<1>5. IF a THEN paused' = paused \ {NodeID[v]} ELSE paused' = paused \cup {NodeID[v]}
      BY DEF SetsStatus, Pause, Resume
<1>6. \A n \in Nodes : n \in paused' <=> \E w \in Known(data') : ~data'[w].active /\ NodeID[w] = n
      <2> TAKE n \in Nodes
      <2>1. n \in paused <=> \E w \in Known(data) : ~data[w].active /\ NodeID[w] = n
            BY DEF StatusInv, PausedAreInactive
      <2>2. \A w \in Known(data) \ {v} : data'[w] = data[w]
            BY DEF SetsStatus, Known
      <2>3. Known(data') = Known(data) /\ v \in Known(data) /\ data'[v].active = a
            BY DEF SetsStatus
      <2>4. CASE n = NodeID[v]
            <3>1. n \in paused' <=> ~a
                  BY <1>5, <2>4
            <3>2. (\E w \in Known(data') : ~data'[w].active /\ NodeID[w] = n) <=> ~data'[v].active
                  BY <1>4, <2>3, <2>4
            <3> QED BY <3>1, <3>2, <2>3
      <2>5. CASE n # NodeID[v]
            <3>1. n \in paused' <=> n \in paused
                  BY <1>5, <2>5
            <3>2. \A w \in Known(data) : NodeID[w] = n => data'[w] = data[w]
                  BY <2>2, <2>5
            <3> QED BY <3>1, <3>2, <2>1, <2>3
      <2> QED BY <2>4, <2>5
<1>7. PausedAreInactive'
      BY <1>6 DEF PausedAreInactive, VdrsTypeOK, Known
<1> QED BY <1>1, <1>3, <1>7 DEF StatusInv

\* Removing a validator resumes its node if it is paused.
LEMMA RemovesInv ==
    ASSUME VdrsTypeOK, VdrsTypeOK', StatusInv, NEW v \in Known(data), Removes(v),
           UNCHANGED connected
    PROVE  StatusInv'
<1>1. v \in ValidationIDs /\ NodeID[v] \in Nodes
      BY DEF Known
<1>2. \A w \in Known(data) : NodeID[w] = NodeID[v] => w = v
      BY <1>1 DEF StatusInv, IndexInverse, Known
<1>3. IndexInverse'
      BY <1>1, <1>2 DEF StatusInv, IndexInverse, Removes, VdrsTypeOK, Known
<1>4. ConnectionsMatch'
      BY <1>1, PauseMatches DEF StatusInv, VdrsTypeOK, Removes, ConnectionsMatch
<1>5. paused' = paused \ {NodeID[v]}
      BY DEF Removes, Resume
<1>6. \A n \in Nodes : n \in paused' <=> \E w \in Known(data') : ~data'[w].active /\ NodeID[w] = n
      <2> TAKE n \in Nodes
      <2>1. n \in paused <=> \E w \in Known(data) : ~data[w].active /\ NodeID[w] = n
            BY DEF StatusInv, PausedAreInactive
      <2>2. Known(data') = Known(data) \ {v} /\ \A w \in Known(data) \ {v} : data'[w] = data[w]
            BY DEF Removes, Known
      <2> QED BY <1>2, <1>5, <2>1, <2>2
<1>7. PausedAreInactive'
      BY <1>6 DEF PausedAreInactive, VdrsTypeOK, Known
<1> QED BY <1>3, <1>4, <1>7 DEF StatusInv

\* Inserting a validator pauses its node if it is inactive; the node was not
\* paused before, because it had no validator.
LEMMA InsertsInv ==
    ASSUME VdrsTypeOK, VdrsTypeOK', StatusInv, NEW v \in ValidationIDs, NEW a \in BOOLEAN,
           Inserts(v, a), UNCHANGED connected
    PROVE  StatusInv'
<1>1. \A w \in Known(data) : NodeID[w] # NodeID[v]
      BY DEF StatusInv, IndexInverse, Inserts, Known
<1>2. IndexInverse'
      BY <1>1 DEF StatusInv, IndexInverse, Inserts, VdrsTypeOK, Known
<1>3. ConnectionsMatch'
      BY PauseMatches DEF StatusInv, VdrsTypeOK, Inserts, ConnectionsMatch
<1>4. IF a THEN paused' = paused ELSE paused' = paused \cup {NodeID[v]}
      BY DEF Inserts, Pause
<1>5. \A n \in Nodes : n \in paused' <=> \E w \in Known(data') : ~data'[w].active /\ NodeID[w] = n
      <2> TAKE n \in Nodes
      <2>1. n \in paused <=> \E w \in Known(data) : ~data[w].active /\ NodeID[w] = n
            BY DEF StatusInv, PausedAreInactive
      <2>2. /\ v \notin Known(data) /\ Known(data') = Known(data) \cup {v}
            /\ data'[v].active = a
            /\ \A w \in Known(data) : data'[w] = data[w]
            BY DEF Inserts, Known
      <2>3. CASE n = NodeID[v]
            <3>1. n \notin paused
                  BY <1>1, <2>1, <2>3
            <3>2. n \in paused' <=> ~a
                  BY <1>4, <2>3, <3>1
            <3>3. (\E w \in Known(data') : ~data'[w].active /\ NodeID[w] = n) <=> ~data'[v].active
                  BY <1>1, <2>2, <2>3
            <3> QED BY <3>2, <3>3, <2>2
      <2>4. CASE n # NodeID[v]
            <3>1. n \in paused' <=> n \in paused
                  BY <1>4, <2>4
            <3> QED BY <3>1, <2>1, <2>2, <2>4
      <2> QED BY <2>3, <2>4
<1>6. PausedAreInactive'
      BY <1>5 DEF PausedAreInactive, VdrsTypeOK, Known
<1> QED BY <1>2, <1>3, <1>6 DEF StatusInv

\* Every step preserves the three invariants.
LEMMA StatusStep == VdrsTypeOK /\ VdrsTypeOK' /\ StatusInv /\ [VdrsNext]_vdrsVars => StatusInv'
<1> SUFFICES ASSUME VdrsTypeOK, VdrsTypeOK', StatusInv, [VdrsNext]_vdrsVars PROVE StatusInv'
    OBVIOUS
<1>1. CASE BeginSync \/ Tick \/ WriteState \/ UNCHANGED vdrsVars
      <2>1. UNCHANGED <<data, index, paused, connected, connections>>
            BY <1>1 DEF BeginSync, Tick, WriteState, vdrsVars, tableVars, uptimeVars
      <2> QED BY <2>1 DEF StatusInv, IndexInverse, ConnectionsMatch, PausedAreInactive, Known
<1>2. ASSUME NEW v \in ValidationIDs, SyncDeletes(v) PROVE StatusInv'
      BY <1>2, DeleteRemoves, RemovesInv DEF SyncDeletes, Stale
<1>3. ASSUME NEW v \in ValidationIDs, SyncUpdates(v) PROVE StatusInv'
      <2>1. sync.set[v] \in BOOLEAN /\ v \in Known(data) /\ index' = index /\ connected' = connected
            BY <1>3, AnswerIsStatus DEF SyncUpdates, UpdateValidator, Known
      <2>2. CASE StatusUpdated(v, [data[v] EXCEPT !.active = sync.set[v]])
            BY <2>1, <2>2, StatusSets, SetsStatusInv
      <2>3. CASE UNCHANGED <<data, paused, connections>>
            BY <2>1, <2>3 DEF StatusInv, IndexInverse, ConnectionsMatch, PausedAreInactive, Known
      <2>4. \/ StatusUpdated(v, [data[v] EXCEPT !.active = sync.set[v]])
            \/ UNCHANGED <<data, paused, connections>>
            BY <1>3, Zenon DEF SyncUpdates, UpdateValidator
      <2> QED BY <2>2, <2>3, <2>4
<1>4. ASSUME NEW v \in ValidationIDs, SyncAdds(v) PROVE StatusInv'
      BY <1>4, AnswerIsStatus, AddInserts, InsertsInv DEF SyncAdds
<1>5. ASSUME NEW v \in ValidationIDs, NEW a \in BOOLEAN, SetStatus(v, a) PROVE StatusInv'
      BY <1>5, StatusSets, SetsStatusInv DEF SetStatus, Known
<1>6. ASSUME NEW N \in SUBSET Nodes, StartTracking(N) \/ StopTracking(N) PROVE StatusInv'
      <2>1. PICK Done \in SUBSET N : UpdateUptimes(Done)
            BY <1>6, Zenon DEF StartTracking, StopTracking
      <2>2. UNCHANGED <<index, paused, connected, connections>>
            BY <1>6, Zenon DEF StartTracking, StopTracking
      <2>3. SameStatus
            BY <2>1, <2>2, UpdateUptimesStep DEF SameStatus
      <2> QED BY <2>2, <2>3, SameStatusInv DEF StatusInv, ConnectionsMatch
<1>7. ASSUME NEW n \in Nodes, Connect(n) PROVE StatusInv'
      <2>1. SameStatus /\ paused' = paused
            BY <1>7 DEF Connect, tableVars, SameStatus, Known
      <2>2. ConnectionsMatch'
            BY <1>7 DEF Connect, StatusInv, ConnectionsMatch, VdrsTypeOK
      <2> QED BY <2>1, <2>2, SameStatusInv
<1>8. ASSUME NEW n \in Nodes, Disconnect(n) PROVE StatusInv'
      <2>1. UpdateUptimes({n}) \/ UNCHANGED <<data, updatedData>>
            BY <1>8, Zenon DEF Disconnect
      <2>2. UNCHANGED <<index, paused>>
            BY <1>8, Zenon DEF Disconnect
      <2>3. SameStatus
            BY <2>1, <2>2, UpdateUptimesStep DEF SameStatus, Known
      <2>4. ConnectionsMatch'
            BY <1>8 DEF Disconnect, StatusInv, ConnectionsMatch, VdrsTypeOK
      <2> QED BY <2>2, <2>3, <2>4, SameStatusInv
<1>9. CASE RestartManager
      <2>1. Known(data') = Known(disk) /\ data' = disk
            BY <1>9 DEF RestartManager, RegisterListener, Known
      <2>2. IndexInverse'
            BY <1>9, <2>1 DEF RestartManager, RegisterListener, IndexInverse, Loadable, Known
      <2>3. ConnectionsMatch'
            BY <1>9 DEF RestartManager, RegisterListener, ConnectionsMatch
      <2>4. PausedAreInactive'
            BY <1>9, <2>1 DEF RestartManager, RegisterListener, PausedAreInactive
      <2> QED BY <2>2, <2>3, <2>4 DEF StatusInv
<1> QED BY <1>1, <1>2, <1>3, <1>4, <1>5, <1>6, <1>7, <1>8, <1>9 DEF VdrsNext

\* The empty table satisfies them.
LEMMA StatusInit == VdrsInit => StatusInv
BY DEF VdrsInit, StatusInv, IndexInverse, ConnectionsMatch, PausedAreInactive, Known

\* The three invariants hold in every behaviour.
LEMMA StatusInvariant == VdrsSpec => []StatusInv
<1>1. VdrsTypeOK /\ StatusInv /\ [VdrsNext]_vdrsVars => (VdrsTypeOK /\ StatusInv)'
      BY TypeStep, StatusStep
<1>2. VdrsInit => VdrsTypeOK /\ StatusInv
      BY TypeInit, StatusInit
<1> QED BY <1>1, <1>2, PTL DEF VdrsSpec

\* The table and its index are always inverse to each other.
THEOREM IndexAlwaysInverse == VdrsSpec => []IndexInverse
<1>1. StatusInv => IndexInverse
      BY DEF StatusInv
<1> QED BY <1>1, StatusInvariant, PTL

\* The inner uptime manager always has exactly the connected nodes that are not
\* paused; errPausedDisconnect never occurs.
THEOREM ConnectionsAlwaysMatch == VdrsSpec => []ConnectionsMatch
<1>1. StatusInv => ConnectionsMatch
      BY DEF StatusInv
<1> QED BY <1>1, StatusInvariant, PTL

\* The paused nodes are always the inactive validators.
THEOREM PausedAlwaysInactive == VdrsSpec => []PausedAreInactive
<1>1. StatusInv => PausedAreInactive
      BY DEF StatusInv
<1> QED BY <1>1, StatusInvariant, PTL

-----------------------------------------------------------------------------
(* Uptime.                                                                 *)

\* The bound holds of what is on disk too, for the next start to load.
Bounded(d) == \A v \in Known(d) : d[v].up <= d[v].last - StartTime[v]
UptimeInv == Bounded(data) /\ Bounded(disk)

\* No step lets the uptime of a validator outgrow the time since its start.
LEMMA UptimeStep == VdrsTypeOK /\ UptimeInv /\ [VdrsNext]_vdrsVars => UptimeInv'
<1> SUFFICES ASSUME VdrsTypeOK, UptimeInv, [VdrsNext]_vdrsVars PROVE UptimeInv'
    OBVIOUS
<1>1. CASE TableNext
      <2>1. TableStep /\ disk' = disk
            BY <1>1, NextIsTableStep
      <2>2. ASSUME NEW v \in Known(data')
            PROVE  data'[v].up <= data'[v].last - StartTime[v]
            <3>1. v \in ValidationIDs /\ data'[v] # NoVdr /\ StartTime[v] \in Int
                  BY <2>2 DEF Known
            <3>2. CASE Untouched(v)
                  BY <3>1, <3>2 DEF Untouched, UptimeInv, Bounded, Known
            <3>3. CASE Changed(v)
                  <4>1. data[v] \in Data /\ data'[v] \in Data /\ v \in Known(data)
                        BY <3>1, <3>3 DEF Changed, Known
                  <4>2. /\ data[v].up \in Nat /\ data[v].last \in Int
                        /\ data'[v].up \in Nat /\ data'[v].last \in Int
                        BY <4>1 DEF Data
                  <4>3. data[v].up <= data[v].last - StartTime[v]
                        BY <4>1 DEF UptimeInv, Bounded
                  <4>4. data'[v].up - data[v].up <= data'[v].last - data[v].last
                        BY <3>3 DEF Changed, Grown
                  <4> QED BY <3>1, <4>2, <4>3, <4>4
            <3>4. CASE Deleted(v)
                  BY <3>1, <3>4 DEF Deleted
            <3>5. CASE Added(v)
                  BY <3>5 DEF Added
            <3> QED BY <2>1, <3>1, <3>2, <3>3, <3>4, <3>5 DEF TableStep
      <2> QED BY <2>1, <2>2 DEF UptimeInv, Bounded
<1>2. CASE WriteState
      <2>1. Bounded(Written)
            BY DEF Written, UptimeInv, Bounded, Known, VdrsTypeOK
      <2> QED BY <1>2, <2>1 DEF WriteState, UptimeInv, Bounded
<1>3. CASE RestartManager
      BY <1>3 DEF RestartManager, RegisterListener, UptimeInv, Bounded
<1>4. CASE UNCHANGED vdrsVars
      BY <1>4 DEF vdrsVars, tableVars, UptimeInv, Bounded
<1> QED BY <1>1, <1>2, <1>3, <1>4, NextCases

\* The uptime of a validator never exceeds the time since its start.
THEOREM UptimeAlwaysBounded == VdrsSpec => []UptimeBounded
<1>1. VdrsTypeOK /\ UptimeInv /\ [VdrsNext]_vdrsVars => (VdrsTypeOK /\ UptimeInv)'
      BY TypeStep, UptimeStep
<1>2. VdrsInit => VdrsTypeOK /\ UptimeInv
      BY TypeInit DEF VdrsInit, UptimeInv, Bounded, Known
<1>3. UptimeInv => UptimeBounded
      BY DEF UptimeInv, Bounded, UptimeBounded
<1> QED BY <1>1, <1>2, <1>3, PTL DEF VdrsSpec

\* Whatever the clock does, what is reported for a validator is of its own entry
\* and no more than all of the time: the index leads back to the entry, and
\* bringing an entry up to now keeps its bound.
THEOREM ReportedAlwaysBounded == VdrsSpec => []ReportedUptime
<1> DEFINE I == VdrsTypeOK /\ StatusInv /\ UptimeInv
<1>1. I /\ [VdrsNext]_vdrsVars => I'
      BY TypeStep, StatusStep, UptimeStep
<1>2. VdrsInit => I
      <2>1. VdrsInit => UptimeInv
            BY DEF VdrsInit, UptimeInv, Bounded, Known
      <2> QED BY <2>1, TypeInit, StatusInit
<1>3. I => ReportedUptime
      <2> SUFFICES ASSUME I, NEW v \in Known(data)
                   PROVE  LET p == CalculateUptimePercent(NodeID[v]) IN
                          /\ GetValidatorAndUptime(v).uptime = CalculateUptime(data[v], NodeID[v])
                          /\ 0 <= p.up /\ p.up <= p.of /\ 0 < p.of
          BY DEF ReportedUptime
      <2> DEFINE n == NodeID[v]
                 d == CalculateUptime(data[v], n)
      <2>1. v \in ValidationIDs /\ n \in Nodes /\ data[v] \in Data /\ data[v] # NoVdr
            BY DEF Known, VdrsTypeOK
      <2>2. index[n] = v
            BY DEF StatusInv, IndexInverse
      <2>3. d \in Data /\ Grown(data[v], d)
            BY <2>1, CalculateUptimeFacts
      <2>4. data[v].up <= data[v].last - StartTime[v]
            BY <2>1 DEF UptimeInv, Bounded
      <2>5. d.up \in Nat /\ d.last \in Int /\ StartTime[v] \in Int /\ d.up <= d.last - StartTime[v]
            <3>1. d.up \in Nat /\ d.last \in Int
                  BY <2>3 DEF Data
            <3>2. data[v].up \in Nat /\ data[v].last \in Int /\ StartTime[v] \in Int
                  BY <2>1 DEF Data
            <3> HIDE DEF d
            <3> QED BY <3>1, <3>2, <2>3, <2>4 DEF Grown
      <2>6. GetValidatorAndUptime(v).uptime = d
            <3>1. GetValidator(v).node = n
                  BY <2>1 DEF GetValidator
            <3> QED BY <2>1, <2>2, <3>1 DEF GetValidatorAndUptime
      <2>7. CalculateUptimePercent(n) =
              IF d.last = StartTime[v] THEN [up |-> 1, of |-> 1]
              ELSE [up |-> d.up, of |-> d.last - StartTime[v]]
            BY <2>2 DEF CalculateUptimePercent, CalculateUptimePercentFrom, GetStartTime
      <2> DEFINE p == CalculateUptimePercent(n)
      <2>8. 0 <= p.up /\ p.up <= p.of /\ 0 < p.of
            <3> HIDE DEF d
            <3>1. CASE d.last = StartTime[v]
                  BY <2>7, <3>1
            <3>2. CASE d.last # StartTime[v]
                  <4>1. p.up = d.up /\ p.of = d.last - StartTime[v]
                        BY <2>7, <3>2
                  <4> HIDE DEF p
                  <4> QED BY <2>5, <3>2, <4>1
            <3> QED BY <3>1, <3>2
      <2> QED BY <2>6, <2>8
<1> QED BY <1>1, <1>2, <1>3, PTL DEF VdrsSpec

\* Apart from a restart, no step takes back uptime or counts a time twice.
THEOREM UptimeIsNeverTaken == VdrsSpec => UptimeNeverTaken
<1>1. VdrsTypeOK /\ [VdrsNext]_vdrsVars =>
        [\/ RestartManager
         \/ \A v \in Known(data) \cap Known(data') :
               data[v].up <= data'[v].up /\ data[v].last <= data'[v].last]_vdrsVars
      <2> SUFFICES ASSUME VdrsTypeOK, VdrsNext, ~RestartManager,
                          NEW v \in Known(data) \cap Known(data')
                   PROVE  data[v].up <= data'[v].up /\ data[v].last <= data'[v].last
          OBVIOUS
      <2>1. v \in ValidationIDs /\ data[v] \in Data /\ data'[v] # NoVdr
            BY DEF VdrsTypeOK, Known
      <2>2. data[v].up \in Nat /\ data[v].last \in Int
            BY <2>1 DEF Data
      <2>3. CASE WriteState
            BY <2>2, <2>3 DEF WriteState
      <2>4. CASE TableNext
            <3>1. TableStep
                  BY <2>4, NextIsTableStep
            <3>2. Untouched(v) \/ Changed(v)
                  BY <2>1, <3>1 DEF TableStep, Deleted, Added
            <3> QED BY <2>2, <3>2 DEF Untouched, Changed, Grown
      <2> QED BY <2>3, <2>4, NextCases
<1> QED BY <1>1, TypeCorrect, PTL DEF VdrsSpec, UptimeNeverTaken

-----------------------------------------------------------------------------
(* The disk.                                                               *)

\* A table that is inverse to its index can be loaded again.
LEMMA InverseLoads == StatusInv => Loadable(data)
BY DEF StatusInv, IndexInverse, Loadable

\* A deleted validator is marked as long as it is not added again.
MarkersRight ==
    \A v \in ValidationIDs : updatedData[v] = "deleted" => data[v] = NoVdr

DiskInv == UnmarkedOnDisk /\ MarkersRight

\* Every change is marked, and a batch brings the disk up to the table.
LEMMA DiskStep == VdrsTypeOK /\ StatusInv /\ DiskInv /\ [VdrsNext]_vdrsVars => DiskInv'
<1> SUFFICES ASSUME VdrsTypeOK, StatusInv, DiskInv, [VdrsNext]_vdrsVars PROVE DiskInv'
    OBVIOUS
<1>1. CASE TableNext
      <2>1. TableStep /\ disk' = disk /\ lost' = lost
            BY <1>1, NextIsTableStep
      <2>2. ASSUME NEW v \in ValidationIDs, updatedData'[v] = NoVdr
            PROVE  data'[v] = data[v] /\ updatedData[v] = NoVdr
            BY <2>1, <2>2 DEF TableStep, Untouched, Changed, Deleted, Added
      <2>3. MarkersRight'
            BY <2>1 DEF TableStep, Untouched, Changed, Deleted, Added, DiskInv, MarkersRight
      <2> QED BY <2>1, <2>2, <2>3 DEF DiskInv, UnmarkedOnDisk
<1>2. CASE WriteState
      <2>1. MarkersRight'
            BY <1>2 DEF WriteState, MarkersRight
      <2>2. CASE disk' = Written /\ UNCHANGED lost
            <3>1. ~lost => disk' = data
                  <4> SUFFICES ASSUME ~lost PROVE disk' = data
                      OBVIOUS
                  <4>1. \A v \in ValidationIDs : Written[v] = data[v]
                        BY DEF Written, DiskInv, UnmarkedOnDisk, MarkersRight, VdrsTypeOK
                  <4> QED BY <2>2, <4>1 DEF VdrsTypeOK, Written
            <3> QED BY <1>2, <2>1, <2>2, <3>1, InverseLoads DEF WriteState, DiskInv, UnmarkedOnDisk
      <2>3. CASE lost' = TRUE
            BY <2>1, <2>3 DEF DiskInv, UnmarkedOnDisk
      <2> QED BY <1>2, <2>2, <2>3 DEF WriteState
<1>3. CASE RestartManager
      BY <1>3 DEF RestartManager, RegisterListener, DiskInv, UnmarkedOnDisk, MarkersRight
<1>4. CASE UNCHANGED vdrsVars
      BY <1>4 DEF vdrsVars, tableVars, DiskInv, UnmarkedOnDisk, MarkersRight
<1> QED BY <1>1, <1>2, <1>3, <1>4, NextCases

\* Unless a batch was lost, what is not marked is on disk as it is in memory,
\* and the next start can load the disk.
THEOREM UnmarkedAlwaysOnDisk == VdrsSpec => []UnmarkedOnDisk
<1> DEFINE I == VdrsTypeOK /\ StatusInv /\ DiskInv
<1>1. I /\ [VdrsNext]_vdrsVars => I'
      BY TypeStep, StatusStep, DiskStep
<1>2. VdrsInit => I
      <2>1. VdrsInit => DiskInv
            BY DEF VdrsInit, DiskInv, UnmarkedOnDisk, MarkersRight, Loadable, Known
      <2> QED BY <2>1, TypeInit, StatusInit
<1>3. I => UnmarkedOnDisk
      BY DEF DiskInv
<1> QED BY <1>1, <1>2, <1>3, PTL DEF VdrsSpec

-----------------------------------------------------------------------------
(* Sync.                                                                   *)

\* What is in the table during a sync was known when it began or has been
\* loaded.
SyncOrder ==
    sync.pc = "load" =>
        \A v \in Known(data) : v \in sync.known \/ v \notin sync.todo

\* Only SyncAdds makes a validator known, and it takes it off the list.
LEMMA SyncStep == VdrsTypeOK /\ SyncOrder /\ [VdrsNext]_vdrsVars => SyncOrder'
<1> SUFFICES ASSUME VdrsTypeOK, SyncOrder, [VdrsNext]_vdrsVars PROVE SyncOrder'
    OBVIOUS
<1>1. CASE BeginSync
      BY <1>1 DEF BeginSync, tableVars, SyncOrder, Known
<1>2. CASE Tick \/ UNCHANGED vdrsVars
      BY <1>2 DEF Tick, tableVars, vdrsVars, SyncOrder, Known
<1>3. CASE WriteState \/ RestartManager
      BY <1>3, NoSyncType DEF WriteState, RestartManager, SyncOrder
<1>4. ASSUME NEW v \in ValidationIDs, SyncDeletes(v) PROVE SyncOrder'
      BY <1>4, DeleteRemoves DEF SyncDeletes, Removes, SyncOrder
<1>5. ASSUME NEW v \in ValidationIDs, SyncUpdates(v) PROVE SyncOrder'
      <2>1. Known(data') = Known(data)
            <3>1. sync.set[v] \in BOOLEAN /\ v \in Known(data) /\ index' = index
                  BY <1>5, AnswerIsStatus DEF SyncUpdates, UpdateValidator, Known
            <3>2. \/ StatusUpdated(v, [data[v] EXCEPT !.active = sync.set[v]])
                  \/ UNCHANGED data
                  BY <1>5, Zenon DEF SyncUpdates, UpdateValidator
            <3> QED BY <3>1, <3>2, StatusSets DEF SetsStatus, Known
      <2>2. sync' = [sync EXCEPT !.todo = @ \ {v}]
            BY <1>5 DEF SyncUpdates
      <2> QED BY <2>1, <2>2 DEF SyncOrder, VdrsTypeOK
<1>6. ASSUME NEW v \in ValidationIDs, SyncAdds(v) PROVE SyncOrder'
      <2>1. Known(data') = Known(data) \cup {v}
            BY <1>6, AnswerIsStatus, AddInserts DEF SyncAdds, Inserts
      <2>2. sync' = [sync EXCEPT !.todo = @ \ {v}]
            BY <1>6 DEF SyncAdds
      <2> QED BY <2>1, <2>2 DEF SyncOrder, VdrsTypeOK
<1>7. CASE NoCall /\ sync' = sync
      BY <1>7 DEF NoCall, SyncOrder
<1>8. ASSUME NEW v \in ValidationIDs, NEW a \in BOOLEAN, SetStatus(v, a) PROVE SyncOrder'
      BY <1>7, <1>8 DEF SetStatus
<1>9. ASSUME NEW N \in SUBSET Nodes, StartTracking(N) \/ StopTracking(N) PROVE SyncOrder'
      <2>1. NoCall /\ sync' = sync
            BY <1>9, Zenon DEF StartTracking, StopTracking
      <2> QED BY <2>1, <1>7
<1>10. ASSUME NEW n \in Nodes, Connect(n) \/ Disconnect(n) PROVE SyncOrder'
      <2>1. NoCall /\ sync' = sync
            BY <1>10, Zenon DEF Connect, Disconnect
      <2> QED BY <2>1, <1>7
<1> QED BY <1>1, <1>2, <1>3, <1>4, <1>5, <1>6, <1>8, <1>9, <1>10 DEF VdrsNext

\* A sync never fails on a node that moves to a new validation ID.
THEOREM SyncNeverMeetsConflict == VdrsSpec => []SyncNeverConflicts
<1> DEFINE I == VdrsTypeOK /\ StatusInv /\ SyncOrder
<1>1. I /\ [VdrsNext]_vdrsVars => I'
      BY TypeStep, StatusStep, SyncStep
<1>2. VdrsInit => I
      <2>1. VdrsInit => SyncOrder
            BY NoSyncType DEF VdrsInit, SyncOrder
      <2> QED BY <2>1, TypeInit, StatusInit
<1>3. I => SyncNeverConflicts
      <2> SUFFICES ASSUME I, NEW v \in ValidationIDs, MayLoad(v), v \notin sync.known
                   PROVE  MayAdd(v)
          BY DEF SyncNeverConflicts, SyncConflict
      <2>1. sync.set \in CurrentSets /\ sync.set[v] # NoVdr /\ v \in sync.todo
            BY DEF VdrsTypeOK, MayLoad
      <2>2. data[v] = NoVdr
            BY <2>1 DEF SyncOrder, MayLoad, Known
      <2>3. ASSUME index[NodeID[v]] # NoVdr PROVE FALSE
            <3> DEFINE w == index[NodeID[v]]
            <3>1. w \in Known(data) /\ NodeID[w] = NodeID[v]
                  BY <2>3 DEF StatusInv, IndexInverse
            <3>2. w \in ValidationIDs /\ sync.set[w] # NoVdr /\ w # v
                  BY <2>2, <3>1 DEF MayLoad, Stale, Known
            <3> QED BY <2>1, <3>1, <3>2 DEF CurrentSets
      <2> QED BY <2>2, <2>3 DEF MayAdd
<1> QED BY <1>1, <1>2, <1>3, PTL DEF VdrsSpec

\* The table, its index, the paused nodes and the connections agree at every step
\* of a sync, whatever calls come between its steps.
THEOREM TablesAlwaysAgree == VdrsSpec => []TablesAgree
<1>1. IndexInverse /\ ConnectionsMatch /\ PausedAreInactive /\ SyncNeverConflicts
         => TablesAgree
      BY DEF TablesAgree
<1> QED
    BY <1>1, IndexAlwaysInverse, ConnectionsAlwaysMatch, PausedAlwaysInactive,
       SyncNeverMeetsConflict, PTL

\* No validator is stored with, or reported to have, more uptime than time.
THEOREM UptimesAlwaysTrue == VdrsSpec => []UptimesTrue
<1>1. UptimeBounded /\ ReportedUptime => UptimesTrue
      BY DEF UptimesTrue
<1> QED
    BY <1>1, UptimeAlwaysBounded, ReportedAlwaysBounded, PTL
=============================================================================
