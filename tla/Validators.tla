----------------------------- MODULE Validators -----------------------------
(***************************************************************************)
(* The validator manager: the validator table with its index and its       *)
(* write-behind markers (utils/evm/validators/state/state.go), the sync    *)
(* with the current validator set (utils/evm/validators/manager.go), the   *)
(* uptime manager (utils/avalanche/uptime/manager.go) and, between the     *)
(* two, the pausable manager that listens to the table                     *)
(* (utils/evm/validators/uptime/pausable_manager.go).                      *)
(*                                                                         *)
(* Calls are made with the chain context locked, so nothing but a stop of  *)
(* the process comes between the steps of a sync. ClockTimes are seconds; the   *)
(* clock may step backwards. Weights are abstracted to whether they have   *)
(* changed.                                                                *)
(***************************************************************************)
EXTENDS Integers

CONSTANTS
    ValidationIDs,
    Nodes,
    NodeID,       \* the node of a validation ID
    StartTime,    \* the start time of a validation ID
    ClockTimes,        \* what the clock may show
    NoVdr

ASSUME ValidatorsAssumption ==
    /\ NodeID \in [ValidationIDs -> Nodes]
    /\ ClockTimes \subseteq Int
    /\ StartTime \in [ValidationIDs -> Int]
    /\ NoVdr \notin ValidationIDs
    /\ NoVdr \notin Int

VARIABLES
    data,         \* state.data
    index,        \* state.index
    updatedData,  \* state.updatedData
    disk,         \* the database
    lost,         \* history: a batch of this process could not be written
    paused,       \* pausedVdrs
    connected,    \* connectedVdrs
    connections,  \* uptime manager: when a node connected
    tracking,     \* startedTracking
    now,          \* the clock
    sync          \* a sync that is under way, and its locals

tableVars == <<data, index, updatedData>>
uptimeVars == <<paused, connected, connections, tracking>>
vdrsVars == <<tableVars, disk, lost, uptimeVars, now, sync>>

-----------------------------------------------------------------------------
\* validatorData; the other fields are fixed by the validation ID.
Data == [up : Nat, last : Int, active : BOOLEAN]

ASSUME NoVdrAssumption == NoVdr \notin Data \cup BOOLEAN \cup {"updated", "deleted"}

\* What the node answers about a validation ID.
Answers == [ValidationIDs -> BOOLEAN \cup {NoVdr}]

\* External: a node is in the current validator set once.
CurrentSets ==
    {S \in Answers : \A v, w \in ValidationIDs :
        S[v] # NoVdr /\ S[w] # NoVdr /\ NodeID[v] = NodeID[w] => v = w}

NoSync == [pc |-> "idle", set |-> [v \in ValidationIDs |-> NoVdr],
           known |-> {}, todo |-> {}]

Known(d) == {v \in ValidationIDs : d[v] # NoVdr}

NoCall == sync.pc = "idle"

-----------------------------------------------------------------------------
(* The uptime manager.                                                     *)

Later(a, b) == IF a < b THEN b ELSE a

\* A mutant: a clock that has gone backwards is believed.
CalculateUptimeBackwards(d, n) ==
    IF ~tracking
    THEN [d EXCEPT !.up = @ + (now - d.last), !.last = now]
    ELSE IF connections[n] = NoVdr
    THEN [d EXCEPT !.last = now]
    ELSE [d EXCEPT !.up = @ + Later(now - Later(connections[n], d.last), 0),
                   !.last = now]

\* A mutant: the time before the last update is counted again.
CalculateUptimeTwice(d, n) ==
    IF now < d.last THEN d
    ELSE IF ~tracking
    THEN [d EXCEPT !.up = @ + (now - d.last), !.last = now]
    ELSE IF connections[n] = NoVdr
    THEN [d EXCEPT !.last = now]
    ELSE [d EXCEPT !.up = @ + Later(now - connections[n], 0), !.last = now]

\* The entry d of node n with its uptime and last update brought up to now.
CalculateUptime(d, n) ==
    IF now < d.last THEN d
    ELSE IF ~tracking
    THEN [d EXCEPT !.up = @ + (now - d.last), !.last = now]
    ELSE IF connections[n] = NoVdr
    THEN [d EXCEPT !.last = now]
    ELSE [d EXCEPT !.up = @ + Later(now - Later(connections[n], d.last), 0),
                   !.last = now]

\* getData: the validation IDs that the index has for the nodes of N.
Indexed(N) == {v \in Known(data) : \E n \in N : index[n] = v}

\* The table after updateUptime for the nodes of N, and the markers it sets.
UpdateUptimes(N) ==
    /\ data' = [v \in ValidationIDs |->
                  IF v \in Indexed(N)
                  THEN CalculateUptime(data[v], NodeID[v]) ELSE data[v]]
    /\ updatedData' = [v \in ValidationIDs |->
                         IF v \in Indexed(N) THEN "updated" ELSE updatedData[v]]

\* The uptime is updated node by node, up to the first that is no validator:
\* its error is not the ErrNotFound that updateUptime compares it with.
UpdatesStopAt(N, Done) ==
    IF \A n \in N : index[n] # NoVdr
    THEN Done = N
    ELSE Done \subseteq {n \in N : index[n] # NoVdr}

StartTracking(N) ==
    /\ NoCall
    /\ ~tracking
    /\ \E Done \in SUBSET N : UpdatesStopAt(N, Done) /\ UpdateUptimes(Done)
    /\ tracking' = \A n \in N : index[n] # NoVdr
    /\ UNCHANGED <<index, disk, lost, paused, connected, connections, now, sync>>

StopTracking(N) ==
    /\ NoCall
    /\ tracking
    /\ \E Done \in SUBSET N : UpdatesStopAt(N, Done) /\ UpdateUptimes(Done)
    /\ tracking' = \E n \in N : index[n] = NoVdr
    /\ UNCHANGED <<index, disk, lost, paused, connected, connections, now, sync>>

\* manager.Disconnect for an entry d of node n: its uptime up to now.
Disconnected(d, n) == IF tracking THEN CalculateUptime(d, n) ELSE d

-----------------------------------------------------------------------------
(* The pausable manager.                                                   *)

\* A mutant: a paused node is connected at once.
ConnectPaused(n) ==
    /\ NoCall
    /\ connected' = connected \cup {n}
    /\ connections' = [connections EXCEPT ![n] = IF @ = NoVdr THEN now ELSE @]
    /\ UNCHANGED <<tableVars, disk, lost, paused, tracking, now, sync>>

Connect(n) ==
    /\ NoCall
    /\ connected' = connected \cup {n}
    /\ connections' = [connections EXCEPT
                         ![n] = IF n \notin paused /\ @ = NoVdr THEN now ELSE @]
    /\ UNCHANGED <<tableVars, disk, lost, paused, tracking, now, sync>>

\* The uptime of a validator is updated before its connection is forgotten. A
\* node that is connected and paused would be an error.
Disconnect(n) ==
    /\ NoCall
    /\ connected' = connected \ {n}
    /\ IF connections[n] # NoVdr /\ n \notin paused
       THEN /\ connections' = [connections EXCEPT ![n] = NoVdr]
            /\ IF tracking THEN UpdateUptimes({n})
                           ELSE UNCHANGED <<data, updatedData>>
       ELSE UNCHANGED <<connections, data, updatedData>>
    /\ UNCHANGED <<index, disk, lost, paused, tracking, now, sync>>

\* pause, for the entry d of node n: the entry that it leaves behind.
PausedEntry(d, n) == IF connections[n] # NoVdr THEN Disconnected(d, n) ELSE d

Pause(n) ==
    /\ paused' = paused \cup {n}
    /\ connections' = [connections EXCEPT ![n] = NoVdr]

Resume(n) ==
    /\ paused' = paused \ {n}
    /\ connections' = [connections EXCEPT
                         ![n] = IF n \in connected /\ @ = NoVdr THEN now ELSE @]

\* The table gets the entry d for v and its listener is told that v is active
\* or not; a change of status that stops tracking goes into the entry.
StatusUpdated(v, d) ==
    IF d.active
    THEN Resume(NodeID[v]) /\ data' = [data EXCEPT ![v] = d]
    ELSE Pause(NodeID[v])
         /\ data' = [data EXCEPT ![v] = PausedEntry(d, NodeID[v])]

\* The table gets the entry d for v; the listener pauses an inactive validator.
OnValidatorAdded(v, d, active) ==
    IF active THEN data' = [data EXCEPT ![v] = d] /\ UNCHANGED <<paused, connections>>
    ELSE StatusUpdated(v, d)

\* A validator that is removed is not paused any more.
OnValidatorRemoved(v) ==
    IF NodeID[v] \in paused THEN Resume(NodeID[v]) ELSE UNCHANGED <<paused, connections>>

\* RegisterListener calls OnValidatorAdded for the validators of a table: the
\* nodes that a listener without connections has paused afterwards.
RegisterListener(d) == {NodeID[v] : v \in {w \in Known(d) : ~d[w].active}}

-----------------------------------------------------------------------------
(* The table.                                                              *)

DeleteValidator(v) ==
    /\ data' = [data EXCEPT ![v] = NoVdr]
    /\ index' = [index EXCEPT ![NodeID[v]] = NoVdr]
    /\ updatedData' = [updatedData EXCEPT ![v] = "deleted"]
    /\ OnValidatorRemoved(v)

\* addData refuses a validation ID or a node that it has.
MayAdd(v) == data[v] = NoVdr /\ index[NodeID[v]] = NoVdr

AddValidator(v, active) ==
    LET d == [up |-> 0, last |-> StartTime[v], active |-> active]
    IN  /\ MayAdd(v)
        /\ index' = [index EXCEPT ![NodeID[v]] = v]
        /\ updatedData' = [updatedData EXCEPT ![v] = "updated"]
        /\ OnValidatorAdded(v, d, active)

\* A mutant: a change of the status is not marked.
UpdateValidatorUnmarked(v, active) ==
    /\ data[v] # NoVdr
    /\ IF data[v].active # active
       THEN StatusUpdated(v, [data[v] EXCEPT !.active = active])
       ELSE UNCHANGED <<data, paused, connections>>
    /\ UNCHANGED <<index, updatedData>>

\* The weight may have changed or not.
UpdateValidator(v, active) ==
    /\ data[v] # NoVdr
    /\ \/ /\ data[v].active # active
          /\ StatusUpdated(v, [data[v] EXCEPT !.active = active])
          /\ updatedData' = [updatedData EXCEPT ![v] = "updated"]
       \/ /\ data[v].active = active
          /\ updatedData' \in {updatedData, [updatedData EXCEPT ![v] = "updated"]}
          /\ UNCHANGED <<data, paused, connections>>
    /\ UNCHANGED index

\* The listener is told even when the status is the old one.
SetStatus(v, active) ==
    /\ NoCall
    /\ data[v] # NoVdr
    /\ StatusUpdated(v, [data[v] EXCEPT !.active = active])
    /\ updatedData' = [updatedData EXCEPT ![v] = "updated"]
    /\ UNCHANGED <<index, disk, lost, connected, tracking, now, sync>>

-----------------------------------------------------------------------------
(* What is read of a validator.                                            *)

GetStartTime(n) == StartTime[index[n]]

GetValidator(v) ==
    IF data[v] = NoVdr THEN NoVdr
    ELSE [validationID |-> v, node |-> NodeID[v], start |-> StartTime[v],
          active |-> data[v].active]

\* The entry is looked up by the node of the validator.
GetValidatorAndUptime(v) ==
    LET vdr == GetValidator(v) IN
    IF data[v] = NoVdr THEN NoVdr
    ELSE [vdr |-> vdr, uptime |-> CalculateUptime(data[index[vdr.node]], vdr.node)]

\* A fraction; all of no time is one.
CalculateUptimePercentFrom(n, start) ==
    LET d == CalculateUptime(data[index[n]], n) IN
    IF d.last = start THEN [up |-> 1, of |-> 1] ELSE [up |-> d.up, of |-> d.last - start]

CalculateUptimePercent(n) == CalculateUptimePercentFrom(n, GetStartTime(n))

-----------------------------------------------------------------------------
(* Sync                                                                    *)

\* GetCurrentValidatorSet answers, and loadValidators notes what it knows; an
\* error ends the call before anything has changed. A manager that NewManager
\* made has no ValidatorState to ask: these are the calls of one that has.
BeginSync ==
    /\ NoCall
    /\ \/ \E S \in CurrentSets :
            sync' = [pc |-> "load", set |-> S, known |-> Known(data), todo |-> Known(S)]
       \/ UNCHANGED sync
    /\ UNCHANGED <<tableVars, disk, lost, uptimeVars, now>>

Stale == {v \in Known(data) : sync.set[v] = NoVdr}

SyncDeletes(v) ==
    /\ sync.pc = "load"
    /\ v \in Stale
    /\ DeleteValidator(v)
    /\ UNCHANGED <<disk, lost, connected, tracking, now, sync>>

\* The deletions come first; the rest is in the order of a Go map.
MayLoad(v) == sync.pc = "load" /\ Stale = {} /\ v \in sync.todo

SyncUpdates(v) ==
    /\ MayLoad(v)
    /\ v \in sync.known
    /\ UpdateValidator(v, sync.set[v])
    /\ sync' = [sync EXCEPT !.todo = @ \ {v}]
    /\ UNCHANGED <<disk, lost, connected, tracking, now>>

SyncAdds(v) ==
    /\ MayLoad(v)
    /\ v \notin sync.known
    /\ AddValidator(v, sync.set[v])
    /\ sync' = [sync EXCEPT !.todo = @ \ {v}]
    /\ UNCHANGED <<disk, lost, connected, tracking, now>>

\* loadValidators returns the error of AddValidator.
SyncConflict(v) == MayLoad(v) /\ v \notin sync.known /\ ~MayAdd(v)

\* The database after the batch.
Written ==
    [v \in ValidationIDs |->
        CASE updatedData[v] = "updated" -> data[v]
          [] updatedData[v] = "deleted" -> NoVdr
          [] OTHER -> disk[v]]

\* The markers are removed while the batch is filled; then it is written, as a
\* whole or not at all.
WriteState ==
    /\ sync.pc = "load"
    /\ Stale = {} /\ sync.todo = {}
    /\ updatedData' = [v \in ValidationIDs |-> NoVdr]
    /\ \/ disk' = Written /\ UNCHANGED lost
       \/ lost' = TRUE /\ UNCHANGED disk
    /\ sync' = NoSync
    /\ UNCHANGED <<data, index, uptimeVars, now>>

-----------------------------------------------------------------------------
Tick ==
    /\ now' \in ClockTimes
    /\ UNCHANGED <<tableVars, disk, lost, uptimeVars, sync>>

\* addData accepts every entry on disk, in whatever order they come.
Loadable(d) == \A v, w \in Known(d) : NodeID[v] = NodeID[w] => v = w

\* The process stops at any time; NewManager loads the table and registers the
\* uptime manager with it, which pauses the inactive validators.
RestartManager ==
    /\ Loadable(disk)
    /\ data' = disk
    /\ index' = [n \in Nodes |->
                   IF \E v \in Known(disk) : NodeID[v] = n
                   THEN CHOOSE v \in Known(disk) : NodeID[v] = n ELSE NoVdr]
    /\ updatedData' = [v \in ValidationIDs |-> NoVdr]
    /\ lost' = FALSE
    /\ paused' = RegisterListener(disk)
    /\ connected' = {}
    /\ connections' = [n \in Nodes |-> NoVdr]
    /\ tracking' = FALSE
    /\ sync' = NoSync
    /\ UNCHANGED <<disk, now>>

VdrsInit ==
    /\ data = [v \in ValidationIDs |-> NoVdr]
    /\ index = [n \in Nodes |-> NoVdr]
    /\ updatedData = [v \in ValidationIDs |-> NoVdr]
    /\ disk = [v \in ValidationIDs |-> NoVdr]
    /\ lost = FALSE
    /\ paused = {} /\ connected = {}
    /\ connections = [n \in Nodes |-> NoVdr]
    /\ tracking = FALSE
    /\ now \in ClockTimes
    /\ sync = NoSync

VdrsNext ==
    \/ BeginSync \/ WriteState \/ Tick \/ RestartManager
    \/ \E v \in ValidationIDs : SyncDeletes(v) \/ SyncUpdates(v) \/ SyncAdds(v)
    \/ \E v \in ValidationIDs, a \in BOOLEAN : SetStatus(v, a)
    \/ \E N \in SUBSET Nodes : StartTracking(N) \/ StopTracking(N)
    \/ \E n \in Nodes : Connect(n) \/ Disconnect(n)

VdrsSpec == VdrsInit /\ [][VdrsNext]_vdrsVars

-----------------------------------------------------------------------------
\* Tables hold validator data, a connection its time, and a sync that is under
\* way an answer about every validator that it has still to load.
VdrsTypeOK ==
    /\ data \in [ValidationIDs -> Data \cup {NoVdr}]
    /\ index \in [Nodes -> ValidationIDs \cup {NoVdr}]
    /\ updatedData \in [ValidationIDs -> {"updated", "deleted", NoVdr}]
    /\ disk \in [ValidationIDs -> Data \cup {NoVdr}]
    /\ lost \in BOOLEAN
    /\ paused \subseteq Nodes /\ connected \subseteq Nodes
    /\ connections \in [Nodes -> Int \cup {NoVdr}]
    /\ tracking \in BOOLEAN
    /\ now \in Int
    /\ sync \in [pc : {"idle", "load"}, set : CurrentSets,
                known : SUBSET ValidationIDs, todo : SUBSET ValidationIDs]
    /\ \A v \in sync.todo : sync.set[v] # NoVdr

\* The table and its index are inverse to each other after any sequence of
\* additions, deletions and loads: a node has one validation ID at most.
IndexInverse ==
    /\ \A v \in Known(data) : index[NodeID[v]] = v
    /\ \A n \in Nodes : index[n] # NoVdr =>
          index[n] \in Known(data) /\ NodeID[index[n]] = n

\* "we should never have a connected paused node": whatever the order of
\* pauses, resumes, connects and disconnects, the inner manager has exactly the
\* connected nodes that are not paused, so errPausedDisconnect never occurs.
ConnectionsMatch ==
    {n \in Nodes : connections[n] # NoVdr} = connected \ paused

\* The nodes that are paused are the inactive validators and no others, though
\* the table only tells its listener about changes.
PausedAreInactive ==
    paused = {NodeID[v] : v \in {w \in Known(data) : ~data[w].active}}

\* However often nodes connect, pause and are saved, and whatever the clock
\* does, the uptime of a validator never exceeds the time since its start.
UptimeBounded ==
    \A v \in Known(data) : data[v].up <= data[v].last - StartTime[v]

\* Whatever the clock does between the reads, the uptime that is reported for a
\* validator is that of its own entry brought up to now, and the share of its
\* time that it was up is a share: between nothing and all of it.
ReportedUptime ==
    \A v \in Known(data) :
        LET p == CalculateUptimePercent(NodeID[v]) IN
        /\ GetValidatorAndUptime(v).uptime = CalculateUptime(data[v], NodeID[v])
        /\ 0 <= p.up /\ p.up <= p.of /\ 0 < p.of

\* A sync never meets the node of a new validator under its old validation ID.
SyncNeverConflicts == \A v \in ValidationIDs : ~SyncConflict(v)

\* The table, its index, the paused nodes and the connections tell the same story
\* at every step of a sync, whatever else happens between its steps.
TablesAgree ==
    IndexInverse /\ ConnectionsMatch /\ PausedAreInactive /\ SyncNeverConflicts

\* What is stored and what is reported of an uptime is never more than the time.
UptimesTrue == UptimeBounded /\ ReportedUptime

\* Unless a batch was lost, what is not marked is on disk as it is in memory,
\* and the disk can be loaded.
UnmarkedOnDisk ==
    ~lost => /\ \A v \in ValidationIDs : updatedData[v] = NoVdr => disk[v] = data[v]
             /\ Loadable(disk)

\* No call takes uptime back, or makes a time count that has been counted: the
\* time of the last update only moves forward. (A stop loses unsaved uptime.)
UptimeNeverTaken ==
    [][\/ RestartManager
       \/ \A v \in Known(data) \cap Known(data') :
             data[v].up <= data'[v].up /\ data[v].last <= data'[v].last]_vdrsVars

\* A validator marked as deleted "will be deleted from disk when WriteState is
\* called": no deleted validator stays on disk beside the one that replaced it,
\* where NewState would refuse to load them.
DiskLoads == Loadable(disk)
=============================================================================
