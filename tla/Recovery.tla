------------------------------ MODULE Recovery ------------------------------
(***************************************************************************)
(* What is on disk when the process stops inside BlockAccept or inside     *)
(* Initialize, and what the next Initialize makes of it. A block is        *)
(* applied in steps that reach three stores in this order: the             *)
(* application, the state store and, last, the block store                 *)
(* (vm/vm.go, vm/types/state/executor.go). Only heights matter here.       *)
(* The handshake is CometBFT's and external: it compares the three heights *)
(* and replays stored blocks into an application that is behind.           *)
(***************************************************************************)
EXTENDS Integers

CONSTANTS
    RetainHeights,  \* ResponseCommit.RetainHeight values of the application
    MaxHeight,      \* bound: the last block that the engine accepts
    MaxStops        \* bound: how often the process stops

ASSUME RecoveryAssumption ==
    /\ RetainHeights \subseteq Nat
    /\ MaxHeight \in Nat
    /\ MaxStops \in Nat

VARIABLES
    pc,      \* where the process is
    app,     \* height that the application has committed
    state,   \* LastBlockHeight in the state store
    store,   \* height of the block store; 0 when it is empty
    base,    \* lowest height that the block store holds; 0 when it is empty
    mem,     \* vm.state.LastBlockHeight
    acked,   \* height that the engine was last told is accepted
    stops,
    durable  \* the application keeps its state across restarts; chosen once

vars == <<pc, app, state, store, base, mem, acked, stops, durable>>

disk == <<app, state, store, base>>

Applying == {"finalize", "commit", "save", "prune", "block", "resave"}
Starting == {"load", "handshake", "last"}
PCs == Applying \cup Starting \cup {"down", "ready", "failed"}

-----------------------------------------------------------------------------
(* Initialize                                                              *)

\* LoadStateFromDBOrGenesisDocProvider
LoadState ==
    /\ pc = "down"
    /\ pc' = "load"
    /\ mem' = state
    /\ UNCHANGED <<disk, acked, stops, durable>>

\* External: the constraints that Handshaker.ReplayBlocks puts on the heights.
AppTooLow == (app = 0 /\ base > 1) \/ (app > 0 /\ app < base - 1)
HeightsRefused ==
    store > 0 /\ (AppTooLow \/ store < app \/ store < state \/ store > state + 1)

\* External: with an empty block store the handshake only compares the hash of
\* the application with the one in the state, which may be equal by chance.
HashMayDiffer == store = 0 /\ app # state

HandshakeRefuses ==
    /\ pc = "load"
    /\ HeightsRefused \/ HashMayDiffer
    /\ pc' = "failed"
    /\ UNCHANGED <<disk, mem, acked, stops, durable>>

HandshakeBegins ==
    /\ pc = "load"
    /\ ~HeightsRefused
    /\ pc' = "handshake"
    /\ UNCHANGED <<disk, mem, acked, stops, durable>>

\* External: one stored block is executed and committed; one that the state
\* store does not have yet is applied to it too.
ReplayBlock ==
    /\ pc = "handshake"
    /\ app < store
    /\ app' = app + 1
    /\ state' = IF app + 1 > state THEN app + 1 ELSE state
    /\ UNCHANGED <<pc, store, base, mem, acked, stops, durable>>

HandshakeEnds ==
    /\ pc = "handshake"
    /\ app >= store
    /\ pc' = "last"
    /\ state' = IF store > state THEN store ELSE state
    /\ mem' = state'
    /\ UNCHANGED <<app, store, base, acked, stops, durable>>

\* A state above height 0 needs its last block; encoding a nil block fails.
LoadLastBlock ==
    /\ pc = "last"
    /\ mem > 0
    /\ IF store > 0 /\ mem \in base .. store
       THEN pc' = "ready" /\ acked' = mem
       ELSE pc' = "failed" /\ UNCHANGED acked
    /\ UNCHANGED <<disk, mem, stops, durable>>

\* A mutant: the genesis block is made for a state at height 1.
CreateGenesisOffByOne ==
    /\ pc = "last"
    /\ mem = 1
    /\ pc' = "finalize"
    /\ UNCHANGED <<disk, mem, acked, stops, durable>>

CreateGenesis ==
    /\ pc = "last"
    /\ mem = 0
    /\ pc' = "finalize"
    /\ UNCHANGED <<disk, mem, acked, stops, durable>>

-----------------------------------------------------------------------------
(* BlockAccept, and the same steps for the genesis block in Initialize.    *)

BlockAccept ==
    /\ pc = "ready"
    /\ mem < MaxHeight
    /\ pc' = "finalize"
    /\ UNCHANGED <<disk, mem, acked, stops, durable>>

\* FinalizeBlock and SaveFinalizeBlockResponse; external: an application
\* executes the block after the one it has committed and no other.
FinalizeBlock ==
    /\ pc = "finalize"
    /\ pc' = IF app = mem THEN "commit" ELSE "failed"
    /\ UNCHANGED <<disk, mem, acked, stops, durable>>

Commit ==
    /\ pc = "commit"
    /\ app' = mem + 1
    /\ pc' = "save"
    /\ UNCHANGED <<state, store, base, mem, acked, stops, durable>>

\* A mutant: the call returns without saving the block.
SaveStateReturns ==
    /\ pc = "save"
    /\ state' = mem + 1
    /\ mem' = mem + 1
    /\ acked' = mem + 1
    /\ pc' = "ready"
    /\ UNCHANGED <<app, store, base, stops, durable>>

SaveState ==
    /\ pc = "save"
    /\ state' = mem + 1
    /\ pc' = "prune"
    /\ UNCHANGED <<app, store, base, mem, acked, stops, durable>>

PruneBlocks ==
    /\ pc = "prune"
    /\ \E r \in RetainHeights :
          base' = IF r > base /\ r <= store THEN r ELSE base
    /\ pc' = "block"
    /\ UNCHANGED <<app, state, store, mem, acked, stops, durable>>

SaveBlock ==
    /\ pc = "block"
    /\ store' = mem + 1
    /\ base' = IF base = 0 THEN mem + 1 ELSE base
    /\ pc' = "resave"
    /\ UNCHANGED <<app, state, mem, acked, stops, durable>>

\* A mutant: vm.state keeps the old state.
ReturnAcceptedOldState ==
    /\ pc = "resave"
    /\ state' = mem + 1
    /\ acked' = mem + 1
    /\ pc' = "ready"
    /\ UNCHANGED <<app, store, base, mem, stops, durable>>

\* The state is saved again, becomes vm.state, and the call returns.
ReturnAccepted ==
    /\ pc = "resave"
    /\ state' = mem + 1
    /\ mem' = mem + 1
    /\ acked' = mem + 1
    /\ pc' = "ready"
    /\ UNCHANGED <<app, store, base, stops, durable>>

-----------------------------------------------------------------------------
\* The process stops: by a crash or a signal at any step, or because a step
\* failed. An application that is not durable starts again from nothing.
Stop ==
    /\ pc # "down"
    /\ stops < MaxStops
    /\ pc' = "down"
    /\ app' = IF durable THEN app ELSE 0
    /\ mem' = 0
    /\ stops' = stops + 1
    /\ UNCHANGED <<state, store, base, acked, durable>>

Init ==
    /\ pc = "down"
    /\ app = 0 /\ state = 0 /\ store = 0 /\ base = 0
    /\ mem = 0 /\ acked = 0 /\ stops = 0
    /\ durable \in BOOLEAN

Initialize ==
    \/ HandshakeRefuses \/ HandshakeBegins \/ ReplayBlock \/ HandshakeEnds
    \/ LoadLastBlock \/ CreateGenesis

ApplyBlock ==
    \/ FinalizeBlock \/ Commit \/ SaveState \/ PruneBlocks \/ SaveBlock
    \/ ReturnAccepted

Next == LoadState \/ Initialize \/ BlockAccept \/ ApplyBlock \/ Stop

Spec == Init /\ [][Next]_vars

\* A call that has begun goes on unless the process stops.
FairSpec == Spec /\ WF_vars(Initialize \/ ApplyBlock)

-----------------------------------------------------------------------------
\* The process is at a step of Initialize or of BlockAccept, is down, idle or
\* has given up, and heights are natural numbers.
TypeOK ==
    /\ pc \in PCs
    /\ app \in Nat /\ state \in Nat /\ store \in Nat /\ base \in Nat
    /\ mem \in Nat /\ acked \in Nat /\ stops \in Nat
    /\ durable \in BOOLEAN

\* A stop inside BlockAccept never loses a block that the engine was told is
\* accepted, and leaves the stores at most one block apart: the state store is
\* the block store's height or one above it, the application is never further.
StoresWithinOne ==
    /\ acked <= store /\ store <= acked + 1
    /\ store <= state /\ state <= store + 1
    /\ app <= store + 1

\* After any sequence of stops, a VM that Initialize has let through is at one
\* height everywhere: memory, application, both stores and the engine.
ReadyAgrees ==
    pc = "ready" => app = mem /\ state = mem /\ store = mem /\ acked = mem

\* The disk of a process that stopped between the application's Commit and
\* SaveBlock.
Torn == app > store \/ state > store

\* An application that lost its state needs blocks that were pruned.
Unreplayable == ~durable /\ base > 1

\* Initialize gives up only on such disks.
FailsOnlyWhenTorn == pc = "failed" => Torn \/ Unreplayable

\* Initialize lets a VM through only if all of it agrees, and gives up only on a
\* disk that it cannot make agree.
InitializeHonest == ReadyAgrees /\ FailsOnlyWhenTorn

\* Starting on any other disk, Initialize reaches a ready VM unless the process
\* is stopped again: replay terminates.
RestartCompletes ==
    (pc = "load" /\ ~Torn /\ ~Unreplayable) ~> (pc \in {"ready", "down"})

\* "if we crash between Commit and Save, events wont be fired during replay":
\* the executor expects that a restart replays the block. Here the block is
\* saved after the state, so there is nothing to replay it from.
RestartSucceeds == durable => pc # "failed"
=============================================================================
