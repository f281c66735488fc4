----------------------------- MODULE SnowmanVM -----------------------------
(***************************************************************************)
(* The VM under the consensus engine that drives it. The engine is         *)
(* external: what it does is read off the handlers' contract in vm/vm.go   *)
(* and off the calls of vm/vm_test.go. It issues a block once its parent   *)
(* is accepted or issued, accepts a child of the last accepted block, and  *)
(* rejects the conflicting blocks before it does anything else. All nodes  *)
(* decide alike: the blocks that are accepted anywhere form one chain.     *)
(***************************************************************************)
EXTENDS LandslideVM

VARIABLES
    canon,   \* the blocks that the network accepts; chosen once
    issued   \* verified blocks that wait for a decision

engineVars == <<canon, issued>>
allVars == <<vars, engineVars>>

Chains ==
    {C \in SUBSET WellFormed :
        /\ Genesis \in C
        /\ \A b \in C \ {Genesis} :
              Parent[b] \in C /\ Height[b] = Height[Parent[b]] + 1
        /\ \A b, c \in C : Height[b] = Height[c] => b = c}

\* A node encodes a block with the status that the block has at that node;
\* every node makes the genesis block itself, as an accepted one.
OnWire(b, s) ==
    \/ s = "PROCESSING" /\ b # Genesis
    \/ s = "ACCEPTED" /\ b \in canon
    \/ s = "REJECTED" /\ b \notin canon

\* Issued blocks that lost to an accepted sibling, or whose parent did.
Conflicts == {b \in issued : Parent[b] \notin issued \cup {last}}

-----------------------------------------------------------------------------
Build ==
    /\ Conflicts = {}
    /\ \E b \in Blocks : BuildBlock(b)
    /\ UNCHANGED engineVars

Parse ==
    /\ Conflicts = {}
    /\ \E b \in Blocks, s \in Status : OnWire(b, s) /\ ParseBlock(b, s)
    /\ UNCHANGED engineVars

Issue(b) ==
    /\ Conflicts = {}
    /\ b \notin issued
    /\ Parent[b] \in issued \cup {last}
    /\ \E s \in Status : OnWire(b, s) /\ BlockVerify(b, s)
    /\ issued' = issued \cup {b}
    /\ UNCHANGED canon

\* The engine's side of an acceptance and of a rejection.
MayAccept(b) == Conflicts = {} /\ b \in issued \cap canon /\ Parent[b] = last
MayReject(b) == b \in Conflicts

Accept(b) ==
    /\ MayAccept(b)
    /\ BlockAccept(b)
    /\ issued' = issued \ {b}
    /\ UNCHANGED canon

\* The application fails, and the engine stops the chain.
AcceptFails(b) ==
    /\ MayAccept(b)
    /\ BlockAcceptFails(b)
    /\ UNCHANGED engineVars

Reject(b) ==
    /\ MayReject(b)
    /\ BlockReject(b)
    /\ issued' = issued \ {b}
    /\ UNCHANGED canon

Get == GetBlockStep(Engine) /\ UNCHANGED engineVars

\* A new engine starts from the last accepted block with nothing issued.
RestartNode == Restart /\ issued' = {} /\ UNCHANGED canon

Sign == RPCNext /\ UNCHANGED engineVars

SnowmanInit == Init /\ canon \in Chains /\ issued = {}

SnowmanEngine ==
    \/ Build \/ Parse \/ Get \/ RestartNode
    \/ \E b \in Blocks : Issue(b) \/ Accept(b) \/ AcceptFails(b) \/ Reject(b)

SnowmanNext == SnowmanEngine \/ Sign

SnowmanSpec == SnowmanInit /\ [][SnowmanNext]_allVars
SnowmanSerialSpec == SnowmanInit /\ [][SnowmanEngine]_allVars

-----------------------------------------------------------------------------
\* A decision that the engine has taken is never refused by the VM itself (the
\* application may fail while it is carried out): the wrapper of an
\* issued block cannot have left the caches, and the state it was validated
\* against is still the VM's state when its turn comes. (An error from
\* BlockAccept or BlockReject stops the chain.)
DecisionsSucceed ==
    \A b \in Blocks :
        /\ MayAccept(b) => GetCachedBlock(b) # None /\ ValidateBlock(b)
        /\ MayReject(b) => GetCachedBlock(b) # None

\* VerifiedBlocks, the one cache without a bound, holds the blocks in consensus
\* and nothing else: a decided block is never left behind in it.
VerifiedIsIssued == {b \in Blocks : verified[b] # None} = issued

\* While calls are serialised, the wrapper that BlockVerify made, which GetBlock
\* copies to UnverifiedBlocks, does not go on saying "processing" once the
\* block is decided: BlockAccept evicts it and BlockReject writes through it.
NoStaleProcessing ==
    \A b \in Blocks \ issued :
        unverified[b] # None /\ unverified[b].by = "verify" =>
            unverified[b].status = "REJECTED"

\* The caches follow consensus: what is in it is verified, what has left it is not
\* and does not pass for a block in it.
CachesFollowConsensus == VerifiedIsIssued /\ NoStaleProcessing
=============================================================================
