------------------------------ MODULE MCChain ------------------------------
(***************************************************************************)
(* The chain, those it serves and who validates it, one component per      *)
(* behaviour: part says which. The others stay as they are at the start.   *)
(* The variables of SnowmanVM, Execution, Serving and Validators are their *)
(* own; those of HttpProxy, VdrManager and Claims share w1 .. w9, in the   *)
(* order of declaration.                                                   *)
(***************************************************************************)
EXTENDS MCSnowmanVM, Execution, Serving, Validators, TLC

CONSTANTS
    HeaderKeys, HeaderValues, StatusCodes, Payloads,      \* HttpProxy, requests
    MaxCalls,
    MaxBytes, BufSize,                                    \* and bytes read
    MaxWritten, WriteBufSize, Times, Past,                \* and written
    v1, v2, n1,                                           \* Validators
    VdrSubnets, VdrNodes, MaxWeight, MaxSets,             \* VdrManager
    Conns, Far, ClaimAddresses, MaxClock, MaxChanges,     \* Claims
    MaxDifference, Skews

\* One validator in the genesis document; a second may join.
MCGenesisVals == (1 :> 1)

MCPowers == {-1, 0, 2}

\* Two validation IDs of one node; the other node is never a validator.
MCNodeID == [v \in ValidationIDs |-> n1]

MCStartTime == [v \in ValidationIDs |-> IF v = v1 THEN 0 ELSE 1]

\* An address whose form changes on the way, and another one.
MCAddresses ==
    LET At(form, a, port) == [addr |-> [form |-> form, a |-> a], port |-> port]
    IN {At("4in6", "x", 1), At("v6", "y", 0)}

MCSkews == {-1, 1}

VARIABLES part, w1, w2, w3, w4, w5, w6, w7, w8, w9

shared == <<w1, w2, w3, w4, w5, w6, w7, w8, w9>>
serveVars == <<readsVars, txVars, warpVars>>
mcVars == <<part, allVars, execVars, serveVars, vdrsVars, shared>>

Proxy == INSTANCE HttpProxy WITH
    node <- w1, handle <- w2, w <- w3, headerWritten <- w4, header <- w5, direct <- w6,
    servers <- w7, calls <- w8, doubt <- w9,
    wire <- w1, nodeBuf <- w2, vmBuf <- w3, early <- w4, got <- w5, ways <- w6,
    sent <- w7, broken <- w8, told <- w9,
    taken <- w1

Manager == INSTANCE VdrManager WITH vm <- w1

Claim == INSTANCE Claims WITH
    Addresses <- ClaimAddresses,
    ip <- w1, clock <- w2, signedIP <- w3, call <- w4, wire <- w5, known <- w6,
    skew <- w7, signed <- w8, refused <- w9

-----------------------------------------------------------------------------

\* The components while another one runs.
EngineStill == SnowmanInit /\ canon = {Genesis}
ReadsStill == ReadsInit /\ indexed = {}
VdrsStill == VdrsInit /\ \A t \in ClockTimes : now <= t
From2 == w2 = 0 /\ w3 = 0 /\ w4 = 0 /\ w5 = 0 /\ w6 = 0 /\ w7 = 0 /\ w8 = 0 /\ w9 = 0

SharedInit ==
    \/ part = "proxy" /\ Proxy!ProxyInit
    \/ part = "hijack" /\ Proxy!HijackInit
    \/ part = "taken" /\ Proxy!TakenInit /\ From2
    \/ part = "manager" /\ Manager!VdrInit /\ From2
    \/ part = "claims" /\ Claim!ClaimInit
    \/ /\ part \in {"engine", "execution", "reads", "txs", "warp", "validators"}
       /\ w1 = 0 /\ From2

MCInit ==
    /\ SharedInit
    /\ IF part = "engine" THEN SnowmanInit ELSE EngineStill
    /\ ExecInit
    /\ IF part = "reads" THEN ReadsInit ELSE ReadsStill
    /\ TxInit /\ WarpInit
    /\ IF part = "validators" THEN VdrsInit ELSE VdrsStill

InServing(p, A) == part = p /\ A /\ UNCHANGED <<part, allVars, execVars, vdrsVars, shared>>
InShared(p, A) == part = p /\ A /\ UNCHANGED <<part, allVars, execVars, serveVars, vdrsVars>>

MCNext ==
    \/ /\ part = "engine" /\ SnowmanEngine
       /\ UNCHANGED <<part, execVars, serveVars, vdrsVars, shared>>
    \/ /\ part = "execution" /\ ExecNext
       /\ UNCHANGED <<part, allVars, serveVars, vdrsVars, shared>>
    \/ /\ part = "validators" /\ VdrsNext
       /\ UNCHANGED <<part, allVars, execVars, serveVars, shared>>
    \/ InServing("reads", ReadsNext) /\ UNCHANGED <<txVars, warpVars>>
    \/ InServing("txs", TxNext) /\ UNCHANGED <<readsVars, warpVars>>
    \/ InServing("warp", WarpNext) /\ UNCHANGED <<readsVars, txVars>>
    \/ InShared("proxy", Proxy!ProxyNext)
    \/ InShared("hijack", Proxy!HijackNext)
    \/ InShared("taken", Proxy!TakenNext) /\ UNCHANGED <<w2, w3, w4, w5, w6, w7, w8, w9>>
    \/ InShared("manager", Manager!VdrNext) /\ UNCHANGED <<w2, w3, w4, w5, w6, w7, w8, w9>>
    \/ InShared("claims", Claim!ClaimNext)

MCSpec == MCInit /\ [][MCNext]_mcVars

-----------------------------------------------------------------------------
(* The properties of the modules that share variables, each of its part.   *)

Ops == {[status |-> c] : c \in StatusCodes} \cup {[write |-> p] : p \in Payloads}
       \cup {[key |-> k, value |-> v] : k \in HeaderKeys, v \in HeaderValues}

\* The client of a request that is no upgrade sees what the handler wrote, for
\* all handlers of up to three calls.
SimpleTransparent ==
    w8 = 0 => \A n \in 0..3 : \A ops \in [1..n -> Ops] : Proxy!SimpleTransparent(w3, ops)

Maps == [HeaderKeys -> HeaderValues \cup {None}]
Users == {None} \cup [username : {"u"}, password : {None, "", "p"}]
Certs == {<<>>, <<1>>, <<1, 2>>, <<2, 1>>}
IncomingRequests ==
    [header : Maps, form : Maps, url : {None} \cup [path : {"x"}, user : Users],
     tls : {None} \cup [peers : Certs, chains : {<<>>} \cup {<<c>> : c \in Certs}
                                             \cup {<<c, d>> : c, d \in Certs}]]

\* The handler is given the request that came in.
RequestCarried ==
    w1 = "start" =>
        \A r \in IncomingRequests :
            r.header = w3.header => Proxy!RequestCarried(r, [path |-> "line", user |-> None])

\* HttpProxy: the handler is given the request that came in, the client sees what
\* the handler wrote, nothing is left open behind a request, and a connection
\* that was taken over carries the bytes of both sides in order or fails for a
\* reason that the handler knows.
ProxyTransparent ==
    /\ part = "proxy" => /\ Proxy!ProxyTransparent /\ Proxy!NothingLeftOpen
                         /\ SimpleTransparent /\ RequestCarried
    /\ part = "hijack" => Proxy!HijackedInOrder
    /\ part = "taken" => Proxy!HijackedWritesInOrder /\ Proxy!FailsForAReason

\* VdrManager: no weight is lost or made up, the slices and indices of a set belong
\* to its validators, a listener's map is the manager's, and a total that is read
\* was the total at some moment of the call.
WeightsAccounted ==
    part = "manager" =>
        /\ Manager!WeightsAccounted /\ Manager!VdrsIndexed
        /\ Manager!ListenersAgree /\ Manager!TotalWasTrue

\* Claims: a signed claim is to an address of the time of the call, an honest claim
\* is refused only for a clock or a delay, and what is tracked was signed and
\* keeps its meaning on the way.
ClaimsTrue ==
    part = "claims" =>
        Claim!ClaimOfTheMoment /\ Claim!HonestClaimsVerify /\ Claim!TrackedAsSigned
=============================================================================
