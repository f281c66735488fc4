---------------------------- MODULE AppMessages -----------------------------
(***************************************************************************)
(* Messages of applications: their routing to protocols, the warp messages and*)
(* their signatures, and the validators that the signatures are of.        *)
(***************************************************************************)
EXTENDS Integers, SequencesExt

-----------------------------------------------------------------------------
(***************************************************************************)
(* Who answers a request from a peer. The VM's network tries its codec     *)
(* first (utils/evm/peer/network.go); what does not unmarshal goes to the  *)
(* SDK router, which reads the protocol's identifier from the front        *)
(* (network/p2p/router.go, handler.go) and sends the handler's response or *)
(* error back. The two formats are told apart by their bytes alone.        *)
(*                                                                         *)
(* Messages are sequences of bytes in a small base. A node n is            *)
(* [closed, served, handlers]: whether its network is closed, whether the  *)
(* VM's handler is set, and the handlers of the router. A handler is       *)
(* [validators, answers]: whom it serves, and what it does.                *)
(***************************************************************************)

CONSTANTS
    Half,          \* half of the values of a byte: those without continuation
    MaxVarintLen,  \* binary.MaxVarintLen64
    IDLen,         \* length of the ID in a request of the codec
    None

-----------------------------------------------------------------------------
(* The identifier of a protocol, in front of a message                     *)

RECURSIVE AppendUvarint(_)
AppendUvarint(n) ==
    IF n < Half THEN <<n>> ELSE <<(n % Half) + Half>> \o AppendUvarint(n \div Half)

\* The value and the number of bytes, which is zero if it does not end; the
\* last byte of the longest may only be one bit.
RECURSIVE Uvarint(_, _, _)
Uvarint(b, i, unit) ==
    IF i > Len(b) \/ i > MaxVarintLen THEN [id |-> 0, read |-> 0]
    ELSE IF b[i] < Half
    THEN IF i = MaxVarintLen /\ b[i] > 1 THEN [id |-> 0, read |-> 0]
         ELSE [id |-> b[i] * unit, read |-> i]
    ELSE LET rest == Uvarint(b, i + 1, unit * Half)
         IN  IF rest.read = 0 THEN rest
             ELSE [id |-> (b[i] - Half) * unit + rest.id, read |-> rest.read]

ProtocolPrefix(id) == AppendUvarint(id)

PrefixMessage(prefix, msg) == prefix \o msg

ParsePrefix(b) ==
    LET v == Uvarint(b, 1, 1)
    IN  IF v.read = 0 THEN [ok |-> FALSE, id |-> 0, msg |-> <<>>]
        ELSE [ok |-> TRUE, id |-> v.id, msg |-> SubSeq(b, v.read + 1, Len(b))]

-----------------------------------------------------------------------------
(* The SDK router                                                          *)

ErrUnexpected == -1
ErrUnregisteredHandler == -2
ErrNotValidator == -3

NewRouter == [id \in {} |-> None]

AddHandler(handlers, id, h) ==
    IF id \in DOMAIN handlers THEN handlers
    ELSE [i \in DOMAIN handlers \cup {id} |-> IF i = id THEN h ELSE handlers[i]]

Parse(handlers, b) ==
    LET p == ParsePrefix(b)
    IN  [ok |-> p.ok /\ p.id \in DOMAIN handlers, id |-> p.id, msg |-> p.msg]

\* What came of a message: who got it and as what, and the replies.
Outcome(by, got, sent) == [by |-> by, got |-> got, sent |-> sent]

\* ValidatorHandler.AppRequest, around a handler; NoOpHandler answers nothing,
\* which is an empty response.
HandlerAnswer(h, node) ==
    IF node \notin h.validators THEN ErrNotValidator ELSE h.answers

\* responder.AppRequest
Respond(id, h, node, msg) ==
    Outcome(IF node \in h.validators THEN id ELSE None, msg,
            <<IF HandlerAnswer(h, node) \in {ErrUnexpected, ErrNotValidator}
              THEN [kind |-> "AppError", code |-> HandlerAnswer(h, node)]
              ELSE [kind |-> "AppResponse", code |-> 0]>>)

RouterAppRequest(handlers, node, b) ==
    LET p == Parse(handlers, b)
    IN  IF ~p.ok
        THEN Outcome(None, b, <<[kind |-> "AppError", code |-> ErrUnregisteredHandler]>>)
        ELSE Respond(p.id, handlers[p.id], node, p.msg)

\* Gossip is dropped where a request is refused.
RouterAppGossip(handlers, node, b) ==
    LET p == Parse(handlers, b)
    IN  IF p.ok /\ node \in handlers[p.id].validators THEN Outcome(p.id, p.msg, <<>>)
        ELSE Outcome(None, b, <<>>)

-----------------------------------------------------------------------------
(* The network of the VM                                                   *)

\* Unmarshal of message.Codec into a request: the two bytes of a version, which is
\* read and not looked at, the type, here one byte, and its fields. Of the
\* registered types, two are requests; nothing may be left over.
RequestTypes == {1, 2}
RequestLen == 3 + IDLen

CodecUnmarshal(b) ==
    IF Len(b) = RequestLen /\ b[3] \in RequestTypes
    THEN [ok |-> TRUE, type |-> b[3], id |-> SubSeq(b, 4, Len(b))]
    ELSE [ok |-> FALSE]

\* network.AppRequest, and Handle of the request: the VM's handler answers every
\* request with a signature or zeros, the one before it is set with nothing.
NetworkAppRequest(n, node, b, late) ==
    LET req == CodecUnmarshal(b)
    IN  IF n.closed THEN Outcome(None, b, <<>>)
        ELSE IF ~req.ok THEN RouterAppRequest(n.handlers, node, b)
        ELSE IF late THEN Outcome(None, b, <<>>)
        ELSE Outcome("vm", b, IF n.served THEN <<[kind |-> "AppResponse", code |-> 0]>> ELSE <<>>)

\* The handler of the VM: ToNodeID fails for a node ID of another length.
VMAppRequest(n, node, b, late) ==
    IF node = None THEN Outcome(None, b, <<>>) ELSE NetworkAppRequest(n, node, b, late)

-----------------------------------------------------------------------------
(* What is sent through the node (p2psender), and how an answer comes back *)

SendAppRequest(order, id, b) == [op |-> "AppRequest", nodes |-> order, id |-> id, bytes |-> b]
SendAppResponse(node, id) == [op |-> "AppResponse", nodes |-> <<node>>, id |-> id]
SendAppError(node, id) == [op |-> "AppError", nodes |-> <<node>>, id |-> id]

\* markRequestFulfilled, with the requests that are outstanding.
MarkRequestFulfilled(out, id) ==
    [handler |-> IF id \in DOMAIN out THEN out[id] ELSE None,
     out |-> [i \in DOMAIN out \ {id} |-> out[i]]]

\* The router's own requests: it never makes one, and so has none to clear.
ClearAppRequest(id) == FALSE

Unrequested == "unrequested"   \* ErrUnrequestedResponse, which is fatal

RouterAppResponse(id) == IF ClearAppRequest(id) THEN "response" ELSE Unrequested
RouterAppRequestFailed(id) == IF ClearAppRequest(id) THEN "failure" ELSE Unrequested

NetworkAppResponse(out, id) ==
    LET m == MarkRequestFulfilled(out, id)
    IN  [to |-> m.handler, out |-> m.out,
         as |-> IF m.handler = None THEN RouterAppResponse(id) ELSE "response"]

NetworkAppRequestFailed(out, id) ==
    LET m == MarkRequestFulfilled(out, id)
    IN  [to |-> m.handler, out |-> m.out,
         as |-> IF m.handler = None THEN RouterAppRequestFailed(id) ELSE "failure"]

\* The VM's handlers, for an answer of a node with a well-formed ID.
VMAppResponse(out, id) == NetworkAppResponse(out, id)
VMAppRequestFailed(out, id) == NetworkAppRequestFailed(out, id)

\* External: the node passes a reply on, and reports a request without one, or
\* with an error, as failed.
Returned(out, reply) ==
    IF reply.op = "AppResponse" THEN VMAppResponse(out, reply.id)
    ELSE VMAppRequestFailed(out, reply.id)

ReplyOf(n, node, request, late) ==
    LET q == VMAppRequest(n, node, request.bytes, late)
    IN  IF q.sent # <<>> /\ q.sent[1].kind = "AppResponse" THEN SendAppResponse(node, request.id)
        ELSE SendAppError(node, request.id)

-----------------------------------------------------------------------------
\* A message for a protocol reaches the handler registered for it and no other,
\* without its prefix and as it was, whatever its bytes: no shorter identifier
\* claims it. Gossip always does; of the requests those that are not as long as
\* one of the VM's own, which the VM's codec tries first and takes by the byte
\* where the type would be.
RoutedToOwner(n, node, id, msg, late) ==
    LET b == PrefixMessage(ProtocolPrefix(id), msg)
        q == VMAppRequest(n, node, b, late)
        g == RouterAppGossip(n.handlers, node, b)
        served == id \in DOMAIN n.handlers /\ node \in n.handlers[id].validators
    IN  /\ g.by = (IF served THEN id ELSE None)
        /\ served => g = Outcome(id, msg, <<>>)
        /\ ~n.closed /\ Len(b) # RequestLen =>
              /\ q.by = (IF served THEN id ELSE None)
              /\ served => q.got = msg

\* A request is answered once: the only ones without a reply are those that come
\* when the network is closed, a late one of the codec, or one of the codec
\* before the VM has set its handler.
RequestAnswered(n, node, b, late) ==
    LET q == VMAppRequest(n, node, b, late)
    IN  /\ Len(q.sent) <= 1
        /\ q.sent = <<>> => n.closed \/ (CodecUnmarshal(b).ok /\ (late \/ ~n.served))

\* Of a request that another node answers, refuses or drops, the one handler that
\* waits for it learns exactly once, as a response only if it was answered with
\* one; the other requests keep waiting; and an answer that comes again finds no
\* handler.
RequestRoundTrip(n, node, out, id, b, late) ==
    LET reply == ReplyOf(n, node, SendAppRequest(<<node>>, id, b), late)
        first == Returned(out, reply)
        again == Returned(first.out, reply)
        q == VMAppRequest(n, node, b, late)
    IN  id \in DOMAIN out =>
            /\ first.to = out[id]
            /\ first.as = IF \E i \in DOMAIN q.sent : q.sent[i].kind = "AppResponse"
                          THEN "response" ELSE "failure"
            /\ first.out = [i \in DOMAIN out \ {id} |-> out[i]]
            /\ again.to = None

-----------------------------------------------------------------------------
(***************************************************************************)
(* Warp messages from end to end: how a message and its payload are        *)
(* written and parsed (utils/avalanche/warp, payload), which bytes a       *)
(* signature covers (signer.go, and gwarp for a signer in another          *)
(* process; utils/crypto/bls), and how a node fetches the signature of     *)
(* another one, over the network (aggregator/signature_getter.go) or from  *)
(* its API (warp/fetcher.go, client.go, vm/warp_service.go).               *)
(*                                                                         *)
(* Encodings are records: what is encoded, and extra, whether bytes are    *)
(* left over, which the codec refuses. Hashes have no collisions. External *)
(* is blst: a signature is who signed, what, and in which suite.           *)
(***************************************************************************)

Err == [err |-> TRUE]
Ok(v) == [err |-> FALSE, val |-> v]

-----------------------------------------------------------------------------
(* utils/crypto/bls                                                        *)

Sign(sk, msg) == [by |-> {sk}, over |-> msg, suite |-> "signature"]

SignProofOfPossession(sk, msg) == [by |-> {sk}, over |-> msg, suite |-> "possession"]

PublicKey(sk) == [of |-> {sk}]

Verify(pk, sig, msg) == sig = [by |-> pk.of, over |-> msg, suite |-> "signature"]

VerifyProofOfPossession(pk, sig, msg) ==
    sig = [by |-> pk.of, over |-> msg, suite |-> "possession"]

\* Of keys and signatures that are all different, one at least; signatures of
\* different messages come to one that is of none.
AggregatePublicKeys(pks) ==
    IF pks = {} THEN Err ELSE Ok([of |-> UNION {pk.of : pk \in pks}])

AggregateSignatures(sigs) ==
    IF sigs = {} THEN Err
    ELSE LET one == CHOOSE s \in sigs : TRUE
         IN  Ok([by |-> UNION {s.by : s \in sigs}, suite |-> one.suite,
                 over |-> IF \A s \in sigs : s.over = one.over THEN one.over ELSE [none |-> TRUE]])

\* The compressed form; zeros are not a point of the curve.
Zeros == [point |-> FALSE]
SignatureToBytes(sig) == [point |-> TRUE, sig |-> sig]
SignatureFromBytes(b) == IF b.point THEN Ok(b.sig) ELSE Err

-----------------------------------------------------------------------------
(* Payloads                                                                *)

\* In the order in which init registers them.
PayloadTypes == <<"hash", "call">>

NewPayload(kind, body) ==
    [kind |-> kind, body |-> body,
     bytes |-> [type |-> CHOOSE i \in DOMAIN PayloadTypes : PayloadTypes[i] = kind,
                body |-> body, extra |-> FALSE]]

NewHash(id) == NewPayload("hash", id)
NewAddressedCall(source, data) == NewPayload("call", <<source, data>>)

ParsePayload(b) ==
    IF b.extra \/ b.type \notin DOMAIN PayloadTypes THEN Err
    ELSE Ok([kind |-> PayloadTypes[b.type], body |-> b.body, bytes |-> b])

OfType(p, kind) == IF p.err THEN p ELSE IF p.val.kind = kind THEN p ELSE Err

ParseHash(b) == OfType(ParsePayload(b), "hash")
ParseAddressedCall(b) == OfType(ParsePayload(b), "call")

-----------------------------------------------------------------------------
(* Messages                                                                *)

ComputeHash256(b) == [sha256 |-> b]

Marshal(net, chain, payload) ==
    [net |-> net, chain |-> chain, payload |-> payload, extra |-> FALSE]

\* UnsignedMessage.Initialize
Initialized(net, chain, payload) ==
    LET b == Marshal(net, chain, payload)
    IN  [net |-> net, chain |-> chain, payload |-> payload, bytes |-> b, id |-> ComputeHash256(b)]

NewUnsignedMessage(net, chain, payload) == Initialized(net, chain, payload)

\* The bytes are kept as they came.
ParseUnsignedMessage(b) ==
    IF b.extra THEN Err
    ELSE Ok([net |-> b.net, chain |-> b.chain, payload |-> b.payload,
             bytes |-> b, id |-> ComputeHash256(b)])

NewMessage(m, sig) ==
    [unsigned |-> m, sig |-> sig,
     bytes |-> [net |-> m.net, chain |-> m.chain, payload |-> m.payload, sig |-> sig, extra |-> FALSE]]

\* Initialize is called on the part that was signed.
ParseMessage(b) ==
    IF b.extra THEN Err
    ELSE Ok([unsigned |-> Initialized(b.net, b.chain, b.payload), sig |-> b.sig, bytes |-> b])

-----------------------------------------------------------------------------
(* Signers. A node is [sk, net, chain, db, blocks]: db holds messages as   *)
(* bytes, blocks the IDs of accepted blocks.                               *)

SignerSign(node, m) ==
    IF m.chain # node.chain \/ m.net # node.net THEN Err
    ELSE Ok(SignatureToBytes(Sign(node.sk, m.bytes)))

\* gwarp: the client sends the fields, the server makes the message anew.
ServerSign(node, req) == SignerSign(node, NewUnsignedMessage(req.net, req.chain, req.payload))

RemoteSign(node, m) ==
    ServerSign(node, [net |-> m.net, chain |-> m.chain, payload |-> m.payload])

-----------------------------------------------------------------------------
(* What a node answers                                                     *)

GetMessage(node, id) ==
    IF \E b \in node.db : ComputeHash256(b) = id
    THEN ParseUnsignedMessage(CHOOSE b \in node.db : ComputeHash256(b) = id)
    ELSE Err

APIAddMessage(node, b) ==
    LET m == ParseUnsignedMessage(b)
    IN  IF m.err THEN node ELSE [node EXCEPT !.db = @ \cup {m.val.bytes}]

GetMessageSignature(node, id) ==
    LET m == GetMessage(node, id)
    IN  IF m.err THEN Err ELSE RemoteSign(node, m.val)

BlockMessage(net, chain, block) == NewUnsignedMessage(net, chain, NewHash(block).bytes)

GetBlockSignature(node, block) ==
    IF block \notin node.blocks THEN Err
    ELSE RemoteSign(node, BlockMessage(node.net, node.chain, block))

-----------------------------------------------------------------------------
(* How a node fetches a signature                                          *)

\* Over the network an answer always comes, of zeros if there is no signature.
NetworkAnswer(r) == IF r.err THEN Zeros ELSE r.val

NetworkGetSignature(node, m) ==
    LET p == ParsePayload(m.payload)
    IN  IF p.err THEN Err
        ELSE SignatureFromBytes(NetworkAnswer(
                 IF p.val.kind = "call" THEN GetMessageSignature(node, m.id)
                 ELSE GetBlockSignature(node, p.val.body)))

\* The client of the API reads a string of hex digits, but the signature of a
\* message comes in an object.
ClientGetMessageSignature(node, id) == Err
ClientGetBlockSignature(node, block) == GetBlockSignature(node, block)

APIGetSignature(node, m) ==
    LET p == ParsePayload(m.payload)
        r == IF p.err THEN Err
             ELSE IF p.val.kind = "call" THEN ClientGetMessageSignature(node, m.id)
             ELSE ClientGetBlockSignature(node, p.val.body)
    IN  IF r.err THEN Err ELSE SignatureFromBytes(r.val)

-----------------------------------------------------------------------------
\* A message that was signed and sent is the same message where it is parsed:
\* the bytes that the signatures cover, and the ID, do not change on the way,
\* and the aggregate of the signers' signatures verifies over them.
ParsedIsBuilt(m, signers) ==
    LET sigs == {Sign(sk, m.bytes) : sk \in signers}
        pks  == {PublicKey(sk) : sk \in signers}
        r    == ParseMessage(NewMessage(m, AggregateSignatures(sigs)).bytes)
    IN  /\ ParseUnsignedMessage(m.bytes) = Ok(m)
        /\ ~r.err /\ r.val.unsigned = m
        /\ signers # {} =>
               /\ ~AggregatePublicKeys(pks).err /\ ~r.val.sig.err
               /\ Verify(AggregatePublicKeys(pks).val, r.val.sig.val, r.val.unsigned.bytes)

\* A signature that a node of the message's chain gives covers the bytes that
\* were asked for, whether its signer is in its process or another and whatever
\* way the request takes; and over the network it is given for every message
\* that the node has added and every block it has accepted.
FetchedCovers(m, node) ==
    LET p    == ParsePayload(m.payload)
        ours == m.net = node.net /\ m.chain = node.chain
        has  == ~p.err /\ IF p.val.kind = "call" THEN m.bytes \in node.db ELSE p.val.body \in node.blocks
    IN  ours =>
            /\ \A sig \in {NetworkGetSignature(node, m), APIGetSignature(node, m)} :
                   ~sig.err => has /\ Verify(PublicKey(node.sk), sig.val, m.bytes)
            /\ has => ~NetworkGetSignature(node, m).err
            /\ RemoteSign(node, m) = SignerSign(node, m)

\* A signature says one thing: that of a message is no proof of possession of
\* the key, nor the other way round, and it verifies for that message only.
SignaturesSayOneThing(sk, a, b) ==
    /\ Verify(PublicKey(sk), Sign(sk, a), b) = (a = b)
    /\ ~Verify(PublicKey(sk), SignProofOfPossession(sk, a), b)
    /\ ~VerifyProofOfPossession(PublicKey(sk), Sign(sk, a), b)

-----------------------------------------------------------------------------
(***************************************************************************)
(* The validator sets that the warp API aggregates signatures over. They   *)
(* are the P-chain's, read through a gRPC client (gvalidators) behind      *)
(* which they are messages of a server, and through the State of           *)
(* utils/evm/warp/validators, which puts the own subnet in the place of    *)
(* the Primary Network. External is the P-chain's answer.                  *)
(*                                                                         *)
(* A message's fields are bytes: an ID or a key that is not well-formed is *)
(* None, and no key at all is Absent.                                      *)
(***************************************************************************)

CONSTANTS
    Primary,    \* constants.PrimaryNetworkID, and PlatformChainID
    Absent      \* len(validator.PublicKey) == 0

StateErr == [err |-> TRUE]
StateOk(v) == [err |-> FALSE, val |-> v]

-----------------------------------------------------------------------------
(* gvalidators.Client                                                      *)

\* What comes out for a message: the key if there is one.
Output(msg) == [node |-> msg.node, key |-> msg.key, weight |-> msg.weight]

\* A map that is filled in the order of the messages: the last one of a key is
\* kept.
Filled(msgs, field) ==
    [k \in {msgs[i][field] : i \in DOMAIN msgs} |->
        LET last == CHOOSE i \in DOMAIN msgs :
                        /\ msgs[i][field] = k
                        /\ \A j \in i + 1 .. Len(msgs) : msgs[j][field] # k
        IN  Output(msgs[last])]

GetValidatorSet(msgs) ==
    IF \E i \in DOMAIN msgs : msgs[i].node = None \/ msgs[i].key = None THEN StateErr
    ELSE StateOk(Filled(msgs, "node"))

\* Kept by validation ID.
GetCurrentValidatorSet(msgs) ==
    IF \E i \in DOMAIN msgs : None \in {msgs[i].node, msgs[i].key, msgs[i].validation} THEN StateErr
    ELSE StateOk(Filled(msgs, "validation"))

-----------------------------------------------------------------------------
(* State.GetValidatorSet, of a node [subnet, source, requirePrimary]: the  *)
(* subnet whose set is asked for.                                          *)

AskedFor(node, subnet) ==
    LET usePrimary == node.requirePrimary /\ node.source # Primary
    IN  IF usePrimary \/ subnet # Primary THEN subnet ELSE node.subnet

\* The API: the subnet that the caller names, or else the node's own.
Subnet(node, named) == IF named = None THEN node.subnet ELSE named

\* pchain(s): the messages with the validators of subnet s.
SignersFor(node, named, pchain) ==
    GetValidatorSet(pchain[AskedFor(node, Subnet(node, named))])

-----------------------------------------------------------------------------
\* The set whose weight a quorum is counted in is, validator by validator, the
\* one the P-chain has for the subnet that signs: all of it, or an error. It is
\* the Primary Network's only for a node that requires its signers, and never
\* for messages from the P-chain.
SignersAreThePChains(node, named, pchain) ==
    LET r == SignersFor(node, named, pchain)
        S == AskedFor(node, Subnet(node, named))
        all == {Output(pchain[S][i]) : i \in DOMAIN pchain[S]}
    IN  /\ S = Primary => node.subnet = Primary \/ (node.requirePrimary /\ node.source # Primary)
        /\ named \notin {None, Primary} => S = named
        /\ (\A v \in all : v.node # None /\ v.key # None) <=> ~r.err
        /\ ~r.err /\ Cardinality({v.node : v \in all}) = Len(pchain[S]) =>
               {r.val[n] : n \in DOMAIN r.val} = all

\* No validation is lost from the current set, also where a node has several.
EveryValidationKept(msgs) ==
    LET r == GetCurrentValidatorSet(msgs)
    IN  ~r.err => Cardinality(DOMAIN r.val) = Cardinality({msgs[i].validation : i \in DOMAIN msgs})
=============================================================================
