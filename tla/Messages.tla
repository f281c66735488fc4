------------------------------ MODULE Messages ------------------------------
(***************************************************************************)
(* The messages between nodes, their frames, and the certificates behind them.*)
(***************************************************************************)
EXTENDS Integers, SequencesExt

-----------------------------------------------------------------------------
(***************************************************************************)
(* Messages between nodes: built by the outbound builder, perhaps          *)
(* compressed, framed by a length, and parsed by the inbound builder       *)
(* (utils/avalanche/message, compression, network/peer/msg_length.go).     *)
(*                                                                         *)
(* Bytes are terms with a length: what protobuf made of a message, what    *)
(* zstd made of bytes, or the beginning of either. protobuf and zstd are   *)
(* external: they are injective, and the lengths they give are inputs.     *)
(***************************************************************************)

CONSTANTS
    MaxMessageSize,     \* DefaultMaxMessageSize
    MaxMessageTimeout,  \* maxMessageTimeout
    MaxTime,            \* mockable.MaxTime
    FrameBase,          \* values of a byte of the length
    FrameLen,           \* wrappers.IntLen
    DeadlineBits        \* width of a deadline (64 in the code)

Err == [err |-> TRUE]

ProtoMarshal(m, len) == [term |-> "proto", of |-> m, len |-> len]
ProtoUnmarshal(b) == IF b.term = "proto" THEN [err |-> FALSE, msg |-> b.of] ELSE Err

CompressedZstd(b) == [kind |-> "CompressedZstd", bytes |-> b]

\* What protobuf adds to bytes that it wraps.
WrapLen == 1

-----------------------------------------------------------------------------
(* Operations of messages                                                  *)

Unwrappable == {"Ping", "Pong", "Handshake", "GetPeerList", "PeerList", "AppRequest",
                "AppResponse", "AppError"}

\* An operation has the name of its message here; ToOp knows AppGossip too.
ToOp(m) ==
    IF m.kind \in Unwrappable \cup {"AppGossip"} THEN [err |-> FALSE, op |-> m.kind] ELSE Err

Unwrap(m) == IF m.kind \in Unwrappable THEN [err |-> FALSE, msg |-> m] ELSE Err

-----------------------------------------------------------------------------
(* Compression                                                             *)

Compress(b, len) ==
    IF b.len > MaxMessageSize THEN Err
    ELSE [err |-> FALSE, bytes |-> [term |-> "zstd", of |-> b, len |-> len]]

\* io.LimitReader: the first bytes of what zstd gives back.
Limited(b, len) == IF b.len <= len THEN b ELSE [term |-> "cut", of |-> b, len |-> len]

Decompress(b) ==
    IF b.term # "zstd" THEN Err
    ELSE LET d == Limited(b.of, MaxMessageSize + 1)
         IN  IF d.len > MaxMessageSize THEN Err ELSE [err |-> FALSE, bytes |-> d]

-----------------------------------------------------------------------------
(* The outbound builder; z gives the lengths of protobuf and of zstd       *)

Marshal(m, compressionType, z) ==
    LET plain  == ProtoMarshal(m, z.plain)
        packed == Compress(plain, z.packed)
    IN  IF ToOp(m).err THEN Err
        ELSE CASE compressionType = "none" -> [err |-> FALSE, bytes |-> plain, op |-> ToOp(m).op]
               [] compressionType = "zstd" ->
                      IF packed.err THEN Err
                      ELSE [err |-> FALSE, op |-> ToOp(m).op,
                            bytes |-> ProtoMarshal(CompressedZstd(packed.bytes), z.packed + WrapLen)]
               [] OTHER -> Err

CreateOutbound(m, compressionType, bypass, z) ==
    LET r == Marshal(m, compressionType, z)
    IN  IF r.err THEN r ELSE [err |-> FALSE, bytes |-> r.bytes, op |-> r.op, bypass |-> bypass]

Ping(uptime, z) == CreateOutbound([kind |-> "Ping", uptime |-> uptime], "none", FALSE, z)
Pong(z) == CreateOutbound([kind |-> "Pong"], "none", FALSE, z)

\* The address goes out in its form of 16 bytes, whatever form it has here.
As16(addr) == [addr EXCEPT !.form = IF @ = "v4" THEN "4in6" ELSE @]

HandshakeMessage(network, myTime, ip, sig, subnets, filter) ==
    [kind |-> "Handshake", network |-> network, myTime |-> myTime, ip |-> As16(ip.addr),
     port |-> ip.port, signingTime |-> ip.timestamp, sig |-> sig, subnets |-> subnets,
     filter |-> filter]

Handshake(network, myTime, ip, sig, subnets, filter, z) ==
    CreateOutbound(HandshakeMessage(network, myTime, ip, sig, subnets, filter), "none", TRUE, z)

GetPeerList(filter, c, z) == CreateOutbound([kind |-> "GetPeerList", filter |-> filter], c, FALSE, z)

ClaimedIpPort(p) == [cert |-> p.cert, ip |-> As16(p.addr), port |-> p.port,
                     timestamp |-> p.timestamp, sig |-> p.sig]

PeerListMessage(peers) == [kind |-> "PeerList", claims |-> [i \in DOMAIN peers |-> ClaimedIpPort(peers[i])]]

PeerList(peers, bypass, c, z) == CreateOutbound(PeerListMessage(peers), c, bypass, z)

AppRequest(chain, id, deadline, msg, c, z) ==
    CreateOutbound([kind |-> "AppRequest", chain |-> chain, id |-> id, deadline |-> deadline,
                    bytes |-> msg], c, FALSE, z)

AppResponse(chain, id, msg, c, z) ==
    CreateOutbound([kind |-> "AppResponse", chain |-> chain, id |-> id, bytes |-> msg], c, FALSE, z)

AppError(chain, id, code, c, z) ==
    CreateOutbound([kind |-> "AppError", chain |-> chain, id |-> id, code |-> code], c, FALSE, z)

AppGossip(chain, msg, c, z) ==
    CreateOutbound([kind |-> "AppGossip", chain |-> chain, bytes |-> msg], c, FALSE, z)

\* OutboundMsgBuilder: one method for each kind of message.
Build(m, c, z) ==
    CASE m.kind = "Ping"        -> Ping(m.uptime, z)
      [] m.kind = "Pong"        -> Pong(z)
      [] m.kind = "Handshake"   -> Handshake(m.network, m.myTime, m.ip, m.sig, m.subnets, m.filter, z)
      [] m.kind = "GetPeerList" -> GetPeerList(m.filter, c, z)
      [] m.kind = "PeerList"    -> PeerList(m.peers, m.bypass, c, z)
      [] m.kind = "AppRequest"  -> AppRequest(m.chain, m.id, m.deadline, m.bytes, c, z)
      [] m.kind = "AppResponse" -> AppResponse(m.chain, m.id, m.bytes, c, z)
      [] m.kind = "AppError"    -> AppError(m.chain, m.id, m.code, c, z)
      [] m.kind = "AppGossip"   -> AppGossip(m.chain, m.bytes, c, z)

\* What the message of a method says.
Content(m) ==
    CASE m.kind = "Handshake" -> HandshakeMessage(m.network, m.myTime, m.ip, m.sig, m.subnets, m.filter)
      [] m.kind = "PeerList"  -> PeerListMessage(m.peers)
      [] OTHER -> m

-----------------------------------------------------------------------------
(* The inbound builder                                                     *)

Unmarshal(b) ==
    LET m == ProtoUnmarshal(b)
    IN  IF m.err THEN Err
        ELSE IF m.msg.kind = "CompressedZstd" /\ m.msg.bytes.len > 0
        THEN LET d == Decompress(m.msg.bytes)
                 n == ProtoUnmarshal(d.bytes)
             IN  IF d.err THEN Err
                 ELSE IF n.err THEN Err
                 ELSE IF ToOp(n.msg).err THEN Err
                 ELSE [err |-> FALSE, msg |-> n.msg, op |-> ToOp(n.msg).op]
        ELSE IF ToOp(m.msg).err THEN Err
        ELSE [err |-> FALSE, msg |-> m.msg, op |-> ToOp(m.msg).op]

\* time.Duration of a uint64: a large deadline is negative.
Duration(d) == IF d >= 2 ^ (DeadlineBits - 1) THEN d - 2 ^ DeadlineBits ELSE d

\* Only a message with a deadline has one.
GetDeadline(m) == IF "deadline" \in DOMAIN m THEN {Duration(m.deadline)} ELSE {}

Expiration(m, now) ==
    IF GetDeadline(m) = {} THEN MaxTime
    ELSE LET d == CHOOSE d \in GetDeadline(m) : TRUE
         IN  now + (IF d < MaxMessageTimeout THEN d ELSE MaxMessageTimeout)

ParseInbound(b, now) ==
    LET r == Unmarshal(b)
    IN  IF r.err THEN Err
        ELSE IF Unwrap(r.msg).err THEN Err
        ELSE [err |-> FALSE, op |-> r.op, msg |-> r.msg, expiration |-> Expiration(r.msg, now)]

-----------------------------------------------------------------------------
(* Frames: the length in FrameLen bytes, then the message                  *)

Digit(d) == [digit |-> d]
Cell(b, i) == [of |-> b, at |-> i]

WriteMsgLen(len) ==
    IF len > MaxMessageSize THEN Err
    ELSE [err |-> FALSE,
          bytes |-> [i \in 1 .. FrameLen |-> Digit((len \div FrameBase ^ (FrameLen - i)) % FrameBase)]]

ReadMsgLen(cells) ==
    IF Len(cells) # FrameLen \/ \E i \in DOMAIN cells : "digit" \notin DOMAIN cells[i] THEN Err
    ELSE LET len == FoldLeft(LAMBDA acc, c : acc * FrameBase + c.digit, 0, cells)
         IN  IF len > MaxMessageSize THEN Err ELSE [err |-> FALSE, len |-> len]

\* A message whose length is refused leaves nothing in the stream.
WriteMessage(stream, b) ==
    LET len == WriteMsgLen(b.len)
    IN  IF len.err THEN stream
        ELSE stream \o len.bytes \o [i \in 1 .. b.len |-> Cell(b, i)]

\* The bytes that a frame holds, if it holds them from the first to the last.
Body(cells) ==
    IF cells # <<>> /\ "of" \in DOMAIN cells[1]
           /\ cells = [i \in 1 .. cells[1].of.len |-> Cell(cells[1].of, i)]
    THEN cells[1].of
    ELSE [term |-> "junk", len |-> Len(cells)]

\* readMessages: an error in the length ends the connection, one in the
\* message does not.
RECURSIVE ReadMessages(_, _)
ReadMessages(stream, now) ==
    IF Len(stream) < FrameLen THEN <<>>
    ELSE LET len  == ReadMsgLen(SubSeq(stream, 1, FrameLen))
             rest == SubSeq(stream, FrameLen + 1, Len(stream))
         IN  IF len.err THEN <<[kind |-> "closed"]>>
             ELSE IF Len(rest) < len.len THEN <<>>
             ELSE LET after == ReadMessages(SubSeq(rest, len.len + 1, Len(rest)), now)
                      msg   == ParseInbound(Body(SubSeq(rest, 1, len.len)), now)
                  IN  IF msg.err THEN after ELSE <<msg.msg>> \o after

-----------------------------------------------------------------------------
\* Every message that the outbound builder makes, gossip apart, is parsed back
\* to the same operation and the same content, compressed or not.
BuiltIsParsed(m, c, z) ==
    LET out == Build(m, c, z)
        in  == ParseInbound(out.bytes, 0)
    IN  ~out.err /\ m.kind # "AppGossip" => ~in.err /\ in.op = out.op /\ in.msg = Content(m)

\* "Decompress(Compress(msg)) == msg" for what may be compressed, and what is
\* larger than that is refused rather than cut, whoever compressed it.
WholeOrRefused(b) ==
    LET d == Decompress([term |-> "zstd", of |-> b, len |-> 1])
    IN  IF b.len <= MaxMessageSize THEN d = [err |-> FALSE, bytes |-> b] ELSE d = Err

\* Of any bytes, one layer of compression is taken off and no more: what the
\* handlers get is a message that they know.
OnlyKnownMessages(b) ==
    LET u == Unmarshal(b) IN ~u.err => u.msg.kind \in Unwrappable \cup {"AppGossip"}

\* Whatever deadline a request carries, its handling expires at most
\* maxMessageTimeout after it was received.
ExpiresInTime(m, now) == GetDeadline(m) # {} => Expiration(m, now) <= now + MaxMessageTimeout

\* The reader finds the messages that were written, in order, without those
\* that are too long or that it does not know, and the connection goes on: a
\* message that is dropped takes nothing of the next one with it.
FramesArrive(bs) ==
    LET stream == FoldLeft(WriteMessage, <<>>, bs)
        fit    == SelectSeq(bs, LAMBDA b : b.len <= MaxMessageSize)
        read   == SelectSeq([i \in DOMAIN fit |-> ParseInbound(fit[i], 0)], LAMBDA p : ~p.err)
    IN  ReadMessages(stream, 0) = [i \in DOMAIN read |-> read[i].msg]

-----------------------------------------------------------------------------
(***************************************************************************)
(* Who a peer is: the certificate it shows. TLS checks the key of the leaf *)
(* (network/peer/tls_config.go), the upgrader parses the leaf again with   *)
(* the parser of utils/staking, which also reads the certificates that     *)
(* other nodes gossip, and the id of the node is the hash of the raw form. *)
(*                                                                         *)
(* A certificate is its length and the ASN.1 elements of its "to be        *)
(* signed" part in their order. External: x509, which parses a leaf before *)
(* TLS asks about its key, the signature schemes and the hash.             *)
(***************************************************************************)

CONSTANTS
    MaxCertificateLen,
    AllowedModulusLens   \* allowedRSASmallModulusLen, allowedRSALargeModulusLen

CertErr == [err |-> TRUE]

\* What must come, in this order, before the key.
Fields == <<"INTEGER", "SEQUENCE", "SEQUENCE", "SEQUENCE", "SEQUENCE">>

AllowedExponent == 65537

ValidateRSAPublicKeyIsWellFormed(pub) ==
    /\ pub.n > 0
    /\ pub.bits \in AllowedModulusLens
    /\ pub.n % 2 = 1
    /\ pub.e = AllowedExponent

\* elliptic.Unmarshal for P256 refuses the points of another curve.
ParsePublicKey(key) ==
    IF \/ key.oid = "RSA" /\ ValidateRSAPublicKeyIsWellFormed(key)
       \/ key.oid = "ECDSA" /\ key.curve = "P256"
    THEN [err |-> FALSE, key |-> key] ELSE CertErr

\* The version is there or not.
WithoutVersion(elements) ==
    IF elements # <<>> /\ Head(elements) = "VERSION" THEN Tail(elements) ELSE elements

ParseCertificate(c) ==
    IF c.len > MaxCertificateLen \/ WithoutVersion(c.elements) # Fields THEN CertErr
    ELSE LET k == ParsePublicKey(c.key)
         IN  IF k.err THEN CertErr ELSE [err |-> FALSE, raw |-> c, key |-> k.key]

\* VerifyConnection of the TLS configuration, on the leaf.
ValidateCertificate(chain) ==
    /\ chain # <<>>
    /\ LET key == chain[1].key
       IN  CASE key.oid = "ECDSA" -> key.curve = "P256"
             [] key.oid = "RSA"   -> ValidateRSAPublicKeyIsWellFormed(key)
             [] OTHER -> FALSE

\* x509 reads the same fields, and more of them, after the key as well; it
\* sets no limit to the length.
X509Parses(c) == WithoutVersion(c.elements) = Fields /\ c.strict

\* conn.Handshake
TLSAccepts(chain) == (\A i \in DOMAIN chain : X509Parses(chain[i])) /\ ValidateCertificate(chain)

NodeIDFromCert(c) == [hash |-> c]

\* The TLS handshake, then the certificate once more.
ConnToIDAndCert(chain) ==
    IF ~TLSAccepts(chain) THEN CertErr
    ELSE LET p == ParseCertificate(chain[1])
         IN  IF p.err THEN CertErr ELSE [err |-> FALSE, id |-> NodeIDFromCert(p.raw), cert |-> p]

Sign(key, msg) == [by |-> key, over |-> [sha256 |-> msg]]

\* By the kind of the key: PKCS1v15, or ASN.1 ECDSA.
CheckSignature(cert, msg, sig) ==
    cert.key.oid \in {"RSA", "ECDSA"} /\ sig = Sign(cert.key, msg)

\* NewCertAndKeyBytes: what a node makes for itself.
NewCert(len) == [len |-> len, elements |-> <<"VERSION">> \o Fields, strict |-> TRUE,
                 key |-> [oid |-> "ECDSA", curve |-> "P256"]]

-----------------------------------------------------------------------------
\* The two checks of a key agree: whoever connects has a certificate that nodes
\* take from gossip, and one that gossip brings and x509 reads is one that its
\* owner can connect with; either way it gets the same id, and a signature with
\* its key verifies over what was signed and nothing else.
GossipAndTLSAgree(c) ==
    LET gossip == ParseCertificate(c)
        conn   == ConnToIDAndCert(<<c>>)
    IN  /\ ~conn.err => ~gossip.err
        /\ ~gossip.err /\ X509Parses(c) => ~conn.err
        /\ ~conn.err =>
               /\ conn.id = NodeIDFromCert(gossip.raw)
               /\ \A m \in {"m1", "m2"} : CheckSignature(gossip, m, Sign(c.key, "m1")) = (m = "m1")

\* The id of a peer is that of the certificate whose key TLS has seen in use,
\* the leaf; the rest of the chain does not matter.
IdOfLeaf(chain) ==
    LET conn == ConnToIDAndCert(chain)
    IN  ~conn.err => conn.id = NodeIDFromCert(chain[1]) /\ conn.cert.key = chain[1].key
=============================================================================
