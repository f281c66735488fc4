------------------------------- MODULE Claims -------------------------------
(***************************************************************************)
(* A node's claim to its address: signed when a connection begins          *)
(* (IPSigner.GetSignedIP, called by the goroutine of each connection while *)
(* the address may change), sent in the handshake, verified by the peer,   *)
(* and passed on in peer lists to nodes that verify it again.              *)
(*                                                                         *)
(* One node claims; each of its connections leads to a peer; the peers     *)
(* gossip to one node that is farther away. Clocks differ by a skew.       *)
(***************************************************************************)
EXTENDS Integers, Sequences, FiniteSets

CONSTANTS
    Conns,          \* connections, each with its goroutine and its peer
    Far,            \* the node that hears of the claim from the peers
    Addresses,      \* address and port that the node may have
    MaxClock,       \* bound: ticks of the clock
    MaxChanges,     \* bound: changes of the address
    MaxDifference,  \* MaxClockDifference
    Skews,          \* differences of the clocks, at most MaxDifference
    None

M == INSTANCE Messages WITH MaxMessageSize <- 1, MaxMessageTimeout <- 1, MaxTime <- 1,
                            FrameBase <- 2, FrameLen <- 1, DeadlineBits <- 1,
                            MaxCertificateLen <- 1, AllowedModulusLens <- {}

VARIABLES
    ip,        \* the dynamic address, and how often it has changed
    clock,
    signedIP,  \* the cached claim
    call,      \* each connection: where it is, and what it has read
    wire,      \* handshakes on their way
    known,     \* the claim that each node tracks
    skew,      \* how far each node's clock is from the claimant's
    signed,    \* history: all claims that were signed
    refused    \* history: why messages were refused

claimVars == <<ip, clock, signedIP, call, wire, known, skew, signed, refused>>

ClaimNodes == Conns \cup {Far}
Cert == M!NewCert(1)
Idle == [at |-> "idle", cached |-> None, ip |-> None, seen |-> {}, got |-> None]

ClaimInit ==
    /\ \E a \in Addresses : ip = [at |-> a, version |-> 0]
    /\ clock = MaxDifference
    /\ signedIP = None
    /\ call = [c \in Conns |-> Idle]
    /\ wire = [c \in Conns |-> None]
    /\ known = [n \in ClaimNodes |-> None]
    /\ skew \in [ClaimNodes -> Skews]
    /\ signed = {} /\ refused = {}

-----------------------------------------------------------------------------
Tick ==
    /\ clock < MaxClock
    /\ clock' = clock + 1
    /\ UNCHANGED <<ip, signedIP, call, wire, known, skew, signed, refused>>

\* Atomic.Set of the dynamic address; calls that are under way see it.
SetIP(a) ==
    /\ ip.version < MaxChanges /\ a # ip.at
    /\ ip' = [at |-> a, version |-> ip.version + 1]
    /\ call' = [c \in Conns |-> IF call[c].at = "idle" THEN call[c]
                                ELSE [call[c] EXCEPT !.seen = @ \cup {a}]]
    /\ UNCHANGED <<clock, signedIP, wire, known, skew, signed, refused>>

-----------------------------------------------------------------------------
(* GetSignedIP                                                             *)

\* Under the read lock.
ReadCached(c) ==
    /\ call[c].at = "idle" /\ wire[c] = None
    /\ call' = [call EXCEPT ![c] = [Idle EXCEPT !.at = "read", !.cached = signedIP, !.seen = {ip.at}]]
    /\ UNCHANGED <<ip, clock, signedIP, wire, known, skew, signed, refused>>

Matches(s, i) == s # None /\ s.at = i.at

GetIP(c) ==
    /\ call[c].at = "read"
    /\ call' = [call EXCEPT ![c] =
           IF Matches(call[c].cached, ip)
           THEN [@ EXCEPT !.at = "got", !.got = call[c].cached]
           ELSE [@ EXCEPT !.at = "lock", !.ip = ip]]
    /\ UNCHANGED <<ip, clock, signedIP, wire, known, skew, signed, refused>>

\* A mutant: the form that the address has is signed.
BytesAsTheyAre(at, timestamp) == <<at.addr, at.port, timestamp>>

\* The address in its form of 16 bytes, the port and the time.
Bytes(at, timestamp) == <<M!As16(at.addr), at.port, timestamp>>

Sign(i, timestamp) ==
    [at |-> i.at, version |-> i.version, timestamp |-> timestamp,
     sig |-> M!Sign(Cert.key, Bytes(i.at, timestamp))]

\* Under the write lock: another goroutine may have signed the address.
SignIP(c) ==
    /\ call[c].at = "lock"
    /\ LET mine == Sign(call[c].ip, clock)
           new  == ~Matches(signedIP, call[c].ip)
           it   == IF new THEN mine ELSE signedIP
       IN  /\ signedIP' = it
           /\ signed' = IF new THEN signed \cup {it} ELSE signed
           /\ call' = [call EXCEPT ![c] = [@ EXCEPT !.at = "got", !.got = it]]
    /\ UNCHANGED <<ip, clock, wire, known, skew, refused>>

\* The signer fails, and with it the connection.
SignFails(c) ==
    /\ call[c].at = "lock"
    /\ ~Matches(signedIP, call[c].ip)
    /\ call' = [call EXCEPT ![c] = Idle]
    /\ UNCHANGED <<ip, clock, signedIP, wire, known, skew, signed, refused>>

-----------------------------------------------------------------------------
(* The handshake                                                           *)

\* A port of zero ends the connection before anything is sent.
WriteHandshake(c) ==
    /\ call[c].at = "got"
    /\ call' = [call EXCEPT ![c] = Idle]
    /\ LET s == call[c].got
       IN  wire' = [wire EXCEPT ![c] =
               IF s.at.port = 0 THEN None
               ELSE M!HandshakeMessage(1, clock,
                        [addr |-> s.at.addr, port |-> s.at.port, timestamp |-> s.timestamp],
                        s.sig, <<>>, "filter")]
    /\ UNCHANGED <<ip, clock, signedIP, known, skew, signed, refused>>

\* AddrFromSlice: an IPv4 address comes out as one.
AddrFromSlice(addr) == [addr EXCEPT !.form = IF @ = "4in6" THEN "v4" ELSE @]

Local(n) == clock + skew[n]

\* NewClaimedIPPort: the node is known by its certificate.
NewClaimedIPPort(cert, addr, port, timestamp, sig) ==
    [cert |-> cert, id |-> M!NodeIDFromCert(cert), addr |-> addr, port |-> port,
     timestamp |-> timestamp, sig |-> sig]

Verify(p, local) ==
    IF p.timestamp > local + MaxDifference THEN "timestamp"
    ELSE IF ~M!CheckSignature(M!ParseCertificate(p.cert), Bytes(p, p.timestamp), p.sig) THEN "signature"
    ELSE "ok"

\* AddIP: only a newer claim replaces the one that is tracked.
Newer(p, n) == known[n] # None => known[n].timestamp < p.timestamp

\* handleHandshake at the peer, down to the claim it then tracks. The clock is
\* checked first: a handshake that took long, or comes from far off, is refused.
HandleHandshake(c) ==
    /\ wire[c] # None
    /\ wire' = [wire EXCEPT ![c] = None]
    /\ LET m    == wire[c]
           p    == NewClaimedIPPort(Cert, AddrFromSlice(m.ip), m.port, m.signingTime, m.sig)
           diff == m.myTime - Local(c)
           why  == IF diff > MaxDifference \/ diff < -MaxDifference THEN "clock"
                   ELSE IF m.port = 0 THEN "port"
                   ELSE Verify(p, Local(c))
       IN  /\ known' = IF why = "ok" /\ Newer(p, c) THEN [known EXCEPT ![c] = p] ELSE known
           /\ refused' = refused \cup ({why} \ {"ok"})
    /\ UNCHANGED <<ip, clock, signedIP, call, skew, signed>>

\* A peer list with the claim, and handlePeerList and track where it arrives:
\* the signature of a claim that is not newer is not looked at.
Gossip(c) ==
    /\ known[c] # None
    /\ LET m == M!PeerListMessage(<<known[c]>>).claims[1]
           p == NewClaimedIPPort(m.cert, AddrFromSlice(m.ip), m.port, m.timestamp, m.sig)
           why == IF M!ParseCertificate(m.cert).err THEN "certificate"
                  ELSE IF m.port = 0 THEN "port"
                  ELSE Verify(p, Local(Far))
       IN  /\ Newer(p, Far)
           /\ known' = IF why = "ok" THEN [known EXCEPT ![Far] = p] ELSE known
           /\ refused' = refused \cup ({why} \ {"ok"})
    /\ UNCHANGED <<ip, clock, signedIP, call, wire, skew, signed>>

-----------------------------------------------------------------------------
ClaimNext ==
    \/ Tick
    \/ \E a \in Addresses : SetIP(a)
    \/ \E c \in Conns :
           \/ ReadCached(c) \/ GetIP(c) \/ SignIP(c) \/ SignFails(c) \/ WriteHandshake(c)
           \/ HandleHandshake(c) \/ Gossip(c)

ClaimSpec == ClaimInit /\ [][ClaimNext]_claimVars

-----------------------------------------------------------------------------
\* GetSignedIP returns a claim to an address that the node had at some moment of
\* the call, whatever the other goroutines sign and however the address changes.
ClaimOfTheMoment == \A c \in Conns : call[c].at = "got" => call[c].got.at \in call[c].seen

\* A claim of an honest node is refused by nobody, at first hand or through
\* gossip, in whatever form the address is written, if no clock is off by more
\* than MaxClockDifference: only a handshake that is late is.
HonestClaimsVerify == refused \subseteq {"clock"}

\* Whatever a node tracks is something the claimant has signed, and comes out of
\* every hop as the same address in its shortest form.
TrackedAsSigned ==
    \A n \in ClaimNodes : known[n] # None =>
        /\ known[n].id = M!NodeIDFromCert(Cert)
        /\ \E s \in signed :
               /\ known[n].addr.a = s.at.addr.a /\ known[n].addr.form # "4in6"
               /\ known[n].port = s.at.port /\ known[n].timestamp = s.timestamp

=============================================================================
