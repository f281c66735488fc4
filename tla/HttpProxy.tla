----------------------------- MODULE HttpProxy ------------------------------
(***************************************************************************)
(* HTTP over gRPC: requests and responses, and the connections that a handler*)
(* takes over, for reading and for writing.                                *)
(***************************************************************************)
EXTENDS Integers, SequencesExt

-----------------------------------------------------------------------------
(***************************************************************************)
(* HTTP requests that the node hands to the VM over gRPC (http/...). A     *)
(* request with an Upgrade header is served by Client.ServeHTTP: the node  *)
(* starts a server for its response writer and the VM's handler writes to  *)
(* it call by call, and may hijack the connection. Any other request takes *)
(* one call, Server.HandleSimple. net/http and gRPC are external.          *)
(***************************************************************************)

CONSTANTS HeaderKeys, HeaderValues, StatusCodes, Payloads,
          MaxCalls,    \* bound on what a handler does
          None

VARIABLES node,        \* where Client.ServeHTTP is
          handle,      \* where Server.Handle is in the VM
          w,           \* the node's response writer
          headerWritten, \* lockedWriter.headerWritten
          header,      \* the headers the VM's response writer holds
          direct,      \* reference: the response had the handler written to w
          servers,     \* the gRPC servers and connections that are open
          calls,       \* what the handler has done
          doubt        \* the calls were not all carried out, or a flush came first

proxyVars == <<node, handle, w, headerWritten, header, direct, servers, calls, doubt>>

NoHeader == [k \in HeaderKeys |-> None]

EnsureValidResponseCode(code) == IF code < 100 \/ code > 599 THEN 500 ELSE code

-----------------------------------------------------------------------------
\* net/http's response writer: the first status is sent, with the headers of
\* that moment; a write or a flush sends 200 if nothing was sent yet.
Sent(x, code) == IF x.sent # None THEN x
                 ELSE [x EXCEPT !.sent = [status |-> code, header |-> x.header]]
Written(x, p) == [Sent(x, 200) EXCEPT !.body = Append(@, p)]

\* http.Error
Errored(x, code) == [Sent(x, code) EXCEPT !.body = Append(@, "error")]

ProxyInit ==
    /\ node = "start"
    /\ handle = "none"
    /\ w \in [header : [HeaderKeys -> HeaderValues \cup {None}], sent : {None}, body : {<<>>}]
    /\ headerWritten = FALSE
    /\ header = NoHeader
    /\ direct = w
    /\ servers = {}
    /\ calls = 0
    /\ doubt = FALSE

-----------------------------------------------------------------------------
\* ServeHTTP: a listener and a server for the response writer ...
Listen ==
    /\ node = "start"
    /\ node' = "listening"
    /\ servers' = servers \cup {"writer"}
    /\ UNCHANGED <<handle, w, headerWritten, header, direct, calls, doubt>>

\* ... or none, and an internal error ...
ListenFails ==
    /\ node = "start"
    /\ node' = "returned"
    /\ w' = Errored(w, 500)
    /\ headerWritten' = TRUE
    /\ UNCHANGED <<handle, header, direct, servers, calls, doubt>>

\* ... the body is read ...
ReadBodyFails ==
    /\ node = "listening"
    /\ node' = "stopping"
    /\ w' = Errored(w, 400)
    /\ headerWritten' = TRUE
    /\ UNCHANGED <<handle, header, direct, servers, calls, doubt>>

\* ... and the request sent: the VM dials the writer and takes over its headers.
CallHandle ==
    /\ node = "listening"
    /\ node' = "waiting"
    /\ handle' = "dialled"
    /\ header' = w.header
    /\ servers' = servers \cup {"conn"}
    /\ UNCHANGED <<w, headerWritten, direct, calls, doubt>>

\* Handle: the request cannot be made from what was sent; the connection to
\* the writer is not closed.
RequestInvalid ==
    /\ handle = "dialled"
    /\ handle' = "failed"
    /\ UNCHANGED <<node, w, headerWritten, header, direct, servers, calls, doubt>>

RequestMade ==
    /\ handle = "dialled"
    /\ handle' = "serving"
    /\ UNCHANGED <<node, w, headerWritten, header, direct, servers, calls, doubt>>

-----------------------------------------------------------------------------
Awaiting == "reply" \in servers
Serving == handle = "serving" /\ ~Awaiting /\ calls < MaxCalls /\ calls' = calls + 1

SetHeader(k, v) ==
    /\ Serving
    /\ header' = [header EXCEPT ![k] = v]
    /\ direct' = [direct EXCEPT !.header[k] = v]
    /\ UNCHANGED <<node, handle, w, headerWritten, servers, doubt>>

\* A mutant: the headers the writer had are kept beside those sent.
WithHeadersMerged(x) ==
    [x EXCEPT !.header = [k \in HeaderKeys |-> IF header[k] # None THEN header[k] ELSE @[k]]]

\* Both calls of the writer's server first replace the headers by those sent.
WithHeaders(x) == [x EXCEPT !.header = header]

\* lockedWriter.WriteHeader: only the first is passed on.
LockedWriteHeader(code) ==
    /\ w' = IF headerWritten THEN WithHeaders(w) ELSE Sent(WithHeaders(w), code)
    /\ headerWritten' = TRUE

\* WriteHeader of the VM's writer, whose error is dropped.
WriteHeader(code) ==
    /\ Serving
    /\ "writer" \in servers
    /\ LockedWriteHeader(EnsureValidResponseCode(code))
    /\ direct' = Sent(direct, EnsureValidResponseCode(code))
    /\ UNCHANGED <<node, handle, header, servers, doubt>>

Write(p) ==
    /\ Serving
    /\ "writer" \in servers
    /\ w' = Written(WithHeaders(w), p)
    /\ headerWritten' = TRUE
    /\ direct' = Written(direct, p)
    /\ UNCHANGED <<node, handle, header, servers, doubt>>

\* Flush carries no headers: the first bytes go out with those the node knows.
Flush ==
    /\ Serving
    /\ "writer" \in servers
    /\ w' = Sent(w, 200)
    /\ direct' = Sent(direct, 200)
    /\ doubt' = (doubt \/ direct.sent = None)
    /\ UNCHANGED <<node, handle, headerWritten, header, servers>>

\* A call that fails, before or after it was carried out: the handler goes on.
CallFails(code) ==
    /\ Serving
    /\ "writer" \in servers
    /\ \/ UNCHANGED <<w, headerWritten>>
       \/ LockedWriteHeader(EnsureValidResponseCode(code))
    /\ doubt' = TRUE
    /\ UNCHANGED <<node, handle, header, direct, servers>>

\* Server.Hijack in the node: the connection is behind a server of its own, whose
\* address is on its way to the handler that waits for it.
Hijack ==
    /\ Serving
    /\ {"writer", "hijacked"} \cap servers = {"writer"}
    /\ servers' = servers \cup {"hijacked", "reply"}
    /\ doubt' = TRUE
    /\ UNCHANGED <<node, handle, w, headerWritten, header, direct>>

\* Client.Hijack goes on and dials that server. If the reply is lost or the
\* dialling fails, the handler has an error and nobody stops the server.
HijackReturns ==
    /\ Awaiting
    /\ servers' \in {(servers \ {"reply"}) \cup {"conn2"}, servers \ {"reply"}}
    /\ UNCHANGED <<node, handle, w, headerWritten, header, direct, calls, doubt>>

\* Close of the hijacked connection, by the handler or by whoever it gave it
\* to: the node closes it and stops its server, the VM closes its own end.
CloseHijacked ==
    /\ "conn2" \in servers
    /\ handle \in {"serving", "done"}
    /\ servers' = servers \ {"hijacked", "conn2"}
    /\ UNCHANGED <<node, handle, w, headerWritten, header, direct, calls, doubt>>

\* The handler returns and the connection to the writer is closed.
HandlerReturns ==
    /\ handle = "serving" /\ ~Awaiting
    /\ handle' = "done"
    /\ servers' = servers \ {"conn"}
    /\ UNCHANGED <<node, w, headerWritten, header, direct, calls, doubt>>

-----------------------------------------------------------------------------
\* The call ends for the node: with the handler, with Handle's error, or with
\* the context of the request.
HandleReturns ==
    /\ node = "waiting"
    /\ handle \in {"done", "failed"}
    /\ node' = "stopping"
    /\ IF handle = "failed" THEN w' = Errored(w, 500) /\ headerWritten' = TRUE
       ELSE UNCHANGED <<w, headerWritten>>
    /\ UNCHANGED <<handle, header, direct, servers, calls, doubt>>

RequestCancelled ==
    /\ node = "waiting"
    /\ handle \in {"dialled", "serving"}
    /\ node' = "stopping"
    /\ w' = Errored(w, 500)
    /\ headerWritten' = TRUE
    /\ doubt' = TRUE
    /\ UNCHANGED <<handle, header, direct, servers, calls>>

\* The deferred GracefulStop.
GracefulStop ==
    /\ node = "stopping"
    /\ node' = "returned"
    /\ servers' = servers \ {"writer"}
    /\ UNCHANGED <<handle, w, headerWritten, header, direct, calls, doubt>>

HandlerCalls ==
    \/ \E k \in HeaderKeys, v \in HeaderValues \cup {None} : SetHeader(k, v)
    \/ \E code \in StatusCodes : WriteHeader(code) \/ CallFails(code)
    \/ \E p \in Payloads : Write(p)
    \/ Flush \/ Hijack

ProxyNext ==
    \/ Listen \/ ListenFails \/ ReadBodyFails \/ CallHandle
    \/ RequestInvalid \/ RequestMade \/ HandlerCalls \/ HijackReturns \/ CloseHijacked
    \/ HandlerReturns \/ HandleReturns \/ RequestCancelled \/ GracefulStop

ProxySpec == ProxyInit /\ [][ProxyNext]_proxyVars

\* What the client of the node sees is what it would see had the handler
\* written to it directly: the first status with the headers of that moment,
\* and every payload in order. Excepted are calls that failed, connections that
\* were hijacked, and a flush before anything was written, which does not carry
\* the headers (responsewriter's Client, "an http.ResponseWriter that talks
\* over RPC", over its Server and lockedWriter).
ProxyTransparent ==
    handle \in {"serving", "done"} /\ ~doubt => w.sent = direct.sent /\ w.body = direct.body

\* Once ServeHTTP and Handle have returned, nothing they opened is left: the
\* writer's server is stopped and the connection to it closed, unless the
\* request was invalid; a hijacked connection outlives them, and then its server
\* does too.
NothingLeftOpen ==
    /\ node = "returned" => "writer" \notin servers
    /\ handle = "done" => "conn" \notin servers
    /\ "conn2" \in servers => "hijacked" \in servers

-----------------------------------------------------------------------------
\* A request as an upgrade sends it. Maps are sent as lists of elements in any
\* order, certificates as their raw bytes; a nil map is sent as no elements.
Elements(map) == SetToSeq({[key |-> k, values |-> map[k]] : k \in {j \in HeaderKeys : map[j] # None}})
RawCerts(certs) == [i \in DOMAIN certs |-> [raw |-> certs[i]]]

SentUser(user) ==
    IF user = None THEN None
    ELSE [username |-> user.username, password |-> IF user.password = None THEN "" ELSE user.password,
          passwordSet |-> user.password # None]

SentTLS(tls) == [peers |-> RawCerts(tls.peers),
                 chains |-> [i \in DOMAIN tls.chains |-> RawCerts(tls.chains[i])]]

SentRequest(r) ==
    [header |-> Elements(r.header), form |-> Elements(r.form),
     url |-> IF r.url = None THEN None ELSE [path |-> r.url.path, user |-> SentUser(r.url.user)],
     tls |-> IF r.tls = None THEN None ELSE SentTLS(r.tls)]

\* The request that Handle makes of it: the URL is that of the request line
\* unless one was sent.
MapOf(elements) ==
    [k \in HeaderKeys |-> LET at == {i \in DOMAIN elements : elements[i].key = k}
                          IN  IF at = {} THEN None ELSE elements[CHOOSE i \in at : TRUE].values]
ParsedCerts(raws) == [i \in DOMAIN raws |-> raws[i].raw]

UserOf(user) ==
    IF user = None THEN None
    ELSE [username |-> user.username,
          password |-> IF user.passwordSet THEN user.password ELSE None]

MadeRequest(q, requestURI) ==
    [header |-> MapOf(q.header), form |-> MapOf(q.form),
     url |-> IF q.url = None THEN requestURI ELSE [path |-> q.url.path, user |-> UserOf(q.url.user)],
     tls |-> IF q.tls = None THEN None
             ELSE [peers |-> ParsedCerts(q.tls.peers),
                   chains |-> [i \in DOMAIN q.tls.chains |-> ParsedCerts(q.tls.chains[i])]]]

\* The handler of an upgrade is given the request that the node was: its
\* headers and form, the user of its URL, with an empty password told from
\* none, and its certificates in their order and chains (the conversions of
\* Client.ServeHTTP and Server.Handle).
RequestCarried(r, requestURI) ==
    MadeRequest(SentRequest(r), requestURI)
        = [r EXCEPT !.url = IF @ = None THEN requestURI ELSE @]

-----------------------------------------------------------------------------
\* The headers that are set, as a list of elements, and a list of them put into
\* a map.
GetHTTPHeader(hs) == Elements(hs)
MergeHTTPHeader(elements, hs) ==
    FoldLeft(LAMBDA h, e : [h EXCEPT ![e.key] = e.values], hs, elements)

\* HandleSimple: the handler writes to a buffer whose status is the last one
\* set; ops are ["status" |-> code], ["write" |-> payload] and [k |-> value].
SimpleOp(r, op) ==
    CASE "status" \in DOMAIN op -> [r EXCEPT !.code = op.status]
      [] "write" \in DOMAIN op  -> [r EXCEPT !.body = Append(@, op.write)]
      [] OTHER                  -> [r EXCEPT !.header[op.key] = op.value]

\* An error of the call whose only detail is the response.
GetGRPCErrorFromHTTPResponse(response) == [error |-> response]

HandleSimple(ops) ==
    LET r == FoldLeft(SimpleOp, [code |-> 200, header |-> NoHeader, body |-> <<>>], ops)
        response == [r EXCEPT !.header = GetHTTPHeader(@)]
    IN  IF r.code = 500 THEN GetGRPCErrorFromHTTPResponse(response) ELSE [response |-> response]

\* serveHTTPSimple unpacks the response that an error carries.
ResponseOf(answer, x) == IF "error" \in DOMAIN answer THEN answer.error ELSE answer.response

\* convertWriteResponse: the headers are merged into those of the writer.
ServeHTTPSimple(x, ops) ==
    LET r == ResponseOf(HandleSimple(ops), x)
        merged == [x EXCEPT !.header = MergeHTTPHeader(r.header, @)]
    IN  FoldLeft(Written, Sent(merged, EnsureValidResponseCode(r.code)), r.body)

DirectOp(x, op) ==
    CASE "status" \in DOMAIN op -> Sent(x, EnsureValidResponseCode(op.status))
      [] "write" \in DOMAIN op  -> Written(x, op.write)
      [] OTHER                  -> [x EXCEPT !.header[op.key] = op.value]

\* A handler that sets its headers, then its status, then writes is answered
\* as if it had written directly, an internal error with its own headers and
\* body included (HandleSimple, GetGRPCErrorFromHTTPResponse,
\* GetHTTPResponseFromError, serveHTTPSimple).
SimpleTransparent(x, ops) ==
    LET stage(op) == IF "key" \in DOMAIN op THEN 1 ELSE IF "status" \in DOMAIN op THEN 2 ELSE 3
        orderly == \A i, j \in DOMAIN ops : i < j =>
            stage(ops[i]) <= stage(ops[j]) /\ (stage(ops[i]) # 2 \/ stage(ops[j]) # 2)
        direct_ == FoldLeft(DirectOp, x, ops)
    IN  orderly => ServeHTTPSimple(x, ops) = Sent(direct_, 200)

-----------------------------------------------------------------------------
(***************************************************************************)
(* A connection that a handler in the VM took over from the node           *)
(* (http/conn, http/reader, http/writer). Its bytes pass through two       *)
(* buffered readers, the node's and the VM's, with a call between them, or *)
(* past both when the handler uses the connection itself. Bytes are        *)
(* numbered in the order the far end sends them. bufio is external.        *)
(***************************************************************************)

CONSTANTS MaxBytes,      \* how many bytes the far end sends
          BufSize        \* of a bufio.Reader

VARIABLES wire,          \* sent and not yet read from the socket
          nodeBuf, vmBuf, \* what the two buffered readers hold
          early,         \* what the node had buffered when it was hijacked
          got,           \* what the handler has read
          ways,          \* how it has read: "conn", "reader"
          sent,          \* how many bytes the far end has sent
          broken,        \* the socket has failed, or the far end has closed it
          told           \* the handler has been given the error

hijackVars == <<wire, nodeBuf, vmBuf, early, got, ways, sent, broken, told>>

HijackInit ==
    /\ sent \in 0..MaxBytes
    /\ early \in 0..sent
    /\ nodeBuf = [i \in 1..early |-> i]
    /\ wire = [i \in 1..(sent - early) |-> early + i]
    /\ vmBuf = <<>> /\ got = <<>>
    /\ ways = {}
    /\ broken = FALSE /\ told = FALSE

FarEndSends ==
    /\ ~broken /\ sent < MaxBytes
    /\ wire' = Append(wire, sent + 1)
    /\ sent' = sent + 1
    /\ UNCHANGED <<nodeBuf, vmBuf, early, got, ways, broken, told>>

FarEndCloses ==
    /\ ~broken
    /\ broken' = TRUE
    /\ UNCHANGED <<wire, nodeBuf, vmBuf, early, got, ways, sent, told>>

Take(seq, n) == SubSeq(seq, 1, n)
Rest(seq, n) == SubSeq(seq, n + 1, Len(seq))

\* What a read of at most len bytes of the socket may give, with the error or
\* before it.
SocketReads(len) ==
    {[n |-> n, err |-> FALSE] : n \in 1..(IF len < Len(wire) THEN len ELSE Len(wire))}
    \cup {[n |-> Len(wire), err |-> TRUE] : i \in {i \in {1} : broken /\ Len(wire) <= len}}

\* conn.Server.Read answers with the bytes of one read, and with its error.
ConnReadReply(r) == [read |-> Take(wire, r.n), err |-> r.err]

\* conn.Client.Read: the error is a new one, whatever it was.
ConnRead(len) ==
    \E r \in SocketReads(len) :
        /\ got' = got \o ConnReadReply(r).read
        /\ wire' = Rest(wire, r.n)
        /\ told' = (told \/ ConnReadReply(r).err)
        /\ ways' = ways \cup {"conn"}
        /\ UNCHANGED <<nodeBuf, vmBuf, early, sent, broken>>

\* reader.Server.Read answers with the bytes read and the error, if any.
ReadReply(bytes, err) == [read |-> bytes, err |-> err]

\* reader.Client.Read over reader.Server.Read: the node's buffered reader gives
\* what it holds, and reads the socket only when it holds nothing, past its
\* buffer when as much is asked for. The VM's reader keeps the answer.
Refill(len) ==
    IF nodeBuf # <<>>
    THEN LET n == IF len < Len(nodeBuf) THEN len ELSE Len(nodeBuf)
             reply == ReadReply(Take(nodeBuf, n), FALSE)
         IN  /\ vmBuf' = vmBuf \o reply.read
             /\ nodeBuf' = Rest(nodeBuf, n)
             /\ UNCHANGED <<wire, told>>
    ELSE \E r \in SocketReads(IF len >= BufSize THEN len ELSE BufSize) :
             LET n == IF len < r.n THEN len ELSE r.n
                 reply == ReadReply(Take(wire, n), r.err /\ n = r.n)
             IN  /\ vmBuf' = vmBuf \o reply.read
                 /\ nodeBuf' = SubSeq(wire, n + 1, r.n)
                 /\ wire' = Rest(wire, r.n)
                 /\ told' = (told \/ reply.err)

\* The handler reads through the buffered reader it was given.
ReaderRead(len) ==
    /\ ways' = ways \cup {"reader"}
    /\ IF vmBuf # <<>>
       THEN LET n == IF len < Len(vmBuf) THEN len ELSE Len(vmBuf)
            IN  /\ got' = got \o Take(vmBuf, n)
                /\ vmBuf' = Rest(vmBuf, n)
                /\ UNCHANGED <<wire, nodeBuf, told>>
       ELSE Refill(BufSize) /\ UNCHANGED got
    /\ UNCHANGED <<early, sent, broken>>

HijackNext ==
    \/ FarEndSends \/ FarEndCloses
    \/ \E len \in 1..2 : ConnRead(len) \/ ReaderRead(len)

HijackSpec == HijackInit /\ [][HijackNext]_hijackVars

\* A handler that reads through the buffered reader alone, or through the
\* connection alone, is given the bytes of the far end in order, none twice and
\* none left out, from the first or from the first that the node had not
\* buffered; and the error of the connection only after the last of them.
HijackedInOrder ==
    /\ ways = {"reader"} => got \o vmBuf \o nodeBuf \o wire = [i \in 1..sent |-> i]
    /\ ways = {"conn"} => got \o wire = [i \in 1..(sent - early) |-> early + i]
    /\ told /\ ways # {} => wire = <<>>

-----------------------------------------------------------------------------
(***************************************************************************)
(* The life of a connection that a handler in the VM takes over from the   *)
(* node, its writes and its deadlines (http/responsewriter, http/conn,     *)
(* http/writer). Bytes go to the socket in a call of their own, or through *)
(* two buffered writers, the VM's and the node's, with a call between      *)
(* them. They are numbered in the order the handler hands them over. The   *)
(* handler stops at the first error. bufio and net are external.           *)
(***************************************************************************)

CONSTANTS MaxWritten,    \* how many bytes the handler writes
          WriteBufSize,  \* of a bufio.Writer
          Times,         \* what a deadline may be set to
          Past           \* those of them that have passed

VARIABLE taken
    \* [held: who holds the connection, serving: the node serves it to the VM,
    \*  put: bytes handed over, vmOut, nodeOut: what the two buffered writers
    \*  hold, out: what the far end was sent, counted: what the handler was
    \*  told of, ways: how it wrote, failed: it was given an error,
    \*  broken: the far end is gone, deadline: of the socket, asked: by the
    \*  handler]

NoDeadlines == [read |-> None, write |-> None]

TakenInit ==
    taken = [held |-> "node", serving |-> FALSE, put |-> 0, vmOut |-> <<>>, nodeOut |-> <<>>,
             out |-> <<>>, counted |-> 0, ways |-> {}, failed |-> FALSE, broken |-> FALSE,
             deadline |-> NoDeadlines, asked |-> NoDeadlines]

\* responsewriter.Server.Hijack: the node gives up the connection, and serves
\* it, its reader and its writer, to the VM that dials it. Without a listener, or
\* if the VM does not get through, the call fails, and the connection is nobody's.
ServeHijacked(t, listens, dials) ==
    [t EXCEPT !.held = IF listens /\ dials THEN "vm" ELSE "nobody", !.serving = listens]
HijackServer ==
    /\ taken.held = "node"
    /\ \E listens, dials \in BOOLEAN : taken' = ServeHijacked(taken, listens, dials)

Usable == taken.held = "vm" /\ ~taken.failed

FarEndLeaves == ~taken.broken /\ taken' = [taken EXCEPT !.broken = TRUE]

\* A write to the socket: all of it, or an error and any part of it.
SocketWrites(t, bytes) ==
    IF t.held # "vm" THEN {[n |-> 0, err |-> TRUE]}
    ELSE IF t.broken \/ t.deadline.write \in Past
    THEN {[n |-> n, err |-> TRUE] : n \in 0 .. (Len(bytes) - 1)}
    ELSE {[n |-> Len(bytes), err |-> FALSE]}

NextBytes(len) == [i \in 1..len |-> taken.put + i]

\* conn.Server.Write answers with a count or with an error.
ConnServerWrite(r) == IF r.err THEN [n |-> 0, err |-> TRUE] ELSE r

\* conn.Client.Write.
ConnWrite(len) ==
    /\ Usable /\ taken.put + len <= MaxWritten
    /\ \E r \in SocketWrites(taken, NextBytes(len)) :
         LET reply == ConnServerWrite(r) IN
         taken' = [taken EXCEPT !.put = @ + len,
                                !.out = @ \o SubSeq(NextBytes(len), 1, r.n),
                                !.counted = @ + reply.n,
                                !.failed = reply.err,
                                !.ways = @ \cup {"conn"}]

\* writer.Server.Write answers with what the node's buffered writer took and
\* with its error, if any.
WriterServerWrite(r, len) == [n |-> IF r.err THEN r.n ELSE len, err |-> r.err]

\* The node's buffered writer keeps what fits. What does not fit makes room by
\* writing from the front: it keeps no more than its size.
NodeWrites(t, bytes) ==
    LET all == t.nodeOut \o bytes IN
    IF Len(all) <= WriteBufSize THEN {[n |-> 0, err |-> FALSE]}
    ELSE UNION {SocketWrites(t, SubSeq(all, 1, n)) : n \in (Len(all) - WriteBufSize) .. Len(all)}

\* writer.Client.Write, with what the VM's buffered writer flushes. A writer
\* that has failed keeps its error: nothing follows it.
WriterFlush(t, bytes) ==
    {LET all   == t.nodeOut \o bytes
         reply == WriterServerWrite(r, Len(bytes))
     IN  [t EXCEPT !.out = @ \o SubSeq(all, 1, r.n),
                   !.nodeOut = SubSeq(all, r.n + 1, Len(all)),
                   !.vmOut = <<>>,
                   !.failed = reply.err]
     : r \in NodeWrites(t, bytes)}

\* The handler writes through the buffered writer it was given, or flushes it.
BufferedWrite(len) ==
    /\ Usable /\ taken.put + len <= MaxWritten
    /\ LET t   == [taken EXCEPT !.put = @ + len, !.ways = @ \cup {"writer"}]
           all == taken.vmOut \o NextBytes(len)
       IN  IF Len(all) <= WriteBufSize THEN taken' = [t EXCEPT !.vmOut = all]
           ELSE taken' \in WriterFlush(t, all)
BufferedFlush ==
    /\ Usable /\ taken.vmOut # <<>>
    /\ taken' \in WriterFlush(taken, taken.vmOut)

\* The deadlines, of the socket and as the handler asks for them: a call each,
\* that carries the time. conn.Server's three methods and conn.Client's.
ServerSetDeadline(d, t)      == [read |-> t, write |-> t]
ServerSetReadDeadline(d, t)  == [d EXCEPT !.read = t]
ServerSetWriteDeadline(d, t) == [d EXCEPT !.write = t]

SetDeadline(t) ==
    Usable /\ taken' = [taken EXCEPT !.deadline = ServerSetDeadline(@, t),
                                     !.asked = [read |-> t, write |-> t]]
SetReadDeadline(t) ==
    Usable /\ taken' = [taken EXCEPT !.deadline = ServerSetReadDeadline(@, t), !.asked.read = t]
SetWriteDeadline(t) ==
    Usable /\ taken' = [taken EXCEPT !.deadline = ServerSetWriteDeadline(@, t), !.asked.write = t]

\* conn.Server.Close: the connection is closed, and what served it stopped.
CloseTaken ==
    /\ taken.held = "vm"
    /\ taken' = [taken EXCEPT !.held = "closed", !.serving = FALSE]

TakenNext ==
    \/ HijackServer \/ FarEndLeaves \/ BufferedFlush \/ CloseTaken
    \/ \E len \in 1..2 : ConnWrite(len) \/ BufferedWrite(len)
    \/ \E t \in Times : SetDeadline(t) \/ SetReadDeadline(t) \/ SetWriteDeadline(t)

TakenSpec == TakenInit /\ [][TakenNext]_taken

\* A handler that writes in one way until the first error has the far end given
\* what it wrote from the first byte on, none twice and none left out; the
\* bytes the far end was not given are in a buffer, unless there was an error;
\* and the handler is never told of more bytes than were sent.
HijackedWritesInOrder ==
    LET all == [i \in 1..taken.put |-> i] IN
    /\ taken.ways = {"writer"} =>
         /\ IsPrefix(taken.out, all)
         /\ ~taken.failed => taken.out \o taken.nodeOut \o taken.vmOut = all
    /\ taken.ways = {"conn"} => IsPrefix(taken.out, all) /\ taken.counted <= Len(taken.out)

\* A write fails only for a reason the handler can know of: the far end has
\* left, or the last deadline the handler set for writes has passed. A deadline
\* set for reads never ends a write, though the two go through calls alike.
FailsForAReason ==
    taken.failed => taken.broken \/ taken.asked.write \in Past
=============================================================================
