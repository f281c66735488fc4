------------------------------ MODULE Jsonrpc -------------------------------
(***************************************************************************)
(* The JSON-RPC service: requests and batches, pages and ranges of answers,*)
(* and the configuration that limits them.                                 *)
(***************************************************************************)
EXTENDS Integers, SequencesExt, FiniteSets

-----------------------------------------------------------------------------
(***************************************************************************)
(* The JSON-RPC handler (jsonrpc/http_json_handler.go, rpc_func.go): what  *)
(* a request body is answered with, and whether the answer may be cached.  *)
(*                                                                         *)
(* A function is [arity, argNames, cacheable, noCacheDefArgs, ws]; its     *)
(* arity is the number of its parameters behind the context. A request is  *)
(* [id, method, params, result]: the result is what the function does if   *)
(* it is called. Parameters are None, [map |-> values by name],            *)
(* [array |-> values] or neither; a value is Zero (the default of its      *)
(* type), BadValue (it cannot be parsed) or any other.                     *)
(***************************************************************************)

CONSTANT None

Zero == 0
BadValue == -1

\* The parameters of a function, without the context.
FuncArgTypes(arity) == arity

\* The option of a function: its answers may be cached unless one of the named
\* arguments has its default. No route has the other option, Ws.
Cacheable(f, noCacheDefArgs) ==
    [f EXCEPT !.cacheable = TRUE, !.noCacheDefArgs = noCacheDefArgs]

NewRPCFunc(arity, argNames) ==
    [arity |-> FuncArgTypes(arity), argNames |-> argNames, cacheable |-> FALSE,
     noCacheDefArgs |-> {}, ws |-> FALSE]

\* The functions of the VM. Each arity is that of the method the name stands
\* for, each list of names the route's own.
Routes ==
    LET hash == <<"hash">>     height == <<"height">>     tx == <<"tx">>
    IN
    [health |-> NewRPCFunc(0, <<>>),
     status |-> NewRPCFunc(0, <<>>),
     blockchain |-> Cacheable(NewRPCFunc(2, <<"minHeight", "maxHeight">>), {}),
     genesis |-> Cacheable(NewRPCFunc(0, <<>>), {}),
     genesis_chunked |-> Cacheable(NewRPCFunc(1, <<"chunk">>), {}),
     block |-> Cacheable(NewRPCFunc(1, height), {"height"}),
     block_by_hash |-> Cacheable(NewRPCFunc(1, hash), {}),
     block_results |-> Cacheable(NewRPCFunc(1, height), {"height"}),
     commit |-> Cacheable(NewRPCFunc(1, height), {"height"}),
     check_tx |-> NewRPCFunc(1, tx),
     tx |-> Cacheable(NewRPCFunc(2, hash \o <<"prove">>), {}),
     unconfirmed_txs |-> NewRPCFunc(1, <<"limit">>),
     num_unconfirmed_txs |-> NewRPCFunc(0, <<>>),
     tx_search |-> NewRPCFunc(5, <<"query", "prove", "page", "per_page", "order_by">>),
     block_search |-> NewRPCFunc(4, <<"query", "page", "per_page", "order_by">>),
     validators |-> Cacheable(NewRPCFunc(3, height \o <<"page", "per_page">>), {"height"}),
     consensus_params |-> Cacheable(NewRPCFunc(1, height), {"height"}),
     broadcast_tx_commit |-> NewRPCFunc(1, tx),
     broadcast_tx_sync |-> NewRPCFunc(1, tx),
     broadcast_tx_async |-> NewRPCFunc(1, tx),
     abci_query |-> NewRPCFunc(4, <<"path", "data", "height", "prove">>),
     abci_info |-> Cacheable(NewRPCFunc(0, <<>>), {}),
     warp_add_message |-> NewRPCFunc(1, <<"message">>),
     warp_get_message |-> NewRPCFunc(1, <<"messageID">>),
     warp_get_message_signature |-> NewRPCFunc(1, <<"messageID">>),
     warp_get_message_aggregate_signature |->
         NewRPCFunc(3, <<"messageID", "quorumNum", "subnetID">>),
     warp_get_block_signature |-> NewRPCFunc(1, <<"blockID">>),
     warp_get_block_aggregate_signature |->
         NewRPCFunc(3, <<"blockID", "quorumNum", "subnetID">>)]

\* The handler is given the routes as they are.
Funcs == Routes

\* A parameter that is missing from a map has the default of its type.
MapParamsToArgs(f, params) ==
    [i \in DOMAIN f.argNames |->
        IF f.argNames[i] \in DOMAIN params THEN params[f.argNames[i]] ELSE Zero]

\* An array must have as many values as the function has arguments.
ArrayParamsToArgs(f, params) ==
    IF Len(params) = Len(f.argNames) THEN params ELSE <<BadValue>>

JSONParamsToArgs(f, params) ==
    LET values == IF "map" \in DOMAIN params THEN MapParamsToArgs(f, params.map)
                  ELSE IF "array" \in DOMAIN params THEN ArrayParamsToArgs(f, params.array)
                  ELSE <<BadValue>>
    IN  IF BadValue \in ToSet(values) THEN None ELSE values

\* The arguments behind the context, which the code counts from one.
CacheableWithArgs(f, args) ==
    /\ f.cacheable
    /\ \A i \in 1 .. f.arity :
         f.argNames[i] \in f.noCacheDefArgs => i <= Len(args) /\ args[i] # Zero

Response(acc, r, kind) == [acc EXCEPT !.responses = Append(@, [id |-> r.id, kind |-> kind])]
Uncached(acc) == [acc EXCEPT !.cache = FALSE]

\* The function's panic becomes an error of it.
PanicRecoveryMiddleware(result) == IF result = "panic" THEN "error" ELSE result

UnreflectResult(result) == IF result = "error" THEN "internal" ELSE "ok"

\* reflect's Call panics when it is given too few arguments, before the
\* function and its recovery from panics are entered.
Called(acc, r, f, args) ==
    IF Len(args) < f.arity THEN [acc EXCEPT !.panicked = TRUE]
    ELSE Response(acc, r, UnreflectResult(PanicRecoveryMiddleware(r.result)))

\* One request of a batch: a notification is skipped, an unknown method, a
\* mismatch of arguments and bad parameters are answered with an error.
Answer(acc, r) ==
    IF acc.panicked \/ r.id = None THEN acc
    ELSE IF r.method \notin DOMAIN Funcs THEN Response(Uncached(acc), r, "not found")
    ELSE LET f == Funcs[r.method]
             args == IF r.params = None THEN <<>> ELSE JSONParamsToArgs(f, r.params)
         IN  IF f.ws THEN Response(Uncached(acc), r, "not found")
             ELSE IF f.arity # Len(f.argNames) THEN Response(Uncached(acc), r, "internal")
             ELSE IF args = None THEN Response(Uncached(acc), r, "invalid params")
             ELSE Called([acc EXCEPT !.cache = @ /\ CacheableWithArgs(f, args)], r, f, args)

\* The handler, once the body was read as a batch or as a single request: an
\* unreadable body, an empty one and one that is neither are answered before.
\* Nothing is written when there is nothing to answer.
Handle(requests) ==
    LET all == FoldLeft(Answer, [responses |-> <<>>, cache |-> TRUE, panicked |-> FALSE],
                        requests)
    IN  [all EXCEPT !.cache = @ /\ all.responses # <<>>]

-----------------------------------------------------------------------------
\* A call of a function that has arguments, without any parameters.
LacksParams(r) ==
    /\ r.method \in DOMAIN Funcs
    /\ r.params = None
    /\ Funcs[r.method].arity > 0

\* Every request that has an ID is answered once, under its ID and in order,
\* and nothing else is (the handler's loop; "The Server MUST NOT reply to a
\* Notification"), in every body whose requests bring parameters to the functions
\* that have arguments. An internal error is the function's own: no route has
\* names that differ in number from its method's parameters, which nothing but a
\* call would show.
AnsweredInOrder(requests) ==
    LET h    == Handle(requests)
        asks == SelectSeq(requests, LAMBDA r : r.id # None)
    IN  (\A i \in DOMAIN asks : ~LacksParams(asks[i])) =>
             /\ ~h.panicked
             /\ Len(h.responses) = Len(asks)
             /\ \A i \in DOMAIN asks :
                   /\ h.responses[i].id = asks[i].id
                   /\ h.responses[i].kind = "internal" => asks[i].result # "ok"

\* Whether the route of a request allows its answer to be cached, and the request
\* names, with a value other than the default, each argument that the route lists.
Pins(r) ==
    r.method \in DOMAIN Funcs /\ LET f == Funcs[r.method] IN
        f.cacheable /\ \A a \in f.noCacheDefArgs :
            IF r.params = None THEN FALSE
            ELSE IF "map" \in DOMAIN r.params
            THEN a \in DOMAIN r.params.map /\ r.params.map[a] # Zero
            ELSE /\ "array" \in DOMAIN r.params
                 /\ \E i \in DOMAIN r.params.array \cap DOMAIN f.argNames :
                       f.argNames[i] = a /\ r.params.array[i] # Zero

\* An answer is marked as cacheable only if each of its requests is, "Any RPC
\* request doesn't allow to be cached" and "has the height argument and the value
\* is 0": one question about the latest height, or one that is refused before its
\* function is called, is enough to leave a batch unmarked. (An error of the
\* function itself is not.)
CachedOnlyIfPinned(requests) ==
    LET h == Handle(requests) IN
    h.cache => /\ \A i \in DOMAIN requests : requests[i].id # None => Pins(requests[i])
               /\ \A i \in DOMAIN h.responses : h.responses[i].kind \in {"ok", "internal"}

-----------------------------------------------------------------------------
(***************************************************************************)
(* How the RPC handlers cut a long answer into pieces (vm/rpc.go): pages   *)
(* of validators and of search results, the range of heights of            *)
(* blockchain, the chunks of the genesis document (vm/vm.go). Pointers     *)
(* that may be nil are None.                                               *)
(***************************************************************************)

CONSTANTS DefaultPerPage, MaxPerPage, ChunkSize

\* The result of a handler that returns an error.
Err == None

Least(a, b) == IF a < b THEN a ELSE b
Greatest(a, b) == IF a > b THEN a ELSE b

\* Go's division rounds towards zero.
Quo(a, b) == IF a >= 0 THEN a \div b ELSE -((-a) \div b)

ValidatePerPage(perPage) ==
    IF perPage = None \/ perPage < 1 THEN DefaultPerPage
    ELSE Least(perPage, MaxPerPage)

\* A mutant: a last page that is not full is lost.
NumPagesFull(perPage, total) == Greatest(Quo(total, perPage), 1)

NumPages(perPage, total) ==
    LET pages == Quo(total - 1, perPage) + 1
    IN  IF pages = 0 THEN 1 ELSE pages

ValidatePage(page, perPage, total) ==
    IF page = None THEN 1
    ELSE IF page < 1 \/ page > NumPages(perPage, total) THEN Err
    ELSE page

ValidateSkipCount(page, perPage) == Greatest((page - 1) * perPage, 0)

\* Validators, TxSearch and BlockSearch: one page of a list.
PageOf(list, page, perPage) ==
    LET per == ValidatePerPage(perPage)
        p == ValidatePage(page, per, Len(list))
        skip == ValidateSkipCount(p, per)
    IN  IF p = Err THEN Err
        ELSE SubSeq(list, skip + 1, skip + Least(per, Len(list) - skip))

\* Transactions are placed by height, then index; "asc" is the default.
TxBefore(order, a, b) ==
    LET less == a.height < b.height \/ (a.height = b.height /\ a.index < b.index)
    IN  IF order = "desc" THEN a # b /\ ~less ELSE less

TxSearch(found, page, perPage, order) ==
    IF order \notin {"asc", "desc", ""} THEN Err
    ELSE PageOf(SetToSortSeq(found, LAMBDA a, b : TxBefore(order, a, b)), page, perPage)

\* Heights: "desc" is the default. A block that was pruned is left out.
BlockSearch(found, stored, page, perPage, order) ==
    IF order \notin {"asc", "desc", ""} THEN Err
    ELSE LET cut == PageOf(SetToSortSeq(found, LAMBDA a, b :
                               IF order = "asc" THEN a < b ELSE a > b), page, perPage)
         IN  IF cut = Err THEN Err ELSE SelectSeq(cut, LAMBDA h : h \in stored)

FilterMinMax(base, height, min, max, limit) ==
    LET hi == Least(height, IF max = 0 THEN height ELSE max)
        lo == Greatest(Greatest(base, IF min = 0 THEN 1 ELSE min), hi - limit + 1)
    IN  IF min < 0 \/ max < 0 \/ lo > hi THEN Err ELSE <<lo, hi>>

\* BlockchainInfo: the metas of the range, from the highest down.
BlockchainInfo(base, height, min, max, limit) ==
    LET range == FilterMinMax(base, height, min, max, limit)
    IN  IF range = Err THEN Err
        ELSE [i \in 1 .. range[2] - range[1] + 1 |-> range[2] - i + 1]

NumChunks(size) == (size + ChunkSize - 1) \div ChunkSize

\* Initialize: pieces of the genesis document.
GenChunks(bytes) ==
    [i \in 1 .. NumChunks(Len(bytes)) |->
        SubSeq(bytes, (i - 1) * ChunkSize + 1, Least(i * ChunkSize, Len(bytes)))]

GenesisChunked(bytes, chunk) ==
    LET chunks == GenChunks(bytes)
    IN  IF chunks = <<>> \/ chunk > Len(chunks) - 1 THEN Err ELSE chunks[chunk + 1]

Genesis(bytes) == IF Len(GenChunks(bytes)) > 1 THEN Err ELSE bytes

-----------------------------------------------------------------------------
\* Whatever page size a client asks for, reading page after page until the
\* first error gives every item once and in order, and only an empty list has
\* an empty page.
PagesPartition(list, perPage) ==
    LET per == ValidatePerPage(perPage)
        good == {p \in 1 .. Len(list) + 1 : PageOf(list, p, perPage) # Err}
        pages == [p \in good |-> PageOf(list, p, perPage)]
    IN  /\ good = 1 .. Cardinality(good)
        /\ FlattenSeq(pages) = list
        /\ \A p \in good : Len(pages[p]) \in (IF list = <<>> THEN {0} ELSE 1 .. per)

\* Ascending and descending search results are each other's reverse, so that no
\* order of results loses one at a page boundary.
SearchOrdersAgree(found) ==
    LET all(order) == FlattenSeq([p \in 1 .. NumPages(1, Cardinality(found)) |->
                                      TxSearch(found, p, 1, order)])
    IN  all("asc") = Reverse(all("desc")) /\ all("asc") = all("")

\* BlockchainInfo gives exactly the highest heights that are stored and asked
\* for, at most the limit of them, and an error only when there is none.
RangeServed(base, height, min, max, limit) ==
    LET info == BlockchainInfo(base, height, min, max, limit)
        wanted == {h \in base .. height : h >= Greatest(min, 1) /\ (max = 0 \/ h <= max)}
        highest == {h \in wanted : Cardinality({g \in wanted : g > h}) < limit}
    IN  IF min < 0 \/ max < 0 \/ wanted = {} THEN info = Err
        ELSE info # Err /\ ToSet(info) = highest /\ Len(info) = Cardinality(highest)

\* The chunks that genesis_chunked serves, one after the other up to the first
\* error, are the genesis document, also when its size is a multiple of the
\* chunk size; genesis serves it whole only when there is one chunk.
ChunksWhole(bytes) ==
    LET n == Len(GenChunks(bytes))
    IN  /\ FlattenSeq([i \in 1 .. n |-> GenesisChunked(bytes, i - 1)]) = bytes
        /\ GenesisChunked(bytes, n) = Err
        /\ Genesis(bytes) # Err => n <= 1

-----------------------------------------------------------------------------
(***************************************************************************)
(* The VM's configuration: what Initialize makes of the defaults and of    *)
(* the bytes that it is given (vm/types/config.go, vm/vm.go), and the size *)
(* limits that the block executor derives from the result                  *)
(* (CreateProposalBlock). A configuration is a record of the fields that   *)
(* Validate looks at; the bytes are a function on the fields they mention. *)
(***************************************************************************)

CONSTANTS
    MaxBlockSizeBytes,   \* external: CometBFT's limit
    DefaultMaxBytes, DefaultMaxGas, DefaultEvidence, DefaultSubscriptions,
    HeaderBytes,         \* external: what a block takes beside its data
    CommitBytes          \* external: what the commit of one validator takes

SetDefaults ==
    [name |-> TRUE, maxBytes |-> DefaultMaxBytes, maxGas |-> DefaultMaxGas,
     evidence |-> DefaultEvidence, perClient |-> DefaultSubscriptions,
     clients |-> DefaultSubscriptions]

\* json.Unmarshal into the defaults leaves alone what the bytes do not mention.
Unmarshalled(given) ==
    [f \in DOMAIN SetDefaults |-> IF f \in DOMAIN given THEN given[f] ELSE SetDefaults[f]]

\* ConsensusParams.Validate: -1 stands for CometBFT's limit.
ValidateParams(c) ==
    LET maxBytes == IF c.maxBytes = -1 THEN MaxBlockSizeBytes ELSE c.maxBytes
    IN  /\ c.maxBytes # 0 /\ c.maxBytes >= -1 /\ c.maxBytes <= MaxBlockSizeBytes
        /\ c.maxGas >= -1
        /\ c.evidence <= maxBytes
        /\ c.evidence >= 0

Validate(c) ==
    /\ c.name
    /\ ValidateParams(c)
    /\ c.perClient >= 0 /\ c.clients >= 0

\* Initialize refuses a configuration that is not valid.
Configured(given) == Validate(Unmarshalled(given))

-----------------------------------------------------------------------------
\* The limits of a proposal with n validators: for the application, and for the
\* mempool, where -1 is none. External: MaxDataBytes panics below zero.
MaxDataBytes(maxBytes, evidence, n) == maxBytes - HeaderBytes - n * CommitBytes - evidence

Limits(c, n) ==
    LET empty == c.maxBytes = -1
        maxBytes == IF empty THEN MaxBlockSizeBytes ELSE c.maxBytes
        data == MaxDataBytes(maxBytes, c.evidence, n)
    IN  [data |-> data, reap |-> IF empty THEN -1 ELSE data, gas |-> c.maxGas,
         block |-> maxBytes]

-----------------------------------------------------------------------------
\* Initialize accepts exactly the configurations whose evidence fits into the
\* block that the executor will build, with -1 meaning the same limit in both
\* places; a field that the bytes do not mention counts with its default, and
\* a limit that was never given is no reason to refuse. A block that is filled
\* to its limits is then never larger than CometBFT takes.
LimitsConsistent(given, n) ==
    LET c == Unmarshalled(given)
        l == Limits(c, n)
    IN  /\ Configured(given) <=>
               /\ l.block \in 1 .. MaxBlockSizeBytes
               /\ c.evidence \in 0 .. l.block
               /\ c.maxGas >= -1 /\ c.perClient >= 0 /\ c.clients >= 0 /\ c.name
        /\ Configured(given) /\ l.data >= 0 =>
               /\ l.data + c.evidence + HeaderBytes + n * CommitBytes <= MaxBlockSizeBytes
               /\ l.reap = -1 => c.maxBytes = -1
=============================================================================
