------------------------------ MODULE Database ------------------------------
(***************************************************************************)
(* The node's database over gRPC: batches, and the iterator.               *)
(***************************************************************************)
EXTENDS Integers, SequencesExt

-----------------------------------------------------------------------------
(***************************************************************************)
(* The key-value store that CometBFT writes through: the client of the     *)
(* node's database and its write batches (database/database.go,            *)
(* database/batch.go). The node's side is external. A call fails in        *)
(* transport, or answers with a code that the client maps to an error: a   *)
(* key that is not found is no error.                                      *)
(***************************************************************************)

CONSTANTS
    Keys,
    Empty,     \* the value of no bytes
    None       \* no value

-----------------------------------------------------------------------------
(* Calls: transport is TRUE when the call itself failed.                    *)

ErrEnumToError(code) == IF code = "closed" THEN "closed" ELSE "ok"

Answered(transport, val, code) ==
    IF transport THEN [val |-> None, err |-> "transport"]
    ELSE [val |-> val, err |-> ErrEnumToError(code)]

\* External: a field of no bytes is not on the wire, and read back as nil.
Wire(v) == IF v = Empty THEN None ELSE v

\* External: the node's answers for a store and whether it is closed.
NodeGet(store, closed, k) ==
    IF closed THEN [val |-> None, code |-> "closed"]
    ELSE IF store[k] = None THEN [val |-> None, code |-> "notfound"]
    ELSE [val |-> Wire(store[k]), code |-> "ok"]

NodeWrite(closed) == IF closed THEN "closed" ELSE "ok"

Has(store, closed, transport, k) ==
    Answered(transport, ~closed /\ store[k] # None, NodeWrite(closed))

Get(store, closed, transport, k) ==
    LET r == NodeGet(store, closed, k) IN Answered(transport, r.val, r.code)

\* Set and Delete: what the store holds afterwards. A call that failed in
\* transport may have been carried out.
Set(store, closed, k, v) == IF closed THEN store ELSE [store EXCEPT ![k] = v]
Delete(store, closed, k) == IF closed THEN store ELSE [store EXCEPT ![k] = None]

-----------------------------------------------------------------------------
(* Batches: a sequence of operations, a deletion with value None.           *)

BatchSet(ops, k, v) == Append(ops, [key |-> k, value |-> v])
BatchDelete(ops, k) == Append(ops, [key |-> k, value |-> None])

\* Write walks the operations backwards and keeps the last one of every key.
Kept(ops) == {i \in DOMAIN ops : \A j \in i + 1 .. Len(ops) : ops[j].key # ops[i].key}

\* The request: puts and deletes apart, each in the order of the walk.
Write(ops) ==
    LET backwards == Reverse(SetToSortSeq(Kept(ops), LAMBDA a, b : a < b))
        picked(isDelete) ==
            SelectSeq([i \in DOMAIN backwards |-> ops[backwards[i]]],
                      LAMBDA op : (op.value = None) = isDelete)
    IN  [puts |-> picked(FALSE), deletes |-> picked(TRUE)]

\* External: the node applies a request, in whichever order of the two.
Applied(store, request, putsFirst) ==
    LET apply(s, op) == [s EXCEPT ![op.key] = op.value]
        both == IF putsFirst THEN request.puts \o request.deletes
                ELSE request.deletes \o request.puts
    IN  FoldLeft(apply, store, both)

-----------------------------------------------------------------------------
\* A batch does what its operations would do one after the other, although
\* they are sent as one set of puts and one of deletes that the node may apply
\* in either order: whatever is read afterwards is the same. A closed store and
\* a failed call are never taken for an absent key; a key that is present reads
\* as absent only if its value is empty (Batch.Write, Has, Get).
BatchIsSequential(store, calls) ==
    LET ops == FoldLeft(LAMBDA b, c : IF c.value = None THEN BatchDelete(b, c.key)
                                      ELSE BatchSet(b, c.key, c.value), <<>>, calls)
        after == FoldLeft(LAMBDA s, c : IF c.value = None THEN Delete(s, FALSE, c.key)
                                        ELSE Set(s, FALSE, c.key, c.value), store, calls)
    IN  \A putsFirst, closed, transport \in BOOLEAN, k \in Keys :
            LET read == Get(Applied(store, Write(ops), putsFirst), closed, transport, k)
                has == Has(after, closed, transport, k)
            IN  /\ read = Get(after, closed, transport, k)
                /\ has.err = read.err
                /\ has.err = "ok" => (has.val <=> read.val # None \/ after[k] = Empty)

-----------------------------------------------------------------------------
(***************************************************************************)
(* An iterator over the node's database (database/iterator.go): a          *)
(* goroutine fetches batches of entries from the server, and the user's    *)
(* Next, Valid, Error and Close meet it over channels without buffers.     *)
(* The user either makes these calls in any order, or runs the loop        *)
(*     for ; it.Valid(); it.Next() { ... it.Key() ... }                    *)
(* with which the validators are read when the VM starts                   *)
(* (utils/evm/validators/state/state.go, loadFromDisk).                    *)
(***************************************************************************)

CONSTANTS
    NumEntries,  \* entries in the database, 1 .. NumEntries in order
    MaxBatch,    \* the server sends up to this many at once
    MaxCalls     \* bound: how many calls the user makes

VARIABLES
    pos,         \* server: the last entry that it sent
    fpc,         \* where fetch is
    fetched,     \* the batch that fetch offers
    data,        \* the batch that the user is in
    err,         \* it.err is set
    onClose,     \* the user has closed it
    dbClosed,    \* the database is closed
    user,        \* what the user is doing, and how it came to that
    seen         \* the keys that the user has read, each after how many Nexts

iterVars == <<pos, fpc, fetched, data, err, onClose, dbClosed, user, seen>>

-----------------------------------------------------------------------------
Entries == 1 .. NumEntries
\* close(fetchedData) and close(onClosed) are the last two steps of fetch.
FetchedDataClosed == fpc \in {"closing", "ended"}
OnClosed == fpc = "ended"

IterInit ==
    /\ pos = 0 /\ fpc = "next" /\ fetched = <<>> /\ data = <<>>
    /\ err = FALSE /\ onClose = FALSE /\ dbClosed = FALSE
    /\ user \in [pc : {"idle"}, after : {"none"}, calls : {0},
                nexts : {0}, loop : BOOLEAN]
    /\ seen = <<>>

\* getError; setError keeps the error there is; the key of the current entry, or
\* 0 where there is none.
GetError == err
SetError(failed) == err' = (err \/ failed)
Key == IF data = <<>> THEN 0 ELSE Head(data)

-----------------------------------------------------------------------------
(* fetch.                                                                  *)

FetchNext ==
    /\ fpc = "next"
    /\ \/ \E n \in 1 .. MaxBatch :
             /\ pos + n <= NumEntries
             /\ fetched' = [i \in 1 .. n |-> pos + i]
             /\ pos' = pos + n
             /\ fpc' = "offer"
             /\ UNCHANGED err
       \/ /\ pos = NumEntries
          /\ fpc' = "release"
          /\ UNCHANGED <<pos, fetched, err>>
       \/ /\ SetError(TRUE)
          /\ fpc' = "release"
          /\ UNCHANGED <<pos, fetched>>
    /\ UNCHANGED <<data, onClose, dbClosed, user, seen>>


UpdateError ==
    /\ fpc = "update"
    /\ \E failed \in BOOLEAN : SetError(failed)
    /\ fpc' = "offer"
    /\ user' = [user EXCEPT !.pc = "checked"]
    /\ UNCHANGED <<pos, fetched, data, onClose, dbClosed, seen>>

FetchClosed ==
    /\ fpc = "offer"
    /\ onClose
    /\ fpc' = "release"
    /\ UNCHANGED <<pos, fetched, data, err, onClose, dbClosed, user, seen>>

Release ==
    \/ /\ fpc = "release"
       /\ \E failed \in BOOLEAN : SetError(failed)
       /\ fpc' = "closing"
       /\ UNCHANGED <<pos, fetched, data, onClose, dbClosed, user, seen>>
    \/ /\ fpc = "closing"
       /\ fpc' = "ended"
       /\ UNCHANGED <<pos, fetched, data, err, onClose, dbClosed, user, seen>>

Fetch == FetchNext \/ UpdateError \/ FetchClosed \/ Release

-----------------------------------------------------------------------------
(* The user. A call goes through a few program counters and ends in idle;  *)
(* after says what an Error inside Valid or Close is for.                  *)

CloseDB ==
    /\ ~dbClosed
    /\ dbClosed' = TRUE
    /\ UNCHANGED <<pos, fpc, fetched, data, err, onClose, user, seen>>

Start(pc, after) ==
    /\ user.pc = "idle" /\ user.calls < MaxCalls
    /\ user' = [user EXCEPT !.pc = pc, !.after = after, !.calls = @ + 1]

CallNext ==
    /\ ~user.loop
    /\ Start("next", "none")
    /\ UNCHANGED <<pos, fpc, fetched, data, err, onClose, dbClosed, seen>>

CallValid ==
    /\ user.loop => user.calls = 0
    /\ Start("error", "valid")
    /\ UNCHANGED <<pos, fpc, fetched, data, err, onClose, dbClosed, seen>>

CallClose ==
    /\ ~user.loop
    /\ Start("close", "close")
    /\ UNCHANGED <<pos, fpc, fetched, data, err, onClose, dbClosed, seen>>

\* Next drops its first entry, and then the rest of the batch as well.
NextBegin ==
    /\ user.pc = "next"
    /\ IF dbClosed THEN data' = <<>> /\ SetError(TRUE)
       ELSE /\ data' = IF Len(data) > 1 THEN Tail(data) ELSE data
            /\ UNCHANGED err
    /\ user' = [user EXCEPT !.pc = "receive", !.nexts = @ + 1]
    /\ UNCHANGED <<pos, fpc, fetched, onClose, dbClosed, seen>>

\* A mutant: the batch is offered again, as if the loop had no break.
OfferedStill == fpc' = "offer"

Offered == fpc' = "next"

NextReceive ==
    /\ user.pc = "receive"
    /\ \/ /\ fpc = "offer"
          /\ data' = fetched
          /\ Offered
       \/ /\ FetchedDataClosed
          /\ data' = <<>>
          /\ UNCHANGED fpc
    /\ user' = [user EXCEPT !.pc = IF user.loop THEN "error" ELSE "idle",
                            !.after = "valid"]
    /\ UNCHANGED <<pos, fetched, err, onClose, dbClosed, seen>>

\* Error: the stored error, or fetch is asked to look, or has ended.
ErrorAsk ==
    /\ user.pc = "error"
    /\ IF GetError THEN user' = [user EXCEPT !.pc = "checked"] /\ UNCHANGED fpc
       ELSE \/ /\ fpc = "offer"
               /\ fpc' = "update"
               /\ user' = [user EXCEPT !.pc = "asked"]
            \/ /\ OnClosed
               /\ user' = [user EXCEPT !.pc = "checked"]
               /\ UNCHANGED fpc
    /\ UNCHANGED <<pos, fetched, data, err, onClose, dbClosed, seen>>

\* Valid, Key; the loop goes on to Next or ends with Close.
Checked ==
    LET valid == user.after = "valid" /\ ~GetError /\ Key # 0 IN
    /\ user.pc = "checked"
    /\ seen' = IF valid THEN Append(seen, [key |-> Key, nexts |-> user.nexts]) ELSE seen
    /\ user' = [user EXCEPT
                  !.pc = IF user.after = "close" \/ ~user.loop THEN "idle"
                         ELSE IF valid THEN "next" ELSE "close",
                  !.after = IF user.loop /\ user.after = "valid" /\ ~valid
                            THEN "close" ELSE @]
    /\ UNCHANGED <<pos, fpc, fetched, data, err, onClose, dbClosed>>

CloseBegin ==
    /\ user.pc = "close"
    /\ onClose' = TRUE
    /\ user' = [user EXCEPT !.pc = "await"]
    /\ UNCHANGED <<pos, fpc, fetched, data, err, dbClosed, seen>>

CloseEnd ==
    /\ user.pc = "await"
    /\ OnClosed
    /\ user' = [user EXCEPT !.pc = "error"]
    /\ UNCHANGED <<pos, fpc, fetched, data, err, onClose, dbClosed, seen>>

UserStep == NextBegin \/ NextReceive \/ ErrorAsk \/ Checked \/ CloseBegin \/ CloseEnd

IterNext == Fetch \/ CloseDB \/ CallNext \/ CallValid \/ CallClose \/ UserStep

\* fetch and the user run; which of several ready channels a select takes is
\* random.
IterFairness == WF_iterVars(Fetch) /\ WF_iterVars(UserStep)

IterSpec == IterInit /\ [][IterNext]_iterVars /\ IterFairness

-----------------------------------------------------------------------------
\* Next always moves on: a key read after more calls of Next is a later key of
\* the database, wherever errors, Close and the end fall between the calls.
DatabaseInOrder ==
    \A i, j \in 1 .. Len(seen) :
        seen[i].nexts < seen[j].nexts => seen[i].key < seen[j].key

\* Every call returns: a receive after the end of fetch, an Error while fetch
\* waits for the server and a Close at any time do not block for ever.
IteratorCallsReturn == (user.pc # "idle") ~> (user.pc = "idle")

\* "Load the state from the disk" (state.go, loadFromDisk): when the loop has
\* ended without an error, it has read every entry.
LoadReadsAll ==
    user.loop /\ user.pc = "idle" /\ user.calls > 0 /\ ~err /\ ~dbClosed
        => [i \in 1 .. Len(seen) |-> seen[i].key] = [i \in Entries |-> i]
=============================================================================
