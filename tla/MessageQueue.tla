---------------------------- MODULE MessageQueue ----------------------------
(***************************************************************************)
(* The queue of messages that a peer has still to send: the                *)
(* blockingMessageQueue of utils/avalanche/network/peer/message_queue.go,  *)
(* with goroutines that push, the peer's writer that pops, and Close.      *)
(*                                                                         *)
(* closingLock is a Go RWMutex: pushers share it, and a Close that waits   *)
(* for it keeps new pushers out. A message is pushed once, so that its     *)
(* name stands for the goroutine that pushes it.                           *)
(***************************************************************************)
EXTENDS Naturals, Sequences, FiniteSets

CONSTANTS
    Messages,
    BufferSize

VARIABLES
    queue,      \* the buffered channel
    push,       \* per message: how far its Push has come
    expired,    \* messages whose context is cancelled
    queueCloser, \* how far Close has come
    popper,     \* what the writer does: PopNow, Pop, or nothing any more
    popped,     \* messages that the writer got
    failed      \* per message: calls of SendFailed

queueVars == <<queue, push, expired, queueCloser, popper, popped, failed>>

QueueClosing == queueCloser # "open"

Pushing == {m \in Messages : push[m] \in {"locked", "checked"}}

Drop(m) ==
    /\ push' = [push EXCEPT ![m] = "dropped"]
    /\ failed' = [failed EXCEPT ![m] = @ + 1]

-----------------------------------------------------------------------------
(* Push                                                                    *)

PushLock(m) ==
    /\ push[m] = "idle"
    /\ queueCloser \notin {"waiting", "draining"}
    /\ push' = [push EXCEPT ![m] = "locked"]
    /\ UNCHANGED <<queue, expired, queueCloser, popper, popped, failed>>

\* The first select.
PushCheck(m) ==
    /\ push[m] = "locked"
    /\ IF QueueClosing \/ m \in expired
       THEN Drop(m)
       ELSE push' = [push EXCEPT ![m] = "checked"] /\ UNCHANGED failed
    /\ UNCHANGED <<queue, expired, queueCloser, popper, popped>>

PushSend(m) ==
    /\ push[m] = "checked"
    /\ Len(queue) < BufferSize
    /\ queue' = Append(queue, m)
    /\ push' = [push EXCEPT ![m] = "sent"]
    /\ UNCHANGED <<expired, queueCloser, popper, popped, failed>>

\* The other cases of the second select; when several are ready any is taken.
PushGiveUp(m) ==
    /\ push[m] = "checked"
    /\ QueueClosing \/ m \in expired
    /\ Drop(m)
    /\ UNCHANGED <<queue, expired, queueCloser, popper, popped>>

CancelPush(m) ==
    /\ m \notin expired
    /\ expired' = expired \cup {m}
    /\ UNCHANGED <<queue, push, queueCloser, popper, popped, failed>>

-----------------------------------------------------------------------------
(* Pop and PopNow, as writeMessages calls them                             *)

Take ==
    /\ queue # <<>>
    /\ popped' = popped \cup {Head(queue)}
    /\ queue' = Tail(queue)
    /\ UNCHANGED <<push, expired, queueCloser, failed>>

PopNow ==
    /\ popper = "now"
    /\ \/ Take /\ UNCHANGED popper
       \/ /\ queue = <<>>
          /\ popper' = "pop"
          /\ UNCHANGED <<queue, push, expired, queueCloser, popped, failed>>

Pop ==
    /\ popper = "pop"
    /\ \/ Take /\ popper' = "now"
       \/ /\ QueueClosing
          /\ popper' = "done"
          /\ UNCHANGED <<queue, push, expired, queueCloser, popped, failed>>

-----------------------------------------------------------------------------
(* Close: the channel closing is closed, then the lock is taken, and what  *)
(* is left in the queue has failed.                                        *)

CloseQueue ==
    /\ queueCloser = "open"
    /\ queueCloser' = "closing"
    /\ UNCHANGED <<queue, push, expired, popper, popped, failed>>

CloseWait ==
    /\ queueCloser = "closing"
    /\ queueCloser' = "waiting"
    /\ UNCHANGED <<queue, push, expired, popper, popped, failed>>

CloseLock ==
    /\ queueCloser = "waiting"
    /\ Pushing = {}
    /\ queueCloser' = "draining"
    /\ UNCHANGED <<queue, push, expired, popper, popped, failed>>

\* A mutant: the messages left are not reported.
DrainSilently ==
    /\ queueCloser = "draining"
    /\ queue' = <<>>
    /\ queueCloser' = "closed"
    /\ UNCHANGED <<push, expired, popper, popped, failed>>

Drain ==
    /\ queueCloser = "draining"
    /\ IF queue # <<>>
       THEN /\ failed' = [failed EXCEPT ![Head(queue)] = @ + 1]
            /\ queue' = Tail(queue)
            /\ UNCHANGED queueCloser
       ELSE queueCloser' = "closed" /\ UNCHANGED <<queue, failed>>
    /\ UNCHANGED <<push, expired, popper, popped>>

-----------------------------------------------------------------------------
QueueInit ==
    /\ queue = <<>>
    /\ push = [m \in Messages |-> "idle"]
    /\ expired = {}
    /\ queueCloser = "open"
    /\ popper = "now"
    /\ popped = {}
    /\ failed = [m \in Messages |-> 0]

PushStep(m) == PushCheck(m) \/ PushSend(m) \/ PushGiveUp(m)

QueueCloseStep == CloseWait \/ CloseLock \/ Drain

QueueNext ==
    \/ \E m \in Messages : PushLock(m) \/ PushStep(m) \/ CancelPush(m)
    \/ PopNow \/ Pop
    \/ CloseQueue \/ QueueCloseStep

\* Goroutines that can go on do; nobody has to push, to cancel or to close.
QueueFairness ==
    /\ \A m \in Messages : WF_queueVars(PushStep(m))
    /\ WF_queueVars(PopNow \/ Pop)
    /\ WF_queueVars(QueueCloseStep)

QueueSpec == QueueInit /\ [][QueueNext]_queueVars /\ QueueFairness

-----------------------------------------------------------------------------
\* Whatever Push, Pop and Close do at the same time, a message for which Push
\* returned true is waiting, with the writer, or reported as failed, and only
\* one of these; after false it is reported once and "guaranteed not to be
\* delivered".
OnePlace ==
    \A m \in Messages :
        LET places == (IF m \in popped THEN 1 ELSE 0) + failed[m]
                      + Cardinality({i \in DOMAIN queue : queue[i] = m})
        IN  /\ push[m] \in {"sent", "dropped"} <=> places = 1
            /\ push[m] \notin {"sent", "dropped"} <=> places = 0
            /\ push[m] = "dropped" => failed[m] = 1

\* "Close empties the queue and prevents further messages from being pushed
\* onto it": no Push that was under way leaves a message behind.
ClosedStaysEmpty == queueCloser = "closed" => queue = <<>>

\* A message is waiting, popped or failed, and only one of these, and a closed
\* queue stays empty.
ExactlyOnce == OnePlace /\ ClosedStaysEmpty

\* Once the queue is closed, every Push that has begun returns, Close returns
\* and the writer stops, though Close waits for the pushers and they may wait
\* for room.
CloseCompletes ==
    QueueClosing ~> (queueCloser = "closed" /\ Pushing = {} /\ popper = "done")
=============================================================================
