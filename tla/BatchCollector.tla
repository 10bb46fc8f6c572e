--------------------------- MODULE BatchCollector ---------------------------
(***************************************************************************)
(* BatchCollector of dbkit/integrations/batch.py: concurrent producers add *)
(* items to one buffer, which is handed to the flush callback when it is   *)
(* full, when a timer fires, or when somebody calls flush or close.        *)
(*                                                                         *)
(* Everything happens under one asyncio.Lock, which is a FIFO queue of     *)
(* tasks whose head holds it.  The holder gives way to other tasks only    *)
(* while it awaits the callback.  Any caller may be cancelled while it     *)
(* waits for the lock or for the callback.                                 *)
(***************************************************************************)
EXTENDS Naturals, SequencesExt

CONSTANTS
  Producers,  \* tasks that each add one item, themselves
  Flushers,   \* tasks that call flush
  Closers,    \* tasks that call close
  Timer,      \* the task of _timer_flush
  MaxSize     \* max_size

ASSUME CollectorAssumption ==
  /\ MaxSize \in Nat \ {0}
  /\ Producers \cap (Flushers \cup Closers) = {} /\ Flushers \cap Closers = {}
  /\ Timer \notin Producers \cup Flushers \cup Closers

VARIABLES
  queue,   \* tasks at the lock, the holder first
  pc,      \* where each caller is
  timer,   \* "none", or what the timer task is doing
  buffer,  \* _buffer
  closed,  \* _closed
  batch,   \* the items that the flush callback has been given and is working on
  added,   \* history: every item ever appended to the buffer, in that order
  handed,  \* history: every item ever given to the callback, in that order
  cut      \* history: items whose callback was cut off though nobody cancelled a caller

vars == <<queue, pc, timer, buffer, closed, batch, added, handed, cut>>

Callers == Producers \cup Flushers \cup Closers

TypeOK ==
  /\ queue \in Seq(Callers \cup {Timer}) /\ IsInjective(queue)
  /\ pc \in [Callers -> {"new", "waiting", "flushing", "returned", "raised"}]
  /\ timer \in {"none", "sleeping", "waiting", "doomed"}
  /\ \A s \in {buffer, batch, added, handed} : s \in Seq(Producers)
  /\ closed \in BOOLEAN
  /\ cut \subseteq Producers
  /\ \A t \in Callers : (pc[t] \in {"waiting", "flushing"}) <=> Contains(queue, t)
  /\ timer \in {"waiting", "doomed"} <=> Contains(queue, Timer)

Init ==
  /\ queue = <<>>
  /\ pc = [t \in Callers |-> "new"]
  /\ timer = "none"
  /\ closed = FALSE
  /\ cut = {}
  /\ buffer = <<>> /\ batch = <<>>
  /\ added = <<>> /\ handed = <<>>

-----------------------------------------------------------------------------
Holds(t) == queue # <<>> /\ Head(queue) = t

\* The lock is the caller's, which has not begun.
Entered(t) == Holds(t) /\ pc[t] = "waiting"

Goes(t, where) == pc' = [pc EXCEPT ![t] = where]

\* Mutant: _timer still refers to the timer that was cancelled.
Disarmed_Spent == "spent"

\* _timer is None.
Disarmed == "none"

\* A task that is cancelled while it waits for the lock leaves the queue.
Without(t) == RemoveFirst(queue, t)

\* _flush_locked of a caller t that holds the lock: the timer is cancelled and items, if
\* there are any, go to the callback.
FlushLocked(t, items) ==
  /\ timer' = Disarmed
  /\ buffer' = <<>>
  /\ batch' = items
  /\ handed' = handed \o items
  /\ IF items = <<>> THEN Goes(t, "returned") /\ queue' = Tail(Without(Timer))
                     ELSE Goes(t, "flushing") /\ queue' = Without(Timer)

\* A caller asks for the lock.
Call(t) ==
  /\ pc[t] = "new"
  /\ Goes(t, "waiting")
  /\ queue' = Append(queue, t)
  /\ UNCHANGED <<timer, buffer, closed, batch, added, handed, cut>>

\* Mutant: the buffer is flushed when it has more than max_size items.
Full_More(items) == Len(items) > MaxSize

Full(items) == Len(items) >= MaxSize

\* The item is appended, and the buffer flushed if that fills it.
Append_Flush(t) ==
  LET items == Append(buffer, t)
  IN  /\ Entered(t) /\ ~closed /\ Full(items)
      /\ added' = Append(added, t)
      /\ FlushLocked(t, items)
      /\ UNCHANGED <<closed, cut>>

\* The item is appended, and the timer armed if it is not.
Append_Arm(t) ==
  LET items == Append(buffer, t)
  IN  /\ Entered(t) /\ ~closed /\ ~Full(items)
      /\ added' = Append(added, t)
      /\ buffer' = items
      /\ timer' = IF timer = "none" THEN "sleeping" ELSE timer
      /\ Goes(t, "returned") /\ queue' = Tail(queue)
      /\ UNCHANGED <<closed, batch, handed, cut>>

\* Mutant: a closed collector takes items.
Append_Closed_Taken(t) ==
  /\ Entered(t) /\ closed
  /\ added' = Append(added, t)
  /\ buffer' = Append(buffer, t)
  /\ Goes(t, "returned") /\ queue' = Tail(queue)
  /\ UNCHANGED <<timer, closed, batch, handed, cut>>

\* add of a closed collector raises RuntimeError.
Append_Closed(t) ==
  /\ Entered(t) /\ closed
  /\ Goes(t, "raised") /\ queue' = Tail(queue)
  /\ UNCHANGED <<timer, buffer, closed, batch, added, handed, cut>>

Add(t) == t \in Producers /\ (Append_Flush(t) \/ Append_Arm(t) \/ Append_Closed(t))

Flush(t) ==
  /\ t \in Flushers /\ Entered(t)
  /\ FlushLocked(t, buffer)
  /\ UNCHANGED <<closed, added, cut>>

Close(t) ==
  /\ t \in Closers /\ Entered(t)
  /\ closed' = TRUE
  /\ FlushLocked(t, buffer)
  /\ UNCHANGED <<added, cut>>

\* Mutant: a batch that failed is put back.
CallbackEnds_PutBack(t) ==
  /\ Holds(t) /\ pc[t] = "flushing"
  /\ batch' = <<>>
  /\ \/ Goes(t, "returned") /\ buffer' = buffer
     \/ Goes(t, "raised") /\ buffer' = batch \o buffer
  /\ queue' = Tail(queue)
  /\ UNCHANGED <<timer, closed, added, handed, cut>>

\* The callback returns, raises, or is cut off by a cancellation of its caller t.
CallbackEnds(t) ==
  /\ Holds(t) /\ pc[t] = "flushing"
  /\ batch' = <<>>
  /\ Goes(t, "returned") \/ Goes(t, "raised")
  /\ queue' = Tail(queue)
  /\ UNCHANGED <<timer, buffer, closed, added, handed, cut>>

\* A caller that waits for the lock is cancelled.
CancelWaiting(t) ==
  /\ pc[t] = "waiting"
  /\ Goes(t, "raised")
  /\ queue' = Without(t)
  /\ UNCHANGED <<timer, buffer, closed, batch, added, handed, cut>>

-----------------------------------------------------------------------------
(* The timer *)

\* sleep ends, and the timer asks for the lock.
TimerFires ==
  /\ timer = "sleeping"
  /\ timer' = "waiting"
  /\ queue' = Append(queue, Timer)
  /\ UNCHANGED <<pc, buffer, closed, batch, added, handed, cut>>

\* _flush_locked in the timer's own task, which is the task that _timer refers to: it
\* cancels itself, and goes on to the callback with a CancelledError pending.
TimerFlush ==
  /\ Holds(Timer) /\ timer = "waiting"
  /\ timer' = "doomed"
  /\ buffer' = <<>>
  /\ batch' = buffer
  /\ handed' = handed \o buffer
  /\ UNCHANGED <<queue, pc, closed, added, cut>>

TimerDone ==
  /\ Holds(Timer) /\ timer = "doomed"
  /\ timer' = Disarmed
  /\ batch' = <<>>
  /\ queue' = Tail(queue)
  /\ UNCHANGED <<pc, buffer, closed, added, handed>>

\* A callback that never suspends returns, or raises into a task nobody awaits.
TimerEnds == TimerDone /\ UNCHANGED cut

\* A callback that suspends gets the CancelledError at its first await.
TimerCutOff == TimerDone /\ cut' = cut \cup ToSet(batch)

-----------------------------------------------------------------------------
Next ==
  \/ \E t \in Callers :
       Call(t) \/ Add(t) \/ Flush(t) \/ Close(t) \/ CallbackEnds(t) \/ CancelWaiting(t)
  \/ TimerFires \/ TimerFlush \/ TimerEnds \/ TimerCutOff

Spec == Init /\ [][Next]_vars

\* The event loop runs the holder of the lock, the callback ends and the sleep elapses.
FairSpec ==
  /\ Spec
  /\ WF_vars(\E t \in Callers : Add(t) \/ Flush(t) \/ Close(t) \/ CallbackEnds(t))
  /\ WF_vars(TimerFires)
  /\ WF_vars(TimerFlush \/ TimerEnds \/ TimerCutOff)

-----------------------------------------------------------------------------
(* Properties *)

\* The callback is given every item that was added, once and in the order of the calls,
\* across full buffers, timers, flush, close and cancelled callers; what it has not been
\* given yet is exactly the buffer.
HandedInOrder == handed \o buffer = added

\* No batch is larger than max_size, and a full buffer never waits.
WithinMaxSize == Len(batch) <= MaxSize /\ Len(buffer) < MaxSize

\* Items in the buffer are never without a timer to flush them, whoever cancelled or
\* replaced the last one.
TimerArmed == buffer # <<>> => timer \in {"sleeping", "waiting"}

\* Once close has been through the lock nothing is buffered again and no timer lives.
ClosedIsEmpty == closed => buffer = <<>> /\ timer = "none"

\* Between any two steps the buffer is within its limits and has somebody to flush it.
BufferSound == TypeOK /\ WithinMaxSize /\ TimerArmed /\ ClosedIsEmpty

\* Every item that was added is given to the callback in the end.
EveryItemHanded == \A p \in Producers : Contains(added, p) ~> Contains(handed, p)

\* A batch is cut off only by somebody who cancels the caller that flushes it: the
\* batches of the timer run to their end.
FlushRunsToItsEnd == cut = {}
=============================================================================
