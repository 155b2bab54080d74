------------------------ MODULE ExecRequestLimiter ------------------------
(***************************************************************************)
(* server/exec_request_limiter.py: the admission control in front of       *)
(* /exec/create_states, /exec/step_batch and /exec/verify.                 *)
(*                                                                         *)
(* No critical section of the limiter contains an await other than         *)
(* Condition.wait(), so the condition's lock is never contended and each   *)
(* stretch between two awaits is one action.  The condition is an          *)
(* asyncio.Condition: notify(n) completes the futures of the first n tasks *)
(* still waiting, and a completed future only makes its task runnable.     *)
(* Between the two, any other task may run, so a notified task has to      *)
(* look at the counter again (exec_request_limiter.py:54).                 *)
(***************************************************************************)
EXTENDS Integers, FiniteSets, Sequences

CONSTANTS
    Tasks,         \* the request handlers that use slot()
    MaxInFlight,   \* max_in_flight, -1 when unbounded
    MaxQueued      \* max_queued, -1 when unbounded

\* The range checks of ExecRequestLimiter.__init__.
ASSUME LimiterAssumption ==
    /\ IsFiniteSet(Tasks)
    /\ MaxInFlight \in Int /\ (MaxInFlight = -1 \/ MaxInFlight > 0)
    /\ MaxQueued \in Int /\ MaxQueued >= -1

VARIABLES
    in_flight,     \* self._in_flight
    queued,        \* self._queued
    waiters,       \* the condition's FIFO of futures not yet completed
    pc             \* pc[t]: how far task t is in slot()

vars == <<in_flight, queued, waiters, pc>>

PCs == {"idle",        \* not in slot()
        "waiting",     \* suspended in wait(), future pending
        "notified",    \* future completed, not yet rescheduled
        "cancelling",  \* CancelledError is about to be thrown into wait()
        "holding",     \* in the body of slot()
        "rejected"}    \* ExecRequestRejected raised, 503 to be sent

Bounded == MaxInFlight >= 0

At(s) == {t \in Tasks : pc[t] = s}

\* Tasks that have counted themselves in self._queued.
Queueing == At("waiting") \cup At("notified") \cup At("cancelling")

---------------------------------------------------------------------------
Init ==
    /\ in_flight = 0
    /\ queued = 0
    /\ waiters = <<>>
    /\ pc = [t \in Tasks |-> "idle"]

\* Condition.notify(n), together with the caller's own move to `to`.
NotifyAndMove(n, t, to) ==
    LET k     == IF n <= Len(waiters) THEN n ELSE Len(waiters)
        woken == {waiters[i] : i \in 1..k}
    IN  /\ waiters' = SubSeq(waiters, k + 1, Len(waiters))
        /\ pc' = [u \in Tasks |-> IF u = t THEN to
                                  ELSE IF u \in woken THEN "notified"
                                  ELSE pc[u]]

Goto(t, to) == pc' = [pc EXCEPT ![t] = to]

HasFreeSlot == ~Bounded \/ in_flight < MaxInFlight

\* A newcomer takes a free slot even when other tasks are waiting for one; an
\* unbounded limiter always has one.
AcquireFree(t) ==
    /\ pc[t] = "idle"
    /\ HasFreeSlot
    /\ in_flight' = in_flight + 1
    /\ Goto(t, "holding")
    /\ UNCHANGED <<queued, waiters>>

QueueFull == MaxQueued >= 0 /\ queued >= MaxQueued

Reject(t) ==
    /\ pc[t] = "idle"
    /\ ~HasFreeSlot
    /\ QueueFull
    /\ Goto(t, "rejected")
    /\ UNCHANGED <<in_flight, queued, waiters>>

\* The router turns ExecRequestRejected into a 503 and the handler ends.
Respond503(t) ==
    /\ pc[t] = "rejected"
    /\ Goto(t, "idle")
    /\ UNCHANGED <<in_flight, queued, waiters>>

Enqueue(t) ==
    /\ pc[t] = "idle"
    /\ ~HasFreeSlot
    /\ ~QueueFull
    /\ queued' = queued + 1
    /\ waiters' = Append(waiters, t)
    /\ Goto(t, "waiting")
    /\ UNCHANGED in_flight

\* Seeded bug: `if` for `while` around wait().
WakeWithoutRetest(t) ==
    /\ pc[t] = "notified"
    /\ queued' = queued - 1
    /\ in_flight' = in_flight + 1
    /\ Goto(t, "holding")
    /\ UNCHANGED waiters

\* Seeded bug: the queue counter is decremented only by the exception handler.
WakeStillQueued(t) ==
    /\ pc[t] = "notified"
    /\ IF in_flight < MaxInFlight
       THEN /\ in_flight' = in_flight + 1
            /\ Goto(t, "holding")
            /\ UNCHANGED <<queued, waiters>>
       ELSE /\ waiters' = Append(waiters, t)
            /\ Goto(t, "waiting")
            /\ UNCHANGED <<in_flight, queued>>

\* wait() returns; the slot may have gone to a newcomer in the meantime, and
\* then the task waits again, behind everybody else.
Wake(t) ==
    /\ pc[t] = "notified"
    /\ \/ /\ in_flight < MaxInFlight
          /\ queued' = queued - 1
          /\ in_flight' = in_flight + 1
          /\ Goto(t, "holding")
          /\ UNCHANGED waiters
       \/ /\ in_flight >= MaxInFlight
          /\ waiters' = Append(waiters, t)
          /\ Goto(t, "waiting")
          /\ UNCHANGED <<in_flight, queued>>

\* list.remove(future)
RemovedAt(q, i) == SubSeq(q, 1, i - 1) \o SubSeq(q, i + 1, Len(q))

\* The handler's task is cancelled while it queues: its future leaves the
\* condition's list, the exception is thrown when the task next runs.  A task
\* that was already notified loses its notification the same way.
CancelQueued(t) ==
    /\ \/ /\ pc[t] = "waiting"
          /\ \E i \in 1..Len(waiters) :
                /\ waiters[i] = t
                /\ waiters' = RemovedAt(waiters, i)
       \/ /\ pc[t] = "notified"
          /\ UNCHANGED waiters
    /\ Goto(t, "cancelling")
    /\ UNCHANGED <<in_flight, queued>>

\* Seeded bug: wait() and the handler both take the task off the count.
UnwindTwice(t) ==
    /\ pc[t] = "cancelling"
    /\ queued' = queued - 2
    /\ NotifyAndMove(2, t, "idle")
    /\ UNCHANGED in_flight

\* Seeded bug: neither wait() nor the handler hands the notification on.
UnwindSilently(t) ==
    /\ pc[t] = "cancelling"
    /\ queued' = queued - 1
    /\ Goto(t, "idle")
    /\ UNCHANGED <<in_flight, waiters>>

\* CancelledError leaves acquire(): Condition.wait() notifies one task when an
\* exception passes through it, the limiter's own handler another.
Unwind(t) ==
    /\ pc[t] = "cancelling"
    /\ queued' = queued - 1
    /\ NotifyAndMove(2, t, "idle")
    /\ UNCHANGED in_flight

\* Seeded bug: release() forgets to notify.
ReleaseSilently(t) ==
    /\ pc[t] = "holding"
    /\ in_flight' = IF in_flight > 0 THEN in_flight - 1 ELSE 0
    /\ Goto(t, "idle")
    /\ UNCHANGED <<queued, waiters>>

\* The body of slot() ends, normally or not, and release() runs.
Release(t) ==
    /\ pc[t] = "holding"
    /\ in_flight' = IF in_flight > 0 THEN in_flight - 1 ELSE 0
    /\ IF Bounded
       THEN NotifyAndMove(1, t, "idle")
       ELSE Goto(t, "idle") /\ UNCHANGED waiters
    /\ UNCHANGED queued

Next ==
    \E t \in Tasks :
        \/ AcquireFree(t) \/ Reject(t) \/ Respond503(t)
        \/ Enqueue(t) \/ Wake(t)
        \/ CancelQueued(t) \/ Unwind(t)
        \/ Release(t)

Spec == Init /\ [][Next]_vars

\* The event loop runs every runnable task, and every exec handler ends: each
\* await in its body has a timeout.  Nobody has to arrive or to be cancelled.
Fairness ==
    \A t \in Tasks : /\ WF_vars(Wake(t))
                     /\ WF_vars(Unwind(t))
                     /\ WF_vars(Release(t))
                     /\ WF_vars(Respond503(t))

FairSpec == Spec /\ Fairness

---------------------------------------------------------------------------
\* Values the variables take, and the tie between the condition's list and
\* the tasks suspended in it (exec_request_limiter.py:22-31).
TypeOK ==
    /\ in_flight \in Nat
    /\ queued \in Nat
    /\ pc \in [Tasks -> PCs]
    /\ waiters \in Seq(Tasks)
    /\ \A t \in Tasks : pc[t] = "waiting" <=> \E i \in 1..Len(waiters) : waiters[i] = t
    /\ \A i, j \in 1..Len(waiters) : waiters[i] = waiters[j] => i = j

\* The counters are what /exec/stats and the admission test take them for: the
\* number of tasks in the body of slot() and the number still queueing, through
\* every cancellation and lost race, and both stay within their bounds
\* (exec_request_limiter.py:41-70).
CountersExact ==
    /\ in_flight = Cardinality(At("holding"))
    /\ queued = Cardinality(Queueing)
    /\ Bounded => in_flight <= MaxInFlight
    /\ (Bounded /\ MaxQueued >= 0) => queued <= MaxQueued
    /\ ~Bounded => Queueing = {}

\* While somebody waits, every free slot has a task on its way to it: no
\* interleaving of releases, newcomers, lost races and cancellations loses a
\* wake-up (exec_request_limiter.py:54-61, 70).
NoLostWakeup ==
    (Bounded /\ waiters # <<>>) =>
        MaxInFlight - in_flight <=
            Cardinality(At("notified")) + Cardinality(At("cancelling"))

\* The counters and the condition together implement BoundedAdmission: a
\* request is refused only when the slots and the line are really full, and a
\* task gets in only when there is room (exec_request_limiter.py:41-70).
Admission == INSTANCE BoundedAdmission WITH
    status <- [t \in Tasks |->
                 CASE pc[t] = "idle"     -> "out"
                   [] pc[t] = "holding"  -> "inside"
                   [] pc[t] = "rejected" -> "refused"
                   [] OTHER              -> "line"]

ImplementsAdmission == Admission!Spec

\* A free slot does not stay free while tasks wait for one: it is taken, or
\* the last of them has left (exec_request_limiter.py:53-61).
FreeSlotIsTaken ==
    (Bounded /\ in_flight < MaxInFlight /\ waiters # <<>>)
        ~> (in_flight = MaxInFlight \/ waiters = <<>>)
============================================================================
