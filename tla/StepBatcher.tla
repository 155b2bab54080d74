---------------------------- MODULE StepBatcher ----------------------------
(***************************************************************************)
(* AsyncLeanExecBatcher of lean_client/exec_env.py over AsyncKiminaClient: *)
(* concurrent submit_step calls are queued, cut into batches by size or by *)
(* a timer, and each batch is sent under the locks of its items and one of *)
(* a few slots, again when the server says it is overloaded.               *)
(*                                                                         *)
(* The sections under the batcher's own lock await nothing, so each is one *)
(* step.  A batch in "send" has its request on the way: Answer is the      *)
(* server's work, the answer or its loss, and what the batcher does next.  *)
(* Back-off delays are the time until the next Answer.                     *)
(***************************************************************************)
EXTENDS Integers, Sequences, FiniteSets

CONSTANTS
    Calls,       \* submit_step calls
    Node,        \* Node[c]: node_id of the call
    Item,        \* Item[c]: item_id_from_node_id(Node[c]), a number
    MaxItems, MaxInFlight, MaxRetries,
    NoWait,      \* max_wait_ms = 0
    Fickle       \* bound: calls whose caller may give up

ASSUME BatcherAssumption ==
    /\ Item \in [Calls -> Nat] /\ NoWait \in BOOLEAN /\ Fickle \subseteq Calls
    /\ {MaxItems, MaxInFlight} \subseteq Nat \ {0} /\ MaxRetries \in Nat
    /\ \A c, d \in Calls : Node[c] = Node[d] => Item[c] = Item[d]

VARIABLES
    future,      \* state of each call's future, "new" before the call
    queue,       \* self._queue
    timer,       \* self._timer_task sleeps
    flushes,     \* flush tasks that have not run yet
    batches,     \* every batch cut so far, in order: its calls, those still to
                 \* answer, the locks held, its attempt, and whether it is at
                 \* "lock", "slot", "send" or "done"
    closing,     \* close(): "no", "flushing" or "closed"
    executed     \* history: how often the server ran each call's tactics

vars == <<future, queue, timer, flushes, batches, closing, executed>>

Done  == {"answered", "failed", "given_up"}

Init ==
    /\ future = [c \in Calls |-> "new"]
    /\ queue = <<>> /\ timer = FALSE /\ flushes = 0
    /\ batches = <<>> /\ closing = "no"
    /\ executed = [c \in Calls |-> 0]

ItemsOf(C) == {Item[c] : c \in C}

\* submit_step() is refused once close() has begun.
SubmitRefused(c) ==
    /\ future[c] = "new" /\ closing # "no"
    /\ future' = [future EXCEPT ![c] = "failed"]
    /\ UNCHANGED <<queue, timer, flushes, batches, closing, executed>>

\* Otherwise it queues its item; a full queue spawns a flush in place of the
\* timer, any other starts the timer unless it runs.
Submit(c) ==
    /\ future[c] = "new" /\ closing = "no"
    /\ future' = [future EXCEPT ![c] = "waiting"]
    /\ queue' = Append(queue, c)
    /\ IF Len(queue') >= MaxItems \/ NoWait
       THEN timer' = FALSE /\ flushes' = flushes + 1
       ELSE timer' = TRUE /\ UNCHANGED flushes
    /\ UNCHANGED <<batches, closing, executed>>

\* flush() cuts the whole queue into batches of at most max_items.
Cut(q) ==
    [b \in 1..((Len(q) + MaxItems - 1) \div MaxItems) |->
        {q[i] : i \in {j \in DOMAIN q : (j - 1) \div MaxItems = b - 1}}]

NewBatch(C) == [calls |-> C, todo |-> C, held |-> {}, at |-> "lock", attempt |-> 0]

\* The part of flush() under the lock, and the send tasks it creates.
Flush ==
    /\ batches' = batches \o [b \in DOMAIN Cut(queue) |-> NewBatch(Cut(queue)[b])]
    /\ queue' = <<>>
    /\ timer' = FALSE

TimerFires ==
    /\ timer /\ Flush
    /\ UNCHANGED <<future, flushes, closing, executed>>

FlushRuns ==
    /\ flushes > 0 /\ flushes' = flushes - 1
    /\ Flush
    /\ UNCHANGED <<future, closing, executed>>

\* Seeded bug: the locks are taken in whatever order the set has.
NextLocksUnsorted(b) == ItemsOf(batches[b].calls) \ batches[b].held

\* _send_batch() takes the locks of its items in sorted order.
NextLocks(b) ==
    LET missing == ItemsOf(batches[b].calls) \ batches[b].held
    IN {i \in missing : \A j \in missing : i <= j}

\* Seeded bug: the lock of an item is free while its request is on the way.
LockedUntilSent(i) ==
    \E b \in DOMAIN batches : i \in batches[b].held /\ batches[b].at # "send"

Locked(i) == \E b \in DOMAIN batches : i \in batches[b].held

TakeLock(b) ==
    /\ batches[b].at = "lock"
    /\ \E i \in NextLocks(b) :
         /\ ~Locked(i)
         /\ batches' = [batches EXCEPT
                ![b].held = @ \cup {i},
                ![b].at = IF ItemsOf(batches[b].calls) = batches[b].held \cup {i}
                          THEN "slot" ELSE "lock"]
    /\ UNCHANGED <<future, queue, timer, flushes, closing, executed>>

SlotFree == Cardinality({a \in DOMAIN batches : batches[a].at = "send"}) < MaxInFlight

\* The semaphore, taken after the locks.
TakeSlot(b) ==
    /\ batches[b].at = "slot" /\ SlotFree
    /\ batches' = [batches EXCEPT ![b].at = "send"]
    /\ UNCHANGED <<future, queue, timer, flushes, closing, executed>>
----------------------------------------------------------------------------
Open(C) == {c \in C : future[c] \notin Done}
Resolved(C, how) == future' = [c \in Calls |-> IF c \in Open(C) THEN how ELSE future[c]]
Executed(C) == executed' = [c \in Calls |-> IF c \in C THEN executed[c] + 1 ELSE executed[c]]

\* The batch is over and gives its locks back, or C is sent once more.
Over == [calls |-> {}, todo |-> {}, held |-> {}, at |-> "done", attempt |-> 0]
Ends(b) == batches' = [batches EXCEPT ![b] = Over]
SendsAgain(b, C) ==
    batches' = [batches EXCEPT ![b].todo = C, ![b].attempt = @ + 1]

LastAttempt(b) == batches[b].attempt = MaxRetries

\* ExecStepBatchRequest refuses two items of one node, before anything is sent.
TwiceTheSameNode(C) == \E c, d \in C : c # d /\ Node[c] = Node[d]

Invalid(b) ==
    /\ TwiceTheSameNode(batches[b].todo)
    /\ Resolved(batches[b].todo, "failed") /\ Ends(b)
    /\ UNCHANGED executed

\* HTTP 429 or 503: the server admitted nothing.  Calls given up are dropped.
Rejected(b) ==
    LET left == Open(batches[b].todo)
    IN /\ IF LastAttempt(b) THEN Resolved(left, "failed") ELSE UNCHANGED future
       /\ IF LastAttempt(b) \/ left = {} THEN Ends(b) ELSE SendsAgain(b, left)
       /\ UNCHANGED executed

\* Seeded bug: a request that broke is sent again like one that was rejected.
BrokenResent(b) ==
    LET left == Open(batches[b].todo)
    IN /\ IF LastAttempt(b) THEN Resolved(left, "failed") ELSE UNCHANGED future
       /\ IF LastAttempt(b) \/ left = {} THEN Ends(b) ELSE SendsAgain(b, left)
       /\ Executed(batches[b].todo)

\* Any other failure, before or after the server did the work: step_batch is
\* not idempotent, so every call still waiting fails and nothing is resent.
Broken(b) ==
    /\ Resolved(batches[b].todo, "failed") /\ Ends(b)
    /\ Executed(batches[b].todo) \/ UNCHANGED executed

\* An answer: a result of its own for each node of `ran`, "overloaded" for those
\* of `busy`, which the server did not run, and none for the others.
Answered(b, ran, busy) ==
    LET again == IF LastAttempt(b) THEN {} ELSE Open(busy)
    IN /\ future' = [c \in Calls |->
                        IF c \notin Open(batches[b].todo) \/ c \in again THEN future[c]
                        ELSE IF c \in ran \cup busy THEN "answered" ELSE "failed"]
       /\ IF again = {} THEN Ends(b) ELSE SendsAgain(b, again)
       /\ Executed(ran)

Answer(b) ==
    /\ batches[b].at = "send"
    /\ \/ Invalid(b)
       \/ /\ ~TwiceTheSameNode(batches[b].todo)
          /\ \/ Rejected(b) \/ Broken(b)
             \/ \E ran, busy \in SUBSET batches[b].todo :
                    ran \cap busy = {} /\ Answered(b, ran, busy)
    /\ UNCHANGED <<queue, timer, flushes, closing>>

\* The caller is cancelled, and its future with it; its item stays where it is.
GiveUp(c) ==
    /\ c \in Fickle /\ future[c] = "waiting"
    /\ future' = [future EXCEPT ![c] = "given_up"]
    /\ UNCHANGED <<queue, timer, flushes, batches, closing, executed>>

\* close(): no more calls, a last flush, and then every task is awaited.
Close ==
    /\ closing = "no" /\ closing' = "flushing"
    /\ Flush
    /\ UNCHANGED <<future, flushes, executed>>

CloseReturns ==
    /\ closing = "flushing" /\ closing' = "closed"
    /\ flushes = 0 /\ \A b \in DOMAIN batches : batches[b].at = "done"
    /\ UNCHANGED <<future, queue, timer, flushes, batches, executed>>

SendStep(b) == TakeLock(b) \/ TakeSlot(b) \/ Answer(b)

Next ==
    \/ \E c \in Calls : Submit(c) \/ SubmitRefused(c) \/ GiveUp(c)
    \/ \E b \in DOMAIN batches : SendStep(b)
    \/ TimerFires \/ FlushRuns \/ Close \/ CloseReturns

Spec == Init /\ [][Next]_vars

\* Timers fire, tasks run, and an HTTP request ends, with an answer or its
\* timeout.  Nobody has to submit, give up or close.
BatchNumbers == 1..Cardinality(Calls)

FairSpec ==
    /\ Spec /\ WF_vars(TimerFires) /\ WF_vars(FlushRuns) /\ WF_vars(CloseReturns)
    /\ \A b \in BatchNumbers : WF_vars(b \in DOMAIN batches /\ SendStep(b))
----------------------------------------------------------------------------
\* Two requests that carry steps of one item are never on the way at a time, so
\* the search never races with itself on an item, whatever is retried.
OneRequestPerItem ==
    \A a, b \in DOMAIN batches :
        batches[a].at = "send" /\ batches[b].at = "send" /\ a # b
            => ItemsOf(batches[a].calls) \cap ItemsOf(batches[b].calls) = {}

\* No call's tactics run twice on the server, although batches are retried and
\* answers are lost.
NeverRepeated == \A c \in Calls : executed[c] <= 1

\* When close() returns nobody is left waiting for an answer that will not come.
ClosedLeavesNobody == closing = "closed" => \A c \in Calls : future[c] # "waiting"

CanGo(b) ==
    \/ batches[b].at = "send"
    \/ batches[b].at = "slot" /\ SlotFree
    \/ batches[b].at = "lock" /\ \E i \in NextLocks(b) : ~Locked(i)

\* While a call waits or close() goes on, something can go on: a timer or a flush
\* is due, some batch can take its next lock or a slot or hear from the server,
\* or close() returns.  Batches never wait for one another's locks in a circle.
NobodyStuck ==
    closing = "flushing" \/ (\E c \in Calls : future[c] = "waiting") =>
        \/ timer \/ flushes > 0
        \/ \E b \in DOMAIN batches : CanGo(b)
        \/ closing = "flushing" /\ \A b \in DOMAIN batches : batches[b].at = "done"

\* Every call ends: no timer, lock, slot, retry or close() keeps one waiting for
\* ever (a call waits once, so there always comes a time when none waits), and a
\* close() that began returns, when none is left waiting.
EveryCallEnds ==
    /\ []<>(closing # "flushing" /\ \A c \in Calls : future[c] # "waiting")
    /\ []ClosedLeavesNobody
============================================================================
