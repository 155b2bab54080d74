----------------------------- MODULE ExecItems -----------------------------
(***************************************************************************)
(* How /exec/create_states, /exec/step_batch, /exec/cancel, /exec/cleanup  *)
(* and the state garbage collector share the lifecycle registry and the    *)
(* state store (server/routers/exec.py, server/exec_backends.py).          *)
(*                                                                         *)
(* An action is the code a task runs between two awaits.  A create         *)
(* operation is one create_one() of one request; a batch is one step_batch *)
(* request, whose items run in the lanes of                                *)
(* execute_step_batch_process_pool.  A lane is a child task of the request *)
(* and outlives it when asyncio.gather raises for a sibling: such lanes    *)
(* are "orphans" here.                                                     *)
(*                                                                         *)
(* The worker pool is left open: a request for a worker is granted, times  *)
(* out, or raises what starting the process raised.  The limiter in front  *)
(* of these endpoints only bounds how many operations run at once, as the  *)
(* sets Creates and Batches do here.                                       *)
(***************************************************************************)
EXTENDS LifecycleRegistry, TokenStore

CONSTANTS
    Creates,     \* create operations that can run at the same time
    Batches,     \* step_batch requests that can run at the same time
    BatchSize,   \* items of a step_batch request
    MaxLanes,    \* max_lean_processes_per_env_profile
    MaxStates,   \* bound: states one worker command returns
    Profile      \* Profile[i]: env profile and header hash of item i's states

ASSUME ItemsAssumption ==
    /\ BatchSize \in Nat \ {0}
    /\ MaxLanes \in Nat \ {0}
    /\ MaxStates \in Nat
    /\ IsFiniteSet(Creates) /\ IsFiniteSet(Batches)

Slots == 1..BatchSize

VARIABLES
    records,     \* the registry: ItemLifecycleRegistry._records
    create,      \* create[c]: progress of create operation c
    batch,       \* batch[b]: progress of step_batch request b
    slot,        \* slot[b][s]: item s of request b
    leases       \* leases[b]: lanes of b holding a worker

routeVars == <<create, batch, slot, leases>>
vars == <<records, owner, issued, pins, create, batch, slot, leases>>

CreateOps == [pc : {"idle", "acquiring", "creating"}, item : Items \cup {None}]

SlotOps == [pc    : {"queued", "acquiring", "stepping", "done"},
            token : Tokens \cup {None},
            item  : Items \cup {None}]

NoSlot == [pc |-> "done", token |-> None, item |-> None]

Lanes == {Profile[i] : i \in Items} \X (0..(MaxLanes - 1))

BatchPCs == {"idle",      \* no request
             "running",   \* inside the try
             "raised",    \* gather has raised, the finally has not run yet
             "orphans",   \* the request has ended, some of its lanes have not
             "aborted"}   \* ended before the try was entered

---------------------------------------------------------------------------
\* Who is between begin() and finish().

CreateOpen(c)  == create[c].pc # "idle"
SlotOpen(b, s) == /\ batch[b] \in {"running", "raised", "aborted"}
                  /\ slot[b][s].item # None

OpenCreates(i) == {c \in Creates : CreateOpen(c) /\ create[c].item = i}
OpenSlots(i)   == {x \in Batches \X Slots :
                      SlotOpen(x[1], x[2]) /\ slot[x[1]][x[2]].item = i}
PinningSlots(t) == {x \in Batches \X Slots :
                      SlotOpen(x[1], x[2]) /\ slot[x[1]][x[2]].token = t}

OpenBrackets(i) == Cardinality(OpenCreates(i)) + Cardinality(OpenSlots(i))

\* A call count with n calls on item i.
Calls(i, n) == [j \in Items |-> IF j = i THEN n ELSE 0]

---------------------------------------------------------------------------
\* create_states: create_one()

\* Seeded bug: the answer of begin() is ignored.
CreateBeginUnasked(c, i) ==
    /\ create[c].pc = "idle"
    /\ records' = Begun(records, Calls(i, 1))
    /\ create' = [create EXCEPT ![c] = [pc |-> "acquiring", item |-> i]]
    /\ UNCHANGED <<storeVars, batch, slot, leases>>

CreateBegin(c, i) ==
    /\ create[c].pc = "idle"
    /\ records' = Begun(records, Calls(i, 1))
    /\ create' = [create EXCEPT ![c] =
                    IF ShouldCancel(Swept(records), i) THEN @
                    ELSE [pc |-> "acquiring", item |-> i]]
    /\ UNCHANGED <<storeVars, batch, slot, leases>>

\* The finally clause, and the return it guards.
CreateEnds(c) ==
    /\ records' = Finished(records, Calls(create[c].item, 1))
    /\ create' = [create EXCEPT ![c] = [pc |-> "idle", item |-> None]]
    /\ UNCHANGED <<pins, batch, slot, leases>>

\* get_worker timed out, or raised.
CreateUnserved(c) ==
    /\ create[c].pc = "acquiring"
    /\ CreateEnds(c)
    /\ UNCHANGED <<owner, issued>>

CreateLeased(c) ==
    /\ create[c].pc = "acquiring"
    /\ IF ShouldCancel(records, create[c].item)
       THEN CreateEnds(c) /\ UNCHANGED <<owner, issued>>
       ELSE /\ create' = [create EXCEPT ![c].pc = "creating"]
            /\ UNCHANGED <<records, storeVars, batch, slot, leases>>

\* The worker command ends.  T are the states put() registered: all of the
\* result's, or fewer when the command failed or a put() in the list raised.
CreateReturns(c, T) ==
    /\ create[c].pc = "creating"
    /\ CreateEnds(c)
    /\ IF ShouldCancel(records, create[c].item)
       THEN T = {} /\ UNCHANGED <<owner, issued>>
       ELSE Put(T, create[c].item)

---------------------------------------------------------------------------
\* step_batch: the loop before the try, in one slice

\* Parents of a batch: f[s] is the state_token of item s.
Resolves(f, s) == Present(f[s])
Begins(f, s)   == Resolves(f, s) /\ ~ShouldCancel(Swept(records), owner[f[s]])

\* Runs the loop over the items before position n.
BatchLoop(b, f, n) ==
    LET asked(i)  == Cardinality({s \in Slots : s < n /\ Resolves(f, s) /\ owner[f[s]] = i})
        pinned(t) == Cardinality({s \in Slots : s < n /\ Begins(f, s) /\ f[s] = t})
    IN  /\ records' = Begun(records, [i \in Items |-> asked(i)])
        /\ pins' = PinsAdded([t \in Tokens |-> pinned(t)])
        /\ slot' = [slot EXCEPT ![b] = [s \in Slots |->
                IF s < n /\ Begins(f, s)
                THEN [pc |-> "queued", token |-> f[s], item |-> owner[f[s]]]
                ELSE NoSlot]]

BatchBegin(b, f) ==
    /\ batch[b] = "idle"
    /\ BatchLoop(b, f, BatchSize + 1)
    /\ batch' = [batch EXCEPT ![b] = "running"]
    /\ UNCHANGED <<owner, issued, create, leases>>

\* resolve() of item n raises while it rewrites the sidecar (state_store.py:148):
\* the exception leaves the function before the try, so what the earlier items
\* pinned and began stays pinned and begun.
BatchAborts(b, f, n) ==
    /\ batch[b] = "idle"
    /\ Resolves(f, n)
    /\ BatchLoop(b, f, n)
    /\ batch' = [batch EXCEPT ![b] = "aborted"]
    /\ UNCHANGED <<owner, issued, create, leases>>

---------------------------------------------------------------------------
\* step_batch: one lane

Ran(b, s) == slot[b][s].item # None

\* group_items_by_compatibility and distribute_items_across_lanes: the items of
\* one profile are dealt round-robin to its lanes.
Lane(b, s) ==
    LET p == Profile[slot[b][s].item]
    IN  <<p, Cardinality({r \in Slots : r < s /\ Ran(b, r) /\ Profile[slot[b][r].item] = p})
             % MaxLanes>>

InLane(b, l) == {s \in Slots : Ran(b, s) /\ Lane(b, s) = l}

LaneRuns(b) == batch[b] \in {"running", "raised", "orphans"}

\* The lane's loop has come to item s.
LaneTurn(b, s) ==
    /\ LaneRuns(b)
    /\ slot[b][s].pc = "queued"
    /\ \A r \in InLane(b, Lane(b, s)) : r < s => slot[b][r].pc = "done"

SlotGoto(b, s, to) == slot' = [slot EXCEPT ![b][s].pc = to]

\* Look at cancel; step at once on the worker the lane already holds, or ask
\* the pool for one.
SlotStarts(b, s) ==
    /\ LaneTurn(b, s)
    /\ SlotGoto(b, s,
         IF ShouldCancel(records, slot[b][s].item) THEN "done"
         ELSE IF Lane(b, s) \in leases[b] THEN "stepping"
         ELSE "acquiring")
    /\ UNCHANGED <<records, storeVars, create, batch, leases>>

SlotLeased(b, s) ==
    /\ slot[b][s].pc = "acquiring"
    /\ leases' = [leases EXCEPT ![b] = @ \cup {Lane(b, s)}]
    /\ SlotGoto(b, s, IF ShouldCancel(records, slot[b][s].item) THEN "done" ELSE "stepping")
    /\ UNCHANGED <<records, storeVars, create, batch>>

\* NoAvailablePantographWorkerError
SlotOverloaded(b, s) ==
    /\ slot[b][s].pc = "acquiring"
    /\ SlotGoto(b, s, "done")
    /\ UNCHANGED <<records, storeVars, create, batch, leases>>

\* Starting the worker raised something else.  Only NoAvailable... is caught
\* around get_worker, so the lane ends, the rest of its items with it, and the
\* exception goes to gather.
LaneRaises(b, s) ==
    /\ slot[b][s].pc = "acquiring"
    /\ slot' = [slot EXCEPT ![b] = [r \in Slots |->
            IF r \in InLane(b, Lane(b, s)) THEN [slot[b][r] EXCEPT !.pc = "done"]
            ELSE slot[b][r]]]
    /\ batch' = [batch EXCEPT ![b] = IF @ = "running" THEN "raised" ELSE @]
    /\ UNCHANGED <<records, storeVars, create, leases>>

\* Seeded bug: the result is committed without asking about cancel again.
SlotReturnsUnchecked(b, s, T) ==
    /\ slot[b][s].pc = "stepping"
    /\ IF Present(slot[b][s].token)
       THEN Put(T, owner[slot[b][s].token])
       ELSE T = {} /\ UNCHANGED <<owner, issued>>
    /\ leases' \in {leases, [leases EXCEPT ![b] = @ \ {Lane(b, s)}]}
    /\ SlotGoto(b, s, "done")
    /\ UNCHANGED <<records, pins, create, batch>>

\* The worker command ends.  After a cancel the result is discarded; otherwise
\* create_child() registers T, the open results, under the parent's item, or
\* raises when the parent is gone.  A dead worker is given back at once.
SlotReturns(b, s, T) ==
    LET op == slot[b][s] IN
    /\ op.pc = "stepping"
    /\ IF ~ShouldCancel(records, op.item) /\ Present(op.token)
       THEN Put(T, owner[op.token])
       ELSE T = {} /\ UNCHANGED <<owner, issued>>
    /\ leases' \in {leases, [leases EXCEPT ![b] = @ \ {Lane(b, s)}]}
    /\ SlotGoto(b, s, "done")
    /\ UNCHANGED <<records, pins, create, batch>>

---------------------------------------------------------------------------
\* step_batch: the finally clause

\* Seeded bug: finish() is called once for each item id, not for each begin().
BatchClosesPerItem(b) ==
    LET began(i)  == IF \E s \in Slots : slot[b][s].item = i THEN 1 ELSE 0
        pinned(t) == Cardinality({s \in Slots : Ran(b, s) /\ slot[b][s].token = t})
    IN  /\ records' = Finished(records, [i \in Items |-> began(i)])
        /\ pins' = PinsRemoved([t \in Tokens |-> pinned(t)])

\* unpin_many and one finish() for every item that began, in one slice.
BatchCloses(b) ==
    LET began(i)  == Cardinality({s \in Slots : slot[b][s].item = i})
        pinned(t) == Cardinality({s \in Slots : Ran(b, s) /\ slot[b][s].token = t})
    IN  /\ records' = Finished(records, [i \in Items |-> began(i)])
        /\ pins' = PinsRemoved([t \in Tokens |-> pinned(t)])

AllDone(b) == \A s \in Slots : slot[b][s].pc = "done"

\* An idle request has no items (a bookkeeping step of the model).
Forgotten(b) ==
    /\ slot' = [slot EXCEPT ![b] = [s \in Slots |-> NoSlot]]
    /\ leases' = [leases EXCEPT ![b] = {}]

\* gather returns: every lane has ended.
BatchReturns(b) ==
    /\ batch[b] = "running"
    /\ AllDone(b)
    /\ BatchCloses(b)
    /\ batch' = [batch EXCEPT ![b] = "idle"]
    /\ Forgotten(b)
    /\ UNCHANGED <<owner, issued, create>>

\* gather has raised for one lane; the finally runs while the others go on.
BatchUnwinds(b) ==
    /\ batch[b] = "raised"
    /\ BatchCloses(b)
    /\ batch' = [batch EXCEPT ![b] = "orphans"]
    /\ UNCHANGED <<owner, issued, create, slot, leases>>

OrphansEnd(b) ==
    /\ batch[b] = "orphans"
    /\ AllDone(b)
    /\ batch' = [batch EXCEPT ![b] = "idle"]
    /\ Forgotten(b)
    /\ UNCHANGED <<records, storeVars, create>>

---------------------------------------------------------------------------
\* cancel, cleanup, stats, garbage collection, time

Cancel(i) ==
    /\ records' = Cancelled(records, i)
    /\ UNCHANGED <<storeVars, routeVars>>

\* Seeded bug: cleanup deletes what is not pinned without asking the registry.
CleanupPartial(i) ==
    /\ owner' = Dropped({t \in Owned(i) : ~Pinned(t)})
    /\ records' = Cleaned(Swept(records), i)
    /\ UNCHANGED <<issued, pins, routeVars>>

\* cleanup(): decision, all-or-none deletion and mark_cleaned in one slice.
Cleanup(i) ==
    /\ IF CleanupMayDelete(records, i) /\ MayDeleteAll(i)
       THEN /\ owner' = Dropped(Owned(i))
            /\ records' = Cleaned(Swept(records), i)
       ELSE /\ records' = Swept(records)
            /\ UNCHANGED owner
    /\ UNCHANGED <<issued, pins, routeVars>>

Stats ==
    /\ records' = Swept(records)
    /\ UNCHANGED <<storeVars, routeVars>>

CollectGarbage(T) ==
    /\ Reclaim(T)
    /\ UNCHANGED <<records, issued, pins, routeVars>>

Expire(i) ==
    /\ records[i].expiry = "armed"
    /\ records' = [records EXCEPT ![i].expiry = "due"]
    /\ UNCHANGED <<storeVars, routeVars>>

---------------------------------------------------------------------------
Init ==
    /\ records = [i \in Items |-> NoRecord]
    /\ StoreInit
    /\ create = [c \in Creates |-> [pc |-> "idle", item |-> None]]
    /\ batch = [b \in Batches |-> "idle"]
    /\ slot = [b \in Batches |-> [s \in Slots |-> NoSlot]]
    /\ leases = [b \in Batches |-> {}]

ResultSets == {T \in SUBSET Tokens : Cardinality(T) <= MaxStates}

CreateStep(c) ==
    \/ CreateUnserved(c) \/ CreateLeased(c)
    \/ \E T \in ResultSets : CreateReturns(c, T)

LaneStep(b, s) ==
    \/ SlotStarts(b, s) \/ SlotLeased(b, s) \/ SlotOverloaded(b, s) \/ LaneRaises(b, s)
    \/ \E T \in ResultSets : SlotReturns(b, s, T)

BatchStep(b) == BatchReturns(b) \/ BatchUnwinds(b) \/ OrphansEnd(b)

Next ==
    \/ \E c \in Creates :
          \/ \E i \in Items : CreateBegin(c, i)
          \/ CreateStep(c)
    \/ \E b \in Batches :
          \/ \E f \in [Slots -> Tokens] :
                \/ BatchBegin(b, f)
                \/ \E n \in Slots : BatchAborts(b, f, n)
          \/ \E s \in Slots : LaneStep(b, s)
          \/ BatchStep(b)
    \/ \E i \in Items : Cancel(i) \/ Cleanup(i) \/ Expire(i)
    \/ Stats
    \/ \E T \in SUBSET Tokens : CollectGarbage(T)

Spec == Init /\ [][Next]_vars

\* Every await of an operation ends: get_worker and the worker commands have
\* timeouts (acquire_timeout_ms, step_timeout_ms), and the event loop runs what
\* is runnable.  Nobody has to send a request, and nothing has to expire.
Fairness ==
    /\ \A c \in Creates : WF_vars(CreateStep(c))
    /\ \A b \in Batches : /\ WF_vars(BatchStep(b))
                          /\ \A s \in Slots : WF_vars(LaneStep(b, s))

FairSpec == Spec /\ Fairness

---------------------------------------------------------------------------
TypeOK ==
    /\ records \in [Items -> LifecycleRecord]
    /\ StoreTypeOK
    /\ create \in [Creates -> CreateOps]
    /\ batch \in [Batches -> BatchPCs]
    /\ slot \in [Batches -> [Slots -> SlotOps]]
    /\ leases \in [Batches -> SUBSET Lanes]

\* A token is pinned once for every batch item that pinned it and has not been
\* closed, and in_flight counts exactly the operations between begin() and
\* finish(), so that a pin never outlives the bracket of its item.  What a request
\* that aborted before its try has begun is never finished and counts on; a lane
\* that outlived its request has been finished and does not count
\* (exec_backends.py:131-148, 171-174; routers/exec.py:106, 204).
BracketsExact ==
    /\ \A i \in Items : records[i].in_flight = OpenBrackets(i)
    /\ \A t \in Tokens : pins[t] = Cardinality(PinningSlots(t))

\* "never success while state remains": from the moment cleanup reports an item
\* deleted until its record expires, the store holds no state of it, whatever
\* create operations and lanes were under way (routers/exec.py:458-486).
CleanedIsEmpty ==
    \A i \in Items : records[i].status = "cleaned" => Owned(i) = {}

\* Cleanup and garbage collection leave the parent of a step alone while a lane
\* of a live request may load it or register children under it
\* (state_store.py:151-154, 183-196, 239-244).
StepKeepsParent ==
    \A b \in Batches, s \in Slots :
        (batch[b] \in {"running", "raised"} /\ slot[b][s].pc # "done")
            => owner[slot[b][s].token] = slot[b][s].item

\* No state of an item is registered while it is being cancelled, drained or
\* cleaned, even by a command that was running when cancel came
\* (exec_backends.py:273-276, routers/exec.py:152-153).
CancelledCommitsNothing ==
    [][\A i \in Items : ShouldCancel(records, i) => Owned(i)' \subseteq Owned(i)]_vars

\* The routes use the registry as its protocol demands: what is finished was
\* begun and is finished once (exec_backends.py:171-174, routers/exec.py:203-204).
Lifecycle == INSTANCE ItemLifecycle WITH
    MaxBegins <- BatchSize,
    brackets <- [i \in Items |-> OpenBrackets(i)]

LifecycleProtocol == Lifecycle!LifecycleSpec

\* An item once cancelled or cleaned takes no new work before its retention has
\* run out, whoever finishes, cancels or cleans in between
\* (exec_lifecycle.py:84-88, 93-121, 138-144, 185-195).
CancelSticks == Lifecycle!CancelSticks

\* An item that is cancelled while operations are in flight ends up drained (or
\* cleaned, or expired), so that the client's poll-then-cleanup loop ends; the
\* exception is an item held by a request that aborted before its try
\* (exec_lifecycle.py:93-103, exec_backends.py:131-150).
HeldByAborted(i) ==
    \E b \in Batches, s \in Slots : batch[b] = "aborted" /\ slot[b][s].item = i

CancelDrains ==
    \A i \in Items :
        records[i].status = "cancelling"
            ~> (records[i].status # "cancelling" \/ HeldByAborted(i))

\* docs/backend-end-plan.md:713-716 and :631-632: the bracket encloses state
\* registration and the parent stays pinned while a worker loads it.
StepInsideBracket ==
    \A b \in Batches, s \in Slots :
        slot[b][s].pc = "stepping" =>
            /\ records[slot[b][s].item].in_flight > 0
            /\ Pinned(slot[b][s].token)
============================================================================
