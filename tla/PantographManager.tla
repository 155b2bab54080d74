------------------------- MODULE PantographManager -------------------------
(***************************************************************************)
(* server/pantograph_manager.py: the pool of Lean worker processes behind  *)
(* /exec, and how its callers give workers back (return_worker in          *)
(* server/exec_backends.py).                                               *)
(*                                                                         *)
(* As in ExecRequestLimiter, the condition's lock is never held across an  *)
(* await other than Condition.wait(), so an action is the code between two *)
(* awaits: closing a process, starting one, waiting to be notified, using  *)
(* a lease.  notify(1) completes one waiting future; the notified task     *)
(* looks at the pool again when it next runs and waits again, behind the   *)
(* others, when the pool has nothing for it.  A waiter whose time runs out *)
(* hands its notification on: Condition.wait() notifies when an exception  *)
(* passes through it.                                                      *)
(*                                                                         *)
(* A worker is an id with the key (env profile, header) it was started     *)
(* for.  _free is kept in the order workers were released, which is the    *)
(* order of last_used_at.                                                  *)
(***************************************************************************)
EXTENDS Integers, Sequences, FiniteSets

CONSTANTS
    Clients,       \* tasks that lease workers
    Workers,       \* bound: process ids
    Keys,          \* (env profile, header hash) pairs asked for
    Profiles,      \* env profiles
    ProfileOf,     \* ProfileOf[k]: the profile of key k
    Limits,        \* pairs <<max_workers, max_workers_per_env_profile>> to consider
    MaxUses,       \* max_worker_uses, -1 when unlimited
    None           \* no key, no worker

ASSUME PoolAssumption ==
    /\ Limits \subseteq (Nat \ {0}) \X Int
    /\ \A l \in Limits : l[2] = -1 \/ l[2] > 0
    /\ MaxUses \in Int /\ MaxUses >= -1
    /\ ProfileOf \in [Keys -> Profiles]
    /\ None \notin Keys \cup Workers
    /\ IsFiniteSet(Clients) /\ IsFiniteSet(Workers)

VARIABLES
    max_workers,   \* self.max_workers, set once
    profile_cap,   \* self.max_workers_per_env_profile, set once
    free,          \* self._free, as a sequence of workers
    busy,          \* self._busy
    starting,      \* self._starting: starts reserved and not settled
    starting_by,   \* self._starting_by_env_profile, 0 when absent
    waiters,       \* the condition's FIFO of futures not yet completed
    client,        \* client[c]: progress of client c
    worker         \* worker[w]: the process, its key and its use_count

settings == <<max_workers, profile_cap>>
starts == <<starting, starting_by>>
vars == <<settings, free, busy, starts, waiters, client, worker>>

ClientPCs == {"idle",
              "waiting",    \* in wait(), future pending
              "notified",   \* future completed, not yet rescheduled
              "evicting",   \* get_worker awaits the end of the worker it evicts
              "starting",   \* get_worker awaits the worker factory
              "leased",     \* holds a lease
              "closing"}    \* release_worker or destroy_worker awaits the end of its worker

ClientStates == [pc : ClientPCs, key : Keys \cup {None}, w : Workers \cup {None}]

WorkerStates == [key  : Keys \cup {None},
                 uses : Nat,
                 proc : {"none", "starting", "up", "closing"}]

NoClient == [pc |-> "idle", key |-> None, w |-> None]
NoWorker == [key |-> None, uses |-> 0, proc |-> "none"]

Elems(s) == {s[i] : i \in DOMAIN s}
RemovedAt(q, i) == SubSeq(q, 1, i - 1) \o SubSeq(q, i + 1, Len(q))
First(I) == {i \in I : \A j \in I : i <= j}

At(pcs) == {c \in Clients : client[c].pc \in pcs}

---------------------------------------------------------------------------
\* What the pool can do for a key.

HasProfile(w, p) == ProfileOf[worker[w].key] = p

Starting == {c \in Clients : client[c].pc \in {"evicting", "starting"}}

Total == Len(free) + Cardinality(busy) + starting

Active(p) == Cardinality({w \in Elems(free) \cup busy : HasProfile(w, p)})
                + starting_by[p]

\* Seeded bug: workers still starting are not counted against the profile.
CanStartIgnoringStarting(p) ==
    profile_cap < 0 \/ Active(p) - starting_by[p] < profile_cap

\* _can_start_for_env_profile
CanStart(p) == profile_cap < 0 \/ Active(p) < profile_cap

\* Seeded bug: an idle worker is reused for any header of its profile.
MatchesByProfile(k) == {i \in DOMAIN free : HasProfile(free[i], ProfileOf[k])}

Matches(k) == {i \in DOMAIN free : worker[free[i]].key = k}

\* _worker_to_close_for_start: the least recently used idle worker, of the same
\* profile when the profile is at its cap.
Victims(k) ==
    IF CanStart(ProfileOf[k]) THEN DOMAIN free
    ELSE {i \in DOMAIN free : HasProfile(free[i], ProfileOf[k])}

MayStart(k) == Total < max_workers /\ CanStart(ProfileOf[k])

\* get_worker(k) would not wait.
CanServe(k) == Matches(k) # {} \/ MayStart(k) \/ Victims(k) # {}

\* Ids for a new process.
Unused == {w \in Workers : worker[w].proc = "none" /\ \A c \in Clients : client[c].w # w}

---------------------------------------------------------------------------
\* The condition.  st is client with the caller's own move already made.

NotifyInto(n, q, st) ==
    LET k     == IF n <= Len(q) THEN n ELSE Len(q)
        woken == {q[i] : i \in 1..k}
    IN  /\ waiters' = SubSeq(q, k + 1, Len(q))
        /\ client' = [c \in Clients |-> IF c \in woken
                                        THEN [st[c] EXCEPT !.pc = "notified"]
                                        ELSE st[c]]

Moved(c, pc, k, w) == [client EXCEPT ![c] = [pc |-> pc, key |-> k, w |-> w]]

---------------------------------------------------------------------------
\* get_worker: one pass through its loop, for client c and key k.

LeaseIdle(c, k) ==
    /\ \E i \in First(Matches(k)) :
          /\ free' = RemovedAt(free, i)
          /\ busy' = busy \cup {free[i]}
          /\ client' = Moved(c, "leased", k, free[i])
    /\ UNCHANGED <<starts, waiters, worker>>

MarkStarting(p) ==
    /\ starting' = starting + 1
    /\ starting_by' = [starting_by EXCEPT ![p] = @ + 1]

UnmarkStarting(p) ==
    /\ starting' = starting - 1
    /\ starting_by' = [starting_by EXCEPT ![p] = IF @ <= 1 THEN 0 ELSE @ - 1]

Boots(w, k) == [worker EXCEPT ![w] = [key |-> k, uses |-> 0, proc |-> "starting"]]

StartNew(c, k) ==
    /\ Matches(k) = {}
    /\ MayStart(k)
    /\ MarkStarting(ProfileOf[k])
    /\ \E w \in Unused : /\ worker' = Boots(w, k)
                         /\ client' = Moved(c, "starting", k, w)
    /\ UNCHANGED <<free, busy, waiters>>

\* Seeded bug: an eviction reserves no start.
EvictUnreserved(c, k) ==
    /\ Matches(k) = {}
    /\ ~MayStart(k)
    /\ \E i \in First(Victims(k)) :
          /\ free' = RemovedAt(free, i)
          /\ worker' = [worker EXCEPT ![free[i]].proc = "closing"]
          /\ client' = Moved(c, "evicting", k, free[i])
    /\ UNCHANGED <<busy, starts, waiters>>

EvictIdle(c, k) ==
    /\ Matches(k) = {}
    /\ ~MayStart(k)
    /\ MarkStarting(ProfileOf[k])
    /\ \E i \in First(Victims(k)) :
          /\ free' = RemovedAt(free, i)
          /\ worker' = [worker EXCEPT ![free[i]].proc = "closing"]
          /\ client' = Moved(c, "evicting", k, free[i])
    /\ UNCHANGED <<busy, waiters>>

WaitTurn(c, k) ==
    /\ ~CanServe(k)
    /\ waiters' = Append(waiters, c)
    /\ client' = Moved(c, "waiting", k, None)
    /\ UNCHANGED <<free, busy, starts, worker>>

\* The deadline has passed: NoAvailablePantographWorkerError, without a notify.
GiveUpInLoop(c, k) ==
    /\ ~CanServe(k)
    /\ client' = [client EXCEPT ![c] = NoClient]
    /\ UNCHANGED <<free, busy, starts, waiters, worker>>

TryLease(c, k) ==
    /\ \/ LeaseIdle(c, k) \/ StartNew(c, k) \/ EvictIdle(c, k)
       \/ WaitTurn(c, k) \/ GiveUpInLoop(c, k)
    /\ UNCHANGED settings

Request(c, k) == client[c].pc = "idle" /\ TryLease(c, k)

Wake(c) == client[c].pc = "notified" /\ TryLease(c, client[c].key)

\* The condition's list after wait() has removed c's future, which is no longer
\* there when it was completed.
WithoutFuture(c) ==
    IF client[c].pc = "waiting"
    THEN {RemovedAt(waiters, i) : i \in {j \in DOMAIN waiters : waiters[j] = c}}
    ELSE {waiters}

\* Seeded bug: a waiter that times out keeps its notification to itself.
TimeOutSilently(c) ==
    /\ client[c].pc \in {"waiting", "notified"}
    /\ \E q \in WithoutFuture(c) : waiters' = q
    /\ client' = [client EXCEPT ![c] = NoClient]
    /\ UNCHANGED <<settings, free, busy, starts, worker>>

\* wait_for cancels wait(), which hands the notification on.
TimeOut(c) ==
    /\ client[c].pc \in {"waiting", "notified"}
    /\ \E q \in WithoutFuture(c) :
          NotifyInto(1, q, [client EXCEPT ![c] = NoClient])
    /\ UNCHANGED <<settings, free, busy, starts, worker>>

\* The evicted process is gone; the factory is called.
Evicted(c) ==
    /\ client[c].pc = "evicting"
    /\ \E w \in Unused :
          /\ worker' = [Boots(w, client[c].key) EXCEPT ![client[c].w] = NoWorker]
          /\ client' = Moved(c, "starting", client[c].key, w)
    /\ UNCHANGED <<settings, free, busy, starts, waiters>>

Started(c) ==
    LET w == client[c].w IN
    /\ client[c].pc = "starting"
    /\ UnmarkStarting(ProfileOf[client[c].key])
    /\ busy' = busy \cup {w}
    /\ worker' = [worker EXCEPT ![w].proc = "up"]
    /\ NotifyInto(1, waiters, Moved(c, "leased", client[c].key, w))
    /\ UNCHANGED <<settings, free>>

\* The factory raised.
StartFails(c) ==
    /\ client[c].pc = "starting"
    /\ UnmarkStarting(ProfileOf[client[c].key])
    /\ worker' = [worker EXCEPT ![client[c].w] = NoWorker]
    /\ NotifyInto(1, waiters, [client EXCEPT ![c] = NoClient])
    /\ UNCHANGED <<settings, free, busy>>

---------------------------------------------------------------------------
\* return_worker: a healthy worker is released, a broken one destroyed.

Exhausted(w) == MaxUses >= 0 /\ worker[w].uses + 1 >= MaxUses

\* cleanup() has taken the lease out of _busy: nothing is done.
ReleaseUnknown(c) ==
    /\ client[c].pc = "leased"
    /\ client[c].w \notin busy
    /\ client' = [client EXCEPT ![c] = NoClient]
    /\ UNCHANGED <<settings, free, busy, starts, waiters, worker>>

Release(c) ==
    LET w == client[c].w IN
    /\ client[c].pc = "leased"
    /\ w \in busy
    /\ ~Exhausted(w)
    /\ busy' = busy \ {w}
    /\ free' = Append(free, w)
    /\ worker' = [worker EXCEPT ![w].uses = @ + 1]
    /\ NotifyInto(1, waiters, [client EXCEPT ![c] = NoClient])
    /\ UNCHANGED <<settings, starts>>

\* Seeded bug: the exhausted worker is recycled and closed.
ReleaseExhaustedRecycled(c) ==
    LET w == client[c].w IN
    /\ client[c].pc = "leased"
    /\ w \in busy
    /\ Exhausted(w)
    /\ busy' = busy \ {w}
    /\ free' = Append(free, w)
    /\ worker' = [worker EXCEPT ![w].proc = "closing"]
    /\ NotifyInto(1, waiters, Moved(c, "closing", client[c].key, w))
    /\ UNCHANGED <<settings, starts>>

\* The slot is given away, and a waiter notified, before the process ends.
ReleaseExhausted(c) ==
    LET w == client[c].w IN
    /\ client[c].pc = "leased"
    /\ w \in busy
    /\ Exhausted(w)
    /\ busy' = busy \ {w}
    /\ worker' = [worker EXCEPT ![w].proc = "closing"]
    /\ NotifyInto(1, waiters, Moved(c, "closing", client[c].key, w))
    /\ UNCHANGED <<settings, free, starts>>

\* The process has died, or its gc command failed while it lives on.
Destroy(c, alive) ==
    LET w == client[c].w IN
    /\ client[c].pc = "leased"
    /\ busy' = busy \ {w}
    /\ IF w \in busy /\ alive
       THEN /\ worker' = [worker EXCEPT ![w].proc = "closing"]
            /\ NotifyInto(1, waiters, Moved(c, "closing", client[c].key, w))
       ELSE /\ worker' = IF w \in busy THEN [worker EXCEPT ![w] = NoWorker] ELSE worker
            /\ NotifyInto(1, waiters, [client EXCEPT ![c] = NoClient])
    /\ UNCHANGED <<settings, free, starts>>

Closed(c) ==
    /\ client[c].pc = "closing"
    /\ worker' = [worker EXCEPT ![client[c].w] = NoWorker]
    /\ client' = [client EXCEPT ![c] = NoClient]
    /\ UNCHANGED <<settings, free, busy, starts, waiters>>

---------------------------------------------------------------------------
\* cleanup(), at shutdown

Cleanup ==
    /\ worker' = [w \in Workers |-> IF w \in Elems(free) \cup busy
                                    THEN [worker[w] EXCEPT !.proc = "closing"]
                                    ELSE worker[w]]
    /\ free' = <<>>
    /\ busy' = {}
    /\ NotifyInto(Len(waiters), waiters, client)
    /\ UNCHANGED <<settings, starts>>

\* One of the closes cleanup() gathers has ended.
CleanupClosed(w) ==
    /\ worker[w].proc = "closing"
    /\ \A c \in At({"evicting", "closing"}) : client[c].w # w
    /\ worker' = [worker EXCEPT ![w] = NoWorker]
    /\ UNCHANGED <<settings, free, busy, starts, waiters, client>>

---------------------------------------------------------------------------
Init ==
    /\ \E l \in Limits : max_workers = l[1] /\ profile_cap = l[2]
    /\ free = <<>>
    /\ busy = {}
    /\ starting = 0
    /\ starting_by = [p \in Profiles |-> 0]
    /\ waiters = <<>>
    /\ client = [c \in Clients |-> NoClient]
    /\ worker = [w \in Workers |-> NoWorker]

Next ==
    \/ \E c \in Clients :
          \/ \E k \in Keys : Request(c, k)
          \/ Wake(c) \/ TimeOut(c)
          \/ Evicted(c) \/ Started(c) \/ StartFails(c)
          \/ ReleaseUnknown(c) \/ Release(c) \/ ReleaseExhausted(c)
          \/ \E alive \in BOOLEAN : Destroy(c, alive)
          \/ Closed(c)
    \/ Cleanup
    \/ \E w \in Workers : CleanupClosed(w)

Spec == Init /\ [][Next]_vars

---------------------------------------------------------------------------
TypeOK ==
    /\ <<max_workers, profile_cap>> \in Limits
    /\ free \in Seq(Workers)
    /\ busy \in SUBSET Workers
    /\ starting \in Nat
    /\ starting_by \in [Profiles -> Nat]
    /\ waiters \in Seq(Clients)
    /\ client \in [Clients -> ClientStates]
    /\ worker \in [Workers -> WorkerStates]

\* Reserved starts, idle workers and leased workers together never exceed the
\* pool's cap, nor, per profile, the profile's, although a start is reserved in
\* one step and ends in a later one, which may fail
\* (pantograph_manager.py:131-144, 177-187, 217-257).
CapsRespected ==
    /\ Total <= max_workers
    /\ \A p \in Profiles : profile_cap < 0 \/ Active(p) <= profile_cap
    /\ starting = Cardinality(Starting)
    /\ \A p \in Profiles :
          starting_by[p] = Cardinality({c \in Starting : ProfileOf[client[c].key] = p})

\* A client leases a worker of the key it asked for, nobody else holds or may
\* take that worker, and its process has not been closed behind its back except
\* by cleanup() (pantograph_manager.py:121-129, 170-176, 191-206).
LeasesExclusive ==
    \A c \in At({"leased"}) :
        LET w == client[c].w
        IN  /\ worker[w].proc # "none" => worker[w].key = client[c].key
            /\ w \notin Elems(free)
            /\ \A d \in Clients \ {c} : client[d].w # w
            /\ worker[w].proc = "up" <=> w \in busy

\* Every running worker process is idle in the pool or leased to a client that
\* will give it back; no process is lost, and no idle one is closed or used up
\* (pantograph_manager.py:121-144, 184-210, 266-287).
NoWorkerLost ==
    /\ {w \in Workers : worker[w].proc = "up"} = Elems(free) \cup busy
    /\ \A w \in busy : \E c \in At({"leased"}) : client[c].w = w
    /\ \A i, j \in DOMAIN free : free[i] = free[j] => i = j
    /\ MaxUses >= 0 => \A w \in Elems(free) : worker[w].uses < MaxUses

\* While the profile cap does not bind, a client is not left waiting when the
\* pool could serve it: some task is on its way to look at the pool
\* (pantograph_manager.py:152-158, 180, 187, 206, 275).
NoLostWakeup ==
    (profile_cap < 0 \/ profile_cap >= max_workers) =>
        \A c \in At({"waiting"}) :
            CanServe(client[c].key) => At({"notified"}) # {}

\* docs/safety_net.md:22-23, docs/backend-end-plan.md:1266: max_workers bounds the
\* Lean processes that exist at the same time.
PeakProcesses ==
    Cardinality({w \in Workers : worker[w].proc # "none"}) <= max_workers
============================================================================
