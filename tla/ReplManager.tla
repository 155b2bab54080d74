---------------------------- MODULE ReplManager ----------------------------
(***************************************************************************)
(* Verify mode: the pool of REPL processes of server/manager.py and        *)
(* server/repl.py, and the checks of server/routers/check.py (run_one)     *)
(* that lease, prepare, use and give back its REPLs.                       *)
(*                                                                         *)
(* No section under the condition's lock awaits anything but the wait      *)
(* itself, so each is one step.  Without a database Repl.create awaits     *)
(* nothing either; with one it does, after the lock is left and before the *)
(* new REPL is counted, and a check also awaits after it gave its REPL     *)
(* back.  Condition.wait wakes another waiter when it ends by a timeout or *)
(* a cancellation (Python 3.13).  Cancel may hit the checks of one request *)
(* one by one, as the cancelled gather delivers it.                        *)
(***************************************************************************)
EXTENDS Integers, Sequences, FiniteSets

CONSTANTS
    Checks,      \* snippets being checked, each by one run_one
    Headers,     \* import headers
    Blank,       \* the header of a snippet with no imports
    None,
    MaxRepls,    \* max_repls
    MaxUses,     \* max_repl_uses, negative for no limit
    Repls,       \* bound: REPL objects ever made, numbers
    Warm         \* headers of init_repls, one REPL each, as a sequence

ASSUME ReplAssumption ==
    /\ Blank \in Headers /\ None \notin Headers
    /\ MaxRepls \in Nat /\ MaxUses \in Int /\ Repls \subseteq Nat \ {0}
    /\ Warm \in Seq(Headers) /\ Len(Warm) <= MaxRepls /\ 1..Len(Warm) \subseteq Repls

VARIABLES
    db,          \* a database is connected
    down,        \* cleanup() has run
    pc,          \* where each check is
    wants,       \* header of its snippet
    reuse,       \* the request's reuse flag
    lease,       \* REPL it holds, 0 for none
    free,        \* self._free, in the order of last_check_at
    busy,        \* self._busy
    waiters,     \* checks in self._cond.wait(), in order
    header,      \* header of each REPL object, None when it is not made
    running,     \* REPLs whose process runs
    uses,        \* use_count
    env          \* what made environment 0 of the process: None, a header, a check

pool == <<free, busy, header, running, uses, env>>
vars == <<db, down, pc, wants, reuse, lease, waiters, pool>>

Idle    == {"new", "done"}
Waiting == {"wait", "woken"}
Holding == {"prep", "header", "body"}
Steps   == Idle \cup Waiting \cup Holding \cup {"get", "create", "store"}

Elems(q) == {q[i] : i \in DOMAIN q}
NoRepeats(q) == \A i, j \in DOMAIN q : q[i] = q[j] => i = j

\* A list after list.pop(i), and after list.remove(x) if it has x.
RemovedAt(q, i) == [j \in 1..(Len(q) - 1) |-> q[IF j < i THEN j ELSE j + 1]]
Without(q, x) ==
    IF x \in Elems(q) THEN RemovedAt(q, CHOOSE i \in DOMAIN q : q[i] = x) ELSE q

TypeOK ==
    /\ db \in BOOLEAN /\ down \in BOOLEAN
    /\ pc \in [Checks -> Steps]
    /\ wants \in [Checks -> Headers] /\ reuse \in [Checks -> BOOLEAN]
    /\ lease \in [Checks -> Repls \cup {0}]
    /\ free \in Seq(Repls) /\ NoRepeats(free)
    /\ busy \subseteq Repls \ Elems(free)
    /\ waiters \in Seq(Checks) /\ NoRepeats(waiters)
    /\ \A q \in Checks : pc[q] = "wait" <=> q \in Elems(waiters)
    /\ header \in [Repls -> Headers \cup {None}]
    /\ running \subseteq {r \in Repls : header[r] # None}
    /\ uses \in [Repls -> Nat]
    /\ env \in [Repls -> Headers \cup Checks \cup {None}]

\* initialize_repls(): every REPL of init_repls is leased, prepared and then
\* released, before the first request.
Init ==
    /\ db \in BOOLEAN /\ down = FALSE
    /\ pc = [q \in Checks |-> "new"]
    /\ wants \in [Checks -> Headers] /\ reuse \in [Checks -> BOOLEAN]
    /\ lease = [q \in Checks |-> 0]
    /\ free = [i \in 1..Len(Warm) |-> i]
    /\ busy = {} /\ waiters = <<>>
    /\ header = [r \in Repls |-> IF r <= Len(Warm) THEN Warm[r] ELSE None]
    /\ running = 1..Len(Warm)
    /\ uses = [r \in Repls |-> IF r <= Len(Warm) /\ Warm[r] # Blank THEN 1 ELSE 0]
    /\ env = [r \in Repls |-> IF r <= Len(Warm) /\ Warm[r] # Blank THEN Warm[r] ELSE None]

Made == {r \in Repls : header[r] # None}

\* Seeded bug: a REPL that leaves the busy set wakes nobody.
NotifyNobody(q, to, W) ==
    /\ pc' = [pc EXCEPT ![q] = to]
    /\ waiters' = W

\* notify(1), when W are waiting: the first of W wakes up; q goes to `to`.
Notify(q, to, W) ==
    /\ pc' = [c \in Checks |-> IF c = q THEN to
                               ELSE IF W # <<>> /\ c = Head(W) THEN "woken" ELSE pc[c]]
    /\ waiters' = IF W = <<>> THEN W ELSE Tail(W)

Moves(q, to) == pc' = [pc EXCEPT ![q] = to] /\ UNCHANGED waiters

\* Repl.start(): a process of its own, with no environment yet; and
\* Repl.close(), from a task of its own, which kills the process.
Started(r) ==
    /\ running' = running \cup {r}
    /\ env' = IF r \in running THEN env ELSE [env EXCEPT ![r] = None]
Closed(R) == running' = running \ R
----------------------------------------------------------------------------
Arrive(q) ==
    /\ pc[q] = "new" /\ Moves(q, "get")
    /\ UNCHANGED <<db, down, wants, reuse, lease, pool>>

\* Seeded bug: any free REPL will do.
ReusableAny(q) == IF reuse[q] THEN {i \in DOMAIN free : TRUE} ELSE {}

\* Places in the free list of the REPLs that q may reuse.
Reusable(q) ==
    IF reuse[q] THEN {i \in DOMAIN free : header[free[i]] = wants[q]} ELSE {}

Room == Len(free) + Cardinality(busy) < MaxRepls

\* start_new(): a new REPL object is made and counted as busy.
StartNew(q, r) ==
    /\ r \in Repls \ Made
    /\ header' = [header EXCEPT ![r] = wants[q]]
    /\ busy' = busy \cup {r}
    /\ lease' = [lease EXCEPT ![q] = r]
    /\ UNCHANGED <<uses, env>>

\* Seeded bug: a reused REPL stays in the free list.
GetReusedKept(q) ==
    /\ pc[q] \in {"get", "woken"}
    /\ Reusable(q) # {}
    /\ \E i \in Reusable(q) : /\ busy' = busy \cup {free[i]}
                              /\ lease' = [lease EXCEPT ![q] = free[i]]
    /\ Moves(q, "prep")
    /\ UNCHANGED <<db, down, wants, reuse, free, header, running, uses, env>>

\* One turn of get_repl's loop: reuse, start, evict and start, or wait.
GetReused(q) ==
    /\ pc[q] \in {"get", "woken"}
    /\ Reusable(q) # {}
    /\ \E i \in Reusable(q) :
          /\ \A j \in Reusable(q) : i <= j
          /\ free' = RemovedAt(free, i)
          /\ busy' = busy \cup {free[i]}
          /\ lease' = [lease EXCEPT ![q] = free[i]]
    /\ Moves(q, "prep")
    /\ UNCHANGED <<db, down, wants, reuse, header, running, uses, env>>

GetNew(q) ==
    /\ pc[q] \in {"get", "woken"}
    /\ Reusable(q) = {}
    /\ \/ Room /\ UNCHANGED <<free, running>>
       \/ /\ ~Room /\ free # <<>>
          /\ free' = Tail(free) /\ Closed({Head(free)})
    /\ IF db THEN /\ Moves(q, "create")
                  /\ UNCHANGED <<lease, busy, header, uses, env>>
             ELSE Moves(q, "prep") /\ \E r \in Repls : StartNew(q, r)
    /\ UNCHANGED <<db, down, wants, reuse>>

GetWaits(q) ==
    /\ pc[q] \in {"get", "woken"}
    /\ Reusable(q) = {} /\ ~Room /\ free = <<>>
    /\ pc' = [pc EXCEPT ![q] = "wait"]
    /\ waiters' = Append(waiters, q)
    /\ UNCHANGED <<db, down, wants, reuse, lease, pool>>

\* max_wait is over while q waits, or before it took what it was woken for.
WaitTimesOut(q) ==
    /\ pc[q] \in Waiting
    /\ Notify(q, "done", Without(waiters, q))
    /\ UNCHANGED <<db, down, wants, reuse, lease, pool>>

\* Repl.create() with a database: its row is written, or that fails.
Create(q) ==
    /\ pc[q] = "create"
    /\ \/ Moves(q, "prep") /\ \E r \in Repls : StartNew(q, r)
       \/ Moves(q, "done") /\ UNCHANGED <<lease, busy, header, uses, env>>
    /\ UNCHANGED <<db, down, wants, reuse, free, running>>
----------------------------------------------------------------------------
\* destroy_repl() by q, of the REPL it holds or held: out of the pool, its
\* process killed, one waiter woken.
Destroy(q) ==
    LET r == lease[q]
    IN /\ busy' = busy \ {r}
       /\ free' = Without(free, r)
       /\ Closed({r})
       /\ lease' = [lease EXCEPT ![q] = 0]
       /\ Notify(q, "done", waiters)
       /\ UNCHANGED <<db, down, wants, reuse, header, uses, env>>

\* prep(): a REPL that runs is ready, another one starts its process and, if
\* it has a header, sends it.
Prep(q) ==
    /\ pc[q] = "prep"
    /\ LET r == lease[q]
       IN /\ Moves(q, IF r \in running \/ header[r] = Blank THEN "body" ELSE "header")
          /\ Started(r)
    /\ UNCHANGED <<db, down, wants, reuse, lease, free, busy, header, uses>>

\* The header's command is answered.  An answer that reports an error makes no
\* environment and is not told apart.
HeaderDone(q) ==
    /\ pc[q] = "header"
    /\ lease[q] \in running
    /\ \E made \in {header[lease[q]], None} : env' = [env EXCEPT ![lease[q]] = made]
    /\ uses' = [uses EXCEPT ![lease[q]] = @ + 1]
    /\ Moves(q, "body")
    /\ UNCHANGED <<db, down, wants, reuse, lease, free, busy, header, running>>

\* The process does not start, or a command times out, breaks or answers what
\* cannot be parsed.
ReplFails(q) == pc[q] \in Holding /\ Destroy(q)

\* exhausted: running the header does not count.
Exhausted(r, n) ==
    MaxUses >= 0 /\ n >= (IF header[r] = Blank THEN MaxUses ELSE MaxUses + 1)

\* Seeded bug: the REPL of an answered snippet is not given back.
ReleasedNever(q, n) ==
    Moves(q, IF db THEN "store" ELSE "done") /\ UNCHANGED <<free, busy, running>>

\* release_repl(): back to the free list, or closed when exhausted.
Released(q, n) ==
    LET r == lease[q]
        next == IF db THEN "store" ELSE "done"
    IN IF r \notin busy
       THEN Moves(q, next) /\ UNCHANGED <<free, busy, running>>
       ELSE /\ busy' = busy \ {r}
            /\ Notify(q, next, waiters)
            /\ IF Exhausted(r, n)
               THEN Closed({r}) /\ UNCHANGED free
               ELSE free' = Append(free, r) /\ UNCHANGED running

\* The body is answered.  It ran in environment 0, or made it when it was the
\* first command of a process with no header.
BodyDone(q) ==
    /\ pc[q] = "body" /\ lease[q] \in running
    /\ LET r == lease[q]
       IN /\ uses' = [uses EXCEPT ![r] = @ + 1]
          /\ env' = IF uses[r] = 0 THEN [env EXCEPT ![r] = q] ELSE env
          /\ Released(q, uses[r] + 1)
          /\ lease' = IF db THEN lease ELSE [lease EXCEPT ![q] = 0]
    /\ UNCHANGED <<db, down, wants, reuse, header>>

\* With a database the answer is stored after the REPL was given back.
Store(q) ==
    /\ pc[q] = "store"
    /\ Moves(q, "done")
    /\ lease' = [lease EXCEPT ![q] = 0]
    /\ UNCHANGED <<db, down, wants, reuse, pool>>

\* The client disconnects: the check is cancelled wherever it awaits, and
\* destroys the REPL its variable holds, if any.
Cancel(q) ==
    \/ pc[q] \in Holding \cup {"store"} /\ Destroy(q)
    \/ /\ pc[q] \in Waiting
       /\ Notify(q, "done", Without(waiters, q))
       /\ UNCHANGED <<db, down, wants, reuse, lease, pool>>
    \/ /\ pc[q] \in {"get", "create"}
       /\ Moves(q, "done")
       /\ UNCHANGED <<db, down, wants, reuse, lease, pool>>

\* A process exits by itself, on its memory limit for one.
Exits(r) ==
    /\ r \in running
    /\ running' = running \ {r}
    /\ UNCHANGED <<db, down, pc, wants, reuse, lease, waiters, free, busy, header, uses, env>>

\* cleanup(), at the end of the lifespan: nobody is notified.
Cleanup ==
    /\ ~down /\ down' = TRUE
    /\ Closed(busy \cup Elems(free))
    /\ busy' = {} /\ free' = <<>>
    /\ UNCHANGED <<db, pc, wants, reuse, lease, waiters, header, uses, env>>

Next ==
    \/ \E q \in Checks :
         \/ Arrive(q) \/ GetReused(q) \/ GetNew(q) \/ GetWaits(q) \/ WaitTimesOut(q)
         \/ Create(q) \/ Prep(q) \/ HeaderDone(q) \/ ReplFails(q) \/ BodyDone(q)
         \/ Store(q) \/ Cancel(q)
    \/ \E r \in Repls : Exits(r)
    \/ Cleanup

Spec == Init /\ [][Next]_vars
----------------------------------------------------------------------------
Leased == {lease[q] : q \in {c \in Checks : pc[c] \in Holding}}

\* Until shutdown the pool holds no more REPLs than allowed, and the busy ones
\* are those some check holds, each held by one check: none is lost to the pool
\* whatever fails, times out or is cancelled, none is leased again or destroyed
\* under a check that uses it, and no process runs outside the pool.  Only
\* without a database: with one, checks that found room start theirs together,
\* and a check cancelled while it stores its answer destroys the REPL it gave
\* back.
ReplsAccounted ==
    ~db /\ ~down =>
        /\ Len(free) + Cardinality(busy) <= MaxRepls
        /\ busy = Leased
        /\ \A q, c \in Checks : pc[q] \in Holding /\ pc[c] \in Holding /\ lease[q] = lease[c]
                                  => q = c
        /\ running \subseteq busy \cup Elems(free)

\* A check sleeps on the condition only if there is nothing it could take, or
\* one that was woken has still to look.  Only without a database (a failed
\* Repl.create wakes nobody) and until shutdown.
NoLostWakeup ==
    ~db /\ ~down /\ waiters # <<>> =>
        \/ \E q \in Checks : pc[q] = "woken"
        \/ free = <<>> /\ ~Room

\* A body is sent to a REPL of its snippet's header and, if that is not blank,
\* in the environment the header made, with nothing of another snippet in it;
\* or in no environment, when the header failed.
BodyOnItsHeader ==
    \A q \in Checks : pc[q] = "body" =>
        /\ header[lease[q]] = wants[q]
        /\ wants[q] # Blank => env[lease[q]] \in {wants[q], None}
============================================================================
