---------------------- MODULE ExecRequestLimiterProofs ----------------------
(***************************************************************************)
(* Proofs about the request limiter, for any number of tasks, any bounds   *)
(* and any interleaving: its counters are exact, it stays within its       *)
(* bounds, and it loses no wake-up.                                        *)
(*                                                                         *)
(* The three invariants rest on each other from left to right: WaitListOK  *)
(* ties the condition's list to the suspended tasks, CountersExact needs   *)
(* it to know that a notification only moves a task within the line, and   *)
(* NoLostWakeup needs both.                                                *)
(***************************************************************************)
EXTENDS ExecRequestLimiter, FiniteSetTheorems, SequenceTheorems, TLAPS

\* The part of TypeOK that does not depend on the counters.
WaitListOK ==
    /\ pc \in [Tasks -> PCs]
    /\ waiters \in Seq(Tasks)
    /\ \A t \in Tasks : pc[t] = "waiting" <=> \E i \in 1..Len(waiters) : waiters[i] = t
    /\ \A i, j \in 1..Len(waiters) : waiters[i] = waiters[j] => i = j

Inv == WaitListOK /\ CountersExact /\ NoLostWakeup

---------------------------------------------------------------------------
\* Sets of tasks are finite and are counted by a natural number.
LEMMA AtFinite ==
    /\ \A s : IsFiniteSet(At(s)) /\ Cardinality(At(s)) \in Nat
    /\ \A s : IsFiniteSet(At(s)') /\ Cardinality(At(s)') \in Nat
    /\ IsFiniteSet(Queueing) /\ Cardinality(Queueing) \in Nat
<1>1. \A s : At(s) \in SUBSET Tasks /\ At(s)' \in SUBSET Tasks
  BY DEF At
<1>2. Queueing \in SUBSET Tasks
  BY DEF At, Queueing
<1> QED
  BY <1>1, <1>2, FS_Subset, FS_CardinalityType, LimiterAssumption

\* Removing the element at position i of a list shifts what follows it to the
\* left (the condition forgets the future of a cancelled task,
\* exec_request_limiter.py:55).
LEMMA RemovedAtFacts ==
    ASSUME NEW S, NEW q \in Seq(S), NEW i \in 1..Len(q)
    PROVE  /\ RemovedAt(q, i) \in Seq(S)
           /\ Len(RemovedAt(q, i)) = Len(q) - 1
           /\ \A j \in 1..(Len(q) - 1) :
                RemovedAt(q, i)[j] = q[IF j < i THEN j ELSE j + 1]
<1>1. Len(q) \in Nat \ {0} /\ i \in Nat /\ i <= Len(q)
  OBVIOUS
<1>2. ASSUME NEW before \in Seq(S), Len(before) = i - 1,
             \A j \in 1..(i - 1) : before[j] = q[j],
             NEW after \in Seq(S), Len(after) = Len(q) - i,
             \A j \in 1..(Len(q) - i) : after[j] = q[j + i]
      PROVE  /\ before \o after \in Seq(S)
             /\ Len(before \o after) = Len(q) - 1
             /\ \A j \in 1..(Len(q) - 1) :
                  (before \o after)[j] = q[IF j < i THEN j ELSE j + 1]
  <2>1. before \o after \in Seq(S)
    OBVIOUS
  <2>2. Len(before \o after) = Len(before) + Len(after)
    BY ConcatProperties, Zenon
  <2>3. Len(before \o after) = Len(q) - 1
    BY <1>1, <1>2, <2>2
  <2>4. ASSUME NEW j \in 1..(Len(q) - 1), j < i
        PROVE  (before \o after)[j] = q[j]
    BY <1>1, <1>2, <2>4
  <2>5. ASSUME NEW j \in 1..(Len(q) - 1), j >= i
        PROVE  (before \o after)[j] = q[j + 1]
    <3>1. j - (i - 1) \in 1..(Len(q) - i) /\ j - (i - 1) + i = j + 1
      BY <1>1, <2>5
    <3>2. (before \o after)[j] = after[j - (i - 1)]
      BY <1>1, <1>2, <2>5, <3>1
    <3> QED
      BY <1>2, <3>1, <3>2
  <2> QED
    BY <1>1, <2>1, <2>3, <2>4, <2>5
<1> DEFINE before == SubSeq(q, 1, i - 1)
           after  == SubSeq(q, i + 1, Len(q))
<1>3. before \in Seq(S) /\ Len(before) = i - 1 /\ \A j \in 1..(i - 1) : before[j] = q[j]
  BY <1>1
<1>4. /\ after \in Seq(S) /\ Len(after) = Len(q) - i
      /\ \A j \in 1..(Len(q) - i) : after[j] = q[j + i]
  BY <1>1
<1> HIDE DEF before, after
<1>5. /\ before \o after \in Seq(S)
      /\ Len(before \o after) = Len(q) - 1
      /\ \A j \in 1..(Len(q) - 1) :
           (before \o after)[j] = q[IF j < i THEN j ELSE j + 1]
  BY <1>2, <1>3, <1>4, Zenon
<1> QED
  BY <1>5 DEF RemovedAt, before, after

\* notify(n) takes tasks off the front of the condition's list and makes them
\* runnable, and nothing else; the list is not left non-empty unless somebody
\* was notified (exec_request_limiter.py:60, 70).
LEMMA NotifyFacts ==
    ASSUME WaitListOK, NEW n \in 1..2, NEW t \in Tasks, pc[t] # "waiting",
           NEW to \in PCs \ {"waiting"}, NotifyAndMove(n, t, to)
    PROVE  /\ WaitListOK'
           /\ pc'[t] = to
           /\ \A u \in Tasks \ {t} : \/ pc'[u] = pc[u]
                                     \/ pc[u] = "waiting" /\ pc'[u] = "notified"
           /\ waiters' # <<>> =>
                \E u \in Tasks \ {t} : pc[u] = "waiting" /\ pc'[u] = "notified"
<1> DEFINE k     == IF n <= Len(waiters) THEN n ELSE Len(waiters)
           woken == {waiters[i] : i \in 1..k}
<1>1. /\ k \in 0..Len(waiters) /\ Len(waiters) \in Nat
      /\ waiters' = SubSeq(waiters, k + 1, Len(waiters))
      /\ pc' = [u \in Tasks |-> IF u = t THEN to
                                ELSE IF u \in woken THEN "notified" ELSE pc[u]]
  BY DEF NotifyAndMove, WaitListOK
<1> HIDE DEF k
<1>2. /\ waiters' \in Seq(Tasks)
      /\ Len(waiters') = Len(waiters) - k
      /\ \A i \in 1..Len(waiters') : waiters'[i] = waiters[i + k]
  BY <1>1 DEF WaitListOK
<1>3. \A u \in woken : u \in Tasks \ {t} /\ pc[u] = "waiting"
  BY <1>1 DEF WaitListOK
<1>4. \A u \in Tasks : pc'[u] = "waiting" <=> \E i \in 1..Len(waiters') : waiters'[i] = u
  <2> SUFFICES ASSUME NEW u \in Tasks
               PROVE  pc'[u] = "waiting" <=> \E i \in 1..Len(waiters') : waiters'[i] = u
    OBVIOUS
  <2>1. ASSUME pc'[u] = "waiting"
        PROVE  \E i \in 1..Len(waiters') : waiters'[i] = u
    <3>1. pc[u] = "waiting" /\ u \notin woken
      BY <1>1, <2>1
    <3>2. PICK i \in 1..Len(waiters) : waiters[i] = u
      BY <3>1 DEF WaitListOK
    <3>3. i \notin 1..k
      BY <3>1, <3>2
    <3>4. i - k \in 1..Len(waiters') /\ waiters'[i - k] = u
      BY <1>1, <1>2, <3>2, <3>3 DEF WaitListOK
    <3> QED
      BY <3>4
  <2>2. ASSUME NEW i \in 1..Len(waiters'), waiters'[i] = u
        PROVE  pc'[u] = "waiting"
    <3>1. i + k \in 1..Len(waiters) /\ waiters[i + k] = u
      BY <1>1, <1>2, <2>2 DEF WaitListOK
    <3>2. pc[u] = "waiting" /\ u # t
      BY <3>1 DEF WaitListOK
    <3>3. u \notin woken
      BY <1>1, <3>1 DEF WaitListOK
    <3> QED
      BY <1>1, <3>2, <3>3
  <2> QED
    BY <2>1, <2>2
<1>5. \A i, j \in 1..Len(waiters') : waiters'[i] = waiters'[j] => i = j
  BY <1>1, <1>2 DEF WaitListOK
<1>6. pc' \in [Tasks -> PCs]
  BY <1>1 DEF WaitListOK, PCs
<1>7. ASSUME waiters' # <<>>
      PROVE  \E u \in Tasks \ {t} : pc[u] = "waiting" /\ pc'[u] = "notified"
  <2>1. Len(waiters') > 0
    BY <1>2, <1>7, EmptySeq, LenProperties
  <2>2. k < Len(waiters)
    BY <1>1, <1>2, <2>1
  <2>3. k = n
    BY <1>1, <2>2 DEF k
  <2>4. waiters[1] \in woken
    BY <2>3
  <2> QED
    BY <1>1, <1>3, <2>4
<1> QED
  BY <1>1, <1>2, <1>3, <1>4, <1>5, <1>6, <1>7 DEF WaitListOK

---------------------------------------------------------------------------
\* The condition's list holds exactly the suspended tasks, each once, through
\* notifications, lost races and cancellations.
LEMMA WaitListStep ==
    ASSUME WaitListOK, [Next]_vars
    PROVE  WaitListOK'
<1> USE DEF WaitListOK, Goto
<1>1. ASSUME NEW t \in Tasks, AcquireFree(t) \/ Reject(t) \/ Respond503(t)
      PROVE  WaitListOK'
  BY <1>1 DEF AcquireFree, Reject, Respond503, PCs
<1>2. ASSUME NEW t \in Tasks, pc[t] # "waiting", waiters' = Append(waiters, t),
             Goto(t, "waiting")
      PROVE  WaitListOK'
  <2>1. /\ waiters' \in Seq(Tasks)
        /\ Len(waiters') = Len(waiters) + 1
        /\ waiters'[Len(waiters) + 1] = t
        /\ \A i \in 1..Len(waiters) : waiters'[i] = waiters[i]
    BY <1>2
  <2>2. \A u \in Tasks : pc'[u] = "waiting" <=> u = t \/ pc[u] = "waiting"
    BY <1>2
  <2>3. \A u \in Tasks : (\E i \in 1..Len(waiters') : waiters'[i] = u)
                            <=> u = t \/ \E i \in 1..Len(waiters) : waiters[i] = u
    BY <2>1
  <2> QED
    BY <1>2, <2>1, <2>2, <2>3 DEF PCs
<1>3. ASSUME NEW t \in Tasks, Enqueue(t)
      PROVE  WaitListOK'
  BY <1>2, <1>3 DEF Enqueue
<1>4. ASSUME NEW t \in Tasks, Wake(t)
      PROVE  WaitListOK'
  <2>1. CASE in_flight < MaxInFlight /\ Goto(t, "holding") /\ UNCHANGED waiters
    BY <1>4, <2>1 DEF Wake, PCs
  <2>2. CASE waiters' = Append(waiters, t) /\ Goto(t, "waiting")
    BY <1>2, <1>4, <2>2 DEF Wake
  <2> QED
    BY <1>4, <2>1, <2>2 DEF Wake
<1>5. ASSUME NEW t \in Tasks, CancelQueued(t)
      PROVE  WaitListOK'
  <2>1. CASE pc[t] = "notified" /\ UNCHANGED waiters
    BY <1>5, <2>1 DEF CancelQueued, PCs
  <2>2. ASSUME NEW i \in 1..Len(waiters), waiters[i] = t,
               waiters' = RemovedAt(waiters, i)
        PROVE  WaitListOK'
    <3> DEFINE old(j) == IF j < i THEN j ELSE j + 1
    <3>1. /\ waiters' \in Seq(Tasks)
          /\ Len(waiters) \in Nat \ {0}
          /\ Len(waiters') = Len(waiters) - 1
          /\ \A j \in 1..Len(waiters') : waiters'[j] = waiters[old(j)]
      <4>1. waiters \in Seq(Tasks) /\ Len(waiters) \in Nat \ {0}
        OBVIOUS
      <4>2. waiters' = RemovedAt(waiters, i)
        BY <2>2
      <4>3. /\ RemovedAt(waiters, i) \in Seq(Tasks)
            /\ Len(RemovedAt(waiters, i)) = Len(waiters) - 1
            /\ \A j \in 1..(Len(waiters) - 1) :
                 RemovedAt(waiters, i)[j] = waiters[IF j < i THEN j ELSE j + 1]
        BY <4>1, RemovedAtFacts
      <4> QED
        BY <4>1, <4>2, <4>3
    <3> HIDE DEF WaitListOK
    <3>2. /\ \A j \in 1..Len(waiters') : old(j) \in 1..Len(waiters) /\ old(j) # i
          /\ \A j, m \in 1..Len(waiters') : old(j) = old(m) => j = m
          /\ \A n \in 1..Len(waiters) : n # i => \E j \in 1..Len(waiters') : old(j) = n
      <4>1. ASSUME NEW n \in 1..Len(waiters), n # i
            PROVE  \E j \in 1..Len(waiters') : old(j) = n
        <5>1. CASE n < i
          BY <3>1, <5>1
        <5>2. CASE n > i
          <6>1. n - 1 \in 1..Len(waiters') /\ old(n - 1) = n
            BY <3>1, <5>2
          <6> QED
            BY <6>1
        <5> QED
          BY <4>1, <5>1, <5>2
      <4>2. \A j \in 1..Len(waiters') : old(j) \in 1..Len(waiters) /\ old(j) # i
        BY <3>1
      <4>3. \A j, m \in 1..Len(waiters') : old(j) = old(m) => j = m
        BY <3>1
      <4> QED
        BY <4>1, <4>2, <4>3
    <3> HIDE DEF old
    <3>3. \A m, j \in 1..Len(waiters') : waiters'[m] = waiters'[j] => m = j
      BY <3>1, <3>2 DEF WaitListOK
    <3>4. \A j \in 1..Len(waiters) : waiters[j] = t <=> j = i
      BY <2>2 DEF WaitListOK
    <3>5. \A u \in Tasks : (\E j \in 1..Len(waiters') : waiters'[j] = u)
                              <=> u # t /\ \E j \in 1..Len(waiters) : waiters[j] = u
      BY <3>1, <3>2, <3>4
    <3> QED
      BY <1>5, <3>1, <3>3, <3>5 DEF WaitListOK, CancelQueued, PCs
  <2> QED
    BY <1>5, <2>1, <2>2 DEF CancelQueued
<1>6. ASSUME NEW t \in Tasks, Unwind(t)
      PROVE  WaitListOK'
  BY <1>6, NotifyFacts DEF Unwind, PCs
<1>7. ASSUME NEW t \in Tasks, Release(t)
      PROVE  WaitListOK'
  BY <1>7, NotifyFacts DEF Release, PCs
<1>8. CASE UNCHANGED vars
  BY <1>8 DEF vars
<1> QED
  BY <1>1, <1>3, <1>4, <1>5, <1>6, <1>7, <1>8 DEF Next

---------------------------------------------------------------------------
\* A notification moves tasks within the line: apart from the caller, nobody
\* enters or leaves the slots, the line or the tasks being cancelled.
LEMMA NotifyKeepsOthers ==
    ASSUME WaitListOK, NEW n \in 1..2, NEW t \in Tasks, pc[t] # "waiting",
           NotifyAndMove(n, t, "idle")
    PROVE  /\ At("holding")' = At("holding") \ {t}
           /\ Queueing' = Queueing \ {t}
           /\ At("cancelling")' = At("cancelling") \ {t}
<1>1. /\ pc'[t] = "idle"
      /\ \A u \in Tasks \ {t} : \/ pc'[u] = pc[u]
                                \/ pc[u] = "waiting" /\ pc'[u] = "notified"
  BY NotifyFacts DEF PCs
<1> QED
  BY <1>1 DEF At, Queueing

\* in_flight and queued stay exact through every step: a task is counted in one
\* of them when it moves into the set it stands for, and nowhere else.
LEMMA CountersStep ==
    ASSUME WaitListOK, CountersExact, [Next]_vars
    PROVE  CountersExact'
<1>0. /\ in_flight \in Nat /\ queued \in Nat
      /\ MaxInFlight \in Int /\ MaxQueued \in Int
      /\ pc \in [Tasks -> PCs]
      /\ IsFiniteSet(At("holding")) /\ IsFiniteSet(Queueing)
  BY AtFinite, LimiterAssumption DEF CountersExact, WaitListOK
<1>1. ASSUME NEW t \in Tasks, AcquireFree(t)
      PROVE  CountersExact'
  <2>1. At("holding")' = At("holding") \cup {t} /\ t \notin At("holding")
    BY <1>0, <1>1 DEF AcquireFree, Goto, At
  <2>2. Queueing' = Queueing
    BY <1>0, <1>1 DEF AcquireFree, Goto, At, Queueing
  <2>3. Cardinality(At("holding")') = Cardinality(At("holding")) + 1
    BY <1>0, <2>1, FS_AddElement
  <2> QED
    BY <1>0, <1>1, <2>2, <2>3
       DEF AcquireFree, HasFreeSlot, Bounded, CountersExact
<1>2. ASSUME NEW t \in Tasks, Reject(t) \/ Respond503(t)
      PROVE  CountersExact'
  <2>1. At("holding")' = At("holding") /\ Queueing' = Queueing
    BY <1>0, <1>2 DEF Reject, Respond503, Goto, At, Queueing
  <2> QED
    BY <1>2, <2>1 DEF Reject, Respond503, CountersExact
<1>3. ASSUME NEW t \in Tasks, Enqueue(t)
      PROVE  CountersExact'
  <2>1. Queueing' = Queueing \cup {t} /\ t \notin Queueing
    BY <1>0, <1>3 DEF Enqueue, Goto, At, Queueing
  <2>2. At("holding")' = At("holding")
    BY <1>0, <1>3 DEF Enqueue, Goto, At
  <2>3. Cardinality(Queueing') = Cardinality(Queueing) + 1
    BY <1>0, <2>1, FS_AddElement
  <2> QED
    BY <1>0, <1>3, <2>2, <2>3
       DEF Enqueue, HasFreeSlot, QueueFull, Bounded, CountersExact
<1>4. ASSUME NEW t \in Tasks, Wake(t)
      PROVE  CountersExact'
  <2>1. t \in Queueing /\ t \notin At("holding")
    BY <1>4 DEF Wake, At, Queueing
  <2>2. CASE in_flight < MaxInFlight
    <3>1. At("holding")' = At("holding") \cup {t} /\ Queueing' = Queueing \ {t}
      BY <1>0, <1>4, <2>2 DEF Wake, Goto, At, Queueing
    <3>2. /\ Cardinality(At("holding")') = Cardinality(At("holding")) + 1
          /\ Cardinality(Queueing') = Cardinality(Queueing) - 1
      BY <1>0, <2>1, <3>1, FS_AddElement, FS_RemoveElement
    <3> QED
      BY <1>0, <1>4, <2>1, <2>2, <3>1, <3>2 DEF Wake, Bounded, CountersExact
  <2>3. CASE in_flight >= MaxInFlight
    <3>1. At("holding")' = At("holding") /\ Queueing' = Queueing
      BY <1>0, <1>4, <2>3 DEF Wake, Goto, At, Queueing
    <3> QED
      BY <1>0, <1>4, <2>3, <3>1 DEF Wake, CountersExact
  <2> QED
    BY <1>0, <2>2, <2>3
<1>5. ASSUME NEW t \in Tasks, CancelQueued(t)
      PROVE  CountersExact'
  <2>1. At("holding")' = At("holding") /\ Queueing' = Queueing
    BY <1>0, <1>5 DEF CancelQueued, Goto, At, Queueing
  <2> QED
    BY <1>5, <2>1 DEF CancelQueued, CountersExact
<1>6. ASSUME NEW t \in Tasks, Unwind(t)
      PROVE  CountersExact'
  <2>1. t \in Queueing /\ t \notin At("holding") /\ pc[t] # "waiting"
    BY <1>6 DEF Unwind, At, Queueing
  <2>2. At("holding")' = At("holding") /\ Queueing' = Queueing \ {t}
    BY <1>6, <2>1, NotifyKeepsOthers DEF Unwind
  <2>3. Cardinality(Queueing') = Cardinality(Queueing) - 1
    BY <1>0, <2>1, <2>2, FS_RemoveElement
  <2> QED
    BY <1>0, <1>6, <2>1, <2>2, <2>3 DEF Unwind, CountersExact
<1>7. ASSUME NEW t \in Tasks, Release(t)
      PROVE  CountersExact'
  <2>1. t \in At("holding") /\ t \notin Queueing /\ pc[t] # "waiting"
    BY <1>7 DEF Release, At, Queueing
  <2>2. At("holding")' = At("holding") \ {t} /\ Queueing' = Queueing
    <3>1. CASE Bounded
      BY <1>7, <2>1, <3>1, NotifyKeepsOthers DEF Release
    <3>2. CASE ~Bounded
      BY <1>0, <1>7, <3>2 DEF Release, Goto, At, Queueing
    <3> QED
      BY <3>1, <3>2
  <2>3. Cardinality(At("holding")') = Cardinality(At("holding")) - 1
    BY <1>0, <2>1, <2>2, FS_RemoveElement
  <2>4. in_flight > 0
    BY <1>0, <2>1, FS_EmptySet DEF CountersExact
  <2> QED
    BY <1>0, <1>7, <2>2, <2>3, <2>4 DEF Release, CountersExact
<1>8. CASE UNCHANGED vars
  BY <1>8 DEF vars, CountersExact, At, Queueing
<1> QED
  BY <1>1, <1>2, <1>3, <1>4, <1>5, <1>6, <1>7, <1>8 DEF Next

---------------------------------------------------------------------------
\* When a notification leaves tasks waiting, it has made at least one task more
\* runnable.
LEMMA NotifyWakes ==
    ASSUME WaitListOK, NEW n \in 1..2, NEW t \in Tasks,
           pc[t] \notin {"waiting", "notified"},
           NotifyAndMove(n, t, "idle"), waiters' # <<>>
    PROVE  /\ Cardinality(At("notified")') >= Cardinality(At("notified")) + 1
           /\ waiters # <<>>
<1>1. /\ \A u \in Tasks \ {t} : \/ pc'[u] = pc[u]
                                \/ pc[u] = "waiting" /\ pc'[u] = "notified"
      /\ \E u \in Tasks \ {t} : pc[u] = "waiting" /\ pc'[u] = "notified"
  BY NotifyFacts DEF PCs
<1>2. PICK u \in Tasks : pc[u] = "waiting" /\ pc'[u] = "notified"
  BY <1>1
<1>3. u \notin At("notified") /\ At("notified") \cup {u} \subseteq At("notified")'
  BY <1>1, <1>2 DEF At
<1>4. /\ IsFiniteSet(At("notified")) /\ Cardinality(At("notified")) \in Nat
      /\ IsFiniteSet(At("notified")') /\ Cardinality(At("notified")') \in Nat
  BY AtFinite
<1>5. Cardinality(At("notified") \cup {u}) = Cardinality(At("notified")) + 1
  BY <1>3, <1>4, FS_AddElement
<1>6. Cardinality(At("notified") \cup {u}) <= Cardinality(At("notified")')
  BY <1>3, <1>4, FS_Subset
<1>7. waiters # <<>>
  BY <1>2, LenProperties DEF WaitListOK
<1> QED
  BY <1>4, <1>5, <1>6, <1>7

\* No step loses a wake-up: one that frees a slot, or takes a task off its way
\* to one, makes another waiting task runnable.
LEMMA WakeupStep ==
    ASSUME Inv, [Next]_vars
    PROVE  NoLostWakeup'
<1>0. /\ WaitListOK /\ CountersExact /\ NoLostWakeup
      /\ in_flight \in Nat /\ MaxInFlight \in Int
      /\ pc \in [Tasks -> PCs]
      /\ IsFiniteSet(At("notified")) /\ Cardinality(At("notified")) \in Nat
      /\ IsFiniteSet(At("cancelling")) /\ Cardinality(At("cancelling")) \in Nat
  BY AtFinite, LimiterAssumption DEF Inv, CountersExact, WaitListOK
<1>1. ASSUME NEW t \in Tasks, AcquireFree(t) \/ Reject(t) \/ Respond503(t)
      PROVE  NoLostWakeup'
  <2>1. At("notified")' = At("notified") /\ At("cancelling")' = At("cancelling")
    BY <1>0, <1>1 DEF AcquireFree, Reject, Respond503, Goto, At
  <2>2. waiters' = waiters /\ in_flight' \in Nat /\ in_flight' >= in_flight
    BY <1>0, <1>1 DEF AcquireFree, Reject, Respond503
  <2> QED
    BY <1>0, <2>1, <2>2 DEF NoLostWakeup
<1>2. ASSUME NEW t \in Tasks, Enqueue(t)
      PROVE  NoLostWakeup'
  <2>1. At("notified")' = At("notified") /\ At("cancelling")' = At("cancelling")
    BY <1>0, <1>2 DEF Enqueue, Goto, At
  <2> QED
    BY <1>0, <1>2, <2>1 DEF Enqueue, HasFreeSlot, Bounded, NoLostWakeup
<1>3. ASSUME NEW t \in Tasks, Wake(t)
      PROVE  NoLostWakeup'
  <2>1. t \in At("notified")
    BY <1>3 DEF Wake, At
  <2>2. /\ At("notified")' = At("notified") \ {t}
        /\ At("cancelling")' = At("cancelling")
    BY <1>0, <1>3 DEF Wake, Goto, At
  <2>3. Cardinality(At("notified")') = Cardinality(At("notified")) - 1
    BY <1>0, <2>1, <2>2, FS_RemoveElement
  <2>4. Cardinality(At("notified")') \in Nat
    BY AtFinite
  <2> QED
    BY <1>0, <1>3, <2>2, <2>3, <2>4 DEF Wake, NoLostWakeup
<1>4. ASSUME NEW t \in Tasks, CancelQueued(t)
      PROVE  NoLostWakeup'
  <2>1. t \notin At("cancelling") /\ At("cancelling")' = At("cancelling") \cup {t}
    BY <1>0, <1>4 DEF CancelQueued, Goto, At
  <2>2. Cardinality(At("cancelling")') = Cardinality(At("cancelling")) + 1
    BY <1>0, <2>1, FS_AddElement
  <2>3. At("notified")' = At("notified") \ {t}
    BY <1>0, <1>4 DEF CancelQueued, Goto, At
  <2>4. /\ Cardinality(At("notified")') >= Cardinality(At("notified")) - 1
        /\ Cardinality(At("notified")') \in Nat
    BY <1>0, <2>3, FS_RemoveElement, AtFinite
  <2>5. in_flight' = in_flight /\ (waiters' # <<>> => waiters # <<>>)
    BY <1>0, <1>4 DEF CancelQueued, WaitListOK
  <2> QED
    BY <1>0, <2>2, <2>4, <2>5 DEF NoLostWakeup
<1>5. ASSUME NEW t \in Tasks, Unwind(t)
      PROVE  NoLostWakeup'
  <2> SUFFICES ASSUME Bounded, waiters' # <<>>
               PROVE  MaxInFlight - in_flight' <=
                        Cardinality(At("notified")') + Cardinality(At("cancelling")')
    BY DEF NoLostWakeup, Bounded
  <2>1. t \in At("cancelling") /\ pc[t] \notin {"waiting", "notified"}
    BY <1>5 DEF Unwind, At
  <2>2. /\ Cardinality(At("notified")') >= Cardinality(At("notified")) + 1
        /\ At("cancelling")' = At("cancelling") \ {t}
    BY <1>0, <1>5, <2>1, NotifyWakes, NotifyKeepsOthers DEF Unwind
  <2>3. Cardinality(At("cancelling")') = Cardinality(At("cancelling")) - 1
    BY <1>0, <2>1, <2>2, FS_RemoveElement
  <2>4. waiters # <<>>
    BY <1>0, <1>5, <2>1, NotifyWakes DEF Unwind
  <2>5. Cardinality(At("notified")') \in Int
    BY AtFinite
  <2> QED
    BY <1>0, <1>5, <2>2, <2>3, <2>4, <2>5 DEF Unwind, NoLostWakeup
<1>6. ASSUME NEW t \in Tasks, Release(t)
      PROVE  NoLostWakeup'
  <2> SUFFICES ASSUME Bounded, waiters' # <<>>
               PROVE  MaxInFlight - in_flight' <=
                        Cardinality(At("notified")') + Cardinality(At("cancelling")')
    BY DEF NoLostWakeup, Bounded
  <2>1. pc[t] \notin {"waiting", "notified"} /\ t \notin At("cancelling")
    BY <1>6 DEF Release, At
  <2>2. /\ Cardinality(At("notified")') >= Cardinality(At("notified")) + 1
        /\ At("cancelling")' = At("cancelling")
    <3>1. NotifyAndMove(1, t, "idle") /\ 1 \in 1..2
      BY <1>6 DEF Release
    <3>2. Cardinality(At("notified")') >= Cardinality(At("notified")) + 1
      BY <1>0, <2>1, <3>1, NotifyWakes
    <3>3. At("cancelling")' = At("cancelling") \ {t}
      BY <1>0, <2>1, <3>1, NotifyKeepsOthers
    <3> QED
      BY <2>1, <3>2, <3>3
  <2>3. waiters # <<>>
    BY <1>0, <1>6, <2>1, NotifyWakes DEF Release
  <2>4. in_flight' \in Nat /\ in_flight' >= in_flight - 1
    BY <1>0, <1>6 DEF Release
  <2>5. Cardinality(At("notified")') \in Int
    BY AtFinite
  <2> QED
    BY <1>0, <2>2, <2>3, <2>4, <2>5 DEF NoLostWakeup
<1>7. CASE UNCHANGED vars
  BY <1>0, <1>7 DEF vars, NoLostWakeup, At
<1> QED
  BY <1>1, <1>2, <1>3, <1>4, <1>5, <1>6, <1>7 DEF Next

---------------------------------------------------------------------------
\* The inductive invariant of the limiter.
THEOREM LimiterInvariant == Spec => []Inv
<1>1. Init => Inv
  <2> SUFFICES ASSUME Init
               PROVE  Inv
    OBVIOUS
  <2>1. WaitListOK
    BY DEF Init, WaitListOK, PCs
  <2>2. At("holding") = {} /\ Queueing = {}
    BY DEF Init, At, Queueing
  <2>3. CountersExact
    BY <2>2, FS_EmptySet, LimiterAssumption DEF Init, CountersExact, Bounded
  <2>4. NoLostWakeup
    BY DEF Init, NoLostWakeup
  <2> QED
    BY <2>1, <2>3, <2>4 DEF Inv
<1>2. Inv /\ [Next]_vars => Inv'
  BY WaitListStep, CountersStep, WakeupStep DEF Inv
<1> QED
  BY <1>1, <1>2, PTL DEF Spec

\* Whatever the number of tasks and the bounds: in_flight and queued are the
\* number of tasks in the body of slot() and in its line, and neither exceeds
\* its bound (exec_request_limiter.py:41-70).
THEOREM LimiterCountersExact == Spec => []CountersExact
  BY LimiterInvariant, PTL DEF Inv

\* No interleaving of arrivals, releases, lost races and cancellations leaves a
\* task waiting for a free slot with nobody on the way to it
\* (exec_request_limiter.py:54-61, 70).
THEOREM LimiterLosesNoWakeup == Spec => []NoLostWakeup
  BY LimiterInvariant, PTL DEF Inv

\* The variables keep their types, and the condition's list holds exactly the
\* suspended tasks, each once (exec_request_limiter.py:22-31, 55).
THEOREM LimiterTypeCorrect == Spec => []TypeOK
<1>1. Inv => TypeOK
  <2> SUFFICES ASSUME Inv
               PROVE  TypeOK
    OBVIOUS
  <2>1. in_flight \in Nat /\ queued \in Nat
    BY AtFinite DEF Inv, CountersExact
  <2> QED
    BY <2>1 DEF Inv, WaitListOK, TypeOK
<1> QED
  BY <1>1, LimiterInvariant, PTL

---------------------------------------------------------------------------
\* Where BoundedAdmission sees task t.
Standing ==
    [t \in Tasks |->
        CASE pc[t] = "idle"     -> "out"
          [] pc[t] = "holding"  -> "inside"
          [] pc[t] = "rejected" -> "refused"
          [] OTHER              -> "line"]

\* BoundedAdmission counts with the same Cardinality.
LEMMA SameCardinality == \A S : Admission!Cardinality(S) = Cardinality(S)
  BY Zenon DEF Admission!Cardinality, Cardinality

\* The counters the limiter tests say what BoundedAdmission counts.
LEMMA CountersMeanRoom ==
    ASSUME Inv
    PROVE  /\ Admission!HasRoom <=> HasFreeSlot
           /\ Admission!LineFull <=> QueueFull
<1>1. Admission!Inside = At("holding") /\ Admission!InLine = Queueing
  BY DEF Inv, WaitListOK, Admission!Inside, Admission!InLine, At, Queueing, PCs
<1>2. /\ in_flight = Cardinality(At("holding")) /\ in_flight \in Nat
      /\ queued = Cardinality(Queueing) /\ queued \in Nat
  BY AtFinite DEF Inv, CountersExact
<1>3. Admission!HasRoom <=> MaxInFlight < 0 \/ in_flight < MaxInFlight
  <2>1. Admission!HasRoom <=> MaxInFlight < 0 \/ Cardinality(Admission!Inside) < MaxInFlight
    BY SameCardinality DEF Admission!HasRoom
  <2> QED
    BY <1>1, <1>2, <2>1
<1>4. Admission!LineFull <=> MaxQueued >= 0 /\ queued >= MaxQueued
  <2>1. Admission!LineFull <=> MaxQueued >= 0 /\ Cardinality(Admission!InLine) >= MaxQueued
    BY SameCardinality DEF Admission!LineFull
  <2> QED
    BY <1>1, <1>2, <2>1
<1> QED
  BY <1>2, <1>3, <1>4, LimiterAssumption DEF HasFreeSlot, QueueFull, Bounded

\* Every step of the limiter is a step of BoundedAdmission or leaves every
\* task's standing as it is (exec_request_limiter.py:41-70).
THEOREM LimiterImplementsAdmission == Spec => ImplementsAdmission
<1>1. Init => Admission!Init
  BY DEF Init, Admission!Init
<1>2. ASSUME Inv, [Next]_vars
      PROVE  [Admission!Next]_Standing
  <2>0. pc \in [Tasks -> PCs] /\ (Admission!HasRoom <=> HasFreeSlot)
            /\ (Admission!LineFull <=> QueueFull)
    BY <1>2, CountersMeanRoom DEF Inv, WaitListOK
  <2>1. ASSUME NEW t \in Tasks, AcquireFree(t)
        PROVE  Admission!Enter(t)
    BY <2>0, <2>1 DEF AcquireFree, Goto, Admission!Enter, Admission!Move
  <2>2. ASSUME NEW t \in Tasks, Reject(t)
        PROVE  Admission!Refuse(t)
    BY <2>0, <2>2 DEF Reject, Goto, Admission!Refuse, Admission!Move
  <2>3. ASSUME NEW t \in Tasks, Respond503(t)
        PROVE  Admission!Respond(t)
    BY <2>0, <2>3 DEF Respond503, Goto, Admission!Respond, Admission!Move
  <2>4. ASSUME NEW t \in Tasks, Enqueue(t)
        PROVE  Admission!JoinLine(t)
    BY <2>0, <2>4 DEF Enqueue, Goto, Admission!JoinLine, Admission!Move
  <2>5. ASSUME NEW t \in Tasks, Wake(t)
        PROVE  Admission!Promote(t) \/ UNCHANGED Standing
    <3>1. CASE in_flight < MaxInFlight /\ Goto(t, "holding")
      <4>1. HasFreeSlot
        BY <3>1 DEF HasFreeSlot
      <4> QED
        BY <2>0, <2>5, <3>1, <4>1 DEF Wake, Goto, Admission!Promote, Admission!Move
    <3>2. CASE Goto(t, "waiting")
      BY <2>0, <2>5, <3>2 DEF Wake, Goto, Standing
    <3> QED
      BY <2>5, <3>1, <3>2 DEF Wake
  <2>6. ASSUME NEW t \in Tasks, CancelQueued(t)
        PROVE  UNCHANGED Standing
    BY <2>0, <2>6 DEF CancelQueued, Goto, Standing
  <2>7. ASSUME NEW t \in Tasks, Unwind(t)
        PROVE  Admission!GiveUp(t)
    <3>1. /\ pc[t] = "cancelling" /\ pc'[t] = "idle"
          /\ \A u \in Tasks \ {t} : \/ pc'[u] = pc[u]
                                    \/ pc[u] = "waiting" /\ pc'[u] = "notified"
      BY <1>2, <2>7, NotifyFacts DEF Unwind, Inv, PCs
    <3> QED
      BY <2>0, <3>1 DEF Admission!GiveUp, Admission!Move
  <2>8. ASSUME NEW t \in Tasks, Release(t)
        PROVE  Admission!Leave(t)
    <3>1. /\ pc[t] = "holding" /\ pc'[t] = "idle"
          /\ \A u \in Tasks \ {t} : \/ pc'[u] = pc[u]
                                    \/ pc[u] = "waiting" /\ pc'[u] = "notified"
      <4>1. CASE Bounded
        BY <1>2, <2>8, <4>1, NotifyFacts DEF Release, Inv, PCs
      <4>2. CASE ~Bounded
        BY <2>0, <2>8, <4>2 DEF Release, Goto
      <4> QED
        BY <4>1, <4>2
    <3> QED
      BY <2>0, <3>1 DEF Admission!Leave, Admission!Move
  <2>9. CASE UNCHANGED vars
    BY <2>9 DEF vars, Standing
  <2> QED
    BY <1>2, <2>1, <2>2, <2>3, <2>4, <2>5, <2>6, <2>7, <2>8, <2>9
       DEF Next, Admission!Next
<1> QED
  BY <1>1, <1>2, LimiterInvariant, PTL
     DEF Spec, ImplementsAdmission, Admission!Spec, Standing
============================================================================
