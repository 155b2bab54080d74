---------------------------- MODULE ClientProofs ----------------------------
(***************************************************************************)
(* Proofs about the client, its batcher and its resumable calls, and about *)
(* the computations of client and server that keep no state.               *)
(*                                                                         *)
(* The batcher, for any calls, batch size, slots and retries: no two       *)
(* requests under way carry steps of one item, no call's tactics run twice *)
(* on the server, and close() leaves nobody waiting.                       *)
(*                                                                         *)
(* None of them is inductive.  The first needs that a batch past its locks *)
(* holds all of them, the lock of an item being of one batch at a time;    *)
(* the second that a call is in one place only, new, queued once or in one *)
(* batch, and that what a batch has yet to answer has not run.  Every step *)
(* of a batch under way is an instance of one lemma, OneBatchKeeps.  The   *)
(* third needs that a call that waits is queued or still to be answered by *)
(* a batch: a flush must cut the whole queue, and a request that is sent   *)
(* again must ask for all that still wait.                                 *)
(*                                                                         *)
(* Nor are they ever stuck (BatcherNeverStuck, the last theorem, which     *)
(* uses facts on batches and numbers that come before it): locks are taken *)
(* upwards, so of all that wait for one the highest waits for nobody.      *)
(*                                                                         *)
(* The resumable calls, for any plans a caller may come back               *)
(* with and wherever the client is killed: a microbatch runs at most once, *)
(* and a call that returns has the outcome of exactly its microbatches.    *)
(*                                                                         *)
(* The computations, for inputs of any size: positions moved back to the   *)
(* lines they speak of, infotrees flattened and code cut into tactics with *)
(* nothing lost, exceptions told as errors whatever is nested in them,     *)
(* honest verdicts, snippets answered once each however they are batched   *)
(* and merged, servers launched with the caps they were given.  Their      *)
(* functions go over the places of a list, the rounds of a loop or the     *)
(* payloads inside a payload, from the lowest number up; what they compute *)
(* is shown by the least number for which it would be something else       *)
(* (LeastNat, Upto).                                                       *)
(***************************************************************************)
EXTENDS StepBatcher, MicrobatchJournal, Algorithms, SequenceTheorems,
    FunctionTheorems, FiniteSetTheorems, TLAPS

\* The types of the variables the invariant is about.
FutureStates == {"new", "waiting"} \cup Done

BatchStates == [calls : SUBSET Calls, todo : SUBSET Calls, held : SUBSET Nat,
                at : {"lock", "slot", "send", "done"}, attempt : Nat]

TypesOK ==
    /\ future \in [Calls -> FutureStates]
    /\ queue \in Seq(Calls)
    /\ batches \in Seq(BatchStates)
    /\ executed \in [Calls -> Nat]

Queued(c) == \E i \in DOMAIN queue : queue[i] = c

\* A call is new, queued once, or in one batch at most.
PlacesOK ==
    /\ \A i, j \in DOMAIN queue : queue[i] = queue[j] => i = j
    /\ \A c \in Calls : future[c] = "new" \/ Queued(c) =>
          executed[c] = 0 /\ \A b \in DOMAIN batches : c \notin batches[b].calls
    /\ \A c \in Calls : future[c] = "new" => ~Queued(c)
    /\ \A a, b \in DOMAIN batches : a # b => batches[a].calls \cap batches[b].calls = {}

\* What a batch still has to answer has not run.
RunsOK ==
    /\ \A c \in Calls : executed[c] <= 1
    /\ \A b \in DOMAIN batches : /\ batches[b].todo \subseteq batches[b].calls
                                 /\ \A c \in batches[b].todo : executed[c] = 0

\* A batch past its locks holds those of all its items, nobody else holds them.
LocksOK ==
    /\ \A b \in DOMAIN batches :
          batches[b].at \in {"slot", "send"} => batches[b].held = ItemsOf(batches[b].calls)
    /\ \A a, b \in DOMAIN batches : a # b => batches[a].held \cap batches[b].held = {}

BatcherInv == TypesOK /\ PlacesOK /\ RunsOK /\ LocksOK

-----------------------------------------------------------------------------
\* Cut() shares the queue out: each part holds calls of the queue, and no call
\* is in two parts.
LEMMA CutFacts ==
    ASSUME queue \in Seq(Calls), \A i, j \in DOMAIN queue : queue[i] = queue[j] => i = j
    PROVE  /\ \E n \in Nat : DOMAIN Cut(queue) = 1..n
           /\ \A b \in DOMAIN Cut(queue) :
                 /\ Cut(queue)[b] \subseteq Calls
                 /\ \A c \in Cut(queue)[b] : Queued(c)
           /\ \A a, b \in DOMAIN Cut(queue) : a # b => Cut(queue)[a] \cap Cut(queue)[b] = {}
<1> DEFINE M == MaxItems
           n == (Len(queue) + M - 1) \div M
<1>1. M \in Nat /\ M > 0
  BY BatcherAssumption
<1>2. Len(queue) \in Nat /\ \A i \in DOMAIN queue : queue[i] \in Calls
  OBVIOUS
<1>3. n \in Nat
  <2> HIDE DEF M
  <2>1. Len(queue) + M - 1 \in Nat
    BY <1>1, <1>2
  <2> QED
    BY <1>1, <2>1
<1>4. DOMAIN Cut(queue) = 1..n
  BY DEF Cut
<1>5. ASSUME NEW b \in DOMAIN Cut(queue)
      PROVE  Cut(queue)[b] = {queue[i] : i \in {j \in DOMAIN queue : (j - 1) \div M = b - 1}}
  BY <1>5 DEF Cut
<1> HIDE DEF M, n
<1>6. ASSUME NEW b \in DOMAIN Cut(queue), NEW c \in Cut(queue)[b]
      PROVE  c \in Calls /\ Queued(c)
  BY <1>2, <1>5 DEF Queued
<1>7. ASSUME NEW a \in DOMAIN Cut(queue), NEW b \in DOMAIN Cut(queue),
             NEW c \in Cut(queue)[a], c \in Cut(queue)[b]
      PROVE  a = b
  <2>1. PICK i \in DOMAIN queue : queue[i] = c /\ (i - 1) \div M = a - 1
    BY <1>5, <1>7
  <2>2. PICK j \in DOMAIN queue : queue[j] = c /\ (j - 1) \div M = b - 1
    BY <1>5, <1>7
  <2>3. i = j
    BY <2>1, <2>2
  <2>4. a - 1 = b - 1
    BY <2>1, <2>2, <2>3
  <2>5. a \in Int /\ b \in Int
    BY <1>3, <1>4
  <2> QED
    BY <2>4, <2>5
<1> QED
  BY <1>3, <1>4, <1>6, <1>7

\* A flush empties the queue into new batches; the ones there were stay as they
\* are.
LEMMA FlushKeeps ==
    ASSUME BatcherInv, Flush, future' = future, executed' = executed
    PROVE  BatcherInv'
<1> DEFINE new == [b \in DOMAIN Cut(queue) |-> NewBatch(Cut(queue)[b])]
<1>1. queue \in Seq(Calls) /\ \A i, j \in DOMAIN queue : queue[i] = queue[j] => i = j
  BY DEF BatcherInv, TypesOK, PlacesOK
<1>2. PICK n \in Nat : DOMAIN Cut(queue) = 1..n
  BY <1>1, CutFacts
<1>3. \A b \in 1..n : /\ Cut(queue)[b] \subseteq Calls
                      /\ \A c \in Cut(queue)[b] : Queued(c)
  BY <1>1, <1>2, CutFacts
<1>4. \A a, b \in 1..n : a # b => Cut(queue)[a] \cap Cut(queue)[b] = {}
  BY <1>1, <1>2, CutFacts
<1>5. \A b \in 1..n : /\ new[b].calls = Cut(queue)[b] /\ new[b].todo = Cut(queue)[b]
                      /\ new[b].held = {} /\ new[b].at = "lock"
                      /\ new[b] \in BatchStates
  BY <1>2, <1>3 DEF NewBatch, BatchStates
<1>6. new \in Seq(BatchStates) /\ Len(new) = n
  BY <1>2, <1>5
<1>7. batches \in Seq(BatchStates) /\ Len(batches) \in Nat /\ DOMAIN batches = 1..Len(batches)
  BY DEF BatcherInv, TypesOK
<1>8. batches' = batches \o new /\ queue' = <<>>
  BY DEF Flush
<1> HIDE DEF new
<1>9. /\ batches' \in Seq(BatchStates)
      /\ Len(batches') = Len(batches) + n
      /\ \A b \in 1..Len(batches) : batches'[b] = batches[b]
      /\ \A b \in (Len(batches) + 1)..(Len(batches) + n) : batches'[b] = new[b - Len(batches)]
  <2>1. /\ batches \o new \in Seq(BatchStates)
        /\ Len(batches \o new) = Len(batches) + n
        /\ \A i \in 1..(Len(batches) + n) :
              (batches \o new)[i] = IF i <= Len(batches) THEN batches[i] ELSE new[i - Len(batches)]
    BY <1>6, <1>7, ConcatProperties
  <2> QED
    BY <1>7, <1>8, <2>1
<1>10. ASSUME NEW b \in DOMAIN batches'
       PROVE  \/ b \in DOMAIN batches /\ batches'[b] = batches[b]
              \/ \E m \in 1..n : /\ b = Len(batches) + m /\ batches'[b] = new[m]
  <2>1. b \in 1..(Len(batches) + n)
    BY <1>9
  <2>2. CASE b <= Len(batches)
    BY <1>7, <1>9, <2>1, <2>2
  <2>3. CASE b > Len(batches)
    <3>1. b - Len(batches) \in 1..n /\ b = Len(batches) + (b - Len(batches))
      BY <1>7, <2>1, <2>3
    <3>2. b \in (Len(batches) + 1)..(Len(batches) + n)
      BY <1>7, <2>1, <2>3
    <3> QED
      BY <1>9, <3>1, <3>2
  <2> QED
    BY <1>7, <2>1, <2>2, <2>3
<1>11. TypesOK'
  BY <1>8, <1>9 DEF TypesOK, BatcherInv
<1>12. DOMAIN queue' = {} /\ \A c : ~Queued(c)'
  BY <1>8 DEF Queued
<1>13. ASSUME NEW c \in Calls, NEW b \in DOMAIN batches',
              c \in batches'[b].calls
       PROVE  \/ b \in DOMAIN batches /\ c \in batches[b].calls
              \/ Queued(c)
  BY <1>3, <1>5, <1>10, <1>13
<1>14. PlacesOK'
  <2>1. ASSUME NEW c \in Calls, future'[c] = "new"
        PROVE  executed'[c] = 0 /\ \A b \in DOMAIN batches' : c \notin batches'[b].calls
    <3>1. future[c] = "new" /\ ~Queued(c) /\ executed[c] = 0
          /\ \A b \in DOMAIN batches : c \notin batches[b].calls
      BY <2>1 DEF BatcherInv, PlacesOK
    <3> QED
      BY <1>13, <3>1
  <2>2. ASSUME NEW a \in DOMAIN batches', NEW b \in DOMAIN batches', a # b, NEW c,
               c \in batches'[a].calls, c \in batches'[b].calls
        PROVE  FALSE
    <3>1. c \in Calls
      <4>1. batches'[a] \in BatchStates
        BY <1>9, <2>2
      <4> QED
        BY <2>2, <4>1 DEF BatchStates
    <3>2. CASE a \in DOMAIN batches /\ batches'[a] = batches[a]
      <4>1. CASE b \in DOMAIN batches /\ batches'[b] = batches[b]
        BY <2>2, <3>2, <4>1 DEF BatcherInv, PlacesOK
      <4>2. CASE \E m \in 1..n : b = Len(batches) + m /\ batches'[b] = new[m]
        BY <1>3, <1>5, <2>2, <3>1, <3>2, <4>2 DEF BatcherInv, PlacesOK
      <4> QED
        BY <1>10, <4>1, <4>2
    <3>3. CASE \E m \in 1..n : a = Len(batches) + m /\ batches'[a] = new[m]
      <4>1. CASE b \in DOMAIN batches /\ batches'[b] = batches[b]
        BY <1>3, <1>5, <2>2, <3>1, <3>3, <4>1 DEF BatcherInv, PlacesOK
      <4>2. CASE \E m \in 1..n : b = Len(batches) + m /\ batches'[b] = new[m]
        BY <1>4, <1>5, <2>2, <3>3, <4>2
      <4> QED
        BY <1>10, <4>1, <4>2
    <3> QED
      BY <1>10, <3>2, <3>3
  <2> QED
    BY <1>12, <2>1, <2>2 DEF PlacesOK
<1>15. RunsOK'
  <2>1. \A c \in Calls : Queued(c) => executed[c] = 0
    BY DEF BatcherInv, PlacesOK
  <2>2. ASSUME NEW b \in DOMAIN batches'
        PROVE  batches'[b].todo \subseteq batches'[b].calls
               /\ \A c \in batches'[b].todo : executed'[c] = 0
    BY <1>3, <1>5, <1>10, <2>1 DEF BatcherInv, RunsOK
  <2> QED
    BY <2>2 DEF RunsOK, BatcherInv
<1>16. LocksOK'
  <2>1. ASSUME NEW b \in DOMAIN batches', batches'[b].at \in {"slot", "send"}
        PROVE  batches'[b].held = ItemsOf(batches'[b].calls)
    BY <1>5, <1>10, <2>1 DEF BatcherInv, LocksOK
  <2>2. ASSUME NEW a \in DOMAIN batches', NEW b \in DOMAIN batches', a # b
        PROVE  batches'[a].held \cap batches'[b].held = {}
    BY <1>5, <1>10, <2>2 DEF BatcherInv, LocksOK
  <2> QED
    BY <2>1, <2>2 DEF LocksOK
<1> QED
  BY <1>11, <1>14, <1>15, <1>16 DEF BatcherInv

\* submit_step() queues a call that is nowhere else (exec_env.py:335).
LEMMA SubmitKeeps ==
    ASSUME BatcherInv, NEW c \in Calls, Submit(c) PROVE BatcherInv'
<1>1. /\ future[c] = "new" /\ future' = [future EXCEPT ![c] = "waiting"]
      /\ queue' = Append(queue, c) /\ batches' = batches /\ executed' = executed
  BY DEF Submit
<1>2. /\ queue \in Seq(Calls) /\ Len(queue) \in Nat /\ DOMAIN queue = 1..Len(queue)
      /\ future \in [Calls -> FutureStates]
  BY DEF BatcherInv, TypesOK
<1>3. /\ queue' \in Seq(Calls) /\ DOMAIN queue' = (1..Len(queue)) \cup {Len(queue) + 1}
      /\ queue'[Len(queue) + 1] = c
      /\ \A i \in 1..Len(queue) : queue'[i] = queue[i]
  BY <1>1, <1>2
<1>4. /\ ~Queued(c) /\ executed[c] = 0 /\ \A b \in DOMAIN batches : c \notin batches[b].calls
  BY <1>1 DEF BatcherInv, PlacesOK
<1>5. /\ future' \in [Calls -> FutureStates]
      /\ \A d \in Calls : future'[d] = "new" => future[d] = "new" /\ d # c
  BY <1>1, <1>2 DEF FutureStates
<1>6. \A d \in Calls : Queued(d)' <=> Queued(d) \/ d = c
  BY <1>2, <1>3 DEF Queued
<1>7. \A i, j \in DOMAIN queue' : queue'[i] = queue'[j] => i = j
  BY <1>2, <1>3, <1>4 DEF BatcherInv, PlacesOK, Queued
<1>8. TypesOK'
  BY <1>1, <1>3, <1>5 DEF BatcherInv, TypesOK
<1>9. PlacesOK'
  BY <1>1, <1>4, <1>5, <1>6, <1>7 DEF BatcherInv, PlacesOK
<1>10. RunsOK' /\ LocksOK'
  BY <1>1 DEF BatcherInv, RunsOK, LocksOK
<1> QED
  BY <1>8, <1>9, <1>10 DEF BatcherInv

\* A future is settled, by a refusal (exec_env.py:336) or its caller giving up, and
\* nothing else changes.
LEMMA SettledKeeps ==
    ASSUME BatcherInv, NEW c \in Calls, NEW how \in Done,
           future' = [future EXCEPT ![c] = how],
           queue' = queue, batches' = batches, executed' = executed
    PROVE  BatcherInv'
<1>1. /\ future' \in [Calls -> FutureStates]
      /\ \A d \in Calls : future'[d] = "new" => future[d] = "new"
  BY DEF FutureStates, Done, BatcherInv, TypesOK
<1>2. TypesOK'
  BY <1>1 DEF TypesOK, BatcherInv
<1>3. \A d : Queued(d)' <=> Queued(d)
  BY DEF Queued
<1>4. PlacesOK'
  BY <1>1, <1>3 DEF PlacesOK, BatcherInv
<1>5. RunsOK' /\ LocksOK'
  BY DEF BatcherInv, RunsOK, LocksOK
<1> QED
  BY <1>2, <1>4, <1>5 DEF BatcherInv

\* One batch changes: it keeps to its calls and to what it had to answer, what it
\* no longer has to answer may have run once, and a lock it takes is free.
LEMMA OneBatchKeeps ==
    ASSUME BatcherInv, NEW b \in DOMAIN batches, NEW nb \in BatchStates,
           batches' = [batches EXCEPT ![b] = nb], queue' = queue,
           future' \in [Calls -> FutureStates],
           \A c \in Calls : future'[c] = "new" => future[c] = "new",
           executed' \in [Calls -> Nat],
           \A c \in Calls : \/ executed'[c] = executed[c]
                            \/ c \in batches[b].todo \ nb.todo /\ executed'[c] = 1,
           nb.calls \subseteq batches[b].calls,
           nb.todo \subseteq batches[b].todo, nb.todo \subseteq nb.calls,
           \A i \in nb.held : \A a \in DOMAIN batches : i \in batches[a].held => a = b,
           nb.at \in {"slot", "send"} => nb.held = ItemsOf(nb.calls)
    PROVE  BatcherInv'
<1>1. batches \in Seq(BatchStates)
  BY DEF BatcherInv, TypesOK
<1>2. DOMAIN batches' = DOMAIN batches /\ batches'[b] = nb
      /\ \A a \in DOMAIN batches : a # b => batches'[a] = batches[a]
  BY <1>1
<1>3. batches' \in Seq(BatchStates)
  BY <1>1
<1>4. TypesOK'
  BY <1>3 DEF BatcherInv, TypesOK
<1>5. \A c : Queued(c)' <=> Queued(c)
  BY DEF Queued
<1>6. \A a \in DOMAIN batches : batches'[a].calls \subseteq batches[a].calls
  BY <1>2
<1>7. \A c \in batches[b].todo : c \in batches[b].calls
  BY DEF BatcherInv, RunsOK
<1>8. PlacesOK'
  <2>1. ASSUME NEW c \in Calls, future'[c] = "new" \/ Queued(c)
        PROVE  executed'[c] = 0 /\ \A a \in DOMAIN batches : c \notin batches'[a].calls
    <3>1. executed[c] = 0 /\ \A a \in DOMAIN batches : c \notin batches[a].calls
      BY <2>1 DEF BatcherInv, PlacesOK
    <3>2. executed'[c] = executed[c]
      BY <1>7, <3>1
    <3> QED
      BY <1>6, <3>1, <3>2
  <2>2. \A c \in Calls : future'[c] = "new" => ~Queued(c)
    BY DEF BatcherInv, PlacesOK
  <2>3. \A i, j \in DOMAIN queue : queue[i] = queue[j] => i = j
    BY DEF BatcherInv, PlacesOK
  <2>4. \A a, d \in DOMAIN batches : a # d => batches'[a].calls \cap batches'[d].calls = {}
    <3>1. \A a, d \in DOMAIN batches : a # d => batches[a].calls \cap batches[d].calls = {}
      BY DEF BatcherInv, PlacesOK
    <3> QED
      BY <1>6, <3>1
  <2> QED
    BY <1>2, <1>5, <2>1, <2>2, <2>3, <2>4 DEF PlacesOK
<1>9. RunsOK'
  <2>1. ASSUME NEW c \in Calls
        PROVE  executed'[c] <= 1
    BY <2>1 DEF BatcherInv, RunsOK
  <2>2. ASSUME NEW a \in DOMAIN batches, NEW c \in batches'[a].todo
        PROVE  executed'[c] = 0 /\ c \in batches'[a].calls
    <3>1. c \in batches[a].todo /\ c \in batches'[a].calls
      BY <1>2 DEF BatcherInv, RunsOK
    <3>2. executed[c] = 0 /\ c \in batches[a].calls
      BY <3>1 DEF BatcherInv, RunsOK
    <3>3. c \in Calls
      <4>1. batches[a] \in BatchStates
        BY <1>1
      <4> QED
        BY <3>2, <4>1 DEF BatchStates
    <3>4. ~(c \in batches[b].todo \ nb.todo)
      <4>1. CASE a = b
        BY <1>2, <2>2, <4>1
      <4>2. CASE a # b
        BY <1>7, <3>2, <4>2 DEF BatcherInv, PlacesOK
      <4> QED
        BY <4>1, <4>2
    <3> QED
      BY <3>1, <3>2, <3>3, <3>4
  <2> QED
    BY <1>2, <2>1, <2>2 DEF RunsOK
<1>10. LocksOK'
  <2>1. ASSUME NEW a \in DOMAIN batches, batches'[a].at \in {"slot", "send"}
        PROVE  batches'[a].held = ItemsOf(batches'[a].calls)
    <3>1. CASE a = b
      BY <1>2, <2>1, <3>1
    <3>2. CASE a # b
      BY <1>2, <2>1, <3>2 DEF BatcherInv, LocksOK
    <3> QED
      BY <3>1, <3>2
  <2>2. ASSUME NEW a \in DOMAIN batches, NEW d \in DOMAIN batches, a # d
        PROVE  batches'[a].held \cap batches'[d].held = {}
    <3>1. batches[a].held \cap batches[d].held = {}
      BY <2>2 DEF BatcherInv, LocksOK
    <3>2. CASE a = b
      BY <1>2, <2>2, <3>2
    <3>3. CASE d = b
      BY <1>2, <2>2, <3>3
    <3>4. CASE a # b /\ d # b
      BY <1>2, <3>1, <3>4
    <3> QED
      BY <3>2, <3>3, <3>4
  <2> QED
    BY <1>2, <2>1, <2>2 DEF LocksOK
<1> QED
  BY <1>4, <1>8, <1>9, <1>10 DEF BatcherInv

\* _send_batch() takes a lock nobody holds, and goes on once it has them all
\* (exec_env.py:399).
LEMMA TakeLockKeeps ==
    ASSUME BatcherInv, NEW b \in DOMAIN batches, TakeLock(b) PROVE BatcherInv'
<1>1. PICK i \in NextLocks(b) :
         /\ ~Locked(i)
         /\ batches' = [batches EXCEPT
                ![b].held = @ \cup {i},
                ![b].at = IF ItemsOf(batches[b].calls) = batches[b].held \cup {i}
                          THEN "slot" ELSE "lock"]
  BY DEF TakeLock
<1> DEFINE nb == [batches[b] EXCEPT
                !.held = @ \cup {i},
                !.at = IF ItemsOf(batches[b].calls) = batches[b].held \cup {i}
                       THEN "slot" ELSE "lock"]
<1>2. /\ future' = future /\ queue' = queue /\ executed' = executed
      /\ future \in [Calls -> FutureStates] /\ executed \in [Calls -> Nat]
  BY DEF TakeLock, BatcherInv, TypesOK
<1>3. batches[b] \in BatchStates
  BY DEF BatcherInv, TypesOK
<1>4. i \in Nat
  BY <1>1, <1>3, BatcherAssumption DEF NextLocks, ItemsOf, BatchStates
<1>5. /\ nb.calls = batches[b].calls /\ nb.todo = batches[b].todo
      /\ nb.held = batches[b].held \cup {i}
      /\ nb.at = IF ItemsOf(batches[b].calls) = batches[b].held \cup {i}
                 THEN "slot" ELSE "lock"
      /\ nb \in BatchStates
  BY <1>3, <1>4 DEF BatchStates
<1>6. batches' = [batches EXCEPT ![b] = nb]
  BY <1>1, <1>3 DEF BatchStates
<1> HIDE DEF nb
<1>7. nb.at \in {"slot", "send"} => nb.held = ItemsOf(nb.calls)
  BY <1>5
<1>8. \A j \in nb.held : \A a \in DOMAIN batches : j \in batches[a].held => a = b
  BY <1>1, <1>5 DEF Locked, BatcherInv, LocksOK
<1>9. nb.todo \subseteq nb.calls
  BY <1>5 DEF BatcherInv, RunsOK
<1> QED
  BY <1>2, <1>5, <1>6, <1>7, <1>8, <1>9, OneBatchKeeps

\* The semaphore is taken under the locks (exec_env.py:413).
LEMMA TakeSlotKeeps ==
    ASSUME BatcherInv, NEW b \in DOMAIN batches, TakeSlot(b) PROVE BatcherInv'
<1> DEFINE nb == [batches[b] EXCEPT !.at = "send"]
<1>1. /\ batches[b].at = "slot" /\ batches' = [batches EXCEPT ![b].at = "send"]
      /\ future' = future /\ queue' = queue /\ executed' = executed
      /\ future \in [Calls -> FutureStates] /\ executed \in [Calls -> Nat]
  BY DEF TakeSlot, BatcherInv, TypesOK
<1>2. batches[b] \in BatchStates
  BY DEF BatcherInv, TypesOK
<1>3. /\ nb.calls = batches[b].calls /\ nb.todo = batches[b].todo
      /\ nb.held = batches[b].held /\ nb \in BatchStates
  BY <1>2 DEF BatchStates
<1>4. batches' = [batches EXCEPT ![b] = nb]
  BY <1>1, <1>2 DEF BatchStates
<1> HIDE DEF nb
<1>5. /\ nb.held = ItemsOf(nb.calls) /\ nb.todo \subseteq nb.calls
      /\ nb.calls \subseteq batches[b].calls /\ nb.todo \subseteq batches[b].todo
  BY <1>1, <1>3 DEF BatcherInv, LocksOK, RunsOK
<1>6. \A j \in nb.held : \A a \in DOMAIN batches : j \in batches[a].held => a = b
  BY <1>3 DEF BatcherInv, LocksOK
<1>7. nb \in BatchStates
  BY <1>3
<1> QED
  BY <1>1, <1>4, <1>5, <1>6, <1>7, OneBatchKeeps

\* Whatever a request comes to, the batch either is over or has fewer calls to
\* answer, and only calls it need not answer any more have run.
LEMMA AnswerEffect ==
    ASSUME BatcherInv, NEW b \in DOMAIN batches, Answer(b)
    PROVE  \E C \in SUBSET batches[b].todo, E \in SUBSET (batches[b].todo) :
              /\ Ends(b) \/ SendsAgain(b, C)
              /\ Ends(b) \/ C \cap E = {}
              /\ executed' = executed \/ Executed(E)
              /\ future' \in [Calls -> FutureStates]
              /\ \A c \in Calls : future'[c] = "new" => future[c] = "new"
<1> DEFINE Settled == /\ future' \in [Calls -> FutureStates]
                      /\ \A c \in Calls : future'[c] = "new" => future[c] = "new"
           Effect(C, E) == /\ Ends(b) \/ SendsAgain(b, C)
                           /\ Ends(b) \/ C \cap E = {}
                           /\ executed' = executed \/ Executed(E)
                           /\ Settled
           T == batches[b].todo
<1>1. future \in [Calls -> FutureStates]
  BY DEF BatcherInv, TypesOK
<1>2. ASSUME NEW C, Resolved(C, "failed")
      PROVE  Settled
  BY <1>1, <1>2 DEF Resolved, Open, FutureStates, Done
<1>3. future' = future => Settled
  BY <1>1
<1>4. CASE Invalid(b)
  <2>1. Ends(b) /\ executed' = executed /\ Settled
    BY <1>2, <1>4 DEF Invalid
  <2>2. {} \in SUBSET T
    OBVIOUS
  <2>3. Effect({}, {})
    BY <2>1
  <2> QED
    BY <2>2, <2>3
<1>5. CASE Rejected(b)
  <2>1. Settled
    BY <1>2, <1>3, <1>5 DEF Rejected
  <2>2. Open(T) \in SUBSET T
    BY DEF Open
  <2>3. executed' = executed /\ (Ends(b) \/ SendsAgain(b, Open(T)))
    BY <1>5 DEF Rejected
  <2>4. Effect(Open(T), {})
    BY <2>1, <2>3
  <2> QED
    BY <2>2, <2>4
<1>6. CASE Broken(b)
  <2>1. Ends(b) /\ Settled /\ (executed' = executed \/ Executed(T))
    BY <1>2, <1>6 DEF Broken
  <2>2. Effect({}, T)
    BY <2>1
  <2> QED
    BY <2>2
<1>7. ASSUME NEW ran \in SUBSET T, NEW busy \in SUBSET T,
             ran \cap busy = {}, Answered(b, ran, busy)
      PROVE  \E C \in SUBSET T, E \in SUBSET T : Effect(C, E)
  <2> DEFINE again == IF LastAttempt(b) THEN {} ELSE Open(busy)
  <2>1. again \subseteq busy
    BY DEF Open
  <2>2. /\ future' = [c \in Calls |->
                        IF c \notin Open(T) \/ c \in again THEN future[c]
                        ELSE IF c \in ran \cup busy THEN "answered" ELSE "failed"]
        /\ Ends(b) \/ SendsAgain(b, again)
        /\ Executed(ran)
    BY <1>7 DEF Answered
  <2> HIDE DEF again
  <2>3. Settled
    BY <1>1, <2>2 DEF FutureStates, Done
  <2>4. Effect(again, ran)
    BY <1>7, <2>1, <2>2, <2>3
  <2> QED
    BY <2>1, <2>4
<1> QED
  BY <1>4, <1>5, <1>6, <1>7 DEF Answer

\* A batch that is over gives up its calls and locks; one that is sent again keeps
\* its locks and asks only for calls that did not run (exec_env.py:415).
LEMMA AnswerKeeps ==
    ASSUME BatcherInv, NEW b \in DOMAIN batches, Answer(b) PROVE BatcherInv'
<1>1. PICK C \in SUBSET batches[b].todo, E \in SUBSET (batches[b].todo) :
              /\ Ends(b) \/ SendsAgain(b, C)
              /\ Ends(b) \/ C \cap E = {}
              /\ executed' = executed \/ Executed(E)
              /\ future' \in [Calls -> FutureStates]
              /\ \A c \in Calls : future'[c] = "new" => future[c] = "new"
  BY AnswerEffect
<1>2. queue' = queue /\ batches[b].at = "send"
  BY DEF Answer
<1>3. /\ batches[b] \in BatchStates /\ executed \in [Calls -> Nat]
      /\ batches[b].todo \subseteq batches[b].calls
      /\ batches[b].held = ItemsOf(batches[b].calls)
      /\ \A c \in batches[b].todo : executed[c] = 0
  BY <1>2 DEF BatcherInv, TypesOK, RunsOK, LocksOK
<1>4. /\ executed' \in [Calls -> Nat]
      /\ \A c \in Calls : executed'[c] = executed[c] \/ (c \in E /\ executed'[c] = 1)
  <2>1. CASE executed' = executed
    BY <1>3, <2>1
  <2>2. CASE Executed(E)
    <3>1. executed' = [c \in Calls |-> IF c \in E THEN executed[c] + 1 ELSE executed[c]]
      BY <2>2 DEF Executed
    <3>2. \A c \in Calls : executed[c] \in Nat /\ (c \in E => executed[c] = 0)
      BY <1>3
    <3> QED
      BY <3>1, <3>2
  <2> QED
    BY <1>1, <2>1, <2>2
<1>5. CASE Ends(b)
  <2>1. batches' = [batches EXCEPT ![b] = Over]
    BY <1>5 DEF Ends
  <2>2. /\ Over \in BatchStates /\ Over.calls = {} /\ Over.todo = {} /\ Over.held = {}
        /\ Over.at = "done"
    BY DEF Over, BatchStates
  <2> HIDE DEF Over
  <2>3. \A c \in Calls : \/ executed'[c] = executed[c]
                         \/ c \in batches[b].todo \ Over.todo /\ executed'[c] = 1
    BY <1>4, <2>2
  <2> QED
    BY <1>1, <1>2, <1>4, <2>1, <2>2, <2>3, OneBatchKeeps
<1>6. CASE SendsAgain(b, C) /\ C \cap E = {}
  <2> DEFINE nb == [batches[b] EXCEPT !.todo = C, !.attempt = @ + 1]
  <2>1. /\ nb.calls = batches[b].calls /\ nb.todo = C /\ nb.held = batches[b].held
        /\ nb \in BatchStates
    <3>1. C \in SUBSET Calls /\ batches[b].attempt + 1 \in Nat
      BY <1>3 DEF BatchStates
    <3> QED
      BY <1>3, <3>1 DEF BatchStates
  <2>2. batches' = [batches EXCEPT ![b] = nb]
    BY <1>3, <1>6 DEF SendsAgain, BatchStates
  <2> HIDE DEF nb
  <2>3. \A c \in Calls : \/ executed'[c] = executed[c]
                         \/ c \in batches[b].todo \ nb.todo /\ executed'[c] = 1
    BY <1>4, <1>6, <2>1
  <2>4. \A j \in nb.held : \A a \in DOMAIN batches : j \in batches[a].held => a = b
    BY <2>1 DEF BatcherInv, LocksOK
  <2>5. /\ nb.calls \subseteq batches[b].calls /\ nb.todo \subseteq batches[b].todo
        /\ nb.todo \subseteq nb.calls /\ nb.held = ItemsOf(nb.calls)
    BY <1>3, <2>1
  <2> QED
    BY <1>1, <1>2, <1>4, <2>1, <2>2, <2>3, <2>4, <2>5, OneBatchKeeps
<1> QED
  BY <1>1, <1>5, <1>6

\* Nothing is queued or under way in a new batcher (exec_env.py:281).
LEMMA InvInit == Init => BatcherInv
<1> SUFFICES ASSUME Init PROVE BatcherInv
  OBVIOUS
<1>1. /\ queue = <<>> /\ batches = <<>> /\ DOMAIN queue = {} /\ DOMAIN batches = {}
      /\ future \in [Calls -> FutureStates] /\ executed \in [Calls -> Nat]
      /\ \A c \in Calls : executed[c] = 0
  BY DEF Init, FutureStates
<1>2. TypesOK
  BY <1>1 DEF TypesOK
<1>3. PlacesOK /\ RunsOK /\ LocksOK
  BY <1>1 DEF PlacesOK, RunsOK, LocksOK, Queued
<1> QED
  BY <1>2, <1>3 DEF BatcherInv

\* Every action keeps the invariant.
LEMMA InvStep == BatcherInv /\ [Next]_vars => BatcherInv'
<1> SUFFICES ASSUME BatcherInv, [Next]_vars PROVE BatcherInv'
  OBVIOUS
<1>1. ASSUME NEW c \in Calls, Submit(c) PROVE BatcherInv'
  BY <1>1, SubmitKeeps
<1>2. ASSUME NEW c \in Calls, SubmitRefused(c) PROVE BatcherInv'
  BY <1>2, SettledKeeps DEF SubmitRefused, Done
<1>3. ASSUME NEW c \in Calls, GiveUp(c) PROVE BatcherInv'
  BY <1>3, SettledKeeps DEF GiveUp, Done
<1>4. ASSUME NEW b \in DOMAIN batches, SendStep(b) PROVE BatcherInv'
  BY <1>4, TakeLockKeeps, TakeSlotKeeps, AnswerKeeps DEF SendStep
<1>5. CASE TimerFires
  BY <1>5, FlushKeeps DEF TimerFires
<1>6. CASE FlushRuns
  BY <1>6, FlushKeeps DEF FlushRuns
<1>7. CASE Close
  BY <1>7, FlushKeeps DEF Close
<1>8. ASSUME UNCHANGED <<future, queue, batches, executed>> PROVE BatcherInv'
  BY <1>8 DEF BatcherInv, TypesOK, PlacesOK, RunsOK, LocksOK, Queued
<1>9. CASE CloseReturns
  BY <1>8, <1>9 DEF CloseReturns
<1>10. CASE UNCHANGED vars
  BY <1>8, <1>10 DEF vars
<1> QED
  BY <1>1, <1>2, <1>3, <1>4, <1>5, <1>6, <1>7, <1>9, <1>10 DEF Next

\* The inductive invariant of the batcher: each call is in one place, what is still
\* to be answered has not run, and the locks of an item are of one batch.
THEOREM BatcherInvariant == Spec => []BatcherInv
<1> QED
  BY InvInit, InvStep, PTL DEF Spec

\* _send_batch() keeps the locks of its items until its last request ends, so two
\* batches under way never share an item, whatever is retried (exec_env.py:398).
THEOREM BatcherOneRequestPerItem == Spec => []OneRequestPerItem
<1>1. BatcherInv => OneRequestPerItem
  BY DEF BatcherInv, LocksOK, OneRequestPerItem
<1> QED
  BY <1>1, BatcherInvariant, PTL

\* Only overloaded calls are sent again and only those that did not run: after a
\* lost answer or a refusal, no call has run more than once (exec_env.py:436).
THEOREM BatcherNeverRepeated == Spec => []NeverRepeated
<1>1. BatcherInv => NeverRepeated
  BY DEF BatcherInv, RunsOK, NeverRepeated
<1> QED
  BY <1>1, BatcherInvariant, PTL
-----------------------------------------------------------------------------
\* A call that waits is queued, or a batch has still to answer it; close() left
\* the queue empty, and a batch that is over answers nothing.
WaitersOK ==
    /\ \A c \in Calls : future[c] = "waiting" =>
          Queued(c) \/ \E b \in DOMAIN batches : c \in batches[b].todo
    /\ \A b \in DOMAIN batches : batches[b].at = "done" => batches[b].todo = {}
    /\ closing # "no" => queue = <<>>
    /\ ClosedLeavesNobody

\* Euclid's division by a positive number.
LEMMA DivFacts ==
    ASSUME NEW M \in Nat, M > 0, NEW x \in Nat
    PROVE  /\ x \div M \in Nat
           /\ M * (x \div M) <= x /\ x < M * (x \div M) + M
<1>1. x \div M \in Nat /\ x % M \in 0..(M - 1) /\ x = (M * (x \div M)) + (x % M)
  OBVIOUS
<1> QED
  BY <1>1

LEMMA DivStep ==
    ASSUME NEW M \in Nat, M > 0, NEW x \in Nat, NEW y \in Nat, x + M <= y
    PROVE  x \div M + 1 <= y \div M
<1> DEFINE p == x \div M
           q == y \div M
<1>1. p \in Nat /\ M * p <= x /\ x < M * p + M
  BY DivFacts
<1>2. q \in Nat /\ M * q <= y /\ y < M * q + M
  BY DivFacts
<1> HIDE DEF p, q
<1>3. ASSUME q <= p PROVE FALSE
  <2>1. M * q <= M * p
    BY <1>1, <1>2, <1>3
  <2> QED
    BY <1>1, <1>2, <2>1
<1> QED
  BY <1>1, <1>2, <1>3 DEF p, q

\* Cut() leaves no call of the queue out.
LEMMA CutCovers ==
    ASSUME queue \in Seq(Calls), NEW i \in DOMAIN queue
    PROVE  \E b \in DOMAIN Cut(queue) : queue[i] \in Cut(queue)[b]
<1> DEFINE M == MaxItems
           L == Len(queue)
           b == (i - 1) \div M + 1
<1>1. M \in Nat /\ M > 0
  BY BatcherAssumption
<1>2. L \in Nat /\ i \in 1..L
  OBVIOUS
<1>3. DOMAIN Cut(queue) = 1..((L + M - 1) \div M)
  BY DEF Cut
<1>4. \A a \in DOMAIN Cut(queue) :
         Cut(queue)[a] = {queue[k] : k \in {j \in DOMAIN queue : (j - 1) \div M = a - 1}}
  BY DEF Cut
<1> HIDE DEF M, L
<1>5. i - 1 \in Nat /\ L + M - 1 \in Nat /\ (i - 1) + M <= L + M - 1
  BY <1>1, <1>2
<1>6. (i - 1) \div M + 1 <= (L + M - 1) \div M
  BY <1>1, <1>5, DivStep
<1>7. (i - 1) \div M \in Nat /\ (L + M - 1) \div M \in Nat
  BY <1>1, <1>5, DivFacts
<1>8. b \in DOMAIN Cut(queue)
  BY <1>3, <1>6, <1>7
<1>9. (i - 1) \div M = b - 1
  BY <1>7
<1> HIDE DEF b
<1>10. queue[i] \in Cut(queue)[b]
  BY <1>4, <1>8, <1>9
<1> QED
  BY <1>8, <1>10

\* A flush moves every queued call into a batch that has to answer it.
LEMMA FlushWaits ==
    ASSUME BatcherInv, WaitersOK, Flush, future' = future,
           closing # "closed" \/ closing' = closing,
           closing' = closing \/ closing' = "flushing"
    PROVE  WaitersOK'
<1> DEFINE new == [b \in DOMAIN Cut(queue) |-> NewBatch(Cut(queue)[b])]
<1>1. queue \in Seq(Calls) /\ \A i, j \in DOMAIN queue : queue[i] = queue[j] => i = j
  BY DEF BatcherInv, TypesOK, PlacesOK
<1>2. PICK n \in Nat : DOMAIN Cut(queue) = 1..n
  BY <1>1, CutFacts
<1>3. \A b \in 1..n : /\ new[b].todo = Cut(queue)[b] /\ new[b].at = "lock"
                      /\ new[b] \in BatchStates
  <2>1. \A b \in 1..n : Cut(queue)[b] \subseteq Calls
    BY <1>1, <1>2, CutFacts
  <2> QED
    BY <1>2, <2>1 DEF NewBatch, BatchStates
<1>4. new \in Seq(BatchStates) /\ Len(new) = n
  BY <1>2, <1>3
<1>5. batches \in Seq(BatchStates) /\ Len(batches) \in Nat /\ DOMAIN batches = 1..Len(batches)
  BY DEF BatcherInv, TypesOK
<1>6. batches' = batches \o new /\ queue' = <<>>
  BY DEF Flush
<1>7. \A c \in Calls : Queued(c) => \E b \in 1..n : c \in Cut(queue)[b]
  BY <1>1, <1>2, CutCovers DEF Queued
<1> HIDE DEF new
<1>8. /\ DOMAIN batches' = 1..(Len(batches) + n)
      /\ \A b \in 1..Len(batches) : batches'[b] = batches[b]
      /\ \A b \in 1..n : batches'[Len(batches) + b] = new[b]
      /\ \A b \in (Len(batches) + 1)..(Len(batches) + n) : batches'[b] = new[b - Len(batches)]
  <2>1. /\ batches \o new \in Seq(BatchStates)
        /\ Len(batches \o new) = Len(batches) + n
        /\ \A i \in 1..(Len(batches) + n) :
              (batches \o new)[i] = IF i <= Len(batches) THEN batches[i] ELSE new[i - Len(batches)]
    BY <1>4, <1>5, ConcatProperties
  <2> QED
    BY <1>5, <1>6, <2>1
<1>9. ASSUME NEW c \in Calls, future'[c] = "waiting"
      PROVE  \E b \in DOMAIN batches' : c \in batches'[b].todo
  <2>1. CASE Queued(c)
    <3>1. PICK b \in 1..n : c \in Cut(queue)[b]
      BY <1>7, <2>1
    <3>2. Len(batches) + b \in DOMAIN batches' /\ batches'[Len(batches) + b] = new[b]
      BY <1>5, <1>8
    <3> QED
      BY <1>3, <3>1, <3>2
  <2>2. CASE \E b \in DOMAIN batches : c \in batches[b].todo
    BY <1>5, <1>8, <2>2
  <2> QED
    BY <1>9, <2>1, <2>2 DEF WaitersOK
<1>10. ASSUME NEW b \in DOMAIN batches', batches'[b].at = "done"
       PROVE  batches'[b].todo = {}
  <2>1. CASE b <= Len(batches)
    <3>1. b \in DOMAIN batches /\ batches'[b] = batches[b]
      BY <1>5, <1>8, <2>1
    <3> QED
      BY <1>10, <3>1 DEF WaitersOK
  <2>2. CASE b > Len(batches)
    <3>1. /\ b \in (Len(batches) + 1)..(Len(batches) + n)
          /\ b - Len(batches) \in 1..n
      BY <1>5, <1>8, <2>2
    <3> QED
      BY <1>3, <1>8, <1>10, <3>1
  <2> QED
    BY <1>5, <1>8, <2>1, <2>2
<1>11. ClosedLeavesNobody'
  BY DEF WaitersOK, ClosedLeavesNobody
<1> QED
  BY <1>6, <1>9, <1>10, <1>11 DEF WaitersOK

\* One batch takes a step: the calls it stops answering wait no more.
LEMMA OneBatchWaits ==
    ASSUME BatcherInv, WaitersOK, NEW b \in DOMAIN batches, NEW nb,
           batches' = [batches EXCEPT ![b] = nb],
           queue' = queue, closing' = closing,
           \A c \in Calls : future'[c] = "waiting" =>
              future[c] = "waiting" /\ (c \in batches[b].todo => c \in nb.todo),
           nb.at = "done" => nb.todo = {}
    PROVE  WaitersOK'
<1>1. /\ DOMAIN batches' = DOMAIN batches /\ batches'[b] = nb
      /\ \A a \in DOMAIN batches : a # b => batches'[a] = batches[a]
  BY DEF BatcherInv, TypesOK
<1>2. ASSUME NEW c \in Calls, future'[c] = "waiting"
      PROVE  Queued(c)' \/ \E a \in DOMAIN batches' : c \in batches'[a].todo
  BY <1>1, <1>2 DEF WaitersOK, Queued
<1>3. ASSUME NEW a \in DOMAIN batches', batches'[a].at = "done"
      PROVE  batches'[a].todo = {}
  BY <1>1, <1>3 DEF WaitersOK
<1>4. ClosedLeavesNobody'
  BY DEF WaitersOK, ClosedLeavesNobody
<1> QED
  BY <1>2, <1>3, <1>4 DEF WaitersOK

\* The locks and the slot change no call.
LEMMA TakeWaits ==
    ASSUME BatcherInv, WaitersOK, NEW b \in DOMAIN batches, TakeLock(b) \/ TakeSlot(b)
    PROVE  WaitersOK'
<1>1. batches[b] \in BatchStates
  BY DEF BatcherInv, TypesOK
<1>2. CASE TakeLock(b)
  <2>1. PICK i \in NextLocks(b) :
           batches' = [batches EXCEPT
                ![b].held = @ \cup {i},
                ![b].at = IF ItemsOf(batches[b].calls) = batches[b].held \cup {i}
                          THEN "slot" ELSE "lock"]
    BY <1>2 DEF TakeLock
  <2> DEFINE nb == [batches[b] EXCEPT
                !.held = @ \cup {i},
                !.at = IF ItemsOf(batches[b].calls) = batches[b].held \cup {i}
                       THEN "slot" ELSE "lock"]
  <2>2. nb.todo = batches[b].todo /\ nb.at # "done"
    BY <1>1 DEF BatchStates
  <2>3. batches' = [batches EXCEPT ![b] = nb]
    BY <1>1, <2>1 DEF BatchStates
  <2> HIDE DEF nb
  <2>4. queue' = queue /\ closing' = closing /\ future' = future
    BY <1>2 DEF TakeLock
  <2> QED
    BY <2>2, <2>3, <2>4, OneBatchWaits
<1>3. CASE TakeSlot(b)
  <2> DEFINE nb == [batches[b] EXCEPT !.at = "send"]
  <2>1. nb.todo = batches[b].todo /\ nb.at # "done"
    BY <1>1 DEF BatchStates
  <2>2. batches' = [batches EXCEPT ![b] = nb] /\ future' = future
        /\ queue' = queue /\ closing' = closing
    BY <1>1, <1>3 DEF TakeSlot, BatchStates
  <2> HIDE DEF nb
  <2> QED
    BY <2>1, <2>2, OneBatchWaits
<1> QED
  BY <1>2, <1>3

\* What a request comes to: nobody begins to wait, and who still waits of those it
\* carried is asked for again.
LEMMA AnswerSettles ==
    ASSUME BatcherInv, NEW b \in DOMAIN batches, Answer(b)
    PROVE  \E C : /\ Ends(b) \/ SendsAgain(b, C)
                  /\ \A c \in Calls : future'[c] = "waiting" =>
                        /\ future[c] = "waiting"
                        /\ c \in batches[b].todo => SendsAgain(b, C) /\ c \in C
<1> DEFINE T == batches[b].todo
           Left(C) == \A c \in Calls : future'[c] = "waiting" =>
                         /\ future[c] = "waiting"
                         /\ c \in T => SendsAgain(b, C) /\ c \in C
<1>1. future \in [Calls -> FutureStates]
  BY DEF BatcherInv, TypesOK
<1>2. ASSUME NEW C, NEW D, Resolved(D, "failed"), T \subseteq D \/ D = Open(T)
      PROVE  Left(C)
  BY <1>1, <1>2 DEF Resolved, Open, Done
<1>3. CASE Invalid(b) \/ Broken(b)
  <2>1. Ends(b) /\ Resolved(T, "failed")
    BY <1>3 DEF Invalid, Broken
  <2> QED
    BY <1>2, <2>1
<1>4. CASE Rejected(b)
  <2>1. CASE LastAttempt(b)
    <3>1. Ends(b) /\ Resolved(Open(T), "failed")
      BY <1>4, <2>1 DEF Rejected
    <3> QED
      BY <1>2, <3>1
  <2>2. CASE ~LastAttempt(b)
    <3>1. /\ future' = future
          /\ IF Open(T) = {} THEN Ends(b) ELSE SendsAgain(b, Open(T))
      BY <1>4, <2>2 DEF Rejected
    <3>2. \A c \in T : future[c] = "waiting" => c \in Open(T)
      BY DEF Open, Done
    <3>3. Left(Open(T))
      BY <3>1, <3>2
    <3> QED
      BY <3>1, <3>3
  <2> QED
    BY <2>1, <2>2
<1>5. ASSUME NEW ran \in SUBSET T, NEW busy \in SUBSET T, Answered(b, ran, busy)
      PROVE  \E C : (Ends(b) \/ SendsAgain(b, C)) /\ Left(C)
  <2> DEFINE again == IF LastAttempt(b) THEN {} ELSE Open(busy)
  <2>1. /\ future' = [c \in Calls |->
                        IF c \notin Open(T) \/ c \in again THEN future[c]
                        ELSE IF c \in ran \cup busy THEN "answered" ELSE "failed"]
        /\ IF again = {} THEN Ends(b) ELSE SendsAgain(b, again)
    BY <1>5 DEF Answered
  <2> HIDE DEF again
  <2>2. \A c \in T : future[c] = "waiting" => c \in Open(T)
    BY DEF Open, Done
  <2>3. Left(again)
    BY <2>1, <2>2
  <2> QED
    BY <2>1, <2>3
<1> QED
  BY <1>3, <1>4, <1>5 DEF Answer

\* A batch that is over leaves nobody waiting (exec_env.py:415).
LEMMA AnswerWaits ==
    ASSUME BatcherInv, WaitersOK, NEW b \in DOMAIN batches, Answer(b)
    PROVE  WaitersOK'
<1>1. PICK C : /\ Ends(b) \/ SendsAgain(b, C)
               /\ \A c \in Calls : future'[c] = "waiting" =>
                     /\ future[c] = "waiting"
                     /\ c \in batches[b].todo => SendsAgain(b, C) /\ c \in C
  BY AnswerSettles
<1>2. /\ batches[b] \in BatchStates /\ batches[b].at = "send"
      /\ queue' = queue /\ closing' = closing
  BY DEF Answer, BatcherInv, TypesOK
<1>3. CASE SendsAgain(b, C)
  <2> DEFINE nb == [batches[b] EXCEPT !.todo = C, !.attempt = @ + 1]
  <2>1. nb.todo = C /\ nb.at # "done" /\ batches' = [batches EXCEPT ![b] = nb]
    BY <1>2, <1>3 DEF SendsAgain, BatchStates
  <2> HIDE DEF nb
  <2> QED
    BY <1>1, <1>2, <2>1, OneBatchWaits
<1>4. CASE Ends(b) /\ ~SendsAgain(b, C)
  <2>1. batches' = [batches EXCEPT ![b] = Over] /\ Over.todo = {}
    BY <1>4 DEF Ends, Over
  <2> HIDE DEF Over
  <2> QED
    BY <1>1, <1>2, <1>4, <2>1, OneBatchWaits
<1> QED
  BY <1>1, <1>3, <1>4

\* Every action keeps who waits accounted for.
LEMMA WaitersStep == BatcherInv /\ WaitersOK /\ [Next]_vars => WaitersOK'
<1> SUFFICES ASSUME BatcherInv, WaitersOK, [Next]_vars PROVE WaitersOK'
  OBVIOUS
<1>1. future \in [Calls -> FutureStates] /\ queue \in Seq(Calls)
  BY DEF BatcherInv, TypesOK
<1>2. ASSUME NEW c \in Calls, Submit(c) PROVE WaitersOK'
  <2>1. /\ closing = "no" /\ closing' = closing /\ batches' = batches
        /\ future' = [future EXCEPT ![c] = "waiting"] /\ queue' = Append(queue, c)
    BY <1>2 DEF Submit
  <2>2. /\ Len(queue) + 1 \in DOMAIN queue' /\ queue'[Len(queue) + 1] = c
        /\ \A i \in DOMAIN queue : i \in DOMAIN queue' /\ queue'[i] = queue[i]
    BY <1>1, <2>1
  <2>3. \A d : Queued(d) \/ d = c => Queued(d)'
    BY <2>2 DEF Queued
  <2>4. \A d \in Calls : future'[d] = "waiting" => d = c \/ future[d] = "waiting"
    BY <1>1, <2>1
  <2> QED
    BY <2>1, <2>3, <2>4 DEF WaitersOK, ClosedLeavesNobody
<1>3. ASSUME NEW c \in Calls, SubmitRefused(c) \/ GiveUp(c) PROVE WaitersOK'
  <2>1. /\ closing' = closing /\ batches' = batches /\ queue' = queue
        /\ \E how \in Done : future' = [future EXCEPT ![c] = how]
    BY <1>3 DEF SubmitRefused, GiveUp, Done
  <2>2. \A d \in Calls : future'[d] = "waiting" => future[d] = "waiting"
    BY <1>1, <2>1 DEF Done
  <2> QED
    BY <2>1, <2>2 DEF WaitersOK, ClosedLeavesNobody, Queued
<1>4. ASSUME NEW b \in DOMAIN batches, SendStep(b) PROVE WaitersOK'
  BY <1>4, TakeWaits, AnswerWaits DEF SendStep
<1>5. CASE TimerFires \/ FlushRuns \/ Close
  BY <1>5, FlushWaits DEF TimerFires, FlushRuns, Close
<1>6. CASE CloseReturns
  <2>1. queue = <<>> /\ \A c : ~Queued(c)
    BY <1>6 DEF CloseReturns, WaitersOK, Queued
  <2>2. \A c \in Calls : future[c] # "waiting"
    BY <1>6, <2>1 DEF CloseReturns, WaitersOK
  <2> QED
    BY <1>6, <2>1, <2>2 DEF CloseReturns, WaitersOK, ClosedLeavesNobody
<1>7. CASE UNCHANGED vars
  BY <1>7 DEF vars, WaitersOK, ClosedLeavesNobody, Queued
<1> QED
  BY <1>2, <1>3, <1>4, <1>5, <1>6, <1>7 DEF Next

\* close() returns only after a last flush and the end of every request, and then
\* no caller of submit_step() is left waiting for its future (exec_env.py:370).
THEOREM BatcherClosesClean == Spec => []ClosedLeavesNobody
<1>1. Init => WaitersOK
  BY DEF Init, WaitersOK, ClosedLeavesNobody
<1>2. WaitersOK => ClosedLeavesNobody
  BY DEF WaitersOK
<1> QED
  BY <1>1, <1>2, BatcherInvariant, WaitersStep, PTL DEF Spec
-----------------------------------------------------------------------------
\* The record of a microbatch says that it ran.
Complete(k) == journal[k] # None /\ journal[k].status = "complete"

\* The journal knows of every run before it happens, and of its outcome if
\* it says so.
JournalKnows ==
    \A k \in Places :
        /\ runs[k] <= 1
        /\ runs[k] > 0 => journal[k] # None
        /\ Complete(k) => runs[k] = 1 /\ journal[k].response = <<k, 1>>

\* A request is on its way only under a record that says it is running.
SentIsRunning ==
    pc = "sent" =>
        /\ Here \in DOMAIN Request[plan]
        /\ journal[Here] # None /\ journal[Here].status = "running"
        /\ runs[Here] = 0

\* What is merged was read from the journal, under the plan of the call.
MergedIsJournalled ==
    pc \in {"loop", "sent", "returned"} =>
        \A k \in DOMAIN merged :
            /\ Complete(k)
            /\ journal[k].request = Request[plan][k]
            /\ journal[k].response = merged[k]

\* A call returns only with all of its plan.
ReturnedWhole == pc = "returned" => Len(merged) = Len(Request[plan])

JournalInv ==
    /\ JournalTypeOK /\ JournalKnows /\ SentIsRunning
    /\ MergedIsJournalled /\ ReturnedWhole

\* Places and payloads of a plan are among those of all plans.
LEMMA PlanFacts ==
    ASSUME NEW p \in Plans
    PROVE  /\ Len(Request[p]) \in Nat
           /\ DOMAIN Request[p] = 1..Len(Request[p])
           /\ \A k \in DOMAIN Request[p] : k \in Places /\ Request[p][k] \in Payloads
<1>1. Request[p] \in Seq(Payloads)
  BY JournalAssumption
<1>2. \A k \in DOMAIN Request[p] : k \in Places
  BY DEF Places
<1> QED
  BY <1>1, <1>2

\* Where a call is in its plan, as arithmetic.
LEMMA HereFacts ==
    ASSUME JournalTypeOK
    PROVE  /\ Len(merged) \in Nat /\ DOMAIN merged = 1..Len(merged)
           /\ Here \in Nat /\ Here > Len(merged)
           /\ DOMAIN merged \subseteq DOMAIN Request[plan]
           /\ \A k \in DOMAIN merged : k # Here /\ k \in Places
           /\ Here \in DOMAIN Request[plan] =>
                  /\ Here \in Places /\ Current \in Payloads
                  /\ Here <= Len(Request[plan])
           /\ Here \notin DOMAIN Request[plan] => Len(merged) = Len(Request[plan])
    BY PlanFacts DEF JournalTypeOK, Here, Current

\* put() of a running or unknown record replaces exactly that record.
LEMMA PutOpen ==
    ASSUME JournalTypeOK, NEW status \in {"running", "unknown"}, Put(status, None),
           Here \in DOMAIN Request[plan]
    PROVE  /\ journal' \in [Places -> Record \cup {None}]
           /\ journal'[Here] # None /\ journal'[Here].status = status
           /\ \A k \in Places \ {Here} : journal'[k] = journal[k]
<1> DEFINE row == [status |-> status, request |-> Current, response |-> None]
<1>1. row \in Record
  BY HereFacts DEF Record
<1>2. journal' = [journal EXCEPT ![Here] = row]
  BY DEF Put
<1>3. row # None /\ row.status = status
  BY <1>1, JournalAssumption
<1> HIDE DEF row
<1> QED
  BY <1>1, <1>2, <1>3, HereFacts DEF JournalTypeOK

\* One turn of the resumable call, or its death, keeps the invariant.
LEMMA JournalStep ==
    ASSUME JournalInv, [JournalNext]_journalVars
    PROVE  JournalInv'
<1>0. JournalTypeOK /\ JournalKnows /\ SentIsRunning /\ MergedIsJournalled /\ ReturnedWhole
  BY DEF JournalInv
<1> USE HereFacts
<1>1. ASSUME NEW p \in Plans, Call(p)
      PROVE  JournalInv'
  <2>1. merged' = <<>> /\ UNCHANGED <<journal, runs>> /\ pc' = "loop" /\ plan' = p
    BY <1>1 DEF Call
  <2>2. JournalTypeOK'
    BY <1>0, <2>1, PlanFacts DEF JournalTypeOK
  <2> QED
    BY <1>0, <2>1, <2>2 DEF JournalInv, JournalKnows, SentIsRunning, MergedIsJournalled,
       ReturnedWhole, Complete
<1>2. CASE Reuse
  <2>1. /\ Here \in DOMAIN Request[plan] /\ journal[Here] # None
        /\ journal[Here].request = Current /\ journal[Here].status = "complete"
        /\ merged' = Append(merged, journal[Here].response)
        /\ pc = "loop" /\ UNCHANGED <<journal, pc, plan, runs>>
    BY <1>2 DEF Reuse, Unsent
  <2>2. journal[Here].response \in Responses
    BY <1>0, <2>1 DEF JournalTypeOK, Record
  <2>3. /\ merged' \in Seq(Responses) /\ Len(merged') = Here
        /\ DOMAIN merged' = 1..Here
        /\ \A k \in DOMAIN merged : merged'[k] = merged[k]
        /\ merged'[Here] = journal[Here].response
    BY <1>0, <2>1, <2>2 DEF JournalTypeOK, Here
  <2>4. JournalTypeOK'
    BY <1>0, <2>1, <2>3 DEF JournalTypeOK
  <2>5. MergedIsJournalled'
    <3> SUFFICES ASSUME NEW k \in DOMAIN merged'
                 PROVE  /\ Complete(k) /\ journal[k].request = Request[plan][k]
                        /\ journal[k].response = merged'[k]
      BY <2>1 DEF MergedIsJournalled, Complete
    <3>1. CASE k = Here
      BY <2>1, <2>3, <3>1 DEF Complete, Current
    <3>2. CASE k # Here
      <4>1. k \in DOMAIN merged
        BY <1>0, <2>3, <3>2 DEF Here
      <4> QED
        BY <1>0, <2>1, <2>3, <4>1 DEF MergedIsJournalled
    <3> QED
      BY <3>1, <3>2
  <2>6. JournalKnows' /\ SentIsRunning' /\ ReturnedWhole'
    BY <1>0, <2>1 DEF JournalKnows, SentIsRunning, ReturnedWhole, Complete
  <2> QED
    BY <2>4, <2>5, <2>6 DEF JournalInv
<1>3. CASE Refuse
  BY <1>0, <1>3 DEF Refuse, JournalInv, JournalTypeOK, JournalKnows, SentIsRunning,
     MergedIsJournalled, ReturnedWhole, Complete
<1>4. CASE Send
  <2>1. /\ Put("running", None) /\ Here \in DOMAIN Request[plan]
        /\ journal[Here] = None /\ pc' = "sent" /\ UNCHANGED <<plan, merged, runs>>
        /\ pc = "loop"
    BY <1>4 DEF Send, Unsent
  <2>2. runs[Here] = 0
    BY <1>0, <2>1 DEF JournalKnows, JournalTypeOK
  <2>3. JournalTypeOK'
    BY <1>0, <2>1, PutOpen DEF JournalTypeOK
  <2>4. JournalKnows' /\ SentIsRunning'
    BY <1>0, <2>1, <2>2, PutOpen DEF JournalKnows, SentIsRunning, Complete, Here
  <2>5. MergedIsJournalled' /\ ReturnedWhole'
    BY <1>0, <2>1, PutOpen DEF MergedIsJournalled, ReturnedWhole, Complete
  <2> QED
    BY <2>3, <2>4, <2>5 DEF JournalInv
<1>5. CASE Responded
  <2>1. /\ pc = "sent" /\ pc' = "loop" /\ plan' = plan
        /\ Here \in DOMAIN Request[plan] /\ Here \in Places /\ runs[Here] = 0
        /\ runs' = [runs EXCEPT ![Here] = 1] /\ runs'[Here] = 1
    <3>1. /\ pc = "sent" /\ pc' = "loop" /\ plan' = plan
          /\ runs' = [runs EXCEPT ![Here] = runs[Here] + 1]
      BY <1>5 DEF Responded, Runs
    <3>2. Here \in DOMAIN Request[plan] /\ runs[Here] = 0
      BY <1>0, <3>1 DEF SentIsRunning
    <3>3. Here \in Places /\ DOMAIN runs = Places
      BY <1>0, <3>2 DEF JournalTypeOK
    <3> HIDE DEF Here
    <3> QED
      BY <3>1, <3>2, <3>3
  <2> DEFINE reply == <<Here, 1>>
             row == [status |-> "complete", request |-> Current, response |-> reply]
  <2>2. reply \in Responses /\ row \in Record
    BY <1>0, <2>1, JournalAssumption DEF Responses, Record
  <2>3. journal' = [journal EXCEPT ![Here] = row] /\ merged' = Append(merged, reply)
    BY <1>5, <2>1 DEF Responded, Put
  <2>4. /\ row # None /\ row.status = "complete" /\ row.response = reply
        /\ row.request = Request[plan][Here]
    BY <2>2, JournalAssumption DEF Current
  <2>5. reply = <<Here, 1>>
    OBVIOUS
  <2> HIDE DEF row, reply
  <2>6. /\ merged' \in Seq(Responses) /\ Len(merged') = Here
        /\ DOMAIN merged' = 1..Here
        /\ \A k \in DOMAIN merged : merged'[k] = merged[k]
        /\ merged'[Here] = reply
    BY <1>0, <2>2, <2>3 DEF JournalTypeOK, Here
  <2>7. journal'[Here] = row /\ \A k \in Places \ {Here} : journal'[k] = journal[k]
    BY <1>0, <2>1, <2>3 DEF JournalTypeOK
  <2>8. JournalTypeOK'
    BY <1>0, <2>1, <2>2, <2>3, <2>6, JournalAssumption DEF JournalTypeOK
  <2>9. JournalKnows'
    BY <1>0, <2>1, <2>4, <2>5, <2>7 DEF JournalKnows, Complete, JournalTypeOK
  <2>10. MergedIsJournalled'
    <3> SUFFICES ASSUME NEW k \in DOMAIN merged'
                 PROVE  /\ Complete(k)' /\ journal'[k].request = Request[plan][k]
                        /\ journal'[k].response = merged'[k]
      BY <2>1 DEF MergedIsJournalled
    <3>1. CASE k = Here
      BY <2>4, <2>6, <2>7, <3>1 DEF Complete
    <3>2. CASE k # Here
      <4>1. k \in DOMAIN merged
        BY <1>0, <2>6, <3>2 DEF Here
      <4> QED
        BY <1>0, <2>1, <2>6, <2>7, <4>1 DEF MergedIsJournalled, Complete
    <3> QED
      BY <3>1, <3>2
  <2> QED
    BY <2>1, <2>8, <2>9, <2>10 DEF JournalInv, SentIsRunning, ReturnedWhole
<1>6. ASSUME pc = "sent", runs' = [runs EXCEPT ![Here] = 1] \/ UNCHANGED runs
      PROVE  /\ runs' \in [Places -> 0..MaxRuns]
             /\ \A k \in Places : runs'[k] <= 1
             /\ \A k \in Places \ {Here} : runs'[k] = runs[k]
  <2>1. /\ runs \in [Places -> 0..MaxRuns] /\ 1 \in 0..MaxRuns
        /\ \A k \in Places : runs[k] <= 1
    BY <1>0, JournalAssumption DEF JournalTypeOK, JournalKnows
  <2>2. CASE runs' = [runs EXCEPT ![Here] = 1]
    <3>1. \A k \in Places : runs'[k] = IF k = Here THEN 1 ELSE runs[k]
      BY <2>1, <2>2
    <3>2. runs' \in [Places -> 0..MaxRuns]
      BY <2>1, <2>2
    <3>3. \A k \in Places : runs'[k] <= 1
      BY <2>1, <3>1
    <3> QED
      BY <3>1, <3>2, <3>3
  <2>3. CASE UNCHANGED runs
    BY <2>1, <2>3
  <2> QED
    BY <1>6, <2>2, <2>3
<1>7. CASE Failed
  <2>1. /\ pc = "sent" /\ pc' = "raised" /\ Put("unknown", None)
        /\ UNCHANGED <<plan, merged>> /\ Here \in DOMAIN Request[plan]
        /\ runs' = [runs EXCEPT ![Here] = 1] \/ UNCHANGED runs
    BY <1>0, <1>7 DEF Failed, Runs, SentIsRunning, JournalTypeOK
  <2>2. JournalTypeOK'
    BY <1>0, <1>6, <2>1, PutOpen DEF JournalTypeOK
  <2>3. JournalKnows'
    BY <1>0, <1>6, <2>1, PutOpen DEF JournalKnows, Complete
  <2> QED
    BY <2>1, <2>2, <2>3 DEF JournalInv, SentIsRunning, MergedIsJournalled, ReturnedWhole
<1>8. CASE Returns
  BY <1>0, <1>8 DEF Returns, JournalInv, JournalTypeOK, JournalKnows, SentIsRunning,
     MergedIsJournalled, ReturnedWhole, Complete
<1>9. CASE Killed
  <2>1. /\ pc' = "down" /\ UNCHANGED <<journal, plan, merged>>
        /\ UNCHANGED runs \/ (pc = "sent" /\ runs' = [runs EXCEPT ![Here] = 1])
    BY <1>0, <1>9 DEF Killed, Runs, SentIsRunning, JournalTypeOK
  <2>2. JournalTypeOK'
    BY <1>0, <1>6, <2>1 DEF JournalTypeOK
  <2>3. JournalKnows'
    BY <1>0, <1>6, <2>1 DEF JournalKnows, Complete, SentIsRunning
  <2> QED
    BY <2>1, <2>2, <2>3 DEF JournalInv, SentIsRunning, MergedIsJournalled, ReturnedWhole
<1>10. CASE UNCHANGED journalVars
  BY <1>0, <1>10 DEF journalVars, JournalInv, JournalTypeOK, JournalKnows, SentIsRunning,
     MergedIsJournalled, ReturnedWhole, Complete, Here
<1> QED
  BY <1>1, <1>2, <1>3, <1>4, <1>5, <1>7, <1>8, <1>9, <1>10 DEF JournalNext

\* The inductive invariant of a resumable call holds in every reachable state.
THEOREM JournalInvariant == JournalSpec => []JournalInv
<1>1. JournalInit => JournalInv
  <2> SUFFICES ASSUME JournalInit PROVE JournalInv
    OBVIOUS
  <2>1. JournalTypeOK
    BY PlanFacts, JournalAssumption DEF JournalInit, JournalTypeOK
  <2> QED
    BY <2>1 DEF JournalInit, JournalInv, JournalKnows, SentIsRunning, MergedIsJournalled,
       ReturnedWhole, Complete
<1> QED
  BY <1>1, JournalStep, PTL DEF JournalSpec

\* The journal, the merged responses and the place in the call keep their
\* types (exec_journal.py:39-80, exec_env.py:169-228).
THEOREM JournalTypeCorrect == JournalSpec => []JournalTypeOK
  BY JournalInvariant, PTL DEF JournalInv

\* A microbatch runs at most once under one env_call_id, however often the
\* client fails, is killed or comes back with other items: a record is written
\* before the request is sent, and only a microbatch without one is sent
\* (exec_env.py:184-211).
THEOREM RunsAtMostOnce == JournalSpec => []AtMostOnce
<1>1. JournalInv => AtMostOnce
  BY DEF JournalInv, JournalKnows, AtMostOnce
<1> QED
  BY <1>1, JournalInvariant, PTL

\* A call that returns has, place by place, the outcome of the only run of its
\* own microbatch, as the journal has it (exec_env.py:186-200, 220-228).
THEOREM ReturnsOwnOutcomes == JournalSpec => []ReturnsWhatRan
<1>1. JournalInv => ReturnsWhatRan
  <2> SUFFICES ASSUME JournalInv, pc = "returned", NEW k \in DOMAIN merged
               PROVE  /\ merged[k] = <<k, runs[k]>>
                      /\ journal[k].request = Request[plan][k]
                      /\ journal[k].response = merged[k]
    BY DEF JournalInv, ReturnedWhole, ReturnsWhatRan
  <2>1. k \in Places
    BY HereFacts DEF JournalInv
  <2> QED
    BY <2>1 DEF JournalInv, MergedIsJournalled, JournalKnows
<1> QED
  BY <1>1, JournalInvariant, PTL
----------------------------------------------------------------------------
\* Of the naturals in a set that is not empty one is the least: so induction on a
\* number is an argument about the least that fails.
LEMMA LeastNat ==
    ASSUME NEW T \in SUBSET Nat, T # {}
    PROVE  \E n \in T : \A m \in T : n <= m
<1>1. PICK n \in T : \A m \in T : <<m, n>> \notin OpToRel(<, Nat)
  BY WFMin, NatLessThanWellFounded
<1>2. \A m \in T : ~(m < n)
  BY <1>1 DEF OpToRel
<1> QED
  BY <1>2

----------------------------------------------------------------------------
\* The lines that split_snippet() leaves out of the body.
HeaderLines == Imports \cup {""}

\* The leading lines are lines, and blank or imports.
LEMMA LeadingFacts ==
    ASSUME NEW Line, NEW lines \in Seq(Line)
    PROVE  /\ Leading(lines) \in 0..Len(lines)
           /\ \A k \in 1..Leading(lines) : lines[k] \in HeaderLines
<1> DEFINE n == Len(lines)
           code == {k \in DOMAIN lines : lines[k] \notin HeaderLines}
           first == CHOOSE k \in code : \A j \in code : k <= j
<1>1. Leading(lines) = IF code = {} THEN n ELSE first - 1
  BY Zenon DEF Leading, HeaderLines
<1>2. n \in Nat /\ code \subseteq 1..n
  OBVIOUS
<1>3. \A k \in 1..n : k \notin code => lines[k] \in HeaderLines
  OBVIOUS
<1>4. code # {} => first \in code /\ \A j \in code : first <= j
  <2>1. code \in SUBSET Nat
    BY <1>2
  <2> HIDE DEF code
  <2> QED
    BY <2>1, LeastNat
<1> SUFFICES /\ Leading(lines) \in 0..n
             /\ \A k \in 1..Leading(lines) : lines[k] \in HeaderLines
  OBVIOUS
<1> HIDE DEF n, first, code
<1>5. Leading(lines) \in 0..n /\ \A k \in 1..Leading(lines) : k \in 1..n /\ k \notin code
  <2>1. CASE code = {}
    <3>1. Leading(lines) = n
      BY <1>1, <2>1
    <3> QED
      BY <1>2, <2>1, <3>1
  <2>2. CASE code # {}
    <3>1. Leading(lines) = first - 1 /\ first \in 1..n /\ \A j \in code : first <= j
      BY <1>1, <1>2, <1>4, <2>2
    <3>2. \A k \in 1..(first - 1) : k \in 1..n /\ k \notin code
      BY <1>2, <3>1
    <3> QED
      BY <1>2, <3>1, <3>2
  <2> QED
    BY <2>1, <2>2
<1> QED
  BY <1>3, <1>5

\* The imports seen after each of n lines, as split_snippet() collects them.
Collects(seen, lines, n) ==
    seen = [k \in 0..n |->
        IF k = 0 THEN <<>>
        ELSE IF lines[k] \in Imports \ Mathlib /\ ~Contains(seen[k - 1], lines[k])
             THEN Append(seen[k - 1], lines[k])
             ELSE seen[k - 1]]

\* What is collected after k lines: the imports up to there, each once.
CollectedOnce(s, lines, k) ==
    /\ s \in Seq(Imports \ Mathlib) /\ IsInjective(s)
    /\ \A j \in 1..k : lines[j] \in Imports \ Mathlib => \E i \in DOMAIN s : s[i] = lines[j]

\* The collection goes on for any number of lines, and collects each import
\* once: by the least number of lines for which it would not.
LEMMA CollectsOnce ==
    ASSUME NEW lines, NEW n \in Nat
    PROVE  \E seen : /\ Collects(seen, lines, n)
                     /\ \A k \in 0..n : CollectedOnce(seen[k], lines, k)
<1> DEFINE Good(m, seen) == /\ Collects(seen, lines, m)
                            /\ \A k \in 0..m : CollectedOnce(seen[k], lines, k)
           T == {m \in Nat : ~\E seen : Good(m, seen)}
<1> SUFFICES ASSUME T # {}
             PROVE  FALSE
  OBVIOUS
<1>1. PICK m \in T : \A j \in T : m <= j
  BY LeastNat
<1>2. m # 0
  <2> DEFINE s == [k \in 0..0 |-> <<>>]
  <2>1. Collects(s, lines, 0)
    BY DEF Collects
  <2>2. CollectedOnce(s[0], lines, 0)
    BY DEF CollectedOnce, IsInjective
  <2> QED
    BY <2>1, <2>2
<1>3. PICK old : Good(m - 1, old)
  BY <1>1, <1>2
<1> DEFINE last == IF lines[m] \in Imports \ Mathlib /\ ~Contains(old[m - 1], lines[m])
                   THEN Append(old[m - 1], lines[m]) ELSE old[m - 1]
           seen == [k \in 0..m |-> IF k = m THEN last ELSE old[k]]
<1>4. CollectedOnce(old[m - 1], lines, m - 1)
  BY <1>1, <1>2, <1>3
<1>5. CollectedOnce(last, lines, m)
  <2> DEFINE s == old[m - 1]
  <2>1. /\ s \in Seq(Imports \ Mathlib) /\ IsInjective(s)
        /\ \A j \in 1..(m - 1) : lines[j] \in Imports \ Mathlib => \E i \in DOMAIN s : s[i] = lines[j]
    BY <1>4 DEF CollectedOnce
  <2> HIDE DEF s
  <2>2. CASE lines[m] \in Imports \ Mathlib /\ ~Contains(s, lines[m])
    <3>1. last = Append(s, lines[m])
      BY <2>2 DEF s
    <3>2. Len(s) \in Nat /\ DOMAIN s = 1..Len(s) /\ \A i \in 1..Len(s) : s[i] # lines[m]
      BY <2>1, <2>2 DEF Contains
    <3> DEFINE E == Imports \ Mathlib
               e == lines[m]
    <3> HIDE DEF E, e
    <3>3. /\ last \in Seq(Imports \ Mathlib) /\ DOMAIN last = 1..(Len(s) + 1)
          /\ \A i \in 1..Len(s) : last[i] = s[i]
          /\ last[Len(s) + 1] = lines[m]
      <4>1. s \in Seq(E) /\ e \in E
        BY <2>1, <2>2 DEF E, e
      <4>2. /\ Append(s, e) \in Seq(E) /\ Len(Append(s, e)) = Len(s) + 1
            /\ \A i \in 1..Len(s) : Append(s, e)[i] = s[i]
            /\ Append(s, e)[Len(s) + 1] = e
        BY <4>1, AppendProperties
      <4>3. DOMAIN Append(s, e) = 1..(Len(s) + 1)
        BY <4>2, LenProperties
      <4> QED
        BY <3>1, <4>2, <4>3 DEF E, e
    <3> HIDE DEF last
    <3>4. IsInjective(last)
      BY <2>1, <3>2, <3>3 DEF IsInjective
    <3>5. \A j \in 1..m : lines[j] \in Imports \ Mathlib => \E i \in DOMAIN last : last[i] = lines[j]
      <4> SUFFICES ASSUME NEW j \in 1..m, lines[j] \in Imports \ Mathlib
                   PROVE  \E i \in DOMAIN last : last[i] = lines[j]
        OBVIOUS
      <4>1. CASE j = m
        BY <3>2, <3>3, <4>1
      <4>2. CASE j # m
        <5>1. PICK i \in DOMAIN s : s[i] = lines[j]
          BY <1>1, <2>1, <4>2
        <5> QED
          BY <3>2, <3>3, <5>1
      <4> QED
        BY <4>1, <4>2
    <3> QED
      BY <3>3, <3>4, <3>5 DEF CollectedOnce
  <2>3. CASE ~(lines[m] \in Imports \ Mathlib /\ ~Contains(s, lines[m]))
    <3>1. last = s
      BY <2>3 DEF s
    <3>2. lines[m] \in Imports \ Mathlib => \E i \in DOMAIN s : s[i] = lines[m]
      BY <2>1, <2>3 DEF Contains
    <3> HIDE DEF last
    <3> QED
      BY <1>1, <2>1, <3>1, <3>2 DEF CollectedOnce
  <2> QED
    BY <2>2, <2>3
<1>6. \A k \in 0..(m - 1) : seen[k] = old[k]
  BY <1>1
<1>7. seen[m] = last
  BY <1>1
<1> HIDE DEF T, last
<1>8. Collects(seen, lines, m)
  <2>1. \A k \in 0..(m - 1) : old[k] =
            IF k = 0 THEN <<>>
            ELSE IF lines[k] \in Imports \ Mathlib /\ ~Contains(old[k - 1], lines[k])
                 THEN Append(old[k - 1], lines[k])
                 ELSE old[k - 1]
    <3>1. Collects(old, lines, m - 1)
      BY <1>3
    <3> QED
      BY <3>1 DEF Collects
  <2>2. \A k \in 0..m : k # 0 => k - 1 \in 0..(m - 1) /\ seen[k - 1] = old[k - 1]
    BY <1>1, <1>6 DEF T
  <2>3. \A k \in 0..m : seen[k] =
            IF k = 0 THEN <<>>
            ELSE IF lines[k] \in Imports \ Mathlib /\ ~Contains(seen[k - 1], lines[k])
                 THEN Append(seen[k - 1], lines[k])
                 ELSE seen[k - 1]
    <3> SUFFICES ASSUME NEW k \in 0..m
                 PROVE  seen[k] =
            IF k = 0 THEN <<>>
            ELSE IF lines[k] \in Imports \ Mathlib /\ ~Contains(seen[k - 1], lines[k])
                 THEN Append(seen[k - 1], lines[k])
                 ELSE seen[k - 1]
      OBVIOUS
    <3>1. CASE k = m
      <4>1. seen[k] = last /\ seen[k - 1] = old[m - 1] /\ k # 0
        BY <1>2, <1>7, <2>2, <3>1
      <4> QED
        BY <3>1, <4>1 DEF last
    <3>2. CASE k # m
      <4>1. k \in 0..(m - 1) /\ seen[k] = old[k]
        BY <1>1, <1>6, <3>2 DEF T
      <4>2. k # 0 => seen[k - 1] = old[k - 1]
        BY <2>2
      <4> QED
        BY <2>1, <4>1, <4>2
    <3> QED
      BY <3>1, <3>2
  <2>4. seen = [k \in 0..m |-> seen[k]]
    OBVIOUS
  <2> HIDE DEF seen
  <2> QED
    BY <2>3, <2>4 DEF Collects
<1>9. \A k \in 0..m : CollectedOnce(seen[k], lines, k)
  <2> SUFFICES ASSUME NEW k \in 0..m
               PROVE  CollectedOnce(seen[k], lines, k)
    OBVIOUS
  <2>1. CASE k = m
    BY <1>5, <1>7, <2>1
  <2>2. CASE k # m
    <3>1. k \in 0..(m - 1)
      BY <1>1, <2>2 DEF T
    <3> QED
      BY <1>3, <1>6, <3>1
  <2> QED
    BY <2>1, <2>2
<1> QED
  BY <1>1, <1>8, <1>9 DEF T

LEMMA OtherImportsOnce ==
    ASSUME NEW Line, NEW lines \in Seq(Line)
    PROVE  CollectedOnce(OtherImports(lines), lines, Leading(lines))
<1> DEFINE n == Leading(lines)
           body(seen, k) ==
               IF k = 0 THEN <<>>
               ELSE IF lines[k] \in Imports \ Mathlib /\ ~Contains(seen[k - 1], lines[k])
                    THEN Append(seen[k - 1], lines[k])
                    ELSE seen[k - 1]
           all == CHOOSE seen : Collects(seen, lines, n)
<1>1. n \in Nat
  BY LeadingFacts
<1>2. OtherImports(lines) = all[n]
  BY DEF OtherImports, Collects
<1>3. PICK seen : Collects(seen, lines, n) /\ \A k \in 0..n : CollectedOnce(seen[k], lines, k)
  BY <1>1, CollectsOnce
<1>4. Collects(all, lines, n)
  BY <1>3
<1>5. all = seen
  <2>1. \A k \in 0..n : all[k] = body(all, k) /\ seen[k] = body(seen, k)
    BY <1>3, <1>4 DEF Collects
  <2> DEFINE D == {k \in 0..n : all[k] # seen[k]}
  <2>2. D = {}
    <3> SUFFICES ASSUME D # {}
                 PROVE  FALSE
      OBVIOUS
    <3>1. D \in SUBSET Nat
      OBVIOUS
    <3>2. PICK k \in D : \A j \in D : k <= j
      <4> HIDE DEF D
      <4> QED
        BY <3>1, LeastNat
    <3>3. k \in 0..n /\ all[k] # seen[k]
      BY <3>2
    <3>4. k # 0
      BY <2>1, <3>3
    <3>5. k - 1 \in 0..n /\ all[k - 1] = seen[k - 1]
      BY <1>1, <3>2, <3>3, <3>4
    <3>6. body(all, k) = body(seen, k)
      BY <3>5
    <3> QED
      BY <2>1, <3>3, <3>6
  <2>3. all = [k \in 0..n |-> all[k]] /\ seen = [k \in 0..n |-> seen[k]]
    BY <1>3, <1>4 DEF Collects
  <2>4. \A k \in 0..n : all[k] = seen[k]
    BY <2>2
  <2> HIDE DEF all, D
  <2> QED
    BY <2>3, <2>4
<1>6. CollectedOnce(all[n], lines, n)
  <2> HIDE DEF all, n
  <2> QED
    BY <1>1, <1>3, <1>5
<1> QED
  BY <1>2, <1>6

\* What Lean may say about a body of n lines, without the bounds of the runs.
AnyRemarks(n) == [failed : BOOLEAN, messages : Seq(Spots(n)), sorries : Seq(Spots(n))]

\* The header asks for every import, and for each once.
LEMMA HeaderCovers ==
    ASSUME NEW Line, NEW lines \in Seq(Line),
           NEW header, header = SplitSnippet(lines).header
    PROVE  /\ IsInjective(header)
           /\ \A k \in 1..Leading(lines) : lines[k] # "" => \E h \in ToSet(header) :
                h = lines[k] \/ (h = "import Mathlib" /\ lines[k] \in Mathlib)
<1> DEFINE others == OtherImports(lines)
           m == "import Mathlib"
           whole == \E k \in 1..Leading(lines) : lines[k] \in Mathlib
           Named(k) == \E i \in DOMAIN header :
                header[i] = lines[k] \/ (header[i] = m /\ lines[k] \in Mathlib)
<1>1. /\ others \in Seq(Imports \ Mathlib) /\ IsInjective(others)
      /\ \A k \in 1..Leading(lines) : lines[k] \in Imports \ Mathlib => \E i \in DOMAIN others : others[i] = lines[k]
  BY OtherImportsOnce DEF CollectedOnce
<1>2. header = IF whole THEN <<m>> \o others ELSE others
  BY Zenon DEF SplitSnippet
<1>3. \A k \in 1..Leading(lines) : lines[k] # "" => lines[k] \in Imports
  <2>1. \A k \in 1..Leading(lines) : lines[k] \in HeaderLines
    BY LeadingFacts
  <2> QED
    BY <2>1, Zenon DEF HeaderLines
<1>4. m \in Mathlib
  BY DEF Mathlib
<1>7. \A e : e \in Imports \ Mathlib \/ e \in Mathlib => e \in Imports
  BY DEF Imports
<1>8. \A e \in Imports : e \in Mathlib \/ e \in Imports \ Mathlib
  OBVIOUS
<1> DEFINE E == Imports \ Mathlib
<1>9. \A i, j \in DOMAIN others : others[i] = others[j] => i = j
  BY <1>1 DEF IsInjective
<1> HIDE DEF others, m, whole
<1>5. CASE whole
  <2>1. header = <<m>> \o others
    BY <1>2, <1>5
  <2>2. /\ Len(others) \in Nat /\ DOMAIN others = 1..Len(others)
        /\ \A i \in 1..Len(others) : others[i] \in Imports \ Mathlib
    BY <1>1
  <2>3. /\ DOMAIN header = 1..(Len(others) + 1)
        /\ header[1] = m
        /\ \A i \in 1..Len(others) : header[i + 1] = others[i]
    <3>1. <<m>> \in Seq(Imports) /\ Len(<<m>>) = 1 /\ <<m>>[1] = m /\ others \in Seq(Imports)
      <4>1. m \in Imports /\ others \in Seq(E)
        BY <1>1, <1>4, <1>7
      <4>2. E \subseteq Imports
        OBVIOUS
      <4> HIDE DEF E
      <4> QED
        BY <4>1, <4>2
    <3>2. /\ header \in Seq(Imports) /\ Len(header) = 1 + Len(others)
          /\ \A i \in 1..(1 + Len(others)) :
                header[i] = IF i <= 1 THEN <<m>>[i] ELSE others[i - 1]
      BY <2>1, <3>1, ConcatProperties
    <3> QED
      BY <2>2, <3>1, <3>2
  <2>4. IsInjective(header)
    <3>1. \A i \in DOMAIN header : i # 1 => i - 1 \in 1..Len(others) /\ header[i] = others[i - 1]
      BY <2>2, <2>3
    <3>2. \A i \in DOMAIN header : i # 1 => header[i] # m
      BY <1>4, <2>2, <3>1
    <3> SUFFICES ASSUME NEW i \in DOMAIN header, NEW j \in DOMAIN header, header[i] = header[j]
                 PROVE  i = j
      BY DEF IsInjective
    <3>3. (i = 1) <=> (j = 1)
      BY <2>3, <3>2
    <3>4. CASE i # 1
      <4>1. i - 1 = j - 1
        BY <1>9, <2>2, <3>1, <3>3, <3>4
      <4> QED
        BY <2>2, <2>3, <4>1
    <3> QED
      BY <3>3, <3>4
  <2>5. \A k \in 1..Leading(lines) : lines[k] \in Imports => Named(k)
    <3> SUFFICES ASSUME NEW k \in 1..Leading(lines), lines[k] \in Imports
                 PROVE  Named(k)
      OBVIOUS
    <3>1. CASE lines[k] \in Mathlib
      <4>1. 1 \in DOMAIN header /\ header[1] = m
        BY <2>2, <2>3
      <4> QED
        BY <3>1, <4>1
    <3>2. CASE lines[k] \in Imports \ Mathlib
      <4>1. PICK i \in DOMAIN others : others[i] = lines[k]
        BY <1>1, <3>2
      <4>2. i + 1 \in DOMAIN header /\ header[i + 1] = lines[k]
        BY <2>2, <2>3, <4>1
      <4> QED
        BY <4>2
    <3> QED
      BY <1>8, <3>1, <3>2
  <2> QED
    BY <1>3, <2>4, <2>5, Zenon DEF ToSet, m
<1>6. CASE ~whole
  <2>1. header = others
    BY <1>2, <1>6
  <2>2. \A k \in 1..Leading(lines) : lines[k] \in Imports => Named(k)
    BY <1>1, <1>6, <2>1 DEF whole
  <2> QED
    BY <1>1, <1>3, <2>1, <2>2, Zenon DEF ToSet, m
<1> QED
  BY <1>5, <1>6

\* Line p of the body is line Leading + p of the snippet.
LEMMA BodyLines ==
    ASSUME NEW Line, NEW lines \in Seq(Line),
           NEW body, body = SplitSnippet(lines).body
    PROVE  /\ Len(body) \in Nat
           /\ \A p \in 1..Len(body) : body[p] = lines[Leading(lines) + p]
<1>1. body = SubSeq(lines, Leading(lines) + 1, Len(lines))
  BY DEF SplitSnippet
<1>2. Leading(lines) \in Nat /\ Leading(lines) <= Len(lines) /\ Len(lines) \in Nat
  BY LeadingFacts
<1>3. CASE Leading(lines) = Len(lines)
  <2>1. body = <<>>
    BY <1>1, <1>2, <1>3
  <2> QED
    BY <2>1
<1>4. CASE Leading(lines) < Len(lines)
  <2> DEFINE L == Leading(lines)
             n == Len(lines)
  <2>1. /\ L + 1 \in 1..(n + 1) /\ n \in (L + 1 - 1)..n
    BY <1>2, <1>4
  <2>2. /\ Len(body) = n - (L + 1) + 1
        /\ \A i \in 1..(n - (L + 1) + 1) : body[i] = lines[L + 1 + i - 1]
    BY <1>1, <2>1, SubSeqProperties
  <2>3. L \in Nat /\ n \in Nat
    BY <1>2
  <2> SUFFICES Len(body) \in Nat /\ \A p \in 1..Len(body) : body[p] = lines[L + p]
    OBVIOUS
  <2>4. L < n
    BY <1>4
  <2> HIDE DEF L, n
  <2>5. n - (L + 1) + 1 = n - L /\ n - L \in Nat /\ \A i \in 1..(n - L) : L + 1 + i - 1 = L + i
    BY <2>3, <2>4
  <2> QED
    BY <2>2, <2>5
<1> QED
  BY <1>2, <1>3, <1>4

\* Moved by the header, a position of the body is that of its own line.
LEMMA ShiftLands ==
    ASSUME NEW Line, NEW lines \in Seq(Line),
           NEW body, body = SplitSnippet(lines).body,
           NEW pos \in 1..Len(body)
    PROVE  lines[Shifted(pos, Leading(lines))] = body[pos]
<1>1. Leading(lines) \in Nat /\ Len(body) \in Nat /\ body[pos] = lines[Leading(lines) + pos]
  BY LeadingFacts, BodyLines
<1>2. Shifted(pos, Leading(lines)) = pos + Leading(lines)
  BY <1>1 DEF Shifted
<1> QED
  BY <1>1, <1>2

\* So are the positions of a list of messages, moved one by one.
LEMMA ShiftAllLands ==
    ASSUME NEW Line, NEW lines \in Seq(Line),
           NEW body, body = SplitSnippet(lines).body,
           NEW before \in Seq(Spots(Len(body))),
           NEW after, (after = before /\ Leading(lines) = 0) \/ after = ShiftedAll(before, Leading(lines))
    PROVE  \A k \in DOMAIN before :
                /\ before[k].pos # 0 => lines[after[k].pos] = body[before[k].pos]
                /\ before[k].end # 0 => lines[after[k].end] = body[before[k].end]
<1> DEFINE L == Leading(lines)
<1>1. L \in Nat /\ Len(body) \in Nat
  BY LeadingFacts, BodyLines
<1> SUFFICES ASSUME NEW k \in DOMAIN before
             PROVE  /\ before[k].pos # 0 => lines[after[k].pos] = body[before[k].pos]
                    /\ before[k].end # 0 => lines[after[k].end] = body[before[k].end]
  OBVIOUS
<1>2. before[k].pos \in 0..Len(body) /\ before[k].end \in 0..Len(body)
  <2>1. before[k] \in Spots(Len(body))
    OBVIOUS
  <2> QED
    BY <2>1 DEF Spots
<1>3. /\ after[k].pos = Shifted(before[k].pos, L)
      /\ after[k].end = Shifted(before[k].end, L)
  <2>1. CASE after = before /\ L = 0
    BY <1>2, <2>1 DEF Shifted
  <2>2. CASE after = ShiftedAll(before, L)
    BY <2>2 DEF ShiftedAll
  <2> QED
    BY <2>1, <2>2
<1>4. before[k].pos # 0 => lines[Shifted(before[k].pos, L)] = body[before[k].pos]
  BY <1>1, <1>2, ShiftLands
<1>5. before[k].end # 0 => lines[Shifted(before[k].end, L)] = body[before[k].end]
  BY <1>1, <1>2, ShiftLands
<1> QED
  BY <1>3, <1>4, <1>5

\* Split, run and moved back, every position is that of the line Lean spoke of,
\* and every import is asked for once: for snippets and answers of any length.
THEOREM PositionsLandOnTheirLines ==
    ASSUME NEW Line, NEW lines \in Seq(Line),
           NEW response \in AnyRemarks(Len(SplitSnippet(lines).body))
    PROVE  PositionsFaithful(lines, response, SplitSnippet(lines),
               ApplyHeaderOffset(response, SplitSnippet(lines).header_line_count),
               OffsetMessages(response.messages, SplitSnippet(lines).header_line_count))
<1> DEFINE L == Leading(lines)
           body == SplitSnippet(lines).body
           told == ApplyHeaderOffset(response, L)
           exec == OffsetMessages(response.messages, L)
           Same(before, after) ==
                \A k \in DOMAIN before :
                    /\ before[k].pos # 0 => lines[after[k].pos] = body[before[k].pos]
                    /\ before[k].end # 0 => lines[after[k].end] = body[before[k].end]
<1>1. SplitSnippet(lines).header_line_count = L
  BY Zenon DEF SplitSnippet
<1>2. /\ response.messages \in Seq(Spots(Len(body)))
      /\ response.sorries \in Seq(Spots(Len(body)))
  BY DEF AnyRemarks
<1>3. L \in Nat
  BY LeadingFacts
<1>4. \A before \in Seq(Spots(Len(body))) : \A after :
        (after = before /\ L = 0) \/ after = ShiftedAll(before, L) => Same(before, after)
  BY ShiftAllLands
<1>5. Same(response.messages, exec)
  <2>1. (exec = response.messages /\ L = 0) \/ exec = ShiftedAll(response.messages, L)
    BY <1>3 DEF OffsetMessages
  <2> QED
    BY <1>2, <1>4, <2>1
<1>6. ~response.failed =>
        /\ Same(response.messages, told.messages)
        /\ response.messages # <<>> => Same(response.sorries, told.sorries)
  <2> SUFFICES ASSUME ~response.failed
               PROVE  /\ Same(response.messages, told.messages)
                      /\ response.messages # <<>> => Same(response.sorries, told.sorries)
    OBVIOUS
  <2>1. CASE L <= 0
    <3>1. told = response /\ L = 0
      BY <1>3, <2>1 DEF ApplyHeaderOffset
    <3> QED
      BY <1>2, <1>4, <3>1
  <2>2. CASE ~(L <= 0) /\ response.messages = <<>>
    <3>1. told = response
      BY <2>2 DEF ApplyHeaderOffset
    <3> QED
      BY <2>2, <3>1
  <2>3. CASE ~(L <= 0) /\ response.messages # <<>>
    <3>1. told = [response EXCEPT !.messages = ShiftedAll(@, L), !.sorries = ShiftedAll(@, L)]
      BY <2>3 DEF ApplyHeaderOffset
    <3>2. told.messages = ShiftedAll(response.messages, L) /\ told.sorries = ShiftedAll(response.sorries, L)
      BY <3>1 DEF AnyRemarks
    <3> QED
      BY <1>2, <1>4, <3>2
  <2> QED
    BY <2>1, <2>2, <2>3
<1>7. /\ IsInjective(SplitSnippet(lines).header)
      /\ \A k \in 1..L : lines[k] # "" => \E h \in ToSet(SplitSnippet(lines).header) :
            h = lines[k] \/ (h = "import Mathlib" /\ lines[k] \in Mathlib)
  BY HeaderCovers, Zenon
<1> HIDE DEF L, told, exec, body
<1> QED
  BY <1>1, <1>5, <1>6, <1>7, Zenon DEF PositionsFaithful, told, exec, L, body
----------------------------------------------------------------------------
\* The lists of s joined up to each of the first n, as FlattenSeq() joins them.
IsFlat(g, s, n) == g = [i \in 1..n |-> IF i = 1 THEN s[i] ELSE g[i - 1] \o s[i]]

LEMMA FlatExists ==
    ASSUME NEW s, NEW n \in Nat
    PROVE  \E g : IsFlat(g, s, n)
<1> DEFINE T == {k \in Nat : ~\E g : IsFlat(g, s, k)}
<1> SUFFICES ASSUME T # {}
             PROVE  FALSE
  OBVIOUS
<1>1. PICK k \in T : \A m \in T : k <= m
  BY LeastNat
<1>2. k # 0
  <2>1. IsFlat([i \in 1..0 |-> s[i]], s, 0)
    BY DEF IsFlat
  <2> QED
    BY <2>1
<1>3. PICK g : IsFlat(g, s, k - 1)
  <2>1. k - 1 \in Nat /\ ~(k <= k - 1)
    BY <1>1, <1>2
  <2> QED
    BY <1>1, <2>1
<1> DEFINE h == [i \in 1..k |-> IF i = 1 THEN s[i] ELSE g[i - 1] \o s[i]]
<1>4. \A i \in 1..(k - 1) : h[i] = g[i]
  <2> SUFFICES ASSUME NEW i \in 1..(k - 1)
               PROVE  h[i] = g[i]
    OBVIOUS
  <2>1. i \in 1..k
    BY <1>1
  <2>2. g[i] = IF i = 1 THEN s[i] ELSE g[i - 1] \o s[i]
    BY <1>3 DEF IsFlat
  <2> QED
    BY <2>1, <2>2
<1>5. IsFlat(h, s, k)
  <2>1. \A i \in 1..k : i # 1 => i - 1 \in 1..(k - 1)
    BY <1>1
  <2>2. \A i \in 1..k : i # 1 => h[i - 1] = g[i - 1]
    BY <2>1, <1>4
  <2> HIDE DEF T
  <2>3. \A i \in 1..k : h[i] = IF i = 1 THEN s[i] ELSE h[i - 1] \o s[i]
    BY <2>2
  <2> QED
    BY <2>3 DEF IsFlat
<1> QED
  BY <1>1, <1>5

LEMMA Flat ==
    ASSUME NEW s, Len(s) \in Nat, Len(s) # 0
    PROVE  \E g : IsFlat(g, s, Len(s)) /\ FlattenSeq(s) = g[Len(s)]
<1>1. PICK g : IsFlat(g, s, Len(s))
  BY FlatExists
<1> DEFINE f == CHOOSE f : IsFlat(f, s, Len(s))
<1>2. IsFlat(f, s, Len(s))
  BY <1>1
<1>3. FlattenSeq(s) = f[Len(s)]
  BY DEF FlattenSeq, IsFlat
<1> QED
  BY <1>2, <1>3

\* r joins the first n lists of s: its m-th is element `at[m]` of list `of[m]`,
\* list by list and in the order of each.
Joins(r, s, n, of, at) ==
    /\ of \in [1..Len(r) -> 1..n] /\ at \in [1..Len(r) -> Nat]
    /\ \A m \in 1..Len(r) : at[m] \in 1..Len(s[of[m]]) /\ r[m] = s[of[m]][at[m]]
    /\ \A m, k \in 1..Len(r) : m < k => of[m] < of[k] \/ (of[m] = of[k] /\ at[m] < at[k])
    /\ \A b \in 1..n : \A k \in 1..Len(s[b]) : \E m \in 1..Len(r) : of[m] = b /\ at[m] = k

LEMMA JoinNext ==
    ASSUME NEW R, NEW s \in Seq(Seq(R)), NEW n \in 1..(Len(s) - 1), NEW r \in Seq(R),
           NEW of, NEW at, Joins(r, s, n, of, at)
    PROVE  /\ r \o s[n + 1] \in Seq(R)
           /\ \E o, a : Joins(r \o s[n + 1], s, n + 1, o, a)
<1> DEFINE q == r \o s[n + 1]
           L == Len(r)
           K == Len(s[n + 1])
           o == [m \in 1..(L + K) |-> IF m <= L THEN of[m] ELSE n + 1]
           a == [m \in 1..(L + K) |-> IF m <= L THEN at[m] ELSE m - L]
<1>1. n + 1 \in 1..Len(s) /\ n \in Nat /\ s[n + 1] \in Seq(R)
  OBVIOUS
<1>2. L \in Nat /\ K \in Nat
  BY <1>1
<1>3. /\ q \in Seq(R) /\ Len(q) = L + K
      /\ \A m \in 1..(L + K) : q[m] = IF m <= L THEN r[m] ELSE s[n + 1][m - L]
  BY <1>1, ConcatProperties
<1>4. /\ of \in [1..L -> 1..n] /\ at \in [1..L -> Nat]
      /\ \A m \in 1..L : at[m] \in 1..Len(s[of[m]]) /\ r[m] = s[of[m]][at[m]]
      /\ \A m, k \in 1..L : m < k => of[m] < of[k] \/ (of[m] = of[k] /\ at[m] < at[k])
      /\ \A b \in 1..n : \A k \in 1..Len(s[b]) : \E m \in 1..L : of[m] = b /\ at[m] = k
  BY DEF Joins
<1>0. K = Len(s[n + 1])
  OBVIOUS
<1> HIDE DEF q, L, K
<1>5. \A m \in 1..(L + K) : /\ m <= L => m \in 1..L /\ o[m] = of[m] /\ a[m] = at[m]
                            /\ ~(m <= L) => m - L \in 1..K /\ o[m] = n + 1 /\ a[m] = m - L
  BY <1>2
<1>6. o \in [1..(L + K) -> 1..(n + 1)] /\ a \in [1..(L + K) -> Nat]
  <2>1. \A m \in 1..(L + K) : o[m] \in 1..(n + 1) /\ a[m] \in Nat
    BY <1>1, <1>2, <1>4, <1>5
  <2> QED
    BY <2>1
<1> HIDE DEF o, a
<1>7. \A m \in 1..(L + K) : a[m] \in 1..Len(s[o[m]]) /\ q[m] = s[o[m]][a[m]]
  <2> SUFFICES ASSUME NEW m \in 1..(L + K)
               PROVE  a[m] \in 1..Len(s[o[m]]) /\ q[m] = s[o[m]][a[m]]
    OBVIOUS
  <2>1. CASE m <= L
    <3>1. m \in 1..L /\ o[m] = of[m] /\ a[m] = at[m] /\ q[m] = r[m]
      BY <1>3, <1>5, <2>1
    <3> QED
      BY <1>4, <3>1
  <2>2. CASE ~(m <= L)
    <3>1. m - L \in 1..K /\ o[m] = n + 1 /\ a[m] = m - L /\ q[m] = s[n + 1][m - L]
      BY <1>3, <1>5, <2>2
    <3> QED
      BY <1>0, <3>1
  <2> QED
    BY <2>1, <2>2
<1>8. \A m, k \in 1..(L + K) : m < k => o[m] < o[k] \/ (o[m] = o[k] /\ a[m] < a[k])
  <2> SUFFICES ASSUME NEW m \in 1..(L + K), NEW k \in 1..(L + K), m < k
               PROVE  o[m] < o[k] \/ (o[m] = o[k] /\ a[m] < a[k])
    OBVIOUS
  <2>1. CASE k <= L
    BY <1>2, <1>4, <1>5, <2>1
  <2>2. CASE ~(k <= L) /\ m <= L
    <3>1. o[m] \in 1..n /\ o[k] = n + 1
      BY <1>4, <1>5, <2>2
    <3> QED
      BY <1>1, <3>1
  <2>3. CASE ~(k <= L) /\ ~(m <= L)
    BY <1>2, <1>5, <2>3
  <2> QED
    BY <1>2, <2>1, <2>2, <2>3
<1>9. \A b \in 1..(n + 1) : \A k \in 1..Len(s[b]) : \E m \in 1..(L + K) : o[m] = b /\ a[m] = k
  <2> SUFFICES ASSUME NEW b \in 1..(n + 1), NEW k \in 1..Len(s[b])
               PROVE  \E m \in 1..(L + K) : o[m] = b /\ a[m] = k
    OBVIOUS
  <2>1. CASE b = n + 1
    <3>1. k \in 1..K
      BY <1>0, <2>1
    <3>2. L + k \in 1..(L + K) /\ ~(L + k <= L) /\ (L + k) - L = k
      BY <1>2, <3>1
    <3>3. o[L + k] = b /\ a[L + k] = k
      BY <1>5, <2>1, <3>2
    <3> QED
      BY <3>2, <3>3
  <2>2. CASE b # n + 1
    <3>1. b \in 1..n
      BY <1>1, <2>2
    <3>2. PICK m \in 1..L : of[m] = b /\ at[m] = k
      BY <1>4, <3>1
    <3>3. m \in 1..(L + K) /\ m <= L
      BY <1>2
    <3> QED
      BY <1>5, <3>2, <3>3
  <2> QED
    BY <2>1, <2>2
<1>10. Joins(q, s, n + 1, o, a)
  BY <1>3, <1>6, <1>7, <1>8, <1>9 DEF Joins
<1> QED
  BY <1>3, <1>10 DEF q

\* What FlattenSeq() makes of lists joins them all.
LEMMA FlattenJoins ==
    ASSUME NEW R, NEW s \in Seq(Seq(R)), Len(s) # 0
    PROVE  /\ FlattenSeq(s) \in Seq(R)
           /\ \E of, at : Joins(FlattenSeq(s), s, Len(s), of, at)
<1>1. PICK g : IsFlat(g, s, Len(s)) /\ FlattenSeq(s) = g[Len(s)]
  BY Flat
<1> DEFINE n == Len(s)
           Good(k) == g[k] \in Seq(R) /\ \E of, at : Joins(g[k], s, k, of, at)
           T == {k \in 1..n : ~Good(k)}
<1>2. n \in Nat /\ n # 0
  OBVIOUS
<1>3. \A i \in 1..n : g[i] = IF i = 1 THEN s[i] ELSE g[i - 1] \o s[i]
  BY <1>1 DEF IsFlat
<1>4. Good(1)
  <2> DEFINE L == Len(s[1])
             of == [m \in 1..L |-> 1]
             at == [m \in 1..L |-> m]
  <2>1. g[1] = s[1] /\ s[1] \in Seq(R)
    BY <1>2, <1>3
  <2>2. Joins(s[1], s, 1, of, at)
    <3>1. L \in Nat
      BY <2>1
    <3> QED
      BY <3>1 DEF Joins
  <2> QED
    BY <2>1, <2>2
<1>5. T = {}
  <2> SUFFICES ASSUME T # {}
               PROVE  FALSE
    OBVIOUS
  <2>1. T \in SUBSET Nat
    OBVIOUS
  <2>2. PICK k \in T : \A m \in T : k <= m
    <3> HIDE DEF T
    <3> QED
      BY <2>1, LeastNat
  <2>3. k # 1
    BY <1>4, <2>2
  <2>4. k - 1 \in 1..(n - 1) /\ k \in 1..n
    BY <1>2, <2>2, <2>3
  <2>5. Good(k - 1)
    <3>1. k - 1 \notin T
      <4>1. k \in Nat /\ ~(k <= k - 1)
        BY <1>2, <2>4
      <4> HIDE DEF T
      <4> QED
        BY <2>2, <4>1
    <3> QED
      BY <1>2, <2>4, <3>1
  <2>6. PICK of, at : Joins(g[k - 1], s, k - 1, of, at)
    BY <2>5
  <2>7. g[k] = g[k - 1] \o s[(k - 1) + 1] /\ (k - 1) + 1 = k
    <3>1. k \in 1..n /\ k - 1 \in Nat /\ (k - 1) + 1 = k
      BY <1>2, <2>4
    <3> HIDE DEF T, n
    <3> QED
      BY <1>3, <2>3, <3>1
  <2>8. Good(k)
    BY <2>4, <2>5, <2>6, <2>7, JoinNext
  <2> QED
    BY <2>2, <2>8
<1>6. Good(n)
  BY <1>2, <1>5
<1> QED
  BY <1>1, <1>6

\* Where range(0, len(snippets), size) starts and ends its b-th batch of n.
BatchEnd(b, n, size) == IF b * size < n THEN b * size ELSE n
BatchCount(n, size) == (n + size - 1) \div size

LEMMA BatchStarts ==
    ASSUME NEW n \in Nat, NEW size \in Nat, size > 0
    PROVE  /\ BatchCount(n, size) \in Nat
           /\ \A b \in 1..BatchCount(n, size) : (b - 1) * size \in Nat /\ (b - 1) * size < n
           /\ \A b \in 1..BatchCount(n, size) : b * size = (b - 1) * size + size
<1> DEFINE N == BatchCount(n, size)
<1>1. N \in Nat /\ size * N <= n + size - 1
  <2>1. n + size - 1 \in Nat
    OBVIOUS
  <2> QED
    BY <2>1, DivFacts DEF BatchCount
<1> HIDE DEF N
<1>2. \A b \in 1..N : (b - 1) * size \in Nat /\ (b - 1) * size < n
  <2> SUFFICES ASSUME NEW b \in 1..N
               PROVE  (b - 1) * size \in Nat /\ (b - 1) * size < n
    OBVIOUS
  <2>1. b - 1 \in Nat /\ b - 1 <= N - 1 /\ N - 1 \in Nat
    BY <1>1
  <2>2. (b - 1) * size <= (N - 1) * size /\ (b - 1) * size \in Nat
    BY <2>1
  <2>3. (N - 1) * size = size * N - size
    BY <1>1
  <2> QED
    BY <1>1, <2>2, <2>3
<1>3. \A b \in 1..N : b * size = (b - 1) * size + size
  BY <1>1
<1> QED
  BY <1>1, <1>2, <1>3 DEF N

\* The batches are consecutive stretches of the snippets.
Stretches(Snippet, snippets, size, n, B) ==
    \A b \in 1..BatchCount(n, size) :
        /\ B[b] \in Seq(Snippet)
        /\ Len(B[b]) = BatchEnd(b, n, size) - (b - 1) * size
        /\ Len(B[b]) \in 1..size
        /\ BatchEnd(b, n, size) \in 1..n
        /\ \A k \in 1..Len(B[b]) : B[b][k] = snippets[(b - 1) * size + k]

LEMMA BatchFacts ==
    ASSUME NEW Snippet, NEW snippets \in Seq(Snippet), NEW size \in Nat, size > 0
    PROVE  Stretches(Snippet, snippets, size, Len(snippets), Batches(snippets, size))
<1> DEFINE n == Len(snippets)
           B == Batches(snippets, size)
<1> SUFFICES ASSUME NEW b \in 1..BatchCount(n, size)
             PROVE  /\ B[b] \in Seq(Snippet)
                    /\ Len(B[b]) = BatchEnd(b, n, size) - (b - 1) * size
                    /\ Len(B[b]) \in 1..size
                    /\ BatchEnd(b, n, size) \in 1..n
                    /\ \A k \in 1..Len(B[b]) : B[b][k] = snippets[(b - 1) * size + k]
  BY DEF Stretches
<1> DEFINE lo == (b - 1) * size
           hi == BatchEnd(b, n, size)
           batch == B[b]
<1>1. n \in Nat
  OBVIOUS
<1>2. lo \in Nat /\ lo < n /\ b * size = lo + size
  BY <1>1, BatchStarts
<1>3. hi \in 1..n /\ lo + 1 <= hi /\ hi <= lo + size
  BY <1>1, <1>2 DEF BatchEnd
<1>4. batch = SubSeq(snippets, lo + 1, hi)
  BY DEF Batches, BatchCount, BatchEnd
<1> HIDE DEF lo, hi, batch
<1>5. \A i \in (lo + 1)..hi : snippets[i] \in Snippet
  BY <1>2, <1>3
<1>6. /\ batch \in Seq(Snippet)
      /\ Len(batch) = hi - (lo + 1) + 1
      /\ \A i \in 1..(hi - (lo + 1) + 1) : batch[i] = snippets[lo + 1 + i - 1]
  <2>1. lo + 1 \in Int /\ hi \in Int
    BY <1>2, <1>3
  <2> QED
    BY <1>3, <1>4, <1>5, <2>1, SubSeqProperties
<1>7. hi - (lo + 1) + 1 = hi - lo /\ \A i \in 1..(hi - lo) : lo + 1 + i - 1 = lo + i
  BY <1>2, <1>3
<1>8. hi - lo \in 1..size
  BY <1>2, <1>3
<1> QED
  BY <1>3, <1>6, <1>7, <1>8 DEF lo, hi, batch

\* Every snippet is in a batch, and in one only.
LEMMA BatchOf ==
    ASSUME NEW n \in Nat, NEW size \in Nat, size > 0, NEW i \in 1..n
    PROVE  \E b \in 1..BatchCount(n, size) :
                \E k \in 1..(BatchEnd(b, n, size) - (b - 1) * size) : i = (b - 1) * size + k
<1> DEFINE q == (i - 1) \div size
           b == q + 1
           k == i - (b - 1) * size
<1>1. i - 1 \in Nat /\ n + size - 1 \in Nat /\ (i - 1) + size <= n + size - 1
  OBVIOUS
<1>2. q \in Nat /\ size * q <= i - 1 /\ i - 1 < size * q + size
  BY <1>1, DivFacts
<1>3. q + 1 <= BatchCount(n, size)
  BY <1>1, DivStep DEF BatchCount
<1> HIDE DEF q
<1>4. b \in 1..BatchCount(n, size)
  BY <1>1, <1>2, <1>3, BatchStarts
<1>5. (b - 1) * size = size * q /\ b * size = size * q + size /\ size * q \in Nat
  BY <1>2
<1>6. k \in 1..(BatchEnd(b, n, size) - (b - 1) * size)
  BY <1>2, <1>5 DEF BatchEnd
<1>7. i = (b - 1) * size + k
  BY <1>5
<1> QED
  BY <1>4, <1>6, <1>7

LEMMA BatchOrder ==
    ASSUME NEW size \in Nat, size > 0, NEW b \in Nat \ {0}, NEW c \in Nat \ {0}, b < c,
           NEW k \in 1..size, NEW l \in 1..size
    PROVE  (b - 1) * size + k < (c - 1) * size + l
<1>1. b - 1 \in Nat /\ c - 1 \in Nat /\ b <= c - 1
  OBVIOUS
<1>2. b * size <= (c - 1) * size
  BY <1>1
<1>3. b * size = (b - 1) * size + size /\ (b - 1) * size \in Nat /\ (c - 1) * size \in Nat
  BY <1>1
<1> QED
  BY <1>2, <1>3

\* A map of 1..n onto itself that keeps their order moves none.
LEMMA InOrder ==
    ASSUME NEW n \in Nat, NEW h \in [1..n -> 1..n],
           \A m, k \in 1..n : m < k => h[m] < h[k],
           \A i \in 1..n : \E m \in 1..n : h[m] = i
    PROVE  \A m \in 1..n : h[m] = m
<1> DEFINE T == {m \in 1..n : h[m] # m}
<1> SUFFICES ASSUME T # {}
             PROVE  FALSE
  OBVIOUS
<1>1. PICK m \in T : \A k \in T : m <= k
  <2>1. T \in SUBSET Nat
    OBVIOUS
  <2> HIDE DEF T
  <2> QED
    BY <2>1, LeastNat
<1>2. m \in 1..n /\ h[m] # m /\ \A k \in 1..n : k < m => h[k] = k
  BY <1>1
<1>3. h[m] > m
  <2>1. CASE m = 1
    BY <1>2, <2>1
  <2>2. CASE m # 1
    <3>1. m - 1 \in 1..n /\ m - 1 < m
      BY <1>2, <2>2
    <3>2. h[m - 1] = m - 1 /\ h[m - 1] < h[m] /\ h[m] \in 1..n
      BY <1>2, <3>1
    <3> QED
      BY <1>2, <3>2
  <2> QED
    BY <2>1, <2>2
<1>4. PICK k \in 1..n : h[k] = m
  BY <1>2
<1>5. ~(k < m) /\ k # m
  BY <1>2, <1>4
<1>6. h[m] < h[k]
  BY <1>2, <1>5
<1> QED
  BY <1>2, <1>3, <1>4, <1>6

\* Counting along a map that is one-to-one and onto.
LEMMA CountAlong ==
    ASSUME NEW S, IsFiniteSet(S), NEW T, NEW f,
           \A x \in S : f[x] \in T,
           \A x, y \in S : f[x] = f[y] => x = y,
           \A t \in T : \E x \in S : f[x] = t
    PROVE  Cardinality(S) = Cardinality(T)
<1> DEFINE h == [x \in S |-> f[x]]
<1>1. h \in [S -> T] /\ (\A x, y \in S : h[x] = h[y] => x = y) /\ \A t \in T : \E x \in S : h[x] = t
  OBVIOUS
<1> HIDE DEF h
<1>2. h \in Bijection(S, T)
  BY <1>1, Fun_IsBij
<1>3. ExistsBijection(S, T)
  BY <1>2 DEF ExistsBijection
<1> QED
  BY <1>3, FS_Bijection

\* Every snippet of a check is answered once, with its own answer or the error of
\* its own batch: for any snippets, batch size, failing batches and order of merging.
THEOREM EverySnippetAnsweredOnce ==
    ASSUME NEW Snippet, NEW snippets \in Seq(Snippet), snippets # <<>>,
           NEW size \in Nat, size > 0, NEW own, NEW failing,
           NEW order \in [1..Len(Batches(snippets, size)) -> 1..Len(Batches(snippets, size))],
           IsInjective(order)
    PROVE  AnsweredOnce(snippets, size, own, failing, order,
                        Merge(snippets, size, own, failing, order))
<1> DEFINE n == Len(snippets)
           N == BatchCount(n, size)
           B == Batches(snippets, size)
           s == [b \in 1..N |-> ApiCheck(B[order[b]], own, order[b] \in failing)]
           r == Merge(snippets, size, own, failing, order)
           R == [id : Snippet, answer : {"request"} \cup {own[x] : x \in Snippet}]
           Fails(b) == b \in failing \/ ~IsInjective(B[b])
<1>1. n \in Nat /\ n > 0 /\ N \in Nat
  <2>1. n \in Nat /\ n > 0
    OBVIOUS
  <2> QED
    BY <2>1, BatchStarts
<1>2. DOMAIN B = 1..N /\ Len(B) = N
  BY <1>1 DEF Batches, BatchCount
<1>3. order \in [1..N -> 1..N] /\ \A b, c \in 1..N : order[b] = order[c] => b = c
  BY <1>2 DEF IsInjective
<1>4. \A b \in 1..N : \E c \in 1..N : order[c] = b
  <2>1. order \in Injection(1..N, 1..N)
    BY <1>3, Fun_IsInj
  <2>2. IsFiniteSet(1..N)
    BY <1>1, FS_Interval
  <2>3. order \in Surjection(1..N, 1..N)
    BY <2>1, <2>2, FS_Injection
  <2> QED
    BY <2>3 DEF Surjection
<1>5. \A b \in 1..N :
        /\ B[b] \in Seq(Snippet)
        /\ Len(B[b]) = BatchEnd(b, n, size) - (b - 1) * size
        /\ Len(B[b]) \in 1..size
        /\ BatchEnd(b, n, size) \in 1..n
        /\ \A k \in 1..Len(B[b]) : B[b][k] = snippets[(b - 1) * size + k]
  <2>1. Stretches(Snippet, snippets, size, n, B)
    BY BatchFacts
  <2> HIDE DEF B, n
  <2> QED
    BY <2>1 DEF Stretches
<1>6. \A b \in 1..N : (b - 1) * size \in Nat
  BY <1>1, BatchStarts
<1>7. r = FlattenSeq(s)
  BY <1>2 DEF Merge
<1> HIDE DEF B, N, r, n, R
<1>8. \A b \in 1..N : /\ s[b] \in Seq(R) /\ Len(s[b]) = Len(B[order[b]])
                       /\ \A k \in 1..Len(s[b]) :
                            /\ s[b][k].id = B[order[b]][k]
                            /\ s[b][k].answer = IF Fails(order[b]) THEN "request" ELSE own[B[order[b]][k]]
  <2> SUFFICES ASSUME NEW b \in 1..N
               PROVE  /\ s[b] \in Seq(R) /\ Len(s[b]) = Len(B[order[b]])
                      /\ \A k \in 1..Len(s[b]) :
                            /\ s[b][k].id = B[order[b]][k]
                            /\ s[b][k].answer = IF Fails(order[b]) THEN "request" ELSE own[B[order[b]][k]]
    OBVIOUS
  <2> DEFINE batch == B[order[b]]
             L == Len(batch)
             fate == Fails(order[b])
  <2>1. batch \in Seq(Snippet) /\ L \in Nat /\ DOMAIN batch = 1..L
    <3>1. order[b] \in 1..N
      BY <1>3
    <3>2. batch \in Seq(Snippet)
      BY <1>5, <3>1
    <3> HIDE DEF batch
    <3> QED
      BY <3>2
  <2>2. s[b] = [k \in DOMAIN batch |-> [id |-> batch[k], answer |-> IF fate THEN "request" ELSE own[batch[k]]]]
    BY DEF ApiCheck
  <2> HIDE DEF batch, L, fate, s
  <2>3. s[b] = [k \in 1..L |-> [id |-> batch[k], answer |-> IF fate THEN "request" ELSE own[batch[k]]]]
    BY <2>1, <2>2
  <2>4. \A k \in 1..L : batch[k] \in Snippet
    BY <2>1
  <2>5. \A k \in 1..L : /\ s[b][k] \in R
                         /\ s[b][k].id = batch[k]
                         /\ s[b][k].answer = IF fate THEN "request" ELSE own[batch[k]]
    BY <2>3, <2>4 DEF R
  <2>6. s[b] \in Seq(R) /\ Len(s[b]) = L
    BY <2>1, <2>3, <2>5
  <2> QED
    BY <2>5, <2>6 DEF batch, L, fate
<1>9. s \in Seq(Seq(R)) /\ Len(s) = N
  BY <1>1, <1>8
<1>10. N # 0
  <2>1. 1 \in 1..n
    BY <1>1
  <2>2. \E b \in 1..N : TRUE
    BY <1>1, <2>1, BatchOf DEF N
  <2> QED
    BY <2>2
<1>11. PICK of, at : r \in Seq(R) /\ Joins(r, s, N, of, at)
  BY <1>7, <1>9, <1>10, FlattenJoins
<1> HIDE DEF s
<1> DEFINE L == Len(r)
           h == [m \in 1..L |-> (order[of[m]] - 1) * size + at[m]]
<1>12. L \in Nat /\ DOMAIN r = 1..L
  BY <1>11
<1> HIDE DEF L
<1>13. /\ of \in [1..L -> 1..N] /\ at \in [1..L -> Nat]
       /\ \A m \in 1..L : at[m] \in 1..Len(s[of[m]]) /\ r[m] = s[of[m]][at[m]]
       /\ \A m, k \in 1..L : m < k => of[m] < of[k] \/ (of[m] = of[k] /\ at[m] < at[k])
       /\ \A b \in 1..N : \A k \in 1..Len(s[b]) : \E m \in 1..L : of[m] = b /\ at[m] = k
  BY <1>11 DEF Joins, L
<1>14. \A m \in 1..L : /\ of[m] \in 1..N /\ order[of[m]] \in 1..N
                        /\ at[m] \in 1..Len(B[order[of[m]]]) /\ at[m] \in 1..size
  <2> SUFFICES ASSUME NEW m \in 1..L
               PROVE  /\ of[m] \in 1..N /\ order[of[m]] \in 1..N
                      /\ at[m] \in 1..Len(B[order[of[m]]]) /\ at[m] \in 1..size
    OBVIOUS
  <2>1. of[m] \in 1..N /\ at[m] \in 1..Len(s[of[m]])
    BY <1>13
  <2>2. order[of[m]] \in 1..N
    BY <1>3, <2>1
  <2>3. Len(s[of[m]]) = Len(B[order[of[m]]])
    BY <1>8, <2>1
  <2>4. Len(B[order[of[m]]]) \in 1..size
    BY <1>5, <2>2
  <2>5. \A l \in 1..size : \A i \in 1..l : i \in 1..size
    OBVIOUS
  <2> QED
    BY <2>1, <2>2, <2>3, <2>4, <2>5
<1>15. \A m \in 1..L :
         /\ h[m] \in 1..n
         /\ snippets[h[m]] = B[order[of[m]]][at[m]]
         /\ r[m].id = snippets[h[m]]
         /\ r[m].answer = IF Fails(order[of[m]]) THEN "request" ELSE own[r[m].id]
  <2> SUFFICES ASSUME NEW m \in 1..L
               PROVE  /\ h[m] \in 1..n
                      /\ snippets[h[m]] = B[order[of[m]]][at[m]]
                      /\ r[m].id = snippets[h[m]]
                      /\ r[m].answer = IF Fails(order[of[m]]) THEN "request" ELSE own[r[m].id]
    OBVIOUS
  <2> DEFINE b == order[of[m]]
             k == at[m]
  <2>1. b \in 1..N /\ k \in 1..Len(B[b])
    BY <1>14
  <2>2. h[m] = (b - 1) * size + k
    OBVIOUS
  <2>3. r[m].id = B[b][k] /\ r[m].answer = IF Fails(b) THEN "request" ELSE own[B[b][k]]
    <3>1. of[m] \in 1..N /\ at[m] \in 1..Len(s[of[m]]) /\ r[m] = s[of[m]][at[m]]
      BY <1>13
    <3>2. Len(s[of[m]]) = Len(B[b]) /\ at[m] \in 1..Len(s[of[m]])
      BY <1>8, <3>1
    <3>3. \A i \in 1..Len(s[of[m]]) : /\ s[of[m]][i].id = B[b][i]
                                       /\ s[of[m]][i].answer = IF Fails(b) THEN "request" ELSE own[B[b][i]]
      BY <1>8, <3>1
    <3> QED
      BY <3>1, <3>3, Zenon
  <2> HIDE DEF b, k, h, Fails
  <2>4. B[b][k] = snippets[(b - 1) * size + k]
    BY <1>5, <2>1
  <2>5. (b - 1) * size + k \in 1..n
    <3> DEFINE lo == (b - 1) * size
    <3>1. lo \in Nat /\ Len(B[b]) = BatchEnd(b, n, size) - lo /\ BatchEnd(b, n, size) \in 1..n
      BY <1>5, <1>6, <2>1
    <3> HIDE DEF lo
    <3>2. lo + k \in 1..n
      BY <1>1, <2>1, <3>1
    <3> QED
      BY <3>2 DEF lo
  <2> QED
    BY <2>2, <2>3, <2>4, <2>5 DEF b, k
<1>16. \A m, l \in 1..L : h[m] = h[l] => m = l
  <2> SUFFICES ASSUME NEW m \in 1..L, NEW l \in 1..L, m < l, h[m] = h[l]
               PROVE  FALSE
    BY <1>12
  <2> DEFINE b == order[of[m]]
             c == order[of[l]]
  <2>1. /\ b \in 1..N /\ c \in 1..N /\ at[m] \in 1..size /\ at[l] \in 1..size
        /\ of[m] \in 1..N /\ of[l] \in 1..N
    BY <1>14
  <2>2. (b - 1) * size + at[m] = (c - 1) * size + at[l]
    OBVIOUS
  <2>3. /\ b \in Nat \ {0} /\ c \in Nat \ {0} /\ (b - 1) * size \in Nat /\ (c - 1) * size \in Nat
    <3> HIDE DEF b, c
    <3>1. b \in Nat \ {0} /\ c \in Nat \ {0}
      <4>1. \A x \in 1..N : x \in Nat \ {0}
        BY <1>1
      <4> QED
        BY <2>1, <4>1
    <3> QED
      BY <1>6, <2>1, <3>1
  <2>4. b = c => of[m] = of[l]
    BY <1>3, <2>1
  <2>5. of[m] = of[l] => at[m] < at[l]
    BY <1>1, <1>13, <2>1
  <2> HIDE DEF b, c, h
  <2>6. ~(b < c)
    <3>1. b < c => (b - 1) * size + at[m] < (c - 1) * size + at[l]
      BY <2>1, <2>3, BatchOrder
    <3> DEFINE x == (b - 1) * size
               y == (c - 1) * size
    <3> HIDE DEF x, y
    <3>2. x \in Nat /\ y \in Nat /\ x + at[m] = y + at[l] /\ (b < c => x + at[m] < y + at[l])
      BY <2>2, <2>3, <3>1 DEF x, y
    <3> QED
      BY <2>1, <3>2
  <2>7. ~(c < b)
    <3>1. c < b => (c - 1) * size + at[l] < (b - 1) * size + at[m]
      BY <2>1, <2>3, BatchOrder
    <3> DEFINE x == (b - 1) * size
               y == (c - 1) * size
    <3> HIDE DEF x, y
    <3>2. x \in Nat /\ y \in Nat /\ x + at[m] = y + at[l] /\ (c < b => y + at[l] < x + at[m])
      BY <2>2, <2>3, <3>1 DEF x, y
    <3> QED
      BY <2>1, <3>2
  <2>8. b = c
    BY <2>3, <2>6, <2>7
  <2>9. at[m] < at[l]
    BY <2>4, <2>5, <2>8
  <2> DEFINE x == (b - 1) * size
  <2>10. x \in Nat /\ x + at[m] = x + at[l]
    BY <2>2, <2>3, <2>8
  <2> HIDE DEF x
  <2> QED
    BY <2>1, <2>9, <2>10
<1>17. \A i \in 1..n : \E m \in 1..L : h[m] = i
  <2> SUFFICES ASSUME NEW i \in 1..n
               PROVE  \E m \in 1..L : h[m] = i
    OBVIOUS
  <2>1. PICK b \in 1..N : \E k \in 1..(BatchEnd(b, n, size) - (b - 1) * size) : i = (b - 1) * size + k
    BY <1>1, BatchOf DEF N
  <2>2. PICK k \in 1..Len(B[b]) : i = (b - 1) * size + k
    BY <1>5, <2>1
  <2>3. PICK c \in 1..N : order[c] = b
    BY <1>4
  <2>4. PICK m \in 1..L : of[m] = c /\ at[m] = k
    <3>1. Len(s[c]) = Len(B[b])
      BY <1>8, <2>3
    <3> QED
      BY <1>13, <3>1
  <2> QED
    BY <2>2, <2>3, <2>4
<1>18. L = n
  <2>1. IsFiniteSet(1..L) /\ Cardinality(1..L) = L /\ Cardinality(1..n) = n
    BY <1>1, <1>12, FS_Interval
  <2>2. \A m \in 1..L : h[m] \in 1..n
    BY <1>15
  <2> HIDE DEF h
  <2>3. Cardinality(1..L) = Cardinality(1..n)
    <3> DEFINE S == 1..L
               T == 1..n
    <3>1. /\ IsFiniteSet(S)
          /\ \A x \in S : h[x] \in T
          /\ \A x, y \in S : h[x] = h[y] => x = y
          /\ \A t \in T : \E x \in S : h[x] = t
      BY <1>16, <1>17, <2>1, <2>2
    <3> HIDE DEF S, T
    <3>2. Cardinality(S) = Cardinality(T)
      BY <3>1, CountAlong
    <3> QED
      BY <3>2 DEF S, T
  <2> QED
    BY <2>1, <2>3
<1>19. \A x \in ToSet(snippets) :
          /\ Cardinality({k \in DOMAIN r : r[k].id = x}) = Cardinality({k \in DOMAIN snippets : snippets[k] = x})
          /\ \A k \in DOMAIN r : r[k].id = x =>
               \/ r[k].answer = own[x]
               \/ /\ r[k].answer = "request"
                  /\ \E b \in DOMAIN B : Contains(B[b], x) /\ (b \in failing \/ ~IsInjective(B[b]))
  <2> SUFFICES ASSUME NEW x \in ToSet(snippets)
               PROVE  /\ Cardinality({k \in DOMAIN r : r[k].id = x}) = Cardinality({k \in DOMAIN snippets : snippets[k] = x})
                      /\ \A k \in DOMAIN r : r[k].id = x =>
                            \/ r[k].answer = own[x]
                            \/ /\ r[k].answer = "request"
                               /\ \E b \in DOMAIN B : Contains(B[b], x) /\ (b \in failing \/ ~IsInjective(B[b]))
    OBVIOUS
  <2> DEFINE S == {k \in DOMAIN r : r[k].id = x}
             T == {k \in DOMAIN snippets : snippets[k] = x}
  <2>1. DOMAIN snippets = 1..n
    BY DEF n
  <2>2. IsFiniteSet(S)
    <3>1. IsFiniteSet(1..L) /\ S \subseteq 1..L
      BY <1>12, FS_Interval
    <3> QED
      BY <3>1, FS_Subset
  <2>3. /\ \A k \in S : h[k] \in T
        /\ \A k, l \in S : h[k] = h[l] => k = l
        /\ \A i \in T : \E k \in S : h[k] = i
    <3>1. \A k \in S : k \in 1..L /\ r[k].id = x
      BY <1>12
    <3>2. \A k \in 1..L : r[k].id = x => k \in S
      BY <1>12
    <3>3. \A i \in T : i \in 1..n /\ snippets[i] = x
      BY <2>1
    <3>4. \A i \in 1..n : snippets[i] = x => i \in T
      BY <2>1
    <3> HIDE DEF S, T, h
    <3> QED
      BY <1>15, <1>16, <1>17, <3>1, <3>2, <3>3, <3>4
  <2>4. Cardinality(S) = Cardinality(T)
    <3> HIDE DEF S, T, h
    <3> QED
      BY <2>2, <2>3, CountAlong
  <2>5. ASSUME NEW k \in DOMAIN r, r[k].id = x
        PROVE  \/ r[k].answer = own[x]
               \/ /\ r[k].answer = "request"
                  /\ \E b \in DOMAIN B : Contains(B[b], x) /\ (b \in failing \/ ~IsInjective(B[b]))
    <3> DEFINE b == order[of[k]]
    <3>1. k \in 1..L
      BY <1>12, <2>5
    <3>2. b \in 1..N /\ at[k] \in 1..Len(B[b]) /\ B[b][at[k]] = x
      BY <1>14, <1>15, <2>5, <3>1
    <3>3. Contains(B[b], x)
      BY <3>2 DEF Contains
    <3>4. r[k].answer = IF Fails(b) THEN "request" ELSE own[x]
      BY <1>15, <2>5, <3>1
    <3> HIDE DEF b
    <3>5. CASE Fails(b)
      BY <1>2, <3>2, <3>3, <3>4, <3>5
    <3>6. CASE ~Fails(b)
      BY <3>4, <3>6
    <3> QED
      BY <3>5, <3>6
  <2> QED
    BY <2>4, <2>5
<1>20. (\A b \in DOMAIN order : order[b] = b) => [k \in DOMAIN r |-> r[k].id] = snippets
  <2> SUFFICES ASSUME \A b \in DOMAIN order : order[b] = b
               PROVE  [k \in DOMAIN r |-> r[k].id] = snippets
    OBVIOUS
  <2>1. \A b \in 1..N : order[b] = b
    BY <1>3
  <2>2. \A m \in 1..L : of[m] \in 1..N /\ order[of[m]] = of[m] /\ at[m] \in 1..size /\ h[m] = (of[m] - 1) * size + at[m]
    BY <1>14, <2>1
  <2>3. h \in [1..n -> 1..n]
    BY <1>15, <1>18
  <2> HIDE DEF h
  <2>4. ASSUME NEW m \in 1..n, NEW k \in 1..n, m < k
        PROVE  h[m] < h[k]
    <3>1. m \in 1..L /\ k \in 1..L
      BY <1>18
    <3>2. of[m] < of[k] \/ (of[m] = of[k] /\ at[m] < at[k])
      BY <1>13, <2>4, <3>1
    <3>3. CASE of[m] < of[k]
      <4>1. /\ of[m] \in Nat \ {0} /\ of[k] \in Nat \ {0} /\ at[m] \in 1..size /\ at[k] \in 1..size
            /\ h[m] = (of[m] - 1) * size + at[m] /\ h[k] = (of[k] - 1) * size + at[k]
        <5>1. of[m] \in 1..N /\ of[k] \in 1..N
          BY <2>2, <3>1
        <5>2. of[m] \in Nat \ {0} /\ of[k] \in Nat \ {0}
          BY <1>1, <5>1
        <5> QED
          BY <2>2, <3>1, <5>2
      <4>2. (of[m] - 1) * size + at[m] < (of[k] - 1) * size + at[k]
        BY <3>3, <4>1, BatchOrder
      <4> QED
        BY <4>1, <4>2
    <3>4. CASE of[m] = of[k] /\ at[m] < at[k]
      <4> DEFINE x == (of[m] - 1) * size
      <4>1. /\ x \in Nat /\ at[m] \in 1..size /\ at[k] \in 1..size
            /\ h[m] = x + at[m] /\ h[k] = x + at[k]
        <5>1. x \in Nat
          BY <1>6, <2>2, <3>1
        <5> QED
          BY <2>2, <3>1, <3>4, <5>1
      <4> HIDE DEF x
      <4> QED
        BY <3>4, <4>1
    <3> QED
      BY <3>2, <3>3, <3>4
  <2>5. \A m \in 1..n : h[m] = m
    <3>1. \A m, k \in 1..n : m < k => h[m] < h[k]
      BY <2>4
    <3>2. \A i \in 1..n : \E m \in 1..n : h[m] = i
      BY <1>17, <1>18
    <3> QED
      BY <1>1, <2>3, <3>1, <3>2, InOrder
  <2>6. \A m \in 1..n : r[m].id = snippets[m]
    BY <1>15, <1>18, <2>5
  <2>7. snippets = [m \in 1..n |-> snippets[m]]
    BY DEF n
  <2> QED
    BY <1>12, <1>18, <2>6, <2>7
<1>21. Len(r) = Len(snippets)
  BY <1>18 DEF L, n
<1> HIDE DEF h, L, Fails
<1> QED
  BY <1>19, <1>20, <1>21, Zenon DEF AnsweredOnce, r, B
----------------------------------------------------------------------------
\* The values of a configuration: some fields of it, or all.
SomeValues ==
    {g \in [Fields -> Int \cup BOOLEAN \cup {Absent}] :
        /\ g.unbounded \in BOOLEAN \cup {Absent}
        /\ \A f \in Fields \ {"unbounded"} : g[f] \in Int \cup {Absent}}

AllValues == {g \in SomeValues : \A f \in Fields : g[f] # Absent}

AnyMachine == [cpus : Int, memory : Int \cup {Absent}]

\* Neither truth value is the absent one, so an absent opt-in is like a refused.
LEMMA TruthIsPresent == TRUE # Absent /\ FALSE # Absent
<1>1. \A v \in BOOLEAN : v # Absent
  BY AbsentAssumption, Zenon
<1>2. TRUE \in BOOLEAN /\ FALSE \in BOOLEAN
  OBVIOUS
<1> QED
  BY <1>1, <1>2, Zenon

LEMMA OptInAbsent ==
    ASSUME NEW u \in BOOLEAN \cup {Absent}
    PROVE  Or(u, FALSE) = (u = TRUE)
<1>1. u = TRUE \/ u = FALSE \/ u = Absent
  <2>1. u \in BOOLEAN \/ u = Absent
    OBVIOUS
  <2>2. u \in BOOLEAN => u = TRUE \/ u = FALSE
    BY Zenon
  <2> QED
    BY <2>1, <2>2, Zenon
<1>2. CASE u = TRUE
  BY <1>2, TruthIsPresent, Zenon DEF Or
<1>3. CASE u = FALSE
  BY <1>3, TruthIsPresent, Zenon DEF Or
<1>4. CASE u = Absent
  <2>1. (u = TRUE) = FALSE
    BY <1>4, TruthIsPresent, Zenon
  <2> QED
    BY <1>4, <2>1, TruthIsPresent, Zenon DEF Or
<1> QED
  BY <1>1, <1>2, <1>3, <1>4, Zenon

\* A populated configuration keeps what it was given.
LEMMA PopulatedKeeps ==
    ASSUME NEW given, NEW machine, NEW f \in Fields, given[f] # Absent
    PROVE  Populated(given, machine)[f] = given[f]
<1> DEFINE p == Populated(given, machine)
<1>1. /\ p["port"] = Or(given.port, 8000) /\ p["workers"] = Or(given.workers, WorkerCount(machine))
      /\ p["lanes"] = Or(given.lanes, p["workers"]) /\ p["width"] = Or(given.width, p["workers"])
      /\ p["in_flight"] = Or(given.in_flight, InFlightFor(p["workers"]))
      /\ p["queued"] = Or(given.queued, QueuedFor(p["in_flight"]))
      /\ p["items"] = Or(given.items, 1024) /\ p["tactics"] = Or(given.tactics, 64)
      /\ p["attempts"] = Or(given.attempts, 8192) /\ p["bytes"] = Or(given.bytes, 16)
      /\ p["calls"] = Or(given.calls, 8) /\ p["unbounded"] = Or(given.unbounded, FALSE)
  BY DEF Populated
<1> HIDE DEF p
<1>2. f \in {"port", "workers", "lanes", "width", "in_flight", "queued"} => p[f] = given[f]
  BY <1>1 DEF Or
<1>3. f \in {"items", "tactics", "attempts", "bytes", "calls"} => p[f] = given[f]
  BY <1>1 DEF Or
<1>4. f = "unbounded" => p[f] = given[f]
  BY <1>1 DEF Or
<1> QED
  BY <1>2, <1>3, <1>4 DEF Fields, p

\* Every field of a populated configuration has a value.
LEMMA PopulatedHasAll ==
    ASSUME NEW given \in SomeValues, NEW machine \in AnyMachine
    PROVE  Populated(given, machine) \in AllValues
<1> DEFINE W == Or(given.workers, WorkerCount(machine))
           I == Or(given.in_flight, InFlightFor(W))
           c == Populated(given, machine)
<1>1. /\ \A f \in Fields \ {"unbounded"} : given[f] \in Int \cup {Absent}
      /\ given.unbounded \in BOOLEAN \cup {Absent}
  BY DEF SomeValues
<1>2. WorkerCount(machine) \in Int
  BY DEF WorkerCount, Greater, Lesser, AnyMachine
<1>3. W \in Int
  BY <1>1, <1>2 DEF Or, Fields
<1>4. \A v \in Int : InFlightFor(v) \in Int /\ QueuedFor(v) \in Int
  BY DEF InFlightFor, QueuedFor, Greater, Lesser
<1>5. I \in Int
  BY <1>1, <1>3, <1>4 DEF Or, Fields
<1> HIDE DEF W, I
<1>6. c = [port |-> Or(given.port, 8000), workers |-> W,
        lanes |-> Or(given.lanes, W), width |-> Or(given.width, W),
        in_flight |-> I, queued |-> Or(given.queued, QueuedFor(I)),
        items |-> Or(given.items, 1024), tactics |-> Or(given.tactics, 64),
        attempts |-> Or(given.attempts, 8192), bytes |-> Or(given.bytes, 16),
        calls |-> Or(given.calls, 8), unbounded |-> Or(given.unbounded, FALSE)]
  BY DEF Populated, W, I
<1>7. /\ Or(given.port, 8000) \in Int /\ Or(given.lanes, W) \in Int
      /\ Or(given.width, W) \in Int /\ Or(given.queued, QueuedFor(I)) \in Int
      /\ Or(given.items, 1024) \in Int /\ Or(given.tactics, 64) \in Int
      /\ Or(given.attempts, 8192) \in Int /\ Or(given.bytes, 16) \in Int
      /\ Or(given.calls, 8) \in Int
  <2>1. QueuedFor(I) \in Int
    BY <1>4, <1>5
  <2>2. \A f \in Fields \ {"unbounded"}, v \in Int : Or(given[f], v) \in Int
    BY <1>1 DEF Or
  <2>3. \A f \in {"port", "lanes", "width", "queued", "items", "tactics", "attempts", "bytes", "calls"} :
            f \in Fields \ {"unbounded"}
    BY DEF Fields
  <2>4. /\ Or(given["port"], 8000) \in Int /\ Or(given["lanes"], W) \in Int
        /\ Or(given["width"], W) \in Int /\ Or(given["queued"], QueuedFor(I)) \in Int
    BY <1>3, <2>1, <2>2, <2>3
  <2>5. /\ Or(given["items"], 1024) \in Int /\ Or(given["tactics"], 64) \in Int
        /\ Or(given["attempts"], 8192) \in Int /\ Or(given["bytes"], 16) \in Int
        /\ Or(given["calls"], 8) \in Int
    BY <2>2, <2>3
  <2> QED
    BY <2>4, <2>5
<1>8. Or(given.unbounded, FALSE) \in BOOLEAN
  BY <1>1 DEF Or
<1> HIDE DEF c
<1>9. /\ c.port \in Int /\ c.workers \in Int /\ c.lanes \in Int /\ c.width \in Int
      /\ c.in_flight \in Int /\ c.queued \in Int /\ c.items \in Int /\ c.tactics \in Int
      /\ c.attempts \in Int /\ c.bytes \in Int /\ c.calls \in Int /\ c.unbounded \in BOOLEAN
  <2>1. /\ c.port = Or(given.port, 8000) /\ c.workers = W /\ c.lanes = Or(given.lanes, W)
        /\ c.width = Or(given.width, W) /\ c.in_flight = I
        /\ c.queued = Or(given.queued, QueuedFor(I)) /\ c.items = Or(given.items, 1024)
        /\ c.tactics = Or(given.tactics, 64) /\ c.attempts = Or(given.attempts, 8192)
        /\ c.bytes = Or(given.bytes, 16) /\ c.calls = Or(given.calls, 8)
    <3>1. /\ c.port = Or(given.port, 8000) /\ c.workers = W /\ c.lanes = Or(given.lanes, W)
          /\ c.width = Or(given.width, W) /\ c.in_flight = I
          /\ c.queued = Or(given.queued, QueuedFor(I))
      BY <1>6
    <3>2. /\ c.items = Or(given.items, 1024) /\ c.tactics = Or(given.tactics, 64)
          /\ c.attempts = Or(given.attempts, 8192)
          /\ c.bytes = Or(given.bytes, 16) /\ c.calls = Or(given.calls, 8)
      BY <1>6
    <3> QED
      BY <3>1, <3>2
  <2>2. c.unbounded = Or(given.unbounded, FALSE)
    <3> DEFINE v == Or(given.unbounded, FALSE)
    <3>1. c = [port |-> Or(given.port, 8000), workers |-> W,
            lanes |-> Or(given.lanes, W), width |-> Or(given.width, W),
            in_flight |-> I, queued |-> Or(given.queued, QueuedFor(I)),
            items |-> Or(given.items, 1024), tactics |-> Or(given.tactics, 64),
            attempts |-> Or(given.attempts, 8192), bytes |-> Or(given.bytes, 16),
            calls |-> Or(given.calls, 8), unbounded |-> v]
      BY <1>6
    <3> HIDE DEF v
    <3>2. c.unbounded = v
      BY <3>1
    <3> QED
      BY <3>2 DEF v
  <2>3. c.unbounded \in BOOLEAN
    BY <1>8, <2>2, Zenon
  <2> QED
    BY <1>3, <1>5, <1>7, <2>1, <2>3
<1>10. /\ \A f \in Fields \ {"unbounded"} : c[f] \in Int
       /\ c.unbounded \in BOOLEAN
  BY <1>9 DEF Fields
<1>11. c \in [Fields -> Int \cup BOOLEAN \cup {Absent}]
  <2>1. DOMAIN c = Fields /\ c = [f \in Fields |-> c[f]]
    BY <1>6 DEF Fields
  <2> QED
    BY <2>1, <1>10 DEF Fields
<1> QED
  BY <1>10, <1>11, AbsentAssumption DEF SomeValues, AllValues, c, Fields

\* The populated configuration, resized to the workers of a command line.
Resized(args, environment, machine) ==
    LET base == Populated(environment, machine)
        inFlight == IF args.in_flight = Absent THEN InFlightFor(args.workers) ELSE base.in_flight
    IN IF args.workers = Absent THEN base
       ELSE [base EXCEPT !.lanes = args.workers, !.width = args.workers,
                         !.in_flight = inFlight, !.queued = QueuedFor(inFlight)]

LEMMA SettingsFacts ==
    ASSUME NEW args, NEW environment, NEW machine
    PROVE  SettingsFrom(args, environment, machine) =
             [f \in Fields |-> Or(args[f], Resized(args, environment, machine)[f])]
BY DEF SettingsFrom, Resized

\* --workers sets the size of the pool, and what depends on it.
LEMMA ResizedFields ==
    ASSUME NEW args, NEW environment, NEW machine, args.workers # Absent
    PROVE  LET r == Resized(args, environment, machine)
           IN /\ r["lanes"] = args.workers /\ r["width"] = args.workers
              /\ args.in_flight = Absent => /\ r["in_flight"] = InFlightFor(args.workers)
                                            /\ r["queued"] = QueuedFor(InFlightFor(args.workers))
<1> DEFINE base == Populated(environment, machine)
<1>1. {"lanes", "width", "in_flight", "queued"} \subseteq DOMAIN base
  BY DEF Populated
<1> HIDE DEF base
<1>2. Resized(args, environment, machine) =
        LET inFlight == IF args.in_flight = Absent THEN InFlightFor(args.workers) ELSE base.in_flight
        IN [base EXCEPT !.lanes = args.workers, !.width = args.workers,
                        !.in_flight = inFlight, !.queued = QueuedFor(inFlight)]
  BY DEF Resized, base
<1> QED
  BY <1>1, <1>2

\* An option given is what the settings have; one that is not comes from the
\* environment, resized.
LEMMA OptionsWin ==
    ASSUME NEW args, NEW environment, NEW machine, NEW f \in Fields
    PROVE  /\ args[f] # Absent => SettingsFrom(args, environment, machine)[f] = args[f]
           /\ args[f] = Absent => SettingsFrom(args, environment, machine)[f]
                                    = Resized(args, environment, machine)[f]
BY SettingsFacts DEF Or

\* A launched server has the caps its launcher was given, for any configuration
\* that the launcher accepts, in any environment, on any machine.
THEOREM LaunchesWhatItWasGiven ==
    ASSUME NEW client \in AllValues, NEW environment \in SomeValues, NEW machine \in AnyMachine
    PROVE  LaunchedRight(client, environment,
                         SettingsFrom(CliArgs(client), environment, machine))
<1> DEFINE args == CliArgs(client)
           s == SettingsFrom(args, environment, machine)
<1>1. /\ \A f \in Fields \ {"unbounded"} : client[f] \in Int /\ client[f] # Absent
      /\ client.unbounded \in BOOLEAN
      /\ DOMAIN client = Fields
  BY DEF AllValues, SomeValues, Fields
<1>2. /\ \A f \in Fields \ {"unbounded"} : args[f] = client[f]
      /\ args.unbounded = IF client.unbounded THEN TRUE ELSE Absent
  BY <1>1 DEF CliArgs, Fields
<1>3. \A f \in Fields \ {"unbounded"} : s[f] = client[f]
  BY <1>1, <1>2, OptionsWin
<1>4. /\ args.unbounded # Absent => s.unbounded = args.unbounded
      /\ args.unbounded = Absent => s.unbounded = (environment.unbounded = TRUE)
  <2>1. /\ args.unbounded # Absent => s["unbounded"] = args.unbounded
        /\ args.unbounded = Absent
             => s["unbounded"] = Resized(args, environment, machine)["unbounded"]
    <3>1. "unbounded" \in Fields
      BY DEF Fields
    <3> QED
      BY <3>1, OptionsWin
  <2>2. Resized(args, environment, machine)["unbounded"] = Or(environment.unbounded, FALSE)
    BY DEF Resized, Populated
  <2>3. environment.unbounded \in BOOLEAN \cup {Absent}
    BY DEF SomeValues
  <2>4. Or(environment.unbounded, FALSE) = (environment.unbounded = TRUE)
    BY <2>3, OptInAbsent
  <2> HIDE DEF s, args
  <2> QED
    BY <2>1, <2>2, <2>4, Zenon
<1> HIDE DEF s, args
<1>5. s.unbounded = (client.unbounded \/ environment.unbounded = TRUE)
  <2>1. CASE client.unbounded = TRUE
    <3>1. args.unbounded = TRUE
      BY <1>2, <2>1, Zenon
    <3> QED
      BY <1>4, <2>1, <3>1, TruthIsPresent, Zenon
  <2>2. CASE client.unbounded = FALSE
    <3>1. args.unbounded = Absent
      BY <1>2, <2>2, Zenon
    <3> QED
      BY <1>4, <2>2, <3>1, TruthIsPresent, Zenon
  <2>3. client.unbounded = TRUE \/ client.unbounded = FALSE
    BY <1>1, Zenon
  <2> QED
    BY <2>1, <2>2, <2>3, Zenon
<1>6. client.unbounded => s.unbounded
  BY <1>5, Zenon
<1>7. ASSUME ClientAccepts(client), client.port <= 65535
      PROVE  ServerAccepts(s)
  <2>1. Positive(s, Sizes)
    BY <1>3, <1>7 DEF ClientAccepts, Positive, Sizes, Fields
  <2>2. s.port <= 65535
    BY <1>3, <1>7 DEF Fields
  <2>3. s.in_flight = client.in_flight /\ s.queued = client.queued /\ s.bytes = client.bytes
    BY <1>3 DEF Fields
  <2>4. Bounded(s)
    BY <1>6, <1>7, <2>3 DEF ClientAccepts, Bounded
  <2> QED
    BY <2>1, <2>2, <2>4 DEF ServerAccepts
<1>8. ClientAccepts(client) /\ client.port <= 65535 => ServerAccepts(s)
  BY <1>7
<1> QED
  <2> DEFINE small == client.port <= 65535
  <2>1. ClientAccepts(client) /\ small => ServerAccepts(s)
    BY <1>8
  <2>2. LaunchedRight(client, environment, s) <=>
          (ClientAccepts(client) /\ small =>
            /\ ServerAccepts(s)
            /\ \A f \in Fields \ {"unbounded"} : s[f] = client[f]
            /\ s.unbounded = (client.unbounded \/ environment.unbounded = TRUE))
    BY DEF LaunchedRight
  <2> HIDE DEF small
  <2>3. LaunchedRight(client, environment, s)
    BY <1>3, <1>5, <2>1, <2>2, Zenon
  <2> QED
    BY <2>3 DEF s, args

\* The server's two readings of a command line agree, whatever is given.
THEOREM CommandLineMeansOneThing ==
    ASSUME NEW given \in SomeValues, NEW environment \in SomeValues, NEW machine \in AnyMachine
    PROVE  ReadersAgree(given, environment, SettingsFrom(given, environment, machine),
                        Populated(given, machine))
<1> DEFINE s == SettingsFrom(given, environment, machine)
           p == Populated(given, machine)
           r == Resized(given, environment, machine)
<1>1. ASSUME \A f \in Fields : environment[f] = Absent, NEW f \in Fields
      PROVE  \/ s[f] = p[f]
             \/ f = "queued" /\ given.queued = Absent /\ given.in_flight # Absent
  <2>1. given[f] # Absent => p[f] = given[f] /\ s[f] = given[f]
    BY OptionsWin, PopulatedKeeps
  <2>2. given[f] = Absent => s[f] = r[f]
    BY OptionsWin
  <2>3. given[f] = Absent => \/ r[f] = p[f]
                             \/ f = "queued" /\ given.in_flight # Absent
    <3> SUFFICES ASSUME given[f] = Absent
                 PROVE  r[f] = p[f] \/ (f = "queued" /\ given.in_flight # Absent)
      OBVIOUS
    <3>0. \A g \in Fields : environment[g] = Absent
      BY <1>1
    <3>1. CASE f = "port"
      <4>1. environment.port = Absent /\ given.port = Absent
        BY <3>0, <3>1 DEF Fields
      <4> QED
        BY <3>1, <4>1 DEF Resized, Populated, Or
    <3>2. CASE f = "items"
      <4>1. environment.items = Absent /\ given.items = Absent
        BY <3>0, <3>2 DEF Fields
      <4> QED
        BY <3>2, <4>1 DEF Resized, Populated, Or
    <3>3. CASE f = "tactics"
      <4>1. environment.tactics = Absent /\ given.tactics = Absent
        BY <3>0, <3>3 DEF Fields
      <4> QED
        BY <3>3, <4>1 DEF Resized, Populated, Or
    <3>4. CASE f = "attempts"
      <4>1. environment.attempts = Absent /\ given.attempts = Absent
        BY <3>0, <3>4 DEF Fields
      <4> QED
        BY <3>4, <4>1 DEF Resized, Populated, Or
    <3>5. CASE f = "bytes"
      <4>1. environment.bytes = Absent /\ given.bytes = Absent
        BY <3>0, <3>5 DEF Fields
      <4> QED
        BY <3>5, <4>1 DEF Resized, Populated, Or
    <3>6. CASE f = "calls"
      <4>1. environment.calls = Absent /\ given.calls = Absent
        BY <3>0, <3>6 DEF Fields
      <4> QED
        BY <3>6, <4>1 DEF Resized, Populated, Or
    <3>7. CASE f = "unbounded"
      <4>1. environment.unbounded = Absent /\ given.unbounded = Absent
        BY <3>0, <3>7 DEF Fields
      <4> QED
        BY <3>7, <4>1 DEF Resized, Populated, Or
    <3>8. CASE f = "workers"
      <4>1. environment.workers = Absent /\ given.workers = Absent
        BY <3>0, <3>8 DEF Fields
      <4> QED
        BY <3>8, <4>1 DEF Resized, Populated, Or
    <3>9. CASE f = "lanes"
      <4>1. /\ environment.workers = Absent /\ environment.in_flight = Absent
            /\ environment.lanes = Absent /\ given.lanes = Absent
        BY <3>0, <3>9 DEF Fields
      <4>2. CASE given.workers = Absent
        BY <3>9, <4>1, <4>2 DEF Resized, Populated, Or
      <4>3. CASE given.workers # Absent
        <5>1. p[f] = given.workers
          BY <3>9, <4>1, <4>3 DEF Populated, Or
        <5> QED
          BY <3>9, <4>1, <4>3, <5>1, ResizedFields
      <4> QED
        BY <4>2, <4>3
    <3>10. CASE f = "width"
      <4>1. /\ environment.workers = Absent /\ environment.in_flight = Absent
            /\ environment.width = Absent /\ given.width = Absent
        BY <3>0, <3>10 DEF Fields
      <4>2. CASE given.workers = Absent
        BY <3>10, <4>1, <4>2 DEF Resized, Populated, Or
      <4>3. CASE given.workers # Absent
        <5>1. p[f] = given.workers
          BY <3>10, <4>1, <4>3 DEF Populated, Or
        <5> QED
          BY <3>10, <4>1, <4>3, <5>1, ResizedFields
      <4> QED
        BY <4>2, <4>3
    <3>11. CASE f = "in_flight"
      <4>1. /\ environment.workers = Absent /\ environment.in_flight = Absent
            /\ environment.in_flight = Absent /\ given.in_flight = Absent
        BY <3>0, <3>11 DEF Fields
      <4>2. CASE given.workers = Absent
        BY <3>11, <4>1, <4>2 DEF Resized, Populated, Or
      <4>3. CASE given.workers # Absent
        <5>1. p[f] = InFlightFor(given.workers)
          BY <3>11, <4>1, <4>3 DEF Populated, Or
        <5> QED
          BY <3>11, <4>1, <4>3, <5>1, ResizedFields
      <4> QED
        BY <4>2, <4>3
    <3>12. CASE f = "queued"
      <4>1. /\ environment.workers = Absent /\ environment.in_flight = Absent
            /\ environment.queued = Absent /\ given.queued = Absent
        BY <3>0, <3>12 DEF Fields
      <4>2. CASE given.workers = Absent
        BY <3>12, <4>1, <4>2 DEF Resized, Populated, Or
      <4>3. CASE given.workers # Absent
        <5>1. given.in_flight = Absent => p[f] = QueuedFor(InFlightFor(given.workers))
          BY <3>12, <4>1, <4>3 DEF Populated, Or
        <5> QED
          BY <3>12, <4>1, <4>3, <5>1, ResizedFields
      <4> QED
        BY <4>2, <4>3
    <3> HIDE DEF p, r
    <3> QED
      BY <3>1, <3>2, <3>3, <3>4, <3>5, <3>6, <3>7, <3>8, <3>9, <3>10, <3>11, <3>12 DEF Fields
  <2> HIDE DEF s, p, r
  <2> QED
    BY <2>1, <2>2, <2>3
<1>2. ASSUME NEW f \in Fields, given[f] = Absent, given.workers = Absent, environment[f] # Absent
      PROVE  s[f] = environment[f]
  <2>1. r = Populated(environment, machine)
    BY <1>2 DEF Resized
  <2>3. s[f] = r[f]
    BY <1>2, OptionsWin
  <2>2. Populated(environment, machine)[f] = environment[f]
    BY <1>2, PopulatedKeeps
  <2> QED
    BY <2>1, <2>2, <2>3
<1>3. ASSUME NEW f \in Fields, given[f] # Absent
      PROVE  s[f] = given[f]
  BY <1>3, OptionsWin
<1> HIDE DEF s, p, r
<1> QED
  BY <1>1, <1>2, <1>3 DEF ReadersAgree, s, p

\* What a client refuses of a bounded server's limits the server's own validation
\* refused before.
LEMMA LimitsAreTaken ==
    ASSUME NEW s
    PROVE  LimitsTaken(s)
<1> SUFFICES ASSUME ServerAccepts(s), ~s.unbounded, s.calls > 0
             PROVE  Connects(s)
  BY DEF LimitsTaken
<1>1. -1 \notin {s.in_flight, s.queued, s.bytes}
  BY DEF ServerAccepts, Bounded
<1>2. s["width"] > 0
  BY DEF ServerAccepts, Positive, Sizes
<1> QED
  BY <1>1, <1>2 DEF Connects
----------------------------------------------------------------------------
\* What holds of 0 and goes from each number to the next holds up to n.
LEMMA Upto ==
    ASSUME NEW n \in Nat, NEW T, 0 \in T, \A k \in 1..n : k - 1 \in T => k \in T
    PROVE  \A k \in 0..n : k \in T
<1> DEFINE F == {k \in 0..n : k \notin T}
<1> SUFFICES ASSUME F # {}
             PROVE  FALSE
  OBVIOUS
<1>1. F \in SUBSET Nat
  OBVIOUS
<1>2. PICK k \in F : \A m \in F : k <= m
  <2> HIDE DEF F
  <2> QED
    BY <1>1, LeastNat
<1>3. k \in 1..n /\ k - 1 \in 0..n /\ ~(k <= k - 1) /\ k \notin T
  BY <1>2
<1>4. k - 1 \in T
  BY <1>2, <1>3
<1> QED
  BY <1>3, <1>4

LEMMA SmallestOf ==
    ASSUME NEW S \in SUBSET Nat, S # {}
    PROVE  Smallest(S) \in S /\ \A m \in S : Smallest(S) <= m
  BY LeastNat DEF Smallest

LEMMA LargestOf ==
    ASSUME NEW b \in Nat, NEW S \in SUBSET (0..b), S # {}
    PROVE  Largest(S) \in S /\ \A m \in S : m <= Largest(S)
<1> DEFINE T == {b - m : m \in S}
<1>1. T \in SUBSET Nat /\ T # {}
  <2>1. \A m \in S : b - m \in Nat
    OBVIOUS
  <2> QED
    BY <2>1
<1>2. PICK d \in T : \A m \in T : d <= m
  <2> HIDE DEF T
  <2> QED
    BY <1>1, LeastNat
<1>3. PICK n \in S : d = b - n
  BY <1>2
<1>4. \A m \in S : m <= n
  <2> SUFFICES ASSUME NEW m \in S
               PROVE  m <= n
    OBVIOUS
  <2>1. b - n <= b - m
    BY <1>2, <1>3
  <2> QED
    BY <2>1
<1> QED
  BY <1>4 DEF Largest

\* A forest of n items: what is below an item is a stretch of those after it.
IsForest(forest, n) ==
    /\ forest.last \in [1..n -> 1..n]
    /\ \A i \in 1..n : i <= forest.last[i]
    /\ \A i \in 1..n : \A j \in i..forest.last[i] : forest.last[j] <= forest.last[i]

\* What the first on the way up is.
LEMMA NearestFacts ==
    ASSUME NEW forest, NEW n \in Nat, IsForest(forest, n), NEW S \in SUBSET (1..n), NEW i \in 1..n
    PROVE  /\ Nearest(forest, S, i) \in {0} \cup {j \in S : Above(forest, j, i)}
           /\ \A j \in S : Above(forest, j, i) => j <= Nearest(forest, S, i)
           /\ \A x \in {0} \cup {j \in S : Above(forest, j, i)} :
                 (\A j \in S : Above(forest, j, i) => j <= x) => x = Nearest(forest, S, i)
<1> DEFINE A == {0} \cup {j \in S : Above(forest, j, i)}
<1>1. A \in SUBSET (0..n) /\ A # {}
  <2>1. \A j \in 1..n : j \in 0..n
    OBVIOUS
  <2>2. 0 \in 0..n
    OBVIOUS
  <2> QED
    BY <2>1, <2>2
<1>2. Nearest(forest, S, i) \in A /\ \A m \in A : m <= Nearest(forest, S, i)
  <2> HIDE DEF A
  <2>1. Largest(A) \in A /\ \A m \in A : m <= Largest(A)
    BY <1>1, LargestOf
  <2> QED
    BY <2>1 DEF Nearest, A
<1>3. \A x \in A : (\A j \in S : Above(forest, j, i) => j <= x) => x = Nearest(forest, S, i)
  <2> SUFFICES ASSUME NEW x \in A, \A j \in S : Above(forest, j, i) => j <= x
               PROVE  x = Nearest(forest, S, i)
    OBVIOUS
  <2>1. Nearest(forest, S, i) <= x
    BY <1>1, <1>2
  <2>2. x <= Nearest(forest, S, i)
    BY <1>2
  <2> HIDE DEF A
  <2>3. x \in 0..n /\ Nearest(forest, S, i) \in 0..n
    BY <1>1, <1>2
  <2> QED
    BY <2>1, <2>2, <2>3
<1> QED
  BY <1>2, <1>3

\* Without c, those that came up to c come up to where c did.
LEMMA NearestWithout ==
    ASSUME NEW forest, NEW n \in Nat, IsForest(forest, n), NEW S \in SUBSET (1..n), NEW c \in S,
           NEW i \in 1..n
    PROVE  Nearest(forest, S \ {c}, i) =
             IF Nearest(forest, S, i) = c THEN Nearest(forest, S, c) ELSE Nearest(forest, S, i)
<1> DEFINE up == Nearest(forest, S, i)
           top == Nearest(forest, S, c)
           R == S \ {c}
<1>0. R \in SUBSET (1..n) /\ c \in 1..n
  OBVIOUS
<1>1. /\ up \in {0} \cup {j \in S : Above(forest, j, i)}
      /\ \A j \in S : Above(forest, j, i) => j <= up
  BY NearestFacts
<1>2. /\ top \in {0} \cup {j \in S : Above(forest, j, c)}
      /\ \A j \in S : Above(forest, j, c) => j <= top
  BY <1>0, NearestFacts
<1>3. \A x \in {0} \cup {j \in R : Above(forest, j, i)} :
          (\A j \in R : Above(forest, j, i) => j <= x) => x = Nearest(forest, R, i)
  <2> HIDE DEF R
  <2> QED
    BY <1>0, NearestFacts
<1> HIDE DEF up, top
<1>4. CASE up # c
  BY <1>1, <1>3, <1>4 DEF up
<1>5. CASE up = c
  <2>1. Above(forest, c, i) /\ \A j \in S : Above(forest, j, i) => j <= c
    BY <1>0, <1>1, <1>5
  <2>2. \A j \in 1..n : Above(forest, j, c) => Above(forest, j, i)
    BY <1>0, <2>1 DEF Above, IsForest
  <2>3. \A j \in R : Above(forest, j, i) => Above(forest, j, c)
    BY <1>0, <2>1 DEF Above, IsForest
  <2>4. top # c
    BY <1>0, <1>2 DEF Above
  <2>5. top \in {0} \cup {j \in R : Above(forest, j, i)}
    BY <1>2, <2>2, <2>4
  <2>6. \A j \in R : Above(forest, j, i) => j <= top
    BY <1>2, <2>3
  <2> QED
    BY <1>3, <1>5, <2>5, <2>6 DEF up, top
<1> QED
  BY <1>4, <1>5

\* The tree on its way through the loops: those above tree.at are done.
TreeOK(forest, tree, n) ==
    /\ tree \in [kept : SUBSET (1..n), up : [1..n -> 0..n], at : 0..n]
    /\ \A i \in 1..n : tree.up[i] = Nearest(forest, tree.kept, i)
    /\ \A i \in Nodes(forest) \ tree.kept :
          /\ tree.up[i] # 0
          /\ forest.label[i] \in {"failed", forest.label[tree.up[i]]}
    /\ \A i \in tree.kept : tree.up[i] > tree.at => forest.label[i] # "failed"
    /\ \A i \in tree.kept : i > tree.at => Twin(forest, tree, i) = {}

LEMMA EdgesOK ==
    ASSUME NEW forest, NEW n \in Nat, IsForest(forest, n)
    PROVE  /\ TreeOK(forest, Edges(forest), n)
           /\ Edges(forest).at = n
<1>1. Items(forest) = 1..n /\ Len(forest.last) = n
  <2>1. forest.last \in Seq(1..n)
    BY SeqDef DEF IsForest
  <2>2. DOMAIN forest.last = 1..n
    BY DEF IsForest
  <2> QED
    BY <2>1, <2>2, LenProperties DEF Items
<1>2. Nodes(forest) \in SUBSET (1..n)
  BY <1>1 DEF Nodes
<1>3. \A i \in 1..n : Nearest(forest, Nodes(forest), i) \in 0..n
  BY <1>2, NearestFacts
<1>4. \A i \in 1..n : ~(i > n) /\ ~(Nearest(forest, Nodes(forest), i) > n)
  BY <1>3
<1> QED
  BY <1>1, <1>2, <1>3, <1>4 DEF TreeOK, Edges

\* A round keeps this, and uses up a node or an item.
LEMMA RoundKeeps ==
    ASSUME NEW forest, NEW n \in Nat, IsForest(forest, n), NEW tree, TreeOK(forest, tree, n)
    PROVE  /\ TreeOK(forest, Round(forest, tree), n)
           /\ tree.at = 0 => Round(forest, tree).at = 0
           /\ tree.at # 0 => Round(forest, tree).at + Cardinality(Round(forest, tree).kept)
                                = tree.at + Cardinality(tree.kept) - 1
<1> DEFINE p == tree.at
           failed == FailedChildren(forest, tree, p)
           twin == Twin(forest, tree, p)
<1>1. /\ tree.kept \in SUBSET (1..n) /\ tree.up \in [1..n -> 0..n] /\ p \in 0..n
      /\ tree = [kept |-> tree.kept, up |-> tree.up, at |-> tree.at]
  BY DEF TreeOK
<1>2. IsFiniteSet(tree.kept) /\ Cardinality(tree.kept) \in Nat
  <2>1. IsFiniteSet(1..n)
    BY FS_Interval
  <2> QED
    BY <1>1, <2>1, FS_Subset, FS_CardinalityType
<1>3. CASE p = 0
  BY <1>3 DEF Round
<1>4. CASE p # 0 /\ failed \cup twin = {}
  <2> DEFINE next == [tree EXCEPT !.at = p - 1]
  <2>1. Round(forest, tree) = next
    BY <1>4 DEF Round
  <2>2. next.kept = tree.kept /\ next.up = tree.up /\ next.at = p - 1
        /\ next \in [kept : SUBSET (1..n), up : [1..n -> 0..n], at : 0..n]
    BY <1>1, <1>4
  <2>3. \A i : Twin(forest, next, i) = Twin(forest, tree, i)
    BY <2>2 DEF Twin, ChildrenOf
  <2>4. \A i \in tree.kept : tree.up[i] > p - 1 => forest.label[i] # "failed"
    <3> SUFFICES ASSUME NEW i \in tree.kept, tree.up[i] > p - 1, ~(tree.up[i] > p)
                 PROVE  forest.label[i] # "failed"
      BY DEF TreeOK
    <3>1. tree.up[i] = p
      BY <1>1
    <3> QED
      BY <1>4, <3>1 DEF FailedChildren, ChildrenOf
  <2>5. \A i \in tree.kept : i > p - 1 => Twin(forest, tree, i) = {}
    <3> SUFFICES ASSUME NEW i \in tree.kept, i > p - 1, ~(i > p)
                 PROVE  Twin(forest, tree, i) = {}
      BY DEF TreeOK
    <3>1. i = p
      BY <1>1
    <3> QED
      BY <1>4, <3>1
  <2> HIDE DEF next
  <2>6. TreeOK(forest, next, n)
    BY <2>2, <2>3, <2>4, <2>5 DEF TreeOK
  <2>7. next.at + Cardinality(next.kept) = p + Cardinality(tree.kept) - 1
    BY <1>1, <1>2, <2>2
  <2> QED
    BY <1>4, <2>1, <2>6, <2>7
<1>5. CASE p # 0 /\ failed \cup twin # {}
  <2> DEFINE c == CHOOSE c \in (IF failed # {} THEN failed ELSE twin) : TRUE
             next == Flatten(tree, p, c)
  <2>1. Round(forest, tree) = next
    BY <1>5 DEF Round
  <2>2. c \in failed \cup twin
    BY <1>5
  <2> HIDE DEF c
  <2>3. /\ c \in tree.kept /\ tree.up[c] = p
        /\ forest.label[c] \in {"failed", forest.label[p]}
    BY <2>2 DEF FailedChildren, Twin, ChildrenOf
  <2>4. /\ next.kept = tree.kept \ {c} /\ next.at = p
        /\ next.up = [i \in 1..n |-> IF tree.up[i] = c THEN p ELSE tree.up[i]]
        /\ next \in [kept : SUBSET (1..n), up : [1..n -> 0..n], at : 0..n]
    BY <1>1 DEF Flatten
  <2> HIDE DEF next
  <2>5. \A i \in 1..n : next.up[i] = Nearest(forest, next.kept, i)
    <3> SUFFICES ASSUME NEW i \in 1..n
                 PROVE  next.up[i] = Nearest(forest, next.kept, i)
      OBVIOUS
    <3>1. tree.up[i] = Nearest(forest, tree.kept, i) /\ p = Nearest(forest, tree.kept, c)
      BY <1>1, <2>3 DEF TreeOK
    <3> QED
      BY <1>1, <2>3, <2>4, <3>1, NearestWithout
  <2>6. ASSUME NEW i \in Nodes(forest) \ next.kept
        PROVE  next.up[i] # 0 /\ forest.label[i] \in {"failed", forest.label[next.up[i]]}
    <3>0. i \in 1..n
      <4>1. DOMAIN forest.last = 1..n
        BY DEF IsForest
      <4> QED
        BY <4>1 DEF Nodes, Items
    <3>1. CASE i = c
      <4>1. c # p
        <5>1. p = Nearest(forest, tree.kept, c) /\ c \in 1..n
          BY <1>1, <2>3 DEF TreeOK
        <5>2. p \in {0} \cup {j \in tree.kept : Above(forest, j, c)}
          BY <1>1, <5>1, NearestFacts
        <5> QED
          BY <1>5, <5>1, <5>2 DEF Above
      <4>2. next.up[c] = p
        BY <1>1, <2>3, <2>4, <4>1
      <4> QED
        BY <1>5, <2>3, <3>1, <4>2
    <3>2. CASE i # c
      <4>1. i \in Nodes(forest) \ tree.kept
        BY <2>4, <3>2
      <4>2. tree.up[i] # 0 /\ forest.label[i] \in {"failed", forest.label[tree.up[i]]}
        BY <4>1 DEF TreeOK
      <4>3. next.up[i] = IF tree.up[i] = c THEN p ELSE tree.up[i]
        BY <2>4, <3>0
      <4> QED
        BY <1>5, <2>3, <4>2, <4>3
    <3> QED
      BY <3>1, <3>2
  <2>7. \A i \in next.kept : next.up[i] > next.at => forest.label[i] # "failed"
    BY <1>1, <2>4 DEF TreeOK
  <2>8. ASSUME NEW i \in next.kept, i > next.at
        PROVE  Twin(forest, next, i) = {}
    <3>1. i \in tree.kept /\ i # c /\ i # p /\ i > tree.at
      BY <1>1, <2>4, <2>8
    <3>2. ChildrenOf(next, i) = ChildrenOf(tree, i)
      BY <1>1, <2>3, <2>4, <3>1 DEF ChildrenOf
    <3>3. Twin(forest, tree, i) = {}
      BY <3>1 DEF TreeOK
    <3> QED
      BY <3>2, <3>3 DEF Twin
  <2>9. TreeOK(forest, next, n)
    BY <2>4, <2>5, <2>6, <2>7, <2>8 DEF TreeOK
  <2>10. Cardinality(next.kept) = Cardinality(tree.kept) - 1
    BY <1>2, <2>3, <2>4, FS_RemoveElement
  <2> QED
    BY <1>1, <1>2, <1>5, <2>1, <2>4, <2>9, <2>10
<1> QED
  BY <1>3, <1>4, <1>5

IsRounds(g, forest, n) ==
    g = [k \in 0..n |-> IF k = 0 THEN Edges(forest) ELSE Round(forest, g[k - 1])]

LEMMA RoundsExist ==
    ASSUME NEW forest, NEW n \in Nat
    PROVE  \E g : IsRounds(g, forest, n)
<1> DEFINE T == {m \in 0..n : \E g : IsRounds(g, forest, m)}
<1>1. 0 \in T
  <2>1. IsRounds([k \in 0..0 |-> Edges(forest)], forest, 0)
    BY DEF IsRounds
  <2> QED
    BY <2>1
<1>2. ASSUME NEW m \in 1..n, m - 1 \in T
      PROVE  m \in T
  <2>1. PICK g : IsRounds(g, forest, m - 1)
    BY <1>2
  <2> DEFINE h == [k \in 0..m |-> IF k = 0 THEN Edges(forest) ELSE Round(forest, g[k - 1])]
  <2>2. \A k \in 0..(m - 1) : h[k] = g[k]
    <3>1. \A k \in 0..(m - 1) : k \in 0..m
      OBVIOUS
    <3>2. \A k \in 0..(m - 1) : g[k] = IF k = 0 THEN Edges(forest) ELSE Round(forest, g[k - 1])
      BY <2>1 DEF IsRounds
    <3> QED
      BY <3>1, <3>2
  <2>3. \A k \in 0..m : k # 0 => h[k - 1] = g[k - 1]
    <3>1. \A k \in 0..m : k # 0 => k - 1 \in 0..(m - 1)
      OBVIOUS
    <3> HIDE DEF h
    <3> QED
      BY <2>2, <3>1
  <2>4. \A k \in 0..m : h[k] = IF k = 0 THEN Edges(forest) ELSE Round(forest, h[k - 1])
    BY <2>3
  <2>5. IsRounds(h, forest, m)
    BY <2>4 DEF IsRounds
  <2> QED
    BY <2>5
<1>3. n \in T
  <2> HIDE DEF T
  <2>1. \A k \in 0..n : k \in T
    BY <1>1, <1>2, Upto
  <2> QED
    BY <2>1
<1> QED
  BY <1>3

\* infotree.py:5-140: whatever an infotree looks like, what is left of it joins
\* every node to its nearest ancestor left, no child that failed is left, nor one
\* that alone repeats its parent, and only such have gone.
THEOREM FlatteningIsFaithful ==
    ASSUME NEW forest, NEW n \in Nat, IsForest(forest, n)
    PROVE  ForestFaithful(forest, NodesAndEdges(forest))
<1> DEFINE m == 2 * Len(forest.last)
           after == CHOOSE g : IsRounds(g, forest, m)
<1>1. Len(forest.last) = n
  <2>1. forest.last \in Seq(1..n)
    BY SeqDef DEF IsForest
  <2>2. DOMAIN forest.last = 1..n
    BY DEF IsForest
  <2> QED
    BY <2>1, <2>2, LenProperties
<1>2. m = 2 * n /\ m \in Nat
  BY <1>1
<1>3. NodesAndEdges(forest) = after[m]
  BY DEF NodesAndEdges, IsRounds
<1> HIDE DEF m
<1>4. IsRounds(after, forest, m)
  BY <1>2, RoundsExist
<1> HIDE DEF after
<1>5. after[0] = Edges(forest) /\ \A k \in 1..m : after[k] = Round(forest, after[k - 1])
  BY <1>2, <1>4 DEF IsRounds
<1> DEFINE Left(k) == after[k].at = 0 \/ after[k].at + Cardinality(after[k].kept) <= m - k
           T == {k \in 0..m : TreeOK(forest, after[k], n) /\ Left(k)}
<1>6. \A k \in 0..m : TreeOK(forest, after[k], n) =>
          after[k].at \in Nat /\ Cardinality(after[k].kept) \in Nat /\ Cardinality(after[k].kept) <= n
  <2> SUFFICES ASSUME NEW tree, TreeOK(forest, tree, n)
               PROVE  tree.at \in Nat /\ Cardinality(tree.kept) \in Nat /\ Cardinality(tree.kept) <= n
    OBVIOUS
  <2>1. IsFiniteSet(1..n) /\ Cardinality(1..n) = n
    BY FS_Interval
  <2>2. tree.kept \in SUBSET (1..n) /\ tree.at \in 0..n
    BY DEF TreeOK
  <2> QED
    BY <2>1, <2>2, FS_Subset, FS_CardinalityType
<1>7. 0 \in T
  <2>1. TreeOK(forest, after[0], n) /\ after[0].at = n
    BY <1>5, EdgesOK
  <2>2. after[0].at + Cardinality(after[0].kept) <= m - 0
    BY <1>2, <1>6, <2>1
  <2> QED
    BY <1>2, <2>1, <2>2
<1>8. ASSUME NEW k \in 1..m, k - 1 \in T
      PROVE  k \in T
  <2>1. k - 1 \in 0..m /\ k \in 0..m
    BY <1>2
  <2> DEFINE old == after[k - 1]
             new == after[k]
  <2>2. new = Round(forest, old) /\ TreeOK(forest, old, n)
        /\ (old.at = 0 \/ old.at + Cardinality(old.kept) <= m - (k - 1))
    BY <1>5, <1>8
  <2> HIDE DEF old, new
  <2>3. /\ TreeOK(forest, new, n)
        /\ old.at = 0 => new.at = 0
        /\ old.at # 0 => new.at + Cardinality(new.kept) = old.at + Cardinality(old.kept) - 1
    BY <2>2, RoundKeeps
  <2>4. new.at \in Nat /\ Cardinality(new.kept) \in Nat /\ old.at \in Nat /\ Cardinality(old.kept) \in Nat
    BY <1>6, <2>1, <2>2, <2>3 DEF old, new
  <2>5. new.at = 0 \/ new.at + Cardinality(new.kept) <= m - k
    BY <1>2, <2>2, <2>3, <2>4
  <2> QED
    BY <2>1, <2>3, <2>5 DEF new
<1>9. m \in T
  <2> HIDE DEF T
  <2>1. \A k \in 0..m : k \in T
    BY <1>2, <1>7, <1>8, Upto
  <2> QED
    BY <1>2, <2>1
<1> DEFINE tree == after[m]
<1>10. TreeOK(forest, tree, n) /\ tree.at = 0
  <2>1. TreeOK(forest, tree, n) /\ (tree.at = 0 \/ tree.at + Cardinality(tree.kept) <= m - m)
    BY <1>9
  <2>2. tree.at \in Nat /\ Cardinality(tree.kept) \in Nat
    BY <1>2, <1>6, <2>1
  <2> HIDE DEF tree
  <2> QED
    BY <1>2, <2>1, <2>2
<1> HIDE DEF tree
<1>11. ASSUME NEW i \in Nodes(forest)
       PROVE  LET up == Nearest(forest, tree.kept, i)
              IN IF i \in tree.kept
                 THEN /\ tree.up[i] = up
                      /\ up # 0 => forest.label[i] # "failed"
                      /\ Twin(forest, tree, i) = {}
                 ELSE up # 0 /\ forest.label[i] \in {"failed", forest.label[up]}
  <2>1. i \in 1..n
    <3>1. DOMAIN forest.last = 1..n
      BY DEF IsForest
    <3> QED
      BY <3>1 DEF Nodes, Items
  <2>2. tree.up[i] = Nearest(forest, tree.kept, i) /\ tree.up[i] \in 0..n
    BY <1>10, <2>1 DEF TreeOK
  <2>3. tree.up[i] # 0 => tree.up[i] > tree.at
    BY <1>10, <2>2
  <2>4. i > tree.at
    BY <1>10, <2>1
  <2> QED
    BY <1>10, <2>2, <2>3, <2>4 DEF TreeOK
<1> QED
  BY <1>3, <1>11 DEF ForestFaithful, tree
----------------------------------------------------------------------------
\* Nodes over a text of `size` tokens; what goals are does not matter.
AreIntervals(ivs, size, Goals) ==
    /\ ivs \in Seq([start : 0..size, finish : 0..size, before : Goals, after : Goals])
    /\ \A k \in 1..Len(ivs) : ivs[k].start <= ivs[k].finish

LEMMA EarlierOrders ==
    ASSUME NEW ivs, NEW size \in Nat, NEW Goals, AreIntervals(ivs, size, Goals),
           NEW i \in 1..Len(ivs), NEW j \in 1..Len(ivs)
    PROVE  /\ Earlier(ivs, i, j) => i # j /\ ~Earlier(ivs, j, i) /\ ivs[i].start <= ivs[j].start
           /\ i = j \/ Earlier(ivs, i, j) \/ Earlier(ivs, j, i)
           /\ \A k \in 1..Len(ivs) : Earlier(ivs, i, j) /\ Earlier(ivs, j, k) => Earlier(ivs, i, k)
<1>1. \A k \in 1..Len(ivs) : ivs[k].start \in Nat /\ k \in Nat
  <2> SUFFICES ASSUME NEW k \in 1..Len(ivs)
               PROVE  ivs[k].start \in Nat /\ k \in Nat
    OBVIOUS
  <2>1. ivs[k] \in [start : 0..size, finish : 0..size, before : Goals, after : Goals]
    BY ElementOfSeq DEF AreIntervals
  <2> QED
    BY <2>1
<1>2. i \in Nat /\ j \in Nat /\ ivs[i].start \in Nat /\ ivs[j].start \in Nat
  BY <1>1
<1>3. Earlier(ivs, i, j) => i # j /\ ~Earlier(ivs, j, i) /\ ivs[i].start <= ivs[j].start
  BY <1>2 DEF Earlier
<1>4. i = j \/ Earlier(ivs, i, j) \/ Earlier(ivs, j, i)
  BY <1>2 DEF Earlier
<1>5. ASSUME NEW k \in 1..Len(ivs), Earlier(ivs, i, j), Earlier(ivs, j, k)
      PROVE  Earlier(ivs, i, k)
  <2>1. k \in Nat /\ ivs[k].start \in Nat
    BY <1>1
  <2> QED
    BY <1>2, <1>5, <2>1 DEF Earlier
<1> QED
  BY <1>3, <1>4, <1>5

Sorts(o, ivs, S) ==
    /\ o \in [1..Cardinality(S) -> S]
    /\ \A k, l \in 1..Cardinality(S) : k < l => Earlier(ivs, o[k], o[l])
    /\ \A i \in S : \E k \in 1..Cardinality(S) : o[k] = i

\* Any of the intervals can be sorted.
LEMMA SortsExist ==
    ASSUME NEW ivs, NEW size \in Nat, NEW Goals, AreIntervals(ivs, size, Goals),
           NEW S \in SUBSET (1..Len(ivs))
    PROVE  /\ IsFiniteSet(S) /\ Cardinality(S) \in 0..Len(ivs)
           /\ \E o : Sorts(o, ivs, S)
<1> DEFINE n == Len(ivs)
<1>1. n \in Nat
  BY DEF AreIntervals
<1>2. \A R \in SUBSET (1..n) : IsFiniteSet(R) /\ Cardinality(R) \in 0..n
  <2>1. IsFiniteSet(1..n) /\ Cardinality(1..n) = n
    <3> HIDE DEF n
    <3>1. 1 \in Int /\ n \in Int
      BY <1>1
    <3>2. IsFiniteSet(1..n) /\ Cardinality(1..n) = IF 1 > n THEN 0 ELSE n - 1 + 1
      BY <3>1, FS_Interval
    <3> QED
      BY <1>1, <3>2
  <2> SUFFICES ASSUME NEW R \in SUBSET (1..n)
               PROVE  IsFiniteSet(R) /\ Cardinality(R) \in 0..n
    OBVIOUS
  <2>2. IsFiniteSet(R) /\ Cardinality(R) <= n
    BY <2>1, FS_Subset
  <2> QED
    BY <1>1, <2>2, FS_CardinalityType
<1> HIDE DEF n
<1> DEFINE T == {m \in 0..n : \A R \in SUBSET (1..n) : Cardinality(R) = m => \E o : Sorts(o, ivs, R)}
<1>3. 0 \in T
  <2> SUFFICES ASSUME NEW R \in SUBSET (1..n), Cardinality(R) = 0
               PROVE  \E o : Sorts(o, ivs, R)
    BY <1>1
  <2>1. R = {}
    BY <1>2, FS_EmptySet
  <2>2. Sorts([k \in 1..0 |-> k], ivs, R)
    BY <2>1 DEF Sorts
  <2> QED
    BY <2>2
<1>4. ASSUME NEW m \in 1..n, m - 1 \in T
      PROVE  m \in T
  <2> SUFFICES ASSUME NEW R \in SUBSET (1..n), Cardinality(R) = m
               PROVE  \E o : Sorts(o, ivs, R)
    BY <1>1
  <2>0. m \in Nat /\ m - 1 \in Nat /\ m # 0
    BY <1>1
  <2>1. \A x \in R : R \ {x} \in SUBSET (1..n) /\ Cardinality(R \ {x}) = m - 1
    BY <1>2, FS_RemoveElement
  <2>2. \A x \in R : \E o : Sorts(o, ivs, R \ {x})
    BY <1>4, <2>1
  <2>3. PICK x \in R : TRUE
    BY <1>2, <2>0, FS_EmptySet
  <2>4. PICK a : Sorts(a, ivs, R \ {x})
    BY <2>2
  <2> DEFINE y == IF m - 1 = 0 \/ Earlier(ivs, a[m - 1], x) THEN x ELSE a[m - 1]
  <2>5. /\ a \in [1..(m - 1) -> R \ {x}]
        /\ \A k, l \in 1..(m - 1) : k < l => Earlier(ivs, a[k], a[l])
        /\ \A i \in R \ {x} : \E k \in 1..(m - 1) : a[k] = i
    BY <2>1, <2>4 DEF Sorts
  <2>6. y \in R /\ \A i \in R : i # y => Earlier(ivs, i, y)
    <3>1. CASE m - 1 = 0
      BY <2>3, <2>5, <3>1
    <3>2. CASE m - 1 # 0
      <4> DEFINE z == a[m - 1]
      <4>1. m - 1 \in 1..(m - 1) /\ z \in R \ {x}
        BY <2>0, <2>5, <3>2
      <4>2. \A i \in R \ {x} : i = z \/ Earlier(ivs, i, z)
        <5> SUFFICES ASSUME NEW i \in R \ {x}
                     PROVE  i = z \/ Earlier(ivs, i, z)
          OBVIOUS
        <5>1. PICK k \in 1..(m - 1) : a[k] = i
          BY <2>5
        <5>2. k = m - 1 \/ k < m - 1
          BY <2>0
        <5> QED
          BY <2>5, <4>1, <5>1, <5>2
      <4> HIDE DEF z
      <4>3. CASE Earlier(ivs, z, x)
        <5>1. y = x
          BY <4>3 DEF z
        <5>2. \A i \in R : i # x => Earlier(ivs, i, x)
          <6> SUFFICES ASSUME NEW i \in R, i # x
                       PROVE  Earlier(ivs, i, x)
            OBVIOUS
          <6>1. i = z \/ Earlier(ivs, i, z)
            BY <4>2
          <6> QED
            BY <2>3, <4>1, <4>3, <6>1, EarlierOrders DEF n
        <5> HIDE DEF y
        <5> QED
          BY <2>3, <5>1, <5>2
      <4>4. CASE ~Earlier(ivs, z, x)
        <5>1. y = z
          BY <3>2, <4>4 DEF z
        <5>2. Earlier(ivs, x, z)
          BY <2>3, <4>1, <4>4, EarlierOrders DEF n
        <5> HIDE DEF y
        <5> QED
          BY <4>1, <4>2, <5>1, <5>2
      <4> QED
        BY <4>3, <4>4
    <3> QED
      BY <3>1, <3>2
  <2> HIDE DEF y
  <2>7. PICK b : Sorts(b, ivs, R \ {y})
    BY <2>2, <2>6
  <2>8. /\ b \in [1..(m - 1) -> R \ {y}]
        /\ \A k, l \in 1..(m - 1) : k < l => Earlier(ivs, b[k], b[l])
        /\ \A i \in R \ {y} : \E k \in 1..(m - 1) : b[k] = i
    BY <2>1, <2>6, <2>7 DEF Sorts
  <2> DEFINE o == [k \in 1..m |-> IF k = m THEN y ELSE b[k]]
  <2>9. /\ \A k \in 1..m : k # m => k \in 1..(m - 1) /\ o[k] = b[k]
        /\ m \in 1..m /\ o[m] = y
        /\ \A k \in 1..(m - 1) : k \in 1..m /\ k # m
    BY <2>0
  <2>10. o \in [1..m -> R]
    BY <2>6, <2>8, <2>9
  <2> HIDE DEF o
  <2>11. \A k, l \in 1..m : k < l => Earlier(ivs, o[k], o[l])
    <3> SUFFICES ASSUME NEW k \in 1..m, NEW l \in 1..m, k < l
                 PROVE  Earlier(ivs, o[k], o[l])
      OBVIOUS
    <3>1. k # m
      BY <2>0
    <3>2. CASE l = m
      BY <2>6, <2>8, <2>9, <3>1, <3>2
    <3>3. CASE l # m
      BY <2>8, <2>9, <3>1, <3>3
    <3> QED
      BY <3>2, <3>3
  <2>12. \A i \in R : \E k \in 1..m : o[k] = i
    <3> SUFFICES ASSUME NEW i \in R
                 PROVE  \E k \in 1..m : o[k] = i
      OBVIOUS
    <3>1. CASE i = y
      BY <2>9, <3>1
    <3>2. CASE i # y
      <4>1. PICK k \in 1..(m - 1) : b[k] = i
        BY <2>8, <3>2
      <4> QED
        BY <2>9, <4>1
    <3> QED
      BY <3>1, <3>2
  <2> QED
    BY <2>10, <2>11, <2>12 DEF Sorts
<1>5. \A m \in 0..n : m \in T
  <2> HIDE DEF T
  <2> QED
    BY <1>1, <1>3, <1>4, Upto
<1>6. S \in SUBSET (1..n)
  BY DEF n
<1> QED
  BY <1>2, <1>5, <1>6 DEF n

\* So what is sorted is in order and whole.
LEMMA SortedSorts ==
    ASSUME NEW ivs, NEW size \in Nat, NEW Goals, AreIntervals(ivs, size, Goals),
           NEW S \in SUBSET (1..Len(ivs))
    PROVE  Sorts(Sorted(ivs, S), ivs, S)
<1> DEFINE m == Cardinality(S)
           o == Sorted(ivs, S)
           Increasing(f) == \A k, l \in DOMAIN f : k < l => Earlier(ivs, f[k], f[l])
<1>1. IsFiniteSet(S) /\ m \in Nat /\ \E f : Sorts(f, ivs, S)
  <2>1. Len(ivs) \in Nat
    BY DEF AreIntervals
  <2>2. IsFiniteSet(S) /\ m \in 0..Len(ivs) /\ \E f : Sorts(f, ivs, S)
    BY SortsExist
  <2> QED
    BY <2>1, <2>2
<1>2. \E f \in [1..m -> S] : Increasing(f)
  BY <1>1 DEF Sorts
<1>3. o \in [1..m -> S] /\ Increasing(o)
  BY <1>2 DEF Sorted
<1> HIDE DEF o, m
<1>4. \A k, l \in 1..m : k < l => Earlier(ivs, o[k], o[l])
  BY <1>3
<1>5. o \in Injection(1..m, S)
  <2> SUFFICES ASSUME NEW k \in 1..m, NEW l \in 1..m, o[k] = o[l], k # l
               PROVE  FALSE
    BY <1>3, Zenon DEF Injection, IsInjective
  <2>1. k < l \/ l < k
    BY <1>1
  <2>2. Earlier(ivs, o[k], o[k])
    BY <1>4, <2>1
  <2>3. o[k] \in 1..Len(ivs)
    BY <1>3
  <2> QED
    BY <2>2, <2>3, EarlierOrders
<1>6. o \in Surjection(1..m, S)
  <2>1. Cardinality(1..m) = m
    <3>1. m \in Int /\ 1 \in Int
      BY <1>1
    <3>2. Cardinality(1..m) = IF 1 > m THEN 0 ELSE m - 1 + 1
      BY <3>1, FS_Interval
    <3> QED
      BY <1>1, <3>2
  <2>2. Cardinality(S) = m
    BY DEF m
  <2> QED
    BY <1>1, <1>5, <2>1, <2>2, FS_Injection
<1>7. \A i \in S : \E k \in 1..m : o[k] = i
  BY <1>6 DEF Surjection
<1> QED
  BY <1>3, <1>4, <1>7 DEF Sorts, o, m

Furthest(ivs) == Largest({ivs[k].finish : k \in DOMAIN ivs})
First(ivs) == Smallest({ivs[k].start : k \in DOMAIN ivs})

LEMMA EndFacts ==
    ASSUME NEW ivs, NEW size \in Nat, NEW Goals, AreIntervals(ivs, size, Goals), ivs # <<>>
    PROVE  /\ Len(ivs) \in Nat \ {0} /\ DOMAIN ivs = 1..Len(ivs)
           /\ \A k \in 1..Len(ivs) :
                 /\ ivs[k] \in [start : 0..size, finish : 0..size, before : Goals, after : Goals]
                 /\ First(ivs) <= ivs[k].start /\ ivs[k].start <= ivs[k].finish
                 /\ ivs[k].finish <= Furthest(ivs)
           /\ First(ivs) \in 0..size /\ Furthest(ivs) \in 0..size
           /\ \E k \in 1..Len(ivs) : First(ivs) = ivs[k].start
<1> DEFINE n == Len(ivs)
           Rec == [start : 0..size, finish : 0..size, before : Goals, after : Goals]
           S == {ivs[k].start : k \in 1..n}
           F == {ivs[k].finish : k \in 1..n}
<1>1. n \in Nat \ {0} /\ DOMAIN ivs = 1..n /\ \A k \in 1..n : ivs[k] \in Rec
  <2>1. ivs \in Seq(Rec)
    BY DEF AreIntervals
  <2> HIDE DEF Rec
  <2> QED
    BY <2>1, EmptySeq, LenProperties, ElementOfSeq
<1> HIDE DEF n
<1>2. \A k \in 1..n : ivs[k].start \in 0..size /\ ivs[k].finish \in 0..size
  BY <1>1
<1>3. 1 \in 1..n
  BY <1>1
<1>4. S \in SUBSET (0..size) /\ S # {} /\ F \in SUBSET (0..size) /\ F # {} /\ S \in SUBSET Nat
  BY <1>2, <1>3
<1>5. First(ivs) = Smallest(S) /\ Furthest(ivs) = Largest(F)
  BY <1>1 DEF First, Furthest
<1>6. /\ Smallest(S) \in S /\ \A m \in S : Smallest(S) <= m
      /\ Largest(F) \in F /\ \A m \in F : m <= Largest(F)
  <2> HIDE DEF S, F
  <2> QED
    BY <1>4, SmallestOf, LargestOf
<1>7. \A k \in 1..n : ivs[k].start \in S /\ ivs[k].finish \in F
  OBVIOUS
<1>8. \E k \in 1..n : Smallest(S) = ivs[k].start
  BY <1>6
<1>9. \A k \in 1..n : ivs[k].start <= ivs[k].finish
  BY DEF AreIntervals, n
<1>10. Smallest(S) \in 0..size /\ Largest(F) \in 0..size
  <2> HIDE DEF S, F
  <2> QED
    BY <1>4, <1>6
<1> HIDE DEF S, F
<1> QED
  BY <1>1, <1>5, <1>6, <1>7, <1>8, <1>9, <1>10 DEF n

\* Where an interval ends: where the next one starts, if there is one.
LEMMA TrimmedFacts ==
    ASSUME NEW ivs, NEW size \in Nat, NEW Goals, AreIntervals(ivs, size, Goals), ivs # <<>>,
           NEW i \in 1..Len(ivs)
    PROVE  /\ Trimmed(ivs, i) \in [start : 0..size, finish : 0..size, before : Goals, after : Goals]
           /\ Trimmed(ivs, i).start = ivs[i].start
           /\ \/ /\ Trimmed(ivs, i).finish = Furthest(ivs)
                 /\ \A k \in 1..Len(ivs) : ~Earlier(ivs, i, k)
              \/ \E j \in 1..Len(ivs) :
                    /\ Trimmed(ivs, i).finish = ivs[j].start
                    /\ Earlier(ivs, i, j)
                    /\ \A k \in 1..Len(ivs) : Earlier(ivs, i, k) => k = j \/ Earlier(ivs, j, k)
<1> DEFINE n == Len(ivs)
           later == {j \in 1..n : Earlier(ivs, i, j)}
           next == CHOOSE j \in later : \A k \in later : k = j \/ Earlier(ivs, j, k)
<1>1. /\ n \in Nat \ {0} /\ DOMAIN ivs = 1..n
      /\ \A k \in 1..n : ivs[k] \in [start : 0..size, finish : 0..size, before : Goals, after : Goals]
      /\ Furthest(ivs) \in 0..size
  BY EndFacts
<1>2. Trimmed(ivs, i) = IF later = {} THEN [ivs[i] EXCEPT !.finish = Furthest(ivs)]
                        ELSE [ivs[i] EXCEPT !.finish = ivs[next].start, !.after = ivs[next].before]
  BY <1>1 DEF Trimmed, Furthest
<1>3. CASE later = {}
  <2>1. Trimmed(ivs, i) = [ivs[i] EXCEPT !.finish = Furthest(ivs)]
    BY <1>2, <1>3
  <2>2. \A k \in 1..n : ~Earlier(ivs, i, k)
    BY <1>3
  <2> QED
    BY <1>1, <2>1, <2>2
<1>4. CASE later # {}
  <2>1. /\ IsFiniteSet(later) /\ Cardinality(later) \in 0..n
        /\ \E o : Sorts(o, ivs, later)
    <3>1. later \in SUBSET (1..n)
      OBVIOUS
    <3> HIDE DEF later
    <3> QED
      BY <3>1, SortsExist
  <2>2. PICK o : Sorts(o, ivs, later)
    BY <2>1
  <2> DEFINE m == Cardinality(later)
  <2>3. m \in Nat /\ m # 0
    <3> HIDE DEF later
    <3> QED
      BY <1>1, <1>4, <2>1, FS_EmptySet
  <2>4. /\ o \in [1..m -> later]
        /\ \A k, l \in 1..m : k < l => Earlier(ivs, o[k], o[l])
        /\ \A j \in later : \E k \in 1..m : o[k] = j
    <3> HIDE DEF later
    <3> QED
      BY <2>2 DEF Sorts
  <2> HIDE DEF m
  <2>5. 1 \in 1..m /\ o[1] \in later
    BY <2>3, <2>4
  <2>6. \A k \in later : k = o[1] \/ Earlier(ivs, o[1], k)
    <3> SUFFICES ASSUME NEW k \in later
                 PROVE  k = o[1] \/ Earlier(ivs, o[1], k)
      OBVIOUS
    <3>1. PICK l \in 1..m : o[l] = k
      BY <2>4
    <3>2. l = 1 \/ 1 < l
      BY <2>3
    <3> QED
      BY <2>4, <2>5, <3>1, <3>2
  <2>7. next \in later /\ \A k \in later : k = next \/ Earlier(ivs, next, k)
    BY <2>5, <2>6
  <2> HIDE DEF next
  <2>8. Trimmed(ivs, i) = [ivs[i] EXCEPT !.finish = ivs[next].start, !.after = ivs[next].before]
    BY <1>2, <1>4
  <2>9. next \in 1..n /\ Earlier(ivs, i, next)
        /\ \A k \in 1..n : Earlier(ivs, i, k) => k = next \/ Earlier(ivs, next, k)
    BY <2>7
  <2>10. ivs[next] \in [start : 0..size, finish : 0..size, before : Goals, after : Goals]
    BY <1>1, <2>9
  <2> HIDE DEF later
  <2>11. /\ Trimmed(ivs, i) \in [start : 0..size, finish : 0..size, before : Goals, after : Goals]
         /\ Trimmed(ivs, i).start = ivs[i].start /\ Trimmed(ivs, i).finish = ivs[next].start
    BY <1>1, <2>8, <2>10
  <2> QED
    BY <2>9, <2>11
<1> QED
  BY <1>3, <1>4

\* The intervals that are left are one after the other from the first start to
\* the furthest end.
LEMMA AdjustedTiles ==
    ASSUME NEW ivs, NEW size \in Nat, NEW Goals, AreIntervals(ivs, size, Goals), ivs # <<>>
    PROVE  \E m \in Nat :
              /\ Adjusted(ivs) \in [1..m -> [start : 0..size, finish : 0..size, before : Goals, after : Goals]]
              /\ m = 0 => First(ivs) = Furthest(ivs)
              /\ m # 0 => Adjusted(ivs)[1].start = First(ivs) /\ Adjusted(ivs)[m].finish = Furthest(ivs)
              /\ \A k \in 1..m : Adjusted(ivs)[k].start <= Adjusted(ivs)[k].finish
              /\ \A k \in 1..(m - 1) : Adjusted(ivs)[k].finish = Adjusted(ivs)[k + 1].start
<1> DEFINE n == Len(ivs)
           Rec == [start : 0..size, finish : 0..size, before : Goals, after : Goals]
           far == Furthest(ivs)
           s(i) == ivs[i].start
           e(i) == Trimmed(ivs, i).finish
           left == {i \in 1..n : e(i) # s(i)}
           m == Cardinality(left)
           o == Sorted(ivs, left)
           A == Adjusted(ivs)
<1>1. /\ n \in Nat \ {0} /\ DOMAIN ivs = 1..n
      /\ \A i \in 1..n : First(ivs) <= s(i) /\ s(i) <= far /\ s(i) \in Nat
      /\ First(ivs) \in Nat /\ far \in Nat
      /\ \E i \in 1..n : First(ivs) = s(i)
  <2> DEFINE f(i) == ivs[i].finish
  <2>1. /\ n \in Nat \ {0} /\ DOMAIN ivs = 1..n
        /\ \A i \in 1..n : ivs[i] \in Rec /\ First(ivs) <= s(i) /\ s(i) <= f(i) /\ f(i) <= far
        /\ First(ivs) \in 0..size /\ far \in 0..size
        /\ \E i \in 1..n : First(ivs) = s(i)
    BY EndFacts
  <2>2. \A i \in 1..n : s(i) \in 0..size /\ f(i) \in 0..size
    BY <2>1
  <2> HIDE DEF n, s, f, far, Rec
  <2>3. \A i \in 1..n : s(i) <= far /\ s(i) \in Nat
    BY <2>1, <2>2
  <2> QED
    BY <2>1, <2>3
<1>2. \A i, j \in 1..n : /\ Earlier(ivs, i, j) => i # j /\ ~Earlier(ivs, j, i) /\ s(i) <= s(j)
                         /\ s(i) < s(j) => Earlier(ivs, i, j)
  BY <1>1, EarlierOrders DEF Earlier
<1>3. \A i \in 1..n : /\ Trimmed(ivs, i) \in Rec /\ Trimmed(ivs, i).start = s(i)
                      /\ \/ /\ e(i) = far
                            /\ \A k \in 1..n : ~Earlier(ivs, i, k)
                         \/ \E j \in 1..n :
                               /\ e(i) = s(j) /\ Earlier(ivs, i, j)
                               /\ \A k \in 1..n : Earlier(ivs, i, k) => k = j \/ Earlier(ivs, j, k)
  BY TrimmedFacts
<1>4. left \in SUBSET (1..n) /\ m \in Nat /\ Sorts(o, ivs, left)
  <2>1. left \in SUBSET (1..n)
    OBVIOUS
  <2> HIDE DEF left
  <2>2. m \in 0..n
    BY <2>1, SortsExist
  <2> QED
    BY <1>1, <2>1, <2>2, SortedSorts
<1>5. /\ o \in [1..m -> left]
      /\ \A k, l \in 1..m : k < l => Earlier(ivs, o[k], o[l])
      /\ \A i \in left : \E k \in 1..m : o[k] = i
  <2> HIDE DEF left, o
  <2> QED
    BY <1>4 DEF Sorts
<1>6. A = [k \in 1..m |-> Trimmed(ivs, o[k])]
  <2>1. left = {i \in DOMAIN ivs : Trimmed(ivs, i).finish # ivs[i].start}
    BY <1>1
  <2>2. DOMAIN o = 1..m
    BY <1>5
  <2> QED
    BY <2>1, <2>2 DEF Adjusted
<1> HIDE DEF A, o, m, n, far
\* An interval ends no later than the next start, and not before its own.
<1>7. \A i \in 1..n : s(i) <= e(i) /\ e(i) <= far /\ e(i) \in Nat
  <2> HIDE DEF Rec, e, s
  <2> QED
    BY <1>1, <1>2, <1>3
<1>8. \A i \in 1..n : e(i) = far \/ \E j \in 1..n : e(i) = s(j)
  BY <1>3
<1>9. \A i, k \in 1..n : s(i) < s(k) => e(i) <= s(k)
  <2> SUFFICES ASSUME NEW i \in 1..n, NEW k \in 1..n, s(i) < s(k)
               PROVE  e(i) <= s(k)
    OBVIOUS
  <2>1. Earlier(ivs, i, k)
    BY <1>2
  <2>2. PICK j \in 1..n : e(i) = s(j) /\ (k = j \/ Earlier(ivs, j, k))
    BY <1>3, <2>1
  <2> HIDE DEF e, s
  <2> QED
    BY <1>1, <1>2, <2>2
<1>10. \A i \in left, k \in 1..n : Earlier(ivs, i, k) => s(i) < s(k)
  <2> SUFFICES ASSUME NEW i \in left, NEW k \in 1..n, Earlier(ivs, i, k), ~(s(i) < s(k))
               PROVE  FALSE
    OBVIOUS
  <2>1. i \in 1..n /\ e(i) # s(i)
    OBVIOUS
  <2>2. PICK j \in 1..n : e(i) = s(j) /\ Earlier(ivs, i, j) /\ (k = j \/ Earlier(ivs, j, k))
    BY <1>3, <2>1
  <2> HIDE DEF e, s, left
  <2>3. s(i) <= s(j) /\ s(j) <= s(k) /\ s(i) \in Nat /\ s(j) \in Nat /\ s(k) \in Nat
    BY <1>1, <1>2, <2>1, <2>2
  <2> QED
    BY <2>1, <2>2, <2>3
\* Where one starts before the furthest end, one that is left does.
<1>11. \A q \in 1..n : s(q) < far => \E i \in left : s(i) = s(q)
  <2> SUFFICES ASSUME NEW q \in 1..n, s(q) < far
               PROVE  \E i \in left : s(i) = s(q)
    OBVIOUS
  <2> DEFINE Q == {i \in 1..n : s(i) = s(q)}
             c == Cardinality(Q)
  <2>1. Q \in SUBSET (1..n) /\ q \in Q /\ \A i \in Q : s(i) = s(q)
    OBVIOUS
  <2>1a. \A i \in 1..n : s(i) = s(q) => i \in Q
    OBVIOUS
  <2> HIDE DEF Q
  <2>2. IsFiniteSet(Q) /\ c \in 0..n /\ \E f : Sorts(f, ivs, Q)
    BY <2>1, SortsExist DEF n
  <2>3. PICK f : Sorts(f, ivs, Q)
    BY <2>2
  <2>4. c \in Nat /\ c # 0
    BY <1>1, <2>1, <2>2, FS_EmptySet
  <2>5. /\ f \in [1..c -> Q]
        /\ \A k, l \in 1..c : k < l => Earlier(ivs, f[k], f[l])
        /\ \A i \in Q : \E k \in 1..c : f[k] = i
    BY <2>3 DEF Sorts
  <2> HIDE DEF c
  <2> DEFINE i == f[c]
  <2>6. c \in 1..c /\ i \in Q
    BY <2>4, <2>5
  <2>7. \A j \in Q : ~Earlier(ivs, i, j)
    <3> SUFFICES ASSUME NEW j \in Q, Earlier(ivs, i, j)
                 PROVE  FALSE
      OBVIOUS
    <3>1. PICK l \in 1..c : f[l] = j
      BY <2>5
    <3>2. l = c \/ l < c
      BY <2>4
    <3>3. i = j \/ Earlier(ivs, j, i)
      BY <2>5, <2>6, <3>1, <3>2
    <3> HIDE DEF i
    <3> QED
      BY <1>2, <2>1, <2>6, <3>3
  <2> HIDE DEF i
  <2>8. i \in 1..n /\ s(i) = s(q)
    BY <2>1, <2>6
  <2>9. e(i) # s(i)
    <3>1. CASE e(i) = far
      <4> HIDE DEF e, s
      <4> QED
        BY <1>1, <2>8, <3>1
    <3>2. CASE \E j \in 1..n : e(i) = s(j) /\ Earlier(ivs, i, j)
      <4>1. PICK j \in 1..n : e(i) = s(j) /\ Earlier(ivs, i, j)
        BY <3>2
      <4> HIDE DEF e, s
      <4>2. j \notin Q
        BY <2>7, <4>1
      <4> QED
        BY <2>1a, <2>8, <4>1, <4>2
    <3> QED
      BY <1>3, <2>8, <3>1, <3>2
  <2> QED
    BY <2>8, <2>9
<1>12. /\ A \in [1..m -> Rec]
       /\ \A k \in 1..m : /\ o[k] \in left /\ o[k] \in 1..n
                           /\ A[k].start = s(o[k]) /\ A[k].finish = e(o[k])
                           /\ s(o[k]) < e(o[k])
  <2>1. \A k \in 1..m : o[k] \in left /\ o[k] \in 1..n
    BY <1>4, <1>5
  <2>2. \A i \in left : s(i) < e(i)
    <3> SUFFICES ASSUME NEW i \in left
                 PROVE  s(i) < e(i)
      OBVIOUS
    <3>1. i \in 1..n /\ e(i) # s(i)
      OBVIOUS
    <3> HIDE DEF e, s, left
    <3> QED
      BY <1>1, <1>7, <3>1
  <2> HIDE DEF left, Rec
  <2> QED
    BY <1>3, <1>6, <2>1, <2>2
<1> HIDE DEF left, s, e
<1>13. \A k, l \in 1..m : k < l => s(o[k]) < s(o[l])
  BY <1>5, <1>10, <1>12
<1>14. \A q \in 1..n : s(q) < far => \E l \in 1..m : s(o[l]) = s(q)
  BY <1>5, <1>11
<1>15. ASSUME m = 0
       PROVE  First(ivs) = far
  <2>1. PICK q \in 1..n : First(ivs) = s(q)
    BY <1>1
  <2>2. ~(s(q) < far)
    BY <1>14, <1>15
  <2> QED
    BY <1>1, <2>1, <2>2
<1>16. ASSUME m # 0
       PROVE  s(o[1]) = First(ivs) /\ e(o[m]) = far
  <2>1. 1 \in 1..m /\ m \in 1..m /\ \A l \in 1..m : (l = 1 \/ 1 < l) /\ (l = m \/ l < m)
    BY <1>4, <1>16
  <2>2. \A l \in 1..m : s(o[l]) \in Nat /\ e(o[l]) \in Nat /\ s(o[l]) < e(o[l]) /\ e(o[l]) <= far
                        /\ First(ivs) <= s(o[l])
    BY <1>1, <1>7, <1>12
  <2>3. s(o[1]) = First(ivs)
    <3>1. PICK q \in 1..n : First(ivs) = s(q)
      BY <1>1
    <3>2. s(q) < far
      BY <1>1, <2>1, <2>2, <3>1
    <3>3. PICK l \in 1..m : s(o[l]) = s(q)
      BY <1>14, <3>2
    <3>4. s(o[1]) <= s(o[l])
      BY <1>13, <2>1, <2>2
    <3> QED
      BY <1>1, <2>1, <2>2, <3>1, <3>3, <3>4
  <2>4. e(o[m]) = far
    <3> SUFFICES ASSUME e(o[m]) # far
                 PROVE  FALSE
      OBVIOUS
    <3>1. PICK q \in 1..n : e(o[m]) = s(q)
      BY <1>8, <1>12, <2>1
    <3>2. s(q) < far
      BY <1>1, <2>1, <2>2, <3>1
    <3>3. PICK l \in 1..m : s(o[l]) = s(q)
      BY <1>14, <3>2
    <3>4. s(o[l]) <= s(o[m])
      BY <1>13, <2>1, <2>2
    <3> QED
      BY <2>1, <2>2, <3>1, <3>3, <3>4
  <2> QED
    BY <2>3, <2>4
<1>17. ASSUME NEW k \in 1..(m - 1)
       PROVE  e(o[k]) = s(o[k + 1])
  <2>1. k \in 1..m /\ k + 1 \in 1..m /\ k < k + 1
    BY <1>4
  <2>2. \A l \in 1..m : s(o[l]) \in Nat /\ e(o[l]) \in Nat /\ s(o[l]) < e(o[l]) /\ e(o[l]) <= far
    BY <1>1, <1>7, <1>12
  <2>3. s(o[k]) < s(o[k + 1])
    BY <1>13, <2>1
  <2>4. e(o[k]) <= s(o[k + 1])
    BY <1>9, <1>12, <2>1, <2>3
  <2>5. e(o[k]) < far
    BY <1>1, <2>1, <2>2, <2>4
  <2>6. PICK q \in 1..n : e(o[k]) = s(q)
    <3>1. e(o[k]) = far \/ \E q \in 1..n : e(o[k]) = s(q)
      BY <1>8, <1>12, <2>1
    <3>2. e(o[k]) # far
      BY <1>1, <2>1, <2>2, <2>5
    <3> QED
      BY <3>1, <3>2
  <2>7. PICK l \in 1..m : s(o[l]) = s(q)
    BY <1>14, <2>5, <2>6
  <2>8. s(o[k]) < s(o[l])
    BY <2>1, <2>2, <2>6, <2>7
  <2>9. k < l
    <3> SUFFICES ASSUME ~(k < l)
                 PROVE  FALSE
      OBVIOUS
    <3>1. l = k \/ l < k
      BY <1>4, <2>1
    <3> QED
      BY <1>13, <2>1, <2>2, <2>8, <3>1
  <2>10. l = k + 1 \/ k + 1 < l
    BY <1>4, <2>1, <2>9
  <2>11. s(o[k + 1]) <= s(o[l])
    BY <1>13, <2>1, <2>2, <2>10
  <2> QED
    BY <2>1, <2>2, <2>4, <2>6, <2>7, <2>11
<1>18. /\ \A k \in 1..m : A[k].start <= A[k].finish
       /\ \A k \in 1..(m - 1) : A[k].finish = A[k + 1].start
       /\ m # 0 => A[1].start = First(ivs) /\ A[m].finish = far
  <2>1. \A k \in 1..m : s(o[k]) \in Nat /\ e(o[k]) \in Nat
    BY <1>1, <1>7, <1>12
  <2>2. \A k \in 1..(m - 1) : k \in 1..m /\ k + 1 \in 1..m
    BY <1>4
  <2>3. m # 0 => 1 \in 1..m /\ m \in 1..m
    BY <1>4
  <2> QED
    BY <1>12, <1>16, <1>17, <2>1, <2>2, <2>3
<1> QED
  BY <1>4, <1>12, <1>15, <1>18 DEF A, far
----------------------------------------------------------------------------
\* A stretch of a text, cut in two or followed by the next.
LEMMA StretchFacts ==
    ASSUME NEW Tok, NEW source \in Seq(Tok), NEW a \in 0..Len(source), NEW b \in a..Len(source)
    PROVE  /\ SubSeq(source, a + 1, b) \in Seq(Tok)
           /\ Len(SubSeq(source, a + 1, b)) = b - a
           /\ \A size \in 0..(b - a) :
                 /\ SubSeq(SubSeq(source, a + 1, b), 1, size) = SubSeq(source, a + 1, a + size)
                 /\ SubSeq(SubSeq(source, a + 1, b), size + 1, b - a) = SubSeq(source, a + size + 1, b)
           /\ \A d \in b..Len(source) :
                 SubSeq(source, a + 1, b) \o SubSeq(source, b + 1, d) = SubSeq(source, a + 1, d)
<1> DEFINE s == SubSeq(source, a + 1, b)
<1>1. Len(source) \in Nat /\ a \in Nat /\ b \in Nat /\ a <= b /\ b <= Len(source)
  BY LenProperties
<1>2. \A i \in 1..Len(source) : source[i] \in Tok
  BY ElementOfSeq
<1>3. \A l, m \in 0..Len(source) :
         l <= m => /\ SubSeq(source, l + 1, m) \in Seq(Tok)
                   /\ Len(SubSeq(source, l + 1, m)) = m - l
                   /\ \A i \in 1..(m - l) : SubSeq(source, l + 1, m)[i] = source[l + i]
  <2> SUFFICES ASSUME NEW l \in 0..Len(source), NEW m \in 0..Len(source), l <= m
               PROVE  /\ SubSeq(source, l + 1, m) \in Seq(Tok)
                      /\ Len(SubSeq(source, l + 1, m)) = m - l
                      /\ \A i \in 1..(m - l) : SubSeq(source, l + 1, m)[i] = source[l + i]
    OBVIOUS
  <2>1. l \in Nat /\ m \in Nat /\ l + 1 \in Int /\ m \in Int /\ m <= Len(source)
    BY <1>1
  <2>2. \A i \in (l + 1)..m : source[i] \in Tok
    BY <1>1, <1>2, <2>1
  <2>3. /\ SubSeq(source, l + 1, m) \in Seq(Tok)
        /\ Len(SubSeq(source, l + 1, m)) = IF l + 1 <= m THEN m - (l + 1) + 1 ELSE 0
        /\ \A i \in 1..(m - (l + 1) + 1) : SubSeq(source, l + 1, m)[i] = source[(l + 1) + i - 1]
    BY <2>1, <2>2, SubSeqProperties
  <2>4. m - (l + 1) + 1 = m - l /\ \A i \in 1..(m - l) : (l + 1) + i - 1 = l + i
    BY <2>1
  <2> QED
    BY <2>1, <2>3, <2>4
<1>4. /\ s \in Seq(Tok) /\ Len(s) = b - a
      /\ \A i \in 1..(b - a) : s[i] = source[a + i]
  BY <1>1, <1>3
<1> HIDE DEF s
<1>5. ASSUME NEW size \in 0..(b - a)
      PROVE  /\ SubSeq(s, 1, size) = SubSeq(source, a + 1, a + size)
             /\ SubSeq(s, size + 1, b - a) = SubSeq(source, a + size + 1, b)
  <2>1. size \in Nat /\ a + size \in 0..Len(source) /\ a <= a + size /\ a + size <= b /\ size <= b - a
    BY <1>1
  <2>2. \A i \in 1..(b - a) : s[i] \in Tok
    BY <1>4, ElementOfSeq
  <2> DEFINE u == SubSeq(s, 1, size)
             v == SubSeq(source, a + 1, a + size)
             x == SubSeq(s, size + 1, b - a)
             y == SubSeq(source, a + size + 1, b)
  <2>3. u \in Seq(Tok) /\ Len(u) = size /\ \A i \in 1..size : u[i] = s[i]
    <3>1. 1 \in Int /\ size \in Int /\ \A i \in 1..size : s[i] \in Tok
      BY <1>1, <2>1, <2>2
    <3>2. /\ u \in Seq(Tok) /\ Len(u) = IF 1 <= size THEN size - 1 + 1 ELSE 0
          /\ \A i \in 1..(size - 1 + 1) : u[i] = s[1 + i - 1]
      BY <3>1, SubSeqProperties
    <3> HIDE DEF u
    <3> QED
      BY <2>1, <3>2
  <2>4. v \in Seq(Tok) /\ Len(v) = size /\ \A i \in 1..size : v[i] = source[a + i]
    <3>1. (a + size) - a = size
      BY <1>1, <2>1
    <3>2. /\ v \in Seq(Tok) /\ Len(v) = (a + size) - a
          /\ \A i \in 1..((a + size) - a) : v[i] = source[a + i]
      BY <1>1, <1>3, <2>1
    <3> HIDE DEF v
    <3> QED
      BY <3>1, <3>2
  <2>5. x \in Seq(Tok) /\ Len(x) = b - a - size
        /\ \A i \in 1..(b - a - size) : x[i] = s[size + i]
    <3>1. size + 1 \in Int /\ b - a \in Int /\ \A i \in (size + 1)..(b - a) : s[i] \in Tok
      BY <1>1, <2>1, <2>2
    <3>2. /\ x \in Seq(Tok)
          /\ Len(x) = IF size + 1 <= b - a THEN (b - a) - (size + 1) + 1 ELSE 0
          /\ \A i \in 1..((b - a) - (size + 1) + 1) : x[i] = s[(size + 1) + i - 1]
      BY <3>1, SubSeqProperties
    <3> HIDE DEF x
    <3>3. (b - a) - (size + 1) + 1 = b - a - size /\ \A i \in 1..(b - a - size) : (size + 1) + i - 1 = size + i
      BY <1>1, <2>1
    <3> QED
      BY <1>1, <2>1, <3>2, <3>3
  <2>6. y \in Seq(Tok) /\ Len(y) = b - a - size
        /\ \A i \in 1..(b - a - size) : y[i] = source[a + size + i]
    <3>1. b - (a + size) = b - a - size
      BY <1>1, <2>1
    <3>2. /\ y \in Seq(Tok) /\ Len(y) = b - (a + size)
          /\ \A i \in 1..(b - (a + size)) : y[i] = source[a + size + i]
      BY <1>1, <1>3, <2>1
    <3> HIDE DEF y
    <3> QED
      BY <3>1, <3>2
  <2> HIDE DEF u, v, x, y
  <2>7. u = v
    <3>1. \A i \in 1..size : u[i] = v[i]
      <4>1. \A i \in 1..size : i \in 1..(b - a)
        BY <1>1, <2>1
      <4> QED
        BY <1>4, <2>3, <2>4, <4>1
    <3> QED
      BY <2>3, <2>4, <3>1, SeqEqual
  <2>8. x = y
    <3>1. \A i \in 1..(b - a - size) : x[i] = y[i]
      <4>1. \A i \in 1..(b - a - size) : size + i \in 1..(b - a) /\ a + (size + i) = a + size + i
        BY <1>1, <2>1
      <4> QED
        BY <1>4, <2>5, <2>6, <4>1
    <3> QED
      BY <2>5, <2>6, <3>1, SeqEqual
  <2> QED
    BY <2>7, <2>8 DEF u, v, x, y
<1>6. ASSUME NEW d \in b..Len(source)
      PROVE  s \o SubSeq(source, b + 1, d) = SubSeq(source, a + 1, d)
  <2>1. a + 1 \in 1..(Len(source) + 1) /\ b \in ((a + 1) - 1)..Len(source)
    BY <1>1
  <2> QED
    BY <2>1, ConcatAdjacentSubSeq DEF s
<1> QED
  BY <1>4, <1>5, <1>6 DEF s

LEMMA SameLength ==
    ASSUME NEW m \in Nat, NEW n \in Nat, 1..m = 1..n
    PROVE  m = n
<1> SUFFICES ASSUME m # n
             PROVE  FALSE
  OBVIOUS
<1>1. m < n \/ n < m
  OBVIOUS
<1>2. (n # 0 => n \in 1..n) /\ (m # 0 => m \in 1..m)
  OBVIOUS
<1>3. (m < n => n \notin 1..m) /\ (n < m => m \notin 1..n)
  OBVIOUS
<1> QED
  BY <1>1, <1>2, <1>3

\* The tactics are the source text from a to b, cut in order.
Tiles(c, ts, Tok, Goals, source) ==
    /\ ts \in Seq([before : Goals, after : Goals, text : Seq(Tok)])
    /\ c \in [0..Len(ts) -> 0..Len(source)]
    /\ \A k \in 1..Len(ts) :
          /\ c[k - 1] <= c[k]
          /\ ts[k].text = SubSeq(source, c[k - 1] + 1, c[k])
IsCut(ts, Tok, Goals, source, a, b) ==
    \E c : Tiles(c, ts, Tok, Goals, source) /\ c[0] = a /\ c[Len(ts)] = b

\* What a list of tactics cut so is made of.
LEMMA TileFacts ==
    ASSUME NEW Tok, NEW source \in Seq(Tok), NEW Goals, NEW c, NEW ts, Tiles(c, ts, Tok, Goals, source)
    PROVE  /\ Len(ts) \in Nat /\ DOMAIN ts = 1..Len(ts) /\ Len(source) \in Nat
           /\ ts \in [1..Len(ts) -> [before : Goals, after : Goals, text : Seq(Tok)]]
           /\ \A k \in 1..Len(ts) :
                 /\ ts[k] \in [before : Goals, after : Goals, text : Seq(Tok)]
                 /\ c[k - 1] \in 0..Len(source) /\ c[k] \in c[k - 1]..Len(source)
                 /\ ts[k].text = SubSeq(source, c[k - 1] + 1, c[k])
                 /\ Len(ts[k].text) = c[k] - c[k - 1]
           /\ \A k \in 0..Len(ts) : c[k] \in 0..Len(source)
<1> DEFINE Rec == [before : Goals, after : Goals, text : Seq(Tok)]
           n == Len(ts)
           size == Len(source)
<1>1. /\ ts \in Seq(Rec) /\ c \in [0..n -> 0..size]
      /\ \A k \in 1..n : c[k - 1] <= c[k] /\ ts[k].text = SubSeq(source, c[k - 1] + 1, c[k])
  BY DEF Tiles
<1>2. n \in Nat /\ DOMAIN ts = 1..n /\ ts \in [1..n -> Rec] /\ \A k \in 1..n : ts[k] \in Rec
  <2> HIDE DEF Rec
  <2> QED
    BY <1>1, LenProperties, ElementOfSeq
<1>3. size \in Nat
  BY LenProperties
<1> HIDE DEF Rec, n
<1>4. \A k \in 1..n : k \in 0..n /\ k - 1 \in 0..n
  BY <1>2
<1>5. \A k \in 1..n : c[k - 1] \in 0..size /\ c[k] \in 0..size /\ c[k] \in c[k - 1]..size
  <2> SUFFICES ASSUME NEW k \in 1..n
               PROVE  c[k - 1] \in 0..size /\ c[k] \in 0..size /\ c[k] \in c[k - 1]..size
    OBVIOUS
  <2> DEFINE p == c[k - 1]
             q == c[k]
  <2>1. p \in 0..size /\ q \in 0..size /\ p <= q
    BY <1>1, <1>4
  <2> HIDE DEF size, p, q
  <2>2. q \in p..size
    BY <1>3, <2>1
  <2> QED
    BY <2>1, <2>2 DEF p, q
<1>6. \A k \in 1..n : Len(ts[k].text) = c[k] - c[k - 1]
  <2> SUFFICES ASSUME NEW k \in 1..n
               PROVE  Len(ts[k].text) = c[k] - c[k - 1]
    OBVIOUS
  <2>1. c[k - 1] \in 0..size /\ c[k] \in c[k - 1]..size
    BY <1>5
  <2> DEFINE p == c[k - 1]
             q == c[k]
  <2> HIDE DEF p, q
  <2>2. p \in 0..size /\ q \in p..size
    BY <2>1 DEF p, q
  <2>3. Len(SubSeq(source, p + 1, q)) = q - p
    BY <2>2, StretchFacts
  <2> QED
    BY <1>1, <2>3 DEF p, q
<1> QED
  BY <1>1, <1>2, <1>3, <1>5, <1>6 DEF Rec, n

\* Handing the end of a tactic's text on to the next keeps the cut.
LEMMA HandedOnCut ==
    ASSUME NEW Tok, NEW source \in Seq(Tok), NEW Goals, NEW a, NEW b, NEW ts,
           IsCut(ts, Tok, Goals, source, a, b),
           NEW k \in 1..(Len(ts) - 1), NEW size \in 0..Len(ts[k].text)
    PROVE  /\ IsCut(HandedOn(ts, k, size), Tok, Goals, source, a, b)
           /\ Len(HandedOn(ts, k, size)) = Len(ts)
<1> DEFINE Rec == [before : Goals, after : Goals, text : Seq(Tok)]
           n == Len(ts)
           new == HandedOn(ts, k, size)
<1>1. PICK c : Tiles(c, ts, Tok, Goals, source) /\ c[0] = a /\ c[n] = b
  BY DEF IsCut
<1>2. /\ n \in Nat /\ DOMAIN ts = 1..n /\ Len(source) \in Nat /\ ts \in [1..n -> Rec]
      /\ \A i \in 1..n : /\ ts[i] \in Rec
                         /\ c[i - 1] \in 0..Len(source) /\ c[i] \in c[i - 1]..Len(source)
                         /\ ts[i].text = SubSeq(source, c[i - 1] + 1, c[i])
                         /\ Len(ts[i].text) = c[i] - c[i - 1]
      /\ \A i \in 0..n : c[i] \in 0..Len(source)
  BY <1>1, TileFacts
<1>3. c \in [0..n -> 0..Len(source)]
  BY <1>1 DEF Tiles
<1>3a. n \in Nat /\ Len(source) \in Nat /\ k \in 1..(n - 1)
  BY <1>2
<1> HIDE DEF n
<1>4. k \in 1..n /\ k + 1 \in 1..n /\ k # k + 1 /\ k - 1 \in 0..n /\ k \in 0..n /\ k + 1 \in 0..n
      /\ k # 0 /\ k # n /\ 0 \in 0..n /\ n \in 0..n /\ k - 1 # k
  BY <1>3a
<1> DEFINE p == c[k - 1]
           q == c[k]
           r == c[k + 1]
           d == [c EXCEPT ![k] = p + size]
           left == SubSeq(source, p + 1, p + size)
           right == SubSeq(source, p + size + 1, r)
<1>5. /\ p \in 0..Len(source) /\ q \in p..Len(source) /\ r \in q..Len(source) /\ size \in 0..(q - p)
      /\ ts[k].text = SubSeq(source, p + 1, q)
      /\ ts[k + 1].text = SubSeq(source, q + 1, r)
      /\ Len(ts[k].text) = q - p
  <2>1. (k + 1) - 1 = k
    BY <1>4
  <2> QED
    BY <1>2, <1>4, <2>1
<1> HIDE DEF p, q, r
<1>6. /\ p \in Nat /\ q \in Nat /\ r \in Nat /\ Len(source) \in Nat /\ size \in Nat
      /\ p + size \in 0..Len(source) /\ p <= p + size /\ p + size <= q /\ q <= r /\ r <= Len(source)
  BY <1>3a, <1>5
<1>7. SubSeq(ts[k].text, 1, size) = left
  BY <1>5, StretchFacts
<1>8. SubSeq(ts[k].text, size + 1, Len(ts[k].text)) = SubSeq(source, p + size + 1, q)
  BY <1>5, StretchFacts
<1>9. SubSeq(source, p + size + 1, q) \o SubSeq(source, q + 1, r) = right
  <2> DEFINE u == p + size
  <2>1. u \in 0..Len(source) /\ q \in u..Len(source) /\ r \in q..Len(source)
    BY <1>5, <1>6
  <2> HIDE DEF u
  <2>2. SubSeq(source, u + 1, q) \o SubSeq(source, q + 1, r) = SubSeq(source, u + 1, r)
    BY <2>1, StretchFacts
  <2> QED
    BY <2>2 DEF u
<1>10. left \in Seq(Tok) /\ right \in Seq(Tok)
  <2> DEFINE u == p + size
  <2>1. u \in 0..Len(source) /\ u \in p..Len(source) /\ r \in u..Len(source)
    BY <1>5, <1>6
  <2> HIDE DEF u
  <2>2. SubSeq(source, p + 1, u) \in Seq(Tok) /\ SubSeq(source, u + 1, r) \in Seq(Tok)
    BY <1>5, <2>1, StretchFacts
  <2> QED
    BY <2>2 DEF u
<1>11. new = [ts EXCEPT ![k].text = left, ![k + 1].text = right]
  BY <1>2, <1>4, <1>5, <1>7, <1>8, <1>9 DEF HandedOn
<1> HIDE DEF left, right, new
<1>12. /\ new \in [1..n -> Rec]
       /\ new[k].text = left /\ new[k + 1].text = right
       /\ \A i \in 1..n : i # k /\ i # k + 1 => new[i] = ts[i]
  BY <1>2, <1>4, <1>10, <1>11
<1>13. new \in Seq(Rec) /\ Len(new) = n
  <2> HIDE DEF Rec
  <2>1. new \in Seq(Rec)
    BY <1>3a, <1>12, SeqDef
  <2>2. DOMAIN new = 1..n /\ DOMAIN new = 1..Len(new) /\ Len(new) \in Nat
    BY <1>12, <2>1, LenProperties
  <2> QED
    BY <1>3a, <2>1, <2>2, SameLength
<1>14. /\ d \in [0..n -> 0..Len(source)] /\ d[k] = p + size
       /\ \A i \in 0..n : i # k => d[i] = c[i]
  BY <1>3, <1>4, <1>6
<1> HIDE DEF d
<1>15. ASSUME NEW i \in 1..n
       PROVE  d[i - 1] <= d[i] /\ new[i].text = SubSeq(source, d[i - 1] + 1, d[i])
  <2>1. i \in 0..n /\ i - 1 \in 0..n /\ i \in Int
    BY <1>2
  <2>2. CASE i = k
    <3>1. d[i - 1] = p /\ d[i] = p + size
      BY <1>4, <1>14, <2>2 DEF p
    <3> QED
      BY <1>6, <1>12, <2>2, <3>1 DEF left
  <2>3. CASE i = k + 1
    <3>1. i - 1 = k /\ i # k
      BY <1>4, <2>1, <2>3
    <3>2. d[i - 1] = p + size /\ d[i] = r
      BY <1>4, <1>14, <2>1, <2>3, <3>1 DEF r
    <3>3. p + size <= r
      BY <1>6
    <3> QED
      BY <1>12, <2>3, <3>2, <3>3 DEF right
  <2>4. CASE i # k /\ i # k + 1
    <3>1. i - 1 # k
      BY <1>4, <2>1, <2>4
    <3>2. d[i - 1] = c[i - 1] /\ d[i] = c[i] /\ new[i] = ts[i]
      BY <1>12, <1>14, <2>1, <2>4, <3>1
    <3>3. c[i - 1] <= c[i] /\ ts[i].text = SubSeq(source, c[i - 1] + 1, c[i])
      BY <1>1 DEF Tiles, n
    <3> QED
      BY <3>2, <3>3
  <2> QED
    BY <2>2, <2>3, <2>4
<1>16. d[0] = a /\ d[n] = b
  BY <1>1, <1>4, <1>14
<1>17. Tiles(d, new, Tok, Goals, source)
  BY <1>13, <1>14, <1>15 DEF Tiles
<1> QED
  BY <1>13, <1>16, <1>17 DEF IsCut, new, n

\* What is left of a text is the start of it.
LEMMA StartOfText ==
    ASSUME NEW Tok, NEW t \in Seq(Tok), NEW l \in 0..Len(t)
    PROVE  SubSeq(t, 1, l) \in Seq(Tok) /\ Len(SubSeq(t, 1, l)) = l
<1>1. Len(t) \in Nat
  BY LenProperties
<1>2. 0 \in 0..Len(t) /\ l \in 0..Len(t) /\ 0 + 1 = 1 /\ l - 0 = l
  BY <1>1
<1>3. SubSeq(t, 0 + 1, l) \in Seq(Tok) /\ Len(SubSeq(t, 0 + 1, l)) = l - 0
  BY <1>2, StretchFacts
<1> QED
  BY <1>2, <1>3

LEMMA RightStrippedKeeps ==
    ASSUME NEW Tok, NEW t \in Seq(Tok)
    PROVE  RightStripped(t) \in Seq(Tok) /\ Len(RightStripped(t)) \in 0..Len(t)
<1> DEFINE S == {0} \cup {k \in DOMAIN t : t[k] \notin White}
<1>1. Len(t) \in Nat /\ DOMAIN t = 1..Len(t)
  BY LenProperties
<1>2. S \in SUBSET (0..Len(t)) /\ S # {}
  BY <1>1
<1>3. RightStripped(t) = SubSeq(t, 1, Largest(S))
  BY DEF RightStripped
<1> HIDE DEF S
<1>4. Largest(S) \in 0..Len(t)
  BY <1>1, <1>2, LargestOf
<1> QED
  BY <1>3, <1>4, StartOfText

\* infotree.py:391-471: where the code of a text ends, line by line upwards.
Opening(t, e) == {k \in LineEnds(t) : k <= e /\ Starts(LineAt(t, k), "/-")}
EndAt(g, t, e) ==
    IF e = 0 THEN 0
    ELSE IF IsBlank(LineAt(t, e)) THEN g[LineAbove(t, e)]
    ELSE IF Contains(LineAt(t, e), "-/") THEN
         IF Opening(t, e) = {} THEN e ELSE g[LineAbove(t, Largest(Opening(t, e)))]
    ELSE IF Starts(LineAt(t, e), "--") THEN g[LineAbove(t, e)]
    ELSE e
AreEnds(g, t, m) == g = [e \in {d \in {0} \cup LineEnds(t) : d <= m} |-> EndAt(g, t, e)]

LEMMA LinesAbove ==
    ASSUME NEW Tok, NEW t \in Seq(Tok), NEW e \in LineEnds(t)
    PROVE  /\ Len(t) \in Nat /\ LineEnds(t) \in SUBSET (1..Len(t))
           /\ LineAbove(t, e) \in {0} \cup LineEnds(t) /\ LineAbove(t, e) <= e - 1
           /\ Opening(t, e) # {} =>
                 /\ LineAbove(t, Largest(Opening(t, e))) \in {0} \cup LineEnds(t)
                 /\ LineAbove(t, Largest(Opening(t, e))) <= e - 1
<1>1. Len(t) \in Nat /\ LineEnds(t) \in SUBSET (1..Len(t))
  BY LenProperties DEF LineEnds
<1>2. ASSUME NEW d \in LineEnds(t)
      PROVE  LineAbove(t, d) \in {0} \cup LineEnds(t) /\ LineAbove(t, d) <= d - 1
  <2> DEFINE S == {0} \cup {k \in LineEnds(t) : k < d}
  <2>1. d \in Nat /\ S # {} /\ \A k \in S : k \in 0..Len(t) /\ k \in {0} \cup LineEnds(t) /\ k <= d - 1
    BY <1>1
  <2>2. LineAbove(t, d) = Largest(S)
    BY DEF LineAbove
  <2> HIDE DEF S
  <2>3. S \in SUBSET (0..Len(t))
    BY <2>1
  <2>4. Largest(S) \in S
    BY <1>1, <2>1, <2>3, LargestOf
  <2> QED
    BY <2>1, <2>2, <2>4
<1>3. ASSUME Opening(t, e) # {}
      PROVE  /\ LineAbove(t, Largest(Opening(t, e))) \in {0} \cup LineEnds(t)
             /\ LineAbove(t, Largest(Opening(t, e))) <= e - 1
  <2> DEFINE d == Largest(Opening(t, e))
  <2>1. \A k \in Opening(t, e) : k \in LineEnds(t) /\ k <= e
    BY DEF Opening
  <2>2. Opening(t, e) \in SUBSET (0..Len(t))
    BY <1>1, <2>1
  <2>3. d \in Opening(t, e)
    BY <1>1, <1>3, <2>2, LargestOf
  <2>4. d \in LineEnds(t) /\ d <= e
    BY <2>1, <2>3
  <2> HIDE DEF d
  <2>5. d \in Int /\ e \in Int
    BY <1>1, <2>4
  <2>6. LineAbove(t, d) \in {0} \cup LineEnds(t) /\ LineAbove(t, d) <= d - 1
    BY <1>2, <2>4
  <2>7. LineAbove(t, d) \in Int
    BY <1>1, <2>6
  <2>8. LineAbove(t, d) <= e - 1
    BY <2>4, <2>5, <2>6, <2>7
  <2> QED
    BY <2>6, <2>8 DEF d
<1> QED
  BY <1>1, <1>2, <1>3

\* Where a line's code ends depends on the lines above it only.
LEMMA EndAtAbove ==
    ASSUME NEW Tok, NEW t \in Seq(Tok), NEW e \in {0} \cup LineEnds(t), NEW g, NEW h,
           \A d \in {0} \cup LineEnds(t) : d <= e - 1 => g[d] = h[d]
    PROVE  EndAt(g, t, e) = EndAt(h, t, e)
<1>1. CASE e = 0
  BY <1>1 DEF EndAt
<1>2. CASE e # 0
  <2>1. e \in LineEnds(t)
    BY <1>2
  <2>2. /\ LineAbove(t, e) \in {0} \cup LineEnds(t) /\ LineAbove(t, e) <= e - 1
        /\ Opening(t, e) # {} =>
              /\ LineAbove(t, Largest(Opening(t, e))) \in {0} \cup LineEnds(t)
              /\ LineAbove(t, Largest(Opening(t, e))) <= e - 1
    BY <2>1, LinesAbove
  <2>3. /\ g[LineAbove(t, e)] = h[LineAbove(t, e)]
        /\ Opening(t, e) # {} =>
              g[LineAbove(t, Largest(Opening(t, e)))] = h[LineAbove(t, Largest(Opening(t, e)))]
    BY <2>2
  <2> QED
    BY <2>3, Zenon DEF EndAt
<1> QED
  BY <1>1, <1>2

LEMMA EndsExist ==
    ASSUME NEW Tok, NEW t \in Seq(Tok)
    PROVE  \E g : AreEnds(g, t, Len(t))
<1> DEFINE D == {0} \cup LineEnds(t)
           T == {m \in 0..Len(t) : \E g : AreEnds(g, t, m)}
<1>1. Len(t) \in Nat /\ D \in SUBSET (0..Len(t)) /\ 0 \in D
  BY LenProperties DEF LineEnds
<1>2. 0 \in T
  <2> DEFINE h == [e \in {d \in D : d <= 0} |-> 0]
  <2>1. \A e \in {d \in D : d <= 0} : EndAt(h, t, e) = 0
    BY <1>1 DEF EndAt
  <2>2. h = [e \in {d \in D : d <= 0} |-> EndAt(h, t, e)]
    BY <2>1
  <2>3. AreEnds(h, t, 0)
    BY <2>2 DEF AreEnds
  <2> QED
    BY <1>1, <2>3
<1>3. ASSUME NEW m \in 1..Len(t), m - 1 \in T
      PROVE  m \in T
  <2>1. PICK g : AreEnds(g, t, m - 1)
    BY <1>3
  <2> DEFINE E == {d \in D : d <= m}
             h == [e \in E |-> EndAt(g, t, e)]
  <2>2. m \in Int
    OBVIOUS
  <2>3. \A e \in D : e <= m - 1 => h[e] = g[e]
    <3> SUFFICES ASSUME NEW e \in D, e <= m - 1
                 PROVE  h[e] = g[e]
      OBVIOUS
    <3>1. e \in E /\ e \in {d \in D : d <= m - 1}
      BY <1>1, <2>2
    <3>2. g[e] = EndAt(g, t, e)
      BY <2>1, <3>1 DEF AreEnds
    <3> QED
      BY <3>1, <3>2
  <2> HIDE DEF h
  <2>4. \A e \in E : EndAt(h, t, e) = EndAt(g, t, e)
    <3> SUFFICES ASSUME NEW e \in E
                 PROVE  EndAt(h, t, e) = EndAt(g, t, e)
      OBVIOUS
    <3>1. e \in D /\ \A d \in D : d <= e - 1 => d <= m - 1
      BY <1>1, <2>2
    <3>2. \A d \in D : d <= e - 1 => h[d] = g[d]
      BY <2>3, <3>1
    <3> QED
      BY <3>1, <3>2, EndAtAbove
  <2>5. h = [e \in E |-> EndAt(h, t, e)]
    BY <2>4 DEF h
  <2>6. AreEnds(h, t, m)
    BY <2>5 DEF AreEnds
  <2> QED
    BY <2>6
<1>4. Len(t) \in T
  <2> HIDE DEF T
  <2>1. \A m \in 0..Len(t) : m \in T
    BY <1>1, <1>2, <1>3, Upto
  <2> QED
    BY <1>1, <2>1
<1> QED
  BY <1>4

LEMMA CodeEndInside ==
    ASSUME NEW Tok, NEW t \in Seq(Tok)
    PROVE  CodeEnd(t) \in 0..Len(t)
<1> DEFINE D == {0} \cup LineEnds(t)
           LinesEnd(g) == g = [e \in D |-> EndAt(g, t, e)]
           end == CHOOSE g : LinesEnd(g)
<1>1. /\ Len(t) \in Nat /\ \A e \in D : e \in 0..Len(t) /\ e <= Len(t)
      /\ Len(t) \in D
  BY LenProperties DEF LineEnds
<1>2. CodeEnd(t) = end[Len(t)]
  BY DEF CodeEnd, EndAt, Opening
<1>3. LinesEnd(end)
  <2>1. PICK g : AreEnds(g, t, Len(t))
    BY EndsExist
  <2>2. {d \in D : d <= Len(t)} = D
    BY <1>1
  <2>3. LinesEnd(g)
    BY <2>1, <2>2 DEF AreEnds
  <2> QED
    BY <2>3
<1> HIDE DEF end
<1>4. \A e \in D : end[e] = EndAt(end, t, e)
  BY <1>3
<1> DEFINE T == {m \in 0..Len(t) : \A e \in D : e <= m => end[e] \in 0..e}
<1>5. 0 \in T
  <2>1. \A e \in D : e <= 0 => e = 0
    BY <1>1
  <2>2. end[0] = 0
    BY <1>4 DEF EndAt
  <2> QED
    BY <1>1, <2>1, <2>2
<1>6. ASSUME NEW m \in 1..Len(t), m - 1 \in T
      PROVE  m \in T
  <2> SUFFICES ASSUME NEW e \in D, e <= m
               PROVE  end[e] \in 0..e
    BY <1>1
  <2>1. \A d \in D : d <= m - 1 => d \in Nat /\ end[d] \in 0..d
    BY <1>1, <1>6
  <2>2. CASE e = 0
    BY <1>4, <2>2 DEF EndAt
  <2>3. CASE e # 0
    <3>1. e \in LineEnds(t) /\ e \in Nat /\ m \in Nat
      BY <1>1, <2>3
    <3>2. /\ LineAbove(t, e) \in D /\ LineAbove(t, e) <= e - 1
          /\ Opening(t, e) # {} =>
                /\ LineAbove(t, Largest(Opening(t, e))) \in D
                /\ LineAbove(t, Largest(Opening(t, e))) <= e - 1
      BY <3>1, LinesAbove
    <3>3. \A d \in D : d <= e - 1 => end[d] \in 0..e
      <4> SUFFICES ASSUME NEW d \in D, d <= e - 1
                   PROVE  end[d] \in 0..e
        OBVIOUS
      <4>1. d \in Nat
        BY <1>1
      <4>2. d <= m - 1
        BY <3>1, <4>1
      <4>3. end[d] \in 0..d
        BY <2>1, <4>2
      <4> QED
        BY <3>1, <4>1, <4>3
    <3>4. e \in 0..e
      BY <3>1
    <3>5. \/ EndAt(end, t, e) = e
          \/ EndAt(end, t, e) = end[LineAbove(t, e)]
          \/ /\ Opening(t, e) # {}
             /\ EndAt(end, t, e) = end[LineAbove(t, Largest(Opening(t, e)))]
      BY <2>3, Zenon DEF EndAt
    <3> QED
      BY <1>4, <3>2, <3>3, <3>4, <3>5
  <2> QED
    BY <2>2, <2>3
<1>7. Len(t) \in T
  <2> HIDE DEF T
  <2>1. \A m \in 0..Len(t) : m \in T
    BY <1>1, <1>5, <1>6, Upto
  <2> QED
    BY <1>1, <2>1
<1> QED
  BY <1>1, <1>2, <1>7

\* infotree.py:474-508, and the end of what ends with ":= by": what stays of a
\* tactic's text is the start of it.
LEMMA TransferredCut ==
    ASSUME NEW Tok, NEW source \in Seq(Tok), NEW Goals, NEW a, NEW b, NEW ts,
           IsCut(ts, Tok, Goals, source, a, b), NEW k \in 1..(Len(ts) - 1)
    PROVE  /\ IsCut(Transferred(ts, k), Tok, Goals, source, a, b)
           /\ Len(Transferred(ts, k)) = Len(ts)
           /\ IsCut(ByMoved(ts, k), Tok, Goals, source, a, b)
           /\ Len(ByMoved(ts, k)) = Len(ts)
<1> DEFINE t == ts[k].text
           s == RightStripped(t)
           r == RightStripped(BeforeComment(s))
           S == {0} \cup {i \in DOMAIN t : t[i] = ":="}
<1>1. t \in Seq(Tok) /\ Len(t) \in Nat
  <2>1. PICK c : Tiles(c, ts, Tok, Goals, source)
    BY DEF IsCut
  <2>2. Len(ts) \in Nat /\ \A i \in 1..Len(ts) : ts[i] \in [before : Goals, after : Goals, text : Seq(Tok)]
    BY <2>1, TileFacts
  <2>3. k \in 1..Len(ts)
    BY <2>2
  <2>4. t \in Seq(Tok)
    BY <2>2, <2>3
  <2> QED
    BY <2>4, LenProperties
<1>2. Len(r) \in 0..Len(t)
  <2> HIDE DEF t
  <2>1. s \in Seq(Tok) /\ Len(s) \in 0..Len(t)
    BY <1>1, RightStrippedKeeps
  <2> HIDE DEF s
  <2>2. CodeEnd(s) \in 0..Len(s)
    BY <2>1, CodeEndInside
  <2>3. BeforeComment(s) \in Seq(Tok) /\ Len(BeforeComment(s)) = CodeEnd(s)
    BY <2>1, <2>2, StartOfText DEF BeforeComment
  <2>4. Len(r) \in 0..Len(BeforeComment(s))
    BY <2>3, RightStrippedKeeps
  <2> HIDE DEF r
  <2> QED
    BY <1>1, <2>1, <2>2, <2>3, <2>4
<1>3. Largest(S) \in 0..Len(t)
  <2>1. DOMAIN t = 1..Len(t)
    BY <1>1, LenProperties
  <2>2. S \in SUBSET (0..Len(t)) /\ S # {}
    BY <1>1, <2>1
  <2> HIDE DEF S, t
  <2> QED
    BY <1>1, <2>2, LargestOf
<1>4. Transferred(ts, k) = HandedOn(ts, k, Len(r))
  BY DEF Transferred
<1>5. ByMoved(ts, k) = IF EndsWithBy(t) THEN HandedOn(ts, k, Largest(S)) ELSE ts
  BY DEF ByMoved
<1>6. /\ IsCut(HandedOn(ts, k, Len(r)), Tok, Goals, source, a, b)
      /\ Len(HandedOn(ts, k, Len(r))) = Len(ts)
  <2> HIDE DEF r
  <2> QED
    BY <1>2, HandedOnCut DEF t
<1>7. /\ IsCut(HandedOn(ts, k, Largest(S)), Tok, Goals, source, a, b)
      /\ Len(HandedOn(ts, k, Largest(S))) = Len(ts)
  <2> HIDE DEF S
  <2> QED
    BY <1>3, HandedOnCut DEF t
<1> HIDE DEF t, r, S
<1> QED
  BY <1>4, <1>5, <1>6, <1>7

\* A tactic that follows is put after the ones before it, or joins the last.
LEMMA JoinedCut ==
    ASSUME NEW Tok, NEW source \in Seq(Tok), NEW Goals, NEW a \in 0..Len(source), NEW b, NEW ts,
           IsCut(ts, Tok, Goals, source, a, b),
           NEW next \in [before : Goals, after : Goals, text : Seq(Tok)],
           NEW d \in b..Len(source), next.text = SubSeq(source, b + 1, d)
    PROVE  IsCut(Joined(ts, next), Tok, Goals, source, a, d)
<1> DEFINE Rec == [before : Goals, after : Goals, text : Seq(Tok)]
           n == Len(ts)
           size == Len(source)
           new == Joined(ts, next)
<1>1. PICK c : Tiles(c, ts, Tok, Goals, source) /\ c[0] = a /\ c[n] = b
  BY DEF IsCut
<1>2. /\ n \in Nat /\ DOMAIN ts = 1..n /\ size \in Nat /\ ts \in [1..n -> Rec]
      /\ \A i \in 1..n : /\ ts[i] \in Rec
                         /\ c[i - 1] \in 0..size /\ c[i] \in c[i - 1]..size
                         /\ ts[i].text = SubSeq(source, c[i - 1] + 1, c[i])
      /\ \A i \in 0..n : c[i] \in 0..size
  BY <1>1, TileFacts
<1>3. c \in [0..n -> 0..size] /\ ts \in Seq(Rec)
      /\ \A i \in 1..n : c[i - 1] <= c[i] /\ ts[i].text = SubSeq(source, c[i - 1] + 1, c[i])
  BY <1>1 DEF Tiles
<1>4. n \in Nat /\ size \in Nat
  BY <1>2
<1>5. b \in 0..size /\ d \in 0..size /\ b <= d
  <2>1. n \in 0..n
    BY <1>4
  <2>2. b \in 0..size
    BY <1>1, <1>2, <2>1
  <2> HIDE DEF size
  <2> QED
    BY <1>4, <2>2 DEF size
<1> HIDE DEF n, Rec
<1>6. CASE n > 0 /\ Unfinished(ts[n].text)
  <2> DEFINE e == [c EXCEPT ![n] = d]
             p == c[n - 1]
             text == SubSeq(source, p + 1, d)
  <2>1. n \in 1..n /\ n \in 0..n /\ 0 \in 0..n /\ 0 # n /\ n - 1 \in 0..n /\ n - 1 # n
    BY <1>4, <1>6
  <2>2. p \in 0..size /\ b \in p..size /\ ts[n].text = SubSeq(source, p + 1, b) /\ ts[n] \in Rec
    BY <1>1, <1>2, <2>1
  <2>3. new = [ts EXCEPT ![n].text = ts[n].text \o next.text, ![n].after = next.after]
    BY <1>2, <1>6, <2>1, <2>2 DEF Joined, n, Rec
  <2> HIDE DEF p
  <2>4. ts[n].text \o next.text = text
    BY <2>2, StretchFacts
  <2>5. text \in Seq(Tok) /\ p <= d
    <3>1. d \in p..size
      BY <1>4, <1>5, <2>2
    <3> QED
      BY <1>4, <2>2, <3>1, StretchFacts
  <2> HIDE DEF new, text
  <2>6. /\ new \in [1..n -> Rec] /\ new[n].text = text
        /\ \A i \in 1..n : i # n => new[i] = ts[i]
    BY <1>2, <2>1, <2>2, <2>3, <2>4, <2>5 DEF Rec
  <2>7. new \in Seq(Rec) /\ Len(new) = n
    <3>1. new \in Seq(Rec)
      BY <1>4, <2>6, SeqDef
    <3>2. DOMAIN new = 1..n /\ DOMAIN new = 1..Len(new) /\ Len(new) \in Nat
      BY <2>6, <3>1, LenProperties
    <3> QED
      BY <1>4, <3>1, <3>2, SameLength
  <2>8. e \in [0..n -> 0..size] /\ e[n] = d /\ \A i \in 0..n : i # n => e[i] = c[i]
    BY <1>3, <1>5, <2>1
  <2> HIDE DEF e
  <2>9. ASSUME NEW i \in 1..n
        PROVE  e[i - 1] <= e[i] /\ new[i].text = SubSeq(source, e[i - 1] + 1, e[i])
    <3>1. i \in 0..n /\ i - 1 \in 0..n /\ i - 1 # n
      BY <1>4
    <3>2. CASE i = n
      BY <2>5, <2>6, <2>8, <3>1, <3>2 DEF p, text
    <3>3. CASE i # n
      BY <1>3, <2>6, <2>8, <3>1, <3>3
    <3> QED
      BY <3>2, <3>3
  <2>10. Tiles(e, new, Tok, Goals, source)
    BY <2>7, <2>8, <2>9 DEF Tiles, Rec, size
  <2>11. e[0] = a /\ e[n] = d
    BY <1>1, <2>1, <2>8
  <2> QED
    BY <2>7, <2>10, <2>11 DEF IsCut, new
<1>7. CASE ~(n > 0 /\ Unfinished(ts[n].text))
  <2> DEFINE e == [i \in 0..(n + 1) |-> IF i = n + 1 THEN d ELSE c[i]]
  <2>1. new = Append(ts, next)
    BY <1>7 DEF Joined, n
  <2> HIDE DEF new
  <2>2. /\ new \in Seq(Rec) /\ Len(new) = n + 1 /\ new[n + 1] = next
        /\ \A i \in 1..n : new[i] = ts[i]
    <3>1. next \in Rec
      BY DEF Rec
    <3> QED
      BY <1>3, <2>1, <3>1, AppendProperties DEF n
  <2>3. /\ n + 1 \in 0..(n + 1) /\ n + 1 # n /\ n + 1 # 0
        /\ \A i \in 0..n : i \in 0..(n + 1) /\ i # n + 1
        /\ \A i \in 0..(n + 1) : i # n + 1 => i \in 0..n
    BY <1>4
  <2>4. /\ e[n + 1] = d /\ \A i \in 0..n : e[i] = c[i]
    BY <2>3
  <2>5. e \in [0..(n + 1) -> 0..size]
    <3>1. \A i \in 0..(n + 1) : e[i] \in 0..size
      BY <1>3, <1>5, <2>3
    <3> QED
      BY <3>1
  <2> HIDE DEF e
  <2>6. ASSUME NEW i \in 1..(n + 1)
        PROVE  e[i - 1] <= e[i] /\ new[i].text = SubSeq(source, e[i - 1] + 1, e[i])
    <3>1. CASE i = n + 1
      <4>1. i - 1 = n /\ n \in 0..n
        BY <1>4, <3>1
      <4> QED
        BY <1>1, <1>5, <2>2, <2>4, <3>1, <4>1
    <3>2. CASE i # n + 1
      <4>1. i \in 1..n /\ i \in 0..n /\ i - 1 \in 0..n
        BY <1>4, <3>2
      <4> QED
        BY <1>3, <2>2, <2>4, <4>1
    <3> QED
      BY <3>1, <3>2
  <2>7. Tiles(e, new, Tok, Goals, source)
    BY <2>2, <2>5, <2>6 DEF Tiles, Rec, size
  <2>8. e[0] = a
    <3>1. 0 \in 0..n
      BY <1>4
    <3> QED
      BY <1>1, <2>4, <3>1
  <2> QED
    BY <2>2, <2>4, <2>7, <2>8 DEF IsCut, new
<1> QED
  BY <1>6, <1>7

\* The three loops over the tactics.
StepOf(loop, ts, old, k) ==
    IF loop = "merge" THEN Joined(old, ts[k])
    ELSE IF k = Len(ts) THEN old
    ELSE IF loop = "transfer" THEN Transferred(old, k) ELSE ByMoved(old, k)
AreSteps(g, loop, ts, n) ==
    g = [k \in 0..n |-> IF k = 0 THEN IF loop = "merge" THEN <<>> ELSE ts
                        ELSE StepOf(loop, ts, g[k - 1], k)]

LEMMA StepsExist ==
    ASSUME NEW loop, NEW ts, NEW n \in Nat
    PROVE  \E g : AreSteps(g, loop, ts, n)
<1> DEFINE start == IF loop = "merge" THEN <<>> ELSE ts
           T == {m \in 0..n : \E g : AreSteps(g, loop, ts, m)}
<1>1. 0 \in T
  <2>1. AreSteps([k \in 0..0 |-> start], loop, ts, 0)
    BY DEF AreSteps
  <2> QED
    BY <2>1
<1>2. ASSUME NEW m \in 1..n, m - 1 \in T
      PROVE  m \in T
  <2>1. PICK g : AreSteps(g, loop, ts, m - 1)
    BY <1>2
  <2> HIDE DEF start
  <2> DEFINE h == [k \in 0..m |-> IF k = 0 THEN start ELSE StepOf(loop, ts, g[k - 1], k)]
  <2>2. \A k \in 0..(m - 1) : h[k] = g[k]
    <3>1. \A k \in 0..(m - 1) : k \in 0..m
      OBVIOUS
    <3>2. \A k \in 0..(m - 1) : g[k] = IF k = 0 THEN start ELSE StepOf(loop, ts, g[k - 1], k)
      BY <2>1 DEF AreSteps, start
    <3> QED
      BY <3>1, <3>2
  <2>3. \A k \in 0..m : k # 0 => h[k - 1] = g[k - 1]
    <3>1. \A k \in 0..m : k # 0 => k - 1 \in 0..(m - 1)
      OBVIOUS
    <3> HIDE DEF h
    <3> QED
      BY <2>2, <3>1
  <2>4. \A k \in 0..m : h[k] = IF k = 0 THEN start ELSE StepOf(loop, ts, h[k - 1], k)
    BY <2>3
  <2>5. AreSteps(h, loop, ts, m)
    BY <2>4 DEF AreSteps, start
  <2> QED
    BY <2>5
<1>3. n \in T
  <2> HIDE DEF T
  <2>1. \A k \in 0..n : k \in T
    BY <1>1, <1>2, Upto
  <2> QED
    BY <2>1
<1> QED
  BY <1>3

LEMMA LoopsAreSteps ==
    ASSUME NEW ts, Len(ts) \in Nat
    PROVE  /\ \E g : AreSteps(g, "transfer", ts, Len(ts)) /\ TransferredAll(ts) = g[Len(ts)]
           /\ \E g : AreSteps(g, "by", ts, Len(ts)) /\ ByMovedAll(ts) = g[Len(ts)]
           /\ \E g : AreSteps(g, "merge", ts, Len(ts)) /\ Merged(ts) = g[Len(ts)]
<1> DEFINE n == Len(ts)
           IsTransfer(g) ==
               g = [k \in 0..n |-> IF k = 0 THEN ts
                                   ELSE IF k = n THEN g[k - 1] ELSE Transferred(g[k - 1], k)]
           IsBys(g) ==
               g = [k \in 0..n |-> IF k = 0 THEN ts
                                   ELSE IF k = n THEN g[k - 1] ELSE ByMoved(g[k - 1], k)]
           IsMerge(g) == g = [k \in 0..n |-> IF k = 0 THEN <<>> ELSE Joined(g[k - 1], ts[k])]
<1>1. \A g : /\ AreSteps(g, "transfer", ts, n) <=> IsTransfer(g)
             /\ AreSteps(g, "by", ts, n) <=> IsBys(g)
             /\ AreSteps(g, "merge", ts, n) <=> IsMerge(g)
  BY DEF AreSteps, StepOf
<1>2. (\E g : IsTransfer(g)) /\ (\E g : IsBys(g)) /\ (\E g : IsMerge(g))
  <2>1. /\ \E g : AreSteps(g, "transfer", ts, n)
        /\ \E g : AreSteps(g, "by", ts, n)
        /\ \E g : AreSteps(g, "merge", ts, n)
    BY StepsExist
  <2> HIDE DEF IsTransfer, IsBys, IsMerge
  <2> QED
    BY <1>1, <2>1
<1> DEFINE transfer == CHOOSE g : IsTransfer(g)
           by == CHOOSE g : IsBys(g)
           merge == CHOOSE g : IsMerge(g)
<1>3. IsTransfer(transfer) /\ IsBys(by) /\ IsMerge(merge)
  <2> HIDE DEF IsTransfer, IsBys, IsMerge
  <2> QED
    BY <1>2
<1>4. TransferredAll(ts) = transfer[n] /\ ByMovedAll(ts) = by[n] /\ Merged(ts) = merge[n]
  BY Zenon DEF TransferredAll, ByMovedAll, Merged
<1> HIDE DEF IsTransfer, IsBys, IsMerge, transfer, by, merge
<1> QED
  BY <1>1, <1>3, <1>4

\* Each loop keeps the cut.
LEMMA LoopsKeepCut ==
    ASSUME NEW Tok, NEW source \in Seq(Tok), NEW Goals, NEW a, NEW b, NEW ts,
           IsCut(ts, Tok, Goals, source, a, b)
    PROVE  /\ IsCut(TransferredAll(ts), Tok, Goals, source, a, b)
           /\ IsCut(ByMovedAll(ts), Tok, Goals, source, a, b)
           /\ IsCut(Merged(ts), Tok, Goals, source, a, b)
<1> DEFINE n == Len(ts)
           Rec == [before : Goals, after : Goals, text : Seq(Tok)]
<1>1. PICK c : Tiles(c, ts, Tok, Goals, source) /\ c[0] = a /\ c[n] = b
  BY DEF IsCut
<1>2. /\ n \in Nat /\ Len(source) \in Nat
      /\ \A i \in 1..n : /\ ts[i] \in Rec
                         /\ c[i - 1] \in 0..Len(source) /\ c[i] \in c[i - 1]..Len(source)
                         /\ ts[i].text = SubSeq(source, c[i - 1] + 1, c[i])
      /\ \A i \in 0..n : c[i] \in 0..Len(source)
  BY <1>1, TileFacts
<1>3. n \in Nat /\ 0 \in 0..n /\ n \in 0..n
  BY <1>2
<1>4. PICK by : AreSteps(by, "by", ts, n) /\ ByMovedAll(ts) = by[n]
  BY <1>3, LoopsAreSteps
<1>5. PICK move : AreSteps(move, "transfer", ts, n) /\ TransferredAll(ts) = move[n]
  BY <1>3, LoopsAreSteps
<1>6. PICK merge : AreSteps(merge, "merge", ts, n) /\ Merged(ts) = merge[n]
  BY <1>3, LoopsAreSteps
<1> HIDE DEF n, Rec
<1>7. /\ by[0] = ts /\ move[0] = ts /\ merge[0] = <<>>
      /\ \A k \in 1..n : /\ merge[k] = Joined(merge[k - 1], ts[k])
                         /\ by[k] = IF k = n THEN by[k - 1] ELSE ByMoved(by[k - 1], k)
                         /\ move[k] = IF k = n THEN move[k - 1] ELSE Transferred(move[k - 1], k)
  <2>1. \A k \in 1..n : k \in 0..n /\ k # 0
    BY <1>3
  <2>2. merge[0] = <<>> /\ \A k \in 1..n : merge[k] = Joined(merge[k - 1], ts[k])
    BY <1>3, <1>6, <2>1 DEF AreSteps, StepOf
  <2>3. by[0] = ts /\ \A k \in 1..n : by[k] = IF k = n THEN by[k - 1] ELSE ByMoved(by[k - 1], k)
    BY <1>3, <1>4, <2>1 DEF AreSteps, StepOf, n
  <2>4. move[0] = ts
        /\ \A k \in 1..n : move[k] = IF k = n THEN move[k - 1] ELSE Transferred(move[k - 1], k)
    BY <1>3, <1>5, <2>1 DEF AreSteps, StepOf, n
  <2> QED
    BY <2>2, <2>3, <2>4
<1> DEFINE Good(s) == IsCut(s, Tok, Goals, source, a, b) /\ Len(s) = n
           T == {k \in 0..n : Good(by[k]) /\ Good(move[k])}
           M == {k \in 0..n : IsCut(merge[k], Tok, Goals, source, a, c[k])}
<1>8. 0 \in T
  BY <1>3, <1>7 DEF n
<1>9. ASSUME NEW k \in 1..n, k - 1 \in T
      PROVE  k \in T
  <2>1. Good(by[k - 1]) /\ Good(move[k - 1]) /\ k \in 0..n
    BY <1>3, <1>9
  <2>2. CASE k = n
    <3>1. by[k] = by[k - 1] /\ move[k] = move[k - 1]
      BY <1>7, <2>2
    <3> QED
      BY <2>1, <3>1
  <2>3. CASE k # n
    <3>1. by[k] = ByMoved(by[k - 1], k) /\ move[k] = Transferred(move[k - 1], k)
      BY <1>7, <2>3
    <3>1a. k \in 1..(n - 1)
      BY <1>3, <2>3
    <3>2. Good(ByMoved(by[k - 1], k)) /\ Good(Transferred(move[k - 1], k))
      BY <2>1, <3>1a, TransferredCut
    <3> QED
      BY <2>1, <3>1, <3>2
  <2> QED
    BY <2>2, <2>3
<1>10. n \in T
  <2> HIDE DEF T
  <2>1. \A k \in 0..n : k \in T
    BY <1>3, <1>8, <1>9, Upto
  <2> QED
    BY <1>3, <2>1
<1>11. 0 \in M
  <2> DEFINE e == [i \in 0..0 |-> a]
  <2>1. a \in 0..Len(source)
    BY <1>1, <1>2, <1>3
  <2>2. <<>> \in Seq(Rec) /\ Len(<<>>) = 0
    BY EmptySeq
  <2>3. Tiles(e, <<>>, Tok, Goals, source)
    BY <2>1, <2>2 DEF Tiles, Rec
  <2>4. e[0] = a
    OBVIOUS
  <2> HIDE DEF e
  <2> QED
    BY <1>1, <1>3, <1>7, <2>2, <2>3, <2>4 DEF IsCut
<1>12. ASSUME NEW k \in 1..n, k - 1 \in M
       PROVE  k \in M
  <2>1. IsCut(merge[k - 1], Tok, Goals, source, a, c[k - 1]) /\ k \in 0..n
    BY <1>3, <1>12
  <2>2. /\ ts[k] \in [before : Goals, after : Goals, text : Seq(Tok)]
        /\ c[k] \in c[k - 1]..Len(source)
        /\ ts[k].text = SubSeq(source, c[k - 1] + 1, c[k])
    BY <1>2 DEF Rec
  <2>3. a \in 0..Len(source)
    BY <1>1, <1>2, <1>3
  <2>4. IsCut(Joined(merge[k - 1], ts[k]), Tok, Goals, source, a, c[k])
    BY <2>1, <2>2, <2>3, JoinedCut
  <2> QED
    BY <1>7, <2>1, <2>4
<1>13. n \in M
  <2> HIDE DEF M
  <2>1. \A k \in 0..n : k \in M
    BY <1>3, <1>11, <1>12, Upto
  <2> QED
    BY <1>3, <2>1
<1> QED
  BY <1>1, <1>4, <1>5, <1>6, <1>10, <1>13 DEF n

\* The tactics of the intervals that are left, cut from first to furthest.
LEMMA TacticsCut ==
    ASSUME NEW Tok, NEW source \in Seq(Tok), NEW Goals, NEW ivs,
           AreIntervals(ivs, Len(source), Goals), ivs # <<>>
    PROVE  IsCut(Tactics(Adjusted(ivs), source), Tok, Goals, source, First(ivs), Furthest(ivs))
<1> DEFINE size == Len(source)
           A == Adjusted(ivs)
           IRec == [start : 0..size, finish : 0..size, before : Goals, after : Goals]
           Rec == [before : Goals, after : Goals, text : Seq(Tok)]
           ts == Tactics(A, source)
<1>1. size \in Nat
  BY LenProperties
<1>2. First(ivs) \in 0..size /\ Furthest(ivs) \in 0..size
  BY <1>1, EndFacts
<1>3. PICK m \in Nat :
         /\ A \in [1..m -> IRec]
         /\ m = 0 => First(ivs) = Furthest(ivs)
         /\ m # 0 => A[1].start = First(ivs) /\ A[m].finish = Furthest(ivs)
         /\ \A k \in 1..m : A[k].start <= A[k].finish
         /\ \A k \in 1..(m - 1) : A[k].finish = A[k + 1].start
  BY <1>1, AdjustedTiles
<1> DEFINE a == First(ivs)
           b == Furthest(ivs)
           c == [k \in 0..m |-> IF k = 0 THEN a ELSE A[k].finish]
<1> HIDE DEF a, b, A
<1>4. \A k \in 1..m : /\ A[k].start \in 0..size /\ A[k].finish \in 0..size
                      /\ A[k].start <= A[k].finish
                      /\ A[k].before \in Goals /\ A[k].after \in Goals
  BY <1>3
<1>5. a \in 0..size /\ b \in 0..size
  BY <1>2 DEF a, b
<1> HIDE DEF size
<1>6. c \in [0..m -> 0..size] /\ c[0] = a /\ c[m] = b
  <2>1. \A k \in 0..m : k # 0 => k \in 1..m
    BY <1>3
  <2>2. \A k \in 0..m : c[k] \in 0..size
    BY <1>4, <1>5, <2>1
  <2>3. 0 \in 0..m /\ m \in 0..m
    BY <1>3
  <2> QED
    BY <1>3, <2>2, <2>3 DEF a, b
<1>7. \A k \in 1..m : c[k - 1] = A[k].start /\ c[k] = A[k].finish
  <2> SUFFICES ASSUME NEW k \in 1..m
               PROVE  c[k - 1] = A[k].start /\ c[k] = A[k].finish
    OBVIOUS
  <2>1. k \in 0..m /\ k # 0 /\ k - 1 \in 0..m /\ m # 0
    BY <1>3
  <2>2. CASE k = 1
    BY <1>3, <2>1, <2>2 DEF a
  <2>3. CASE k # 1
    <3>1. k - 1 \in 1..(m - 1) /\ (k - 1) + 1 = k /\ k - 1 # 0
      BY <1>3, <2>3
    <3> QED
      BY <1>3, <2>1, <3>1
  <2> QED
    BY <2>2, <2>3
<1> HIDE DEF c
<1>8. ts = [k \in 1..m |-> [before |-> A[k].before, after |-> A[k].after,
                            text |-> SubSeq(source, A[k].start + 1, A[k].finish)]]
  <2>1. DOMAIN A = 1..m
    BY <1>3
  <2> QED
    BY <2>1 DEF Tactics
<1>9. \A k \in 1..m : SubSeq(source, A[k].start + 1, A[k].finish) \in Seq(Tok)
  <2> SUFFICES ASSUME NEW k \in 1..m
               PROVE  SubSeq(source, A[k].start + 1, A[k].finish) \in Seq(Tok)
    OBVIOUS
  <2>1. A[k].start \in 0..Len(source) /\ A[k].finish \in A[k].start..Len(source)
    BY <1>1, <1>4 DEF size
  <2> QED
    BY <2>1, StretchFacts
<1> HIDE DEF ts
<1>10. ts \in [1..m -> Rec] /\ \A k \in 1..m : ts[k].text = SubSeq(source, c[k - 1] + 1, c[k])
  BY <1>4, <1>7, <1>8, <1>9
<1>11. ts \in Seq(Rec) /\ Len(ts) = m
  <2> HIDE DEF Rec
  <2>1. ts \in Seq(Rec)
    BY <1>3, <1>10, SeqDef
  <2>2. DOMAIN ts = 1..m /\ DOMAIN ts = 1..Len(ts) /\ Len(ts) \in Nat
    BY <1>10, <2>1, LenProperties
  <2> QED
    BY <1>3, <2>1, <2>2, SameLength
<1>12. Tiles(c, ts, Tok, Goals, source)
  BY <1>4, <1>6, <1>7, <1>10, <1>11 DEF Tiles, size
<1> QED
  BY <1>6, <1>11, <1>12 DEF IsCut, ts, A, a, b

\* Filling the goals in leaves the texts alone.
LEMMA GoalsFilledFacts ==
    ASSUME NEW ts, Len(ts) \in Nat, DOMAIN ts = 1..Len(ts),
           \A k \in 1..Len(ts) : ts[k] = [before |-> ts[k].before, after |-> ts[k].after,
                                          text |-> ts[k].text]
    PROVE  LET filled == GoalsFilled(ts)
           IN /\ DOMAIN filled = 1..Len(ts) /\ Len(filled) = Len(ts)
              /\ \A k \in 1..Len(ts) : filled[k].text = ts[k].text
              /\ \A k \in 1..(Len(ts) - 1) : filled[k].after = filled[k + 1].before
<1> DEFINE n == Len(ts)
           filled == GoalsFilled(ts)
<1>1. /\ DOMAIN filled = 1..n
      /\ \A k \in 1..n : filled[k] = IF k = n THEN ts[k]
                                     ELSE [ts[k] EXCEPT !.before = GoalsFrom(ts, k),
                                                        !.after = GoalsFrom(ts, k + 1)]
  BY DEF GoalsFilled
<1>2. \A k \in 1..n : /\ filled[k].text = ts[k].text
                      /\ k # n => /\ filled[k].before = GoalsFrom(ts, k)
                                  /\ filled[k].after = GoalsFrom(ts, k + 1)
                      /\ k = n => filled[k].before = ts[k].before
  <2> SUFFICES ASSUME NEW k \in 1..n
               PROVE  /\ filled[k].text = ts[k].text
                      /\ k # n => /\ filled[k].before = GoalsFrom(ts, k)
                                  /\ filled[k].after = GoalsFrom(ts, k + 1)
                      /\ k = n => filled[k].before = ts[k].before
    OBVIOUS
  <2>1. PICK x, y, z : ts[k] = [before |-> x, after |-> y, text |-> z]
    OBVIOUS
  <2> HIDE DEF filled
  <2> QED
    BY <1>1, <2>1
<1>3. n # 0 => GoalsFrom(ts, n) = ts[n].before
  <2> SUFFICES ASSUME n # 0
               PROVE  GoalsFrom(ts, n) = ts[n].before
    OBVIOUS
  <2> DEFINE known == {i \in n..n : ts[i].before # 0}
  <2>1. n \in n..n /\ n \in Nat /\ \A i \in n..n : i = n
    OBVIOUS
  <2>2. known \in SUBSET Nat /\ \A i \in known : i = n
    BY <2>1
  <2>3. GoalsFrom(ts, n) = IF known = {} THEN 0 ELSE ts[Smallest(known)].before
    BY DEF GoalsFrom
  <2>4. known = {} => ts[n].before = 0
    BY <2>1
  <2> HIDE DEF known, n
  <2>5. known # {} => Smallest(known) = n
    BY <2>2, SmallestOf
  <2> QED
    BY <2>3, <2>4, <2>5
<1>3a. Len(filled) = n
  <2> DEFINE S == {filled[k] : k \in 1..n}
  <2>1. filled \in [1..n -> S]
    BY DEF GoalsFilled
  <2>2. DOMAIN filled = 1..n
    BY <1>1
  <2> HIDE DEF filled, S
  <2>3. filled \in Seq(S)
    BY <2>1, SeqDef
  <2>4. DOMAIN filled = 1..Len(filled) /\ Len(filled) \in Nat
    BY <2>3, LenProperties
  <2> QED
    BY <2>2, <2>4, SameLength
<1> HIDE DEF filled
<1>4. ASSUME NEW k \in 1..(n - 1)
      PROVE  filled[k].after = filled[k + 1].before
  <2>1. n \in Nat
    OBVIOUS
  <2> HIDE DEF n
  <2>2. k \in 1..n /\ k # n /\ k + 1 \in 1..n /\ n # 0 /\ (k + 1 = n \/ k + 1 # n)
    BY <2>1
  <2> QED
    BY <1>2, <1>3, <2>2
<1> QED
  BY <1>1, <1>2, <1>3a, <1>4 DEF filled

\* Texts cut so, joined, are the source text again.
LEMMA CutJoins ==
    ASSUME NEW Tok, NEW source \in Seq(Tok), NEW Goals, NEW a, NEW b, NEW ts,
           IsCut(ts, Tok, Goals, source, a, b)
    PROVE  FlattenSeq([k \in 1..Len(ts) |-> ts[k].text]) = SubSeq(source, a + 1, b)
<1> DEFINE n == Len(ts)
           s == [k \in 1..n |-> ts[k].text]
<1>1. PICK c : Tiles(c, ts, Tok, Goals, source) /\ c[0] = a /\ c[n] = b
  BY DEF IsCut
<1>2. /\ n \in Nat /\ Len(source) \in Nat
      /\ \A i \in 1..n : /\ ts[i] \in [before : Goals, after : Goals, text : Seq(Tok)]
                         /\ c[i - 1] \in 0..Len(source) /\ c[i] \in c[i - 1]..Len(source)
                         /\ ts[i].text = SubSeq(source, c[i - 1] + 1, c[i])
      /\ \A i \in 0..n : c[i] \in 0..Len(source)
  BY <1>1, TileFacts
<1>3. n \in Nat /\ Len(source) \in Nat /\ 0 \in 0..n
  BY <1>2
<1> HIDE DEF n
<1>4. \A i \in 1..n : s[i] = SubSeq(source, c[i - 1] + 1, c[i]) /\ s[i] \in Seq(Tok)
  BY <1>2
<1>5. s \in Seq(Seq(Tok)) /\ Len(s) = n
  <2>1. s \in [1..n -> Seq(Tok)]
    BY <1>4
  <2> HIDE DEF s
  <2>2. s \in Seq(Seq(Tok))
    BY <1>3, <2>1, SeqDef
  <2>3. DOMAIN s = 1..n /\ DOMAIN s = 1..Len(s) /\ Len(s) \in Nat
    BY <2>1, <2>2, LenProperties
  <2> QED
    BY <1>3, <2>2, <2>3, SameLength
<1>6. a \in 0..Len(source) /\ a \in Int
  BY <1>1, <1>2, <1>3
<1> HIDE DEF s
<1>7. CASE n = 0
  <2>1. FlattenSeq(s) = s
    BY <1>5, <1>7 DEF FlattenSeq
  <2>2. s = <<>>
    BY <1>5, <1>7, EmptySeq
  <2>3. a = b
    BY <1>1, <1>7
  <2>4. SubSeq(source, a + 1, b) = <<>>
    <3>1. a + 1 \in Int /\ b \in Int /\ b < a + 1
      BY <1>6, <2>3
    <3> QED
      BY <3>1, SubSeqEmpty
  <2> QED
    BY <2>1, <2>2, <2>4 DEF s, n
<1>8. CASE n # 0
  <2>1. PICK g : IsFlat(g, s, n) /\ FlattenSeq(s) = g[n]
    BY <1>3, <1>5, <1>8, Flat
  <2>2. \A i \in 1..n : g[i] = IF i = 1 THEN s[i] ELSE g[i - 1] \o s[i]
    BY <2>1 DEF IsFlat
  <2> DEFINE T == {k \in 0..n : c[k] \in a..Len(source) /\ (k # 0 => g[k] = SubSeq(source, a + 1, c[k]))}
  <2>3. 0 \in T
    <3>1. a \in a..Len(source)
      BY <1>3, <1>6
    <3> QED
      BY <1>1, <1>3, <3>1
  <2>4. ASSUME NEW k \in 1..n, k - 1 \in T
        PROVE  k \in T
    <3>1. k \in 0..n /\ k # 0 /\ (k - 1 = 0 <=> k = 1)
      BY <1>3
    <3>2. /\ c[k - 1] \in 0..Len(source) /\ c[k] \in c[k - 1]..Len(source)
          /\ s[k] = SubSeq(source, c[k - 1] + 1, c[k])
      BY <1>2, <1>4
    <3>3. c[k - 1] \in a..Len(source) /\ (k # 1 => g[k - 1] = SubSeq(source, a + 1, c[k - 1]))
      BY <2>4, <3>1
    <3>4. c[k] \in a..Len(source)
      <4> DEFINE p == c[k - 1]
                 q == c[k]
      <4>1. p \in a..Len(source) /\ q \in p..Len(source)
        BY <3>2, <3>3
      <4> HIDE DEF p, q
      <4>2. q \in a..Len(source)
        BY <1>3, <1>6, <4>1
      <4> QED
        BY <4>2 DEF q
    <3>5. CASE k = 1
      <4>1. c[k - 1] = a
        BY <1>1, <3>5
      <4>2. g[k] = s[k]
        BY <2>2, <3>5
      <4> QED
        BY <3>1, <3>2, <3>4, <4>1, <4>2
    <3>6. CASE k # 1
      <4>1. g[k] = SubSeq(source, a + 1, c[k - 1]) \o SubSeq(source, c[k - 1] + 1, c[k])
        BY <2>2, <3>2, <3>3, <3>6
      <4> DEFINE p == c[k - 1]
                 q == c[k]
      <4>2. p \in a..Len(source) /\ q \in p..Len(source)
        BY <3>2, <3>3
      <4> HIDE DEF p, q
      <4>3. SubSeq(source, a + 1, p) \o SubSeq(source, p + 1, q) = SubSeq(source, a + 1, q)
        BY <1>6, <4>2, StretchFacts
      <4> QED
        BY <3>1, <3>4, <4>1, <4>3 DEF p, q
    <3> QED
      BY <3>5, <3>6
  <2>5. n \in T
    <3> HIDE DEF T
    <3>1. \A k \in 0..n : k \in T
      BY <1>3, <2>3, <2>4, Upto
    <3>2. n \in 0..n
      BY <1>3
    <3> QED
      BY <3>1, <3>2
  <2> QED
    BY <1>1, <1>8, <2>1, <2>5 DEF s, n
<1> QED
  BY <1>7, <1>8

\* infotree.py:731-788: whatever the source and its intervals, with every comment
\* and bracket in it, the tactics are the source text from the first interval to
\* the furthest end, and each leaves the goals that the next one finds.
THEOREM CuttingKeepsTheText ==
    ASSUME NEW Tok, NEW source \in Seq(Tok), NEW Goals, NEW ivs,
           AreIntervals(ivs, Len(source), Goals)
    PROVE  TacticsFaithful(ivs, source, ExtractData(ivs, source))
<1> SUFFICES ASSUME ivs # <<>>
             PROVE  TacticsFaithful(ivs, source, ExtractData(ivs, source))
  BY DEF TacticsFaithful
<1> DEFINE a == First(ivs)
           b == Furthest(ivs)
           t1 == Tactics(Adjusted(ivs), source)
           t2 == TransferredAll(t1)
           t3 == Merged(t2)
           ts == ByMovedAll(t3)
           new == GoalsFilled(ts)
<1>1. ExtractData(ivs, source) = new
  BY DEF ExtractData
<1>2. IsCut(t1, Tok, Goals, source, a, b)
  BY TacticsCut
<1> HIDE DEF a, b, t1
<1>3. IsCut(t2, Tok, Goals, source, a, b)
  BY <1>2, LoopsKeepCut
<1> HIDE DEF t2
<1>4. IsCut(t3, Tok, Goals, source, a, b)
  BY <1>3, LoopsKeepCut
<1> HIDE DEF t3
<1>5. IsCut(ts, Tok, Goals, source, a, b)
  BY <1>4, LoopsKeepCut
<1> HIDE DEF ts
<1>6. /\ Len(ts) \in Nat /\ DOMAIN ts = 1..Len(ts)
      /\ \A k \in 1..Len(ts) : ts[k] \in [before : Goals, after : Goals, text : Seq(Tok)]
  BY <1>5, TileFacts DEF IsCut
<1>7. \A k \in 1..Len(ts) : ts[k] = [before |-> ts[k].before, after |-> ts[k].after,
                                    text |-> ts[k].text]
  BY <1>6
<1>8. /\ DOMAIN new = 1..Len(ts) /\ Len(new) = Len(ts)
      /\ \A k \in 1..Len(ts) : new[k].text = ts[k].text
      /\ \A k \in 1..(Len(ts) - 1) : new[k].after = new[k + 1].before
  BY <1>6, <1>7, GoalsFilledFacts
<1>9. [k \in DOMAIN new |-> new[k].text] = [k \in 1..Len(ts) |-> ts[k].text]
  BY <1>8
<1> HIDE DEF new
<1>10. FlattenSeq([k \in DOMAIN new |-> new[k].text]) = SubSeq(source, a + 1, b)
  <2>1. FlattenSeq([k \in 1..Len(ts) |-> ts[k].text]) = SubSeq(source, a + 1, b)
    BY <1>5, CutJoins
  <2> QED
    BY <1>9, <2>1
<1> QED
  BY <1>1, <1>8, <1>10 DEF TacticsFaithful, a, b, First, Furthest
----------------------------------------------------------------------------
AllNodes == UNION {NodesAt(p) : p \in Nat}

\* What a function of payloads gives for the next of them.
ReadAt(what, g, nodes, p) ==
    IF what = "texts" THEN TextsAt(g, nodes, p)
    ELSE [default \in Words |-> ToldAt(g, nodes, p, default)]

AreRead(what, g, nodes, n) == g = [p \in 0..n |-> ReadAt(what, g, nodes, p)]

\* Alike on what is inside of a mapping, alike on its keys.
LEMMA UnderAlike ==
    ASSUME NEW p \in Nat, NEW node, NEW K, node.fields \in [K -> Parts(p)],
           NEW g, NEW h, \A q \in Parts(p) : g[q] = h[q], NEW keys
    PROVE  Under(keys, node, g) = Under(keys, node, h)
<1>1. \A k \in DOMAIN keys : keys[k] \in DOMAIN node.fields =>
          g[node.fields[keys[k]]] = h[node.fields[keys[k]]]
  OBVIOUS
<1>2. [k \in DOMAIN keys |-> IF keys[k] \in DOMAIN node.fields THEN g[node.fields[keys[k]]] ELSE <<>>]
        = [k \in DOMAIN keys |-> IF keys[k] \in DOMAIN node.fields THEN h[node.fields[keys[k]]] ELSE <<>>]
  BY <1>1
<1> QED
  BY <1>2 DEF Under

\* Which of the kinds a node is, with what is inside.
LEMMA NodeKinds ==
    ASSUME NEW nodes, ArePayloads(nodes), NEW p \in DOMAIN nodes
    PROVE  \/ nodes[p].is = "text" /\ nodes[p].pos \in Nat \cup {Absent}
              /\ nodes[p].word \in Words \cup {Absent}
           \/ nodes[p].is = "message" /\ nodes[p].pos \in Int \cup {Absent}
              /\ nodes[p].word \in Words \cup {Absent}
           \/ nodes[p].is = "list" /\ nodes[p].items \in Seq(Parts(p))
           \/ /\ nodes[p].is = "dict" /\ nodes[p].word \in Words \cup {Absent}
              /\ \E K \in SUBSET Keys : nodes[p].fields \in [K -> Parts(p)]
<1>1. nodes[p] \in NodesAt(p)
  BY DEF ArePayloads
<1>2. CASE nodes[p] \in [is : {"text"}, pos : Nat \cup {Absent}, word : Words \cup {Absent}]
  BY <1>2
<1>3. CASE nodes[p] \in [is : {"message"}, pos : Int \cup {Absent}, word : Words \cup {Absent}]
  BY <1>3
<1>4. CASE nodes[p] \in [is : {"list"}, items : Seq(Parts(p))]
  BY <1>4
<1>5. CASE nodes[p] \in [is : {"dict"}, fields : UNION {[keys -> Parts(p)] : keys \in SUBSET Keys},
                         word : Words \cup {Absent}]
  <2>1. nodes[p].fields \in UNION {[keys -> Parts(p)] : keys \in SUBSET Keys}
    BY <1>5
  <2> QED
    BY <1>5, <2>1
<1> QED
  BY <1>1, <1>2, <1>3, <1>4, <1>5 DEF NodesAt

LEMMA ReadBelow ==
    ASSUME NEW nodes, ArePayloads(nodes), NEW p \in Nat, p = 0 \/ p \in DOMAIN nodes,
           NEW g, NEW h, \A q \in Parts(p) : g[q] = h[q], NEW what
    PROVE  ReadAt(what, g, nodes, p) = ReadAt(what, h, nodes, p)
<1>1. CASE p = 0
  BY <1>1 DEF ReadAt, TextsAt, ToldAt
<1>2. CASE p # 0 /\ nodes[p].is = "text"
  BY <1>2 DEF ReadAt, TextsAt, ToldAt
<1>3. CASE p # 0 /\ nodes[p].is = "message"
  BY <1>3 DEF ReadAt, TextsAt, ToldAt
<1>4. CASE p # 0 /\ nodes[p].is = "list"
  <2> DEFINE items == nodes[p].items
  <2>1. items \in Seq(Parts(p))
    BY <1>4, NodeKinds
  <2>2. \A k \in DOMAIN items : g[items[k]] = h[items[k]]
    BY <2>1
  <2>3. [k \in DOMAIN items |-> g[items[k]]] = [k \in DOMAIN items |-> h[items[k]]]
    BY <2>2
  <2>4. \A default : [k \in DOMAIN items |-> g[items[k]][default]]
                       = [k \in DOMAIN items |-> h[items[k]][default]]
    BY <2>2
  <2>5. TextsAt(g, nodes, p) = TextsAt(h, nodes, p)
    BY <1>4, <2>3 DEF TextsAt
  <2>6. \A default : ToldAt(g, nodes, p, default) = ToldAt(h, nodes, p, default)
    BY <1>4, <2>4, Zenon DEF ToldAt, ListMessages
  <2> QED
    BY <2>5, <2>6 DEF ReadAt
<1>5. CASE p # 0 /\ nodes[p].is = "dict"
  <2>1. PICK K \in SUBSET Keys : nodes[p].fields \in [K -> Parts(p)]
    BY <1>5, NodeKinds
  <2>2. \A keys : Under(keys, nodes[p], g) = Under(keys, nodes[p], h)
    BY <2>1, UnderAlike
  <2>3. "messages" \in DOMAIN nodes[p].fields =>
          g[nodes[p].fields["messages"]] = h[nodes[p].fields["messages"]]
    BY <2>1
  <2>4. TextsAt(g, nodes, p) = TextsAt(h, nodes, p)
    BY <1>5, <2>2 DEF TextsAt
  <2>5. \A default : DictMessages(nodes[p], Texts(nodes), g, default)
                       = DictMessages(nodes[p], Texts(nodes), h, default)
    <3>1. \A severity : (IF "messages" \in DOMAIN nodes[p].fields
                             THEN g[nodes[p].fields["messages"]][severity] ELSE <<>>)
                       = (IF "messages" \in DOMAIN nodes[p].fields
                             THEN h[nodes[p].fields["messages"]][severity] ELSE <<>>)
      BY <2>3
    <3> SUFFICES ASSUME NEW default
                 PROVE  DictMessages(nodes[p], Texts(nodes), g, default)
                          = DictMessages(nodes[p], Texts(nodes), h, default)
      OBVIOUS
    <3> DEFINE severity == DictSeverity(nodes[p], default)
    <3>2. (IF "messages" \in DOMAIN nodes[p].fields
              THEN g[nodes[p].fields["messages"]][severity] ELSE <<>>)
        = (IF "messages" \in DOMAIN nodes[p].fields
              THEN h[nodes[p].fields["messages"]][severity] ELSE <<>>)
      BY <3>1
    <3> QED
      BY <3>2, Zenon DEF DictMessages
  <2>6. \A default : ToldAt(g, nodes, p, default) = ToldAt(h, nodes, p, default)
    BY <1>5, <2>5 DEF ToldAt
  <2> QED
    BY <2>4, <2>6 DEF ReadAt
<1> QED
  BY <1>1, <1>2, <1>3, <1>4, <1>5, NodeKinds

LEMMA ReadExists ==
    ASSUME NEW nodes \in Seq(AllNodes), ArePayloads(nodes), NEW what
    PROVE  \E g : AreRead(what, g, nodes, Len(nodes))
<1> DEFINE n == Len(nodes)
           T == {m \in 0..n : \E g : AreRead(what, g, nodes, m)}
<1>1. n \in Nat /\ DOMAIN nodes = 1..n
  OBVIOUS
<1> HIDE DEF n
<1>2. 0 \in T
  <2> DEFINE h == [p \in 0..0 |-> ReadAt(what, <<>>, nodes, 0)]
  <2>1. ReadAt(what, <<>>, nodes, 0) = ReadAt(what, h, nodes, 0)
    <3>1. \A q \in Parts(0) : FALSE
      BY DEF Parts
    <3> QED
      BY <3>1, ReadBelow
  <2>2. \A p \in 0..0 : h[p] = ReadAt(what, h, nodes, p)
    BY <2>1
  <2> HIDE DEF h
  <2>3. h = [p \in 0..0 |-> ReadAt(what, h, nodes, p)]
    BY <2>2 DEF h
  <2>4. AreRead(what, h, nodes, 0)
    BY <2>3 DEF AreRead
  <2> QED
    BY <1>1, <2>4
<1>3. ASSUME NEW m \in 1..n, m - 1 \in T
      PROVE  m \in T
  <2>1. PICK g : AreRead(what, g, nodes, m - 1)
    BY <1>3
  <2> DEFINE h == [p \in 0..m |-> ReadAt(what, g, nodes, p)]
  <2>2. \A p \in 0..m : p \in Nat /\ (p = 0 \/ p \in DOMAIN nodes)
    BY <1>1
  <2>3. \A q \in 0..(m - 1) : h[q] = g[q]
    <3>1. \A q \in 0..(m - 1) : q \in 0..m
      BY <1>1
    <3>2. \A q \in 0..(m - 1) : g[q] = ReadAt(what, g, nodes, q)
      BY <2>1 DEF AreRead
    <3> QED
      BY <3>1, <3>2
  <2>4. \A p \in 0..m : \A q \in Parts(p) : q \in 0..(m - 1)
    BY <1>1 DEF Parts
  <2> HIDE DEF h
  <2>5. \A p \in 0..m : ReadAt(what, h, nodes, p) = ReadAt(what, g, nodes, p)
    <3> SUFFICES ASSUME NEW p \in 0..m
                 PROVE  ReadAt(what, h, nodes, p) = ReadAt(what, g, nodes, p)
      OBVIOUS
    <3>1. \A q \in Parts(p) : h[q] = g[q]
      BY <2>3, <2>4
    <3>2. p \in Nat /\ (p = 0 \/ p \in DOMAIN nodes)
      BY <2>2
    <3> HIDE DEF T
    <3> QED
      BY <3>1, <3>2, ReadBelow
  <2>6. h = [p \in 0..m |-> ReadAt(what, h, nodes, p)]
    BY <2>5 DEF h
  <2>7. AreRead(what, h, nodes, m)
    BY <2>6 DEF AreRead
  <2> QED
    BY <2>7
<1>4. n \in T
  <2> HIDE DEF T
  <2>1. \A k \in 0..n : k \in T
    BY <1>1, <1>2, <1>3, Upto
  <2> QED
    BY <1>1, <2>1
<1> QED
  BY <1>4 DEF n

\* The two recursions are what their steps say.
LEMMA ReadFacts ==
    ASSUME NEW nodes \in Seq(AllNodes), ArePayloads(nodes)
    PROVE  /\ AreRead("texts", Texts(nodes), nodes, Len(nodes))
           /\ AreRead("told", ExecMessages(nodes), nodes, Len(nodes))
<1>1. Texts(nodes) = CHOOSE g : AreRead("texts", g, nodes, Len(nodes))
  BY DEF Texts, AreRead, ReadAt
<1>2. ExecMessages(nodes) = CHOOSE g : AreRead("told", g, nodes, Len(nodes))
  BY DEF ExecMessages, AreRead, ReadAt
<1> QED
  BY <1>1, <1>2, ReadExists, Zenon

LEMMA FlattenStays ==
    ASSUME NEW R, NEW s \in Seq(Seq(R))
    PROVE  FlattenSeq(s) \in Seq(R)
<1>1. CASE Len(s) = 0
  <2>1. s = <<>>
    BY <1>1, EmptySeq
  <2>2. FlattenSeq(s) = s
    BY <1>1 DEF FlattenSeq
  <2>3. <<>> \in Seq(R)
    OBVIOUS
  <2> QED
    BY <2>1, <2>2, <2>3, Zenon
<1>2. CASE Len(s) # 0
  BY <1>2, FlattenJoins
<1> QED
  BY <1>1, <1>2

\* What is under the keys of a mapping is of what is inside it.
LEMMA UnderStays ==
    ASSUME NEW p \in Nat, NEW node, NEW K, node.fields \in [K -> Parts(p)], NEW R,
           NEW found, \A q \in Parts(p) : found[q] \in Seq(R),
           NEW keys, NEW m \in Nat, DOMAIN keys = 1..m
    PROVE  Under(keys, node, found) \in Seq(R)
<1> DEFINE s == [k \in DOMAIN keys |->
                    IF keys[k] \in DOMAIN node.fields THEN found[node.fields[keys[k]]] ELSE <<>>]
<1>2. \A k \in DOMAIN keys : s[k] \in Seq(R)
  <2>1. \A k \in DOMAIN keys : keys[k] \in DOMAIN node.fields =>
            node.fields[keys[k]] \in Parts(p)
    OBVIOUS
  <2>2. <<>> \in Seq(R)
    OBVIOUS
  <2> QED
    BY <2>1, <2>2
<1>3. s \in Seq(Seq(R))
  <2>1. s \in [1..m -> Seq(R)]
    BY <1>2
  <2> HIDE DEF s
  <2> QED
    BY <2>1, SeqDef
<1> HIDE DEF s
<1>4. FlattenSeq(s) \in Seq(R)
  BY <1>3, FlattenStays
<1> QED
  BY <1>4 DEF Under, s

\* So is what is in a list.
LEMMA ItemsStay ==
    ASSUME NEW S, NEW items \in Seq(S), NEW R, NEW found, \A q \in S : found[q] \in Seq(R)
    PROVE  FlattenSeq([k \in DOMAIN items |-> found[items[k]]]) \in Seq(R)
<1> DEFINE s == [k \in DOMAIN items |-> found[items[k]]]
<1>1. DOMAIN items = 1..Len(items) /\ Len(items) \in Nat /\ \A k \in DOMAIN items : items[k] \in S
  OBVIOUS
<1>2. s \in [1..Len(items) -> Seq(R)]
  BY <1>1
<1> HIDE DEF s
<1>3. s \in Seq(Seq(R))
  BY <1>1, <1>2, SeqDef
<1> QED
  BY <1>3, FlattenStays DEF s

\* The texts of payloads are their own, or printed.
LEMMA TextsStay ==
    ASSUME NEW nodes \in Seq(AllNodes), ArePayloads(nodes), NEW R, Printed \in R,
           \A p \in DOMAIN nodes : nodes[p].is = "text" => nodes[p] \in R
    PROVE  \A p \in 0..Len(nodes) : Texts(nodes)[p] \in Seq(R)
<1> DEFINE n == Len(nodes)
           texts == Texts(nodes)
           T == {k \in 0..n : \A q \in 0..k : texts[q] \in Seq(R)}
<1>1. n \in Nat /\ DOMAIN nodes = 1..n
  OBVIOUS
<1>2. \A p \in 0..n : texts[p] = TextsAt(texts, nodes, p)
  BY ReadFacts DEF AreRead, ReadAt
<1> HIDE DEF n, texts
<1>3. 0 \in T
  <2>1. 0 \in 0..n /\ \A q \in 0..0 : q = 0
    BY <1>1
  <2>2. texts[0] = TextsAt(texts, nodes, 0)
    BY <1>2, <2>1
  <2>3. texts[0] = <<>>
    BY <2>2 DEF TextsAt
  <2>4. texts[0] \in Seq(R)
    BY <2>3
  <2> QED
    BY <2>1, <2>4
<1>4. ASSUME NEW p \in 1..n, p - 1 \in T
      PROVE  p \in T
  <2>1. p \in DOMAIN nodes /\ p \in 0..n /\ p \in Nat /\ p # 0
    BY <1>1
  <2>2. \A q \in Parts(p) : texts[q] \in Seq(R)
    BY <1>4 DEF Parts
  <2> DEFINE node == nodes[p]
  <2>3. texts[p] = TextsAt(texts, nodes, p)
    BY <1>2, <2>1
  <2>4. \A s \in Seq(R) : OrPrinted(s) \in Seq(R)
    BY DEF OrPrinted
  <2> HIDE DEF T
  <2>5. TextsAt(texts, nodes, p) \in Seq(R)
    <3>1. CASE node.is = "text"
      BY <2>1, <3>1 DEF TextsAt
    <3>2. CASE node.is = "message"
      BY <2>1, <3>2 DEF TextsAt
    <3>3. CASE node.is = "list"
      <4>1. node.items \in Seq(Parts(p))
        BY <2>1, <3>3, NodeKinds
      <4>2. FlattenSeq([k \in DOMAIN node.items |-> texts[node.items[k]]]) \in Seq(R)
        BY <2>2, <4>1, ItemsStay
      <4> QED
        BY <2>1, <2>4, <3>3, <4>2 DEF TextsAt
    <3>4. CASE node.is = "dict"
      <4>1. PICK K \in SUBSET Keys : node.fields \in [K -> Parts(p)]
        BY <2>1, <3>4, NodeKinds
      <4> DEFINE keys == <<"desc", "error", "parseError", "message", "data", "messages">>
      <4>2. DOMAIN keys = 1..6
        OBVIOUS
      <4> HIDE DEF keys
      <4>3. Under(keys, node, texts) \in Seq(R)
        BY <2>1, <2>2, <4>1, <4>2, UnderStays
      <4>4. TextsAt(texts, nodes, p) = OrPrinted(Under(keys, node, texts))
        BY <2>1, <3>4 DEF TextsAt, keys
      <4> QED
        BY <2>4, <4>3, <4>4
    <3> HIDE DEF node
    <3> QED
      BY <2>1, <3>1, <3>2, <3>3, <3>4, NodeKinds DEF node
  <2>6. \A q \in 0..p : q \in 0..(p - 1) \/ q = p
    BY <2>1
  <2> QED
    BY <1>4, <2>1, <2>3, <2>5, <2>6 DEF T
<1>5. n \in T
  <2> HIDE DEF T
  <2>1. \A k \in 0..n : k \in T
    BY <1>1, <1>3, <1>4, Upto
  <2> QED
    BY <1>1, <2>1
<1> QED
  BY <1>5 DEF n, texts

\* Each text makes a message.
LEMMA TextsTold ==
    ASSUME NEW R, NEW M, NEW d, \A t \in R : TextMessage(t, d) \in M,
           NEW texts \in Seq(R), texts # <<>>
    PROVE  TextMessages(texts, d) \in Seq(M) /\ TextMessages(texts, d) # <<>>
<1> DEFINE ms == TextMessages(texts, d)
<1>1. DOMAIN texts = 1..Len(texts) /\ Len(texts) \in Nat /\ Len(texts) # 0
  BY EmptySeq
<1>2. ms \in [1..Len(texts) -> M]
  BY <1>1 DEF TextMessages
<1>3. DOMAIN ms = 1..Len(texts) /\ 1 \in 1..Len(texts)
  BY <1>1, <1>2
<1>4. ms # <<>>
  <2>1. 1 \notin DOMAIN << >>
    OBVIOUS
  <2> HIDE DEF ms
  <2> QED
    BY <1>3, <2>1
<1> HIDE DEF ms
<1>5. ms \in Seq(M)
  BY <1>1, <1>2, SeqDef
<1> QED
  BY <1>4, <1>5 DEF ms

\* The messages of payloads are in M, if those of their texts and objects are,
\* and something is said of all that is not None.
LEMMA MessagesStay ==
    ASSUME NEW nodes \in Seq(AllNodes), ArePayloads(nodes), NEW R, Printed \in R,
           \A p \in DOMAIN nodes : nodes[p].is = "text" => nodes[p] \in R,
           NEW D \in SUBSET Words, NEW M,
           \A t \in R : \A d \in D : TextMessage(t, d) \in M,
           \A p \in DOMAIN nodes : nodes[p].is = "message" => ObjectMessage(nodes[p]) \in M,
           \A p \in DOMAIN nodes : nodes[p].is = "dict" =>
              \A d \in D : DictSeverity(nodes[p], d) \in D
    PROVE  \A p \in 0..Len(nodes) : \A d \in D :
              /\ ExecMessages(nodes)[p][d] \in Seq(M)
              /\ p # 0 => ExecMessages(nodes)[p][d] # <<>>
<1> DEFINE n == Len(nodes)
           told == ExecMessages(nodes)
           texts == Texts(nodes)
           Said(p) == \A d \in D : /\ told[p][d] \in Seq(M)
                                   /\ p # 0 => told[p][d] # <<>>
           T == {k \in 0..n : \A q \in 0..k : Said(q)}
<1>1. n \in Nat /\ DOMAIN nodes = 1..n
  OBVIOUS
<1>2. \A p \in 0..n : \A d \in Words : told[p][d] = ToldAt(told, nodes, p, d)
  BY ReadFacts DEF AreRead, ReadAt
<1>3. \A p \in 0..n : texts[p] \in Seq(R)
  BY TextsStay
<1> HIDE DEF n, told, texts
<1>4. 0 \in T
  <2>1. 0 \in 0..n /\ \A q \in 0..0 : q = 0
    BY <1>1
  <2>2. \A d \in Words : told[0][d] = <<>>
    BY <1>2, <2>1 DEF ToldAt
  <2>3. <<>> \in Seq(M)
    OBVIOUS
  <2>4. Said(0)
    BY <2>2, <2>3
  <2> HIDE DEF Said
  <2> QED
    BY <2>1, <2>4
<1>5. ASSUME NEW p \in 1..n, p - 1 \in T
      PROVE  p \in T
  <2>1. p \in DOMAIN nodes /\ p \in 0..n /\ p \in Nat /\ p # 0
    BY <1>1
  <2>2. \A q \in Parts(p) : q \in 0..n /\ q \in 0..(p - 1)
    BY <1>1 DEF Parts
  <2>3. \A q \in Parts(p) : \A d \in D : told[q][d] \in Seq(M)
    BY <1>5, <2>2
  <2>4. \A q \in Parts(p) : texts[q] \in Seq(R)
    BY <1>3, <2>2
  <2> DEFINE node == nodes[p]
  <2>5. Said(p)
    <3> SUFFICES ASSUME NEW d \in D
                 PROVE  told[p][d] \in Seq(M) /\ told[p][d] # <<>>
      OBVIOUS
    <3>1. told[p][d] = ToldAt(told, nodes, p, d)
      BY <1>2, <2>1
    <3> HIDE DEF T, Said
    <3>2. CASE node.is = "text"
      <4>1. TextMessage(node, d) \in M
        BY <2>1, <3>2
      <4>2. told[p][d] = <<TextMessage(node, d)>>
        BY <2>1, <3>1, <3>2 DEF ToldAt
      <4> QED
        BY <4>1, <4>2
    <3>3. CASE node.is = "message"
      <4>1. ObjectMessage(node) \in M
        BY <2>1, <3>3
      <4>2. told[p][d] = <<ObjectMessage(node)>>
        BY <2>1, <3>1, <3>3 DEF ToldAt
      <4> QED
        BY <4>1, <4>2
    <3>4. CASE node.is = "list"
      <4>1. node.items \in Seq(Parts(p))
        BY <2>1, <3>4, NodeKinds
      <4>2. told[p][d] = ListMessages(node.items, told, d)
        BY <2>1, <3>1, <3>4 DEF ToldAt
      <4>3. FlattenSeq([k \in DOMAIN node.items |-> told[node.items[k]][d]]) \in Seq(M)
        <5> DEFINE found == [q \in Parts(p) |-> told[q][d]]
        <5>1. \A q \in Parts(p) : found[q] \in Seq(M)
          BY <2>3
        <5>2. [k \in DOMAIN node.items |-> told[node.items[k]][d]]
                = [k \in DOMAIN node.items |-> found[node.items[k]]]
          BY <4>1
        <5> HIDE DEF found
        <5>3. FlattenSeq([k \in DOMAIN node.items |-> found[node.items[k]]]) \in Seq(M)
          BY <4>1, <5>1, ItemsStay
        <5> QED
          BY <5>2, <5>3
      <4>4. <<TextMessage(Printed, d)>> \in Seq(M) /\ <<TextMessage(Printed, d)>> # <<>>
        OBVIOUS
      <4> QED
        BY <4>2, <4>3, <4>4, Zenon DEF ListMessages
    <3>5. CASE node.is = "dict"
      <4>1. PICK K \in SUBSET Keys : node.fields \in [K -> Parts(p)]
        BY <2>1, <3>5, NodeKinds
      <4>2. told[p][d] = DictMessages(node, texts, told, d)
        BY <2>1, <3>1, <3>5 DEF ToldAt, texts
      <4> DEFINE severity == DictSeverity(node, d)
                 few == <<"desc", "parseError", "message", "data">>
                 category == <<"error">>
                 own == Under(few, node, texts)
                 said == IF own = <<>> THEN Under(category, node, texts) ELSE own
                 nested == IF "messages" \in DOMAIN node.fields
                           THEN told[node.fields["messages"]][severity] ELSE <<>>
      <4>3. severity \in D
        BY <2>1, <3>5
      <4>4. DOMAIN few = 1..4 /\ DOMAIN category = 1..1
        OBVIOUS
      <4>5. said \in Seq(R)
        <5> HIDE DEF few, category
        <5>1. own \in Seq(R) /\ Under(category, node, texts) \in Seq(R)
          BY <2>1, <2>4, <4>1, <4>4, UnderStays
        <5> QED
          BY <5>1
      <4>6. nested \in Seq(M)
        <5>1. <<>> \in Seq(M)
          OBVIOUS
        <5>2. "messages" \in DOMAIN node.fields => node.fields["messages"] \in Parts(p)
          BY <4>1
        <5> HIDE DEF severity
        <5> QED
          BY <2>3, <4>3, <5>1, <5>2
      <4>7. told[p][d] = IF nested = <<>> THEN TextMessages(OrPrinted(said), severity) ELSE nested
        BY <4>2, Zenon DEF DictMessages
      <4> HIDE DEF severity, said, nested
      <4>8. OrPrinted(said) \in Seq(R) /\ OrPrinted(said) # <<>>
        BY <4>5 DEF OrPrinted
      <4>9. TextMessages(OrPrinted(said), severity) \in Seq(M)
            /\ TextMessages(OrPrinted(said), severity) # <<>>
        BY <4>3, <4>8, TextsTold
      <4> QED
        BY <4>6, <4>7, <4>9, Zenon
    <3> HIDE DEF node
    <3> QED
      BY <2>1, <3>2, <3>3, <3>4, <3>5, NodeKinds DEF node
  <2>6. \A q \in 0..p : q \in 0..(p - 1) \/ q = p
    BY <2>1
  <2> HIDE DEF Said
  <2> QED
    BY <1>5, <2>1, <2>5, <2>6
<1>6. n \in T
  <2> HIDE DEF T
  <2>1. \A k \in 0..n : k \in T
    BY <1>1, <1>4, <1>5, Upto
  <2> QED
    BY <1>1, <2>1
<1> QED
  BY <1>6 DEF n, told

\* What ExceptionMessages() has before positions are looked at.
ToldOf(nodes, args) ==
    IF args = <<>> THEN <<TextMessage(Printed, "error")>>
    ELSE IF Len(args) = 1 THEN ExecMessages(nodes)[args[1]]["error"]
    ELSE ListMessages(args, ExecMessages(nodes), "error")

LEMMA ExceptionStays ==
    ASSUME NEW nodes \in Seq(AllNodes), ArePayloads(nodes), NEW R, Printed \in R,
           \A p \in DOMAIN nodes : nodes[p].is = "text" => nodes[p] \in R,
           NEW D \in SUBSET Words, NEW M, "error" \in D,
           \A t \in R : \A d \in D : TextMessage(t, d) \in M,
           \A p \in DOMAIN nodes : nodes[p].is = "message" => ObjectMessage(nodes[p]) \in M,
           \A p \in DOMAIN nodes : nodes[p].is = "dict" =>
              \A d \in D : DictSeverity(nodes[p], d) \in D,
           NEW args \in Seq(0..Len(nodes))
    PROVE  /\ ToldOf(nodes, args) \in Seq(M)
           /\ args # << 0 >> => ToldOf(nodes, args) # <<>>
<1> DEFINE told == ExecMessages(nodes)
<1>1. \A p \in 0..Len(nodes) : \A d \in D :
         /\ told[p][d] \in Seq(M)
         /\ p # 0 => told[p][d] # <<>>
  BY MessagesStay, Zenon
<1>2. TextMessage(Printed, "error") \in M
  OBVIOUS
<1>3. <<TextMessage(Printed, "error")>> \in Seq(M) /\ <<TextMessage(Printed, "error")>> # <<>>
  BY <1>2
<1> HIDE DEF told
<1>4. CASE args = <<>>
  BY <1>3, <1>4 DEF ToldOf
<1>5. CASE args # <<>> /\ Len(args) = 1
  <2>1. args[1] \in 0..Len(nodes) /\ args = <<args[1]>>
    BY <1>5
  <2>2. ToldOf(nodes, args) = told[args[1]]["error"]
    BY <1>5 DEF ToldOf, told
  <2>3. args # << 0 >> => args[1] # 0
    BY <2>1
  <2> QED
    BY <1>1, <2>1, <2>2, <2>3
<1>6. CASE args # <<>> /\ Len(args) # 1
  <2>1. ToldOf(nodes, args) = ListMessages(args, told, "error")
    BY <1>6 DEF ToldOf, told
  <2> DEFINE found == [q \in 0..Len(nodes) |-> told[q]["error"]]
  <2>2. \A q \in 0..Len(nodes) : found[q] \in Seq(M)
    BY <1>1
  <2>3. [k \in DOMAIN args |-> told[args[k]]["error"]] = [k \in DOMAIN args |-> found[args[k]]]
    OBVIOUS
  <2> HIDE DEF found
  <2>4. FlattenSeq([k \in DOMAIN args |-> found[args[k]]]) \in Seq(M)
    BY <2>2, ItemsStay
  <2>5. FlattenSeq([k \in DOMAIN args |-> told[args[k]]["error"]]) \in Seq(M)
    BY <2>3, <2>4
  <2> QED
    BY <1>3, <2>1, <2>5, Zenon DEF ListMessages
<1> QED
  BY <1>4, <1>5, <1>6

\* pantograph_normalize.py: whatever Pantograph raises, an exception with any
\* payloads nested in any way becomes messages, and errors unless it names another
\* severity itself.
THEOREM ExceptionsAreTold ==
    ASSUME NEW nodes \in Seq(AllNodes), ArePayloads(nodes), NEW args \in Seq(0..Len(nodes))
    PROVE  ErrorsAreTold(nodes, args, ExceptionMessages(nodes, args))
<1> DEFINE told == ToldOf(nodes, args)
           texts == {p \in DOMAIN nodes : nodes[p].is = "text"}
           R == {Printed} \cup {nodes[p] : p \in texts}
<1> SUFFICES ASSUME args # << 0 >>, \A p \in DOMAIN nodes : nodes[p].is = "text" => nodes[p].pos # 0
             PROVE  /\ ExceptionMessages(nodes, args) # <<>>
                    /\ (\A p \in DOMAIN nodes : ~NamesSeverity(nodes[p])) =>
                          \A k \in DOMAIN ExceptionMessages(nodes, args) :
                              ExceptionMessages(nodes, args)[k].severity = "error"
  BY DEF ErrorsAreTold
<1>1. Printed \in R /\ \A p \in DOMAIN nodes : nodes[p].is = "text" => nodes[p] \in R
  OBVIOUS
<1>2. told # <<>> /\ \A k \in DOMAIN told : told[k].pos # 0
  <2> DEFINE D == Words
             objects == {p \in DOMAIN nodes : nodes[p].is = "message"}
             M == {TextMessage(t, d) : t \in R, d \in D} \cup {ObjectMessage(nodes[p]) : p \in objects}
  <2>1. \A t \in R : t.pos # 0
    BY AbsentAssumption DEF Printed, Text
  <2>2. \A t \in R : \A d \in D : TextMessage(t, d) \in M
    OBVIOUS
  <2>3. \A p \in DOMAIN nodes : nodes[p].is = "message" => ObjectMessage(nodes[p]) \in M
    OBVIOUS
  <2>4. \A p \in DOMAIN nodes : nodes[p].is = "dict" => \A d \in D : DictSeverity(nodes[p], d) \in D
    <3> SUFFICES ASSUME NEW p \in DOMAIN nodes, nodes[p].is = "dict", NEW d \in D
                 PROVE  DictSeverity(nodes[p], d) \in D
      OBVIOUS
    <3>1. nodes[p].word \in Words \cup {Absent}
      BY NodeKinds
    <3>2. "error" \in Words
      BY WordsAssumption
    <3> DEFINE word == nodes[p].word
    <3> HIDE DEF word
    <3> QED
      BY <3>1, <3>2, Zenon DEF DictSeverity, word
  <2>5. \A m \in M : m.pos # 0
    <3>1. \A t \in R : \A d \in D : TextMessage(t, d).pos # 0
      BY <2>1 DEF TextMessage
    <3>2. \A p \in objects : ObjectMessage(nodes[p]).pos # 0
      <4> SUFFICES ASSUME NEW p \in objects
                   PROVE  ObjectMessage(nodes[p]).pos # 0
        OBVIOUS
      <4>1. nodes[p].pos \in Int \cup {Absent}
        BY NodeKinds
      <4> QED
        BY <4>1, AbsentAssumption DEF ObjectMessage, Position
    <3> HIDE DEF R
    <3> QED
      BY <3>1, <3>2
  <2>6. told \in Seq(M) /\ told # <<>>
    <3>1. D \in SUBSET Words /\ "error" \in D
      BY WordsAssumption
    <3> HIDE DEF R, M, D, told
    <3> QED
      BY <1>1, <2>2, <2>3, <2>4, <3>1, ExceptionStays DEF told
  <2> HIDE DEF R, M
  <2> HIDE DEF told
  <2> QED
    BY <2>5, <2>6
<1>3. ASSUME \A p \in DOMAIN nodes : ~NamesSeverity(nodes[p])
      PROVE  \A k \in DOMAIN told : told[k].severity = "error"
  <2> DEFINE D == {"error"}
             M == {TextMessage(t, "error") : t \in R}
  <2>1. \A t \in R : \A d \in D : TextMessage(t, d) \in M
    OBVIOUS
  <2>2. \A p \in DOMAIN nodes : nodes[p].is = "message" => ObjectMessage(nodes[p]) \in M
    BY <1>3 DEF NamesSeverity
  <2>3. \A p \in DOMAIN nodes : nodes[p].is = "dict" => \A d \in D : DictSeverity(nodes[p], d) \in D
    BY <1>3 DEF NamesSeverity, DictSeverity
  <2>4. \A t \in R : t.pos = Absent \/ t.word = Absent
    BY <1>3 DEF NamesSeverity, Printed, Text
  <2>5. \A m \in M : m.severity = "error"
    <3>1. \A t \in R : TextMessage(t, "error").severity = "error"
      BY <2>4 DEF TextMessage, Severity
    <3> HIDE DEF R
    <3> QED
      BY <3>1
  <2> HIDE DEF R, M
  <2>6. told \in Seq(M)
    <3>1. D \in SUBSET Words /\ "error" \in D
      BY WordsAssumption
    <3> HIDE DEF D, told
    <3> QED
      BY <1>1, <2>1, <2>2, <2>3, <3>1, ExceptionStays DEF told
  <2> HIDE DEF told
  <2> QED
    BY <2>5, <2>6
<1>4. ExceptionMessages(nodes, args) = IF \E k \in DOMAIN told : told[k].pos = 0 THEN <<>> ELSE told
  BY Zenon DEF ExceptionMessages, ToldOf
<1> HIDE DEF told
<1>5. ExceptionMessages(nodes, args) = told
  BY <1>2, <1>4
<1> QED
  BY <1>2, <1>3, <1>5

\* The verdict on a complete proof, for any messages of its compilation and any
\* allowed axioms: what is accepted compiled without an error or a sorry, and the
\* report of axioms asked for at the end names none but the allowed.
THEOREM VerdictIsHonest ==
    ASSUME NEW Message, NEW own \in Seq(Message), NEW last \in Message, NEW allowed
    PROVE  AcceptedIsProved(own, last, allowed, Verdict(Append(own, last), allowed))
<1> DEFINE ms == Append(own, last)
           n == Len(own)
           reports == {k \in DOMAIN ms : ms[k].axioms # Absent /\ ~ms[k].broken}
<1> SUFFICES ASSUME Verdict(ms, allowed) = "accepted"
             PROVE  /\ \A k \in DOMAIN own : own[k].sorry = "no" /\ Severity(own[k].word) # "error"
                    /\ (\A k \in DOMAIN own : own[k].axioms = Absent) /\ ~last.broken
                         => last.axioms = Absent \/ last.axioms \subseteq allowed
  BY DEF AcceptedIsProved
<1>1. /\ n \in Nat /\ DOMAIN own = 1..n /\ DOMAIN ms = 1..(n + 1)
      /\ \A k \in 1..n : ms[k] = own[k]
      /\ ms[n + 1] = last
  OBVIOUS
<1>2. /\ \A k \in DOMAIN ms : Severity(ms[k].word) # "error" /\ ~MentionsSorry(ms[k])
      /\ ReportedAxioms(ms) \subseteq allowed
  BY DEF Verdict
<1> HIDE DEF ms, n
<1>3. \A k \in DOMAIN own : own[k].sorry = "no" /\ Severity(own[k].word) # "error"
  <2> SUFFICES ASSUME NEW k \in DOMAIN own
               PROVE  own[k].sorry = "no" /\ Severity(own[k].word) # "error"
    OBVIOUS
  <2>1. k \in DOMAIN ms /\ ms[k] = own[k]
    BY <1>1
  <2> QED
    BY <1>2, <2>1 DEF MentionsSorry
<1>4. ASSUME \A k \in DOMAIN own : own[k].axioms = Absent, ~last.broken, last.axioms # Absent
      PROVE  last.axioms \subseteq allowed
  <2>1. reports = {n + 1}
    <3>1. \A k \in 1..n : ms[k].axioms = Absent
      BY <1>1, <1>4
    <3> QED
      BY <1>1, <1>4, <3>1
  <2>2. (CHOOSE k \in reports : \A j \in reports : k <= j) = n + 1
    BY <1>1, <2>1
  <2>3. ReportedAxioms(ms) = last.axioms
    BY <1>1, <2>1, <2>2 DEF ReportedAxioms
  <2> QED
    BY <1>2, <2>3
<1> QED
  BY <1>3, <1>4
----------------------------------------------------------------------------
AnswerKinds == {"timed out", "error", "repl", "lean"}

\* What a client makes of one answer never contradicts itself, whatever Lean said.
LEMMA ReadingsAlwaysAgree ==
    \A r : r.is \in AnswerKinds =>
        ReadingsAgree(r, Analyze(r), ParseClientResponse(r))
<1> SUFFICES ASSUME NEW r, r.is \in AnswerKinds
             PROVE  ReadingsAgree(r, Analyze(r), ParseClientResponse(r))
  OBVIOUS
<1> DEFINE read == ParseClientResponse(r)
           failed == r.is \in {"timed out", "error"}
<1> SUFFICES ASSUME r.is # "repl",
                    r.is = "lean" => (HasSorry(r) <=> Contains(r.messages, "sorry"))
             PROVE  /\ read.is_valid_no_sorry <=> Analyze(r) = "valid"
                    /\ read.is_valid_with_sorry <=> Analyze(r) \in {"valid", "sorry"}
                    /\ read.has_error <=> ~read.is_valid_with_sorry
  BY DEF ReadingsAgree
<1>1. /\ read.has_error <=> failed \/ HasErrorResponse(r, TRUE)
      /\ read.is_valid_no_sorry <=> ~failed /\ ~HasErrorResponse(r, FALSE)
      /\ read.is_valid_with_sorry <=> ~failed /\ ~HasErrorResponse(r, TRUE)
  BY DEF ParseClientResponse
<1> HIDE DEF read
<1>2. CASE failed
  <2>1. Analyze(r) \notin {"valid", "sorry"}
    BY <1>2 DEF Analyze
  <2> QED
    BY <1>1, <1>2, <2>1
<1>3. CASE ~failed
  <2>1. r.is = "lean"
    BY <1>3 DEF AnswerKinds
  <2>2. /\ HasErrorResponse(r, TRUE) <=> IsError(r)
        /\ HasErrorResponse(r, FALSE) <=> IsError(r) \/ HasSorry(r)
    BY <2>1, Zenon DEF HasErrorResponse
  <2>3. Analyze(r) = IF IsError(r) THEN "lean_error" ELSE IF HasSorry(r) THEN "sorry" ELSE "valid"
    BY <2>1 DEF Analyze, IsValid
  <2> QED
    BY <1>1, <1>3, <2>2, <2>3
<1> QED
  BY <1>2, <1>3
----------------------------------------------------------------------------
\* The inductive invariant of the plain algorithms: the question is one of those
\* asked and the answer, once there is one, is what the code computes for it.
PositionsAnswer(q) ==
    LET split == SplitSnippet(q.lines)
    IN <<split, ApplyHeaderOffset(q.response, split.header_line_count),
         OffsetMessages(q.response.messages, split.header_line_count)>>

ForestAnswer(q) == <<NodesAndEdges(q)>>

CuttingAnswer(q) == <<ExtractData(q.ivs, q.source)>>

RaisedAnswer(q) == <<ExceptionMessages(q.nodes, q.args)>>

CompilationAnswer(q) == <<Verdict(Append(q.own, q.last), q.allowed)>>

BatchesAnswer(q) == <<Merge(q.snippets, q.size, [s \in Snips |-> s], q.failing, q.order)>>

ReadingAnswer(q) == <<Analyze(q), ParseClientResponse(q)>>

ConfigAnswer(q) ==
    LET parsed == Populated(q.given, q.machine)
    IN <<SettingsFrom(CliArgs(parsed), q.environment, q.machine),
         SettingsFrom(q.given, q.environment, q.machine),
         parsed>>

Asks ==
    \/ AskPositions \/ AskForest \/ AskCutting \/ AskRaised \/ AskCompilation
    \/ AskBatches \/ AskReading \/ AskConfig

AsComputed ==
    /\ Asks
    /\ answer # <<>> =>
        \/ question.of = "positions" /\ answer = PositionsAnswer(question)
        \/ question.of = "forest" /\ answer = ForestAnswer(question)
        \/ question.of = "cutting" /\ answer = CuttingAnswer(question)
        \/ question.of = "raised" /\ answer = RaisedAnswer(question)
        \/ question.of = "compilation" /\ answer = CompilationAnswer(question)
        \/ question.of = "batches" /\ answer = BatchesAnswer(question)
        \/ question.of = "reading" /\ answer = ReadingAnswer(question)
        \/ question.of = "config" /\ answer = ConfigAnswer(question)

LEMMA AskedInvariant == AskedSpec => []AsComputed
<1>1. AskedInit => AsComputed
  BY DEF AskedInit, AsComputed, Asks
<1>2. AsComputed /\ [AskedNext]_questionVars => AsComputed'
  <2> SUFFICES ASSUME AsComputed, [AskedNext]_questionVars
               PROVE  AsComputed'
    OBVIOUS
  <2>1. question' = question
    BY Zenon DEF AskedNext, questionVars, Placing, Flattening, Cutting, Telling, Judging,
                   Checking, Reading, Configuring, Asked
  <2>2. Asks'
    <3>1. AskPositions => AskPositions'
      BY <2>1, Zenon DEF AskPositions
    <3>2. AskForest => AskForest'
      BY <2>1, Zenon DEF AskForest
    <3>3. AskCutting => AskCutting'
      BY <2>1, Zenon DEF AskCutting
    <3>4. AskRaised => AskRaised'
      BY <2>1, Zenon DEF AskRaised
    <3>5. AskCompilation => AskCompilation'
      BY <2>1 DEF AskCompilation
    <3>6. AskBatches => AskBatches'
      BY <2>1, Zenon DEF AskBatches
    <3>7. AskReading => AskReading'
      BY <2>1, Zenon DEF AskReading
    <3>8. AskConfig => AskConfig'
      BY <2>1, Zenon DEF AskConfig
    <3> QED
      BY <3>1, <3>2, <3>3, <3>4, <3>5, <3>6, <3>7, <3>8, Zenon DEF AsComputed, Asks
  <2>3. CASE Placing
    BY <2>1, <2>2, <2>3, Zenon DEF Placing, Asked, AsComputed, PositionsAnswer
  <2>3a. CASE Flattening
    BY <2>1, <2>2, <2>3a, Zenon DEF Flattening, Asked, AsComputed, ForestAnswer
  <2>3b. CASE Cutting
    BY <2>1, <2>2, <2>3b, Zenon DEF Cutting, Asked, AsComputed, CuttingAnswer
  <2>3c. CASE Telling
    BY <2>1, <2>2, <2>3c, Zenon DEF Telling, Asked, AsComputed, RaisedAnswer
  <2>3d. CASE Judging
    BY <2>1, <2>2, <2>3d, Zenon DEF Judging, Asked, AsComputed, CompilationAnswer
  <2>4. CASE Checking
    BY <2>1, <2>2, <2>4, Zenon DEF Checking, Asked, AsComputed, BatchesAnswer
  <2>5. CASE Reading
    BY <2>1, <2>2, <2>5, Zenon DEF Reading, Asked, AsComputed, ReadingAnswer
  <2>6. CASE Configuring
    BY <2>1, <2>2, <2>6, Zenon DEF Configuring, Asked, AsComputed, ConfigAnswer
  <2>7. CASE UNCHANGED questionVars
    <3>1. answer' = answer
      BY <2>7 DEF questionVars
    <3> QED
      BY <2>1, <2>2, <3>1, Zenon DEF AsComputed
  <2> QED
    BY <2>3, <2>3a, <2>3b, <2>3c, <2>3d, <2>4, <2>5, <2>6, <2>7 DEF AskedNext
<1> QED
  BY <1>1, <1>2, PTL DEF AskedSpec

\* The kind of a question tells what was asked.
LEMMA AskedOne ==
    ASSUME AsComputed
    PROVE  /\ question.of = "positions" => AskPositions
           /\ question.of = "forest" => AskForest
           /\ question.of = "cutting" => AskCutting
           /\ question.of = "raised" => AskRaised
           /\ question.of = "compilation" => AskCompilation
           /\ question.of = "batches" => AskBatches
           /\ question.of = "reading" => AskReading
           /\ question.of = "config" => AskConfig
<1>1. /\ AskPositions => question.of = "positions"
      /\ AskForest => question.of = "forest"
      /\ AskCutting => question.of = "cutting"
      /\ AskRaised => question.of = "raised"
      /\ AskCompilation => question.of = "compilation"
      /\ AskBatches => question.of = "batches"
      /\ AskReading => question.of = "reading"
      /\ AskConfig => question.of = "config"
  <2>1. AskPositions => question.of = "positions"
    BY DEF AskPositions
  <2>1a. AskForest => question.of = "forest"
    BY DEF AskForest
  <2>1b. AskCutting => question.of = "cutting"
    BY DEF AskCutting
  <2>1c. AskRaised => question.of = "raised"
    BY DEF AskRaised
  <2>1d. AskCompilation => question.of = "compilation"
    BY DEF AskCompilation
  <2>2. AskBatches => question.of = "batches"
    BY DEF AskBatches
  <2>3. AskReading => question.of = "reading"
    <3> SUFFICES ASSUME NEW kind, NEW messages, NEW sorries,
                        question = [of |-> "reading", is |-> kind, messages |-> messages, sorries |-> sorries]
                 PROVE  question.of = "reading"
      BY Zenon DEF AskReading
    <3> QED
      BY Zenon
  <2>4. AskConfig => question.of = "config"
    BY DEF AskConfig
  <2> QED
    BY <2>1, <2>1a, <2>1b, <2>1c, <2>1d, <2>2, <2>3, <2>4
<1> HIDE DEF AskPositions, AskForest, AskCutting, AskRaised, AskCompilation, AskBatches, AskReading, AskConfig
<1> QED
  BY <1>1 DEF AsComputed, Asks

LEMMA SomeAreSeqs == ASSUME NEW S, NEW n \in Nat PROVE SeqOf(S, n) \subseteq Seq(S)
  BY DEF SeqOf

\* The answer to a question of each kind.
LEMMA AnswerOf ==
    ASSUME AsComputed, answer # <<>>
    PROVE  /\ question.of = "positions" => answer = PositionsAnswer(question)
           /\ question.of = "forest" => answer = ForestAnswer(question)
           /\ question.of = "cutting" => answer = CuttingAnswer(question)
           /\ question.of = "raised" => answer = RaisedAnswer(question)
           /\ question.of = "compilation" => answer = CompilationAnswer(question)
           /\ question.of = "batches" => answer = BatchesAnswer(question)
           /\ question.of = "reading" => answer = ReadingAnswer(question)
           /\ question.of = "config" => answer = ConfigAnswer(question)
  BY DEF AsComputed

\* /check and /exec: every position an author is shown is on the line Lean spoke
\* of, and the header asks for each import once.
THEOREM AskedPositionsShifted == AskedSpec => []PositionsShifted
<1>1. AsComputed => PositionsShifted
  <2> SUFFICES ASSUME AsComputed, question.of = "positions", answer # <<>>
               PROVE  PositionsFaithful(question.lines, question.response, answer[1], answer[2], answer[3])
    BY Zenon DEF PositionsShifted, HasAnswer
  <2> DEFINE split == SplitSnippet(question.lines)
  <2>1. PICK lines \in SomeLines : \E response \in Remarks(Len(SplitSnippet(lines).body)) :
            question = [of |-> "positions", lines |-> lines, response |-> response]
    BY AskedOne, Zenon DEF AskPositions
  <2>2. PICK response \in Remarks(Len(SplitSnippet(lines).body)) :
            question = [of |-> "positions", lines |-> lines, response |-> response]
    BY <2>1
  <2>3. question.lines = lines /\ question.response = response
    BY <2>2
  <2>4. lines \in Seq(LineKinds)
    <3>1. MaxLines \in Nat
      BY AlgorithmsAssumption
    <3> QED
      BY <3>1, SomeAreSeqs DEF SomeLines
  <2>5. response \in AnyRemarks(Len(SplitSnippet(lines).body))
    <3>1. \A n : SeqOf(Spots(n), 1) \subseteq Seq(Spots(n)) /\ <<>> \in Seq(Spots(n))
      BY SomeAreSeqs
    <3> QED
      <4> DEFINE n == Len(SplitSnippet(lines).body)
                 Told == SeqOf(Spots(n), 1)
                 Said == Seq(Spots(n))
      <4>1. Told \subseteq Said /\ <<>> \in Said
        BY <3>1
      <4>2. \/ response \in [failed : {FALSE}, messages : Told, sorries : Told]
            \/ response = [failed |-> TRUE, messages |-> <<>>, sorries |-> <<>>]
        BY DEF Remarks
      <4> HIDE DEF Told, Said, n
      <4>3. response \in [failed : BOOLEAN, messages : Said, sorries : Said]
        <5>1. CASE response \in [failed : {FALSE}, messages : Told, sorries : Told]
          BY <4>1, <5>1
        <5>2. CASE response = [failed |-> TRUE, messages |-> <<>>, sorries |-> <<>>]
          BY <4>1, <5>2
        <5> QED
          BY <4>2, <5>1, <5>2
      <4> QED
        BY <4>3 DEF AnyRemarks, Said, n
  <2>6. answer = PositionsAnswer(question)
    BY AnswerOf
  <2>7. /\ answer[1] = split
        /\ answer[2] = ApplyHeaderOffset(question.response, split.header_line_count)
        /\ answer[3] = OffsetMessages(question.response.messages, split.header_line_count)
    BY <2>6 DEF PositionsAnswer
  <2> HIDE DEF split
  <2>8. PositionsFaithful(lines, response, SplitSnippet(lines),
               ApplyHeaderOffset(response, SplitSnippet(lines).header_line_count),
               OffsetMessages(response.messages, SplitSnippet(lines).header_line_count))
    BY <2>4, <2>5, PositionsLandOnTheirLines
  <2> QED
    BY <2>3, <2>7, <2>8 DEF split
<1> QED
  BY <1>1, AskedInvariant, PTL

\* lean_client/infotree.py: an infotree is flattened, and its source is cut into
\* tactics, without anything lost, doubled or invented.
THEOREM AskedExtractionConserves == AskedSpec => []ExtractionConserves
<1>1. AsComputed => ExtractionConserves
  <2>1. ASSUME AsComputed, question.of = "forest", answer # <<>>
        PROVE  ForestFaithful(question, answer[1])
    <3>1. PICK n \in 1..MaxForest : question \in [of : {"forest"}, last : Shapes(n), label : [1..n -> Labels]]
      BY <2>1, AskedOne DEF AskForest
    <3>2. n \in Nat
      BY AlgorithmsAssumption
    <3>3. IsForest(question, n)
      BY <3>1 DEF IsForest, Shapes
    <3>4. answer = <<NodesAndEdges(question)>>
      BY <2>1, AnswerOf DEF ForestAnswer
    <3> QED
      BY <3>2, <3>3, <3>4, FlatteningIsFaithful
  <2>2. ASSUME AsComputed, question.of = "cutting", answer # <<>>
        PROVE  TacticsFaithful(question.ivs, question.source, answer[1])
    <3> DEFINE ivs == question.ivs
               source == question.source
               Rec == [start : 0..MaxTokens, finish : 0..MaxTokens, before : Nat, after : Nat]
    <3>1. source \in [1..MaxTokens -> Tokens] /\ ivs \in Cuts(MaxTokens)
      <4>1. AskCutting
        BY <2>2, AskedOne
      <4>2. question \in [of : {"cutting"}, source : Sources(MaxTokens), ivs : Cuts(MaxTokens)]
        BY <4>1 DEF AskCutting
      <4>3. question.source \in Sources(MaxTokens) /\ question.ivs \in Cuts(MaxTokens)
        BY <4>2
      <4> QED
        BY <4>3 DEF Sources
    <3>2. MaxTokens \in Nat /\ MaxTokens >= 3
      BY AlgorithmsAssumption
    <3>3. source \in Seq(Tokens) /\ Len(source) = MaxTokens
      <4>1. source \in Seq(Tokens)
        BY <3>1, <3>2, SeqDef
      <4>2. DOMAIN source = 1..MaxTokens /\ DOMAIN source = 1..Len(source) /\ Len(source) \in Nat
        BY <3>1, <4>1, LenProperties
      <4> QED
        BY <3>2, <4>1, <4>2, SameLength
    <3>4. AreIntervals(ivs, MaxTokens, Nat)
      <4>1. \A s, f \in 0..MaxTokens, b, a \in Nat :
               /\ Interval(s, f, b, a) \in Rec
               /\ Interval(s, f, b, a).start = s /\ Interval(s, f, b, a).finish = f
        BY DEF Interval
      <4>2. {0, 1, 2, 3, MaxTokens - 1, MaxTokens} \subseteq 0..MaxTokens
        BY <3>2
      <4> HIDE DEF Rec, ivs
      <4>3. ASSUME NEW s1 \in 0..MaxTokens, NEW f1 \in s1..MaxTokens, NEW b1 \in Nat, NEW a1 \in Nat,
                   NEW s2 \in 0..MaxTokens, NEW f2 \in s2..MaxTokens, NEW b2 \in Nat, NEW a2 \in Nat,
                   NEW s3 \in 0..MaxTokens, NEW f3 \in s3..MaxTokens, NEW b3 \in Nat, NEW a3 \in Nat
            PROVE  /\ AreIntervals(<<Interval(s1, f1, b1, a1), Interval(s2, f2, b2, a2)>>, MaxTokens, Nat)
                   /\ AreIntervals(<<Interval(s1, f1, b1, a1), Interval(s2, f2, b2, a2),
                                     Interval(s3, f3, b3, a3)>>, MaxTokens, Nat)
        <5> DEFINE x == Interval(s1, f1, b1, a1)
                   y == Interval(s2, f2, b2, a2)
                   z == Interval(s3, f3, b3, a3)
        <5>1. /\ f1 \in 0..MaxTokens /\ s1 <= f1
              /\ f2 \in 0..MaxTokens /\ s2 <= f2
              /\ f3 \in 0..MaxTokens /\ s3 <= f3
          BY <3>2
        <5>2. /\ x \in Rec /\ x.start <= x.finish
              /\ y \in Rec /\ y.start <= y.finish
              /\ z \in Rec /\ z.start <= z.finish
          <6>1. x \in Rec /\ y \in Rec /\ z \in Rec
            <7> HIDE DEF x, y, z
            <7>1. x \in Rec
              BY <4>1, <5>1 DEF x
            <7>2. y \in Rec
              BY <4>1, <5>1 DEF y
            <7>3. z \in Rec
              BY <4>1, <5>1 DEF z
            <7> QED
              BY <7>1, <7>2, <7>3
          <6>2. /\ x.start = s1 /\ x.finish = f1 /\ y.start = s2 /\ y.finish = f2
                /\ z.start = s3 /\ z.finish = f3
            BY DEF Interval
          <6> QED
            BY <5>1, <6>1, <6>2
        <5> HIDE DEF x, y, z
        <5>3. /\ <<x, y>> \in Seq(Rec) /\ <<x, y, z>> \in Seq(Rec)
              /\ \A k \in 1..Len(<<x, y>>) : <<x, y>>[k].start <= <<x, y>>[k].finish
              /\ \A k \in 1..Len(<<x, y, z>>) : <<x, y, z>>[k].start <= <<x, y, z>>[k].finish
          BY <5>2
        <5> QED
          BY <5>3 DEF AreIntervals, Rec, x, y, z
      <4> DEFINE n == MaxTokens
      <4>4. /\ 0 \in 0..n /\ 1 \in 0..n /\ 2 \in 0..n /\ 3 \in 0..n
            /\ 1 \in 0..n /\ n \in 1..n /\ n \in 0..n /\ n \in 2..n /\ 3 \in 3..n /\ n \in 3..n
            /\ n - 1 \in 2..n /\ 0 \in Nat /\ 1 \in Nat /\ 2 \in Nat
        BY <3>2
      <4>5. AreIntervals(<<Interval(0, 1, 1, 2), Interval(1, n, 2, 0)>>, n, Nat)
        <5>1. 1 \in 0..n
          BY <4>4
        <5> QED
          BY <4>3, <4>4, <5>1
      <4>6. AreIntervals(<<Interval(0, n, 1, 0), Interval(2, n, 0, 2), Interval(3, 3, 2, 1)>>, n, Nat)
        BY <4>3, <4>4
      <4>7. AreIntervals(<<Interval(2, n - 1, 0, 2), Interval(1, n, 1, 2), Interval(3, n, 2, 0)>>, n, Nat)
        BY <4>3, <4>4
      <4> QED
        BY <3>1, <4>5, <4>6, <4>7 DEF Cuts
    <3>5. answer = <<ExtractData(ivs, source)>>
      <4>1. answer = CuttingAnswer(question)
        BY <2>2, AnswerOf
      <4> QED
        BY <4>1 DEF CuttingAnswer
    <3> HIDE DEF ivs, source
    <3>6. TacticsFaithful(ivs, source, ExtractData(ivs, source))
      BY <3>3, <3>4, CuttingKeepsTheText
    <3> QED
      BY <3>5, <3>6 DEF ivs, source
  <2> QED
    BY <2>1, <2>2 DEF ExtractionConserves, HasAnswer
<1> QED
  BY <1>1, AskedInvariant, PTL

\* What is asked about exceptions are payloads.
LEMMA SomeArePayloads ==
    ASSUME NEW p \in Nat
    PROVE  Leaves \cup Boxes(p) \subseteq NodesAt(p)
<1>1. Leaves \subseteq NodesAt(p)
  <2>1. 0 \in Nat /\ 2 \in Nat /\ 0 \in Int /\ "warning" \in Words
    BY WordsAssumption
  <2> QED
    BY <2>1 DEF Leaves, NodesAt, Printed, Text
<1>2. [is : {"list"}, items : SeqOf(Parts(p), 2)] \subseteq NodesAt(p)
  <2>1. SeqOf(Parts(p), 2) \subseteq Seq(Parts(p))
    BY SomeAreSeqs
  <2> QED
    BY <2>1 DEF NodesAt
<1>3. [is : {"dict"}, fields : UNION {[keys -> Parts(p)] : keys \in KeySets},
       word : Words \cup {Absent}] \subseteq NodesAt(p)
  <2>1. KeySets \subseteq SUBSET Keys
    BY DEF KeySets, Keys
  <2>2. UNION {[keys -> Parts(p)] : keys \in KeySets} \subseteq UNION {[keys -> Parts(p)] : keys \in SUBSET Keys}
    BY <2>1
  <2> QED
    BY <2>2 DEF NodesAt
<1> QED
  BY <1>1, <1>2, <1>3 DEF Boxes

\* The server: an exception becomes an error that says something, whatever shape
\* Pantograph gave it, and only a compiled proof without sorry is accepted.
THEOREM AskedMessagesHonest == AskedSpec => []MessagesHonest
<1>1. AsComputed => MessagesHonest
  <2>1. ASSUME AsComputed, question.of = "raised", answer # <<>>
        PROVE  ErrorsAreTold(question.nodes, question.args, answer[1])
    <3> DEFINE nodes == question.nodes
               args == question.args
    <3>1. answer = <<ExceptionMessages(nodes, args)>>
      BY <2>1, AnswerOf DEF RaisedAnswer
    <3>2. CASE question \in [of : {"raised"}, nodes : {<<>>}, args : SeqOf({0}, 2)]
      <4>1. nodes = <<>> /\ args \in SeqOf({0}, 2)
        BY <3>2
      <4>2. args \in Seq({0})
        BY <4>1, SomeAreSeqs
      <4>3. 0..Len(<<>>) = {0}
        OBVIOUS
      <4>4. ArePayloads(<<>>) /\ <<>> \in Seq(AllNodes)
        BY DEF ArePayloads
      <4> HIDE DEF nodes, args
      <4>5. nodes \in Seq(AllNodes) /\ ArePayloads(nodes) /\ args \in Seq(0..Len(nodes))
        BY <4>1, <4>2, <4>3, <4>4
      <4> QED
        BY <3>1, <4>5, ExceptionsAreTold DEF nodes, args
    <3>3. ASSUME NEW first \in Leaves, NEW second \in Leaves \cup Boxes(2), NEW third \in Boxes(3),
                 question \in [of : {"raised"}, nodes : {<<first, second, third>>},
                               args : {<< 3 >>, <<2, 3>>}]
          PROVE  ErrorsAreTold(nodes, args, answer[1])
      <4>1. nodes = <<first, second, third>> /\ args \in {<< 3 >>, <<2, 3>>}
        BY <3>3
      <4>2. first \in NodesAt(1) /\ second \in NodesAt(2) /\ third \in NodesAt(3)
        BY SomeArePayloads
      <4>3. first \in AllNodes /\ second \in AllNodes /\ third \in AllNodes
        BY <4>2 DEF AllNodes
      <4> HIDE DEF nodes, args
      <4>4. nodes \in Seq(AllNodes) /\ Len(nodes) = 3
        BY <4>1, <4>3
      <4>5. ArePayloads(nodes)
        <5>1. \A p \in DOMAIN <<first, second, third>> : <<first, second, third>>[p] \in NodesAt(p)
          BY <4>2
        <5> QED
          BY <4>1, <5>1 DEF ArePayloads
      <4>6. args \in Seq(0..Len(nodes))
        <5>1. 2 \in 0..3 /\ 3 \in 0..3
          OBVIOUS
        <5>2. << 3 >> \in Seq(0..3) /\ <<2, 3>> \in Seq(0..3)
          BY <5>1
        <5> QED
          BY <4>1, <4>4, <5>2
      <4> QED
        BY <3>1, <4>4, <4>5, <4>6, ExceptionsAreTold DEF nodes, args
    <3>4. AskRaised
      BY <2>1, AskedOne
    <3> QED
      BY <3>2, <3>3, <3>4 DEF AskRaised
  <2>2. ASSUME AsComputed, question.of = "compilation", answer # <<>>
        PROVE  AcceptedIsProved(question.own, question.last, question.allowed, answer[1])
    <3> DEFINE Closing == {Plain("error", "no")} \cup
                       {Report(axioms, broken) : axioms \in SomeAxioms, broken \in BOOLEAN}
               Allowed == {{"propext"}, {"propext", "mine"}}
               Message == Compiled \cup Closing
    <3>1. answer = <<Verdict(Append(question.own, question.last), question.allowed)>>
      BY <2>2, AnswerOf DEF CompilationAnswer
    <3>2. AskCompilation
      BY <2>2, AskedOne
    <3>3. question \in [of : {"compilation"}, own : SeqOf(Compiled, 2), last : Closing, allowed : Allowed]
      BY <3>2 DEF AskCompilation
    <3> HIDE DEF Closing, Allowed
    <3>4. question.own \in SeqOf(Compiled, 2) /\ question.last \in Message
      BY <3>3
    <3>5. Compiled \subseteq Message
      OBVIOUS
    <3> HIDE DEF Message
    <3>6. question.own \in Seq(Message)
      <4>1. question.own \in Seq(Compiled)
        BY <3>4, SomeAreSeqs
      <4> QED
        BY <3>5, <4>1
    <3> QED
      BY <3>1, <3>4, <3>6, VerdictIsHonest
  <2> QED
    BY <2>1, <2>2 DEF MessagesHonest, HasAnswer
<1> QED
  BY <1>1, AskedInvariant, PTL

\* The clients: every snippet of a check is answered once, with its own answer or
\* its own batch's error, and the two readings of an answer do not contradict
\* each other.
THEOREM AskedAnswersMatch == AskedSpec => []AnswersMatch
<1>1. AsComputed => AnswersMatch
  <2>1. ASSUME AsComputed, question.of = "batches", answer # <<>>
        PROVE  AnsweredOnce(question.snippets, question.size, [s \in Snips |-> s],
                            question.failing, question.order, answer[1])
    <3>1. PICK snippets \in SeqOf(Snips, MaxSnippets) \ {<<>>}, size \in 1..MaxBatch :
            \E order \in SomeOrders(snippets, size) : \E failing \in SUBSET DOMAIN order :
                question = [of |-> "batches", snippets |-> snippets, size |-> size,
                            order |-> order, failing |-> failing]
      BY <2>1, AskedOne, Zenon DEF AskBatches
    <3>2. PICK order \in SomeOrders(snippets, size) : \E failing \in SUBSET DOMAIN order :
                question = [of |-> "batches", snippets |-> snippets, size |-> size,
                            order |-> order, failing |-> failing]
      BY <3>1
    <3>3. PICK failing \in SUBSET DOMAIN order :
                question = [of |-> "batches", snippets |-> snippets, size |-> size,
                            order |-> order, failing |-> failing]
      BY <3>2
    <3>4. /\ question.snippets = snippets /\ question.size = size
          /\ question.order = order /\ question.failing = failing
      BY <3>3
    <3>5. answer[1] = Merge(question.snippets, question.size, [s \in Snips |-> s],
                            question.failing, question.order)
      BY <2>1, AnswerOf DEF BatchesAnswer
    <3>6. snippets \in Seq(Snips) /\ snippets # <<>> /\ size \in Nat /\ size > 0
      <4>1. MaxSnippets \in Nat /\ MaxBatch \in Nat
        BY AlgorithmsAssumption
      <4> QED
        BY <4>1, SomeAreSeqs
    <3>7. /\ order \in [1..Len(Batches(snippets, size)) -> 1..Len(Batches(snippets, size))]
          /\ IsInjective(order)
      BY DEF SomeOrders
    <3>8. AnsweredOnce(snippets, size, [s \in Snips |-> s], failing, order,
                       Merge(snippets, size, [s \in Snips |-> s], failing, order))
      BY <3>6, <3>7, EverySnippetAnsweredOnce
    <3> QED
      BY <3>4, <3>5, <3>8
  <2>2. ASSUME AsComputed, question.of = "reading", answer # <<>>
        PROVE  ReadingsAgree(question, answer[1], answer[2])
    <3>1. question.is \in AnswerKinds
      <4>1. PICK kind \in AnswerKinds, messages \in Lists, sorries \in 0..2 :
              question = [of |-> "reading", is |-> kind, messages |-> messages, sorries |-> sorries]
        BY <2>2, AskedOne, Zenon DEF AskReading, AnswerKinds
      <4>2. question.is = kind
        BY <4>1, Zenon
      <4> QED
        BY <4>2, Zenon
    <3>2. answer[1] = Analyze(question) /\ answer[2] = ParseClientResponse(question)
      BY <2>2, AnswerOf DEF ReadingAnswer
    <3> QED
      <4>1. ReadingsAgree(question, Analyze(question), ParseClientResponse(question))
        BY <3>1, ReadingsAlwaysAgree
      <4> QED
        BY <3>2, <4>1, Zenon
  <2> QED
    BY <2>1, <2>2, Zenon DEF AnswersMatch, HasAnswer
<1> QED
  BY <1>1, AskedInvariant, PTL

\* The command lines that are asked about, and their fields.
GivenBy(w, i, q, b, u, r, p, s, n) ==
    [Nothing EXCEPT !.workers = w, !.in_flight = i, !.queued = q, !.bytes = b,
                    !.unbounded = u, !.width = r, !.port = p, !.calls = s, !.items = n]

LEMMA GivenFields ==
    ASSUME NEW w, NEW i, NEW q, NEW b, NEW u, NEW r, NEW p, NEW s, NEW n, NEW g,
           g = GivenBy(w, i, q, b, u, r, p, s, n)
    PROVE  /\ g = [f \in Fields |-> g[f]]
           /\ g.workers = w /\ g.in_flight = i /\ g.queued = q /\ g.bytes = b
           /\ g.width = r /\ g.port = p /\ g.calls = s /\ g.items = n
           /\ g.lanes = Absent /\ g.tactics = Absent /\ g.attempts = Absent
           /\ g.unbounded = u
<1> DEFINE Given == {Absent, w, i, q, b, u, r, p, s, n}
<1>1. g = [f \in Fields |-> g[f]]
  <2>1. Absent \in Given /\ w \in Given /\ i \in Given /\ q \in Given /\ b \in Given
        /\ u \in Given /\ r \in Given /\ p \in Given /\ s \in Given /\ n \in Given
    OBVIOUS
  <2> HIDE DEF Given
  <2>2. Nothing \in [Fields -> Given]
    BY <2>1 DEF Nothing
  <2>3. g \in [Fields -> Given]
    BY <2>1, <2>2 DEF GivenBy
  <2> QED
    BY <2>3
<1>2. /\ g.workers = w /\ g.in_flight = i /\ g.queued = q /\ g.bytes = b
      /\ g.width = r /\ g.port = p /\ g.calls = s /\ g.unbounded = u
      /\ g.items = n
  BY DEF Nothing, Fields, GivenBy
<1>3. g.lanes = Absent /\ g.tactics = Absent /\ g.attempts = Absent
  BY DEF Nothing, Fields, GivenBy
<1> QED
  BY <1>1, <1>2, <1>3

\* Configurations: what is asked is a configuration, an environment and a machine.
LEMMA ConfigAsked ==
    ASSUME AsComputed, question.of = "config"
    PROVE  /\ question.given \in SomeValues /\ question.environment \in SomeValues
           /\ question.machine \in AnyMachine
<1>1. /\ question.given \in Givens /\ question.environment \in Environments
      /\ question.machine \in Machines
  BY AskedOne DEF AskConfig
<1>2. ASSUME NEW g \in Givens
      PROVE  g \in SomeValues
  <2> DEFINE Ports == {Absent, 70000}
  <2>7. Ports \subseteq Int \cup {Absent}
    OBVIOUS
  <2> HIDE DEF Ports
  <2>1. PICK w \in {Absent, 0, 2, 9}, i \in {Absent, -1, 1, 6}, q \in {Absent, -1, 0}, b \in {Absent, -1},
             u \in {Absent, TRUE}, r \in {Absent, 5}, p \in Ports, s \in {Absent, 0}, n \in {Absent, 4} :
            g = GivenBy(w, i, q, b, u, r, p, s, n)
    BY <1>2 DEF Givens, GivenBy, Ports
  <2>2. /\ g = [f \in Fields |-> g[f]]
        /\ g.workers = w /\ g.in_flight = i /\ g.queued = q /\ g.bytes = b
        /\ g.width = r /\ g.port = p /\ g.calls = s /\ g.items = n
        /\ g.lanes = Absent /\ g.tactics = Absent /\ g.attempts = Absent
    BY <2>1, GivenFields
  <2>6. g.unbounded = u
    BY <2>1, GivenFields
  <2>3. \A f \in Fields \ {"unbounded"} : g[f] \in Int \cup {Absent}
    BY <2>2, <2>7 DEF Fields
  <2>4. g.unbounded \in BOOLEAN \cup {Absent}
    <3>1. u \in BOOLEAN \cup {Absent}
      <4>1. u = Absent \/ u = TRUE
        BY Zenon
      <4> QED
        BY <4>1, Zenon
    <3> QED
      BY <2>6, <3>1, Zenon
  <2>5. g \in [Fields -> Int \cup BOOLEAN \cup {Absent}]
    <3>1. \A f \in Fields : g[f] \in Int \cup BOOLEAN \cup {Absent}
      BY <2>3, <2>4 DEF Fields
    <3> QED
      BY <2>2, <3>1
  <2> QED
    BY <2>2, <2>3, <2>4, <2>5 DEF SomeValues
<1>3. ASSUME NEW g \in Environments
      PROVE  g \in SomeValues
  <2>1. PICK w \in {Absent, 3}, i \in {Absent, 2}, u \in {Absent, TRUE} :
            g = [Nothing EXCEPT !.workers = w, !.in_flight = i, !.unbounded = u]
    BY <1>3 DEF Environments
  <2>2. /\ DOMAIN g = Fields
        /\ g.workers = w /\ g.in_flight = i /\ g.unbounded = u
        /\ \A f \in Fields \ {"workers", "in_flight", "unbounded"} : g[f] = Absent
        /\ g = [f \in Fields |-> g[f]]
    BY <2>1 DEF Nothing, Fields
  <2>3. \A f \in Fields \ {"unbounded"} : g[f] \in Int \cup {Absent}
    BY <2>2 DEF Fields
  <2>4. g.unbounded \in BOOLEAN \cup {Absent}
    BY <2>2
  <2>5. g \in [Fields -> Int \cup BOOLEAN \cup {Absent}]
    <3>1. \A f \in Fields : g[f] \in Int \cup BOOLEAN \cup {Absent}
      BY <2>3, <2>4 DEF Fields
    <3> QED
      BY <2>2, <3>1
  <2> QED
    BY <2>3, <2>4, <2>5 DEF SomeValues
<1>4. Machines \subseteq AnyMachine
  BY DEF Machines, AnyMachine
<1> QED
  BY <1>1, <1>2, <1>3, <1>4

\* The launcher and the server: a server runs with the caps its launcher was
\* given, its two readers agree on a command line but for the size of the queue
\* when the requests in flight are given and it is not, and clients take the limits
\* of a bounded one.
THEOREM AskedLaunchedAsGiven == AskedSpec => []LaunchedAsGiven
<1>1. AsComputed => LaunchedAsGiven
  <2> SUFFICES ASSUME AsComputed, question.of = "config", answer # <<>>
               PROVE  /\ LaunchedRight(answer[3], question.environment, answer[1])
                      /\ ReadersAgree(question.given, question.environment, answer[2], answer[3])
                      /\ LimitsTaken(answer[2])
    BY Zenon DEF LaunchedAsGiven, HasAnswer
  <2> DEFINE client == Populated(question.given, question.machine)
             settings == SettingsFrom(question.given, question.environment, question.machine)
             launched == SettingsFrom(CliArgs(client), question.environment, question.machine)
  <2>1. answer[1] = launched /\ answer[2] = settings /\ answer[3] = client
    BY AnswerOf DEF ConfigAnswer
  <2>2. /\ question.given \in SomeValues /\ question.environment \in SomeValues
        /\ question.machine \in AnyMachine
    BY ConfigAsked
  <2>3. LaunchedRight(client, question.environment, launched)
    <3>1. client \in AllValues
      BY <2>2, PopulatedHasAll
    <3> QED
      BY <2>2, <3>1, LaunchesWhatItWasGiven
  <2>4. ReadersAgree(question.given, question.environment, settings, client)
    BY <2>2, CommandLineMeansOneThing
  <2>5. LimitsTaken(settings)
    BY LimitsAreTaken
  <2> HIDE DEF client, settings, launched
  <2> QED
    BY <2>1, <2>3, <2>4, <2>5
<1> QED
  BY <1>1, AskedInvariant, PTL
----------------------------------------------------------------------------
\* The locks of a batch are taken upwards: what it still misses is above all it
\* has.  One at its locks misses some, one that is over has none.
Upwards(r) ==
    /\ r.held \subseteq ItemsOf(r.calls)
    /\ r.at = "lock" =>
          /\ ~(ItemsOf(r.calls) \subseteq r.held)
          /\ \A i \in r.held, j \in ItemsOf(r.calls) \ r.held : i < j
    /\ r.at = "done" => r.held = {}

\* What is queued is about to be flushed.
AwaitedOK ==
    /\ \A b \in DOMAIN batches : Upwards(batches[b])
    /\ flushes \in Nat
    /\ queue # <<>> => timer \/ flushes > 0

\* Of the numbers given to the members of a set of numbers up to n one is the
\* greatest.
LEMMA Greatest ==
    ASSUME NEW n \in Nat, NEW L \in SUBSET (1..n), L # {}, NEW f \in [L -> Nat]
    PROVE  \E b \in L : \A a \in L : f[a] <= f[b]
<1> DEFINE T == {k \in Nat : \E b \in L : \A a \in L : a > k => f[a] <= f[b]}
<1>1. n \in T
  <2>1. PICK b \in L : TRUE
    OBVIOUS
  <2>2. \A a \in L : ~(a > n)
    OBVIOUS
  <2> QED
    BY <2>1, <2>2
<1>2. PICK k \in T : \A m \in T : k <= m
  BY <1>1, LeastNat
<1>3. PICK b \in L : \A a \in L : a > k => f[a] <= f[b]
  BY <1>2
<1>4. k \in Nat /\ \A m \in Nat : m < k => m \notin T
  BY <1>2
<1>5. CASE k = 0
  BY <1>3, <1>5
<1>6. CASE k > 0
  <2>1. k - 1 \in Nat /\ k - 1 < k
    BY <1>4, <1>6
  <2>2. \A c \in L : \E a \in L : a > k - 1 /\ ~(f[a] <= f[c])
    <3> HIDE DEF T
    <3>1. k - 1 \notin T
      BY <1>4, <2>1
    <3> QED
      BY <2>1, <3>1 DEF T
  <2>3. PICK a \in L : a > k - 1 /\ ~(f[a] <= f[b])
    BY <2>2
  <2>4. a = k /\ f[b] < f[k] /\ k \in L
    BY <1>3, <1>4, <2>3
  <2>5. \A c \in L : c > k - 1 => f[c] <= f[k]
    BY <1>3, <1>4, <2>4
  <2> QED
    BY <2>2, <2>4, <2>5
<1> QED
  BY <1>4, <1>5, <1>6

\* The batches that a flush cuts have calls (exec_env.py:355).
LEMMA CutFilled ==
    ASSUME queue \in Seq(Calls), NEW b \in DOMAIN Cut(queue)
    PROVE  Cut(queue)[b] # {}
<1> DEFINE M == MaxItems
           n == Len(queue)
           x == (b - 1) * M
<1>1. M \in Nat /\ M > 0 /\ n \in Nat
  BY BatcherAssumption
<1>2. DOMAIN Cut(queue) = 1..BatchCount(n, M)
  BY DEF Cut, BatchCount
<1>3. Cut(queue)[b] = {queue[i] : i \in {j \in DOMAIN queue : (j - 1) \div M = b - 1}}
  BY DEF Cut
<1> HIDE DEF M, n
<1>4. BatchCount(n, M) \in Nat /\ x \in Nat /\ x < n
  BY <1>1, <1>2, BatchStarts
<1>5. b - 1 \in Nat
  BY <1>2, <1>4
<1> HIDE DEF x
<1>6. x \div M = b - 1
  <2> DEFINE q == x \div M
             p == b - 1
  <2>1. q \in Nat /\ M * q <= x /\ x < M * q + M
    BY <1>1, <1>4, DivFacts
  <2>2. x = M * p /\ p \in Nat
    BY <1>1, <1>5 DEF x
  <2> HIDE DEF p, q
  <2>3. ASSUME q < p PROVE FALSE
    <3>1. q + 1 <= p
      BY <2>1, <2>2, <2>3
    <3>2. M * (q + 1) <= M * p
      BY <1>1, <2>1, <2>2, <3>1
    <3>3. M * (q + 1) = M * q + M
      BY <1>1, <2>1
    <3> QED
      BY <1>1, <1>4, <2>1, <2>2, <3>2, <3>3
  <2>4. ASSUME p < q PROVE FALSE
    <3>1. p + 1 <= q
      BY <2>1, <2>2, <2>4
    <3>2. M * (p + 1) <= M * q
      BY <1>1, <2>1, <2>2, <3>1
    <3>3. M * (p + 1) = M * p + M
      BY <1>1, <2>2
    <3> QED
      BY <1>1, <1>4, <2>1, <2>2, <3>2, <3>3
  <2>5. q = p
    BY <2>1, <2>2, <2>3, <2>4
  <2> QED
    BY <2>5 DEF p, q
<1>7. x + 1 \in DOMAIN queue /\ (x + 1) - 1 = x
  BY <1>1, <1>4 DEF n
<1> QED
  BY <1>3, <1>6, <1>7

\* A flush queues nothing, and its batches hold no lock yet but miss some.
LEMMA FlushUpwards ==
    ASSUME BatcherInv, AwaitedOK, Flush, flushes' \in Nat
    PROVE  AwaitedOK'
<1> DEFINE new == [b \in DOMAIN Cut(queue) |-> NewBatch(Cut(queue)[b])]
<1>1. queue \in Seq(Calls) /\ \A i, j \in DOMAIN queue : queue[i] = queue[j] => i = j
  BY DEF BatcherInv, TypesOK, PlacesOK
<1>2. PICK n \in Nat : DOMAIN Cut(queue) = 1..n
  BY <1>1, CutFacts
<1>3. \A b \in 1..n : Cut(queue)[b] # {}
  BY <1>1, <1>2, CutFilled
<1>4. \A b \in 1..n : Upwards(NewBatch(Cut(queue)[b]))
  BY <1>3 DEF Upwards, NewBatch, ItemsOf
<1>5. new \in Seq({NewBatch(Cut(queue)[b]) : b \in 1..n}) /\ Len(new) = n
      /\ \A b \in 1..n : new[b] = NewBatch(Cut(queue)[b])
  BY <1>2
<1>6. batches \in Seq(BatchStates) /\ batches' = batches \o new
  BY DEF BatcherInv, TypesOK, Flush
<1> HIDE DEF new
<1>7. ASSUME NEW b \in DOMAIN batches' PROVE Upwards(batches'[b])
  <2>1. \/ b \in DOMAIN batches /\ batches'[b] = batches[b]
        \/ \E m \in 1..n : batches'[b] = new[m]
    BY <1>5, <1>6
  <2> QED
    BY <1>4, <1>5, <2>1 DEF AwaitedOK
<1> QED
  BY <1>7 DEF AwaitedOK, Upwards, ItemsOf, Flush

\* One batch takes a step.
LEMMA OneBatchUpwards ==
    ASSUME BatcherInv, AwaitedOK, NEW b \in DOMAIN batches, NEW nb, Upwards(nb),
           batches' = [batches EXCEPT ![b] = nb], UNCHANGED <<queue, timer, flushes>>
    PROVE  AwaitedOK'
<1>1. \A a \in DOMAIN batches' : Upwards(batches'[a])
  BY DEF AwaitedOK, BatcherInv, TypesOK
<1> QED
  BY <1>1 DEF AwaitedOK, Upwards, ItemsOf

\* The lock that is taken is the lowest that the batch misses.
LEMMA TakeLockUpwards ==
    ASSUME BatcherInv, AwaitedOK, NEW b \in DOMAIN batches, TakeLock(b)
    PROVE  AwaitedOK'
<1> DEFINE items == ItemsOf(batches[b].calls)
           held == batches[b].held
<1>1. PICK i \in NextLocks(b) :
         batches' = [batches EXCEPT
                ![b].held = @ \cup {i},
                ![b].at = IF items = held \cup {i} THEN "slot" ELSE "lock"]
  BY DEF TakeLock
<1> DEFINE nb == [batches[b] EXCEPT
                !.held = @ \cup {i},
                !.at = IF items = held \cup {i} THEN "slot" ELSE "lock"]
<1>2. /\ batches[b] \in BatchStates /\ batches[b].at = "lock"
      /\ UNCHANGED <<queue, timer, flushes>>
  <2>1. batches[b] \in BatchStates
    BY DEF BatcherInv, TypesOK
  <2>2. batches[b].at = "lock" /\ UNCHANGED <<queue, timer, flushes>>
    BY DEF TakeLock
  <2> QED
    BY <2>1, <2>2
<1>3. items \subseteq Nat /\ held \subseteq items
      /\ \A k \in held, j \in items \ held : k < j
  BY <1>2, BatcherAssumption DEF AwaitedOK, Upwards, ItemsOf, BatchStates
<1>4. i \in items \ held /\ \A j \in items \ held : i <= j
  BY <1>1 DEF NextLocks
<1>5. /\ nb.calls = batches[b].calls /\ nb.held = held \cup {i}
      /\ nb.at = IF items = held \cup {i} THEN "slot" ELSE "lock"
  BY <1>2 DEF BatchStates
<1>6. batches' = [batches EXCEPT ![b] = nb]
  BY <1>1, <1>2 DEF BatchStates
<1>7. items = ItemsOf(nb.calls)
  BY <1>5
<1> HIDE DEF nb, items, held
<1>8. \A k \in held \cup {i}, j \in items \ (held \cup {i}) : k < j
  BY <1>3, <1>4
<1>9. Upwards(nb)
  BY <1>3, <1>4, <1>5, <1>7, <1>8 DEF Upwards
<1> QED
  BY <1>2, <1>6, <1>9, OneBatchUpwards

\* Every action keeps it.
LEMMA AwaitedStep == BatcherInv /\ AwaitedOK /\ [Next]_vars => AwaitedOK'
<1> SUFFICES ASSUME BatcherInv, AwaitedOK, [Next]_vars PROVE AwaitedOK'
  OBVIOUS
<1>1. flushes \in Nat /\ queue \in Seq(Calls) /\ \A b \in DOMAIN batches : batches[b] \in BatchStates
  BY DEF AwaitedOK, BatcherInv, TypesOK
<1>2. ASSUME NEW c \in Calls, Submit(c) PROVE AwaitedOK'
  <2>1. /\ batches' = batches /\ flushes' \in Nat
        /\ timer' \/ flushes' > 0
    BY <1>1, <1>2 DEF Submit
  <2> QED
    BY <2>1 DEF AwaitedOK, Upwards, ItemsOf
<1>3. ASSUME UNCHANGED <<batches, queue, timer, flushes>> PROVE AwaitedOK'
  BY <1>3 DEF AwaitedOK, Upwards, ItemsOf
<1>4. ASSUME NEW c \in Calls, SubmitRefused(c) \/ GiveUp(c) PROVE AwaitedOK'
  BY <1>3, <1>4 DEF SubmitRefused, GiveUp
<1>5. ASSUME NEW b \in DOMAIN batches, TakeSlot(b) PROVE AwaitedOK'
  <2> DEFINE nb == [batches[b] EXCEPT !.at = "send"]
  <2>1. /\ nb.calls = batches[b].calls /\ nb.held = batches[b].held /\ nb.at = "send"
        /\ batches' = [batches EXCEPT ![b] = nb] /\ UNCHANGED <<queue, timer, flushes>>
    BY <1>1, <1>5 DEF TakeSlot, BatchStates
  <2> HIDE DEF nb
  <2>2. Upwards(nb)
    BY <2>1 DEF AwaitedOK, Upwards
  <2> QED
    BY <2>1, <2>2, OneBatchUpwards
<1>6. ASSUME NEW b \in DOMAIN batches, Answer(b) PROVE AwaitedOK'
  <2>1. PICK C \in SUBSET batches[b].todo : Ends(b) \/ SendsAgain(b, C)
    BY <1>6, AnswerEffect
  <2>2. batches[b].at = "send" /\ UNCHANGED <<queue, timer, flushes>>
    BY <1>6 DEF Answer
  <2>3. CASE Ends(b)
    <3>1. Upwards(Over)
      BY DEF Upwards, Over, ItemsOf
    <3> QED
      BY <2>2, <2>3, <3>1, OneBatchUpwards DEF Ends
  <2>4. CASE SendsAgain(b, C)
    <3> DEFINE nb == [batches[b] EXCEPT !.todo = C, !.attempt = @ + 1]
    <3>1. /\ nb.calls = batches[b].calls /\ nb.held = batches[b].held /\ nb.at = "send"
          /\ batches' = [batches EXCEPT ![b] = nb]
      BY <1>1, <2>2, <2>4 DEF SendsAgain, BatchStates
    <3> HIDE DEF nb
    <3>2. Upwards(nb)
      BY <3>1 DEF AwaitedOK, Upwards
    <3> QED
      BY <2>2, <3>1, <3>2, OneBatchUpwards
  <2> QED
    BY <2>1, <2>3, <2>4
<1>7. ASSUME NEW b \in DOMAIN batches, SendStep(b) PROVE AwaitedOK'
  BY <1>5, <1>6, <1>7, TakeLockUpwards DEF SendStep
<1>8. CASE TimerFires \/ Close
  BY <1>1, <1>8, FlushUpwards DEF TimerFires, Close
<1>9. CASE FlushRuns
  <2>1. Flush /\ flushes' \in Nat
    BY <1>1, <1>9 DEF FlushRuns
  <2> QED
    BY <2>1, FlushUpwards
<1>10. CASE CloseReturns
  BY <1>3, <1>10 DEF CloseReturns
<1>11. CASE UNCHANGED vars
  BY <1>3, <1>11 DEF vars
<1> QED
  BY <1>2, <1>4, <1>7, <1>8, <1>9, <1>10, <1>11 DEF Next

\* While a batch is not over, some batch can go on: of those at their locks the one
\* that waits for the highest waits for none, as whoever has that lock waits for a
\* higher one or is past its locks.
LEMMA SomeBatchGoes ==
    ASSUME BatcherInv, AwaitedOK, NEW z \in DOMAIN batches, batches[z].at # "done"
    PROVE  \E b \in DOMAIN batches : CanGo(b)
<1> SUFFICES ASSUME \A b \in DOMAIN batches : ~CanGo(b) PROVE FALSE
  OBVIOUS
<1>1. /\ \A b \in DOMAIN batches : batches[b] \in BatchStates
      /\ Len(batches) \in Nat /\ DOMAIN batches = 1..Len(batches)
  BY DEF BatcherInv, TypesOK
<1>2. \A b \in DOMAIN batches : batches[b].at # "send"
  BY DEF CanGo
<1>3. SlotFree
  <2>1. {a \in DOMAIN batches : batches[a].at = "send"} = {}
    BY <1>2
  <2>2. MaxInFlight \in Nat /\ MaxInFlight > 0
    BY BatcherAssumption
  <2> QED
    BY <2>1, <2>2, FS_EmptySet DEF SlotFree
<1>4. \A b \in DOMAIN batches : batches[b].at \in {"lock", "done"}
  BY <1>1, <1>2, <1>3 DEF CanGo, BatchStates
<1> DEFINE L == {b \in DOMAIN batches : batches[b].at = "lock"}
           Missing(b) == ItemsOf(batches[b].calls) \ batches[b].held
<1>5. \A b \in L : Missing(b) \in SUBSET Nat /\ Missing(b) # {}
  BY <1>1, BatcherAssumption DEF AwaitedOK, Upwards, ItemsOf, BatchStates
<1>6. \A b \in L : \E i \in Missing(b) : \A j \in Missing(b) : i <= j
  BY <1>5, LeastNat
<1>7. \A b \in DOMAIN batches : NextLocks(b) = {i \in Missing(b) : \A j \in Missing(b) : i <= j}
  BY DEF NextLocks
<1>8. ASSUME NEW a \in L, NEW i \in batches[a].held, NEW j \in Missing(a)
      PROVE  i < j
  BY <1>8 DEF AwaitedOK, Upwards
<1>9. \A b \in DOMAIN batches : b \notin L => batches[b].held = {}
  BY <1>4 DEF AwaitedOK, Upwards
<1>10. z \in L /\ L \in SUBSET (1..Len(batches))
  BY <1>1, <1>4
<1>11. \A b \in L : \A i \in NextLocks(b) : \E a \in DOMAIN batches : i \in batches[a].held
  BY DEF CanGo, Locked
<1> DEFINE next == [b \in L |-> CHOOSE i \in Missing(b) : \A j \in Missing(b) : i <= j]
<1> HIDE DEF Missing, L
<1>12. \A b \in L : /\ next[b] \in Missing(b) /\ next[b] \in Nat
                    /\ \A j \in Missing(b) : next[b] <= j
  BY <1>5, <1>6
<1>13. next \in [L -> Nat]
  BY <1>12
<1> HIDE DEF next
<1>14. PICK b \in L : \A a \in L : next[a] <= next[b]
  BY <1>1, <1>10, <1>13, Greatest
<1>15. next[b] \in NextLocks(b)
  BY <1>7, <1>12, <1>14 DEF L
<1>16. PICK a \in DOMAIN batches : next[b] \in batches[a].held
  BY <1>11, <1>15
<1>17. a \in L
  BY <1>9, <1>16
<1>18. next[b] < next[a]
  BY <1>8, <1>12, <1>16, <1>17
<1> QED
  BY <1>12, <1>14, <1>17, <1>18

\* No caller is forgotten and no two batches hold what the other waits for: the
\* batcher can always go on until nobody waits (exec_env.py:399).
THEOREM BatcherNeverStuck == Spec => []NobodyStuck
<1>1. Init => WaitersOK /\ AwaitedOK
  BY DEF Init, WaitersOK, ClosedLeavesNobody, AwaitedOK
<1>2. BatcherInv /\ WaitersOK /\ AwaitedOK => NobodyStuck
  <2> SUFFICES ASSUME BatcherInv, WaitersOK, AwaitedOK,
                      closing = "flushing" \/ \E c \in Calls : future[c] = "waiting",
                      ~timer, ~(flushes > 0), \A b \in DOMAIN batches : ~CanGo(b)
               PROVE  closing = "flushing" /\ \A b \in DOMAIN batches : batches[b].at = "done"
    BY DEF NobodyStuck
  <2>1. \A b \in DOMAIN batches : batches[b].at = "done"
    BY SomeBatchGoes
  <2>2. \A c : ~Queued(c)
    BY DEF AwaitedOK, Queued
  <2>3. \A c \in Calls : future[c] # "waiting"
    BY <2>1, <2>2 DEF WaitersOK
  <2> QED
    BY <2>1, <2>3
<1> QED
  BY <1>1, <1>2, BatcherInvariant, WaitersStep, AwaitedStep, PTL DEF Spec
=============================================================================
