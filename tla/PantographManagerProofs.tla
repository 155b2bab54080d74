----------------------- MODULE PantographManagerProofs -----------------------
(***************************************************************************)
(* Proofs about the pool of Lean workers, for any number of clients,       *)
(* workers, keys and profiles, any limits and any interleaving: its        *)
(* counters are exact, its caps hold, a lease belongs to one client, no    *)
(* process is lost and no wake-up is.                                      *)
(*                                                                         *)
(* The invariant has two halves.  Base says where everything is: the       *)
(* condition's list holds the waiting clients, a client holds the worker   *)
(* its state promises, and the running processes are the idle and the      *)
(* leased ones.  Ledger counts: the reserved starts, the caps, and the     *)
(* notifications under way against the room there is.  Each action has one *)
(* lemma about Base (...Keeps), which also says how the pool's collections *)
(* change, and one about Ledger (...Counts), which needs only that.        *)
(***************************************************************************)
EXTENDS PantographManager, FiniteSetTheorems, SequenceTheorems, TLAPS

\* Where a client has a worker.
Holders == {"evicting", "starting", "leased", "closing"}
Pool == Elems(free) \cup busy
StartersOf(p) == {c \in Starting : ProfileOf[client[c].key] = p}

\* The condition's list holds exactly the waiting clients, each once.
Lined(q, st) ==
    /\ \A c \in Clients : st[c].pc = "waiting" <=> c \in Elems(q)
    /\ \A i, j \in DOMAIN q : q[i] = q[j] => i = j

LineOK == Lined(waiters, client)

\* What a client's record may hold, by where it is.
ShapeOK(s) ==
    /\ s.pc \in {"waiting", "notified"} => s.key \in Keys /\ s.w = None
    /\ s.pc = "idle" => s.key = None /\ s.w = None
    /\ s.pc \in Holders => s.key \in Keys /\ s.w \in Workers

\* What is true of the worker a client holds.
HoldOK(s) ==
    /\ s.pc \in {"evicting", "closing"} => worker[s.w].proc = "closing"
    /\ s.pc = "starting" => worker[s.w].proc = "starting" /\ worker[s.w].key = s.key
    /\ s.pc = "leased" =>
          /\ s.w \notin Elems(free)
          /\ worker[s.w].proc # "none" => worker[s.w].key = s.key

ClientsOK == \A c \in Clients : ShapeOK(client[c])

HoldsOK ==
    /\ \A c, d \in Clients : client[c].w \in Workers /\ client[c].w = client[d].w => c = d
    /\ \A c \in Clients : HoldOK(client[c])

\* Where the running processes are.
PoolOK ==
    /\ \A w \in Workers : worker[w].proc = "none" \/ worker[w].key \in Keys
    /\ \A i, j \in DOMAIN free : free[i] = free[j] => i = j
    /\ Elems(free) \cap busy = {}
    /\ \A w \in Workers : worker[w].proc = "up" <=> w \in Elems(free) \/ w \in busy
    /\ \A w \in busy : \E c \in Clients : client[c].pc = "leased" /\ client[c].w = w
    /\ MaxUses >= 0 => \A w \in Elems(free) : worker[w].uses < MaxUses

\* While the profile cap does not bind, as many clients are notified as the pool
\* has room for, unless nobody waits.
WakesOK ==
    (profile_cap < 0 \/ profile_cap >= max_workers) /\ waiters # <<>> =>
       Cardinality(At({"notified"})) >= max_workers - Cardinality(busy) - starting

---------------------------------------------------------------------------
\* Lists

\* Removing the element at position i of a list shifts what follows it to the
\* left (_free.pop(i), pantograph_manager.py:126, and the condition's list when
\* wait_for gives up, 153).
LEMMA RemovedAtFacts ==
    ASSUME NEW S, NEW q \in Seq(S), NEW i \in 1..Len(q)
    PROVE  /\ RemovedAt(q, i) \in Seq(S)
           /\ Len(RemovedAt(q, i)) = Len(q) - 1
           /\ \A j \in 1..(Len(q) - 1) :
                RemovedAt(q, i)[j] = q[IF j < i THEN j ELSE j + 1]
<1>1. Len(q) \in Nat \ {0} /\ i \in Nat /\ i <= Len(q)
  OBVIOUS
<1>2. ASSUME NEW before \in Seq(S), Len(before) = i - 1,
             \A j \in 1..(i - 1) : before[j] = q[j],
             NEW after \in Seq(S), Len(after) = Len(q) - i,
             \A j \in 1..(Len(q) - i) : after[j] = q[j + i]
      PROVE  /\ before \o after \in Seq(S)
             /\ Len(before \o after) = Len(q) - 1
             /\ \A j \in 1..(Len(q) - 1) :
                  (before \o after)[j] = q[IF j < i THEN j ELSE j + 1]
  <2>1. before \o after \in Seq(S)
    OBVIOUS
  <2>2. Len(before \o after) = Len(before) + Len(after)
    BY ConcatProperties, Zenon
  <2>3. Len(before \o after) = Len(q) - 1
    BY <1>1, <1>2, <2>2
  <2>4. ASSUME NEW j \in 1..(Len(q) - 1), j < i
        PROVE  (before \o after)[j] = q[j]
    BY <1>1, <1>2, <2>4
  <2>5. ASSUME NEW j \in 1..(Len(q) - 1), j >= i
        PROVE  (before \o after)[j] = q[j + 1]
    <3>1. j - (i - 1) \in 1..(Len(q) - i) /\ j - (i - 1) + i = j + 1
      BY <1>1, <2>5
    <3>2. (before \o after)[j] = after[j - (i - 1)]
      BY <1>1, <1>2, <2>5, <3>1
    <3> QED
      BY <1>2, <3>1, <3>2
  <2> QED
    BY <1>1, <2>1, <2>3, <2>4, <2>5
<1> DEFINE before == SubSeq(q, 1, i - 1)
           after  == SubSeq(q, i + 1, Len(q))
<1>3. before \in Seq(S) /\ Len(before) = i - 1 /\ \A j \in 1..(i - 1) : before[j] = q[j]
  BY <1>1
<1>4. /\ after \in Seq(S) /\ Len(after) = Len(q) - i
      /\ \A j \in 1..(Len(q) - i) : after[j] = q[j + i]
  BY <1>1
<1> HIDE DEF before, after
<1>5. /\ before \o after \in Seq(S)
      /\ Len(before \o after) = Len(q) - 1
      /\ \A j \in 1..(Len(q) - 1) :
           (before \o after)[j] = q[IF j < i THEN j ELSE j + 1]
  BY <1>2, <1>3, <1>4, Zenon
<1> QED
  BY <1>5 DEF RemovedAt, before, after

\* What else is true of a list without repetitions.
LEMMA RemovedAtElems ==
    ASSUME NEW S, NEW q \in Seq(S), NEW i \in DOMAIN q,
           \A m, n \in DOMAIN q : q[m] = q[n] => m = n
    PROVE  /\ \A m, n \in DOMAIN RemovedAt(q, i) :
                RemovedAt(q, i)[m] = RemovedAt(q, i)[n] => m = n
           /\ Elems(RemovedAt(q, i)) = Elems(q) \ {q[i]}
           /\ q[i] \in S /\ q[i] \in Elems(q)
<1> DEFINE r == RemovedAt(q, i)
           at(j) == IF j < i THEN j ELSE j + 1
<1>1. /\ Len(q) \in Nat \ {0} /\ i \in 1..Len(q) /\ DOMAIN q = 1..Len(q)
      /\ \A j \in 1..Len(q) : q[j] \in S
  OBVIOUS
<1>2. r \in Seq(S) /\ Len(r) = Len(q) - 1 /\ \A j \in 1..(Len(q) - 1) : r[j] = q[at(j)]
  <2>1. i \in 1..Len(q)
    BY <1>1
  <2> QED
    BY <2>1, RemovedAtFacts, Zenon
<1>3. DOMAIN r = 1..(Len(q) - 1)
  BY <1>2
<1>4. \A j \in 1..(Len(q) - 1) : at(j) \in 1..Len(q) /\ at(j) # i
  BY <1>1
<1>5. \A m, n \in 1..(Len(q) - 1) : at(m) = at(n) => m = n
  BY <1>1
<1>6. \A j \in 1..Len(q) : j # i => \E m \in 1..(Len(q) - 1) : at(m) = j
  <2> SUFFICES ASSUME NEW j \in 1..Len(q), j # i
               PROVE  \E m \in 1..(Len(q) - 1) : at(m) = j
    OBVIOUS
  <2>1. CASE j < i
    <3>1. j \in 1..(Len(q) - 1) /\ at(j) = j
      BY <1>1, <2>1
    <3> QED
      BY <3>1
  <2>2. CASE j > i
    <3>1. j - 1 \in 1..(Len(q) - 1) /\ at(j - 1) = j
      BY <1>1, <2>2
    <3> QED
      BY <3>1
  <2> QED
    BY <1>1, <2>1, <2>2
<1> HIDE DEF r, at
<1>7. \A m, n \in DOMAIN r : r[m] = r[n] => m = n
  BY <1>1, <1>2, <1>3, <1>4, <1>5
<1>8. Elems(r) \subseteq Elems(q) \ {q[i]}
  BY <1>1, <1>2, <1>3, <1>4 DEF Elems
<1>9. Elems(q) \ {q[i]} \subseteq Elems(r)
  <2> SUFFICES ASSUME NEW j \in 1..Len(q), q[j] # q[i]
               PROVE  q[j] \in Elems(r)
    BY <1>1 DEF Elems
  <2>1. PICK m \in 1..(Len(q) - 1) : at(m) = j
    BY <1>6
  <2>2. r[m] = q[j]
    BY <1>2, <2>1
  <2> QED
    BY <1>3, <2>2 DEF Elems
<1> QED
  BY <1>1, <1>7, <1>8, <1>9 DEF r, Elems

\* A list grows at its end by release_worker (pantograph_manager.py:205) and by
\* Condition.wait().
LEMMA AppendFacts ==
    ASSUME NEW S, NEW q \in Seq(S), NEW x \in S
    PROVE  /\ Append(q, x) \in Seq(S)
           /\ Len(Append(q, x)) = Len(q) + 1
           /\ Elems(Append(q, x)) = Elems(q) \cup {x}
           /\ /\ \A m, n \in DOMAIN q : q[m] = q[n] => m = n
              /\ x \notin Elems(q)
              => \A m, n \in DOMAIN Append(q, x) : Append(q, x)[m] = Append(q, x)[n] => m = n
<1> DEFINE r == Append(q, x)
<1>1. /\ r \in Seq(S) /\ Len(r) = Len(q) + 1 /\ r[Len(q) + 1] = x /\ Len(q) \in Nat
      /\ \A j \in 1..Len(q) : r[j] = q[j]
      /\ DOMAIN q = 1..Len(q) /\ DOMAIN r = 1..(Len(q) + 1)
  OBVIOUS
<1> HIDE DEF r
<1>2. 1..(Len(q) + 1) = (1..Len(q)) \cup {Len(q) + 1}
  BY <1>1
<1>3. Elems(r) = Elems(q) \cup {x}
  BY <1>1, <1>2 DEF Elems
<1>4. /\ \A m, n \in DOMAIN q : q[m] = q[n] => m = n
      /\ x \notin Elems(q)
      => \A m, n \in DOMAIN r : r[m] = r[n] => m = n
  BY <1>1, <1>2 DEF Elems
<1> QED
  BY <1>1, <1>3, <1>4 DEF r

---------------------------------------------------------------------------
\* The condition

\* The types of the two variables of the condition.
ClientTypes == client \in [Clients -> ClientStates] /\ waiters \in Seq(Clients)

\* d only moves within the line, from waiting to notified.
Same(d) ==
    /\ client'[d].key = client[d].key
    /\ client'[d].w = client[d].w
    /\ \/ client'[d].pc = client[d].pc
       \/ client[d].pc = "waiting" /\ client'[d].pc = "notified"

\* c moves to the state to, the others only within the line.
Step(c, to) ==
    /\ ClientTypes'
    /\ LineOK'
    /\ client'[c] = to
    /\ \A d \in Clients \ {c} : Same(d)

\* Unless nobody waits any more, c's step has notified another client.
Notifies(c) ==
    waiters' # <<>> => \E h \in Clients \ {c} : /\ client[h].pc = "waiting"
                                                /\ client'[h].pc = "notified"

\* A list without repetitions, less its first k elements.
LEMMA SuffixFacts ==
    ASSUME NEW S, NEW q \in Seq(S), NEW k \in 0..Len(q),
           \A i, j \in DOMAIN q : q[i] = q[j] => i = j
    PROVE  /\ SubSeq(q, k + 1, Len(q)) \in Seq(S)
           /\ Len(SubSeq(q, k + 1, Len(q))) = Len(q) - k
           /\ \A i, j \in DOMAIN SubSeq(q, k + 1, Len(q)) :
                SubSeq(q, k + 1, Len(q))[i] = SubSeq(q, k + 1, Len(q))[j] => i = j
           /\ {q[i] : i \in 1..k} \subseteq S
           /\ Elems(SubSeq(q, k + 1, Len(q))) = Elems(q) \ {q[i] : i \in 1..k}
           /\ {q[i] : i \in 1..k} \subseteq Elems(q)
<1> DEFINE r == SubSeq(q, k + 1, Len(q))
           woken == {q[i] : i \in 1..k}
<1>1. Len(q) \in Nat /\ k \in Nat /\ k <= Len(q)
  OBVIOUS
<1>2. r \in Seq(S) /\ Len(r) = Len(q) - k /\ \A i \in 1..(Len(q) - k) : r[i] = q[i + k]
  BY <1>1
<1>3. DOMAIN q = 1..Len(q) /\ \A i \in 1..Len(q) : q[i] \in S
  OBVIOUS
<1>4. DOMAIN r = 1..(Len(q) - k)
  BY <1>2
<1> HIDE DEF r, woken
<1>5. \A i \in 1..(Len(q) - k) : i + k \in 1..Len(q) /\ i + k \notin 1..k
  BY <1>1
<1>6. \A i \in 1..k : i \in 1..Len(q)
  BY <1>1
<1>7. ASSUME NEW i \in 1..(Len(q) - k), NEW j \in 1..(Len(q) - k), r[i] = r[j]
      PROVE  i = j
  <2>1. q[i + k] = q[j + k]
    BY <1>2, <1>7
  <2>2. i + k = j + k
    BY <1>3, <1>5, <2>1
  <2> QED
    BY <1>1, <2>2
<1>8. woken \subseteq Elems(q) /\ woken \subseteq S
  BY <1>3, <1>6 DEF woken, Elems
<1>9. ASSUME NEW i \in 1..(Len(q) - k) PROVE r[i] \in Elems(q) /\ r[i] \notin woken
  <2>1. r[i] = q[i + k] /\ i + k \in DOMAIN q
    BY <1>2, <1>3, <1>5
  <2>2. ASSUME NEW j \in 1..k, q[j] = q[i + k] PROVE FALSE
    <3>1. j = i + k
      BY <1>3, <1>6, <2>1, <2>2
    <3> QED
      BY <1>5, <3>1
  <2> QED
    BY <2>1, <2>2 DEF Elems, woken
<1>10. ASSUME NEW m \in 1..Len(q), q[m] \notin woken PROVE q[m] \in Elems(r)
  <2>1. m \notin 1..k
    BY <1>10 DEF woken
  <2>2. m - k \in 1..(Len(q) - k) /\ (m - k) + k = m
    BY <1>1, <2>1
  <2>3. r[m - k] = q[m]
    BY <1>2, <2>2
  <2> QED
    BY <1>4, <2>2, <2>3 DEF Elems
<1>11. Elems(r) = Elems(q) \ woken
  BY <1>3, <1>4, <1>9, <1>10 DEF Elems
<1> QED
  BY <1>2, <1>4, <1>7, <1>8, <1>11 DEF r, woken

\* notify(n) takes clients off the front of the condition's list and makes them
\* runnable, and nothing else; unless the list ends up empty, it woke somebody
\* (pantograph_manager.py:180, 187, 206, 275, 286).
LEMMA NotifyFacts ==
    ASSUME NEW n \in Nat, NEW q \in Seq(Clients), NEW st \in [Clients -> ClientStates],
           Lined(q, st), NotifyInto(n, q, st)
    PROVE  /\ ClientTypes'
           /\ LineOK'
           /\ \A d \in Clients :
                 /\ client'[d].key = st[d].key
                 /\ client'[d].w = st[d].w
                 /\ \/ client'[d].pc = st[d].pc
                    \/ st[d].pc = "waiting" /\ client'[d].pc = "notified"
           /\ \A d \in Clients : st[d].pc # "waiting" => client'[d] = st[d]
           /\ n = Len(q) => waiters' = <<>>
           /\ n > 0 /\ waiters' # <<>> =>
                \E h \in Clients : st[h].pc = "waiting" /\ client'[h].pc = "notified"
<1> DEFINE k     == IF n <= Len(q) THEN n ELSE Len(q)
           woken == {q[i] : i \in 1..k}
<1>1. Len(q) \in Nat
  OBVIOUS
<1>2. k \in 0..Len(q) /\ (n = Len(q) => k = Len(q)) /\ (n > 0 /\ Len(q) > 0 => k > 0)
  BY <1>1
<1>3. /\ waiters' = SubSeq(q, k + 1, Len(q))
      /\ client' = [c \in Clients |-> IF c \in woken
                                      THEN [st[c] EXCEPT !.pc = "notified"]
                                      ELSE st[c]]
  BY DEF NotifyInto
<1>4. n > 0 /\ Len(q) > 0 => q[1] \in woken
  BY <1>1, <1>2
<1> HIDE DEF k
<1>5. /\ waiters' \in Seq(Clients)
      /\ Len(waiters') = Len(q) - k
      /\ \A i, j \in DOMAIN waiters' : waiters'[i] = waiters'[j] => i = j
      /\ Elems(waiters') = Elems(q) \ woken
      /\ woken \subseteq Elems(q)
      /\ woken \subseteq Clients
  <2>1. \A i, j \in DOMAIN q : q[i] = q[j] => i = j
    BY DEF Lined
  <2> QED
    BY <1>2, <1>3, <2>1, SuffixFacts
<1> HIDE DEF woken
<1>6. ASSUME NEW d \in Clients
      PROVE  /\ client'[d] \in ClientStates
             /\ client'[d].key = st[d].key
             /\ client'[d].w = st[d].w
             /\ d \in woken => client'[d].pc = "notified"
             /\ d \notin woken => client'[d] = st[d]
  <2>1. st[d] \in ClientStates
    OBVIOUS
  <2>2. CASE d \in woken
    BY <1>3, <2>1, <2>2 DEF ClientStates, ClientPCs
  <2>3. CASE d \notin woken
    BY <1>3, <2>1, <2>3
  <2> QED
    BY <2>2, <2>3
<1>7. client' \in [Clients -> ClientStates]
  BY <1>3, <1>6
<1>8. LineOK'
  BY <1>5, <1>6 DEF LineOK, Lined
<1>9. \A d \in woken : st[d].pc = "waiting"
  BY <1>5 DEF Lined
<1>10. n = Len(q) => waiters' = <<>>
  BY <1>1, <1>2, <1>5, EmptySeq
<1>11. ASSUME n > 0, waiters' # <<>>
       PROVE  \E h \in Clients : st[h].pc = "waiting" /\ client'[h].pc = "notified"
  <2>1. Len(waiters') # 0
    BY <1>5, <1>11, EmptySeq
  <2>2. Len(q) > 0
    BY <1>1, <1>2, <1>5, <2>1
  <2> QED
    BY <1>4, <1>5, <1>6, <1>9, <1>11, <2>2
<1> QED
  BY <1>5, <1>6, <1>7, <1>8, <1>9, <1>10, <1>11 DEF ClientTypes

\* The caller moves to a state outside the line and wakes others.
LEMMA NotifyStep ==
    ASSUME ClientTypes, LineOK, NEW c \in Clients, NEW to \in ClientStates,
           to.pc # "waiting", NEW n \in Nat, NEW q \in WithoutFuture(c),
           NotifyInto(n, q, [client EXCEPT ![c] = to])
    PROVE  Step(c, to) /\ (n > 0 => Notifies(c))
<1> DEFINE st == [client EXCEPT ![c] = to]
<1>1. st \in [Clients -> ClientStates] /\ st[c] = to /\ \A d \in Clients \ {c} : st[d] = client[d]
  BY DEF ClientTypes
<1>2. /\ q \in Seq(Clients)
      /\ \A i, j \in DOMAIN q : q[i] = q[j] => i = j
      /\ Elems(q) = Elems(waiters) \ {c}
  <2>1. CASE client[c].pc = "waiting"
    <3>1. PICK i \in DOMAIN waiters : waiters[i] = c /\ q = RemovedAt(waiters, i)
      BY <2>1 DEF WithoutFuture
    <3>2. i \in 1..Len(waiters) /\ waiters \in Seq(Clients)
      BY DEF ClientTypes
    <3>3. RemovedAt(waiters, i) \in Seq(Clients)
      BY <3>2, RemovedAtFacts, Zenon
    <3> QED
      BY <3>1, <3>2, <3>3, RemovedAtElems DEF LineOK, Lined
  <2>2. CASE client[c].pc # "waiting"
    <3>1. q = waiters
      BY <2>2 DEF WithoutFuture
    <3>2. c \notin Elems(waiters)
      BY <2>2 DEF LineOK, Lined, Elems
    <3> QED
      BY <3>1, <3>2 DEF LineOK, Lined, ClientTypes
  <2> QED
    BY <2>1, <2>2
<1>3. Lined(q, st)
  BY <1>1, <1>2 DEF LineOK, Lined
<1>4. NotifyInto(n, q, st)
  OBVIOUS
<1> HIDE DEF st
<1>5. /\ ClientTypes'
      /\ LineOK'
      /\ \A d \in Clients :
            /\ client'[d].key = st[d].key
            /\ client'[d].w = st[d].w
            /\ \/ client'[d].pc = st[d].pc
               \/ st[d].pc = "waiting" /\ client'[d].pc = "notified"
      /\ \A d \in Clients : st[d].pc # "waiting" => client'[d] = st[d]
      /\ n > 0 /\ waiters' # <<>> =>
           \E h \in Clients : st[h].pc = "waiting" /\ client'[h].pc = "notified"
  BY <1>1, <1>2, <1>3, <1>4, NotifyFacts
<1> QED
  BY <1>1, <1>5 DEF Step, Same, Notifies

\* The caller moves from one state outside the line to another.
LEMMA QuietStep ==
    ASSUME ClientTypes, LineOK, NEW c \in Clients, NEW to \in ClientStates,
           to.pc # "waiting", client[c].pc # "waiting",
           client' = [client EXCEPT ![c] = to], waiters' = waiters
    PROVE  Step(c, to)
<1>1. client' \in [Clients -> ClientStates] /\ client'[c] = to
      /\ \A d \in Clients \ {c} : client'[d] = client[d]
  BY DEF ClientTypes
<1>2. LineOK'
  BY <1>1 DEF LineOK, Lined
<1> QED
  BY <1>1, <1>2 DEF Step, Same, ClientTypes

\* The caller joins the line.
LEMMA WaitStep ==
    ASSUME ClientTypes, LineOK, NEW c \in Clients, NEW to \in ClientStates,
           to.pc = "waiting", client[c].pc # "waiting",
           client' = [client EXCEPT ![c] = to], waiters' = Append(waiters, c)
    PROVE  Step(c, to)
<1>1. client' \in [Clients -> ClientStates] /\ client'[c] = to
      /\ \A d \in Clients \ {c} : client'[d] = client[d]
  BY DEF ClientTypes
<1>2. waiters \in Seq(Clients)
  BY DEF ClientTypes
<1>3. c \notin Elems(waiters)
  BY DEF LineOK, Lined, Elems
<1>4. /\ waiters' \in Seq(Clients)
      /\ Elems(waiters') = Elems(waiters) \cup {c}
      /\ \A i, j \in DOMAIN waiters' : waiters'[i] = waiters'[j] => i = j
  BY <1>2, <1>3, AppendFacts DEF LineOK, Lined
<1>5. LineOK'
  BY <1>1, <1>4 DEF LineOK, Lined
<1> QED
  BY <1>1, <1>4, <1>5 DEF Step, Same, ClientTypes

---------------------------------------------------------------------------
\* Clients and the workers they hold

\* The part of TypeOK that does not depend on the counters.
TypesOK ==
    /\ ClientTypes
    /\ free \in Seq(Workers)
    /\ busy \in SUBSET Workers
    /\ worker \in [Workers -> WorkerStates]

Base == TypesOK /\ LineOK /\ ClientsOK /\ HoldsOK /\ PoolOK

\* An idle worker runs, is not leased, and no client holds it
\* (pantograph_manager.py:126-127, 199-205).
LEMMA FreeUnheld ==
    ASSUME Base, NEW w \in Elems(free)
    PROVE  /\ w \in Workers /\ worker[w].proc = "up" /\ w \notin busy /\ worker[w].key \in Keys
           /\ \A d \in Clients : client[d].w # w
<1>1. w \in Workers
  BY DEF Elems, Base, TypesOK
<1>2. worker[w].proc = "up" /\ w \notin busy /\ worker[w].key \in Keys
  BY <1>1 DEF Base, PoolOK
<1>3. ASSUME NEW d \in Clients, client[d].w = w PROVE FALSE
  <2>1. ShapeOK(client[d]) /\ HoldOK(client[d]) /\ client[d].pc \in ClientPCs
    BY DEF Base, ClientsOK, HoldsOK, TypesOK, ClientTypes, ClientStates
  <2> QED
    BY <1>1, <1>2, <1>3, <2>1, PoolAssumption DEF ShapeOK, HoldOK, ClientPCs, Holders
<1> QED
  BY <1>1, <1>2, <1>3

\* A client's move keeps the shape of every client's record.
LEMMA StepShape ==
    ASSUME Base, NEW c \in Clients, NEW to \in ClientStates, Step(c, to), ShapeOK(to)
    PROVE  ClientsOK'
<1> SUFFICES ASSUME NEW d \in Clients PROVE ShapeOK(client[d])'
  BY DEF ClientsOK
<1>1. CASE d = c
  BY <1>1 DEF Step, ShapeOK
<1>2. CASE d # c
  BY <1>2 DEF Step, Same, ShapeOK, Base, ClientsOK, Holders
<1> QED
  BY <1>1, <1>2

\* A step that changes the process of one worker at most, and that worker is not
\* held by anybody but the caller.
LEMMA StepHolds ==
    ASSUME Base, NEW c \in Clients, NEW to \in ClientStates, Step(c, to),
           \A w \in Workers : \/ worker'[w] = worker[w]
                             \/ \A d \in Clients \ {c} : client[d].w # w,
           \A d \in Clients \ {c} : client[d].w = to.w => to.w = None,
           Elems(free') \subseteq Elems(free) \cup {client[c].w},
           HoldOK(to)'
    PROVE  HoldsOK'
<1>1. \A d \in Clients \ {c} : Same(d) /\ client[d].w \in Workers \cup {None}
  BY DEF Step, Base, TypesOK, ClientTypes, ClientStates
<1>2. client'[c] = to
  BY DEF Step
<1>3. ASSUME NEW d \in Clients, NEW e \in Clients,
             client'[d].w \in Workers, client'[d].w = client'[e].w
      PROVE  d = e
  <2>1. None \notin Workers
    BY PoolAssumption
  <2> QED
    BY <1>1, <1>2, <1>3, <2>1 DEF Same, Base, HoldsOK
<1>4. ASSUME NEW d \in Clients PROVE HoldOK(client[d])'
  <2>1. CASE d = c
    BY <1>2, <2>1 DEF HoldOK
  <2>2. CASE d # c /\ client[d].pc \notin Holders
    <3>1. client'[d].pc \notin Holders
      BY <1>1, <2>2 DEF Same, Holders
    <3> QED
      BY <3>1 DEF HoldOK, Holders
  <2>3. CASE d # c /\ client[d].pc \in Holders
    <3>1. client[d].w \in Workers
      BY <2>3 DEF Base, ClientsOK, ShapeOK
    <3>2. worker'[client[d].w] = worker[client[d].w]
      BY <2>3, <3>1
    <3>3. /\ client'[d].pc = client[d].pc /\ client'[d].w = client[d].w
          /\ client'[d].key = client[d].key
      BY <1>1, <2>3 DEF Same, Holders
    <3>4. HoldOK(client[d])
      BY DEF Base, HoldsOK
    <3>5. client[d].w # client[c].w
      BY <2>3, <3>1 DEF Base, HoldsOK
    <3> QED
      BY <3>2, <3>3, <3>4, <3>5 DEF HoldOK
  <2> QED
    BY <2>1, <2>2, <2>3
<1> QED
  BY <1>3, <1>4 DEF HoldsOK

\* c is about to look at the pool.
Caller(c) == client[c].pc \in {"idle", "notified"}

\* Busy workers stay leased to somebody.
LEMMA StepLeases ==
    ASSUME Base, NEW c \in Clients, NEW to \in ClientStates, Step(c, to),
           \A w \in busy' : \/ w \in busy /\ ~(client[c].pc = "leased" /\ client[c].w = w)
                            \/ to.pc = "leased" /\ to.w = w
    PROVE  \A w \in busy' : \E d \in Clients : client'[d].pc = "leased" /\ client'[d].w = w
<1> SUFFICES ASSUME NEW w \in busy'
             PROVE  \E d \in Clients : client'[d].pc = "leased" /\ client'[d].w = w
  OBVIOUS
<1>1. CASE to.pc = "leased" /\ to.w = w
  BY <1>1 DEF Step
<1>2. CASE w \in busy /\ ~(client[c].pc = "leased" /\ client[c].w = w)
  <2>1. PICK d \in Clients : client[d].pc = "leased" /\ client[d].w = w
    BY <1>2 DEF Base, PoolOK
  <2>2. d # c
    BY <1>2, <2>1
  <2> QED
    BY <2>1, <2>2 DEF Step, Same
<1> QED
  BY <1>1, <1>2

\* get_worker leases the first idle worker of its key
\* (pantograph_manager.py:121-129): it leaves the list, joins _busy, and nobody
\* else held it.
LEMMA LeaseIdleKeeps ==
    ASSUME Base, NEW c \in Clients, NEW k \in Keys, Caller(c), LeaseIdle(c, k)
    PROVE  \E w \in Elems(free) :
              /\ worker[w].key = k
              /\ Step(c, [pc |-> "leased", key |-> k, w |-> w])
              /\ Len(free') = Len(free) - 1
              /\ Elems(free') = Elems(free) \ {w}
              /\ busy' = busy \cup {w}
              /\ Base'
<1>1. PICK i \in First(Matches(k)) :
           /\ free' = RemovedAt(free, i)
           /\ busy' = busy \cup {free[i]}
           /\ client' = Moved(c, "leased", k, free[i])
  BY DEF LeaseIdle
<1>0. PICK w : w = free[i]
  OBVIOUS
<1> DEFINE to == [pc |-> "leased", key |-> k, w |-> w]
<1>2. i \in DOMAIN free /\ worker[w].key = k
  BY <1>0, <1>1 DEF First, Matches
<1>3. /\ free' \in Seq(Workers) /\ Len(free') = Len(free) - 1
      /\ \A m, n \in DOMAIN free' : free'[m] = free'[n] => m = n
      /\ Elems(free') = Elems(free) \ {w}
      /\ w \in Workers /\ w \in Elems(free)
  <2>1. free \in Seq(Workers) /\ i \in 1..Len(free)
    BY <1>2 DEF Base, TypesOK
  <2>2. \A m, n \in DOMAIN free : free[m] = free[n] => m = n
    BY DEF Base, PoolOK
  <2>3. RemovedAt(free, i) \in Seq(Workers) /\ Len(RemovedAt(free, i)) = Len(free) - 1
    BY <2>1, RemovedAtFacts, Zenon
  <2> QED
    BY <1>0, <1>1, <1>2, <2>1, <2>2, <2>3, RemovedAtElems
<1>4. to \in ClientStates /\ ShapeOK(to) /\ to.pc = "leased" /\ to.w = w /\ to.key = k
  BY <1>3 DEF ClientStates, ClientPCs, ShapeOK, Holders
<1>5. client' = [client EXCEPT ![c] = to]
  BY <1>0, <1>1 DEF Moved
<1> HIDE DEF to
<1>6. worker' = worker /\ waiters' = waiters
  BY DEF LeaseIdle
<1>7. Step(c, to)
  BY <1>4, <1>5, <1>6, QuietStep DEF Base, TypesOK, Caller
<1>8. TypesOK'
  BY <1>0, <1>1, <1>3, <1>6, <1>7 DEF Step, TypesOK, Base
<1>9. ClientsOK'
  BY <1>4, <1>7, StepShape
<1>10. /\ worker[w].proc = "up" /\ \A d \in Clients : client[d].w # w
  BY <1>3, FreeUnheld
<1>11. HoldOK(to)'
  BY <1>2, <1>3, <1>4, <1>6 DEF HoldOK
<1>12. HoldsOK'
  BY <1>3, <1>4, <1>6, <1>7, <1>10, <1>11, StepHolds
<1>13. \A x \in busy' : \E d \in Clients : client'[d].pc = "leased" /\ client'[d].w = x
  BY <1>0, <1>1, <1>4, <1>7, StepLeases DEF Caller
<1>14. PoolOK'
  <2>1. \A x \in Workers : worker'[x].proc = "up" <=> x \in Elems(free') \/ x \in busy'
    BY <1>0, <1>1, <1>3, <1>6 DEF Base, PoolOK
  <2>2. Elems(free') \cap busy' = {}
    BY <1>0, <1>1, <1>3 DEF Base, PoolOK
  <2>3. MaxUses >= 0 => \A x \in Elems(free') : worker'[x].uses < MaxUses
    BY <1>3, <1>6 DEF Base, PoolOK
  <2> QED
    BY <1>3, <1>6, <1>13, <2>1, <2>2, <2>3 DEF Base, PoolOK, Elems
<1> QED
  BY <1>0, <1>1, <1>2, <1>3, <1>7, <1>8, <1>9, <1>12, <1>14 DEF to, Base, Step

\* get_worker reserves a start (pantograph_manager.py:131-135); the new process is
\* in no collection of the pool yet.
LEMMA StartNewKeeps ==
    ASSUME Base, NEW c \in Clients, NEW k \in Keys, Caller(c), StartNew(c, k)
    PROVE  \E w \in Workers :
              /\ Step(c, [pc |-> "starting", key |-> k, w |-> w])
              /\ w \notin Pool /\ \A x \in Workers \ {w} : worker'[x] = worker[x]
              /\ Base'
<1>1. PICK w \in Unused : worker' = Boots(w, k) /\ client' = Moved(c, "starting", k, w)
  BY DEF StartNew
<1> DEFINE to == [pc |-> "starting", key |-> k, w |-> w]
<1>2. w \in Workers /\ worker[w].proc = "none" /\ \A d \in Clients : client[d].w # w
  BY <1>1 DEF Unused
<1>3. /\ worker' \in [Workers -> WorkerStates]
      /\ worker'[w].proc = "starting" /\ worker'[w].key = k
      /\ \A x \in Workers \ {w} : worker'[x] = worker[x]
  BY <1>1, <1>2 DEF Boots, WorkerStates, Base, TypesOK
<1>4. to \in ClientStates /\ ShapeOK(to) /\ to.pc = "starting" /\ to.w = w /\ to.key = k
  BY <1>2 DEF ClientStates, ClientPCs, ShapeOK, Holders
<1>5. client' = [client EXCEPT ![c] = to]
  BY <1>1 DEF Moved
<1> HIDE DEF to
<1>6. free' = free /\ busy' = busy /\ waiters' = waiters
  BY DEF StartNew
<1>7. Step(c, to)
  BY <1>4, <1>5, <1>6, QuietStep DEF Base, TypesOK, Caller
<1>8. TypesOK'
  BY <1>3, <1>6, <1>7 DEF Step, TypesOK, Base
<1>9. ClientsOK'
  BY <1>4, <1>7, StepShape
<1>10. HoldOK(to)'
  BY <1>3, <1>4 DEF HoldOK
<1>11. HoldsOK'
  BY <1>2, <1>3, <1>4, <1>6, <1>7, <1>10, StepHolds
<1>12. \A x \in busy' : \E d \in Clients : client'[d].pc = "leased" /\ client'[d].w = x
  BY <1>4, <1>6, <1>7, StepLeases DEF Caller
<1>13. w \notin Elems(free) /\ w \notin busy
  BY <1>2 DEF Base, PoolOK
<1>14. Elems(free)' = Elems(free)
  BY <1>6 DEF Elems
<1>15. PoolOK'
  <2>1. \A x \in Workers : worker'[x].proc = "none" \/ worker'[x].key \in Keys
    BY <1>3 DEF Base, PoolOK
  <2>2. \A x \in Workers : worker'[x].proc = "up" <=> x \in Elems(free) \/ x \in busy
    BY <1>3, <1>13 DEF Base, PoolOK
  <2>3. \A x \in Elems(free) : x \in Workers /\ worker'[x] = worker[x]
    BY <1>3, <1>13, FreeUnheld
  <2> QED
    BY <1>6, <1>12, <1>14, <2>1, <2>2, <2>3 DEF Base, PoolOK
<1> QED
  BY <1>2, <1>3, <1>7, <1>8, <1>9, <1>11, <1>13, <1>15 DEF to, Base, Step, Pool

\* get_worker evicts an idle worker (pantograph_manager.py:137-144), of its own
\* profile when that profile is full.
LEMMA EvictIdleKeeps ==
    ASSUME Base, NEW c \in Clients, NEW k \in Keys, Caller(c), EvictIdle(c, k)
    PROVE  \E w \in Elems(free) :
              /\ ~CanStart(ProfileOf[k]) => HasProfile(w, ProfileOf[k])
              /\ Step(c, [pc |-> "evicting", key |-> k, w |-> w])
              /\ Len(free') = Len(free) - 1
              /\ Elems(free') = Elems(free) \ {w}
              /\ \A x \in Workers \ {w} : worker'[x] = worker[x]
              /\ Base'
<1>1. PICK i \in First(Victims(k)) :
           /\ free' = RemovedAt(free, i)
           /\ worker' = [worker EXCEPT ![free[i]].proc = "closing"]
           /\ client' = Moved(c, "evicting", k, free[i])
  BY DEF EvictIdle
<1>0. PICK w : w = free[i]
  OBVIOUS
<1> DEFINE to == [pc |-> "evicting", key |-> k, w |-> w]
<1>2. i \in DOMAIN free /\ (~CanStart(ProfileOf[k]) => HasProfile(w, ProfileOf[k]))
  <2>1. i \in Victims(k)
    BY <1>1 DEF First
  <2> QED
    BY <1>0, <2>1 DEF Victims
<1>3. /\ free' \in Seq(Workers) /\ Len(free') = Len(free) - 1
      /\ \A m, n \in DOMAIN free' : free'[m] = free'[n] => m = n
      /\ Elems(free') = Elems(free) \ {w}
      /\ w \in Workers /\ w \in Elems(free)
  <2>1. free \in Seq(Workers) /\ i \in 1..Len(free)
    BY <1>2 DEF Base, TypesOK
  <2>2. \A m, n \in DOMAIN free : free[m] = free[n] => m = n
    BY DEF Base, PoolOK
  <2>3. RemovedAt(free, i) \in Seq(Workers) /\ Len(RemovedAt(free, i)) = Len(free) - 1
    BY <2>1, RemovedAtFacts, Zenon
  <2> QED
    BY <1>0, <1>1, <1>2, <2>1, <2>2, <2>3, RemovedAtElems
<1>4. to \in ClientStates /\ ShapeOK(to) /\ to.pc = "evicting" /\ to.w = w /\ to.key = k
  BY <1>3 DEF ClientStates, ClientPCs, ShapeOK, Holders
<1>5. client' = [client EXCEPT ![c] = to]
  BY <1>0, <1>1 DEF Moved
<1>6. busy' = busy /\ waiters' = waiters /\ worker' = [worker EXCEPT ![w].proc = "closing"]
  BY <1>0, <1>1 DEF EvictIdle
<1> HIDE DEF to
<1>7. Step(c, to)
  BY <1>4, <1>5, <1>6, QuietStep DEF Base, TypesOK, Caller
<1>8. /\ worker[w].proc = "up" /\ worker[w].key \in Keys /\ w \notin busy
      /\ \A d \in Clients : client[d].w # w
  BY <1>3, FreeUnheld
<1>9. /\ worker' \in [Workers -> WorkerStates]
      /\ worker'[w].proc = "closing" /\ worker'[w].key \in Keys
      /\ \A x \in Workers \ {w} : worker'[x] = worker[x]
  BY <1>3, <1>6, <1>8 DEF WorkerStates, Base, TypesOK
<1>10. TypesOK'
  BY <1>3, <1>6, <1>7, <1>9 DEF Step, TypesOK, Base
<1>11. ClientsOK'
  BY <1>4, <1>7, StepShape
<1>12. HoldOK(to)'
  BY <1>4, <1>9 DEF HoldOK
<1>13. HoldsOK'
  BY <1>3, <1>4, <1>7, <1>8, <1>9, <1>12, StepHolds
<1>14. \A x \in busy' : \E d \in Clients : client'[d].pc = "leased" /\ client'[d].w = x
  BY <1>4, <1>6, <1>7, StepLeases DEF Caller
<1>15. PoolOK'
  <2>1. \A x \in Workers : worker'[x].proc = "none" \/ worker'[x].key \in Keys
    BY <1>9 DEF Base, PoolOK
  <2>2. \A x \in Workers : worker'[x].proc = "up" <=> x \in Elems(free') \/ x \in busy
    BY <1>3, <1>8, <1>9 DEF Base, PoolOK
  <2>3. \A x \in Elems(free') : x \in Elems(free) /\ x \in Workers /\ worker'[x] = worker[x]
    BY <1>3, <1>9, FreeUnheld
  <2> QED
    BY <1>3, <1>6, <1>14, <2>1, <2>2, <2>3 DEF Base, PoolOK, Elems
<1> QED
  BY <1>2, <1>3, <1>7, <1>9, <1>10, <1>11, <1>13, <1>15 DEF to, Base, Step

\* A client comes or goes, or gives up a lease the pool no longer knows of.
LEMMA PoolUntouched ==
    ASSUME Base, NEW c \in Clients, NEW to \in ClientStates, Step(c, to), ShapeOK(to),
           to.pc \notin Holders,
           client[c].pc = "leased" => client[c].w \notin busy,
           free' = free, busy' = busy, worker' = worker
    PROVE  Base'
<1>1. to.w = None /\ to.pc \in ClientPCs
  BY DEF ShapeOK, ClientStates, ClientPCs, Holders
<1>2. TypesOK'
  BY DEF Step, TypesOK, Base
<1>3. ClientsOK'
  BY StepShape
<1>4. HoldOK(to)'
  BY DEF HoldOK, Holders
<1>5. HoldsOK'
  BY <1>1, <1>4, StepHolds
<1>6. \A x \in busy' : \E d \in Clients : client'[d].pc = "leased" /\ client'[d].w = x
  BY StepLeases
<1>7. PoolOK'
  BY <1>6 DEF PoolOK, Base, Elems
<1> QED
  BY <1>2, <1>3, <1>5, <1>7 DEF Base, Step

\* A client that has left get_worker holds nothing.
LEMMA NoClientShape == NoClient \in ClientStates /\ ShapeOK(NoClient) /\ NoClient.pc = "idle"
BY DEF NoClient, ClientStates, ClientPCs, ShapeOK, Holders

\* A client waits on the condition (pantograph_manager.py:152-153).
LEMMA WaitTurnKeeps ==
    ASSUME Base, NEW c \in Clients, NEW k \in Keys, Caller(c), WaitTurn(c, k)
    PROVE  Base' /\ Step(c, [pc |-> "waiting", key |-> k, w |-> None])
<1> DEFINE to == [pc |-> "waiting", key |-> k, w |-> None]
<1>1. to \in ClientStates /\ ShapeOK(to) /\ to.pc = "waiting"
  BY DEF ClientStates, ClientPCs, ShapeOK, Holders
<1>2. client' = [client EXCEPT ![c] = to] /\ waiters' = Append(waiters, c)
  BY DEF WaitTurn, Moved
<1> HIDE DEF to
<1>3. free' = free /\ busy' = busy /\ worker' = worker
  BY DEF WaitTurn
<1>4. Step(c, to)
  BY <1>1, <1>2, WaitStep DEF Base, TypesOK, Caller
<1>5. Base'
  BY <1>1, <1>3, <1>4, PoolUntouched DEF Holders, Caller
<1> QED
  BY <1>4, <1>5 DEF to

\* A client whose deadline has passed raises without waiting
\* (pantograph_manager.py:146-151).
LEMMA GiveUpInLoopKeeps ==
    ASSUME Base, NEW c \in Clients, NEW k \in Keys, Caller(c), GiveUpInLoop(c, k)
    PROVE  Base' /\ Step(c, NoClient)
<1>1. /\ client' = [client EXCEPT ![c] = NoClient] /\ waiters' = waiters
      /\ free' = free /\ busy' = busy /\ worker' = worker
  BY DEF GiveUpInLoop
<1>2. Step(c, NoClient)
  BY <1>1, NoClientShape, QuietStep DEF Base, TypesOK, Caller
<1>3. Base'
  BY <1>1, <1>2, NoClientShape, PoolUntouched DEF Holders, Caller
<1> QED
  BY <1>2, <1>3

\* wait_for gives up on the condition (pantograph_manager.py:152-158), and the
\* notification it may have had goes to the next.
LEMMA TimeOutKeeps ==
    ASSUME Base, NEW c \in Clients, TimeOut(c)
    PROVE  Base' /\ Step(c, NoClient) /\ Notifies(c)
<1>1. PICK q \in WithoutFuture(c) : NotifyInto(1, q, [client EXCEPT ![c] = NoClient])
  BY DEF TimeOut
<1>2. Step(c, NoClient) /\ Notifies(c)
  BY <1>1, NoClientShape, NotifyStep DEF Base, TypesOK
<1>3. free' = free /\ busy' = busy /\ worker' = worker
  BY DEF TimeOut
<1>4. Base'
  BY <1>2, <1>3, NoClientShape, PoolUntouched DEF Holders, TimeOut
<1> QED
  BY <1>2, <1>4

\* NotifyStep for a caller that is not in the line.
LEMMA NotifyFromOutside ==
    ASSUME Base, NEW c \in Clients, client[c].pc # "waiting", NEW to \in ClientStates,
           to.pc # "waiting", NotifyInto(1, waiters, [client EXCEPT ![c] = to])
    PROVE  Step(c, to) /\ Notifies(c)
<1>1. waiters \in WithoutFuture(c)
  BY DEF WithoutFuture
<1> QED
  BY <1>1, NotifyStep DEF Base, TypesOK

\* A process that is gone.
LEMMA NoWorkerFacts == NoWorker \in WorkerStates /\ NoWorker.proc = "none"
BY DEF NoWorker, WorkerStates

\* What a client holds.
LEMMA HeldFacts ==
    ASSUME Base, NEW c \in Clients, client[c].pc \in Holders
    PROVE  /\ client[c].w \in Workers /\ client[c].key \in Keys
           /\ client[c].w \notin Elems(free)
           /\ client[c].pc # "leased" => client[c].w \notin busy
           /\ HoldOK(client[c])
           /\ \A d \in Clients \ {c} : client[d].w # client[c].w
<1>1. client[c].w \in Workers /\ client[c].key \in Keys
  BY DEF Base, ClientsOK, ShapeOK
<1>2. HoldOK(client[c])
  BY DEF Base, HoldsOK
<1>3. \A d \in Clients \ {c} : client[d].w # client[c].w
  BY <1>1 DEF Base, HoldsOK
<1> QED
  BY <1>1, <1>2, <1>3 DEF HoldOK, Holders, Base, PoolOK

\* The evicted process has ended and the factory is called
\* (pantograph_manager.py:160-169); the pool's own workers are untouched.
LEMMA EvictedKeeps ==
    ASSUME Base, NEW c \in Clients, Evicted(c)
    PROVE  \E w \in Workers :
              /\ Step(c, [pc |-> "starting", key |-> client[c].key, w |-> w])
              /\ \A x \in Pool : worker'[x] = worker[x]
              /\ Base'
<1>1. PICK w \in Unused :
         /\ worker' = [Boots(w, client[c].key) EXCEPT ![client[c].w] = NoWorker]
         /\ client' = Moved(c, "starting", client[c].key, w)
  BY DEF Evicted
<1>2. PICK old, k : old = client[c].w /\ k = client[c].key
  OBVIOUS
<1> DEFINE to == [pc |-> "starting", key |-> k, w |-> w]
<1>3. w \in Workers /\ worker[w].proc = "none" /\ \A d \in Clients : client[d].w # w
  BY <1>1 DEF Unused
<1>4. client[c].pc = "evicting"
  BY DEF Evicted
<1>5. /\ old \in Workers /\ k \in Keys /\ old \notin Elems(free) /\ old \notin busy
      /\ \A d \in Clients \ {c} : client[d].w # old
  BY <1>2, <1>4, HeldFacts DEF Holders
<1>6. old # w
  BY <1>2, <1>3
<1>7. /\ worker' \in [Workers -> WorkerStates]
      /\ worker'[w].proc = "starting" /\ worker'[w].key = k /\ worker'[old].proc = "none"
      /\ \A x \in Workers \ {w, old} : worker'[x] = worker[x]
  <2>1. /\ Boots(w, k) \in [Workers -> WorkerStates]
        /\ Boots(w, k)[w].proc = "starting" /\ Boots(w, k)[w].key = k
        /\ \A x \in Workers \ {w} : Boots(w, k)[x] = worker[x]
    BY <1>3, <1>5 DEF Boots, WorkerStates, Base, TypesOK
  <2>2. worker' = [Boots(w, k) EXCEPT ![old] = NoWorker]
    BY <1>1, <1>2
  <2> QED
    BY <1>3, <1>5, <1>6, <2>1, <2>2, NoWorkerFacts
<1>8. to \in ClientStates /\ ShapeOK(to) /\ to.pc = "starting" /\ to.w = w /\ to.key = k
  BY <1>3, <1>5 DEF ClientStates, ClientPCs, ShapeOK, Holders
<1>9. client' = [client EXCEPT ![c] = to]
  BY <1>1, <1>2 DEF Moved
<1> HIDE DEF to
<1>10. free' = free /\ busy' = busy /\ waiters' = waiters
  BY DEF Evicted
<1>11. Step(c, to)
  BY <1>4, <1>8, <1>9, <1>10, QuietStep DEF Base, TypesOK
<1>12. TypesOK'
  BY <1>7, <1>10, <1>11 DEF Step, TypesOK, Base
<1>13. ClientsOK'
  BY <1>8, <1>11, StepShape
<1>14. HoldOK(to)'
  BY <1>7, <1>8 DEF HoldOK
<1>15. HoldsOK'
  BY <1>3, <1>5, <1>7, <1>8, <1>10, <1>11, <1>14, StepHolds
<1>16. \A x \in busy' : \E d \in Clients : client'[d].pc = "leased" /\ client'[d].w = x
  BY <1>4, <1>8, <1>10, <1>11, StepLeases
<1>17. w \notin Elems(free) /\ w \notin busy
  BY <1>3 DEF Base, PoolOK
<1>18. PoolOK'
  <2>1. \A x \in Workers : worker'[x].proc = "none" \/ worker'[x].key \in Keys
    BY <1>5, <1>7 DEF Base, PoolOK
  <2>2. \A x \in Workers : worker'[x].proc = "up" <=> x \in Elems(free) \/ x \in busy
    BY <1>5, <1>7, <1>17 DEF Base, PoolOK
  <2>3. \A x \in Elems(free) : x \in Workers /\ worker'[x] = worker[x]
    BY <1>5, <1>7, <1>17, FreeUnheld
  <2> QED
    BY <1>10, <1>16, <2>1, <2>2, <2>3 DEF Base, PoolOK, Elems
<1>19. \A x \in Pool : worker'[x] = worker[x]
  BY <1>5, <1>7, <1>17, FreeUnheld DEF Pool, Base, TypesOK
<1> QED
  BY <1>2, <1>3, <1>11, <1>12, <1>13, <1>15, <1>18, <1>19 DEF to, Base, Step

\* The new worker joins _busy under the key it was started for
\* (pantograph_manager.py:184-189).
LEMMA StartedKeeps ==
    ASSUME Base, NEW c \in Clients, Started(c)
    PROVE  /\ Step(c, [pc |-> "leased", key |-> client[c].key, w |-> client[c].w])
           /\ Notifies(c)
           /\ client[c].w \in Workers /\ client[c].w \notin Pool
           /\ worker[client[c].w].key = client[c].key
           /\ \A x \in Workers : worker'[x].key = worker[x].key
           /\ Base'
<1>1. PICK w, k : w = client[c].w /\ k = client[c].key
  OBVIOUS
<1> DEFINE to == [pc |-> "leased", key |-> k, w |-> w]
<1>2. /\ client[c].pc = "starting" /\ free' = free /\ busy' = busy \cup {w}
      /\ worker' = [worker EXCEPT ![w].proc = "up"]
      /\ NotifyInto(1, waiters, [client EXCEPT ![c] = to])
  BY <1>1 DEF Started, Moved
<1>3. /\ w \in Workers /\ k \in Keys /\ w \notin Elems(free) /\ w \notin busy
      /\ worker[w].key = k
      /\ \A d \in Clients \ {c} : client[d].w # w
  BY <1>1, <1>2, HeldFacts DEF Holders, HoldOK
<1>4. /\ worker' \in [Workers -> WorkerStates]
      /\ worker'[w].proc = "up" /\ worker'[w].key = k
      /\ \A x \in Workers \ {w} : worker'[x] = worker[x]
  BY <1>2, <1>3 DEF WorkerStates, Base, TypesOK
<1>5. to \in ClientStates /\ ShapeOK(to) /\ to.pc = "leased" /\ to.w = w /\ to.key = k
  BY <1>3 DEF ClientStates, ClientPCs, ShapeOK, Holders
<1> HIDE DEF to
<1>6. Step(c, to) /\ Notifies(c)
  BY <1>2, <1>5, NotifyFromOutside
<1>7. TypesOK'
  BY <1>2, <1>3, <1>4, <1>6 DEF Step, TypesOK, Base
<1>8. ClientsOK'
  BY <1>5, <1>6, StepShape
<1>9. HoldOK(to)'
  BY <1>2, <1>3, <1>4, <1>5 DEF HoldOK
<1>10. HoldsOK'
  BY <1>2, <1>3, <1>4, <1>5, <1>6, <1>9, StepHolds
<1>11. \A x \in busy' : \E d \in Clients : client'[d].pc = "leased" /\ client'[d].w = x
  BY <1>2, <1>5, <1>6, StepLeases
<1>12. PoolOK'
  <2>1. \A x \in Workers : worker'[x].proc = "none" \/ worker'[x].key \in Keys
    BY <1>3, <1>4 DEF Base, PoolOK
  <2>2. \A x \in Workers : worker'[x].proc = "up" <=> x \in Elems(free) \/ x \in busy'
    BY <1>2, <1>3, <1>4 DEF Base, PoolOK
  <2>3. \A x \in Elems(free) : x \in Workers /\ worker'[x] = worker[x]
    BY <1>3, <1>4, FreeUnheld
  <2> QED
    BY <1>2, <1>3, <1>11, <2>1, <2>2, <2>3 DEF Base, PoolOK, Elems
<1> QED
  BY <1>1, <1>3, <1>4, <1>6, <1>7, <1>8, <1>10, <1>12 DEF to, Base, Step, Pool

\* A process outside the pool ends: its slot becomes free, nobody else held it.
LEMMA ProcessGone ==
    ASSUME Base, NEW c \in Clients, NEW w \in Workers, w \notin Elems(free),
           NEW to \in ClientStates, Step(c, to), ShapeOK(to), to.pc \notin Holders,
           \A d \in Clients \ {c} : client[d].w # w,
           client[c].pc = "leased" => client[c].w = w,
           free' = free, busy' = busy \ {w}, worker' = [worker EXCEPT ![w] = NoWorker]
    PROVE  Base' /\ \A x \in Workers \ {w} : worker'[x] = worker[x]
<1>1. /\ worker' \in [Workers -> WorkerStates] /\ worker'[w].proc = "none"
      /\ \A x \in Workers \ {w} : worker'[x] = worker[x]
  BY NoWorkerFacts DEF Base, TypesOK
<1>2. TypesOK'
  BY <1>1 DEF Step, TypesOK, Base
<1>3. ClientsOK'
  BY StepShape
<1>4. HoldOK(to)' /\ to.w = None
  BY DEF HoldOK, Holders, ShapeOK, ClientStates, ClientPCs
<1>5. HoldsOK'
  BY <1>1, <1>4, StepHolds
<1>6. \A x \in busy' : \E d \in Clients : client'[d].pc = "leased" /\ client'[d].w = x
  BY StepLeases
<1>7. PoolOK'
  <2>1. \A x \in Workers : worker'[x].proc = "none" \/ worker'[x].key \in Keys
    BY <1>1 DEF Base, PoolOK
  <2>2. \A x \in Workers : worker'[x].proc = "up" <=> x \in Elems(free) \/ x \in busy'
    BY <1>1 DEF Base, PoolOK
  <2>3. \A x \in Elems(free) : x \in Workers /\ worker'[x] = worker[x]
    BY <1>1, FreeUnheld
  <2> QED
    BY <1>6, <2>1, <2>2, <2>3 DEF Base, PoolOK, Elems
<1> QED
  BY <1>1, <1>2, <1>3, <1>5, <1>7 DEF Base, Step

\* A leased worker leaves the pool and starts to close.
LEMMA LeaseCloses ==
    ASSUME Base, NEW c \in Clients, client[c].pc = "leased",
           NEW w, NEW k, w = client[c].w, k = client[c].key, w \in busy,
           free' = free, busy' = busy \ {w},
           worker' = [worker EXCEPT ![w].proc = "closing"],
           NotifyInto(1, waiters, Moved(c, "closing", k, w))
    PROVE  /\ Base'
           /\ Step(c, [pc |-> "closing", key |-> k, w |-> w])
           /\ Notifies(c)
           /\ \A x \in Workers \ {w} : worker'[x] = worker[x]
<1> DEFINE to == [pc |-> "closing", key |-> k, w |-> w]
<1>1. NotifyInto(1, waiters, [client EXCEPT ![c] = to])
  BY DEF Moved
<1>2. /\ w \in Workers /\ k \in Keys /\ w \notin Elems(free)
      /\ worker[w].proc = "up" /\ worker[w].key = k
      /\ \A d \in Clients \ {c} : client[d].w # w
  BY HeldFacts DEF Holders, HoldOK, Base, PoolOK
<1>3. /\ worker' \in [Workers -> WorkerStates]
      /\ worker'[w].proc = "closing" /\ worker'[w].key = k
      /\ \A x \in Workers \ {w} : worker'[x] = worker[x]
  BY <1>2 DEF WorkerStates, Base, TypesOK
<1>4. to \in ClientStates /\ ShapeOK(to) /\ to.pc = "closing" /\ to.w = w /\ to.key = k
  BY <1>2 DEF ClientStates, ClientPCs, ShapeOK, Holders
<1> HIDE DEF to
<1>5. Step(c, to) /\ Notifies(c)
  BY <1>1, <1>4, NotifyFromOutside
<1>6. TypesOK'
  BY <1>3, <1>5 DEF Step, TypesOK, Base
<1>7. ClientsOK'
  BY <1>4, <1>5, StepShape
<1>8. HoldOK(to)'
  BY <1>3, <1>4 DEF HoldOK
<1>9. HoldsOK'
  BY <1>2, <1>3, <1>4, <1>5, <1>8, StepHolds
<1>10. \A x \in busy' : \E d \in Clients : client'[d].pc = "leased" /\ client'[d].w = x
  BY <1>4, <1>5, StepLeases
<1>11. PoolOK'
  <2>1. \A x \in Workers : worker'[x].proc = "none" \/ worker'[x].key \in Keys
    BY <1>2, <1>3 DEF Base, PoolOK
  <2>2. \A x \in Workers : worker'[x].proc = "up" <=> x \in Elems(free) \/ x \in busy'
    BY <1>2, <1>3 DEF Base, PoolOK
  <2>3. \A x \in Elems(free) : x \in Workers /\ worker'[x] = worker[x]
    BY <1>2, <1>3, FreeUnheld
  <2> QED
    BY <1>10, <2>1, <2>2, <2>3 DEF Base, PoolOK, Elems
<1> QED
  BY <1>3, <1>5, <1>6, <1>7, <1>9, <1>11 DEF to, Base, Step

\* The factory raised (pantograph_manager.py:177-182).
LEMMA StartFailsKeeps ==
    ASSUME Base, NEW c \in Clients, StartFails(c)
    PROVE  /\ Base' /\ Step(c, NoClient) /\ Notifies(c)
           /\ \A x \in Pool : worker'[x] = worker[x]
<1>1. PICK w : w = client[c].w
  OBVIOUS
<1>2. /\ client[c].pc = "starting" /\ free' = free /\ busy' = busy
      /\ worker' = [worker EXCEPT ![w] = NoWorker]
      /\ NotifyInto(1, waiters, [client EXCEPT ![c] = NoClient])
  BY <1>1 DEF StartFails
<1>3. /\ w \in Workers /\ w \notin Elems(free) /\ w \notin busy
      /\ \A d \in Clients \ {c} : client[d].w # w
  BY <1>1, <1>2, HeldFacts DEF Holders
<1>4. Step(c, NoClient) /\ Notifies(c)
  BY <1>2, NoClientShape, NotifyFromOutside
<1>5. busy' = busy \ {w} /\ NoClient.pc \notin Holders
  BY <1>2, <1>3, NoClientShape DEF Holders
<1>6. Base' /\ \A x \in Workers \ {w} : worker'[x] = worker[x]
  BY <1>2, <1>3, <1>4, <1>5, NoClientShape, ProcessGone
<1>7. \A x \in Pool : worker'[x] = worker[x]
  BY <1>3, <1>6, FreeUnheld DEF Pool, Base, TypesOK
<1> QED
  BY <1>4, <1>6, <1>7

\* A lease that cleanup() has taken away is released
\* (pantograph_manager.py:196-198).
LEMMA ReleaseUnknownKeeps ==
    ASSUME Base, NEW c \in Clients, ReleaseUnknown(c)
    PROVE  Base' /\ Step(c, NoClient)
<1>1. /\ client[c].pc = "leased" /\ client[c].w \notin busy
      /\ client' = [client EXCEPT ![c] = NoClient] /\ waiters' = waiters
      /\ free' = free /\ busy' = busy /\ worker' = worker
  BY DEF ReleaseUnknown
<1>2. Step(c, NoClient)
  BY <1>1, NoClientShape, QuietStep DEF Base, TypesOK
<1>3. Base'
  BY <1>1, <1>2, NoClientShape, PoolUntouched DEF Holders
<1> QED
  BY <1>2, <1>3

\* A lease goes back to the end of the idle list
\* (pantograph_manager.py:199-206).
LEMMA ReleaseKeeps ==
    ASSUME Base, NEW c \in Clients, Release(c)
    PROVE  /\ Base' /\ Step(c, NoClient) /\ Notifies(c)
           /\ client[c].w \in busy /\ busy' = busy \ {client[c].w}
           /\ Len(free') = Len(free) + 1
           /\ Elems(free') = Elems(free) \cup {client[c].w}
           /\ \A x \in Workers : worker'[x].key = worker[x].key
<1>1. PICK w : w = client[c].w
  OBVIOUS
<1>2. /\ client[c].pc = "leased" /\ w \in busy /\ ~Exhausted(w)
      /\ free' = Append(free, w) /\ busy' = busy \ {w}
      /\ worker' = [worker EXCEPT ![w].uses = @ + 1]
      /\ NotifyInto(1, waiters, [client EXCEPT ![c] = NoClient])
  BY <1>1 DEF Release
<1>3. /\ w \in Workers /\ w \notin Elems(free)
      /\ worker[w].proc = "up" /\ worker[w].key \in Keys
      /\ \A d \in Clients \ {c} : client[d].w # w
  BY <1>1, <1>2, HeldFacts DEF Holders, Base, PoolOK
<1>4. /\ worker' \in [Workers -> WorkerStates]
      /\ worker'[w].proc = "up" /\ worker'[w].key = worker[w].key
      /\ worker[w].uses \in Nat /\ worker'[w].uses = worker[w].uses + 1
      /\ \A x \in Workers \ {w} : worker'[x] = worker[x]
  BY <1>2, <1>3 DEF WorkerStates, Base, TypesOK
<1>5. /\ free' \in Seq(Workers) /\ Len(free') = Len(free) + 1
      /\ Elems(free') = Elems(free) \cup {w}
      /\ \A m, n \in DOMAIN free' : free'[m] = free'[n] => m = n
  BY <1>2, <1>3, AppendFacts DEF Base, TypesOK, PoolOK
<1>6. Step(c, NoClient) /\ Notifies(c)
  BY <1>2, NoClientShape, NotifyFromOutside
<1>7. TypesOK'
  BY <1>2, <1>4, <1>5, <1>6 DEF Step, TypesOK, Base
<1>8. ClientsOK'
  BY <1>6, NoClientShape, StepShape
<1>9. HoldOK(NoClient)' /\ NoClient.w = None
  BY NoClientShape DEF HoldOK, NoClient
<1>10. Elems(free') \subseteq Elems(free) \cup {client[c].w}
  BY <1>1, <1>5
<1>11. HoldsOK'
  BY <1>3, <1>4, <1>6, <1>9, <1>10, NoClientShape, StepHolds
<1>12. \A x \in busy' : \E d \in Clients : client'[d].pc = "leased" /\ client'[d].w = x
  BY <1>1, <1>2, <1>6, NoClientShape, StepLeases
<1>13. PoolOK'
  <2>1. \A x \in Workers : worker'[x].proc = "none" \/ worker'[x].key \in Keys
    BY <1>3, <1>4 DEF Base, PoolOK
  <2>2. \A x \in Workers : worker'[x].proc = "up" <=> x \in Elems(free') \/ x \in busy'
    BY <1>2, <1>3, <1>4, <1>5 DEF Base, PoolOK
  <2>3. MaxUses >= 0 => worker'[w].uses < MaxUses
    BY <1>2, <1>4, PoolAssumption DEF Exhausted
  <2>4. \A x \in Elems(free) : x \in Workers /\ worker'[x] = worker[x]
    BY <1>3, <1>4, FreeUnheld
  <2>5. MaxUses >= 0 => \A x \in Elems(free') : worker'[x].uses < MaxUses
    BY <1>5, <2>3, <2>4 DEF Base, PoolOK
  <2>6. Elems(free') \cap busy' = {}
    BY <1>2, <1>5 DEF Base, PoolOK
  <2> QED
    BY <1>5, <1>12, <2>1, <2>2, <2>5, <2>6 DEF PoolOK, Elems
<1> QED
  BY <1>1, <1>2, <1>4, <1>5, <1>6, <1>7, <1>8, <1>11, <1>13 DEF Base, Step

\* A worn-out lease leaves the pool (pantograph_manager.py:199-210).
LEMMA ReleaseExhaustedKeeps ==
    ASSUME Base, NEW c \in Clients, ReleaseExhausted(c)
    PROVE  /\ Base' /\ Step(c, [pc |-> "closing", key |-> client[c].key, w |-> client[c].w])
           /\ Notifies(c)
           /\ client[c].w \in busy /\ busy' = busy \ {client[c].w} /\ free' = free
           /\ \A x \in Workers \ {client[c].w} : worker'[x] = worker[x]
<1>1. /\ client[c].pc = "leased" /\ client[c].w \in busy
      /\ free' = free /\ busy' = busy \ {client[c].w}
      /\ worker' = [worker EXCEPT ![client[c].w].proc = "closing"]
      /\ NotifyInto(1, waiters, Moved(c, "closing", client[c].key, client[c].w))
  BY DEF ReleaseExhausted
<1> QED
  BY <1>1, LeaseCloses

\* destroy_worker (pantograph_manager.py:266-277).
LEMMA DestroyKeeps ==
    ASSUME Base, NEW c \in Clients, NEW alive \in BOOLEAN, Destroy(c, alive)
    PROVE  /\ Base' /\ Notifies(c)
           /\ \/ Step(c, NoClient)
              \/ Step(c, [pc |-> "closing", key |-> client[c].key, w |-> client[c].w])
           /\ busy' = busy \ {client[c].w} /\ free' = free
           /\ \A x \in Workers \ {client[c].w} : worker'[x] = worker[x]
<1>1. client[c].pc = "leased" /\ free' = free /\ busy' = busy \ {client[c].w}
  BY DEF Destroy
<1>2. CASE client[c].w \in busy /\ alive
  <2>1. /\ worker' = [worker EXCEPT ![client[c].w].proc = "closing"]
        /\ NotifyInto(1, waiters, Moved(c, "closing", client[c].key, client[c].w))
    BY <1>2 DEF Destroy
  <2> QED
    BY <1>1, <1>2, <2>1, LeaseCloses
<1>3. CASE client[c].w \in busy /\ ~alive
  <2>1. PICK w : w = client[c].w
    OBVIOUS
  <2>2. /\ worker' = [worker EXCEPT ![w] = NoWorker]
        /\ NotifyInto(1, waiters, [client EXCEPT ![c] = NoClient])
    BY <1>3, <2>1 DEF Destroy
  <2>3. /\ w \in Workers /\ w \notin Elems(free)
        /\ \A d \in Clients \ {c} : client[d].w # w
    BY <1>1, <2>1, HeldFacts DEF Holders
  <2>4. Step(c, NoClient) /\ Notifies(c)
    BY <1>1, <2>2, NoClientShape, NotifyFromOutside
  <2>5. NoClient.pc \notin Holders
    BY NoClientShape DEF Holders
  <2>6. Base' /\ \A x \in Workers \ {w} : worker'[x] = worker[x]
    BY <1>1, <2>1, <2>2, <2>3, <2>4, <2>5, NoClientShape, ProcessGone
  <2> QED
    BY <1>1, <2>1, <2>4, <2>6
<1>4. CASE client[c].w \notin busy
  <2>1. worker' = worker /\ busy' = busy
        /\ NotifyInto(1, waiters, [client EXCEPT ![c] = NoClient])
    BY <1>1, <1>4 DEF Destroy
  <2>2. Step(c, NoClient) /\ Notifies(c)
    BY <1>1, <2>1, NoClientShape, NotifyFromOutside
  <2>3. NoClient.pc \notin Holders
    BY NoClientShape DEF Holders
  <2>4. Base'
    BY <1>1, <1>4, <2>1, <2>2, <2>3, NoClientShape, PoolUntouched
  <2> QED
    BY <1>1, <2>1, <2>2, <2>4
<1> QED
  BY <1>2, <1>3, <1>4

\* The close that release_worker or destroy_worker awaited has ended
\* (pantograph_manager.py:208-210, 276-277).
LEMMA ClosedKeeps ==
    ASSUME Base, NEW c \in Clients, Closed(c)
    PROVE  /\ Base' /\ Step(c, NoClient)
           /\ \A x \in Pool : worker'[x] = worker[x]
<1>1. PICK w : w = client[c].w
  OBVIOUS
<1>2. /\ client[c].pc = "closing" /\ free' = free /\ busy' = busy /\ waiters' = waiters
      /\ worker' = [worker EXCEPT ![w] = NoWorker]
      /\ client' = [client EXCEPT ![c] = NoClient]
  BY <1>1 DEF Closed
<1>3. /\ w \in Workers /\ w \notin Elems(free) /\ w \notin busy
      /\ \A d \in Clients \ {c} : client[d].w # w
  BY <1>1, <1>2, HeldFacts DEF Holders
<1>4. Step(c, NoClient)
  BY <1>2, NoClientShape, QuietStep DEF Base, TypesOK
<1>5. busy' = busy \ {w} /\ NoClient.pc \notin Holders
  BY <1>2, <1>3, NoClientShape DEF Holders
<1>6. Base' /\ \A x \in Workers \ {w} : worker'[x] = worker[x]
  BY <1>2, <1>3, <1>4, <1>5, NoClientShape, ProcessGone
<1>7. \A x \in Pool : worker'[x] = worker[x]
  BY <1>3, <1>6, FreeUnheld DEF Pool, Base, TypesOK
<1> QED
  BY <1>4, <1>6, <1>7

\* cleanup() empties the pool and wakes everybody
\* (pantograph_manager.py:279-286); it changes no client's lease.
LEMMA CleanupKeeps ==
    ASSUME Base, Cleanup
    PROVE  /\ Base' /\ waiters' = <<>> /\ free' = <<>> /\ busy' = {}
           /\ \A d \in Clients : Same(d)
<1>1. /\ free' = <<>> /\ busy' = {}
      /\ worker' = [w \in Workers |-> IF w \in Elems(free) \cup busy
                                      THEN [worker[w] EXCEPT !.proc = "closing"]
                                      ELSE worker[w]]
      /\ NotifyInto(Len(waiters), waiters, client)
  BY DEF Cleanup
<1>2. waiters \in Seq(Clients) /\ client \in [Clients -> ClientStates] /\ Len(waiters) \in Nat
  BY DEF Base, TypesOK, ClientTypes
<1>3. /\ ClientTypes' /\ LineOK' /\ waiters' = <<>>
      /\ \A d \in Clients : Same(d)
      /\ \A d \in Clients : client[d].pc # "waiting" => client'[d] = client[d]
  BY <1>1, <1>2, NotifyFacts DEF Base, LineOK, Same
<1>4. ASSUME NEW w \in Workers
      PROVE  /\ worker'[w] \in WorkerStates
             /\ worker'[w].key = worker[w].key
             /\ worker'[w].proc # "up"
             /\ worker[w].proc # "up" => worker'[w] = worker[w]
             /\ worker[w].proc = "up" => worker'[w].proc = "closing"
  <2>1. worker[w] \in WorkerStates
    BY DEF Base, TypesOK
  <2>2. worker[w].proc = "up" <=> w \in Elems(free) \cup busy
    BY DEF Base, PoolOK
  <2>3. CASE w \in Elems(free) \cup busy
    BY <1>1, <2>1, <2>2, <2>3 DEF WorkerStates
  <2>4. CASE w \notin Elems(free) \cup busy
    BY <1>1, <2>1, <2>2, <2>4 DEF WorkerStates
  <2> QED
    BY <2>3, <2>4
<1>5. worker' \in [Workers -> WorkerStates]
  BY <1>1, <1>4
<1>6. free' \in Seq(Workers) /\ Elems(free') = {} /\ DOMAIN free' = {}
  BY <1>1 DEF Elems
<1>7. TypesOK'
  BY <1>1, <1>3, <1>5, <1>6 DEF TypesOK
<1>8. ClientsOK'
  BY <1>3 DEF Base, ClientsOK, ShapeOK, Same, Holders
<1>9. ASSUME NEW d \in Clients PROVE HoldOK(client[d])'
  <2>1. CASE client[d].pc \notin Holders
    BY <1>3, <2>1 DEF HoldOK, Holders, Same
  <2>2. CASE client[d].pc \in Holders
    <3>1. client[d].w \in Workers /\ HoldOK(client[d])
      BY <2>2, HeldFacts
    <3>2. client'[d] = client[d]
      BY <1>3, <2>2 DEF Holders
    <3>3. client[d].w \notin Elems(free')
      BY <1>6
    <3> QED
      BY <1>4, <3>1, <3>2, <3>3 DEF HoldOK, Elems
  <2> QED
    BY <2>1, <2>2
<1>10. HoldsOK'
  BY <1>3, <1>9 DEF HoldsOK, Base, Same
<1>11. PoolOK'
  <2>1. \A w \in Workers : worker'[w].proc = "none" \/ worker'[w].key \in Keys
    BY <1>4 DEF Base, PoolOK
  <2> QED
    BY <1>1, <1>4, <1>6, <2>1 DEF PoolOK, Elems
<1> QED
  BY <1>1, <1>3, <1>7, <1>8, <1>10, <1>11 DEF Base

\* A close that cleanup() gathers has ended (pantograph_manager.py:287).
LEMMA CleanupClosedKeeps ==
    ASSUME Base, NEW w \in Workers, CleanupClosed(w)
    PROVE  Base' /\ \A x \in Pool : worker'[x] = worker[x]
<1>1. /\ worker[w].proc = "closing"
      /\ \A c \in At({"evicting", "closing"}) : client[c].w # w
      /\ worker' = [worker EXCEPT ![w] = NoWorker]
      /\ free' = free /\ busy' = busy /\ waiters' = waiters /\ client' = client
  BY DEF CleanupClosed
<1>2. /\ worker' \in [Workers -> WorkerStates] /\ worker'[w].proc = "none"
      /\ \A x \in Workers \ {w} : worker'[x] = worker[x]
  BY <1>1, NoWorkerFacts DEF Base, TypesOK
<1>3. w \notin Elems(free) /\ w \notin busy
  BY <1>1 DEF Base, PoolOK
<1>4. TypesOK' /\ LineOK' /\ ClientsOK'
  BY <1>1, <1>2 DEF TypesOK, Base, ClientTypes, LineOK, ClientsOK
<1>5. ASSUME NEW d \in Clients PROVE HoldOK(client[d])'
  <2>1. HoldOK(client[d]) /\ ShapeOK(client[d])
    BY DEF Base, HoldsOK, ClientsOK
  <2>2. client[d].pc \in {"evicting", "closing"} => client[d].w # w
    BY <1>1 DEF At
  <2> QED
    BY <1>1, <1>2, <2>1, <2>2 DEF HoldOK, ShapeOK, Elems, Holders
<1>6. HoldsOK'
  BY <1>1, <1>5 DEF HoldsOK, Base
<1>7. PoolOK'
  <2>1. \A x \in Workers : worker'[x].proc = "none" \/ worker'[x].key \in Keys
    BY <1>2 DEF Base, PoolOK
  <2>2. \A x \in Workers : worker'[x].proc = "up" <=> x \in Elems(free) \/ x \in busy
    BY <1>1, <1>2 DEF Base, PoolOK
  <2>3. \A x \in Elems(free) : x \in Workers /\ worker'[x] = worker[x]
    BY <1>2, <1>3, FreeUnheld
  <2> QED
    BY <1>1, <2>1, <2>2, <2>3 DEF Base, PoolOK, Elems
<1> QED
  BY <1>2, <1>3, <1>4, <1>6, <1>7, FreeUnheld DEF Base, Pool, TypesOK

---------------------------------------------------------------------------
\* Counting starts

\* Where a client has reserved a start.
Reserved == {"evicting", "starting"}

OfProfile(p) == {w \in Pool : HasProfile(w, p)}
Notified == At({"notified"})

\* Both counters of starts are exact.
StartsExact ==
    /\ starting = Cardinality(Starting)
    /\ starting_by \in [Profiles -> Nat]
    /\ \A p \in Profiles : starting_by[p] = Cardinality(StartersOf(p))

\* The limits are among those considered.
SettingsOK == <<max_workers, profile_cap>> \in Limits

\* The sets that are counted are finite.
LEMMA Finite ==
    /\ \A S : S \subseteq Clients => IsFiniteSet(S) /\ Cardinality(S) \in Nat
    /\ \A S : S \subseteq Workers => IsFiniteSet(S) /\ Cardinality(S) \in Nat
BY FS_Subset, FS_CardinalityType, PoolAssumption

\* Whom and what the counts range over.
LEMMA Subsets ==
    /\ Starting \subseteq Clients /\ Starting' \subseteq Clients
    /\ Notified \subseteq Clients /\ Notified' \subseteq Clients
    /\ \A p : StartersOf(p) \subseteq Starting /\ StartersOf(p)' \subseteq Starting'
    /\ \A p : OfProfile(p) \subseteq Pool /\ OfProfile(p)' \subseteq Pool'
BY DEF Starting, StartersOf, OfProfile, Notified, At

\* The pool's collections hold workers only.
LEMMA PoolSubset == ASSUME TypesOK PROVE Pool \subseteq Workers /\ busy \subseteq Workers
BY DEF TypesOK, Pool, Elems

\* The pool's limits are numbers (pantograph_manager.py:76-83).
LEMMA SettingsFacts ==
    ASSUME SettingsOK
    PROVE  max_workers \in Nat /\ profile_cap \in Int
BY PoolAssumption DEF SettingsOK

\* Counting with one element more or less.
LEMMA OneMore ==
    ASSUME NEW S, IsFiniteSet(S), NEW x
    PROVE  /\ IsFiniteSet(S \cup {x}) /\ IsFiniteSet(S \ {x})
           /\ Cardinality(S) \in Nat
           /\ x \notin S => Cardinality(S \cup {x}) = Cardinality(S) + 1
           /\ x \in S => Cardinality(S \cup {x}) = Cardinality(S)
           /\ x \in S => Cardinality(S \ {x}) = Cardinality(S) - 1 /\ Cardinality(S) > 0
           /\ x \notin S => Cardinality(S \ {x}) = Cardinality(S)
<1>1. /\ IsFiniteSet(S \cup {x}) /\ IsFiniteSet(S \ {x})
      /\ Cardinality(S) \in Nat /\ Cardinality(S \ {x}) \in Nat
  BY FS_AddElement, FS_RemoveElement, FS_CardinalityType
<1>2. x \notin S => Cardinality(S \cup {x}) = Cardinality(S) + 1
  BY FS_AddElement
<1>3. x \in S => Cardinality(S \ {x}) = Cardinality(S) - 1
  BY FS_RemoveElement
<1>4. (x \in S => S \cup {x} = S) /\ (x \notin S => S \ {x} = S)
  OBVIOUS
<1> QED
  BY <1>1, <1>2, <1>3, <1>4

---------------------------------------------------------------------------
\* The clients with a reserved start, after a client's move.
LEMMA StartersStep ==
    ASSUME NEW c \in Clients, NEW to, Step(c, to)
    PROVE  /\ Starting' = IF to.pc \in Reserved THEN Starting \cup {c} ELSE Starting \ {c}
           /\ \A p : StartersOf(p)' = IF to.pc \in Reserved /\ ProfileOf[to.key] = p
                                      THEN StartersOf(p) \cup {c} ELSE StartersOf(p) \ {c}
<1>1. client'[c] = to /\ \A d \in Clients \ {c} :
         /\ client'[d].key = client[d].key
         /\ client'[d].pc \in Reserved <=> client[d].pc \in Reserved
  BY DEF Step, Same, Reserved
<1>2. Starting = {d \in Clients : client[d].pc \in Reserved}
      /\ Starting' = {d \in Clients : client'[d].pc \in Reserved}
  BY DEF Starting, Reserved
<1>3. Starting' = IF to.pc \in Reserved THEN Starting \cup {c} ELSE Starting \ {c}
  BY <1>1, <1>2
<1>4. ASSUME NEW p
      PROVE  StartersOf(p)' = IF to.pc \in Reserved /\ ProfileOf[to.key] = p
                              THEN StartersOf(p) \cup {c} ELSE StartersOf(p) \ {c}
  <2>1. /\ StartersOf(p) = {d \in Clients : client[d].pc \in Reserved /\ ProfileOf[client[d].key] = p}
        /\ StartersOf(p)' = {d \in Clients : client'[d].pc \in Reserved /\ ProfileOf[client'[d].key] = p}
    BY <1>2 DEF StartersOf
  <2> QED
    BY <1>1, <2>1
<1> QED
  BY <1>3, <1>4

\* A start is reserved.
LEMMA StartReserved ==
    ASSUME StartsExact, NEW c \in Clients, NEW to, Step(c, to),
           client[c].pc \notin Reserved, to.pc \in Reserved, to.key \in Keys,
           MarkStarting(ProfileOf[to.key])
    PROVE  /\ StartsExact' /\ starting' = starting + 1
           /\ starting_by'[ProfileOf[to.key]] = starting_by[ProfileOf[to.key]] + 1
           /\ \A p \in Profiles \ {ProfileOf[to.key]} : starting_by'[p] = starting_by[p]
<1> DEFINE q == ProfileOf[to.key]
<1>1. q \in Profiles
  BY PoolAssumption
<1>2. /\ starting' = starting + 1
      /\ starting_by' = [starting_by EXCEPT ![q] = @ + 1]
  BY DEF MarkStarting
<1>3. c \notin Starting /\ \A p : c \notin StartersOf(p)
  BY DEF Starting, StartersOf, Reserved
<1>4. /\ Starting' = Starting \cup {c}
      /\ \A p : StartersOf(p)' = IF q = p THEN StartersOf(p) \cup {c} ELSE StartersOf(p)
  BY <1>3, StartersStep
<1> HIDE DEF q
<1>5. Cardinality(Starting') = Cardinality(Starting) + 1
  BY <1>3, <1>4, Finite, Subsets, OneMore
<1>6. \A p : IsFiniteSet(StartersOf(p)) /\ Cardinality(StartersOf(p)) \in Nat
  BY Finite, Subsets
<1>7. \A p : Cardinality(StartersOf(p)') = Cardinality(StartersOf(p)) + (IF q = p THEN 1 ELSE 0)
  BY <1>3, <1>4, <1>6, OneMore
<1>8. \A p \in Profiles : starting_by[p] \in Nat /\ starting_by'[p] = starting_by[p] + (IF q = p THEN 1 ELSE 0)
  BY <1>1, <1>2 DEF StartsExact
<1>9. starting_by' \in [Profiles -> Nat]
  BY <1>1, <1>2 DEF StartsExact
<1>10. \A p \in Profiles : starting_by'[p] = Cardinality(StartersOf(p)')
  BY <1>7, <1>8 DEF StartsExact
<1>11. StartsExact'
  BY <1>2, <1>5, <1>9, <1>10 DEF StartsExact
<1> QED
  BY <1>1, <1>2, <1>8, <1>11 DEF q

\* A reserved start ends.
LEMMA StartSettled ==
    ASSUME StartsExact, NEW c \in Clients, NEW to, Step(c, to),
           client[c].pc \in Reserved, to.pc \notin Reserved, client[c].key \in Keys,
           UnmarkStarting(ProfileOf[client[c].key])
    PROVE  /\ StartsExact' /\ starting' = starting - 1
           /\ starting_by'[ProfileOf[client[c].key]] = starting_by[ProfileOf[client[c].key]] - 1
           /\ \A p \in Profiles \ {ProfileOf[client[c].key]} : starting_by'[p] = starting_by[p]
<1>0. PICK q : q = ProfileOf[client[c].key]
  OBVIOUS
<1>1. q \in Profiles
  BY <1>0, PoolAssumption
<1>2. /\ starting' = starting - 1
      /\ starting_by' = [starting_by EXCEPT ![q] = IF @ <= 1 THEN 0 ELSE @ - 1]
  BY <1>0 DEF UnmarkStarting
<1>3. c \in Starting /\ \A p : c \in StartersOf(p) <=> p = q
  BY <1>0 DEF Starting, StartersOf, Reserved
<1>4. /\ Starting' = Starting \ {c}
      /\ \A p : StartersOf(p)' = StartersOf(p) \ {c}
  BY StartersStep
<1>5. Cardinality(Starting') = Cardinality(Starting) - 1
  BY <1>3, <1>4, Finite, Subsets, OneMore
<1>6. \A p : IsFiniteSet(StartersOf(p)) /\ Cardinality(StartersOf(p)) \in Nat
  BY Finite, Subsets
<1>7. /\ \A p : Cardinality(StartersOf(p)') = Cardinality(StartersOf(p)) - (IF q = p THEN 1 ELSE 0)
      /\ Cardinality(StartersOf(q)) > 0
  <2>1. \A p : p # q => StartersOf(p)' = StartersOf(p)
    BY <1>3, <1>4
  <2>2. /\ Cardinality(StartersOf(q)') = Cardinality(StartersOf(q)) - 1
        /\ Cardinality(StartersOf(q)) > 0
    BY <1>3, <1>4, <1>6, OneMore
  <2>3. ASSUME NEW p
        PROVE  Cardinality(StartersOf(p)')
                 = Cardinality(StartersOf(p)) - (IF q = p THEN 1 ELSE 0)
    <3>1. Cardinality(StartersOf(p)) \in Nat
      BY <1>6
    <3>2. CASE p = q
      BY <2>2, <3>2
    <3>3. CASE p # q
      BY <2>1, <3>1, <3>3
    <3> QED
      BY <3>2, <3>3
  <2> QED
    BY <2>2, <2>3
<1>8. starting_by[q] \in Nat /\ starting_by[q] >= 1
  BY <1>1, <1>6, <1>7 DEF StartsExact
<1>9. starting_by' = [starting_by EXCEPT ![q] = starting_by[q] - 1]
  <2>1. (IF starting_by[q] <= 1 THEN 0 ELSE starting_by[q] - 1) = starting_by[q] - 1
    BY <1>8
  <2> QED
    BY <1>2, <2>1, Zenon
<1>10. \A p \in Profiles : starting_by[p] \in Nat /\ starting_by'[p] = starting_by[p] - (IF q = p THEN 1 ELSE 0)
  BY <1>1, <1>9 DEF StartsExact
<1>11. starting_by' \in [Profiles -> Nat]
  BY <1>1, <1>8, <1>9 DEF StartsExact
<1>12. \A p \in Profiles : starting_by'[p] = Cardinality(StartersOf(p)')
  BY <1>7, <1>10 DEF StartsExact
<1>13. StartsExact'
  BY <1>2, <1>5, <1>11, <1>12 DEF StartsExact
<1> QED
  BY <1>0, <1>1, <1>2, <1>10, <1>13

\* No start is reserved or ends.
LEMMA StartsKept ==
    ASSUME StartsExact, NEW c \in Clients, NEW to, Step(c, to),
           client[c].pc \in Reserved <=> to.pc \in Reserved,
           client[c].pc \in Reserved => client[c].key = to.key,
           UNCHANGED starts
    PROVE  StartsExact'
<1>1. /\ Starting' = IF to.pc \in Reserved THEN Starting \cup {c} ELSE Starting \ {c}
      /\ \A p : StartersOf(p)' = IF to.pc \in Reserved /\ ProfileOf[to.key] = p
                                 THEN StartersOf(p) \cup {c} ELSE StartersOf(p) \ {c}
  BY StartersStep
<1>2. /\ c \in Starting <=> to.pc \in Reserved
      /\ \A p : c \in StartersOf(p) <=> to.pc \in Reserved /\ ProfileOf[to.key] = p
  BY DEF Starting, StartersOf, Reserved
<1>3. Starting' = Starting /\ \A p : StartersOf(p)' = StartersOf(p)
  BY <1>1, <1>2
<1> QED
  BY <1>3 DEF StartsExact, starts

---------------------------------------------------------------------------
\* The caps and the wake-ups

\* Both caps are respected.
CapsOK ==
    /\ Total <= max_workers
    /\ \A p \in Profiles : profile_cap < 0 \/ Active(p) <= profile_cap

\* Everything the pool counts.
Ledger == SettingsOK /\ StartsExact /\ CapsOK /\ WakesOK

\* What is counted is finite.
Counted ==
    /\ Len(free) \in Nat /\ Cardinality(busy) \in Nat /\ starting \in Nat
    /\ IsFiniteSet(busy) /\ IsFiniteSet(Pool)
    /\ \A p \in Profiles : /\ IsFiniteSet(OfProfile(p)) /\ Cardinality(OfProfile(p)) \in Nat
                           /\ starting_by[p] \in Nat /\ starting_by[p] <= starting
                           /\ Active(p) = Cardinality(OfProfile(p)) + starting_by[p]
    /\ IsFiniteSet(Notified) /\ Cardinality(Notified) \in Nat

\* Everything the pool counts is finite, and a profile's starts are among all
\* starts (pantograph_manager.py:131, 217-226).
LEMMA Types == Base /\ StartsExact => Counted
<1> SUFFICES ASSUME Base, StartsExact PROVE Counted
  OBVIOUS
<1>1. Len(free) \in Nat
  BY DEF Base, TypesOK
<1>2. Pool \subseteq Workers /\ busy \subseteq Workers
  BY PoolSubset DEF Base
<1>3. \A p : OfProfile(p) \subseteq Workers
  BY <1>2, Subsets
<1>4. starting \in Nat
  BY Finite, Subsets DEF StartsExact
<1>5. ASSUME NEW p \in Profiles PROVE starting_by[p] \in Nat /\ starting_by[p] <= starting
  <2>1. StartersOf(p) \subseteq Starting /\ IsFiniteSet(Starting)
    BY Finite, Subsets
  <2>2. Cardinality(StartersOf(p)) <= Cardinality(Starting)
    BY <2>1, FS_Subset
  <2> QED
    BY <2>2 DEF StartsExact
<1>6. \A p : Active(p) = Cardinality(OfProfile(p)) + starting_by[p]
  BY DEF Active, OfProfile, Pool
<1> QED
  BY <1>1, <1>2, <1>3, <1>4, <1>5, <1>6, Finite, Subsets DEF Counted

\* The same in the next state.
LEMMA TypesNext == Base' /\ StartsExact' => Counted'
BY Types, PTL

\* Nothing enters the pool and no reservation is added.
LEMMA CapsShrink ==
    ASSUME Base, Base', Ledger, StartsExact', settings' = settings,
           Len(free') + Cardinality(busy') + starting' <= Len(free) + Cardinality(busy) + starting,
           Pool' \subseteq Pool,
           \A x \in Pool' : worker'[x].key = worker[x].key,
           \A p \in Profiles : starting_by'[p] <= starting_by[p]
    PROVE  CapsOK'
<1>1. /\ max_workers' = max_workers /\ profile_cap' = profile_cap
      /\ max_workers \in Nat /\ profile_cap \in Int
  BY SettingsFacts DEF settings, Ledger
<1>2. (Total <= max_workers)'
  <2>1. Total <= max_workers
    BY DEF Ledger, CapsOK
  <2>2. /\ Len(free) \in Nat /\ Cardinality(busy) \in Nat /\ starting \in Nat
        /\ (Len(free) \in Nat /\ Cardinality(busy) \in Nat /\ starting \in Nat)'
    BY Types, TypesNext DEF Ledger, Counted
  <2> QED
    BY <1>1, <2>1, <2>2 DEF Total
<1>3. ASSUME NEW p \in Profiles PROVE (profile_cap < 0 \/ Active(p) <= profile_cap)'
  <2>1. OfProfile(p)' \subseteq OfProfile(p)
    BY DEF OfProfile, HasProfile
  <2>2. /\ IsFiniteSet(OfProfile(p)) /\ Cardinality(OfProfile(p)) \in Nat
        /\ starting_by[p] \in Nat
        /\ Active(p) = Cardinality(OfProfile(p)) + starting_by[p]
    BY Types, TypesNext DEF Ledger, Counted
  <2>3. /\ Cardinality(OfProfile(p)') \in Nat /\ starting_by'[p] \in Nat
        /\ Active(p)' = Cardinality(OfProfile(p)') + starting_by'[p]
    BY TypesNext DEF Counted
  <2>4. Cardinality(OfProfile(p)') <= Cardinality(OfProfile(p))
    BY <2>1, <2>2, FS_Subset
  <2>5. profile_cap < 0 \/ Active(p) <= profile_cap
    BY DEF Ledger, CapsOK
  <2> QED
    BY <1>1, <2>2, <2>3, <2>4, <2>5
<1> QED
  BY <1>2, <1>3 DEF CapsOK

\* Nobody is notified.
LEMMA WakesQuiet ==
    ASSUME Base, Base', Ledger, StartsExact', settings' = settings,
           NEW c \in Clients, NEW to, Step(c, to), waiters' = waiters,
           Cardinality(busy') + starting'
             >= Cardinality(busy) + starting + (IF client[c].pc = "notified" THEN 1 ELSE 0)
    PROVE  WakesOK'
<1>1. /\ max_workers' = max_workers /\ profile_cap' = profile_cap /\ max_workers \in Nat
  BY SettingsFacts DEF settings, Ledger
<1>2. /\ Cardinality(busy) \in Nat /\ starting \in Nat
      /\ IsFiniteSet(Notified) /\ Cardinality(Notified) \in Nat
  BY Types, TypesNext DEF Ledger, Counted
<1>3. /\ Cardinality(busy') \in Nat /\ starting' \in Nat
      /\ IsFiniteSet(Notified') /\ Cardinality(Notified') \in Nat
  BY TypesNext DEF Counted
<1>4. Notified \ {c} \subseteq Notified'
  BY DEF Notified, At, Step, Same
<1>5. /\ IsFiniteSet(Notified \ {c}) /\ Cardinality(Notified \ {c}) \in Nat
      /\ Cardinality(Notified \ {c}) <= Cardinality(Notified')
  BY <1>2, <1>3, <1>4, OneMore, FS_Subset
<1>6. Cardinality(Notified \ {c})
        = Cardinality(Notified) - (IF client[c].pc = "notified" THEN 1 ELSE 0)
  <2>1. c \in Notified <=> client[c].pc = "notified"
    BY DEF Notified, At
  <2>2. CASE c \in Notified
    BY <1>2, <2>1, <2>2, OneMore
  <2>3. CASE c \notin Notified
    BY <1>2, <2>1, <2>3, OneMore
  <2> QED
    BY <2>2, <2>3
<1>7. (profile_cap < 0 \/ profile_cap >= max_workers) /\ waiters # <<>> =>
        Cardinality(Notified) >= max_workers - Cardinality(busy) - starting
  BY DEF Ledger, WakesOK, Notified
<1>8. (profile_cap' < 0 \/ profile_cap' >= max_workers') /\ waiters' # <<>> =>
        Cardinality(Notified') >= max_workers' - Cardinality(busy') - starting'
  BY <1>1, <1>2, <1>3, <1>5, <1>6, <1>7
<1> QED
  BY <1>8 DEF WakesOK, Notified

\* Somebody is notified.
LEMMA WakesNotified ==
    ASSUME Base, Base', Ledger, StartsExact', settings' = settings,
           NEW c \in Clients, NEW to, Step(c, to), Notifies(c),
           Cardinality(busy') + starting' + 1
             >= Cardinality(busy) + starting + (IF client[c].pc = "notified" THEN 1 ELSE 0)
    PROVE  WakesOK'
<1>1. /\ max_workers' = max_workers /\ profile_cap' = profile_cap /\ max_workers \in Nat
  BY SettingsFacts DEF settings, Ledger
<1>2. /\ Cardinality(busy) \in Nat /\ starting \in Nat
      /\ IsFiniteSet(Notified) /\ Cardinality(Notified) \in Nat
  BY Types, TypesNext DEF Ledger, Counted
<1>3. /\ Cardinality(busy') \in Nat /\ starting' \in Nat
      /\ IsFiniteSet(Notified') /\ Cardinality(Notified') \in Nat
  BY TypesNext DEF Counted
<1>4. SUFFICES ASSUME waiters' # <<>>, profile_cap' < 0 \/ profile_cap' >= max_workers'
               PROVE  Cardinality(Notified') >= max_workers' - Cardinality(busy') - starting'
  BY DEF WakesOK, Notified
<1>5. PICK h \in Clients \ {c} : client[h].pc = "waiting" /\ client'[h].pc = "notified"
  BY <1>4 DEF Notifies
<1>6. waiters # <<>>
  <2>1. h \in Elems(waiters)
    BY <1>5 DEF Base, LineOK, Lined
  <2>2. Elems(<<>>) = {}
    BY DEF Elems
  <2> QED
    BY <2>1, <2>2
<1> DEFINE N == Notified \ {c}
<1>7. N \cup {h} \subseteq Notified' /\ h \notin N
  BY <1>5 DEF Notified, At, Step, Same
<1>8. IsFiniteSet(N) /\ Cardinality(N) = Cardinality(Notified) - (IF client[c].pc = "notified" THEN 1 ELSE 0)
  <2>1. c \in Notified <=> client[c].pc = "notified"
    BY DEF Notified, At
  <2>2. CASE c \in Notified
    BY <1>2, <2>1, <2>2, OneMore
  <2>3. CASE c \notin Notified
    <3>1. N = Notified
      BY <2>3
    <3> HIDE DEF N
    <3> QED
      BY <1>2, <2>1, <2>3, <3>1
  <2> QED
    BY <2>2, <2>3
<1> HIDE DEF N
<1>9. Cardinality(N \cup {h}) = Cardinality(N) + 1 /\ Cardinality(N) \in Nat
      /\ Cardinality(N \cup {h}) <= Cardinality(Notified')
  BY <1>3, <1>7, <1>8, OneMore, FS_Subset
<1>10. Cardinality(Notified) >= max_workers - Cardinality(busy) - starting
  BY <1>1, <1>4, <1>6 DEF Ledger, WakesOK, Notified
<1> QED
  BY <1>1, <1>2, <1>3, <1>8, <1>9, <1>10

\* A pool that cannot serve a request, when its profile cap does not bind, has
\* no idle worker and no room.
LEMMA NothingToGive ==
    ASSUME Base, Ledger, NEW k \in Keys, ~CanServe(k),
           profile_cap < 0 \/ profile_cap >= max_workers
    PROVE  Cardinality(busy) + starting >= max_workers
<1> DEFINE p == ProfileOf[k]
<1>1. p \in Profiles
  BY PoolAssumption
<1>2. /\ max_workers \in Nat /\ profile_cap \in Int
      /\ Len(free) \in Nat /\ Cardinality(busy) \in Nat /\ starting \in Nat /\ IsFiniteSet(busy)
      /\ Cardinality(OfProfile(p)) \in Nat
      /\ starting_by[p] \in Nat /\ starting_by[p] <= starting
      /\ Active(p) = Cardinality(OfProfile(p)) + starting_by[p]
  BY <1>1, Types, SettingsFacts DEF Ledger, Counted
<1>3. ~MayStart(k) /\ Victims(k) = {}
  BY DEF CanServe
<1>4. CASE CanStart(p)
  <2>1. DOMAIN free = {}
    BY <1>3, <1>4 DEF Victims
  <2>2. Len(free) = 0
    <3>1. DOMAIN free = 1..Len(free)
      BY DEF Base, TypesOK
    <3>2. Len(free) > 0 => 1 \in 1..Len(free)
      BY <1>2
    <3> QED
      BY <1>2, <2>1, <3>1, <3>2
  <2>3. Total >= max_workers
    <3>1. ~(Total < max_workers)
      BY <1>3, <1>4 DEF MayStart
    <3> QED
      BY <1>2, <3>1 DEF Total
  <2> QED
    BY <1>2, <2>2, <2>3 DEF Total
<1>5. CASE ~CanStart(p)
  <2>1. Active(p) >= max_workers
    <3>1. profile_cap >= 0 /\ ~(Active(p) < profile_cap)
      BY <1>2, <1>5 DEF CanStart
    <3> QED
      BY <1>2, <3>1
  <2>2. OfProfile(p) \subseteq busy
    <3>1. \A i \in DOMAIN free : ~HasProfile(free[i], p)
      BY <1>3, <1>5 DEF Victims
    <3> QED
      BY <3>1 DEF OfProfile, Pool, Elems
  <2>3. Cardinality(OfProfile(p)) <= Cardinality(busy)
    BY <1>2, <2>2, FS_Subset
  <2> QED
    BY <1>2, <2>1, <2>3
<1> QED
  BY <1>4, <1>5

\* No request is left to wait then, whoever was notified.
LEMMA WakesIdle ==
    ASSUME Base, Base', Ledger, StartsExact', settings' = settings,
           NEW k \in Keys, ~CanServe(k),
           busy' = busy, starting' = starting
    PROVE  WakesOK'
<1>1. /\ max_workers' = max_workers /\ profile_cap' = profile_cap /\ max_workers \in Nat
  BY SettingsFacts DEF settings, Ledger
<1>2. Cardinality(busy) \in Nat /\ starting \in Nat
  BY Types, TypesNext DEF Ledger, Counted
<1>3. Cardinality(Notified') \in Nat
  BY TypesNext DEF Counted
<1>4. SUFFICES ASSUME profile_cap' < 0 \/ profile_cap' >= max_workers'
               PROVE  Cardinality(Notified') >= max_workers' - Cardinality(busy') - starting'
  BY DEF WakesOK, Notified
<1>5. Cardinality(busy) + starting >= max_workers
  BY <1>1, <1>4, NothingToGive
<1> QED
  BY <1>1, <1>2, <1>3, <1>5

\* The invariant in the next state.
Kept == Base' /\ Ledger'

\* Assembling a step's ledger.
LEMMA LedgerStep ==
    ASSUME Ledger, settings' = settings, StartsExact', CapsOK', WakesOK'
    PROVE  Ledger'
BY DEF Ledger, SettingsOK, settings

\* A worker that is leased moves from _free to _busy: the pool is as full as
\* before, and one notification is used up for one worker
\* (pantograph_manager.py:126-129).
LEMMA LeaseIdleCounts ==
    ASSUME Base, Ledger, NEW c \in Clients, NEW k \in Keys, Caller(c),
           LeaseIdle(c, k), UNCHANGED settings
    PROVE  Kept
<1>1. PICK w \in Elems(free) :
              /\ worker[w].key = k
              /\ Step(c, [pc |-> "leased", key |-> k, w |-> w])
              /\ Len(free') = Len(free) - 1
              /\ Elems(free') = Elems(free) \ {w}
              /\ busy' = busy \cup {w}
              /\ Base'
  BY LeaseIdleKeeps
<1>2. w \in Workers /\ w \notin busy
  BY FreeUnheld
<1>3. starts' = starts /\ waiters' = waiters /\ worker' = worker
  BY DEF LeaseIdle, starts
<1>4. StartsExact'
  BY <1>1, <1>3, StartsKept DEF Ledger, Reserved, Caller
<1>5. Cardinality(busy') = Cardinality(busy) + 1 /\ Cardinality(busy) \in Nat
  BY <1>1, <1>2, Types, OneMore DEF Ledger, Counted
<1>6. starting' = starting /\ starting_by' = starting_by /\ starting \in Nat /\ Len(free) \in Nat
      /\ \A p \in Profiles : starting_by[p] \in Nat
  BY <1>3, Types DEF Ledger, Counted, starts
<1>7. CapsOK'
  <2>1. Pool' \subseteq Pool
    BY <1>1 DEF Pool, Elems
  <2>2. /\ Len(free') + Cardinality(busy') + starting' <= Len(free) + Cardinality(busy) + starting
        /\ \A p \in Profiles : starting_by'[p] <= starting_by[p]
        /\ \A x \in Pool' : worker'[x].key = worker[x].key
    BY <1>1, <1>3, <1>5, <1>6
  <2> QED
    BY <1>1, <1>4, <2>1, <2>2, CapsShrink
<1>8. WakesOK'
  <2>1. Cardinality(busy') + starting'
          >= Cardinality(busy) + starting + (IF client[c].pc = "notified" THEN 1 ELSE 0)
    BY <1>5, <1>6
  <2> QED
    BY <1>1, <1>3, <1>4, <2>1, WakesQuiet
<1> QED
  BY <1>1, <1>4, <1>7, <1>8, LedgerStep DEF Kept

\* A start is reserved only below both caps (pantograph_manager.py:131-135).
LEMMA StartNewCounts ==
    ASSUME Base, Ledger, NEW c \in Clients, NEW k \in Keys, Caller(c),
           StartNew(c, k), UNCHANGED settings
    PROVE  Kept
<1> DEFINE q == ProfileOf[k]
<1>1. PICK w \in Workers :
              /\ Step(c, [pc |-> "starting", key |-> k, w |-> w])
              /\ w \notin Pool /\ \A x \in Workers \ {w} : worker'[x] = worker[x]
              /\ Base'
  BY StartNewKeeps
<1>2. /\ free' = free /\ busy' = busy /\ waiters' = waiters
      /\ Total < max_workers /\ CanStart(q) /\ MarkStarting(q)
  BY DEF StartNew, MayStart
<1>3. /\ StartsExact' /\ starting' = starting + 1
      /\ starting_by'[q] = starting_by[q] + 1
      /\ \A p \in Profiles \ {q} : starting_by'[p] = starting_by[p]
  BY <1>1, <1>2, StartReserved DEF Ledger, Reserved, Caller
<1>4. /\ max_workers' = max_workers /\ profile_cap' = profile_cap
      /\ max_workers \in Nat /\ profile_cap \in Int
  BY SettingsFacts DEF settings, Ledger
<1>5. Counted /\ Counted'
  BY <1>1, <1>3, Types, TypesNext DEF Ledger
<1>6. CapsOK'
  <2>1. (Total <= max_workers)'
    BY <1>2, <1>3, <1>4, <1>5 DEF Total, Counted
  <2>2. ASSUME NEW p \in Profiles PROVE (profile_cap < 0 \/ Active(p) <= profile_cap)'
    <3>1. OfProfile(p)' = OfProfile(p)
      <4>1. Pool' = Pool /\ Pool \subseteq Workers
        BY <1>2, PoolSubset DEF Pool, Elems, Base
      <4> QED
        BY <1>1, <4>1 DEF OfProfile, HasProfile
    <3>2. profile_cap < 0 \/ Active(p) <= profile_cap
      BY DEF Ledger, CapsOK
    <3>3. p = q => profile_cap < 0 \/ Active(p) < profile_cap
      BY <1>2 DEF CanStart
    <3>4. /\ Active(p) = Cardinality(OfProfile(p)) + starting_by[p]
          /\ Active(p)' = Cardinality(OfProfile(p)) + starting_by'[p]
          /\ Cardinality(OfProfile(p)) \in Nat /\ starting_by[p] \in Nat
      BY <1>5, <3>1 DEF Counted
    <3>5. CASE p = q
      BY <1>3, <1>4, <3>3, <3>4, <3>5
    <3>6. CASE p # q
      BY <1>3, <1>4, <3>2, <3>4, <3>6
    <3> QED
      BY <3>5, <3>6
  <2> QED
    BY <2>1, <2>2 DEF CapsOK
<1>7. Cardinality(busy) \in Nat /\ starting \in Nat
  BY <1>5 DEF Counted
<1>8. WakesOK'
  BY <1>1, <1>2, <1>3, <1>7, WakesQuiet
<1> QED
  BY <1>1, <1>3, <1>6, <1>8, LedgerStep DEF Kept

\* An eviction puts a reserved start in the place of an idle worker: of the same
\* profile when that one is full, so neither cap is exceeded
\* (pantograph_manager.py:137-144, 228-243).
LEMMA EvictIdleCounts ==
    ASSUME Base, Ledger, NEW c \in Clients, NEW k \in Keys, Caller(c),
           EvictIdle(c, k), UNCHANGED settings
    PROVE  Kept
<1> DEFINE q == ProfileOf[k]
<1>1. PICK w \in Elems(free) :
              /\ ~CanStart(q) => HasProfile(w, q)
              /\ Step(c, [pc |-> "evicting", key |-> k, w |-> w])
              /\ Len(free') = Len(free) - 1
              /\ Elems(free') = Elems(free) \ {w}
              /\ \A x \in Workers \ {w} : worker'[x] = worker[x]
              /\ Base'
  BY EvictIdleKeeps
<1>2. busy' = busy /\ waiters' = waiters /\ MarkStarting(q)
  BY DEF EvictIdle
<1>3. /\ StartsExact' /\ starting' = starting + 1
      /\ starting_by'[q] = starting_by[q] + 1
      /\ \A p \in Profiles \ {q} : starting_by'[p] = starting_by[p]
  BY <1>1, <1>2, StartReserved DEF Ledger, Reserved, Caller
<1>4. /\ max_workers' = max_workers /\ profile_cap' = profile_cap
      /\ max_workers \in Nat /\ profile_cap \in Int
  BY SettingsFacts DEF settings, Ledger
<1>5. Counted /\ Counted'
  BY <1>1, <1>3, Types, TypesNext DEF Ledger
<1>6. w \in Workers /\ w \notin busy
  BY FreeUnheld
<1>7. CapsOK'
  <2>1. (Total <= max_workers)'
    <3>1. Total <= max_workers
      BY DEF Ledger, CapsOK
    <3> QED
      BY <1>1, <1>2, <1>3, <1>4, <1>5, <3>1 DEF Total, Counted
  <2>2. ASSUME NEW p \in Profiles PROVE (profile_cap < 0 \/ Active(p) <= profile_cap)'
    <3>1. OfProfile(p)' = OfProfile(p) \ {w}
      <4>1. Pool' = Pool \ {w} /\ Pool \subseteq Workers
        BY <1>1, <1>2, <1>6, PoolSubset DEF Pool, Elems, Base
      <4> QED
        BY <1>1, <4>1 DEF OfProfile, HasProfile
    <3>2. profile_cap < 0 \/ Active(p) <= profile_cap
      BY DEF Ledger, CapsOK
    <3>3. p = q => \/ profile_cap < 0 \/ Active(p) < profile_cap
                   \/ w \in OfProfile(p)
      BY <1>1 DEF CanStart, OfProfile, Pool
    <3>4. /\ Active(p) = Cardinality(OfProfile(p)) + starting_by[p]
          /\ Active(p)' = Cardinality(OfProfile(p) \ {w}) + starting_by'[p]
          /\ Cardinality(OfProfile(p)) \in Nat /\ starting_by[p] \in Nat
          /\ IsFiniteSet(OfProfile(p))
      BY <1>5, <3>1 DEF Counted
    <3>5. /\ Cardinality(OfProfile(p) \ {w}) \in Nat
          /\ Cardinality(OfProfile(p) \ {w}) <= Cardinality(OfProfile(p))
          /\ w \in OfProfile(p) => Cardinality(OfProfile(p) \ {w}) = Cardinality(OfProfile(p)) - 1
      <4>1. CASE w \in OfProfile(p)
        BY <3>4, <4>1, OneMore
      <4>2. CASE w \notin OfProfile(p)
        <5>1. OfProfile(p) \ {w} = OfProfile(p)
          BY <4>2
        <5>2. Cardinality(OfProfile(p) \ {w}) = Cardinality(OfProfile(p))
          BY <5>1, Zenon
        <5>3. Cardinality(OfProfile(p)) \in Nat
          BY <3>4
        <5> QED
          BY <4>2, <5>2, <5>3
      <4> QED
        BY <4>1, <4>2
    <3>6. CASE p = q
      BY <1>3, <1>4, <3>2, <3>3, <3>4, <3>5, <3>6
    <3>7. CASE p # q
      BY <1>3, <1>4, <3>2, <3>4, <3>5, <3>7
    <3> QED
      BY <3>6, <3>7
  <2> QED
    BY <2>1, <2>2 DEF CapsOK
<1>8. Cardinality(busy) \in Nat /\ starting \in Nat
  BY <1>5 DEF Counted
<1>9. WakesOK'
  BY <1>1, <1>2, <1>3, <1>8, WakesQuiet
<1> QED
  BY <1>1, <1>3, <1>7, <1>9, LedgerStep DEF Kept

\* A step that leaves the pool's numbers alone, or only gives room back.
LEMMA RoomKept ==
    ASSUME Base, Ledger, Base', StartsExact', settings' = settings,
           free' = free, busy' \subseteq busy, starting' <= starting,
           \A p \in Profiles : starting_by'[p] <= starting_by[p],
           \A x \in Workers : x \in Pool' => worker'[x].key = worker[x].key
    PROVE  CapsOK' /\ Cardinality(busy') <= Cardinality(busy)
<1>1. Cardinality(busy') <= Cardinality(busy) /\ Counted /\ Counted'
  <2>1. Counted /\ Counted'
    BY Types, TypesNext DEF Ledger
  <2> QED
    BY <2>1, FS_Subset DEF Counted
<1>2. Pool' \subseteq Pool /\ Pool \subseteq Workers
  BY PoolSubset DEF Pool, Elems, Base
<1>3. Len(free') + Cardinality(busy') + starting' <= Len(free) + Cardinality(busy) + starting
  BY <1>1 DEF Counted
<1>4. CapsOK'
  BY <1>2, <1>3, CapsShrink
<1> QED
  BY <1>1, <1>4

\* A step that touches neither counter of starts adds no start.
LEMMA KeptStarts ==
    ASSUME StartsExact, starts' = starts
    PROVE  /\ starting' = starting /\ starting' <= starting
           /\ \A p \in Profiles : starting_by'[p] <= starting_by[p]
<1>1. starting \in Nat
  BY Finite, Subsets DEF StartsExact
<1> QED
  BY <1>1 DEF StartsExact, starts

\* A client that waits, or gives up, does so when the pool has nothing to give
\* (pantograph_manager.py:137-153).
LEMMA WaitTurnCounts ==
    ASSUME Base, Ledger, NEW c \in Clients, NEW k \in Keys, Caller(c),
           WaitTurn(c, k) \/ GiveUpInLoop(c, k), UNCHANGED settings
    PROVE  Kept
<1>1. PICK to : Base' /\ Step(c, to) /\ to.pc \notin Reserved
  <2>1. CASE WaitTurn(c, k)
    <3> DEFINE to == [pc |-> "waiting", key |-> k, w |-> None]
    <3>1. Base' /\ Step(c, to) /\ to.pc \notin Reserved
      BY <2>1, WaitTurnKeeps DEF Reserved
    <3> QED
      BY <3>1
  <2>2. CASE GiveUpInLoop(c, k)
    BY <2>2, GiveUpInLoopKeeps, NoClientShape DEF Reserved
  <2> QED
    BY <2>1, <2>2
<1>2. ~CanServe(k) /\ free' = free /\ busy' = busy /\ starts' = starts /\ worker' = worker
  BY DEF WaitTurn, GiveUpInLoop, starts
<1>3. StartsExact'
  BY <1>1, <1>2, StartsKept DEF Ledger, Reserved, Caller
<1>4. CapsOK'
  BY <1>1, <1>2, <1>3, KeptStarts, RoomKept DEF Ledger
<1>5. WakesOK'
  BY <1>1, <1>2, <1>3, KeptStarts, WakesIdle DEF Ledger
<1> QED
  BY <1>1, <1>3, <1>4, <1>5, LedgerStep DEF Kept

\* A waiter that gives up passes its notification on
\* (pantograph_manager.py:152-158).
LEMMA TimeOutCounts ==
    ASSUME Base, Ledger, NEW c \in Clients, TimeOut(c)
    PROVE  Kept
<1>1. Base' /\ Step(c, NoClient) /\ Notifies(c)
  BY TimeOutKeeps
<1>2. /\ free' = free /\ busy' = busy /\ starts' = starts /\ worker' = worker
      /\ settings' = settings /\ client[c].pc \in {"waiting", "notified"}
  BY DEF TimeOut, starts, settings
<1>3. StartsExact'
  BY <1>1, <1>2, NoClientShape, StartsKept DEF Ledger, Reserved
<1>4. CapsOK'
  BY <1>1, <1>2, <1>3, KeptStarts, RoomKept DEF Ledger
<1>5. Cardinality(busy) \in Nat /\ starting \in Nat /\ starting' = starting
  BY <1>2, Types, KeptStarts DEF Ledger, Counted
<1>6. WakesOK'
  BY <1>1, <1>2, <1>3, <1>5, WakesNotified
<1> QED
  BY <1>1, <1>2, <1>3, <1>4, <1>6, LedgerStep DEF Kept

\* Replacing the evicted process by a new one keeps the reservation
\* (pantograph_manager.py:160-169).
LEMMA EvictedCounts ==
    ASSUME Base, Ledger, NEW c \in Clients, Evicted(c)
    PROVE  Kept
<1>1. PICK w \in Workers :
              /\ Step(c, [pc |-> "starting", key |-> client[c].key, w |-> w])
              /\ \A x \in Pool : worker'[x] = worker[x]
              /\ Base'
  BY EvictedKeeps
<1>2. PICK k : k = client[c].key
  OBVIOUS
<1> DEFINE to == [pc |-> "starting", key |-> k, w |-> w]
<1>3. Step(c, to) /\ to.pc = "starting" /\ to.key = k
  BY <1>1, <1>2
<1> HIDE DEF to
<1>4. /\ free' = free /\ busy' = busy /\ starts' = starts /\ waiters' = waiters
      /\ settings' = settings /\ client[c].pc = "evicting"
  BY DEF Evicted, starts, settings
<1>5. StartsExact'
  BY <1>2, <1>3, <1>4, StartsKept DEF Ledger, Reserved
<1>6. \A x \in Workers : x \in Pool' => worker'[x].key = worker[x].key
  BY <1>1, <1>4 DEF Pool, Elems
<1>7. CapsOK'
  BY <1>1, <1>4, <1>5, <1>6, KeptStarts, RoomKept DEF Ledger
<1>8. Cardinality(busy) \in Nat /\ starting \in Nat /\ starting' = starting
  BY <1>4, Types, KeptStarts DEF Ledger, Counted
<1>9. WakesOK'
  BY <1>1, <1>3, <1>4, <1>5, <1>8, WakesQuiet
<1> QED
  BY <1>1, <1>4, <1>5, <1>7, <1>9, LedgerStep DEF Kept

\* A reserved start turns into a leased worker of the same profile
\* (pantograph_manager.py:184-187).
LEMMA StartedCounts ==
    ASSUME Base, Ledger, NEW c \in Clients, Started(c)
    PROVE  Kept
<1>1. PICK w, k : w = client[c].w /\ k = client[c].key
  OBVIOUS
<1> DEFINE to == [pc |-> "leased", key |-> k, w |-> w]
           q  == ProfileOf[k]
<1>2. /\ Step(c, to) /\ Notifies(c)
      /\ w \in Workers /\ w \notin Pool /\ worker[w].key = k
      /\ \A x \in Workers : worker'[x].key = worker[x].key
      /\ Base'
  BY <1>1, StartedKeeps
<1>3. /\ client[c].pc = "starting" /\ free' = free /\ busy' = busy \cup {w}
      /\ UnmarkStarting(q) /\ settings' = settings
  BY <1>1 DEF Started, settings
<1>4. k \in Keys /\ q \in Profiles /\ to.pc = "leased"
  BY <1>1, <1>3, HeldFacts, PoolAssumption DEF Holders
<1> HIDE DEF to
<1>5. /\ StartsExact' /\ starting' = starting - 1
      /\ starting_by'[q] = starting_by[q] - 1
      /\ \A p \in Profiles \ {q} : starting_by'[p] = starting_by[p]
  BY <1>1, <1>2, <1>3, <1>4, StartSettled DEF Ledger, Reserved
<1>6. Counted /\ Counted'
  BY <1>2, <1>5, Types, TypesNext DEF Ledger
<1>7. Cardinality(busy') = Cardinality(busy) + 1
  BY <1>2, <1>3, <1>6, OneMore DEF Counted, Pool
<1>8. /\ max_workers' = max_workers /\ profile_cap' = profile_cap
      /\ max_workers \in Nat /\ profile_cap \in Int
  BY <1>3, SettingsFacts DEF settings, Ledger
<1>9. CapsOK'
  <2>1. (Total <= max_workers)'
    <3>1. Total <= max_workers
      BY DEF Ledger, CapsOK
    <3> QED
      BY <1>3, <1>5, <1>6, <1>7, <1>8, <3>1 DEF Total, Counted
  <2>2. ASSUME NEW p \in Profiles PROVE (profile_cap < 0 \/ Active(p) <= profile_cap)'
    <3>1. /\ w \notin OfProfile(p)
          /\ OfProfile(p)' = IF p = q THEN OfProfile(p) \cup {w} ELSE OfProfile(p)
      <4>1. Pool' = Pool \cup {w} /\ Pool \subseteq Workers
        BY <1>3, PoolSubset DEF Pool, Elems, Base
      <4> QED
        BY <1>2, <4>1 DEF OfProfile, HasProfile
    <3>2. profile_cap < 0 \/ Active(p) <= profile_cap
      BY DEF Ledger, CapsOK
    <3>3. /\ Active(p) = Cardinality(OfProfile(p)) + starting_by[p]
          /\ Active(p)' = Cardinality(OfProfile(p)') + starting_by'[p]
          /\ Cardinality(OfProfile(p)) \in Nat /\ starting_by[p] \in Nat
          /\ IsFiniteSet(OfProfile(p))
      BY <1>6 DEF Counted
    <3>4. CASE p = q
      <4>1. Cardinality(OfProfile(p)') = Cardinality(OfProfile(p)) + 1
        BY <3>1, <3>3, <3>4, OneMore
      <4> QED
        BY <1>5, <1>8, <3>2, <3>3, <3>4, <4>1
    <3>5. CASE p # q
      BY <1>5, <1>8, <3>1, <3>2, <3>3, <3>5
    <3> QED
      BY <3>4, <3>5
  <2> QED
    BY <2>1, <2>2 DEF CapsOK
<1>10. WakesOK'
  <2>1. Cardinality(busy') + starting' + 1
          >= Cardinality(busy) + starting + (IF client[c].pc = "notified" THEN 1 ELSE 0)
    BY <1>5, <1>6, <1>7 DEF Counted
  <2> QED
    BY <1>2, <1>3, <1>5, <2>1, WakesNotified
<1> QED
  BY <1>2, <1>3, <1>5, <1>9, <1>10, LedgerStep DEF Kept

\* A start that fails gives its room to a waiter
\* (pantograph_manager.py:177-180).
LEMMA StartFailsCounts ==
    ASSUME Base, Ledger, NEW c \in Clients, StartFails(c)
    PROVE  Kept
<1>1. /\ Base' /\ Step(c, NoClient) /\ Notifies(c)
      /\ \A x \in Pool : worker'[x] = worker[x]
  BY StartFailsKeeps
<1>2. /\ client[c].pc = "starting" /\ free' = free /\ busy' = busy
      /\ UnmarkStarting(ProfileOf[client[c].key]) /\ settings' = settings
  BY DEF StartFails, settings
<1>3. PICK q : q = ProfileOf[client[c].key]
  OBVIOUS
<1>4. client[c].key \in Keys /\ q \in Profiles
  BY <1>2, <1>3, HeldFacts, PoolAssumption DEF Holders
<1>5. /\ StartsExact' /\ starting' = starting - 1
      /\ starting_by'[q] = starting_by[q] - 1
      /\ \A p \in Profiles \ {q} : starting_by'[p] = starting_by[p]
  BY <1>1, <1>2, <1>3, <1>4, NoClientShape, StartSettled DEF Ledger, Reserved
<1>6. Counted /\ Counted'
  BY <1>1, <1>5, Types, TypesNext DEF Ledger
<1>7. starting' <= starting /\ \A p \in Profiles : starting_by'[p] <= starting_by[p]
  <2>1. starting \in Nat /\ \A p \in Profiles : starting_by[p] \in Nat
    BY <1>6 DEF Counted
  <2>2. ASSUME NEW p \in Profiles PROVE starting_by'[p] <= starting_by[p]
    <3>1. CASE p = q
      BY <1>5, <2>1, <3>1
    <3>2. CASE p # q
      BY <1>5, <2>1, <3>2
    <3> QED
      BY <3>1, <3>2
  <2> QED
    BY <1>5, <2>1, <2>2
<1>8. \A x \in Workers : x \in Pool' => worker'[x].key = worker[x].key
  BY <1>1, <1>2 DEF Pool, Elems
<1>9. CapsOK'
  BY <1>1, <1>2, <1>5, <1>7, <1>8, RoomKept
<1>10. WakesOK'
  <2>1. Cardinality(busy') + starting' + 1
          >= Cardinality(busy) + starting + (IF client[c].pc = "notified" THEN 1 ELSE 0)
    BY <1>2, <1>5, <1>6 DEF Counted
  <2> QED
    BY <1>1, <1>2, <1>5, <2>1, WakesNotified
<1> QED
  BY <1>1, <1>2, <1>5, <1>9, <1>10, LedgerStep DEF Kept

\* A lease the pool has forgotten, and a close that ends, change no count
\* (pantograph_manager.py:196-198, 208-210).
LEMMA ReleaseUnknownCounts ==
    ASSUME Base, Ledger, NEW c \in Clients, ReleaseUnknown(c) \/ Closed(c)
    PROVE  Kept
<1>1. /\ Base' /\ Step(c, NoClient) /\ \A x \in Pool : worker'[x] = worker[x]
  BY ReleaseUnknownKeeps, ClosedKeeps DEF ReleaseUnknown
<1>2. /\ free' = free /\ busy' = busy /\ starts' = starts /\ waiters' = waiters
      /\ settings' = settings /\ client[c].pc \in {"leased", "closing"}
  BY DEF ReleaseUnknown, Closed, starts, settings
<1>3. StartsExact'
  BY <1>1, <1>2, NoClientShape, StartsKept DEF Ledger, Reserved
<1>4. \A x \in Workers : x \in Pool' => worker'[x].key = worker[x].key
  BY <1>1, <1>2 DEF Pool, Elems
<1>5. CapsOK'
  BY <1>1, <1>2, <1>3, <1>4, KeptStarts, RoomKept DEF Ledger
<1>6. Cardinality(busy) \in Nat /\ starting \in Nat /\ starting' = starting
  BY <1>2, Types, KeptStarts DEF Ledger, Counted
<1>7. WakesOK'
  BY <1>1, <1>2, <1>3, <1>6, WakesQuiet
<1> QED
  BY <1>1, <1>2, <1>3, <1>5, <1>7, LedgerStep DEF Kept

\* A released worker is idle, and somebody is told (pantograph_manager.py:199-206).
LEMMA ReleaseCounts ==
    ASSUME Base, Ledger, NEW c \in Clients, Release(c)
    PROVE  Kept
<1>1. PICK w : w = client[c].w
  OBVIOUS
<1>2. /\ Base' /\ Step(c, NoClient) /\ Notifies(c)
      /\ w \in busy /\ busy' = busy \ {w}
      /\ Len(free') = Len(free) + 1
      /\ Elems(free') = Elems(free) \cup {w}
      /\ \A x \in Workers : worker'[x].key = worker[x].key
  BY <1>1, ReleaseKeeps
<1>3. /\ client[c].pc = "leased" /\ starts' = starts /\ settings' = settings
  BY DEF Release, starts, settings
<1>4. StartsExact'
  BY <1>2, <1>3, NoClientShape, StartsKept DEF Ledger, Reserved
<1>5. Counted /\ Counted'
  BY <1>2, <1>4, Types, TypesNext DEF Ledger
<1>6. Cardinality(busy') = Cardinality(busy) - 1
  BY <1>2, <1>5, OneMore DEF Counted
<1>7. starting' = starting /\ \A p \in Profiles : starting_by'[p] <= starting_by[p]
  BY <1>3, KeptStarts DEF Ledger
<1>8. CapsOK'
  <2>1. Pool' = Pool /\ Pool \subseteq Workers
    BY <1>2, PoolSubset DEF Pool, Elems, Base
  <2>2. Len(free') + Cardinality(busy') + starting' <= Len(free) + Cardinality(busy) + starting
    BY <1>2, <1>5, <1>6, <1>7 DEF Counted
  <2>3. \A x \in Pool' : worker'[x].key = worker[x].key
    BY <1>2, <2>1
  <2> QED
    BY <1>2, <1>3, <1>4, <1>7, <2>1, <2>2, <2>3, CapsShrink
<1>9. WakesOK'
  <2>1. Cardinality(busy') + starting' + 1
          >= Cardinality(busy) + starting + (IF client[c].pc = "notified" THEN 1 ELSE 0)
    BY <1>3, <1>5, <1>6, <1>7 DEF Counted
  <2> QED
    BY <1>2, <1>3, <1>4, <2>1, WakesNotified
<1> QED
  BY <1>2, <1>3, <1>4, <1>8, <1>9, LedgerStep DEF Kept

\* A worker that leaves the pool makes room, and somebody is told
\* (pantograph_manager.py:199-206, 270-275).
LEMMA DestroyCounts ==
    ASSUME Base, Ledger, NEW c \in Clients,
           ReleaseExhausted(c) \/ \E alive \in BOOLEAN : Destroy(c, alive)
    PROVE  Kept
<1>1. PICK w, k : w = client[c].w /\ k = client[c].key
  OBVIOUS
<1>2. PICK to \in {NoClient, [pc |-> "closing", key |-> k, w |-> w]} : Step(c, to)
  BY <1>1, ReleaseExhaustedKeeps, DestroyKeeps
<1>3. to.pc \notin Reserved
  BY <1>2, NoClientShape DEF Reserved
<1>4. /\ Base' /\ Notifies(c) /\ busy' = busy \ {w} /\ free' = free
      /\ \A x \in Workers \ {w} : worker'[x] = worker[x]
  BY <1>1, ReleaseExhaustedKeeps, DestroyKeeps
<1>5. /\ client[c].pc = "leased" /\ starts' = starts /\ settings' = settings
  BY DEF ReleaseExhausted, Destroy, starts, settings
<1>6. StartsExact'
  BY <1>2, <1>3, <1>5, StartsKept DEF Ledger, Reserved
<1>7. Counted /\ Counted'
  BY <1>4, <1>6, Types, TypesNext DEF Ledger
<1>8. Cardinality(busy') >= Cardinality(busy) - 1
  <2>1. IsFiniteSet(busy) /\ Cardinality(busy) \in Nat
    BY <1>7 DEF Counted
  <2>2. CASE w \in busy
    BY <1>4, <2>1, <2>2, OneMore
  <2>3. CASE w \notin busy
    <3>1. busy' = busy
      BY <1>4, <2>3
    <3> QED
      BY <2>1, <3>1
  <2> QED
    BY <2>2, <2>3
<1>9. /\ starting' = starting /\ starting' <= starting
      /\ \A p \in Profiles : starting_by'[p] <= starting_by[p]
  BY <1>5, KeptStarts DEF Ledger
<1>10. CapsOK'
  <2>1. w \notin Elems(free)
    BY <1>1, <1>5, HeldFacts DEF Holders
  <2>2. \A x \in Workers : x \in Pool' => worker'[x].key = worker[x].key
    BY <1>4, <2>1 DEF Pool, Elems
  <2> QED
    BY <1>4, <1>5, <1>6, <1>9, <2>2, RoomKept
<1>11. WakesOK'
  <2>1. Cardinality(busy') + starting' + 1
          >= Cardinality(busy) + starting + (IF client[c].pc = "notified" THEN 1 ELSE 0)
    BY <1>5, <1>7, <1>8, <1>9 DEF Counted
  <2> QED
    BY <1>2, <1>4, <1>5, <1>6, <2>1, WakesNotified
<1> QED
  BY <1>4, <1>5, <1>6, <1>10, <1>11, LedgerStep DEF Kept

\* Starts do not change when clients move within the line only.
LEMMA SameStarters ==
    ASSUME \A d \in Clients : Same(d), StartsExact, starts' = starts
    PROVE  StartsExact'
<1>1. Starting' = Starting /\ \A p : StartersOf(p)' = StartersOf(p)
  BY DEF Starting, StartersOf, Same
<1> QED
  BY <1>1 DEF StartsExact, starts

\* After cleanup() the pool is empty and nobody waits (pantograph_manager.py:279-286).
LEMMA CleanupCounts ==
    ASSUME Base, Ledger, Cleanup
    PROVE  Kept
<1>1. /\ Base' /\ waiters' = <<>> /\ free' = <<>> /\ busy' = {}
      /\ \A d \in Clients : Same(d)
  BY CleanupKeeps
<1>2. starts' = starts /\ settings' = settings
  BY DEF Cleanup, starts, settings
<1>3. StartsExact'
  BY <1>1, <1>2, SameStarters DEF Ledger
<1>4. Counted
  BY Types DEF Ledger
<1>5. Cardinality(busy') = 0 /\ Len(free') = 0
  BY <1>1, FS_EmptySet
<1>6. CapsOK'
  <2>1. Pool' = {}
    BY <1>1 DEF Pool, Elems
  <2>2. starting' = starting /\ \A p \in Profiles : starting_by'[p] <= starting_by[p]
    BY <1>2, KeptStarts DEF Ledger
  <2>3. Len(free') + Cardinality(busy') + starting' <= Len(free) + Cardinality(busy) + starting
    BY <1>4, <1>5, <2>2 DEF Counted
  <2> QED
    BY <1>1, <1>2, <1>3, <2>1, <2>2, <2>3, CapsShrink
<1>7. WakesOK'
  BY <1>1 DEF WakesOK
<1> QED
  BY <1>1, <1>2, <1>3, <1>6, <1>7, LedgerStep DEF Kept

\* A process that ends after cleanup() is in no count (pantograph_manager.py:287).
LEMMA CleanupClosedCounts ==
    ASSUME Base, Ledger, NEW w \in Workers, CleanupClosed(w)
    PROVE  Kept
<1>1. Base' /\ \A x \in Pool : worker'[x] = worker[x]
  BY CleanupClosedKeeps
<1>2. /\ free' = free /\ busy' = busy /\ starts' = starts /\ waiters' = waiters
      /\ settings' = settings /\ client' = client
  BY DEF CleanupClosed, starts, settings
<1>3. StartsExact'
  BY <1>2, SameStarters DEF Ledger, Same
<1>4. \A x \in Workers : x \in Pool' => worker'[x].key = worker[x].key
  BY <1>1, <1>2 DEF Pool, Elems
<1>5. CapsOK'
  BY <1>1, <1>2, <1>3, <1>4, KeptStarts, RoomKept DEF Ledger
<1>6. WakesOK'
  BY <1>2 DEF WakesOK, Ledger, At, settings, starts
<1> QED
  BY <1>1, <1>2, <1>3, <1>5, <1>6, LedgerStep DEF Kept

---------------------------------------------------------------------------
\* The inductive invariant.
IInv == Base /\ Ledger

\* A new pool is empty (pantograph_manager.py:66-102).
LEMMA InitInv == Init => IInv
<1> SUFFICES ASSUME Init PROVE IInv
  OBVIOUS
<1> USE DEF Init
<1>1. TypesOK
  BY NoClientShape, NoWorkerFacts DEF TypesOK, ClientTypes
<1>2. Elems(free) = {} /\ Elems(waiters) = {} /\ DOMAIN free = {} /\ DOMAIN waiters = {}
  BY DEF Elems
<1>3. LineOK /\ ClientsOK
  BY <1>2, NoClientShape DEF LineOK, Lined, ClientsOK
<1>4. HoldsOK
  <2>1. NoClient.w = None /\ None \notin Workers
    BY PoolAssumption DEF NoClient
  <2> QED
    BY <2>1, NoClientShape DEF HoldsOK, HoldOK
<1>5. PoolOK
  BY <1>2, NoWorkerFacts DEF PoolOK
<1>6. Starting = {} /\ \A p : StartersOf(p) = {} /\ OfProfile(p) = {}
  BY <1>2, NoClientShape DEF Starting, StartersOf, OfProfile, Pool
<1>7. SettingsOK
  <2>1. PICK l \in Limits : max_workers = l[1] /\ profile_cap = l[2]
    OBVIOUS
  <2>2. l = <<l[1], l[2]>>
    BY PoolAssumption
  <2> QED
    BY <2>1, <2>2 DEF SettingsOK
<1>8. Cardinality({}) = 0
  BY FS_EmptySet
<1>9. StartsExact
  BY <1>6, <1>8 DEF StartsExact
<1>10. CapsOK
  <2>1. max_workers \in Nat /\ profile_cap \in Int
    BY <1>7, SettingsFacts
  <2>2. Total = 0
    BY <1>8 DEF Total
  <2>3. \A p \in Profiles : Active(p) = 0
    <3> SUFFICES ASSUME NEW p \in Profiles PROVE Active(p) = 0
      OBVIOUS
    <3>1. Counted
      BY <1>1, <1>3, <1>4, <1>5, <1>9, Types DEF Base
    <3>2. OfProfile(p) = {} /\ starting_by[p] = 0
      BY <1>6
    <3>3. Cardinality(OfProfile(p)) = 0
      BY <1>8, <3>2, Zenon
    <3>4. Active(p) = Cardinality(OfProfile(p)) + starting_by[p]
      BY <3>1 DEF Counted
    <3> QED
      BY <3>2, <3>3, <3>4
  <2> QED
    BY <2>1, <2>2, <2>3 DEF CapsOK
<1>11. WakesOK
  BY DEF WakesOK
<1> QED
  BY <1>1, <1>3, <1>4, <1>5, <1>7, <1>9, <1>10, <1>11 DEF IInv, Base, Ledger

\* One pass through get_worker's loop (pantograph_manager.py:119-158).
LEMMA TryLeaseInv ==
    ASSUME Base, Ledger, NEW c \in Clients, NEW k \in Keys, Caller(c), TryLease(c, k)
    PROVE  Kept
BY LeaseIdleCounts, StartNewCounts, EvictIdleCounts, WaitTurnCounts DEF TryLease

\* Every step of every client, and of the shutdown, keeps the invariant.
LEMMA NextInv == IInv /\ [Next]_vars => IInv'
<1> SUFFICES ASSUME IInv, [Next]_vars PROVE IInv'
  OBVIOUS
<1>1. Base /\ Ledger
  BY DEF IInv
<1>2. ASSUME NEW c \in Clients, NEW k \in Keys, Request(c, k) PROVE Kept
  BY <1>1, <1>2, TryLeaseInv DEF Request, Caller
<1>3. ASSUME NEW c \in Clients, Wake(c) PROVE Kept
  <2>1. PICK k : k = client[c].key
    OBVIOUS
  <2>2. k \in Keys /\ Caller(c) /\ TryLease(c, k)
    BY <1>1, <1>3, <2>1 DEF Wake, Caller, Base, ClientsOK, ShapeOK
  <2> QED
    BY <1>1, <2>2, TryLeaseInv
<1>4. ASSUME NEW c \in Clients, TimeOut(c) PROVE Kept
  BY <1>1, <1>4, TimeOutCounts
<1>5. ASSUME NEW c \in Clients, Evicted(c) PROVE Kept
  BY <1>1, <1>5, EvictedCounts
<1>6. ASSUME NEW c \in Clients, Started(c) PROVE Kept
  BY <1>1, <1>6, StartedCounts
<1>7. ASSUME NEW c \in Clients, StartFails(c) PROVE Kept
  BY <1>1, <1>7, StartFailsCounts
<1>8. ASSUME NEW c \in Clients, ReleaseUnknown(c) \/ Closed(c) PROVE Kept
  BY <1>1, <1>8, ReleaseUnknownCounts
<1>9. ASSUME NEW c \in Clients, Release(c) PROVE Kept
  BY <1>1, <1>9, ReleaseCounts
<1>10. ASSUME NEW c \in Clients,
              ReleaseExhausted(c) \/ \E alive \in BOOLEAN : Destroy(c, alive)
       PROVE  Kept
  BY <1>1, <1>10, DestroyCounts
<1>11. ASSUME Cleanup PROVE Kept
  BY <1>1, <1>11, CleanupCounts
<1>12. ASSUME NEW w \in Workers, CleanupClosed(w) PROVE Kept
  BY <1>1, <1>12, CleanupClosedCounts
<1>13. CASE UNCHANGED vars
  BY <1>13 DEF vars, IInv, Base, TypesOK, ClientTypes, LineOK, ClientsOK, HoldsOK, HoldOK,
       PoolOK, Ledger, SettingsOK, StartsExact, CapsOK, WakesOK, Starting, StartersOf,
       Total, Active, HasProfile, At, starts, settings
<1>14. Next => Kept
  BY <1>2, <1>3, <1>4, <1>5, <1>6, <1>7, <1>8, <1>9, <1>10, <1>11, <1>12 DEF Next
<1> QED
  BY <1>13, <1>14 DEF Kept, IInv

\* The invariant holds of every history of the pool.
THEOREM PoolInvariant == Spec => []IInv
BY InitInv, NextInv, PTL DEF Spec

\* The pool's variables keep their types; in particular neither counter of starts
\* falls below zero, although _unmark_starting subtracts without looking
\* (pantograph_manager.py:245-257).
THEOREM PoolTypeCorrect == Spec => []TypeOK
<1>1. IInv => TypeOK
  <2> SUFFICES ASSUME IInv PROVE TypeOK
    OBVIOUS
  <2>1. TypesOK /\ SettingsOK /\ StartsExact /\ starting \in Nat
    BY Types DEF IInv, Base, Ledger, Counted
  <2> QED
    BY <2>1 DEF TypesOK, ClientTypes, SettingsOK, StartsExact, TypeOK
<1> QED
  BY <1>1, PoolInvariant, PTL

\* For any number of clients, keys and profiles, idle workers, leased workers and
\* reserved starts together respect max_workers and the profile's cap, and both
\* counters say exactly how many starts are reserved
\* (pantograph_manager.py:131-144, 177-187, 217-257).
THEOREM PoolCapsRespected == Spec => []CapsRespected
<1>1. IInv => CapsRespected
  BY DEF IInv, Ledger, CapsOK, StartsExact, StartersOf, CapsRespected
<1> QED
  BY <1>1, PoolInvariant, PTL

\* A lease is of the key asked for, and belongs to one client
\* (pantograph_manager.py:121-129, 170-176, 191-206).
THEOREM PoolLeasesExclusive == Spec => []LeasesExclusive
<1>1. IInv => LeasesExclusive
  <2> SUFFICES ASSUME Base, NEW c \in Clients, client[c].pc = "leased"
               PROVE  LET w == client[c].w
                      IN  /\ worker[w].proc # "none" => worker[w].key = client[c].key
                          /\ w \notin Elems(free)
                          /\ \A d \in Clients \ {c} : client[d].w # w
                          /\ worker[w].proc = "up" <=> w \in busy
    BY DEF IInv, LeasesExclusive, At
  <2> QED
    BY HeldFacts DEF Holders, HoldOK, Base, PoolOK
<1> QED
  BY <1>1, PoolInvariant, PTL

\* Every running process is idle in the pool or leased to a client that will give
\* it back, and no idle one is closed or used up
\* (pantograph_manager.py:121-144, 184-210, 266-287).
THEOREM PoolNoWorkerLost == Spec => []NoWorkerLost
<1>1. IInv => NoWorkerLost
  <2> SUFFICES ASSUME Base PROVE NoWorkerLost
    BY DEF IInv
  <2>1. Elems(free) \subseteq Workers /\ busy \subseteq Workers
    BY PoolSubset DEF Pool, Base
  <2>2. {w \in Workers : worker[w].proc = "up"} = Elems(free) \cup busy
    BY <2>1 DEF Base, PoolOK
  <2> QED
    BY <2>2 DEF Base, PoolOK, NoWorkerLost, At
<1> QED
  BY <1>1, PoolInvariant, PTL

\* While the profile cap does not bind, nobody is left waiting for a pool that
\* could serve it: as many tasks are on their way to the pool as it has room for
\* (pantograph_manager.py:152-158, 180, 187, 206, 275).
THEOREM PoolNoLostWakeup == Spec => []NoLostWakeup
<1>1. IInv => NoLostWakeup
  <2> SUFFICES ASSUME Base, Ledger, profile_cap < 0 \/ profile_cap >= max_workers,
                      NEW c \in Clients, client[c].pc = "waiting", CanServe(client[c].key)
               PROVE  At({"notified"}) # {}
    BY DEF IInv, NoLostWakeup, At
  <2>1. waiters # <<>>
    <3>1. c \in Elems(waiters)
      BY DEF Base, LineOK, Lined
    <3> QED
      BY <3>1 DEF Elems
  <2>2. Cardinality(Notified) >= max_workers - Cardinality(busy) - starting
    BY <2>1 DEF Ledger, WakesOK, Notified
  <2>3. /\ Counted /\ Total <= max_workers /\ max_workers \in Nat
    BY Types, SettingsFacts DEF Ledger, CapsOK
  <2>4. max_workers - Cardinality(busy) - starting > 0
    <3>1. CASE MayStart(client[c].key)
      BY <2>3, <3>1 DEF MayStart, Total, Counted
    <3>2. CASE ~MayStart(client[c].key)
      <4>1. DOMAIN free # {}
        BY <3>2 DEF CanServe, Matches, Victims
      <4>2. DOMAIN free = 1..Len(free)
        BY DEF Base, TypesOK
      <4>3. Len(free) > 0
        BY <2>3, <4>1, <4>2 DEF Counted
      <4> QED
        BY <2>3, <4>3 DEF Total, Counted
    <3> QED
      BY <3>1, <3>2
  <2>5. Cardinality(Notified) # 0
    BY <2>2, <2>3, <2>4 DEF Counted
  <2>6. Notified # {}
    BY <2>5, FS_EmptySet
  <2> QED
    BY <2>6 DEF Notified
<1> QED
  BY <1>1, PoolInvariant, PTL
==============================================================================
