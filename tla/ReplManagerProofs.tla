-------------------------- MODULE ReplManagerProofs --------------------------
(***************************************************************************)
(* Proofs about the pool of REPLs behind /check, for any checks, headers,  *)
(* sizes and limits, with and without a database: its variables keep their *)
(* types, no REPL is lost to the pool or shared, no wake-up is lost and a  *)
(* body only runs on a REPL of its header.                                 *)
(*                                                                         *)
(* The four properties share one inductive invariant.  Where ReplsAccounted*)
(* says that the busy REPLs are the ones in use, UsersOK adds what also    *)
(* holds with a database and after shutdown: a REPL in use is out of the   *)
(* free list and has one user.  BodyOnItsHeader needs ReadyOK: a REPL went *)
(* through its header before it was ever given back.  NoLostWakeup needs a *)
(* number: the woken checks and the busy REPLs together fill the pool.     *)
(*                                                                         *)
(* The actions fall into five kinds, one lemma each: a check outside the   *)
(* pool moves (Outsider), takes a REPL (Takes), works with it (Works),     *)
(* parts with it (Parts), or the pool changes under the checks (Same).     *)
(***************************************************************************)
EXTENDS ReplManager, FiniteSetTheorems, TLAPS

\* The checks that use a REPL, and those that will look at the pool.
Users == {q \in Checks : pc[q] \in Holding}
Woken == {q \in Checks : pc[q] = "woken"}

\* A REPL with a header has run it, so that environment 0 is the header's, or
\* none when the header failed.
Ready(r) == header[r] # Blank => uses[r] > 0 /\ env[r] \in {header[r], None}

\* What the pool knows is made; finitely many REPLs are busy and finitely many
\* checks are woken.
PoolOK ==
    /\ Elems(free) \cup busy \subseteq Made
    /\ IsFiniteSet(busy) /\ IsFiniteSet(Woken)

\* A check waits for the database only if there is one.
StepsOK == ~db => \A q \in Checks : pc[q] \notin {"create", "store"}

\* A REPL in use was made for its check's header, is no longer free and is used
\* by one check.
UsersOK ==
    /\ \A q \in Users : /\ lease[q] \in Repls \ Elems(free)
                        /\ header[lease[q]] = wants[q]
    /\ \A q, c \in Users : lease[q] = lease[c] => q = c

\* A free REPL has run its header, and one in use before its body is sent.
ReadyOK ==
    /\ \A r \in Elems(free) : Ready(r)
    /\ \A q \in Users : pc[q] = "body" \/ (pc[q] = "prep" /\ lease[q] \in running)
                            => Ready(lease[q])

\* Without a database and until shutdown the busy REPLs are the ones in use, and
\* while some check waits, those that will look at the pool make up for the
\* places that nothing occupies.
CountsOK ==
    ~db /\ ~down =>
        /\ Len(free) + Cardinality(busy) <= MaxRepls
        /\ busy = Leased
        /\ running \subseteq busy \cup Elems(free)
        /\ waiters # <<>> => Cardinality(Woken) + Cardinality(busy) >= MaxRepls

IInv == TypeOK /\ PoolOK /\ StepsOK /\ UsersOK /\ ReadyOK /\ CountsOK

-----------------------------------------------------------------------------
\* What _free.pop(i) leaves of a list without repetitions (manager.py:95).
LEMMA RemovedAtFacts ==
    ASSUME NEW S, NEW q \in Seq(S), NEW i \in DOMAIN q, NoRepeats(q)
    PROVE  /\ RemovedAt(q, i) \in Seq(S)
           /\ Len(RemovedAt(q, i)) = Len(q) - 1
           /\ NoRepeats(RemovedAt(q, i))
           /\ Elems(RemovedAt(q, i)) = Elems(q) \ {q[i]}
           /\ q[i] \in S /\ q[i] \in Elems(q)
<1> DEFINE r == RemovedAt(q, i)
           at(j) == IF j < i THEN j ELSE j + 1
           n == Len(q) - 1
<1>1. /\ Len(q) \in Nat \ {0} /\ i \in 1..Len(q) /\ DOMAIN q = 1..Len(q)
      /\ \A j \in 1..Len(q) : q[j] \in S
  OBVIOUS
<1>2. n \in Nat
  BY <1>1
<1>3. /\ \A j \in 1..n : at(j) \in 1..Len(q) /\ at(j) # i
      /\ \A j, m \in 1..n : at(j) = at(m) => j = m
  BY <1>1
<1>4. ASSUME NEW j \in 1..Len(q), j # i
      PROVE  \E m \in 1..n : at(m) = j
  <2>1. CASE j < i
    <3>1. j \in 1..n /\ at(j) = j
      BY <1>1, <2>1
    <3> QED
      BY <3>1
  <2>2. CASE j > i
    <3>1. j - 1 \in 1..n /\ at(j - 1) = j
      BY <1>1, <2>2
    <3> QED
      BY <3>1
  <2> QED
    BY <1>1, <1>4, <2>1, <2>2
<1>5. DOMAIN r = 1..n /\ \A j \in 1..n : r[j] = q[at(j)]
  BY DEF RemovedAt
<1>6. r \in Seq(S) /\ Len(r) = n
  <2>1. r = [j \in 1..n |-> q[at(j)]] /\ \A j \in 1..n : q[at(j)] \in S
    BY <1>1, <1>3 DEF RemovedAt
  <2> HIDE DEF n, at, r
  <2> QED
    BY <1>2, <2>1
<1> HIDE DEF r, at, n
<1>7. NoRepeats(r)
  BY <1>1, <1>3, <1>5 DEF NoRepeats
<1>8. Elems(r) \subseteq Elems(q) \ {q[i]}
  BY <1>1, <1>3, <1>5 DEF Elems, NoRepeats
<1>9. Elems(q) \ {q[i]} \subseteq Elems(r)
  <2> SUFFICES ASSUME NEW j \in 1..Len(q), q[j] # q[i]
               PROVE  q[j] \in Elems(r)
    BY <1>1 DEF Elems
  <2>1. PICK m \in 1..n : at(m) = j
    BY <1>4
  <2> QED
    BY <1>5, <2>1 DEF Elems
<1>10. q[i] \in S /\ q[i] \in Elems(q)
  BY <1>1 DEF Elems
<1> QED
  BY <1>6, <1>7, <1>8, <1>9, <1>10 DEF r, n

\* What _free.remove(repl) leaves of it, and wait() of the condition's list
\* (manager.py:140, 123).
LEMMA WithoutFacts ==
    ASSUME NEW S, NEW q \in Seq(S), NEW x, NoRepeats(q)
    PROVE  /\ Without(q, x) \in Seq(S)
           /\ NoRepeats(Without(q, x))
           /\ Elems(Without(q, x)) = Elems(q) \ {x}
           /\ x \notin Elems(q) => Without(q, x) = q
<1>1. CASE x \notin Elems(q)
  BY <1>1 DEF Without
<1>2. CASE x \in Elems(q)
  <2>1. \E i \in DOMAIN q : q[i] = x
    BY <1>2 DEF Elems
  <2>2. PICK i \in DOMAIN q : i = (CHOOSE j \in DOMAIN q : q[j] = x) /\ q[i] = x
    BY <2>1
  <2>3. Without(q, x) = RemovedAt(q, i)
    BY <1>2, <2>2 DEF Without
  <2> QED
    BY <1>2, <2>2, <2>3, RemovedAtFacts
<1> QED
  BY <1>1, <1>2

\* What is left without the REPL that was given back first (manager.py:107-110),
\* and without the check that is notified.
LEMMA TailFacts ==
    ASSUME NEW S, NEW q \in Seq(S), q # <<>>, NoRepeats(q)
    PROVE  /\ Tail(q) \in Seq(S) /\ Len(Tail(q)) = Len(q) - 1
           /\ NoRepeats(Tail(q))
           /\ Head(q) \in S /\ Head(q) \in Elems(q)
           /\ Elems(Tail(q)) = Elems(q) \ {Head(q)}
<1>1. /\ Len(q) \in Nat \ {0} /\ DOMAIN q = 1..Len(q) /\ Head(q) = q[1]
      /\ \A j \in 1..Len(q) : q[j] \in S
  OBVIOUS
<1>2. 1 \in DOMAIN q
  BY <1>1
<1>3. /\ Tail(q) \in Seq(S) /\ Len(Tail(q)) = Len(q) - 1
      /\ DOMAIN Tail(q) = 1..(Len(q) - 1)
      /\ \A j \in 1..(Len(q) - 1) : Tail(q)[j] = q[j + 1]
  BY <1>1
<1>4. Tail(q) = RemovedAt(q, 1)
  <2>1. /\ DOMAIN RemovedAt(q, 1) = 1..(Len(q) - 1)
        /\ \A j \in 1..(Len(q) - 1) : RemovedAt(q, 1)[j] = q[j + 1]
    BY <1>1 DEF RemovedAt
  <2>2. RemovedAt(q, 1) \in Seq(S)
    BY <1>2, RemovedAtFacts
  <2> QED
    BY <1>3, <2>1, <2>2
<1>5. /\ NoRepeats(RemovedAt(q, 1))
      /\ Elems(RemovedAt(q, 1)) = Elems(q) \ {q[1]}
      /\ q[1] \in S /\ q[1] \in Elems(q)
  BY <1>2, RemovedAtFacts
<1> QED
  BY <1>1, <1>3, <1>4, <1>5

\* The list grows by release_repl (manager.py:163) and by Condition.wait().
LEMMA AppendFacts ==
    ASSUME NEW S, NEW q \in Seq(S), NEW x \in S, x \notin Elems(q), NoRepeats(q)
    PROVE  /\ Append(q, x) \in Seq(S) /\ Len(Append(q, x)) = Len(q) + 1
           /\ NoRepeats(Append(q, x))
           /\ Elems(Append(q, x)) = Elems(q) \cup {x}
<1> DEFINE r == Append(q, x)
<1>1. /\ r \in Seq(S) /\ Len(r) = Len(q) + 1 /\ r[Len(q) + 1] = x /\ Len(q) \in Nat
      /\ \A j \in 1..Len(q) : r[j] = q[j]
      /\ DOMAIN q = 1..Len(q) /\ DOMAIN r = 1..(Len(q) + 1)
  OBVIOUS
<1> HIDE DEF r
<1>2. 1..(Len(q) + 1) = (1..Len(q)) \cup {Len(q) + 1}
  BY <1>1
<1>3. Elems(r) = Elems(q) \cup {x}
  BY <1>1, <1>2 DEF Elems
<1>4. NoRepeats(r)
  BY <1>1, <1>2 DEF Elems, NoRepeats
<1> QED
  BY <1>1, <1>3, <1>4 DEF r

-----------------------------------------------------------------------------
\* The waiting checks are the ones in the condition's list, each once.
LineOK ==
    /\ pc \in [Checks -> Steps]
    /\ waiters \in Seq(Checks) /\ NoRepeats(waiters)
    /\ \A q \in Checks : pc[q] = "wait" <=> q \in Elems(waiters)

\* q goes to `to`, the others only from "wait" to "woken".
StepOf(q, to) ==
    /\ LineOK'
    /\ pc'[q] = to
    /\ \A c \in Checks \ {q} : \/ pc'[c] = pc[c]
                               \/ pc[c] = "wait" /\ pc'[c] = "woken"

\* A check moves without touching the condition.
LEMMA QuietStep ==
    ASSUME LineOK, NEW q \in Checks, pc[q] # "wait",
           NEW to \in Steps \ Waiting, Moves(q, to)
    PROVE  StepOf(q, to) /\ waiters' = waiters /\ Woken' = Woken \ {q}
<1>1. /\ pc' = [pc EXCEPT ![q] = to] /\ waiters' = waiters
      /\ pc \in [Checks -> Steps] /\ to \in Steps
  BY DEF Moves, LineOK
<1>2. /\ pc' \in [Checks -> Steps] /\ pc'[q] = to
      /\ \A c \in Checks \ {q} : pc'[c] = pc[c]
  BY <1>1
<1>3. to # "wait" /\ to # "woken"
  BY DEF Waiting
<1>4. StepOf(q, to)
  BY <1>1, <1>2, <1>3 DEF StepOf, LineOK
<1> QED
  BY <1>1, <1>2, <1>3, <1>4 DEF Woken

\* A check falls asleep on the condition (manager.py:123).
LEMMA WaitStep ==
    ASSUME LineOK, NEW q \in Checks, pc[q] # "wait",
           pc' = [pc EXCEPT ![q] = "wait"], waiters' = Append(waiters, q)
    PROVE  StepOf(q, "wait") /\ Woken' = Woken \ {q}
<1>1. /\ pc' \in [Checks -> Steps] /\ pc'[q] = "wait"
      /\ \A c \in Checks \ {q} : pc'[c] = pc[c]
  BY DEF LineOK, Steps, Waiting
<1>2. q \notin Elems(waiters)
  BY DEF LineOK
<1>3. waiters' \in Seq(Checks) /\ NoRepeats(waiters') /\ Elems(waiters') = Elems(waiters) \cup {q}
  BY <1>2, AppendFacts DEF LineOK
<1>4. \A c \in Checks : pc'[c] = "wait" <=> c \in Elems(waiters')
  BY <1>1, <1>3 DEF LineOK
<1>5. Elems(waiters)' = Elems(waiters') /\ NoRepeats(waiters)' = NoRepeats(waiters')
  BY DEF Elems, NoRepeats
<1> QED
  BY <1>1, <1>3, <1>4, <1>5 DEF StepOf, LineOK, Woken

\* notify(1) wakes one sleeping check, unless none is left (manager.py:142, 166).
LEMMA NotifyStep ==
    ASSUME LineOK, NEW q \in Checks, NEW to \in Steps \ Waiting,
           NEW W \in Seq(Checks), NoRepeats(W), Elems(W) = Elems(waiters) \ {q},
           IsFiniteSet(Woken), Notify(q, to, W)
    PROVE  /\ StepOf(q, to)
           /\ IsFiniteSet(Woken') /\ Woken \ {q} \subseteq Woken'
           /\ waiters' # <<>> => \E h \in Woken' : h \notin Woken \cup {q}
<1>1. to \in Steps /\ to # "wait" /\ to # "woken"
  BY DEF Waiting
<1>2. /\ pc' = [c \in Checks |-> IF c = q THEN to
                                 ELSE IF W # <<>> /\ c = Head(W) THEN "woken" ELSE pc[c]]
      /\ waiters' = IF W = <<>> THEN W ELSE Tail(W)
  BY DEF Notify
<1>3. pc \in [Checks -> Steps] /\ \A c \in Checks : pc[c] = "wait" <=> c \in Elems(waiters)
  BY DEF LineOK
<1>4. pc' \in [Checks -> Steps] /\ pc'[q] = to
  BY <1>1, <1>2, <1>3 DEF Steps, Waiting
<1>5. CASE W = <<>>
  <2>1. waiters' = W /\ Elems(W) = {}
    BY <1>2, <1>5 DEF Elems
  <2>2. \A c \in Checks \ {q} : pc'[c] = pc[c] /\ pc[c] # "wait"
    BY <1>2, <1>3, <1>5, <2>1
  <2>3. LineOK'
    <3>1. \A c \in Checks : pc'[c] = "wait" <=> c \in Elems(W)
      BY <1>1, <1>4, <2>1, <2>2
    <3> QED
      BY <1>4, <2>1, <3>1 DEF LineOK
  <2>4. Woken' = Woken \ {q}
    BY <1>1, <1>4, <2>2 DEF Woken
  <2>5. IsFiniteSet(Woken \ {q})
    BY FS_RemoveElement
  <2> QED
    BY <1>4, <1>5, <2>1, <2>2, <2>3, <2>4, <2>5 DEF StepOf
<1>6. CASE W # <<>>
  <2> DEFINE h == Head(W)
  <2>1. /\ Tail(W) \in Seq(Checks) /\ NoRepeats(Tail(W))
        /\ h \in Checks /\ h \in Elems(W)
        /\ Elems(Tail(W)) = Elems(W) \ {h}
    BY <1>6, TailFacts
  <2>2. waiters' = Tail(W)
    BY <1>2, <1>6
  <2>3. h # q /\ pc[h] = "wait" /\ pc'[h] = "woken"
    BY <1>2, <1>3, <1>6, <2>1
  <2>4. \A c \in Checks \ {q, h} : pc'[c] = pc[c]
    BY <1>2
  <2> HIDE DEF h
  <2>5. LineOK'
    <3>1. \A c \in Checks : pc'[c] = "wait" <=> c \in Elems(waiters')
      BY <1>1, <1>3, <1>4, <2>1, <2>2, <2>3, <2>4
    <3>2. waiters' \in Seq(Checks) /\ NoRepeats(waiters')
      BY <2>1, <2>2
    <3> QED
      BY <1>4, <3>1, <3>2 DEF LineOK, Elems, NoRepeats
  <2>6. Woken' = (Woken \ {q}) \cup {h}
    BY <1>1, <1>4, <2>1, <2>3, <2>4 DEF Woken
  <2>7. IsFiniteSet(Woken')
    BY <2>6, FS_RemoveElement, FS_AddElement
  <2>8. h \in Woken' /\ h \notin Woken \cup {q}
    BY <2>3, <2>6 DEF Woken
  <2> QED
    BY <1>4, <2>3, <2>4, <2>5, <2>6, <2>7, <2>8 DEF StepOf
<1> QED
  BY <1>5, <1>6

\* A step of one check makes no other check a user of a REPL.
LEMMA UsersStep ==
    ASSUME NEW q \in Checks, NEW to, StepOf(q, to)
    PROVE  /\ Users' \ {q} = Users \ {q}
           /\ q \in Users' <=> to \in Holding
           /\ \A c \in Users' \ {q} : pc'[c] = pc[c]
BY DEF StepOf, Users, Holding

\* What a woken check less, and another one more, make of the number of the
\* woken ones.
LEMMA WokenCount ==
    ASSUME IsFiniteSet(Woken), IsFiniteSet(Woken'), NEW q, Woken \ {q} \subseteq Woken'
    PROVE  /\ Cardinality(Woken) \in Nat /\ Cardinality(Woken') \in Nat
           /\ Cardinality(Woken') >= Cardinality(Woken) - 1
           /\ (\E h \in Woken' : h \notin Woken \cup {q})
                => /\ Cardinality(Woken') >= Cardinality(Woken)
                   /\ q \notin Woken => Cardinality(Woken') >= Cardinality(Woken) + 1
           /\ q \notin Woken => Cardinality(Woken') >= Cardinality(Woken)
<1> DEFINE R == Woken \ {q}
<1>1. Cardinality(Woken) \in Nat /\ Cardinality(Woken') \in Nat
  BY FS_CardinalityType
<1>2. IsFiniteSet(R) /\ Cardinality(R) = IF q \in Woken THEN Cardinality(Woken) - 1
                                                        ELSE Cardinality(Woken)
  BY FS_RemoveElement
<1>3. Cardinality(R) <= Cardinality(Woken')
  BY FS_Subset
<1>4. ASSUME NEW h \in Woken', h \notin Woken \cup {q}
      PROVE  Cardinality(R) + 1 <= Cardinality(Woken')
  <2>1. R \cup {h} \subseteq Woken' /\ h \notin R
    BY <1>4
  <2>2. Cardinality(R \cup {h}) = Cardinality(R) + 1
    BY <1>2, <2>1, FS_AddElement
  <2>3. Cardinality(R \cup {h}) <= Cardinality(Woken')
    BY <2>1, FS_Subset
  <2> QED
    BY <2>2, <2>3
<1> HIDE DEF R
<1> QED
  BY <1>1, <1>2, <1>3, <1>4

-----------------------------------------------------------------------------
\* The types of the variables that are not the condition's.
PoolTypes ==
    /\ db \in BOOLEAN /\ down \in BOOLEAN
    /\ wants \in [Checks -> Headers] /\ reuse \in [Checks -> BOOLEAN]
    /\ lease \in [Checks -> Repls \cup {0}]
    /\ free \in Seq(Repls) /\ NoRepeats(free)
    /\ busy \subseteq Repls \ Elems(free)
    /\ header \in [Repls -> Headers \cup {None}]
    /\ running \subseteq Made
    /\ uses \in [Repls -> Nat]
    /\ env \in [Repls -> Headers \cup Checks \cup {None}]

\* TypeOK in two halves, the condition and the pool, now and in the next state.
LEMMA Types == TypeOK <=> LineOK /\ PoolTypes
BY DEF TypeOK, LineOK, PoolTypes, Made

\* The same of the next state.
LEMMA TypesNext == TypeOK' <=> LineOK' /\ PoolTypes'
BY Types, PTL

\* A check outside the pool moves on.
LEMMA OutsiderKeeps ==
    ASSUME IInv, NEW q \in Checks, NEW to \in Steps \ Holding, StepOf(q, to),
           pc[q] \notin Holding, UNCHANGED <<db, down, wants, reuse, pool>>,
           lease' \in [Checks -> Repls \cup {0}],
           \A c \in Checks \ {q} : lease'[c] = lease[c],
           db \/ to \notin {"create", "store"},
           IsFiniteSet(Woken'),
           ~db /\ ~down /\ waiters' # <<>>
               => Cardinality(Woken') + Cardinality(busy) >= MaxRepls
    PROVE  IInv'
<1>1. /\ db' = db /\ down' = down /\ wants' = wants /\ reuse' = reuse
      /\ free' = free /\ busy' = busy /\ header' = header /\ running' = running
      /\ uses' = uses /\ env' = env
  BY DEF pool
<1>2. LineOK' /\ Users' = Users /\ \A c \in Users : c # q /\ pc'[c] = pc[c] /\ lease'[c] = lease[c]
  BY UsersStep DEF StepOf, Users
<1>3. PoolTypes'
  BY <1>1, Types DEF IInv, PoolTypes, Made, Elems, NoRepeats
<1>4. TypeOK'
  BY <1>2, <1>3, TypesNext
<1>5. PoolOK'
  BY <1>1 DEF IInv, PoolOK, Made, Elems
<1>6. StepsOK'
  BY <1>1 DEF IInv, StepsOK, StepOf
<1>7. UsersOK'
  BY <1>1, <1>2 DEF IInv, UsersOK, Elems
<1>8. ReadyOK'
  <2>1. \A r : Ready(r)' <=> Ready(r)
    BY <1>1 DEF Ready
  <2>2. \A c \in Users : (lease[c] \in Repls /\ Ready(lease[c]))' <=> lease[c] \in Repls /\ Ready(lease[c])
    BY <1>1, <1>2 DEF Ready
  <2>3. Elems(free)' = Elems(free)
    BY <1>1 DEF Elems
  <2>4. \A c \in Users : lease[c] \in Repls
    BY DEF IInv, UsersOK
  <2> QED
    BY <1>1, <1>2, <2>1, <2>2, <2>3, <2>4 DEF IInv, ReadyOK
<1>9. Leased' = Leased
  BY <1>2 DEF Leased, Users
<1>10. CountsOK'
  BY <1>1, <1>9 DEF IInv, CountsOK, Elems
<1> QED
  BY <1>4, <1>5, <1>6, <1>7, <1>8, <1>10 DEF IInv

\* What the other lemmas need of the types.
LEMMA LineFacts ==
    ASSUME IInv
    PROVE  /\ LineOK /\ IsFiniteSet(Woken) /\ waiters \in Seq(Checks) /\ NoRepeats(waiters)
           /\ lease \in [Checks -> Repls \cup {0}]
           /\ IsFiniteSet(busy) /\ Cardinality(busy) \in Nat
           /\ free \in Seq(Repls) /\ Len(free) \in Nat /\ NoRepeats(free)
           /\ MaxRepls \in Nat
BY Types, FS_CardinalityType, ReplAssumption DEF IInv, PoolOK, PoolTypes, LineOK

\* A snippet comes in (check.py:69).
LEMMA ArriveKeeps == ASSUME IInv, NEW q \in Checks, Arrive(q) PROVE IInv'
<1>1. /\ pc[q] = "new" /\ Moves(q, "get")
      /\ UNCHANGED <<db, down, wants, reuse, lease, pool>>
  BY DEF Arrive
<1>2. "get" \in Steps \ Waiting /\ "get" \in Steps \ Holding /\ pc[q] \notin Holding
  BY <1>1 DEF Steps, Waiting, Holding
<1>3. StepOf(q, "get") /\ waiters' = waiters /\ Woken' = Woken \ {q}
  BY <1>1, <1>2, LineFacts, QuietStep
<1>4. Woken' = Woken
  BY <1>1, <1>3 DEF Woken
<1> QED
  BY <1>1, <1>2, <1>3, <1>4, LineFacts, OutsiderKeeps DEF IInv, CountsOK

\* get_repl() falls asleep only when the pool is full and nothing is free
\* (manager.py:102-123).
LEMMA GetWaitsKeeps == ASSUME IInv, NEW q \in Checks, GetWaits(q) PROVE IInv'
<1>1. /\ pc[q] \in {"get", "woken"} /\ ~Room /\ free = <<>>
      /\ pc' = [pc EXCEPT ![q] = "wait"] /\ waiters' = Append(waiters, q)
      /\ UNCHANGED <<db, down, wants, reuse, lease, pool>>
  BY DEF GetWaits
<1>2. "wait" \in Steps \ Holding /\ pc[q] \notin Holding /\ pc[q] # "wait"
  BY <1>1 DEF Steps, Waiting, Holding
<1>3. StepOf(q, "wait") /\ Woken' = Woken \ {q}
  BY <1>1, <1>2, LineFacts, WaitStep
<1>4. IsFiniteSet(Woken') /\ Cardinality(Woken') \in Nat
  BY <1>3, LineFacts, FS_RemoveElement, FS_CardinalityType
<1>5. Cardinality(busy) >= MaxRepls
  BY <1>1, LineFacts DEF Room
<1>6. Cardinality(Woken') + Cardinality(busy) >= MaxRepls
  BY <1>4, <1>5, LineFacts
<1> QED
  BY <1>1, <1>2, <1>3, <1>4, <1>6, LineFacts, OutsiderKeeps

\* A wait ends by its timeout or a cancellation, and its wake-up goes to another.
LEMMA WaitEndsKeeps ==
    ASSUME IInv, NEW q \in Checks, pc[q] \in Waiting,
           Notify(q, "done", Without(waiters, q)),
           UNCHANGED <<db, down, wants, reuse, lease, pool>>
    PROVE  IInv'
<1>1. "done" \in Steps \ Waiting /\ "done" \in Steps \ Holding /\ pc[q] \notin Holding
  BY DEF Steps, Waiting, Holding, Idle
<1> DEFINE W == Without(waiters, q)
<1>2. W \in Seq(Checks) /\ NoRepeats(W) /\ Elems(W) = Elems(waiters) \ {q}
  BY LineFacts, WithoutFacts
<1>3. /\ StepOf(q, "done")
      /\ IsFiniteSet(Woken') /\ Woken \ {q} \subseteq Woken'
      /\ waiters' # <<>> => \E h \in Woken' : h \notin Woken \cup {q}
  BY <1>1, <1>2, LineFacts, NotifyStep
<1>4. waiters' # <<>> => W # <<>> /\ waiters # <<>>
  <2>1. CASE W = <<>>
    BY <2>1 DEF Notify
  <2>2. CASE waiters = <<>>
    <3>1. W = waiters
      BY <2>2 DEF Without, Elems
    <3> QED
      BY <2>1, <2>2, <3>1
  <2> QED
    BY <2>1, <2>2
<1>5. ASSUME ~db, ~down, waiters' # <<>>
      PROVE  Cardinality(Woken') + Cardinality(busy) >= MaxRepls
  <2>1. Cardinality(Woken) + Cardinality(busy) >= MaxRepls
    BY <1>4, <1>5 DEF IInv, CountsOK
  <2>2. /\ Cardinality(Woken) \in Nat /\ Cardinality(Woken') \in Nat
        /\ Cardinality(Woken') >= Cardinality(Woken)
    BY <1>3, <1>5, LineFacts, WokenCount
  <2> QED
    BY <2>1, <2>2, LineFacts
<1> QED
  BY <1>1, <1>3, <1>5, LineFacts, OutsiderKeeps

\* A check leaves without having had a REPL, or after its answer is stored.
LEMMA LeavesKeeps ==
    ASSUME IInv, NEW q \in Checks, pc[q] \in {"get", "create", "store"}, Moves(q, "done"),
           UNCHANGED <<db, down, wants, reuse, pool>>,
           lease' \in {lease, [lease EXCEPT ![q] = 0]}
    PROVE  IInv'
<1>1. "done" \in Steps \ Waiting /\ "done" \in Steps \ Holding /\ pc[q] \notin Holding
      /\ pc[q] # "wait" /\ pc[q] # "woken"
  BY DEF Steps, Waiting, Holding, Idle
<1>2. StepOf(q, "done") /\ waiters' = waiters /\ Woken' = Woken \ {q}
  BY <1>1, LineFacts, QuietStep
<1>3. Woken' = Woken
  BY <1>1, <1>2 DEF Woken
<1>4. lease' \in [Checks -> Repls \cup {0}] /\ \A c \in Checks \ {q} : lease'[c] = lease[c]
  BY LineFacts
<1> QED
  BY <1>1, <1>2, <1>3, <1>4, LineFacts, OutsiderKeeps DEF IInv, CountsOK

-----------------------------------------------------------------------------
\* A check takes the REPL r, free until now or new.
LEMMA TakesKeeps ==
    ASSUME IInv, NEW q \in Checks, pc[q] \in {"get", "woken", "create"},
           StepOf(q, "prep"), waiters' = waiters, Woken' = Woken \ {q},
           UNCHANGED <<db, down, wants, reuse, uses, env>>,
           NEW r \in Repls, r \notin busy, \A c \in Users : lease[c] # r,
           busy' = busy \cup {r}, lease' = [lease EXCEPT ![q] = r],
           free' \in Seq(Repls), NoRepeats(free'), Elems(free') \subseteq Elems(free) \ {r},
           running' \subseteq running,
           header' = [header EXCEPT ![r] = wants[q]],
           r \in Made => header[r] = wants[q] /\ r \in Elems(free),
           ~db /\ ~down => /\ Len(free') + Cardinality(busy) < MaxRepls
                           /\ running' \subseteq busy \cup {r} \cup Elems(free')
    PROVE  IInv'
<1>1. /\ db' = db /\ down' = down /\ wants' = wants /\ reuse' = reuse
      /\ uses' = uses /\ env' = env
  OBVIOUS
<1>2. /\ PoolTypes /\ LineOK' /\ pc'[q] = "prep" /\ q \notin Users /\ Users' = Users \cup {q}
      /\ \A c \in Users : pc'[c] = pc[c]
  BY Types, UsersStep DEF StepOf, Users, Holding, IInv
<1>3. wants[q] \in Headers /\ wants[q] # None
  BY <1>2, ReplAssumption DEF PoolTypes
<1>4. /\ header' \in [Repls -> Headers \cup {None}]
      /\ header'[r] = wants[q]
      /\ \A s \in Repls \ {r} : header'[s] = header[s]
      /\ \A s \in Made : header'[s] = header[s]
  BY <1>2, <1>3 DEF PoolTypes, Made
<1>5. /\ lease' \in [Checks -> Repls \cup {0}] /\ lease'[q] = r
      /\ \A c \in Checks \ {q} : lease'[c] = lease[c]
  BY <1>2 DEF PoolTypes
<1>6. Elems(free)' = Elems(free') /\ NoRepeats(free)' = NoRepeats(free')
  BY DEF Elems, NoRepeats
<1>7. Made' = Made \cup {r}
  BY <1>3, <1>4 DEF Made
<1>8. PoolTypes'
  <2>1. busy' \subseteq Repls \ Elems(free')
    BY <1>2 DEF PoolTypes
  <2>2. running' \subseteq Made'
    BY <1>2, <1>7 DEF PoolTypes
  <2> QED
    BY <1>1, <1>2, <1>4, <1>5, <1>6, <2>1, <2>2 DEF PoolTypes
<1>9. TypeOK'
  BY <1>2, <1>8, TypesNext
<1>10. PoolOK'
  <2>1. IsFiniteSet(busy') /\ IsFiniteSet(Woken')
    BY LineFacts, FS_AddElement, FS_RemoveElement
  <2> QED
    BY <1>6, <1>7, <2>1 DEF PoolOK, IInv
<1>11. StepsOK'
  BY <1>1 DEF IInv, StepsOK, StepOf
<1>12. UsersOK'
  <2>1. ASSUME NEW c \in Users
        PROVE  lease'[c] \in Repls \ Elems(free') /\ header'[lease'[c]] = wants[c]
    BY <1>2, <1>4, <1>5 DEF IInv, UsersOK, Users
  <2>2. \A c, d \in Users \cup {q} : lease'[c] = lease'[d] => c = d
    BY <1>2, <1>5 DEF IInv, UsersOK, Users
  <2> QED
    BY <1>1, <1>2, <1>4, <1>5, <1>6, <2>1, <2>2 DEF UsersOK
<1>13. ReadyOK'
  <2>1. ASSUME NEW s \in Made
        PROVE  Ready(s)' <=> Ready(s)
    BY <1>1, <1>4 DEF Ready
  <2>2. \A s \in Elems(free') : Ready(s)'
    BY <2>1 DEF IInv, PoolOK, ReadyOK
  <2>3. ASSUME NEW c \in Users, pc[c] = "body" \/ (pc[c] = "prep" /\ lease[c] \in running)
        PROVE  Ready(lease[c])'
    <3>1. PICK s \in Repls : s = lease[c] /\ s # r
      BY DEF IInv, UsersOK
    <3>2. s \in Made
      BY <1>2, <1>3, <3>1, ReplAssumption DEF Made, IInv, UsersOK, Users, PoolTypes
    <3>3. Ready(s)'
      BY <2>1, <2>3, <3>1, <3>2 DEF IInv, ReadyOK
    <3>4. lease'[c] = s
      BY <1>2, <1>5, <3>1 DEF Users
    <3> QED
      BY <3>3, <3>4 DEF Ready
  <2>4. r \in running => Ready(r)'
    BY <2>1, <1>2 DEF IInv, PoolOK, ReadyOK, PoolTypes
  <2>5. r \in running' => Ready(lease[q])'
    BY <1>5, <2>4 DEF Ready
  <2> QED
    BY <1>2, <1>5, <1>6, <2>2, <2>3, <2>5 DEF ReadyOK, Users
<1>14. ASSUME ~db, ~down
       PROVE  /\ Len(free') + Cardinality(busy') <= MaxRepls
              /\ busy' = Leased'
              /\ running' \subseteq busy' \cup Elems(free')
              /\ waiters' # <<>> => Cardinality(Woken') + Cardinality(busy') >= MaxRepls
  <2>1. Cardinality(busy') = Cardinality(busy) + 1
    BY LineFacts, FS_AddElement
  <2>2. Len(free') \in Nat
    OBVIOUS
  <2>3. busy = {lease[c] : c \in Users}
    BY <1>14 DEF IInv, CountsOK, Leased, Users
  <2>4. Leased' = {lease'[c] : c \in Users \cup {q}}
    BY <1>2 DEF Leased, Users
  <2>5. busy' = Leased'
    BY <1>2, <1>5, <2>3, <2>4 DEF Users
  <2>6. IsFiniteSet(Woken') /\ Woken \ {q} \subseteq Woken'
    BY LineFacts, FS_RemoveElement
  <2>7. waiters # <<>> => Cardinality(Woken) + Cardinality(busy) >= MaxRepls
    BY <1>14 DEF IInv, CountsOK
  <2>8. waiters # <<>> => Cardinality(Woken') + Cardinality(busy') >= MaxRepls
    <3>1. /\ Cardinality(Woken) \in Nat /\ Cardinality(Woken') \in Nat
          /\ Cardinality(Woken') >= Cardinality(Woken) - 1
      BY <2>6, LineFacts, WokenCount
    <3> QED
      BY <2>1, <2>7, <3>1, LineFacts
  <2> QED
    BY <1>14, <2>1, <2>2, <2>5, <2>8, LineFacts
<1>15. CountsOK'
  BY <1>1, <1>6, <1>14 DEF CountsOK
<1> QED
  BY <1>9, <1>10, <1>11, <1>12, <1>13, <1>15 DEF IInv

\* get_repl() takes the first free REPL of the header (manager.py:91-101).
LEMMA GetReusedKeeps == ASSUME IInv, NEW q \in Checks, GetReused(q) PROVE IInv'
<1>1. /\ pc[q] \in {"get", "woken"} /\ Moves(q, "prep")
      /\ UNCHANGED <<db, down, wants, reuse, header, running, uses, env>>
  BY DEF GetReused
<1>2. PICK i \in Reusable(q) : /\ free' = RemovedAt(free, i)
                               /\ busy' = busy \cup {free[i]}
                               /\ lease' = [lease EXCEPT ![q] = free[i]]
  BY DEF GetReused
<1>3. i \in DOMAIN free /\ header[free[i]] = wants[q]
  BY <1>2 DEF Reusable
<1>4. PICK r \in Repls : r = free[i]
  BY <1>3, LineFacts
<1>5. /\ free' \in Seq(Repls) /\ NoRepeats(free') /\ Len(free') = Len(free) - 1
      /\ Elems(free') = Elems(free) \ {r} /\ r \in Elems(free)
  BY <1>2, <1>3, <1>4, LineFacts, RemovedAtFacts
<1>6. "prep" \in Steps \ Waiting /\ pc[q] # "wait"
  BY <1>1 DEF Steps, Waiting, Holding
<1>7. StepOf(q, "prep") /\ waiters' = waiters /\ Woken' = Woken \ {q}
  BY <1>1, <1>6, LineFacts, QuietStep
<1>8. r \notin busy /\ (\A c \in Users : lease[c] # r) /\ header \in [Repls -> Headers \cup {None}]
  BY <1>5, Types DEF IInv, UsersOK, PoolTypes
<1>9. header' = [header EXCEPT ![r] = wants[q]]
  BY <1>1, <1>3, <1>4, <1>8
<1>10. ~db /\ ~down => /\ Len(free') + Cardinality(busy) < MaxRepls
                       /\ running' \subseteq busy \cup {r} \cup Elems(free')
  <2>1. ~db /\ ~down => /\ Len(free) + Cardinality(busy) <= MaxRepls
                        /\ running \subseteq busy \cup Elems(free)
    BY DEF IInv, CountsOK
  <2> QED
    BY <1>1, <1>5, <2>1, LineFacts
<1> QED
  BY <1>1, <1>2, <1>3, <1>4, <1>5, <1>7, <1>8, <1>9, <1>10, TakesKeeps

\* A new REPL, when there is room for it or once the oldest free one is evicted.
LEMMA StartNewKeeps ==
    ASSUME IInv, NEW q \in Checks, pc[q] \in {"get", "woken", "create"}, Moves(q, "prep"),
           NEW r \in Repls, StartNew(q, r), UNCHANGED <<db, down, wants, reuse>>,
           \/ free' = free /\ running' = running /\ (Room \/ db)
           \/ free # <<>> /\ free' = Tail(free) /\ running' = running \ {Head(free)}
    PROVE  IInv'
<1>1. /\ r \notin Made /\ header' = [header EXCEPT ![r] = wants[q]]
      /\ busy' = busy \cup {r} /\ lease' = [lease EXCEPT ![q] = r]
      /\ uses' = uses /\ env' = env
  BY DEF StartNew
<1>2. /\ r \notin busy /\ r \notin Elems(free) /\ running \subseteq Made
      /\ \A c \in Users : lease[c] # r
  <2>1. ASSUME NEW c \in Users PROVE lease[c] \in Made
    <3>1. lease[c] \in Repls /\ header[lease[c]] = wants[c] /\ wants[c] \in Headers
      BY <2>1, Types DEF IInv, UsersOK, PoolTypes, Users
    <3> QED
      BY <3>1, ReplAssumption DEF Made
  <2> QED
    BY <1>1, <2>1, Types DEF IInv, PoolOK, PoolTypes
<1>3. "prep" \in Steps \ Waiting /\ pc[q] # "wait"
  BY DEF Steps, Waiting, Holding
<1>4. StepOf(q, "prep") /\ waiters' = waiters /\ Woken' = Woken \ {q}
  BY <1>3, LineFacts, QuietStep
<1>5. /\ free' \in Seq(Repls) /\ NoRepeats(free') /\ Elems(free') \subseteq Elems(free) \ {r}
      /\ running' \subseteq running
      /\ ~db /\ ~down => /\ Len(free') + Cardinality(busy) < MaxRepls
                         /\ running' \subseteq busy \cup {r} \cup Elems(free')
  <2>1. ~db /\ ~down => /\ Len(free) + Cardinality(busy) <= MaxRepls
                        /\ running \subseteq busy \cup Elems(free)
    BY DEF IInv, CountsOK
  <2>2. CASE free' = free /\ running' = running /\ (Room \/ db)
    BY <1>2, <2>1, <2>2, LineFacts DEF Room
  <2>3. CASE free # <<>> /\ free' = Tail(free) /\ running' = running \ {Head(free)}
    <3>1. /\ Tail(free) \in Seq(Repls) /\ Len(Tail(free)) = Len(free) - 1
          /\ NoRepeats(Tail(free))
          /\ Elems(Tail(free)) = Elems(free) \ {Head(free)}
      BY <2>3, LineFacts, TailFacts
    <3>2. ~db /\ ~down => Len(free') + Cardinality(busy) < MaxRepls
      <4>1. Len(free') = Len(free) - 1
        BY <2>3, <3>1
      <4>2. Len(free) \in Nat /\ Cardinality(busy) \in Nat /\ MaxRepls \in Nat
        BY LineFacts
      <4> QED
        BY <2>1, <4>1, <4>2
    <3>3. ~db /\ ~down => running' \subseteq busy \cup {r} \cup Elems(free')
      BY <2>1, <2>3, <3>1
    <3> QED
      BY <1>2, <2>3, <3>1, <3>2, <3>3
  <2> QED
    BY <2>2, <2>3
<1> QED
  BY <1>1, <1>2, <1>4, <1>5, TakesKeeps

\* With a database the REPL evicted is gone before the new one is made.
LEMMA CreatesKeeps ==
    ASSUME IInv, db, NEW q \in Checks, pc[q] \in {"get", "woken"}, Moves(q, "create"),
           UNCHANGED <<db, down, wants, reuse, lease, busy, header, uses, env>>,
           free' \in Seq(Repls), NoRepeats(free'), Elems(free') \subseteq Elems(free),
           running' \subseteq running
    PROVE  IInv'
<1>1. /\ db' = db /\ down' = down /\ wants' = wants /\ reuse' = reuse /\ lease' = lease
      /\ busy' = busy /\ header' = header /\ uses' = uses /\ env' = env
  OBVIOUS
<1>2. "create" \in Steps \ Waiting /\ "create" \notin Holding /\ pc[q] # "wait" /\ pc[q] \notin Holding
  BY DEF Steps, Waiting, Holding
<1>3. StepOf(q, "create") /\ Woken' = Woken \ {q}
  BY <1>2, LineFacts, QuietStep
<1>4. LineOK' /\ PoolTypes /\ Users' = Users /\ \A c \in Users : pc'[c] = pc[c] /\ c # q
  BY <1>2, <1>3, Types, UsersStep DEF StepOf, Users, IInv
<1>5. Elems(free)' = Elems(free') /\ NoRepeats(free)' = NoRepeats(free') /\ Made' = Made
  BY <1>1 DEF Elems, NoRepeats, Made
<1>6. PoolTypes'
  BY <1>1, <1>4, <1>5 DEF PoolTypes
<1>7. TypeOK'
  BY <1>4, <1>6, TypesNext
<1>8. PoolOK'
  BY <1>1, <1>3, <1>5, LineFacts, FS_RemoveElement DEF IInv, PoolOK
<1>9. StepsOK' /\ CountsOK'
  BY <1>1 DEF StepsOK, CountsOK
<1>10. UsersOK'
  BY <1>1, <1>4, <1>5 DEF IInv, UsersOK
<1>11. ReadyOK'
  <2>1. \A s : Ready(s)' <=> Ready(s)
    BY <1>1 DEF Ready
  <2>2. \A c \in Users : Ready(lease[c])' <=> Ready(lease[c])
    BY <1>1 DEF Ready
  <2> QED
    BY <1>1, <1>4, <1>5, <2>1, <2>2 DEF IInv, ReadyOK
<1> QED
  BY <1>7, <1>8, <1>9, <1>10, <1>11 DEF IInv

\* get_repl() goes on to a new REPL, in place of an evicted one when the pool is
\* full (manager.py:102-132).
LEMMA GetNewKeeps == ASSUME IInv, NEW q \in Checks, GetNew(q) PROVE IInv'
<1>1. /\ pc[q] \in {"get", "woken"} /\ UNCHANGED <<db, down, wants, reuse>>
      /\ \/ free' = free /\ running' = running /\ Room
         \/ free # <<>> /\ free' = Tail(free) /\ running' = running \ {Head(free)}
  BY DEF GetNew, Closed
<1>2. CASE db
  <2>1. Moves(q, "create") /\ UNCHANGED <<lease, busy, header, uses, env>>
    BY <1>2 DEF GetNew
  <2>2. free' \in Seq(Repls) /\ NoRepeats(free') /\ Elems(free') \subseteq Elems(free)
    <3>1. CASE free # <<>> /\ free' = Tail(free)
      BY <3>1, LineFacts, TailFacts
    <3> QED
      BY <1>1, <3>1, LineFacts
  <2> QED
    BY <1>1, <1>2, <2>1, <2>2, CreatesKeeps
<1>3. CASE ~db
  <2>1. Moves(q, "prep") /\ \E r \in Repls : StartNew(q, r)
    BY <1>3 DEF GetNew
  <2> QED
    BY <1>1, <2>1, StartNewKeeps
<1> QED
  BY <1>2, <1>3

\* The row of the new REPL is written, or not (repl.py:97).
LEMMA CreateKeeps == ASSUME IInv, NEW q \in Checks, Create(q) PROVE IInv'
<1>1. pc[q] = "create" /\ UNCHANGED <<db, down, wants, reuse, free, running>>
  BY DEF Create
<1>2. db
  BY <1>1 DEF IInv, StepsOK
<1>3. CASE Moves(q, "prep") /\ \E r \in Repls : StartNew(q, r)
  BY <1>1, <1>2, <1>3, StartNewKeeps
<1>4. CASE Moves(q, "done") /\ UNCHANGED <<lease, busy, header, uses, env>>
  BY <1>1, <1>4, LeavesKeeps DEF pool
<1> QED
  BY <1>3, <1>4 DEF Create

-----------------------------------------------------------------------------
\* A check works with the REPL it holds: its process, environment and uses may
\* change, nobody else's.
LEMMA WorksKeeps ==
    ASSUME IInv, NEW q \in Users, NEW to \in {"header", "body"}, Moves(q, to),
           UNCHANGED <<db, down, wants, reuse, lease, free, busy, header>>,
           NEW r \in Repls, r = lease[q],
           running' \subseteq running \cup {r},
           uses' \in [Repls -> Nat], env' \in [Repls -> Headers \cup Checks \cup {None}],
           \A s \in Repls \ {r} : uses'[s] = uses[s] /\ env'[s] = env[s],
           to = "body" => Ready(r)'
    PROVE  IInv'
<1>1. /\ db' = db /\ down' = down /\ wants' = wants /\ reuse' = reuse /\ lease' = lease
      /\ free' = free /\ busy' = busy /\ header' = header
  OBVIOUS
<1>2. q \in Checks /\ to \in Steps \ Waiting /\ to \in Holding /\ pc[q] # "wait"
      /\ pc[q] # "woken" /\ to # "prep"
      /\ to \notin {"create", "store"}
  BY DEF Steps, Waiting, Holding, Users
<1>3. StepOf(q, to) /\ waiters' = waiters /\ Woken' = Woken \ {q}
  BY <1>2, LineFacts, QuietStep
<1>4. Woken' = Woken
  BY <1>2, <1>3 DEF Woken
<1>5. /\ LineOK' /\ PoolTypes /\ Users' = Users /\ pc'[q] = to
      /\ \A c \in Users \ {q} : pc'[c] = pc[c]
  BY <1>2, <1>3, Types, UsersStep DEF StepOf, IInv
<1>6. Elems(free)' = Elems(free) /\ NoRepeats(free)' /\ Made' = Made
  BY <1>1, LineFacts DEF Elems, NoRepeats, Made
<1>7. r \in Made /\ r \notin Elems(free) /\ \A c \in Users \ {q} : lease[c] \in Repls \ {r}
  <2>1. header[r] = wants[q] /\ wants[q] \in Headers
    BY <1>2, <1>5 DEF IInv, UsersOK, PoolTypes
  <2>2. r \in Made
    BY <2>1, ReplAssumption DEF Made
  <2> QED
    BY <2>2 DEF IInv, UsersOK
<1>8. PoolTypes'
  <2>1. running' \subseteq Made'
    BY <1>5, <1>6, <1>7 DEF PoolTypes
  <2> QED
    BY <1>1, <1>5, <1>6, <2>1 DEF PoolTypes
<1>9. TypeOK'
  BY <1>5, <1>8, TypesNext
<1>10. PoolOK'
  BY <1>1, <1>4, <1>6 DEF IInv, PoolOK
<1>11. StepsOK'
  BY <1>1, <1>2, <1>3 DEF IInv, StepsOK, StepOf
<1>12. UsersOK'
  BY <1>1, <1>5, <1>6 DEF IInv, UsersOK
<1>13. ReadyOK'
  <2>1. \A s \in Repls \ {r} : Ready(s)' <=> Ready(s)
    BY <1>1 DEF Ready
  <2>2. \A s \in Elems(free) : Ready(s)'
    <3>1. Elems(free) \subseteq Repls \ {r}
      BY <1>7 DEF IInv, PoolOK, Made
    <3> QED
      BY <2>1, <3>1 DEF IInv, ReadyOK
  <2>3. ASSUME NEW c \in Users \ {q}, pc'[c] = "body" \/ (pc'[c] = "prep" /\ lease[c] \in running')
        PROVE  Ready(lease[c])'
    <3>1. PICK s \in Repls : s = lease[c] /\ s # r
      BY <1>7
    <3>2. Ready(s)
      BY <1>5, <2>3, <3>1 DEF IInv, ReadyOK
    <3>3. Ready(s)'
      BY <2>1, <3>1, <3>2
    <3> QED
      BY <1>1, <3>1, <3>3 DEF Ready
  <2>4. to = "body" => Ready(lease[q])'
    <3>1. lease'[q] = r
      BY <1>1
    <3> QED
      BY <3>1 DEF Ready
  <2> QED
    BY <1>1, <1>2, <1>5, <1>6, <2>2, <2>3, <2>4 DEF ReadyOK
<1>14. Leased' = Leased /\ r \in Leased
  BY <1>1, <1>5 DEF Leased, Users
<1>15. CountsOK'
  <2>1. CountsOK
    BY DEF IInv
  <2>2. ASSUME ~db, ~down
        PROVE  /\ Len(free') + Cardinality(busy') <= MaxRepls
               /\ busy' = Leased'
               /\ running' \subseteq busy' \cup Elems(free)'
               /\ waiters' # <<>> => Cardinality(Woken') + Cardinality(busy') >= MaxRepls
    <3>1. /\ Len(free) + Cardinality(busy) <= MaxRepls
          /\ busy = Leased
          /\ running \subseteq busy \cup Elems(free)
          /\ waiters # <<>> => Cardinality(Woken) + Cardinality(busy) >= MaxRepls
      BY <2>1, <2>2 DEF CountsOK
    <3>2. running' \subseteq busy \cup Elems(free)
      BY <1>14, <3>1
    <3> QED
      BY <1>1, <1>3, <1>4, <1>6, <1>14, <3>1, <3>2
  <2> QED
    BY <1>1, <2>2 DEF CountsOK
<1> QED
  BY <1>9, <1>10, <1>11, <1>12, <1>13, <1>15 DEF IInv

\* prep() starts the process of a REPL that does not run, or finds it ready
\* (manager.py:194-227).
LEMMA PrepKeeps == ASSUME IInv, NEW q \in Checks, Prep(q) PROVE IInv'
<1>1. /\ pc[q] = "prep" /\ q \in Users
      /\ UNCHANGED <<db, down, wants, reuse, lease, free, busy, header, uses>>
  BY DEF Prep, Users, Holding
<1>2. PICK r \in Repls : r = lease[q]
  BY <1>1 DEF IInv, UsersOK
<1> DEFINE to == IF r \in running \/ header[r] = Blank THEN "body" ELSE "header"
<1>3. /\ Moves(q, to) /\ running' = running \cup {r}
      /\ env' = IF r \in running THEN env ELSE [env EXCEPT ![r] = None]
  BY <1>2 DEF Prep, Started
<1>4. /\ uses \in [Repls -> Nat] /\ env \in [Repls -> Headers \cup Checks \cup {None}]
  BY Types DEF IInv, PoolTypes
<1>5. /\ env' \in [Repls -> Headers \cup Checks \cup {None}]
      /\ \A s \in Repls \ {r} : env'[s] = env[s]
  BY <1>3, <1>4
<1>6. to = "body" => Ready(r)'
  <2>1. CASE r \in running
    <3>1. Ready(r)
      BY <1>1, <1>2, <2>1 DEF IInv, ReadyOK
    <3> QED
      BY <1>1, <1>3, <2>1, <3>1 DEF Ready
  <2>2. CASE header[r] = Blank
    BY <1>1, <2>2 DEF Ready
  <2> QED
    BY <2>1, <2>2
<1>7. to \in {"header", "body"}
  OBVIOUS
<1> HIDE DEF to
<1> QED
  BY <1>1, <1>2, <1>3, <1>4, <1>5, <1>6, <1>7, WorksKeeps

\* The header is answered and environment 0 is its own (manager.py:203-212).
LEMMA HeaderDoneKeeps == ASSUME IInv, NEW q \in Checks, HeaderDone(q) PROVE IInv'
<1>1. /\ pc[q] = "header" /\ q \in Users /\ lease[q] \in running /\ Moves(q, "body")
      /\ UNCHANGED <<db, down, wants, reuse, lease, free, busy, header, running>>
  BY DEF HeaderDone, Users, Holding
<1>2. PICK r \in Repls : r = lease[q] /\ header[r] = wants[q]
  BY <1>1 DEF IInv, UsersOK
<1>3. PICK made \in {header[r], None} : env' = [env EXCEPT ![r] = made]
  BY <1>2 DEF HeaderDone
<1>4. uses' = [uses EXCEPT ![r] = @ + 1]
  BY <1>2 DEF HeaderDone
<1>5. /\ uses \in [Repls -> Nat] /\ env \in [Repls -> Headers \cup Checks \cup {None}]
      /\ header[r] \in Headers
  BY <1>2, Types DEF IInv, PoolTypes
<1>6. /\ env' \in [Repls -> Headers \cup Checks \cup {None}] /\ env'[r] = made
      /\ \A s \in Repls \ {r} : env'[s] = env[s]
  BY <1>3, <1>5
<1>7. /\ uses' \in [Repls -> Nat] /\ uses'[r] = uses[r] + 1 /\ uses[r] \in Nat
      /\ \A s \in Repls \ {r} : uses'[s] = uses[s]
  BY <1>4, <1>5
<1>8. uses'[r] > 0 /\ header' = header
  BY <1>1, <1>7
<1>9. Ready(r)'
  BY <1>3, <1>6, <1>8 DEF Ready
<1> QED
  BY <1>1, <1>2, <1>6, <1>7, <1>9, WorksKeeps

\* A check parts with the REPL its variable holds, which goes back to the free
\* list or leaves the pool.
LEMMA PartsKeeps ==
    ASSUME IInv, NEW q \in Checks, q \in Users \/ pc[q] = "store",
           NEW to \in {"done", "store"}, db \/ to = "done", StepOf(q, to),
           UNCHANGED <<db, down, wants, reuse, header>>,
           NEW r, r = lease[q],
           lease' \in [Checks -> Repls \cup {0}],
           \A c \in Checks \ {q} : lease'[c] = lease[c],
           busy' = busy \ {r}, free' \in Seq(Repls), NoRepeats(free'),
           Elems(free') \subseteq Elems(free) \cup {r},
           r \in Elems(free') => q \in Users /\ r \in Made /\ Ready(r)',
           q \in Users => Len(free') <= Len(free) + 1,
           q \in Users /\ r \in busy => Elems(free) \subseteq Elems(free'),
           q \in Users /\ r \in busy => r \in Elems(free') \/ r \notin running',
           q \in Users /\ r \in busy /\ waiters' # <<>>
               => \E h \in Woken' : h \notin Woken \cup {q},
           running' \subseteq running,
           uses' \in [Repls -> Nat], env' \in [Repls -> Headers \cup Checks \cup {None}],
           \A s \in Repls \ {r} : uses'[s] = uses[s] /\ env'[s] = env[s],
           q \in Users \/ (uses' = uses /\ env' = env),
           IsFiniteSet(Woken'), Woken \ {q} \subseteq Woken', waiters' # <<>> => waiters # <<>>
    PROVE  IInv'
<1>1. db' = db /\ down' = down /\ wants' = wants /\ reuse' = reuse /\ header' = header
  OBVIOUS
<1>2. /\ LineOK' /\ PoolTypes /\ Users' = Users \ {q} /\ pc'[q] = to
      /\ \A c \in Users' : c # q /\ pc'[c] = pc[c] /\ lease'[c] = lease[c]
  <2>1. to \notin Holding
    BY DEF Holding
  <2> QED
    BY <2>1, Types, UsersStep DEF StepOf, IInv, Users
<1>3. Elems(free)' = Elems(free') /\ NoRepeats(free)' = NoRepeats(free') /\ Made' = Made
  BY <1>1 DEF Elems, NoRepeats, Made
<1>4. PoolTypes'
  <2>1. busy' \subseteq Repls \ Elems(free')
    BY <1>2 DEF PoolTypes
  <2>2. running' \subseteq Made
    BY <1>2 DEF PoolTypes
  <2> QED
    BY <1>1, <1>2, <1>3, <2>1, <2>2 DEF PoolTypes
<1>5. TypeOK'
  BY <1>2, <1>4, TypesNext
<1>6. PoolOK'
  <2>1. IsFiniteSet(busy')
    BY LineFacts, FS_RemoveElement
  <2>2. Elems(free') \cup busy' \subseteq Made
    BY DEF IInv, PoolOK
  <2> QED
    BY <1>3, <2>1, <2>2 DEF PoolOK
<1>7. StepsOK'
  BY <1>1 DEF IInv, StepsOK, StepOf
<1>8. q \in Users => \A c \in Users' : lease[c] # r
  BY <1>2 DEF IInv, UsersOK
<1>9. UsersOK'
  <2>1. ASSUME NEW c \in Users'
        PROVE  lease'[c] \in Repls \ Elems(free') /\ header[lease'[c]] = wants[c]
    <3>1. lease[c] \in Repls \ Elems(free) /\ header[lease[c]] = wants[c] /\ lease'[c] = lease[c]
      BY <1>2 DEF IInv, UsersOK
    <3>2. lease[c] \notin Elems(free')
      BY <1>8, <3>1
    <3> QED
      BY <3>1, <3>2
  <2>2. \A c, d \in Users' : lease'[c] = lease'[d] => c = d
    BY <1>2 DEF IInv, UsersOK
  <2> QED
    BY <1>1, <1>3, <2>1, <2>2 DEF UsersOK
<1>10. ReadyOK'
  <2>1. \A s \in Repls \ {r} : Ready(s)' <=> Ready(s)
    BY <1>1 DEF Ready
  <2>2. ASSUME NEW s \in Elems(free')
        PROVE  Ready(s)'
    <3>1. CASE s = r
      BY <2>2, <3>1
    <3>2. CASE s # r
      BY <2>1, <2>2, <3>2 DEF IInv, ReadyOK, PoolOK, Made
    <3> QED
      BY <3>1, <3>2
  <2>3. ASSUME NEW c \in Users',
               pc'[c] = "body" \/ (pc'[c] = "prep" /\ lease'[c] \in running')
        PROVE  Ready(lease[c])'
    <3>1. PICK s \in Repls : s = lease[c] /\ s = lease'[c]
      BY <1>2 DEF IInv, UsersOK
    <3>2. Ready(s)
      BY <1>2, <2>3, <3>1 DEF IInv, ReadyOK
    <3>3. Ready(s)'
      <4>1. CASE s # r
        BY <2>1, <3>1, <3>2, <4>1
      <4>2. CASE s = r
        <5>1. uses' = uses /\ env' = env
          BY <1>8, <3>1, <4>2
        <5> QED
          BY <1>1, <3>2, <5>1 DEF Ready
      <4> QED
        BY <4>1, <4>2
    <3> QED
      BY <3>1, <3>3 DEF Ready
  <2> QED
    BY <1>3, <2>2, <2>3 DEF ReadyOK
<1>11. ASSUME ~db, ~down
       PROVE  /\ Len(free') + Cardinality(busy') <= MaxRepls
              /\ busy' = Leased'
              /\ running' \subseteq busy' \cup Elems(free')
              /\ waiters' # <<>> => Cardinality(Woken') + Cardinality(busy') >= MaxRepls
  <2>1. /\ Len(free) + Cardinality(busy) <= MaxRepls /\ busy = Leased
        /\ running \subseteq busy \cup Elems(free)
        /\ waiters # <<>> => Cardinality(Woken) + Cardinality(busy) >= MaxRepls
    BY <1>11 DEF IInv, CountsOK
  <2>2. q \in Users /\ r \in busy /\ pc[q] # "woken"
    BY <1>11, <2>1 DEF IInv, StepsOK, Users, Leased, Holding
  <2>3. Cardinality(busy') = Cardinality(busy) - 1 /\ Cardinality(busy') \in Nat
    BY <2>2, LineFacts, FS_RemoveElement, FS_CardinalityType
  <2>4. Len(free') \in Nat
    OBVIOUS
  <2>5. Len(free') + Cardinality(busy') <= MaxRepls
    BY <2>1, <2>2, <2>3, <2>4, LineFacts
  <2>6. busy' = Leased'
    <3>1. Leased' = {lease'[c] : c \in Users'}
      BY DEF Leased, Users
    <3>2. Leased = {lease[c] : c \in Users}
      BY DEF Leased, Users
    <3>3. Leased' = {lease[c] : c \in Users \ {q}}
      BY <1>2, <3>1
    <3>4. \A c \in Users \ {q} : lease[c] # r
      BY <1>2, <1>8, <2>2
    <3> QED
      BY <2>1, <2>2, <3>2, <3>3, <3>4
  <2>7. running' \subseteq busy' \cup Elems(free')
    BY <2>1, <2>2
  <2>8. waiters' # <<>> => Cardinality(Woken') + Cardinality(busy') >= MaxRepls
    <3>1. q \notin Woken
      BY <2>2 DEF Woken
    <3>2. waiters' # <<>> => \E h \in Woken' : h \notin Woken \cup {q}
      BY <2>2
    <3>3. /\ Cardinality(Woken) \in Nat /\ Cardinality(Woken') \in Nat
          /\ waiters' # <<>> => Cardinality(Woken') >= Cardinality(Woken) + 1
      BY <3>1, <3>2, LineFacts, WokenCount
    <3> QED
      BY <2>1, <2>3, <3>3, LineFacts
  <2> QED
    BY <2>5, <2>6, <2>7, <2>8
<1>12. CountsOK'
  BY <1>1, <1>3, <1>11 DEF CountsOK
<1> QED
  BY <1>5, <1>6, <1>7, <1>9, <1>10, <1>12 DEF IInv

\* destroy_repl() ends the use of a REPL, by failure or cancellation; its place is
\* for the check it wakes (manager.py:134-142).
LEMMA DestroyKeeps ==
    ASSUME IInv, NEW q \in Checks, q \in Users \/ pc[q] = "store", Destroy(q)
    PROVE  IInv'
<1>1. PICK r : r = lease[q]
  OBVIOUS
<1>2. /\ busy' = busy \ {r} /\ free' = Without(free, r) /\ running' = running \ {r}
      /\ lease' = [lease EXCEPT ![q] = 0]
      /\ Notify(q, "done", waiters)
      /\ UNCHANGED <<db, down, wants, reuse, header, uses, env>>
  BY <1>1 DEF Destroy, Closed
<1>3. "done" \in Steps \ Waiting /\ pc[q] # "wait" /\ pc[q] # "woken"
  BY DEF Steps, Waiting, Holding, Idle, Users
<1>4. q \notin Elems(waiters)
  BY <1>3, LineFacts DEF LineOK
<1>5. Elems(waiters) = Elems(waiters) \ {q}
  BY <1>4
<1>6. /\ StepOf(q, "done")
      /\ IsFiniteSet(Woken') /\ Woken \ {q} \subseteq Woken'
      /\ waiters' # <<>> => \E h \in Woken' : h \notin Woken \cup {q}
  BY <1>2, <1>3, <1>5, LineFacts, NotifyStep
<1>7. waiters' # <<>> => waiters # <<>>
  BY <1>2 DEF Notify
<1>8. /\ free' \in Seq(Repls) /\ NoRepeats(free') /\ Elems(free') = Elems(free) \ {r}
      /\ r \notin Elems(free) => free' = free
  BY <1>2, LineFacts, WithoutFacts
<1>9. q \in Users => Elems(free) \subseteq Elems(free') /\ Len(free') <= Len(free) + 1
  <2>1. q \in Users => r \notin Elems(free)
    BY <1>1 DEF IInv, UsersOK
  <2> QED
    BY <1>8, <2>1, LineFacts
<1>10. /\ lease' \in [Checks -> Repls \cup {0}]
       /\ \A c \in Checks \ {q} : lease'[c] = lease[c]
       /\ uses' \in [Repls -> Nat] /\ env' \in [Repls -> Headers \cup Checks \cup {None}]
  BY <1>2, Types DEF IInv, PoolTypes
<1>11. /\ r \notin Elems(free') /\ r \notin running' /\ running' \subseteq running
       /\ Elems(free') \subseteq Elems(free) \cup {r}
       /\ uses' = uses /\ env' = env
       /\ UNCHANGED <<db, down, wants, reuse, header>>
  BY <1>2, <1>8
<1>12. "done" \in {"done", "store"}
  OBVIOUS
<1> QED
  BY <1>1, <1>2, <1>6, <1>7, <1>8, <1>9, <1>10, <1>11, <1>12, PartsKeeps

\* release_repl() gives the REPL back, or closes one that is exhausted
\* (manager.py:144-166).
LEMMA BodyDoneKeeps == ASSUME IInv, NEW q \in Checks, BodyDone(q) PROVE IInv'
<1>1. /\ pc[q] = "body" /\ q \in Users
      /\ UNCHANGED <<db, down, wants, reuse, header>>
  BY DEF BodyDone, Users, Holding
<1>2. PICK r \in Repls : r = lease[q] /\ r \notin Elems(free) /\ header[r] = wants[q] /\ Ready(r)
  BY <1>1 DEF IInv, UsersOK, ReadyOK
<1>3. PICK to \in {"done", "store"} : to = IF db THEN "store" ELSE "done"
  OBVIOUS
<1>4. /\ uses' = [uses EXCEPT ![r] = @ + 1]
      /\ env' = IF uses[r] = 0 THEN [env EXCEPT ![r] = q] ELSE env
      /\ Released(q, uses[r] + 1)
      /\ lease' = IF db THEN lease ELSE [lease EXCEPT ![q] = 0]
  BY <1>2 DEF BodyDone
<1>5. /\ uses \in [Repls -> Nat] /\ env \in [Repls -> Headers \cup Checks \cup {None}]
      /\ lease \in [Checks -> Repls \cup {0}] /\ wants[q] \in Headers
  BY Types DEF IInv, PoolTypes
<1>6. /\ uses' \in [Repls -> Nat] /\ uses'[r] = uses[r] + 1 /\ uses[r] \in Nat
      /\ env' \in [Repls -> Headers \cup Checks \cup {None}]
      /\ uses[r] # 0 => env' = env
      /\ \A s \in Repls \ {r} : uses'[s] = uses[s] /\ env'[s] = env[s]
  BY <1>4, <1>5
<1>7. /\ lease' \in [Checks -> Repls \cup {0}]
      /\ \A c \in Checks \ {q} : lease'[c] = lease[c]
  BY <1>4, <1>5
<1>8. Ready(r)'
  <2>1. uses'[r] > 0 /\ header' = header
    BY <1>1, <1>6
  <2>2. header[r] # Blank => env'[r] = env[r] /\ env[r] \in {header[r], None}
    BY <1>2, <1>6 DEF Ready
  <2> QED
    BY <2>1, <2>2 DEF Ready
<1>9. r \in Made
  BY <1>2, <1>5, ReplAssumption DEF Made
<1>10. to \in Steps \ Waiting /\ pc[q] # "wait" /\ pc[q] # "woken" /\ (db \/ to = "done")
  BY <1>1, <1>3 DEF Steps, Waiting, Idle
<1>11. CASE r \notin busy
  <2>1. Moves(q, to) /\ free' = free /\ busy' = busy /\ running' = running
    BY <1>2, <1>3, <1>4, <1>11 DEF Released
  <2>2. StepOf(q, to) /\ waiters' = waiters /\ Woken' = Woken \ {q}
    BY <1>10, <2>1, LineFacts, QuietStep
  <2>3. IsFiniteSet(Woken') /\ Woken \ {q} \subseteq Woken' /\ busy' = busy \ {r}
    BY <1>11, <2>1, <2>2, LineFacts, FS_RemoveElement
  <2>4. /\ free' \in Seq(Repls) /\ NoRepeats(free') /\ Len(free') <= Len(free) + 1
        /\ Elems(free') \subseteq Elems(free) \cup {r} /\ r \notin Elems(free')
    BY <1>2, <2>1, LineFacts
  <2>5. waiters' # <<>> => waiters # <<>>
    BY <2>2
  <2> QED
    BY <1>1, <1>2, <1>3, <1>6, <1>7, <1>8, <1>9, <1>10, <1>11, <2>1, <2>2, <2>3, <2>4, <2>5, PartsKeeps
<1>12. CASE r \in busy
  <2>1. /\ busy' = busy \ {r} /\ Notify(q, to, waiters)
        /\ \/ running' = running \ {r} /\ free' = free
           \/ free' = Append(free, r) /\ running' = running
    BY <1>2, <1>3, <1>4, <1>12 DEF Released, Closed
  <2>2. Elems(waiters) = Elems(waiters) \ {q}
    BY <1>10, LineFacts DEF LineOK
  <2>3. /\ StepOf(q, to)
        /\ IsFiniteSet(Woken') /\ Woken \ {q} \subseteq Woken'
        /\ waiters' # <<>> => \E h \in Woken' : h \notin Woken \cup {q}
    BY <1>10, <2>1, <2>2, LineFacts, NotifyStep
  <2>4. waiters' # <<>> => waiters # <<>>
    BY <2>1 DEF Notify
  <2>5. CASE running' = running \ {r} /\ free' = free
    <3>1. /\ free' \in Seq(Repls) /\ NoRepeats(free') /\ Len(free') <= Len(free) + 1
          /\ Elems(free') \subseteq Elems(free) \cup {r} /\ Elems(free) \subseteq Elems(free')
          /\ r \notin Elems(free') /\ r \notin running' /\ running' \subseteq running
      BY <1>2, <2>5, LineFacts
    <3> QED
      BY <1>1, <1>2, <1>3, <1>6, <1>7, <1>8, <1>9, <1>10, <2>1, <2>3, <2>4, <3>1, PartsKeeps
  <2>6. CASE free' = Append(free, r) /\ running' = running
    <3>1. /\ free' \in Seq(Repls) /\ NoRepeats(free') /\ Len(free') = Len(free) + 1
          /\ Elems(free') = Elems(free) \cup {r}
      BY <1>2, <2>6, LineFacts, AppendFacts
    <3>2. /\ Len(free') <= Len(free) + 1 /\ Elems(free') \subseteq Elems(free) \cup {r}
          /\ Elems(free) \subseteq Elems(free') /\ r \in Elems(free') /\ running' \subseteq running
      BY <2>6, <3>1, LineFacts
    <3> QED
      BY <1>1, <1>2, <1>3, <1>6, <1>7, <1>8, <1>9, <1>10, <2>1, <2>3, <2>4, <3>1, <3>2, PartsKeeps
  <2> QED
    BY <2>1, <2>5, <2>6
<1> QED
  BY <1>11, <1>12

\* A disconnected client cancels its checks wherever they are (check.py:189).
LEMMA CancelKeeps == ASSUME IInv, NEW q \in Checks, Cancel(q) PROVE IInv'
<1>1. CASE pc[q] \in Holding \cup {"store"} /\ Destroy(q)
  BY <1>1, DestroyKeeps DEF Users
<1>2. CASE /\ pc[q] \in Waiting /\ Notify(q, "done", Without(waiters, q))
           /\ UNCHANGED <<db, down, wants, reuse, lease, pool>>
  BY <1>2, WaitEndsKeeps
<1>3. CASE /\ pc[q] \in {"get", "create"} /\ Moves(q, "done")
           /\ UNCHANGED <<db, down, wants, reuse, lease, pool>>
  BY <1>3, LeavesKeeps
<1> QED
  BY <1>1, <1>2, <1>3 DEF Cancel

\* What an exit or cleanup() leaves as it is.
LEMMA ChecksSame ==
    ASSUME IInv, UNCHANGED <<db, pc, wants, reuse, lease, waiters, header, uses, env>>,
           down' \in BOOLEAN, free' \in Seq(Repls), NoRepeats(free'),
           Elems(free') \subseteq Elems(free), busy' \subseteq busy, running' \subseteq running,
           ~db /\ ~down' => /\ ~down /\ free' = free /\ busy' = busy
    PROVE  IInv'
<1>1. /\ db' = db /\ pc' = pc /\ wants' = wants /\ reuse' = reuse /\ lease' = lease
      /\ waiters' = waiters /\ header' = header /\ uses' = uses /\ env' = env
  OBVIOUS
<1>2. /\ Users' = Users /\ Woken' = Woken /\ Made' = Made /\ Leased' = Leased
      /\ Elems(free)' = Elems(free') /\ NoRepeats(free)' = NoRepeats(free')
  BY <1>1 DEF Users, Woken, Made, Leased, Elems, NoRepeats
<1>3. LineOK /\ PoolTypes
  BY Types DEF IInv
<1>4. LineOK'
  BY <1>1, <1>3 DEF LineOK, Elems, NoRepeats
<1>5. PoolTypes'
  BY <1>1, <1>2, <1>3 DEF PoolTypes
<1>6. TypeOK'
  BY <1>4, <1>5, TypesNext
<1>7. PoolOK'
  <2>1. IsFiniteSet(busy')
    BY LineFacts, FS_Subset
  <2> QED
    BY <1>2, <2>1 DEF IInv, PoolOK
<1>8. StepsOK' /\ UsersOK'
  BY <1>1, <1>2 DEF IInv, StepsOK, UsersOK
<1>9. ReadyOK'
  <2>1. \A s : Ready(s)' <=> Ready(s)
    BY <1>1 DEF Ready
  <2>2. \A c \in Users : Ready(lease[c])' <=> Ready(lease[c])
    BY <1>1 DEF Ready
  <2> QED
    BY <1>1, <1>2, <2>1, <2>2 DEF IInv, ReadyOK
<1>10. CountsOK'
  <2>1. ASSUME ~db, ~down'
        PROVE  /\ Len(free') + Cardinality(busy') <= MaxRepls
               /\ busy' = Leased'
               /\ running' \subseteq busy' \cup Elems(free')
               /\ waiters' # <<>> => Cardinality(Woken') + Cardinality(busy') >= MaxRepls
    BY <1>1, <1>2, <2>1 DEF IInv, CountsOK
  <2> QED
    BY <1>1, <1>2, <2>1 DEF CountsOK
<1> QED
  BY <1>6, <1>7, <1>8, <1>9, <1>10 DEF IInv

\* A process dies by itself (repl.py:203).
LEMMA ExitsKeeps == ASSUME IInv, NEW r \in Repls, Exits(r) PROVE IInv'
<1>1. down \in BOOLEAN
  BY Types DEF IInv, PoolTypes
<1> QED
  BY <1>1, LineFacts, ChecksSame DEF Exits

\* cleanup() empties the pool under whoever uses it (manager.py:175).
LEMMA CleanupKeeps == ASSUME IInv, Cleanup PROVE IInv'
<1>1. /\ down' = TRUE /\ free' = <<>> /\ busy' = {} /\ running' \subseteq running
      /\ UNCHANGED <<db, pc, wants, reuse, lease, waiters, header, uses, env>>
  BY DEF Cleanup, Closed
<1>2. free' \in Seq(Repls) /\ NoRepeats(free') /\ Elems(free') = {}
  BY <1>1 DEF NoRepeats, Elems
<1> QED
  BY <1>1, <1>2, ChecksSame

\* initialize_repls() leaves warm REPLs that ran their header (manager.py:49).
LEMMA InvInit == Init => IInv
<1> SUFFICES ASSUME Init PROVE IInv
  OBVIOUS
<1> DEFINE n == Len(Warm)
<1>1. /\ n \in Nat /\ n <= MaxRepls /\ MaxRepls \in Nat /\ 1..n \subseteq Repls
      /\ Repls \subseteq Nat \ {0} /\ 0 \notin Repls
      /\ \A i \in 1..n : Warm[i] \in Headers
      /\ Blank \in Headers /\ None \notin Headers
  BY ReplAssumption
<1>2. /\ down = FALSE /\ db \in BOOLEAN
      /\ pc = [q \in Checks |-> "new"] /\ lease = [q \in Checks |-> 0]
      /\ wants \in [Checks -> Headers] /\ reuse \in [Checks -> BOOLEAN]
      /\ free = [i \in 1..n |-> i] /\ busy = {} /\ waiters = <<>>
      /\ header = [r \in Repls |-> IF r <= n THEN Warm[r] ELSE None]
      /\ running = 1..n
      /\ uses = [r \in Repls |-> IF r <= n /\ Warm[r] # Blank THEN 1 ELSE 0]
      /\ env = [r \in Repls |-> IF r <= n /\ Warm[r] # Blank THEN Warm[r] ELSE None]
  BY DEF Init
<1> HIDE DEF n
<1>3. free \in Seq(Repls) /\ Len(free) = n /\ Elems(free) = 1..n /\ NoRepeats(free)
  BY <1>1, <1>2 DEF Elems, NoRepeats
<1>4. \A r \in Repls : r <= n => r \in 1..n
  BY <1>1
<1>5. /\ header \in [Repls -> Headers \cup {None}] /\ uses \in [Repls -> Nat]
      /\ env \in [Repls -> Headers \cup Checks \cup {None}]
  BY <1>1, <1>2, <1>4
<1>6. \A r \in 1..n : r \in Repls /\ header[r] = Warm[r] /\ header[r] # None
  BY <1>1, <1>2
<1>7. Users = {} /\ Woken = {} /\ Leased = {}
  BY <1>2 DEF Users, Woken, Leased, Holding
<1>8. TypeOK
  <2>1. LineOK
    <3>1. Elems(waiters) = {} /\ NoRepeats(waiters) /\ waiters \in Seq(Checks)
      BY <1>2 DEF Elems, NoRepeats
    <3> QED
      BY <1>2, <3>1 DEF LineOK, Steps, Idle
  <2>2. running \subseteq Made
    BY <1>2, <1>6 DEF Made
  <2>3. PoolTypes
    BY <1>2, <1>3, <1>5, <2>2 DEF PoolTypes
  <2> QED
    BY <2>1, <2>3, Types
<1>9. PoolOK
  <2>1. IsFiniteSet({})
    BY FS_EmptySet
  <2> QED
    BY <1>2, <1>3, <1>6, <1>7, <2>1 DEF PoolOK, Made
<1>10. StepsOK /\ UsersOK
  BY <1>2, <1>7 DEF StepsOK, UsersOK
<1>11. ReadyOK
  <2>1. ASSUME NEW r \in 1..n PROVE Ready(r)
    BY <1>2, <1>6 DEF Ready
  <2> QED
    BY <1>3, <1>7, <2>1 DEF ReadyOK
<1>12. CountsOK
  <2>1. Cardinality(busy) = 0
    BY <1>2, FS_EmptySet
  <2> QED
    BY <1>1, <1>2, <1>3, <1>7, <2>1 DEF CountsOK
<1> QED
  BY <1>8, <1>9, <1>10, <1>11, <1>12 DEF IInv

\* Every action keeps the invariant.
LEMMA InvStep == IInv /\ [Next]_vars => IInv'
<1> SUFFICES ASSUME IInv, [Next]_vars PROVE IInv'
  OBVIOUS
<1>1. ASSUME NEW q \in Checks, Arrive(q) \/ GetReused(q) \/ GetNew(q) \/ GetWaits(q)
      PROVE  IInv'
  BY <1>1, ArriveKeeps, GetReusedKeeps, GetNewKeeps, GetWaitsKeeps
<1>2. ASSUME NEW q \in Checks, WaitTimesOut(q) PROVE IInv'
  BY <1>2, WaitEndsKeeps DEF WaitTimesOut
<1>3. ASSUME NEW q \in Checks, Create(q) \/ Prep(q) \/ HeaderDone(q) \/ BodyDone(q)
      PROVE  IInv'
  BY <1>3, CreateKeeps, PrepKeeps, HeaderDoneKeeps, BodyDoneKeeps
<1>4. ASSUME NEW q \in Checks, ReplFails(q) PROVE IInv'
  BY <1>4, DestroyKeeps DEF ReplFails, Users
<1>5. ASSUME NEW q \in Checks, Store(q) PROVE IInv'
  BY <1>5, LeavesKeeps DEF Store
<1>6. ASSUME NEW q \in Checks, Cancel(q) PROVE IInv'
  BY <1>6, CancelKeeps
<1>7. ASSUME NEW r \in Repls, Exits(r) PROVE IInv'
  BY <1>7, ExitsKeeps
<1>8. CASE Cleanup
  BY <1>8, CleanupKeeps
<1>9. CASE UNCHANGED vars
  <2>1. /\ UNCHANGED <<db, pc, wants, reuse, lease, waiters, header, uses, env>>
        /\ down' = down /\ free' = free /\ busy' = busy /\ running' = running
    BY <1>9 DEF vars, pool
  <2>2. down \in BOOLEAN
    BY Types DEF IInv, PoolTypes
  <2> QED
    BY <2>1, <2>2, LineFacts, ChecksSame
<1> QED
  BY <1>1, <1>2, <1>3, <1>4, <1>5, <1>6, <1>7, <1>8, <1>9 DEF Next

\* The inductive invariant of the pool of REPLs and its checks.
THEOREM ReplInvariant == Spec => []IInv
<1> QED
  BY InvInit, InvStep, PTL DEF Spec

\* The variables keep their types: no REPL is twice in the free list, or free and
\* busy at once, and the condition's list is that of the sleeping checks.
THEOREM ReplTypeCorrect == Spec => []TypeOK
<1>1. IInv => TypeOK
  BY DEF IInv
<1> QED
  BY <1>1, ReplInvariant, PTL

\* Without a database and until shutdown the pool respects max_repls, and its busy
\* REPLs are those that some check uses, one check each (manager.py:81-166).
THEOREM ReplPoolAccounted == Spec => []ReplsAccounted
<1>1. IInv => ReplsAccounted
  BY DEF IInv, CountsOK, UsersOK, Users, ReplsAccounted
<1> QED
  BY <1>1, ReplInvariant, PTL

\* Without a database and until shutdown no check sleeps while it could be served
\* and nobody is on the way: every REPL given back or destroyed, and every wait
\* that ends early, wakes another (manager.py:142, 160, 166).
THEOREM ReplNoLostWakeup == Spec => []NoLostWakeup
<1>1. IInv => NoLostWakeup
  <2> SUFFICES ASSUME IInv, ~db, ~down, waiters # <<>>, \A q \in Checks : pc[q] # "woken"
               PROVE  free = <<>> /\ ~Room
    BY DEF NoLostWakeup
  <2>1. Woken = {}
    BY DEF Woken
  <2>2. Cardinality(Woken) = 0
    BY <2>1, FS_EmptySet
  <2>3. /\ Cardinality(Woken) + Cardinality(busy) >= MaxRepls
        /\ Len(free) + Cardinality(busy) <= MaxRepls
    BY DEF IInv, CountsOK
  <2>4. Len(free) = 0 /\ Len(free) + Cardinality(busy) >= MaxRepls
    BY <2>2, <2>3, LineFacts
  <2> QED
    BY <2>4, LineFacts DEF Room
<1> QED
  BY <1>1, ReplInvariant, PTL

\* Whatever is reused, evicted, restarted, cancelled or destroyed under its user,
\* a body is sent to a REPL of its header, which ran it (manager.py:91, repl.py:271).
THEOREM ReplBodyOnItsHeader == Spec => []BodyOnItsHeader
<1>1. IInv => BodyOnItsHeader
  BY DEF IInv, UsersOK, ReadyOK, Users, Holding, Ready, BodyOnItsHeader
<1> QED
  BY <1>1, ReplInvariant, PTL
=============================================================================
