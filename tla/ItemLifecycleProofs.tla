------------------------ MODULE ItemLifecycleProofs ------------------------
(***************************************************************************)
(* Proofs about the lifecycle registry: for any number of items and of     *)
(* callers, a registry whose callers finish what they began counts exactly *)
(* their open operations, and refuses work on an item from the moment it   *)
(* is cancelled until its retention has run out.                           *)
(***************************************************************************)
EXTENDS ItemLifecycle, TLAPS

LifecycleInv == LifecycleTypeOK /\ RegistryExact

\* sweep_terminal() keeps the registry a registry, forgets only records of
\* items without open operations, and leaves no record that is due
\* (exec_lifecycle.py:185-195).
LEMMA SweptFacts ==
    ASSUME LifecycleInv
    PROVE  /\ Swept(records) \in [Items -> LifecycleRecord]
           /\ \A i \in Items :
                 /\ Swept(records)[i].in_flight = brackets[i]
                 /\ Swept(records)[i].status \in {"none", "drained", "cleaned"} => brackets[i] = 0
                 /\ Swept(records)[i].status = "cancelling" => brackets[i] > 0
                 /\ Swept(records)[i].expiry = "never"
                        <=> Swept(records)[i].status \notin {"drained", "cleaned"}
    BY DEF LifecycleInv, LifecycleTypeOK, RegistryExact, Swept, NoRecord,
           LifecycleRecord, RefusingStatuses

\* Every call of the registry, made by a lawful caller, keeps the counts and
\* the statuses consistent (exec_lifecycle.py:77-144, 185-204).
LEMMA LifecycleStep ==
    ASSUME LifecycleInv, [LifecycleNext]_lifecycleVars
    PROVE  LifecycleInv'
<1>0. /\ records \in [Items -> LifecycleRecord]
      /\ brackets \in [Items -> Nat]
      /\ RegistryExact
  BY DEF LifecycleInv, LifecycleTypeOK
<1>1. ASSUME NEW calls \in CallCounts, BeginCalls(calls)
      PROVE  LifecycleInv'
  <2>1. \A i \in Items : calls[i] \in Nat
    BY <1>1 DEF CallCounts
  <2>2. CASE \A i \in Items : calls[i] = 0
    <3>1. records' = records
      BY <1>1, <2>2 DEF BeginCalls, Begun
    <3>2. brackets' = brackets
      BY <1>0, <1>1, <2>2 DEF BeginCalls
    <3> QED
      BY <3>1, <3>2 DEF LifecycleInv, LifecycleTypeOK, RegistryExact
  <2>3. CASE \E i \in Items : calls[i] # 0
    BY <1>0, <1>1, <2>1, <2>3, SweptFacts
       DEF BeginCalls, Begun, ShouldCancel, LifecycleInv, LifecycleTypeOK,
           RegistryExact, LifecycleRecord, RefusingStatuses
  <2> QED
    BY <2>2, <2>3
<1>2. ASSUME NEW calls \in CallCounts, FinishCalls(calls)
      PROVE  LifecycleInv'
  BY <1>0, <1>2 DEF CallCounts, FinishCalls, Finished, Terminal, LifecycleInv,
        LifecycleTypeOK, RegistryExact, LifecycleRecord, RefusingStatuses
<1>3. ASSUME NEW i \in Items, CancelCall(i)
      PROVE  LifecycleInv'
  BY <1>0, <1>3, SweptFacts DEF CancelCall, Cancelled, Terminal, LifecycleInv,
        LifecycleTypeOK, RegistryExact, LifecycleRecord, RefusingStatuses
<1>4. ASSUME NEW i \in Items, CleanedCall(i)
      PROVE  LifecycleInv'
  BY <1>0, <1>4, SweptFacts DEF CleanedCall, Cleaned, CleanupMayDelete, Terminal,
        LifecycleInv, LifecycleTypeOK, RegistryExact, LifecycleRecord, RefusingStatuses
<1>5. ASSUME NEW i \in Items, RetentionEnds(i)
      PROVE  LifecycleInv'
  BY <1>0, <1>5 DEF RetentionEnds, LifecycleInv, LifecycleTypeOK, RegistryExact,
        LifecycleRecord, RefusingStatuses
<1>6. CASE SweepCall
  BY <1>0, <1>6, SweptFacts DEF SweepCall, LifecycleInv, LifecycleTypeOK, RegistryExact
<1>7. CASE UNCHANGED lifecycleVars
  BY <1>0, <1>7 DEF lifecycleVars, LifecycleInv, LifecycleTypeOK, RegistryExact
<1> QED
  BY <1>1, <1>2, <1>3, <1>4, <1>5, <1>6, <1>7 DEF LifecycleNext

\* The inductive invariant of the registry holds in every reachable state.
THEOREM LifecycleInvariant == LifecycleSpec => []LifecycleInv
<1>1. LifecycleInit => LifecycleInv
  BY DEF LifecycleInit, LifecycleInv, LifecycleTypeOK, RegistryExact, NoRecord,
         LifecycleRecord, RefusingStatuses
<1> QED
  BY <1>1, LifecycleStep, PTL DEF LifecycleSpec

\* in_flight is the number of open operations of the item, an item reported
\* drained or cleaned has none, and one that is cancelling has some: what the
\* client's poll-then-cleanup loop relies on (exec_lifecycle.py:93-136).
THEOREM RegistryIsExact == LifecycleSpec => [](LifecycleTypeOK /\ RegistryExact)
  BY LifecycleInvariant, PTL DEF LifecycleInv

\* No call takes an item that is cancelling, drained or cleaned back to a
\* status in which begin() accepts work, unless its retention is over
\* (exec_lifecycle.py:84-88, 93-121, 138-144, 185-195).
THEOREM RegistryCancelSticks == LifecycleSpec => CancelSticks
<1> DEFINE Sticks == \A i \in Items :
                       (ShouldCancel(records, i) /\ records[i].expiry # "due")
                           => records'[i].status \in RefusingStatuses
<1>1. ASSUME LifecycleInv, LifecycleNext
      PROVE  Sticks
  <2> SUFFICES ASSUME NEW i \in Items, ShouldCancel(records, i), records[i].expiry # "due"
               PROVE  records'[i].status \in RefusingStatuses
    OBVIOUS
  <2>0. /\ Swept(records)[i] = records[i]
        /\ records[i].status \in RefusingStatuses
        /\ records[i] \in LifecycleRecord
        /\ brackets \in [Items -> Nat]
        /\ RegistryExact
    BY <1>1 DEF Swept, ShouldCancel, LifecycleInv, LifecycleTypeOK
  <2>1. ASSUME NEW calls \in CallCounts, BeginCalls(calls)
        PROVE  records'[i].status \in RefusingStatuses
    BY <2>0, <2>1 DEF BeginCalls, Begun, ShouldCancel
  <2>2. ASSUME NEW calls \in CallCounts, FinishCalls(calls)
        PROVE  records'[i].status \in RefusingStatuses
    BY <2>0, <2>2 DEF FinishCalls, Finished, CallCounts, Terminal, RefusingStatuses
  <2>3. ASSUME NEW j \in Items, CancelCall(j)
        PROVE  records'[i].status \in RefusingStatuses
    BY <1>1, <2>0, <2>3, SweptFacts DEF CancelCall, Cancelled, Terminal, RefusingStatuses
  <2>4. ASSUME NEW j \in Items, CleanedCall(j)
        PROVE  records'[i].status \in RefusingStatuses
    BY <1>1, <2>0, <2>4, SweptFacts DEF CleanedCall, Cleaned, Terminal, RefusingStatuses
  <2>5. ASSUME NEW j \in Items, RetentionEnds(j)
        PROVE  records'[i].status \in RefusingStatuses
    BY <1>1, <2>0, <2>5 DEF RetentionEnds, LifecycleInv, LifecycleTypeOK, LifecycleRecord
  <2>6. CASE SweepCall
    BY <2>0, <2>6 DEF SweepCall
  <2> QED
    BY <1>1, <2>1, <2>2, <2>3, <2>4, <2>5, <2>6 DEF LifecycleNext
<1>2. LifecycleInv /\ [LifecycleNext]_lifecycleVars => [Sticks]_lifecycleVars
  BY <1>1
<1> QED
  BY <1>2, LifecycleInvariant, PTL DEF LifecycleSpec, CancelSticks
============================================================================
