--------------------------- MODULE ItemLifecycle ---------------------------
(***************************************************************************)
(* The lifecycle registry as its callers may lawfully use it, whoever they *)
(* are: brackets[i] counts the begin() calls on item i that started and    *)
(* have not been finished, and only what was begun is finished.            *)
(***************************************************************************)
EXTENDS LifecycleRegistry

CONSTANT MaxBegins    \* bound: begin() or finish() calls on one item in one slice

VARIABLES
    records,     \* self._records, total: absent items hold NoRecord
    brackets     \* operations begun on each item and not finished

lifecycleVars == <<records, brackets>>

LifecycleInit ==
    /\ records = [i \in Items |-> NoRecord]
    /\ brackets = [i \in Items |-> 0]

BeginCalls(calls) ==
    /\ records' = Begun(records, calls)
    /\ brackets' = [i \in Items |-> IF ShouldCancel(Swept(records), i)
                                    THEN brackets[i]
                                    ELSE brackets[i] + calls[i]]

FinishCalls(calls) ==
    /\ \A i \in Items : calls[i] <= brackets[i]
    /\ records' = Finished(records, calls)
    /\ brackets' = [i \in Items |-> brackets[i] - calls[i]]

CancelCall(i) ==
    /\ records' = Cancelled(records, i)
    /\ UNCHANGED brackets

\* cleanup_decision said "delete", the states are gone, mark_cleaned follows.
CleanedCall(i) ==
    /\ CleanupMayDelete(records, i)
    /\ records' = Cleaned(Swept(records), i)
    /\ UNCHANGED brackets

\* stats(), and a cleanup that is deferred.
SweepCall ==
    /\ records' = Swept(records)
    /\ UNCHANGED brackets

\* The retention of one terminal record runs out.
RetentionEnds(i) ==
    /\ records[i].expiry = "armed"
    /\ records' = [records EXCEPT ![i].expiry = "due"]
    /\ UNCHANGED brackets

CallCounts == [Items -> 0..MaxBegins]

LifecycleNext ==
    \/ \E calls \in CallCounts : BeginCalls(calls) \/ FinishCalls(calls)
    \/ \E i \in Items : CancelCall(i) \/ CleanedCall(i) \/ RetentionEnds(i)
    \/ SweepCall

LifecycleSpec == LifecycleInit /\ [][LifecycleNext]_lifecycleVars

---------------------------------------------------------------------------
LifecycleTypeOK ==
    /\ records \in [Items -> LifecycleRecord]
    /\ brackets \in [Items -> Nat]

\* in_flight is the number of operations between begin() and finish(); an item
\* reported drained or cleaned has none, one that is cancelling has some, and
\* only terminal records expire (exec_lifecycle.py:77-121, 138-144, 197-204).
RegistryExact ==
    \A i \in Items :
        /\ records[i].in_flight = brackets[i]
        /\ records[i].status \in {"none", "drained", "cleaned"} => brackets[i] = 0
        /\ records[i].status = "cancelling" => brackets[i] > 0
        /\ records[i].expiry = "never" <=> records[i].status \notin {"drained", "cleaned"}

\* An item once cancelled or cleaned takes no new work before its retention
\* has run out (exec_lifecycle.py:84-88, 138-144, 185-195).
CancelSticks ==
    [][\A i \in Items :
          (ShouldCancel(records, i) /\ records[i].expiry # "due")
              => records'[i].status \in RefusingStatuses]_lifecycleVars
============================================================================
