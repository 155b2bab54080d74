------------------------- MODULE LifecycleRegistry -------------------------
(***************************************************************************)
(* server/exec_lifecycle.py: the registry that brackets every exec         *)
(* operation on an item between begin() and finish(), and that decides     *)
(* what cancel and cleanup may say about the item.                         *)
(*                                                                         *)
(* The registry is synchronous and is only touched on the event loop, so   *)
(* each call is atomic.  Its methods are operators from a registry r to a  *)
(* registry, because callers make several calls in one event-loop slice    *)
(* (exec_backends.py:131-148, 171-174).                                    *)
(*                                                                         *)
(* Time is abstracted to what the registry asks about it: a terminal       *)
(* record is "armed" until its retention has run out and "due" after that; *)
(* it stays in the registry until some call sweeps it.                     *)
(***************************************************************************)
EXTENDS Integers, ExecIds

RefusingStatuses == {"cancelling", "drained", "cleaned"}

LifecycleRecord ==
    [status    : {"none", "active"} \cup RefusingStatuses,
     in_flight : Nat,
     expiry    : {"never", "armed", "due"}]

NoRecord == [status |-> "none", in_flight |-> 0, expiry |-> "never"]

\* _set_terminal
Terminal(status) == [status |-> status, in_flight |-> 0, expiry |-> "armed"]

\* should_cancel; begin() refuses on the same statuses.  It does not sweep, so
\* a record that is due still refuses until somebody sweeps it.
ShouldCancel(r, i) == r[i].status \in RefusingStatuses

\* sweep_terminal
Swept(r) == [i \in Items |-> IF r[i].expiry = "due" THEN NoRecord ELSE r[i]]

---------------------------------------------------------------------------
\* calls[i] begin() calls on each item i, back to back.
Begun(r, calls) ==
    IF \A i \in Items : calls[i] = 0 THEN r
    ELSE [i \in Items |->
            LET rec == Swept(r)[i]
            IN  IF calls[i] = 0 \/ ShouldCancel(Swept(r), i) THEN rec
                ELSE [status    |-> "active",
                      in_flight |-> rec.in_flight + calls[i],
                      expiry    |-> rec.expiry]]

\* Seeded bug: the bracket of a cancelled item is closed without draining it.
FinishedUndrained(r, calls) ==
    [i \in Items |->
        [r[i] EXCEPT !.in_flight = IF @ > calls[i] THEN @ - calls[i] ELSE 0]]

\* Seeded bug: the last finish() makes the item active again.
FinishedReviving(r, calls) ==
    [i \in Items |->
        LET left == IF r[i].in_flight > calls[i] THEN r[i].in_flight - calls[i] ELSE 0
        IN  IF calls[i] = 0 THEN r[i]
            ELSE [r[i] EXCEPT !.status = IF left = 0 THEN "active" ELSE @,
                              !.in_flight = left]]

\* calls[i] finish() calls on each item i, back to back.  The last of them
\* drains an item that is being cancelled.
Finished(r, calls) ==
    [i \in Items |->
        LET rec  == r[i]
            left == IF rec.in_flight > calls[i] THEN rec.in_flight - calls[i] ELSE 0
        IN  IF calls[i] = 0 THEN rec
            ELSE IF rec.status = "cancelling" /\ left = 0 THEN Terminal("drained")
            ELSE [status    |-> IF rec.status = "none" THEN "active" ELSE rec.status,
                  in_flight |-> left,
                  expiry    |-> rec.expiry]]

\* cancel
Cancelled(r, i) ==
    LET s   == Swept(r)
        rec == s[i]
    IN  [s EXCEPT ![i] =
            IF rec.status = "cleaned" THEN rec
            ELSE IF rec.in_flight = 0 THEN Terminal("drained")
            ELSE [status |-> "cancelling", in_flight |-> rec.in_flight, expiry |-> "never"]]

\* cleanup_decision(...).should_delete
CleanupMayDelete(r, i) == Swept(r)[i].in_flight = 0

\* mark_cleaned
Cleaned(r, i) == [r EXCEPT ![i] = Terminal("cleaned")]
============================================================================
