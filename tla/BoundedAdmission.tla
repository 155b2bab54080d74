------------------------- MODULE BoundedAdmission -------------------------
(***************************************************************************)
(* What server/exec_request_limiter.py promises its callers, without the   *)
(* condition variable and the two counters it uses to keep the promise:    *)
(* at most MaxInFlight tasks are inside a slot, at most MaxQueued tasks    *)
(* stand in line, and a task is turned away only when both are full.  -1   *)
(* removes a bound.  The order in which the line is served is left open:   *)
(* the limiter lets a newcomer take a slot ahead of a waiting task.        *)
(***************************************************************************)
EXTENDS Integers, FiniteSets

CONSTANTS Tasks, MaxInFlight, MaxQueued

VARIABLE status    \* status[t]: where task t stands

Inside  == {t \in Tasks : status[t] = "inside"}
InLine  == {t \in Tasks : status[t] = "line"}

HasRoom == MaxInFlight < 0 \/ Cardinality(Inside) < MaxInFlight
LineFull == MaxQueued >= 0 /\ Cardinality(InLine) >= MaxQueued

Init == status = [t \in Tasks |-> "out"]

Move(t, from, to) ==
    /\ status[t] = from
    /\ status' = [status EXCEPT ![t] = to]

Enter(t)    == HasRoom /\ Move(t, "out", "inside")
JoinLine(t) == ~HasRoom /\ ~LineFull /\ Move(t, "out", "line")
Refuse(t)   == ~HasRoom /\ LineFull /\ Move(t, "out", "refused")
Promote(t)  == HasRoom /\ Move(t, "line", "inside")
GiveUp(t)   == Move(t, "line", "out")
Leave(t)    == Move(t, "inside", "out")
Respond(t)  == Move(t, "refused", "out")

Next ==
    \E t \in Tasks :
        \/ Enter(t) \/ JoinLine(t) \/ Refuse(t) \/ Promote(t)
        \/ GiveUp(t) \/ Leave(t) \/ Respond(t)

Spec == Init /\ [][Next]_status
============================================================================
