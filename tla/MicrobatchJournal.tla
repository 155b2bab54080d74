------------------------- MODULE MicrobatchJournal -------------------------
(***************************************************************************)
(* step_batch_resumable of lean_client/exec_env.py and its journal on      *)
(* disk, lean_client/exec_journal.py: a call of several microbatches that  *)
(* may fail or whose process may be killed at any point, and is made again *)
(* under the same env_call_id.                                             *)
(*                                                                         *)
(* The journal is written to a temporary file that then replaces it, so a  *)
(* kill leaves the old journal or the new one.  A run of a microbatch on   *)
(* the server is told apart from another run of it: their tokens differ.   *)
(***************************************************************************)
EXTENDS Integers, Sequences, FiniteSets

CONSTANTS
    Plans,       \* item lists and microbatch sizes a caller may pass
    Request,     \* Request[p]: payload of each microbatch of plan p, a sequence
    None,
    MaxRuns      \* bound: runs of one microbatch on the server

Payloads == UNION {{Request[p][k] : k \in DOMAIN Request[p]} : p \in Plans}
Places   == UNION {DOMAIN Request[p] : p \in Plans}
\* The response of the n-th run of the microbatch at k.
Responses == Places \X (1..MaxRuns)

Record ==
    [status : {"running", "unknown"}, request : Payloads, response : {None}] \cup
    [status : {"complete"}, request : Payloads, response : Responses]

ASSUME JournalAssumption ==
    /\ MaxRuns \in Nat \ {0} /\ DOMAIN Request = Plans
    /\ \A p \in Plans : Request[p] \in Seq(Payloads)
    /\ None \notin Record

VARIABLES
    journal,     \* the file: [status, request, response] of each microbatch
    pc,          \* "down", or where the caller's process is in the call
    plan,        \* what it was called with
    merged,      \* responses merged so far: the next microbatch is the next index
    runs         \* history: how often the server ran each microbatch

journalVars == <<journal, pc, plan, merged, runs>>

Here     == Len(merged) + 1
Current  == Request[plan][Here]

JournalTypeOK ==
    /\ journal \in [Places -> Record \cup {None}]
    /\ pc \in {"down", "loop", "sent", "returned", "raised"}
    /\ plan \in Plans
    /\ merged \in Seq(Responses) /\ Len(merged) <= Len(Request[plan])
    /\ runs \in [Places -> 0..MaxRuns]

JournalInit ==
    /\ journal = [k \in Places |-> None]
    /\ pc = "down" /\ plan \in Plans /\ merged = <<>>
    /\ runs = [k \in Places |-> 0]

Put(status, response) ==
    journal' = [journal EXCEPT ![Here] =
        [status |-> status, request |-> Current, response |-> response]]

\* The call is made, for the first time or again, perhaps with other items.
Call(p) ==
    /\ pc \in {"down", "returned", "raised"}
    /\ pc' = "loop" /\ plan' = p /\ merged' = <<>>
    /\ UNCHANGED <<journal, runs>>

\* Seeded bug: a microbatch whose outcome is unknown is sent again.
UnsentOrFailed(record) == IF record = None THEN TRUE ELSE record.status # "complete"

Unsent(record) == record = None

\* A complete record is reused if it is of this very request.
Reuse ==
    /\ pc = "loop" /\ Here \in DOMAIN Request[plan]
    /\ LET record == journal[Here]
       IN /\ ~Unsent(record)
          /\ record.request = Current /\ record.status = "complete"
          /\ merged' = Append(merged, record.response)
    /\ UNCHANGED <<journal, pc, plan, runs>>

\* One of another request, or not complete: an error.
Refuse ==
    /\ pc = "loop" /\ Here \in DOMAIN Request[plan]
    /\ LET record == journal[Here]
       IN ~Unsent(record) /\ (record.request # Current \/ record.status # "complete")
    /\ pc' = "raised"
    /\ UNCHANGED <<journal, plan, merged, runs>>

\* A new microbatch is journalled as running and sent.
Send ==
    /\ pc = "loop" /\ Here \in DOMAIN Request[plan]
    /\ Unsent(journal[Here])
    /\ Put("running", None)
    /\ pc' = "sent"
    /\ UNCHANGED <<plan, merged, runs>>

Runs(k) == runs[k] < MaxRuns /\ runs' = [runs EXCEPT ![k] = @ + 1]

\* Seeded bug: the response is not stored before the next microbatch.
RespondedUnstored ==
    /\ pc = "sent" /\ Runs(Here)
    /\ UNCHANGED journal
    /\ merged' = Append(merged, <<Here, runs'[Here]>>)
    /\ pc' = "loop"
    /\ UNCHANGED plan

\* The server runs it and answers: the response is journalled and merged.
Responded ==
    /\ pc = "sent" /\ Runs(Here)
    /\ Put("complete", <<Here, runs'[Here]>>)
    /\ merged' = Append(merged, <<Here, runs'[Here]>>)
    /\ pc' = "loop"
    /\ UNCHANGED plan

\* step_batch raises, whether the server ran it or not; even a rejection by a
\* full server is journalled as unknown.
Failed ==
    /\ pc = "sent" /\ (Runs(Here) \/ UNCHANGED runs)
    /\ Put("unknown", None)
    /\ pc' = "raised"
    /\ UNCHANGED <<plan, merged>>

Returns ==
    /\ pc = "loop" /\ Here \notin DOMAIN Request[plan]
    /\ pc' = "returned"
    /\ UNCHANGED <<journal, plan, merged, runs>>

\* The process is killed, or its task cancelled (CancelledError is no
\* Exception); a request on its way may still be run.
Killed ==
    /\ pc \in {"loop", "sent"}
    /\ pc' = "down"
    /\ UNCHANGED runs \/ (pc = "sent" /\ Runs(Here))
    /\ UNCHANGED <<journal, plan, merged>>

JournalNext ==
    \/ \E p \in Plans : Call(p)
    \/ Reuse \/ Refuse \/ Send \/ Responded \/ Failed \/ Returns \/ Killed

JournalSpec == JournalInit /\ [][JournalNext]_journalVars
----------------------------------------------------------------------------
\* Whatever fails and however often the call is made again, no microbatch runs
\* twice under one env_call_id.
AtMostOnce == \A k \in Places : runs[k] <= 1

\* What a call returns is the outcome of the only run of each of its own
\* microbatches: nothing of another plan, nothing invented, nothing left out.
ReturnsWhatRan ==
    pc = "returned" =>
        /\ Len(merged) = Len(Request[plan])
        /\ \A k \in DOMAIN merged :
             /\ merged[k] = <<k, runs[k]>>
             /\ journal[k].request = Request[plan][k]
             /\ journal[k].response = merged[k]
============================================================================
