-------------------------- MODULE PantographWorker --------------------------
(***************************************************************************)
(* One task that works through a leased worker: create_one and verify_one  *)
(* of routers/exec.py and a lane of a step_batch (exec_backends.py), down  *)
(* to the commands of server/pantograph_worker.py, which are where the     *)
(* task awaits, and to the scratch file of every state it saves.           *)
(*                                                                         *)
(* A command is answered, fails, or times out, which kills the process;    *)
(* every command fails when the process is dead.  Scratch names are unique *)
(* and the directory is shared with nobody who touches them, so one task   *)
(* is enough.  Which worker is leased, and the registry that says an item  *)
(* is cancelled, are PantographManager and ExecItems.                      *)
(***************************************************************************)
EXTENDS Integers, Sequences, FiniteSets

CONSTANTS
    Files,       \* bound: scratch files that exist at once
    None,
    MaxItems,    \* bound: items of a lane
    MaxParts     \* bound: tactics of an item, or states of a snippet

ASSUME WorkerAssumption ==
    /\ None \notin Files /\ IsFiniteSet(Files)
    /\ MaxItems \in Nat \ {0} /\ MaxParts \in Nat \ {0}

VARIABLES
    kind,        \* "create", "verify" or "lane"
    pc,          \* where the task awaits
    items,       \* items still to be answered
    leased,      \* it has a lease
    alive,       \* the process of the leased worker lives
    measured,    \* the operation runs inside _with_debug
    asked,       \* tactics of the item, or states found in the snippet
    results,     \* results of the operation so far
    file,        \* the file that is being saved
    scratch,     \* pg_*.bin files on disk
    promoted,    \* files moved into the state store
    answers,     \* answered items
    spoilt       \* history: what went wrong with the task itself

work == <<asked, results, file, scratch>>
vars == <<kind, pc, items, leased, alive, measured, promoted, answers, spoilt, work>>

Result(status, f) == [status |-> status, file |-> f]
Failure == Result("error", None)

Init ==
    /\ kind \in {"create", "verify", "lane"}
    /\ items \in 1..MaxItems /\ (kind # "lane" => items = 1)
    /\ pc = "next" /\ leased = FALSE /\ alive = FALSE /\ measured = FALSE
    /\ asked = 0 /\ results = <<>> /\ file = None
    /\ scratch = {} /\ promoted = {} /\ answers = <<>> /\ spoilt = {}

\* The item's answer: `how` is "done" or what every tactic of it is told.
Answers(how, told) ==
    /\ answers' = Append(answers, [how |-> how, results |-> told])
    /\ items' = items - 1

Spoils(how) == spoilt' = spoilt \cup {how}

After == IF items = 1 THEN "return" ELSE "next"

----------------------------------------------------------------------------
\* begin() refuses the item, or a lane finds it cancelled.
FoundCancelled ==
    /\ pc = "next" \/ pc = "leased"
    /\ Answers("cancelled", <<>>)
    /\ pc' = After
    /\ UNCHANGED <<kind, leased, alive, measured, promoted, spoilt, work>>

\* get_worker() gives a worker, which may have died in the pool.
Acquire ==
    /\ pc = "next" /\ ~leased
    /\ leased' = TRUE /\ alive' \in BOOLEAN
    /\ pc' = "leased"
    /\ UNCHANGED <<kind, items, measured, promoted, answers, spoilt, work>>

\* It finds none in time, or the worker's start fails: that ends a lane, which
\* answers no more items, and is an error of a create or verify item.
AcquireFails ==
    /\ pc = "next" /\ ~leased
    /\ \/ Answers("overloaded", <<>>) /\ pc' = After /\ UNCHANGED spoilt
       \/ /\ kind = "lane" /\ pc' = "return" /\ Spoils("start")
          /\ UNCHANGED <<answers, items>>
       \/ /\ kind # "lane" /\ Answers("error", <<>>) /\ pc' = After
          /\ UNCHANGED spoilt
    /\ UNCHANGED <<kind, leased, alive, measured, promoted, work>>

\* The operation begins; debug is measured only while there is a process.
Begin ==
    /\ pc = "leased" \/ (pc = "next" /\ leased)
    /\ pc' = IF kind = "lane" THEN "load" ELSE "code"
    /\ measured' \in {FALSE, alive}
    /\ IF kind = "lane" THEN asked' \in 1..MaxParts ELSE asked' = 1
    /\ results' = <<>>
    /\ UNCHANGED <<kind, items, leased, alive, file, scratch, promoted, answers, spoilt>>
----------------------------------------------------------------------------
\* The command at `at` is answered, or fails.
Answered(at) == pc = at /\ alive /\ UNCHANGED alive
Fails(at) == pc = at /\ alive' \in {FALSE, alive}

\* The operation of the worker has returned R.
Returns(R) == results' = R /\ pc' = "returned" /\ file' = None

\* The result of one tactic; the next is tried on the same parent.
TacticGives(result) ==
    /\ results' = Append(results, result)
    /\ pc' = IF Len(results') = asked THEN "returned" ELSE "tactic"
    /\ file' = None

\* _allocate_state_path(), and goal_save into that file.
Saves ==
    /\ \E f \in Files \ (scratch \cup promoted) :
         file' = f /\ scratch' = scratch \cup {f}
    /\ pc' = "save"

\* goal_load of the parent; a goal group is then resumed, or is invalid.
Load ==
    /\ \/ Answered("load") /\ pc' \in {"group", "tactic"} /\ UNCHANGED <<results, file>>
       \/ Fails("load") /\ Returns([t \in 1..asked |-> Failure])
    /\ UNCHANGED <<asked, scratch>>

ResumeGroup ==
    /\ \/ Answered("group") /\ pc' = "tactic" /\ UNCHANGED <<results, file>>
       \/ Fails("group") /\ Returns([t \in 1..asked |-> Failure])
    /\ UNCHANGED <<asked, scratch>>

Tactic ==
    /\ \/ Answered("tactic") /\ TacticGives(Result("complete", None)) /\ UNCHANGED scratch
       \/ Answered("tactic") /\ Saves /\ UNCHANGED results
       \/ Fails("tactic") /\ TacticGives(Failure) /\ UNCHANGED scratch
    /\ UNCHANGED asked

SaveChild ==
    /\ kind = "lane"
    /\ \/ Answered("save") /\ TacticGives(Result("open", file)) /\ UNCHANGED scratch
       \/ Fails("save") /\ TacticGives(Failure) /\ scratch' = scratch \ {file}
    /\ UNCHANGED asked

\* load_sorry: a snippet without holes is complete, the others are saved.
LoadCode ==
    /\ kind = "create"
    /\ \/ /\ Answered("code") /\ Returns(<<Result("complete", None)>>)
          /\ UNCHANGED <<asked, scratch>>
       \/ /\ Answered("code") /\ asked' \in 1..MaxParts /\ Saves
          /\ UNCHANGED results
       \/ /\ Fails("code") /\ Returns(<<Failure>>)
          /\ UNCHANGED <<asked, scratch>>

FilesOf(R) == {R[k].file : k \in DOMAIN R} \ {None}

\* Seeded bug: only the file being saved is unlinked, not the earlier ones.
SaveTargetKeepsOthers ==
    /\ kind = "create"
    /\ \/ /\ Answered("save")
          /\ IF Len(results) + 1 = asked
             THEN Returns(Append(results, Result("open", file))) /\ UNCHANGED scratch
             ELSE results' = Append(results, Result("open", file)) /\ Saves
          /\ UNCHANGED asked
       \/ /\ Fails("save") /\ Returns(<<Failure>>) /\ asked' = 1
          /\ scratch' = scratch \ {file}

\* One save that fails takes the files of the others with it.
SaveTarget ==
    /\ kind = "create"
    /\ \/ /\ Answered("save")
          /\ IF Len(results) + 1 = asked
             THEN Returns(Append(results, Result("open", file))) /\ UNCHANGED scratch
             ELSE results' = Append(results, Result("open", file)) /\ Saves
          /\ UNCHANGED asked
       \/ /\ Fails("save") /\ Returns(<<Failure>>) /\ asked' = 1
          /\ scratch' = scratch \ (FilesOf(results) \cup {file})

\* check_compile; its messages decide between the two (PantographMessages).
Compile ==
    /\ kind = "verify"
    /\ \/ \E verdict \in {"accepted", "rejected"} :
            Answered("code") /\ Returns(<<Result(verdict, None)>>)
       \/ Fails("code") /\ Returns(<<Failure>>)
    /\ UNCHANGED <<asked, scratch>>

Command ==
    /\ Load \/ ResumeGroup \/ Tactic \/ SaveChild \/ LoadCode \/ SaveTarget \/ Compile
    /\ UNCHANGED <<kind, items, leased, measured, promoted, answers, spoilt>>
----------------------------------------------------------------------------
\* After an item a lane gives a dead worker back and takes another.
Recycles ==
    /\ pc' = After
    /\ leased' = (alive \/ items = 1 \/ kind # "lane")

\* The files the operation saved are moved into the store, in order.
Open == {k \in DOMAIN results : results[k].status = "open"}
Promotes(K) ==
    LET moved == {results[k].file : k \in K}
    IN promoted' = promoted \cup moved /\ scratch' = scratch \ moved

\* The item was cancelled meanwhile.
Discarded ==
    /\ pc = "returned" /\ kind # "verify"
    /\ scratch' = scratch \ FilesOf(results)
    /\ Answers("cancelled", <<>>) /\ Recycles
    /\ UNCHANGED <<kind, alive, measured, promoted, spoilt, asked, results, file>>

Committed ==
    /\ pc = "returned"
    /\ Promotes(Open)
    /\ Answers("done", results) /\ Recycles
    /\ UNCHANGED <<kind, alive, measured, spoilt, asked, results, file>>

\* put() or create_child() raises for one of them; it and the next ones stay.
CommitFails ==
    /\ pc = "returned"
    /\ \E k \in Open : Promotes({j \in Open : j < k})
    /\ Answers("error", <<>>) /\ Recycles /\ Spoils("store")
    /\ UNCHANGED <<kind, alive, measured, asked, results, file>>

\* psutil finds no process to measure: the results are lost, the files stay.
MeasureFails ==
    /\ pc = "returned" /\ measured /\ ~alive
    /\ Answers("error", <<>>) /\ Recycles
    /\ Spoils("debug")
    /\ UNCHANGED <<kind, alive, measured, promoted, work>>

\* Seeded bug: a worker that died stays leased.
GiveBackLive ==
    /\ pc = "return"
    /\ pc' = "over" /\ leased' = (leased /\ ~alive) /\ alive' = FALSE
    /\ UNCHANGED <<kind, items, measured, promoted, answers, spoilt, work>>

\* return_worker(): a dead worker, or one whose collection fails, is destroyed.
GiveBack ==
    /\ pc = "return"
    /\ pc' = "over" /\ leased' = FALSE /\ alive' = FALSE
    /\ UNCHANGED <<kind, items, measured, promoted, answers, spoilt, work>>

\* The request is cancelled; only the finally clause runs, or what is left of
\* it: cancelled while it gives the worker back, it does neither of the two.
Torn ==
    /\ \/ /\ pc \in {"next", "load", "group", "tactic", "save", "code"}
          /\ pc = "next" => ~leased
          /\ pc' = "return" /\ Spoils("torn")
       \/ pc = "return" /\ leased /\ pc' = "over" /\ Spoils("lost")
    /\ UNCHANGED <<kind, items, leased, alive, measured, promoted, answers, work>>

Exits ==
    /\ leased /\ alive /\ alive' = FALSE
    /\ UNCHANGED <<kind, pc, items, leased, measured, promoted, answers, spoilt, work>>

Task ==
    \/ FoundCancelled \/ Acquire \/ AcquireFails \/ Begin \/ Command
    \/ Discarded \/ Committed \/ CommitFails \/ MeasureFails \/ GiveBack

Next == Task \/ Torn \/ Exits

\* Every command ends, by its timeout at the latest.
Spec == Init /\ [][Next]_vars /\ WF_vars(Task)
----------------------------------------------------------------------------
\* No scratch file outlives its task: each is in the store or unlinked, however
\* commands fail, time out or are overtaken by a cancel.  The exceptions are a
\* request torn down, a store that cannot move a file, and a debug measurement
\* of a process that died after a state was saved.  And an answer "open" always
\* has a state of its own in the store.
ScratchAccounted ==
    /\ pc = "over" /\ spoilt \cap {"torn", "store", "debug"} = {} => scratch = {}
    /\ \A a, b \in DOMAIN answers :
         \A j \in DOMAIN answers[a].results, k \in DOMAIN answers[b].results :
            LET r == answers[a].results[j]
                s == answers[b].results[k]
            IN /\ r.status = "open" <=> r.file \in promoted
               /\ r.status = "open" /\ <<a, j>> # <<b, k>> => r.file # s.file

\* Every task ends, with its worker given back and its items answered.  Only a
\* cancel while it gives the worker back loses the worker, and only a cancel or
\* a worker that does not start leaves items without an answer.
TaskEnds ==
    <>(/\ pc = "over"
       /\ leased => "lost" \in spoilt
       /\ items = 0 \/ spoilt \cap {"torn", "start"} # {})
============================================================================
