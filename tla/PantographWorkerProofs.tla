----------------------- MODULE PantographWorkerProofs -----------------------
(***************************************************************************)
(* Proofs about one task and its worker, for any lane, any number of       *)
(* tactics and any failures: every scratch file is in the store or         *)
(* unlinked when the task is over, and every open answer has a state of    *)
(* its own.                                                                *)
(*                                                                         *)
(* What has to be known of a running operation is where its files are: the *)
(* directory holds those of its results and the one it is saving, each     *)
(* once, and nothing else unless something went wrong before.              *)
(***************************************************************************)
EXTENDS PantographWorker, TLAPS

\* Where an operation of the worker is under way or has just returned.
Operating == {"load", "group", "tactic", "save", "code", "returned"}

\* What the exceptions of ScratchAccounted are about.
Leaks == {"torn", "store", "debug"}

Statuses == {"open", "complete", "error", "accepted", "rejected"}
Results  == [status : Statuses, file : Files \cup {None}]
AnswerTypes ==
    [how : {"done", "cancelled", "overloaded", "error"}, results : Seq(Results)]

TypesOK ==
    /\ asked \in Nat /\ results \in Seq(Results)
    /\ file \in Files \cup {None}
    /\ scratch \subseteq Files /\ promoted \subseteq Files
    /\ answers \in Seq(AnswerTypes)

\* The open results of a list, and no others, have a file, each its own.
Owning(R) ==
    /\ \A k \in DOMAIN R : R[k].status = "open" <=> R[k].file # None
    /\ \A j, k \in DOMAIN R : R[j].file = R[k].file /\ R[j].file # None => j = k

\* The file that is being saved.
Saving == IF pc = "save" THEN {file} ELSE {}

\* A running operation has its files on disk and none of them in the store.
OperationOK ==
    /\ pc \in Operating =>
          Owning(results) /\ FilesOf(results) \cup Saving \subseteq scratch \ promoted
    /\ pc = "save" => file # None /\ file \notin FilesOf(results)
    /\ pc \in {"load", "group", "code"} => results = <<>>

\* Nothing else is on disk unless the task leaked it.
DiskOK ==
    spoilt \cap Leaks = {} =>
        scratch = IF pc \in Operating THEN FilesOf(results) \cup Saving ELSE {}

\* What was answered as open is in the store, under a file of its own.
AnswersOK ==
    /\ \A a \in DOMAIN answers : /\ Owning(answers[a].results)
                                 /\ FilesOf(answers[a].results) \subseteq promoted
    /\ \A a, b \in DOMAIN answers :
          a # b => FilesOf(answers[a].results) \cap FilesOf(answers[b].results) = {}

WorkerInv == TypesOK /\ OperationOK /\ DiskOK /\ AnswersOK
-----------------------------------------------------------------------------
\* The files of a list with one more result.
LEMMA AppendFiles ==
    ASSUME NEW R \in Seq(Results), NEW r \in Results
    PROVE  FilesOf(Append(R, r)) = FilesOf(R) \cup ({r.file} \ {None})
<1>1. /\ Len(R) \in Nat /\ DOMAIN R = 1..Len(R)
      /\ DOMAIN Append(R, r) = (1..Len(R)) \cup {Len(R) + 1}
      /\ Append(R, r)[Len(R) + 1] = r
      /\ \A k \in 1..Len(R) : Append(R, r)[k] = R[k]
  OBVIOUS
<1> DEFINE S == Append(R, r)
<1> HIDE DEF S
<1>2. {S[k].file : k \in DOMAIN S} = {R[k].file : k \in DOMAIN R} \cup {r.file}
  BY <1>1 DEF S
<1> QED
  BY <1>2 DEF S, FilesOf

\* A list stays one of owners when a result with a new file, or without one,
\* joins it.
LEMMA AppendOwning ==
    ASSUME NEW R \in Seq(Results), Owning(R), NEW r \in Results,
           r.status = "open" <=> r.file # None, r.file \notin FilesOf(R)
    PROVE  Owning(Append(R, r))
<1>1. /\ Len(R) \in Nat /\ DOMAIN R = 1..Len(R)
      /\ DOMAIN Append(R, r) = (1..Len(R)) \cup {Len(R) + 1}
      /\ Append(R, r)[Len(R) + 1] = r
      /\ \A k \in 1..Len(R) : Append(R, r)[k] = R[k]
  OBVIOUS
<1> DEFINE S == Append(R, r)
<1> HIDE DEF S
<1>2. \A k \in DOMAIN R : R[k].file # None => R[k].file # r.file
  BY DEF FilesOf
<1>3. \A k \in DOMAIN S : S[k].status = "open" <=> S[k].file # None
  BY <1>1 DEF S, Owning
<1>4. \A j, k \in DOMAIN S : S[j].file = S[k].file /\ S[j].file # None => j = k
  BY <1>1, <1>2 DEF S, Owning
<1> QED
  BY <1>3, <1>4 DEF S, Owning

\* A list without files.
LEMMA NoFiles ==
    ASSUME NEW R, \A k \in DOMAIN R : R[k].status # "open" /\ R[k].file = None
    PROVE  Owning(R) /\ FilesOf(R) = {}
  BY DEF Owning, FilesOf

\* The results the code makes.
LEMMA ResultFacts ==
    /\ \A s \in Statuses, f \in Files \cup {None} :
          Result(s, f) \in Results /\ Result(s, f).status = s /\ Result(s, f).file = f
    /\ Failure \in Results /\ Failure.status = "error" /\ Failure.file = None
  BY DEF Result, Failure, Results, Statuses
\* An answer joins the others: its open results went into the store just now.
LEMMA AnswerJoins ==
    ASSUME WorkerInv, NEW how \in {"done", "cancelled", "overloaded", "error"},
           NEW told \in Seq(Results), Answers(how, told),
           Owning(told), FilesOf(told) \subseteq promoted' \ promoted,
           promoted \subseteq promoted'
    PROVE  answers' \in Seq(AnswerTypes) /\ AnswersOK'
<1> DEFINE new == [how |-> how, results |-> told]
<1>1. new \in AnswerTypes /\ new.results = told
  BY DEF AnswerTypes
<1>2. answers \in Seq(AnswerTypes) /\ answers' = Append(answers, new)
  BY DEF WorkerInv, TypesOK, Answers
<1> HIDE DEF new
<1>3. /\ answers' \in Seq(AnswerTypes)
      /\ Len(answers) \in Nat /\ DOMAIN answers = 1..Len(answers)
      /\ DOMAIN answers' = (1..Len(answers)) \cup {Len(answers) + 1}
      /\ answers'[Len(answers) + 1] = new
      /\ \A a \in 1..Len(answers) : answers'[a] = answers[a]
  BY <1>1, <1>2
<1>4. ASSUME NEW a \in DOMAIN answers'
      PROVE  /\ Owning(answers'[a].results)
             /\ FilesOf(answers'[a].results) \subseteq promoted'
  BY <1>1, <1>3 DEF WorkerInv, AnswersOK
<1>5. ASSUME NEW a \in DOMAIN answers', NEW b \in DOMAIN answers', a # b
      PROVE  FilesOf(answers'[a].results) \cap FilesOf(answers'[b].results) = {}
  BY <1>1, <1>3, <1>5 DEF WorkerInv, AnswersOK
<1> QED
  BY <1>3, <1>4, <1>5 DEF AnswersOK

\* Answers without results may always join, and then nothing is promoted.
LEMMA EmptyAnswerJoins ==
    ASSUME WorkerInv, NEW how \in {"done", "cancelled", "overloaded", "error"},
           Answers(how, <<>>), promoted \subseteq promoted'
    PROVE  answers' \in Seq(AnswerTypes) /\ AnswersOK'
<1>1. Owning(<<>>) /\ FilesOf(<<>>) = {} /\ <<>> \in Seq(Results)
  BY DEF Owning, FilesOf
<1> QED
  BY <1>1, AnswerJoins

\* The task ends an operation or moves outside of them.
LEMMA OutsideKeeps ==
    ASSUME WorkerInv, pc' \notin Operating, UNCHANGED <<asked, results, file>>,
           scratch' \subseteq Files, promoted \subseteq promoted', promoted' \subseteq Files,
           answers' = answers \/ (answers' \in Seq(AnswerTypes) /\ AnswersOK'),
           spoilt' \cap Leaks = {} => scratch' = {}
    PROVE  WorkerInv'
<1>1. TypesOK' /\ OperationOK' /\ AnswersOK'
  BY DEF WorkerInv, TypesOK, OperationOK, AnswersOK, Operating
<1>2. DiskOK'
  BY DEF DiskOK
<1> QED
  BY <1>1, <1>2 DEF WorkerInv

\* Then no file moves; who leaves an operation leaks its files.
LEMMA MovesKeep ==
    ASSUME WorkerInv, work' = work, promoted' = promoted,
           answers' = answers \/ (answers' \in Seq(AnswerTypes) /\ AnswersOK'),
           pc' \notin Operating, spoilt \subseteq spoilt',
           pc \in Operating => "torn" \in spoilt' \/ "debug" \in spoilt'
    PROVE  WorkerInv'
<1>1. UNCHANGED <<asked, results, file, scratch>>
  BY DEF work
<1>2. scratch' \subseteq Files /\ promoted' \subseteq Files
  BY <1>1 DEF WorkerInv, TypesOK
<1>3. spoilt' \cap Leaks = {} => scratch' = {}
  BY <1>1 DEF WorkerInv, DiskOK, Leaks
<1> QED
  BY <1>1, <1>2, <1>3, OutsideKeeps

\* Looking for a worker, and giving it back (exec_backends.py:216-251, 436-454).
LEMMA TaskMoves ==
    ASSUME WorkerInv,
           FoundCancelled \/ Acquire \/ AcquireFails \/ GiveBack \/ MeasureFails \/ Torn
    PROVE  WorkerInv'
<1> USE DEF Operating
<1>1. CASE FoundCancelled
  <2>1. answers' \in Seq(AnswerTypes) /\ AnswersOK'
    BY <1>1, EmptyAnswerJoins DEF FoundCancelled
  <2> QED
    BY <1>1, <2>1, MovesKeep DEF FoundCancelled, After
<1>2. CASE Acquire
  BY <1>2, MovesKeep DEF Acquire
<1>3. CASE AcquireFails
  <2>1. answers' = answers \/ (answers' \in Seq(AnswerTypes) /\ AnswersOK')
    BY <1>3, EmptyAnswerJoins DEF AcquireFails
  <2> QED
    BY <1>3, <2>1, MovesKeep DEF AcquireFails, After, Spoils
<1>4. CASE GiveBack
  BY <1>4, MovesKeep DEF GiveBack
<1>5. CASE MeasureFails
  <2>1. answers' \in Seq(AnswerTypes) /\ AnswersOK'
    BY <1>5, EmptyAnswerJoins DEF MeasureFails
  <2> QED
    BY <1>5, <2>1, MovesKeep DEF MeasureFails, Recycles, After, Spoils
<1>6. CASE Torn
  BY <1>6, MovesKeep DEF Torn, Spoils
<1> QED
  BY <1>1, <1>2, <1>3, <1>4, <1>5, <1>6

\* An operation begins with nothing of its own (pantograph_worker.py:430).
LEMMA BeginKeeps ==
    ASSUME WorkerInv, Begin PROVE WorkerInv'
<1>1. /\ pc \notin Operating /\ pc' \in {"load", "code"} /\ results' = <<>>
      /\ UNCHANGED <<file, scratch, promoted, answers, spoilt>>
  BY DEF Begin, Operating
<1>2. Owning(<<>>) /\ FilesOf(<<>>) = {}
  BY DEF Owning, FilesOf
<1>3. TypesOK' /\ AnswersOK'
  <2>1. <<>> \in Seq(Results)
    OBVIOUS
  <2>2. asked' \in Nat
    BY WorkerAssumption DEF Begin
  <2>3. TypesOK'
    BY <1>1, <2>1, <2>2 DEF WorkerInv, TypesOK
  <2> QED
    BY <1>1, <2>3 DEF WorkerInv, AnswersOK
<1>4. OperationOK'
  BY <1>1, <1>2 DEF OperationOK, Saving
<1>5. DiskOK'
  BY <1>1, <1>2 DEF WorkerInv, DiskOK, Saving, Operating
<1> QED
  BY <1>3, <1>4, <1>5 DEF WorkerInv

\* A command keeps the invariant if the operation goes on with results of its own
\* files, which with the one it saves are what it had on disk, less what it gave up
\* or more what it allocated.
LEMMA CommandKeeps ==
    ASSUME WorkerInv, pc \in Operating, pc' \in Operating,
           UNCHANGED <<promoted, answers, spoilt>>,
           asked' \in Nat, results' \in Seq(Results), Owning(results'), file' \in Files \cup {None},
           pc' = "save" => file' \in Files /\ file' \notin FilesOf(results'),
           pc' \in {"load", "group", "code"} => results' = <<>>,
           NEW gone, NEW come, come \subseteq Files \ (scratch \cup promoted),
           scratch' = (scratch \ gone) \cup come,
           ((FilesOf(results) \cup Saving) \ gone) \cup come
              = FilesOf(results') \cup (IF pc' = "save" THEN {file'} ELSE {})
    PROVE  WorkerInv'
<1>1. FilesOf(results) \cup Saving \subseteq scratch \ promoted
  BY DEF WorkerInv, OperationOK
<1>2. Saving' = IF pc' = "save" THEN {file'} ELSE {}
  BY DEF Saving
<1>3. TypesOK' /\ AnswersOK'
  BY DEF WorkerInv, TypesOK, AnswersOK
<1>4. FilesOf(results') \cup Saving' \subseteq scratch' \ promoted'
  BY <1>1, <1>2
<1>5. OperationOK'
  BY <1>2, <1>4, WorkerAssumption DEF OperationOK
<1>6. FilesOf(results)' = FilesOf(results')
  BY DEF FilesOf
<1>7. DiskOK'
  <2>1. SUFFICES ASSUME spoilt \cap Leaks = {}
                 PROVE  scratch' = FilesOf(results') \cup Saving'
    BY <1>6 DEF DiskOK
  <2>2. scratch = FilesOf(results) \cup Saving
    BY <2>1 DEF WorkerInv, DiskOK
  <2> QED
    BY <1>2, <2>2
<1> QED
  BY <1>3, <1>5, <1>7 DEF WorkerInv
\* An operation under way, before a command that has saved nothing for it yet.
LEMMA NothingYet ==
    ASSUME WorkerInv, pc \in {"load", "group", "code"}
    PROVE  /\ results = <<>> /\ Saving = {} /\ FilesOf(results) = {} /\ Owning(results)
           /\ asked \in Nat
  BY DEF WorkerInv, OperationOK, FilesOf, Owning, Saving, TypesOK

\* An operation returns results without files, having given up those it had.
LEMMA ReturnsBare ==
    ASSUME WorkerInv, pc \in Operating, UNCHANGED <<promoted, answers, spoilt>>,
           asked' \in Nat, NEW R \in Seq(Results), Returns(R),
           \A k \in DOMAIN R : R[k].status # "open" /\ R[k].file = None,
           scratch' = scratch \ (FilesOf(results) \cup Saving)
    PROVE  WorkerInv'
<1> DEFINE gone == FilesOf(results) \cup Saving
           come == {}
<1>1. /\ results' = R /\ pc' = "returned" /\ file' = None
      /\ Owning(R) /\ FilesOf(R) = {}
  BY NoFiles DEF Returns
<1>2. /\ scratch' = (scratch \ gone) \cup come
      /\ come \subseteq Files \ (scratch \cup promoted)
      /\ ((FilesOf(results) \cup Saving) \ gone) \cup come
            = FilesOf(results') \cup (IF pc' = "save" THEN {file'} ELSE {})
  BY <1>1
<1> HIDE DEF gone, come
<1>3. pc' \in Operating
  BY <1>1 DEF Operating
<1> QED
  BY <1>1, <1>2, <1>3, CommandKeeps

\* Lists that have one result for each tactic, or one.
LEMMA BareLists ==
    /\ \A n \in Nat : /\ [t \in 1..n |-> Failure] \in Seq(Results)
                      /\ \A k \in DOMAIN [t \in 1..n |-> Failure] :
                            /\ [t \in 1..n |-> Failure][k].status # "open"
                            /\ [t \in 1..n |-> Failure][k].file = None
    /\ \A r \in Results : /\ <<r>> \in Seq(Results)
                          /\ DOMAIN <<r>> = {1} /\ <<r>>[1] = r
<1>1. Failure \in Results /\ Failure.status # "open" /\ Failure.file = None
  BY ResultFacts
<1> HIDE DEF Failure
<1> QED
  BY <1>1

\* The parent is loaded and its goal group resumed, or every tactic fails
\* (pantograph_worker.py:197, 244).
LEMMA LoadKeeps ==
    ASSUME WorkerInv, UNCHANGED <<promoted, answers, spoilt>>, Load \/ ResumeGroup
    PROVE  WorkerInv'
<1> DEFINE R == [t \in 1..asked |-> Failure]
<1>1. pc \in {"load", "group"} /\ UNCHANGED <<asked, scratch>>
  BY DEF Load, ResumeGroup, Answered, Fails
<1>2. /\ results = <<>> /\ Saving = {} /\ FilesOf(results) = {} /\ Owning(results)
      /\ asked \in Nat /\ results \in Seq(Results) /\ file \in Files \cup {None}
  BY <1>1, NothingYet DEF WorkerInv, TypesOK
<1>3. \/ pc' \in {"group", "tactic"} /\ UNCHANGED <<results, file>>
      \/ Returns(R)
  BY DEF Load, ResumeGroup
<1>4. CASE Returns(R)
  <2>1. /\ R \in Seq(Results)
        /\ \A k \in DOMAIN R : R[k].status # "open" /\ R[k].file = None
    BY <1>2, BareLists
  <2> HIDE DEF R
  <2>2. scratch' = scratch \ (FilesOf(results) \cup Saving)
    BY <1>1, <1>2
  <2>3. pc \in Operating /\ asked' \in Nat
    BY <1>1, <1>2 DEF Operating
  <2> QED
    BY <1>4, <2>1, <2>2, <2>3, ReturnsBare
<1>5. CASE pc' \in {"group", "tactic"} /\ UNCHANGED <<results, file>>
  <2> DEFINE none == {}
  <2>1. /\ pc \in Operating /\ pc' \in Operating /\ pc' # "save"
        /\ none \subseteq Files \ (scratch \cup promoted)
        /\ scratch' = (scratch \ none) \cup none
        /\ ((FilesOf(results) \cup Saving) \ none) \cup none
              = FilesOf(results') \cup (IF pc' = "save" THEN {file'} ELSE {})
    BY <1>1, <1>2, <1>5 DEF Operating
  <2> HIDE DEF none
  <2> QED
    BY <1>1, <1>2, <1>5, <2>1, CommandKeeps
<1> QED
  BY <1>3, <1>4, <1>5
\* The list gets a result, with the file just saved or without one; a file that
\* was to be saved and is not the result's is given up.
LEMMA JoinKeeps ==
    ASSUME WorkerInv, pc \in {"tactic", "save"}, pc' \in Operating \ {"save", "load", "group", "code"},
           UNCHANGED <<promoted, answers, spoilt, asked>>, NEW r \in Results,
           r.status = "open" <=> r.file # None, r.file \in Saving \cup {None},
           results' = Append(results, r), file' = None,
           scratch' = scratch \ (Saving \ {r.file})
    PROVE  WorkerInv'
<1> DEFINE gone == Saving \ {r.file}
           come == {}
<1>1. /\ pc \in Operating /\ results \in Seq(Results) /\ asked \in Nat
      /\ Owning(results)
      /\ pc = "save" => file # None /\ file \notin FilesOf(results)
  BY DEF WorkerInv, TypesOK, OperationOK, Operating
<1>2. r.file \notin FilesOf(results)
  BY <1>1 DEF Saving, FilesOf
<1>3. /\ results' \in Seq(Results) /\ Owning(results')
      /\ FilesOf(results') = FilesOf(results) \cup ({r.file} \ {None})
  BY <1>1, <1>2, AppendFiles, AppendOwning
<1>4. None \notin Saving /\ Saving \cap FilesOf(results) = {}
  BY <1>1 DEF Saving
<1>5. /\ come \subseteq Files \ (scratch \cup promoted)
      /\ scratch' = (scratch \ gone) \cup come
      /\ ((FilesOf(results) \cup Saving) \ gone) \cup come
            = FilesOf(results') \cup (IF pc' = "save" THEN {file'} ELSE {})
  BY <1>3, <1>4
<1> HIDE DEF gone, come
<1> QED
  BY <1>1, <1>3, <1>5, CommandKeeps

\* A new state is saved under a new name, the last one having joined the list.
LEMMA SavesKeep ==
    ASSUME WorkerInv, pc \in Operating, Saves,
           UNCHANGED <<promoted, answers, spoilt>>, asked' \in Nat,
           results' \in Seq(Results), Owning(results'),
           FilesOf(results') = FilesOf(results) \cup Saving
    PROVE  WorkerInv'
<1>1. PICK f \in Files \ (scratch \cup promoted) : file' = f /\ scratch' = scratch \cup {f}
  BY DEF Saves
<1>2. pc' = "save" /\ pc' \in Operating
  BY DEF Saves, Operating
<1> DEFINE gone == {}
           come == {f}
<1>3. FilesOf(results) \cup Saving \subseteq scratch
  BY DEF WorkerInv, OperationOK
<1>4. file' \in Files /\ file' \notin FilesOf(results')
  BY <1>1, <1>3
<1>5. /\ come \subseteq Files \ (scratch \cup promoted)
      /\ scratch' = (scratch \ gone) \cup come
      /\ ((FilesOf(results) \cup Saving) \ gone) \cup come
            = FilesOf(results') \cup (IF pc' = "save" THEN {file'} ELSE {})
  BY <1>1, <1>2
<1> HIDE DEF gone, come
<1> QED
  BY <1>2, <1>4, <1>5, CommandKeeps

\* A tactic closes the goals, fails, or leaves a state that is saved
\* (pantograph_worker.py:376-413).
LEMMA TacticKeeps ==
    ASSUME WorkerInv, UNCHANGED <<promoted, answers, spoilt>>, Tactic \/ SaveChild
    PROVE  WorkerInv'
<1>1. /\ results \in Seq(Results) /\ asked \in Nat /\ file \in Files \cup {None}
      /\ pc = "save" => file # None
  BY DEF WorkerInv, TypesOK, OperationOK
<1>2. asked' = asked
  BY DEF Tactic, SaveChild
<1>3. ASSUME NEW r \in Results, TacticGives(r), pc \in {"tactic", "save"},
             r.status = "open" <=> r.file # None, r.file \in Saving \cup {None},
             scratch' = scratch \ (Saving \ {r.file})
      PROVE  WorkerInv'
  <2>1. pc' \in Operating \ {"save", "load", "group", "code"}
    BY <1>3 DEF TacticGives, Operating
  <2>2. results' = Append(results, r) /\ file' = None
    BY <1>3 DEF TacticGives
  <2> QED
    BY <1>2, <1>3, <2>1, <2>2, JoinKeeps
<1>4. CASE Tactic
  <2>1. pc = "tactic" /\ Saving = {} /\ pc \in Operating
    BY <1>4 DEF Tactic, Answered, Fails, Saving, Operating
  <2>2. ASSUME scratch' = scratch, TacticGives(Result("complete", None)) \/ TacticGives(Failure)
        PROVE  WorkerInv'
    <3>1. /\ Result("complete", None) \in Results /\ Result("complete", None).status = "complete"
          /\ Result("complete", None).file = None
      BY ResultFacts DEF Statuses
    <3>2. Failure \in Results /\ Failure.status = "error" /\ Failure.file = None
      BY ResultFacts
    <3> HIDE DEF Result, Failure
    <3> QED
      BY <1>3, <2>1, <2>2, <3>1, <3>2
  <2>3. ASSUME Saves, results' = results
        PROVE  WorkerInv'
    <3>1. Owning(results)
      BY <2>1 DEF WorkerInv, OperationOK
    <3> QED
      BY <1>1, <1>2, <2>1, <2>3, <3>1, SavesKeep
  <2> QED
    BY <1>4, <2>2, <2>3 DEF Tactic
<1>5. CASE SaveChild
  <2>1. pc = "save" /\ Saving = {file}
    BY <1>5 DEF SaveChild, Answered, Fails, Saving
  <2>2. CASE TacticGives(Result("open", file)) /\ scratch' = scratch
    <3>1. /\ Result("open", file) \in Results /\ Result("open", file).status = "open"
          /\ Result("open", file).file = file
      BY <1>1, ResultFacts DEF Statuses
    <3> HIDE DEF Result
    <3> QED
      BY <1>1, <1>3, <2>1, <2>2, <3>1
  <2>3. CASE TacticGives(Failure) /\ scratch' = scratch \ {file}
    <3>1. Failure \in Results /\ Failure.status = "error" /\ Failure.file = None
      BY ResultFacts
    <3> HIDE DEF Failure
    <3> QED
      BY <1>1, <1>3, <2>1, <2>3, <3>1
  <2> QED
    BY <1>5, <2>2, <2>3 DEF SaveChild
<1> QED
  BY <1>4, <1>5

\* A snippet is read and verified, or its states are saved one after the other;
\* one that fails takes the others with it (pantograph_worker.py:101-164, 267).
LEMMA CodeKeeps ==
    ASSUME WorkerInv, UNCHANGED <<promoted, answers, spoilt>>,
           LoadCode \/ SaveTarget \/ Compile
    PROVE  WorkerInv'
<1>1. /\ results \in Seq(Results) /\ asked \in Nat /\ file \in Files \cup {None}
      /\ pc = "save" => file # None /\ file \notin FilesOf(results)
      /\ MaxParts \in Nat
  BY WorkerAssumption DEF WorkerInv, TypesOK, OperationOK
<1>2. ASSUME pc \in Operating, asked' \in Nat, NEW r \in Results, Returns(<<r>>),
             r.status # "open", r.file = None,
             scratch' = scratch \ (FilesOf(results) \cup Saving)
      PROVE  WorkerInv'
  <2>1. <<r>> \in Seq(Results) /\ \A k \in DOMAIN <<r>> : <<r>>[k] = r
    BY BareLists
  <2>2. \A k \in DOMAIN <<r>> : <<r>>[k].status # "open" /\ <<r>>[k].file = None
    BY <1>2, <2>1
  <2> QED
    BY <1>2, <2>1, <2>2, ReturnsBare
<1>3. /\ Failure \in Results /\ Failure.status = "error" /\ Failure.file = None
      /\ \A s \in Statuses : /\ Result(s, None) \in Results /\ Result(s, None).status = s
                             /\ Result(s, None).file = None
      /\ Result("open", file) \in Results /\ Result("open", file).status = "open"
      /\ Result("open", file).file = file
  BY <1>1, ResultFacts DEF Statuses
<1> HIDE DEF Result, Failure
<1>4. CASE (LoadCode \/ Compile) /\ pc = "code"
  <2>1. /\ results = <<>> /\ Saving = {} /\ FilesOf(results) = {} /\ Owning(results)
        /\ pc \in Operating
    BY <1>4, NothingYet DEF Operating
  <2>2. ASSUME scratch' = scratch, asked' = asked,
               \/ \E s \in {"complete", "accepted", "rejected"} : Returns(<<Result(s, None)>>)
               \/ Returns(<<Failure>>)
        PROVE  WorkerInv'
    <3>1. scratch' = scratch \ (FilesOf(results) \cup Saving) /\ asked' \in Nat
      BY <1>1, <2>1, <2>2
    <3>2. CASE Returns(<<Failure>>)
      BY <1>2, <1>3, <2>1, <3>1, <3>2
    <3>3. ASSUME NEW s \in {"complete", "accepted", "rejected"}, Returns(<<Result(s, None)>>)
          PROVE  WorkerInv'
      <4>1. /\ Result(s, None) \in Results /\ Result(s, None).status # "open"
            /\ Result(s, None).file = None
        BY <1>3 DEF Statuses
      <4> QED
        BY <1>2, <2>1, <3>1, <3>3, <4>1
    <3> QED
      BY <2>2, <3>2, <3>3
  <2>3. ASSUME Saves, results' = results, asked' \in 1..MaxParts
        PROVE  WorkerInv'
    BY <1>1, <2>1, <2>3, SavesKeep
  <2> QED
    BY <1>4, <2>2, <2>3 DEF LoadCode, Compile
<1>5. CASE SaveTarget
  <2>1. pc = "save" /\ Saving = {file} /\ pc \in Operating /\ Owning(results)
    BY <1>5 DEF SaveTarget, Answered, Fails, Saving, Operating, WorkerInv, OperationOK
  <2> DEFINE r == Result("open", file)
             R == Append(results, r)
  <2>2. /\ R \in Seq(Results) /\ Owning(R)
        /\ FilesOf(R) = FilesOf(results) \cup Saving
    BY <1>1, <1>3, <2>1, AppendFiles, AppendOwning
  <2>3. CASE Returns(R) /\ scratch' = scratch /\ asked' = asked
    <3>1. /\ pc \in {"tactic", "save"}
          /\ pc' \in Operating \ {"save", "load", "group", "code"}
          /\ results' = R /\ file' = None
          /\ scratch' = scratch \ (Saving \ {r.file})
          /\ r.file \in Saving \cup {None}
      BY <1>3, <2>1, <2>3 DEF Returns, Operating
    <3>2. r \in Results /\ (r.status = "open" <=> r.file # None)
      BY <1>1, <1>3, <2>1
    <3> HIDE DEF r
    <3> QED
      BY <2>3, <3>1, <3>2, JoinKeeps
  <2>4. CASE results' = R /\ Saves /\ asked' = asked
    BY <1>1, <2>1, <2>2, <2>4, SavesKeep
  <2>5. CASE /\ Returns(<<Failure>>) /\ asked' = 1
             /\ scratch' = scratch \ (FilesOf(results) \cup {file})
    BY <1>2, <1>3, <2>1, <2>5
  <2> QED
    BY <1>5, <2>3, <2>4, <2>5 DEF SaveTarget
<1>6. (LoadCode \/ Compile) => pc = "code"
  BY DEF LoadCode, Compile, Answered, Fails
<1> QED
  BY <1>4, <1>5, <1>6
\* Every command (pantograph_worker.py).
LEMMA EveryCommand == ASSUME WorkerInv, Command PROVE WorkerInv'
<1>1. UNCHANGED <<promoted, answers, spoilt>>
  BY DEF Command
<1> QED
  BY <1>1, LoadKeeps, TacticKeeps, CodeKeeps DEF Command

\* An operation's files, when it has returned.
LEMMA ReturnedFiles ==
    ASSUME WorkerInv, pc = "returned"
    PROVE  /\ Owning(results) /\ results \in Seq(Results)
           /\ FilesOf(results) \subseteq scratch \ promoted
           /\ spoilt \cap Leaks = {} => scratch = FilesOf(results)
           /\ {results[k].file : k \in Open} = FilesOf(results)
<1>1. Saving = {} /\ pc \in Operating
  BY DEF Saving, Operating
<1>2. /\ Owning(results) /\ results \in Seq(Results)
      /\ FilesOf(results) \subseteq scratch \ promoted
      /\ spoilt \cap Leaks = {} => scratch = FilesOf(results)
  BY <1>1 DEF WorkerInv, OperationOK, DiskOK, TypesOK
<1>3. {results[k].file : k \in Open} = FilesOf(results)
  BY <1>2 DEF Owning, Open, FilesOf
<1> QED
  BY <1>2, <1>3

\* What an operation saved goes into the store, is unlinked, or stays behind a store
\* that fails (exec_backends.py:272-300).
LEMMA EndingKeeps ==
    ASSUME WorkerInv, Discarded \/ Committed \/ CommitFails PROVE WorkerInv'
<1>1. /\ pc = "returned" /\ pc' \notin Operating
      /\ UNCHANGED <<asked, results, file>>
  BY DEF Discarded, Committed, CommitFails, Recycles, After, Operating
<1>2. /\ Owning(results) /\ results \in Seq(Results)
      /\ FilesOf(results) \subseteq scratch \ promoted
      /\ spoilt \cap Leaks = {} => scratch = FilesOf(results)
      /\ {results[k].file : k \in Open} = FilesOf(results)
      /\ scratch \subseteq Files /\ promoted \subseteq Files
  BY <1>1, ReturnedFiles DEF WorkerInv, TypesOK
<1>3. CASE Discarded
  <2>1. /\ scratch' = scratch \ FilesOf(results) /\ promoted' = promoted
        /\ spoilt' = spoilt /\ Answers("cancelled", <<>>)
    BY <1>3 DEF Discarded
  <2>2. answers' \in Seq(AnswerTypes) /\ AnswersOK'
    BY <2>1, EmptyAnswerJoins
  <2> QED
    BY <1>1, <1>2, <2>1, <2>2, OutsideKeeps
<1>4. CASE Committed
  <2>1. /\ promoted' = promoted \cup FilesOf(results)
        /\ scratch' = scratch \ FilesOf(results)
        /\ spoilt' = spoilt /\ Answers("done", results)
    BY <1>2, <1>4 DEF Committed, Promotes
  <2>2. answers' \in Seq(AnswerTypes) /\ AnswersOK'
    BY <1>2, <2>1, AnswerJoins
  <2> QED
    BY <1>1, <1>2, <2>1, <2>2, OutsideKeeps
<1>5. CASE CommitFails
  <2>1. PICK k \in Open : Promotes({j \in Open : j < k})
    BY <1>5 DEF CommitFails
  <2>2. {results[i].file : i \in {j \in Open : j < k}} \subseteq FilesOf(results)
    BY <1>2
  <2>3. /\ promoted \subseteq promoted' /\ promoted' \subseteq Files
        /\ scratch' \subseteq Files
    BY <1>2, <2>1, <2>2 DEF Promotes
  <2>4. "store" \in spoilt' /\ Answers("error", <<>>)
    BY <1>5 DEF CommitFails, Spoils
  <2>5. answers' \in Seq(AnswerTypes) /\ AnswersOK'
    BY <2>3, <2>4, EmptyAnswerJoins
  <2>6. spoilt' \cap Leaks # {}
    BY <2>4 DEF Leaks
  <2> QED
    BY <1>1, <2>3, <2>5, <2>6, OutsideKeeps
<1> QED
  BY <1>3, <1>4, <1>5

\* A task begins with nothing.
LEMMA InvInit == Init => WorkerInv
<1> SUFFICES ASSUME Init PROVE WorkerInv
  OBVIOUS
<1>1. /\ results = <<>> /\ answers = <<>> /\ asked = 0 /\ file = None
      /\ scratch = {} /\ promoted = {} /\ pc = "next" /\ DOMAIN answers = {}
  BY DEF Init
<1>2. TypesOK
  BY <1>1 DEF TypesOK
<1>3. OperationOK /\ DiskOK /\ AnswersOK
  BY <1>1 DEF OperationOK, DiskOK, AnswersOK, Operating
<1> QED
  BY <1>2, <1>3 DEF WorkerInv

\* Every step keeps the invariant.
LEMMA InvStep == WorkerInv /\ [Next]_vars => WorkerInv'
<1> SUFFICES ASSUME WorkerInv, [Next]_vars PROVE WorkerInv'
  OBVIOUS
<1>1. ASSUME UNCHANGED <<pc, work, promoted, answers, spoilt>> PROVE WorkerInv'
  <2>1. /\ UNCHANGED <<pc, asked, results, file, scratch, promoted, answers, spoilt>>
        /\ Saving' = Saving
    BY <1>1 DEF work, Saving
  <2>2. TypesOK' /\ DiskOK'
    BY <2>1 DEF WorkerInv, TypesOK, DiskOK
  <2>3. OperationOK' /\ AnswersOK'
    BY <2>1 DEF WorkerInv, OperationOK, AnswersOK
  <2> QED
    BY <2>2, <2>3 DEF WorkerInv
<1>2. CASE Exits
  BY <1>1, <1>2 DEF Exits
<1>3. CASE UNCHANGED vars
  BY <1>1, <1>3 DEF vars
<1> QED
  BY <1>2, <1>3, TaskMoves, BeginKeeps, EveryCommand, EndingKeeps DEF Next, Task

\* The inductive invariant of a task and its worker.
THEOREM WorkerInvariant == Spec => []WorkerInv
<1> QED
  BY InvInit, InvStep, PTL DEF Spec

\* However commands fail, time out or are overtaken by a cancel, every scratch file
\* ends in the store or unlinked, and each open answer has a state of its own there
\* (pantograph_worker.py:101-164, 376-428, exec_backends.py:272-300).
THEOREM WorkerScratchAccounted == Spec => []ScratchAccounted
<1>1. ASSUME WorkerInv PROVE ScratchAccounted
  <2>1. pc = "over" /\ spoilt \cap {"torn", "store", "debug"} = {} => scratch = {}
    BY <1>1 DEF WorkerInv, DiskOK, Leaks, Operating
  <2>2. ASSUME NEW a \in DOMAIN answers, NEW j \in DOMAIN answers[a].results
        PROVE  /\ answers[a].results[j].status = "open"
                     => answers[a].results[j].file \in FilesOf(answers[a].results)
               /\ answers[a].results[j].status = "open"
                     <=> answers[a].results[j].file \in promoted
    <3>1. /\ Owning(answers[a].results) /\ FilesOf(answers[a].results) \subseteq promoted
          /\ promoted \subseteq Files
      BY <1>1 DEF WorkerInv, AnswersOK, TypesOK
    <3>2. None \notin promoted
      BY <3>1, WorkerAssumption
    <3>3. answers[a].results[j].status = "open" <=> answers[a].results[j].file # None
      BY <2>2, <3>1 DEF Owning
    <3>4. answers[a].results[j].file # None
             => answers[a].results[j].file \in FilesOf(answers[a].results)
      BY <2>2 DEF FilesOf
    <3> QED
      BY <3>1, <3>2, <3>3, <3>4
  <2>3. ASSUME NEW a \in DOMAIN answers, NEW b \in DOMAIN answers,
               NEW j \in DOMAIN answers[a].results, NEW k \in DOMAIN answers[b].results,
               answers[a].results[j].status = "open",
               answers[a].results[j].file = answers[b].results[k].file
        PROVE  a = b /\ j = k
    <3>1. answers[a].results[j].file \in FilesOf(answers[a].results) /\ answers[a].results[j].file # None
      BY <2>2, <2>3 DEF FilesOf
    <3>2. answers[b].results[k].file \in FilesOf(answers[b].results)
      BY <2>3, <3>1 DEF FilesOf
    <3>3. a = b
      BY <1>1, <2>3, <3>1, <3>2 DEF WorkerInv, AnswersOK
    <3>4. Owning(answers[a].results)
      BY <1>1 DEF WorkerInv, AnswersOK
    <3> QED
      BY <2>3, <3>1, <3>3, <3>4 DEF Owning
  <2> QED
    BY <2>1, <2>2, <2>3 DEF ScratchAccounted
<1> QED
  BY <1>1, WorkerInvariant, PTL
=============================================================================
