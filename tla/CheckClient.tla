---------------------------- MODULE CheckClient ----------------------------
(***************************************************************************)
(* What the clients make of a check: AsyncKiminaClient.check and           *)
(* KiminaClient.check cut the snippets into batches and merge the answers, *)
(* models.ReplResponse.analyze and proof_utils.parse_client_response say   *)
(* what an answer means.                                                   *)
(*                                                                         *)
(* An answer is an error of the server or of the request, a REPL error, or *)
(* what Lean said: its messages and its list of sorries.                   *)
(***************************************************************************)
EXTENDS Integers, Sequences, FiniteSets, SequencesExt

\* Seeded bug: the last batch is left out when it is not full.
BatchesFullOnly(snippets, size) ==
    [b \in 1..(Len(snippets) \div size) |-> SubSeq(snippets, (b - 1) * size + 1, b * size)]

\* check(): range(0, len(snippets), batch_size)
Batches(snippets, size) ==
    [b \in 1..((Len(snippets) + size - 1) \div size) |->
        SubSeq(snippets, (b - 1) * size + 1,
               IF b * size < Len(snippets) THEN b * size ELSE Len(snippets))]

\* api_check(safe=True) of a batch that the server answers with `answer`, or
\* whose request fails: then, or if ids repeat in it, each snippet gets the error.
ApiCheck(batch, answer, fails) ==
    [k \in DOMAIN batch |->
        [id |-> batch[k], answer |-> IF fails \/ ~IsInjective(batch) THEN "request" ELSE answer[batch[k]]]]

\* CheckResponse.merge() of the batches in the order given: the async client's
\* is that of the snippets, the sync client's that of completion.
Merge(snippets, size, answer, failing, order) ==
    LET batches == Batches(snippets, size)
    IN FlattenSeq([b \in DOMAIN batches |->
            ApiCheck(batches[order[b]], answer, order[b] \in failing)])
----------------------------------------------------------------------------
IsError(r)  == \E k \in DOMAIN r.messages : r.messages[k] = "error"
HasSorry(r) == r.sorries > 0
IsValid(r)  == ~IsError(r) /\ ~HasSorry(r)
IsSorry(r)  == ~IsError(r) /\ HasSorry(r)

\* ReplResponse.analyze()
Analyze(r) ==
    IF r.is = "timed out" THEN "timeout_error"
    ELSE IF r.is = "error" THEN "server_error"
    ELSE IF r.is = "repl" THEN "repl_error"
    ELSE IF IsError(r) THEN "lean_error"
    ELSE IF IsValid(r) THEN "valid"
    ELSE "sorry"

\* proof_utils.has_error_response(): of an answer of the REPL only messages
\* count; a sorry is a warning that says so.
HasErrorResponse(r, acceptSorry) ==
    r.is = "lean" /\ (IsError(r) \/ (~acceptSorry /\ Contains(r.messages, "sorry")))

\* parse_client_response()
ParseClientResponse(r) ==
    LET failed == r.is \in {"timed out", "error"}
    IN [has_error           |-> failed \/ HasErrorResponse(r, TRUE),
        is_valid_no_sorry   |-> ~failed /\ ~HasErrorResponse(r, FALSE),
        is_valid_with_sorry |-> ~failed /\ ~HasErrorResponse(r, TRUE)]
----------------------------------------------------------------------------
\* Every snippet is answered once, with its own answer or the error of its own
\* batch; the async client answers in the snippets' order.
AnsweredOnce(snippets, size, answer, failing, order, results) ==
    LET places == Batches(snippets, size)
    IN /\ Len(results) = Len(snippets)
       /\ \A s \in ToSet(snippets) :
            /\ Cardinality({k \in DOMAIN results : results[k].id = s}) =
               Cardinality({k \in DOMAIN snippets : snippets[k] = s})
            /\ \A k \in DOMAIN results : results[k].id = s =>
                 \/ results[k].answer = answer[s]
                 \/ /\ results[k].answer = "request"
                    /\ \E b \in DOMAIN places : Contains(places[b], s) /\
                            (b \in failing \/ ~IsInjective(places[b]))
       /\ (\A b \in DOMAIN order : order[b] = b)
            => [k \in DOMAIN results |-> results[k].id] = snippets

\* The two readings of an answer agree when the REPL itself did not fail and
\* Lean warned of the sorries it lists: valid is valid without sorry, and sorry
\* or valid is valid with it.
ReadingsAgree(r, status, read) ==
    r.is # "repl" /\ (r.is = "lean" => (HasSorry(r) <=> Contains(r.messages, "sorry"))) =>
        /\ read.is_valid_no_sorry <=> status = "valid"
        /\ read.is_valid_with_sorry <=> status \in {"valid", "sorry"}
        /\ read.has_error <=> ~read.is_valid_with_sorry
============================================================================
