------------------------- MODULE PantographMessages -------------------------
(***************************************************************************)
(* server/pantograph_normalize.py, from what Pantograph raises to the      *)
(* messages of the API.                                                    *)
(*                                                                         *)
(* Payloads lie in a list of nodes: payload p is the p-th of them, payload *)
(* 0 is None, and what is inside a node has lower numbers.  A node's `is`  *)
(* says what it is: a "text", which may carry a position and with it a     *)
(* severity, a "message" object, a "list" or a mapping ("dict").  Of what  *)
(* a text says nothing is kept.                                            *)
(***************************************************************************)
EXTENDS ProofVerdict, FiniteSets, SequencesExt

CONSTANT Words  \* what payloads call a severity

ASSUME WordsAssumption == {"error", "warning"} \subseteq Words

\* A text: the line it may start with, and the severity after it.
Text(pos, word) == [is |-> "text", pos |-> pos, word |-> word]

\* The keys of a mapping whose values are looked at.
Keys == {"desc", "error", "parseError", "message", "data", "messages"}

\* What payload p may have inside, and all that it may be.
Parts(p) == 0..(p - 1)
NodesAt(p) ==
    [is : {"text"}, pos : Nat \cup {Absent}, word : Words \cup {Absent}] \cup
    [is : {"message"}, pos : Int \cup {Absent}, word : Words \cup {Absent}] \cup
    [is : {"list"}, items : Seq(Parts(p))] \cup
    [is : {"dict"}, fields : UNION {[keys -> Parts(p)] : keys \in SUBSET Keys},
     word : Words \cup {Absent}]

ArePayloads(nodes) == \A p \in DOMAIN nodes : nodes[p] \in NodesAt(p)

\* _position_to_exec_pos(): the API's lines start at 1.
Position(pos) == IF pos = Absent THEN Absent ELSE IF pos < 1 THEN 1 ELSE pos

\* _text_message() of a text that may start with file:line:column: severity:
TextMessage(text, severity) ==
    [severity |-> Severity(IF text.pos # Absent /\ text.word # Absent THEN text.word ELSE severity),
     pos |-> text.pos]

TextMessages(texts, severity) == [k \in DOMAIN texts |-> TextMessage(texts[k], severity)]

\* _pantograph_message_to_exec_message()
ObjectMessage(node) ==
    [severity |-> Severity(IF node.word = Absent THEN "info" ELSE node.word),
     pos |-> Position(node.pos)]

\* str() of a message object, or of a payload that gave nothing.
Printed == Text(Absent, Absent)
OrPrinted(texts) == IF texts = <<>> THEN <<Printed>> ELSE texts

\* What there is under those of the keys that a mapping has, in their order.
Under(keys, node, found) ==
    FlattenSeq([k \in DOMAIN keys |->
        IF keys[k] \in DOMAIN node.fields THEN found[node.fields[keys[k]]] ELSE <<>>])

\* payload_to_messages(), from the texts of what is inside; a text keeps its
\* position and severity in it.
TextsAt(found, nodes, p) ==
    IF p = 0 THEN <<>>
    ELSE CASE nodes[p].is = "text"    -> <<nodes[p]>>
           [] nodes[p].is = "message" -> <<Printed>>
           [] nodes[p].is = "list"    ->
                OrPrinted(FlattenSeq([k \in DOMAIN nodes[p].items |-> found[nodes[p].items[k]]]))
           [] nodes[p].is = "dict"    ->
                OrPrinted(Under(<<"desc", "error", "parseError", "message", "data", "messages">>,
                                nodes[p], found))

Texts(nodes) == LET found[p \in 0..Len(nodes)] == TextsAt(found, nodes, p) IN found

\* _severity_from_payload()
DictSeverity(node, default) ==
    IF node.word # Absent THEN node.word
    ELSE IF "parseError" \in DOMAIN node.fields \/ "error" \in DOMAIN node.fields THEN "error"
    ELSE default

\* Nested messages take the place of the mapping's own texts, of which `error`,
\* often a mere category, is used only when nothing else is said.
DictMessages(node, texts, told, default) ==
    LET severity == DictSeverity(node, default)
        own == Under(<<"desc", "parseError", "message", "data">>, node, texts)
        said == IF own = <<>> THEN Under(<<"error">>, node, texts) ELSE own
        nested == IF "messages" \in DOMAIN node.fields
                  THEN told[node.fields["messages"]][severity] ELSE <<>>
    IN IF nested = <<>> THEN TextMessages(OrPrinted(said), severity) ELSE nested

ListMessages(items, told, default) ==
    LET all == FlattenSeq([k \in DOMAIN items |-> told[items[k]][default]])
    IN IF all = <<>> THEN <<TextMessage(Printed, default)>> ELSE all

\* payload_to_exec_messages(), from the messages of what is inside.
ToldAt(told, nodes, p, default) ==
    IF p = 0 THEN <<>>
    ELSE CASE nodes[p].is = "text"    -> <<TextMessage(nodes[p], default)>>
           [] nodes[p].is = "message" -> <<ObjectMessage(nodes[p])>>
           [] nodes[p].is = "list"    -> ListMessages(nodes[p].items, told, default)
           [] nodes[p].is = "dict"    -> DictMessages(nodes[p], Texts(nodes), told, default)

\* By payload and default severity.
ExecMessages(nodes) ==
    LET told[p \in 0..Len(nodes)] == [default \in Words |-> ToldAt(told, nodes, p, default)]
    IN told

\* exception_to_exec_messages(): no argument, one, or several.  ExecPos takes no
\* line 0 and only the positions of objects are raised to 1: a text there makes
\* the call itself raise, and nothing is told.
ExceptionMessages(nodes, args) ==
    LET told == IF args = <<>> THEN <<TextMessage(Printed, "error")>>
                ELSE IF Len(args) = 1 THEN ExecMessages(nodes)[args[1]]["error"]
                ELSE ListMessages(args, ExecMessages(nodes), "error")
    IN IF \E k \in DOMAIN told : told[k].pos = 0 THEN <<>> ELSE told
----------------------------------------------------------------------------
\* A message object has a severity of its own, a text only with a position.
NamesSeverity(node) ==
    \/ node.is = "text" /\ node.pos # Absent /\ node.word # Absent
    \/ node.is = "message"
    \/ node.is = "dict" /\ node.word # Absent

\* Whatever an exception carries, its result says something, and it is an error
\* unless the exception itself names another severity: if no text in it stands
\* at line 0.
ErrorsAreTold(nodes, args, told) ==
    args # <<0>> /\ (\A p \in DOMAIN nodes : nodes[p].is = "text" => nodes[p].pos # 0) =>
        /\ told # <<>>
        /\ (\A p \in DOMAIN nodes : ~NamesSeverity(nodes[p])) =>
              \A k \in DOMAIN told : told[k].severity = "error"
============================================================================
