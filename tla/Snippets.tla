------------------------------ MODULE Snippets ------------------------------
(***************************************************************************)
(* A snippet on its way through the server: server/split.py cuts it into a *)
(* header of imports and a body, the body is run, and the positions of     *)
(* what Lean says about the body are moved back to the snippet's lines, by *)
(* check.py for /check and by exec.py for /exec.                           *)
(*                                                                         *)
(* A line is "", an import or some code; "import Mathlib" and              *)
(* "import Mathlib.X" are the imports that start with import Mathlib.      *)
(* Those of other packages that start so by their name (import MathlibFoo) *)
(* split.py:37 takes for Mathlib too; there are none here.                 *)
(***************************************************************************)
EXTENDS Integers, Sequences, FiniteSets, SequencesExt

Mathlib == {"import Mathlib", "import Mathlib.X"}
Imports == Mathlib \cup {"import A", "import B"}

\* Seeded bug: only imports are counted, not the blank lines between them.
LeadingImports(lines) ==
    Len(SelectSeq(lines, LAMBDA line : line \in Imports))

\* Lines before the first that is neither blank nor an import.
Leading(lines) ==
    LET code == {k \in DOMAIN lines : lines[k] \notin Imports \cup {""}}
    IN IF code = {} THEN Len(lines) ELSE (CHOOSE k \in code : \A j \in code : k <= j) - 1

\* The imports other than Mathlib among the leading lines, once each.
OtherImports(lines) ==
    LET seen[k \in 0..Leading(lines)] ==
            IF k = 0 THEN <<>>
            ELSE IF lines[k] \in Imports \ Mathlib /\ ~Contains(seen[k - 1], lines[k])
                 THEN Append(seen[k - 1], lines[k])
                 ELSE seen[k - 1]
    IN seen[Leading(lines)]

\* split_snippet(): one import of Mathlib first, whatever part of it was
\* imported, then the other imports once each.
SplitSnippet(lines) ==
    [header |-> IF \E k \in 1..Leading(lines) : lines[k] \in Mathlib
                THEN <<"import Mathlib">> \o OtherImports(lines) ELSE OtherImports(lines),
     body   |-> SubSeq(lines, Leading(lines) + 1, Len(lines)),
     header_line_count |-> Leading(lines)]

\* _shift_line() and _offset_pos(): there may be no position, here 0.
Shifted(pos, offset) == IF pos = 0 THEN 0 ELSE pos + offset
ShiftedAll(ms, offset) ==
    [k \in DOMAIN ms |-> [pos |-> Shifted(ms[k].pos, offset), end |-> Shifted(ms[k].end, offset)]]

\* exec.py _offset_messages()
OffsetMessages(messages, offset) ==
    IF offset <= 0 THEN messages ELSE ShiftedAll(messages, offset)

\* check.py _apply_header_offset(): sorries are moved only if there are messages.
ApplyHeaderOffset(response, offset) ==
    IF offset <= 0 \/ response.failed \/ response.messages = <<>> THEN response
    ELSE [response EXCEPT !.messages = ShiftedAll(@, offset),
                          !.sorries  = ShiftedAll(@, offset)]
----------------------------------------------------------------------------
\* The header asks for every import of the snippet, once, and a position that
\* the snippet's author reads is that of the line Lean spoke of.  Sorries have
\* theirs only in an answer with messages: Lean warns of every sorry.
PositionsFaithful(lines, response, split, told, exec) ==
    LET same(before, after) ==
            \A k \in DOMAIN before :
                /\ before[k].pos # 0 => lines[after[k].pos] = split.body[before[k].pos]
                /\ before[k].end # 0 => lines[after[k].end] = split.body[before[k].end]
    IN /\ IsInjective(split.header)
       /\ \A k \in 1..split.header_line_count :
            lines[k] # "" => \E h \in ToSet(split.header) :
                h = lines[k] \/ (h = "import Mathlib" /\ lines[k] \in Mathlib)
       /\ ~response.failed =>
            /\ same(response.messages, told.messages)
            /\ response.messages # <<>> => same(response.sorries, told.sorries)
       /\ same(response.messages, exec)
============================================================================
