---------------------------- MODULE ProofVerdict ----------------------------
(***************************************************************************)
(* The verdict that pantograph_worker._verify_complete_proof draws from    *)
(* the messages of a compilation.                                          *)
(***************************************************************************)
EXTENDS Integers, Sequences, Optional

\* _normalize_severity(): any other word is "info".
Severity(word) ==
    IF word \in {"info", "information", "severity.information"} THEN "info"
    ELSE IF word \in {"warning", "severity.warning"} THEN "warning"
    ELSE IF word \in {"error", "severity.error"} THEN "error"
    ELSE IF word \in {"trace", "severity.trace"} THEN "trace"
    ELSE "info"

\* A raw message of a compilation: its severity, whether it is about a sorry
\* ("text", or only by its "kind"), and the axioms it reports, if it is a
\* report of them, perhaps broken over several lines.
Report(axioms, broken) == [word |-> "info", sorry |-> "no", axioms |-> axioms, broken |-> broken]
Plain(word, sorry) == [word |-> word, sorry |-> sorry, axioms |-> Absent, broken |-> FALSE]

\* _message_mentions_sorry(), for which sorryAx counts, or kind = hasSorry.
MentionsSorry(m) ==
    m.sorry # "no" \/ (m.axioms # Absent /\ "sorryAx" \in m.axioms)

\* _extract_axioms(): the first report, unless a line break keeps the pattern
\* from matching.
ReportedAxioms(ms) ==
    LET reports == {k \in DOMAIN ms : ms[k].axioms # Absent /\ ~ms[k].broken}
    IN IF reports = {} THEN {}
       ELSE ms[CHOOSE k \in reports : \A j \in reports : k <= j].axioms

\* Seeded bug: a proof by sorry is accepted if Lean calls it a warning.
VerdictOnErrors(ms, allowed) ==
    IF \/ \E k \in DOMAIN ms : Severity(ms[k].word) = "error"
       \/ ~(ReportedAxioms(ms) \subseteq allowed)
    THEN "rejected" ELSE "accepted"

Verdict(ms, allowed) ==
    IF \/ \E k \in DOMAIN ms : Severity(ms[k].word) = "error" \/ MentionsSorry(ms[k])
       \/ ~(ReportedAxioms(ms) \subseteq allowed)
    THEN "rejected" ELSE "accepted"
----------------------------------------------------------------------------
\* An accepted proof compiled without an error, owes nothing to a sorry, and
\* rests on allowed axioms: if the code itself prints no report of axioms, and
\* the report asked for fits on a line.
AcceptedIsProved(own, last, allowed, verdict) ==
    verdict = "accepted" =>
        /\ \A k \in DOMAIN own : own[k].sorry = "no" /\ Severity(own[k].word) # "error"
        /\ (\A k \in DOMAIN own : own[k].axioms = Absent) /\ ~last.broken
             => last.axioms = Absent \/ last.axioms \subseteq allowed
=============================================================================
