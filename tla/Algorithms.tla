----------------------------- MODULE Algorithms -----------------------------
(***************************************************************************)
(* The computations of the repository that keep no state, asked one        *)
(* question each: /check and /exec move positions back to the snippet's    *)
(* lines, infotree.py cuts code into tactics, the server turns what        *)
(* Pantograph raises or compiles into messages and a verdict, the clients  *)
(* batch snippets and read answers, launcher and server work out the caps. *)
(* A behaviour is a question and its answer; the questions are enumerated  *)
(* up to the bounds.                                                       *)
(***************************************************************************)
EXTENDS Snippets, InfoTree, PantographMessages, CheckClient, ServerConfig

CONSTANTS
    Snips,       \* ids of snippets to check
    MaxSnippets, \* bound: snippets of a check
    MaxBatch,    \* bound: batch size of a check
    MaxLines,    \* bound: lines of a snippet
    MaxForest,   \* bound: items of an infotree
    MaxTokens    \* bound: tokens of the code that is cut into tactics

ASSUME AlgorithmsAssumption ==
    /\ {MaxSnippets, MaxBatch, MaxLines, MaxForest, MaxTokens} \subseteq Nat
    /\ MaxTokens >= 3
    /\ "request" \notin Snips

VARIABLES
    question,  \* what is computed, `of` a kind
    answer     \* the result, once `answered`
questionVars == <<question, answer>>

HasAnswer(kind) == question.of = kind /\ answer # <<>>
Asked(kind) == question.of = kind /\ answer = <<>> /\ UNCHANGED question
----------------------------------------------------------------------------
LineKinds == {"", "import Mathlib", "import Mathlib.X", "import A", "x", "y"}
\* No two lines of code are alike, so a line tells where it stands.
SomeLines ==
    {s \in SeqOf(LineKinds, MaxLines) :
        \A line \in {"x", "y"} : Cardinality({k \in DOMAIN s : s[k] = line}) <= 1}
\* What Lean says about a body of n lines: there is always a last one.
Spots(n) == [pos : 0..n, end : 0..n]
Remarks(n) ==
    [failed : {FALSE}, messages : SeqOf(Spots(n), 1), sorries : SeqOf(Spots(n), 1)] \cup
    {[failed |-> TRUE, messages |-> <<>>, sorries |-> <<>>]}

\* What is below an item is a stretch of the items after it.
Shapes(n) ==
    {last \in [1..n -> 1..n] :
        \A i \in 1..n : i <= last[i] /\ \A j \in i..last[i] : last[j] <= last[i]}
Labels == {"a", "b", "failed", "none"}

Tokens == {"x", "sp", "nl", "--", "/-", "-/", "(", ")", "by", ":=", "calc", "all_goals"}
\* Code with keywords, comments and brackets around something else.
Sources(n) == {s \in [1..n -> Tokens] : "x" \in ToSet(s)}
\* Nodes over n tokens: one after the other, nested, overlapping, out of order,
\* with a gap or empty; goals 1 and 2, or none.
Interval(start, finish, before, after) ==
    [start |-> start, finish |-> finish, before |-> before, after |-> after]
Cuts(n) ==
    {<<Interval(0, 1, 1, 2), Interval(1, n, 2, 0)>>,
     <<Interval(0, n, 1, 0), Interval(2, n, 0, 2), Interval(3, 3, 2, 1)>>,
     <<Interval(2, n - 1, 0, 2), Interval(1, n, 1, 2), Interval(3, n, 2, 0)>>}

Leaves ==
    {Printed, Text(0, Absent), Text(2, "warning")} \cup
    [is : {"message"}, pos : {0}, word : Words]
KeySets == {{}, {"error"}, {"desc", "messages"}, {"error", "messages"}, {"parseError", "data"}}
\* What may have the p - 1 nodes before it inside.
Boxes(p) ==
    [is : {"list"}, items : SeqOf(Parts(p), 2)] \cup
    [is : {"dict"}, fields : UNION {[keys -> Parts(p)] : keys \in KeySets}, word : Words \cup {Absent}]

SomeAxioms == SUBSET {"propext", "sorryAx", "mine"}
Compiled ==
    {Plain(word, sorry) : word \in {"error", "warning", "info"}, sorry \in {"no", "text", "kind"}} \cup
    {Report(axioms, broken) : axioms \in SomeAxioms, broken \in BOOLEAN}

SomeOrders(snippets, size) ==
    LET n == Len(Batches(snippets, size))
    IN {o \in [1..n -> 1..n] : IsInjective(o)}
Lists == SeqOf({"error", "warning", "sorry"}, 3)

Nothing == [f \in Fields |-> Absent]
\* Options of a command line or arguments of a configuration; the caps are sound,
\* unbounded or refused.
Givens ==
    {[Nothing EXCEPT !.workers = w, !.in_flight = f, !.queued = q, !.bytes = b,
                     !.unbounded = u, !.width = r, !.port = p, !.calls = s, !.items = n] :
        w \in {Absent, 0, 2, 9}, f \in {Absent, -1, 1, 6}, q \in {Absent, -1, 0},
        b \in {Absent, -1}, u \in {Absent, TRUE}, r \in {Absent, 5}, p \in {Absent, 70000}, s \in {Absent, 0},
        n \in {Absent, 4}}
Environments ==
    {[Nothing EXCEPT !.workers = w, !.in_flight = f, !.unbounded = u] :
        w \in {Absent, 3}, f \in {Absent, 2}, u \in {Absent, TRUE}}
Machines == [cpus : {1, 4, 256}, memory : {Absent, 16, 64, 755}]
----------------------------------------------------------------------------
AskPositions ==
    \E lines \in SomeLines :
        \E response \in Remarks(Len(SplitSnippet(lines).body)) :
            question = [of |-> "positions", lines |-> lines, response |-> response]
AskForest ==
    \E n \in 1..MaxForest :
        question \in [of : {"forest"}, last : Shapes(n), label : [1..n -> Labels]]
AskCutting ==
    question \in [of : {"cutting"}, source : Sources(MaxTokens), ivs : Cuts(MaxTokens)]
\* The arguments of an exception: none, None, or payloads.
AskRaised ==
    \/ question \in [of : {"raised"}, nodes : {<<>>}, args : SeqOf({0}, 2)]
    \/ \E first \in Leaves, second \in Leaves \cup Boxes(2), third \in Boxes(3) :
        question \in [of : {"raised"}, nodes : {<<first, second, third>>}, args : {<<3>>, <<2, 3>>}]
\* A compilation, ended by the report of the theorem's axioms that was asked
\* for, or by the error that stands for it.
AskCompilation ==
    question \in
        [of : {"compilation"}, own : SeqOf(Compiled, 2),
         last : {Plain("error", "no")} \cup {Report(axioms, broken) : axioms \in SomeAxioms, broken \in BOOLEAN},
         allowed : {{"propext"}, {"propext", "mine"}}]
AskBatches ==
    \E snippets \in SeqOf(Snips, MaxSnippets) \ {<<>>}, size \in 1..MaxBatch :
        \E order \in SomeOrders(snippets, size) :
            \E failing \in SUBSET DOMAIN order :
                question = [of |-> "batches", snippets |-> snippets, size |-> size,
                            order |-> order, failing |-> failing]
AskReading ==
    \E kind \in {"timed out", "error", "repl", "lean"}, messages \in Lists, sorries \in 0..2 :
        question = [of |-> "reading", is |-> kind, messages |-> messages, sorries |-> sorries]
AskConfig ==
    question \in [of : {"config"}, given : Givens, environment : Environments, machine : Machines]

AskedInit ==
    /\ answer = <<>>
    /\ \/ AskPositions \/ AskBatches \/ AskReading \/ AskConfig
       \/ AskRaised \/ AskCompilation \/ AskForest \/ AskCutting

Placing ==
    /\ Asked("positions")
    /\ LET split == SplitSnippet(question.lines)
       IN answer' = <<split, ApplyHeaderOffset(question.response, split.header_line_count),
                      OffsetMessages(question.response.messages, split.header_line_count)>>

Flattening == Asked("forest") /\ answer' = <<NodesAndEdges(question)>>

Cutting == Asked("cutting") /\ answer' = <<ExtractData(question.ivs, question.source)>>

Telling ==
    Asked("raised") /\ answer' = <<ExceptionMessages(question.nodes, question.args)>>

Judging ==
    Asked("compilation")
        /\ answer' = <<Verdict(Append(question.own, question.last), question.allowed)>>

Checking ==
    /\ Asked("batches")
    /\ answer' = <<Merge(question.snippets, question.size, [s \in Snips |-> s],
                         question.failing, question.order)>>

Reading ==
    Asked("reading") /\ answer' = <<Analyze(question), ParseClientResponse(question)>>

\* The server that a client launches so, and the two readings of such options.
Configuring ==
    /\ Asked("config")
    /\ LET parsed == Populated(question.given, question.machine)
       IN answer' = <<SettingsFrom(CliArgs(parsed), question.environment, question.machine),
                      SettingsFrom(question.given, question.environment, question.machine),
                      parsed>>

AskedNext ==
    \/ Placing \/ Flattening \/ Cutting \/ Telling \/ Judging
    \/ Checking \/ Reading \/ Configuring

AskedSpec == AskedInit /\ [][AskedNext]_questionVars
----------------------------------------------------------------------------
\* Splitting a snippet, running its body and moving the positions back lands on
\* the lines that Lean spoke of, for /check and for /exec.
PositionsShifted ==
    HasAnswer("positions") =>
        PositionsFaithful(question.lines, question.response, answer[1], answer[2], answer[3])

\* Extraction neither loses nor invents: what is left of an infotree joins every
\* node to its nearest ancestor left, and the tactics are the source text, in
\* order, each starting at the goals the one before it left.
ExtractionConserves ==
    /\ HasAnswer("forest") => ForestFaithful(question, answer[1])
    /\ HasAnswer("cutting") => TacticsFaithful(question.ivs, question.source, answer[1])

\* An exception becomes an error that says something, whatever shape Pantograph
\* gave it, and only a compiled proof without sorry is accepted.
MessagesHonest ==
    /\ HasAnswer("raised") => ErrorsAreTold(question.nodes, question.args, answer[1])
    /\ HasAnswer("compilation") =>
        AcceptedIsProved(question.own, question.last, question.allowed, answer[1])

\* Every snippet of a batched check is answered once and by its own answer, and
\* the two ways a client has to read an answer do not contradict each other.
AnswersMatch ==
    /\ HasAnswer("batches") =>
        AnsweredOnce(question.snippets, question.size, [s \in Snips |-> s],
                     question.failing, question.order, answer[1])
    /\ HasAnswer("reading") => ReadingsAgree(question, answer[1], answer[2])

\* On every machine and in every environment a launched server has the caps its
\* launcher was given, and clients take the limits of a bounded one; the readers
\* of a command line agree on it, but for the queue when the requests in flight
\* are given and it is not.  How wide batches ought to be is not compared with the
\* caps anywhere, and not asked here.
LaunchedAsGiven ==
    HasAnswer("config") =>
        /\ LaunchedRight(answer[3], question.environment, answer[1])
        /\ ReadersAgree(question.given, question.environment, answer[2], answer[3])
        /\ LimitsTaken(answer[2])
=============================================================================
