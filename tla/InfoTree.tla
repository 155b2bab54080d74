------------------------------ MODULE InfoTree ------------------------------
(***************************************************************************)
(* lean_client/infotree.py: from an infotree and its source code to the    *)
(* list of tactics, each with its text and its goals.                      *)
(*                                                                         *)
(* Text is a sequence of tokens: "sp" and "nl" are white, "--" starts a    *)
(* comment to the end of its line, "/-" and "-/" delimit a block comment,  *)
(* "(" and ")" stand for every kind of bracket, "by", ":=", "calc" and     *)
(* "all_goals" (any wrapper) for themselves and "x" for any other code.    *)
(* A position, line and column in the code, is the number of tokens before *)
(* it.  A node's goals and text are a label, equal or not; 0 is no goals.  *)
(***************************************************************************)
EXTENDS Integers, Sequences, FiniteSets, SequencesExt

Largest(S) == CHOOSE n \in S : \A m \in S : m <= n
Smallest(S) == CHOOSE n \in S : \A m \in S : n <= m

\* A forest: items 1..n in preorder, last[i] the last one below i, or i; label
\* "failed" cannot be pretty printed, "none" is an item without a node.
Items(forest) == DOMAIN forest.last
HasNode(forest, i) == forest.label[i] # "none"
Above(forest, j, i) == j < i /\ i <= forest.last[j]

\* The first of the items S on the way up from i, 0 if there is none.
Nearest(forest, S, i) == Largest({0} \cup {j \in S : Above(forest, j, i)})

Nodes(forest) == {i \in Items(forest) : HasNode(forest, i)}

\* Before anything is flattened.  An item's parent_id: items without a node hand
\* their own down.  Children come before their parents: they have larger numbers.
Edges(forest) ==
    [kept |-> Nodes(forest),
     up   |-> [i \in Items(forest) |-> Nearest(forest, Nodes(forest), i)],
     at   |-> Len(forest.last)]

\* _flatten_chain(): c goes, its children become p's.
Flatten(tree, p, c) ==
    [tree EXCEPT !.kept = @ \ {c},
                 !.up   = [i \in DOMAIN tree.up |-> IF tree.up[i] = c THEN p ELSE tree.up[i]]]

ChildrenOf(tree, p) == {c \in tree.kept : tree.up[c] = p}
FailedChildren(forest, tree, p) == {c \in ChildrenOf(tree, p) : forest.label[c] = "failed"}
\* A single child that says what its parent says.
Twin(forest, tree, p) ==
    {c \in ChildrenOf(tree, p) : /\ ChildrenOf(tree, p) = {c}
                                 /\ forest.label[c] = forest.label[p]}

\* One round of the loop at node tree.at, failed children first, or the next node.
Round(forest, tree) ==
    LET p      == tree.at
        failed == FailedChildren(forest, tree, p)
        twin   == Twin(forest, tree, p)
    IN IF p = 0 THEN tree
       ELSE IF failed \cup twin = {} THEN [tree EXCEPT !.at = p - 1]
       ELSE Flatten(tree, p, CHOOSE c \in (IF failed # {} THEN failed ELSE twin) : TRUE)

\* extract_nodes_and_edges(include_failed_pp=False, deduplicate=True): n items
\* are gone over and no more than n flattened.
NodesAndEdges(forest) ==
    LET rounds == 2 * Len(forest.last)
        after[k \in 0..rounds] ==
            IF k = 0 THEN Edges(forest) ELSE Round(forest, after[k - 1])
    IN after[rounds]
----------------------------------------------------------------------------
White == {"sp", "nl"}
Count(t, token) == Len(SelectSeq(t, LAMBDA k : k = token))
IsBlank(t) == \A k \in DOMAIN t : t[k] \in White

\* rstrip() and strip()
RightStripped(t) ==
    SubSeq(t, 1, Largest({0} \cup {k \in DOMAIN t : t[k] \notin White}))
Stripped(t) ==
    IF IsBlank(t) THEN <<>>
    ELSE RightStripped(SubSeq(t, Smallest({k \in DOMAIN t : t[k] \notin White}), Len(t)))

\* splitlines(keepends=True): where lines end, where the one above ends.
LineEnds(t) == {k \in DOMAIN t : t[k] = "nl" \/ k = Len(t)}
LineAbove(t, e) == Largest({0} \cup {k \in LineEnds(t) : k < e})
LineAt(t, e) == SubSeq(t, LineAbove(t, e) + 1, e)

\* A line that starts with the token, white space aside.
Starts(line, token) == ~IsBlank(line) /\ Stripped(line)[1] = token

\* separate_trailing_comment(), upwards from the last line: blank lines and line
\* comments are passed; a line with "-/" in it goes with everything from the
\* last line above that starts with "/-".
CodeEnd(t) ==
    LET opening(e) == {k \in LineEnds(t) : k <= e /\ Starts(LineAt(t, k), "/-")}
        end[e \in {0} \cup LineEnds(t)] ==
            IF e = 0 THEN 0
            ELSE IF IsBlank(LineAt(t, e)) THEN end[LineAbove(t, e)]
            ELSE IF Contains(LineAt(t, e), "-/") THEN
                 IF opening(e) = {} THEN e ELSE end[LineAbove(t, Largest(opening(e)))]
            ELSE IF Starts(LineAt(t, e), "--") THEN end[LineAbove(t, e)]
            ELSE e
    IN end[Len(t)]

BeforeComment(t) == SubSeq(t, 1, CodeEnd(t))

\* re.sub of "/-.*?-/": a "/-" goes with everything up to the next "-/".
WithoutBlocks(t) ==
    LET closing(i) == {j \in (i + 1)..Len(t) : t[j] = "-/"}
        from[i \in 1..Len(t) + 1] ==
            IF i > Len(t) THEN <<>>
            ELSE IF t[i] = "/-" /\ closing(i) # {} THEN from[Smallest(closing(i)) + 1]
            ELSE <<t[i]>> \o from[i + 1]
    IN from[1]

\* The part of a line before "--"; a line that is nothing else goes whole.
WithoutLineComment(line) ==
    IF ~Contains(line, "--") THEN line
    ELSE LET code == RightStripped(SubSeq(line, 1, Smallest({k \in DOMAIN line : line[k] = "--"}) - 1))
         IN IF code = <<>> THEN <<>> ELSE Append(code, "nl")

\* remove_lean_comments()
WithoutComments(t) ==
    LET code == WithoutBlocks(t)
        ends == SetToSortSeq(LineEnds(code), <)
    IN FlattenSeq([k \in DOMAIN ends |-> WithoutLineComment(LineAt(code, ends[k]))])

IsBalanced(t) == Count(t, "(") = Count(t, ")")
IsBy(t) == Stripped(WithoutComments(t)) = <<"by">>

\* is_calc() and is_wrapper(): the word alone, or after "by" and white space.
IsOpener(t, word) ==
    LET s == Stripped(WithoutComments(t))
    IN s = <<word>> \/ /\ Len(s) > 2 /\ s[1] = "by" /\ s[Len(s)] = word
                       /\ IsBlank(SubSeq(s, 2, Len(s) - 1))

EndsWithBy(t) ==
    LET s == RightStripped(WithoutComments(t))
    IN IsSuffix(<<":=", "by">>, s) \/ IsSuffix(<<":=", "sp", "by">>, s)
----------------------------------------------------------------------------
\* Sorted by start; sorted() is stable.
Earlier(ivs, i, j) ==
    ivs[i].start < ivs[j].start \/ (ivs[i].start = ivs[j].start /\ i < j)

\* The intervals S, sorted.
Sorted(ivs, S) ==
    CHOOSE o \in [1..Cardinality(S) -> S] :
        \A k, l \in DOMAIN o : k < l => Earlier(ivs, o[k], o[l])

\* Each ends where the next one starts, the last where the furthest one did.
Trimmed(ivs, i) ==
    LET later == {j \in DOMAIN ivs : Earlier(ivs, i, j)}
        next  == ivs[CHOOSE j \in later : \A k \in later : k = j \/ Earlier(ivs, j, k)]
    IN IF later = {} THEN [ivs[i] EXCEPT !.finish = Largest({ivs[j].finish : j \in DOMAIN ivs})]
       ELSE [ivs[i] EXCEPT !.finish = next.start, !.after = next.before]

\* adjust_intervals(): empty ones are dropped.
Adjusted(ivs) ==
    LET order == Sorted(ivs, {i \in DOMAIN ivs : Trimmed(ivs, i).finish # ivs[i].start})
    IN [k \in DOMAIN order |-> Trimmed(ivs, order[k])]

\* retrieve_tactics()
Tactics(ivs, source) ==
    [k \in DOMAIN ivs |-> [before |-> ivs[k].before, after |-> ivs[k].after,
                           text |-> SubSeq(source, ivs[k].start + 1, ivs[k].finish)]]

\* Tactic k keeps `size` tokens, the others go to k + 1.
HandedOn(ts, k, size) ==
    [ts EXCEPT ![k].text     = SubSeq(ts[k].text, 1, size),
               ![k + 1].text = SubSeq(ts[k].text, size + 1, Len(ts[k].text)) \o @]

\* Seeded bug: white space after the comment is dropped.
TransferredTrimmed(ts, k) ==
    LET stripped == RightStripped(ts[k].text)
        code     == RightStripped(BeforeComment(stripped))
        moved    == SubSeq(stripped, Len(code) + 1, Len(stripped))
    IN [ts EXCEPT ![k].text = code, ![k + 1].text = moved \o @]

\* White space, comment lines and white space at the end of tactic k go to k + 1.
Transferred(ts, k) ==
    HandedOn(ts, k, Len(RightStripped(BeforeComment(RightStripped(ts[k].text)))))

\* transfer_trailing_whitespaces_and_comments()
TransferredAll(ts) ==
    LET n == Len(ts)
        upto[k \in 0..n] ==
            IF k = 0 THEN ts
            ELSE IF k = n THEN upto[k - 1] ELSE Transferred(upto[k - 1], k)
    IN upto[n]

Unfinished(t) == ~IsBalanced(t) \/ IsBy(t) \/ IsOpener(t, "calc") \/ IsOpener(t, "all_goals")

\* A tactic joins the one before it if that is unfinished.
Joined(ts, next) ==
    LET n == Len(ts)
    IN IF n > 0 /\ Unfinished(ts[n].text)
       THEN [ts EXCEPT ![n].text = @ \o next.text, ![n].after = next.after]
       ELSE Append(ts, next)

\* The first loop of merge_intervals().
Merged(ts) ==
    LET n == Len(ts)
        upto[k \in 0..n] == IF k = 0 THEN <<>> ELSE Joined(upto[k - 1], ts[k])
    IN upto[n]

\* What follows the last ":=" of a tactic that ends with ":= by" goes to the
\* next tactic; that ":=" is looked for in the comments too.
ByMoved(ts, k) ==
    IF EndsWithBy(ts[k].text)
    THEN HandedOn(ts, k, Largest({0} \cup {i \in DOMAIN ts[k].text : ts[k].text[i] = ":="}))
    ELSE ts

ByMovedAll(ts) ==
    LET n == Len(ts)
        upto[k \in 0..n] ==
            IF k = 0 THEN ts
            ELSE IF k = n THEN upto[k - 1] ELSE ByMoved(upto[k - 1], k)
    IN upto[n]

\* The first goals at or after place k, 0 if there are none.
GoalsFrom(ts, k) ==
    LET known == {i \in k..Len(ts) : ts[i].before # 0}
    IN IF known = {} THEN 0 ELSE ts[Smallest(known)].before

GoalsFilled(ts) ==
    [k \in DOMAIN ts |->
        IF k = Len(ts) THEN ts[k]
        ELSE [ts[k] EXCEPT !.before = GoalsFrom(ts, k), !.after = GoalsFrom(ts, k + 1)]]

\* extract_data(), from the intervals of the nodes on.
ExtractData(ivs, source) ==
    GoalsFilled(ByMovedAll(Merged(TransferredAll(Tactics(Adjusted(ivs), source)))))
----------------------------------------------------------------------------
\* The edges that are left join every node to its nearest ancestor that is left;
\* none of these failed below another or is the only one below another that says
\* the same, and a node that went had failed or said what its nearest ancestor
\* left says.
ForestFaithful(forest, tree) ==
    \A i \in Nodes(forest) :
        LET up == Nearest(forest, tree.kept, i)
        IN IF i \in tree.kept
           THEN /\ tree.up[i] = up
                /\ up # 0 => forest.label[i] # "failed"
                /\ Twin(forest, tree, i) = {}
           ELSE up # 0 /\ forest.label[i] \in {"failed", forest.label[up]}

\* The tactics are the source text from the first interval to the furthest end,
\* not a token lost, doubled or out of place, and each leaves the goals that
\* the next one finds.
TacticsFaithful(ivs, source, ts) ==
    ivs # <<>> =>
        /\ FlattenSeq([k \in DOMAIN ts |-> ts[k].text]) =
             SubSeq(source, Smallest({ivs[k].start : k \in DOMAIN ivs}) + 1,
                            Largest({ivs[k].finish : k \in DOMAIN ivs}))
        /\ \A k \in 1..Len(ts) - 1 : ts[k].after = ts[k + 1].before
============================================================================
