--------------------------- MODULE DurableStates ---------------------------
(***************************************************************************)
(* What the state store promises, with no files and no index.  While a     *)
(* server runs, tokens die with all of their item or in a collection, which*)
(* takes what is stale and then only what the budget asks for.  A kill may *)
(* leave such a death half done, or else costs one token at most.  A       *)
(* start changes nothing, and no token comes back.                         *)
(***************************************************************************)
EXTENDS Integers, ExecIds

CONSTANTS
    Ttl,        \* age past which a token is stale
    MaxBytes,   \* the budget, negative for none
    Bytes(_)    \* what the tokens of a set take

VARIABLES
    serving,  \* a server runs
    live,     \* [item, age] of each token that lives, None of the others
    held,     \* tokens a request is using
    issued    \* tokens that have lived, and those lost while they were made

durableVars == <<serving, live, held, issued>>

Alive  == {t \in Tokens : live[t] # None}
OfItem(i)  == {t \in Alive : live[t].item = i}
LastUse(t) == live[t].age

Init == /\ serving = FALSE /\ held = {} /\ issued = {}
        /\ live = [t \in Tokens |-> None]

\* A token never issued before starts to live; its parent has been used.
Born(t, i, used) ==
    /\ t \in Tokens \ issued
    /\ issued' = issued \cup {t}
    /\ live' = [x \in Tokens |->
                    IF x = t THEN [item |-> i, age |-> 0]
                    ELSE IF x \in used THEN [live[x] EXCEPT !.age = 0]
                    ELSE live[x]]
    /\ UNCHANGED held

Used(t) ==
    /\ live' = [live EXCEPT ![t].age = 0]
    /\ held' \in {held, held \cup {t}}
    /\ UNCHANGED issued

LetGo(t) == held' = held \ {t} /\ UNCHANGED <<live, issued>>

Without(D) == live' = [t \in Tokens |-> IF t \in D THEN None ELSE live[t]]

\* An item of which nothing is held.
Deletable(i) == OfItem(i) \cap held = {}

Stale == {t \in Alive : LastUse(t) > Ttl} \ held

\* The least recently used of what is left when the stale ones are gone, as few
\* of them as bring the rest within the budget: none when it is.
MakesRoom(R) ==
    LET kept == Alive \ Stale
    IN IF MaxBytes < 0 \/ Bytes(kept) <= MaxBytes THEN R = {}
       ELSE /\ R \subseteq kept /\ Bytes(kept \ R) <= MaxBytes
            /\ \A r \in R, k \in kept \ R : LastUse(r) >= LastUse(k)
            /\ \E last \in R : /\ \A r \in R : LastUse(r) >= LastUse(last)
                               /\ Bytes((kept \ R) \cup {last}) > MaxBytes

\* What dies together while the server runs: an item, or a whole collection.
Dead(D) ==
    /\ \/ \E i \in Items : Deletable(i) /\ D = OfItem(i)
       \/ \E R \in SUBSET Alive : MakesRoom(R) /\ D = (Stale \cup R) \ held
    /\ Without(D)
    /\ UNCHANGED <<held, issued>>

\* What of it is dead if a kill comes before the end: some of the item; some of
\* the stale; all of the stale and, in the order of their last use, some of R.
CutShort(D) ==
    \/ \E i \in Items : Deletable(i) /\ D \subseteq OfItem(i)
    \/ D \subseteq Stale
    \/ \E R \in SUBSET Alive :
         /\ MakesRoom(R) /\ Stale \subseteq D /\ D \subseteq (Stale \cup R) \ held
         /\ \A d \in D, r \in R \ (held \cup D) : LastUse(d) >= LastUse(r)

\* A kill while a token is being used loses that one only.
LostInUse(D) == \E t \in Alive : D = {t}

Killed(D) ==
    /\ CutShort(D) \/ LostInUse(D)
    /\ Without(D)
    /\ held' = {}
    /\ \/ UNCHANGED issued
       \/ D = {} /\ \E t \in Tokens : issued' = issued \cup {t}   \* being made

TimePasses ==
    /\ live' = [t \in Tokens |->
                    IF live[t] = None THEN None
                    ELSE [live[t] EXCEPT !.age = IF @ > Ttl THEN @ ELSE @ + 1]]
    /\ UNCHANGED <<serving, held, issued>>

Serve ==
    \/ \E t \in Tokens, i \in Items, used \in {{}} \cup {{p} : p \in Alive} : Born(t, i, used)
    \/ \E t \in Alive : Used(t)
    \/ \E t \in held : LetGo(t)
    \/ \E D \in SUBSET Alive : Dead(D)

Next ==
    \/ serving /\ serving' /\ Serve
    \/ serving /\ ~serving' /\ \E D \in SUBSET Alive : Killed(D)
    \/ ~serving /\ serving' /\ UNCHANGED <<live, held, issued>>
    \/ TimePasses

Spec == Init /\ [][Next]_durableVars
============================================================================
