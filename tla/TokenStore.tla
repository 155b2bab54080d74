----------------------------- MODULE TokenStore -----------------------------
(***************************************************************************)
(* The in-memory side of server/state_store.py: which state tokens exist,  *)
(* which item owns each, and how often each is pinned.  The methods run on *)
(* the event loop without an await, so each is one step and is an operator *)
(* here.  Sizes, access times and the files behind a token are left to the *)
(* store itself; Reclaim lets the garbage collector pick any tokens.       *)
(*                                                                         *)
(* A token is 24 random bytes (state_store.py:94): the model never issues  *)
(* the same one twice.                                                     *)
(***************************************************************************)
EXTENDS Integers, FiniteSets, ExecIds

VARIABLES
    owner,       \* owner[t]: record.item_id of token t, None when absent
    issued,      \* tokens issued so far
    pins         \* self._pinned_tokens, 0 when absent

storeVars == <<owner, issued, pins>>

Present(t) == owner[t] # None
Owned(i)   == {t \in Tokens : owner[t] = i}
Pinned(t)  == pins[t] > 0

StoreTypeOK ==
    /\ owner \in [Tokens -> Items \cup {None}]
    /\ issued \subseteq Tokens
    /\ pins \in [Tokens -> Nat]
    /\ \A t \in Tokens \ issued : owner[t] = None

StoreInit ==
    /\ owner = [t \in Tokens |-> None]
    /\ issued = {}
    /\ pins = [t \in Tokens |-> 0]

\* Seeded bug: put() does not reserve the tokens it issues.
PutUnissued(T, i) ==
    /\ T \subseteq Tokens \ issued
    /\ UNCHANGED issued
    /\ owner' = [t \in Tokens |-> IF t \in T THEN i ELSE owner[t]]

\* put(), once for each token of T.
Put(T, i) ==
    /\ T \subseteq Tokens \ issued
    /\ issued' = issued \cup T
    /\ owner' = [t \in Tokens |-> IF t \in T THEN i ELSE owner[t]]

\* _delete_tokens, called with tokens of which none is pinned.
Dropped(T) == [t \in Tokens |-> IF t \in T THEN None ELSE owner[t]]

\* refs[t] resolve_and_pin calls on each token.
PinsAdded(refs) == [t \in Tokens |-> pins[t] + refs[t]]

\* unpin_many: refs[t] unpin calls on each token; unpinning an unpinned token
\* does nothing.
PinsRemoved(refs) ==
    [t \in Tokens |-> IF pins[t] > refs[t] THEN pins[t] - refs[t] ELSE 0]

\* Seeded bug: the garbage collector ignores pins.
ReclaimPinned(T) ==
    /\ T # {}
    /\ \A t \in T : Present(t)
    /\ owner' = Dropped(T)

\* gc_expired: any tokens, expired or over budget, except pinned ones.
Reclaim(T) ==
    /\ T # {}
    /\ \A t \in T : Present(t) /\ ~Pinned(t)
    /\ owner' = Dropped(T)

\* delete_by_item_id_all_or_none
MayDeleteAll(i) == \A t \in Owned(i) : ~Pinned(t)
============================================================================
