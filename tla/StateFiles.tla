---------------------------- MODULE StateFiles ----------------------------
(***************************************************************************)
(* server/state_store.py on its disk: the index in memory, the two files   *)
(* of each state ({token}.bin and its sidecar {token}.json), the scratch   *)
(* files a worker saves in the same directory, the garbage collector, and  *)
(* a server process that may stop or be killed at any point and start      *)
(* again on the same directory.                                            *)
(*                                                                         *)
(* The store's methods run on the event loop without an await, so each is  *)
(* one step; only a kill can separate two file operations of a method, and *)
(* the CrashIn... actions do.  Times are kept as ages, up to just past the *)
(* time to live: two ages that are equal stand for times in either order.  *)
(* A sidecar is written when its state is accessed, so its age is its      *)
(* file's too; a state file keeps the age of the scratch file it was.      *)
(***************************************************************************)
EXTENDS Integers, FiniteSets, ExecIds
LOCAL INSTANCE FiniteSetsExt

CONSTANTS
    Scratch,     \* names of the scratch files that can exist at once
    Ttl,         \* state_ttl_seconds
    MaxBytes,    \* max_state_store_bytes, -1 for no limit
    Size,        \* Size[t]: bytes of the state saved as t
    MaxPins      \* bound: requests using one state

ASSUME StoreAssumption ==
    /\ Ttl \in Nat /\ MaxBytes \in Int /\ MaxBytes >= -1 /\ MaxPins \in Nat
    /\ Size \in [Tokens -> Nat]
    /\ None \notin Nat
    /\ None \notin [item : Items, age : 0..Ttl + 1]

VARIABLES
    up,          \* the server process runs
    records,     \* self._records: [item, age since last access] or None
    pins,        \* self._pinned_tokens
    issued,      \* tokens ever made: 24 random bytes never repeat
    bin,         \* age of the file {token}.bin, None when absent
    side,        \* content of {token}.json, None when absent
    torn,        \* sidecars whose content cannot be read
    scratch      \* age of each pg_*.bin file, None when absent

disk == <<bin, side, torn, scratch>>
vars == <<up, records, pins, issued, disk>>

Ages   == 0..Ttl + 1
Record == [item : Items, age : Ages]
Nothing == [t \in Tokens |-> None]

TypeOK ==
    /\ up \in BOOLEAN
    /\ records \in [Tokens -> Record \cup {None}]
    /\ pins \in [Tokens -> 0..MaxPins]
    /\ issued \subseteq Tokens
    /\ bin \in [Tokens -> Ages \cup {None}]
    /\ side \in [Tokens -> Record \cup {None}]
    /\ torn \subseteq {t \in Tokens : side[t] # None}
    /\ scratch \in [Scratch -> Ages \cup {None}]

Init ==
    /\ up = FALSE
    /\ records = Nothing /\ bin = Nothing /\ side = Nothing
    /\ pins = [t \in Tokens |-> 0]
    /\ issued = {} /\ torn = {}
    /\ scratch = [f \in Scratch |-> None]

Tracked   == {t \in Tokens : records[t] # None}
Pinned    == {t \in Tokens : pins[t] > 0}
Owned(i)  == {t \in Tracked : records[t].item = i}
Bytes(S)  == MapThenSumSet(LAMBDA t : Size[t], S)
Expired(a) == a > Ttl

Without(table, D) == [t \in Tokens |-> IF t \in D THEN None ELSE table[t]]
Accessed(table, t) == [table EXCEPT ![t].age = 0]
Entered(table, t, i) == [table EXCEPT ![t] = [item |-> i, age |-> 0]]

----------------------------------------------------------------------------
\* A request's worker saves a state under a scratch name.
SaveScratch(f) ==
    /\ up /\ scratch[f] = None
    /\ scratch' = [scratch EXCEPT ![f] = 0]
    /\ UNCHANGED <<up, records, pins, issued, bin, side, torn>>

\* The scratch file of a step that failed is unlinked.
DropScratch(f) ==
    /\ up /\ scratch[f] # None
    /\ scratch' = [scratch EXCEPT ![f] = None]
    /\ UNCHANGED <<up, records, pins, issued, bin, side, torn>>

MoveToStore(f, t) ==
    /\ up /\ scratch[f] # None /\ t \notin issued
    /\ issued' = issued \cup {t}
    /\ bin' = [bin EXCEPT ![t] = scratch[f]]
    /\ scratch' = [scratch EXCEPT ![f] = None]

\* put(): the file is moved, then the record indexed and its sidecar written.
Put(f, t, i) ==
    /\ MoveToStore(f, t)
    /\ records' = Entered(records, t, i)
    /\ side' = Entered(side, t, i)
    /\ UNCHANGED <<up, pins, torn>>

\* Seeded bug: the access time is kept in memory only.
ResolveInMemory(t) ==
    /\ up /\ t \in Tracked
    /\ records' = Accessed(records, t)
    /\ UNCHANGED <<up, pins, issued, bin, side, torn, scratch>>

\* resolve(): the access time is renewed, in memory and in the sidecar.
Resolve(t) ==
    /\ up /\ t \in Tracked
    /\ records' = Accessed(records, t)
    /\ side' = Accessed(side, t)
    /\ UNCHANGED <<up, pins, issued, bin, torn, scratch>>

ResolveAndPin(t) ==
    /\ up /\ t \in Tracked /\ pins[t] < MaxPins
    /\ records' = Accessed(records, t)
    /\ side' = Accessed(side, t)
    /\ pins' = [pins EXCEPT ![t] = @ + 1]
    /\ UNCHANGED <<up, issued, bin, torn, scratch>>

\* Seeded bug: a state that is not pinned any more is unpinned again.
UnpinUnchecked(t) ==
    /\ up
    /\ pins' = [pins EXCEPT ![t] = @ - 1]
    /\ UNCHANGED <<up, records, issued, disk>>

Unpin(t) ==
    /\ up /\ pins[t] > 0
    /\ pins' = [pins EXCEPT ![t] = @ - 1]
    /\ UNCHANGED <<up, records, issued, disk>>

\* create_child(): resolve() of the parent, then put() under the parent's item.
CreateChild(p, f, t) ==
    /\ p \in Tracked
    /\ MoveToStore(f, t)
    /\ records' = Entered(Accessed(records, p), t, records[p].item)
    /\ side' = Entered(Accessed(side, p), t, records[p].item)
    /\ UNCHANGED <<up, pins, torn>>

\* _delete_tokens() skips the pinned ones of the tokens it is given.
Deletable(D) == D \ Pinned

\* delete_by_item_id_all_or_none(), when no state of the item is pinned; it
\* changes nothing otherwise.
DeleteItem(i) ==
    /\ up /\ Owned(i) \cap Pinned = {}
    /\ records' = Without(records, Owned(i))
    /\ bin' = Without(bin, Owned(i))
    /\ side' = Without(side, Owned(i))
    /\ UNCHANGED <<up, pins, issued, torn, scratch>>
----------------------------------------------------------------------------
ExpiredTokens == {t \in Tracked : Expired(records[t].age)}

\* Seeded bug: the scan for the budget stops one state early.
OverBudgetTooFew(K) ==
    IF MaxBytes < 0 \/ Bytes(K) <= MaxBytes THEN {{}}
    ELSE {D \in SUBSET K :
            /\ \A d \in D, k \in K \ D : records[d].age >= records[k].age
            /\ Bytes(K \ D) > MaxBytes}

\* Seeded bug: the most recently used go first.
OverBudgetNewestFirst(K) ==
    IF MaxBytes < 0 \/ Bytes(K) <= MaxBytes THEN {{}}
    ELSE {D \in SUBSET K :
            /\ \A d \in D, k \in K \ D : records[d].age <= records[k].age
            /\ Bytes(K \ D) <= MaxBytes
            /\ \E last \in D :
                 /\ \A d \in D : records[d].age <= records[last].age
                 /\ Bytes((K \ D) \cup {last}) > MaxBytes}

\* _gc_over_budget(): the shortest run of least recently used states of K
\* that brings the rest within the budget.  Pinned ones count, although
\* _delete_tokens then keeps them.
OverBudget(K) ==
    IF MaxBytes < 0 \/ Bytes(K) <= MaxBytes THEN {{}}
    ELSE {D \in SUBSET K :
            /\ \A d \in D, k \in K \ D : records[d].age >= records[k].age
            /\ Bytes(K \ D) <= MaxBytes
            /\ \E last \in D :
                 /\ \A d \in D : records[d].age >= records[last].age
                 /\ Bytes((K \ D) \cup {last}) > MaxBytes}

Old(a) == a # None /\ Expired(a)

\* Seeded bug: sidecars are not swept, only state files.
LoneSidecarsKept(D) == {}

\* Sidecars the sweep finds with no record, and old enough.
LoneSidecars(D) ==
    {t \in Tokens \ (Tracked \ D) : side[t] # None /\ Old(side[t].age)}

\* _sweep_orphans(), when the tokens of D are deleted: every file of the
\* directory that is older than the cutoff and not a tracked token's.
SweepOrphans(D) ==
    LET gone == D \cup LoneSidecars(D)
    IN /\ bin' = Without(bin, D \cup {t \in Tokens \ Tracked : Old(bin[t])})
       /\ side' = Without(side, gone)
       /\ torn' = torn \ gone
       /\ scratch' = [f \in Scratch |-> IF Old(scratch[f]) THEN None ELSE scratch[f]]

\* gc_expired(), which run_state_gc calls once in every interval.
Gc ==
    /\ up
    /\ \E over \in OverBudget(Tracked \ Deletable(ExpiredTokens)) :
         LET doomed == Deletable(ExpiredTokens \cup over)
         IN records' = Without(records, doomed) /\ SweepOrphans(doomed)
    /\ UNCHANGED <<up, pins, issued>>
----------------------------------------------------------------------------
Off ==
    /\ up /\ up' = FALSE
    /\ records' = Nothing
    /\ pins' = [t \in Tokens |-> 0]

\* The server stops, or is killed between two operations of the store.
Stop == Off /\ UNCHANGED <<issued, disk>>

\* Killed in put(): the file is moved, its sidecar missing or cut short.
CrashInPut(f, t, i) ==
    /\ Off /\ MoveToStore(f, t)
    /\ \/ UNCHANGED <<side, torn>>
       \/ side' = Entered(side, t, i) /\ torn' = torn \cup {t}

\* Killed in resolve(), which truncates the sidecar before it writes it.
CrashInResolve(t) ==
    /\ Off /\ t \in Tracked
    /\ side' = Accessed(side, t)
    /\ torn' = torn \cup {t}
    /\ UNCHANGED <<issued, bin, scratch>>

\* Killed in _delete_tokens(): the tokens of D are gone, and the state file of
\* t, but not its sidecar yet.  Those over the budget go by their last use.
CrashInDelete(D, t) ==
    /\ Off /\ t \notin D
    /\ \/ \E i \in Items : Owned(i) \cap Pinned = {} /\ D \cup {t} \subseteq Owned(i)
       \/ D \cup {t} \subseteq Deletable(ExpiredTokens)
       \/ \E over \in OverBudget(Tracked \ Deletable(ExpiredTokens)) :
            /\ Deletable(ExpiredTokens) \subseteq D
            /\ D \cup {t} \subseteq Deletable(ExpiredTokens \cup over)
            /\ \A d \in D \cup {t}, k \in Deletable(over) \ D :
                   records[d].age >= records[k].age
    /\ bin' = Without(bin, D \cup {t})
    /\ side' = Without(side, D)
    /\ UNCHANGED <<issued, torn, scratch>>

\* What _rehydrate() finds: _read_metadata() ignores a sidecar it cannot read
\* and one whose state file is missing.
Readable ==
    [t \in Tokens |-> IF bin[t] = None \/ t \in torn THEN None ELSE side[t]]

\* The store is built: the index is filled from the sidecars, and a readable
\* one without a state file is unlinked.
Start ==
    /\ ~up /\ up' = TRUE
    /\ records' = Readable
    /\ side' = [t \in Tokens |-> IF t \in torn THEN side[t] ELSE Readable[t]]
    /\ UNCHANGED <<pins, issued, bin, torn, scratch>>

Aged(a) == IF a > Ttl THEN a ELSE a + 1

AgedTable(table) ==
    [t \in Tokens |-> IF table[t] = None THEN None
                      ELSE [table[t] EXCEPT !.age = Aged(@)]]
AgedFiles(files) ==
    [f \in DOMAIN files |-> IF files[f] = None THEN None ELSE Aged(files[f])]

\* Time passes, whether a server runs or not.
Tick ==
    /\ records' = AgedTable(records) /\ side' = AgedTable(side)
    /\ bin' = AgedFiles(bin) /\ scratch' = AgedFiles(scratch)
    /\ UNCHANGED <<up, pins, issued, torn>>

Next ==
    \/ \E f \in Scratch : SaveScratch(f) \/ DropScratch(f)
    \/ \E f \in Scratch, t \in Tokens, i \in Items : Put(f, t, i) \/ CrashInPut(f, t, i)
    \/ \E t \in Tokens : Resolve(t) \/ ResolveAndPin(t) \/ Unpin(t) \/ CrashInResolve(t)
    \/ \E p \in Tokens, f \in Scratch, t \in Tokens : CreateChild(p, f, t)
    \/ \E i \in Items : DeleteItem(i)
    \/ \E D \in SUBSET Tokens, t \in Tokens : CrashInDelete(D, t)
    \/ Gc \/ Stop \/ Start \/ Tick

Spec == Init /\ [][Next]_vars

\* The clock moves and run_state_gc comes round while its server lives.
FairSpec == Spec /\ WF_vars(Tick) /\ WF_vars(Gc)
----------------------------------------------------------------------------
\* While the server runs, its index is what a restart would rebuild from the
\* directory: a kill between two operations forgets nothing and revives
\* nothing, whatever was resolved, deleted or collected before it.
IndexOnDisk == up => records = Readable

\* While a server runs, a token dies with its whole item, or in a collection that
\* takes what is stale and then the least recently used that the budget asks for.
\* A kill leaves such a death at a prefix or loses one token in use, and nothing
\* more; a token lives on through restarts with its last use, and never comes back.
Live == IF up THEN records ELSE Readable

Durable == INSTANCE DurableStates WITH serving <- up, live <- Live, held <- Pinned

DurableSpec == Durable!Spec

\* After a collection the store is over its budget only if a state is pinned.
BudgetRestored ==
    [][Gc /\ MaxBytes >= 0 /\ Pinned = {}
         => Bytes({t \in Tokens : records'[t] # None}) <= MaxBytes]_vars

\* A file that no record stands for goes in the end, while its server lives: a
\* state file left by a kill in put(), a sidecar cut short, a scratch file.
OrphansReclaimed ==
    /\ \A t \in Tokens :
         (up /\ records[t] = None /\ (bin[t] # None \/ side[t] # None))
            ~> (~up \/ (bin[t] = None /\ side[t] = None))
    /\ \A f \in Scratch : (up /\ scratch[f] # None) ~> (~up \/ scratch[f] = None)
============================================================================
