-------------------------- MODULE StateFilesProofs --------------------------
(***************************************************************************)
(* Proofs about the state store on its disk, for any states, sizes, time   *)
(* to live and budget: the index of a running server is what a restart     *)
(* would read, wherever earlier ones were killed; a collection ends within *)
(* the budget unless something is pinned; and the store implements         *)
(* DurableStates, in which there is no disk and no restart.                *)
(***************************************************************************)
EXTENDS StateFiles, TLAPS

\* A token that was never issued has left no trace.
Fresh ==
    \A t \in Tokens \ issued : records[t] = None /\ bin[t] = None /\ side[t] = None

\* Only a running server holds states, and what it holds is in its index.
PinsOnTracked == \A t \in Tokens : pins[t] > 0 => up /\ records[t] # None

\* IndexOnDisk, token by token.
IndexAgrees ==
    up => \A t \in Tokens :
              records[t] = IF bin[t] = None \/ t \in torn THEN None ELSE side[t]

StoreInv == TypeOK /\ IndexAgrees /\ Fresh /\ PinsOnTracked
----------------------------------------------------------------------------
\* A record is not None and is made of its item and its age.
LEMMA RecordFacts ==
    /\ \A r \in Record : r # None /\ r.item \in Items /\ r.age \in Ages
    /\ \A i \in Items, a \in Ages : [item |-> i, age |-> a] \in Record
    /\ \A r \in Record, a \in Ages : [r EXCEPT !.age = a] \in Record
    /\ 0 \in Ages /\ None \notin Ages
    /\ \A a \in Ages : Aged(a) \in Ages
<1>1. Ttl \in Nat /\ None \notin Nat /\ None \notin Record
  BY StoreAssumption DEF Record, Ages
<1> QED
  BY <1>1 DEF Record, Ages, Aged

\* The operators on tables of records keep them tables of records.
LEMMA WithoutFacts ==
    ASSUME NEW table \in [Tokens -> Record \cup {None}], NEW D
    PROVE  /\ Without(table, D) \in [Tokens -> Record \cup {None}]
           /\ \A x \in Tokens : Without(table, D)[x] = IF x \in D THEN None ELSE table[x]
    BY DEF Without

LEMMA AccessedFacts ==
    ASSUME NEW table \in [Tokens -> Record \cup {None}], NEW t \in Tokens, table[t] # None
    PROVE  /\ Accessed(table, t) \in [Tokens -> Record \cup {None}]
           /\ Accessed(table, t)[t] = [table[t] EXCEPT !.age = 0]
           /\ Accessed(table, t)[t] \in Record
           /\ Accessed(table, t)[t].item = table[t].item
           /\ \A x \in Tokens \ {t} : Accessed(table, t)[x] = table[x]
<1> DEFINE row == [table[t] EXCEPT !.age = 0]
<1>1. row \in Record /\ row.item = table[t].item
  BY RecordFacts DEF Record
<1>2. Accessed(table, t) = [table EXCEPT ![t] = row]
  BY DEF Accessed
<1>3. row = [table[t] EXCEPT !.age = 0]
  OBVIOUS
<1> HIDE DEF row
<1> QED
  BY <1>1, <1>2, <1>3

LEMMA EnteredFacts ==
    ASSUME NEW table \in [Tokens -> Record \cup {None}], NEW t \in Tokens, NEW i \in Items
    PROVE  /\ Entered(table, t, i) \in [Tokens -> Record \cup {None}]
           /\ Entered(table, t, i)[t] = [item |-> i, age |-> 0]
           /\ Entered(table, t, i)[t] \in Record
           /\ \A x \in Tokens \ {t} : Entered(table, t, i)[x] = table[x]
    BY RecordFacts DEF Entered

\* A record in memory and its sidecar are renewed, and entered, together.
LEMMA BothAccessed ==
    ASSUME NEW r \in [Tokens -> Record \cup {None}], NEW s \in [Tokens -> Record \cup {None}],
           NEW t \in Tokens, r[t] # None, s[t] = r[t]
    PROVE  /\ Accessed(r, t) \in [Tokens -> Record \cup {None}]
           /\ Accessed(s, t) \in [Tokens -> Record \cup {None}]
           /\ Accessed(r, t)[t] = Accessed(s, t)[t] /\ Accessed(r, t)[t] # None
           /\ \A x \in Tokens \ {t} : Accessed(r, t)[x] = r[x] /\ Accessed(s, t)[x] = s[x]
<1>1. /\ Accessed(r, t) \in [Tokens -> Record \cup {None}]
      /\ Accessed(r, t)[t] = [r[t] EXCEPT !.age = 0] /\ Accessed(r, t)[t] \in Record
      /\ \A x \in Tokens \ {t} : Accessed(r, t)[x] = r[x]
  BY AccessedFacts
<1>2. /\ Accessed(s, t) \in [Tokens -> Record \cup {None}]
      /\ Accessed(s, t)[t] = [s[t] EXCEPT !.age = 0]
      /\ \A x \in Tokens \ {t} : Accessed(s, t)[x] = s[x]
  BY AccessedFacts
<1> QED
  BY <1>1, <1>2, RecordFacts

LEMMA BothEntered ==
    ASSUME NEW r \in [Tokens -> Record \cup {None}], NEW s \in [Tokens -> Record \cup {None}],
           NEW t \in Tokens, NEW i \in Items
    PROVE  /\ Entered(r, t, i) \in [Tokens -> Record \cup {None}]
           /\ Entered(s, t, i) \in [Tokens -> Record \cup {None}]
           /\ Entered(r, t, i)[t] = Entered(s, t, i)[t] /\ Entered(r, t, i)[t] # None
           /\ \A x \in Tokens \ {t} : Entered(r, t, i)[x] = r[x] /\ Entered(s, t, i)[x] = s[x]
<1>1. /\ Entered(r, t, i) \in [Tokens -> Record \cup {None}]
      /\ Entered(r, t, i)[t] = [item |-> i, age |-> 0] /\ Entered(r, t, i)[t] \in Record
      /\ \A x \in Tokens \ {t} : Entered(r, t, i)[x] = r[x]
  BY EnteredFacts
<1>2. /\ Entered(s, t, i) \in [Tokens -> Record \cup {None}]
      /\ Entered(s, t, i)[t] = [item |-> i, age |-> 0]
      /\ \A x \in Tokens \ {t} : Entered(s, t, i)[x] = s[x]
  BY EnteredFacts
<1> QED
  BY <1>1, <1>2, RecordFacts

LEMMA AgedFacts ==
    ASSUME NEW table \in [Tokens -> Record \cup {None}]
    PROVE  /\ AgedTable(table) \in [Tokens -> Record \cup {None}]
           /\ \A x \in Tokens : AgedTable(table)[x] =
                  IF table[x] = None THEN None ELSE [table[x] EXCEPT !.age = Aged(@)]
           /\ \A x \in Tokens : AgedTable(table)[x] = None <=> table[x] = None
<1>1. \A x \in Tokens : AgedTable(table)[x] =
          IF table[x] = None THEN None ELSE [table[x] EXCEPT !.age = Aged(@)]
  BY DEF AgedTable
<1>2. ASSUME NEW x \in Tokens, table[x] # None
      PROVE  [table[x] EXCEPT !.age = Aged(@)] \in Record
  <2>1. table[x] \in Record /\ Aged(table[x].age) \in Ages
    BY <1>2, RecordFacts
  <2> QED
    BY <2>1, RecordFacts
<1>3. \A x \in Tokens : AgedTable(table)[x] \in Record \cup {None}
  BY <1>1, <1>2
<1>4. AgedTable(table) \in [Tokens -> Record \cup {None}]
  BY <1>3 DEF AgedTable
<1>5. \A x \in Tokens : AgedTable(table)[x] = None <=> table[x] = None
  BY <1>1, <1>2, RecordFacts
<1> QED
  BY <1>1, <1>4, <1>5

\* Deletions, of whatever collection or item, take tracked and unpinned states.
LEMMA OverFacts ==
    ASSUME NEW K \in SUBSET Tokens, NEW over \in OverBudget(K)
    PROVE  /\ over \subseteq K
           /\ \A d \in over, k \in K \ over : records[d].age >= records[k].age
           /\ MaxBytes >= 0 => Bytes(K \ over) <= MaxBytes
<1>1. CASE MaxBytes < 0 \/ Bytes(K) <= MaxBytes
  <2>1. over = {} /\ K \ over = K
    BY <1>1 DEF OverBudget
  <2> QED
    BY <1>1, <2>1, StoreAssumption
<1>2. CASE ~(MaxBytes < 0 \/ Bytes(K) <= MaxBytes)
  BY <1>2 DEF OverBudget
<1> QED
  BY <1>1, <1>2
----------------------------------------------------------------------------
\* The tokens of a collection or of an item are tracked ones, and readable.
LEMMA InvFacts ==
    ASSUME StoreInv
    PROVE  /\ records \in [Tokens -> Record \cup {None}]
           /\ side \in [Tokens -> Record \cup {None}]
           /\ bin \in [Tokens -> Ages \cup {None}]
           /\ scratch \in [Scratch -> Ages \cup {None}]
           /\ pins \in [Tokens -> 0..MaxPins]
           /\ up \in BOOLEAN /\ issued \subseteq Tokens
           /\ \A t \in torn : t \in Tokens /\ side[t] # None
           /\ \A t \in Tokens : (up /\ records[t] # None) =>
                  bin[t] # None /\ t \notin torn /\ side[t] = records[t] /\ t \in issued
    BY DEF StoreInv, TypeOK, IndexAgrees, Fresh

\* Every operation that saves, uses or pins a state keeps the index on disk.
LEMMA SaveStep ==
    ASSUME StoreInv
    PROVE  /\ \A f \in Scratch : SaveScratch(f) \/ DropScratch(f) => StoreInv'
           /\ \A f \in Scratch, t \in Tokens, i \in Items : Put(f, t, i) => StoreInv'
           /\ \A t \in Tokens : Resolve(t) \/ ResolveAndPin(t) \/ Unpin(t) => StoreInv'
           /\ \A p \in Tokens, f \in Scratch, t \in Tokens : CreateChild(p, f, t) => StoreInv'
<1> USE InvFacts, RecordFacts
<1>0. TypeOK /\ IndexAgrees /\ Fresh /\ PinsOnTracked
  BY DEF StoreInv
<1>1. ASSUME NEW f \in Scratch, SaveScratch(f) \/ DropScratch(f)
      PROVE  StoreInv'
  BY <1>0, <1>1 DEF SaveScratch, DropScratch, StoreInv, TypeOK, IndexAgrees, Fresh, PinsOnTracked
<1>2. ASSUME NEW f \in Scratch, NEW t \in Tokens, MoveToStore(f, t)
      PROVE  /\ bin' \in [Tokens -> Ages \cup {None}] /\ bin'[t] # None
             /\ \A x \in Tokens \ {t} : bin'[x] = bin[x]
             /\ scratch' \in [Scratch -> Ages \cup {None}]
             /\ issued' = issued \cup {t} /\ t \notin issued /\ t \notin torn
             /\ records[t] = None /\ side[t] = None /\ up
  BY <1>0, <1>2 DEF MoveToStore, Fresh
<1>3. ASSUME NEW f \in Scratch, NEW t \in Tokens, NEW i \in Items, Put(f, t, i)
      PROVE  StoreInv'
  <2>1. /\ MoveToStore(f, t) /\ UNCHANGED <<up, pins, torn>>
        /\ records' = Entered(records, t, i) /\ side' = Entered(side, t, i)
    BY <1>3 DEF Put
  <2>2. /\ records' \in [Tokens -> Record \cup {None}] /\ side' \in [Tokens -> Record \cup {None}]
        /\ records'[t] = side'[t] /\ records'[t] # None
        /\ \A x \in Tokens \ {t} : records'[x] = records[x] /\ side'[x] = side[x]
    BY <2>1, BothEntered
  <2>3. TypeOK'
    BY <1>0, <1>2, <2>1, <2>2 DEF TypeOK
  <2>4. IndexAgrees' /\ Fresh' /\ PinsOnTracked'
    BY <1>0, <1>2, <2>1, <2>2 DEF IndexAgrees, Fresh, PinsOnTracked
  <2> QED
    BY <2>3, <2>4 DEF StoreInv
<1>4. ASSUME NEW t \in Tokens, up, t \in Tracked, UNCHANGED <<up, issued, bin, torn, scratch>>,
             records' = Accessed(records, t), side' = Accessed(side, t),
             pins' \in [Tokens -> 0..MaxPins],
             \A x \in Tokens \ {t} : pins'[x] = pins[x]
      PROVE  StoreInv'
  <2>1. records[t] # None /\ side[t] = records[t]
    BY <1>4 DEF Tracked
  <2>2. /\ records' \in [Tokens -> Record \cup {None}] /\ side' \in [Tokens -> Record \cup {None}]
        /\ records'[t] = side'[t] /\ records'[t] # None
        /\ \A x \in Tokens \ {t} : records'[x] = records[x] /\ side'[x] = side[x]
    BY <1>4, <2>1, BothAccessed
  <2>3. TypeOK'
    BY <1>0, <1>4, <2>1, <2>2 DEF TypeOK
  <2>4. IndexAgrees' /\ Fresh' /\ PinsOnTracked'
    BY <1>0, <1>4, <2>1, <2>2 DEF IndexAgrees, Fresh, PinsOnTracked
  <2> QED
    BY <2>3, <2>4 DEF StoreInv
<1>5. ASSUME NEW t \in Tokens, Resolve(t)
      PROVE  StoreInv'
  BY <1>4, <1>5 DEF Resolve
<1>6. ASSUME NEW t \in Tokens, ResolveAndPin(t)
      PROVE  StoreInv'
  <2>1. /\ pins' = [pins EXCEPT ![t] = pins[t] + 1] /\ pins[t] + 1 \in 0..MaxPins
        /\ up /\ t \in Tracked /\ UNCHANGED <<up, issued, bin, torn, scratch>>
        /\ records' = Accessed(records, t) /\ side' = Accessed(side, t)
    BY <1>6, StoreAssumption DEF ResolveAndPin
  <2>2. /\ pins' \in [Tokens -> 0..MaxPins]
        /\ \A x \in Tokens \ {t} : pins'[x] = pins[x]
    BY <2>1
  <2> QED
    BY <1>4, <2>1, <2>2
<1>7. ASSUME NEW t \in Tokens, Unpin(t)
      PROVE  StoreInv'
  <2>1. /\ pins' = [pins EXCEPT ![t] = pins[t] - 1] /\ pins[t] - 1 \in 0..MaxPins
        /\ pins[t] > 0 /\ UNCHANGED <<up, records, issued, bin, side, torn, scratch>>
    BY <1>7, StoreAssumption DEF Unpin, disk
  <2>2. /\ pins' \in [Tokens -> 0..MaxPins]
        /\ \A x \in Tokens : pins'[x] > 0 => pins[x] > 0
    BY <2>1
  <2> QED
    BY <1>0, <2>1, <2>2 DEF StoreInv, TypeOK, IndexAgrees, Fresh, PinsOnTracked
<1>8. ASSUME NEW p \in Tokens, NEW f \in Scratch, NEW t \in Tokens, CreateChild(p, f, t)
      PROVE  StoreInv'
  <2> DEFINE used == Accessed(records, p)
             usedSide == Accessed(side, p)
             i == records[p].item
  <2>1. /\ MoveToStore(f, t) /\ UNCHANGED <<up, pins, torn>>
        /\ records' = Entered(used, t, i) /\ side' = Entered(usedSide, t, i)
    BY <1>8 DEF CreateChild
  <2>2. up /\ records[p] # None /\ side[p] = records[p] /\ i \in Items /\ p # t
    BY <1>2, <1>8 DEF CreateChild, Tracked
  <2>3. /\ used \in [Tokens -> Record \cup {None}] /\ usedSide \in [Tokens -> Record \cup {None}]
        /\ used[p] = usedSide[p] /\ used[p] # None
        /\ \A x \in Tokens \ {p} : used[x] = records[x] /\ usedSide[x] = side[x]
    BY <2>2, BothAccessed
  <2> HIDE DEF used, usedSide, i
  <2>4. /\ records' \in [Tokens -> Record \cup {None}] /\ side' \in [Tokens -> Record \cup {None}]
        /\ records'[t] = side'[t] /\ records'[t] # None
        /\ \A x \in Tokens \ {t} : records'[x] = used[x] /\ side'[x] = usedSide[x]
    BY <2>1, <2>2, <2>3, BothEntered
  <2>5. TypeOK'
    BY <1>0, <1>2, <2>1, <2>2, <2>3, <2>4 DEF TypeOK
  <2>6. IndexAgrees' /\ Fresh' /\ PinsOnTracked'
    BY <1>0, <1>2, <2>1, <2>2, <2>3, <2>4 DEF IndexAgrees, Fresh, PinsOnTracked
  <2> QED
    BY <2>5, <2>6 DEF StoreInv
<1> QED
  BY <1>1, <1>3, <1>5, <1>6, <1>7, <1>8

\* What a kill leaves of the index: nothing.
LEMMA OffFacts ==
    ASSUME Off
    PROVE  /\ up /\ up' = FALSE
           /\ records' \in [Tokens -> Record \cup {None}]
           /\ pins' \in [Tokens -> 0..MaxPins]
           /\ \A t \in Tokens : pins'[t] = 0 /\ records'[t] = None
    BY StoreAssumption DEF Off, Nothing

\* The tokens a collection or a deletion takes are tracked.
LEMMA DoomedFacts ==
    ASSUME StoreInv, NEW over \in OverBudget(Tracked \ Deletable(ExpiredTokens))
    PROVE  /\ Deletable(ExpiredTokens \cup over) \subseteq Tracked \ Pinned
           /\ over \subseteq Tracked
<1>1. Tracked \ Deletable(ExpiredTokens) \in SUBSET Tokens
  BY DEF Tracked
<1>2. over \subseteq Tracked
  BY <1>1, OverFacts
<1> QED
  BY <1>2 DEF Deletable, ExpiredTokens, Tracked

\* Deletion and collection take records and files together, and the sweep
\* no file of a record that stays.
LEMMA DeleteStep ==
    ASSUME StoreInv
    PROVE  /\ \A i \in Items : DeleteItem(i) => StoreInv'
           /\ Gc => StoreInv'
<1> USE InvFacts
<1>0. TypeOK /\ IndexAgrees /\ Fresh /\ PinsOnTracked
  BY DEF StoreInv
<1>1. ASSUME NEW i \in Items, DeleteItem(i)
      PROVE  StoreInv'
  <2> DEFINE D == Owned(i)
  <2>1. /\ up /\ D \cap Pinned = {} /\ D \subseteq Tracked
        /\ UNCHANGED <<up, pins, issued, torn, scratch>>
        /\ records' = Without(records, D) /\ side' = Without(side, D)
        /\ bin' = Without(bin, D)
    BY <1>1 DEF DeleteItem, Owned
  <2> HIDE DEF D
  <2>2. records' \in [Tokens -> Record \cup {None}] /\ side' \in [Tokens -> Record \cup {None}]
    BY <2>1, WithoutFacts
  <2>3. /\ bin' \in [Tokens -> Ages \cup {None}]
        /\ \A x \in Tokens :
              /\ bin'[x] = IF x \in D THEN None ELSE bin[x]
              /\ records'[x] = IF x \in D THEN None ELSE records[x]
              /\ side'[x] = IF x \in D THEN None ELSE side[x]
    BY <2>1 DEF Without
  <2>4. TypeOK'
    <3>1. torn' \subseteq {t \in Tokens : side'[t] # None}
      BY <2>1, <2>3 DEF Tracked
    <3> QED
      BY <1>0, <2>1, <2>2, <2>3, <3>1 DEF TypeOK
  <2>5. IndexAgrees' /\ Fresh' /\ PinsOnTracked'
    BY <1>0, <2>1, <2>3 DEF IndexAgrees, Fresh, PinsOnTracked, Pinned
  <2> QED
    BY <2>4, <2>5 DEF StoreInv
<1>2. CASE Gc
  <2>1. PICK over \in OverBudget(Tracked \ Deletable(ExpiredTokens)) :
           /\ records' = Without(records, Deletable(ExpiredTokens \cup over))
           /\ SweepOrphans(Deletable(ExpiredTokens \cup over))
    BY <1>2 DEF Gc
  <2> DEFINE D == Deletable(ExpiredTokens \cup over)
             gone == D \cup LoneSidecars(D)
  <2>2. D \subseteq Tracked \ Pinned
    BY DoomedFacts
  <2>3. /\ records' = Without(records, D)
        /\ bin' = Without(bin, D \cup {t \in Tokens \ Tracked : Old(bin[t])})
        /\ side' = Without(side, gone) /\ torn' = torn \ gone
        /\ scratch' = [f \in Scratch |-> IF Old(scratch[f]) THEN None ELSE scratch[f]]
        /\ up /\ UNCHANGED <<up, pins, issued>>
    BY <1>2, <2>1 DEF Gc, SweepOrphans
  <2>4. \A t \in gone : t \in D \/ t \in Tokens \ Tracked
    BY <2>2 DEF LoneSidecars
  <2> HIDE DEF D, gone
  <2>5. records' \in [Tokens -> Record \cup {None}] /\ side' \in [Tokens -> Record \cup {None}]
    BY <2>3, WithoutFacts
  <2>6. /\ bin' \in [Tokens -> Ages \cup {None}] /\ scratch' \in [Scratch -> Ages \cup {None}]
        /\ \A x \in Tokens :
              /\ bin'[x] = None \/ bin'[x] = bin[x]
              /\ x \in Tracked \ D => bin'[x] = bin[x]
              /\ x \in D => bin'[x] = None
              /\ records'[x] = IF x \in D THEN None ELSE records[x]
              /\ side'[x] = IF x \in gone THEN None ELSE side[x]
    BY <2>3 DEF Without
  <2>7. TypeOK'
    <3>1. torn' \subseteq {t \in Tokens : side'[t] # None}
      BY <2>3, <2>6
    <3> QED
      BY <1>0, <2>3, <2>5, <2>6, <3>1 DEF TypeOK
  <2>8. IndexAgrees'
    <3> SUFFICES ASSUME NEW x \in Tokens
                 PROVE  records'[x] = IF bin'[x] = None \/ x \in torn' THEN None ELSE side'[x]
      BY DEF IndexAgrees
    <3>1. records[x] = IF bin[x] = None \/ x \in torn THEN None ELSE side[x]
      BY <1>0, <2>3 DEF IndexAgrees
    <3>2. CASE x \in D
      BY <2>6, <3>2
    <3>3. CASE x \in Tracked \ D
      <4>1. x \notin gone
        BY <2>4, <3>3
      <4> QED
        BY <2>3, <2>6, <3>1, <3>3, <4>1
    <3>4. CASE x \notin Tracked /\ x \notin D
      <4>1. records'[x] = None /\ records[x] = None
        BY <2>6, <3>4 DEF Tracked
      <4> QED
        BY <2>3, <2>6, <3>1, <4>1
    <3> QED
      BY <3>2, <3>3, <3>4
  <2>9. Fresh' /\ PinsOnTracked'
    BY <1>0, <2>2, <2>3, <2>6 DEF Fresh, PinsOnTracked, Pinned
  <2> QED
    BY <2>7, <2>8, <2>9 DEF StoreInv
<1> QED
  BY <1>1, <1>2

\* A kill, wherever it comes, leaves files from which the next start reads
\* a sound index; time changes no file's place.
LEMMA LifeStep ==
    ASSUME StoreInv
    PROVE  /\ Stop \/ Start \/ Tick => StoreInv'
           /\ \A f \in Scratch, t \in Tokens, i \in Items : CrashInPut(f, t, i) => StoreInv'
           /\ \A t \in Tokens : CrashInResolve(t) => StoreInv'
           /\ \A D \in SUBSET Tokens, t \in Tokens : CrashInDelete(D, t) => StoreInv'
<1> USE InvFacts
<1>0. TypeOK /\ IndexAgrees /\ Fresh /\ PinsOnTracked
  BY DEF StoreInv
<1>1. ASSUME Stop
      PROVE  StoreInv'
  <2>1. Off /\ UNCHANGED <<issued, bin, side, torn, scratch>>
    BY <1>1 DEF Stop, disk
  <2> QED
    BY <1>0, <2>1, OffFacts DEF StoreInv, TypeOK, IndexAgrees, Fresh, PinsOnTracked
<1>2. ASSUME Start
      PROVE  StoreInv'
  <2>1. /\ ~up /\ up' /\ UNCHANGED <<pins, issued, bin, torn, scratch>>
        /\ records' = Readable /\ up' = TRUE
        /\ side' = [t \in Tokens |-> IF t \in torn THEN side[t] ELSE Readable[t]]
    BY <1>2 DEF Start
  <2>2. Readable \in [Tokens -> Record \cup {None}]
    BY DEF Readable
  <2>3. \A t \in Tokens : Readable[t] = IF bin[t] = None \/ t \in torn THEN None ELSE side[t]
    BY DEF Readable
  <2>4. TypeOK'
    BY <1>0, <2>1, <2>2 DEF TypeOK
  <2>5. IndexAgrees' /\ Fresh' /\ PinsOnTracked'
    BY <1>0, <2>1, <2>3 DEF IndexAgrees, Fresh, PinsOnTracked
  <2> QED
    BY <2>4, <2>5 DEF StoreInv
<1>3. ASSUME Tick
      PROVE  StoreInv'
  <2>1. /\ records' = AgedTable(records) /\ side' = AgedTable(side)
        /\ bin' = AgedFiles(bin) /\ scratch' = AgedFiles(scratch)
        /\ UNCHANGED <<up, pins, issued, torn>>
    BY <1>3 DEF Tick
  <2>2. /\ records' \in [Tokens -> Record \cup {None}]
        /\ \A x \in Tokens : records'[x] = None <=> records[x] = None
        /\ \A x \in Tokens : records'[x] =
               IF records[x] = None THEN None ELSE [records[x] EXCEPT !.age = Aged(@)]
    BY <2>1, AgedFacts
  <2>3. /\ side' \in [Tokens -> Record \cup {None}]
        /\ \A x \in Tokens : side'[x] = None <=> side[x] = None
        /\ \A x \in Tokens : side'[x] =
               IF side[x] = None THEN None ELSE [side[x] EXCEPT !.age = Aged(@)]
    BY <2>1, AgedFacts
  <2>4. /\ bin' \in [Tokens -> Ages \cup {None}] /\ scratch' \in [Scratch -> Ages \cup {None}]
        /\ \A x \in Tokens : bin'[x] = None <=> bin[x] = None
    BY <2>1, RecordFacts DEF AgedFiles
  <2>5. TypeOK'
    BY <1>0, <2>1, <2>2, <2>3, <2>4 DEF TypeOK
  <2>6. IndexAgrees' /\ Fresh' /\ PinsOnTracked'
    BY <1>0, <2>1, <2>2, <2>3, <2>4 DEF IndexAgrees, Fresh, PinsOnTracked
  <2> QED
    BY <2>5, <2>6 DEF StoreInv
<1>4. ASSUME NEW f \in Scratch, NEW t \in Tokens, NEW i \in Items, CrashInPut(f, t, i)
      PROVE  StoreInv'
  <2>1. /\ Off /\ MoveToStore(f, t)
        /\ \/ UNCHANGED <<side, torn>>
           \/ side' = Entered(side, t, i) /\ torn' = torn \cup {t}
    BY <1>4 DEF CrashInPut
  <2>2. /\ bin' \in [Tokens -> Ages \cup {None}]
        /\ \A x \in Tokens \ {t} : bin'[x] = bin[x]
        /\ scratch' \in [Scratch -> Ages \cup {None}] /\ issued' = issued \cup {t}
    BY <1>0, <2>1, RecordFacts DEF MoveToStore
  <2>3. /\ side' \in [Tokens -> Record \cup {None}]
        /\ \A x \in Tokens \ {t} : side'[x] = side[x]
        /\ torn' \subseteq {x \in Tokens : side'[x] # None}
    <3>1. CASE UNCHANGED <<side, torn>>
      BY <3>1
    <3>2. CASE side' = Entered(side, t, i) /\ torn' = torn \cup {t}
      <4>1. /\ side' \in [Tokens -> Record \cup {None}] /\ side'[t] # None
            /\ \A x \in Tokens \ {t} : side'[x] = side[x]
        BY <3>2, BothEntered
      <4> QED
        BY <3>2, <4>1
    <3> QED
      BY <2>1, <3>1, <3>2
  <2>4. TypeOK'
    BY <1>0, <2>1, <2>2, <2>3, OffFacts DEF TypeOK
  <2>5. IndexAgrees' /\ Fresh' /\ PinsOnTracked'
    BY <1>0, <2>1, <2>2, <2>3, OffFacts DEF IndexAgrees, Fresh, PinsOnTracked
  <2> QED
    BY <2>4, <2>5 DEF StoreInv
<1>5. ASSUME NEW t \in Tokens, CrashInResolve(t)
      PROVE  StoreInv'
  <2>1. /\ Off /\ records[t] # None /\ side[t] # None
        /\ side' = Accessed(side, t) /\ torn' = torn \cup {t}
        /\ UNCHANGED <<issued, bin, scratch>>
    BY <1>5, OffFacts DEF CrashInResolve, Tracked
  <2>2. /\ side' \in [Tokens -> Record \cup {None}] /\ side'[t] # None
        /\ \A x \in Tokens \ {t} : side'[x] = side[x]
    BY <2>1, BothAccessed
  <2>3. TypeOK'
    BY <1>0, <2>1, <2>2, OffFacts DEF TypeOK
  <2>4. t \in issued
    BY <2>1, OffFacts
  <2>5. IndexAgrees' /\ Fresh' /\ PinsOnTracked'
    BY <1>0, <2>1, <2>2, <2>4, OffFacts DEF IndexAgrees, Fresh, PinsOnTracked
  <2> QED
    BY <2>3, <2>5 DEF StoreInv
<1>6. ASSUME NEW D \in SUBSET Tokens, NEW t \in Tokens, CrashInDelete(D, t)
      PROVE  StoreInv'
  <2>1. /\ Off /\ bin' = Without(bin, D \cup {t}) /\ side' = Without(side, D)
        /\ UNCHANGED <<issued, torn, scratch>>
    BY <1>6 DEF CrashInDelete
  <2>2. D \subseteq Tracked
    BY <1>6, DoomedFacts DEF CrashInDelete, Owned, Deletable, ExpiredTokens
  <2>3. /\ side' \in [Tokens -> Record \cup {None}] /\ bin' \in [Tokens -> Ages \cup {None}]
        /\ \A x \in Tokens : side'[x] = IF x \in D THEN None ELSE side[x]
        /\ \A x \in Tokens : bin[x] = None => bin'[x] = None
    BY <2>1 DEF Without
  <2>4. \A x \in torn : x \notin D
    BY <2>1, <2>2, OffFacts DEF Tracked
  <2>5. TypeOK'
    BY <1>0, <2>1, <2>3, <2>4, OffFacts DEF TypeOK
  <2>6. IndexAgrees' /\ Fresh' /\ PinsOnTracked'
    BY <1>0, <2>1, <2>3, OffFacts DEF IndexAgrees, Fresh, PinsOnTracked
  <2> QED
    BY <2>5, <2>6 DEF StoreInv
<1> QED
  BY <1>1, <1>2, <1>3, <1>4, <1>5, <1>6

LEMMA StoreStep ==
    ASSUME StoreInv, [Next]_vars
    PROVE  StoreInv'
<1>1. CASE UNCHANGED vars
  BY <1>1 DEF vars, disk, StoreInv, TypeOK, IndexAgrees, Fresh, PinsOnTracked
<1>2. CASE Next
  BY <1>2, SaveStep, DeleteStep, LifeStep DEF Next
<1> QED
  BY <1>1, <1>2

\* The inductive invariant of the store holds in every reachable state.
THEOREM StoreInvariant == Spec => []StoreInv
<1>1. ASSUME Init PROVE StoreInv
  <2>1. TypeOK
    <3>1. /\ records \in [Tokens -> Record \cup {None}] /\ side \in [Tokens -> Record \cup {None}]
          /\ bin \in [Tokens -> Ages \cup {None}] /\ scratch \in [Scratch -> Ages \cup {None}]
      BY <1>1 DEF Init, Nothing
    <3>2. pins \in [Tokens -> 0..MaxPins]
      BY <1>1, StoreAssumption DEF Init
    <3> QED
      BY <1>1, <3>1, <3>2 DEF Init, TypeOK
  <2> QED
    BY <1>1, <2>1 DEF Init, Nothing, StoreInv, IndexAgrees, Fresh, PinsOnTracked
<1> QED
  BY <1>1, StoreStep, PTL DEF Spec

\* Index, pins, files and sidecars keep their types, and only a sidecar that is
\* there can be torn (state_store.py:70-92).
THEOREM StoreTypeCorrect == Spec => []TypeOK
  BY StoreInvariant, PTL DEF StoreInv

\* A running server's index is what a restart would read from its directory,
\* after any kills and restarts before (state_store.py:96-177, 239-257, 307-356).
THEOREM IndexIsOnDisk == Spec => []IndexOnDisk
<1>1. StoreInv => IndexOnDisk
  BY DEF StoreInv, TypeOK, IndexAgrees, IndexOnDisk, Readable
<1> QED
  BY <1>1, StoreInvariant, PTL

\* A collection with nothing pinned leaves no more bytes than allowed, for any
\* sizes, ages and budget (state_store.py:201-220, 259-277).
THEOREM CollectionMeetsBudget == Spec => BudgetRestored
<1> DEFINE Met == Gc /\ MaxBytes >= 0 /\ Pinned = {}
                    => Bytes({t \in Tokens : records'[t] # None}) <= MaxBytes
<1>1. ASSUME StoreInv
      PROVE  Met
  <2> SUFFICES ASSUME Gc, MaxBytes >= 0, Pinned = {}
               PROVE  Bytes({t \in Tokens : records'[t] # None}) <= MaxBytes
    OBVIOUS
  <2> DEFINE K == Tracked \ ExpiredTokens
  <2>1. \A D : Deletable(D) = D
    BY DEF Deletable
  <2>2. PICK over \in OverBudget(K) : records' = Without(records, ExpiredTokens \cup over)
    BY <2>1 DEF Gc
  <2>3. K \in SUBSET Tokens
    BY DEF Tracked
  <2>4. Bytes(K \ over) <= MaxBytes
    BY <2>2, <2>3, OverFacts
  <2>5. {t \in Tokens : records'[t] # None} = K \ over
    BY <2>2 DEF Without, Tracked
  <2> QED
    BY <2>4, <2>5
<1> QED
  BY <1>1, StoreInvariant, PTL DEF Spec, BudgetRestored
----------------------------------------------------------------------------
\* The state that lives is the one the files tell of, whether a server runs
\* or not.
LiveOnDisk ==
    /\ Live \in [Tokens -> Record \cup {None}]
    /\ \A t \in Tokens :
          Live[t] = IF bin[t] = None \/ t \in torn THEN None ELSE side[t]
    /\ up => Live = records
    /\ Pinned \subseteq {t \in Tokens : Live[t] # None}

LEMMA LiveFacts == StoreInv => LiveOnDisk
<1> SUFFICES ASSUME StoreInv PROVE LiveOnDisk
  OBVIOUS
<1>1. Readable \in [Tokens -> Record \cup {None}]
  BY InvFacts DEF Readable
<1>2. Live \in [Tokens -> Record \cup {None}]
  BY <1>1, InvFacts DEF Live
<1>3. \A t \in Tokens : Live[t] = IF bin[t] = None \/ t \in torn THEN None ELSE side[t]
  BY DEF Live, Readable, StoreInv, IndexAgrees
<1>4. up => Live = records
  BY DEF Live
<1>5. Pinned \subseteq {t \in Tokens : Live[t] # None}
  BY <1>4 DEF Pinned, StoreInv, PinsOnTracked
<1> QED
  BY <1>2, <1>3, <1>4, <1>5 DEF LiveOnDisk

\* A step of DurableStates, or of nothing it speaks of.
DurableStep == [Durable!Next]_(Durable!durableVars)

\* Saving, using and pinning are births and uses; letting go of a state that
\* is pinned once more changes nothing, nor do scratch files.
LEMMA SaveIsDurable ==
    ASSUME StoreInv, LiveOnDisk, LiveOnDisk'
    PROVE  /\ \A f \in Scratch : SaveScratch(f) \/ DropScratch(f) => DurableStep
           /\ \A f \in Scratch, t \in Tokens, i \in Items : Put(f, t, i) => DurableStep
           /\ \A t \in Tokens : Resolve(t) \/ ResolveAndPin(t) \/ Unpin(t) => DurableStep
           /\ \A p \in Tokens, f \in Scratch, t \in Tokens : CreateChild(p, f, t) => DurableStep
<1>1. ASSUME NEW f \in Scratch, SaveScratch(f) \/ DropScratch(f)
      PROVE  DurableStep
  <2>1. UNCHANGED <<up, Live, Pinned, issued>>
    BY <1>1 DEF SaveScratch, DropScratch, Live, Readable, Pinned
  <2> QED
    BY <2>1 DEF DurableStep, Durable!durableVars
<1>2. ASSUME NEW f \in Scratch, NEW t \in Tokens, NEW i \in Items, Put(f, t, i)
      PROVE  DurableStep
  <2>1. /\ up /\ up' /\ t \notin issued /\ issued' = issued \cup {t} /\ Pinned' = Pinned
        /\ records' = Entered(records, t, i) /\ Live = records /\ Live' = records'
    BY <1>2 DEF Put, MoveToStore, LiveOnDisk, Pinned
  <2>2. /\ Live'[t] = [item |-> i, age |-> 0]
        /\ \A x \in Tokens \ {t} : Live'[x] = Live[x]
    BY <2>1, EnteredFacts, InvFacts
  <2>3. Durable!Born(t, i, {})
    BY <2>1, <2>2 DEF Durable!Born, LiveOnDisk
  <2> QED
    BY <2>1, <2>3 DEF DurableStep, Durable!Next, Durable!Serve
<1>3. ASSUME NEW t \in Tokens, up, up', t \in Tracked, issued' = issued,
             records' = Accessed(records, t), Pinned' \in {Pinned, Pinned \cup {t}}
      PROVE  DurableStep
  <2>1. Live = records /\ Live' = Accessed(Live, t) /\ t \in Durable!Alive
    BY <1>3 DEF LiveOnDisk, Durable!Alive, Tracked
  <2>2. Durable!Used(t)
    BY <1>3, <2>1 DEF Durable!Used, Accessed
  <2> QED
    BY <1>3, <2>1, <2>2 DEF DurableStep, Durable!Next, Durable!Serve
<1>4. ASSUME NEW t \in Tokens, Resolve(t)
      PROVE  DurableStep
  BY <1>3, <1>4 DEF Resolve, Pinned
<1>5. ASSUME NEW t \in Tokens, ResolveAndPin(t)
      PROVE  DurableStep
  <2>1. /\ up /\ up' /\ t \in Tracked /\ issued' = issued /\ records' = Accessed(records, t)
        /\ pins' = [pins EXCEPT ![t] = pins[t] + 1]
    BY <1>5 DEF ResolveAndPin
  <2>2. Pinned' = Pinned \cup {t}
    BY <2>1, InvFacts DEF Pinned
  <2> QED
    BY <1>3, <2>1, <2>2
<1>6. ASSUME NEW t \in Tokens, Unpin(t)
      PROVE  DurableStep
  <2>1. /\ up /\ up' /\ Live' = Live /\ issued' = issued /\ pins[t] > 0
        /\ pins' = [pins EXCEPT ![t] = pins[t] - 1]
    BY <1>6 DEF Unpin, disk, Live, Readable
  <2>2. t \in Pinned
    BY <2>1 DEF Pinned
  <2>3. Pinned' \in {Pinned, Pinned \ {t}}
    BY <2>1, InvFacts DEF Pinned
  <2>4. CASE Pinned' = Pinned
    BY <2>1, <2>4 DEF DurableStep, Durable!durableVars
  <2>5. CASE Pinned' = Pinned \ {t}
    BY <2>1, <2>2, <2>5 DEF DurableStep, Durable!Next, Durable!Serve, Durable!LetGo
  <2> QED
    BY <2>3, <2>4, <2>5
<1>7. ASSUME NEW p \in Tokens, NEW f \in Scratch, NEW t \in Tokens, CreateChild(p, f, t)
      PROVE  DurableStep
  <2> DEFINE used == Accessed(records, p)
             i == records[p].item
  <2>1. /\ up /\ up' /\ t \notin issued /\ issued' = issued \cup {t} /\ Pinned' = Pinned
        /\ records' = Entered(used, t, i) /\ Live = records /\ Live' = records'
        /\ records[p] # None /\ i \in Items
    BY <1>7, InvFacts, RecordFacts DEF CreateChild, MoveToStore, LiveOnDisk, Tracked, Pinned
  <2>2. /\ used \in [Tokens -> Record \cup {None}]
        /\ used[p] = [Live[p] EXCEPT !.age = 0]
        /\ \A x \in Tokens \ {p} : used[x] = Live[x]
    BY <2>1, AccessedFacts, InvFacts
  <2> HIDE DEF used, i
  <2>3. /\ Live'[t] = [item |-> i, age |-> 0]
        /\ \A x \in Tokens \ {t} : Live'[x] = used[x]
    BY <2>1, <2>2, EnteredFacts
  <2>4. Durable!Born(t, i, {p})
    BY <2>1, <2>2, <2>3 DEF Durable!Born, LiveOnDisk
  <2>5. p \in Durable!Alive
    BY <2>1 DEF Durable!Alive
  <2> QED
    BY <2>1, <2>4, <2>5 DEF DurableStep, Durable!Next, Durable!Serve
<1> QED
  BY <1>1, <1>2, <1>4, <1>5, <1>6, <1>7

\* What a running server deletes, and why, is what DurableStates speaks of.
LEMMA SameReasons ==
    ASSUME StoreInv, LiveOnDisk, up
    PROVE  /\ Durable!Alive = Tracked
           /\ \A t \in Tracked : Durable!LastUse(t) = records[t].age
           /\ \A i \in Items : Durable!OfItem(i) = Owned(i)
           /\ Durable!Stale = Deletable(ExpiredTokens)
           /\ \A over \in OverBudget(Tracked \ Deletable(ExpiredTokens)) :
                  Durable!MakesRoom(over) /\ over \in SUBSET Durable!Alive
<1>1. Live = records /\ Durable!Alive = Tracked
  BY DEF LiveOnDisk, Durable!Alive, Tracked
<1>2. \A t \in Tracked : Durable!LastUse(t) = records[t].age
  BY <1>1 DEF Durable!LastUse
<1>3. \A i \in Items : Durable!OfItem(i) = Owned(i)
  BY <1>1 DEF Durable!OfItem, Owned
<1>4. Durable!Stale = Deletable(ExpiredTokens)
  BY <1>1, <1>2 DEF Durable!Stale, Deletable, ExpiredTokens, Expired
<1> DEFINE K == Tracked \ Deletable(ExpiredTokens)
<1>6. ASSUME NEW over \in OverBudget(K)
      PROVE  Durable!MakesRoom(over) /\ over \in SUBSET Durable!Alive
  <2>1. K \in SUBSET Tokens /\ K \subseteq Tracked
    BY DEF Tracked
  <2>2. over \subseteq K
    BY <1>6, <2>1, OverFacts
  <2>3. K = Durable!Alive \ Durable!Stale
    BY <1>1, <1>4
  <2> HIDE DEF K
  <2>4. CASE MaxBytes < 0 \/ Bytes(K) <= MaxBytes
    BY <1>1, <1>6, <2>1, <2>2, <2>3, <2>4 DEF OverBudget, Durable!MakesRoom
  <2>5. CASE ~(MaxBytes < 0 \/ Bytes(K) <= MaxBytes)
    <3>1. /\ Bytes(K \ over) <= MaxBytes
          /\ \A d \in over, k \in K \ over : records[d].age >= records[k].age
          /\ \E last \in over : /\ \A d \in over : records[d].age >= records[last].age
                                /\ Bytes((K \ over) \cup {last}) > MaxBytes
      BY <1>6, <2>5 DEF OverBudget
    <3>2. /\ \A d \in over, k \in K \ over : Durable!LastUse(d) >= Durable!LastUse(k)
          /\ \E last \in over : /\ \A d \in over : Durable!LastUse(d) >= Durable!LastUse(last)
                                /\ Bytes((K \ over) \cup {last}) > MaxBytes
      BY <1>2, <2>1, <2>2, <3>1
    <3> QED
      BY <1>1, <2>1, <2>2, <2>3, <2>5, <3>1, <3>2 DEF Durable!MakesRoom
  <2> QED
    BY <2>4, <2>5
<1> QED
  BY <1>1, <1>2, <1>3, <1>4, <1>6

\* Deletion and collection, while the server runs, take all that one of the two
\* reasons names.
LEMMA DeathIsDurable ==
    ASSUME StoreInv, LiveOnDisk, LiveOnDisk'
    PROVE  /\ \A i \in Items : DeleteItem(i) => DurableStep
           /\ Gc => DurableStep
<1>1. ASSUME NEW D \in SUBSET Durable!Alive, up, up', UNCHANGED <<Pinned, issued>>,
             records' = Without(records, D),
             \/ \E i \in Items : Durable!Deletable(i) /\ D = Durable!OfItem(i)
             \/ \E R \in SUBSET Durable!Alive :
                    Durable!MakesRoom(R) /\ D = (Durable!Stale \cup R) \ Pinned
      PROVE  DurableStep
  <2>1. Durable!Without(D)
    BY <1>1 DEF Durable!Without, Without, LiveOnDisk
  <2>2. Durable!Dead(D)
    BY <1>1, <2>1 DEF Durable!Dead
  <2> QED
    BY <1>1, <2>2 DEF DurableStep, Durable!Next, Durable!Serve
<1>2. ASSUME NEW i \in Items, DeleteItem(i)
      PROVE  DurableStep
  <2>1. /\ up /\ up' /\ Owned(i) \cap Pinned = {} /\ UNCHANGED <<Pinned, issued>>
        /\ records' = Without(records, Owned(i))
    BY <1>2 DEF DeleteItem, Pinned
  <2>2. /\ Durable!OfItem(i) = Owned(i) /\ Owned(i) \in SUBSET Durable!Alive
        /\ Durable!Deletable(i)
    BY <2>1, SameReasons DEF Owned, Durable!Deletable
  <2> QED
    BY <1>1, <2>1, <2>2
<1>3. CASE Gc
  <2>1. PICK over \in OverBudget(Tracked \ Deletable(ExpiredTokens)) :
           records' = Without(records, Deletable(ExpiredTokens \cup over))
    BY <1>3 DEF Gc
  <2>2. up /\ up' /\ UNCHANGED <<Pinned, issued>>
    BY <1>3 DEF Gc, Pinned
  <2>3. /\ Durable!MakesRoom(over) /\ over \in SUBSET Durable!Alive
        /\ Durable!Stale = Deletable(ExpiredTokens) /\ Durable!Alive = Tracked
    BY <2>2, SameReasons
  <2>4. Deletable(ExpiredTokens \cup over) = (Durable!Stale \cup over) \ Pinned
    BY <2>3 DEF Deletable
  <2>5. Deletable(ExpiredTokens \cup over) \in SUBSET Durable!Alive
    BY <2>3, <2>4 DEF Deletable, ExpiredTokens
  <2> QED
    BY <1>1, <2>1, <2>2, <2>3, <2>4, <2>5
<1> QED
  BY <1>2, <1>3

\* What a kill finds of a deletion is a part of it that the order allows.
LEMMA CutShortFacts ==
    ASSUME StoreInv, LiveOnDisk, up,
           NEW C \in SUBSET Tokens, NEW t \in Tokens, CrashInDelete(C, t)
    PROVE  Durable!CutShort(C \cup {t}) /\ C \cup {t} \in SUBSET Durable!Alive
<1> DEFINE D == C \cup {t}
<1>1. /\ Durable!Alive = Tracked /\ Durable!Stale = Deletable(ExpiredTokens)
      /\ \A i \in Items : Durable!OfItem(i) = Owned(i)
      /\ \A x \in Tracked : Durable!LastUse(x) = records[x].age
  BY SameReasons
<1>2. CASE \E i \in Items : Owned(i) \cap Pinned = {} /\ D \subseteq Owned(i)
  <2>1. PICK i \in Items : Owned(i) \cap Pinned = {} /\ D \subseteq Owned(i)
    BY <1>2
  <2>2. Durable!Deletable(i) /\ D \subseteq Durable!OfItem(i)
    BY <1>1, <2>1 DEF Durable!Deletable
  <2>3. D \in SUBSET Durable!Alive
    BY <1>1, <2>1 DEF Owned
  <2> HIDE DEF D
  <2>4. Durable!CutShort(D)
    BY <2>2 DEF Durable!CutShort
  <2> QED
    BY <2>3, <2>4 DEF D
<1>3. CASE D \subseteq Deletable(ExpiredTokens)
  <2>1. D \subseteq Durable!Stale /\ D \in SUBSET Durable!Alive
    BY <1>1, <1>3 DEF Deletable, ExpiredTokens
  <2> HIDE DEF D
  <2>2. Durable!CutShort(D)
    BY <2>1 DEF Durable!CutShort
  <2> QED
    BY <2>1, <2>2 DEF D
<1>4. ASSUME NEW over \in OverBudget(Tracked \ Deletable(ExpiredTokens)),
             Deletable(ExpiredTokens) \subseteq C,
             D \subseteq Deletable(ExpiredTokens \cup over),
             \A d \in D, k \in Deletable(over) \ C : records[d].age >= records[k].age
      PROVE  Durable!CutShort(D) /\ D \in SUBSET Durable!Alive
  <2>1. Durable!MakesRoom(over) /\ over \in SUBSET Durable!Alive
    BY SameReasons
  <2>2. /\ Durable!Stale \subseteq D /\ D \subseteq (Durable!Stale \cup over) \ Pinned
        /\ D \in SUBSET Durable!Alive
    BY <1>1, <1>4, <2>1 DEF Deletable, ExpiredTokens
  <2>3. \A d \in D, r \in over \ (Pinned \cup D) : records[d].age >= records[r].age
    BY <1>4 DEF Deletable
  <2>4. \A d \in D, r \in over \ (Pinned \cup D) : Durable!LastUse(d) >= Durable!LastUse(r)
    BY <1>1, <2>1, <2>2, <2>3
  <2> HIDE DEF D
  <2> QED
    BY <2>1, <2>2, <2>4 DEF Durable!CutShort
<1> QED
  BY <1>2, <1>3, <1>4 DEF CrashInDelete

\* A kill loses what it finds half deleted or the one state it finds in use.
LEMMA KillIsDurable ==
    ASSUME StoreInv, LiveOnDisk, LiveOnDisk'
    PROVE  /\ Stop => DurableStep
           /\ \A f \in Scratch, t \in Tokens, i \in Items : CrashInPut(f, t, i) => DurableStep
           /\ \A t \in Tokens : CrashInResolve(t) => DurableStep
           /\ \A D \in SUBSET Tokens, t \in Tokens : CrashInDelete(D, t) => DurableStep
<1>1. ASSUME NEW D \in SUBSET Durable!Alive, Off,
             Durable!CutShort(D) \/ Durable!LostInUse(D),
             \A t \in Tokens : Live'[t] = IF t \in D THEN None ELSE Live[t],
             issued' = issued \/ (D = {} /\ \E t \in Tokens : issued' = issued \cup {t})
      PROVE  DurableStep
  <2>1. Durable!Without(D)
    BY <1>1 DEF Durable!Without, LiveOnDisk
  <2>2. up /\ ~up' /\ Pinned' = {}
    BY <1>1, OffFacts DEF Pinned
  <2>3. Durable!Killed(D)
    BY <1>1, <2>1, <2>2 DEF Durable!Killed
  <2> QED
    BY <2>2, <2>3 DEF DurableStep, Durable!Next
<1>2. ASSUME Off, issued' = issued \/ (\E t \in Tokens : issued' = issued \cup {t}),
             \A t \in Tokens : Live'[t] = Live[t]
      PROVE  DurableStep
  <2> DEFINE D == {}
  <2>1. Durable!CutShort(D) /\ D \in SUBSET Durable!Alive
    BY DEF Durable!CutShort
  <2>2. \A t \in Tokens : Live'[t] = IF t \in D THEN None ELSE Live[t]
    BY <1>2
  <2>3. issued' = issued \/ (D = {} /\ \E t \in Tokens : issued' = issued \cup {t})
    BY <1>2
  <2> HIDE DEF D
  <2> QED
    BY <1>1, <1>2, <2>1, <2>2, <2>3
<1>3. ASSUME Stop
      PROVE  DurableStep
  <2>1. Off /\ issued' = issued /\ \A t \in Tokens : Live'[t] = Live[t]
    BY <1>3 DEF Stop, disk, LiveOnDisk
  <2> QED
    BY <1>2, <2>1
<1>4. ASSUME NEW f \in Scratch, NEW t \in Tokens, NEW i \in Items, CrashInPut(f, t, i)
      PROVE  DurableStep
  <2>1. /\ t \notin issued /\ issued' = issued \cup {t} /\ Off
        /\ \A x \in Tokens \ {t} : bin'[x] = bin[x]
        /\ \/ UNCHANGED <<side, torn>>
           \/ side' = Entered(side, t, i) /\ torn' = torn \cup {t}
    BY <1>4, InvFacts DEF CrashInPut, MoveToStore
  <2>2. side[t] = None /\ bin[t] = None
    BY <2>1 DEF StoreInv, Fresh
  <2>3. CASE UNCHANGED <<side, torn>>
    <3>1. \A x \in Tokens : Live'[x] = Live[x]
      BY <2>1, <2>2, <2>3 DEF LiveOnDisk
    <3> QED
      BY <1>2, <2>1, <3>1
  <2>4. CASE side' = Entered(side, t, i) /\ torn' = torn \cup {t}
    <3>1. \A x \in Tokens \ {t} : side'[x] = side[x]
      BY <2>4, BothEntered, InvFacts
    <3>2. \A x \in Tokens : Live'[x] = Live[x]
      BY <2>1, <2>2, <2>4, <3>1 DEF LiveOnDisk
    <3> QED
      BY <1>2, <2>1, <3>2
  <2> QED
    BY <2>1, <2>3, <2>4
<1>5. ASSUME NEW t \in Tokens, CrashInResolve(t)
      PROVE  DurableStep
  <2>1. /\ Off /\ t \in Tracked /\ side' = Accessed(side, t) /\ torn' = torn \cup {t}
        /\ UNCHANGED <<issued, bin>> /\ side[t] # None
    BY <1>5, OffFacts, InvFacts DEF CrashInResolve, Tracked
  <2>2. \A x \in Tokens \ {t} : side'[x] = side[x]
    BY <2>1, BothAccessed, InvFacts
  <2>3. \A x \in Tokens : Live'[x] = IF x \in {t} THEN None ELSE Live[x]
    BY <2>1, <2>2 DEF LiveOnDisk
  <2>4. {t} \in SUBSET Durable!Alive /\ Durable!LostInUse({t})
    BY <2>1, OffFacts, SameReasons DEF Durable!LostInUse
  <2> QED
    BY <1>1, <2>1, <2>3, <2>4
<1>6. ASSUME NEW C \in SUBSET Tokens, NEW t \in Tokens, CrashInDelete(C, t)
      PROVE  DurableStep
  <2> DEFINE D == C \cup {t}
  <2>1. /\ Off /\ bin' = Without(bin, D) /\ side' = Without(side, C)
        /\ UNCHANGED <<issued, torn>>
    BY <1>6 DEF CrashInDelete
  <2>2. \A x \in Tokens : Live'[x] = IF x \in D THEN None ELSE Live[x]
    BY <2>1 DEF LiveOnDisk, Without
  <2>3. up
    BY <2>1, OffFacts
  <2>4. Durable!CutShort(D) /\ D \in SUBSET Durable!Alive
    BY <1>6, <2>3, CutShortFacts
  <2> HIDE DEF D
  <2> QED
    BY <1>1, <2>1, <2>2, <2>4
<1> QED
  BY <1>3, <1>4, <1>5, <1>6

\* A start changes nothing that lives; the clock ages it, whether a server runs
\* or not.
LEMMA LifeIsDurable ==
    ASSUME StoreInv, LiveOnDisk, LiveOnDisk'
    PROVE  Start \/ Tick => DurableStep
<1>1. ASSUME Start
      PROVE  DurableStep
  <2>1. \A t \in Tokens : Live'[t] = Live[t]
    BY <1>1 DEF Start, LiveOnDisk, Readable
  <2>2. ~up /\ up' /\ UNCHANGED <<Live, Pinned, issued>>
    BY <1>1, <2>1 DEF Start, LiveOnDisk, Pinned
  <2> QED
    BY <2>2 DEF DurableStep, Durable!Next
<1>2. ASSUME Tick
      PROVE  DurableStep
  <2>1. /\ side' = AgedTable(side) /\ bin' = AgedFiles(bin) /\ UNCHANGED <<issued, torn>>
        /\ UNCHANGED <<up, Pinned>>
    BY <1>2 DEF Tick, Pinned
  <2>2. \A x \in Tokens : side'[x] =
            IF side[x] = None THEN None ELSE [side[x] EXCEPT !.age = Aged(@)]
    BY <2>1, AgedFacts, InvFacts
  <2>3. \A x \in Tokens : bin'[x] = None <=> bin[x] = None
    BY <2>1, RecordFacts, InvFacts DEF AgedFiles
  <2>4. \A x \in Tokens : Live'[x] =
            IF Live[x] = None THEN None ELSE [Live[x] EXCEPT !.age = Aged(@)]
    BY <2>1, <2>2, <2>3 DEF LiveOnDisk
  <2>5. Durable!TimePasses
    BY <2>1, <2>4 DEF Durable!TimePasses, LiveOnDisk, Aged
  <2> QED
    BY <2>5 DEF DurableStep, Durable!Next
<1> QED
  BY <1>1, <1>2

\* Every action is a step of DurableStates or of nothing it speaks of.
LEMMA StepIsDurable ==
    StoreInv /\ StoreInv' /\ [Next]_vars => DurableStep
<1> SUFFICES ASSUME StoreInv, StoreInv', [Next]_vars
             PROVE  DurableStep
  OBVIOUS
<1>1. LiveOnDisk
  BY LiveFacts
<1>2. LiveOnDisk'
  BY LiveFacts, PTL
<1>3. CASE UNCHANGED vars
  BY <1>3 DEF vars, disk, Live, Readable, Pinned, DurableStep, Durable!durableVars
<1>4. CASE Next
  BY <1>1, <1>2, <1>4, SaveIsDurable, DeathIsDurable, KillIsDurable, LifeIsDurable DEF Next
<1> QED
  BY <1>3, <1>4

\* The store, with its files, kills and restarts, implements DurableStates: while
\* a server runs tokens die with all of their item, or in a whole collection that
\* takes the stale and then only as many of the least used as the budget asks
\* for; a kill leaves a part of that or loses one token in use, and no restart
\* loses or revives one (state_store.py:96-356).
THEOREM StoreImplementsDurable == Spec => DurableSpec
<1>1. Init => Durable!Init
  <2> SUFFICES ASSUME Init PROVE Durable!Init
    OBVIOUS
  <2>1. Live = [t \in Tokens |-> None] /\ Pinned = {}
    BY DEF Init, Live, Readable, Nothing, Pinned
  <2> QED
    BY <2>1 DEF Init, Durable!Init
<1>2. StoreInv /\ StoreInv' /\ [Next]_vars => [Durable!Next]_(Durable!durableVars)
  BY StepIsDurable DEF DurableStep
<1> QED
  BY <1>1, <1>2, StoreInvariant, PTL DEF Spec, DurableSpec, Durable!Spec

\* One step of a token's only life: once it was issued and is gone it stays away,
\* it keeps its item, and while a request holds it only a kill can end it.
OneLife(t) ==
    /\ t \in issued /\ Live[t] = None => t \in issued' /\ Live'[t] = None
    /\ Live[t] # None /\ Live'[t] # None => Live'[t].item = Live[t].item
    /\ t \in Pinned /\ Live'[t] = None => up /\ ~up'

\* A state lives once, for one item, and as long as a request holds it in a server
\* that lives: no restart, kill or collection brings back what was deleted, hands
\* it to another item or takes it from under a step (state_store.py:96-356).
THEOREM StatesLiveOnce == Spec => [][\A t \in Tokens : OneLife(t)]_vars
<1>1. ASSUME StoreInv, StoreInv', [Next]_vars, NEW t \in Tokens
      PROVE  OneLife(t)
  <2>1. LiveOnDisk
    BY <1>1, LiveFacts
  <2>2. Live[t] = None \/ (Live[t] \in Record /\ Live[t] # None /\ t \in issued)
    BY <1>1, <2>1, RecordFacts DEF StoreInv, Fresh, LiveOnDisk
  <2>3. t \in Pinned => Live[t] # None
    BY <2>1 DEF LiveOnDisk
  <2>4. [Durable!Next]_(Durable!durableVars)
    BY <1>1, StepIsDurable DEF DurableStep
  <2>5. CASE UNCHANGED Durable!durableVars
    BY <2>3, <2>5 DEF OneLife, Durable!durableVars
  <2>6. ASSUME NEW x \in Tokens, NEW i \in Items,
               NEW used \in {{}} \cup {{p} : p \in Durable!Alive}, Durable!Born(x, i, used)
        PROVE  OneLife(t)
    <3>1. t \in used => Live[t] # None
      BY <2>6 DEF Durable!Alive
    <3>2. /\ x \notin issued /\ issued' = issued \cup {x}
          /\ Live'[t] = IF t = x THEN [item |-> i, age |-> 0]
                        ELSE IF t \in used THEN [Live[t] EXCEPT !.age = 0] ELSE Live[t]
      BY <2>6 DEF Durable!Born
    <3>3. CASE t = x
      BY <2>2, <2>3, <3>2, <3>3, RecordFacts DEF OneLife
    <3>4. CASE t # x /\ t \in used
      <4>1. Live'[t] = [Live[t] EXCEPT !.age = 0] /\ Live[t] \in Record
        BY <2>2, <3>1, <3>2, <3>4
      <4>2. Live'[t] \in Record /\ Live'[t].item = Live[t].item
        BY <4>1, RecordFacts DEF Record
      <4> QED
        BY <3>1, <3>2, <3>4, <4>2, RecordFacts DEF OneLife
    <3>5. CASE t # x /\ t \notin used
      BY <2>3, <3>2, <3>5 DEF OneLife
    <3> QED
      BY <3>3, <3>4, <3>5
  <2>7. ASSUME NEW x \in Durable!Alive, Durable!Used(x) PROVE OneLife(t)
    BY <2>1, <2>2, <2>3, <2>7, RecordFacts DEF OneLife, Durable!Used, Durable!Alive, LiveOnDisk
  <2>8. ASSUME NEW D \in SUBSET Durable!Alive, Durable!Without(D), issued \subseteq issued',
               D \cap Pinned = {} \/ (up /\ ~up')
        PROVE  OneLife(t)
    <3>1. \A x \in Tokens : Live'[x] = IF x \in D THEN None ELSE Live[x]
      BY <2>8 DEF Durable!Without
    <3> QED
      BY <2>3, <2>8, <3>1 DEF OneLife
  <2>9. ASSUME Durable!TimePasses PROVE OneLife(t)
    <3>1. /\ issued' = issued
          /\ Live'[t] = IF Live[t] = None THEN None
                        ELSE [Live[t] EXCEPT !.age = IF @ > Ttl THEN @ ELSE @ + 1]
      BY <2>9 DEF Durable!TimePasses
    <3>2. CASE Live[t] = None
      BY <2>3, <3>1, <3>2 DEF OneLife
    <3>3. CASE Live[t] # None
      <4>1. /\ Live'[t] = [Live[t] EXCEPT !.age = Aged(@)]
            /\ Live[t] \in Record
        BY <2>2, <3>1, <3>3 DEF Aged
      <4>2. Live'[t] \in Record /\ Live'[t].item = Live[t].item
        BY <4>1, RecordFacts DEF Record
      <4> QED
        BY <3>1, <3>3, <4>2, RecordFacts DEF OneLife
    <3> QED
      BY <3>2, <3>3
  <2>10. ASSUME Live' = Live, issued \subseteq issued' PROVE OneLife(t)
    BY <2>2, <2>3, <2>10 DEF OneLife
  <2>11. ASSUME NEW D \in SUBSET Durable!Alive, Durable!Dead(D) PROVE OneLife(t)
    BY <2>8, <2>11 DEF Durable!Dead, Durable!Deletable
  <2>12. ASSUME NEW D \in SUBSET Durable!Alive, Durable!Killed(D), up, ~up' PROVE OneLife(t)
    BY <2>8, <2>12 DEF Durable!Killed
  <2>13. CASE Durable!Serve
    BY <2>6, <2>7, <2>10, <2>11, <2>13 DEF Durable!Serve, Durable!LetGo
  <2> QED
    BY <2>4, <2>5, <2>9, <2>10, <2>12, <2>13 DEF Durable!Next
<1>2. StoreInv /\ StoreInv' /\ [Next]_vars => [\A t \in Tokens : OneLife(t)]_vars
  BY <1>1
<1> QED
  BY <1>2, StoreInvariant, PTL DEF Spec
=============================================================================
