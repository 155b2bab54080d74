-------------------------- MODULE ExecItemsProofs --------------------------
(***************************************************************************)
(* Proofs about the exec routes, for any number of items, tokens and       *)
(* requests, any batch size and any number of lanes.  The shape of the     *)
(* state (Shaped) is inductive on its own; what is promised about cleanup, *)
(* cancel, pins and the lifecycle protocol follows from it step by step.   *)
(***************************************************************************)
EXTENDS ExecItems, FiniteSetTheorems, TLAPS

\* An operation that is under way names its item; a slot that began names the
\* token it resolved, which stays its item's or goes away and is not issued
\* again; an idle request has no items.
SlotsAgree ==
    /\ \A c \in Creates : create[c].item = None <=> create[c].pc = "idle"
    /\ \A b \in Batches, s \in Slots :
          /\ slot[b][s].item = None <=> slot[b][s].token = None
          /\ slot[b][s].item = None => slot[b][s].pc = "done"
          /\ slot[b][s].item # None =>
                /\ slot[b][s].token \in issued
                /\ owner[slot[b][s].token] \in {slot[b][s].item, None}
          /\ batch[b] = "idle" => slot[b][s].item = None

Shaped == TypeOK /\ SlotsAgree

---------------------------------------------------------------------------
\* Facts about the operators.

\* Every method of the registry returns a registry (exec_lifecycle.py:77-144).
LEMMA RegistryTypes ==
    ASSUME NEW r \in [Items -> LifecycleRecord], NEW calls \in [Items -> Nat]
    PROVE  /\ Swept(r) \in [Items -> LifecycleRecord]
           /\ Begun(r, calls) \in [Items -> LifecycleRecord]
           /\ Finished(r, calls) \in [Items -> LifecycleRecord]
           /\ \A i \in Items : /\ Cancelled(r, i) \in [Items -> LifecycleRecord]
                               /\ Cleaned(r, i) \in [Items -> LifecycleRecord]
<1>1. /\ NoRecord \in LifecycleRecord
      /\ \A status \in RefusingStatuses : Terminal(status) \in LifecycleRecord
  BY DEF NoRecord, Terminal, LifecycleRecord
<1>2. Swept(r) \in [Items -> LifecycleRecord]
  BY <1>1 DEF Swept
<1>3. Begun(r, calls) \in [Items -> LifecycleRecord]
  BY <1>2 DEF Begun, LifecycleRecord
<1>4. Finished(r, calls) \in [Items -> LifecycleRecord]
  BY <1>1 DEF Finished, LifecycleRecord, RefusingStatuses
<1>5. ASSUME NEW i \in Items
      PROVE  /\ Cancelled(r, i) \in [Items -> LifecycleRecord]
             /\ Cleaned(r, i) \in [Items -> LifecycleRecord]
  BY <1>1, <1>2 DEF Cancelled, Cleaned, LifecycleRecord, RefusingStatuses
<1> QED
  BY <1>2, <1>3, <1>4, <1>5

\* A set of positions of a batch has at most BatchSize elements.
LEMMA PositionsFinite ==
    \A S \in SUBSET Slots :
        IsFiniteSet(S) /\ Cardinality(S) \in Nat /\ Cardinality(S) <= BatchSize
<1>1. BatchSize \in Nat /\ BatchSize > 0
  BY ItemsAssumption
<1>2. IsFiniteSet(Slots) /\ Cardinality(Slots) = BatchSize
  BY <1>1, FS_Interval DEF Slots
<1> SUFFICES ASSUME NEW S \in SUBSET Slots
             PROVE  IsFiniteSet(S) /\ Cardinality(S) \in Nat /\ Cardinality(S) <= BatchSize
  OBVIOUS
<1>3. IsFiniteSet(S) /\ Cardinality(S) <= BatchSize
  BY <1>2, FS_Subset
<1> QED
  BY <1>3, FS_CardinalityType

\* The lane of an item that runs is a lane of the request (exec_backend_utils.py:33-65).
LEMMA LaneType ==
    ASSUME Shaped, NEW b \in Batches, NEW s \in Slots, slot[b][s].item # None
    PROVE  Lane(b, s) \in Lanes
<1> DEFINE before == {r \in Slots : r < s /\ Ran(b, r)
                          /\ Profile[slot[b][r].item] = Profile[slot[b][s].item]}
<1>1. Cardinality(before) \in Nat
  BY PositionsFinite
<1>2. slot[b][s].item \in Items
  BY DEF Shaped, TypeOK, SlotOps
<1>3. MaxLanes \in Nat /\ MaxLanes > 0
  BY ItemsAssumption
<1>4. Cardinality(before) % MaxLanes \in 0..(MaxLanes - 1)
  BY <1>1, <1>3
<1> QED
  BY <1>2, <1>4 DEF Lane, Lanes

---------------------------------------------------------------------------
\* Shaped is inductive.

\* A create operation keeps the shape of the state (routers/exec.py:105-205).
LEMMA CreateKeepsShape ==
    ASSUME Shaped, NEW c \in Creates,
           (\E i \in Items : CreateBegin(c, i)) \/ CreateStep(c)
    PROVE  Shaped'
<1> USE IdsAssumption DEF Shaped, TypeOK, SlotsAgree, StoreTypeOK, CreateOps, SlotOps
<1>0. \A i \in Items : Calls(i, 1) \in [Items -> Nat]
  BY DEF Calls
<1>1. ASSUME CreateEnds(c), create[c].pc # "idle"
      PROVE  /\ records' \in [Items -> LifecycleRecord]
             /\ create' \in [Creates -> CreateOps]
             /\ \A d \in Creates : create'[d].item = None <=> create'[d].pc = "idle"
             /\ UNCHANGED <<pins, batch, slot, leases>>
  BY <1>0, <1>1, RegistryTypes DEF CreateEnds
<1>2. ASSUME NEW i \in Items, CreateBegin(c, i)
      PROVE  Shaped'
  <2>1. records' \in [Items -> LifecycleRecord]
    BY <1>0, <1>2, RegistryTypes DEF CreateBegin
  <2>2. /\ create' \in [Creates -> CreateOps]
        /\ \A d \in Creates : create'[d].item = None <=> create'[d].pc = "idle"
    BY <1>2 DEF CreateBegin
  <2> QED
    BY <1>2, <2>1, <2>2 DEF CreateBegin, storeVars
<1>3. CASE CreateUnserved(c)
  BY <1>1, <1>3 DEF CreateUnserved
<1>4. CASE CreateLeased(c)
  <2>1. CASE ShouldCancel(records, create[c].item)
    BY <1>1, <1>4, <2>1 DEF CreateLeased
  <2>2. CASE ~ShouldCancel(records, create[c].item)
    <3>1. /\ create' = [create EXCEPT ![c].pc = "creating"]
          /\ create[c].pc = "acquiring"
          /\ UNCHANGED <<records, owner, issued, pins, batch, slot, leases>>
      BY <1>4, <2>2 DEF CreateLeased, storeVars
    <3>2. /\ create' \in [Creates -> CreateOps]
          /\ \A d \in Creates : create'[d].item = None <=> create'[d].pc = "idle"
      BY <3>1
    <3> QED
      BY <3>1, <3>2
  <2> QED
    BY <2>1, <2>2
<1>5. ASSUME NEW T \in ResultSets, CreateReturns(c, T)
      PROVE  Shaped'
  <2>1. CASE ShouldCancel(records, create[c].item)
    BY <1>1, <1>5, <2>1 DEF CreateReturns
  <2>2. CASE ~ShouldCancel(records, create[c].item)
    <3>1. /\ Put(T, create[c].item)
          /\ create[c].item \in Items
      BY <1>5, <2>2 DEF CreateReturns
    <3>2. /\ owner' \in [Tokens -> Items \cup {None}]
          /\ issued' \subseteq Tokens
          /\ \A t \in Tokens \ issued' : owner'[t] = None
          /\ issued \subseteq issued'
          /\ \A t \in issued : owner'[t] = owner[t]
      BY <3>1 DEF Put
    <3> QED
      BY <1>1, <1>5, <3>2 DEF CreateReturns
  <2> QED
    BY <2>1, <2>2
<1> QED
  BY <1>2, <1>3, <1>4, <1>5 DEF CreateStep

\* The loop before the try pins and begins only items that exist
\* (exec_backends.py:131-148).
LEMMA LoopKeepsShape ==
    ASSUME Shaped, NEW b \in Batches, NEW f \in [Slots -> Tokens],
           NEW n \in 1..(BatchSize + 1), BatchLoop(b, f, n)
    PROVE  /\ records' \in [Items -> LifecycleRecord]
           /\ pins' \in [Tokens -> Nat]
           /\ slot' \in [Batches -> [Slots -> SlotOps]]
           /\ \A x \in Batches, s \in Slots : x # b => slot'[x][s] = slot[x][s]
           /\ \A s \in Slots :
                 slot'[b][s] = IF s < n /\ Begins(f, s)
                               THEN [pc |-> "queued", token |-> f[s], item |-> owner[f[s]]]
                               ELSE NoSlot
<1> DEFINE asked  == [i \in Items |->
                        Cardinality({s \in Slots : s < n /\ Resolves(f, s) /\ owner[f[s]] = i})]
           pinned == [t \in Tokens |->
                        Cardinality({s \in Slots : s < n /\ Begins(f, s) /\ f[s] = t})]
<1>1. asked \in [Items -> Nat] /\ pinned \in [Tokens -> Nat]
  BY PositionsFinite
<1>2. records' = Begun(records, asked) /\ pins' = PinsAdded(pinned)
  BY DEF BatchLoop
<1>3. records' \in [Items -> LifecycleRecord]
  <2> HIDE DEF asked
  <2> QED
    BY <1>1, <1>2, RegistryTypes DEF Shaped, TypeOK
<1>4. pins' \in [Tokens -> Nat]
  <2> HIDE DEF pinned
  <2> QED
    BY <1>1, <1>2 DEF PinsAdded, Shaped, TypeOK, StoreTypeOK
<1>5. \A s \in Slots : Begins(f, s) => owner[f[s]] \in Items
  BY DEF Begins, Resolves, Present, Shaped, TypeOK, StoreTypeOK
<1>6. slot' = [slot EXCEPT ![b] = [s \in Slots |->
                 IF s < n /\ Begins(f, s)
                 THEN [pc |-> "queued", token |-> f[s], item |-> owner[f[s]]]
                 ELSE NoSlot]]
  BY DEF BatchLoop
<1> QED
  BY <1>3, <1>4, <1>5, <1>6 DEF Shaped, TypeOK, SlotOps, NoSlot

\* Taking a batch in keeps the shape of the state (exec_backends.py:127-149).
LEMMA BatchBeginKeepsShape ==
    ASSUME Shaped, NEW b \in Batches, NEW f \in [Slots -> Tokens],
           BatchBegin(b, f) \/ \E n \in Slots : BatchAborts(b, f, n)
    PROVE  Shaped'
<1>1. PICK n \in 1..(BatchSize + 1) :
        /\ BatchLoop(b, f, n)
        /\ batch' \in {[batch EXCEPT ![b] = "running"], [batch EXCEPT ![b] = "aborted"]}
        /\ UNCHANGED <<owner, issued, create, leases>>
  BY ItemsAssumption DEF BatchBegin, BatchAborts, Slots
<1>2. /\ records' \in [Items -> LifecycleRecord]
      /\ pins' \in [Tokens -> Nat]
      /\ slot' \in [Batches -> [Slots -> SlotOps]]
      /\ \A x \in Batches, s \in Slots : x # b => slot'[x][s] = slot[x][s]
      /\ \A s \in Slots :
            slot'[b][s] = IF s < n /\ Begins(f, s)
                          THEN [pc |-> "queued", token |-> f[s], item |-> owner[f[s]]]
                          ELSE NoSlot
  BY <1>1, LoopKeepsShape
<1>3. TypeOK'
  BY <1>1, <1>2 DEF Shaped, TypeOK, StoreTypeOK, BatchPCs
<1>4. SlotsAgree'
  <2>1. \A s \in Slots : Begins(f, s) => /\ owner[f[s]] \in Items
                                         /\ f[s] \in issued
                                         /\ f[s] # None
    BY IdsAssumption DEF Begins, Resolves, Present, Shaped, TypeOK, StoreTypeOK
  <2>2. ASSUME NEW s \in Slots
        PROVE  /\ slot'[b][s].item = None <=> slot'[b][s].token = None
               /\ slot'[b][s].item = None => slot'[b][s].pc = "done"
               /\ slot'[b][s].item # None =>
                     /\ slot'[b][s].token \in issued
                     /\ owner[slot'[b][s].token] \in {slot'[b][s].item, None}
    <3>1. CASE s < n /\ Begins(f, s)
      <4>1. slot'[b][s] = [pc |-> "queued", token |-> f[s], item |-> owner[f[s]]]
        BY <1>2, <3>1
      <4> QED
        BY <2>1, <3>1, <4>1, IdsAssumption
    <3>2. CASE ~(s < n /\ Begins(f, s))
      <4>1. slot'[b][s] = NoSlot
        BY <1>2, <3>2
      <4> QED
        BY <4>1 DEF NoSlot
    <3> QED
      BY <3>1, <3>2
  <2>3. batch'[b] # "idle" /\ \A x \in Batches : x # b => batch'[x] = batch[x]
    BY <1>1 DEF Shaped, TypeOK
  <2> QED
    BY <1>1, <1>2, <2>2, <2>3 DEF Shaped, SlotsAgree
<1> QED
  BY <1>3, <1>4 DEF Shaped

\* What a step may do to the store, the slots and the requests without
\* disturbing the shape of the state.
LEMMA KeptShape ==
    ASSUME Shaped, UNCHANGED <<records, pins, create>>,
           owner' \in [Tokens -> Items \cup {None}],
           issued' \subseteq Tokens, issued \subseteq issued',
           \A t \in Tokens \ issued' : owner'[t] = None,
           \A t \in issued : owner'[t] = owner[t],
           leases' \in [Batches -> SUBSET Lanes],
           batch' \in [Batches -> BatchPCs],
           \A x \in Batches : batch'[x] = "idle" => batch[x] = "idle",
           slot' \in [Batches -> [Slots -> SlotOps]],
           \A x \in Batches, r \in Slots :
              /\ slot'[x][r].item = slot[x][r].item
              /\ slot'[x][r].token = slot[x][r].token
              /\ slot[x][r].item = None => slot'[x][r].pc = "done"
    PROVE  Shaped'
<1>1. TypeOK'
  BY DEF Shaped, TypeOK, StoreTypeOK
<1>2. SlotsAgree'
  BY DEF Shaped, SlotsAgree
<1> QED
  BY <1>1, <1>2 DEF Shaped

\* Moving one item of a batch on leaves the others where they are.
LEMMA SlotMoves ==
    ASSUME Shaped, NEW b \in Batches, NEW s \in Slots,
           NEW to \in {"done", "acquiring", "stepping"},
           slot[b][s].pc # "done", SlotGoto(b, s, to)
    PROVE  /\ slot[b][s].item \in Items
           /\ slot[b][s].token \in issued
           /\ owner[slot[b][s].token] \in {slot[b][s].item, None}
           /\ slot' \in [Batches -> [Slots -> SlotOps]]
           /\ \A x \in Batches, r \in Slots :
                 /\ slot'[x][r].item = slot[x][r].item
                 /\ slot'[x][r].token = slot[x][r].token
                 /\ slot[x][r].item = None => slot'[x][r].pc = "done"
                 /\ slot'[x][r].pc = IF x = b /\ r = s THEN to ELSE slot[x][r].pc
<1> DEFINE moved == [slot[b][s] EXCEPT !.pc = to]
           row   == [slot[b] EXCEPT ![s] = moved]
<1>0. slot \in [Batches -> [Slots -> SlotOps]]
  BY DEF Shaped, TypeOK
<1>1. /\ slot[b][s] \in SlotOps
      /\ slot[b][s].item # None
      /\ slot[b][s].token \in issued
      /\ owner[slot[b][s].token] \in {slot[b][s].item, None}
  BY <1>0 DEF Shaped, SlotsAgree
<1>2. /\ moved \in SlotOps
      /\ moved.item = slot[b][s].item /\ moved.token = slot[b][s].token /\ moved.pc = to
  BY <1>1 DEF SlotOps
<1>3. slot' = [slot EXCEPT ![b] = row]
  BY <1>0 DEF SlotGoto
<1>4. \A x \in Batches, r \in Slots :
         slot'[x][r] = IF x = b /\ r = s THEN moved ELSE slot[x][r]
  BY <1>0, <1>3
<1>5. slot' \in [Batches -> [Slots -> SlotOps]]
  <2> HIDE DEF moved
  <2>1. row \in [Slots -> SlotOps]
    BY <1>0, <1>2
  <2> QED
    BY <1>0, <1>3, <2>1
<1>6. \A x \in Batches, r \in Slots : slot[x][r].item = None => slot[x][r].pc = "done"
  BY DEF Shaped, SlotsAgree
<1> HIDE DEF moved, row
<1>7. slot[b][s].item \in Items
  BY <1>1 DEF SlotOps
<1> QED
  BY <1>1, <1>2, <1>4, <1>5, <1>6, <1>7

\* A step of a lane keeps the shape of the state (exec_backends.py:208-300).
LEMMA LaneKeepsShape ==
    ASSUME Shaped, NEW b \in Batches, NEW s \in Slots, LaneStep(b, s)
    PROVE  Shaped'
<1>0. /\ slot \in [Batches -> [Slots -> SlotOps]]
      /\ leases \in [Batches -> SUBSET Lanes]
      /\ batch \in [Batches -> BatchPCs]
      /\ owner \in [Tokens -> Items \cup {None}]
      /\ issued \subseteq Tokens
      /\ \A t \in Tokens \ issued : owner[t] = None
  BY DEF Shaped, TypeOK, StoreTypeOK
<1>1. CASE SlotStarts(b, s)
  <2>1. \E to \in {"done", "acquiring", "stepping"} : SlotGoto(b, s, to)
    BY <1>1 DEF SlotStarts
  <2>2. slot[b][s].pc # "done"
    BY <1>1 DEF SlotStarts, LaneTurn
  <2>3. UNCHANGED <<records, owner, issued, pins, create, batch, leases>>
    BY <1>1 DEF SlotStarts, storeVars
  <2> QED
    BY <1>0, <2>1, <2>2, <2>3, SlotMoves, KeptShape
<1>2. CASE SlotLeased(b, s)
  <2>1. \E to \in {"done", "acquiring", "stepping"} : SlotGoto(b, s, to)
    BY <1>2 DEF SlotLeased
  <2>2. slot[b][s].pc # "done"
    BY <1>2 DEF SlotLeased
  <2>3. slot[b][s].item # None
    BY <2>2 DEF Shaped, SlotsAgree
  <2>4. leases' \in [Batches -> SUBSET Lanes]
    BY <1>0, <1>2, <2>3, LaneType DEF SlotLeased
  <2>5. UNCHANGED <<records, owner, issued, pins, create, batch>>
    BY <1>2 DEF SlotLeased, storeVars
  <2> QED
    BY <1>0, <2>1, <2>2, <2>4, <2>5, SlotMoves, KeptShape
<1>3. CASE SlotOverloaded(b, s)
  <2>1. SlotGoto(b, s, "done") /\ slot[b][s].pc # "done"
    BY <1>3 DEF SlotOverloaded
  <2>2. UNCHANGED <<records, owner, issued, pins, create, batch, leases>>
    BY <1>3 DEF SlotOverloaded, storeVars
  <2> QED
    BY <1>0, <2>1, <2>2, SlotMoves, KeptShape
<1>4. CASE LaneRaises(b, s)
  <2> DEFINE row == [r \in Slots |->
                       IF r \in InLane(b, Lane(b, s)) THEN [slot[b][r] EXCEPT !.pc = "done"]
                       ELSE slot[b][r]]
  <2>1. slot' = [slot EXCEPT ![b] = row]
    BY <1>4 DEF LaneRaises
  <2>2. ASSUME NEW r \in Slots
        PROVE  /\ row[r] \in SlotOps
               /\ row[r].item = slot[b][r].item
               /\ row[r].token = slot[b][r].token
               /\ row[r].pc \in {slot[b][r].pc, "done"}
    <3>1. slot[b][r] \in SlotOps
      BY <1>0
    <3>2. row[r] \in {slot[b][r], [slot[b][r] EXCEPT !.pc = "done"]}
      OBVIOUS
    <3> HIDE DEF row
    <3> QED
      BY <3>1, <3>2 DEF SlotOps
  <2>3. row \in [Slots -> SlotOps]
    BY <2>2
  <2> HIDE DEF row
  <2>4. \A x \in Batches, r \in Slots : slot[x][r].item = None => slot[x][r].pc = "done"
    BY DEF Shaped, SlotsAgree
  <2>5. /\ slot' \in [Batches -> [Slots -> SlotOps]]
        /\ \A x \in Batches, r \in Slots :
              /\ slot'[x][r].item = slot[x][r].item
              /\ slot'[x][r].token = slot[x][r].token
              /\ slot[x][r].item = None => slot'[x][r].pc = "done"
    BY <1>0, <2>1, <2>2, <2>3, <2>4
  <2>6. /\ batch' \in [Batches -> BatchPCs]
        /\ \A x \in Batches : batch'[x] = "idle" => batch[x] = "idle"
    BY <1>0, <1>4 DEF LaneRaises, BatchPCs
  <2>7. UNCHANGED <<records, owner, issued, pins, create, leases>>
    BY <1>4 DEF LaneRaises, storeVars
  <2> QED
    BY <1>0, <2>5, <2>6, <2>7, KeptShape
<1>5. ASSUME NEW T \in ResultSets, SlotReturns(b, s, T)
      PROVE  Shaped'
  <2>1. SlotGoto(b, s, "done") /\ slot[b][s].pc # "done"
    BY <1>5 DEF SlotReturns
  <2>2. leases' \in [Batches -> SUBSET Lanes] /\ UNCHANGED <<records, pins, create, batch>>
    BY <1>0, <1>5 DEF SlotReturns
  <2>3. /\ owner' \in [Tokens -> Items \cup {None}]
        /\ issued' \subseteq Tokens
        /\ \A t \in Tokens \ issued' : owner'[t] = None
        /\ issued \subseteq issued'
        /\ \A t \in issued : owner'[t] = owner[t]
    <3>1. CASE ~ShouldCancel(records, slot[b][s].item) /\ Present(slot[b][s].token)
      <4>1. Put(T, owner[slot[b][s].token])
        BY <1>5, <3>1 DEF SlotReturns
      <4>2. owner[slot[b][s].token] \in Items
        BY <1>0, <2>1, <3>1, SlotMoves DEF Present
      <4> QED
        BY <1>0, <4>1, <4>2 DEF Put
    <3>2. CASE ~(~ShouldCancel(records, slot[b][s].item) /\ Present(slot[b][s].token))
      BY <1>0, <1>5, <3>2 DEF SlotReturns
    <3> QED
      BY <3>1, <3>2
  <2> QED
    BY <1>0, <2>1, <2>2, <2>3, SlotMoves, KeptShape
<1> QED
  BY <1>1, <1>2, <1>3, <1>4, <1>5 DEF LaneStep

\* The end of a request keeps the shape of the state (exec_backends.py:158-181).
LEMMA BatchEndKeepsShape ==
    ASSUME Shaped, NEW b \in Batches, BatchStep(b)
    PROVE  Shaped'
<1>0. /\ slot \in [Batches -> [Slots -> SlotOps]]
      /\ leases \in [Batches -> SUBSET Lanes]
      /\ batch \in [Batches -> BatchPCs]
  BY DEF Shaped, TypeOK
<1>1. ASSUME BatchCloses(b)
      PROVE  records' \in [Items -> LifecycleRecord] /\ pins' \in [Tokens -> Nat]
  <2> DEFINE began  == [i \in Items |-> Cardinality({s \in Slots : slot[b][s].item = i})]
             pinned == [t \in Tokens |->
                          Cardinality({s \in Slots : Ran(b, s) /\ slot[b][s].token = t})]
  <2>1. began \in [Items -> Nat] /\ pinned \in [Tokens -> Nat]
    BY PositionsFinite
  <2>2. records' = Finished(records, began) /\ pins' = PinsRemoved(pinned)
    BY <1>1 DEF BatchCloses
  <2> HIDE DEF began, pinned
  <2>3. records' \in [Items -> LifecycleRecord]
    BY <2>1, <2>2, RegistryTypes DEF Shaped, TypeOK
  <2>4. pins' \in [Tokens -> Nat]
    BY <2>1, <2>2 DEF PinsRemoved, Shaped, TypeOK, StoreTypeOK
  <2> QED
    BY <2>3, <2>4
<1>2. ASSUME Forgotten(b)
      PROVE  /\ slot' \in [Batches -> [Slots -> SlotOps]]
             /\ leases' \in [Batches -> SUBSET Lanes]
             /\ \A s \in Slots : slot'[b][s] = NoSlot
             /\ \A x \in Batches, s \in Slots : x # b => slot'[x][s] = slot[x][s]
  BY <1>0, <1>2 DEF Forgotten, NoSlot, SlotOps
<1>3. ASSUME Forgotten(b), batch' = [batch EXCEPT ![b] = "idle"],
             UNCHANGED <<owner, issued, create>>,
             records' \in [Items -> LifecycleRecord], pins' \in [Tokens -> Nat]
      PROVE  Shaped'
  <2>1. TypeOK'
    BY <1>2, <1>3 DEF Shaped, TypeOK, StoreTypeOK, BatchPCs
  <2>2. \A x \in Batches : x # b => batch'[x] = batch[x]
    BY <1>0, <1>3
  <2>3. SlotsAgree'
    BY <1>2, <1>3, <2>2 DEF Shaped, SlotsAgree, NoSlot
  <2> QED
    BY <2>1, <2>3 DEF Shaped
<1>4. CASE BatchReturns(b)
  BY <1>1, <1>3, <1>4 DEF BatchReturns
<1>5. CASE BatchUnwinds(b)
  <2>1. /\ batch' \in [Batches -> BatchPCs]
        /\ \A x \in Batches : batch'[x] = "idle" => batch[x] = "idle"
    BY <1>0, <1>5 DEF BatchUnwinds, BatchPCs
  <2> QED
    BY <1>1, <1>5, <2>1 DEF BatchUnwinds, Shaped, TypeOK, StoreTypeOK, SlotsAgree
<1>6. CASE OrphansEnd(b)
  BY <1>3, <1>6 DEF OrphansEnd, storeVars, Shaped, TypeOK, StoreTypeOK
<1> QED
  BY <1>4, <1>5, <1>6 DEF BatchStep

\* Cancel, cleanup, statistics, expiry and garbage collection keep the shape of
\* the state (routers/exec.py:449-524, state_store.py:201-220).
LEMMA OthersKeepShape ==
    ASSUME Shaped,
           \/ \E i \in Items : Cancel(i) \/ Cleanup(i) \/ Expire(i)
           \/ Stats
           \/ \E T \in SUBSET Tokens : CollectGarbage(T)
    PROVE  Shaped'
<1>0. [i \in Items |-> 0] \in [Items -> Nat]
  OBVIOUS
<1>1. ASSUME records' \in [Items -> LifecycleRecord],
             UNCHANGED <<issued, pins, create, batch, slot, leases>>,
             owner' = owner \/ \E T \in SUBSET Tokens : owner' = Dropped(T)
      PROVE  Shaped'
  <2>1. /\ owner' \in [Tokens -> Items \cup {None}]
        /\ \A t \in Tokens : owner'[t] \in {owner[t], None}
    BY <1>1 DEF Dropped, Shaped, TypeOK, StoreTypeOK
  <2>2. TypeOK'
    BY <1>1, <2>1 DEF Shaped, TypeOK, StoreTypeOK
  <2>3. issued \subseteq Tokens
    BY DEF Shaped, TypeOK, StoreTypeOK
  <2>4. SlotsAgree'
    BY <1>1, <2>1, <2>3 DEF Shaped, SlotsAgree
  <2> QED
    BY <2>2, <2>4 DEF Shaped
<1>2. records \in [Items -> LifecycleRecord]
  BY DEF Shaped, TypeOK
<1>3. /\ Swept(records) \in [Items -> LifecycleRecord]
      /\ \A i \in Items : /\ Cancelled(records, i) \in [Items -> LifecycleRecord]
                          /\ Cleaned(Swept(records), i) \in [Items -> LifecycleRecord]
  BY <1>0, <1>2, RegistryTypes
<1>4. ASSUME NEW i \in Items, Cancel(i)
      PROVE  Shaped'
  BY <1>1, <1>3, <1>4 DEF Cancel, storeVars, routeVars
<1>5. ASSUME NEW i \in Items, Cleanup(i)
      PROVE  Shaped'
  <2>1. Owned(i) \in SUBSET Tokens
    BY DEF Owned
  <2> QED
    BY <1>1, <1>3, <1>5, <2>1 DEF Cleanup, routeVars
<1>6. ASSUME NEW i \in Items, Expire(i)
      PROVE  Shaped'
  <2>1. records' \in [Items -> LifecycleRecord]
    BY <1>2, <1>6 DEF Expire, LifecycleRecord
  <2> QED
    BY <1>1, <1>6, <2>1 DEF Expire, storeVars, routeVars
<1>7. CASE Stats
  BY <1>1, <1>3, <1>7 DEF Stats, storeVars, routeVars
<1>8. ASSUME NEW T \in SUBSET Tokens, CollectGarbage(T)
      PROVE  Shaped'
  BY <1>1, <1>2, <1>8 DEF CollectGarbage, Reclaim, routeVars
<1> QED
  BY <1>4, <1>5, <1>6, <1>7, <1>8

\* The shape of the state is an inductive invariant.
LEMMA ShapedStep ==
    ASSUME Shaped, [Next]_vars
    PROVE  Shaped'
<1>1. CASE UNCHANGED vars
  BY <1>1 DEF vars, Shaped, TypeOK, StoreTypeOK, SlotsAgree
<1> QED
  BY <1>1, CreateKeepsShape, BatchBeginKeepsShape, LaneKeepsShape, BatchEndKeepsShape,
     OthersKeepShape DEF Next

LEMMA ShapedInit == Init => Shaped
<1> SUFFICES ASSUME Init
             PROVE  Shaped
  OBVIOUS
<1>1. TypeOK
  BY IdsAssumption DEF Init, StoreInit, TypeOK, StoreTypeOK, NoRecord, LifecycleRecord,
     CreateOps, BatchPCs, SlotOps, NoSlot
<1>2. SlotsAgree
  BY DEF Init, SlotsAgree, NoSlot
<1> QED
  BY <1>1, <1>2 DEF Shaped

\* The shape of the state holds in every reachable state.
THEOREM ShapeInvariant == Spec => []Shaped
  BY ShapedInit, ShapedStep, PTL DEF Spec

\* The registry, the store and the requests keep their types whatever the
\* routes, the lanes and the garbage collector interleave.
THEOREM ExecTypeCorrect == Spec => []TypeOK
  BY ShapeInvariant, PTL DEF Shaped

---------------------------------------------------------------------------
\* Cleanup and cancel against commands that are still running.

\* No call but mark_cleaned() makes a record cleaned (exec_lifecycle.py:77-144).
LEMMA NeverCleanedByOthers ==
    ASSUME NEW r \in [Items -> LifecycleRecord], NEW calls \in [Items -> Nat], NEW i \in Items
    PROVE  /\ Swept(r)[i].status = "cleaned" => r[i].status = "cleaned"
           /\ Begun(r, calls)[i].status = "cleaned" => r[i].status = "cleaned"
           /\ Finished(r, calls)[i].status = "cleaned" => r[i].status = "cleaned"
           /\ \A j \in Items : Cancelled(r, j)[i].status = "cleaned" => r[i].status = "cleaned"
<1>1. Swept(r)[i].status = "cleaned" => r[i].status = "cleaned"
  BY DEF Swept, NoRecord
<1>2. Begun(r, calls)[i].status = "cleaned" => r[i].status = "cleaned"
  BY <1>1 DEF Begun
<1>3. Finished(r, calls)[i].status = "cleaned" => r[i].status = "cleaned"
  BY DEF Finished, Terminal
<1>4. ASSUME NEW j \in Items, Cancelled(r, j)[i].status = "cleaned"
      PROVE  r[i].status = "cleaned"
  <2>1. Swept(r) \in [Items -> LifecycleRecord]
    BY RegistryTypes
  <2> QED
    BY <1>1, <1>4, <2>1 DEF Cancelled, Terminal
<1> QED
  BY <1>1, <1>2, <1>3, <1>4

\* put() adds states to one item only.
LEMMA PutFacts ==
    ASSUME NEW T, NEW i, Put(T, i), NEW j \in Items, j # i
    PROVE  Owned(j)' \subseteq Owned(j)
  BY DEF Put, Owned

\* What a step does to the states of an item and to its "cleaned" mark.
LEMMA CommitStep ==
    ASSUME Shaped, [Next]_vars, NEW i \in Items
    PROVE  /\ ShouldCancel(records, i) => Owned(i)' \subseteq Owned(i)
           /\ records'[i].status = "cleaned" => records[i].status = "cleaned" \/ Owned(i)' = {}
<1> DEFINE Goal == /\ ShouldCancel(records, i) => Owned(i)' \subseteq Owned(i)
                   /\ records'[i].status = "cleaned" =>
                         records[i].status = "cleaned" \/ Owned(i)' = {}
<1>0. /\ records \in [Items -> LifecycleRecord]
      /\ owner \in [Tokens -> Items \cup {None}]
      /\ slot \in [Batches -> [Slots -> SlotOps]]
      /\ create \in [Creates -> CreateOps]
      /\ \A j \in Items : Calls(j, 1) \in [Items -> Nat]
  BY DEF Shaped, TypeOK, StoreTypeOK, Calls
<1>1. ASSUME UNCHANGED owner,
             records'[i].status = "cleaned" => records[i].status = "cleaned"
      PROVE  Goal
  BY <1>1 DEF Owned
<1>2. ASSUME NEW c \in Creates, NEW j \in Items, CreateBegin(c, j)
      PROVE  Goal
  BY <1>0, <1>1, <1>2, NeverCleanedByOthers DEF CreateBegin, storeVars
<1>3. ASSUME NEW c \in Creates, create[c].pc # "idle", CreateEnds(c)
      PROVE  records'[i].status = "cleaned" => records[i].status = "cleaned"
  <2>1. create[c].item \in Items
    BY <1>0, <1>3 DEF Shaped, SlotsAgree, CreateOps
  <2> QED
    BY <1>0, <1>3, <2>1, NeverCleanedByOthers DEF CreateEnds
<1>4. ASSUME NEW c \in Creates, CreateStep(c)
      PROVE  Goal
  <2>1. CASE CreateUnserved(c)
    BY <1>1, <1>3, <2>1 DEF CreateUnserved
  <2>2. CASE CreateLeased(c)
    BY <1>1, <1>3, <2>2 DEF CreateLeased, storeVars
  <2>3. ASSUME NEW T \in ResultSets, CreateReturns(c, T)
        PROVE  Goal
    <3>1. records'[i].status = "cleaned" => records[i].status = "cleaned"
      BY <1>3, <2>3 DEF CreateReturns
    <3>2. ShouldCancel(records, i) => Owned(i)' \subseteq Owned(i)
      <4>1. CASE ShouldCancel(records, create[c].item)
        BY <2>3, <4>1 DEF CreateReturns, Owned
      <4>2. CASE ~ShouldCancel(records, create[c].item)
        BY <2>3, <4>2, PutFacts DEF CreateReturns
      <4> QED
        BY <4>1, <4>2
    <3> QED
      BY <3>1, <3>2
  <2> QED
    BY <1>4, <2>1, <2>2, <2>3 DEF CreateStep
<1>5. ASSUME NEW b \in Batches, NEW f \in [Slots -> Tokens],
             BatchBegin(b, f) \/ \E n \in Slots : BatchAborts(b, f, n)
      PROVE  Goal
  <2>1. PICK n : BatchLoop(b, f, n) /\ UNCHANGED owner
    BY <1>5 DEF BatchBegin, BatchAborts
  <2> DEFINE asked == [k \in Items |->
                         Cardinality({s \in Slots : s < n /\ Resolves(f, s) /\ owner[f[s]] = k})]
  <2>2. asked \in [Items -> Nat]
    BY PositionsFinite
  <2>3. records' = Begun(records, asked)
    BY <2>1 DEF BatchLoop
  <2> HIDE DEF asked
  <2> QED
    BY <1>0, <1>1, <2>1, <2>2, <2>3, NeverCleanedByOthers
<1>6. ASSUME NEW b \in Batches, NEW s \in Slots, LaneStep(b, s)
      PROVE  Goal
  <2>1. CASE SlotStarts(b, s) \/ SlotLeased(b, s) \/ SlotOverloaded(b, s) \/ LaneRaises(b, s)
    BY <1>1, <2>1 DEF SlotStarts, SlotLeased, SlotOverloaded, LaneRaises, storeVars
  <2>2. ASSUME NEW T \in ResultSets, SlotReturns(b, s, T)
        PROVE  Goal
    <3>1. UNCHANGED records /\ slot[b][s].pc = "stepping"
      BY <2>2 DEF SlotReturns
    <3>2. CASE ~ShouldCancel(records, slot[b][s].item) /\ Present(slot[b][s].token)
      <4>1. owner[slot[b][s].token] = slot[b][s].item
        BY <3>1, <3>2 DEF Present, Shaped, SlotsAgree
      <4>2. Put(T, slot[b][s].item)
        BY <2>2, <3>2, <4>1 DEF SlotReturns
      <4> QED
        BY <3>1, <3>2, <4>2, PutFacts
    <3>3. CASE ~(~ShouldCancel(records, slot[b][s].item) /\ Present(slot[b][s].token))
      BY <1>1, <2>2, <3>1, <3>3 DEF SlotReturns
    <3> QED
      BY <3>2, <3>3
  <2> QED
    BY <1>6, <2>1, <2>2 DEF LaneStep
<1>7. ASSUME NEW b \in Batches, BatchStep(b)
      PROVE  Goal
  <2>1. ASSUME BatchCloses(b), UNCHANGED owner
        PROVE  Goal
    <3> DEFINE began == [k \in Items |-> Cardinality({s \in Slots : slot[b][s].item = k})]
    <3>1. began \in [Items -> Nat]
      BY PositionsFinite
    <3>2. records' = Finished(records, began)
      BY <2>1 DEF BatchCloses
    <3> HIDE DEF began
    <3> QED
      BY <1>0, <1>1, <2>1, <3>1, <3>2, NeverCleanedByOthers
  <2> QED
    BY <1>1, <1>7, <2>1 DEF BatchStep, BatchReturns, BatchUnwinds, OrphansEnd, storeVars
<1>8. ASSUME NEW j \in Items, Cancel(j) \/ Expire(j)
      PROVE  Goal
  <2>1. [k \in Items |-> 0] \in [Items -> Nat]
    OBVIOUS
  <2>2. UNCHANGED owner
    BY <1>8 DEF Cancel, Expire, storeVars
  <2>3. CASE Cancel(j)
    BY <1>0, <1>1, <2>1, <2>2, <2>3, NeverCleanedByOthers DEF Cancel
  <2>4. CASE Expire(j)
    <3>1. records'[i].status = records[i].status
      BY <1>0, <2>4 DEF Expire, LifecycleRecord
    <3> QED
      BY <1>1, <2>2, <3>1
  <2> QED
    BY <1>8, <2>3, <2>4
<1>9. CASE Stats
  <2>1. [k \in Items |-> 0] \in [Items -> Nat]
    OBVIOUS
  <2> QED
    BY <1>0, <1>1, <1>9, <2>1, NeverCleanedByOthers DEF Stats, storeVars
<1>10. ASSUME NEW j \in Items, Cleanup(j)
       PROVE  Goal
  <2>1. [k \in Items |-> 0] \in [Items -> Nat]
    OBVIOUS
  <2>2. Swept(records) \in [Items -> LifecycleRecord]
    BY <1>0, <2>1, RegistryTypes
  <2>3. Swept(records)[i].status = "cleaned" => records[i].status = "cleaned"
    BY <1>0, <2>1, NeverCleanedByOthers
  <2>4. CASE CleanupMayDelete(records, j) /\ MayDeleteAll(j)
    <3>1. /\ owner' = Dropped(Owned(j))
          /\ records' = Cleaned(Swept(records), j)
      BY <1>10, <2>4 DEF Cleanup
    <3>2. Owned(i)' \subseteq Owned(i)
      BY <3>1, IdsAssumption DEF Owned, Dropped
    <3>3. i = j => Owned(i)' = {}
      BY <3>1, IdsAssumption DEF Owned, Dropped
    <3>4. i # j => records'[i] = Swept(records)[i]
      BY <2>2, <3>1 DEF Cleaned
    <3> QED
      BY <2>3, <3>2, <3>3, <3>4
  <2>5. CASE ~(CleanupMayDelete(records, j) /\ MayDeleteAll(j))
    BY <1>1, <1>10, <2>3, <2>5 DEF Cleanup
  <2> QED
    BY <2>4, <2>5
<1>11. ASSUME NEW T \in SUBSET Tokens, CollectGarbage(T)
       PROVE  Goal
  BY <1>11, IdsAssumption DEF CollectGarbage, Reclaim, Owned, Dropped
<1>12. CASE UNCHANGED vars
  BY <1>1, <1>12 DEF vars
<1> QED
  BY <1>2, <1>4, <1>5, <1>6, <1>7, <1>8, <1>9, <1>10, <1>11, <1>12 DEF Next

\* No command that was running when an item was cancelled, drained or cleaned
\* registers a state of it (exec_backends.py:273-276, routers/exec.py:152-153).
THEOREM ExecCancelledCommitsNothing == Spec => CancelledCommitsNothing
<1>1. Shaped /\ [Next]_vars
        => [\A i \in Items : ShouldCancel(records, i) => Owned(i)' \subseteq Owned(i)]_vars
  BY CommitStep
<1> QED
  BY <1>1, ShapeInvariant, PTL DEF Spec, CancelledCommitsNothing

\* Once cleanup has reported an item deleted, the store has no state of it until
\* the record expires, whatever ran at the time (routers/exec.py:458-486).
THEOREM ExecCleanedIsEmpty == Spec => []CleanedIsEmpty
<1>1. Init => CleanedIsEmpty
  BY DEF Init, NoRecord, CleanedIsEmpty
<1>2. Shaped /\ CleanedIsEmpty /\ [Next]_vars => CleanedIsEmpty'
  <2> SUFFICES ASSUME Shaped, CleanedIsEmpty, [Next]_vars,
                      NEW i \in Items, records'[i].status = "cleaned"
               PROVE  Owned(i)' = {}
    BY DEF CleanedIsEmpty
  <2>1. records[i].status = "cleaned" \/ Owned(i)' = {}
    BY CommitStep
  <2>2. records[i].status = "cleaned" => Owned(i)' \subseteq Owned(i)
    BY CommitStep DEF ShouldCancel, RefusingStatuses
  <2> QED
    BY <2>1, <2>2 DEF CleanedIsEmpty
<1> QED
  BY <1>1, <1>2, ShapeInvariant, PTL DEF Spec

---------------------------------------------------------------------------
\* The brackets and the pins that are open, and how a step changes their number.

\* Any set of items of requests is finite.
LEMMA SlotSetsFinite ==
    \A S \in SUBSET (Batches \X Slots) : IsFiniteSet(S) /\ Cardinality(S) \in Nat
<1>1. IsFiniteSet(Batches \X Slots)
  BY ItemsAssumption, PositionsFinite, FS_Product
<1> QED
  BY <1>1, FS_Subset, FS_CardinalityType

\* Items of one request are counted by their positions.
LEMMA RowCount ==
    ASSUME NEW b \in Batches, NEW A \in SUBSET Slots
    PROVE  Cardinality({b} \X A) = Cardinality(A)
<1>1. IsFiniteSet({b}) /\ Cardinality({b}) = 1 /\ IsFiniteSet(A) /\ Cardinality(A) \in Nat
  BY FS_Singleton, PositionsFinite
<1> QED
  BY <1>1, FS_Product

\* The items of one request added to those of the others.
LEMMA RowAdded ==
    ASSUME NEW S \in SUBSET (Batches \X Slots), NEW b \in Batches, NEW A \in SUBSET Slots,
           \A s \in Slots : <<b, s>> \notin S
    PROVE  Cardinality(S \cup ({b} \X A)) = Cardinality(S) + Cardinality(A)
<1>1. {b} \X A \in SUBSET (Batches \X Slots) /\ S \cap ({b} \X A) = {}
  OBVIOUS
<1>2. /\ IsFiniteSet(S) /\ Cardinality(S) \in Nat
      /\ IsFiniteSet({b} \X A) /\ Cardinality({b} \X A) \in Nat
  BY <1>1, SlotSetsFinite
<1>3. Cardinality({b} \X A) = Cardinality(A)
  BY RowCount
<1> DEFINE row == {b} \X A
<1> HIDE DEF row
<1>4. Cardinality(S \cup row) = Cardinality(S) + Cardinality(row) - Cardinality(S \cap row)
  BY <1>2, FS_Union DEF row
<1>5. Cardinality(S \cap row) = 0
  BY <1>1, FS_EmptySet DEF row
<1> QED
  BY <1>2, <1>3, <1>4, <1>5 DEF row

\* The positions of a request that began item i, and those that pinned token t.
SlotsOf(b, i) == {s \in Slots : slot[b][s].item = i}
SlotsPinning(b, t) == {s \in Slots : Ran(b, s) /\ slot[b][s].token = t}

\* What is counted is finite.
LEMMA CountTypes ==
    /\ \A i \in Items : /\ OpenSlots(i) \in SUBSET (Batches \X Slots)
                        /\ IsFiniteSet(OpenCreates(i)) /\ OpenCreates(i) \subseteq Creates
                        /\ Cardinality(OpenCreates(i)) \in Nat
                        /\ Cardinality(OpenSlots(i)) \in Nat
                        /\ OpenBrackets(i) \in Nat
    /\ \A t \in Tokens : /\ PinningSlots(t) \in SUBSET (Batches \X Slots)
                         /\ Cardinality(PinningSlots(t)) \in Nat
<1>1. IsFiniteSet(Creates)
  BY ItemsAssumption
<1>2. ASSUME NEW i \in Items
      PROVE  /\ OpenSlots(i) \in SUBSET (Batches \X Slots)
             /\ IsFiniteSet(OpenCreates(i)) /\ OpenCreates(i) \subseteq Creates
             /\ Cardinality(OpenCreates(i)) \in Nat
             /\ Cardinality(OpenSlots(i)) \in Nat
  <2>1. OpenSlots(i) \in SUBSET (Batches \X Slots) /\ OpenCreates(i) \in SUBSET Creates
    BY DEF OpenSlots, OpenCreates
  <2> QED
    BY <1>1, <2>1, SlotSetsFinite, FS_Subset, FS_CardinalityType
<1>3. ASSUME NEW t \in Tokens
      PROVE  PinningSlots(t) \in SUBSET (Batches \X Slots)
  BY DEF PinningSlots
<1> QED
  BY <1>2, <1>3, SlotSetsFinite DEF OpenBrackets

\* A step that opens or closes no request leaves its counts alone.
LEMMA SlotsKept ==
    ASSUME \A x \in Batches, r \in Slots :
              /\ SlotOpen(x, r)' = SlotOpen(x, r)
              /\ SlotOpen(x, r) => /\ slot'[x][r].item = slot[x][r].item
                                   /\ slot'[x][r].token = slot[x][r].token
    PROVE  /\ \A i \in Items : OpenSlots(i)' = OpenSlots(i)
           /\ \A t \in Tokens : PinningSlots(t)' = PinningSlots(t)
    BY DEF OpenSlots, PinningSlots

\* A request that opens adds its items to the counts.
LEMMA SlotsOpened ==
    ASSUME NEW b \in Batches, \A s \in Slots : ~SlotOpen(b, s),
           batch'[b] \in {"running", "raised", "aborted"},
           \A x \in Batches, s \in Slots : x # b =>
              slot'[x][s] = slot[x][s] /\ batch'[x] = batch[x]
    PROVE  /\ \A i \in Items : OpenSlots(i)' = OpenSlots(i) \cup ({b} \X SlotsOf(b, i)')
           /\ \A i \in Items : Cardinality(OpenSlots(i)')
                                  = Cardinality(OpenSlots(i)) + Cardinality(SlotsOf(b, i)')
           /\ \A t \in Tokens : Cardinality(PinningSlots(t)')
                                  = Cardinality(PinningSlots(t)) + Cardinality(SlotsPinning(b, t)')
<1>1. ASSUME NEW i \in Items
      PROVE  /\ OpenSlots(i)' = OpenSlots(i) \cup ({b} \X SlotsOf(b, i)')
             /\ \A s \in Slots : <<b, s>> \notin OpenSlots(i)
  BY IdsAssumption DEF OpenSlots, SlotOpen, SlotsOf
<1>2. ASSUME NEW t \in Tokens
      PROVE  /\ PinningSlots(t)' = PinningSlots(t) \cup ({b} \X SlotsPinning(b, t)')
             /\ \A s \in Slots : <<b, s>> \notin PinningSlots(t)
  BY DEF PinningSlots, SlotOpen, SlotsPinning, Ran
<1>3. /\ \A i \in Items : SlotsOf(b, i)' \in SUBSET Slots
      /\ \A t \in Tokens : SlotsPinning(b, t)' \in SUBSET Slots
  BY DEF SlotsOf, SlotsPinning
<1> QED
  BY <1>1, <1>2, <1>3, CountTypes, RowAdded

\* A request that closes takes its items out of the counts.
LEMMA SlotsClosed ==
    ASSUME NEW b \in Batches, batch[b] \in {"running", "raised", "aborted"},
           batch'[b] \in {"idle", "orphans"},
           \A x \in Batches, s \in Slots : x # b =>
              slot'[x][s] = slot[x][s] /\ batch'[x] = batch[x]
    PROVE  /\ \A i \in Items : Cardinality(OpenSlots(i))
                                  = Cardinality(OpenSlots(i)') + Cardinality(SlotsOf(b, i))
           /\ \A t \in Tokens : Cardinality(PinningSlots(t))
                                  = Cardinality(PinningSlots(t)') + Cardinality(SlotsPinning(b, t))
<1>1. ASSUME NEW i \in Items
      PROVE  /\ OpenSlots(i) = OpenSlots(i)' \cup ({b} \X SlotsOf(b, i))
             /\ \A s \in Slots : <<b, s>> \notin OpenSlots(i)'
             /\ OpenSlots(i)' \in SUBSET (Batches \X Slots)
  BY IdsAssumption DEF OpenSlots, SlotOpen, SlotsOf
<1>2. ASSUME NEW t \in Tokens
      PROVE  /\ PinningSlots(t) = PinningSlots(t)' \cup ({b} \X SlotsPinning(b, t))
             /\ \A s \in Slots : <<b, s>> \notin PinningSlots(t)'
             /\ PinningSlots(t)' \in SUBSET (Batches \X Slots)
  BY DEF PinningSlots, SlotOpen, SlotsPinning, Ran
<1>3. /\ \A i \in Items : SlotsOf(b, i) \in SUBSET Slots
      /\ \A t \in Tokens : SlotsPinning(b, t) \in SUBSET Slots
  BY DEF SlotsOf, SlotsPinning
<1> QED
  BY <1>1, <1>2, <1>3, RowAdded

\* What the loop before the try opens is what it begins and pins.
LEMMA LoopCounts ==
    ASSUME Shaped, NEW b \in Batches, NEW f \in [Slots -> Tokens],
           NEW n \in 1..(BatchSize + 1), BatchLoop(b, f, n)
    PROVE  /\ \A i \in Items : SlotsOf(b, i)' =
                 IF ShouldCancel(Swept(records), i) THEN {}
                 ELSE {s \in Slots : s < n /\ Resolves(f, s) /\ owner[f[s]] = i}
           /\ \A t \in Tokens : SlotsPinning(b, t)' = {s \in Slots : s < n /\ Begins(f, s) /\ f[s] = t}
<1>1. \A s \in Slots :
         slot'[b][s] = IF s < n /\ Begins(f, s)
                       THEN [pc |-> "queued", token |-> f[s], item |-> owner[f[s]]]
                       ELSE NoSlot
  BY LoopKeepsShape
<1>2. \A s \in Slots : Begins(f, s) => owner[f[s]] # None
  BY DEF Begins, Resolves, Present
<1>3. \A s \in Slots :
         /\ slot'[b][s].item = IF s < n /\ Begins(f, s) THEN owner[f[s]] ELSE None
         /\ slot'[b][s].token = IF s < n /\ Begins(f, s) THEN f[s] ELSE None
  <2> SUFFICES ASSUME NEW s \in Slots
               PROVE  /\ slot'[b][s].item = IF s < n /\ Begins(f, s) THEN owner[f[s]] ELSE None
                      /\ slot'[b][s].token = IF s < n /\ Begins(f, s) THEN f[s] ELSE None
    OBVIOUS
  <2>1. CASE s < n /\ Begins(f, s)
    <3>1. slot'[b][s] = [pc |-> "queued", token |-> f[s], item |-> owner[f[s]]]
      BY <1>1, <2>1
    <3> QED
      BY <2>1, <3>1
  <2>2. CASE ~(s < n /\ Begins(f, s))
    <3>1. slot'[b][s] = NoSlot
      BY <1>1, <2>2
    <3> QED
      BY <2>2, <3>1 DEF NoSlot
  <2> QED
    BY <2>1, <2>2
<1>4. ASSUME NEW i \in Items
      PROVE  SlotsOf(b, i)' = {s \in Slots : s < n /\ Begins(f, s) /\ owner[f[s]] = i}
  BY <1>3, IdsAssumption DEF SlotsOf
<1>5. ASSUME NEW t \in Tokens
      PROVE  SlotsPinning(b, t)' = {s \in Slots : s < n /\ Begins(f, s) /\ f[s] = t}
  BY <1>2, <1>3 DEF SlotsPinning, Ran
<1> QED
  BY <1>4, <1>5 DEF Begins

\* Operations that only touch the slots of an open request, or nothing that is
\* counted, keep the counts.
LEMMA OpenKept ==
    ASSUME UNCHANGED create,
           \A x \in Batches, r \in Slots :
              /\ SlotOpen(x, r)' = SlotOpen(x, r)
              /\ SlotOpen(x, r) => /\ slot'[x][r].item = slot[x][r].item
                                   /\ slot'[x][r].token = slot[x][r].token
    PROVE  /\ \A i \in Items : OpenBrackets(i)' = OpenBrackets(i)
           /\ \A t \in Tokens : PinningSlots(t)' = PinningSlots(t)
<1>1. \A i \in Items : OpenSlots(i)' = OpenSlots(i)
  BY SlotsKept
<1>2. \A i \in Items : OpenCreates(i)' = OpenCreates(i)
  BY DEF OpenCreates, CreateOpen
<1> QED
  BY <1>1, <1>2, SlotsKept DEF OpenBrackets

\* How a create operation changes the counts.
LEMMA CreateCounts ==
    ASSUME Shaped, UNCHANGED <<batch, slot>>, NEW c \in Creates
    PROVE  /\ \A t \in Tokens : PinningSlots(t)' = PinningSlots(t)
           /\ \A i \in Items : OpenSlots(i)' = OpenSlots(i)
           /\ \A i, j \in Items :
                 /\ create[c].pc = "idle"
                 /\ create' = [create EXCEPT ![c] = [pc |-> "acquiring", item |-> j]]
                 => OpenBrackets(i)' = OpenBrackets(i) + Calls(j, 1)[i]
           /\ \A i \in Items :
                 /\ create[c].pc # "idle"
                 /\ create' = [create EXCEPT ![c] = [pc |-> "idle", item |-> None]]
                 => OpenBrackets(i) = OpenBrackets(i)' + Calls(create[c].item, 1)[i]
<1>0. create \in [Creates -> CreateOps]
  BY DEF Shaped, TypeOK
<1>1. /\ \A i \in Items : OpenSlots(i)' = OpenSlots(i)
      /\ \A t \in Tokens : PinningSlots(t)' = PinningSlots(t)
  BY DEF OpenSlots, PinningSlots, SlotOpen
<1>2. ASSUME NEW j \in Items, create[c].pc = "idle",
             create' = [create EXCEPT ![c] = [pc |-> "acquiring", item |-> j]],
             NEW i \in Items
      PROVE  OpenBrackets(i)' = OpenBrackets(i) + Calls(j, 1)[i]
  <2>1. /\ create'[c].pc = "acquiring" /\ create'[c].item = j
        /\ \A d \in Creates \ {c} : create'[d] = create[d]
    BY <1>0, <1>2
  <2>2. OpenCreates(i)' = IF i = j THEN OpenCreates(i) \cup {c} ELSE OpenCreates(i)
    BY <1>2, <2>1 DEF OpenCreates, CreateOpen
  <2>3. c \notin OpenCreates(i)
    BY <1>2 DEF OpenCreates, CreateOpen
  <2>4. Cardinality(OpenCreates(i)')
           = IF i = j THEN Cardinality(OpenCreates(i)) + 1 ELSE Cardinality(OpenCreates(i))
    BY <2>2, <2>3, CountTypes, FS_AddElement
  <2> QED
    BY <1>1, <2>4, CountTypes DEF OpenBrackets, Calls
<1>3. ASSUME create[c].pc # "idle",
             create' = [create EXCEPT ![c] = [pc |-> "idle", item |-> None]],
             NEW i \in Items
      PROVE  OpenBrackets(i) = OpenBrackets(i)' + Calls(create[c].item, 1)[i]
  <2>1. /\ create'[c].pc = "idle"
        /\ \A d \in Creates \ {c} : create'[d] = create[d]
    BY <1>0, <1>3
  <2>2. OpenCreates(i)' = OpenCreates(i) \ {c}
    BY <2>1 DEF OpenCreates, CreateOpen
  <2>3. c \in OpenCreates(i) <=> create[c].item = i
    BY <1>3 DEF OpenCreates, CreateOpen
  <2>4. Cardinality(OpenCreates(i)')
           = IF create[c].item = i THEN Cardinality(OpenCreates(i)) - 1
             ELSE Cardinality(OpenCreates(i))
    BY <2>2, <2>3, CountTypes, FS_RemoveElement
  <2> QED
    BY <1>1, <2>4, CountTypes DEF OpenBrackets, Calls
<1> QED
  BY <1>1, <1>2, <1>3

---------------------------------------------------------------------------
\* The routes as a lawful caller of the registry.

\* ItemLifecycle with the counts of the routes, and what is proved of it there.
Bracketed == INSTANCE ItemLifecycleProofs WITH
    MaxBegins <- BatchSize,
    brackets <- [i \in Items |-> OpenBrackets(i)]

\* begin() and finish() of the abstract registry, in terms of the counts.
LEMMA RegistryCalls ==
    ASSUME NEW calls \in [Items -> 0..BatchSize]
    PROVE  /\ /\ records' = Begun(records, calls)
              /\ \A i \in Items : OpenBrackets(i)' =
                    IF ShouldCancel(Swept(records), i) THEN OpenBrackets(i)
                    ELSE OpenBrackets(i) + calls[i]
              => Lifecycle!LifecycleNext
           /\ /\ records' = Finished(records, calls)
              /\ \A i \in Items : /\ OpenBrackets(i) = OpenBrackets(i)' + calls[i]
                                  /\ OpenBrackets(i)' \in Nat
              => Lifecycle!LifecycleNext
<1>0. calls \in Lifecycle!CallCounts
  BY DEF Lifecycle!CallCounts
<1>1. ASSUME records' = Begun(records, calls),
             \A i \in Items : OpenBrackets(i)' =
                 IF ShouldCancel(Swept(records), i) THEN OpenBrackets(i)
                 ELSE OpenBrackets(i) + calls[i]
      PROVE  Lifecycle!LifecycleNext
  <2>1. Lifecycle!BeginCalls(calls)
    BY <1>1 DEF Lifecycle!BeginCalls, Lifecycle!Begun, Lifecycle!Swept, Lifecycle!ShouldCancel,
       Lifecycle!NoRecord, Lifecycle!RefusingStatuses, Begun, Swept, ShouldCancel, NoRecord,
       RefusingStatuses
  <2> QED
    BY <1>0, <2>1 DEF Lifecycle!LifecycleNext
<1>2. ASSUME records' = Finished(records, calls),
             \A i \in Items : OpenBrackets(i) = OpenBrackets(i)' + calls[i],
             \A i \in Items : OpenBrackets(i)' \in Nat
      PROVE  Lifecycle!LifecycleNext
  <2>1. \A i \in Items : calls[i] <= OpenBrackets(i) /\ OpenBrackets(i)' = OpenBrackets(i) - calls[i]
    BY <1>2
  <2>2. Lifecycle!FinishCalls(calls)
    BY <1>2, <2>1 DEF Lifecycle!FinishCalls, Lifecycle!Finished, Lifecycle!Terminal,
       Finished, Terminal
  <2> QED
    BY <1>0, <2>2 DEF Lifecycle!LifecycleNext
<1> QED
  BY <1>1, <1>2

\* The counts stay finite.
LEMMA CountTypesNext == \A i \in Items : OpenBrackets(i)' \in Nat
<1> SUFFICES ASSUME NEW i \in Items
             PROVE  OpenBrackets(i)' \in Nat
  OBVIOUS
<1>1. OpenSlots(i)' \in SUBSET (Batches \X Slots) /\ OpenCreates(i)' \in SUBSET Creates
  BY DEF OpenSlots, OpenCreates
<1>2. Cardinality(OpenSlots(i)') \in Nat /\ Cardinality(OpenCreates(i)') \in Nat
  BY <1>1, ItemsAssumption, SlotSetsFinite, FS_Subset, FS_CardinalityType
<1> QED
  BY <1>2 DEF OpenBrackets

\* Every pin is that of an open item: the half of BracketsExact about pins.
PinsExact == \A t \in Tokens : pins[t] = Cardinality(PinningSlots(t))

\* A step of the routes is a lawful call of the registry, or none.
Lawful == Lifecycle!LifecycleNext \/ UNCHANGED Lifecycle!lifecycleVars

\* A step that keeps the counts, the registry and the pins.
LEMMA Uncounted ==
    ASSUME UNCHANGED <<records, pins>>,
           \A i \in Items : OpenBrackets(i)' = OpenBrackets(i),
           \A t \in Tokens : PinningSlots(t)' = PinningSlots(t)
    PROVE  Lawful /\ (PinsExact => PinsExact')
    BY DEF Lawful, PinsExact, Lifecycle!lifecycleVars

\* create_one() begins once and finishes once what it began
\* (routers/exec.py:105-205).
LEMMA CreateIsLawful ==
    ASSUME Shaped, NEW c \in Creates,
           (\E i \in Items : CreateBegin(c, i)) \/ CreateStep(c)
    PROVE  Lawful /\ (PinsExact => PinsExact')
<1>0. /\ create \in [Creates -> CreateOps]
      /\ \A i \in Items : Calls(i, 1) \in [Items -> 0..BatchSize]
      /\ create[c].pc # "idle" => create[c].item \in Items
  BY ItemsAssumption DEF Shaped, TypeOK, Calls, SlotsAgree, CreateOps
<1>1. ASSUME UNCHANGED <<pins, batch, slot>>
      PROVE  PinsExact => PinsExact'
  BY <1>1, CreateCounts DEF PinsExact
<1>2. ASSUME NEW i \in Items, CreateBegin(c, i)
      PROVE  Lawful /\ (PinsExact => PinsExact')
  <2>1. /\ records' = Begun(records, Calls(i, 1)) /\ create[c].pc = "idle"
        /\ create' = [create EXCEPT ![c] = IF ShouldCancel(Swept(records), i) THEN @
                                           ELSE [pc |-> "acquiring", item |-> i]]
        /\ UNCHANGED <<pins, batch, slot>>
    BY <1>2 DEF CreateBegin, storeVars
  <2>2. CASE ShouldCancel(Swept(records), i)
    <3>1. create' = create
      BY <1>0, <2>1, <2>2
    <3>2. \A j \in Items : OpenBrackets(j)' = OpenBrackets(j)
      BY <2>1, <3>1, OpenKept DEF SlotOpen
    <3>3. \A j \in Items : OpenBrackets(j)' = IF ShouldCancel(Swept(records), j)
                              THEN OpenBrackets(j) ELSE OpenBrackets(j) + Calls(i, 1)[j]
      BY <2>2, <3>2, CountTypes DEF Calls
    <3> QED
      BY <1>0, <1>1, <2>1, <3>3, RegistryCalls DEF Lawful
  <2>3. CASE ~ShouldCancel(Swept(records), i)
    <3>1. create' = [create EXCEPT ![c] = [pc |-> "acquiring", item |-> i]]
      BY <2>1, <2>3
    <3>2. \A j \in Items : OpenBrackets(j)' = OpenBrackets(j) + Calls(i, 1)[j]
      BY <2>1, <3>1, CreateCounts
    <3>3. \A j \in Items : OpenBrackets(j)' = IF ShouldCancel(Swept(records), j)
                              THEN OpenBrackets(j) ELSE OpenBrackets(j) + Calls(i, 1)[j]
      BY <2>3, <3>2, CountTypes DEF Calls
    <3> QED
      BY <1>0, <1>1, <2>1, <3>3, RegistryCalls DEF Lawful
  <2> QED
    BY <2>2, <2>3
<1>3. ASSUME create[c].pc # "idle", CreateEnds(c)
      PROVE  Lawful /\ (PinsExact => PinsExact')
  <2>1. /\ records' = Finished(records, Calls(create[c].item, 1))
        /\ create' = [create EXCEPT ![c] = [pc |-> "idle", item |-> None]]
        /\ UNCHANGED <<pins, batch, slot>>
    BY <1>3 DEF CreateEnds
  <2>2. \A j \in Items : OpenBrackets(j) = OpenBrackets(j)' + Calls(create[c].item, 1)[j]
    BY <1>3, <2>1, CreateCounts
  <2> QED
    BY <1>0, <1>1, <1>3, <2>1, <2>2, CountTypesNext, RegistryCalls DEF Lawful
<1>4. CASE CreateUnserved(c)
  BY <1>3, <1>4 DEF CreateUnserved
<1>5. CASE CreateLeased(c)
  <2>1. CASE ShouldCancel(records, create[c].item)
    BY <1>3, <1>5, <2>1 DEF CreateLeased
  <2>2. CASE ~ShouldCancel(records, create[c].item)
    <3>1. /\ create' = [create EXCEPT ![c].pc = "creating"] /\ create[c].pc = "acquiring"
          /\ UNCHANGED <<records, pins, batch, slot>>
      BY <1>5, <2>2 DEF CreateLeased, storeVars
    <3>2. \A d \in Creates : /\ create'[d].item = create[d].item
                             /\ create'[d].pc # "idle" <=> create[d].pc # "idle"
      BY <1>0, <3>1 DEF CreateOps
    <3>3. \A i \in Items : OpenCreates(i)' = OpenCreates(i)
      BY <3>2 DEF OpenCreates, CreateOpen
    <3> QED
      BY <3>1, <3>3, CreateCounts, Uncounted DEF OpenBrackets
  <2> QED
    BY <2>1, <2>2
<1>6. ASSUME NEW T \in ResultSets, CreateReturns(c, T)
      PROVE  Lawful /\ (PinsExact => PinsExact')
  BY <1>3, <1>6 DEF CreateReturns
<1> QED
  BY <1>2, <1>4, <1>5, <1>6 DEF CreateStep

\* The loop before the try begins and pins what it leaves open, whether or not
\* it raises (exec_backends.py:127-149).
LEMMA BatchBeginIsLawful ==
    ASSUME Shaped, NEW b \in Batches, NEW f \in [Slots -> Tokens],
           BatchBegin(b, f) \/ \E n \in Slots : BatchAborts(b, f, n)
    PROVE  Lawful /\ (PinsExact => PinsExact')
<1>1. PICK n \in 1..(BatchSize + 1) :
        /\ BatchLoop(b, f, n) /\ batch[b] = "idle"
        /\ batch' \in {[batch EXCEPT ![b] = "running"], [batch EXCEPT ![b] = "aborted"]}
        /\ UNCHANGED create
  BY ItemsAssumption DEF BatchBegin, BatchAborts, Slots
<1> DEFINE asked  == [i \in Items |->
                        Cardinality({s \in Slots : s < n /\ Resolves(f, s) /\ owner[f[s]] = i})]
           pinned == [t \in Tokens |->
                        Cardinality({s \in Slots : s < n /\ Begins(f, s) /\ f[s] = t})]
<1>2. asked \in [Items -> 0..BatchSize] /\ pinned \in [Tokens -> Nat]
  BY PositionsFinite
<1>3. records' = Begun(records, asked) /\ pins' = [t \in Tokens |-> pins[t] + pinned[t]]
  BY <1>1 DEF BatchLoop, PinsAdded
<1>4. /\ batch'[b] \in {"running", "raised", "aborted"}
      /\ \A s \in Slots : ~SlotOpen(b, s)
      /\ \A x \in Batches, s \in Slots : x # b => slot'[x][s] = slot[x][s] /\ batch'[x] = batch[x]
  <2>1. batch \in [Batches -> BatchPCs]
    BY DEF Shaped, TypeOK
  <2>2. /\ batch'[b] \in {"running", "raised", "aborted"}
        /\ \A x \in Batches : x # b => batch'[x] = batch[x]
    BY <1>1, <2>1
  <2>3. \A s \in Slots : ~SlotOpen(b, s)
    BY <1>1 DEF SlotOpen
  <2>4. \A x \in Batches, s \in Slots : x # b => slot'[x][s] = slot[x][s]
    BY <1>1, LoopKeepsShape
  <2> QED
    BY <2>2, <2>3, <2>4
<1>5. \A i \in Items : Cardinality(SlotsOf(b, i)')
                           = IF ShouldCancel(Swept(records), i) THEN 0 ELSE asked[i]
  <2> SUFFICES ASSUME NEW i \in Items
               PROVE  Cardinality(SlotsOf(b, i)')
                          = IF ShouldCancel(Swept(records), i) THEN 0 ELSE asked[i]
    OBVIOUS
  <2>1. SlotsOf(b, i)' = IF ShouldCancel(Swept(records), i) THEN {}
            ELSE {s \in Slots : s < n /\ Resolves(f, s) /\ owner[f[s]] = i}
    BY <1>1, LoopCounts
  <2>2. asked[i] = Cardinality({s \in Slots : s < n /\ Resolves(f, s) /\ owner[f[s]] = i})
    OBVIOUS
  <2> HIDE DEF asked
  <2> QED
    BY <2>1, <2>2, FS_EmptySet
<1>6. \A t \in Tokens : Cardinality(SlotsPinning(b, t)') = pinned[t]
  <2> SUFFICES ASSUME NEW t \in Tokens
               PROVE  Cardinality(SlotsPinning(b, t)') = pinned[t]
    OBVIOUS
  <2>1. SlotsPinning(b, t)' = {s \in Slots : s < n /\ Begins(f, s) /\ f[s] = t}
    BY <1>1, LoopCounts
  <2> QED
    BY <2>1
<1> HIDE DEF asked, pinned
<1>7. \A i \in Items : OpenCreates(i)' = OpenCreates(i)
  BY <1>1 DEF OpenCreates, CreateOpen
<1>8. \A i \in Items : OpenBrackets(i)' = IF ShouldCancel(Swept(records), i)
                            THEN OpenBrackets(i) ELSE OpenBrackets(i) + asked[i]
  <2> SUFFICES ASSUME NEW i \in Items
               PROVE  OpenBrackets(i)' = IF ShouldCancel(Swept(records), i)
                            THEN OpenBrackets(i) ELSE OpenBrackets(i) + asked[i]
    OBVIOUS
  <2>1. Cardinality(OpenSlots(i)')
            = Cardinality(OpenSlots(i)) + IF ShouldCancel(Swept(records), i) THEN 0 ELSE asked[i]
    BY <1>4, <1>5, SlotsOpened
  <2>2. /\ Cardinality(OpenCreates(i)) \in Nat /\ Cardinality(OpenSlots(i)) \in Nat
        /\ asked[i] \in Nat
    BY <1>2, CountTypes
  <2> QED
    BY <1>7, <2>1, <2>2 DEF OpenBrackets
<1>9. PinsExact => PinsExact'
  BY <1>3, <1>4, <1>6, SlotsOpened DEF PinsExact
<1> QED
  BY <1>2, <1>3, <1>8, <1>9, RegistryCalls DEF Lawful

\* The finally clause finishes and unpins each item that was begun and pinned,
\* once, also when lanes go on after it (exec_backends.py:158-181).
LEMMA BatchEndIsLawful ==
    ASSUME Shaped, NEW b \in Batches, BatchStep(b)
    PROVE  Lawful /\ (PinsExact => PinsExact')
<1>0. /\ slot \in [Batches -> [Slots -> SlotOps]] /\ batch \in [Batches -> BatchPCs]
  BY DEF Shaped, TypeOK
<1>1. ASSUME BatchCloses(b), batch[b] \in {"running", "raised"},
             batch' \in {[batch EXCEPT ![b] = "idle"], [batch EXCEPT ![b] = "orphans"]},
             UNCHANGED create,
             \A x \in Batches, s \in Slots : x # b => slot'[x][s] = slot[x][s]
      PROVE  Lawful /\ (PinsExact => PinsExact')
  <2> DEFINE began  == [i \in Items |-> Cardinality({s \in Slots : slot[b][s].item = i})]
             pinned == [t \in Tokens |->
                          Cardinality({s \in Slots : Ran(b, s) /\ slot[b][s].token = t})]
  <2>1. began \in [Items -> 0..BatchSize] /\ pinned \in [Tokens -> Nat]
    BY PositionsFinite
  <2>2. /\ records' = Finished(records, began)
        /\ pins' = [t \in Tokens |-> IF pins[t] > pinned[t] THEN pins[t] - pinned[t] ELSE 0]
    BY <1>1 DEF BatchCloses, PinsRemoved
  <2>3. /\ \A i \in Items : Cardinality(SlotsOf(b, i)) = began[i]
        /\ \A t \in Tokens : Cardinality(SlotsPinning(b, t)) = pinned[t]
    BY DEF SlotsOf, SlotsPinning
  <2> HIDE DEF began, pinned
  <2>4. /\ batch'[b] \in {"idle", "orphans"}
        /\ \A x \in Batches, s \in Slots : x # b =>
              slot'[x][s] = slot[x][s] /\ batch'[x] = batch[x]
    BY <1>0, <1>1
  <2>5. /\ \A i \in Items : Cardinality(OpenSlots(i)) = Cardinality(OpenSlots(i)') + began[i]
        /\ \A t \in Tokens : Cardinality(PinningSlots(t))
                                 = Cardinality(PinningSlots(t)') + pinned[t]
    BY <1>1, <2>3, <2>4, SlotsClosed
  <2>6. \A i \in Items : OpenCreates(i)' = OpenCreates(i)
    BY <1>1 DEF OpenCreates, CreateOpen
  <2>7. /\ \A i \in Items : OpenSlots(i)' \in SUBSET (Batches \X Slots)
        /\ \A t \in Tokens : PinningSlots(t)' \in SUBSET (Batches \X Slots)
    BY DEF OpenSlots, PinningSlots
  <2>8. /\ \A i \in Items : Cardinality(OpenSlots(i)') \in Nat
        /\ \A t \in Tokens : Cardinality(PinningSlots(t)') \in Nat
    BY <2>7, SlotSetsFinite
  <2>9. \A i \in Items : OpenBrackets(i) = OpenBrackets(i)' + began[i]
    BY <2>1, <2>5, <2>6, <2>8, CountTypes DEF OpenBrackets
  <2>10. PinsExact => PinsExact'
    BY <2>1, <2>2, <2>5, <2>8 DEF PinsExact
  <2> QED
    BY <2>1, <2>2, <2>9, <2>10, CountTypesNext, RegistryCalls DEF Lawful
<1>2. CASE BatchReturns(b)
  <2>1. \A x \in Batches, s \in Slots : x # b => slot'[x][s] = slot[x][s]
    BY <1>0, <1>2 DEF BatchReturns, Forgotten
  <2> QED
    BY <1>1, <1>2, <2>1 DEF BatchReturns
<1>3. CASE BatchUnwinds(b)
  BY <1>1, <1>3 DEF BatchUnwinds
<1>4. CASE OrphansEnd(b)
  <2>1. /\ UNCHANGED <<records, pins, create>>
        /\ batch[b] = "orphans" /\ batch'[b] = "idle"
        /\ \A x \in Batches, s \in Slots : x # b =>
              slot'[x][s] = slot[x][s] /\ batch'[x] = batch[x]
    BY <1>0, <1>4 DEF OrphansEnd, Forgotten, storeVars
  <2> QED
    BY <2>1, OpenKept, Uncounted DEF SlotOpen
<1> QED
  BY <1>2, <1>3, <1>4 DEF BatchStep

\* Lanes move their items on and never change which they are.
LEMMA LaneKeepsItems ==
    ASSUME Shaped, NEW b \in Batches, NEW s \in Slots, LaneStep(b, s)
    PROVE  /\ UNCHANGED <<records, pins, create>>
           /\ \A x \in Batches, r \in Slots :
                 /\ slot'[x][r].item = slot[x][r].item
                 /\ slot'[x][r].token = slot[x][r].token
                 /\ slot'[x][r].pc # "done" => slot[x][r].pc # "done"
           /\ \A x \in Batches : \/ batch'[x] = batch[x]
                                 \/ batch[x] = "running" /\ batch'[x] = "raised"
<1>0. slot \in [Batches -> [Slots -> SlotOps]] /\ batch \in [Batches -> BatchPCs]
  BY DEF Shaped, TypeOK
<1>1. ASSUME NEW to \in {"done", "acquiring", "stepping"}, slot[b][s].pc # "done",
             SlotGoto(b, s, to), UNCHANGED <<records, pins, create, batch>>
      PROVE  /\ UNCHANGED <<records, pins, create>>
             /\ \A x \in Batches, r \in Slots :
                   /\ slot'[x][r].item = slot[x][r].item
                   /\ slot'[x][r].token = slot[x][r].token
                   /\ slot'[x][r].pc # "done" => slot[x][r].pc # "done"
             /\ \A x \in Batches : batch'[x] = batch[x]
  BY <1>1, SlotMoves
<1>2. CASE SlotStarts(b, s)
  <2>1. PICK to \in {"done", "acquiring", "stepping"} : SlotGoto(b, s, to)
    BY <1>2 DEF SlotStarts
  <2> QED
    BY <1>1, <1>2, <2>1 DEF SlotStarts, LaneTurn, storeVars
<1>3. CASE SlotLeased(b, s)
  <2>1. PICK to \in {"done", "acquiring", "stepping"} : SlotGoto(b, s, to)
    BY <1>3 DEF SlotLeased
  <2> QED
    BY <1>1, <1>3, <2>1 DEF SlotLeased, storeVars
<1>4. CASE SlotOverloaded(b, s)
  BY <1>1, <1>4 DEF SlotOverloaded, storeVars
<1>5. CASE LaneRaises(b, s)
  <2>1. /\ slot' = [slot EXCEPT ![b] = [r \in Slots |->
                IF r \in InLane(b, Lane(b, s)) THEN [slot[b][r] EXCEPT !.pc = "done"]
                ELSE slot[b][r]]]
        /\ batch' = [batch EXCEPT ![b] = IF @ = "running" THEN "raised" ELSE @]
        /\ UNCHANGED <<records, pins, create>>
    BY <1>5 DEF LaneRaises, storeVars
  <2>2. ASSUME NEW r \in Slots
        PROVE  /\ slot'[b][r].item = slot[b][r].item
               /\ slot'[b][r].token = slot[b][r].token
               /\ slot'[b][r].pc # "done" => slot[b][r].pc # "done"
    <3>1. slot'[b][r] \in {[slot[b][r] EXCEPT !.pc = "done"], slot[b][r]}
      BY <1>0, <2>1
    <3>2. slot[b][r] \in SlotOps
      BY <1>0
    <3> QED
      BY <3>1, <3>2 DEF SlotOps
  <2>3. \A x \in Batches : x # b => slot'[x] = slot[x] /\ batch'[x] = batch[x]
    BY <1>0, <2>1
  <2>4. batch'[b] = batch[b] \/ (batch[b] = "running" /\ batch'[b] = "raised")
    BY <1>0, <2>1
  <2> QED
    BY <2>1, <2>2, <2>3, <2>4
<1>6. ASSUME NEW T \in ResultSets, SlotReturns(b, s, T)
      PROVE  /\ slot[b][s].pc # "done" /\ SlotGoto(b, s, "done")
             /\ UNCHANGED <<records, pins, create, batch>>
  BY <1>6 DEF SlotReturns
<1> QED
  BY <1>1, <1>2, <1>3, <1>4, <1>5, <1>6 DEF LaneStep

\* What the lanes do is not counted (exec_backends.py:208-300).
LEMMA LaneIsLawful ==
    ASSUME Shaped, NEW b \in Batches, NEW s \in Slots, LaneStep(b, s)
    PROVE  Lawful /\ (PinsExact => PinsExact')
<1>1. UNCHANGED <<records, pins, create>>
  BY LaneKeepsItems
<1>2. \A x \in Batches, r \in Slots :
         /\ SlotOpen(x, r)' = SlotOpen(x, r)
         /\ slot'[x][r].item = slot[x][r].item
         /\ slot'[x][r].token = slot[x][r].token
  BY LaneKeepsItems DEF SlotOpen
<1> QED
  BY <1>1, <1>2, OpenKept, Uncounted

\* Cancel, cleanup, statistics and expiry are single calls of the registry;
\* garbage collection is none (routers/exec.py:449-524).
LEMMA OthersAreLawful ==
    ASSUME Shaped,
           \/ \E i \in Items : Cancel(i) \/ Cleanup(i) \/ Expire(i)
           \/ Stats
           \/ \E T \in SUBSET Tokens : CollectGarbage(T)
    PROVE  Lawful /\ (PinsExact => PinsExact')
<1>1. UNCHANGED <<pins, create, batch, slot>>
  BY DEF Cancel, Cleanup, Expire, Stats, CollectGarbage, storeVars, routeVars
<1>2. /\ \A i \in Items : OpenBrackets(i)' = OpenBrackets(i)
      /\ \A t \in Tokens : PinningSlots(t)' = PinningSlots(t)
  BY <1>1, OpenKept DEF SlotOpen
<1>3. PinsExact => PinsExact'
  BY <1>1, <1>2 DEF PinsExact
<1>4. /\ \A r, i : /\ Lifecycle!Swept(r) = Swept(r)
                   /\ Lifecycle!Cancelled(r, i) = Cancelled(r, i)
                   /\ Lifecycle!Cleaned(r, i) = Cleaned(r, i)
                   /\ Lifecycle!CleanupMayDelete(r, i) = CleanupMayDelete(r, i)
  BY DEF Lifecycle!Swept, Swept, Lifecycle!NoRecord, NoRecord, Lifecycle!Cancelled, Cancelled,
     Lifecycle!Cleaned, Cleaned, Lifecycle!Terminal, Terminal,
     Lifecycle!CleanupMayDelete, CleanupMayDelete
<1>5. UNCHANGED [i \in Items |-> OpenBrackets(i)]
  BY <1>2
<1>6. ASSUME NEW i \in Items, Cancel(i)
      PROVE  Lifecycle!CancelCall(i)
  BY <1>4, <1>5, <1>6 DEF Cancel, Lifecycle!CancelCall
<1>7. ASSUME NEW i \in Items, Cleanup(i)
      PROVE  Lifecycle!CleanedCall(i) \/ Lifecycle!SweepCall
  BY <1>4, <1>5, <1>7 DEF Cleanup, Lifecycle!CleanedCall, Lifecycle!SweepCall
<1>8. ASSUME NEW i \in Items, Expire(i)
      PROVE  Lifecycle!RetentionEnds(i)
  BY <1>5, <1>8 DEF Expire, Lifecycle!RetentionEnds
<1>9. ASSUME Stats
      PROVE  Lifecycle!SweepCall
  BY <1>4, <1>5, <1>9 DEF Stats, Lifecycle!SweepCall
<1>10. ASSUME NEW T \in SUBSET Tokens, CollectGarbage(T)
       PROVE  UNCHANGED Lifecycle!lifecycleVars
  BY <1>5, <1>10 DEF CollectGarbage, Lifecycle!lifecycleVars
<1> QED
  BY <1>3, <1>6, <1>7, <1>8, <1>9, <1>10 DEF Lawful, Lifecycle!LifecycleNext

\* Every step of the routes is a lawful call of the registry and keeps the
\* pins exact.
LEMMA StepIsLawful ==
    ASSUME Shaped, [Next]_vars
    PROVE  Lawful /\ (PinsExact => PinsExact')
<1>1. CASE UNCHANGED vars
  BY <1>1, OpenKept, Uncounted DEF vars, SlotOpen
<1> QED
  BY <1>1, CreateIsLawful, BatchBeginIsLawful, LaneIsLawful, BatchEndIsLawful,
     OthersAreLawful DEF Next

\* Nothing is open or pinned at the start.
LEMMA LawfulInit == Init => Lifecycle!LifecycleInit /\ PinsExact
<1> SUFFICES ASSUME Init
             PROVE  Lifecycle!LifecycleInit /\ PinsExact
  OBVIOUS
<1>1. ASSUME NEW i \in Items
      PROVE  OpenBrackets(i) = 0
  <2>1. OpenCreates(i) = {} /\ OpenSlots(i) = {}
    BY DEF Init, OpenCreates, CreateOpen, OpenSlots, SlotOpen
  <2> QED
    BY <2>1, FS_EmptySet DEF OpenBrackets
<1>2. ASSUME NEW t \in Tokens
      PROVE  pins[t] = Cardinality(PinningSlots(t))
  <2>1. PinningSlots(t) = {} /\ pins[t] = 0
    BY DEF Init, PinningSlots, SlotOpen, StoreInit
  <2> QED
    BY <2>1, FS_EmptySet
<1>3. Lifecycle!LifecycleInit
  BY <1>1 DEF Init, Lifecycle!LifecycleInit, Lifecycle!NoRecord, NoRecord
<1> QED
  BY <1>2, <1>3 DEF PinsExact

\* The routes implement ItemLifecycle: whatever requests, lanes, cancels and
\* cleanups interleave, and also when a batch raises or aborts, what is finished
\* was begun and is finished once (exec_backends.py:131-148, 171-174,
\* routers/exec.py:106, 203-204).
THEOREM ExecLifecycleProtocol == Spec => LifecycleProtocol
<1>1. Init => Lifecycle!LifecycleInit
  BY LawfulInit
<1>2. Shaped /\ [Next]_vars => [Lifecycle!LifecycleNext]_(Lifecycle!lifecycleVars)
  BY StepIsLawful DEF Lawful
<1> QED
  BY <1>1, <1>2, ShapeInvariant, PTL DEF Spec, LifecycleProtocol, Lifecycle!LifecycleSpec

\* The two instances of ItemLifecycle are the same specification.
LEMMA SameRegistry ==
    /\ Lifecycle!LifecycleInit <=> Bracketed!LifecycleInit
    /\ Lifecycle!LifecycleNext <=> Bracketed!LifecycleNext
    /\ Lifecycle!lifecycleVars = Bracketed!lifecycleVars
<1> USE DEF Lifecycle!RefusingStatuses, Bracketed!RefusingStatuses, Lifecycle!NoRecord,
            Bracketed!NoRecord, Lifecycle!Terminal, Bracketed!Terminal,
            Lifecycle!ShouldCancel, Bracketed!ShouldCancel, Lifecycle!Swept, Bracketed!Swept
<1>1. Lifecycle!LifecycleInit <=> Bracketed!LifecycleInit
  BY DEF Lifecycle!LifecycleInit, Bracketed!LifecycleInit
<1>2. Lifecycle!lifecycleVars = Bracketed!lifecycleVars
  BY DEF Lifecycle!lifecycleVars, Bracketed!lifecycleVars
<1>3. \A calls : /\ Lifecycle!BeginCalls(calls) <=> Bracketed!BeginCalls(calls)
                 /\ Lifecycle!FinishCalls(calls) <=> Bracketed!FinishCalls(calls)
  BY DEF Lifecycle!BeginCalls, Bracketed!BeginCalls, Lifecycle!FinishCalls, Bracketed!FinishCalls,
         Lifecycle!Begun, Bracketed!Begun, Lifecycle!Finished, Bracketed!Finished
<1>4. \A i : /\ Lifecycle!CancelCall(i) <=> Bracketed!CancelCall(i)
             /\ Lifecycle!CleanedCall(i) <=> Bracketed!CleanedCall(i)
             /\ Lifecycle!RetentionEnds(i) <=> Bracketed!RetentionEnds(i)
  BY DEF Lifecycle!CancelCall, Bracketed!CancelCall, Lifecycle!Cancelled, Bracketed!Cancelled,
         Lifecycle!CleanedCall, Bracketed!CleanedCall, Lifecycle!CleanupMayDelete,
         Bracketed!CleanupMayDelete, Lifecycle!Cleaned, Bracketed!Cleaned,
         Lifecycle!RetentionEnds, Bracketed!RetentionEnds
<1>5. Lifecycle!SweepCall <=> Bracketed!SweepCall
  BY DEF Lifecycle!SweepCall, Bracketed!SweepCall
<1>6. Lifecycle!CallCounts = Bracketed!CallCounts
  BY DEF Lifecycle!CallCounts, Bracketed!CallCounts
<1> QED
  BY <1>1, <1>2, <1>3, <1>4, <1>5, <1>6 DEF Lifecycle!LifecycleNext, Bracketed!LifecycleNext

\* So what is proved of one holds of the other.
LEMMA ProtocolIsBracketed == LifecycleProtocol => Bracketed!LifecycleSpec
<1>1. Lifecycle!LifecycleInit => Bracketed!LifecycleInit
  BY SameRegistry
<1>2. [Lifecycle!LifecycleNext]_(Lifecycle!lifecycleVars)
          => [Bracketed!LifecycleNext]_(Bracketed!lifecycleVars)
  BY SameRegistry DEF Lifecycle!lifecycleVars, Bracketed!lifecycleVars
<1> QED
  BY <1>1, <1>2, PTL DEF LifecycleProtocol, Lifecycle!LifecycleSpec, Bracketed!LifecycleSpec

\* An item once cancelled or cleaned takes no new work before its retention has
\* run out, under the real routes: the theorem about the registry carried over by
\* the refinement (exec_lifecycle.py:84-88, 93-121, 138-144, 185-195).
THEOREM ExecCancelSticks == Spec => CancelSticks
<1>1. Bracketed!CancelSticks => CancelSticks
  BY DEF CancelSticks, Bracketed!CancelSticks, Lifecycle!CancelSticks,
         Bracketed!ShouldCancel, Lifecycle!ShouldCancel, Bracketed!RefusingStatuses,
         Lifecycle!RefusingStatuses, Bracketed!lifecycleVars, Lifecycle!lifecycleVars
<1> QED
  BY <1>1, ProtocolIsBracketed, ExecLifecycleProtocol, Bracketed!RegistryCancelSticks,
     IdsAssumption, PTL

---------------------------------------------------------------------------
\* What is open is counted, and keeps its parent.

\* Every pin is that of one open item.
LEMMA PinsInvariant == Spec => []PinsExact
  BY LawfulInit, StepIsLawful, ShapeInvariant, PTL DEF Spec

\* in_flight counts exactly the operations between begin() and finish(), and a
\* token is pinned once for every batch item between its pin and the unpin.  Items
\* of a request that aborted before its try stay there for ever; those of orphan
\* lanes have left, with the finally of their request
\* (exec_backends.py:131-148, 171-174, routers/exec.py:106, 204).
THEOREM ExecBracketsExact == Spec => []BracketsExact
<1>1. PinsExact /\ Bracketed!LifecycleTypeOK /\ Bracketed!RegistryExact => BracketsExact
  BY DEF PinsExact, Bracketed!RegistryExact, BracketsExact
<1>2. Spec => [](Bracketed!LifecycleTypeOK /\ Bracketed!RegistryExact)
  BY ExecLifecycleProtocol, ProtocolIsBracketed, Bracketed!RegistryIsExact, IdsAssumption, PTL
<1> QED
  BY PinsInvariant, <1>1, <1>2, PTL

\* The parent of an open item is pinned.
LEMMA PinnedWhileOpen ==
    ASSUME Shaped, PinsExact, NEW b \in Batches, NEW s \in Slots, SlotOpen(b, s)
    PROVE  slot[b][s].token \in issued /\ Pinned(slot[b][s].token)
<1>1. slot[b][s].token \in issued /\ slot[b][s].token \in Tokens
  BY DEF Shaped, TypeOK, StoreTypeOK, SlotsAgree, SlotOpen
<1>2. <<b, s>> \in PinningSlots(slot[b][s].token)
  BY DEF PinningSlots
<1>3. PinningSlots(slot[b][s].token) \in SUBSET (Batches \X Slots)
  BY DEF PinningSlots
<1>4. Cardinality(PinningSlots(slot[b][s].token)) > 0
  BY <1>2, <1>3, SlotSetsFinite, FS_EmptySet
<1> QED
  BY <1>1, <1>4 DEF PinsExact, Pinned

\* Nothing takes a pinned state from its item: not cleanup, which deletes all or
\* none, and not the garbage collector (state_store.py:183-196, 239-244).
LEMMA PinnedKeepsOwner ==
    ASSUME Shaped, [Next]_vars, NEW t \in issued, Pinned(t)
    PROVE  owner'[t] = owner[t]
<1>0. t \in Tokens /\ owner \in [Tokens -> Items \cup {None}]
  BY DEF Shaped, TypeOK, StoreTypeOK
<1>1. ASSUME NEW T, NEW i, Put(T, i)
      PROVE  owner'[t] = owner[t]
  BY <1>0, <1>1 DEF Put
<1>2. ASSUME NEW c \in Creates, (\E i \in Items : CreateBegin(c, i)) \/ CreateStep(c)
      PROVE  owner'[t] = owner[t]
  BY <1>1, <1>2 DEF CreateBegin, CreateStep, CreateUnserved, CreateLeased, CreateEnds,
     CreateReturns, storeVars
<1>3. ASSUME NEW b \in Batches, NEW f \in [Slots -> Tokens],
             BatchBegin(b, f) \/ \E n \in Slots : BatchAborts(b, f, n)
      PROVE  owner'[t] = owner[t]
  BY <1>3 DEF BatchBegin, BatchAborts
<1>4. ASSUME NEW b \in Batches, NEW s \in Slots, LaneStep(b, s)
      PROVE  owner'[t] = owner[t]
  BY <1>1, <1>4 DEF LaneStep, SlotStarts, SlotLeased, SlotOverloaded, LaneRaises, SlotReturns,
     storeVars
<1>5. ASSUME NEW b \in Batches, BatchStep(b)
      PROVE  owner'[t] = owner[t]
  BY <1>5 DEF BatchStep, BatchReturns, BatchUnwinds, OrphansEnd, storeVars
<1>6. ASSUME NEW i \in Items, Cancel(i) \/ Cleanup(i) \/ Expire(i)
      PROVE  owner'[t] = owner[t]
  <2>1. CASE Cancel(i) \/ Expire(i)
    BY <2>1 DEF Cancel, Expire, storeVars
  <2>2. CASE Cleanup(i)
    <3>1. owner' = owner \/ (owner' = Dropped(Owned(i)) /\ \A x \in Owned(i) : ~Pinned(x))
      BY <2>2 DEF Cleanup, MayDeleteAll
    <3> QED
      BY <1>0, <3>1 DEF Dropped
  <2> QED
    BY <1>6, <2>1, <2>2
<1>7. CASE Stats
  BY <1>7 DEF Stats, storeVars
<1>8. ASSUME NEW T \in SUBSET Tokens, CollectGarbage(T)
      PROVE  owner'[t] = owner[t]
  BY <1>0, <1>8 DEF CollectGarbage, Reclaim, Dropped
<1>9. CASE UNCHANGED vars
  BY <1>9 DEF vars
<1> QED
  BY <1>2, <1>3, <1>4, <1>5, <1>6, <1>7, <1>8, <1>9 DEF Next

\* An item to step next was one before the step, or has just been resolved.
LEMMA LiveSlots ==
    ASSUME Shaped, [Next]_vars, NEW b \in Batches, NEW s \in Slots,
           batch'[b] \in {"running", "raised"}, slot'[b][s].pc # "done"
    PROVE  \/ /\ batch[b] \in {"running", "raised"} /\ slot[b][s].pc # "done"
              /\ slot'[b][s].item = slot[b][s].item /\ slot'[b][s].token = slot[b][s].token
           \/ owner'[slot'[b][s].token] = slot'[b][s].item
<1> DEFINE Kept(x) ==
             \A r \in Slots :
                /\ batch'[x] \in {"running", "raised"} => batch[x] \in {"running", "raised"}
                /\ slot'[x][r].pc # "done" => slot[x][r].pc # "done"
                /\ slot'[x][r].item = slot[x][r].item
                /\ slot'[x][r].token = slot[x][r].token
<1>0. /\ slot \in [Batches -> [Slots -> SlotOps]] /\ batch \in [Batches -> BatchPCs]
  BY DEF Shaped, TypeOK
<1>1. ASSUME UNCHANGED <<batch, slot>>
      PROVE  Kept(b)
  BY <1>1
<1>2. ASSUME NEW c \in Creates, (\E i \in Items : CreateBegin(c, i)) \/ CreateStep(c)
      PROVE  UNCHANGED <<batch, slot>>
  BY <1>2 DEF CreateBegin, CreateStep, CreateUnserved, CreateLeased, CreateEnds, CreateReturns
<1>3. ASSUME NEW x \in Batches, NEW f \in [Slots -> Tokens],
             BatchBegin(x, f) \/ \E n \in Slots : BatchAborts(x, f, n)
      PROVE  Kept(b) \/ owner'[slot'[b][s].token] = slot'[b][s].item
  <2>1. PICK n \in 1..(BatchSize + 1) :
          /\ BatchLoop(x, f, n) /\ UNCHANGED owner
          /\ batch' \in {[batch EXCEPT ![x] = "running"], [batch EXCEPT ![x] = "aborted"]}
    BY <1>3, ItemsAssumption DEF BatchBegin, BatchAborts, Slots
  <2>2. CASE b = x
    <3>0. \A r \in Slots :
             slot'[x][r] = IF r < n /\ Begins(f, r)
                           THEN [pc |-> "queued", token |-> f[r], item |-> owner[f[r]]]
                           ELSE NoSlot
      BY <2>1, LoopKeepsShape
    <3>1. slot'[b][s] = IF s < n /\ Begins(f, s)
                        THEN [pc |-> "queued", token |-> f[s], item |-> owner[f[s]]]
                        ELSE NoSlot
      BY <2>2, <3>0
    <3>2. s < n /\ Begins(f, s)
      BY <3>1 DEF NoSlot
    <3>3. slot'[b][s] = [pc |-> "queued", token |-> f[s], item |-> owner[f[s]]]
      BY <3>1, <3>2
    <3> QED
      BY <2>1, <3>3
  <2>3. CASE b # x
    <3>1. \A r \in Slots : slot'[b][r] = slot[b][r]
      BY <2>1, <2>3, LoopKeepsShape
    <3>2. batch'[b] = batch[b]
      BY <1>0, <2>1, <2>3
    <3> QED
      BY <3>1, <3>2
  <2> QED
    BY <2>2, <2>3
<1>4. ASSUME NEW x \in Batches, NEW r \in Slots, LaneStep(x, r)
      PROVE  Kept(b)
  BY <1>4, LaneKeepsItems
<1>5. ASSUME NEW x \in Batches, BatchStep(x)
      PROVE  Kept(b)
  <2>1. /\ batch'[x] \in {"idle", "orphans"}
        /\ \A y \in Batches : y # x => batch'[y] = batch[y] /\ slot'[y] = slot[y]
    BY <1>0, <1>5 DEF BatchStep, BatchReturns, BatchUnwinds, OrphansEnd, Forgotten
  <2> QED
    BY <2>1
<1>6. ASSUME \/ \E i \in Items : Cancel(i) \/ Cleanup(i) \/ Expire(i)
             \/ Stats
             \/ \E T \in SUBSET Tokens : CollectGarbage(T)
             \/ UNCHANGED vars
      PROVE  UNCHANGED <<batch, slot>>
  BY <1>6 DEF Cancel, Cleanup, Expire, Stats, CollectGarbage, routeVars, vars
<1>7. Kept(b) \/ owner'[slot'[b][s].token] = slot'[b][s].item
  BY <1>1, <1>2, <1>3, <1>4, <1>5, <1>6 DEF Next
<1>8. CASE Kept(b)
  <2>1. /\ batch'[b] \in {"running", "raised"} => batch[b] \in {"running", "raised"}
        /\ slot'[b][s].pc # "done" => slot[b][s].pc # "done"
        /\ slot'[b][s].item = slot[b][s].item /\ slot'[b][s].token = slot[b][s].token
    BY <1>8
  <2> QED
    BY <2>1
<1> QED
  BY <1>7, <1>8

\* Cleanup and garbage collection leave the parent of a step alone while a lane of
\* a live request may load it (state_store.py:151-154, 183-196, 239-244).
THEOREM ExecStepKeepsParent == Spec => []StepKeepsParent
<1>1. Init => StepKeepsParent
  BY DEF Init, StepKeepsParent, NoSlot
<1>2. Shaped /\ PinsExact /\ StepKeepsParent /\ [Next]_vars => StepKeepsParent'
  <2> SUFFICES ASSUME Shaped, PinsExact, StepKeepsParent, [Next]_vars,
                      NEW b \in Batches, NEW s \in Slots,
                      batch'[b] \in {"running", "raised"}, slot'[b][s].pc # "done"
               PROVE  owner'[slot'[b][s].token] = slot'[b][s].item
    BY DEF StepKeepsParent
  <2>1. CASE /\ batch[b] \in {"running", "raised"} /\ slot[b][s].pc # "done"
             /\ slot'[b][s].item = slot[b][s].item /\ slot'[b][s].token = slot[b][s].token
    <3>1. SlotOpen(b, s)
      BY <2>1 DEF SlotOpen, Shaped, SlotsAgree
    <3>2. owner[slot[b][s].token] = slot[b][s].item
      BY <2>1 DEF StepKeepsParent
    <3> QED
      BY <2>1, <3>1, <3>2, PinnedWhileOpen, PinnedKeepsOwner
  <2> QED
    BY <2>1, LiveSlots
<1> QED
  BY <1>1, <1>2, PinsInvariant, ShapeInvariant, PTL DEF Spec
============================================================================
