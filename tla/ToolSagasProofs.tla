-------------------------- MODULE ToolSagasProofs ---------------------------
(***************************************************************************)
(* The promises of vault and fabric for any number of agents, texts and    *)
(* days.  The compensation of a store forgets an id that the log has       *)
(* kept, from a table that other agents and the decay have worked on       *)
(* meanwhile: what makes it right is that an id is inserted once, by one   *)
(* saga, and that every live row a saga inserted is still in its list.     *)
(***************************************************************************)
EXTENDS ToolSagas, SequenceTheorems, TLAPS

-----------------------------------------------------------------------------
(* The tables. *)

VaultInv ==
    /\ memories \in [MemoryId -> Memory \cup {NoMemory}]
    /\ nmemories \in 0 .. MaxMemories
    /\ \A i \in Live : i <= nmemories

FabricInv ==
    /\ records \in [RecordId -> Record \cup {NoRecord}]
    /\ nrecords \in 0 .. MaxRecords
    /\ \A d \in Ingested : records[d] \in Record

LEMMA MemoryOrNone ==
    /\ NoMemory \notin Memory
    /\ VaultInv => Live \subseteq MemoryId /\ \A i \in Live : memories[i] \in Memory
<1>1. NoMemory.content \notin Text
  BY LexiconAssumption DEF NoMemory
<1>2. \A m \in Memory : m.content \in Text
  BY DEF Memory
<1>3. QED
  BY <1>1, <1>2 DEF VaultInv, Live

LEMMA ClampType ==
    ASSUME NEW v \in Int
    PROVE  ClampImportance(v) \in 0 .. 100
BY DEF ClampImportance

LEMMA RefreshFacts ==
    ASSUME VaultInv, NEW i \in Live, NEW v \in Int, NEW t \in Int, Refresh(i, v, t)
    PROVE  /\ VaultInv' /\ nmemories' = nmemories /\ Live' = Live
           /\ \A j \in Live : memories'[j].used = memories[j].used
<1> DEFINE imp == Merge(memories[i].importance, ClampImportance(v))
<1>1. i \in MemoryId /\ memories[i] \in Memory /\ ClampImportance(v) \in 0 .. 100
  BY MemoryOrNone, ClampType
<1>2. imp \in 0 .. 100
  BY <1>1 DEF Merge, Memory
<1>3. memories' = [memories EXCEPT ![i] =
          [memories[i] EXCEPT !.importance = imp, !.updated = t, !.accessed = t]]
  BY DEF Refresh, VaultInv
<1> HIDE DEF imp
<1>4. [memories[i] EXCEPT !.importance = imp, !.updated = t, !.accessed = t] \in Memory
  BY <1>1, <1>2 DEF Memory
<1>5. /\ memories'[i] \in Memory /\ memories'[i].used = memories[i].used
      /\ \A j \in MemoryId \ {i} : memories'[j] = memories[j]
      /\ memories' \in [MemoryId -> Memory \cup {NoMemory}]
  <2>1. memories'[i] = [memories[i] EXCEPT !.importance = imp, !.updated = t, !.accessed = t]
    BY <1>1, <1>3 DEF VaultInv
  <2>2. memories'[i].used = memories[i].used
    BY <1>1, <2>1 DEF Memory
  <2>3. QED
    BY <1>1, <1>3, <1>4, <2>1, <2>2 DEF VaultInv
<1>6. Live' = Live
  BY <1>1, <1>5, MemoryOrNone DEF Live
<1>7. nmemories' = nmemories
  BY DEF Refresh
<1>8. QED
  BY <1>5, <1>6, <1>7, MemoryOrNone DEF VaultInv

LEMMA InsertFacts ==
    ASSUME VaultInv, NEW s \in Scope, NEW c \in Text, NEW v \in Int, NEW t \in Int,
           Insert(s, c, v, t)
    PROVE  /\ VaultInv' /\ nmemories' = nmemories + 1
           /\ nmemories + 1 \in MemoryId \ Live /\ Live' = Live \cup {nmemories + 1}
           /\ \A j \in Live : memories'[j] = memories[j]
<1> DEFINE n == nmemories + 1
           row == [scope |-> s, content |-> c, importance |-> ClampImportance(v),
                   used |-> FALSE, updated |-> t, accessed |-> t]
<1>1. row \in Memory
  BY ClampType DEF Memory
<1>2. n \in MemoryId /\ nmemories \in Nat /\ nmemories' = n
  BY VaultAssumption DEF Insert, VaultInv, MemoryId
<1>3. n \notin Live
  BY <1>2 DEF VaultInv
<1>4. memories' = [memories EXCEPT ![n] = row]
  BY DEF Insert
<1> HIDE DEF row
<1>5. /\ memories'[n] = row /\ \A j \in MemoryId \ {n} : memories'[j] = memories[j]
      /\ memories' \in [MemoryId -> Memory \cup {NoMemory}]
  BY <1>1, <1>2, <1>4 DEF VaultInv
<1>6. Live' = Live \cup {n}
  BY <1>1, <1>2, <1>5, MemoryOrNone DEF Live
<1>7. \A j \in Live : memories'[j] = memories[j]
  BY <1>3, <1>5, MemoryOrNone
<1>8. nmemories' \in 0 .. MaxMemories /\ \A i \in Live' : i <= nmemories'
  BY <1>2, <1>6, VaultAssumption DEF VaultInv, MemoryId, Live
<1>9. QED
  BY <1>2, <1>3, <1>5, <1>6, <1>7, <1>8 DEF VaultInv

LEMMA PromoteFacts ==
    ASSUME VaultInv, NEW hits \in SUBSET Live, NEW t \in Int, Promote(hits, t),
           nmemories' = nmemories
    PROVE  /\ VaultInv' /\ Live' = Live
           /\ \A j \in Live : memories[j].used => memories'[j].used
           /\ \A j \in hits : memories'[j].used
<1>1. \A j \in MemoryId : memories'[j] = IF j \in hits
          THEN [memories[j] EXCEPT !.used = TRUE, !.accessed = t] ELSE memories[j]
  BY DEF Promote
<1>2. \A j \in hits : j \in MemoryId /\ memories[j] \in Memory
  BY MemoryOrNone
<1>3. \A m \in Memory : LET w == [m EXCEPT !.used = TRUE, !.accessed = t]
                        IN  w \in Memory /\ w.used = TRUE
  BY DEF Memory
<1>4. \A j \in hits : memories'[j] \in Memory /\ memories'[j].used = TRUE
  BY <1>1, <1>2, <1>3
<1>5. \A j \in MemoryId \ hits : memories'[j] = memories[j]
  BY <1>1
<1>6. memories' \in [MemoryId -> Memory \cup {NoMemory}]
  <2>1. \A j \in MemoryId : memories'[j] \in Memory \cup {NoMemory}
    BY <1>4, <1>5 DEF VaultInv
  <2>2. memories' = [j \in MemoryId |-> memories'[j]]
    BY DEF Promote
  <2>3. QED
    BY <2>1, <2>2
<1>7. Live' = Live
  BY <1>2, <1>4, <1>5, MemoryOrNone DEF Live
<1>8. QED
  BY <1>4, <1>5, <1>6, <1>7, MemoryOrNone DEF VaultInv

LEMMA ForgetFacts ==
    ASSUME VaultInv, NEW i \in MemoryId, Forget(i), nmemories' = nmemories
    PROVE  /\ VaultInv' /\ Live' = Live \ {i}
           /\ \A j \in Live' : memories'[j] = memories[j]
           /\ \A j \in MemoryId \ {i} : memories'[j] = memories[j]
<1>1. /\ memories'[i] = NoMemory /\ \A j \in MemoryId \ {i} : memories'[j] = memories[j]
      /\ memories' \in [MemoryId -> Memory \cup {NoMemory}]
  BY DEF Forget, VaultInv
<1>2. Live' = Live \ {i}
  BY <1>1 DEF Live
<1>3. QED
  BY <1>1, <1>2, MemoryOrNone DEF VaultInv

LEMMA PruneFacts ==
    ASSUME VaultInv, NEW min, NEW days, NEW t, PruneWeak(min, days, t)
    PROVE  /\ VaultInv' /\ nmemories' = nmemories /\ Live' \subseteq Live
           /\ \A j \in Live : memories[j].used => j \in Live'
           /\ \A j \in Live' : memories'[j] = memories[j]
<1> DEFINE weak == Weak(min, days, t)
<1>1. weak \subseteq Live /\ \A j \in weak : ~memories[j].used
  BY DEF Weak
<1>2. memories' = [j \in MemoryId |-> IF j \in weak THEN NoMemory ELSE memories[j]]
      /\ nmemories' = nmemories
  BY DEF PruneWeak
<1> HIDE DEF weak
<1>3. /\ \A j \in weak : j \in MemoryId => memories'[j] = NoMemory
      /\ \A j \in MemoryId \ weak : memories'[j] = memories[j]
      /\ memories' \in [MemoryId -> Memory \cup {NoMemory}]
  BY <1>2 DEF VaultInv
<1>4. Live' = Live \ weak
  BY <1>3 DEF Live
<1>5. \A j \in Live' : memories'[j] = memories[j]
  BY <1>3, <1>4, MemoryOrNone
<1>6. QED
  BY <1>1, <1>2, <1>3, <1>4, <1>5 DEF VaultInv

LEMMA IngestFacts ==
    ASSUME FabricInv, NEW c \in Text, NEW l \in License, NEW ttl \in Ttl \cup {NoTtl},
           NEW t \in Int, Ingest(c, l, ttl, t)
    PROVE  FabricInv' /\ nrecords' # nrecords
<1> DEFINE n == nrecords + 1
           row == [content |-> c, license |-> l, ttl |-> ttl,
                   quarantined |-> FALSE, updated |-> t]
<1>1. row \in Record
  BY DEF Record
<1>2. n \in RecordId /\ nrecords \in Nat /\ nrecords' = n /\ n \in 0 .. MaxRecords
  BY FabricAssumption DEF Ingest, FabricInv, RecordId
<1>3. records' = [records EXCEPT ![n] = row]
  BY DEF Ingest
<1> HIDE DEF row
<1>4. /\ records'[n] \in Record /\ \A d \in RecordId \ {n} : records'[d] = records[d]
      /\ records' \in [RecordId -> Record \cup {NoRecord}]
  BY <1>1, <1>2, <1>3 DEF FabricInv
<1>5. \A d \in Ingested' : records'[d] \in Record
  <2> TAKE d \in Ingested'
  <2>1. d = n \/ d \in Ingested
    BY <1>2 DEF Ingested
  <2>2. d \in RecordId
    BY <1>2, FabricAssumption DEF Ingested, RecordId
  <2>3. QED
    BY <1>4, <2>1, <2>2 DEF FabricInv
<1>6. QED
  BY <1>2, <1>4, <1>5 DEF FabricInv

LEMMA SweepFacts ==
    ASSUME FabricInv, NEW t, QuarantineExpired(t)
    PROVE  /\ FabricInv' /\ nrecords' = nrecords
           /\ \A d \in Ingested :
                 records'[d] = IF d \in Due(t) THEN [records[d] EXCEPT !.quarantined = TRUE]
                                               ELSE records[d]
<1>1. nrecords' = nrecords /\ Ingested' = Ingested /\ Ingested \subseteq RecordId
  BY FabricAssumption DEF QuarantineExpired, Ingested, FabricInv, RecordId
<1>2. \A d \in RecordId :
         records'[d] = IF d \in Due(t) THEN [records[d] EXCEPT !.quarantined = TRUE]
                                       ELSE records[d]
  BY DEF QuarantineExpired
<1>3. \A r \in Record : [r EXCEPT !.quarantined = TRUE] \in Record
  BY DEF Record
<1>4. Due(t) \subseteq Ingested
  BY DEF Due
<1>5. \A d \in RecordId : records'[d] \in Record \cup {NoRecord}
                          /\ (d \in Ingested => records'[d] \in Record)
  BY <1>2, <1>3, <1>4 DEF FabricInv
<1>6. records' = [d \in RecordId |-> records'[d]]
  BY DEF QuarantineExpired
<1>7. records' \in [RecordId -> Record \cup {NoRecord}]
  BY <1>5, <1>6
<1>8. QED
  BY <1>1, <1>2, <1>5, <1>7 DEF FabricInv

-----------------------------------------------------------------------------
(* The sagas. *)

Steps(a) == 1 .. Len(saga[a].steps)

(* Row i is in the list of a's saga as one that the saga inserted.         *)
Owes(a, i) ==
    \E n \in Steps(a) : saga[a].steps[n].memory_id = i /\ ~saga[a].steps[n].deduped

SagaType ==
    /\ saga \in [Agent -> [phase : Phases, steps : Seq(Output)]]
    /\ created \in [Agent -> SUBSET MemoryId]

(* Each id was inserted by one saga of those that can still name it.       *)
CreatedOK ==
    \A a \in Agent :
        /\ \A i \in created[a] : i <= nmemories
        /\ \A b \in Agent \ {a} : created[a] \cap created[b] = {}

(* A saga's list has only rows that it inserted or merely refreshed ...    *)
ListOK ==
    \A a \in Agent : \A n \in Steps(a) :
        ~saga[a].steps[n].deduped => saga[a].steps[n].memory_id \in created[a]

(* ... and until it has ended, every live row that it inserted.            *)
Owed ==
    \A a \in Agent :
        saga[a].phase \in {"open", "failing"} => \A i \in created[a] \cap Live : Owes(a, i)

SagaInv == SagaType /\ CreatedOK /\ ListOK /\ Owed /\ FailedSagaLeavesNothing

(* A row that was given to an agent is marked as used: ids are not reused. *)
RecalledInv ==
    /\ recalled \subseteq MemoryId
    /\ \A i \in recalled : i <= nmemories
    /\ \A i \in recalled \cap Live : memories[i].used

Others == now \in 0 .. MaxDay /\ cited \in [Agent -> SUBSET RecordId]

ToolsInv == VaultInv /\ FabricInv /\ SagaInv /\ RecalledInv /\ Others

(* What a step that leaves the sagas alone may do to the table.            *)
LEMMA SagasUntouched ==
    ASSUME SagaInv, saga' = saga, created' = created, Live' \subseteq Live,
           nmemories' = nmemories
    PROVE  SagaInv'
<1>1. SagaType' /\ CreatedOK' /\ ListOK'
  BY DEF SagaInv, SagaType, CreatedOK, ListOK, Steps
<1>2. Owed'
  BY DEF SagaInv, Owed, Owes, Steps
<1>3. FailedSagaLeavesNothing'
  BY DEF SagaInv, FailedSagaLeavesNothing
<1>4. QED
  BY <1>1, <1>2, <1>3 DEF SagaInv

LEMMA EnterFacts ==
    ASSUME SagaType, NEW a \in Agent, NEW p \in Phases, Enter(a, p), created' = created
    PROVE  /\ SagaType' /\ saga'[a].phase = p /\ saga'[a].steps = saga[a].steps
           /\ \A b \in Agent \ {a} : saga'[b] = saga[b]
<1>1. saga' = [saga EXCEPT ![a] = [saga[a] EXCEPT !.phase = p]]
  BY DEF Enter, SagaType
<1>2. saga[a] \in [phase : Phases, steps : Seq(Output)]
  BY DEF SagaType
<1>3. [saga[a] EXCEPT !.phase = p] \in [phase : Phases, steps : Seq(Output)]
  BY <1>2
<1>4. QED
  BY <1>1, <1>2, <1>3 DEF SagaType

(* A saga that goes on to fail or completes keeps the invariant; one that  *)
(* ends as failed does when it owes nothing.                               *)
LEMMA EnterStep ==
    ASSUME SagaInv, NEW a \in Agent, NEW p \in Phases, Enter(a, p),
           saga[a].phase \in {"open", "failing"}, p # "open",
           p = "failed" => saga[a].steps = <<>>,
           created' = created, Live' = Live, nmemories' = nmemories
    PROVE  SagaInv'
<1>1. /\ SagaType' /\ saga'[a].phase = p
      /\ \A b \in Agent : saga'[b].steps = saga[b].steps
      /\ \A b \in Agent \ {a} : saga'[b].phase = saga[b].phase
  BY EnterFacts DEF SagaInv
<1>2. \A b \in Agent : Steps(b)' = Steps(b)
  BY <1>1 DEF Steps
<1>3. \A b \in Agent : \A i : Owes(b, i) => Owes(b, i)'
  BY <1>1, <1>2 DEF Owes
<1>4. CreatedOK' /\ ListOK'
  BY <1>1, <1>2 DEF SagaInv, CreatedOK, ListOK
<1>5. Owed'
  BY <1>1, <1>3 DEF SagaInv, Owed
<1>6. p = "failed" => created[a] \cap Live = {}
  <2> SUFFICES ASSUME p = "failed", NEW i \in created[a] \cap Live
               PROVE  FALSE
    OBVIOUS
  <2>1. Owes(a, i)
    BY DEF SagaInv, Owed
  <2>2. Steps(a) = {}
    BY EmptySeq DEF Steps
  <2>3. QED
    BY <2>1, <2>2 DEF Owes
<1>7. FailedSagaLeavesNothing'
  BY <1>1, <1>6 DEF SagaInv, FailedSagaLeavesNothing
<1>8. QED
  BY <1>1, <1>4, <1>5, <1>7 DEF SagaInv

LEMMA CommitFacts ==
    ASSUME saga \in [Agent -> [phase : Phases, steps : Seq(Output)]],
           NEW a \in Agent, NEW out \in Output, CommitStep(a, out)
    PROVE  /\ saga' \in [Agent -> [phase : Phases, steps : Seq(Output)]]
           /\ saga'[a].phase = saga[a].phase
           /\ \A b \in Agent \ {a} : saga'[b] = saga[b]
           /\ Len(saga[a].steps) \in Nat /\ Len(saga'[a].steps) = Len(saga[a].steps) + 1
           /\ \A n \in Steps(a) : saga'[a].steps[n] = saga[a].steps[n]
           /\ saga'[a].steps[Len(saga[a].steps) + 1] = out
<1> DEFINE old == saga[a].steps
           new == Append(old, out)
<1>1. saga' = [saga EXCEPT ![a] = [saga[a] EXCEPT !.steps = new]]
  BY DEF CommitStep
<1>2. saga[a] \in [phase : Phases, steps : Seq(Output)] /\ old \in Seq(Output)
  OBVIOUS
<1>3. /\ new \in Seq(Output) /\ Len(old) \in Nat /\ Len(new) = Len(old) + 1
      /\ \A n \in 1 .. Len(old) : new[n] = old[n]
      /\ new[Len(old) + 1] = out
  BY <1>2, AppendProperties, LenProperties
<1> HIDE DEF new
<1>4. [saga[a] EXCEPT !.steps = new] \in [phase : Phases, steps : Seq(Output)]
  BY <1>2, <1>3
<1>5. saga'[a].steps = new /\ saga'[a].phase = saga[a].phase
  BY <1>1, <1>2
<1>6. QED
  BY <1>1, <1>3, <1>4, <1>5 DEF Steps

-----------------------------------------------------------------------------
(* The steps of an agent. *)

(* memory.store *)
LEMMA StoreStep ==
    ASSUME ToolsInv, NEW a \in Agent, NEW c \in Text, NEW v \in Importance, Store(a, c, v)
    PROVE  ToolsInv'
<1>1. now \in Int /\ v \in Int /\ ScopeOf[a] \in Scope
  BY ToolsAssumption DEF ToolsInv, Others
<1>2. VaultInv /\ FabricInv /\ SagaInv /\ RecalledInv /\ Others
  BY DEF ToolsInv
<1>3. saga \in [Agent -> [phase : Phases, steps : Seq(Output)]]
      /\ created \in [Agent -> SUBSET MemoryId]
  BY <1>2 DEF SagaInv, SagaType
<1>4. FabricInv' /\ Others'
  BY <1>2 DEF Store, fabricVars, FabricInv, Ingested, Others
<1>5. recalled' = recalled
  BY DEF Store
<1>6. ASSUME NEW i \in Existing(ScopeOf[a], c), Refresh(i, v, now),
             CommitStep(a, [memory_id |-> i, deduped |-> TRUE]), created' = created
      PROVE  VaultInv' /\ SagaInv' /\ RecalledInv'
  <2> DEFINE out == [memory_id |-> i, deduped |-> TRUE]
  <2>1. i \in Live /\ i \in MemoryId
    BY <1>2, MemoryOrNone DEF Existing, InScope
  <2>2. /\ VaultInv' /\ nmemories' = nmemories /\ Live' = Live
        /\ \A j \in Live : memories'[j].used = memories[j].used
    BY <1>1, <1>2, <1>6, <2>1, RefreshFacts
  <2>3. out \in Output /\ out.deduped = TRUE
    BY <2>1 DEF Output
  <2> HIDE DEF out
  <2>4. CommitStep(a, out)
    BY <1>6 DEF out
  <2>5. /\ saga' \in [Agent -> [phase : Phases, steps : Seq(Output)]]
        /\ saga'[a].phase = saga[a].phase
        /\ \A b \in Agent \ {a} : saga'[b] = saga[b]
        /\ Len(saga[a].steps) \in Nat /\ Len(saga'[a].steps) = Len(saga[a].steps) + 1
        /\ \A n \in Steps(a) : saga'[a].steps[n] = saga[a].steps[n]
        /\ saga'[a].steps[Len(saga[a].steps) + 1] = out
    BY <1>3, <2>3, <2>4, CommitFacts
  <2>6. Steps(a)' = Steps(a) \cup {Len(saga[a].steps) + 1}
    BY <2>5 DEF Steps
  <2>7. SagaType' /\ CreatedOK'
    BY <1>2, <1>3, <1>6, <2>2, <2>5 DEF SagaInv, SagaType, CreatedOK
  <2>8. ListOK'
    <3> SUFFICES ASSUME NEW b \in Agent, NEW n \in Steps(b)', ~saga'[b].steps[n].deduped
                 PROVE  saga'[b].steps[n].memory_id \in created[b]
      BY <1>6 DEF ListOK
    <3>1. n \in Steps(b) /\ saga'[b].steps[n] = saga[b].steps[n]
      <4>1. CASE b = a
        BY <2>3, <2>5, <2>6, <4>1
      <4>2. CASE b # a
        BY <2>5, <4>2 DEF Steps
      <4>3. QED
        BY <4>1, <4>2
    <3>2. QED
      BY <1>2, <3>1 DEF SagaInv, ListOK
  <2>9. \A b \in Agent : \A j : Owes(b, j) => Owes(b, j)'
    BY <2>5, <2>6 DEF Owes, Steps
  <2>10. Owed'
    BY <1>2, <1>6, <2>2, <2>5, <2>9 DEF SagaInv, Owed
  <2>11. FailedSagaLeavesNothing'
    BY <1>2, <1>6, <2>2, <2>5 DEF SagaInv, FailedSagaLeavesNothing
  <2>12. RecalledInv'
    BY <1>2, <1>5, <2>2 DEF RecalledInv
  <2>13. QED
    BY <2>2, <2>7, <2>8, <2>10, <2>11, <2>12 DEF SagaInv
<1>7. ASSUME Insert(ScopeOf[a], c, v, now),
             CommitStep(a, [memory_id |-> nmemories + 1, deduped |-> FALSE]),
             created' = [created EXCEPT ![a] = @ \cup {nmemories + 1}]
      PROVE  VaultInv' /\ SagaInv' /\ RecalledInv'
  <2> DEFINE new == nmemories + 1
             out == [memory_id |-> new, deduped |-> FALSE]
             last == Len(saga[a].steps) + 1
  <2>1. /\ VaultInv' /\ nmemories' = new /\ nmemories \in Nat
        /\ new \in MemoryId \ Live /\ Live' = Live \cup {new}
        /\ \A j \in Live : memories'[j] = memories[j]
    BY <1>1, <1>2, <1>7, InsertFacts DEF VaultInv
  <2>2. out \in Output /\ ~out.deduped /\ out.memory_id = new
    BY <2>1 DEF Output
  <2>3. \A i \in MemoryId : i <= nmemories => i # new /\ i <= new
    BY <2>1 DEF MemoryId
  <2> HIDE DEF out, new
  <2>4. CommitStep(a, out) /\ created' = [created EXCEPT ![a] = created[a] \cup {new}]
    BY <1>3, <1>7 DEF out, new
  <2>5. /\ saga' \in [Agent -> [phase : Phases, steps : Seq(Output)]]
        /\ saga'[a].phase = saga[a].phase
        /\ \A b \in Agent \ {a} : saga'[b] = saga[b]
        /\ Len(saga[a].steps) \in Nat /\ Len(saga'[a].steps) = last
        /\ \A n \in Steps(a) : saga'[a].steps[n] = saga[a].steps[n]
        /\ saga'[a].steps[last] = out
    BY <1>3, <2>2, <2>4, CommitFacts
  <2>6. Steps(a)' = Steps(a) \cup {last} /\ \A b \in Agent \ {a} : Steps(b)' = Steps(b)
    BY <2>5 DEF Steps
  <2>7. /\ created'[a] = created[a] \cup {new}
        /\ \A b \in Agent \ {a} : created'[b] = created[b]
        /\ created' \in [Agent -> SUBSET MemoryId]
    BY <1>3, <2>1, <2>4
  <2>8. \A b \in Agent : new \notin created[b] /\ created[b] \subseteq MemoryId
    BY <1>2, <1>3, <2>3 DEF SagaInv, CreatedOK
  <2>9. SagaType'
    BY <2>5, <2>7 DEF SagaType
  <2>10. CreatedOK'
    <3>1. \A b \in Agent : \A i \in created'[b] : i <= nmemories'
      BY <1>2, <2>1, <2>3, <2>7, <2>8 DEF SagaInv, CreatedOK, new
    <3>2. \A b \in Agent : \A d \in Agent \ {b} : created'[b] \cap created'[d] = {}
      BY <1>2, <2>7, <2>8 DEF SagaInv, CreatedOK
    <3>3. QED
      BY <3>1, <3>2 DEF CreatedOK
  <2>11. ListOK'
    <3> SUFFICES ASSUME NEW b \in Agent, NEW n \in Steps(b)', ~saga'[b].steps[n].deduped
                 PROVE  saga'[b].steps[n].memory_id \in created'[b]
      BY DEF ListOK
    <3>1. CASE b = a /\ n = last
      BY <2>2, <2>5, <2>7, <3>1
    <3>2. CASE ~(b = a /\ n = last)
      <4>1. n \in Steps(b) /\ saga'[b].steps[n] = saga[b].steps[n]
        BY <2>5, <2>6, <3>2
      <4>2. saga[b].steps[n].memory_id \in created[b]
        BY <1>2, <4>1 DEF SagaInv, ListOK
      <4>3. QED
        BY <2>7, <4>1, <4>2
    <3>3. QED
      BY <3>1, <3>2
  <2>12. \A b \in Agent : \A j : Owes(b, j) => Owes(b, j)'
    BY <2>5, <2>6 DEF Owes
  <2>13. \A i : i = new => Owes(a, i)'
    <3>1. last \in Steps(a)' /\ saga'[a].steps[last].memory_id = new
          /\ ~saga'[a].steps[last].deduped
      BY <2>2, <2>5, <2>6
    <3> HIDE DEF last
    <3>2. QED
      BY <3>1 DEF Owes
  <2>14. Owed'
    <3> SUFFICES ASSUME NEW b \in Agent, saga'[b].phase \in {"open", "failing"},
                        NEW i \in created'[b] \cap Live'
                 PROVE  Owes(b, i)'
      BY DEF Owed
    <3>1. CASE i = new
      BY <2>7, <2>8, <2>13, <3>1
    <3>2. CASE i # new
      <4>1. i \in created[b] \cap Live /\ saga[b].phase \in {"open", "failing"}
        BY <2>1, <2>5, <2>7, <3>2
      <4>2. Owes(b, i)
        BY <1>2, <4>1 DEF SagaInv, Owed
      <4>3. QED
        BY <2>12, <4>2
    <3>3. QED
      BY <3>1, <3>2
  <2>15. FailedSagaLeavesNothing'
    <3> SUFFICES ASSUME NEW b \in Agent, saga'[b].phase = "failed"
                 PROVE  created'[b] \cap Live' = {}
      BY DEF FailedSagaLeavesNothing
    <3>1. b # a
      BY <2>5 DEF Store, Open
    <3>2. created'[b] = created[b] /\ created[b] \cap Live = {}
      BY <1>2, <2>5, <2>7, <3>1 DEF SagaInv, FailedSagaLeavesNothing
    <3>3. QED
      BY <2>1, <2>7, <2>8, <3>1, <3>2
  <2>16. RecalledInv'
    BY <1>2, <1>5, <2>1, <2>3 DEF RecalledInv
  <2>17. QED
    BY <2>1, <2>9, <2>10, <2>11, <2>14, <2>15, <2>16 DEF SagaInv
<1>8. VaultInv' /\ SagaInv' /\ RecalledInv'
  BY <1>6, <1>7 DEF Store
<1>9. QED
  BY <1>4, <1>8 DEF ToolsInv

(* memory.recall: what is handed out is marked as used. *)
LEMMA RecallStep ==
    ASSUME ToolsInv, NEW a \in Agent, NEW query, Recall(a, query)
    PROVE  ToolsInv'
<1>1. VaultInv /\ FabricInv /\ SagaInv /\ RecalledInv /\ Others /\ now \in Int
  BY DEF ToolsInv, Others
<1>2. PICK hits \in SUBSET Matches(ScopeOf[a], query) :
         Promote(hits, now) /\ recalled' = recalled \cup hits
  BY DEF Recall
<1>3. hits \in SUBSET Live /\ nmemories' = nmemories
  BY DEF Matches, InScope, Recall
<1>4. /\ VaultInv' /\ Live' = Live
      /\ \A j \in Live : memories[j].used => memories'[j].used
      /\ \A j \in hits : memories'[j].used
  BY <1>1, <1>2, <1>3, PromoteFacts
<1>5. hits \subseteq MemoryId /\ \A i \in hits : i <= nmemories
  BY <1>1, <1>3, MemoryOrNone DEF VaultInv
<1>6. RecalledInv'
  BY <1>1, <1>2, <1>3, <1>4, <1>5 DEF RecalledInv
<1>7. SagaInv'
  BY <1>1, <1>3, <1>4, SagasUntouched DEF Recall
<1>8. FabricInv' /\ Others'
  BY <1>1 DEF Recall, fabricVars, FabricInv, Ingested, Others
<1>9. QED
  BY <1>4, <1>6, <1>7, <1>8 DEF ToolsInv

(* A step that leaves both tables alone and lets a saga fail, complete or  *)
(* end as failed.                                                          *)
LEMMA PhaseStep ==
    ASSUME ToolsInv, NEW a \in Agent, NEW p \in Phases, Enter(a, p),
           saga[a].phase \in {"open", "failing"}, p # "open",
           p = "failed" => saga[a].steps = <<>>,
           UNCHANGED <<vaultVars, fabricVars, now, created, recalled, cited>>
    PROVE  ToolsInv'
<1>1. VaultInv' /\ FabricInv' /\ RecalledInv' /\ Others' /\ Live' = Live
  BY DEF ToolsInv, vaultVars, fabricVars, VaultInv, FabricInv, RecalledInv, Others, Live, Ingested
<1>2. SagaInv'
  BY <1>1, EnterStep DEF ToolsInv, vaultVars
<1>3. QED
  BY <1>1, <1>2 DEF ToolsInv

(* knowledge.retrieve *)
LEMMA RetrieveStep ==
    ASSUME ToolsInv, NEW a \in Agent, NEW query, NEW licenses, NEW fresh \in BOOLEAN, NEW minHits,
           Retrieve(a, query, licenses, fresh, minHits)
    PROVE  ToolsInv'
<1>1. PICK hits \in SUBSET Servable(query, licenses, fresh, now) :
         \/ /\ cited' = [cited EXCEPT ![a] = IF fresh THEN @ \cup hits ELSE @]
            /\ saga' = saga
         \/ Enter(a, "failing") /\ cited' = cited
  BY DEF Retrieve
<1>2. UNCHANGED <<vaultVars, fabricVars, now, created, recalled>> /\ saga[a].phase = "open"
  BY DEF Retrieve, vaultVars, fabricVars, Open
<1>3. CASE cited' = [cited EXCEPT ![a] = IF fresh THEN @ \cup hits ELSE @] /\ saga' = saga
  <2>1. hits \subseteq RecordId
    BY FabricAssumption DEF Servable, Ingested, RecordId, ToolsInv, FabricInv
  <2>2. VaultInv' /\ FabricInv' /\ RecalledInv' /\ Live' = Live /\ nmemories' = nmemories
    BY <1>2 DEF ToolsInv, vaultVars, fabricVars, VaultInv, FabricInv, RecalledInv, Live, Ingested
  <2>3. Others'
    <3>1. cited[a] \subseteq RecordId /\ cited[a] \cup hits \subseteq RecordId
      BY <2>1 DEF ToolsInv, Others
    <3>2. QED
      BY <1>2, <1>3, <3>1 DEF ToolsInv, Others
  <2>4. SagaInv'
    BY <1>2, <1>3, <2>2, SagasUntouched DEF ToolsInv
  <2>5. QED
    BY <2>2, <2>3, <2>4 DEF ToolsInv
<1>4. CASE Enter(a, "failing") /\ cited' = cited
  BY <1>2, <1>4, PhaseStep DEF Phases
<1>5. QED
  BY <1>1, <1>3, <1>4

(* A new saga owes nothing. *)
LEMMA BeginStep ==
    ASSUME ToolsInv, NEW a \in Agent, Begin(a)
    PROVE  ToolsInv'
<1>1. VaultInv' /\ FabricInv' /\ RecalledInv' /\ Live' = Live /\ nmemories' = nmemories
  BY DEF Begin, ToolsInv, vaultVars, fabricVars, VaultInv, FabricInv, RecalledInv, Live, Ingested
<1>2. Others'
  BY DEF Begin, ToolsInv, Others
<1>3. SagaType
  BY DEF ToolsInv, SagaInv
<1>4. NewSaga \in [phase : Phases, steps : Seq(Output)]
  BY EmptySeq DEF NewSaga, Phases
<1>5. /\ saga'[a] = NewSaga /\ created'[a] = {}
      /\ \A b \in Agent \ {a} : saga'[b] = saga[b] /\ created'[b] = created[b]
      /\ SagaType'
  BY <1>3, <1>4 DEF Begin, SagaType
<1>6. NewSaga.steps = <<>> /\ NewSaga.phase = "open" /\ Steps(a)' = {}
  <2>1. NewSaga.steps = <<>> /\ NewSaga.phase = "open"
    BY DEF NewSaga
  <2>2. Len(<<>>) = 0
    BY EmptySeq
  <2>3. QED
    BY <1>5, <2>1, <2>2 DEF Steps
<1>7. \A b \in Agent \ {a} : Steps(b)' = Steps(b) /\ \A i : Owes(b, i) => Owes(b, i)'
  BY <1>5 DEF Steps, Owes
<1>8. CreatedOK'
  BY <1>1, <1>5 DEF ToolsInv, SagaInv, CreatedOK
<1>9. ListOK'
  BY <1>5, <1>6, <1>7 DEF ToolsInv, SagaInv, ListOK
<1>10. Owed'
  BY <1>1, <1>5, <1>7 DEF ToolsInv, SagaInv, Owed
<1>11. FailedSagaLeavesNothing'
  BY <1>1, <1>5, <1>6 DEF ToolsInv, SagaInv, FailedSagaLeavesNothing
<1>12. QED
  BY <1>1, <1>2, <1>5, <1>8, <1>9, <1>10, <1>11 DEF ToolsInv, SagaInv

(* One turn of the rollback: the last output is taken off the list, and    *)
(* its row is forgotten if the step had inserted it.                       *)
LEMMA CompensateFacts ==
    ASSUME ToolsInv, NEW a \in Agent, Compensate(a)
    PROVE  LET n == Len(saga[a].steps)
               out == saga[a].steps[n]
           IN  /\ n \in Nat \ {0} /\ out \in Output /\ n \in Steps(a)
               /\ SagaType' /\ saga'[a].phase = "failing" /\ saga[a].phase = "failing"
               /\ Steps(a)' = 1 .. n - 1
               /\ \A m \in 1 .. n - 1 : saga'[a].steps[m] = saga[a].steps[m]
               /\ \A b \in Agent \ {a} : saga'[b] = saga[b]
               /\ \/ out.deduped /\ memories' = memories
                  \/ ~out.deduped /\ Forget(out.memory_id)
<1> DEFINE old == saga[a].steps
           n == Len(old)
           new == SubSeq(old, 1, n - 1)
<1>1. saga[a] \in [phase : Phases, steps : Seq(Output)] /\ old \in Seq(Output)
  BY DEF ToolsInv, SagaInv, SagaType
<1>2. n \in Nat \ {0}
  BY <1>1, EmptySeq DEF Compensate
<1>3. n \in Steps(a) /\ old[n] \in Output /\ \A m \in 1 .. n - 1 : old[m] \in Output
  BY <1>1, <1>2, LenProperties DEF Steps
<1>4. /\ new \in Seq(Output) /\ Len(new) = n - 1
      /\ \A m \in 1 .. n - 1 : new[m] = old[m]
  BY <1>2, <1>3, SubSeqProperties
<1>5. saga' = [saga EXCEPT ![a] = [saga[a] EXCEPT !.steps = new]]
  BY DEF Compensate
<1>6. saga[a].phase = "failing" /\ UNCHANGED created
  BY DEF Compensate
<1> HIDE DEF new
<1>7. [saga[a] EXCEPT !.steps = new] \in [phase : Phases, steps : Seq(Output)]
  BY <1>1, <1>4
<1>8. saga'[a].steps = new /\ saga'[a].phase = "failing"
      /\ \A b \in Agent \ {a} : saga'[b] = saga[b]
  BY <1>1, <1>5, <1>6 DEF ToolsInv, SagaInv, SagaType
<1>9. SagaType'
  BY <1>5, <1>6, <1>7 DEF ToolsInv, SagaInv, SagaType
<1>10. Steps(a)' = 1 .. n - 1
  BY <1>4, <1>8 DEF Steps
<1>11. \/ old[n].deduped /\ memories' = memories
       \/ ~old[n].deduped /\ Forget(old[n].memory_id)
  BY DEF Compensate, UndoStore
<1>12. QED
  BY <1>2, <1>3, <1>4, <1>6, <1>8, <1>9, <1>10, <1>11

LEMMA CompensateStep ==
    ASSUME ToolsInv, NEW a \in Agent, Compensate(a)
    PROVE  ToolsInv'
<1> DEFINE n == Len(saga[a].steps)
           out == saga[a].steps[n]
<1>1. /\ n \in Nat \ {0} /\ out \in Output /\ n \in Steps(a)
      /\ SagaType' /\ saga'[a].phase = "failing" /\ saga[a].phase = "failing"
      /\ Steps(a)' = 1 .. n - 1
      /\ \A m \in 1 .. n - 1 : saga'[a].steps[m] = saga[a].steps[m]
      /\ \A b \in Agent \ {a} : saga'[b] = saga[b]
      /\ \/ out.deduped /\ memories' = memories
         \/ ~out.deduped /\ Forget(out.memory_id)
  BY CompensateFacts
<1>2. out.memory_id \in MemoryId
  BY <1>1 DEF Output
<1>3. Steps(a) = 1 .. n
  BY DEF Steps
<1> HIDE DEF n, out
<1>4. nmemories' = nmemories /\ created' = created /\ recalled' = recalled
  BY DEF Compensate
<1>5. VaultInv' /\ Live' \subseteq Live
      /\ (~out.deduped => out.memory_id \notin Live')
      /\ \A j \in Live' : memories'[j] = memories[j]
  <2>1. CASE out.deduped /\ memories' = memories
    BY <1>4, <2>1 DEF ToolsInv, VaultInv, Live
  <2>2. CASE ~out.deduped /\ Forget(out.memory_id)
    BY <1>2, <1>4, <2>2, ForgetFacts DEF ToolsInv
  <2>3. QED
    BY <1>1, <2>1, <2>2
<1>6. FabricInv' /\ Others'
  BY DEF Compensate, ToolsInv, fabricVars, FabricInv, Ingested, Others
<1>7. RecalledInv'
  BY <1>4, <1>5 DEF ToolsInv, RecalledInv
<1>8. CreatedOK'
  BY <1>4 DEF ToolsInv, SagaInv, CreatedOK
<1>9. \A b \in Agent \ {a} : Steps(b)' = Steps(b)
  BY <1>1 DEF Steps
<1>10. ListOK'
  <2> SUFFICES ASSUME NEW b \in Agent, NEW m \in Steps(b)', ~saga'[b].steps[m].deduped
               PROVE  saga'[b].steps[m].memory_id \in created[b]
    BY <1>4 DEF ListOK
  <2>1. m \in Steps(b) /\ saga'[b].steps[m] = saga[b].steps[m]
    BY <1>1, <1>3, <1>9
  <2>2. QED
    BY <2>1 DEF ToolsInv, SagaInv, ListOK
<1>11. Owed'
  <2> SUFFICES ASSUME NEW b \in Agent, saga'[b].phase \in {"open", "failing"},
                      NEW i \in created[b] \cap Live'
               PROVE  Owes(b, i)'
    BY <1>4 DEF Owed
  <2>1. saga[b].phase \in {"open", "failing"} /\ i \in created[b] \cap Live
    BY <1>1, <1>5
  <2>2. PICK m \in Steps(b) : saga[b].steps[m].memory_id = i /\ ~saga[b].steps[m].deduped
    BY <2>1 DEF ToolsInv, SagaInv, Owed, Owes
  <2>3. CASE b # a
    BY <1>1, <1>9, <2>2, <2>3 DEF Owes
  <2>4. CASE b = a
    <3>1. m # n
      BY <1>5, <2>2, <2>4 DEF out
    <3>2. m \in 1 .. n - 1
      BY <1>1, <1>3, <2>4, <3>1
    <3>3. QED
      BY <1>1, <2>2, <2>4, <3>2 DEF Owes
  <2>5. QED
    BY <2>3, <2>4
<1>12. FailedSagaLeavesNothing'
  BY <1>1, <1>4, <1>5 DEF ToolsInv, SagaInv, FailedSagaLeavesNothing
<1>13. QED
  BY <1>1, <1>5, <1>6, <1>7, <1>8, <1>10, <1>11, <1>12 DEF ToolsInv, SagaInv

-----------------------------------------------------------------------------
(* The steps of the application. *)

LEMMA MaintenanceStep ==
    ASSUME ToolsInv, Maintenance
    PROVE  ToolsInv'
<1>1. VaultInv /\ FabricInv /\ SagaInv /\ RecalledInv /\ Others /\ now \in Int
  BY DEF ToolsInv, Others
<1>2. ASSUME NEW min, Decay(min, 0)
      PROVE  ToolsInv'
  <2>1. /\ VaultInv' /\ nmemories' = nmemories /\ Live' \subseteq Live
        /\ \A j \in Live' : memories'[j] = memories[j]
    BY <1>1, <1>2, PruneFacts DEF Decay
  <2>2. UNCHANGED <<records, nrecords, now, saga, created, recalled, cited>>
    BY <1>2 DEF Decay, fabricVars
  <2>3. FabricInv' /\ Others'
    BY <1>1, <2>2 DEF FabricInv, Ingested, Others
  <2>4. RecalledInv'
    BY <1>1, <2>1, <2>2 DEF RecalledInv
  <2>5. SagaInv'
    BY <1>1, <2>1, <2>2, SagasUntouched
  <2>6. QED
    BY <2>1, <2>3, <2>4, <2>5 DEF ToolsInv
<1>3. ASSUME FabricInv', UNCHANGED <<vaultVars, saga, created, recalled, cited>>,
             now' \in 0 .. MaxDay
      PROVE  ToolsInv'
  <2>1. VaultInv' /\ RecalledInv' /\ Live' = Live /\ nmemories' = nmemories
    BY <1>1, <1>3 DEF vaultVars, VaultInv, RecalledInv, Live
  <2>2. SagaInv' /\ Others'
    BY <1>1, <1>3, <2>1, SagasUntouched DEF Others
  <2>3. QED
    BY <1>3, <2>1, <2>2 DEF ToolsInv
<1>4. ASSUME NEW c \in Text, NEW l \in License, NEW ttl \in Ttl \cup {NoTtl}, IngestRecord(c, l, ttl)
      PROVE  ToolsInv'
  BY <1>1, <1>3, <1>4, IngestFacts DEF IngestRecord, Others
<1>5. CASE Sweep
  BY <1>1, <1>3, <1>5, SweepFacts DEF Sweep, Others
<1>6. ASSUME NEW day \in 0 .. MaxDay, SetClock(day)
      PROVE  ToolsInv'
  <2>1. FabricInv'
    BY <1>1, <1>6 DEF SetClock, fabricVars, FabricInv, Ingested
  <2>2. QED
    BY <1>3, <1>6, <2>1 DEF SetClock
<1>7. QED
  BY <1>2, <1>4, <1>5, <1>6 DEF Maintenance

LEMMA AgentStepOK ==
    ASSUME ToolsInv, NEW a \in Agent, AgentStep(a)
    PROVE  ToolsInv'
<1>1. CASE FailStep(a) \/ Complete(a)
  BY <1>1, PhaseStep DEF FailStep, Complete, Open, Phases
<1>2. CASE FinishRollback(a)
  BY <1>2, PhaseStep DEF FinishRollback, Phases
<1>3. QED
  BY <1>1, <1>2, StoreStep, RecallStep, RetrieveStep, BeginStep, CompensateStep DEF AgentStep

LEMMA ToolsInitOK == ToolsInit => ToolsInv
<1> SUFFICES ASSUME ToolsInit
             PROVE  ToolsInv
  OBVIOUS
<1>1. VaultInv /\ Live = {}
  BY VaultAssumption DEF ToolsInit, VaultInit, VaultInv, Live
<1>2. FabricInv
  BY FabricAssumption DEF ToolsInit, FabricInit, FabricInv, Ingested
<1>3. RecalledInv /\ Others
  BY ToolsAssumption DEF ToolsInit, RecalledInv, Others
<1>4. SagaType
  BY EmptySeq DEF ToolsInit, SagaType, NewSaga, Phases
<1>5. \A a \in Agent : saga[a].steps = <<>> /\ saga[a].phase = "open" /\ created[a] = {}
  BY DEF ToolsInit, NewSaga
<1>6. \A a \in Agent : Steps(a) = {}
  BY <1>5, EmptySeq DEF Steps
<1>7. CreatedOK /\ ListOK /\ Owed /\ FailedSagaLeavesNothing
  BY <1>5, <1>6 DEF CreatedOK, ListOK, Owed, FailedSagaLeavesNothing
<1>8. QED
  BY <1>1, <1>2, <1>3, <1>4, <1>7 DEF ToolsInv, SagaInv

(* The invariant holds in every reachable state. *)
LEMMA ToolsInvariant == ToolsSpec => []ToolsInv
<1>1. ToolsInv /\ [ToolsNext]_toolVars => ToolsInv'
  <2> SUFFICES ASSUME ToolsInv, [ToolsNext]_toolVars
               PROVE  ToolsInv'
    OBVIOUS
  <2>1. CASE ToolsNext
    BY <2>1, AgentStepOK, MaintenanceStep DEF ToolsNext
  <2>2. CASE UNCHANGED toolVars
    <3>1. Live' = Live /\ VaultInv' /\ FabricInv' /\ RecalledInv' /\ Others'
      BY <2>2 DEF toolVars, vaultVars, fabricVars, ToolsInv, VaultInv, FabricInv, RecalledInv,
                  Others, Live, Ingested
    <3>2. SagaInv'
      BY <2>2, <3>1, SagasUntouched DEF toolVars, vaultVars, ToolsInv
    <3>3. QED
      BY <3>1, <3>2 DEF ToolsInv
  <2>3. QED
    BY <2>1, <2>2
<1>2. QED
  BY <1>1, ToolsInitOK, PTL DEF ToolsSpec

-----------------------------------------------------------------------------
(* The tables, the lists of outputs and the clock keep their types.        *)
THEOREM ToolsTypeCorrect == ToolsSpec => []ToolsTypeOK
<1>1. ToolsInv => ToolsTypeOK
  BY DEF ToolsInv, VaultInv, FabricInv, SagaInv, SagaType, RecalledInv, Others,
         ToolsTypeOK, VaultTypeOK, FabricTypeOK
<1>2. QED
  BY <1>1, ToolsInvariant, PTL

(* A saga that has failed leaves no memory that it had inserted, whatever  *)
(* others stored, recalled or pruned meanwhile (MemoryStoreTool::compensate *)
(* goes by the ids in the outputs of the log).                             *)
THEOREM FailedSagaForgotten == ToolsSpec => []FailedSagaLeavesNothing
<1>1. ToolsInv => FailedSagaLeavesNothing
  BY DEF ToolsInv, SagaInv
<1>2. QED
  BY <1>1, ToolsInvariant, PTL

(* A rollback takes away only what its own saga inserted: the flag deduped *)
(* of the output spares what the saga merely refreshed, and an id never    *)
(* comes to name another row.                                              *)
THEOREM RollbackSparesOthers == ToolsSpec => UndoSparesOthers
<1> DEFINE A == \A a \in Agent :
          saga[a].phase = "failing" /\ saga'[a].phase = "failing" /\ saga'[a] # saga[a] =>
              \A i \in Live : memories'[i] = NoMemory => i \in created[a]
<1>1. ToolsInv /\ [ToolsNext]_toolVars => [A]_toolVars
  <2> SUFFICES ASSUME ToolsInv, ToolsNext, NEW a \in Agent,
                      saga[a].phase = "failing", saga'[a].phase = "failing", saga'[a] # saga[a],
                      NEW i \in Live, memories'[i] = NoMemory
               PROVE  i \in created[a]
    OBVIOUS
  <2>1. SagaType /\ i \in MemoryId /\ memories[i] # NoMemory
    BY DEF ToolsInv, SagaInv, Live
  <2>2. ~Maintenance
    BY DEF Maintenance, Decay, IngestRecord, Sweep, SetClock
  <2>3. ASSUME NEW b \in Agent, b # a
        PROVE  ~AgentStep(b)
    BY <2>1, <2>3 DEF AgentStep, Store, CommitStep, Recall, Retrieve, Enter, FailStep, Complete,
                      Begin, Compensate, FinishRollback, SagaType
  <2>4. Compensate(a)
    <3>1. AgentStep(a)
      BY <2>2, <2>3 DEF ToolsNext
    <3>2. ~FinishRollback(a)
      BY <2>1, EnterFacts DEF FinishRollback, Phases
    <3>3. QED
      BY <3>1, <3>2 DEF AgentStep, Store, Recall, Retrieve, FailStep, Complete, Begin, Open
  <2>5. PICK n \in Steps(a) : \/ saga[a].steps[n].deduped /\ memories' = memories
                              \/ /\ ~saga[a].steps[n].deduped
                                 /\ Forget(saga[a].steps[n].memory_id)
    BY <2>4, CompensateFacts
  <2>6. ~saga[a].steps[n].deduped /\ Forget(saga[a].steps[n].memory_id)
    BY <2>1, <2>5
  <2>7. i = saga[a].steps[n].memory_id
    BY <2>1, <2>6 DEF Forget, ToolsInv, VaultInv
  <2>8. QED
    BY <2>6, <2>7 DEF ToolsInv, SagaInv, ListOK
<1>2. QED
  BY <1>1, ToolsInvariant, PTL DEF ToolsSpec, UndoSparesOthers

(* A memory that an agent was given goes only with the rollback of the     *)
(* saga that inserted it: prune_weak spares what was recalled.             *)
THEOREM RecalledStays == ToolsSpec => RecalledNeverDecays
<1> DEFINE A == \A i \in Live \cap recalled :
          memories'[i] = NoMemory => \E a \in Agent : i \in created[a] /\ saga'[a] # saga[a]
<1>1. ToolsInv /\ [ToolsNext]_toolVars => [A]_toolVars
  <2> SUFFICES ASSUME ToolsInv, ToolsNext, NEW i \in Live \cap recalled, memories'[i] = NoMemory
               PROVE  \E a \in Agent : i \in created[a] /\ saga'[a] # saga[a]
    OBVIOUS
  <2>1. /\ i \in MemoryId /\ memories[i] # NoMemory /\ memories[i].used
        /\ i \notin Live' /\ VaultInv /\ now \in Int
    BY DEF ToolsInv, RecalledInv, Live, Others
  <2>2. memories' # memories
    BY <2>1
  <2>3. ASSUME NEW min, Decay(min, 0)
        PROVE  FALSE
    BY <2>1, <2>3, PruneFacts DEF Decay
  <2>4. ~Maintenance
    BY <2>2, <2>3 DEF Maintenance, IngestRecord, Sweep, SetClock, vaultVars
  <2>5. PICK a \in Agent : AgentStep(a)
    BY <2>4 DEF ToolsNext
  <2>6. ASSUME NEW c \in Text, NEW v \in Importance, Store(a, c, v)
        PROVE  FALSE
    <3>1. v \in Int /\ ScopeOf[a] \in Scope
      BY ToolsAssumption
    <3>2. CASE \E j \in Existing(ScopeOf[a], c) : Refresh(j, v, now)
      BY <2>1, <3>1, <3>2, RefreshFacts DEF Existing, InScope
    <3>3. CASE Insert(ScopeOf[a], c, v, now)
      BY <2>1, <3>1, <3>3, InsertFacts
    <3>4. QED
      BY <2>6, <3>2, <3>3 DEF Store
  <2>7. ASSUME NEW query, Recall(a, query)
        PROVE  FALSE
    <3>1. PICK hits \in SUBSET Live : Promote(hits, now)
      BY <2>7 DEF Recall, Matches, InScope
    <3>2. nmemories' = nmemories
      BY <2>7 DEF Recall
    <3>3. QED
      BY <2>1, <3>1, <3>2, PromoteFacts
  <2>8. Compensate(a)
    BY <2>2, <2>5, <2>6, <2>7 DEF AgentStep, Retrieve, FailStep, Complete, Begin, FinishRollback,
                                  vaultVars
  <2>9. PICK n \in Steps(a) : /\ \/ saga[a].steps[n].deduped /\ memories' = memories
                                 \/ /\ ~saga[a].steps[n].deduped
                                    /\ Forget(saga[a].steps[n].memory_id)
                              /\ n = Len(saga[a].steps) /\ Steps(a)' = 1 .. n - 1
    BY <2>8, CompensateFacts
  <2>10. i = saga[a].steps[n].memory_id /\ ~saga[a].steps[n].deduped
    BY <2>1, <2>2, <2>9 DEF Forget, VaultInv
  <2>11. i \in created[a]
    BY <2>10 DEF ToolsInv, SagaInv, ListOK
  <2>12. n \notin Steps(a)'
    BY <2>9 DEF Steps
  <2>13. saga'[a] # saga[a]
    BY <2>12 DEF Steps
  <2>14. QED
    BY <2>11, <2>13
<1>2. QED
  BY <1>1, ToolsInvariant, PTL DEF ToolsSpec, RecalledNeverDecays

(* A record that a sweep has taken out of service is not cited as fresh    *)
(* again, whatever becomes of the clock: the mark is looked at besides the *)
(* lifetime (is_stale of knowledge.rs).                                    *)
THEOREM WithdrawnForGood == ToolsSpec => WithdrawnStaysWithdrawn
<1> DEFINE A == \A a \in Agent : \A d \in cited'[a] \ cited[a] : ~records[d].quarantined
<1>1. ToolsInv /\ [ToolsNext]_toolVars => [A]_toolVars
  <2> SUFFICES ASSUME ToolsInv, ToolsNext, NEW a \in Agent, NEW d \in cited'[a] \ cited[a]
               PROVE  ~records[d].quarantined
    OBVIOUS
  <2>1. cited \in [Agent -> SUBSET RecordId] /\ cited'[a] # cited[a]
    BY DEF ToolsInv, Others
  <2>2. ~Maintenance
    BY <2>1 DEF Maintenance, Decay, IngestRecord, Sweep, SetClock
  <2>3. PICK b \in Agent : AgentStep(b)
    BY <2>2 DEF ToolsNext
  <2>4. ~Begin(b)
    BY <2>1 DEF Begin
  <2>5. PICK query \in Text, licenses \in {License} \cup {{l} : l \in License},
             fresh \in BOOLEAN, minHits \in 1 .. MaxHits :
             Retrieve(b, query, licenses, fresh, minHits)
    BY <2>1, <2>3, <2>4 DEF AgentStep, Store, Recall, FailStep, Complete, Compensate, FinishRollback
  <2>6. PICK hits \in SUBSET Servable(query, licenses, fresh, now) :
           cited' = [cited EXCEPT ![b] = IF fresh THEN @ \cup hits ELSE @]
    BY <2>1, <2>5 DEF Retrieve
  <2>7. fresh /\ d \in hits
    BY <2>1, <2>6
  <2>8. QED
    BY <2>6, <2>7 DEF Servable, IsStale
<1>2. QED
  BY <1>1, ToolsInvariant, PTL DEF ToolsSpec, WithdrawnStaysWithdrawn

(* A sweep changes nothing about what is served as fresh on its day: the   *)
(* lifetime as SQL tests it in quarantine_expired and as Rust tests it in  *)
(* retrieve_at is the same.                                                *)
THEOREM SweepAgrees == ToolsSpec => SweepChangesNoAnswer
<1> DEFINE A == \A query \in Text :
          Due(now) # {} /\ records' # records /\ UNCHANGED nrecords =>
              Servable(query, License, TRUE, now)' = Servable(query, License, TRUE, now)
<1>1. ToolsInv /\ [ToolsNext]_toolVars => [A]_toolVars
  <2> SUFFICES ASSUME ToolsInv, ToolsNext, NEW query \in Text,
                      records' # records, UNCHANGED nrecords
               PROVE  Servable(query, License, TRUE, now)' = Servable(query, License, TRUE, now)
    OBVIOUS
  <2>1. FabricInv /\ now \in Int
    BY DEF ToolsInv, Others
  <2>2. \A a \in Agent : ~AgentStep(a)
    BY DEF AgentStep, Store, Recall, Retrieve, FailStep, Complete, Begin, Compensate,
           FinishRollback, fabricVars
  <2>3. ASSUME NEW c \in Text, NEW l \in License, NEW ttl \in Ttl \cup {NoTtl}, IngestRecord(c, l, ttl)
        PROVE  FALSE
    BY <2>1, <2>3, IngestFacts DEF IngestRecord
  <2>4. Sweep
    BY <2>2, <2>3 DEF ToolsNext, Maintenance, Decay, SetClock, fabricVars
  <2>5. /\ now' = now /\ Ingested' = Ingested
        /\ \A d \in Ingested :
              records'[d] = IF d \in Due(now) THEN [records[d] EXCEPT !.quarantined = TRUE]
                                              ELSE records[d]
    BY <2>1, <2>4, SweepFacts DEF Sweep, Ingested
  <2>6. ASSUME NEW d \in Ingested
        PROVE  d \in Servable(query, License, TRUE, now)' <=> d \in Servable(query, License, TRUE, now)
    <3>1. CASE d \in Due(now)
      <4>1. records[d] \in Record
        BY <2>1 DEF FabricInv
      <4>2. records'[d].quarantined = TRUE
        BY <2>5, <3>1, <4>1 DEF Record
      <4>3. IsStale(d, now)
        BY <3>1 DEF Due, IsStale
      <4>4. QED
        BY <4>2, <4>3 DEF Servable, IsStale
    <3>2. CASE d \notin Due(now)
      BY <2>5, <3>2 DEF Servable, IsStale
    <3>3. QED
      BY <3>1, <3>2
  <2>7. QED
    BY <2>5, <2>6 DEF Servable
<1>2. QED
  BY <1>1, ToolsInvariant, PTL DEF ToolsSpec, SweepChangesNoAnswer
=============================================================================
