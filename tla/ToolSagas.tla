----------------------------- MODULE ToolSagas ------------------------------
(***************************************************************************)
(* Agents whose sagas call memory.store, memory.recall and                 *)
(* knowledge.retrieve on one vault and one fabric: the tools of            *)
(* src/memory.rs and src/knowledge.rs with their compensations, under the  *)
(* kernel's rule that a failed step compensates the committed ones, last   *)
(* first.  Steps of different agents interleave.  The kernel itself, with  *)
(* its log and its crashes, is SagaKernel; here a saga is the list of its  *)
(* committed outputs.                                                      *)
(***************************************************************************)
EXTENDS MemoryVault, KnowledgeFabric, Sequences

CONSTANTS
    Agent,
    ScopeOf,            \* agent -> scope its calls name
    Importance,         \* importances callers give (50 for none)
    PruneBelow,         \* min_importance of the maintenance calls
    MaxHits,            \* max_hits of the calls
    MaxDay,             \* bound: the clock
    MaxSteps            \* bound: steps of a saga

ASSUME ToolsAssumption ==
    /\ ScopeOf \in [Agent -> Scope]
    /\ Importance \subseteq Int
    /\ MaxDay \in Nat

VARIABLES
    now,                \* the system clock, which may be set back
    saga,               \* agent -> [phase, steps]
    created,            \* ghost: agent -> memories its current saga inserted
    recalled,           \* ghost: memories some agent was given
    cited               \* ghost: agent -> records its saga cited as fresh

toolVars == <<vaultVars, fabricVars, now, saga, created, recalled, cited>>

(* The output of a committed memory.store.  The other two tools leave      *)
(* nothing to compensate and are no entry of the list.                     *)
Output == [memory_id: MemoryId, deduped: BOOLEAN]

Phases == {"open", "failing", "completed", "failed"}

ToolsTypeOK ==
    /\ VaultTypeOK
    /\ FabricTypeOK
    /\ now \in 0 .. MaxDay
    /\ \A a \in Agent : saga[a].phase \in Phases /\ saga[a].steps \in Seq(Output)
    /\ created \in [Agent -> SUBSET MemoryId]
    /\ recalled \subseteq MemoryId
    /\ cited \in [Agent -> SUBSET RecordId]

NewSaga == [phase |-> "open", steps |-> <<>>]

ToolsInit ==
    /\ VaultInit
    /\ FabricInit
    /\ now = 0
    /\ saga = [a \in Agent |-> NewSaga]
    /\ created = [a \in Agent |-> {}]
    /\ recalled = {}
    /\ cited = [a \in Agent |-> {}]

Open(a) == saga[a].phase = "open"

CommitStep(a, output) ==
    saga' = [saga EXCEPT ![a].steps = Append(@, output)]

Enter(a, phase) == saga' = [saga EXCEPT ![a].phase = phase]

(* Bound on the steps of a saga. *)
RoomForStep(a) == Len(saga[a].steps) < MaxSteps

-----------------------------------------------------------------------------
(* memory.store *)
Store(a, c, importance) ==
    /\ Open(a) /\ RoomForStep(a)
    /\ \/ \E i \in Existing(ScopeOf[a], c) :
             /\ Refresh(i, importance, now)
             /\ CommitStep(a, [memory_id |-> i, deduped |-> TRUE])
             /\ UNCHANGED created
       \/ /\ Existing(ScopeOf[a], c) = {}
          /\ Insert(ScopeOf[a], c, importance, now)
          /\ CommitStep(a, [memory_id |-> nmemories + 1, deduped |-> FALSE])
          /\ created' = [created EXCEPT ![a] = @ \cup {nmemories + 1}]
    /\ UNCHANGED <<fabricVars, now, recalled, cited>>

(* memory.recall *)
Recall(a, query) ==
    /\ Open(a)
    /\ \E hits \in SUBSET Matches(ScopeOf[a], query) :
          /\ AreBest(hits, ScopeOf[a], query, MaxHits, now)
          /\ Promote(hits, now)
          /\ recalled' = recalled \cup hits
    /\ UNCHANGED <<nmemories, fabricVars, now, saga, created, cited>>

(* knowledge.retrieve: too few citations fail the step, and the saga.      *)
Retrieve(a, query, licenses, requireFresh, minHits) ==
    /\ Open(a)
    /\ LET candidates == Servable(query, licenses, requireFresh, now)
       IN  \E hits \in SUBSET candidates :
             /\ AreHits(hits, candidates, query, MaxHits)
             /\ \/ /\ Grounded(hits, minHits)
                   /\ cited' = [cited EXCEPT ![a] = IF requireFresh THEN @ \cup hits ELSE @]
                   /\ UNCHANGED saga
                \/ /\ ~Grounded(hits, minHits)
                   /\ Enter(a, "failing")
                   /\ UNCHANGED cited
    /\ UNCHANGED <<vaultVars, records, nrecords, now, created, recalled>>

(* Any other step of the saga fails, or the agent ends it. *)
FailStep(a) ==
    /\ Open(a)
    /\ Enter(a, "failing")
    /\ UNCHANGED <<vaultVars, fabricVars, now, created, recalled, cited>>

Complete(a) ==
    /\ Open(a)
    /\ Enter(a, "completed")
    /\ UNCHANGED <<vaultVars, fabricVars, now, created, recalled, cited>>

Begin(a) ==
    /\ saga[a].phase \in {"completed", "failed"}
    /\ saga' = [saga EXCEPT ![a] = NewSaga]
    /\ created' = [created EXCEPT ![a] = {}]
    /\ cited' = [cited EXCEPT ![a] = {}]
    /\ UNCHANGED <<vaultVars, fabricVars, now, recalled>>

-----------------------------------------------------------------------------
\* mutant: what the step only refreshed is forgotten as well
UndoAlways(output) == Forget(output.memory_id)

\* mutant: a memory that has been used is left in place
UndoUnused(output) ==
    IF output.deduped \/ (output.memory_id \in Live /\ memories[output.memory_id].used)
    THEN UNCHANGED memories
    ELSE Forget(output.memory_id)

(* MemoryStoreTool::compensate: only what this step inserted. *)
UndoStore(output) ==
    IF output.deduped THEN UNCHANGED memories ELSE Forget(output.memory_id)

Compensate(a) ==
    /\ saga[a].phase = "failing"
    /\ saga[a].steps # <<>>
    /\ LET n == Len(saga[a].steps)
       IN  /\ UndoStore(saga[a].steps[n])
           /\ saga' = [saga EXCEPT ![a].steps = SubSeq(@, 1, n - 1)]
    /\ UNCHANGED <<nmemories, fabricVars, now, created, recalled, cited>>

FinishRollback(a) ==
    /\ saga[a].phase = "failing"
    /\ saga[a].steps = <<>>
    /\ Enter(a, "failed")
    /\ UNCHANGED <<vaultVars, fabricVars, now, created, recalled, cited>>

-----------------------------------------------------------------------------
(* The application that owns vault and fabric. *)
Decay(min, days) ==
    /\ Weak(min, days, now) # {}
    /\ PruneWeak(min, days, now)
    /\ UNCHANGED <<fabricVars, now, saga, created, recalled, cited>>

IngestRecord(c, license, ttl) ==
    /\ Ingest(c, license, ttl, now)
    /\ UNCHANGED <<vaultVars, now, saga, created, recalled, cited>>

Sweep ==
    /\ Due(now) # {}
    /\ QuarantineExpired(now)
    /\ UNCHANGED <<vaultVars, now, saga, created, recalled, cited>>

SetClock(day) ==
    /\ day # now
    /\ now' = day
    /\ UNCHANGED <<vaultVars, fabricVars, saga, created, recalled, cited>>

AgentStep(a) ==
    \/ \E c \in Text, importance \in Importance : Store(a, c, importance)
    \/ \E query \in Text : Recall(a, query)
    \/ \E query \in Text, licenses \in {License} \cup {{l} : l \in License},
          requireFresh \in BOOLEAN, minHits \in 1 .. MaxHits :
          Retrieve(a, query, licenses, requireFresh, minHits)
    \/ FailStep(a) \/ Complete(a) \/ Begin(a) \/ Compensate(a) \/ FinishRollback(a)

Maintenance ==
    \/ \E min \in PruneBelow : Decay(min, 0)
    \/ \E c \in Text, license \in License, ttl \in Ttl \cup {NoTtl} :
          IngestRecord(c, license, ttl)
    \/ Sweep
    \/ \E day \in 0 .. MaxDay : SetClock(day)

ToolsNext == (\E a \in Agent : AgentStep(a)) \/ Maintenance

ToolsSpec == ToolsInit /\ [][ToolsNext]_toolVars

-----------------------------------------------------------------------------
(* A saga that has failed leaves no memory it had inserted.                *)
FailedSagaLeavesNothing ==
    \A a \in Agent : saga[a].phase = "failed" => created[a] \cap Live = {}

(* A memory disappears while a saga rolls back only if that saga inserted  *)
(* it: what it merely refreshed, what others inserted and a text that was  *)
(* stored anew after decay stay.                                           *)
UndoSparesOthers ==
    [][\A a \in Agent :
          saga[a].phase = "failing" /\ saga'[a].phase = "failing" /\ saga'[a] # saga[a] =>
              \A i \in Live : memories'[i] = NoMemory => i \in created[a]]_toolVars

(* A memory an agent was given does not decay: once recalled it goes only  *)
(* with the rollback of the saga that inserted it.                         *)
RecalledNeverDecays ==
    [][\A i \in Live \cap recalled :
          memories'[i] = NoMemory => \E a \in Agent : i \in created[a] /\ saga'[a] # saga[a]]_toolVars

(* A record that was taken out of service is never cited as fresh again,   *)
(* even when the clock is set back to a day on which it was.               *)
WithdrawnStaysWithdrawn ==
    [][\A a \in Agent : \A d \in cited'[a] \ cited[a] : ~records[d].quarantined]_toolVars

(* The sweep and the retrieval agree on what is stale: a sweep changes     *)
(* nothing about what is served on the day it runs.                        *)
SweepChangesNoAnswer ==
    [][\A query \in Text :
          Due(now) # {} /\ records' # records /\ UNCHANGED nrecords =>
              Servable(query, License, TRUE, now)' = Servable(query, License, TRUE, now)]_toolVars
=============================================================================
