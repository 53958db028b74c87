---------------------------- MODULE MemoryVault -----------------------------
(***************************************************************************)
(* MemoryVault of src/memory.rs: the table memories and its operations,    *)
(* one per lock section.  Of access_count only "is it 0" is kept, the only *)
(* thing any code asks.                                                    *)
(***************************************************************************)
EXTENDS Lexicon

CONSTANTS
    Scope,              \* triples (tenant, agent, user_id)
    MaxMemories         \* bound: rows ever inserted

ASSUME VaultAssumption ==
    MaxMemories \in Nat

VARIABLES
    memories,           \* id -> row, NoMemory where there is none
    nmemories           \* ids handed out (fresh UUIDs)

vaultVars == <<memories, nmemories>>

MemoryId == 1 .. MaxMemories

Memory == [scope: Scope, content: Text, importance: 0 .. 100, used: BOOLEAN,
           updated: Int, accessed: Int]

NoMemory == [content |-> NoText]

VaultTypeOK ==
    /\ memories \in [MemoryId -> Memory \cup {NoMemory}]
    /\ nmemories \in 0 .. MaxMemories

VaultInit ==
    /\ memories = [i \in MemoryId |-> NoMemory]
    /\ nmemories = 0

Live == {i \in MemoryId : memories[i] # NoMemory}

InScope(s) == {i \in Live : memories[i].scope = s}

-----------------------------------------------------------------------------
\* mutant: the caller's importance is stored as it is
KeepImportance(v) == v

ClampImportance(v) == IF v < 0 THEN 0 ELSE IF v > 100 THEN 100 ELSE v

Existing(s, c) == {i \in InScope(s) : memories[i].content = c}

Merge(old, new) == IF new > old THEN new ELSE old

(* A text that the scope has already is refreshed ... *)
Refresh(i, importance, now) ==
    /\ memories' = [memories EXCEPT
          ![i].importance = Merge(@, ClampImportance(importance)),
          ![i].updated = now, ![i].accessed = now]
    /\ UNCHANGED nmemories

(* ... any other gets a row of its own. *)
Insert(s, c, importance, now) ==
    /\ nmemories < MaxMemories
    /\ nmemories' = nmemories + 1
    /\ memories' = [memories EXCEPT ![nmemories + 1] =
          [scope |-> s, content |-> c, importance |-> ClampImportance(importance),
           used |-> FALSE, updated |-> now, accessed |-> now]]

-----------------------------------------------------------------------------
RecencyBonus(age) == IF age <= 1 THEN 2 ELSE IF age <= 7 THEN 1 ELSE 0

Score(i, query, now) ==
    Overlap[query][memories[i].content] * 10
        + memories[i].importance \div 20 + RecencyBonus(now - memories[i].accessed)

Matches(s, query) == {i \in InScope(s) : Overlap[query][memories[i].content] >= 1}

(* The hits: the first n by score.  Ids are random, so that rows of equal  *)
(* score may come in any order.                                            *)
AreBest(hits, s, query, n, now) ==
    /\ hits \subseteq Matches(s, query)
    /\ Cardinality(hits) <= n
    /\ \A j \in Matches(s, query) \ hits :
          /\ Cardinality(hits) = n
          /\ \A i \in hits : Score(i, query, now) >= Score(j, query, now)

\* mutant: the time of the access is recorded, the access is not counted
Touch(hits, now) ==
    memories' = [i \in MemoryId |->
        IF i \in hits THEN [memories[i] EXCEPT !.accessed = now] ELSE memories[i]]

Promote(hits, now) ==
    memories' = [i \in MemoryId |->
        IF i \in hits THEN [memories[i] EXCEPT !.used = TRUE, !.accessed = now]
                      ELSE memories[i]]

-----------------------------------------------------------------------------
Forget(i) == memories' = [memories EXCEPT ![i] = NoMemory]

Weak(min, days, now) ==
    {i \in Live : /\ memories[i].importance < min
                  /\ ~memories[i].used
                  /\ now - memories[i].updated > days}

PruneWeak(min, days, now) ==
    /\ memories' = [i \in MemoryId |-> IF i \in Weak(min, days, now) THEN NoMemory ELSE memories[i]]
    /\ UNCHANGED nmemories
=============================================================================
