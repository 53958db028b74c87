-------------------------- MODULE KnowledgeFabric ---------------------------
(***************************************************************************)
(* KnowledgeFabric of src/knowledge.rs: the table knowledge_records, which *)
(* is only ever inserted into and quarantined.                             *)
(***************************************************************************)
EXTENDS Lexicon

CONSTANTS
    License,
    Ttl, NoTtl,         \* lifetimes in days, NoTtl for none
    MaxRecords          \* bound: rows ever inserted

ASSUME FabricAssumption ==
    /\ Ttl \subseteq Int
    /\ NoTtl \notin Ttl
    /\ MaxRecords \in Nat

VARIABLES
    records,            \* id -> row
    nrecords

fabricVars == <<records, nrecords>>

RecordId == 1 .. MaxRecords

Record == [content: Text, license: License, ttl: Ttl \cup {NoTtl},
           quarantined: BOOLEAN, updated: Int]

NoRecord == [content |-> NoText]

FabricTypeOK ==
    /\ records \in [RecordId -> Record \cup {NoRecord}]
    /\ nrecords \in 0 .. MaxRecords

FabricInit ==
    /\ records = [d \in RecordId |-> NoRecord]
    /\ nrecords = 0

Ingested == 1 .. nrecords

-----------------------------------------------------------------------------
Ingest(c, license, ttl, now) ==
    /\ nrecords < MaxRecords
    /\ nrecords' = nrecords + 1
    /\ records' = [records EXCEPT ![nrecords + 1] =
          [content |-> c, license |-> license, ttl |-> ttl,
           quarantined |-> FALSE, updated |-> now]]

\* mutant: the quarantine flag is not looked at
IsExpired(d, now) ==
    records[d].ttl # NoTtl /\ now - records[d].updated > records[d].ttl

(* The lifetime as retrieve tests it, in Rust ... *)
IsStale(d, now) ==
    \/ records[d].quarantined
    \/ records[d].ttl # NoTtl /\ now - records[d].updated > records[d].ttl

\* mutant: a record is over on the very day its lifetime ends
DueToday(now) ==
    {d \in Ingested : /\ ~records[d].quarantined
                      /\ records[d].ttl # NoTtl
                      /\ now - records[d].updated >= records[d].ttl}

(* ... and as quarantine_expired tests it, in SQL. *)
Due(now) ==
    {d \in Ingested : /\ ~records[d].quarantined
                      /\ records[d].ttl # NoTtl
                      /\ now - records[d].updated > records[d].ttl}

QuarantineExpired(now) ==
    /\ records' = [d \in RecordId |->
          IF d \in Due(now) THEN [records[d] EXCEPT !.quarantined = TRUE] ELSE records[d]]
    /\ UNCHANGED nrecords

-----------------------------------------------------------------------------
(* retrieve_at: the records that pass the gates of a policy ... *)
Servable(query, licenses, requireFresh, now) ==
    {d \in Ingested : /\ records[d].license \in licenses
                      /\ requireFresh => ~IsStale(d, now)
                      /\ Overlap[query][records[d].content] >= 1}

(* ... of which the first n by score are the hits.  Records with equal     *)
(* score and source come in any order.                                     *)
AreHits(hits, candidates, query, n) ==
    /\ hits \subseteq candidates
    /\ Cardinality(hits) <= n
    /\ \A j \in candidates \ hits :
          /\ Cardinality(hits) = n
          /\ \A d \in hits :
                Overlap[query][records[d].content] >= Overlap[query][records[j].content]

(* require_grounded *)
Grounded(hits, minHits) == Cardinality(hits) >= minHits /\ Cardinality(hits) >= 1
=============================================================================
