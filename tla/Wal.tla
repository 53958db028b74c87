-------------------------------- MODULE Wal --------------------------------
(***************************************************************************)
(* The write-ahead log of src/wal.rs: the tables sessions, actions and     *)
(* dead_letter_queue, and one operator per statement that one lock section *)
(* runs.  These variables are the durable state: a crash leaves them as    *)
(* they are.                                                               *)
(*                                                                         *)
(* Abstracted: args, output, error and timestamps of a row.  Of the output *)
(* only its presence is kept (IS NOT NULL).  A caller's idempotency key is *)
(* a member of Key; NoKey stands for the default "session:seq:tool", which *)
(* repeats only when (session, seq) does.  dlq holds the ids of the rows   *)
(* with an entry: entries are inserted UNRESOLVED and never updated.       *)
(***************************************************************************)
EXTENDS Naturals

CONSTANTS
    Session, NoSession,
    Tool, NoTool,
    Key, NoKey,
    MaxActions          \* bound: rows ever inserted

ASSUME WalAssumption ==
    /\ NoSession \notin Session
    /\ NoTool \notin Tool
    /\ NoKey \notin Key
    /\ MaxActions \in Nat

VARIABLES
    actions,            \* row id -> row
    nrows,              \* last AUTOINCREMENT id
    sessions,           \* session -> status, "NONE" when there is no row
    dlq                 \* ids of actions with an UNRESOLVED entry

walVars == <<actions, nrows, sessions, dlq>>

ActionId == 1 .. MaxActions

ActionStatus == {"PENDING", "COMMITTED", "COMPENSATED", "FAILED", "PENDING_APPROVAL"}

SessionStatus == {"NONE", "ACTIVE", "RECOVERED", "RECOVERED_WITH_DLQ"}

Row == [session: Session \cup {NoSession}, seq: Nat, tool: Tool \cup {NoTool},
        key: Key \cup {NoKey}, status: ActionStatus \cup {"NONE"}, out: BOOLEAN]

NoRow == [session |-> NoSession, seq |-> 0, tool |-> NoTool,
          key |-> NoKey, status |-> "NONE", out |-> FALSE]

WalTypeOK ==
    /\ actions \in [ActionId -> Row]
    /\ nrows \in 0 .. MaxActions
    /\ sessions \in [Session -> SessionStatus]
    /\ dlq \subseteq ActionId

WalInit ==
    /\ actions = [i \in ActionId |-> NoRow]
    /\ nrows = 0
    /\ sessions = [s \in Session |-> "NONE"]
    /\ dlq = {}

-----------------------------------------------------------------------------
(* Queries. *)

Rows(s) == {i \in ActionId : actions[i].session = s}

WithStatus(s, st) == {i \in Rows(s) : actions[i].status = st}

(* The rows of S in the order of "ORDER BY step_seq": S's first, S's last. *)
IsFirst(i, S) == i \in S /\ \A j \in S : actions[i].seq <= actions[j].seq

\* mutant: ascending order
IsLastAscending(i, S) == IsFirst(i, S)

IsLast(i, S) == i \in S /\ \A j \in S : actions[j].seq <= actions[i].seq

(* n is one more than the highest sequence number of s, 0 when s is empty. *)
IsNextSeq(s, n) ==
    /\ \A i \in Rows(s) : actions[i].seq < n
    /\ n = 0 \/ \E i \in Rows(s) : actions[i].seq + 1 = n

\* mutant: the query has no session filter
CommittedAnywhere(s) == {i \in ActionId : actions[i].status = "COMMITTED"}

\* mutant: rows that have not been confirmed are compensated too
CommittedOrPending(s) == WithStatus(s, "COMMITTED") \cup WithStatus(s, "PENDING")

(* committed_desc: the rows a rollback compensates. *)
Committed(s) == WithStatus(s, "COMMITTED")

\* mutant: every row that is not COMMITTED
NotCommitted(s) == Rows(s) \ Committed(s)

(* The rows a recovery takes for interrupted. *)
Orphans(s) == WithStatus(s, "PENDING")

(* The one row of s under a caller's key, with a cached result to return. *)
IdempotentHit(s, key) ==
    /\ key # NoKey
    /\ \E i \in Committed(s) : actions[i].key = key /\ actions[i].out

(* The row an approval or a rejection acts on: the latest one parked.      *)
IsPendingApproval(s, t, i) ==
    IsLast(i, {j \in WithStatus(s, "PENDING_APPROVAL") : actions[j].tool = t})

DanglingSessions == {s \in Session : Orphans(s) \cup Committed(s) # {}}

(* The INSERT is refused: idempotency_key is UNIQUE in the whole table,    *)
(* and so is the pair (session_id, step_seq).                              *)
KeyTaken(key) == key # NoKey /\ \E i \in ActionId : actions[i].key = key

\* mutant: keys are only looked up in the cache
SeqTaken(s, seq, key) == \E i \in Rows(s) : actions[i].seq = seq

UniqueViolation(s, seq, key) ==
    KeyTaken(key) \/ \E i \in Rows(s) : actions[i].seq = seq

-----------------------------------------------------------------------------
(* Statements. *)

(* INSERT OR IGNORE: an existing session keeps its status. *)
CreateSession(s) ==
    sessions' = [sessions EXCEPT ![s] = IF @ = "NONE" THEN "ACTIVE" ELSE @]

InsertAction(s, seq, t, key, st) ==
    /\ nrows < MaxActions
    /\ nrows' = nrows + 1
    /\ actions' = [actions EXCEPT ![nrows + 1] =
          [session |-> s, seq |-> seq, tool |-> t, key |-> key, status |-> st, out |-> FALSE]]

(* The UPDATEs select the row by id alone, whatever its status is. *)
MarkCommitted(i) ==
    actions' = [actions EXCEPT ![i].status = "COMMITTED", ![i].out = TRUE]

MarkFailed(i) == actions' = [actions EXCEPT ![i].status = "FAILED"]

MarkCompensated(i) == actions' = [actions EXCEPT ![i].status = "COMPENSATED"]

\* mutant: a failed compensation is recorded as done
MarkUndoneAnyway(i) == MarkCompensated(i)

MarkCompensationFailed(i) == MarkFailed(i)

\* mutant: a status outside of the documented ones
SetUnknownStatus(s, st) == sessions' = [sessions EXCEPT ![s] = "FAILED"]

SetSessionStatus(s, st) == sessions' = [sessions EXCEPT ![s] = st]

\* mutant: nothing is recorded
SkipDlq(i) == UNCHANGED dlq

RecordDlq(i) == dlq' = dlq \cup {i}
=============================================================================
