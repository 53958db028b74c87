---------------------------- MODULE SessionReplay ----------------------------
(***************************************************************************)
(* SessionReplay of src/replay.rs and AuditExporter of src/audit.rs: what  *)
(* can be told about a session from its rows alone, while and after the    *)
(* kernel runs.  Both only read: they are operators on the rows, and the   *)
(* properties hold them against what the kernel really did.                *)
(***************************************************************************)
EXTENDS SagaProperties

(* Rows no replay goes past. *)
OpenRows(s) == WithStatus(s, "PENDING") \cup WithStatus(s, "PENDING_APPROVAL")

\* mutant: every FAILED row is taken for a failed execution
EndingByStatus(i) == Plain(IF Status(i) = "FAILED" THEN "ToolFailed" ELSE "ToolSucceeded")

(* How the execution of a row ended: FAILED with an output is one that     *)
(* succeeded and whose compensation failed.                                *)
Ending(i) ==
    Plain(IF Status(i) = "FAILED" /\ ~actions[i].out THEN "ToolFailed" ELSE "ToolSucceeded")

(* One row on the simulated state machine.  A refused event ends the       *)
(* replay: the history is incoherent.                                      *)
ReplayRow(path, i) ==
    LET begun == Transition(path.fsm, StartExecution(actions[i].tool))
    IN  IF path.ok /\ i \notin OpenRows(actions[i].session)
                   /\ Accepts(path.fsm, StartExecution(actions[i].tool))
        THEN [ok |-> TRUE, fsm |-> Transition(begun, Ending(i))]
        ELSE [path EXCEPT !.ok = FALSE]

(* The rows of s below sequence number n, in their order. *)
ReplayRows(s) ==
    LET path[n \in 0 .. MaxActions] ==
          IF n = 0
          THEN [ok |-> TRUE, fsm |-> Transition(Idle, Plain("StartPlanning"))]
          ELSE IF \E i \in Rows(s) : actions[i].seq = n - 1
               THEN ReplayRow(path[n - 1], CHOOSE i \in Rows(s) : actions[i].seq = n - 1)
               ELSE path[n - 1]
    IN  path[MaxActions]

(* replay_session: a simulation that ends in Compensating is closed.       *)
Replay(s) ==
    LET path == ReplayRows(s)
    IN  [ok |-> path.ok,
         final_status |-> IF path.fsm.mode = "Compensating"
                          THEN Transition(path.fsm, Plain("CompensationCompleted")).mode
                          ELSE path.fsm.mode,
         compensations |-> Cardinality(WithStatus(s, "COMPENSATED"))]

(* The status code of a row's span: 0 unset, 1 ok, 2 error. *)
SpanCode(i) ==
    CASE Status(i) \in {"COMMITTED", "COMPENSATED"}      -> 1
      [] Status(i) = "FAILED"                            -> 2
      [] OTHER                                           -> 0

\* mutant: the attribute looks at the row itself
OwnRollback(i) == Status(i) = "COMPENSATED"

(* agent.rollback.triggered of a row's span. *)
RollbackTriggered(i) ==
    /\ WithStatus(actions[i].session, "COMPENSATED") # {}
    /\ Status(i) # "PENDING"

-----------------------------------------------------------------------------
(* At every moment of a saga that is a session's only one the replay and   *)
(* the kernel agree: it is refused exactly while a step is open, it says   *)
(* Failed exactly when the kernel is failing or Failed, and it counts no   *)
(* compensation that did not happen and, at rest, misses none.             *)
ReplayAgrees ==
    \A k \in Kernel : \A s \in saga[k] :
        Rows(s) # {} =>
            LET r == Replay(s)
                undone == Cardinality({i \in Rows(s) : world[i] = "undone"})
            IN  /\ r.ok <=> OpenRows(s) = {}
                /\ r.ok => (r.final_status = "Failed" <=> fsm[k].mode \in {"Compensating", "Failed"})
                /\ r.compensations <= undone
                /\ ~Running(k) => r.compensations = undone

(* The exported spans of a saga at rest show it: an error span exactly     *)
(* when it Failed, one for every dead letter, and the rollback mark on all *)
(* spans as soon as one effect was undone.                                 *)
AuditAgrees ==
    \A k \in Kernel : \A s \in saga[k] :
        ~Running(k) =>
            /\ fsm[k].mode = "Failed" <=> \E i \in Rows(s) : SpanCode(i) = 2
            /\ \A i \in Rows(s) \cap dlq : SpanCode(i) = 2
            /\ \A i, j \in Rows(s) : world[j] = "undone" => RollbackTriggered(i)
=============================================================================
