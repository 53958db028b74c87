--------------------------- MODULE SagaProperties ---------------------------
(***************************************************************************)
(* What the saga engine promises.  Each property names the situations it   *)
(* is claimed for; the MC configurations create those situations.          *)
(***************************************************************************)
EXTENDS SagaKernel

Status(i) == actions[i].status

(* Some kernel is at this point of a call, working on row i. *)
At(i, label) == \E k \in Kernel : pc[k] = label /\ call[k].cur = i

-----------------------------------------------------------------------------
(* The ledger never lies about the world, whatever crashes, failing        *)
(* statements or concurrent recoveries happen: an effect never precedes    *)
(* its row, a COMMITTED row did run, a COMPENSATED row really was undone   *)
(* and a dead letter is about something that ran.  (Wal::mark_* select by  *)
(* id alone, so nothing in the SQL enforces it.)                           *)
LedgerTruth ==
    \A i \in ActionId :
        /\ Status(i) = "NONE" => world[i] = "absent"
        /\ Status(i) = "COMMITTED" => world[i] # "absent"
        /\ Status(i) = "COMPENSATED" => world[i] = "undone"
        /\ i \in dlq => world[i] # "absent"

(* No row's tool is called twice, by any path: a retry, an approval, a     *)
(* recovery.  A row about to run never ran (execute_tool, approve_action). *)
RunsOnce == \A k \in Kernel : pc[k] = "execute" => world[call[k].cur] = "absent"

(* Without crashes and failing statements every effect in the world is     *)
(* accounted for: its row is COMMITTED, or about to be, or a dead letter.  *)
EffectsAccounted ==
    \A i \in ActionId :
        world[i] = "applied" =>
            \/ Status(i) = "COMMITTED"
            \/ At(i, "commit")
            \/ Status(i) = "FAILED" /\ (i \in dlq \/ At(i, "dlq"))
            \/ At(i, "orphan")

(* When a kernel has come to Failed, what its saga did is undone or handed *)
(* to the operators: no row of the session is left open, and a row whose   *)
(* effect stands has its dead letter (run_logged_step, reject_action).     *)
FailedMeansSettled ==
    \A k \in Kernel :
        fsm[k].mode = "Failed" /\ ~Running(k) =>
            \A s \in saga[k] : \A i \in Rows(s) :
                /\ Status(i) \in {"COMPENSATED", "FAILED"}
                /\ world[i] = "applied" => i \in dlq

(* An irreversible tool runs only for the action whose token an operator   *)
(* has approved (approve_action looks the row up by session and tool).     *)
ApprovalGate ==
    \A i \in ActionId :
        actions[i].tool \in Irreversible /\ world[i] # "absent" => i \in approved

(* The effects of a saga that is alive are not undone under it: only its   *)
(* own failure compensates them.                                           *)
LiveSagaIntact ==
    \A k \in Kernel :
        fsm[k].mode \in {"Planning", "ExecutingTool", "Verifying", "AwaitingApproval"} =>
            \A s \in saga[k] : \A i \in Rows(s) : world[i] # "undone"

(* A failed compensation is never silent: its row, FAILED with the output  *)
(* of its execution, has a dead letter.                                    *)
FailedCompensationInDlq ==
    \A i \in ActionId :
        Status(i) = "FAILED" /\ actions[i].out => i \in dlq \/ At(i, "dlq")

(* A step recorded FAILED that never committed has no effect to undo       *)
(* (recover_dangling takes an orphaned PENDING as never executed).         *)
FailedStepHasNoEffect ==
    \A i \in ActionId :
        Status(i) = "FAILED" /\ ~actions[i].out => world[i] = "absent"

(* What a saga had committed when it Completed stays: the recovery scan is *)
(* for sessions that were never finalised.                                 *)
CompletedStays == \A i \in finalised : world[i] = "applied"

(* A caller's key has at most one effect in its session, whatever is       *)
(* retried with it and whenever: a tool that waits for approval never      *)
(* meets the cache, and a row that failed has burnt its key.               *)
OneEffectPerKey ==
    \A s \in Session : \A i, j \in Rows(s) :
        i # j /\ world[i] # "absent" /\ world[j] # "absent" /\ actions[i].key # NoKey =>
            actions[i].key # actions[j].key

(* Outside of a rollback or a recovery that is still at work on it, a      *)
(* session with a dead letter says so in its status, whatever ran on it    *)
(* later (Wal::rollback, Wal::recover_dangling).                           *)
DeadLettersFlagged ==
    \A i \in dlq :
        \/ sessions[actions[i].session] = "RECOVERED_WITH_DLQ"
        \/ \E k \in Kernel : Running(k) /\ call[k].sess = actions[i].session

-----------------------------------------------------------------------------
(* A row's status only moves forward: COMPENSATED and FAILED rows are      *)
(* final, and COMMITTED is left only by a compensation.                    *)
Forward ==
    [old \in ActionStatus \cup {"NONE"} |->
        CASE old = "NONE"             -> {"PENDING", "PENDING_APPROVAL"}
          [] old = "PENDING"          -> {"COMMITTED", "FAILED"}
          [] old = "PENDING_APPROVAL" -> {"COMMITTED", "FAILED"}
          [] old = "COMMITTED"        -> {"COMPENSATED", "FAILED"}
          [] OTHER                    -> {}]

StatusMovesForward ==
    [][\A i \in ActionId :
          Status(i)' # Status(i) => Status(i)' \in Forward[Status(i)]]_actions

(* Compensation is LIFO: when a row's effect is undone, no later row of    *)
(* its session is still COMMITTED (committed_desc, ORDER BY step_seq DESC).*)
CompensationIsLifo ==
    [][\A i \in ActionId :
          world[i] = "applied" /\ world'[i] = "undone" =>
              \A j \in Committed(actions[i].session) :
                  actions[j].seq <= actions[i].seq]_world

(* A recovery scan that returns without an error leaves nothing dangling.  *)
RecoveryLeavesNothingDangling ==
    [][\A k \in Kernel :
          Recovering(k) /\ pc'[k] = "idle" /\ UNCHANGED budgetVars =>
              DanglingSessions' = {}]_vars

(* Every call returns: no rollback and no recovery scan runs for ever.     *)
CallsReturn == \A k \in Kernel : Running(k) ~> ~Running(k)

(* Once a rollback of its session has begun, a COMMITTED row comes to      *)
(* COMPENSATED or to the dead letter queue.                                *)
RollbackResolves ==
    \A i \in ActionId :
        (Status(i) = "COMMITTED" /\ \E k \in Kernel :
            pc[k] = "scan" /\ call[k].sess = actions[i].session)
        ~> (Status(i) = "COMPENSATED" \/ i \in dlq)

-----------------------------------------------------------------------------
(* The kernel implements the ledger of effects: row by row, with the output *)
(* column of a row as its confirmation.                                    *)
Ledger == INSTANCE EffectLedger WITH
    Id        <- ActionId,
    status    <- [i \in ActionId |-> actions[i].status],
    confirmed <- [i \in ActionId |-> actions[i].out],
    effect    <- world,
    letters   <- dlq

ImplementsLedger == Ledger!Spec

-----------------------------------------------------------------------------
(* The inductive strengthening of LedgerTruth.  Its heart is that the      *)
(* column output separates the rows that may still run from the rows that  *)
(* may be compensated: it is set once, by the commit of the one call that  *)
(* runs the row, and rollbacks only reach rows that have it.  For a row to *)
(* have one such call, no two kernels may use the same session.            *)
DisjointSessions ==
    \A j, k \in Kernel : j # k => SessionsOf[j] \cap SessionsOf[k] = {}

RowOK(i) ==
    /\ nrows < i => Status(i) = "NONE"
    /\ Status(i) = "NONE" => world[i] = "absent"
    /\ Status(i) \in {"NONE", "PENDING", "PENDING_APPROVAL"} => ~actions[i].out
    /\ Status(i) \in {"COMMITTED", "COMPENSATED"} => actions[i].out
    /\ Status(i) = "COMPENSATED" => world[i] = "undone"
    /\ actions[i].out => world[i] # "absent"
    /\ i \in dlq => actions[i].out

(* The row a step is about is its own: of one of the kernel's sessions,    *)
(* and without an output until this very call commits it.                  *)
StepOK(k) ==
    /\ pc[k] \in {"log", "execute", "commit", "fail"} => call[k].sess \in SessionsOf[k]
    /\ pc[k] \in {"execute", "commit", "fail"} =>
          /\ call[k].cur \in ActionId
          /\ actions[call[k].cur].session = call[k].sess
          /\ Status(call[k].cur) \in {"PENDING", "PENDING_APPROVAL", "FAILED"}
          /\ ~actions[call[k].cur].out
    /\ pc[k] = "commit" => world[call[k].cur] = "applied"

(* The rows a loop has left have been executed (rollback) or inserted      *)
(* (recovery), and the row it is at is one of them.                        *)
LoopOK(k) ==
    /\ pc[k] \in {"compensate", "undone", "orphan", "dlq"} =>
          \A i \in call[k].todo : actions[i].out
    /\ pc[k] = "undone" => world[call[k].cur] = "undone"
    /\ pc[k] = "pending" => \A i \in call[k].todo : Status(i) # "NONE"

CursorOK ==
    \A k \in Kernel : pc[k] \in {"undone", "orphan", "dlq"} => call[k].cur \in call[k].todo

LedgerInv ==
    /\ \A i \in ActionId : RowOK(i)
    /\ \A k \in Kernel : StepOK(k) /\ LoopOK(k)
    /\ CursorOK
=============================================================================
