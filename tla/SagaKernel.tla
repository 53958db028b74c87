----------------------------- MODULE SagaKernel -----------------------------
(***************************************************************************)
(* AgentKernel (src/dispatcher.rs) driving the write-ahead log (Wal) and   *)
(* the agent state machine (AgentFsm), with Wal::rollback and              *)
(* Wal::recover_dangling of src/wal.rs.                                    *)
(*                                                                         *)
(* A kernel runs one call at a time (&mut self).  pc[k] is the point the   *)
(* call has reached; one step is what happens between two points where     *)
(* another process can run: a lock section on the database, or an await on *)
(* a tool.  Several kernels, each in a process of its own or not, share    *)
(* the database.  A crash loses fsm, pc and call, and nothing else.        *)
(*                                                                         *)
(* world[i] is the external effect of row i's tool, which no table holds.  *)
(* A tool that fails leaves no effect and a compensation that fails undoes *)
(* nothing: that is the contract of src/traits.rs, and external here.      *)
(***************************************************************************)
EXTENDS Wal, FiniteSets

INSTANCE AgentFsm

CONSTANTS
    Kernel,             \* kernels, one per agent process
    Irreversible,       \* tools with is_irreversible() = true
    Registry,           \* kernel -> tools registered in it
    SessionsOf,         \* kernel -> sessions its caller names
    OneSessionPerSaga,  \* callers keep to one fresh session per saga
    ExclusiveRecovery,  \* the recovery scan runs at boot, before any saga
    MaxCrashes,         \* bound: process crashes
    MaxFaults           \* bound: database statements that fail

ASSUME KernelAssumption ==
    /\ Irreversible \subseteq Tool
    /\ Registry \in [Kernel -> SUBSET Tool]
    /\ SessionsOf \in [Kernel -> SUBSET Session]
    /\ OneSessionPerSaga \in BOOLEAN
    /\ ExclusiveRecovery \in BOOLEAN
    /\ MaxCrashes \in Nat
    /\ MaxFaults \in Nat

VARIABLES
    fsm,                \* kernel -> AgentState
    pc,                 \* kernel -> point reached by the call in progress
    call,               \* kernel -> locals of that call
    world,              \* row id -> external effect of its tool
    saga,               \* ghost: kernel -> sessions its saga has written to
    approved,           \* ghost: rows whose token an operator has approved
    finalised,          \* ghost: rows committed when their saga Completed
    crashes, faults     \* crashes and faults so far

kernelVars == <<fsm, pc, call>>
ghostVars == <<saga, approved, finalised>>
budgetVars == <<crashes, faults>>
vars == <<walVars, kernelVars, world, ghostVars, budgetVars>>

Label == {"idle", "log", "execute", "commit", "fail",
          "scan", "compensate", "undone", "orphan", "dlq", "end",
          "next", "pending", "settle"}

(* ret is the caller of the code that is running: a tool step, a rejection *)
(* or the recovery scan.  todo is the list of rows a loop has left, failed *)
(* whether a compensation has failed, dangling the sessions to recover.    *)
Call == [sess: Session \cup {NoSession}, seq: Nat, key: Key \cup {NoKey},
         cur: Nat, todo: SUBSET ActionId, failed: BOOLEAN,
         ret: {"step", "reject", "recover"}, dangling: SUBSET Session]

NewCall(ret, s, n, key, i) ==
    [sess |-> s, seq |-> n, key |-> key, cur |-> i, todo |-> {},
     failed |-> FALSE, ret |-> ret, dangling |-> {}]

NoCall == NewCall("step", NoSession, 0, NoKey, 0)

TypeOK ==
    /\ WalTypeOK
    /\ fsm \in [Kernel -> AgentState]
    /\ pc \in [Kernel -> Label]
    /\ call \in [Kernel -> Call]
    /\ world \in [ActionId -> {"absent", "applied", "undone"}]
    /\ saga \in [Kernel -> SUBSET Session]
    /\ approved \subseteq Nat
    /\ finalised \subseteq ActionId
    /\ crashes \in 0 .. MaxCrashes
    /\ faults \in 0 .. MaxFaults

Init ==
    /\ WalInit
    /\ fsm = [k \in Kernel |-> Idle]
    /\ pc = [k \in Kernel |-> "idle"]
    /\ call = [k \in Kernel |-> NoCall]
    /\ world = [i \in ActionId |-> "absent"]
    /\ saga = [k \in Kernel |-> {}]
    /\ approved = {}
    /\ finalised = {}
    /\ crashes = 0
    /\ faults = 0

-----------------------------------------------------------------------------
(* Vocabulary of the actions. *)

Goto(k, label) == pc' = [pc EXCEPT ![k] = label]

Fire(k, event) == fsm' = [fsm EXCEPT ![k] = Transition(@, event)]

Return(k) == Goto(k, "idle") /\ call' = [call EXCEPT ![k] = NoCall]

Fault == faults < MaxFaults /\ faults' = faults + 1

Running(k) == pc[k] # "idle"

Recovering(k) == Running(k) /\ call[k].ret = "recover"

(* Bound: every call that is about to insert a row finds room for it. *)
RoomForRow == nrows + Cardinality({j \in Kernel : pc[j] = "log"}) < MaxActions

NoApproval(t) == FALSE  \* mutant: no two-phase commit

NeedsApproval(t) == t \in Irreversible

(* A caller names a session; under OneSessionPerSaga its saga has no other *)
(* one and the session had no rows before.                                 *)
MayUse(k, s) ==
    /\ s \in SessionsOf[k]
    /\ OneSessionPerSaga => saga[k] = {s} \/ (saga[k] = {} /\ Rows(s) = {})

-----------------------------------------------------------------------------
(* Calls that only move the state machine. *)

BeginPlanning(k) ==
    /\ ~Running(k)
    /\ ExclusiveRecovery => \A j \in Kernel : ~Recovering(j)
    /\ Accepts(fsm[k], Plain("StartPlanning"))
    /\ Fire(k, Plain("StartPlanning"))
    /\ UNCHANGED <<walVars, pc, call, world, ghostVars, budgetVars>>

BeginTool(k, t) ==
    /\ ~Running(k)
    /\ Accepts(fsm[k], StartExecution(t))
    /\ Fire(k, StartExecution(t))
    /\ UNCHANGED <<walVars, pc, call, world, ghostVars, budgetVars>>

(* Only the state machine learns that the saga is over: no row and no      *)
(* session status changes.                                                 *)
Complete(k) ==
    /\ ~Running(k)
    /\ Accepts(fsm[k], Plain("ValidationPassed"))
    /\ Fire(k, Plain("ValidationPassed"))
    /\ finalised' = finalised \cup UNION {Committed(s) : s \in saga[k]}
    /\ UNCHANGED <<walVars, pc, call, world, saga, approved, budgetVars>>

(* AgentKernel::new in place of a kernel that has ended. *)
NewKernel(k) ==
    /\ ~Running(k)
    /\ Terminal(fsm[k])
    /\ fsm' = [fsm EXCEPT ![k] = Idle]
    /\ saga' = [saga EXCEPT ![k] = {}]
    /\ UNCHANGED <<walVars, pc, call, world, approved, finalised, budgetVars>>

-----------------------------------------------------------------------------
(* execute_tool.  A call the state machine does not authorise, one the     *)
(* security guard refuses and one for a tool not in the registry return    *)
(* their error and change nothing: they are no step.                       *)

(* A repeated key of the session returns the cached output. *)
ReturnCached(k, t, s, key) ==
    /\ ~Running(k)
    /\ MayUse(k, s)
    /\ CanExecuteTool(fsm[k], t)
    /\ t \in Registry[k] /\ ~NeedsApproval(t)
    /\ IdempotentHit(s, key)
    /\ Fire(k, Plain("ToolSucceeded"))
    /\ UNCHANGED <<walVars, pc, call, world, ghostVars, budgetVars>>

(* Otherwise the next sequence number is read, under a lock of its own.    *)
(* Merging this read with the key lookup loses nothing: a row that slips   *)
(* in between them makes the INSERT fail or leaves the lookup unchanged.   *)
ExecuteTool(k, t, s, key) ==
    /\ ~Running(k)
    /\ RoomForRow
    /\ MayUse(k, s)
    /\ CanExecuteTool(fsm[k], t)
    /\ t \in Registry[k]
    /\ NeedsApproval(t) \/ ~IdempotentHit(s, key)
    /\ \E n \in 0 .. MaxActions :
          /\ IsNextSeq(s, n)
          /\ call' = [call EXCEPT ![k] = NewCall("step", s, n, key, 0)]
    /\ saga' = [saga EXCEPT ![k] = @ \cup {s}]
    /\ Goto(k, "log")
    /\ UNCHANGED <<walVars, fsm, world, approved, finalised, budgetVars>>

(* log_action: the row exists before the tool runs. *)
LogAction(k) ==
    /\ pc[k] = "log"
    /\ ~NeedsApproval(fsm[k].tool)
    /\ ~UniqueViolation(call[k].sess, call[k].seq, call[k].key)
    /\ CreateSession(call[k].sess)
    /\ InsertAction(call[k].sess, call[k].seq, fsm[k].tool, call[k].key, "PENDING")
    /\ call' = [call EXCEPT ![k].cur = nrows + 1]
    /\ Goto(k, "execute")
    /\ UNCHANGED <<dlq, fsm, world, ghostVars, budgetVars>>

(* log_pending_approval: the tool does not run.  The token the operator    *)
(* gets is fresh, like the row's id, and stands for it.                    *)
ParkForApproval(k) ==
    /\ pc[k] = "log"
    /\ NeedsApproval(fsm[k].tool)
    /\ ~UniqueViolation(call[k].sess, call[k].seq, call[k].key)
    /\ CreateSession(call[k].sess)
    /\ InsertAction(call[k].sess, call[k].seq, fsm[k].tool, call[k].key, "PENDING_APPROVAL")
    /\ Fire(k, RequireApproval(fsm[k].tool, nrows + 1))
    /\ Return(k)
    /\ UNCHANGED <<dlq, world, ghostVars, budgetVars>>

(* The INSERT violates a UNIQUE constraint: the call returns the error and *)
(* the kernel stays in ExecutingTool.                                      *)
LogRefused(k) ==
    /\ pc[k] = "log"
    /\ UniqueViolation(call[k].sess, call[k].seq, call[k].key)
    /\ CreateSession(call[k].sess)
    /\ Return(k)
    /\ UNCHANGED <<actions, nrows, dlq, fsm, world, ghostVars, budgetVars>>

LogFault(k) ==
    /\ pc[k] = "log"
    /\ Fault
    /\ UNCHANGED sessions \/ CreateSession(call[k].sess)
    /\ Return(k)
    /\ UNCHANGED <<actions, nrows, dlq, fsm, world, ghostVars, crashes>>

-----------------------------------------------------------------------------
(* run_logged_step. *)

ToolOk(k) ==
    /\ pc[k] = "execute"
    /\ world' = [world EXCEPT ![call[k].cur] = "applied"]
    /\ Goto(k, "commit")
    /\ UNCHANGED <<walVars, fsm, call, ghostVars, budgetVars>>

ToolError(k) ==
    /\ pc[k] = "execute"
    /\ Goto(k, "fail")
    /\ UNCHANGED <<walVars, fsm, call, world, ghostVars, budgetVars>>

CommitStep(k) ==
    /\ pc[k] = "commit"
    /\ MarkCommitted(call[k].cur)
    /\ Fire(k, Plain("ToolSucceeded"))
    /\ Return(k)
    /\ UNCHANGED <<nrows, sessions, dlq, world, ghostVars, budgetVars>>

\* mutant: the step is run again when its result cannot be recorded
CommitFaultRetries(k) ==
    /\ pc[k] = "commit"
    /\ Fault
    /\ Goto(k, "execute")
    /\ UNCHANGED <<walVars, fsm, call, world, ghostVars, crashes>>

(* The "?" on mark_committed: the call returns with the effect in place,   *)
(* the row PENDING and the kernel in ExecutingTool.                        *)
CommitFault(k) ==
    /\ pc[k] = "commit"
    /\ Fault
    /\ Return(k)
    /\ UNCHANGED <<walVars, fsm, world, ghostVars, crashes>>

(* An error of mark_failed is logged and the rollback goes on. *)
FailStep(k) ==
    /\ pc[k] = "fail"
    /\ \/ MarkFailed(call[k].cur) /\ UNCHANGED faults
       \/ Fault /\ UNCHANGED actions
    /\ Fire(k, Plain("ToolFailed"))
    /\ Goto(k, "scan")
    /\ UNCHANGED <<nrows, sessions, dlq, call, world, ghostVars, crashes>>

-----------------------------------------------------------------------------
(* Wal::rollback, for a failed step, a rejection or the recovery scan.     *)

(* Control after the last row.  A missing session ends the rollback too:   *)
(* its error changes no more than the empty list does.                     *)
LoopLabel(todo) == IF todo = {} THEN "end" ELSE "compensate"

ScanCommitted(k) ==
    /\ pc[k] = "scan"
    /\ call' = [call EXCEPT ![k].todo = Committed(call[k].sess), ![k].failed = FALSE]
    /\ Goto(k, LoopLabel(Committed(call[k].sess)))
    /\ UNCHANGED <<walVars, fsm, world, ghostVars, budgetVars>>

(* compensate() cannot be called: no such tool here, or no output. *)
NotCompensable(k, i) == actions[i].tool \notin Registry[k] \/ ~actions[i].out

CompensateOk(k) ==
    /\ pc[k] = "compensate"
    /\ \E i \in call[k].todo :
          /\ IsLast(i, call[k].todo)
          /\ ~NotCompensable(k, i)
          /\ world' = [world EXCEPT ![i] = "undone"]
          /\ call' = [call EXCEPT ![k].cur = i]
    /\ Goto(k, "undone")
    /\ UNCHANGED <<walVars, fsm, ghostVars, budgetVars>>

(* The tool is missing, or its compensate() returns an error. *)
CompensateError(k) ==
    /\ pc[k] = "compensate"
    /\ \E i \in call[k].todo :
          /\ IsLast(i, call[k].todo)
          /\ call' = [call EXCEPT ![k].cur = i]
    /\ Goto(k, "orphan")
    /\ UNCHANGED <<walVars, fsm, world, ghostVars, budgetVars>>

\* mutant: the first failed compensation ends the loop
NextRowUnlessFailed(k, failed) ==
    /\ call' = [call EXCEPT ![k].todo = @ \ {call[k].cur}, ![k].failed = failed]
    /\ Goto(k, IF failed THEN "end" ELSE LoopLabel(call[k].todo \ {call[k].cur}))

\* mutant: a row whose compensation failed is tried again
NextRowRetries(k, failed) ==
    LET left == IF failed THEN call[k].todo ELSE call[k].todo \ {call[k].cur}
    IN  /\ call' = [call EXCEPT ![k].todo = left, ![k].failed = failed]
        /\ Goto(k, LoopLabel(left))

NextRow(k, failed) ==
    LET left == call[k].todo \ {call[k].cur}
    IN  /\ call' = [call EXCEPT ![k].todo = left, ![k].failed = failed]
        /\ Goto(k, LoopLabel(left))

RecordUndone(k) ==
    /\ pc[k] = "undone"
    /\ MarkCompensated(call[k].cur)
    /\ NextRow(k, call[k].failed)
    /\ UNCHANGED <<nrows, sessions, dlq, fsm, world, ghostVars, budgetVars>>

RecordOrphan(k) ==
    /\ pc[k] = "orphan"
    /\ MarkCompensationFailed(call[k].cur)
    /\ Goto(k, "dlq")
    /\ UNCHANGED <<nrows, sessions, dlq, fsm, call, world, ghostVars, budgetVars>>

RecordInDlq(k) ==
    /\ pc[k] = "dlq"
    /\ RecordDlq(call[k].cur)
    /\ NextRow(k, TRUE)
    /\ UNCHANGED <<actions, nrows, sessions, fsm, world, ghostVars, budgetVars>>

(* What the caller of the rollback does with its result: the step closes   *)
(* the state machine whatever it is, the rejection returns it.             *)
ReturnToCaller(k) ==
    /\ Return(k)
    /\ IF call[k].ret = "step"
       THEN Fire(k, Plain("CompensationCompleted"))
       ELSE UNCHANGED fsm

(* The recovery scan goes on to set the status of the session. *)
FinishRollback(k) ==
    IF call[k].ret = "recover"
    THEN Goto(k, "settle") /\ UNCHANGED <<fsm, call>>
    ELSE ReturnToCaller(k)

(* A failed set_session_status is only logged. *)
EndRollback(k) ==
    /\ pc[k] = "end"
    /\ \/ /\ call[k].failed
          /\ SetSessionStatus(call[k].sess, "RECOVERED_WITH_DLQ")
          /\ UNCHANGED faults
       \/ ~call[k].failed /\ UNCHANGED <<sessions, faults>>
       \/ call[k].failed /\ Fault /\ UNCHANGED sessions
    /\ FinishRollback(k)
    /\ UNCHANGED <<actions, nrows, dlq, world, ghostVars, crashes>>

(* The "?" on every other statement of the rollback gives the loop up. *)
RollbackFault(k) ==
    /\ pc[k] \in {"scan", "undone", "orphan", "dlq"}
    /\ Fault
    /\ ReturnToCaller(k)
    /\ UNCHANGED <<walVars, world, ghostVars, crashes>>

-----------------------------------------------------------------------------
(* The operator's decisions on a parked action.  A wrong token, and an     *)
(* approval that finds no parked row, change nothing.                      *)

ApproveAction(k, s) ==
    /\ ~Running(k)
    /\ MayUse(k, s)
    /\ fsm[k].mode = "AwaitingApproval"
    /\ fsm[k].tool \in Registry[k]
    /\ \E i \in ActionId :
          /\ IsPendingApproval(s, fsm[k].tool, i)
          /\ call' = [call EXCEPT ![k] =
                NewCall("step", s, actions[i].seq, actions[i].key, i)]
    /\ approved' = approved \cup {fsm[k].token}
    /\ Fire(k, ApproveExecution(fsm[k].token))
    /\ Goto(k, "execute")
    /\ UNCHANGED <<walVars, world, saga, finalised, budgetVars>>

RejectAction(k, s) ==
    /\ ~Running(k)
    /\ MayUse(k, s)
    /\ fsm[k].mode = "AwaitingApproval"
    /\ \/ \E i \in ActionId : IsPendingApproval(s, fsm[k].tool, i) /\ MarkFailed(i)
       \/ ~(\E i \in ActionId : IsPendingApproval(s, fsm[k].tool, i)) /\ UNCHANGED actions
    /\ Fire(k, RejectExecution(fsm[k].token))
    /\ call' = [call EXCEPT ![k] = NewCall("reject", s, 0, NoKey, 0)]
    /\ Goto(k, "scan")
    /\ UNCHANGED <<nrows, sessions, dlq, world, ghostVars, budgetVars>>

-----------------------------------------------------------------------------
(* recover_dangling_sessions.  It takes &self and leaves the state machine *)
(* of the kernel it is called on alone.                                    *)

StartRecovery(k) ==
    /\ ~Running(k)
    /\ ExclusiveRecovery => \A j \in Kernel : ~Running(j) /\ fsm[j] = Idle
    /\ DanglingSessions # {}
    /\ call' = [call EXCEPT ![k] =
          [NewCall("recover", NoSession, 0, NoKey, 0) EXCEPT !.dangling = DanglingSessions]]
    /\ Goto(k, "next")
    /\ UNCHANGED <<walVars, fsm, world, ghostVars, budgetVars>>

PendingLabel(todo) == IF todo = {} THEN "scan" ELSE "pending"

(* Session ids are random: their order is any order. *)
RecoverSession(k, s) ==
    /\ pc[k] = "next"
    /\ s \in call[k].dangling
    /\ call' = [call EXCEPT ![k].sess = s, ![k].todo = Orphans(s)]
    /\ Goto(k, PendingLabel(Orphans(s)))
    /\ UNCHANGED <<walVars, fsm, world, ghostVars, budgetVars>>

(* An orphaned PENDING row is taken as never executed. *)
FailOrphan(k) ==
    /\ pc[k] = "pending"
    /\ \E i \in call[k].todo :
          /\ IsFirst(i, call[k].todo)
          /\ MarkFailed(i)
          /\ call' = [call EXCEPT ![k].todo = @ \ {i}]
          /\ Goto(k, PendingLabel(call[k].todo \ {i}))
    /\ UNCHANGED <<nrows, sessions, dlq, fsm, world, ghostVars, budgetVars>>

\* mutant: a recovery that ran to its end says RECOVERED
SettleAsRecovered(k) ==
    /\ pc[k] = "settle"
    /\ SetSessionStatus(call[k].sess, "RECOVERED")
    /\ LET left == call[k].dangling \ {call[k].sess}
       IN  IF left = {}
           THEN Return(k)
           ELSE Goto(k, "next") /\ call' = [call EXCEPT ![k].dangling = left]
    /\ UNCHANGED <<actions, nrows, dlq, fsm, world, ghostVars, budgetVars>>

SettleSession(k) ==
    /\ pc[k] = "settle"
    /\ SetSessionStatus(call[k].sess,
                        IF call[k].failed THEN "RECOVERED_WITH_DLQ" ELSE "RECOVERED")
    /\ LET left == call[k].dangling \ {call[k].sess}
       IN  IF left = {}
           THEN Return(k)
           ELSE Goto(k, "next") /\ call' = [call EXCEPT ![k].dangling = left]
    /\ UNCHANGED <<actions, nrows, dlq, fsm, world, ghostVars, budgetVars>>

RecoveryFault(k) ==
    /\ pc[k] \in {"next", "pending", "settle"}
    /\ Fault
    /\ Return(k)
    /\ UNCHANGED <<walVars, fsm, world, ghostVars, crashes>>

-----------------------------------------------------------------------------
(* The process of kernel k dies and starts again with a new kernel. *)
Crash(k) ==
    /\ Running(k) \/ fsm[k] # Idle
    /\ crashes < MaxCrashes
    /\ crashes' = crashes + 1
    /\ fsm' = [fsm EXCEPT ![k] = Idle]
    /\ saga' = [saga EXCEPT ![k] = {}]
    /\ Return(k)
    /\ UNCHANGED <<walVars, world, approved, finalised, faults>>

Step(k) ==
    \/ ToolOk(k) \/ ToolError(k) \/ CommitStep(k) \/ FailStep(k)

Rollback(k) ==
    \/ ScanCommitted(k) \/ CompensateOk(k) \/ CompensateError(k)
    \/ RecordUndone(k) \/ RecordOrphan(k) \/ RecordInDlq(k) \/ EndRollback(k)

Recovery(k) ==
    \/ \E s \in Session : RecoverSession(k, s)
    \/ FailOrphan(k) \/ SettleSession(k)

Log(k) == LogAction(k) \/ ParkForApproval(k) \/ LogRefused(k)

(* The steps of a call in progress, which the runtime drives to its end.   *)
Progress(k) == Log(k) \/ Step(k) \/ Rollback(k) \/ Recovery(k)

(* The calls an agent, an operator or a boot sequence may make. *)
Caller(k) ==
    \/ BeginPlanning(k) \/ Complete(k) \/ NewKernel(k) \/ StartRecovery(k)
    \/ \E t \in Tool : BeginTool(k, t)
    \/ \E t \in Tool, s \in Session, key \in Key \cup {NoKey} :
          ReturnCached(k, t, s, key) \/ ExecuteTool(k, t, s, key)
    \/ \E s \in Session : ApproveAction(k, s) \/ RejectAction(k, s)

Failure(k) ==
    \/ LogFault(k) \/ CommitFault(k) \/ RollbackFault(k) \/ RecoveryFault(k)
    \/ Crash(k)

Next == \E k \in Kernel : Progress(k) \/ Caller(k) \/ Failure(k)

Spec == Init /\ [][Next]_vars

(* A call that has started runs on: the async runtime polls the future of  *)
(* execute_tool, approve_action, reject_action or recover_dangling to its  *)
(* end, and the tools' futures return.  Nothing makes a caller call.       *)
FairSpec == Spec /\ \A k \in Kernel : WF_vars(Progress(k))
=============================================================================
