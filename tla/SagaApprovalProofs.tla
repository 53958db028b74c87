------------------------- MODULE SagaApprovalProofs -------------------------
(***************************************************************************)
(* What a caller may rely on when it retries, and an operator when he      *)
(* decides: one effect per key, no row's tool called twice, nothing        *)
(* irreversible without an approval of that very row.                      *)
(***************************************************************************)
EXTENDS SagaKernelProofs

USE DEF walVars, kernelVars, ghostVars, budgetVars

AnyStep(k) == Progress(k) \/ Caller(k) \/ Failure(k)

(* The UNIQUE columns of the table: a caller's key, and the sequence       *)
(* number within a session.                                                *)
KeysUnique ==
    \A i, j \in ActionId :
        i # j /\ actions[i].key # NoKey => actions[i].key # actions[j].key

SeqsUnique ==
    \A i, j \in ActionId :
        i # j /\ actions[i].session = actions[j].session /\ actions[i].session # NoSession =>
            actions[i].seq # actions[j].seq

(* The saga of k is one session of its own, in which no row comes after    *)
(* the one that k is about to insert.                                      *)
SagaOK(k) ==
    /\ saga[k] \subseteq SessionsOf[k]
    /\ \A s, t \in saga[k] : s = t
    /\ pc[k] \in {"log", "execute", "commit", "fail"} =>
          fsm[k].mode = "ExecutingTool" /\ call[k].sess \in saga[k]
    /\ pc[k] = "log" => \A i \in Rows(call[k].sess) : actions[i].seq < call[k].seq

(* The token of a kernel that waits is the id of the row it has parked:    *)
(* the last one of its session, which has not run.                         *)
ParkedOK(k) ==
    fsm[k].mode = "AwaitingApproval" =>
        LET i == fsm[k].token
        IN  /\ i \in ActionId
            /\ actions[i].session \in saga[k]
            /\ actions[i].tool = fsm[k].tool
            /\ Status(i) = "PENDING_APPROVAL"
            /\ world[i] = "absent"
            /\ \A j \in Rows(actions[i].session) : actions[j].seq <= actions[i].seq

(* A row about to run never ran, and was approved if it is irreversible.   *)
ReadyOK(k) ==
    pc[k] = "execute" =>
        /\ world[call[k].cur] = "absent"
        /\ actions[call[k].cur].tool \in Irreversible => call[k].cur \in approved

(* The rows that a recovery takes for orphans do not wait for an operator. *)
OrphansOK(k) == pc[k] = "pending" => \A i \in call[k].todo : Status(i) # "PENDING_APPROVAL"

ApprovalInv ==
    /\ SeqsUnique
    /\ \A k \in Kernel : SagaOK(k) /\ ParkedOK(k) /\ ReadyOK(k) /\ OrphansOK(k)
    /\ ApprovalGate
-----------------------------------------------------------------------------
(* The table: a step inserts one row past the UNIQUE columns, or it keeps  *)
(* session, number, tool and key of every row.                             *)
Inserts(k) ==
    /\ pc[k] = "log"
    /\ ~UniqueViolation(call[k].sess, call[k].seq, call[k].key)
    /\ \E st \in {"PENDING", "PENDING_APPROVAL"} :
          InsertAction(call[k].sess, call[k].seq, fsm[k].tool, call[k].key, st)

KeepsColumns ==
    \A i \in ActionId :
        /\ actions'[i].session = actions[i].session
        /\ actions'[i].seq = actions[i].seq
        /\ actions'[i].tool = actions[i].tool
        /\ actions'[i].key = actions[i].key

LEMMA MarkKeepsColumns ==
    ASSUME TypeOK, NEW i, MarkCommitted(i) \/ MarkFailed(i) \/ MarkCompensated(i)
    PROVE  KeepsColumns
<1>1. \A j \in ActionId : actions[j] \in Row
  BY DEF TypeOK, WalTypeOK
<1>2. QED
  BY <1>1 DEF MarkCommitted, MarkFailed, MarkCompensated, KeepsColumns, TypeOK, WalTypeOK, Row

LEMMA ColumnsStep ==
    ASSUME TypeOK, NEW k \in Kernel, AnyStep(k)
    PROVE  Inserts(k) \/ KeepsColumns
<1>1. CASE LogAction(k) \/ ParkForApproval(k)
  BY <1>1 DEF LogAction, ParkForApproval, Inserts
<1>2. CASE CommitStep(k) \/ FailStep(k) \/ RecordUndone(k) \/ RecordOrphan(k)
  BY <1>2, MarkKeepsColumns DEF CommitStep, FailStep, RecordUndone, RecordOrphan,
     MarkCompensationFailed, KeepsColumns
<1>3. CASE FailOrphan(k) \/ \E s \in Session : RejectAction(k, s)
  BY <1>3, MarkKeepsColumns DEF FailOrphan, RejectAction, KeepsColumns
<1>4. CASE UNCHANGED actions
  BY <1>4 DEF KeepsColumns
<1>5. QED
  BY <1>1, <1>2, <1>3, <1>4
  DEF AnyStep, Progress, Log, LogRefused, Step, ToolOk, ToolError, Rollback, ScanCommitted,
      CompensateOk, CompensateError, RecordInDlq, EndRollback, Recovery, RecoverSession,
      SettleSession, Caller, BeginPlanning, Complete, NewKernel, StartRecovery, BeginTool,
      ReturnCached, ExecuteTool, ApproveAction, Failure, LogFault, CommitFault, RollbackFault,
      RecoveryFault, Crash

(* The row an INSERT makes. *)
LEMMA InsertedRow ==
    ASSUME TypeOK, NEW k \in Kernel, Inserts(k)
    PROVE  /\ nrows + 1 \in ActionId
           /\ actions'[nrows + 1].session = call[k].sess
           /\ actions'[nrows + 1].seq = call[k].seq
           /\ actions'[nrows + 1].tool = fsm[k].tool
           /\ actions'[nrows + 1].key = call[k].key
           /\ \A i \in ActionId \ {nrows + 1} : actions'[i] = actions[i]
BY WalAssumption DEF Inserts, InsertAction, TypeOK, WalTypeOK, ActionId

(* The row after the last one is still vacant. *)
LEMMA FreshRow ==
    ASSUME TypeOK, LedgerInv, nrows + 1 \in ActionId
    PROVE  world[nrows + 1] = "absent" /\ Status(nrows + 1) = "NONE"
<1>1. RowOK(nrows + 1) /\ nrows < nrows + 1
  BY DEF LedgerInv, TypeOK, WalTypeOK
<1>2. QED
  BY <1>1 DEF RowOK

(* No step breaks the UNIQUE columns. *)
LEMMA UniqueStep ==
    ASSUME TypeOK, NEW k \in Kernel, AnyStep(k)
    PROVE  (KeysUnique => KeysUnique') /\ (SeqsUnique => SeqsUnique')
<1>1. CASE KeepsColumns
  BY <1>1 DEF KeepsColumns, KeysUnique, SeqsUnique
<1>2. CASE Inserts(k)
  <2>1. KeysUnique => KeysUnique'
    BY <1>2, InsertedRow DEF Inserts, UniqueViolation, KeyTaken, KeysUnique
  <2>2. SeqsUnique => SeqsUnique'
    BY <1>2, InsertedRow DEF Inserts, UniqueViolation, Rows, SeqsUnique
  <2>3. QED
    BY <2>1, <2>2
<1>3. QED
  BY <1>1, <1>2, ColumnsStep

(* A caller's key has at most one effect, whatever is retried with it, by  *)
(* whichever kernel, and whatever crashes: the UNIQUE column of wal.rs:33  *)
(* does it, and not the look-up in the cache.                              *)
THEOREM KeyHasOneEffect == Spec => []OneEffectPerKey
<1>1. Init => KeysUnique
  BY DEF Init, WalInit, NoRow, KeysUnique
<1>2. TypeOK /\ KeysUnique /\ [Next]_vars => KeysUnique'
  <2> SUFFICES ASSUME TypeOK, KeysUnique, [Next]_vars
               PROVE  KeysUnique'
    OBVIOUS
  <2>1. CASE UNCHANGED vars
    BY <2>1 DEF vars, KeysUnique
  <2>2. CASE Next
    BY <2>2, UniqueStep DEF Next, AnyStep
  <2>3. QED
    BY <2>1, <2>2
<1>3. KeysUnique => OneEffectPerKey
  BY DEF KeysUnique, OneEffectPerKey, Rows
<1>4. QED
  BY <1>1, <1>2, <1>3, TypeCorrect, PTL DEF Spec

-----------------------------------------------------------------------------
(* What a step of k may do to a row that has no output, and to its own     *)
(* state machine and saga.                                                 *)
LEMMA EffectStep ==
    ASSUME TypeOK, LedgerInv, NEW k \in Kernel, AnyStep(k),
           NEW i \in ActionId, ~actions[i].out
    PROVE  \/ world'[i] = world[i]
           \/ ToolOk(k) /\ call[k].cur = i
<1>1. CASE ToolOk(k)
  BY <1>1 DEF ToolOk, TypeOK
<1>2. CASE CompensateOk(k)
  <2>1. PICK j \in call[k].todo : world' = [world EXCEPT ![j] = "undone"]
    BY <1>2 DEF CompensateOk
  <2>2. actions[j].out
    BY <1>2, <2>1 DEF CompensateOk, LedgerInv, LoopOK
  <2>3. QED
    BY <2>1, <2>2 DEF TypeOK
<1>3. CASE UNCHANGED world
  BY <1>3
<1>4. QED
  BY <1>1, <1>2, <1>3
  DEF AnyStep, Progress, Log, LogAction, ParkForApproval, LogRefused, Step, ToolError, CommitStep,
      FailStep, Rollback, ScanCommitted, CompensateError, RecordUndone, RecordOrphan, RecordInDlq,
      EndRollback, Recovery, RecoverSession, FailOrphan, SettleSession, Caller, BeginPlanning,
      Complete, NewKernel, StartRecovery, BeginTool, ReturnCached, ExecuteTool, ApproveAction,
      RejectAction, Failure, LogFault, CommitFault, RollbackFault, RecoveryFault, Crash

LEMMA ParkedRowStep ==
    ASSUME TypeOK, LedgerInv, NEW k \in Kernel, OrphansOK(k), AnyStep(k),
           NEW i \in ActionId, Status(i) = "PENDING_APPROVAL"
    PROVE  \/ actions'[i] = actions[i]
           \/ pc[k] \in {"commit", "fail"} /\ call[k].cur = i
           \/ /\ fsm[k].mode = "AwaitingApproval" /\ fsm'[k].mode = "Failed"
              /\ actions[i].session \in SessionsOf[k]
<1>1. ~actions[i].out /\ i <= nrows
  BY WalAssumption DEF LedgerInv, RowOK, TypeOK, WalTypeOK, ActionId
<1>2. CASE Inserts(k)
  BY <1>1, <1>2, InsertedRow DEF TypeOK, WalTypeOK, ActionId
<1>3. CASE CommitStep(k) \/ FailStep(k)
  BY <1>3 DEF CommitStep, FailStep, MarkCommitted, MarkFailed, TypeOK, WalTypeOK
<1>4. CASE RecordUndone(k) \/ RecordOrphan(k)
  <2>1. actions[call[k].cur].out
    BY <1>4 DEF RecordUndone, RecordOrphan, LedgerInv, CursorOK, LoopOK
  <2>2. QED
    BY <1>1, <1>4, <2>1
    DEF RecordUndone, RecordOrphan, MarkCompensated, MarkCompensationFailed, MarkFailed,
        TypeOK, WalTypeOK
<1>5. CASE FailOrphan(k)
  BY <1>5 DEF FailOrphan, MarkFailed, OrphansOK, TypeOK, WalTypeOK
<1>6. ASSUME NEW s \in Session, RejectAction(k, s)
      PROVE  \/ actions'[i] = actions[i]
             \/ /\ fsm[k].mode = "AwaitingApproval" /\ fsm'[k].mode = "Failed"
                /\ actions[i].session \in SessionsOf[k]
  <2>1. fsm[k].mode = "AwaitingApproval" /\ fsm'[k].mode = "Failed" /\ s \in SessionsOf[k]
    BY <1>6 DEF RejectAction, MayUse, Fire, Transition, Accepts, RejectExecution, Target,
                PlainState, TypeOK
  <2>2. CASE UNCHANGED actions
    BY <2>2
  <2>3. CASE \E j \in ActionId : IsPendingApproval(s, fsm[k].tool, j) /\ MarkFailed(j)
    BY <2>1, <2>3 DEF IsPendingApproval, IsLast, WithStatus, Rows, MarkFailed, TypeOK, WalTypeOK
  <2>4. QED
    BY <1>6, <2>2, <2>3 DEF RejectAction
<1>7. CASE LogAction(k) \/ ParkForApproval(k)
  BY <1>2, <1>7 DEF LogAction, ParkForApproval, Inserts
<1>8. CASE UNCHANGED actions
  BY <1>8
<1>9. QED
  BY <1>3, <1>4, <1>5, <1>6, <1>7, <1>8
  DEF AnyStep, Progress, Log, LogRefused, Step, ToolOk, ToolError, Rollback, ScanCommitted,
      CompensateOk, CompensateError, RecordInDlq, EndRollback, Recovery, RecoverSession,
      SettleSession, Caller, BeginPlanning, Complete, NewKernel, StartRecovery, BeginTool,
      ReturnCached, ExecuteTool, ApproveAction, Failure, LogFault, CommitFault, RollbackFault,
      RecoveryFault, Crash

(* No row comes to wait for an operator but the one that is parked.        *)
LEMMA NoLaterParking ==
    ASSUME TypeOK, LedgerInv, NEW k \in Kernel, AnyStep(k),
           NEW i \in ActionId, Status(i) # "NONE", Status(i)' = "PENDING_APPROVAL"
    PROVE  Status(i) = "PENDING_APPROVAL"
<1>1. i <= nrows /\ \A j \in ActionId : actions[j] \in Row
  BY WalAssumption DEF LedgerInv, RowOK, TypeOK, WalTypeOK, ActionId
<1>2. CASE LogAction(k) \/ ParkForApproval(k)
  BY <1>1, <1>2, InsertedRow DEF LogAction, ParkForApproval, Inserts, TypeOK, WalTypeOK, Status, ActionId
<1>3. ASSUME NEW j, MarkCommitted(j) \/ MarkFailed(j) \/ MarkCompensated(j)
      PROVE  Status(i) = "PENDING_APPROVAL"
  <2>1. CASE j = i
    BY <1>1, <1>3, <2>1 DEF MarkCommitted, MarkFailed, MarkCompensated, TypeOK, WalTypeOK, Status, Row
  <2>2. CASE j # i
    BY <1>3, <2>2 DEF MarkCommitted, MarkFailed, MarkCompensated, TypeOK, WalTypeOK, Status
  <2>3. QED
    BY <2>1, <2>2
<1>4. CASE \/ CommitStep(k) \/ FailStep(k) \/ RecordUndone(k) \/ RecordOrphan(k)
           \/ FailOrphan(k) \/ \E s \in Session : RejectAction(k, s)
  BY <1>3, <1>4 DEF CommitStep, FailStep, RecordUndone, RecordOrphan, MarkCompensationFailed,
     FailOrphan, RejectAction, Status
<1>5. CASE UNCHANGED actions
  BY <1>5 DEF Status
<1>6. QED
  BY <1>2, <1>4, <1>5
  DEF AnyStep, Progress, Log, LogRefused, Step, ToolOk, ToolError, Rollback, ScanCommitted,
      CompensateOk, CompensateError, RecordInDlq, EndRollback, Recovery, RecoverSession,
      SettleSession, Caller, BeginPlanning, Complete, NewKernel, StartRecovery, BeginTool,
      ReturnCached, ExecuteTool, ApproveAction, Failure, LogFault, CommitFault, RollbackFault,
      RecoveryFault, Crash

(* A step changes the state machine and the saga of its own kernel only,   *)
(* and takes no approval back.                                             *)
LEMMA OthersFsm ==
    ASSUME TypeOK, NEW k \in Kernel, AnyStep(k)
    PROVE  /\ \A j \in Kernel \ {k} : fsm'[j] = fsm[j] /\ saga'[j] = saga[j]
           /\ approved \subseteq approved'
<1>1. CASE Log(k) \/ Step(k)
  BY <1>1 DEF Log, Step, LogAction, ParkForApproval, LogRefused, ToolOk, ToolError, CommitStep,
     FailStep, Fire, TypeOK
<1>2. CASE Rollback(k) \/ Recovery(k)
  BY <1>2 DEF Rollback, Recovery, ScanCommitted, CompensateOk, CompensateError, RecordUndone,
     RecordOrphan, RecordInDlq, EndRollback, FinishRollback, ReturnToCaller, RecoverSession,
     FailOrphan, SettleSession, Fire, TypeOK
<1>3. CASE Caller(k)
  BY <1>3 DEF Caller, BeginPlanning, Complete, NewKernel, StartRecovery, BeginTool, ReturnCached,
     ExecuteTool, ApproveAction, RejectAction, Fire, TypeOK
<1>4. CASE Failure(k)
  BY <1>4 DEF Failure, LogFault, CommitFault, RollbackFault, RecoveryFault, Crash,
     ReturnToCaller, Fire, TypeOK
<1>5. QED
  BY <1>1, <1>2, <1>3, <1>4 DEF AnyStep, Progress

(* Only RequireApproval makes a state machine wait. *)
LEMMA FireWaits ==
    ASSUME TypeOK, NEW k \in Kernel, NEW e, Fire(k, e), fsm'[k].mode = "AwaitingApproval"
    PROVE  e.kind = "RequireApproval" \/ fsm'[k] = fsm[k]
<1>1. fsm'[k] = Transition(fsm[k], e)
  BY DEF Fire, TypeOK
<1>2. CASE Accepts(fsm[k], e) /\ e.kind # "RequireApproval"
  BY <1>1, <1>2 DEF Transition, Accepts, Target, PlainState, Executing
<1>3. QED
  BY <1>1, <1>2 DEF Transition

(* A kernel waits because this step has parked a row, or it did before.    *)
LEMMA WaitingStep ==
    ASSUME TypeOK, NEW k \in Kernel, AnyStep(k), fsm'[k].mode = "AwaitingApproval"
    PROVE  ParkForApproval(k) \/ (fsm'[k] = fsm[k] /\ saga[k] \subseteq saga'[k])
<1>1. CASE LogAction(k) \/ LogRefused(k) \/ Step(k)
  BY <1>1, FireWaits DEF LogAction, LogRefused, Step, ToolOk, ToolError, CommitStep, FailStep, Plain
<1>2. CASE Rollback(k) \/ Recovery(k)
  BY <1>2, FireWaits DEF Rollback, Recovery, ScanCommitted, CompensateOk, CompensateError,
     RecordUndone, RecordOrphan, RecordInDlq, EndRollback, FinishRollback, ReturnToCaller,
     RecoverSession, FailOrphan, SettleSession, Plain
<1>3. CASE NewKernel(k) \/ Crash(k)
  BY <1>3 DEF NewKernel, Crash, Idle, PlainState, TypeOK
<1>4. CASE BeginPlanning(k) \/ Complete(k) \/ StartRecovery(k) \/ \E t \in Tool : BeginTool(k, t)
  BY <1>4, FireWaits DEF BeginPlanning, Complete, StartRecovery, BeginTool, Plain, StartExecution
<1>5. ASSUME NEW t \in Tool, NEW s \in Session, NEW key \in Key \cup {NoKey},
             ReturnCached(k, t, s, key) \/ ExecuteTool(k, t, s, key)
      PROVE  fsm'[k] = fsm[k] /\ saga[k] \subseteq saga'[k]
  <2>1. CASE ExecuteTool(k, t, s, key)
    <3>1. saga' = [saga EXCEPT ![k] = @ \cup {s}] /\ UNCHANGED fsm
      BY <2>1 DEF ExecuteTool
    <3>2. QED
      BY <3>1 DEF TypeOK
  <2>2. CASE ReturnCached(k, t, s, key)
    BY <2>2, FireWaits DEF ReturnCached, Plain
  <2>3. QED
    BY <1>5, <2>1, <2>2
<1>6. CASE LogFault(k) \/ CommitFault(k) \/ RollbackFault(k) \/ RecoveryFault(k)
  BY <1>6, FireWaits DEF LogFault, CommitFault, RollbackFault, RecoveryFault, ReturnToCaller, Plain
<1>7. \A s \in Session : ApproveAction(k, s) \/ RejectAction(k, s) =>
         fsm'[k] = fsm[k] /\ saga[k] \subseteq saga'[k]
  BY FireWaits DEF ApproveAction, RejectAction, ApproveExecution, RejectExecution
<1>8. CASE Progress(k) \/ Failure(k)
  BY <1>1, <1>2, <1>3, <1>6, <1>8 DEF Progress, Log, Failure
<1>9. CASE Caller(k)
  BY <1>3, <1>4, <1>5, <1>7, <1>9 DEF Caller
<1>10. QED
  BY <1>8, <1>9 DEF AnyStep

(* What lies in the sessions of another kernel, a step of k does not reach. *)
LEMMA ElsewhereStep ==
    ASSUME DisjointSessions, TypeOK, LedgerInv, NEW k \in Kernel, OrphansOK(k), AnyStep(k),
           NEW j \in Kernel \ {k}, NEW s \in SessionsOf[j]
    PROVE  /\ \A i \in ActionId : actions'[i].session = s =>
                 /\ actions[i].session = s
                 /\ actions'[i].seq = actions[i].seq
                 /\ actions'[i].tool = actions[i].tool
           /\ \A i \in Rows(s) : ~actions[i].out => world'[i] = world[i]
           /\ \A i \in Rows(s) : Status(i) = "PENDING_APPROVAL" =>
                 actions'[i] = actions[i]
<1>1. s \notin SessionsOf[k] /\ StepOK(k)
  BY DEF DisjointSessions, LedgerInv
<1>2. Inserts(k) \/ KeepsColumns
  BY ColumnsStep
<1>3. \A i \in ActionId : actions'[i].session = s =>
         /\ actions[i].session = s
         /\ actions'[i].seq = actions[i].seq
         /\ actions'[i].tool = actions[i].tool
  <2>1. CASE Inserts(k)
    BY <1>1, <2>1, InsertedRow DEF Inserts, StepOK
  <2>2. CASE KeepsColumns
    BY <2>2 DEF KeepsColumns
  <2>3. QED
    BY <1>2, <2>1, <2>2
<1>4. \A i \in Rows(s) : ~actions[i].out => world'[i] = world[i]
  BY <1>1, EffectStep DEF Rows, ToolOk, StepOK
<1>5. ASSUME NEW i \in Rows(s), Status(i) = "PENDING_APPROVAL"
      PROVE  actions'[i] = actions[i]
  BY <1>1, <1>5, ParkedRowStep DEF Rows, StepOK
<1>6. QED
  BY <1>3, <1>4, <1>5

-----------------------------------------------------------------------------
(* The steps that bring a call to a point of execute_tool. *)
LEMMA PointStep ==
    ASSUME TypeOK, NEW k \in Kernel, AnyStep(k)
    PROVE  \/ pc'[k] \notin {"log", "execute", "commit", "fail"}
           \/ \E t \in Tool, s \in Session, key \in Key \cup {NoKey} : ExecuteTool(k, t, s, key)
           \/ LogAction(k) \/ ToolOk(k) \/ ToolError(k)
           \/ \E s \in Session : ApproveAction(k, s)
<1> DEFINE Elsewhere == pc'[k] \notin {"log", "execute", "commit", "fail"}
<1>1. CASE \/ ParkForApproval(k) \/ LogRefused(k) \/ CommitStep(k) \/ FailStep(k)
           \/ Recovery(k) \/ Failure(k)
  BY <1>1 DEF ParkForApproval, LogRefused, CommitStep, FailStep, Recovery, RecoverSession,
     PendingLabel, FailOrphan, SettleSession, Failure, LogFault, CommitFault, RollbackFault,
     RecoveryFault, Crash, ReturnToCaller, Return, Goto, TypeOK
<1>2. CASE Rollback(k)
  BY <1>2 DEF Rollback, ScanCommitted, CompensateOk, CompensateError, RecordUndone, RecordOrphan,
     RecordInDlq, NextRow, LoopLabel, EndRollback, FinishRollback, ReturnToCaller, Return, Goto,
     TypeOK
<1>3. CASE \/ BeginPlanning(k) \/ Complete(k) \/ NewKernel(k) \/ StartRecovery(k)
           \/ \E t \in Tool : BeginTool(k, t)
           \/ \E t \in Tool, s \in Session, key \in Key \cup {NoKey} : ReturnCached(k, t, s, key)
           \/ \E s \in Session : RejectAction(k, s)
  BY <1>3 DEF BeginPlanning, Complete, NewKernel, StartRecovery, BeginTool, ReturnCached,
     RejectAction, Running, Goto, TypeOK
<1>4. QED
  BY <1>1, <1>2, <1>3 DEF AnyStep, Progress, Log, Step, Caller

(* A saga shrinks to nothing, stays, or becomes the session of the call.   *)
LEMMA OwnSagaStep ==
    ASSUME TypeOK, OneSessionPerSaga, NEW k \in Kernel, SagaOK(k), AnyStep(k)
    PROVE  saga'[k] \subseteq SessionsOf[k] /\ \A s, t \in saga'[k] : s = t
<1>1. ASSUME NEW t \in Tool, NEW s \in Session, NEW key \in Key \cup {NoKey},
             ExecuteTool(k, t, s, key)
      PROVE  saga'[k] = {s} /\ s \in SessionsOf[k]
  <2>1. saga' = [saga EXCEPT ![k] = @ \cup {s}] /\ MayUse(k, s)
    BY <1>1 DEF ExecuteTool
  <2>2. QED
    BY <2>1 DEF MayUse, TypeOK
<1>2. CASE NewKernel(k) \/ Crash(k)
  BY <1>2 DEF NewKernel, Crash, TypeOK
<1>3. CASE UNCHANGED saga
  BY <1>3 DEF SagaOK
<1>4. QED
  BY <1>1, <1>2, <1>3
  DEF AnyStep, Progress, Log, LogAction, ParkForApproval, LogRefused, Step, ToolOk, ToolError,
      CommitStep, FailStep, Rollback, ScanCommitted, CompensateOk, CompensateError, RecordUndone,
      RecordOrphan, RecordInDlq, EndRollback, Recovery, RecoverSession, FailOrphan, SettleSession,
      Caller, BeginPlanning, Complete, StartRecovery, BeginTool, ReturnCached, ApproveAction,
      RejectAction, Failure, LogFault, CommitFault, RollbackFault, RecoveryFault

(* Of the rows a decision of the operator could be about there is but the  *)
(* one that is parked: by its session, its tool and its place it can be no *)
(* other.                                                                  *)
LEMMA OnlyParkedRow ==
    ASSUME TypeOK, OneSessionPerSaga, SeqsUnique, NEW k \in Kernel, ParkedOK(k),
           fsm[k].mode = "AwaitingApproval", NEW s \in Session, MayUse(k, s)
    PROVE  /\ saga[k] = {s} /\ fsm[k].token \in ActionId
           /\ IsPendingApproval(s, fsm[k].tool, fsm[k].token)
           /\ \A j \in ActionId : IsPendingApproval(s, fsm[k].tool, j) => j = fsm[k].token
<1> DEFINE i == fsm[k].token
<1>1. saga[k] = {s} /\ actions[i].session = s /\ i \in ActionId
  BY DEF ParkedOK, MayUse
<1>2. IsPendingApproval(s, fsm[k].tool, i)
  BY <1>1 DEF IsPendingApproval, IsLast, WithStatus, Rows, ParkedOK, Status
<1>3. ASSUME NEW j \in ActionId, IsPendingApproval(s, fsm[k].tool, j)
      PROVE  j = i
  <2>1. /\ actions[j].session = s
        /\ actions[j].seq <= actions[i].seq /\ actions[i].seq <= actions[j].seq
    BY <1>1, <1>2, <1>3 DEF IsPendingApproval, IsLast, WithStatus, Rows
  <2>2. actions[i].seq \in Nat /\ actions[j].seq \in Nat
    <3>1. actions[i] \in Row /\ actions[j] \in Row
      BY <1>1 DEF TypeOK, WalTypeOK
    <3>2. QED
      BY <3>1 DEF Row
  <2>3. actions[i].seq = actions[j].seq
    BY <2>1, <2>2
  <2>4. QED
    BY <1>1, <2>1, <2>3, WalAssumption DEF SeqsUnique
<1>4. QED
  BY <1>1, <1>2, <1>3

LEMMA ApprovedRow ==
    ASSUME TypeOK, OneSessionPerSaga, SeqsUnique, NEW k \in Kernel, ParkedOK(k),
           NEW s \in Session, ApproveAction(k, s)
    PROVE  /\ saga[k] = {s} /\ saga'[k] = {s}
           /\ fsm'[k].mode = "ExecutingTool"
           /\ pc'[k] = "execute" /\ call'[k].sess = s
           /\ call'[k].cur = fsm[k].token /\ fsm[k].token \in approved'
           /\ UNCHANGED <<actions, world>>
<1> DEFINE i == fsm[k].token
<1>1. /\ MayUse(k, s) /\ fsm[k].mode = "AwaitingApproval"
      /\ fsm' = [fsm EXCEPT ![k] = Transition(@, ApproveExecution(i))]
      /\ approved' = approved \cup {i} /\ UNCHANGED <<saga, actions, world>>
      /\ pc' = [pc EXCEPT ![k] = "execute"]
  BY DEF ApproveAction, Fire, Goto
<1>2. fsm'[k].mode = "ExecutingTool"
  BY <1>1 DEF Transition, Accepts, Target, Executing, ApproveExecution, TypeOK
<1>3. PICK j \in ActionId :
         /\ IsPendingApproval(s, fsm[k].tool, j)
         /\ call' = [call EXCEPT ![k] = NewCall("step", s, actions[j].seq, actions[j].key, j)]
  BY DEF ApproveAction
<1>4. saga[k] = {s} /\ j = i
  BY <1>1, <1>3, OnlyParkedRow
<1>5. call'[k].sess = s /\ call'[k].cur = i
  BY <1>3, <1>4 DEF NewCall, TypeOK
<1>6. QED
  BY <1>1, <1>2, <1>4, <1>5 DEF TypeOK

(* What the kernel that moves makes of its own saga and call. *)
LEMMA OwnSagaOK ==
    ASSUME TypeOK, OneSessionPerSaga, SeqsUnique, NEW k \in Kernel, SagaOK(k), ParkedOK(k),
           AnyStep(k)
    PROVE  SagaOK(k)'
<1>1. saga'[k] \subseteq SessionsOf[k] /\ \A s, t \in saga'[k] : s = t
  BY OwnSagaStep
<1>2. ASSUME NEW t \in Tool, NEW s \in Session, NEW key \in Key \cup {NoKey},
             ExecuteTool(k, t, s, key)
      PROVE  SagaOK(k)'
  <2>1. /\ saga' = [saga EXCEPT ![k] = @ \cup {s}] /\ fsm[k].mode = "ExecutingTool"
        /\ UNCHANGED <<fsm, actions>>
    BY <1>2 DEF ExecuteTool, CanExecuteTool
  <2>2. PICK n \in 0 .. MaxActions :
           IsNextSeq(s, n) /\ call' = [call EXCEPT ![k] = NewCall("step", s, n, key, 0)]
    BY <1>2 DEF ExecuteTool
  <2>3. call'[k].sess = s /\ call'[k].seq = n /\ pc'[k] = "log" /\ s \in saga'[k]
    BY <1>2, <2>1, <2>2 DEF ExecuteTool, Goto, NewCall, TypeOK
  <2>4. \A i \in ActionId : actions[i].session = s => actions[i].seq < n
    BY <2>2 DEF IsNextSeq, Rows
  <2>5. QED
    BY <1>1, <2>1, <2>3, <2>4 DEF SagaOK, Rows
<1>3. CASE LogAction(k)
  <2>1. call'[k].sess = call[k].sess /\ pc'[k] = "execute"
    BY <1>3 DEF LogAction, Goto, TypeOK, Call
  <2>2. pc[k] = "log" /\ UNCHANGED <<fsm, saga>>
    BY <1>3 DEF LogAction
  <2>3. QED
    BY <1>1, <2>1, <2>2 DEF SagaOK
<1>4. CASE ToolOk(k) \/ ToolError(k)
  BY <1>4 DEF ToolOk, ToolError, Goto, SagaOK, TypeOK
<1>5. ASSUME NEW s \in Session, ApproveAction(k, s)
      PROVE  SagaOK(k)'
  BY <1>1, <1>5, ApprovedRow DEF SagaOK
<1>6. CASE pc'[k] \notin {"log", "execute", "commit", "fail"}
  BY <1>1, <1>6 DEF SagaOK
<1>7. QED
  BY <1>2, <1>3, <1>4, <1>5, <1>6, PointStep

LEMMA OwnParkedOK ==
    ASSUME TypeOK, LedgerInv, NEW k \in Kernel, SagaOK(k), ParkedOK(k), OrphansOK(k), AnyStep(k)
    PROVE  ParkedOK(k)'
<1> SUFFICES ASSUME fsm'[k].mode = "AwaitingApproval"
             PROVE  ParkedOK(k)'
  BY DEF ParkedOK
<1>1. CASE ParkForApproval(k)
  <2> DEFINE i == nrows + 1
  <2>1. /\ Inserts(k) /\ pc[k] = "log" /\ call[k].sess \in saga[k] /\ fsm[k].mode = "ExecutingTool"
        /\ UNCHANGED <<world, saga>>
    BY <1>1 DEF ParkForApproval, Inserts, SagaOK
  <2>2. /\ i \in ActionId /\ actions'[i].session = call[k].sess /\ actions'[i].tool = fsm[k].tool
        /\ actions'[i].seq = call[k].seq
        /\ \A j \in ActionId \ {i} : actions'[j] = actions[j]
    BY <2>1, InsertedRow
  <2>3. fsm'[k] = [mode |-> "AwaitingApproval", tool |-> fsm[k].tool, token |-> i]
    <3> DEFINE e == RequireApproval(fsm[k].tool, i)
    <3>1. fsm' = [fsm EXCEPT ![k] = Transition(@, e)]
      BY <1>1 DEF ParkForApproval, Fire
    <3>2. Accepts(fsm[k], e) /\ e.kind = "RequireApproval" /\ e.tool = fsm[k].tool /\ e.token = i
      BY <2>1 DEF Accepts, RequireApproval
    <3>3. Target(fsm[k], e) = [mode |-> "AwaitingApproval", tool |-> e.tool, token |-> e.token]
      BY <3>2 DEF Target
    <3> HIDE DEF e
    <3>4. QED
      BY <3>1, <3>2, <3>3 DEF Transition, TypeOK
  <2>4. actions'[i].status = "PENDING_APPROVAL"
    BY <1>1, <2>2 DEF ParkForApproval, InsertAction, TypeOK, WalTypeOK
  <2>5. world[i] = "absent"
    BY <2>2, FreshRow
  <2>6. \A j \in ActionId : actions'[j].session = call[k].sess => actions'[j].seq <= call[k].seq
    <3>1. call[k].seq \in Nat /\ \A j \in ActionId : actions[j].seq \in Nat
      BY DEF TypeOK, WalTypeOK, Row, Call
    <3>2. \A j \in ActionId : actions[j].session = call[k].sess => actions[j].seq < call[k].seq
      BY <2>1 DEF SagaOK, Rows
    <3>3. QED
      BY <2>2, <3>1, <3>2
  <2>7. QED
    BY <2>1, <2>2, <2>3, <2>4, <2>5, <2>6 DEF ParkedOK, Rows, Status
<1>2. CASE fsm'[k] = fsm[k] /\ saga[k] \subseteq saga'[k]
  <2> DEFINE i == fsm[k].token
  <2>1. /\ fsm[k].mode = "AwaitingApproval"
        /\ pc[k] \notin {"log", "execute", "commit", "fail"}
        /\ i \in ActionId /\ Status(i) = "PENDING_APPROVAL" /\ ~actions[i].out
    BY <1>2 DEF SagaOK, ParkedOK, LedgerInv, RowOK
  <2>2. actions'[i] = actions[i]
    BY <1>2, <2>1, ParkedRowStep
  <2>3. world'[i] = world[i]
    BY <2>1, EffectStep DEF ToolOk
  <2>4. KeepsColumns
    BY <2>1, ColumnsStep DEF Inserts
  <2>5. QED
    BY <1>2, <2>1, <2>2, <2>3, <2>4 DEF ParkedOK, Rows, Status, KeepsColumns
<1>3. QED
  BY <1>1, <1>2, WaitingStep

LEMMA OwnReadyOK ==
    ASSUME TypeOK, LedgerInv, OneSessionPerSaga, SeqsUnique, NEW k \in Kernel,
           SagaOK(k), ParkedOK(k), AnyStep(k)
    PROVE  ReadyOK(k)'
<1>1. CASE LogAction(k)
  <2>1. call'[k].cur = nrows + 1 /\ Inserts(k) /\ UNCHANGED world /\ fsm[k].tool \notin Irreversible
    BY <1>1 DEF LogAction, Inserts, NeedsApproval, TypeOK, Call
  <2>2. nrows + 1 \in ActionId /\ actions'[nrows + 1].tool = fsm[k].tool
    BY <2>1, InsertedRow
  <2>3. world[nrows + 1] = "absent"
    BY <2>2, FreshRow
  <2>4. QED
    BY <2>1, <2>2, <2>3 DEF ReadyOK
<1>2. ASSUME NEW s \in Session, ApproveAction(k, s)
      PROVE  ReadyOK(k)'
  <2>1. fsm[k].mode = "AwaitingApproval"
    BY <1>2 DEF ApproveAction
  <2>2. QED
    BY <1>2, <2>1, ApprovedRow DEF ReadyOK, ParkedOK
<1>3. CASE ToolOk(k) \/ ToolError(k)
  BY <1>3 DEF ToolOk, ToolError, Goto, ReadyOK, TypeOK
<1>4. ASSUME NEW t \in Tool, NEW s \in Session, NEW key \in Key \cup {NoKey},
             ExecuteTool(k, t, s, key)
      PROVE  ReadyOK(k)'
  BY <1>4 DEF ExecuteTool, Goto, ReadyOK, TypeOK
<1>5. CASE pc'[k] # "execute"
  BY <1>5 DEF ReadyOK
<1>6. QED
  BY <1>1, <1>2, <1>3, <1>4, <1>5, PointStep

LEMMA OwnOrphansOK ==
    ASSUME TypeOK, LedgerInv, NEW k \in Kernel, OrphansOK(k), AnyStep(k)
    PROVE  OrphansOK(k)'
<1> SUFFICES ASSUME pc'[k] = "pending", NEW i \in call'[k].todo
             PROVE  Status(i)' # "PENDING_APPROVAL"
  BY DEF OrphansOK
<1>1. ASSUME NEW s \in Session, RecoverSession(k, s)
      PROVE  Status(i)' # "PENDING_APPROVAL"
  <2>1. call'[k].todo = Orphans(s) /\ UNCHANGED actions
    BY <1>1 DEF RecoverSession, TypeOK, Call
  <2>2. QED
    BY <2>1 DEF Orphans, WithStatus, Status
<1>2. CASE FailOrphan(k)
  <2>1. PICK j \in call[k].todo : call' = [call EXCEPT ![k].todo = @ \ {j}]
    BY <1>2 DEF FailOrphan
  <2>2. i \in call[k].todo /\ pc[k] = "pending"
    BY <1>2, <2>1 DEF FailOrphan, TypeOK, Call
  <2>3. i \in ActionId /\ Status(i) # "NONE"
    BY <2>2 DEF LedgerInv, LoopOK, TypeOK, Call
  <2>4. QED
    BY <2>2, <2>3, NoLaterParking DEF OrphansOK
<1>3. CASE Log(k) \/ Step(k) \/ SettleSession(k) \/ Failure(k)
  BY <1>3 DEF Log, LogAction, ParkForApproval, LogRefused, Step, ToolOk, ToolError, CommitStep,
     FailStep, SettleSession, Failure, LogFault, CommitFault, RollbackFault, RecoveryFault, Crash,
     ReturnToCaller, Return, Goto, TypeOK
<1>4. CASE Rollback(k)
  BY <1>4 DEF Rollback, ScanCommitted, CompensateOk, CompensateError, RecordUndone, RecordOrphan,
     RecordInDlq, NextRow, LoopLabel, EndRollback, FinishRollback, ReturnToCaller, Return, Goto,
     TypeOK
<1>5. CASE Caller(k)
  BY <1>5 DEF Caller, BeginPlanning, Complete, NewKernel, StartRecovery, BeginTool, ReturnCached,
     ExecuteTool, ApproveAction, RejectAction, Running, Goto, TypeOK
<1>6. QED
  BY <1>1, <1>2, <1>3, <1>4, <1>5 DEF AnyStep, Progress, Recovery

-----------------------------------------------------------------------------
(* The calls of the others lie elsewhere. *)
LEMMA OthersApproval ==
    ASSUME DisjointSessions, TypeOK, LedgerInv, NEW k \in Kernel, OrphansOK(k), AnyStep(k),
           NEW j \in Kernel \ {k}, SagaOK(j), ParkedOK(j), ReadyOK(j), OrphansOK(j)
    PROVE  SagaOK(j)' /\ ParkedOK(j)' /\ ReadyOK(j)' /\ OrphansOK(j)'
<1>1. /\ pc'[j] = pc[j] /\ call'[j] = call[j] /\ fsm'[j] = fsm[j] /\ saga'[j] = saga[j]
      /\ approved \subseteq approved'
  BY OthersUntouched, OthersFsm DEF AnyStep
<1>2. StepOK(j) /\ LoopOK(j)
  BY DEF LedgerInv
<1>3. RowsKept(k)
  BY RowsStep DEF AnyStep
<1>4. SagaOK(j)'
  <2>1. ASSUME pc[j] = "log", NEW i \in ActionId, actions'[i].session = call[j].sess
        PROVE  actions'[i].seq < call[j].seq
    <3>1. actions[i].session = call[j].sess /\ actions'[i].seq = actions[i].seq
      BY <1>2, <2>1, ElsewhereStep DEF StepOK
    <3>2. QED
      BY <2>1, <3>1 DEF SagaOK, Rows
  <2>2. QED
    BY <1>1, <2>1 DEF SagaOK, Rows
<1>5. ParkedOK(j)'
  <2> SUFFICES ASSUME fsm[j].mode = "AwaitingApproval"
               PROVE  ParkedOK(j)'
    BY <1>1 DEF ParkedOK
  <2> DEFINE i == fsm[j].token
             s == actions[i].session
  <2>1. /\ i \in ActionId /\ s \in saga[j] /\ s \in SessionsOf[j] /\ i \in Rows(s)
        /\ Status(i) = "PENDING_APPROVAL" /\ ~actions[i].out
    BY DEF ParkedOK, SagaOK, Rows, LedgerInv, RowOK
  <2>2. actions'[i] = actions[i] /\ world'[i] = world[i]
    BY <2>1, ElsewhereStep
  <2>3. \A r \in ActionId : actions'[r].session = s =>
           actions[r].session = s /\ actions'[r].seq = actions[r].seq
    BY <2>1, ElsewhereStep
  <2>4. QED
    BY <1>1, <2>1, <2>2, <2>3 DEF ParkedOK, Rows, Status
<1>6. ReadyOK(j)'
  <2> SUFFICES ASSUME pc[j] = "execute"
               PROVE  ReadyOK(j)'
    BY <1>1 DEF ReadyOK
  <2> DEFINE i == call[j].cur
             s == call[j].sess
  <2>1. /\ i \in ActionId /\ s \in SessionsOf[j] /\ actions[i].session = s
        /\ Status(i) # "NONE" /\ ~actions[i].out
    BY <1>2 DEF StepOK
  <2>2. actions'[i].session = s
    BY <1>3, <2>1 DEF RowsKept
  <2>3. actions'[i].tool = actions[i].tool /\ world'[i] = world[i]
    BY <2>1, <2>2, ElsewhereStep DEF Rows
  <2>4. QED
    BY <1>1, <2>1, <2>3 DEF ReadyOK
<1>7. OrphansOK(j)'
  <2>1. call[j].todo \subseteq ActionId
    BY DEF TypeOK, Call
  <2>2. QED
    BY <1>1, <1>2, <2>1, NoLaterParking DEF OrphansOK, LoopOK
<1>8. QED
  BY <1>4, <1>5, <1>6, <1>7

(* No step gives an irreversible row an effect that is not approved. *)
LEMMA GateStep ==
    ASSUME TypeOK, LedgerInv, ApprovalGate, NEW k \in Kernel, ReadyOK(k), AnyStep(k)
    PROVE  ApprovalGate'
<1> SUFFICES ASSUME NEW i \in ActionId, actions'[i].tool \in Irreversible, world'[i] # "absent"
             PROVE  i \in approved'
  BY DEF ApprovalGate
<1>1. approved \subseteq approved'
  BY OthersFsm
<1>2. actions'[i].tool = actions[i].tool
  <2>1. CASE KeepsColumns
    BY <2>1 DEF KeepsColumns
  <2>2. CASE Inserts(k)
    <3>1. UNCHANGED world
      <4>1. pc[k] = "log" /\ ~UniqueViolation(call[k].sess, call[k].seq, call[k].key)
        BY <2>2 DEF Inserts
      <4>2. nrows' # nrows
        BY <2>2 DEF Inserts, InsertAction, TypeOK, WalTypeOK
      <4>3. QED
        BY <4>1, <4>2
        DEF AnyStep, Progress, Log, LogAction, ParkForApproval, LogRefused, Step, ToolOk, ToolError,
            CommitStep, FailStep, Rollback, ScanCommitted, CompensateOk, CompensateError,
            RecordUndone, RecordOrphan, RecordInDlq, EndRollback, Recovery, RecoverSession,
            FailOrphan, SettleSession, Caller, BeginPlanning, Complete, NewKernel, StartRecovery,
            BeginTool, ReturnCached, ExecuteTool, ApproveAction, RejectAction, Failure, LogFault,
            CommitFault, RollbackFault, RecoveryFault, Crash
    <3>2. nrows + 1 \in ActionId /\ \A j \in ActionId \ {nrows + 1} : actions'[j] = actions[j]
      BY <2>2, InsertedRow
    <3>3. world[nrows + 1] = "absent"
      BY <3>2, FreshRow
    <3>4. QED
      BY <3>1, <3>2, <3>3
  <2>3. QED
    BY <2>1, <2>2, ColumnsStep
<1>3. CASE world[i] # "absent"
  BY <1>1, <1>2, <1>3 DEF ApprovalGate
<1>4. CASE world[i] = "absent"
  <2>1. ~actions[i].out
    BY <1>4 DEF LedgerInv, RowOK
  <2>2. ToolOk(k) /\ call[k].cur = i
    BY <1>4, <2>1, EffectStep
  <2>3. QED
    BY <1>1, <1>2, <2>2 DEF ToolOk, ReadyOK
<1>5. QED
  BY <1>3, <1>4

LEMMA ApprovalStep ==
    ASSUME DisjointSessions, OneSessionPerSaga, TypeOK, LedgerInv, ApprovalInv, [Next]_vars
    PROVE  ApprovalInv'
<1>1. CASE UNCHANGED vars
  BY <1>1 DEF vars, ApprovalInv, SeqsUnique, SagaOK, ParkedOK, ReadyOK, OrphansOK, ApprovalGate,
     Rows, Status
<1>2. ASSUME NEW k \in Kernel, AnyStep(k)
      PROVE  ApprovalInv'
  <2>1. SeqsUnique'
    BY <1>2, UniqueStep DEF ApprovalInv
  <2>2. SagaOK(k)' /\ ParkedOK(k)' /\ ReadyOK(k)' /\ OrphansOK(k)'
    BY <1>2, OwnSagaOK, OwnParkedOK, OwnReadyOK, OwnOrphansOK DEF ApprovalInv
  <2>3. \A j \in Kernel \ {k} : SagaOK(j)' /\ ParkedOK(j)' /\ ReadyOK(j)' /\ OrphansOK(j)'
    BY <1>2, OthersApproval DEF ApprovalInv
  <2>4. ApprovalGate'
    BY <1>2, GateStep DEF ApprovalInv
  <2>5. QED
    BY <2>1, <2>2, <2>3, <2>4 DEF ApprovalInv
<1>3. QED
  BY <1>1, <1>2 DEF Next, AnyStep

LEMMA ApprovalInvariant ==
    ASSUME DisjointSessions, OneSessionPerSaga
    PROVE  Spec => []ApprovalInv
<1>1. Init => ApprovalInv
  BY DEF Init, WalInit, NoRow, Idle, PlainState, ApprovalInv, SeqsUnique, SagaOK, ParkedOK,
     ReadyOK, OrphansOK, ApprovalGate
<1>2. TypeOK /\ LedgerInv /\ ApprovalInv /\ [Next]_vars => ApprovalInv'
  BY ApprovalStep
<1>3. QED
  BY <1>1, <1>2, TypeCorrect, LedgerInvariant, PTL DEF Spec

(* An irreversible tool runs only for the row whose token an operator has  *)
(* approved, although approve_action looks for the row by session and tool *)
(* (dispatcher.rs): in its session, the row the kernel waits for is the    *)
(* last one of all.                                                        *)
THEOREM ApprovalHolds ==
    ASSUME DisjointSessions, OneSessionPerSaga
    PROVE  Spec => []ApprovalGate
<1>1. ApprovalInv => ApprovalGate
  BY DEF ApprovalInv
<1>2. QED
  BY <1>1, ApprovalInvariant, PTL

(* No row's tool is called twice, by any path: a retry, an approval, a     *)
(* recovery, a new kernel after a crash (run_logged_step).                 *)
THEOREM ToolsRunOnce ==
    ASSUME DisjointSessions, OneSessionPerSaga
    PROVE  Spec => []RunsOnce
<1>1. ApprovalInv => RunsOnce
  BY DEF ApprovalInv, ReadyOK, RunsOnce
<1>2. QED
  BY <1>1, ApprovalInvariant, PTL
=============================================================================
