------------------------- MODULE SagaRecoveryProofs -------------------------
(***************************************************************************)
(* What holds when the recovery scan runs at boot, before any saga: a      *)
(* row's status only moves forward, compensation is last in first out, and *)
(* a scan that returns leaves nothing dangling.  All of it rests on the    *)
(* list a rollback works on, which is the COMMITTED rows of its session    *)
(* from the first compensation to the last.                                *)
(***************************************************************************)
EXTENDS SagaApprovalProofs

USE DEF walVars, kernelVars, ghostVars, budgetVars

InRollback(k) == pc[k] \in {"scan", "compensate", "undone", "orphan", "dlq", "end"}

(* While one kernel scans no other has a call, and no saga is under way.   *)
AloneOK(k) ==
    Recovering(k) => \A j \in Kernel : fsm[j] = Idle /\ (j # k => ~Running(j))

(* Steps are steps, the scan is the scan, and the rollback knows whose it  *)
(* is: that of a step or a rejection is in one of the kernel's sessions.   *)
LabelOK(k) ==
    /\ pc[k] \in {"log", "execute", "commit", "fail"} => call[k].ret = "step"
    /\ pc[k] \in {"next", "pending", "settle"} => call[k].ret = "recover"
    /\ InRollback(k) /\ call[k].ret # "recover" => call[k].sess \in SessionsOf[k]
    /\ InRollback(k) \/ pc[k] \in {"pending", "settle"} => call[k].sess \in Session

(* The list of a loop is the query it came from, as the table is now.      *)
TodoOK(k) ==
    /\ pc[k] \in {"compensate", "undone", "orphan"} => call[k].todo = Committed(call[k].sess)
    /\ pc[k] = "dlq" => Committed(call[k].sess) = call[k].todo \ {call[k].cur}
    /\ pc[k] \in {"end", "settle"} => Committed(call[k].sess) = {}
    /\ pc[k] = "pending" => call[k].todo = Orphans(call[k].sess)

(* What a scan has not listed does not dangle, and the session it is at    *)
(* has no orphans left once its rollback begins.                           *)
ScanOK(k) ==
    Recovering(k) =>
        /\ DanglingSessions \subseteq call[k].dangling
        /\ InRollback(k) \/ pc[k] = "settle" => Orphans(call[k].sess) = {}

(* No recovery has failed the row of a step under way. *)
OpenOK(k) ==
    pc[k] \in {"execute", "commit", "fail"} =>
        Status(call[k].cur) \in {"PENDING", "PENDING_APPROVAL"}

RecoveryInv ==
    \A k \in Kernel : AloneOK(k) /\ LabelOK(k) /\ TodoOK(k) /\ ScanOK(k) /\ OpenOK(k)
-----------------------------------------------------------------------------
(* Next to a scan no other kernel moves. *)
LEMMA AloneNoStep ==
    ASSUME TypeOK, ExclusiveRecovery, NEW j \in Kernel, Recovering(j), AloneOK(j),
           NEW k \in Kernel \ {j}, AnyStep(k)
    PROVE  FALSE
<1>1. pc[k] = "idle" /\ fsm[k] = Idle /\ fsm[j] = Idle /\ Running(j)
  BY DEF AloneOK, Running, Recovering
<1> USE DEF Idle, PlainState
<1>2. ~(Progress(k) \/ Failure(k))
  BY <1>1 DEF Progress, Log, LogAction, ParkForApproval, LogRefused, Step, ToolOk, ToolError,
     CommitStep, FailStep, Rollback, ScanCommitted, CompensateOk, CompensateError, RecordUndone,
     RecordOrphan, RecordInDlq, EndRollback, Recovery, RecoverSession, FailOrphan, SettleSession,
     Failure, LogFault, CommitFault, RollbackFault, RecoveryFault, Crash, Running
<1>3. ~Caller(k)
  BY <1>1 DEF Caller, BeginPlanning, Complete, NewKernel, StartRecovery, BeginTool, ReturnCached,
     ExecuteTool, ApproveAction, RejectAction, Accepts, Plain, StartExecution, Terminal,
     CanExecuteTool
<1>4. QED
  BY <1>2, <1>3 DEF AnyStep

(* A scan has just begun, or it goes on. *)
LEMMA ScanStep ==
    ASSUME TypeOK, NEW k \in Kernel, LabelOK(k), AnyStep(k), Recovering(k)'
    PROVE  StartRecovery(k) \/ (Recovering(k) /\ UNCHANGED fsm)
<1> USE DEF Recovering, Running
<1>1. CASE LogAction(k)
  <2>1. call' = [call EXCEPT ![k].cur = nrows + 1] /\ pc[k] = "log"
    BY <1>1 DEF LogAction
  <2>2. call'[k].ret = call[k].ret
    BY <2>1 DEF TypeOK, Call
  <2>3. QED
    BY <2>1, <2>2 DEF LabelOK
<1>2. CASE ParkForApproval(k) \/ LogRefused(k) \/ Step(k)
  BY <1>2 DEF ParkForApproval, LogRefused, Step, ToolOk, ToolError, CommitStep, FailStep, LabelOK,
     Return, Goto, TypeOK
<1>3. CASE ScanCommitted(k) \/ CompensateOk(k) \/ CompensateError(k) \/ RecordOrphan(k)
  <2>1. call'[k].ret = call[k].ret /\ UNCHANGED fsm
    BY <1>3 DEF ScanCommitted, CompensateOk, CompensateError, RecordOrphan, TypeOK, Call
  <2>2. QED
    BY <1>3, <2>1 DEF ScanCommitted, CompensateOk, CompensateError, RecordOrphan
<1>4. CASE RecordUndone(k) \/ RecordInDlq(k)
  <2>1. call'[k].ret = call[k].ret /\ UNCHANGED fsm
    BY <1>4 DEF RecordUndone, RecordInDlq, NextRow, TypeOK, Call
  <2>2. QED
    BY <1>4, <2>1 DEF RecordUndone, RecordInDlq
<1>5. CASE EndRollback(k)
  BY <1>5 DEF EndRollback, FinishRollback, ReturnToCaller, Return, Goto, TypeOK
<1>6. CASE Recovery(k)
  BY <1>6 DEF Recovery, RecoverSession, FailOrphan, SettleSession, LabelOK
<1>7. CASE StartRecovery(k)
  BY <1>7
<1>8. CASE \/ BeginPlanning(k) \/ Complete(k) \/ NewKernel(k) \/ \E t \in Tool : BeginTool(k, t)
           \/ \E t \in Tool, s \in Session, key \in Key \cup {NoKey} :
                 ReturnCached(k, t, s, key) \/ ExecuteTool(k, t, s, key)
           \/ \E s \in Session : ApproveAction(k, s) \/ RejectAction(k, s)
  BY <1>8 DEF BeginPlanning, Complete, NewKernel, BeginTool, ReturnCached, ExecuteTool,
     ApproveAction, RejectAction, NewCall, TypeOK
<1>9. CASE Failure(k)
  BY <1>9 DEF Failure, LogFault, CommitFault, RollbackFault, RecoveryFault, Crash, ReturnToCaller,
     Return, Goto, TypeOK
<1>10. QED
  BY <1>1, <1>2, <1>3, <1>4, <1>5, <1>6, <1>7, <1>8, <1>9
  DEF AnyStep, Progress, Log, Rollback, Caller

LEMMA AloneStep ==
    ASSUME TypeOK, ExclusiveRecovery, NEW k \in Kernel, AnyStep(k),
           \A j \in Kernel : AloneOK(j) /\ LabelOK(j)
    PROVE  \A j \in Kernel : AloneOK(j)'
<1> SUFFICES ASSUME NEW j \in Kernel, Recovering(j)'
             PROVE  \A i \in Kernel : fsm'[i] = Idle /\ (i # j => ~Running(i)')
  BY DEF AloneOK
<1>1. \A i \in Kernel \ {k} : pc'[i] = pc[i] /\ call'[i] = call[i]
  BY OthersUntouched DEF AnyStep
<1>2. j = k
  BY <1>1, AloneNoStep DEF Recovering, Running
<1>3. CASE StartRecovery(k)
  BY <1>1, <1>2, <1>3 DEF StartRecovery, Running
<1>4. CASE Recovering(k) /\ UNCHANGED fsm
  BY <1>1, <1>2, <1>4 DEF AloneOK, Running
<1>5. QED
  BY <1>2, <1>3, <1>4, ScanStep
LEMMA LabelStep ==
    ASSUME TypeOK, LedgerInv, NEW k \in Kernel, LabelOK(k), AnyStep(k)
    PROVE  LabelOK(k)'
<1>1. SessionsOf[k] \subseteq Session /\ StepOK(k)
  BY KernelAssumption DEF LedgerInv
<1> USE DEF InRollback
<1>2. CASE LogAction(k)
  <2>1. call' = [call EXCEPT ![k].cur = nrows + 1] /\ pc[k] = "log" /\ pc'[k] = "execute"
    BY <1>2 DEF LogAction, Goto, TypeOK
  <2>2. call'[k].ret = call[k].ret
    BY <2>1 DEF TypeOK, Call
  <2>3. QED
    BY <2>1, <2>2 DEF LabelOK
<1>3. CASE ParkForApproval(k) \/ LogRefused(k) \/ CommitStep(k) \/ Failure(k)
  BY <1>3 DEF ParkForApproval, LogRefused, CommitStep, Failure, LogFault, CommitFault,
     RollbackFault, RecoveryFault, Crash, ReturnToCaller, Return, Goto, LabelOK, TypeOK
<1>4. CASE ToolOk(k) \/ ToolError(k) \/ FailStep(k)
  BY <1>1, <1>4 DEF ToolOk, ToolError, FailStep, Goto, LabelOK, StepOK, TypeOK
<1>5. CASE ScanCommitted(k) \/ CompensateOk(k) \/ CompensateError(k) \/ RecordOrphan(k)
  <2>1. /\ call'[k].ret = call[k].ret /\ call'[k].sess = call[k].sess
        /\ pc'[k] \in {"end", "compensate", "undone", "orphan", "dlq"}
    BY <1>5 DEF ScanCommitted, CompensateOk, CompensateError, RecordOrphan, LoopLabel, Goto,
       TypeOK, Call
  <2>2. InRollback(k)
    BY <1>5 DEF ScanCommitted, CompensateOk, CompensateError, RecordOrphan
  <2>3. QED
    BY <2>1, <2>2 DEF LabelOK
<1>6. CASE RecordUndone(k) \/ RecordInDlq(k)
  <2>1. /\ call'[k].ret = call[k].ret /\ call'[k].sess = call[k].sess
        /\ pc'[k] \in {"end", "compensate"}
    BY <1>6 DEF RecordUndone, RecordInDlq, NextRow, LoopLabel, Goto, TypeOK, Call
  <2>2. InRollback(k)
    BY <1>6 DEF RecordUndone, RecordInDlq
  <2>3. QED
    BY <2>1, <2>2 DEF LabelOK
<1>7. CASE EndRollback(k)
  BY <1>7 DEF EndRollback, FinishRollback, ReturnToCaller, Return, Goto, LabelOK, TypeOK
<1>8. ASSUME NEW s \in Session, RecoverSession(k, s)
      PROVE  LabelOK(k)'
  <2>1. call'[k].ret = call[k].ret /\ call'[k].sess = s /\ pc[k] = "next"
    BY <1>8 DEF RecoverSession, TypeOK, Call
  <2>2. pc'[k] \in {"scan", "pending"}
    BY <1>8 DEF RecoverSession, PendingLabel, Goto, TypeOK
  <2>3. QED
    BY <2>1, <2>2 DEF LabelOK
<1>9. CASE FailOrphan(k)
  <2>1. call'[k].ret = call[k].ret /\ call'[k].sess = call[k].sess /\ pc[k] = "pending"
    BY <1>9 DEF FailOrphan, TypeOK, Call
  <2>2. pc'[k] \in {"scan", "pending"}
    BY <1>9 DEF FailOrphan, PendingLabel, Goto, TypeOK
  <2>3. QED
    BY <2>1, <2>2 DEF LabelOK
<1>10. CASE SettleSession(k)
  <2>1. pc'[k] = "idle" \/ (pc'[k] = "next" /\ call'[k].ret = call[k].ret)
    BY <1>10 DEF SettleSession, Return, Goto, TypeOK, Call
  <2>2. QED
    BY <1>10, <2>1 DEF SettleSession, LabelOK
<1>11. CASE StartRecovery(k)
  BY <1>11 DEF StartRecovery, NewCall, Goto, LabelOK, TypeOK
<1>12. CASE BeginPlanning(k) \/ Complete(k) \/ NewKernel(k) \/ \E t \in Tool : BeginTool(k, t)
  BY <1>12 DEF BeginPlanning, Complete, NewKernel, BeginTool, LabelOK
<1>13. ASSUME NEW s \in Session, ApproveAction(k, s) \/ RejectAction(k, s)
       PROVE  LabelOK(k)'
  BY <1>13 DEF ApproveAction, RejectAction, MayUse, NewCall, Goto, LabelOK, TypeOK
<1>14. ASSUME NEW t \in Tool, NEW s \in Session, NEW key \in Key \cup {NoKey},
              ReturnCached(k, t, s, key) \/ ExecuteTool(k, t, s, key)
       PROVE  LabelOK(k)'
  BY <1>14 DEF ReturnCached, ExecuteTool, NewCall, Goto, LabelOK, TypeOK
<1>15. CASE Progress(k) \/ Failure(k)
  BY <1>2, <1>3, <1>4, <1>5, <1>6, <1>7, <1>8, <1>9, <1>10, <1>15
  DEF Progress, Log, Step, Rollback, Recovery
<1>16. CASE Caller(k)
  BY <1>11, <1>12, <1>13, <1>14, <1>16 DEF Caller
<1>17. QED
  BY <1>15, <1>16 DEF AnyStep

-----------------------------------------------------------------------------
(* The queries of a rollback and of a scan, after an UPDATE. *)
LEMMA MarkQueries ==
    ASSUME TypeOK, NEW i \in ActionId, MarkFailed(i) \/ MarkCompensated(i)
    PROVE  \A s \in Session :
              /\ Committed(s)' = Committed(s) \ {i}
              /\ Orphans(s)' = Orphans(s) \ {i}
<1>1. /\ actions'[i].status \in {"FAILED", "COMPENSATED"}
      /\ \A j \in ActionId \ {i} : actions'[j] = actions[j]
  BY DEF MarkFailed, MarkCompensated, TypeOK, WalTypeOK, Row
<1>2. QED
  BY <1>1 DEF Committed, Orphans, WithStatus, Rows

(* The row an UPDATE of a rollback is about. *)
LEMMA CursorRow ==
    ASSUME TypeOK, LedgerInv, NEW k \in Kernel, TodoOK(k), pc[k] \in {"undone", "orphan", "dlq"}
    PROVE  /\ call[k].cur \in ActionId /\ call[k].cur \in call[k].todo
           /\ pc[k] # "dlq" => Status(call[k].cur) = "COMMITTED"
           /\ pc[k] # "dlq" => actions[call[k].cur].session = call[k].sess
<1>1. call[k].cur \in call[k].todo /\ call[k].todo \subseteq ActionId
  BY DEF LedgerInv, CursorOK, TypeOK, Call
<1>2. QED
  BY <1>1 DEF TodoOK, Committed, WithStatus, Rows, Status

(* Except for the scan, a kernel changes rows of its own sessions only.    *)
LEMMA OwnRows ==
    ASSUME TypeOK, LedgerInv, NEW k \in Kernel, LabelOK(k), TodoOK(k), ~Recovering(k), AnyStep(k),
           NEW i \in ActionId
    PROVE  \/ actions'[i] = actions[i]
           \/ /\ actions'[i].session \in SessionsOf[k]
              /\ Status(i) = "NONE" \/ actions'[i].session = actions[i].session
<1>1. CASE Inserts(k)
  <2>1. nrows + 1 \in ActionId /\ actions'[nrows + 1].session = call[k].sess
    BY <1>1, InsertedRow
  <2>2. Status(nrows + 1) = "NONE"
    BY <2>1, FreshRow
  <2>3. call[k].sess \in SessionsOf[k]
    BY <1>1 DEF Inserts, LedgerInv, StepOK
  <2>4. QED
    BY <1>1, <2>1, <2>2, <2>3, InsertedRow
<1>2. CASE KeepsColumns
  <2> SUFFICES ASSUME actions'[i] # actions[i]
               PROVE  actions[i].session \in SessionsOf[k]
    BY <1>2 DEF KeepsColumns
  <2>1. CASE CommitStep(k) \/ FailStep(k)
    <3>1. i = call[k].cur
      BY <2>1 DEF CommitStep, FailStep, MarkCommitted, MarkFailed, TypeOK, WalTypeOK
    <3>2. QED
      BY <2>1, <3>1 DEF CommitStep, FailStep, LedgerInv, StepOK
  <2>2. CASE RecordUndone(k) \/ RecordOrphan(k)
    <3>1. i = call[k].cur
      BY <2>2 DEF RecordUndone, RecordOrphan, MarkCompensationFailed, MarkCompensated, MarkFailed,
         TypeOK, WalTypeOK
    <3>2. pc[k] \in {"undone", "orphan"}
      BY <2>2 DEF RecordUndone, RecordOrphan
    <3>3. call[k].sess \in SessionsOf[k]
      BY <3>2 DEF LabelOK, InRollback, Recovering, Running
    <3>4. QED
      BY <3>1, <3>2, <3>3, CursorRow
  <2>3. CASE FailOrphan(k)
    BY <2>3 DEF FailOrphan, LabelOK, Recovering, Running
  <2>4. ASSUME NEW s \in Session, RejectAction(k, s)
        PROVE  actions[i].session \in SessionsOf[k]
    BY <2>4 DEF RejectAction, IsPendingApproval, IsLast, WithStatus, Rows, MayUse, MarkFailed,
       TypeOK, WalTypeOK
  <2>5. CASE LogAction(k) \/ ParkForApproval(k)
    <3>1. Inserts(k)
      BY <2>5 DEF LogAction, ParkForApproval, Inserts
    <3>2. QED
      BY <1>1, <1>2, <3>1 DEF KeepsColumns
  <2>6. QED
    BY <2>1, <2>2, <2>3, <2>4, <2>5
    DEF AnyStep, Progress, Log, LogRefused, Step, ToolOk, ToolError, Rollback, ScanCommitted,
        CompensateOk, CompensateError, RecordInDlq, EndRollback, Recovery, RecoverSession,
        SettleSession, Caller, BeginPlanning, Complete, NewKernel, StartRecovery, BeginTool,
        ReturnCached, ExecuteTool, ApproveAction, Failure, LogFault, CommitFault, RollbackFault,
        RecoveryFault, Crash
<1>3. QED
  BY <1>1, <1>2, ColumnsStep

(* The sessions of another kernel answer as before. *)
LEMMA ElsewhereQueries ==
    ASSUME DisjointSessions, TypeOK, LedgerInv, NEW k \in Kernel, LabelOK(k), TodoOK(k),
           ~Recovering(k), AnyStep(k), NEW j \in Kernel \ {k}, NEW s \in SessionsOf[j]
    PROVE  /\ Committed(s)' = Committed(s)
           /\ Orphans(s)' = Orphans(s)
           /\ \A i \in Rows(s) : Status(i) # "NONE" => actions'[i] = actions[i]
           /\ \A i \in ActionId : actions'[i].session = s => actions'[i] = actions[i]
<1>1. s \notin SessionsOf[k]
  BY DEF DisjointSessions
<1>2. ASSUME NEW i \in ActionId, actions'[i].session = s
      PROVE  actions'[i] = actions[i]
  BY <1>1, <1>2, OwnRows
<1>3. ASSUME NEW i \in ActionId, actions[i].session = s, Status(i) # "NONE"
      PROVE  actions'[i] = actions[i]
  BY <1>1, <1>3, OwnRows
<1>4. QED
  BY <1>2, <1>3 DEF Committed, Orphans, WithStatus, Rows, Status

LEMMA OthersRecovery ==
    ASSUME DisjointSessions, ExclusiveRecovery, TypeOK, LedgerInv, RecoveryInv,
           NEW k \in Kernel, AnyStep(k), NEW j \in Kernel \ {k}
    PROVE  LabelOK(j)' /\ TodoOK(j)' /\ ScanOK(j)' /\ OpenOK(j)'
<1> USE DEF InRollback
<1>1. pc'[j] = pc[j] /\ call'[j] = call[j]
  BY OthersUntouched DEF AnyStep
<1>2. LabelOK(j) /\ TodoOK(j) /\ OpenOK(j) /\ StepOK(j) /\ ~Recovering(j)
  BY AloneNoStep DEF RecoveryInv, LedgerInv
<1>3. CASE pc[j] = "idle"
  BY <1>1, <1>3 DEF LabelOK, TodoOK, ScanOK, OpenOK, Recovering, Running
<1>4. CASE pc[j] # "idle"
  <2>1. ~Recovering(k) /\ LabelOK(k) /\ TodoOK(k)
    BY <1>4 DEF RecoveryInv, AloneOK, Running
  <2>2. /\ pc[j] \notin {"next", "pending", "settle"}
        /\ InRollback(j) \/ pc[j] \in {"log", "execute", "commit", "fail"} => call[j].sess \in SessionsOf[j]
    BY <1>2, <1>4 DEF LabelOK, Recovering, Running, StepOK
  <2>3. LabelOK(j)' /\ ScanOK(j)'
    BY <1>1, <1>2 DEF LabelOK, ScanOK, Recovering, Running
  <2>4. TodoOK(j)'
    BY <1>1, <1>2, <2>1, <2>2, ElsewhereQueries DEF TodoOK
  <2>5. OpenOK(j)'
    <3> SUFFICES ASSUME pc[j] \in {"execute", "commit", "fail"}
                 PROVE  OpenOK(j)'
      BY <1>1 DEF OpenOK
    <3>1. /\ call[j].cur \in Rows(call[j].sess) /\ Status(call[j].cur) # "NONE"
          /\ call[j].sess \in SessionsOf[j]
      BY <1>2, <2>2 DEF StepOK, Rows
    <3>2. actions'[call[j].cur] = actions[call[j].cur]
      BY <2>1, <3>1, ElsewhereQueries
    <3>3. QED
      BY <1>1, <1>2, <3>2 DEF OpenOK, Status
  <2>6. QED
    BY <2>3, <2>4, <2>5
<1>5. QED
  BY <1>3, <1>4

LEMMA OwnOpenOK ==
    ASSUME TypeOK, LedgerInv, NEW k \in Kernel, OpenOK(k), AnyStep(k)
    PROVE  OpenOK(k)'
<1>1. CASE LogAction(k)
  <2>1. call'[k].cur = nrows + 1 /\ Inserts(k)
    BY <1>1 DEF LogAction, Inserts, TypeOK, Call
  <2>2. nrows + 1 \in ActionId
    BY <2>1, InsertedRow
  <2>3. actions'[nrows + 1].status = "PENDING"
    BY <1>1, <2>2 DEF LogAction, InsertAction, TypeOK, WalTypeOK
  <2>4. QED
    BY <2>1, <2>3 DEF OpenOK, Status
<1>2. CASE ToolOk(k) \/ ToolError(k)
  BY <1>2 DEF ToolOk, ToolError, Goto, OpenOK, Status, TypeOK
<1>3. ASSUME NEW s \in Session, ApproveAction(k, s)
      PROVE  OpenOK(k)'
  <2>1. PICK i \in ActionId :
           /\ IsPendingApproval(s, fsm[k].tool, i)
           /\ call' = [call EXCEPT ![k] = NewCall("step", s, actions[i].seq, actions[i].key, i)]
    BY <1>3 DEF ApproveAction
  <2>2. call'[k].cur = i /\ UNCHANGED actions
    BY <1>3, <2>1 DEF ApproveAction, NewCall, TypeOK
  <2>3. Status(i) = "PENDING_APPROVAL"
    BY <2>1 DEF IsPendingApproval, IsLast, WithStatus, Status
  <2>4. QED
    BY <2>2, <2>3 DEF OpenOK, Status
<1>4. ASSUME NEW t \in Tool, NEW s \in Session, NEW key \in Key \cup {NoKey},
             ExecuteTool(k, t, s, key)
      PROVE  OpenOK(k)'
  BY <1>4 DEF ExecuteTool, Goto, OpenOK, TypeOK
<1>5. CASE pc'[k] \notin {"log", "execute", "commit", "fail"}
  BY <1>5 DEF OpenOK
<1>6. QED
  BY <1>1, <1>2, <1>3, <1>4, <1>5, PointStep

(* The list of the loop that moves, and the table. *)
LEMMA OwnTodoOK ==
    ASSUME TypeOK, LedgerInv, NEW k \in Kernel, LabelOK(k), TodoOK(k), AnyStep(k)
    PROVE  TodoOK(k)'
<1>1. CASE ScanCommitted(k)
  <2>1. /\ call'[k].todo = Committed(call[k].sess) /\ call'[k].sess = call[k].sess
        /\ pc'[k] = LoopLabel(Committed(call[k].sess)) /\ UNCHANGED actions
    BY <1>1 DEF ScanCommitted, Goto, TypeOK, Call
  <2>2. \A s : Committed(s)' = Committed(s)
    BY <2>1 DEF Committed, WithStatus, Rows
  <2>3. QED
    BY <2>1, <2>2 DEF LoopLabel, TodoOK
<1>2. CASE CompensateOk(k) \/ CompensateError(k)
  <2>1. /\ call'[k].todo = call[k].todo /\ call'[k].sess = call[k].sess /\ UNCHANGED actions
        /\ pc[k] = "compensate" /\ pc'[k] \in {"undone", "orphan"}
    BY <1>2 DEF CompensateOk, CompensateError, Goto, TypeOK, Call
  <2>2. \A s : Committed(s)' = Committed(s)
    BY <2>1 DEF Committed, WithStatus, Rows
  <2>3. QED
    BY <2>1, <2>2 DEF TodoOK
<1>3. CASE RecordUndone(k)
  <2>1. pc[k] = "undone" /\ call[k].cur \in ActionId /\ call[k].sess \in Session
    BY <1>3, CursorRow DEF RecordUndone, LabelOK, InRollback
  <2>2. \A s \in Session : Committed(s)' = Committed(s) \ {call[k].cur}
    BY <1>3, <2>1, MarkQueries DEF RecordUndone
  <2>3. /\ call'[k].todo = call[k].todo \ {call[k].cur} /\ call'[k].sess = call[k].sess
        /\ pc'[k] = LoopLabel(call[k].todo \ {call[k].cur})
    BY <1>3 DEF RecordUndone, NextRow, Goto, TypeOK, Call
  <2>4. QED
    BY <2>1, <2>2, <2>3 DEF TodoOK, LoopLabel
<1>4. CASE RecordOrphan(k)
  <2>1. pc[k] = "orphan" /\ call[k].cur \in ActionId /\ call[k].sess \in Session
    BY <1>4, CursorRow DEF RecordOrphan, LabelOK, InRollback
  <2>2. \A s \in Session : Committed(s)' = Committed(s) \ {call[k].cur}
    BY <1>4, <2>1, MarkQueries DEF RecordOrphan, MarkCompensationFailed
  <2>3. UNCHANGED call /\ pc'[k] = "dlq"
    BY <1>4 DEF RecordOrphan, Goto, TypeOK
  <2>4. QED
    BY <2>1, <2>2, <2>3 DEF TodoOK
<1>5. CASE RecordInDlq(k)
  <2>1. /\ call'[k].todo = call[k].todo \ {call[k].cur} /\ call'[k].sess = call[k].sess
        /\ pc[k] = "dlq" /\ pc'[k] = LoopLabel(call[k].todo \ {call[k].cur}) /\ UNCHANGED actions
    BY <1>5 DEF RecordInDlq, NextRow, Goto, TypeOK, Call
  <2>2. \A s : Committed(s)' = Committed(s)
    BY <2>1 DEF Committed, WithStatus, Rows
  <2>3. QED
    BY <2>1, <2>2 DEF TodoOK, LoopLabel
<1>6. CASE EndRollback(k)
  <2>1. /\ pc[k] = "end" /\ UNCHANGED actions
        /\ pc'[k] = "idle" \/ (pc'[k] = "settle" /\ UNCHANGED call)
    BY <1>6 DEF EndRollback, FinishRollback, ReturnToCaller, Return, Goto, TypeOK
  <2>2. QED
    BY <2>1 DEF TodoOK, Committed, WithStatus, Rows
<1>7. ASSUME NEW s \in Session, RecoverSession(k, s)
      PROVE  TodoOK(k)'
  <2>1. /\ call'[k].todo = Orphans(s) /\ call'[k].sess = s /\ pc'[k] \in {"scan", "pending"}
        /\ UNCHANGED actions
    BY <1>7 DEF RecoverSession, PendingLabel, Goto, TypeOK, Call
  <2>2. QED
    BY <2>1 DEF TodoOK, Orphans, WithStatus, Rows
<1>8. CASE FailOrphan(k)
  <2>1. PICK i \in call[k].todo : MarkFailed(i) /\ call' = [call EXCEPT ![k].todo = @ \ {i}]
    BY <1>8 DEF FailOrphan
  <2>2. i \in ActionId /\ call[k].sess \in Session /\ pc[k] = "pending"
    BY <1>8, <2>1 DEF FailOrphan, LabelOK, TypeOK, Call
  <2>3. \A s \in Session : Orphans(s)' = Orphans(s) \ {i}
    BY <2>1, <2>2, MarkQueries
  <2>4. /\ call'[k].todo = call[k].todo \ {i} /\ call'[k].sess = call[k].sess
        /\ pc'[k] \in {"scan", "pending"}
    BY <1>8, <2>1 DEF FailOrphan, PendingLabel, Goto, TypeOK, Call
  <2>5. QED
    BY <2>2, <2>3, <2>4 DEF TodoOK
<1>9. CASE pc'[k] \notin {"compensate", "undone", "orphan", "dlq", "end", "settle", "pending"}
  BY <1>9 DEF TodoOK
<1>10. CASE Log(k) \/ Step(k) \/ SettleSession(k) \/ Failure(k)
  BY <1>9, <1>10 DEF Log, LogAction, ParkForApproval, LogRefused, Step, ToolOk, ToolError,
     CommitStep, FailStep, SettleSession, Failure, LogFault, CommitFault, RollbackFault,
     RecoveryFault, Crash, ReturnToCaller, Return, Goto, TypeOK
<1>11. CASE Caller(k)
  BY <1>9, <1>11 DEF Caller, BeginPlanning, Complete, NewKernel, StartRecovery, BeginTool,
     ReturnCached, ExecuteTool, ApproveAction, RejectAction, Running, Goto, TypeOK
<1>12. QED
  BY <1>1, <1>2, <1>3, <1>4, <1>5, <1>6, <1>7, <1>8, <1>10, <1>11
  DEF AnyStep, Progress, Rollback, Recovery

(* What dangles, after an UPDATE and without one. *)
LEMMA DanglingStep ==
    ASSUME TypeOK, NEW i \in ActionId, MarkFailed(i) \/ MarkCompensated(i)
    PROVE  DanglingSessions' \subseteq DanglingSessions
BY MarkQueries DEF DanglingSessions

LEMMA SameQueries ==
    ASSUME UNCHANGED actions
    PROVE  /\ \A s : Committed(s)' = Committed(s) /\ Orphans(s)' = Orphans(s)
           /\ DanglingSessions' = DanglingSessions
BY DEF Committed, Orphans, WithStatus, Rows, DanglingSessions

LEMMA OwnScanOK ==
    ASSUME TypeOK, LedgerInv, NEW k \in Kernel, LabelOK(k), TodoOK(k), ScanOK(k), AnyStep(k)
    PROVE  ScanOK(k)'
<1> USE DEF InRollback
<1>1. CASE StartRecovery(k)
  <2>1. /\ call' = [call EXCEPT ![k] =
              [NewCall("recover", NoSession, 0, NoKey, 0) EXCEPT !.dangling = DanglingSessions]]
        /\ pc'[k] = "next" /\ UNCHANGED actions
    BY <1>1 DEF StartRecovery, Goto, TypeOK
  <2>2. call'[k].dangling = DanglingSessions
    BY <2>1 DEF NewCall, TypeOK
  <2>3. QED
    BY <2>1, <2>2, SameQueries DEF ScanOK
<1>2. CASE Recovering(k)
  <2>1. DanglingSessions \subseteq call[k].dangling
    BY <1>2 DEF ScanOK
  <2>2. ASSUME NEW s \in Session, RecoverSession(k, s)
        PROVE  ScanOK(k)'
    <3>1. /\ call'[k].dangling = call[k].dangling /\ call'[k].sess = s /\ UNCHANGED actions
          /\ pc'[k] = PendingLabel(Orphans(s))
      BY <2>2 DEF RecoverSession, Goto, TypeOK, Call
    <3>2. QED
      BY <2>1, <3>1, SameQueries DEF PendingLabel, ScanOK
  <2>3. CASE FailOrphan(k)
    <3>1. PICK i \in call[k].todo :
             /\ MarkFailed(i) /\ call' = [call EXCEPT ![k].todo = @ \ {i}]
             /\ Goto(k, PendingLabel(call[k].todo \ {i}))
      BY <2>3 DEF FailOrphan
    <3>2. /\ call'[k].dangling = call[k].dangling /\ call'[k].sess = call[k].sess
          /\ pc'[k] = PendingLabel(call[k].todo \ {i})
          /\ i \in ActionId /\ call[k].sess \in Session
          /\ call[k].todo = Orphans(call[k].sess)
      BY <2>3, <3>1 DEF FailOrphan, Goto, LabelOK, TodoOK, TypeOK, Call
    <3>3. /\ \A s \in Session : Orphans(s)' = Orphans(s) \ {i}
          /\ DanglingSessions' \subseteq DanglingSessions
      BY <3>1, <3>2, MarkQueries, DanglingStep
    <3>4. QED
      BY <2>1, <3>2, <3>3 DEF PendingLabel, ScanOK
  <2>4. CASE ScanCommitted(k) \/ CompensateOk(k) \/ CompensateError(k) \/ RecordInDlq(k)
    <3>1. /\ call'[k].dangling = call[k].dangling /\ call'[k].sess = call[k].sess
          /\ UNCHANGED actions
      BY <2>4 DEF ScanCommitted, CompensateOk, CompensateError, RecordInDlq, NextRow, TypeOK, Call
    <3>2. Orphans(call[k].sess) = {}
      BY <1>2, <2>4 DEF ScanCommitted, CompensateOk, CompensateError, RecordInDlq, ScanOK
    <3>3. QED
      BY <2>1, <3>1, <3>2, SameQueries DEF ScanOK
  <2>5. CASE RecordUndone(k) \/ RecordOrphan(k)
    <3>1. /\ call'[k].dangling = call[k].dangling /\ call'[k].sess = call[k].sess
          /\ MarkCompensated(call[k].cur) \/ MarkFailed(call[k].cur)
      BY <2>5 DEF RecordUndone, RecordOrphan, MarkCompensationFailed, NextRow, TypeOK, Call
    <3>2. call[k].cur \in ActionId /\ call[k].sess \in Session /\ Orphans(call[k].sess) = {}
      BY <1>2, <2>5, CursorRow DEF RecordUndone, RecordOrphan, LabelOK, ScanOK
    <3>3. /\ \A s \in Session : Orphans(s)' = Orphans(s) \ {call[k].cur}
          /\ DanglingSessions' \subseteq DanglingSessions
      BY <3>1, <3>2, MarkQueries, DanglingStep
    <3>4. QED
      BY <2>1, <3>1, <3>2, <3>3 DEF ScanOK
  <2>6. CASE EndRollback(k)
    <3>1. UNCHANGED <<call, actions>>
      BY <1>2, <2>6 DEF EndRollback, FinishRollback, Recovering
    <3>2. QED
      BY <1>2, <2>1, <2>6, <3>1, SameQueries DEF EndRollback, ScanOK
  <2>7. CASE SettleSession(k)
    <3>1. /\ UNCHANGED actions
          /\ \/ pc'[k] = "idle"
             \/ /\ pc'[k] = "next"
                /\ call'[k].dangling = call[k].dangling \ {call[k].sess}
      BY <2>7 DEF SettleSession, Return, Goto, TypeOK, Call
    <3>2. call[k].sess \notin DanglingSessions
      BY <1>2, <2>7 DEF SettleSession, ScanOK, TodoOK, DanglingSessions
    <3>3. QED
      BY <2>1, <3>1, <3>2, SameQueries DEF ScanOK, Recovering, Running
  <2>8. CASE Failure(k)
    BY <2>8 DEF Failure, LogFault, CommitFault, RollbackFault, RecoveryFault, Crash,
       ReturnToCaller, Return, Goto, ScanOK, Recovering, Running, TypeOK
  <2>9. CASE Log(k) \/ Step(k)
    BY <1>2, <2>9 DEF Log, LogAction, ParkForApproval, LogRefused, Step, ToolOk, ToolError,
       CommitStep, FailStep, LabelOK, Recovering
  <2>10. ~Caller(k) \/ StartRecovery(k)
    BY <1>2 DEF Caller, BeginPlanning, Complete, NewKernel, StartRecovery, BeginTool, ReturnCached,
       ExecuteTool, ApproveAction, RejectAction, Recovering
  <2>11. QED
    BY <1>1, <2>2, <2>3, <2>4, <2>5, <2>6, <2>7, <2>8, <2>9, <2>10
    DEF AnyStep, Progress, Rollback, Recovery
<1>3. CASE ~Recovering(k)'
  BY <1>3 DEF ScanOK
<1>4. QED
  BY <1>1, <1>2, <1>3, ScanStep

LEMMA RecoveryStep ==
    ASSUME DisjointSessions, ExclusiveRecovery, TypeOK, LedgerInv, RecoveryInv, [Next]_vars
    PROVE  RecoveryInv'
<1>1. CASE UNCHANGED vars
  BY <1>1, SameQueries DEF vars, RecoveryInv, AloneOK, LabelOK, TodoOK, ScanOK, OpenOK, InRollback,
     Recovering, Running, Status
<1>2. ASSUME NEW k \in Kernel, AnyStep(k)
      PROVE  RecoveryInv'
  <2>1. \A j \in Kernel : AloneOK(j)'
    BY <1>2, AloneStep DEF RecoveryInv
  <2>2. LabelOK(k)' /\ TodoOK(k)' /\ ScanOK(k)' /\ OpenOK(k)'
    BY <1>2, LabelStep, OwnTodoOK, OwnScanOK, OwnOpenOK DEF RecoveryInv
  <2>3. \A j \in Kernel \ {k} : LabelOK(j)' /\ TodoOK(j)' /\ ScanOK(j)' /\ OpenOK(j)'
    BY <1>2, OthersRecovery
  <2>4. QED
    BY <2>1, <2>2, <2>3 DEF RecoveryInv
<1>3. QED
  BY <1>1, <1>2 DEF Next, AnyStep

LEMMA RecoveryInvariant ==
    ASSUME DisjointSessions, ExclusiveRecovery
    PROVE  Spec => []RecoveryInv
<1>1. Init => RecoveryInv
  BY DEF Init, NoCall, NewCall, RecoveryInv, AloneOK, LabelOK, TodoOK, ScanOK, OpenOK, InRollback,
     Recovering, Running
<1>2. TypeOK /\ LedgerInv /\ RecoveryInv /\ [Next]_vars => RecoveryInv'
  BY RecoveryStep
<1>3. QED
  BY <1>1, <1>2, TypeCorrect, LedgerInvariant, PTL DEF Spec

-----------------------------------------------------------------------------
(* The transitions of a status, as the UPDATEs make them. *)
LEMMA ForwardTable ==
    /\ Forward["NONE"] = {"PENDING", "PENDING_APPROVAL"}
    /\ Forward["PENDING"] = {"COMMITTED", "FAILED"}
    /\ Forward["PENDING_APPROVAL"] = {"COMMITTED", "FAILED"}
    /\ Forward["COMMITTED"] = {"COMPENSATED", "FAILED"}
    /\ Forward["FAILED"] = {} /\ Forward["COMPENSATED"] = {}
BY DEF Forward, ActionStatus

LEMMA ForwardStep ==
    ASSUME TypeOK, LedgerInv, NEW k \in Kernel, LabelOK(k), TodoOK(k), OpenOK(k), AnyStep(k),
           NEW i \in ActionId, Status(i)' # Status(i)
    PROVE  Status(i)' \in Forward[Status(i)]
<1>1. CASE LogAction(k) \/ ParkForApproval(k)
  <2>1. Inserts(k)
    BY <1>1 DEF LogAction, ParkForApproval, Inserts
  <2>2. nrows + 1 \in ActionId /\ i = nrows + 1
    BY <2>1, InsertedRow DEF Status
  <2>3. Status(i) = "NONE"
    BY <2>2, FreshRow
  <2>4. Status(i)' \in {"PENDING", "PENDING_APPROVAL"}
    BY <1>1, <2>2 DEF LogAction, ParkForApproval, InsertAction, Status, TypeOK, WalTypeOK
  <2>5. QED
    BY <2>3, <2>4, ForwardTable
<1>2. ASSUME NEW c \in ActionId, MarkCommitted(c) \/ MarkFailed(c),
             Status(c) \in {"PENDING", "PENDING_APPROVAL"}
      PROVE  Status(i)' \in Forward[Status(i)]
  <2>1. i = c
    BY <1>2 DEF MarkCommitted, MarkFailed, Status, TypeOK, WalTypeOK
  <2>2. Status(i)' \in {"COMMITTED", "FAILED"}
    BY <1>2, <2>1 DEF MarkCommitted, MarkFailed, Status, TypeOK, WalTypeOK, Row
  <2>3. QED
    BY <1>2, <2>1, <2>2, ForwardTable
<1>3. CASE CommitStep(k) \/ FailStep(k)
  <2>1. call[k].cur \in ActionId /\ Status(call[k].cur) \in {"PENDING", "PENDING_APPROVAL"}
    BY <1>3 DEF CommitStep, FailStep, LedgerInv, StepOK, OpenOK
  <2>2. QED
    BY <1>2, <1>3, <2>1 DEF CommitStep, FailStep, Status
<1>4. CASE RecordUndone(k) \/ RecordOrphan(k)
  <2> DEFINE c == call[k].cur
  <2>1. c \in ActionId /\ Status(c) = "COMMITTED"
    BY <1>4, CursorRow DEF RecordUndone, RecordOrphan
  <2>2. MarkCompensated(c) \/ MarkFailed(c)
    BY <1>4 DEF RecordUndone, RecordOrphan, MarkCompensationFailed
  <2>3. i = c
    BY <2>1, <2>2 DEF MarkCompensated, MarkFailed, Status, TypeOK, WalTypeOK
  <2>4. Status(i)' \in {"COMPENSATED", "FAILED"}
    BY <2>1, <2>2, <2>3 DEF MarkCompensated, MarkFailed, Status, TypeOK, WalTypeOK, Row
  <2>5. QED
    BY <2>1, <2>3, <2>4, ForwardTable
<1>5. CASE FailOrphan(k)
  <2>1. PICK c \in call[k].todo : MarkFailed(c)
    BY <1>5 DEF FailOrphan
  <2>2. c \in ActionId /\ Status(c) = "PENDING"
    BY <1>5, <2>1 DEF FailOrphan, TodoOK, Orphans, WithStatus, Rows, Status
  <2>3. QED
    BY <1>2, <2>1, <2>2
<1>6. ASSUME NEW s \in Session, RejectAction(k, s)
      PROVE  Status(i)' \in Forward[Status(i)]
  <2>1. PICK c \in ActionId : IsPendingApproval(s, fsm[k].tool, c) /\ MarkFailed(c)
    BY <1>6 DEF RejectAction, Status
  <2>2. Status(c) = "PENDING_APPROVAL"
    BY <2>1 DEF IsPendingApproval, IsLast, WithStatus, Status
  <2>3. QED
    BY <1>2, <2>1, <2>2
<1>7. CASE UNCHANGED actions
  BY <1>7 DEF Status
<1>8. QED
  BY <1>1, <1>3, <1>4, <1>5, <1>6, <1>7
  DEF AnyStep, Progress, Log, LogRefused, Step, ToolOk, ToolError, Rollback, ScanCommitted,
      CompensateOk, CompensateError, RecordInDlq, EndRollback, Recovery, RecoverSession,
      SettleSession, Caller, BeginPlanning, Complete, NewKernel, StartRecovery, BeginTool,
      ReturnCached, ExecuteTool, ApproveAction, Failure, LogFault, CommitFault, RollbackFault,
      RecoveryFault, Crash

(* A row's status only moves forward, whatever crashes and failing         *)
(* statements happen, although no UPDATE of wal.rs looks at the status it  *)
(* overwrites: COMPENSATED and FAILED rows are final, and COMMITTED is     *)
(* left only by a compensation.                                            *)
THEOREM StatusForward ==
    ASSUME DisjointSessions, ExclusiveRecovery
    PROVE  Spec => StatusMovesForward
<1> DEFINE Good == \A i \in ActionId :
              Status(i)' # Status(i) => Status(i)' \in Forward[Status(i)]
<1>1. ASSUME TypeOK, LedgerInv, RecoveryInv, [Next]_vars
      PROVE  [Good]_actions
  <2>1. CASE UNCHANGED vars
    BY <2>1 DEF vars
  <2>2. ASSUME NEW k \in Kernel, AnyStep(k)
        PROVE  Good
    BY <1>1, <2>2, ForwardStep DEF RecoveryInv
  <2>3. QED
    BY <1>1, <2>1, <2>2 DEF Next, AnyStep
<1>2. QED
  BY <1>1, TypeCorrect, LedgerInvariant, RecoveryInvariant, PTL DEF Spec, StatusMovesForward

(* An effect is undone by the compensation of a row that is last in its    *)
(* list, and by nothing else.                                              *)
LEMMA UndoneStep ==
    ASSUME TypeOK, NEW k \in Kernel, AnyStep(k), NEW i \in ActionId,
           world[i] # "undone", world'[i] = "undone"
    PROVE  CompensateOk(k) /\ IsLast(i, call[k].todo)
<1>1. CASE ToolOk(k)
  BY <1>1 DEF ToolOk, TypeOK
<1>2. CASE CompensateOk(k)
  BY <1>2 DEF CompensateOk, TypeOK
<1>3. CASE UNCHANGED world
  BY <1>3
<1>4. QED
  BY <1>1, <1>2, <1>3
  DEF AnyStep, Progress, Log, LogAction, ParkForApproval, LogRefused, Step, ToolError, CommitStep,
      FailStep, Rollback, ScanCommitted, CompensateError, RecordUndone, RecordOrphan, RecordInDlq,
      EndRollback, Recovery, RecoverSession, FailOrphan, SettleSession, Caller, BeginPlanning,
      Complete, NewKernel, StartRecovery, BeginTool, ReturnCached, ExecuteTool, ApproveAction,
      RejectAction, Failure, LogFault, CommitFault, RollbackFault, RecoveryFault, Crash

(* Compensation is last in, first out: when an effect is undone, no later  *)
(* row of its session is COMMITTED (committed_desc).  The list is read     *)
(* once and the rows are compensated one by one: that it is still the      *)
(* COMMITTED rows at every turn of the loop is TodoOK.                     *)
THEOREM LifoCompensation ==
    ASSUME DisjointSessions, ExclusiveRecovery
    PROVE  Spec => CompensationIsLifo
<1> DEFINE Good == \A i \in ActionId :
              world[i] = "applied" /\ world'[i] = "undone" =>
                  \A j \in Committed(actions[i].session) : actions[j].seq <= actions[i].seq
<1>1. ASSUME TypeOK, RecoveryInv, [Next]_vars
      PROVE  [Good]_world
  <2>1. CASE UNCHANGED vars
    BY <2>1 DEF vars
  <2>2. ASSUME NEW k \in Kernel, AnyStep(k)
        PROVE  Good
    <3> SUFFICES ASSUME NEW i \in ActionId, world[i] = "applied", world'[i] = "undone"
                 PROVE  \A j \in Committed(actions[i].session) : actions[j].seq <= actions[i].seq
      OBVIOUS
    <3>1. CompensateOk(k) /\ IsLast(i, call[k].todo)
      BY <1>1, <2>2, UndoneStep
    <3>2. call[k].todo = Committed(call[k].sess)
      BY <1>1, <3>1 DEF CompensateOk, RecoveryInv, TodoOK
    <3>3. actions[i].session = call[k].sess
      BY <3>1, <3>2 DEF IsLast, Committed, WithStatus, Rows
    <3>4. QED
      BY <3>1, <3>2, <3>3 DEF IsLast
  <2>3. QED
    BY <1>1, <2>1, <2>2 DEF Next, AnyStep
<1>2. QED
  BY <1>1, TypeCorrect, RecoveryInvariant, PTL DEF Spec, CompensationIsLifo

(* A recovery scan that returns without an error leaves nothing dangling:  *)
(* no session that it did not list has come to dangle meanwhile, and each  *)
(* it listed was settled with no row PENDING or COMMITTED.                 *)
THEOREM RecoverySettlesAll ==
    ASSUME DisjointSessions, ExclusiveRecovery
    PROVE  Spec => RecoveryLeavesNothingDangling
<1> DEFINE Good == \A k \in Kernel :
              Recovering(k) /\ pc'[k] = "idle" /\ UNCHANGED budgetVars => DanglingSessions' = {}
<1>1. ASSUME TypeOK, RecoveryInv, [Next]_vars
      PROVE  [Good]_vars
  <2> SUFFICES ASSUME NEW j \in Kernel, AnyStep(j), NEW k \in Kernel,
                      Recovering(k), pc'[k] = "idle", UNCHANGED budgetVars
               PROVE  DanglingSessions' = {}
    BY <1>1 DEF Next, AnyStep
  <2>1. j = k
    BY <1>1, OthersUntouched DEF AnyStep, Recovering, Running
  <2>2. LabelOK(k) /\ TodoOK(k) /\ ScanOK(k)
    BY <1>1 DEF RecoveryInv
  <2>3. ~Failure(k)
    BY <1>1 DEF Failure, LogFault, CommitFault, RollbackFault, RecoveryFault, Crash, Fault, TypeOK
  <2>4. ~(Log(k) \/ Step(k) \/ Caller(k))
    BY <2>2 DEF Log, LogAction, ParkForApproval, LogRefused, Step, ToolOk, ToolError, CommitStep,
       FailStep, Caller, BeginPlanning, Complete, NewKernel, StartRecovery, BeginTool, ReturnCached,
       ExecuteTool, ApproveAction, RejectAction, LabelOK, Recovering
  <2>5. ~Rollback(k)
    BY <1>1 DEF Rollback, ScanCommitted, CompensateOk, CompensateError, RecordUndone, RecordOrphan,
       RecordInDlq, NextRow, LoopLabel, EndRollback, FinishRollback, Goto, Recovering, TypeOK
  <2>6. SettleSession(k)
    <3>1. Recovery(k)
      BY <2>1, <2>3, <2>4, <2>5 DEF AnyStep, Progress
    <3>2. QED
      BY <1>1, <3>1 DEF Recovery, RecoverSession, FailOrphan, PendingLabel, Goto, TypeOK
  <2>7. call[k].dangling \ {call[k].sess} = {} /\ UNCHANGED actions
    BY <1>1, <2>6 DEF SettleSession, Goto, TypeOK
  <2>8. DanglingSessions \subseteq {call[k].sess} /\ call[k].sess \notin DanglingSessions
    BY <2>2, <2>6, <2>7 DEF SettleSession, ScanOK, TodoOK, DanglingSessions
  <2>9. QED
    BY <2>7, <2>8, SameQueries
<1>2. QED
  BY <1>1, TypeCorrect, RecoveryInvariant, PTL DEF Spec, RecoveryLeavesNothingDangling
=============================================================================
