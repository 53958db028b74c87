-------------------------- MODULE SagaOutcomeProofs --------------------------
(***************************************************************************)
(* What becomes of a saga, when the recovery scan runs at boot and every   *)
(* caller keeps to one fresh session per saga: a live saga is not undone   *)
(* under its feet and, unless a process crashes or a statement fails,      *)
(* every effect is accounted for, a failed saga is settled, a session with *)
(* a dead letter says so, and audit and replay tell what happened.         *)
(***************************************************************************)
EXTENDS SagaRecoveryProofs, SessionReplay, FiniteSetTheorems

USE DEF walVars, kernelVars, ghostVars, budgetVars

Live(k) == fsm[k].mode \in {"Planning", "ExecutingTool", "Verifying", "AwaitingApproval"}

GivenUp(k) == fsm[k].mode \in {"Compensating", "Failed"}

InStep(k) == pc[k] \in {"execute", "commit", "fail"}

(* A rollback for a step or a rejection is of the kernel's saga, which it  *)
(* has given up.                                                           *)
GivenUpOK(k) ==
    /\ fsm[k].mode = "Idle" => saga[k] = {}
    /\ InRollback(k) /\ call[k].ret # "recover" => call[k].sess \in saga[k] /\ GivenUp(k)

LiveInv ==
    /\ \A k \in Kernel : GivenUpOK(k)
    /\ LiveSagaIntact

-----------------------------------------------------------------------------
(* Without crashes and failing statements. *)
NoFailures == MaxCrashes = 0 /\ MaxFaults = 0

(* A row that is not inserted is of no session.                            *)
VacantOK == \A i \in ActionId : Status(i) = "NONE" => actions[i].session = NoSession

(* A tool that failed has left no effect.                                  *)
FailedOK(k) == pc[k] = "fail" => world[call[k].cur] = "absent"

(* The row of a saga that is neither confirmed nor given up is the one its *)
(* kernel is at: running, or waiting for an operator.                      *)
OneOpenRow(k) ==
    \A s \in saga[k] : \A i \in Rows(s) :
        /\ Status(i) = "PENDING" => InStep(k) /\ call[k].cur = i
        /\ Status(i) = "PENDING_APPROVAL" =>
              \/ InStep(k) /\ call[k].cur = i
              \/ fsm[k].mode = "AwaitingApproval" /\ fsm[k].token = i

SettledOK(k) ==
    fsm[k].mode = "Failed" /\ ~Running(k) => \A s \in saga[k] : Committed(s) = {}

LetterRowOK(k) == pc[k] = "dlq" => actions[call[k].cur].session = call[k].sess

OutcomeInv ==
    /\ VacantOK /\ EffectsAccounted
    /\ \A k \in Kernel : FailedOK(k) /\ OneOpenRow(k) /\ SettledOK(k) /\ LetterRowOK(k)

-----------------------------------------------------------------------------
(* The sessions that have a dead letter. *)
Lettered == {s \in Session : \E i \in dlq : actions[i].session = s}

(* A rollback of s is on its way to flag it. *)
WillFlag(k, s) ==
    /\ pc[k] \in {"compensate", "undone", "orphan", "dlq", "end", "settle"}
    /\ call[k].sess = s /\ call[k].failed

FlagOK(s) ==
    \/ \E k \in Kernel : WillFlag(k, s)
    \/ sessions[s] = "RECOVERED_WITH_DLQ" /\ Committed(s) = {} /\ Orphans(s) = {}

(* A rollback that has no failed compensation to report has left no letter *)
(* in its session, and the scan has no session ahead that is settled.      *)
CleanOK(k) ==
    /\ \/ pc[k] \in {"pending", "scan"}
       \/ pc[k] \in {"compensate", "undone", "orphan", "dlq", "end", "settle"} /\ ~call[k].failed
       => call[k].sess \notin Lettered
    /\ Recovering(k) =>
          /\ pc[k] = "next" => call[k].dangling \subseteq DanglingSessions
          /\ call[k].dangling \ {call[k].sess} \subseteq DanglingSessions

FlagInv ==
    /\ \A i \in dlq : actions[i].session \in Session
    /\ \A s \in Lettered : FlagOK(s) /\ \A k \in Kernel : s \in saga[k] => GivenUp(k)
    /\ \A k \in Kernel : CleanOK(k)

-----------------------------------------------------------------------------
(* What the rows tell of a saga.                                           *)

(* An effect that was undone says so, once its call has recorded it.       *)
UndoneShown ==
    \A i \in ActionId : world[i] = "undone" => Status(i) = "COMPENSATED" \/ At(i, "undone")

(* A kernel is Compensating only while its rollback runs, and at a dead    *)
(* letter its row is FAILED.                                               *)
PointOK(k) ==
    /\ fsm[k].mode = "Compensating" => InRollback(k) /\ call[k].ret = "step"
    /\ pc[k] = "dlq" => Status(call[k].cur) = "FAILED"

(* The saga is given up exactly when it has a FAILED row.                  *)
FailureShown(k) ==
    \A s \in saga[k] : GivenUp(k) <=> WithStatus(s, "FAILED") # {}

AuditInv ==
    /\ \A i \in dlq : Status(i) = "FAILED"
    /\ UndoneShown
    /\ \A k \in Kernel : PointOK(k) /\ FailureShown(k)

(* A step that was given up before it succeeded.                           *)
Broken(i) == Status(i) = "FAILED" /\ ~actions[i].out

(* Sequence numbers are below the row ids: a replay reaches every row.     *)
SeqsReached ==
    /\ \A i \in ActionId : actions[i].seq < i
    /\ \A k \in Kernel : pc[k] = "log" => call[k].seq <= nrows

IsLastRow(i, s) == \A j \in Rows(s) : actions[j].seq <= actions[i].seq

(* A saga is given up exactly when it has a broken step, and that step is  *)
(* its last: a replay goes from Compensating nowhere.                      *)
BrokenOK(k) ==
    \A s \in saga[k] :
        /\ GivenUp(k) <=> \E i \in Rows(s) : Broken(i)
        /\ \A i \in Rows(s) : Broken(i) => IsLastRow(i, s)

ReplayInv ==
    /\ SeqsReached
    /\ \A k \in Kernel : BrokenOK(k) /\ (InStep(k) => IsLastRow(call[k].cur, call[k].sess))

-----------------------------------------------------------------------------
(* What an event can make of a state: no way leads back to Idle, nor from  *)
(* a saga that is given up to a live one.                                  *)
LEMMA FireModes ==
    ASSUME TypeOK, NEW k \in Kernel, NEW e, Fire(k, e)
    PROVE  /\ fsm'[k].mode = "Idle" => fsm[k].mode = "Idle"
           /\ Live(k)' => Live(k) \/ fsm[k].mode = "Idle"
           /\ GivenUp(k) => GivenUp(k)'
<1>1. fsm'[k] = Transition(fsm[k], e)
  BY DEF Fire, TypeOK
<1>2. CASE Accepts(fsm[k], e)
  <2>1. fsm'[k] = Target(fsm[k], e)
    BY <1>1, <1>2 DEF Transition
  <2>2. fsm'[k].mode # "Idle"
    BY <1>2, <2>1 DEF Accepts, Target, PlainState, Executing
  <2>3. fsm[k].mode \in {"Compensating"} => fsm'[k].mode = "Failed"
    BY <1>2, <2>1 DEF Accepts, Target, PlainState
  <2>4. fsm[k].mode \notin {"Completed", "Failed"} /\ fsm[k].mode \in Mode
    BY <1>2 DEF Accepts, TypeOK, AgentState
  <2>5. QED
    BY <2>2, <2>3, <2>4 DEF Live, GivenUp, Mode
<1>3. CASE ~Accepts(fsm[k], e)
  BY <1>1, <1>3 DEF Transition, Live, GivenUp
<1>4. QED
  BY <1>2, <1>3

(* What a step makes of the state machine and the saga of its kernel.      *)
LEMMA OwnModes ==
    ASSUME TypeOK, NEW k \in Kernel, AnyStep(k)
    PROVE  \/ saga'[k] = {} /\ fsm'[k] = Idle
           \/ /\ \E t \in Tool, s \in Session, key \in Key \cup {NoKey} : ExecuteTool(k, t, s, key)
              /\ fsm'[k] = fsm[k]
           \/ /\ saga'[k] = saga[k]
              /\ fsm'[k].mode = "Idle" => fsm[k].mode = "Idle"
              /\ Live(k)' => Live(k) \/ fsm[k].mode = "Idle"
              /\ GivenUp(k) => GivenUp(k)'
<1>1. CASE NewKernel(k) \/ Crash(k)
  BY <1>1 DEF NewKernel, Crash, TypeOK
<1>2. ASSUME NEW t \in Tool, NEW s \in Session, NEW key \in Key \cup {NoKey},
             ExecuteTool(k, t, s, key)
      PROVE  fsm'[k] = fsm[k]
  BY <1>2 DEF ExecuteTool
<1>3. CASE UNCHANGED fsm /\ UNCHANGED saga
  BY <1>3 DEF Live, GivenUp
<1>4. ASSUME NEW e, Fire(k, e), UNCHANGED saga
      PROVE  /\ saga'[k] = saga[k]
             /\ fsm'[k].mode = "Idle" => fsm[k].mode = "Idle"
             /\ Live(k)' => Live(k) \/ fsm[k].mode = "Idle"
             /\ GivenUp(k) => GivenUp(k)'
  BY <1>4, FireModes
<1>5. CASE Progress(k)
  BY <1>3, <1>4, <1>5
  DEF Progress, Log, LogAction, ParkForApproval, LogRefused, Step, ToolOk, ToolError, CommitStep,
      FailStep, Rollback, ScanCommitted, CompensateOk, CompensateError, RecordUndone, RecordOrphan,
      RecordInDlq, EndRollback, FinishRollback, ReturnToCaller, Recovery, RecoverSession,
      FailOrphan, SettleSession
<1>6. CASE LogFault(k) \/ CommitFault(k) \/ RollbackFault(k) \/ RecoveryFault(k)
  BY <1>3, <1>4, <1>6 DEF LogFault, CommitFault, RollbackFault, RecoveryFault, ReturnToCaller
<1>7. CASE BeginPlanning(k) \/ Complete(k) \/ StartRecovery(k) \/ \E t \in Tool : BeginTool(k, t)
  BY <1>3, <1>4, <1>7 DEF BeginPlanning, Complete, StartRecovery, BeginTool
<1>8. CASE \/ \E t \in Tool, s \in Session, key \in Key \cup {NoKey} : ReturnCached(k, t, s, key)
           \/ \E s \in Session : ApproveAction(k, s) \/ RejectAction(k, s)
  BY <1>4, <1>8 DEF ReturnCached, ApproveAction, RejectAction
<1>9. QED
  BY <1>1, <1>2, <1>5, <1>6, <1>7, <1>8 DEF AnyStep, Caller, Failure

(* How a call comes to be in a rollback: by a failed step, by a rejection, *)
(* by the scan, or it was there before.                                    *)
LEMMA RollbackStep ==
    ASSUME TypeOK, NEW k \in Kernel, LabelOK(k), AnyStep(k), InRollback(k)'
    PROVE  \/ FailStep(k)
           \/ \E s \in Session : RejectAction(k, s)
           \/ call'[k].ret = "recover"
           \/ /\ InRollback(k) /\ Rollback(k) /\ UNCHANGED <<fsm, saga>>
              /\ call'[k].ret = call[k].ret /\ call'[k].sess = call[k].sess
<1> USE DEF InRollback
<1>1. CASE Log(k) \/ ToolOk(k) \/ ToolError(k) \/ CommitStep(k) \/ SettleSession(k) \/ Failure(k)
  BY <1>1 DEF Log, LogAction, ParkForApproval, LogRefused, ToolOk, ToolError, CommitStep,
     SettleSession, Failure, LogFault, CommitFault, RollbackFault, RecoveryFault, Crash,
     ReturnToCaller, Return, Goto, TypeOK
<1>2. CASE Caller(k)
  BY <1>2 DEF Caller, BeginPlanning, Complete, NewKernel, StartRecovery, BeginTool, ReturnCached,
     ExecuteTool, ApproveAction, Running, Goto, TypeOK
<1>3. ASSUME NEW s \in Session, RecoverSession(k, s)
      PROVE  call'[k].ret = "recover"
  <2>1. call'[k].ret = call[k].ret
    BY <1>3 DEF RecoverSession, TypeOK, Call
  <2>2. QED
    BY <1>3, <2>1 DEF RecoverSession, LabelOK
<1>4. CASE FailOrphan(k)
  <2>1. call'[k].ret = call[k].ret
    BY <1>4 DEF FailOrphan, TypeOK, Call
  <2>2. QED
    BY <1>4, <2>1 DEF FailOrphan, LabelOK
<1>5. CASE ScanCommitted(k) \/ CompensateOk(k) \/ CompensateError(k) \/ RecordOrphan(k)
  <2>1. /\ call'[k].ret = call[k].ret /\ call'[k].sess = call[k].sess /\ UNCHANGED <<fsm, saga>>
    BY <1>5 DEF ScanCommitted, CompensateOk, CompensateError, RecordOrphan, TypeOK, Call
  <2>2. QED
    BY <1>5, <2>1 DEF ScanCommitted, CompensateOk, CompensateError, RecordOrphan, Rollback
<1>6. CASE RecordUndone(k) \/ RecordInDlq(k)
  <2>1. /\ call'[k].ret = call[k].ret /\ call'[k].sess = call[k].sess /\ UNCHANGED <<fsm, saga>>
    BY <1>6 DEF RecordUndone, RecordInDlq, NextRow, TypeOK, Call
  <2>2. QED
    BY <1>6, <2>1 DEF RecordUndone, RecordInDlq, Rollback
<1>7. CASE EndRollback(k)
  BY <1>7 DEF EndRollback, FinishRollback, ReturnToCaller, Return, Goto, TypeOK
<1>8. QED
  BY <1>1, <1>2, <1>3, <1>4, <1>5, <1>6, <1>7 DEF AnyStep, Progress, Step, Rollback, Recovery

(* The two ways into a rollback of the kernel's own saga. *)
LEMMA FailedStepGivesUp ==
    ASSUME TypeOK, NEW k \in Kernel, SagaOK(k), FailStep(k)
    PROVE  /\ fsm'[k].mode = "Compensating" /\ pc'[k] = "scan" /\ UNCHANGED <<call, saga>>
           /\ call[k].sess \in saga[k]
<1>1. /\ fsm' = [fsm EXCEPT ![k] = Transition(@, Plain("ToolFailed"))]
      /\ pc' = [pc EXCEPT ![k] = "scan"] /\ UNCHANGED <<call, saga>>
      /\ fsm[k].mode = "ExecutingTool" /\ call[k].sess \in saga[k]
  BY DEF FailStep, Fire, Goto, SagaOK
<1>2. fsm'[k].mode = "Compensating"
  BY <1>1 DEF Transition, Accepts, Target, Plain, PlainState, TypeOK
<1>3. QED
  BY <1>1, <1>2 DEF TypeOK

LEMMA RejectionGivesUp ==
    ASSUME TypeOK, OneSessionPerSaga, SeqsUnique, NEW k \in Kernel, ParkedOK(k),
           NEW s \in Session, RejectAction(k, s)
    PROVE  /\ fsm[k].mode = "AwaitingApproval" /\ fsm'[k].mode = "Failed" /\ pc[k] = "idle"
           /\ pc'[k] = "scan" /\ call'[k].sess = s /\ call'[k].ret = "reject"
           /\ saga[k] = {s} /\ saga'[k] = {s}
           /\ fsm[k].token \in ActionId /\ MarkFailed(fsm[k].token)
<1>1. /\ pc[k] = "idle" /\ MayUse(k, s) /\ fsm[k].mode = "AwaitingApproval"
      /\ fsm' = [fsm EXCEPT ![k] = Transition(@, RejectExecution(fsm[k].token))]
      /\ call' = [call EXCEPT ![k] = NewCall("reject", s, 0, NoKey, 0)]
      /\ pc' = [pc EXCEPT ![k] = "scan"] /\ UNCHANGED saga
  BY DEF RejectAction, Running, Fire, Goto
<1>2. fsm'[k].mode = "Failed"
  BY <1>1 DEF Transition, Accepts, Target, RejectExecution, PlainState, TypeOK
<1>3. saga[k] = {s} /\ fsm[k].token \in ActionId /\ MarkFailed(fsm[k].token)
  BY <1>1, OnlyParkedRow DEF RejectAction
<1>4. call'[k].sess = s /\ call'[k].ret = "reject"
  BY <1>1 DEF NewCall, TypeOK
<1>5. QED
  BY <1>1, <1>2, <1>3, <1>4 DEF TypeOK

LEMMA GivenUpStep ==
    ASSUME TypeOK, OneSessionPerSaga, SeqsUnique, NEW k \in Kernel, SagaOK(k), ParkedOK(k),
           LabelOK(k), GivenUpOK(k), AnyStep(k)
    PROVE  GivenUpOK(k)'
<1>1. fsm'[k].mode = "Idle" => saga'[k] = {}
  BY OwnModes DEF GivenUpOK, ExecuteTool, CanExecuteTool
<1>2. ASSUME InRollback(k)', call'[k].ret # "recover"
      PROVE  call'[k].sess \in saga'[k] /\ GivenUp(k)'
  <2>1. CASE FailStep(k)
    BY <2>1, FailedStepGivesUp DEF GivenUp
  <2>2. ASSUME NEW s \in Session, RejectAction(k, s)
        PROVE  call'[k].sess \in saga'[k] /\ GivenUp(k)'
    BY <2>2, RejectionGivesUp DEF GivenUp
  <2>3. CASE /\ InRollback(k) /\ UNCHANGED <<fsm, saga>>
             /\ call'[k].ret = call[k].ret /\ call'[k].sess = call[k].sess
    BY <1>2, <2>3 DEF GivenUpOK, GivenUp
  <2>4. QED
    BY <1>2, <2>1, <2>2, <2>3, RollbackStep
<1>3. QED
  BY <1>1, <1>2 DEF GivenUpOK

(* The sessions of a saga are out of reach for the others: they have       *)
(* sessions of their own, and the scan does not run next to a saga.        *)
LEMMA SagaElsewhere ==
    ASSUME DisjointSessions, NEW k \in Kernel, NEW j \in Kernel \ {k}, AloneOK(k),
           SagaOK(j), GivenUpOK(j), NEW s \in saga[j]
    PROVE  s \in SessionsOf[j] /\ s \notin SessionsOf[k] /\ ~Recovering(k)
<1>1. s \in SessionsOf[j] /\ s \notin SessionsOf[k]
  BY DEF SagaOK, DisjointSessions
<1>2. ~Recovering(k)
  BY DEF AloneOK, GivenUpOK, Idle, PlainState
<1>3. QED
  BY <1>1, <1>2

(* A saga that is alive keeps its effects. *)
LEMMA LiveStep ==
    ASSUME DisjointSessions, OneSessionPerSaga, TypeOK, LedgerInv, ApprovalInv, RecoveryInv,
           LiveInv, NEW k \in Kernel, AnyStep(k)
    PROVE  LiveSagaIntact'
<1> SUFFICES ASSUME NEW j \in Kernel, Live(j)', NEW s \in saga'[j], NEW i \in ActionId,
                    actions'[i].session = s, world'[i] = "undone"
             PROVE  FALSE
  BY DEF LiveSagaIntact, Live, Rows
<1>1. \A r \in Kernel : SagaOK(r) /\ AloneOK(r) /\ LabelOK(r) /\ TodoOK(r) /\ GivenUpOK(r)
  BY DEF ApprovalInv, RecoveryInv, LiveInv
<1>2. CASE world[i] # "undone"
  <2>1. CompensateOk(k) /\ IsLast(i, call[k].todo)
    BY <1>2, UndoneStep
  <2>2. /\ actions[i].session = call[k].sess /\ UNCHANGED <<actions, fsm, saga>>
        /\ InRollback(k)
    BY <1>1, <2>1 DEF CompensateOk, IsLast, TodoOK, Committed, WithStatus, Rows, InRollback
  <2>3. s = call[k].sess /\ s \in saga[j] /\ Live(j)
    BY <2>2 DEF Live
  <2>4. CASE j = k
    <3>1. call[k].ret # "recover"
      BY <1>1, <2>2, <2>3, <2>4 DEF AloneOK, Recovering, Running, InRollback, GivenUpOK, Idle,
         PlainState
    <3>2. QED
      BY <1>1, <2>2, <2>3, <2>4, <3>1 DEF GivenUpOK, GivenUp, Live
  <2>5. CASE j # k
    <3>1. s \notin SessionsOf[k] /\ ~Recovering(k)
      BY <1>1, <2>3, <2>5, SagaElsewhere
    <3>2. QED
      BY <1>1, <2>2, <2>3, <3>1 DEF LabelOK, Recovering, Running, InRollback
  <2>6. QED
    BY <2>4, <2>5
<1>3. CASE world[i] = "undone"
  <2>1. actions'[i].session = actions[i].session
    <3>1. CASE Inserts(k)
      BY <1>3, <3>1, InsertedRow, FreshRow
    <3>2. CASE KeepsColumns
      BY <3>2 DEF KeepsColumns
    <3>3. QED
      BY <3>1, <3>2, ColumnsStep
  <2>2. i \in Rows(s)
    BY <2>1 DEF Rows
  <2>3. ASSUME s \in saga[j], Live(j) \/ fsm[j].mode = "Idle"
        PROVE  FALSE
    BY <1>1, <1>3, <2>2, <2>3 DEF LiveInv, LiveSagaIntact, Live, GivenUpOK
  <2>4. CASE j # k
    <3>1. saga'[j] = saga[j] /\ fsm'[j] = fsm[j]
      BY <2>4, OthersFsm
    <3>2. QED
      BY <2>3, <3>1 DEF Live
  <2>5. CASE j = k
    <3>1. ASSUME NEW t \in Tool, NEW r \in Session, NEW key \in Key \cup {NoKey},
                 ExecuteTool(k, t, r, key), fsm'[k] = fsm[k]
          PROVE  FALSE
      <4>1. MayUse(k, r) /\ saga' = [saga EXCEPT ![k] = @ \cup {r}]
        BY <3>1 DEF ExecuteTool
      <4>2. s \in saga[k] \/ s = r
        BY <2>5, <4>1 DEF TypeOK
      <4>3. s \in saga[k]
        BY <2>2, <4>1, <4>2 DEF MayUse
      <4>4. QED
        BY <2>3, <2>5, <3>1, <4>3 DEF Live
    <3>2. QED
      BY <2>3, <2>5, <3>1, OwnModes
  <2>6. QED
    BY <2>4, <2>5
<1>4. QED
  BY <1>2, <1>3

LEMMA LiveInvStep ==
    ASSUME DisjointSessions, OneSessionPerSaga, TypeOK, LedgerInv, ApprovalInv, RecoveryInv,
           LiveInv, [Next]_vars
    PROVE  LiveInv'
<1>1. CASE UNCHANGED vars
  BY <1>1 DEF vars, LiveInv, GivenUpOK, GivenUp, InRollback, LiveSagaIntact, Rows
<1>2. ASSUME NEW k \in Kernel, AnyStep(k)
      PROVE  LiveInv'
  <2>1. GivenUpOK(k)'
    BY <1>2, GivenUpStep DEF ApprovalInv, RecoveryInv, LiveInv
  <2>2. ASSUME NEW j \in Kernel \ {k}
        PROVE  GivenUpOK(j)'
    <3>1. pc'[j] = pc[j] /\ call'[j] = call[j] /\ fsm'[j] = fsm[j] /\ saga'[j] = saga[j]
      BY <1>2, OthersUntouched, OthersFsm DEF AnyStep
    <3>2. QED
      BY <3>1 DEF LiveInv, GivenUpOK, GivenUp, InRollback
  <2>3. LiveSagaIntact'
    BY <1>2, LiveStep
  <2>4. QED
    BY <2>1, <2>2, <2>3 DEF LiveInv
<1>3. QED
  BY <1>1, <1>2 DEF Next, AnyStep

LEMMA LiveInvariant ==
    ASSUME DisjointSessions, ExclusiveRecovery, OneSessionPerSaga
    PROVE  Spec => []LiveInv
<1>1. Init => LiveInv
  BY DEF Init, LiveInv, GivenUpOK, InRollback, LiveSagaIntact
<1>2. TypeOK /\ LedgerInv /\ ApprovalInv /\ RecoveryInv /\ LiveInv /\ [Next]_vars => LiveInv'
  BY LiveInvStep
<1>3. QED
  BY <1>1, <1>2, TypeCorrect, LedgerInvariant, ApprovalInvariant, RecoveryInvariant, PTL DEF Spec

(* The effects of a saga that is alive are not undone under it, whatever   *)
(* crashes and failing statements happen: compensation only reaches the    *)
(* saga of the kernel that gave it up, and what a scan at boot has found.  *)
THEOREM LiveSagaKept ==
    ASSUME DisjointSessions, ExclusiveRecovery, OneSessionPerSaga
    PROVE  Spec => []LiveSagaIntact
<1>1. LiveInv => LiveSagaIntact
  BY DEF LiveInv
<1>2. QED
  BY <1>1, LiveInvariant, PTL

-----------------------------------------------------------------------------
LEMMA NoFailureStep ==
    ASSUME NoFailures, TypeOK
    PROVE  ~Fault /\ \A k \in Kernel : ~Failure(k)
BY DEF NoFailures, Fault, Failure, LogFault, CommitFault, RollbackFault, RecoveryFault, Crash, TypeOK

(* A call that has reached one of these points has one way on. *)
LEMMA NextPoint ==
    ASSUME NoFailures, TypeOK, NEW k \in Kernel, AnyStep(k)
    PROVE  /\ pc[k] = "execute" => ToolOk(k) \/ ToolError(k)
           /\ pc[k] = "commit" => CommitStep(k)
           /\ pc[k] = "fail" => FailStep(k)
           /\ pc[k] = "undone" => RecordUndone(k)
           /\ pc[k] = "orphan" => RecordOrphan(k)
           /\ pc[k] = "dlq" => RecordInDlq(k)
<1>1. ~Failure(k)
  BY NoFailureStep
<1>2. pc[k] # "idle" => ~Caller(k)
  BY DEF Caller, BeginPlanning, Complete, NewKernel, StartRecovery, BeginTool, ReturnCached,
     ExecuteTool, ApproveAction, RejectAction, Running
<1>3. QED
  BY <1>1, <1>2 DEF AnyStep, Progress, Log, LogAction, ParkForApproval, LogRefused, Step, ToolOk,
     ToolError, CommitStep, FailStep, Rollback, ScanCommitted, CompensateOk, CompensateError,
     RecordUndone, RecordOrphan, RecordInDlq, EndRollback, Recovery, RecoverSession, FailOrphan,
     SettleSession

LEMMA VacantStep ==
    ASSUME TypeOK, LedgerInv, VacantOK, NEW k \in Kernel, AnyStep(k)
    PROVE  VacantOK'
<1> SUFFICES ASSUME NEW i \in ActionId, Status(i)' = "NONE"
             PROVE  actions'[i].session = NoSession
  BY DEF VacantOK
<1>1. Status(i) = "NONE" /\ actions[i].session = NoSession
  BY RowsStep DEF AnyStep, RowsKept, VacantOK
<1>2. CASE KeepsColumns
  BY <1>1, <1>2 DEF KeepsColumns
<1>3. CASE Inserts(k)
  <2>1. nrows + 1 \in ActionId /\ \A j \in ActionId \ {nrows + 1} : actions'[j] = actions[j]
    BY <1>3, InsertedRow
  <2>2. actions'[nrows + 1].status # "NONE"
    BY <1>3, <2>1 DEF Inserts, InsertAction, TypeOK, WalTypeOK
  <2>3. QED
    BY <1>1, <2>1, <2>2 DEF Status
<1>4. QED
  BY <1>2, <1>3, ColumnsStep

(* A COMMITTED row stays so, or its compensation is recorded. *)
LEMMA CommittedStep ==
    ASSUME TypeOK, LedgerInv, NEW k \in Kernel, LabelOK(k), TodoOK(k), OpenOK(k), AnyStep(k),
           NEW i \in ActionId, Status(i) = "COMMITTED"
    PROVE  \/ Status(i)' = "COMMITTED"
           \/ (RecordUndone(k) \/ RecordOrphan(k)) /\ call[k].cur = i
<1>1. CASE LogAction(k) \/ ParkForApproval(k)
  <2>1. Inserts(k)
    BY <1>1 DEF LogAction, ParkForApproval, Inserts
  <2>2. QED
    BY <2>1, InsertedRow, FreshRow DEF Status
<1>2. CASE CommitStep(k)
  BY <1>2 DEF CommitStep, MarkCommitted, Status, TypeOK, WalTypeOK, Row
<1>3. CASE FailStep(k)
  <2>1. Status(call[k].cur) # "COMMITTED"
    BY <1>3 DEF FailStep, OpenOK
  <2>2. QED
    BY <1>3, <2>1 DEF FailStep, MarkFailed, Status, TypeOK, WalTypeOK
<1>4. CASE RecordUndone(k) \/ RecordOrphan(k)
  BY <1>4 DEF RecordUndone, RecordOrphan, MarkCompensationFailed, MarkCompensated, MarkFailed, Status,
     TypeOK, WalTypeOK
<1>5. CASE FailOrphan(k)
  <2>1. PICK c \in call[k].todo : MarkFailed(c)
    BY <1>5 DEF FailOrphan
  <2>2. Status(c) = "PENDING"
    BY <1>5, <2>1 DEF FailOrphan, TodoOK, Orphans, WithStatus, Status
  <2>3. QED
    BY <2>1, <2>2 DEF MarkFailed, Status, TypeOK, WalTypeOK
<1>6. ASSUME NEW s \in Session, RejectAction(k, s)
      PROVE  Status(i)' = "COMMITTED"
  <2>1. CASE UNCHANGED actions
    BY <2>1 DEF Status
  <2>2. ASSUME NEW c \in ActionId, IsPendingApproval(s, fsm[k].tool, c), MarkFailed(c)
        PROVE  Status(i)' = "COMMITTED"
    BY <2>2 DEF IsPendingApproval, IsLast, WithStatus, MarkFailed, Status, TypeOK, WalTypeOK
  <2>3. QED
    BY <1>6, <2>1, <2>2 DEF RejectAction
<1>7. CASE UNCHANGED actions
  BY <1>7 DEF Status
<1>8. QED
  BY <1>1, <1>2, <1>3, <1>4, <1>5, <1>6, <1>7
  DEF AnyStep, Progress, Log, LogRefused, Step, ToolOk, ToolError, Rollback, ScanCommitted,
      CompensateOk, CompensateError, RecordInDlq, EndRollback, Recovery, RecoverSession,
      SettleSession, Caller, BeginPlanning, Complete, NewKernel, StartRecovery, BeginTool,
      ReturnCached, ExecuteTool, ApproveAction, Failure, LogFault, CommitFault, RollbackFault,
      RecoveryFault, Crash

LEMMA DlqStep ==
    ASSUME NEW k \in Kernel, AnyStep(k)
    PROVE  UNCHANGED dlq \/ RecordInDlq(k)
BY DEF AnyStep, Progress, Log, LogAction, ParkForApproval, LogRefused, Step, ToolOk, ToolError,
   CommitStep, FailStep, Rollback, ScanCommitted, CompensateOk, CompensateError, RecordUndone,
   RecordOrphan, EndRollback, Recovery, RecoverSession, FailOrphan, SettleSession, Caller,
   BeginPlanning, Complete, NewKernel, StartRecovery, BeginTool, ReturnCached, ExecuteTool,
   ApproveAction, RejectAction, Failure, LogFault, CommitFault, RollbackFault, RecoveryFault, Crash

Accounted(i) ==
    \/ Status(i) = "COMMITTED"
    \/ At(i, "commit")
    \/ Status(i) = "FAILED" /\ (i \in dlq \/ At(i, "dlq"))
    \/ At(i, "orphan")

(* An effect appears when a tool has run, and the call is at its commit.   *)
LEMMA AppliedStep ==
    ASSUME TypeOK, NEW k \in Kernel, AnyStep(k), NEW i \in ActionId,
           world[i] # "applied", world'[i] = "applied"
    PROVE  ToolOk(k) /\ call[k].cur = i
<1>1. CASE ToolOk(k)
  BY <1>1 DEF ToolOk, TypeOK
<1>2. CASE CompensateOk(k)
  BY <1>2 DEF CompensateOk, TypeOK
<1>3. CASE UNCHANGED world
  BY <1>3
<1>4. QED
  BY <1>1, <1>2, <1>3
  DEF AnyStep, Progress, Log, LogAction, ParkForApproval, LogRefused, Step, ToolError, CommitStep,
      FailStep, Rollback, ScanCommitted, CompensateError, RecordUndone, RecordOrphan, RecordInDlq,
      EndRollback, Recovery, RecoverSession, FailOrphan, SettleSession, Caller, BeginPlanning,
      Complete, NewKernel, StartRecovery, BeginTool, ReturnCached, ExecuteTool, ApproveAction,
      RejectAction, Failure, LogFault, CommitFault, RollbackFault, RecoveryFault, Crash

LEMMA AccountedStep ==
    ASSUME NoFailures, TypeOK, LedgerInv, EffectsAccounted, NEW k \in Kernel,
           LabelOK(k), TodoOK(k), OpenOK(k), AnyStep(k)
    PROVE  EffectsAccounted'
<1> SUFFICES ASSUME NEW i \in ActionId, world'[i] = "applied"
             PROVE  Accounted(i)'
  BY DEF EffectsAccounted, Accounted
<1>1. \A j \in Kernel \ {k} : pc'[j] = pc[j] /\ call'[j] = call[j]
  BY OthersUntouched DEF AnyStep
<1>2. CASE world[i] # "applied"
  <2>1. ToolOk(k) /\ call[k].cur = i
    BY <1>2, AppliedStep
  <2>2. pc'[k] = "commit" /\ call'[k].cur = i
    BY <2>1 DEF ToolOk, Goto, TypeOK
  <2>3. QED
    BY <2>2 DEF Accounted, At
<1>3. CASE Status(i) = "COMMITTED" /\ world[i] = "applied"
  <2>1. CASE RecordUndone(k) /\ call[k].cur = i
    BY <1>3, <2>1 DEF RecordUndone, LedgerInv, LoopOK
  <2>2. CASE RecordOrphan(k) /\ call[k].cur = i
    <3>1. pc'[k] = "dlq" /\ call'[k].cur = i
      BY <2>2 DEF RecordOrphan, Goto, TypeOK
    <3>2. Status(i)' = "FAILED"
      BY <2>2 DEF RecordOrphan, MarkCompensationFailed, MarkFailed, Status, TypeOK, WalTypeOK, Row
    <3>3. QED
      BY <3>1, <3>2 DEF Accounted, At
  <2>3. QED
    BY <1>3, <2>1, <2>2, CommittedStep DEF Accounted
<1>4. ASSUME NEW j \in Kernel, pc[j] = "commit", call[j].cur = i
      PROVE  Accounted(i)'
  <2>1. CASE j = k
    <3>1. MarkCommitted(i)
      BY <1>4, <2>1, NextPoint DEF CommitStep
    <3>2. Status(i)' = "COMMITTED"
      BY <3>1 DEF MarkCommitted, Status, TypeOK, WalTypeOK, Row
    <3>3. QED
      BY <3>2 DEF Accounted
  <2>2. QED
    BY <1>1, <1>4, <2>1 DEF Accounted, At
<1>5. ASSUME NEW j \in Kernel, pc[j] = "orphan", call[j].cur = i
      PROVE  Accounted(i)'
  <2>1. CASE j = k
    <3>1. RecordOrphan(k)
      BY <1>5, <2>1, NextPoint
    <3>2. pc'[k] = "dlq" /\ call'[k].cur = i
      BY <1>5, <2>1, <3>1 DEF RecordOrphan, Goto, TypeOK
    <3>3. Status(i)' = "FAILED"
      BY <1>5, <2>1, <3>1
      DEF RecordOrphan, MarkCompensationFailed, MarkFailed, Status, TypeOK, WalTypeOK, Row
    <3>4. QED
      BY <3>2, <3>3 DEF Accounted, At
  <2>2. QED
    BY <1>1, <1>5, <2>1 DEF Accounted, At
<1>6. CASE Status(i) = "FAILED" /\ (i \in dlq \/ At(i, "dlq"))
  <2>1. Status(i)' = "FAILED"
    BY <1>6, ForwardStep, ForwardTable
  <2>2. CASE i \in dlq
    BY <2>1, <2>2, DlqStep DEF Accounted, RecordInDlq, RecordDlq
  <2>3. ASSUME NEW j \in Kernel, pc[j] = "dlq", call[j].cur = i
        PROVE  Accounted(i)'
    <3>1. CASE j = k
      BY <2>1, <2>3, <3>1, NextPoint DEF Accounted, RecordInDlq, RecordDlq
    <3>2. QED
      BY <1>1, <2>1, <2>3, <3>1 DEF Accounted, At
  <2>4. QED
    BY <1>6, <2>2, <2>3 DEF At
<1>7. QED
  BY <1>2, <1>3, <1>4, <1>5, <1>6 DEF EffectsAccounted, At

(* How a call comes to the point after a tool's error, and to that before  *)
(* a dead letter.                                                          *)
LEMMA ArrivalStep ==
    ASSUME TypeOK, NEW k \in Kernel, AnyStep(k)
    PROVE  /\ pc'[k] = "fail" => ToolError(k)
           /\ pc'[k] = "dlq" => RecordOrphan(k)
<1>1. CASE Log(k) \/ Step(k)
  BY <1>1 DEF Log, LogAction, ParkForApproval, LogRefused, Step, ToolOk, ToolError, CommitStep,
     FailStep, Return, Goto, TypeOK
<1>2. CASE Rollback(k) \/ Recovery(k)
  BY <1>2 DEF Rollback, ScanCommitted, CompensateOk, CompensateError, RecordUndone, RecordOrphan,
     RecordInDlq, NextRow, LoopLabel, EndRollback, FinishRollback, ReturnToCaller, Recovery, RecoverSession,
     PendingLabel, FailOrphan, SettleSession, Return, Goto, TypeOK
<1>3. CASE Caller(k) \/ Failure(k)
  BY <1>3 DEF Caller, BeginPlanning, Complete, NewKernel, StartRecovery, BeginTool, ReturnCached,
     ExecuteTool, ApproveAction, RejectAction, Failure, LogFault, CommitFault, RollbackFault,
     RecoveryFault, Crash, ReturnToCaller, Return, Running, Goto, TypeOK
<1>4. QED
  BY <1>1, <1>2, <1>3 DEF AnyStep, Progress

LEMMA FailedStep ==
    ASSUME DisjointSessions, TypeOK, LedgerInv, ApprovalInv, NEW k \in Kernel, AnyStep(k),
           NEW j \in Kernel, FailedOK(j)
    PROVE  FailedOK(j)'
<1> SUFFICES ASSUME pc'[j] = "fail"
             PROVE  world'[call'[j].cur] = "absent"
  BY DEF FailedOK
<1>1. CASE j = k
  BY <1>1, ArrivalStep DEF ToolError, ApprovalInv, ReadyOK
<1>2. CASE j # k
  <2>1. pc[j] = "fail" /\ call'[j] = call[j]
    BY <1>2, OthersUntouched DEF AnyStep
  <2> DEFINE i == call[j].cur
  <2>2. i \in ActionId /\ ~actions[i].out /\ actions[i].session \in SessionsOf[j]
    BY <2>1 DEF LedgerInv, StepOK
  <2>3. ~(ToolOk(k) /\ call[k].cur = i)
    BY <1>2, <2>2 DEF ToolOk, LedgerInv, StepOK, DisjointSessions
  <2>4. world'[i] = world[i]
    BY <2>2, <2>3, EffectStep
  <2>5. QED
    BY <2>1, <2>4 DEF FailedOK
<1>3. QED
  BY <1>1, <1>2

LEMMA LetterRowStep ==
    ASSUME TypeOK, LedgerInv, NEW k \in Kernel, AnyStep(k), NEW j \in Kernel, TodoOK(j),
           LetterRowOK(j)
    PROVE  LetterRowOK(j)'
<1> SUFFICES ASSUME pc'[j] = "dlq"
             PROVE  actions'[call'[j].cur].session = call'[j].sess
  BY DEF LetterRowOK
<1> DEFINE i == call[j].cur
<1>1. call'[j] = call[j] /\ pc[j] \in {"orphan", "dlq"} /\ actions[i].session = call[j].sess
  <2>1. CASE j = k
    BY <2>1, ArrivalStep, CursorRow DEF RecordOrphan
  <2>2. CASE j # k
    BY <2>2, OthersUntouched DEF AnyStep, LetterRowOK
  <2>3. QED
    BY <2>1, <2>2
<1>2. i \in ActionId /\ actions[i].out
  BY <1>1, CursorRow DEF LedgerInv, LoopOK
<1>3. Status(i) # "NONE"
  BY <1>2 DEF LedgerInv, RowOK
<1>4. actions'[i].session = actions[i].session
  BY <1>2, <1>3, RowsStep DEF AnyStep, RowsKept
<1>5. QED
  BY <1>1, <1>4

(* What a kernel that waits for an operator may do: nothing but carry out  *)
(* the decision.                                                           *)
LEMMA DecisionStep ==
    ASSUME ExclusiveRecovery, NoFailures, TypeOK, NEW k \in Kernel, SagaOK(k), AloneOK(k),
           LabelOK(k), GivenUpOK(k), AnyStep(k), fsm[k].mode = "AwaitingApproval"
    PROVE  \E s \in Session : ApproveAction(k, s) \/ RejectAction(k, s)
<1>1. pc[k] = "idle"
  <2>1. ~Recovering(k)
    BY DEF AloneOK, Idle, PlainState
  <2>2. ~InRollback(k)
    BY <2>1 DEF GivenUpOK, GivenUp, Recovering, Running, InRollback
  <2>3. pc[k] \notin {"log", "execute", "commit", "fail"}
    BY DEF SagaOK
  <2>4. pc[k] \notin {"next", "pending", "settle"}
    BY <2>1 DEF LabelOK, Recovering, Running
  <2>5. QED
    BY <2>2, <2>3, <2>4 DEF InRollback, TypeOK, Label
<1>2. ~Progress(k) /\ ~Failure(k)
  BY <1>1, NoFailureStep DEF Progress, Log, LogAction, ParkForApproval, LogRefused, Step, ToolOk,
     ToolError, CommitStep, FailStep, Rollback, ScanCommitted, CompensateOk, CompensateError,
     RecordUndone, RecordOrphan, RecordInDlq, EndRollback, Recovery, RecoverSession, FailOrphan,
     SettleSession
<1>3. ~StartRecovery(k)
  BY DEF StartRecovery, Idle, PlainState
<1>4. ~BeginPlanning(k) /\ ~Complete(k) /\ ~NewKernel(k) /\ ~\E t \in Tool : BeginTool(k, t)
  BY DEF BeginPlanning, Complete, NewKernel, BeginTool, Accepts, Plain, StartExecution, Terminal
<1>5. ~\E t \in Tool, s \in Session, key \in Key \cup {NoKey} :
          ReturnCached(k, t, s, key) \/ ExecuteTool(k, t, s, key)
  BY DEF ReturnCached, ExecuteTool, CanExecuteTool
<1>6. QED
  BY <1>2, <1>3, <1>4, <1>5 DEF AnyStep, Caller

(* The open row of a saga is the one its kernel is at. *)
LEMMA OwnOpenRow ==
    ASSUME ExclusiveRecovery, OneSessionPerSaga, NoFailures, TypeOK, LedgerInv, SeqsUnique,
           VacantOK, NEW k \in Kernel, SagaOK(k), ParkedOK(k), AloneOK(k), LabelOK(k), TodoOK(k),
           OpenOK(k), GivenUpOK(k), OneOpenRow(k), AnyStep(k)
    PROVE  OneOpenRow(k)'
<1> SUFFICES ASSUME NEW s \in saga'[k], NEW i \in ActionId, actions'[i].session = s,
                    Status(i)' \in {"PENDING", "PENDING_APPROVAL"}
             PROVE  \/ InStep(k)' /\ call'[k].cur = i
                    \/ /\ Status(i)' = "PENDING_APPROVAL"
                       /\ fsm'[k].mode = "AwaitingApproval" /\ fsm'[k].token = i
  BY DEF OneOpenRow, Rows
<1>1. CASE Inserts(k)
  <2>1. /\ nrows + 1 \in ActionId
        /\ \A j \in ActionId \ {nrows + 1} : actions'[j] = actions[j]
    BY <1>1, InsertedRow
  <2>2. pc[k] = "log" /\ fsm[k].mode = "ExecutingTool"
    BY <1>1 DEF Inserts, SagaOK
  <2>3. LogAction(k) \/ ParkForApproval(k)
    <3>1. ~Caller(k) /\ ~Failure(k)
      BY <2>2, NoFailureStep DEF Caller, BeginPlanning, Complete, NewKernel, StartRecovery,
         BeginTool, ReturnCached, ExecuteTool, ApproveAction, RejectAction, Running
    <3>2. ~Step(k) /\ ~Rollback(k) /\ ~Recovery(k)
      BY <2>2 DEF Step, ToolOk, ToolError, CommitStep, FailStep, Rollback, ScanCommitted,
         CompensateOk, CompensateError, RecordUndone, RecordOrphan, RecordInDlq, EndRollback,
         Recovery, RecoverSession, FailOrphan, SettleSession
    <3>3. ~LogRefused(k)
      BY <1>1 DEF Inserts, LogRefused
    <3>4. QED
      BY <3>1, <3>2, <3>3 DEF AnyStep, Progress, Log
  <2>4. saga'[k] = saga[k]
    BY <2>3 DEF LogAction, ParkForApproval
  <2>5. CASE i # nrows + 1
    BY <2>1, <2>2, <2>4, <2>5 DEF OneOpenRow, Rows, Status, InStep
  <2>6. CASE i = nrows + 1 /\ LogAction(k)
    BY <2>6 DEF LogAction, Goto, InStep, TypeOK, Call
  <2>7. CASE i = nrows + 1 /\ ParkForApproval(k)
    <3>1. Status(i)' = "PENDING_APPROVAL"
      BY <2>1, <2>7 DEF ParkForApproval, InsertAction, Status, TypeOK, WalTypeOK
    <3>2. fsm'[k] = Target(fsm[k], RequireApproval(fsm[k].tool, i))
      BY <2>2, <2>7 DEF ParkForApproval, Fire, Transition, Accepts, RequireApproval, TypeOK
    <3>3. fsm'[k].mode = "AwaitingApproval" /\ fsm'[k].token = i
      BY <3>2 DEF Target, RequireApproval
    <3>4. QED
      BY <3>1, <3>3
  <2>8. QED
    BY <2>3, <2>5, <2>6, <2>7
<1>2. CASE KeepsColumns
  <2>1. i \in Rows(s) /\ s \in Session
    BY <1>2, OwnSagaStep, KernelAssumption DEF KeepsColumns, Rows
  <2>2. Status(i) = Status(i)'
    <3>1. Status(i) # "NONE"
      BY <2>1, WalAssumption DEF VacantOK, Rows
    <3>2. Status(i) \in {"PENDING", "PENDING_APPROVAL", "COMMITTED", "COMPENSATED", "FAILED"}
      BY <3>1 DEF Status, TypeOK, WalTypeOK, Row, ActionStatus
    <3>3. QED
      BY <3>2, ForwardStep, ForwardTable
  <2>3. s \in saga[k]
    <3>1. CASE saga'[k] = saga[k] \/ saga'[k] = {}
      BY <3>1
    <3>2. ASSUME NEW t \in Tool, NEW r \in Session, NEW key \in Key \cup {NoKey},
                 ExecuteTool(k, t, r, key)
          PROVE  s \in saga[k]
      <4>1. saga'[k] = saga[k] \cup {r} /\ (saga[k] = {r} \/ Rows(r) = {})
        BY <3>2 DEF ExecuteTool, MayUse, TypeOK
      <4>2. QED
        BY <2>1, <4>1
    <3>3. QED
      BY <3>1, <3>2, OwnModes
  <2>4. CASE InStep(k) /\ call[k].cur = i
    <3>1. CASE ToolOk(k) \/ ToolError(k)
      BY <2>4, <3>1 DEF ToolOk, ToolError, InStep, Goto, TypeOK
    <3>2. CASE CommitStep(k)
      BY <2>4, <3>2 DEF CommitStep, MarkCommitted, Status, TypeOK, WalTypeOK
    <3>3. CASE FailStep(k)
      <4>1. MarkFailed(i)
        BY <2>4, <3>3, NoFailureStep DEF FailStep
      <4>2. QED
        BY <4>1 DEF MarkFailed, Status, TypeOK, WalTypeOK, Row
    <3>4. QED
      BY <2>4, <3>1, <3>2, <3>3, NextPoint DEF InStep
  <2>5. CASE /\ Status(i) = "PENDING_APPROVAL"
             /\ fsm[k].mode = "AwaitingApproval" /\ fsm[k].token = i
    <3>1. ASSUME NEW r \in Session, ApproveAction(k, r)
          PROVE  InStep(k)' /\ call'[k].cur = i
      BY <2>5, <3>1, ApprovedRow DEF InStep
    <3>2. ASSUME NEW r \in Session, RejectAction(k, r)
          PROVE  FALSE
      <4>1. MarkFailed(i)
        BY <2>5, <3>2, RejectionGivesUp
      <4>2. QED
        BY <4>1 DEF MarkFailed, Status, TypeOK, WalTypeOK, Row
    <3>3. QED
      BY <2>5, <3>1, <3>2, DecisionStep
  <2>6. QED
    BY <2>1, <2>2, <2>3, <2>4, <2>5 DEF OneOpenRow
<1>3. QED
  BY <1>1, <1>2, ColumnsStep

(* A call returns in Failed at the end of a rollback only. *)
LEMMA FailedReturn ==
    ASSUME NoFailures, TypeOK, NEW k \in Kernel, SagaOK(k), AloneOK(k), LabelOK(k), AnyStep(k),
           fsm'[k].mode = "Failed", pc'[k] = "idle"
    PROVE  EndRollback(k) /\ call[k].ret # "recover"
<1>1. CASE Log(k)
  <2>1. fsm[k].mode = "ExecutingTool" /\ ~LogAction(k)
    BY <1>1 DEF Log, LogAction, ParkForApproval, LogRefused, SagaOK, Goto, TypeOK
  <2>2. CASE ParkForApproval(k)
    BY <2>1, <2>2 DEF ParkForApproval, Fire, Transition, Accepts, Target, RequireApproval, TypeOK
  <2>3. QED
    BY <1>1, <2>1, <2>2 DEF Log, LogRefused
<1>2. CASE Step(k)
  <2>1. fsm[k].mode = "ExecutingTool" /\ CommitStep(k)
    BY <1>2 DEF Step, ToolOk, ToolError, CommitStep, FailStep, SagaOK, Goto, TypeOK
  <2>2. QED
    BY <2>1 DEF CommitStep, Fire, Transition, Accepts, Target, Plain, PlainState, TypeOK
<1>3. CASE Recovery(k)
  <2>1. fsm' = fsm /\ Recovering(k)
    BY <1>3 DEF Recovery, RecoverSession, FailOrphan, SettleSession, Recovering, Running, LabelOK
  <2>2. QED
    BY <2>1 DEF AloneOK, Idle, PlainState
<1>4. CASE Rollback(k)
  BY <1>4 DEF Rollback, ScanCommitted, CompensateOk, CompensateError, RecordUndone, RecordOrphan,
     RecordInDlq, NextRow, LoopLabel, EndRollback, FinishRollback, Goto, TypeOK
<1>5. CASE \/ BeginPlanning(k) \/ Complete(k) \/ NewKernel(k) \/ StartRecovery(k)
           \/ \E t \in Tool : BeginTool(k, t)
  BY <1>5 DEF BeginPlanning, Complete, NewKernel, StartRecovery, BeginTool, Fire, Transition,
     Accepts, Target, Plain, StartExecution, PlainState, Executing, Idle, Goto, TypeOK
<1>6. CASE \/ \E t \in Tool, s \in Session, key \in Key \cup {NoKey} :
                ReturnCached(k, t, s, key) \/ ExecuteTool(k, t, s, key)
           \/ \E s \in Session : ApproveAction(k, s) \/ RejectAction(k, s)
  <2>1. PICK t \in Tool, s \in Session, key \in Key \cup {NoKey} : ReturnCached(k, t, s, key)
    BY <1>6 DEF ExecuteTool, ApproveAction, RejectAction, Goto, TypeOK
  <2>2. fsm'[k].mode = "Verifying"
    BY <2>1 DEF ReturnCached, Fire, Transition, Accepts, Target, Plain, PlainState, CanExecuteTool,
       TypeOK
  <2>3. QED
    BY <2>2
<1>7. QED
  BY <1>1, <1>2, <1>3, <1>4, <1>5, <1>6, NoFailureStep DEF AnyStep, Progress, Caller

LEMMA OwnSettled ==
    ASSUME NoFailures, TypeOK, NEW k \in Kernel, SagaOK(k), AloneOK(k), LabelOK(k), TodoOK(k),
           GivenUpOK(k), AnyStep(k)
    PROVE  SettledOK(k)'
<1> SUFFICES ASSUME fsm'[k].mode = "Failed", pc'[k] = "idle", NEW s \in saga'[k]
             PROVE  Committed(s)' = {}
  BY DEF SettledOK, Running
<1>1. EndRollback(k) /\ call[k].ret # "recover"
  BY FailedReturn
<1>2. UNCHANGED actions /\ saga' = saga /\ pc[k] = "end"
  BY <1>1 DEF EndRollback
<1>3. s = call[k].sess
  BY <1>1, <1>2 DEF GivenUpOK, InRollback, SagaOK
<1>4. Committed(s) = {}
  BY <1>2, <1>3 DEF TodoOK
<1>5. QED
  BY <1>2, <1>4, SameQueries

LEMMA OthersOutcome ==
    ASSUME DisjointSessions, TypeOK, LedgerInv, ApprovalInv, RecoveryInv, LiveInv,
           NEW k \in Kernel, AnyStep(k), NEW j \in Kernel \ {k}, OneOpenRow(j), SettledOK(j)
    PROVE  OneOpenRow(j)' /\ SettledOK(j)'
<1>1. /\ pc'[j] = pc[j] /\ call'[j] = call[j] /\ fsm'[j] = fsm[j] /\ saga'[j] = saga[j]
  BY OthersUntouched, OthersFsm DEF AnyStep
<1>2. \A s \in saga[j] :
         /\ Committed(s)' = Committed(s)
         /\ \A i \in ActionId : actions'[i].session = s => actions'[i] = actions[i]
  BY SagaElsewhere, ElsewhereQueries DEF ApprovalInv, RecoveryInv, LiveInv
<1>3. OneOpenRow(j)'
  <2> SUFFICES ASSUME NEW s \in saga[j], NEW i \in ActionId, actions'[i].session = s
               PROVE  /\ Status(i)' = "PENDING" => InStep(j)' /\ call'[j].cur = i
                      /\ Status(i)' = "PENDING_APPROVAL" =>
                            \/ InStep(j)' /\ call'[j].cur = i
                            \/ fsm'[j].mode = "AwaitingApproval" /\ fsm'[j].token = i
    BY <1>1 DEF OneOpenRow, Rows
  <2>1. i \in Rows(s) /\ Status(i)' = Status(i)
    BY <1>2 DEF Rows, Status
  <2>2. QED
    BY <1>1, <2>1 DEF OneOpenRow, InStep
<1>4. SettledOK(j)'
  <2> SUFFICES ASSUME fsm'[j].mode = "Failed", pc'[j] = "idle", NEW s \in saga'[j]
               PROVE  Committed(s)' = {}
    BY DEF SettledOK, Running
  <2>1. QED
    BY <1>1, <1>2 DEF SettledOK, Running
<1>5. QED
  BY <1>3, <1>4

LEMMA OutcomeStep ==
    ASSUME DisjointSessions, ExclusiveRecovery, OneSessionPerSaga, NoFailures, TypeOK, LedgerInv,
           ApprovalInv, RecoveryInv, LiveInv, OutcomeInv, [Next]_vars
    PROVE  OutcomeInv'
<1>1. CASE UNCHANGED vars
  BY <1>1 DEF vars, OutcomeInv, VacantOK, EffectsAccounted, FailedOK, OneOpenRow, SettledOK,
     LetterRowOK, InStep, Running, At, Status, Rows, Committed, WithStatus
<1>2. ASSUME NEW k \in Kernel, AnyStep(k)
      PROVE  OutcomeInv'
  <2>1. /\ SagaOK(k) /\ ParkedOK(k) /\ AloneOK(k) /\ LabelOK(k) /\ TodoOK(k) /\ OpenOK(k)
        /\ GivenUpOK(k) /\ SeqsUnique
    BY DEF ApprovalInv, RecoveryInv, LiveInv
  <2>2. VacantOK' /\ EffectsAccounted'
    BY <1>2, <2>1, VacantStep, AccountedStep DEF OutcomeInv
  <2>3. \A j \in Kernel : FailedOK(j)' /\ LetterRowOK(j)'
    BY <1>2, FailedStep, LetterRowStep DEF OutcomeInv, RecoveryInv
  <2>4. OneOpenRow(k)' /\ SettledOK(k)'
    BY <1>2, <2>1, OwnOpenRow, OwnSettled DEF OutcomeInv
  <2>5. \A j \in Kernel \ {k} : OneOpenRow(j)' /\ SettledOK(j)'
    BY <1>2, OthersOutcome DEF OutcomeInv
  <2>6. QED
    BY <2>2, <2>3, <2>4, <2>5 DEF OutcomeInv
<1>3. QED
  BY <1>1, <1>2 DEF Next, AnyStep

LEMMA OutcomeInvariant ==
    ASSUME DisjointSessions, ExclusiveRecovery, OneSessionPerSaga, NoFailures
    PROVE  Spec => []OutcomeInv
<1>1. Init => OutcomeInv
  <2> SUFFICES ASSUME Init
               PROVE  OutcomeInv
    OBVIOUS
  <2>1. VacantOK /\ EffectsAccounted
    BY DEF Init, WalInit, NoRow, VacantOK, EffectsAccounted, Status
  <2>2. \A k \in Kernel : FailedOK(k) /\ LetterRowOK(k) /\ saga[k] = {}
    BY DEF Init, FailedOK, LetterRowOK
  <2>3. QED
    BY <2>1, <2>2 DEF OutcomeInv, OneOpenRow, SettledOK
<1>2. TypeOK /\ LedgerInv /\ ApprovalInv /\ RecoveryInv /\ LiveInv /\ OutcomeInv /\ [Next]_vars
      => OutcomeInv'
  BY OutcomeStep
<1>3. QED
  BY <1>1, <1>2, TypeCorrect, LedgerInvariant, ApprovalInvariant, RecoveryInvariant,
     LiveInvariant, PTL DEF Spec

(* Unless a process crashes or a statement fails, no effect is lost sight  *)
(* of: every effect that stands belongs to a row that is COMMITTED, or     *)
(* about to be, or a dead letter, whatever compensations fail              *)
(* (run_logged_step, Wal::rollback).                                       *)
THEOREM NoEffectLost ==
    ASSUME DisjointSessions, ExclusiveRecovery, OneSessionPerSaga, NoFailures
    PROVE  Spec => []EffectsAccounted
<1>1. OutcomeInv => EffectsAccounted
  BY DEF OutcomeInv
<1>2. QED
  BY <1>1, OutcomeInvariant, PTL

(* A kernel that has come to Failed has settled its saga: no row of it is  *)
(* left open, and a row whose effect stands has its dead letter.  The open *)
(* row of a saga is the one its kernel is at (OneOpenRow), and a rollback  *)
(* returns with no row COMMITTED (TodoOK).                                 *)
THEOREM FailedSagasSettled ==
    ASSUME DisjointSessions, ExclusiveRecovery, OneSessionPerSaga, NoFailures
    PROVE  Spec => []FailedMeansSettled
<1>1. TypeOK /\ LedgerInv /\ ApprovalInv /\ RecoveryInv /\ OutcomeInv => FailedMeansSettled
  <2> SUFFICES ASSUME TypeOK, LedgerInv, ApprovalInv, RecoveryInv, OutcomeInv, NEW k \in Kernel,
                      fsm[k].mode = "Failed", pc[k] = "idle",
                      NEW s \in saga[k], NEW i \in Rows(s)
               PROVE  /\ Status(i) \in {"COMPENSATED", "FAILED"}
                      /\ world[i] = "applied" => i \in dlq
    BY DEF FailedMeansSettled, Running
  <2>1. i \in ActionId /\ actions[i].session = s /\ s \in SessionsOf[k] /\ s \in Session
    BY KernelAssumption DEF Rows, ApprovalInv, SagaOK
  <2>2. Status(i) \in {"COMPENSATED", "FAILED"}
    <3>1. Status(i) # "NONE"
      BY <2>1, WalAssumption DEF OutcomeInv, VacantOK
    <3>2. Status(i) \notin {"PENDING", "PENDING_APPROVAL"}
      BY DEF OutcomeInv, OneOpenRow, InStep
    <3>3. Status(i) # "COMMITTED"
      BY DEF OutcomeInv, SettledOK, Running, Committed, WithStatus, Status
    <3>4. QED
      BY <2>1, <3>1, <3>2, <3>3 DEF Status, TypeOK, WalTypeOK, Row, ActionStatus
  <2>3. ASSUME NEW j \in Kernel, pc[j] \in {"commit", "orphan", "dlq"}, call[j].cur = i
        PROVE  FALSE
    <3>1. j # k
      BY <2>3
    <3>2. actions[i].session = call[j].sess
      BY <2>3, CursorRow DEF LedgerInv, StepOK, RecoveryInv, OutcomeInv, LetterRowOK
    <3>3. ~Recovering(j)
      BY DEF RecoveryInv, AloneOK, Idle, PlainState
    <3>4. call[j].sess \in SessionsOf[j]
      BY <2>3, <3>3 DEF LedgerInv, StepOK, RecoveryInv, LabelOK, InRollback, Recovering, Running
    <3>5. QED
      BY <2>1, <3>1, <3>2, <3>4 DEF DisjointSessions
  <2>4. QED
    BY <2>1, <2>2, <2>3 DEF OutcomeInv, EffectsAccounted, At
<1>2. QED
  BY <1>1, TypeCorrect, LedgerInvariant, ApprovalInvariant, RecoveryInvariant, OutcomeInvariant, PTL

-----------------------------------------------------------------------------
(* A session comes to have a dead letter when its rollback records one.    *)
LEMMA LetteredStep ==
    ASSUME TypeOK, LedgerInv, RecoveryInv, OutcomeInv, FlagInv, NEW k \in Kernel, AnyStep(k)
    PROVE  /\ RecordInDlq(k) => Lettered' = Lettered \cup {call[k].sess}
           /\ ~RecordInDlq(k) => Lettered' = Lettered
           /\ \A i \in dlq' : actions'[i].session \in Session
<1>1. \A i \in dlq : /\ i \in ActionId /\ actions'[i].session = actions[i].session
                     /\ actions[i].session \in Session
  <2> SUFFICES ASSUME NEW i \in dlq
               PROVE  /\ i \in ActionId /\ actions'[i].session = actions[i].session
                      /\ actions[i].session \in Session
    OBVIOUS
  <2>1. i \in ActionId
    BY DEF TypeOK, WalTypeOK
  <2>2. Status(i) # "NONE"
    BY <2>1 DEF LedgerInv, RowOK
  <2>3. QED
    BY <2>1, <2>2, RowsStep DEF AnyStep, RowsKept, FlagInv
<1>2. CASE RecordInDlq(k)
  <2>1. dlq' = dlq \cup {call[k].cur} /\ UNCHANGED actions /\ pc[k] = "dlq"
    BY <1>2 DEF RecordInDlq, RecordDlq
  <2>2. actions[call[k].cur].session = call[k].sess /\ call[k].sess \in Session
    BY <2>1 DEF OutcomeInv, LetterRowOK, RecoveryInv, LabelOK, InRollback
  <2>3. QED
    BY <1>1, <1>2, <2>1, <2>2 DEF Lettered
<1>3. CASE ~RecordInDlq(k)
  <2>1. UNCHANGED dlq
    BY <1>3, DlqStep
  <2>2. QED
    BY <1>1, <1>3, <2>1 DEF Lettered
<1>4. QED
  BY <1>2, <1>3

(* A saga with a dead letter is given up, and stays so. *)
LEMMA LetteredGivenUp ==
    ASSUME DisjointSessions, OneSessionPerSaga, TypeOK, LedgerInv, ApprovalInv, RecoveryInv,
           LiveInv, OutcomeInv, FlagInv, NEW k \in Kernel, AnyStep(k),
           NEW s \in Lettered', NEW j \in Kernel, s \in saga'[j]
    PROVE  GivenUp(j)'
<1>1. /\ AloneOK(k) /\ LabelOK(k) /\ GivenUpOK(k) /\ SagaOK(j) /\ GivenUpOK(j)
      /\ (s \in Lettered /\ s \in saga[j] => GivenUp(j))
  BY DEF ApprovalInv, RecoveryInv, LiveInv, FlagInv
<1>2. CASE s \notin Lettered
  <2>1. RecordInDlq(k) /\ s = call[k].sess
    BY <1>2, LetteredStep
  <2>2. pc[k] = "dlq" /\ UNCHANGED <<fsm, saga>>
    BY <2>1 DEF RecordInDlq
  <2>3. call[k].ret # "recover"
    BY <1>1, <2>2 DEF AloneOK, Recovering, Running, GivenUpOK, Idle, PlainState
  <2>4. CASE j = k
    BY <1>1, <2>2, <2>3, <2>4 DEF GivenUpOK, InRollback, GivenUp
  <2>5. CASE j # k
    BY <1>1, <2>1, <2>2, <2>3, <2>5 DEF LabelOK, InRollback, SagaOK, DisjointSessions
  <2>6. QED
    BY <2>4, <2>5
<1>3. CASE s \in Lettered /\ j # k
  BY <1>1, <1>3, OthersFsm DEF GivenUp
<1>4. CASE s \in Lettered /\ j = k
  <2>1. ASSUME NEW t \in Tool, NEW r \in Session, NEW key \in Key \cup {NoKey},
               ExecuteTool(k, t, r, key)
        PROVE  FALSE
    <3>1. /\ saga'[k] = saga[k] \cup {r} /\ (saga[k] = {r} \/ Rows(r) = {})
          /\ fsm[k].mode = "ExecutingTool"
      BY <2>1 DEF ExecuteTool, MayUse, CanExecuteTool, TypeOK
    <3>2. Rows(s) # {}
      BY <1>4 DEF Lettered, Rows, TypeOK, WalTypeOK
    <3>3. QED
      BY <1>1, <1>4, <3>1, <3>2 DEF GivenUp
  <2>2. QED
    BY <1>1, <1>4, <2>1, OwnModes
<1>5. QED
  BY <1>2, <1>3, <1>4

(* No step of execute_tool is in a session with a dead letter. *)
LEMMA StepsUnlettered ==
    ASSUME ApprovalInv, FlagInv, NEW k \in Kernel, pc[k] \in {"log", "execute", "commit", "fail"}
    PROVE  call[k].sess \notin Lettered
BY DEF ApprovalInv, SagaOK, FlagInv, GivenUp

(* A rollback that will flag its session does, and keeps it empty. *)
LEMMA OwnFlagStep ==
    ASSUME NoFailures, TypeOK, LedgerInv, RecoveryInv, LiveInv, OutcomeInv,
           NEW k \in Kernel, AnyStep(k), NEW s \in Session, WillFlag(k, s)
    PROVE  FlagOK(s)'
<1>1. /\ LabelOK(k) /\ TodoOK(k) /\ ScanOK(k) /\ GivenUpOK(k) /\ OneOpenRow(k)
  BY DEF RecoveryInv, LiveInv, OutcomeInv
<1>2. pc[k] \in {"compensate", "undone", "orphan", "dlq", "end", "settle"} /\ call[k].sess = s
      /\ call[k].failed
  BY DEF WillFlag
<1>3. CASE EndRollback(k)
  <2>1. /\ pc[k] = "end" /\ sessions' = [sessions EXCEPT ![s] = "RECOVERED_WITH_DLQ"]
        /\ FinishRollback(k) /\ UNCHANGED <<actions, saga>>
    BY <1>2, <1>3, NoFailureStep DEF EndRollback, SetSessionStatus
  <2>2. CASE call[k].ret = "recover"
    BY <1>2, <2>1, <2>2 DEF FinishRollback, Goto, FlagOK, WillFlag, TypeOK
  <2>3. CASE call[k].ret # "recover"
    <3>1. s \in saga[k] /\ Committed(s) = {}
      BY <1>1, <1>2, <2>1, <2>3 DEF GivenUpOK, InRollback, TodoOK
    <3>2. Orphans(s) = {}
      BY <1>1, <2>1, <3>1 DEF OneOpenRow, InStep, Orphans, WithStatus, Rows, Status
    <3>3. sessions'[s] = "RECOVERED_WITH_DLQ"
      BY <2>1 DEF TypeOK, WalTypeOK
    <3>4. QED
      BY <2>1, <3>1, <3>2, <3>3, SameQueries DEF FlagOK
  <2>4. QED
    BY <2>2, <2>3
<1>4. CASE SettleSession(k)
  <2>1. pc[k] = "settle" /\ sessions'[s] = "RECOVERED_WITH_DLQ" /\ UNCHANGED actions
    BY <1>2, <1>4 DEF SettleSession, SetSessionStatus, TypeOK, WalTypeOK
  <2>2. Committed(s) = {} /\ Orphans(s) = {}
    BY <1>1, <1>2, <2>1 DEF TodoOK, ScanOK, LabelOK, Recovering, Running
  <2>3. QED
    BY <2>1, <2>2, SameQueries DEF FlagOK
<1>5. CASE CompensateOk(k) \/ CompensateError(k) \/ RecordOrphan(k)
  <2>1. call'[k].sess = s /\ call'[k].failed /\ pc'[k] \in {"undone", "orphan", "dlq"}
    BY <1>2, <1>5 DEF CompensateOk, CompensateError, RecordOrphan, Goto, TypeOK, Call
  <2>2. QED
    BY <2>1 DEF FlagOK, WillFlag
<1>6. CASE RecordUndone(k) \/ RecordInDlq(k)
  <2>1. call'[k].sess = s /\ call'[k].failed /\ pc'[k] \in {"compensate", "end"}
    BY <1>2, <1>6 DEF RecordUndone, RecordInDlq, NextRow, LoopLabel, Goto, TypeOK, Call
  <2>2. QED
    BY <2>1 DEF FlagOK, WillFlag
<1>7. QED
  <2>1. ~Caller(k) /\ ~Failure(k)
    BY <1>2, NoFailureStep DEF Caller, BeginPlanning, Complete, NewKernel, StartRecovery, BeginTool,
       ReturnCached, ExecuteTool, ApproveAction, RejectAction, Running
  <2>2. QED
    BY <1>2, <1>3, <1>4, <1>5, <1>6, <2>1
    DEF AnyStep, Progress, Log, LogAction, ParkForApproval, LogRefused, Step, ToolOk, ToolError,
        CommitStep, FailStep, Rollback, ScanCommitted, Recovery, RecoverSession, FailOrphan

(* A flag that is up stays up, and its session stays closed. *)
LEMMA FlagKept ==
    ASSUME OneSessionPerSaga, TypeOK, LedgerInv, ApprovalInv, RecoveryInv, FlagInv,
           NEW k \in Kernel, AnyStep(k), NEW s \in Lettered,
           sessions[s] = "RECOVERED_WITH_DLQ", Committed(s) = {}, Orphans(s) = {}
    PROVE  FlagOK(s)'
<1>1. s \in Session /\ (pc[k] \in {"log", "execute", "commit", "fail"} => call[k].sess # s)
  BY StepsUnlettered DEF Lettered
<1>2. sessions'[s] = "RECOVERED_WITH_DLQ"
  <2>1. CASE Log(k) \/ LogFault(k)
    BY <1>1, <2>1 DEF Log, LogAction, ParkForApproval, LogRefused, LogFault, CreateSession, TypeOK,
       WalTypeOK
  <2>2. CASE EndRollback(k)
    BY <1>1, <2>2 DEF EndRollback, SetSessionStatus, TypeOK, WalTypeOK
  <2>3. CASE SettleSession(k)
    <3>1. call[k].sess = s => call[k].failed
      BY <2>3 DEF SettleSession, FlagInv, CleanOK
    <3>2. QED
      BY <1>1, <2>3, <3>1 DEF SettleSession, SetSessionStatus, TypeOK, WalTypeOK
  <2>4. CASE UNCHANGED sessions
    BY <2>4
  <2>5. QED
    BY <2>1, <2>2, <2>3, <2>4
    DEF AnyStep, Progress, Step, ToolOk, ToolError, CommitStep, FailStep, Rollback, ScanCommitted,
        CompensateOk, CompensateError, RecordUndone, RecordOrphan, RecordInDlq, Recovery,
        RecoverSession, FailOrphan, Caller, BeginPlanning, Complete, NewKernel, StartRecovery,
        BeginTool, ReturnCached, ExecuteTool, ApproveAction, RejectAction, Failure, CommitFault,
        RollbackFault, RecoveryFault, Crash
<1>3. \A i \in ActionId : actions'[i].session = s => Status(i)' \notin {"PENDING", "COMMITTED"}
  <2> SUFFICES ASSUME NEW i \in ActionId, actions'[i].session = s,
                      Status(i)' \in {"PENDING", "COMMITTED"}
               PROVE  FALSE
    OBVIOUS
  <2>1. CASE Inserts(k)
    <3>1. i # nrows + 1
      BY <1>1, <2>1, InsertedRow DEF Inserts
    <3>2. actions'[i] = actions[i]
      BY <2>1, <3>1, InsertedRow
    <3>3. QED
      BY <3>2 DEF Committed, Orphans, WithStatus, Rows, Status
  <2>2. CASE KeepsColumns
    <3>1. actions[i].session = s /\ Status(i) \notin {"PENDING", "COMMITTED"}
      BY <2>2 DEF KeepsColumns, Committed, Orphans, WithStatus, Rows, Status
    <3>2. CASE CommitStep(k)
      <4>1. call[k].cur # i
        BY <1>1, <3>1, <3>2 DEF CommitStep, LedgerInv, StepOK
      <4>2. QED
        BY <3>1, <3>2, <4>1 DEF CommitStep, MarkCommitted, Status, TypeOK, WalTypeOK
    <3>3. ASSUME NEW c \in Nat, MarkFailed(c) \/ MarkCompensated(c)
          PROVE  FALSE
      BY <3>1, <3>3 DEF MarkFailed, MarkCompensated, Status, TypeOK, WalTypeOK, Row
    <3>4. CASE \/ FailStep(k) \/ RecordUndone(k) \/ RecordOrphan(k) \/ FailOrphan(k)
               \/ \E r \in Session : RejectAction(k, r)
      <4>1. call[k].cur \in Nat
        BY DEF TypeOK, Call
      <4>2. ActionId \subseteq Nat /\ call[k].todo \subseteq Nat
        BY WalAssumption DEF ActionId, TypeOK, Call
      <4>3. ~UNCHANGED actions
        BY <2>2, <3>1 DEF Status
      <4>4. QED
        BY <3>3, <3>4, <4>1, <4>2, <4>3
        DEF FailStep, RecordUndone, RecordOrphan, MarkCompensationFailed, FailOrphan, RejectAction
    <3>5. CASE UNCHANGED actions
      BY <3>1, <3>5 DEF Status
    <3>6. CASE LogAction(k) \/ ParkForApproval(k)
      BY <2>1, <3>6 DEF LogAction, ParkForApproval, Inserts
    <3>7. QED
      BY <3>2, <3>4, <3>5, <3>6
      DEF AnyStep, Progress, Log, LogRefused, Step, ToolOk, ToolError, Rollback, ScanCommitted,
          CompensateOk, CompensateError, RecordInDlq, EndRollback, Recovery, RecoverSession,
          SettleSession, Caller, BeginPlanning, Complete, NewKernel, StartRecovery, BeginTool,
          ReturnCached, ExecuteTool, ApproveAction, Failure, LogFault, CommitFault, RollbackFault,
          RecoveryFault, Crash
  <2>3. QED
    BY <2>1, <2>2, ColumnsStep
<1>4. Committed(s)' = {} /\ Orphans(s)' = {}
  BY <1>3 DEF Committed, Orphans, WithStatus, Rows, Status
<1>5. QED
  BY <1>2, <1>4 DEF FlagOK

LEMMA FlagStep ==
    ASSUME OneSessionPerSaga, NoFailures, TypeOK, LedgerInv, ApprovalInv, RecoveryInv,
           LiveInv, OutcomeInv, FlagInv, NEW k \in Kernel, AnyStep(k), NEW s \in Lettered'
    PROVE  FlagOK(s)'
<1>1. CASE RecordInDlq(k) /\ s = call[k].sess
  <2>1. call'[k].sess = s /\ call'[k].failed /\ pc'[k] \in {"compensate", "end"}
    BY <1>1 DEF RecordInDlq, NextRow, LoopLabel, Goto, TypeOK, Call
  <2>2. QED
    BY <2>1 DEF FlagOK, WillFlag
<1>2. CASE s \in Lettered
  <2>1. s \in Session /\ FlagOK(s)
    BY <1>2 DEF Lettered, FlagInv
  <2>2. ASSUME NEW j \in Kernel \ {k}, WillFlag(j, s)
        PROVE  FlagOK(s)'
    <3>1. pc'[j] = pc[j] /\ call'[j] = call[j]
      BY OthersUntouched DEF AnyStep
    <3>2. QED
      BY <2>2, <3>1 DEF FlagOK, WillFlag
  <2>3. CASE WillFlag(k, s)
    BY <2>1, <2>3, OwnFlagStep
  <2>4. CASE sessions[s] = "RECOVERED_WITH_DLQ" /\ Committed(s) = {} /\ Orphans(s) = {}
    BY <1>2, <2>4, FlagKept
  <2>5. QED
    BY <2>1, <2>2, <2>3, <2>4 DEF FlagOK
<1>3. QED
  BY <1>1, <1>2, LetteredStep

Cleaning(k) ==
    \/ pc[k] \in {"pending", "scan"}
    \/ pc[k] \in {"compensate", "undone", "orphan", "dlq", "end", "settle"} /\ ~call[k].failed

(* How a call comes to be in a rollback that has no failed compensation.   *)
LEMMA CleaningStep ==
    ASSUME TypeOK, NEW k \in Kernel, AnyStep(k), Cleaning(k)'
    PROVE  \/ FailStep(k)
           \/ \E s \in Session : RejectAction(k, s) \/ RecoverSession(k, s)
           \/ Cleaning(k) /\ call'[k].sess = call[k].sess /\ ~RecordInDlq(k)
<1> USE DEF Cleaning
<1>1. CASE Log(k) \/ ToolOk(k) \/ ToolError(k) \/ CommitStep(k) \/ SettleSession(k) \/ Failure(k)
  BY <1>1 DEF Log, LogAction, ParkForApproval, LogRefused, ToolOk, ToolError, CommitStep,
     SettleSession, Failure, LogFault, CommitFault, RollbackFault, RecoveryFault, Crash,
     ReturnToCaller, Return, Goto, TypeOK
<1>2. CASE ScanCommitted(k) \/ FailOrphan(k)
  <2>1. call'[k].sess = call[k].sess /\ Cleaning(k)
    BY <1>2 DEF ScanCommitted, FailOrphan, TypeOK, Call
  <2>2. ~RecordInDlq(k)
    BY <1>2 DEF ScanCommitted, FailOrphan, RecordInDlq
  <2>3. QED
    BY <2>1, <2>2
<1>3. CASE CompensateOk(k) \/ CompensateError(k) \/ RecordOrphan(k)
  <2>1. /\ call'[k].sess = call[k].sess /\ call'[k].failed = call[k].failed
        /\ pc'[k] \in {"undone", "orphan", "dlq"} /\ pc[k] \in {"compensate", "orphan"}
    BY <1>3 DEF CompensateOk, CompensateError, RecordOrphan, Goto, TypeOK, Call
  <2>2. QED
    BY <1>3, <2>1 DEF CompensateOk, CompensateError, RecordOrphan, RecordInDlq
<1>4. CASE RecordUndone(k)
  <2>1. call'[k].sess = call[k].sess /\ call'[k].failed = call[k].failed
        /\ pc'[k] \in {"compensate", "end"} /\ pc[k] = "undone"
    BY <1>4 DEF RecordUndone, NextRow, LoopLabel, Goto, TypeOK, Call
  <2>2. QED
    BY <2>1 DEF RecordInDlq
<1>5. CASE RecordInDlq(k)
  BY <1>5 DEF RecordInDlq, NextRow, LoopLabel, Goto, TypeOK, Call
<1>6. CASE EndRollback(k)
  BY <1>6 DEF EndRollback, FinishRollback, ReturnToCaller, Return, Goto, RecordInDlq, TypeOK
<1>7. CASE Caller(k) /\ ~\E s \in Session : RejectAction(k, s)
  BY <1>7 DEF Caller, BeginPlanning, Complete, NewKernel, StartRecovery, BeginTool, ReturnCached,
     ExecuteTool, ApproveAction, Running, Goto, TypeOK
<1>8. QED
  BY <1>1, <1>2, <1>3, <1>4, <1>5, <1>6, <1>7 DEF AnyStep, Progress, Step, Rollback, Recovery

(* The session of such a rollback has no letter. *)
LEMMA OwnCleaning ==
    ASSUME OneSessionPerSaga, TypeOK, LedgerInv, ApprovalInv, RecoveryInv, OutcomeInv,
           FlagInv, NEW k \in Kernel, AnyStep(k), Cleaning(k)'
    PROVE  call'[k].sess \notin Lettered'
<1>1. CASE FailStep(k)
  <2>1. pc[k] = "fail" /\ UNCHANGED call /\ ~RecordInDlq(k)
    BY <1>1 DEF FailStep, RecordInDlq
  <2>2. QED
    BY <2>1, StepsUnlettered, LetteredStep
<1>2. ASSUME NEW s \in Session, RejectAction(k, s)
      PROVE  call'[k].sess \notin Lettered'
  <2>1. call'[k].sess = s /\ s \in saga[k] /\ fsm[k].mode = "AwaitingApproval" /\ pc[k] = "idle"
    BY <1>2, RejectionGivesUp DEF ApprovalInv
  <2>2. s \notin Lettered /\ ~RecordInDlq(k)
    BY <2>1 DEF FlagInv, GivenUp, RecordInDlq
  <2>3. QED
    BY <2>1, <2>2, LetteredStep
<1>3. ASSUME NEW s \in Session, RecoverSession(k, s)
      PROVE  call'[k].sess \notin Lettered'
  <2>1. pc[k] = "next" /\ call'[k].sess = s /\ s \in call[k].dangling /\ Recovering(k)
    BY <1>3 DEF RecoverSession, TypeOK, Call, RecoveryInv, LabelOK, Recovering, Running
  <2>2. s \in DanglingSessions
    BY <2>1 DEF FlagInv, CleanOK
  <2>3. ~FlagOK(s)
    <3>1. \A j \in Kernel : ~WillFlag(j, s)
      BY <2>1 DEF RecoveryInv, AloneOK, Running, WillFlag
    <3>2. QED
      BY <2>2, <3>1 DEF FlagOK, DanglingSessions
  <2>4. s \notin Lettered /\ ~RecordInDlq(k)
    BY <2>1, <2>3 DEF FlagInv, RecordInDlq
  <2>5. QED
    BY <2>1, <2>4, LetteredStep
<1>4. CASE Cleaning(k) /\ call'[k].sess = call[k].sess /\ ~RecordInDlq(k)
  <2>1. call[k].sess \notin Lettered
    BY <1>4 DEF FlagInv, CleanOK, Cleaning
  <2>2. QED
    BY <1>4, <2>1, LetteredStep
<1>5. QED
  BY <1>1, <1>2, <1>3, <1>4, CleaningStep

LEMMA OthersCleaning ==
    ASSUME DisjointSessions, TypeOK, LedgerInv, RecoveryInv, OutcomeInv, FlagInv,
           NEW k \in Kernel, AnyStep(k), NEW j \in Kernel \ {k}, Cleaning(j)'
    PROVE  call'[j].sess \notin Lettered'
<1>1. pc'[j] = pc[j] /\ call'[j] = call[j] /\ Cleaning(j)
  BY OthersUntouched DEF AnyStep, Cleaning
<1>2. call[j].sess \notin Lettered
  BY <1>1 DEF FlagInv, CleanOK, Cleaning
<1>3. ASSUME RecordInDlq(k)
      PROVE  call[j].sess # call[k].sess
  <2>1. pc[k] = "dlq" /\ pc[j] # "idle"
    BY <1>1, <1>3 DEF RecordInDlq, Cleaning
  <2>2. ~Recovering(k) /\ ~Recovering(j)
    BY <2>1 DEF RecoveryInv, AloneOK, Running
  <2>3. call[k].sess \in SessionsOf[k] /\ call[j].sess \in SessionsOf[j]
    BY <1>1, <2>1, <2>2 DEF RecoveryInv, LabelOK, InRollback, Recovering, Running, Cleaning
  <2>4. QED
    BY <2>3 DEF DisjointSessions
<1>4. QED
  BY <1>1, <1>2, <1>3, LetteredStep

(* An UPDATE of a row of s settles no other session. *)
LEMMA StillDangling ==
    ASSUME TypeOK, NEW i \in ActionId, MarkFailed(i) \/ MarkCompensated(i)
    PROVE  DanglingSessions \ {actions[i].session} \subseteq DanglingSessions'
<1> SUFFICES ASSUME NEW s \in Session, Orphans(s) \cup Committed(s) # {}, s # actions[i].session
             PROVE  Orphans(s)' \cup Committed(s)' # {}
  BY DEF DanglingSessions
<1>1. i \notin Orphans(s) \cup Committed(s)
  BY DEF Orphans, Committed, WithStatus, Rows
<1>2. QED
  BY <1>1, MarkQueries

(* The sessions that a scan has ahead dangle until their turn. *)
LEMMA OwnAhead ==
    ASSUME TypeOK, LedgerInv, RecoveryInv, FlagInv, NEW k \in Kernel, AnyStep(k), Recovering(k)'
    PROVE  /\ pc'[k] = "next" => call'[k].dangling \subseteq DanglingSessions'
           /\ call'[k].dangling \ {call'[k].sess} \subseteq DanglingSessions'
<1> USE DEF Recovering, Running
<1>1. LabelOK(k) /\ TodoOK(k)
  BY DEF RecoveryInv
<1>2. CASE StartRecovery(k)
  <2>1. UNCHANGED actions /\ call'[k].dangling = DanglingSessions
    BY <1>2 DEF StartRecovery, NewCall, TypeOK
  <2>2. QED
    BY <2>1, SameQueries
<1>3. CASE Recovering(k) /\ SettleSession(k)
  <2>1. UNCHANGED actions
    BY <1>3 DEF SettleSession
  <2>2. call'[k].dangling = call[k].dangling \ {call[k].sess}
    BY <1>3 DEF SettleSession, Return, Goto, TypeOK, Call
  <2>3. call'[k].dangling \subseteq DanglingSessions
    BY <1>3, <2>2 DEF FlagInv, CleanOK
  <2>4. QED
    BY <2>1, <2>3, SameQueries
<1>4. ASSUME Recovering(k), NEW s \in Session, RecoverSession(k, s)
      PROVE  pc'[k] # "next" /\ call'[k].dangling \subseteq DanglingSessions'
  <2>1. UNCHANGED actions /\ call'[k].dangling = call[k].dangling /\ pc[k] = "next"
    BY <1>4 DEF RecoverSession, TypeOK, Call
  <2>2. pc'[k] # "next"
    BY <1>4 DEF RecoverSession, PendingLabel, Goto, TypeOK
  <2>3. call[k].dangling \subseteq DanglingSessions
    BY <1>4, <2>1 DEF FlagInv, CleanOK
  <2>4. QED
    BY <2>1, <2>2, <2>3, SameQueries
<1>5. CASE Recovering(k) /\ (FailOrphan(k) \/ RecordUndone(k) \/ RecordOrphan(k))
  <2>1. /\ call'[k].dangling = call[k].dangling /\ call'[k].sess = call[k].sess
        /\ pc'[k] # "next"
    BY <1>5 DEF FailOrphan, RecordUndone, RecordOrphan, NextRow, LoopLabel, PendingLabel, Goto,
       TypeOK, Call
  <2>2. PICK i \in ActionId : /\ MarkFailed(i) \/ MarkCompensated(i)
                              /\ actions[i].session = call[k].sess
    <3>1. CASE FailOrphan(k)
      BY <1>1, <3>1 DEF FailOrphan, TodoOK, Orphans, WithStatus, Rows
    <3>2. CASE RecordUndone(k) \/ RecordOrphan(k)
      BY <1>1, <3>2, CursorRow DEF RecordUndone, RecordOrphan, MarkCompensationFailed
    <3>3. QED
      BY <1>5, <3>1, <3>2
  <2>3. DanglingSessions \ {call[k].sess} \subseteq DanglingSessions'
    BY <2>2, StillDangling
  <2>4. call[k].dangling \ {call[k].sess} \subseteq DanglingSessions
    BY <1>5 DEF FlagInv, CleanOK
  <2>5. QED
    BY <2>1, <2>3, <2>4
<1>6. CASE Recovering(k) /\ (ScanCommitted(k) \/ CompensateOk(k) \/ CompensateError(k)
                             \/ RecordInDlq(k) \/ EndRollback(k))
  <2>1. UNCHANGED actions
    BY <1>6 DEF ScanCommitted, CompensateOk, CompensateError, RecordInDlq, EndRollback
  <2>2. /\ call'[k].dangling = call[k].dangling /\ call'[k].sess = call[k].sess
        /\ pc'[k] # "next"
    BY <1>6 DEF ScanCommitted, CompensateOk, CompensateError, RecordInDlq, NextRow, LoopLabel,
       EndRollback, FinishRollback, Goto, TypeOK, Call
  <2>3. call[k].dangling \ {call[k].sess} \subseteq DanglingSessions
    BY <1>6 DEF FlagInv, CleanOK
  <2>4. QED
    BY <2>1, <2>2, <2>3, SameQueries
<1>7. CASE Recovering(k) /\ (Failure(k) \/ Log(k) \/ Step(k))
  BY <1>1, <1>7 DEF LabelOK, Log, LogAction, ParkForApproval, LogRefused, Step, ToolOk, ToolError,
     CommitStep, FailStep, Failure, LogFault, CommitFault, RollbackFault, RecoveryFault, Crash,
     ReturnToCaller, Return, Goto, TypeOK
<1>8. CASE Recovering(k) /\ Caller(k)
  BY <1>8 DEF Caller, BeginPlanning, Complete, NewKernel, StartRecovery, BeginTool, ReturnCached,
     ExecuteTool, ApproveAction, RejectAction
<1>9. QED
  BY <1>1, <1>2, <1>3, <1>4, <1>5, <1>6, <1>7, <1>8, ScanStep
  DEF AnyStep, Progress, Rollback, Recovery

LEMMA FlagInvStep ==
    ASSUME DisjointSessions, ExclusiveRecovery, OneSessionPerSaga, NoFailures, TypeOK, LedgerInv,
           ApprovalInv, RecoveryInv, LiveInv, OutcomeInv, FlagInv, [Next]_vars
    PROVE  FlagInv'
<1>1. CASE UNCHANGED vars
  <2>1. Lettered' = Lettered /\ DanglingSessions' = DanglingSessions
    BY <1>1, SameQueries DEF vars, Lettered
  <2>2. \A s \in Session : FlagOK(s)' = FlagOK(s)
    BY <1>1 DEF vars, FlagOK, WillFlag, Committed, Orphans, WithStatus, Rows
  <2>3. \A k \in Kernel : CleanOK(k)' = CleanOK(k)
    BY <1>1, <2>1 DEF vars, CleanOK, Recovering, Running
  <2>4. \A s \in Lettered : s \in Session /\ FlagOK(s)'
    BY <2>2 DEF FlagInv, Lettered
  <2>5. QED
    BY <1>1, <2>1, <2>3, <2>4 DEF vars, FlagInv, GivenUp
<1>2. ASSUME NEW k \in Kernel, AnyStep(k)
      PROVE  FlagInv'
  <2>1. \A i \in dlq' : actions'[i].session \in Session
    BY <1>2, LetteredStep
  <2>2. \A s \in Lettered' : FlagOK(s)' /\ \A j \in Kernel : s \in saga'[j] => GivenUp(j)'
    BY <1>2, FlagStep, LetteredGivenUp
  <2>3. \A j \in Kernel : Cleaning(j)' => call'[j].sess \notin Lettered'
    BY <1>2, OwnCleaning, OthersCleaning
  <2>4. ASSUME NEW j \in Kernel, Recovering(j)'
        PROVE  /\ pc'[j] = "next" => call'[j].dangling \subseteq DanglingSessions'
               /\ call'[j].dangling \ {call'[j].sess} \subseteq DanglingSessions'
    <3>1. CASE j = k
      BY <1>2, <2>4, <3>1, OwnAhead
    <3>2. CASE j # k
      <4>1. Recovering(j)
        BY <1>2, <2>4, <3>2, OthersUntouched DEF AnyStep, Recovering, Running
      <4>2. QED
        BY <1>2, <3>2, <4>1, AloneNoStep DEF RecoveryInv
    <3>3. QED
      BY <3>1, <3>2
  <2>5. \A j \in Kernel : CleanOK(j)'
    BY <2>3, <2>4 DEF CleanOK, Cleaning
  <2>6. QED
    BY <2>1, <2>2, <2>5 DEF FlagInv
<1>3. QED
  BY <1>1, <1>2 DEF Next, AnyStep

(* A session with a dead letter says so, unless a rollback or a scan is    *)
(* still at work on it: whatever runs on the session later, no kernel      *)
(* writes another status over RECOVERED_WITH_DLQ (EndRollback and          *)
(* SettleSession set it by id alone).                                      *)
THEOREM DeadLettersShow ==
    ASSUME DisjointSessions, ExclusiveRecovery, OneSessionPerSaga, NoFailures
    PROVE  Spec => []DeadLettersFlagged
<1>1. Init => FlagInv
  BY DEF Init, WalInit, NoCall, NewCall, FlagInv, Lettered, CleanOK, Recovering, Running
<1>2. TypeOK /\ LedgerInv /\ ApprovalInv /\ RecoveryInv /\ LiveInv /\ OutcomeInv /\ FlagInv
      /\ [Next]_vars => FlagInv'
  BY FlagInvStep
<1>3. TypeOK /\ FlagInv => DeadLettersFlagged
  <2> SUFFICES ASSUME TypeOK, FlagInv, NEW i \in dlq,
                      sessions[actions[i].session] # "RECOVERED_WITH_DLQ"
               PROVE  \E k \in Kernel : Running(k) /\ call[k].sess = actions[i].session
    BY DEF DeadLettersFlagged
  <2>1. FlagOK(actions[i].session)
    BY DEF FlagInv, Lettered
  <2>2. QED
    BY <2>1 DEF FlagOK, WillFlag, Running
<1>4. QED
  BY <1>1, <1>2, <1>3, TypeCorrect, LedgerInvariant, ApprovalInvariant, RecoveryInvariant,
     LiveInvariant, OutcomeInvariant, PTL DEF Spec

-----------------------------------------------------------------------------
(* A saga is given up by a failed step and by a rejection, and Compensating *)
(* by the former alone.                                                    *)
LEMMA FireGivesUp ==
    ASSUME TypeOK, NEW k \in Kernel, NEW e, Fire(k, e),
           e.kind \notin {"ToolFailed", "ValidationFailed", "RejectExecution"}
    PROVE  /\ GivenUp(k)' => GivenUp(k)
           /\ fsm'[k].mode = "Compensating" => fsm'[k] = fsm[k]
<1>1. fsm'[k] = Transition(fsm[k], e)
  BY DEF Fire, TypeOK
<1>2. CASE Accepts(fsm[k], e)
  <2>1. fsm'[k] = Target(fsm[k], e)
    BY <1>1, <1>2 DEF Transition
  <2>2. fsm'[k].mode # "Compensating"
    BY <1>2, <2>1 DEF Accepts, Target, PlainState, Executing
  <2>3. fsm'[k].mode = "Failed" => fsm[k].mode = "Compensating"
    BY <1>2, <2>1 DEF Accepts, Target, PlainState, Executing
  <2>4. QED
    BY <2>2, <2>3 DEF GivenUp
<1>3. CASE ~Accepts(fsm[k], e)
  BY <1>1, <1>3 DEF Transition, GivenUp
<1>4. QED
  BY <1>2, <1>3

LEMMA GivingUpStep ==
    ASSUME TypeOK, NEW k \in Kernel, AnyStep(k)
    PROVE  \/ FailStep(k)
           \/ \E s \in Session : RejectAction(k, s)
           \/ /\ GivenUp(k)' => GivenUp(k)
              /\ fsm'[k].mode = "Compensating" => fsm'[k] = fsm[k]
<1> DEFINE Same == /\ GivenUp(k)' => GivenUp(k)
                   /\ fsm'[k].mode = "Compensating" => fsm'[k] = fsm[k]
<1>1. CASE UNCHANGED fsm
  BY <1>1 DEF GivenUp
<1>2. CASE NewKernel(k) \/ Crash(k)
  BY <1>2 DEF NewKernel, Crash, GivenUp, Idle, PlainState, TypeOK
<1>3. CASE Log(k) \/ ToolOk(k) \/ ToolError(k) \/ CommitStep(k)
  BY <1>1, <1>3, FireGivesUp DEF Log, LogAction, ParkForApproval, LogRefused, ToolOk, ToolError,
     CommitStep, RequireApproval, Plain
<1>4. CASE Rollback(k) \/ Recovery(k)
  BY <1>1, <1>4, FireGivesUp DEF Rollback, ScanCommitted, CompensateOk, CompensateError,
     RecordUndone, RecordOrphan, RecordInDlq, EndRollback, FinishRollback, ReturnToCaller,
     Recovery, RecoverSession, FailOrphan, SettleSession, Plain
<1>5. CASE LogFault(k) \/ CommitFault(k) \/ RollbackFault(k) \/ RecoveryFault(k)
  BY <1>1, <1>5, FireGivesUp DEF LogFault, CommitFault, RollbackFault, RecoveryFault,
     ReturnToCaller, Plain
<1>6. CASE BeginPlanning(k) \/ Complete(k) \/ StartRecovery(k) \/ \E t \in Tool : BeginTool(k, t)
  BY <1>1, <1>6, FireGivesUp DEF BeginPlanning, Complete, StartRecovery, BeginTool, Plain,
     StartExecution
<1>7. CASE \/ \E t \in Tool, s \in Session, key \in Key \cup {NoKey} :
                 ReturnCached(k, t, s, key) \/ ExecuteTool(k, t, s, key)
           \/ \E s \in Session : ApproveAction(k, s)
  BY <1>1, <1>7, FireGivesUp DEF ReturnCached, ExecuteTool, ApproveAction, ApproveExecution, Plain
<1>8. QED
  BY <1>2, <1>3, <1>4, <1>5, <1>6, <1>7 DEF AnyStep, Progress, Step, Caller, Failure

(* How a row comes to be FAILED. *)
LEMMA FailedRowStep ==
    ASSUME TypeOK, LedgerInv, NEW k \in Kernel, AnyStep(k),
           NEW i \in ActionId, Status(i) # "FAILED", Status(i)' = "FAILED"
    PROVE  \/ FailStep(k) \/ RecordOrphan(k) \/ FailOrphan(k)
           \/ \E s \in Session : RejectAction(k, s)
<1>1. CASE LogAction(k) \/ ParkForApproval(k)
  <2>1. Inserts(k)
    BY <1>1 DEF LogAction, ParkForApproval, Inserts
  <2>2. i = nrows + 1
    BY <2>1, InsertedRow DEF Status
  <2>3. QED
    BY <1>1, <2>2 DEF LogAction, ParkForApproval, InsertAction, Status, TypeOK, WalTypeOK
<1>2. CASE CommitStep(k) \/ RecordUndone(k)
  BY <1>2 DEF CommitStep, MarkCommitted, RecordUndone, MarkCompensated, Status, TypeOK, WalTypeOK,
     Row
<1>3. CASE UNCHANGED actions
  BY <1>3 DEF Status
<1>4. QED
  BY <1>1, <1>2, <1>3
  DEF AnyStep, Progress, Log, LogRefused, Step, ToolOk, ToolError, Rollback, ScanCommitted,
      CompensateOk, CompensateError, RecordInDlq, EndRollback, Recovery, RecoverSession,
      SettleSession, Caller, BeginPlanning, Complete, NewKernel, StartRecovery, BeginTool,
      ReturnCached, ExecuteTool, ApproveAction, Failure, LogFault, CommitFault, RollbackFault,
      RecoveryFault, Crash

(* FAILED and COMPENSATED rows are final, and stay in their session. *)
LEMMA FinalRows ==
    ASSUME TypeOK, LedgerInv, NEW k \in Kernel, LabelOK(k), TodoOK(k), OpenOK(k), AnyStep(k),
           NEW i \in ActionId, Status(i) \in {"FAILED", "COMPENSATED"}
    PROVE  Status(i)' = Status(i) /\ actions'[i].session = actions[i].session
<1>1. Status(i)' = Status(i)
  BY ForwardStep, ForwardTable
<1>2. actions'[i].session = actions[i].session
  BY RowsStep DEF AnyStep, RowsKept
<1>3. QED
  BY <1>1, <1>2

LEMMA UndoneShownStep ==
    ASSUME NoFailures, TypeOK, LedgerInv, RecoveryInv, UndoneShown, NEW k \in Kernel, AnyStep(k)
    PROVE  UndoneShown'
<1> SUFFICES ASSUME NEW i \in ActionId, world'[i] = "undone"
             PROVE  Status(i)' = "COMPENSATED" \/ At(i, "undone")'
  BY DEF UndoneShown
<1>1. CASE world[i] # "undone"
  <2>1. PICK c \in call[k].todo : /\ world' = [world EXCEPT ![c] = "undone"]
                                  /\ call' = [call EXCEPT ![k].cur = c]
                                  /\ pc'[k] = "undone"
    BY <1>1, UndoneStep DEF CompensateOk, Goto, TypeOK
  <2>2. c = i
    BY <1>1, <2>1 DEF TypeOK
  <2>3. call'[k].cur = i
    BY <2>1, <2>2 DEF TypeOK, Call
  <2>4. QED
    BY <2>1, <2>3 DEF At
<1>2. CASE Status(i) = "COMPENSATED"
  BY <1>2, FinalRows DEF RecoveryInv
<1>3. ASSUME NEW j \in Kernel, pc[j] = "undone", call[j].cur = i
      PROVE  Status(i)' = "COMPENSATED" \/ At(i, "undone")'
  <2>1. CASE j = k
    <3>1. MarkCompensated(i)
      BY <1>3, <2>1, NextPoint DEF RecordUndone
    <3>2. QED
      BY <3>1 DEF MarkCompensated, Status, TypeOK, WalTypeOK, Row
  <2>2. CASE j # k
    BY <1>3, <2>2, OthersUntouched DEF AnyStep, At
  <2>3. QED
    BY <2>1, <2>2
<1>4. QED
  BY <1>1, <1>2, <1>3 DEF UndoneShown, At

LEMMA PointStays ==
    ASSUME NoFailures, TypeOK, LedgerInv, RecoveryInv, NEW k \in Kernel, AnyStep(k),
           NEW j \in Kernel, PointOK(j), SagaOK(j), GivenUpOK(j)
    PROVE  PointOK(j)'
<1>1. AloneOK(j) /\ LabelOK(j) /\ TodoOK(j)
  BY DEF RecoveryInv
<1>2. CASE j # k
  <2>1. pc'[j] = pc[j] /\ call'[j] = call[j] /\ fsm'[j] = fsm[j]
    BY <1>2, OthersUntouched, OthersFsm DEF AnyStep
  <2>2. ASSUME pc[j] = "dlq"
        PROVE  Status(call[j].cur)' = "FAILED"
    <3>1. call[j].cur \in ActionId /\ Status(call[j].cur) = "FAILED"
      BY <1>1, <2>2, CursorRow DEF PointOK
    <3>2. \A i \in ActionId : Status(i) = "FAILED" => Status(i)' = "FAILED"
      BY FinalRows DEF RecoveryInv
    <3>3. QED
      BY <2>1, <3>1, <3>2 DEF Status
  <2>3. QED
    BY <2>1, <2>2 DEF PointOK, InRollback, Status
<1>3. CASE j = k
  <2>1. ASSUME pc'[k] = "dlq"
        PROVE  actions'[call'[k].cur].status = "FAILED"
    <3>1. RecordOrphan(k)
      BY <2>1, ArrivalStep
    <3>2. UNCHANGED call /\ MarkFailed(call[k].cur) /\ call[k].cur \in ActionId
      BY <1>1, <1>3, <3>1, CursorRow DEF RecordOrphan, MarkCompensationFailed
    <3>3. actions'[call[k].cur].status = "FAILED"
      BY <3>2 DEF MarkFailed, TypeOK, WalTypeOK, Row
    <3>4. QED
      BY <3>2, <3>3
  <2>2. ASSUME fsm'[k].mode = "Compensating"
        PROVE  InRollback(k)' /\ call'[k].ret = "step"
    <3>1. CASE FailStep(k)
      BY <1>1, <1>3, <3>1 DEF FailStep, LabelOK, Goto, InRollback, TypeOK
    <3>2. ASSUME NEW s \in Session, RejectAction(k, s)
          PROVE  FALSE
      BY <2>2, <3>2 DEF RejectAction, Fire, Transition, Accepts, Target, RejectExecution,
         PlainState, TypeOK
    <3>3. CASE fsm'[k] = fsm[k]
      <4>1. InRollback(k) /\ call[k].ret = "step" /\ fsm[k].mode = "Compensating"
        BY <1>3, <2>2, <3>3 DEF PointOK
      <4>2. ~EndRollback(k)
        BY <2>2, <4>1 DEF EndRollback, FinishRollback, ReturnToCaller, Fire, Transition, Accepts,
           Target, Plain, PlainState, TypeOK
      <4>3. ~Caller(k) /\ ~Failure(k)
        BY <4>1, NoFailureStep DEF InRollback, Caller, BeginPlanning, Complete, NewKernel,
           StartRecovery, BeginTool, ReturnCached, ExecuteTool, ApproveAction, RejectAction, Running
      <4>4. \/ ScanCommitted(k) \/ CompensateOk(k) \/ CompensateError(k)
            \/ RecordUndone(k) \/ RecordOrphan(k) \/ RecordInDlq(k)
        BY <4>1, <4>2, <4>3 DEF InRollback, AnyStep, Progress, Log, LogAction, ParkForApproval,
           LogRefused, Step, ToolOk, ToolError, CommitStep, FailStep, Rollback, Recovery,
           RecoverSession, FailOrphan, SettleSession
      <4>5. pc'[k] \in {"compensate", "undone", "orphan", "dlq", "end"}
        BY <4>4 DEF ScanCommitted, CompensateOk, CompensateError, RecordUndone, RecordOrphan,
           RecordInDlq, NextRow, LoopLabel, Goto, TypeOK
      <4>6. call'[k].ret = call[k].ret
        BY <4>4 DEF ScanCommitted, CompensateOk, CompensateError, RecordUndone, RecordOrphan,
           RecordInDlq, NextRow, TypeOK, Call
      <4>7. QED
        BY <4>1, <4>5, <4>6 DEF InRollback
    <3>4. QED
      <4>1. \/ FailStep(k) \/ (\E s \in Session : RejectAction(k, s))
            \/ fsm'[k] = fsm[k]
        BY <2>2, GivingUpStep
      <4>2. QED
        BY <3>1, <3>2, <3>3, <4>1
  <2>3. QED
    BY <1>3, <2>1, <2>2 DEF PointOK, Status
<1>4. QED
  BY <1>2, <1>3

(* The saga of the kernel that moves. *)
LEMMA OwnFailureShown ==
    ASSUME OneSessionPerSaga, NoFailures, TypeOK, LedgerInv, ApprovalInv, RecoveryInv, LiveInv,
           NEW k \in Kernel, AnyStep(k), FailureShown(k)
    PROVE  FailureShown(k)'
<1> SUFFICES ASSUME NEW s \in saga'[k]
             PROVE  GivenUp(k)' <=> \E i \in ActionId : /\ actions'[i].session = s
                                                        /\ Status(i)' = "FAILED"
  BY DEF FailureShown, WithStatus, Rows, Status
<1>1. /\ SagaOK(k) /\ ParkedOK(k) /\ SeqsUnique /\ AloneOK(k) /\ LabelOK(k) /\ TodoOK(k)
      /\ OpenOK(k) /\ GivenUpOK(k)
  BY DEF ApprovalInv, RecoveryInv, LiveInv
<1>2. CASE FailStep(k)
  <2>1. /\ GivenUp(k)' /\ UNCHANGED saga /\ call[k].sess \in saga[k]
    BY <1>1, <1>2, FailedStepGivesUp DEF GivenUp
  <2>2. call[k].sess = s
    BY <1>1, <2>1 DEF SagaOK
  <2>3. /\ call[k].cur \in ActionId /\ actions[call[k].cur].session = s
        /\ MarkFailed(call[k].cur)
    BY <1>2, <2>2, NoFailureStep DEF FailStep, LedgerInv, StepOK
  <2>4. actions'[call[k].cur].status = "FAILED" /\ actions'[call[k].cur].session = s
    BY <2>3 DEF MarkFailed, TypeOK, WalTypeOK, Row
  <2>5. QED
    BY <2>1, <2>3, <2>4 DEF Status
<1>3. ASSUME NEW r \in Session, RejectAction(k, r)
      PROVE  GivenUp(k)' /\ \E i \in ActionId : actions'[i].session = s /\ Status(i)' = "FAILED"
  <2>1. /\ fsm[k].mode = "AwaitingApproval" /\ fsm'[k].mode = "Failed"
        /\ saga[k] = {r} /\ saga'[k] = {r}
        /\ fsm[k].token \in ActionId /\ MarkFailed(fsm[k].token)
    BY <1>1, <1>3, RejectionGivesUp
  <2>2. actions[fsm[k].token].session = s
    BY <1>1, <2>1 DEF ParkedOK
  <2>3. actions'[fsm[k].token].status = "FAILED" /\ actions'[fsm[k].token].session = s
    BY <2>1, <2>2 DEF MarkFailed, TypeOK, WalTypeOK, Row
  <2>4. QED
    BY <2>1, <2>3 DEF GivenUp, Status
<1>4. ASSUME NEW t \in Tool, NEW r \in Session, NEW key \in Key \cup {NoKey},
             ExecuteTool(k, t, r, key)
      PROVE  GivenUp(k)' <=> \E i \in ActionId : actions'[i].session = s /\ Status(i)' = "FAILED"
  <2>1. /\ saga'[k] = saga[k] \cup {r} /\ (saga[k] = {r} \/ Rows(r) = {})
        /\ fsm[k].mode = "ExecutingTool" /\ UNCHANGED <<fsm, actions>>
    BY <1>4 DEF ExecuteTool, MayUse, CanExecuteTool, TypeOK
  <2>2. CASE s \in saga[k]
    BY <2>1, <2>2 DEF FailureShown, GivenUp, WithStatus, Rows, Status
  <2>3. CASE Rows(s) = {}
    BY <2>1, <2>3 DEF GivenUp, Rows
  <2>4. QED
    BY <2>1, <2>2, <2>3
<1>5. CASE /\ saga'[k] = saga[k] /\ ~FailStep(k) /\ ~\E r \in Session : RejectAction(k, r)
           /\ GivenUp(k) => GivenUp(k)'
  <2>1. GivenUp(k)' <=> GivenUp(k)
    BY <1>5, GivingUpStep
  <2>2. GivenUp(k) <=> \E i \in ActionId : actions[i].session = s /\ Status(i) = "FAILED"
    BY <1>5 DEF FailureShown, WithStatus, Rows, Status
  <2>3. ASSUME NEW i \in ActionId, actions[i].session = s, Status(i) = "FAILED"
        PROVE  actions'[i].session = s /\ Status(i)' = "FAILED"
    BY <1>1, <2>3, FinalRows
  <2>4. ASSUME NEW i \in ActionId, Status(i)' = "FAILED", Status(i) # "FAILED"
        PROVE  GivenUp(k)
    <3>1. RecordOrphan(k) \/ FailOrphan(k)
      BY <1>5, <2>4, FailedRowStep
    <3>2. ~Recovering(k)
      BY <1>1, <1>5 DEF AloneOK, GivenUpOK, Idle, PlainState
    <3>3. pc[k] = "orphan"
      BY <1>1, <3>1, <3>2 DEF RecordOrphan, FailOrphan, LabelOK, Recovering, Running
    <3>4. QED
      BY <1>1, <3>2, <3>3 DEF GivenUpOK, InRollback, Recovering, Running
  <2>5. ASSUME NEW i \in ActionId, actions'[i].session = s, Status(i)' = "FAILED"
        PROVE  GivenUp(k)
    <3>1. CASE Status(i) = "FAILED"
      BY <1>1, <2>2, <2>5, <3>1, FinalRows
    <3>2. QED
      BY <2>4, <2>5, <3>1
  <2>6. QED
    BY <2>1, <2>2, <2>3, <2>5
<1>6. QED
  BY <1>2, <1>3, <1>4, <1>5, OwnModes

LEMMA OthersFailureShown ==
    ASSUME DisjointSessions, TypeOK, LedgerInv, ApprovalInv, RecoveryInv, LiveInv,
           NEW k \in Kernel, AnyStep(k), NEW j \in Kernel \ {k}, FailureShown(j)
    PROVE  FailureShown(j)'
<1>1. fsm'[j] = fsm[j] /\ saga'[j] = saga[j]
  BY OthersFsm
<1>2. ASSUME NEW s \in saga[j]
      PROVE  WithStatus(s, "FAILED")' = WithStatus(s, "FAILED")
  <2>1. /\ \A i \in Rows(s) : Status(i) # "NONE" => actions'[i] = actions[i]
        /\ \A i \in ActionId : actions'[i].session = s => actions'[i] = actions[i]
    BY SagaElsewhere, ElsewhereQueries DEF ApprovalInv, RecoveryInv, LiveInv
  <2>2. QED
    BY <2>1 DEF WithStatus, Rows, Status
<1>3. QED
  BY <1>1, <1>2 DEF FailureShown, GivenUp

LEMMA AuditStep ==
    ASSUME DisjointSessions, OneSessionPerSaga, NoFailures, TypeOK, LedgerInv, ApprovalInv,
           RecoveryInv, LiveInv, AuditInv, [Next]_vars
    PROVE  AuditInv'
<1>1. CASE UNCHANGED vars
  BY <1>1 DEF vars, AuditInv, UndoneShown, PointOK, FailureShown, GivenUp, InRollback, At, Status,
     WithStatus, Rows
<1>2. ASSUME NEW k \in Kernel, AnyStep(k)
      PROVE  AuditInv'
  <2>1. ASSUME NEW i \in dlq'
        PROVE  Status(i)' = "FAILED"
    <3>1. CASE i \in dlq
      <4>1. i \in ActionId /\ Status(i) = "FAILED"
        BY <3>1 DEF AuditInv, TypeOK, WalTypeOK
      <4>2. QED
        BY <1>2, <4>1, FinalRows DEF RecoveryInv
    <3>2. CASE i \notin dlq
      <4>1. RecordInDlq(k)
        BY <1>2, <2>1, <3>2, DlqStep
      <4>2. pc[k] = "dlq" /\ i = call[k].cur /\ UNCHANGED actions
        BY <2>1, <3>2, <4>1 DEF RecordInDlq, RecordDlq
      <4>3. QED
        BY <4>2 DEF AuditInv, PointOK, Status
    <3>3. QED
      BY <3>1, <3>2
  <2>2. UndoneShown'
    BY <1>2, UndoneShownStep DEF AuditInv
  <2>3. \A j \in Kernel : PointOK(j)'
    BY <1>2, PointStays DEF AuditInv, ApprovalInv, LiveInv
  <2>4. \A j \in Kernel : FailureShown(j)'
    BY <1>2, OwnFailureShown, OthersFailureShown DEF AuditInv
  <2>5. QED
    BY <2>1, <2>2, <2>3, <2>4 DEF AuditInv
<1>3. QED
  BY <1>1, <1>2 DEF Next, AnyStep

LEMMA AuditInvariant ==
    ASSUME DisjointSessions, ExclusiveRecovery, OneSessionPerSaga, NoFailures
    PROVE  Spec => []AuditInv
<1>1. Init => AuditInv
  BY DEF Init, WalInit, AuditInv, UndoneShown, PointOK, FailureShown, Idle, PlainState
<1>2. TypeOK /\ LedgerInv /\ ApprovalInv /\ RecoveryInv /\ LiveInv /\ AuditInv /\ [Next]_vars
      => AuditInv'
  BY AuditStep
<1>3. QED
  BY <1>1, <1>2, TypeCorrect, LedgerInvariant, ApprovalInvariant, RecoveryInvariant,
     LiveInvariant, PTL DEF Spec

(* When a kernel is at rest, what was undone of its saga says so.          *)
LEMMA UndoneAtRest ==
    ASSUME DisjointSessions, TypeOK, LedgerInv, ApprovalInv, RecoveryInv, LiveInv, UndoneShown,
           NEW k \in Kernel, NEW s \in saga[k], pc[k] = "idle",
           NEW i \in Rows(s), world[i] = "undone"
    PROVE  Status(i) = "COMPENSATED"
<1>1. ASSUME NEW r \in Kernel, pc[r] = "undone", call[r].cur = i
      PROVE  FALSE
  <2>1. r # k /\ call[r].sess = s
    BY <1>1, CursorRow DEF RecoveryInv, Rows
  <2>2. ~Recovering(r)
    BY DEF RecoveryInv, AloneOK, LiveInv, GivenUpOK, Idle, PlainState
  <2>3. s \in SessionsOf[r] /\ s \in SessionsOf[k]
    BY <1>1, <2>1, <2>2 DEF RecoveryInv, LabelOK, InRollback, Recovering, Running,
       ApprovalInv, SagaOK
  <2>4. QED
    BY <2>1, <2>3 DEF DisjointSessions
<1>2. QED
  BY <1>1 DEF UndoneShown, At, Rows

(* The exported spans tell a saga at rest as it was, unless a process      *)
(* crashes or a statement fails: an error span exactly when it Failed, one *)
(* for every dead letter, and the rollback mark as soon as one effect was  *)
(* undone.  The exporter reads rows only (src/audit.rs): that they show    *)
(* what the kernel did is AuditInv.                                        *)
THEOREM AuditShows ==
    ASSUME DisjointSessions, ExclusiveRecovery, OneSessionPerSaga, NoFailures
    PROVE  Spec => []AuditAgrees
<1>1. TypeOK /\ LedgerInv /\ ApprovalInv /\ RecoveryInv /\ LiveInv /\ OutcomeInv /\ AuditInv
      => AuditAgrees
  <2> SUFFICES ASSUME TypeOK, LedgerInv, ApprovalInv, RecoveryInv, LiveInv, OutcomeInv, AuditInv,
                      NEW k \in Kernel, NEW s \in saga[k], pc[k] = "idle"
               PROVE  /\ fsm[k].mode = "Failed" <=> \E i \in Rows(s) : SpanCode(i) = 2
                      /\ \A i \in Rows(s) \cap dlq : SpanCode(i) = 2
                      /\ \A i, j \in Rows(s) : world[j] = "undone" => RollbackTriggered(i)
    BY DEF AuditAgrees, Running
  <2>1. \A i \in ActionId : SpanCode(i) = 2 <=> Status(i) = "FAILED"
    BY DEF SpanCode
  <2>2. GivenUp(k) <=> fsm[k].mode = "Failed"
    BY DEF GivenUp, AuditInv, PointOK, InRollback
  <2>3. fsm[k].mode = "Failed" <=> \E i \in Rows(s) : SpanCode(i) = 2
    BY <2>1, <2>2 DEF AuditInv, FailureShown, WithStatus, Rows, Status
  <2>4. \A i \in Rows(s) \cap dlq : SpanCode(i) = 2
    BY <2>1 DEF AuditInv, Rows
  <2>5. ASSUME NEW i \in Rows(s), NEW j \in Rows(s), world[j] = "undone"
        PROVE  RollbackTriggered(i)
    <3>1. Status(j) = "COMPENSATED"
      BY <2>5, UndoneAtRest DEF AuditInv
    <3>2. Status(i) # "PENDING" /\ actions[i].session = s
      BY <2>5 DEF OutcomeInv, OneOpenRow, InStep, Rows
    <3>3. QED
      BY <2>5, <3>1, <3>2 DEF RollbackTriggered, WithStatus, Status
  <2>6. QED
    BY <2>3, <2>4, <2>5
<1>2. QED
  BY <1>1, TypeCorrect, LedgerInvariant, ApprovalInvariant, RecoveryInvariant, LiveInvariant,
     OutcomeInvariant, AuditInvariant, PTL

-----------------------------------------------------------------------------
(* Rows are only added. *)
LEMMA RowCountStep ==
    ASSUME TypeOK, NEW k \in Kernel, AnyStep(k)
    PROVE  /\ nrows \in Nat /\ nrows' \in Nat /\ nrows <= nrows'
           /\ Inserts(k) => nrows' = nrows + 1
<1>1. CASE LogAction(k) \/ ParkForApproval(k)
  BY <1>1 DEF LogAction, ParkForApproval, InsertAction, TypeOK, WalTypeOK
<1>2. CASE UNCHANGED nrows
  BY <1>2 DEF Inserts, InsertAction, TypeOK, WalTypeOK
<1>3. QED
  BY <1>1, <1>2
  DEF AnyStep, Progress, Log, LogRefused, Step, ToolOk, ToolError, CommitStep, FailStep, Rollback,
      ScanCommitted, CompensateOk, CompensateError, RecordUndone, RecordOrphan, RecordInDlq,
      EndRollback, Recovery, RecoverSession, FailOrphan, SettleSession, Caller, BeginPlanning,
      Complete, NewKernel, StartRecovery, BeginTool, ReturnCached, ExecuteTool, ApproveAction,
      RejectAction, Failure, LogFault, CommitFault, RollbackFault, RecoveryFault, Crash

(* The number a call reads is no higher than the number of rows. *)
LEMMA SeqRead ==
    ASSUME TypeOK, LedgerInv, VacantOK, SeqsReached, NEW s \in Session, NEW n \in Nat,
           IsNextSeq(s, n)
    PROVE  n <= nrows
<1>1. CASE n = 0
  BY <1>1 DEF TypeOK, WalTypeOK
<1>2. ASSUME NEW i \in Rows(s), actions[i].seq + 1 = n
      PROVE  n <= nrows
  <2>1. i \in ActionId /\ Status(i) # "NONE"
    BY WalAssumption DEF VacantOK, Rows
  <2>2. i <= nrows
    BY <2>1 DEF LedgerInv, RowOK, ActionId, TypeOK, WalTypeOK
  <2>3. actions[i].seq \in Nat /\ actions[i].seq < i
    BY <2>1 DEF SeqsReached, TypeOK, WalTypeOK, Row
  <2>4. QED
    BY <1>2, <2>1, <2>2, <2>3 DEF ActionId, TypeOK, WalTypeOK
<1>3. QED
  BY <1>1, <1>2 DEF IsNextSeq

LEMMA SeqsReachedStep ==
    ASSUME TypeOK, LedgerInv, VacantOK, SeqsReached, NEW k \in Kernel, AnyStep(k)
    PROVE  SeqsReached'
<1>1. ASSUME NEW i \in ActionId
      PROVE  actions'[i].seq < i
  <2>1. CASE Inserts(k) /\ i = nrows + 1
    <3>1. actions'[i].seq = call[k].seq /\ call[k].seq <= nrows
      BY <2>1, InsertedRow DEF Inserts, SeqsReached
    <3>2. call[k].seq \in Nat /\ nrows \in Nat
      BY DEF TypeOK, WalTypeOK, Call
    <3>3. QED
      BY <2>1, <3>1, <3>2
  <2>2. CASE actions'[i].seq = actions[i].seq
    BY <2>2 DEF SeqsReached
  <2>3. QED
    BY <2>1, <2>2, ColumnsStep, InsertedRow DEF KeepsColumns
<1>2. ASSUME NEW j \in Kernel, pc'[j] = "log"
      PROVE  call'[j].seq <= nrows'
  <2>1. CASE j # k
    <3>1. pc[j] = "log" /\ call'[j] = call[j] /\ call[j].seq \in Nat
      BY <1>2, <2>1, OthersUntouched DEF AnyStep, TypeOK, Call
    <3>2. QED
      BY <3>1, RowCountStep DEF SeqsReached
  <2>2. CASE j = k
    <3>1. PICK t \in Tool, s \in Session, key \in Key \cup {NoKey} : ExecuteTool(k, t, s, key)
      BY <1>2, <2>2, PointStep
      DEF LogAction, ToolOk, ToolError, ApproveAction, Goto, TypeOK
    <3>2. PICK n \in 0 .. MaxActions : /\ IsNextSeq(s, n)
                                       /\ call' = [call EXCEPT ![k] = NewCall("step", s, n, key, 0)]
      BY <3>1 DEF ExecuteTool
    <3>3. call'[k].seq = n
      BY <3>2 DEF NewCall, TypeOK
    <3>4. n \in Nat /\ n <= nrows
      BY <3>2, SeqRead, WalAssumption
    <3>5. QED
      BY <2>2, <3>3, <3>4, RowCountStep
  <2>3. QED
    BY <2>1, <2>2
<1>3. QED
  BY <1>1, <1>2 DEF SeqsReached

(* The row a step is at is the last of its session. *)
LEMMA OwnLastRow ==
    ASSUME OneSessionPerSaga, TypeOK, ApprovalInv, NEW k \in Kernel, AnyStep(k),
           InStep(k) => IsLastRow(call[k].cur, call[k].sess), InStep(k)'
    PROVE  IsLastRow(call[k].cur, call[k].sess)'
<1>1. SagaOK(k) /\ ParkedOK(k) /\ SeqsUnique
  BY DEF ApprovalInv
<1>2. CASE LogAction(k)
  <2>1. Inserts(k) /\ call'[k].cur = nrows + 1 /\ call'[k].sess = call[k].sess
    BY <1>2 DEF LogAction, Inserts, TypeOK, Call
  <2>2. \A i \in Rows(call[k].sess) : actions[i].seq < call[k].seq
    BY <1>1, <1>2 DEF SagaOK, LogAction
  <2>3. ASSUME NEW i \in ActionId, actions'[i].session = call[k].sess
        PROVE  actions'[i].seq <= actions'[nrows + 1].seq
    <3>1. call[k].seq \in Nat /\ actions[i].seq \in Nat
      BY DEF TypeOK, WalTypeOK, Call, Row
    <3>2. CASE i = nrows + 1
      BY <2>1, <3>1, <3>2, InsertedRow
    <3>3. CASE i # nrows + 1
      BY <2>1, <2>2, <2>3, <3>1, <3>3, InsertedRow DEF Rows
    <3>4. QED
      BY <3>2, <3>3
  <2>4. QED
    BY <2>1, <2>3 DEF IsLastRow, Rows
<1>3. CASE ToolOk(k) \/ ToolError(k)
  BY <1>3 DEF ToolOk, ToolError, InStep, IsLastRow, Rows
<1>4. ASSUME NEW s \in Session, ApproveAction(k, s)
      PROVE  IsLastRow(call[k].cur, call[k].sess)'
  <2>1. /\ saga[k] = {s} /\ call'[k].sess = s /\ call'[k].cur = fsm[k].token /\ UNCHANGED actions
    BY <1>1, <1>4, ApprovedRow
  <2>2. fsm[k].mode = "AwaitingApproval"
    BY <1>4 DEF ApproveAction
  <2>3. actions[fsm[k].token].session = s /\ IsLastRow(fsm[k].token, s)
    BY <1>1, <2>1, <2>2 DEF ParkedOK, IsLastRow
  <2>4. QED
    BY <2>1, <2>3 DEF IsLastRow, Rows
<1>5. CASE \E t \in Tool, s \in Session, key \in Key \cup {NoKey} : ExecuteTool(k, t, s, key)
  BY <1>5 DEF ExecuteTool, Goto, InStep, TypeOK
<1>6. QED
  BY <1>2, <1>3, <1>4, <1>5, PointStep DEF InStep

(* Others do not touch the rows of a saga. *)
LEMMA OthersReplay ==
    ASSUME DisjointSessions, TypeOK, LedgerInv, ApprovalInv, RecoveryInv, LiveInv, VacantOK,
           NEW k \in Kernel, AnyStep(k), NEW j \in Kernel \ {k}, BrokenOK(j),
           InStep(j) => IsLastRow(call[j].cur, call[j].sess)
    PROVE  BrokenOK(j)' /\ (InStep(j) => IsLastRow(call[j].cur, call[j].sess))'
<1>1. /\ fsm'[j] = fsm[j] /\ saga'[j] = saga[j] /\ pc'[j] = pc[j] /\ call'[j] = call[j]
  BY OthersFsm, OthersUntouched DEF AnyStep
<1>2. ASSUME NEW s \in saga[j]
      PROVE  Rows(s)' = Rows(s) /\ \A i \in Rows(s) : actions'[i] = actions[i]
  <2>1. /\ \A i \in Rows(s) : Status(i) # "NONE" => actions'[i] = actions[i]
        /\ \A i \in ActionId : actions'[i].session = s => actions'[i] = actions[i]
    BY SagaElsewhere, ElsewhereQueries DEF ApprovalInv, RecoveryInv, LiveInv
  <2>2. s \in Session
    BY DEF TypeOK
  <2>3. \A i \in Rows(s) : Status(i) # "NONE"
    BY <2>2, WalAssumption DEF VacantOK, Rows
  <2>4. QED
    BY <2>1, <2>3 DEF Rows
<1>3. BrokenOK(j)'
  BY <1>1, <1>2 DEF BrokenOK, GivenUp, Broken, Status, IsLastRow, Rows
<1>4. ASSUME InStep(j)
      PROVE  IsLastRow(call[j].cur, call[j].sess)'
  <2>1. call[j].sess \in saga[j] /\ call[j].cur \in Rows(call[j].sess)
    BY <1>4 DEF InStep, ApprovalInv, SagaOK, LedgerInv, StepOK, Rows
  <2>2. QED
    BY <1>1, <1>2, <1>4, <2>1 DEF IsLastRow
<1>5. QED
  BY <1>1, <1>3, <1>4 DEF InStep

(* A row that is marked FAILED keeps its session, its number and its       *)
(* output column.                                                          *)
LEMMA FailedRow ==
    ASSUME TypeOK, NEW i \in ActionId, MarkFailed(i)
    PROVE  /\ Status(i)' = "FAILED"
           /\ \A j \in ActionId : /\ j # i => actions'[j] = actions[j]
                                  /\ actions'[j].session = actions[j].session
                                  /\ actions'[j].seq = actions[j].seq
                                  /\ actions'[j].out = actions[j].out
BY DEF MarkFailed, Status, TypeOK, WalTypeOK, Row

(* A row becomes broken, and its saga has had no broken row before.        *)
LEMMA RowBreaks ==
    ASSUME TypeOK, NEW s \in Session, NEW i \in Rows(s), MarkFailed(i), ~actions[i].out,
           IsLastRow(i, s), \A j \in Rows(s) : ~Broken(j)
    PROVE  /\ \E j \in Rows(s)' : Broken(j)'
           /\ \A j \in Rows(s)' : Broken(j)' => IsLastRow(j, s)'
<1>1. i \in ActionId
  BY DEF Rows
<1>2. Rows(s)' = Rows(s)
  BY <1>1, FailedRow DEF Rows
<1>3. Broken(i)' /\ \A j \in Rows(s) \ {i} : ~Broken(j)'
  BY <1>1, FailedRow DEF Broken, Status, Rows
<1>4. IsLastRow(i, s)'
  BY <1>1, <1>2, FailedRow DEF IsLastRow, Rows
<1>5. QED
  BY <1>2, <1>3, <1>4

(* A broken row stays so, and no other step breaks one of a saga.          *)
LEMMA BrokenRows ==
    ASSUME NoFailures, TypeOK, LedgerInv, ApprovalInv, RecoveryInv, LiveInv,
           NEW k \in Kernel, AnyStep(k), BrokenOK(k), NEW s \in saga[k],
           ~FailStep(k), ~\E r \in Session : RejectAction(k, r), NEW i \in ActionId
    PROVE  i \in Rows(s)' /\ Broken(i)' <=> i \in Rows(s) /\ Broken(i)
<1>1. /\ SagaOK(k) /\ AloneOK(k) /\ LabelOK(k) /\ TodoOK(k) /\ OpenOK(k) /\ GivenUpOK(k)
      /\ LoopOK(k)
  BY DEF ApprovalInv, RecoveryInv, LiveInv, LedgerInv
<1>2. ASSUME i \in Rows(s), Broken(i)
      PROVE  i \in Rows(s)' /\ Broken(i)'
  <2>1. Status(i)' = "FAILED" /\ actions'[i].session = s
    BY <1>1, <1>2, FinalRows DEF Broken, Rows
  <2>2. GivenUp(k)
    BY <1>2 DEF BrokenOK
  <2>3. pc[k] # "commit"
    BY <1>1, <2>2 DEF SagaOK, GivenUp
  <2>4. ~actions'[i].out
    BY <1>2, <2>3, RowsStep DEF AnyStep, RowsKept, Broken
  <2>5. QED
    BY <2>1, <2>4 DEF Rows, Broken
<1>3. ASSUME i \in Rows(s)', Broken(i)'
      PROVE  i \in Rows(s) /\ Broken(i)
  <2>1. ~actions[i].out
    BY <1>3, RowsStep DEF AnyStep, RowsKept, Broken
  <2>2. CASE Status(i) = "FAILED"
    <3>1. actions'[i].session = actions[i].session
      BY <1>1, <2>2, FinalRows
    <3>2. QED
      BY <1>3, <2>1, <2>2, <3>1 DEF Rows, Broken
  <2>3. CASE Status(i) # "FAILED"
    <3>1. RecordOrphan(k) \/ FailOrphan(k)
      BY <1>3, <2>3, FailedRowStep DEF Broken
    <3>2. ~Recovering(k)
      BY <1>1 DEF AloneOK, GivenUpOK, Idle, PlainState
    <3>3. RecordOrphan(k)
      BY <1>1, <3>1, <3>2 DEF FailOrphan, LabelOK, Recovering, Running
    <3>4. /\ call[k].cur \in ActionId /\ call[k].cur \in call[k].todo
          /\ MarkFailed(call[k].cur)
      BY <1>1, <3>3, CursorRow DEF RecordOrphan, MarkCompensationFailed
    <3>5. actions[call[k].cur].out
      BY <1>1, <3>3, <3>4 DEF LoopOK, RecordOrphan
    <3>6. i # call[k].cur
      BY <2>1, <3>5
    <3>7. QED
      BY <1>3, <2>3, <3>4, <3>6, FailedRow DEF Broken, Status
  <2>4. QED
    BY <2>2, <2>3
<1>4. QED
  BY <1>2, <1>3

LEMMA OwnBroken ==
    ASSUME OneSessionPerSaga, NoFailures, TypeOK, LedgerInv, ApprovalInv, RecoveryInv, LiveInv,
           NEW k \in Kernel, AnyStep(k), BrokenOK(k),
           InStep(k) => IsLastRow(call[k].cur, call[k].sess)
    PROVE  BrokenOK(k)'
<1> SUFFICES ASSUME NEW s \in saga'[k]
             PROVE  /\ GivenUp(k)' <=> \E i \in Rows(s)' : Broken(i)'
                    /\ \A i \in Rows(s)' : Broken(i)' => IsLastRow(i, s)'
  BY DEF BrokenOK
<1>1. SagaOK(k) /\ ParkedOK(k) /\ SeqsUnique
  BY DEF ApprovalInv
<1>2. CASE FailStep(k)
  <2>1. /\ GivenUp(k)' /\ UNCHANGED saga /\ call[k].sess \in saga[k]
    BY <1>1, <1>2, FailedStepGivesUp DEF GivenUp
  <2>2. call[k].sess = s /\ s \in Session
    BY <1>1, <2>1 DEF SagaOK, TypeOK
  <2>3. /\ call[k].cur \in Rows(s) /\ ~actions[call[k].cur].out /\ MarkFailed(call[k].cur)
    BY <1>2, <2>2, NoFailureStep DEF FailStep, LedgerInv, StepOK, Rows
  <2>4. ~GivenUp(k) /\ InStep(k)
    BY <1>1, <1>2 DEF FailStep, SagaOK, GivenUp, InStep
  <2>5. QED
    BY <2>1, <2>2, <2>3, <2>4, RowBreaks DEF BrokenOK
<1>3. ASSUME NEW r \in Session, RejectAction(k, r)
      PROVE  /\ GivenUp(k)' <=> \E i \in Rows(s)' : Broken(i)'
             /\ \A i \in Rows(s)' : Broken(i)' => IsLastRow(i, s)'
  <2>1. /\ fsm[k].mode = "AwaitingApproval" /\ fsm'[k].mode = "Failed"
        /\ saga[k] = {r} /\ saga'[k] = {r}
        /\ fsm[k].token \in ActionId /\ MarkFailed(fsm[k].token)
    BY <1>1, <1>3, RejectionGivesUp
  <2>2. /\ fsm[k].token \in Rows(s) /\ Status(fsm[k].token) = "PENDING_APPROVAL"
        /\ IsLastRow(fsm[k].token, s)
    BY <1>1, <2>1 DEF ParkedOK, IsLastRow, Rows
  <2>3. ~actions[fsm[k].token].out
    BY <2>1, <2>2 DEF LedgerInv, RowOK
  <2>4. s \in saga[k] /\ s \in Session /\ ~GivenUp(k) /\ GivenUp(k)'
    BY <2>1 DEF GivenUp
  <2>5. QED
    BY <2>1, <2>2, <2>3, <2>4, RowBreaks DEF BrokenOK
<1>4. ASSUME NEW t \in Tool, NEW r \in Session, NEW key \in Key \cup {NoKey},
             ExecuteTool(k, t, r, key)
      PROVE  /\ GivenUp(k)' <=> \E i \in Rows(s)' : Broken(i)'
             /\ \A i \in Rows(s)' : Broken(i)' => IsLastRow(i, s)'
  <2>1. /\ saga'[k] = saga[k] \cup {r} /\ (saga[k] = {r} \/ Rows(r) = {})
        /\ fsm[k].mode = "ExecutingTool" /\ UNCHANGED <<fsm, actions>>
    BY <1>4 DEF ExecuteTool, MayUse, CanExecuteTool, TypeOK
  <2>2. CASE s \in saga[k]
    BY <2>1, <2>2 DEF BrokenOK, GivenUp, Broken, Status, IsLastRow, Rows
  <2>3. CASE Rows(s) = {}
    BY <2>1, <2>3 DEF GivenUp, Rows
  <2>4. QED
    BY <2>1, <2>2, <2>3
<1>5. CASE /\ saga'[k] = saga[k] /\ ~FailStep(k) /\ ~\E r \in Session : RejectAction(k, r)
           /\ GivenUp(k) => GivenUp(k)'
  <2>1. GivenUp(k)' <=> GivenUp(k)
    BY <1>5, GivingUpStep
  <2>2. \A i \in ActionId : i \in Rows(s)' /\ Broken(i)' <=> i \in Rows(s) /\ Broken(i)
    BY <1>5, BrokenRows
  <2>3. GivenUp(k)' <=> \E i \in Rows(s)' : Broken(i)'
    BY <1>5, <2>1, <2>2 DEF BrokenOK, Rows
  <2>4. ASSUME NEW i \in Rows(s)', Broken(i)'
        PROVE  IsLastRow(i, s)'
    <3>1. i \in ActionId /\ i \in Rows(s) /\ Broken(i)
      BY <2>2, <2>4 DEF Rows
    <3>2. GivenUp(k) /\ IsLastRow(i, s)
      BY <1>5, <3>1 DEF BrokenOK
    <3>3. ~Inserts(k)
      BY <1>1, <3>2 DEF GivenUp, SagaOK, Inserts
    <3>4. KeepsColumns
      BY <3>3, ColumnsStep
    <3>5. QED
      BY <3>1, <3>2, <3>4 DEF KeepsColumns, IsLastRow, Rows
  <2>5. QED
    BY <2>3, <2>4
<1>6. QED
  BY <1>2, <1>3, <1>4, <1>5, OwnModes

LEMMA ReplayInvariant ==
    ASSUME DisjointSessions, ExclusiveRecovery, OneSessionPerSaga, NoFailures
    PROVE  Spec => []ReplayInv
<1>1. Init => ReplayInv
  BY DEF Init, WalInit, NoRow, ReplayInv, SeqsReached, BrokenOK, InStep, ActionId
<1>2. TypeOK /\ LedgerInv /\ ApprovalInv /\ RecoveryInv /\ LiveInv /\ OutcomeInv /\ ReplayInv
      /\ [Next]_vars => ReplayInv'
  <2> SUFFICES ASSUME TypeOK, LedgerInv, ApprovalInv, RecoveryInv, LiveInv, OutcomeInv, ReplayInv,
                      [Next]_vars
               PROVE  ReplayInv'
    OBVIOUS
  <2>1. CASE UNCHANGED vars
    BY <2>1 DEF vars, ReplayInv, SeqsReached, BrokenOK, GivenUp, Broken, Status, InStep, IsLastRow,
       Rows
  <2>2. ASSUME NEW k \in Kernel, AnyStep(k)
        PROVE  ReplayInv'
    <3>1. SeqsReached'
      BY <2>2, SeqsReachedStep DEF ReplayInv, OutcomeInv
    <3>2. BrokenOK(k)' /\ (InStep(k) => IsLastRow(call[k].cur, call[k].sess))'
      BY <2>2, OwnBroken, OwnLastRow DEF ReplayInv
    <3>3. \A j \in Kernel \ {k} :
             BrokenOK(j)' /\ (InStep(j) => IsLastRow(call[j].cur, call[j].sess))'
      BY <2>2, OthersReplay DEF ReplayInv, OutcomeInv
    <3>4. QED
      BY <3>1, <3>2, <3>3 DEF ReplayInv
  <2>3. QED
    BY <2>1, <2>2 DEF Next, AnyStep
<1>3. QED
  BY <1>1, <1>2, TypeCorrect, LedgerInvariant, ApprovalInvariant, RecoveryInvariant,
     LiveInvariant, OutcomeInvariant, PTL DEF Spec

-----------------------------------------------------------------------------
(* The replay itself: the states it goes through, one per sequence number. *)
ReplayState == [ok: BOOLEAN, fsm: AgentState]

Beginning == [ok |-> TRUE, fsm |-> Transition(Idle, Plain("StartPlanning"))]

ReplayNumber(path, s, n) ==
    IF \E i \in Rows(s) : actions[i].seq = n - 1
    THEN ReplayRow(path, CHOOSE i \in Rows(s) : actions[i].seq = n - 1)
    ELSE path

(* path is the replay of s, row by row.                                    *)
ReplayPath(path, s) ==
    /\ path \in [0 .. MaxActions -> ReplayState]
    /\ path[0] = Beginning
    /\ \A n \in 1 .. MaxActions : path[n] = ReplayNumber(path[n - 1], s, n)

LEMMA ReplayRowType ==
    ASSUME TypeOK, NEW path \in ReplayState, NEW i \in ActionId
    PROVE  ReplayRow(path, i) \in ReplayState
<1> DEFINE begun == Transition(path.fsm, StartExecution(actions[i].tool))
<1>1. path.fsm \in AgentState /\ actions[i].tool \in Tool \cup {NoTool}
  BY DEF ReplayState, TypeOK, WalTypeOK, Row
<1>2. begun \in AgentState
  BY <1>1, TransitionType DEF StartExecution
<1>3. Ending(i).tool = NoTool /\ Ending(i).token = 0
  BY DEF Ending, Plain
<1>4. Transition(begun, Ending(i)) \in AgentState
  BY <1>2, <1>3, TransitionType
<1>5. QED
  BY <1>4 DEF ReplayRow, ReplayState

LEMMA BeginningFacts ==
    /\ Beginning \in ReplayState /\ Beginning.ok /\ Beginning.fsm.mode = "Planning"
BY DEF Beginning, ReplayState, AgentState, Transition, Accepts, Target, Idle, Plain, PlainState, Mode

LEMMA ReplayPathExists ==
    ASSUME TypeOK, NEW s
    PROVE  \E path : ReplayPath(path, s) /\ ReplayRows(s) = path[MaxActions]
<1> DEFINE N == MaxActions
           D == ReplayState
           b == Beginning
           F == [x \in D \X (1 .. N) |-> ReplayNumber(x[1], s, x[2])]
           G(g) == [n \in 0 .. N |-> IF n = 0 THEN b ELSE ReplayNumber(g[n - 1], s, n)]
           path == CHOOSE g : g = G(g)
<1>1. N \in Nat /\ b \in D
  BY BeginningFacts, WalAssumption
<1>2. ASSUME NEW p \in D, NEW n \in 1 .. N
      PROVE  ReplayNumber(p, s, n) \in D
  <2>1. CASE \E i \in Rows(s) : actions[i].seq = n - 1
    <3>1. (CHOOSE i \in Rows(s) : actions[i].seq = n - 1) \in ActionId
      BY <2>1 DEF Rows
    <3>2. QED
      BY <2>1, <3>1, ReplayRowType DEF ReplayNumber
  <2>2. CASE ~\E i \in Rows(s) : actions[i].seq = n - 1
    BY <2>2 DEF ReplayNumber
  <2>3. QED
    BY <2>1, <2>2
<1>3. F \in [D \X (1 .. N) -> D]
  BY <1>2
<1>4. \A p \in D, n \in 1 .. N : F[<<p, n>>] = ReplayNumber(p, s, n)
  OBVIOUS
<1>5. ReplayRows(s) = path[N]
  BY DEF ReplayRows, ReplayNumber, Beginning
<1>6. \E g : g = G(g)
  <2> HIDE DEF F, N, D, b, path
  <2>1. PICK f : Recursion(f, N, D, b, F)
    BY <1>1, <1>3, RecursionExists
  <2>2. \A n \in 1 .. N : f[n - 1] \in D
    BY <1>1, <2>1 DEF Recursion
  <2>3. \A n \in 1 .. N : f[n] = ReplayNumber(f[n - 1], s, n)
    BY <1>4, <2>1, <2>2 DEF Recursion
  <2>4. f = [n \in 0 .. N |-> f[n]] /\ f[0] = b
    BY <2>1 DEF Recursion
  <2>5. ASSUME NEW n \in 0 .. N
        PROVE  f[n] = IF n = 0 THEN b ELSE ReplayNumber(f[n - 1], s, n)
    <3>1. n # 0 => n \in 1 .. N
      BY <1>1
    <3>2. QED
      BY <2>3, <2>4, <3>1
  <2>6. G(f) = [n \in 0 .. N |-> f[n]]
    BY <2>5
  <2>7. f = G(f)
    BY <2>4, <2>6
  <2>8. QED
    BY <2>7
<1>7. path = G(path)
  BY <1>6
<1> HIDE DEF F, D, b, path
<1>8. path[0] = b /\ \A n \in 1 .. N : path[n] = ReplayNumber(path[n - 1], s, n)
  BY <1>1, <1>7
<1> DEFINE T == {n \in 0 .. N : path[n] \notin D}
<1>9. T = {}
  <2> SUFFICES ASSUME T # {} PROVE FALSE
    OBVIOUS
  <2>1. T \in SUBSET Nat
    OBVIOUS
  <2>2. PICK n \in T : \A m \in T : n <= m
    <3> HIDE DEF T
    <3>1. QED
      BY <2>1, LeastNumber
  <2>3. n \in 1 .. N /\ path[n - 1] \in D
    BY <1>1, <1>8, <2>2
  <2>4. QED
    BY <1>2, <1>8, <2>2, <2>3
<1>10. path \in [0 .. N -> D]
  BY <1>7, <1>9
<1>11. QED
  BY <1>5, <1>8, <1>10 DEF ReplayPath, N, D, b

(* What a replay that has gone through the rows R says of them.            *)
Tells(state, R) ==
    /\ state.ok <=> \A i \in R : Status(i) \notin {"PENDING", "PENDING_APPROVAL"}
    /\ state.ok =>
          /\ state.fsm.mode \in {"Planning", "Verifying", "Compensating"}
          /\ state.fsm.mode = "Compensating" <=> \E i \in R : Broken(i)

Below(s, n) == {i \in Rows(s) : actions[i].seq < n}

(* One more row, after rows none of which is broken. *)
LEMMA ReplayRowTells ==
    ASSUME TypeOK, NEW s, NEW R \in SUBSET Rows(s), NEW i \in Rows(s), NEW state \in ReplayState,
           Tells(state, R), \A j \in R : ~Broken(j)
    PROVE  Tells(ReplayRow(state, i), R \cup {i})
<1> DEFINE start == StartExecution(actions[i].tool)
           begun == Transition(state.fsm, start)
           open == Status(i) \in {"PENDING", "PENDING_APPROVAL"}
<1>1. i \in OpenRows(actions[i].session) <=> open
  BY DEF OpenRows, WithStatus, Rows, Status
<1>2. CASE ~state.ok \/ open
  <2>1. ReplayRow(state, i) = [state EXCEPT !.ok = FALSE]
    BY <1>1, <1>2 DEF ReplayRow
  <2>2. ReplayRow(state, i).ok = FALSE
    BY <2>1 DEF ReplayState
  <2>3. QED
    BY <1>2, <2>2 DEF Tells
<1>3. CASE state.ok /\ ~open
  <2>1. state.fsm.mode \in {"Planning", "Verifying"}
    BY <1>3 DEF Tells
  <2>2. Accepts(state.fsm, start) /\ begun.mode = "ExecutingTool"
    BY <2>1 DEF Accepts, Transition, Target, StartExecution, Executing
  <2>3. ReplayRow(state, i) = [ok |-> TRUE, fsm |-> Transition(begun, Ending(i))]
    BY <1>1, <1>3, <2>2 DEF ReplayRow
  <2>4. Transition(begun, Ending(i)).mode = IF Broken(i) THEN "Compensating" ELSE "Verifying"
    BY <2>2 DEF Ending, Broken, Transition, Accepts, Target, Plain, PlainState
  <2>5. \A j \in R : Status(j) \notin {"PENDING", "PENDING_APPROVAL"}
    BY <1>3 DEF Tells
  <2>6. QED
    BY <1>3, <2>3, <2>4, <2>5 DEF Tells
<1>4. QED
  BY <1>2, <1>3

(* One more number. *)
LEMMA ReplayNumberTells ==
    ASSUME TypeOK, SeqsUnique, NEW s \in Session, \A i \in Rows(s) : Broken(i) => IsLastRow(i, s),
           NEW n \in Nat \ {0}, NEW state \in ReplayState, Tells(state, Below(s, n - 1))
    PROVE  Tells(ReplayNumber(state, s, n), Below(s, n))
<1>1. \A i \in Rows(s) : i \in ActionId /\ actions[i].seq \in Nat /\ actions[i].session = s
  BY DEF Rows, TypeOK, WalTypeOK, Row
<1>2. CASE \E i \in Rows(s) : actions[i].seq = n - 1
  <2> DEFINE i == CHOOSE i \in Rows(s) : actions[i].seq = n - 1
  <2>1. i \in Rows(s) /\ actions[i].seq = n - 1
    BY <1>2
  <2>2. ReplayNumber(state, s, n) = ReplayRow(state, i)
    BY <1>2 DEF ReplayNumber
  <2> HIDE DEF i
  <2>3. \A j \in Rows(s) : actions[j].seq = n - 1 => j = i
    BY <1>1, <2>1, WalAssumption DEF SeqsUnique
  <2>4. Below(s, n) = Below(s, n - 1) \cup {i}
    BY <1>1, <2>1, <2>3 DEF Below
  <2>5. \A j \in Below(s, n - 1) : ~Broken(j)
    BY <1>1, <2>1 DEF Below, IsLastRow
  <2>6. QED
    BY <2>1, <2>2, <2>4, <2>5, ReplayRowTells DEF Below
<1>3. CASE ~\E i \in Rows(s) : actions[i].seq = n - 1
  <2>1. Below(s, n) = Below(s, n - 1)
    BY <1>1, <1>3 DEF Below
  <2>2. QED
    BY <1>3, <2>1 DEF ReplayNumber
<1>4. QED
  BY <1>2, <1>3

(* The replay of a session tells of all its rows. *)
LEMMA ReplayTells ==
    ASSUME TypeOK, SeqsUnique, SeqsReached, NEW s \in Session,
           \A i \in Rows(s) : Broken(i) => IsLastRow(i, s)
    PROVE  Tells(ReplayRows(s), Rows(s))
<1>1. PICK path : ReplayPath(path, s) /\ ReplayRows(s) = path[MaxActions]
  BY ReplayPathExists
<1>2. MaxActions \in Nat
  BY WalAssumption
<1> DEFINE T == {n \in 0 .. MaxActions : ~Tells(path[n], Below(s, n))}
<1>3. T = {}
  <2> SUFFICES ASSUME T # {} PROVE FALSE
    OBVIOUS
  <2>1. T \in SUBSET Nat
    OBVIOUS
  <2>2. PICK n \in T : \A m \in T : n <= m
    <3> HIDE DEF T
    <3>1. QED
      BY <2>1, LeastNumber
  <2>3. n \in 0 .. MaxActions /\ ~Tells(path[n], Below(s, n))
    OBVIOUS
  <2>4. CASE n = 0
    <3>1. Below(s, 0) = {}
      BY DEF Below, Rows, TypeOK, WalTypeOK, Row
    <3>2. QED
      BY <1>1, <2>3, <2>4, <3>1, BeginningFacts DEF ReplayPath, Tells
  <2>5. CASE n # 0
    <3>1. n \in 1 .. MaxActions /\ n \in Nat \ {0} /\ n - 1 \in 0 .. MaxActions
      BY <1>2, <2>3, <2>5
    <3>2. Tells(path[n - 1], Below(s, n - 1))
      BY <1>2, <2>2, <3>1
    <3>3. path[n - 1] \in ReplayState /\ path[n] = ReplayNumber(path[n - 1], s, n)
      BY <1>1, <3>1 DEF ReplayPath
    <3>4. QED
      BY <2>3, <3>1, <3>2, <3>3, ReplayNumberTells
  <2>6. QED
    BY <2>4, <2>5
<1>4. Below(s, MaxActions) = Rows(s)
  <2>1. ASSUME NEW i \in Rows(s)
        PROVE  actions[i].seq < MaxActions
    <3>1. i \in ActionId /\ actions[i].seq \in Nat /\ actions[i].seq < i
      BY DEF Rows, SeqsReached, TypeOK, WalTypeOK, Row
    <3>2. QED
      BY <1>2, <3>1 DEF ActionId
  <2>2. QED
    BY <2>1 DEF Below
<1>5. MaxActions \in 0 .. MaxActions
  BY <1>2
<1>6. QED
  BY <1>1, <1>3, <1>4, <1>5

(* No compensation is counted that did not happen and, at rest, none is    *)
(* missed.                                                                 *)
LEMMA CompensationsCounted ==
    ASSUME DisjointSessions, TypeOK, LedgerInv, ApprovalInv, RecoveryInv, LiveInv, UndoneShown,
           NEW k \in Kernel, NEW s \in saga[k]
    PROVE  LET compensated == WithStatus(s, "COMPENSATED")
               undone == {i \in Rows(s) : world[i] = "undone"}
           IN  /\ Cardinality(compensated) <= Cardinality(undone)
               /\ pc[k] = "idle" => compensated = undone
<1> DEFINE compensated == WithStatus(s, "COMPENSATED")
           undone == {i \in Rows(s) : world[i] = "undone"}
<1>1. compensated \subseteq undone
  BY DEF WithStatus, Rows, LedgerInv, RowOK, Status
<1>2. IsFiniteSet(undone)
  <2>1. IsFiniteSet(ActionId) /\ undone \subseteq ActionId
    BY FS_Interval, WalAssumption DEF ActionId, Rows
  <2>2. QED
    BY <2>1, FS_Subset
<1>3. Cardinality(compensated) <= Cardinality(undone)
  BY <1>1, <1>2, FS_Subset
<1>4. ASSUME pc[k] = "idle"
      PROVE  undone \subseteq compensated
  BY <1>4, UndoneAtRest DEF WithStatus, Status
<1>5. QED
  BY <1>1, <1>3, <1>4

(* At every moment the replay of a saga agrees with its kernel, unless a   *)
(* process crashes or a statement fails: refused exactly while a step is   *)
(* open, Failed exactly when the kernel has given up, and the              *)
(* compensations are those that happened (src/replay.rs simulates the rows *)
(* on a state machine of its own).                                         *)
THEOREM ReplayShows ==
    ASSUME DisjointSessions, ExclusiveRecovery, OneSessionPerSaga, NoFailures
    PROVE  Spec => []ReplayAgrees
<1>1. TypeOK /\ LedgerInv /\ ApprovalInv /\ RecoveryInv /\ LiveInv /\ AuditInv /\ ReplayInv
      => ReplayAgrees
  <2> SUFFICES ASSUME TypeOK, LedgerInv, ApprovalInv, RecoveryInv, LiveInv, AuditInv, ReplayInv,
                      NEW k \in Kernel, NEW s \in saga[k]
               PROVE  LET r == Replay(s)
                          undone == Cardinality({i \in Rows(s) : world[i] = "undone"})
                      IN  /\ r.ok <=> OpenRows(s) = {}
                          /\ r.ok => (r.final_status = "Failed" <=>
                                         fsm[k].mode \in {"Compensating", "Failed"})
                          /\ r.compensations <= undone
                          /\ ~Running(k) => r.compensations = undone
    BY DEF ReplayAgrees
  <2> DEFINE path == ReplayRows(s)
  <2>1. Tells(path, Rows(s))
    BY ReplayTells DEF ApprovalInv, ReplayInv, BrokenOK, TypeOK
  <2>2. path.ok <=> OpenRows(s) = {}
    BY <2>1 DEF Tells, OpenRows, WithStatus, Status
  <2>3. GivenUp(k) <=> \E i \in Rows(s) : Broken(i)
    BY DEF ReplayInv, BrokenOK
  <2> DEFINE final == IF path.fsm.mode = "Compensating"
                      THEN Transition(path.fsm, Plain("CompensationCompleted")).mode
                      ELSE path.fsm.mode
  <2>4. path.ok => (final = "Failed" <=> path.fsm.mode = "Compensating")
    BY <2>1 DEF Tells, Transition, Accepts, Target, Plain, PlainState
  <2>5. path.ok => (final = "Failed" <=> GivenUp(k))
    BY <2>1, <2>3, <2>4 DEF Tells
  <2>6. /\ Replay(s).ok = path.ok
        /\ Replay(s).final_status = final
        /\ Replay(s).compensations = Cardinality(WithStatus(s, "COMPENSATED"))
    BY DEF Replay
  <2> HIDE DEF path, final
  <2>7. /\ Replay(s).compensations <= Cardinality({i \in Rows(s) : world[i] = "undone"})
        /\ ~Running(k) =>
              Replay(s).compensations = Cardinality({i \in Rows(s) : world[i] = "undone"})
    BY <2>6, CompensationsCounted DEF AuditInv, Running
  <2>8. QED
    BY <2>2, <2>5, <2>6, <2>7 DEF GivenUp
<1>2. QED
  BY <1>1, TypeCorrect, LedgerInvariant, ApprovalInvariant, RecoveryInvariant, LiveInvariant,
     AuditInvariant, ReplayInvariant, PTL
=============================================================================
