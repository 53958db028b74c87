------------------------------ MODULE McpProofs ------------------------------
(***************************************************************************)
(* Theorems about the MCP server, McpGateway and McpWorkspace, for every   *)
(* value of their constants: any sessions a client names, any paths and    *)
(* payment ids, any number of rows and of restarts.                        *)
(***************************************************************************)
EXTENDS McpWorkspace, SagaKernelProofs, SequenceTheorems

-----------------------------------------------------------------------------
(* The inductive invariant of the gateway.                                 *)

StepLabel == {"log", "execute", "commit", "fail"}

LoopLabels == {"compensate", "undone", "orphan", "dlq", "end"}

(* A request that runs is the call of the kernel it waits for: the same    *)
(* session, and the tool the state machine has authorised.                 *)
RequestOK(k) ==
    /\ request[k].sess \in minted \cup NamedSessions
    /\ request[k].phase # "none" => request[k].tool \in Tool
    /\ request[k].phase # "running" => pc[k] = "idle"
    /\ request[k].phase = "execute" => fsm[k] = Executing(request[k].tool)
    /\ pc[k] \in {"idle", "scan"} \cup StepLabel \cup LoopLabels
    /\ pc[k] # "idle" => call[k].ret = "step" /\ call[k].sess = request[k].sess
    /\ pc[k] \in StepLabel => fsm[k] = Executing(request[k].tool)
    /\ pc[k] \in {"scan"} \cup LoopLabels => fsm[k].mode = "Compensating"

(* The rows there are: of a session some request had, of a tool of the     *)
(* registry, and with sequence numbers that leave room below the row's id. *)
RowShape(i) ==
    /\ nrows < i => actions[i] = NoRow /\ world[i] = "absent"
    /\ Status(i) = "NONE" => actions[i].session = NoSession
    /\ Status(i) # "NONE" =>
          /\ actions[i].session \in minted \cup NamedSessions
          /\ actions[i].tool \in Tool
          /\ actions[i].seq < i
    /\ Status(i) # "PENDING_APPROVAL"

(* The row the call is at. *)
AtRow(k) ==
    /\ pc[k] = "log" => call[k].seq <= nrows
    /\ pc[k] \in {"execute", "commit", "fail"} =>
          /\ call[k].cur = nrows /\ call[k].cur \in ActionId
          /\ Status(call[k].cur) = "PENDING"
          /\ actions[call[k].cur].tool = request[k].tool
    /\ pc[k] \in {"execute", "fail"} => world[call[k].cur] = "absent"
    /\ pc[k] = "undone" => world[call[k].cur] = "undone"

(* A rollback has no COMMITTED row of its session left but those it still  *)
(* has to do.                                                              *)
LoopLeft(k) ==
    /\ pc[k] \in LoopLabels => Committed(call[k].sess) \subseteq call[k].todo
    /\ pc[k] \in LoopLabels => \A i \in call[k].todo : Status(i) # "NONE"
    /\ pc[k] = "end" => call[k].todo = {}
    /\ pc[k] = "dlq" => Status(call[k].cur) # "COMMITTED"

GatewayInv ==
    /\ McpTypeOK
    /\ CursorOK
    /\ \A k \in Kernel : RequestOK(k) /\ AtRow(k) /\ LoopLeft(k)
    /\ \A i \in ActionId : RowShape(i)

(* What holds besides while no process has died and no statement fails.    *)
UnsettledRow(k, i) ==
    /\ Status(i) = "PENDING" => pc[k] \in {"execute", "commit", "fail"} /\ call[k].cur = i
    /\ Status(i) # "NONE" /\ world[i] = "applied" =>
          \/ Status(i) = "COMMITTED"
          \/ i \in dlq
          \/ pc[k] \in {"commit", "dlq"} /\ call[k].cur = i

EndedRequest(k) ==
    /\ request[k].phase \in {"none", "running"}
    /\ pc[k] = "idle"
    /\ fsm[k].mode = "Failed"
    => Committed(request[k].sess) = {}

SettledInv ==
    crashes = 0 =>
        \A k \in Kernel : EndedRequest(k) /\ \A i \in ActionId : UnsettledRow(k, i)

-----------------------------------------------------------------------------
(* The inductive invariant of the workspace.                               *)

(* An accepted request keeps the argument the guard has seen until its row *)
(* is in the log, and the row is about that place.                         *)
ArgumentOK(k) ==
    /\ request[k].phase # "none" => arg[k] \in ArgsOf(request[k].tool)
    /\ request[k].phase = "running" => PassesGuard(k)
    /\ pc[k] \in {"execute", "commit", "fail"} /\ request[k].tool = fs_write =>
          target[call[k].cur] = FileOf[arg[k]]

TargetOK(i) ==
    /\ actions[i].tool = fs_write => target[i] \in File
    /\ actions[i].tool = mock_pay => target[i] \in PaymentId

Latest(i) == \A j \in ActionId : j <= nrows /\ target[j] = target[i] => j <= i

Gone(i) ==
    /\ actions[i].tool = fs_write => disk[target[i]] = "absent"
    /\ actions[i].tool = mock_pay => ledger[target[i]] # "CHARGED"

(* CompensatedIsGone, from the moment the compensation has run. *)
GoneOK(i) ==
    /\ Status(i) = "COMPENSATED" \/ \E k \in Kernel : pc[k] = "undone" /\ call[k].cur = i
    /\ Latest(i)
    => Gone(i)

(* CommittedFileStands, from the moment the file is written. *)
FileStands(i) ==
    /\ actions[i].tool = fs_write
    /\ Status(i) = "COMMITTED" \/ \E k \in Kernel : pc[k] = "commit" /\ call[k].cur = i
    /\ \A j \in ActionId : target[j] = target[i] => world[j] # "undone"
    => disk[target[i]] = "written"

(* Nothing is refunded before the saga fails, and the charges of the       *)
(* session of the server stand, the one under way included.                *)
ChargesOK(k) ==
    fsm[k].mode \notin {"Compensating", "Failed"} =>
        /\ \A p \in PaymentId : ledger[p] # "REFUNDED"
        /\ \A i \in ActionId :
              /\ actions[i].tool = mock_pay
              /\ \/ Status(i) = "COMMITTED" /\ actions[i].session = session_id[k]
                 \/ pc[k] = "commit" /\ call[k].cur = i
              => ledger[target[i]] = "CHARGED"

WorkInv ==
    /\ WorkspaceTypeOK
    /\ \A k \in Kernel : ArgumentOK(k) /\ ChargesOK(k)
    /\ \A i \in ActionId : TargetOK(i) /\ GoneOK(i) /\ FileStands(i)

WorkspaceInv == GatewayInv /\ WorkInv

-----------------------------------------------------------------------------
USE DEF walVars, kernelVars, ghostVars, budgetVars, gatewayVars

LEMMA OneKernel == \A j, k \in Kernel : j = k
BY GatewayAssumption

McpStep(k) ==
    \/ \E t \in Tool, s \in Session, key \in Key \cup {NoKey} : ToolsCall(k, t, s, key)
    \/ Serve(k) \/ PruneHistory(k) \/ Restart(k)

(* What a step of the server is for its kernel. *)
LEMMA KernelPart ==
    ASSUME McpTypeOK, NEW k \in Kernel, RequestOK(k), McpStep(k)
    PROVE  \/ UNCHANGED vars
           \/ Progress(k) \/ Caller(k) \/ Crash(k)
           \/ ResetSaga(k) \/ PruneHistory(k)
<1>1. /\ request[k].sess \in Session /\ request[k].key \in Key \cup {NoKey}
      /\ request[k].phase # "none" => request[k].tool \in Tool
  BY DEF McpTypeOK, Request, RequestOK
<1>2. CASE \E t \in Tool, s \in Session, key \in Key \cup {NoKey} : ToolsCall(k, t, s, key)
  BY <1>2 DEF ToolsCall
<1>3. CASE AuthorizeIdle(k) \/ AuthorizeTool(k) \/ AlreadyAuthorized(k)
  BY <1>1, <1>3 DEF AuthorizeIdle, AuthorizeTool, AlreadyAuthorized, Caller
<1>4. CASE RefuseAtStepZero(k) \/ Respond(k)
  BY <1>4 DEF RefuseAtStepZero, Respond
<1>5. CASE AnswerFromCache(k) \/ Dispatch(k)
  BY <1>1, <1>5 DEF AnswerFromCache, Dispatch, Caller
<1>6. CASE Work(k) \/ Restart(k)
  BY <1>6 DEF Work, Restart
<1>7. QED
  BY <1>2, <1>3, <1>4, <1>5, <1>6 DEF McpStep, Serve

LEMMA KernelPartType ==
    ASSUME McpTypeOK, CursorOK, NEW k \in Kernel, RequestOK(k), McpStep(k)
    PROVE  TypeOK' /\ CursorOK'
<1>1. TypeOK
  BY DEF McpTypeOK
<1>2. CASE UNCHANGED vars
  BY <1>1, <1>2 DEF vars, TypeOK, WalTypeOK, CursorOK
<1>3. CASE Progress(k) \/ Caller(k) \/ Crash(k)
  <2>1. [Next]_vars
    BY <1>3 DEF Next, Failure
  <2>2. TypeOK'
    BY <1>1, <1>3, LogType, StepType, RollbackType, RecoveryType, CallerType, FailureType
    DEF Progress, Failure
  <2>3. QED
    BY <1>1, <2>1, <2>2, CursorStep
<1>4. CASE ResetSaga(k)
  BY <1>1, <1>4 DEF ResetSaga, TypeOK, WalTypeOK, CursorOK, Idle, PlainState, AgentState, Mode
<1>5. CASE PruneHistory(k)
  <2>1. PICK old : DeleteHistory(old)
    BY <1>5 DEF PruneHistory
  <2>2. actions' \in [ActionId -> Row]
    BY <1>1, <2>1, WalAssumption DEF DeleteHistory, TypeOK, WalTypeOK, NoRow, Row
  <2>3. sessions' \in [Session -> SessionStatus]
    BY <1>1, <2>1 DEF DeleteHistory, TypeOK, WalTypeOK, SessionStatus
  <2>4. QED
    BY <1>1, <1>5, <2>1, <2>2, <2>3 DEF PruneHistory, DeleteHistory, TypeOK, WalTypeOK, CursorOK
<1>6. QED
  BY <1>2, <1>3, <1>4, <1>5, KernelPart

LEMMA GatewayTypeStep ==
    ASSUME McpTypeOK, CursorOK, NEW k \in Kernel, RequestOK(k), McpStep(k)
    PROVE  McpTypeOK' /\ minted \subseteq minted'
<1>1. TypeOK'
  BY KernelPartType
<1>2. /\ session_id \in [Kernel -> minted] /\ minted \subseteq Session
      /\ request \in [Kernel -> Request]
      /\ request[k].phase \in {"none", "authorize", "execute", "running"}
      /\ request[k].sess \in Session
      /\ request[k].key \in Key \cup {NoKey} /\ request[k].tool \in Tool \cup {NoTool}
  BY DEF McpTypeOK, Request
<1>3. ASSUME NewSession(k)
      PROVE  /\ session_id' \in [Kernel -> minted'] /\ minted' \subseteq Session
             /\ minted \subseteq minted'
  BY <1>2, <1>3 DEF NewSession
<1>4. ASSUME NEW s \in Session, Answer(k, s)
      PROVE  request' \in [Kernel -> Request]
  BY <1>2, <1>4 DEF Answer, Request
<1>5. ASSUME NEW p \in {"none", "authorize", "execute", "running"}, Phase(k, p)
      PROVE  request' \in [Kernel -> Request]
  BY <1>2, <1>5 DEF Phase, Request
<1>6. ASSUME NEW t \in Tool, NEW s \in Session, NEW key \in Key \cup {NoKey},
             ToolsCall(k, t, s, key)
      PROVE  McpTypeOK' /\ minted \subseteq minted'
  <2>1. request' \in [Kernel -> Request]
    BY <1>2, <1>6 DEF ToolsCall, Request
  <2>2. QED
    BY <1>1, <1>2, <1>6, <2>1 DEF ToolsCall, McpTypeOK
<1>7. CASE AuthorizeIdle(k) \/ Work(k) \/ PruneHistory(k)
  BY <1>1, <1>2, <1>7 DEF AuthorizeIdle, Work, PruneHistory, McpTypeOK
<1>8. CASE AuthorizeTool(k) \/ AlreadyAuthorized(k) \/ Dispatch(k)
  BY <1>1, <1>2, <1>5, <1>8 DEF AuthorizeTool, AlreadyAuthorized, Dispatch, McpTypeOK
<1>9. CASE ResetSaga(k)
  BY <1>1, <1>2, <1>3, <1>9 DEF ResetSaga, McpTypeOK
<1>10. CASE RefuseAtStepZero(k) \/ AnswerFromCache(k) \/ Respond(k)
  BY <1>1, <1>2, <1>4, <1>10 DEF RefuseAtStepZero, AnswerFromCache, Respond, McpTypeOK
<1>11. CASE Restart(k)
  <2>1. session_id'[k] \in Session
    BY <1>3, <1>11 DEF Restart
  <2>2. QED
    BY <1>1, <1>2, <1>3, <1>4, <1>11, <2>1 DEF Restart, McpTypeOK
<1>12. QED
  BY <1>6, <1>7, <1>8, <1>9, <1>10, <1>11 DEF McpStep, Serve

-----------------------------------------------------------------------------
(* The request and the call. *)

LEMMA RequestOfServer ==
    ASSUME McpTypeOK, NEW k \in Kernel, RequestOK(k), minted \subseteq minted',
           \/ \E t \in Tool, s \in Session, key \in Key \cup {NoKey} : ToolsCall(k, t, s, key)
           \/ AuthorizeIdle(k) \/ AuthorizeTool(k) \/ AlreadyAuthorized(k) \/ ResetSaga(k)
           \/ RefuseAtStepZero(k) \/ AnswerFromCache(k) \/ Dispatch(k) \/ Respond(k)
           \/ PruneHistory(k) \/ Restart(k)
    PROVE  RequestOK(k)'
<1>1. /\ fsm \in [Kernel -> AgentState] /\ pc \in [Kernel -> Label]
      /\ call \in [Kernel -> Call] /\ request \in [Kernel -> Request]
      /\ session_id[k] \in minted
      /\ request[k].tool \in Tool \cup {NoTool}
  BY DEF McpTypeOK, TypeOK, Request
<1>2. ASSUME NEW t \in Tool, NEW s \in Session, NEW key \in Key \cup {NoKey},
             ToolsCall(k, t, s, key)
      PROVE  RequestOK(k)'
  <2>1. /\ request'[k].phase = "authorize" /\ request'[k].tool = t /\ request'[k].sess = s
        /\ s \in minted \cup NamedSessions
    BY <1>1, <1>2 DEF ToolsCall
  <2>2. pc[k] = "idle"
    BY <1>2 DEF ToolsCall, Answered, RequestOK
  <2>3. QED
    BY <1>2, <2>1, <2>2 DEF ToolsCall, RequestOK, vars, StepLabel, LoopLabels
<1>3. CASE AuthorizeIdle(k)
  <2>1. pc[k] = "idle" /\ UNCHANGED <<pc, call, request, minted>> /\ request[k].phase = "authorize"
    BY <1>3 DEF AuthorizeIdle, BeginPlanning, Running
  <2>2. QED
    BY <2>1 DEF RequestOK, StepLabel, LoopLabels
<1>4. CASE AuthorizeTool(k) \/ AlreadyAuthorized(k)
  <2>1. /\ request'[k].phase = "execute" /\ request'[k].tool = request[k].tool
        /\ request'[k].sess = request[k].sess
        /\ request[k].phase = "authorize"
        /\ UNCHANGED <<pc, call, minted>>
    <3>1. Phase(k, "execute") /\ request[k].phase = "authorize" /\ UNCHANGED <<pc, call, minted>>
      BY <1>4 DEF AuthorizeTool, AlreadyAuthorized, BeginTool, vars
    <3>2. request' = [request EXCEPT ![k].phase = "execute"]
      BY <3>1 DEF Phase
    <3>3. QED
      BY <1>1, <3>1, <3>2 DEF Request
  <2>2. fsm'[k] = Executing(request[k].tool)
    <3>1. CASE AlreadyAuthorized(k)
      BY <3>1 DEF AlreadyAuthorized, vars
    <3>2. CASE AuthorizeTool(k)
      BY <1>1, <3>2 DEF AuthorizeTool, BeginTool, Fire, Transition, Target, StartExecution
    <3>3. QED
      BY <1>4, <3>1, <3>2
  <2>3. QED
    BY <2>1, <2>2 DEF RequestOK, StepLabel, LoopLabels
<1>5. CASE ResetSaga(k)
  <2>1. request[k].phase = "authorize" /\ UNCHANGED <<pc, call, request>>
    BY <1>5 DEF ResetSaga
  <2>2. QED
    BY <2>1 DEF RequestOK, StepLabel, LoopLabels
<1>6. CASE RefuseAtStepZero(k) \/ AnswerFromCache(k) \/ Respond(k)
  <2>1. /\ request'[k].phase = "none" /\ request'[k].sess = request[k].sess
        /\ pc[k] = "idle" /\ UNCHANGED <<pc, call, minted>>
    BY <1>1, <1>6
    DEF RefuseAtStepZero, AnswerFromCache, ReturnCached, Respond, Answer, vars, RequestOK, Running
  <2>2. QED
    BY <2>1 DEF RequestOK, StepLabel, LoopLabels
<1>7. CASE Dispatch(k)
  <2>1. /\ request'[k].phase = "running" /\ request'[k].sess = request[k].sess
        /\ request'[k].tool = request[k].tool
        /\ pc'[k] = "log" /\ UNCHANGED <<fsm, minted>>
        /\ request[k].phase = "execute"
    BY <1>1, <1>7 DEF Dispatch, ExecuteTool, Phase, Goto
  <2>2. call'[k].ret = "step" /\ call'[k].sess = request[k].sess
    BY <1>1, <1>7 DEF Dispatch, ExecuteTool, NewCall
  <2>3. QED
    BY <2>1, <2>2 DEF RequestOK, StepLabel, LoopLabels
<1>8. CASE PruneHistory(k)
  BY <1>8 DEF PruneHistory, RequestOK
<1>9. CASE Restart(k)
  <2>1. /\ request'[k].phase = "none" /\ request'[k].sess = session_id'[k]
        /\ session_id'[k] \in minted'
        /\ pc'[k] = "idle"
    BY <1>1, <1>9 DEF Restart, Crash, Return, Goto, Answer, NewSession, McpTypeOK
  <2>2. QED
    BY <2>1 DEF RequestOK, StepLabel, LoopLabels
<1>10. QED
  BY <1>2, <1>3, <1>4, <1>5, <1>6, <1>7, <1>8, <1>9

(* The registry has no irreversible tool: nothing is parked. *)
LEMMA NothingParked ==
    ASSUME NEW k, ParkForApproval(k)
    PROVE  FALSE
BY GatewayAssumption DEF ParkForApproval, NeedsApproval

LEMMA RequestOfKernel ==
    ASSUME McpTypeOK, NEW k \in Kernel, RequestOK(k), Work(k)
    PROVE  RequestOK(k)' /\ UNCHANGED gatewayVars
<1>1. /\ fsm \in [Kernel -> AgentState] /\ pc \in [Kernel -> Label]
      /\ call \in [Kernel -> Call]
      /\ UNCHANGED <<request, minted, session_id>>
  BY DEF McpTypeOK, TypeOK, Work
<1>2. pc[k] # "idle" /\ request[k].phase = "running"
  <2>1. pc[k] # "idle"
    BY DEF Work, Progress, Log, LogAction, ParkForApproval, LogRefused, Step, ToolOk, ToolError,
           CommitStep, FailStep, Rollback, ScanCommitted, CompensateOk, CompensateError,
           RecordUndone, RecordOrphan, RecordInDlq, EndRollback, Recovery, RecoverSession,
           FailOrphan, SettleSession
  <2>2. QED
    BY <2>1 DEF RequestOK
<1>3. SUFFICES
        /\ pc'[k] \in {"idle", "scan"} \cup StepLabel \cup LoopLabels
        /\ pc'[k] # "idle" => call'[k].ret = call[k].ret /\ call'[k].sess = call[k].sess
        /\ pc'[k] \in StepLabel => fsm'[k] = Executing(request[k].tool)
        /\ pc'[k] \in {"scan"} \cup LoopLabels => fsm'[k].mode = "Compensating"
  BY <1>1, <1>2 DEF RequestOK
<1>4. CASE LogAction(k)
  BY <1>1, <1>4 DEF LogAction, Goto, RequestOK, StepLabel, LoopLabels, Call
<1>5. CASE LogRefused(k) \/ CommitStep(k)
  BY <1>1, <1>5 DEF LogRefused, CommitStep, Return, Goto, StepLabel, LoopLabels
<1>6. CASE ToolOk(k) \/ ToolError(k)
  BY <1>1, <1>6 DEF ToolOk, ToolError, Goto, RequestOK, StepLabel, LoopLabels
<1>7. CASE FailStep(k)
  <2>1. fsm[k].mode = "ExecutingTool"
    BY <1>7 DEF FailStep, RequestOK, StepLabel, Executing
  <2>2. fsm'[k].mode = "Compensating"
    BY <1>1, <1>7, <2>1 DEF FailStep, Fire, Transition, Accepts, Target, Plain, PlainState
  <2>3. QED
    BY <1>1, <1>7, <2>2 DEF FailStep, Goto, StepLabel, LoopLabels
<1>8. CASE ScanCommitted(k) \/ CompensateOk(k) \/ CompensateError(k) \/ RecordOrphan(k)
  <2>1. fsm' = fsm /\ fsm[k].mode = "Compensating"
    BY <1>8 DEF ScanCommitted, CompensateOk, CompensateError, RecordOrphan, RequestOK, StepLabel,
                LoopLabels
  <2>2. pc'[k] \in LoopLabels
    BY <1>1, <1>8 DEF ScanCommitted, CompensateOk, CompensateError, RecordOrphan, LoopLabel, Goto,
                LoopLabels
  <2>3. call'[k].ret = call[k].ret /\ call'[k].sess = call[k].sess
    BY <1>1, <1>8 DEF ScanCommitted, CompensateOk, CompensateError, RecordOrphan, Call
  <2>4. QED
    BY <2>1, <2>2, <2>3 DEF StepLabel, LoopLabels
<1>9. CASE RecordUndone(k) \/ RecordInDlq(k)
  <2>1. fsm' = fsm /\ fsm[k].mode = "Compensating"
    BY <1>9 DEF RecordUndone, RecordInDlq, RequestOK, StepLabel, LoopLabels
  <2>2. pc'[k] \in LoopLabels
    BY <1>1, <1>9 DEF RecordUndone, RecordInDlq, NextRow, LoopLabel, Goto, LoopLabels
  <2>3. call'[k].ret = call[k].ret /\ call'[k].sess = call[k].sess
    BY <1>1, <1>9 DEF RecordUndone, RecordInDlq, NextRow, Call
  <2>4. QED
    BY <2>1, <2>2, <2>3 DEF StepLabel, LoopLabels
<1>10. CASE EndRollback(k)
  <2>1. call[k].ret = "step"
    BY <1>2 DEF RequestOK
  <2>2. pc'[k] = "idle"
    BY <1>1, <1>10, <2>1 DEF EndRollback, FinishRollback, ReturnToCaller, Return, Goto
  <2>3. QED
    BY <2>2 DEF StepLabel, LoopLabels
<1>11. ~Recovery(k)
  BY DEF Recovery, RecoverSession, FailOrphan, SettleSession, RequestOK, StepLabel, LoopLabels
<1>12. QED
  BY <1>4, <1>5, <1>6, <1>7, <1>8, <1>9, <1>10, <1>11, NothingParked
  DEF Work, Progress, Log, Step, Rollback

LEMMA RequestStep ==
    ASSUME McpTypeOK, CursorOK, NEW k \in Kernel, RequestOK(k), McpStep(k)
    PROVE  RequestOK(k)'
<1>1. minted \subseteq minted'
  BY GatewayTypeStep
<1>2. CASE Work(k)
  BY <1>2, RequestOfKernel
<1>3. CASE ~Work(k)
  BY <1>1, <1>3, RequestOfServer DEF McpStep, Serve
<1>4. QED
  BY <1>2, <1>3

-----------------------------------------------------------------------------
(* The rows, and the row the call is at. *)

(* What the kernel's own steps start from. *)
LEMMA KernelTypes ==
    ASSUME McpTypeOK, NEW k \in Kernel
    PROVE  /\ actions \in [ActionId -> Row] /\ nrows \in Nat
           /\ world \in [ActionId -> {"absent", "applied", "undone"}]
           /\ fsm \in [Kernel -> AgentState] /\ pc \in [Kernel -> Label]
           /\ call \in [Kernel -> Call] /\ call[k].todo \subseteq ActionId
           /\ call[k].seq \in Nat /\ call[k].cur \in Nat
BY WalAssumption DEF McpTypeOK, TypeOK, WalTypeOK, Call

(* Every step but the retention's and the kernel's work leaves the rows    *)
(* and their effects alone.                                                *)
LEMMA ServerKeepsRows ==
    ASSUME NEW k \in Kernel, McpStep(k), ~Work(k), ~PruneHistory(k)
    PROVE  UNCHANGED <<actions, nrows, world, dlq>>
BY DEF McpStep, Serve, ToolsCall, AuthorizeIdle, BeginPlanning, AuthorizeTool, BeginTool,
       AlreadyAuthorized, ResetSaga, RefuseAtStepZero, AnswerFromCache, ReturnCached, Dispatch,
       ExecuteTool, Respond, Restart, Crash, vars

(* The row that log_action inserts. *)
LEMMA LoggedRow ==
    ASSUME McpTypeOK, NEW k \in Kernel, RequestOK(k), LogAction(k)
    PROVE  /\ nrows' = nrows + 1 /\ nrows' \in ActionId
           /\ actions'[nrows'] = [session |-> request[k].sess, seq |-> call[k].seq,
                                  tool |-> request[k].tool, key |-> call[k].key,
                                  status |-> "PENDING", out |-> FALSE]
           /\ \A i \in ActionId : i # nrows' => actions'[i] = actions[i]
           /\ call'[k].cur = nrows' /\ call'[k].sess = call[k].sess /\ pc'[k] = "execute"
           /\ UNCHANGED <<world, dlq, fsm>>
<1>1. /\ call[k].sess = request[k].sess
      /\ fsm[k].tool = request[k].tool
  BY DEF LogAction, RequestOK, StepLabel, Executing
<1>2. nrows + 1 \in ActionId /\ nrows < MaxActions
  BY KernelTypes, WalAssumption DEF LogAction, InsertAction, ActionId
<1>3. QED
  BY <1>1, <1>2, KernelTypes DEF LogAction, InsertAction, Call, Goto

(* A status set on the row at hand. *)
LEMMA MarkedRow ==
    ASSUME McpTypeOK, NEW i \in ActionId, NEW st \in {"COMMITTED", "FAILED", "COMPENSATED"},
           \/ st = "COMMITTED" /\ MarkCommitted(i)
           \/ st = "FAILED" /\ MarkFailed(i)
           \/ st = "COMPENSATED" /\ MarkCompensated(i)
    PROVE  /\ Status(i)' = st
           /\ \A j \in ActionId :
                 /\ actions'[j].session = actions[j].session /\ actions'[j].tool = actions[j].tool
                 /\ actions'[j].seq = actions[j].seq
                 /\ j # i => actions'[j] = actions[j]
<1>1. actions \in [ActionId -> Row]
  BY DEF McpTypeOK, TypeOK, WalTypeOK
<1>2. QED
  BY <1>1 DEF MarkCommitted, MarkFailed, MarkCompensated, Row, Status

LEMMA RowShapeStep ==
    ASSUME McpTypeOK, GatewayInv, NEW k \in Kernel, McpStep(k), NEW i \in ActionId
    PROVE  RowShape(i)'
<1>1. /\ RowShape(i) /\ RequestOK(k) /\ AtRow(k) /\ LoopLeft(k)
      /\ minted \subseteq minted' /\ i \in Nat
  BY GatewayTypeStep DEF GatewayInv, ActionId
<1>2. CASE UNCHANGED <<actions, nrows, world>>
  BY <1>1, <1>2 DEF RowShape, Status
<1>3. CASE PruneHistory(k)
  <2>1. PICK old : DeleteHistory(old)
    BY <1>3 DEF PruneHistory
  <2>2. actions'[i] = NoRow \/ actions'[i] = actions[i]
    BY <2>1 DEF DeleteHistory
  <2>3. nrows' = nrows /\ world' = world
    BY <1>3, <2>1 DEF PruneHistory, DeleteHistory
  <2>4. QED
    BY <1>1, <2>2, <2>3 DEF RowShape, Status, NoRow
<1>4. ASSUME NEW j \in ActionId, Status(j) # "NONE", UNCHANGED <<nrows, world>>,
             MarkCommitted(j) \/ MarkFailed(j) \/ MarkCompensated(j)
      PROVE  RowShape(i)'
  <2>1. /\ Status(j)' \in {"COMMITTED", "FAILED", "COMPENSATED"}
        /\ actions'[i].session = actions[i].session /\ actions'[i].tool = actions[i].tool
        /\ actions'[i].seq = actions[i].seq
        /\ i # j => actions'[i] = actions[i]
    BY <1>4, MarkedRow
  <2>2. CASE i = j
    <3>1. Status(i)' \in {"COMMITTED", "FAILED", "COMPENSATED"}
      BY <2>1, <2>2
    <3>2. Status(i) # "NONE" /\ ~(nrows < i)
      BY <1>1, <1>4, <2>2 DEF RowShape, Status, NoRow
    <3>3. QED
      BY <1>1, <1>4, <2>1, <3>1, <3>2 DEF RowShape, Status
  <2>3. CASE i # j
    BY <1>1, <1>4, <2>1, <2>3 DEF RowShape, Status
  <2>4. QED
    BY <2>2, <2>3
<1>5. CASE LogAction(k)
  <2>1. CASE i = nrows'
    <3>1. /\ actions'[i].session = request[k].sess /\ actions'[i].tool = request[k].tool
          /\ actions'[i].seq = call[k].seq /\ actions'[i].status = "PENDING"
      <4>1. actions'[nrows'] = [session |-> request[k].sess, seq |-> call[k].seq,
                                tool |-> request[k].tool, key |-> call[k].key,
                                status |-> "PENDING", out |-> FALSE]
        BY <1>1, <1>5, LoggedRow
      <4>2. QED
        BY <2>1, <4>1
    <3>2. call[k].seq <= nrows /\ request[k].tool \in Tool /\ nrows' = nrows + 1
      BY <1>1, <1>5, LoggedRow DEF LogAction, AtRow, RequestOK
    <3>3. request[k].sess \in minted' \cup NamedSessions
      BY <1>1 DEF RequestOK
    <3>4. QED
      BY <1>1, <2>1, <3>1, <3>2, <3>3, KernelTypes DEF RowShape, Status
  <2>2. CASE i # nrows'
    <3>1. actions'[i] = actions[i] /\ nrows' = nrows + 1 /\ world' = world
      BY <1>1, <1>5, <2>2, LoggedRow
    <3>2. QED
      BY <1>1, <3>1, KernelTypes DEF RowShape, Status
  <2>3. QED
    BY <2>1, <2>2
<1>6. CASE ToolOk(k)
  <2>1. call[k].cur = nrows /\ UNCHANGED <<actions, nrows>>
        /\ world' = [world EXCEPT ![call[k].cur] = "applied"]
    BY <1>1, <1>6 DEF ToolOk, AtRow
  <2>2. nrows < i => world'[i] = world[i]
    BY <1>1, <2>1, KernelTypes
  <2>3. QED
    BY <1>1, <2>1, <2>2 DEF RowShape, Status
<1>7. CASE CommitStep(k) \/ FailStep(k)
  <2>1. call[k].cur \in ActionId /\ Status(call[k].cur) = "PENDING" /\ UNCHANGED <<nrows, world>>
    BY <1>1, <1>7 DEF CommitStep, FailStep, AtRow
  <2>2. MarkCommitted(call[k].cur) \/ MarkFailed(call[k].cur) \/ UNCHANGED actions
    BY <1>7 DEF CommitStep, FailStep
  <2>3. QED
    BY <1>2, <1>4, <2>1, <2>2
<1>8. CASE CompensateOk(k)
  <2>1. PICK j \in call[k].todo : /\ actions[j].out
                                  /\ world' = [world EXCEPT ![j] = "undone"]
    BY <1>8 DEF CompensateOk, NotCompensable
  <2>2. UNCHANGED <<actions, nrows>>
    BY <1>8 DEF CompensateOk
  <2>3. nrows < i => world'[i] = world[i]
    BY <1>1, <2>1, KernelTypes DEF RowShape, NoRow
  <2>4. QED
    BY <1>1, <2>2, <2>3 DEF RowShape, Status
<1>9. CASE RecordUndone(k) \/ RecordOrphan(k)
  <2>1. call[k].cur \in call[k].todo /\ pc[k] \in LoopLabels
    BY <1>9 DEF RecordUndone, RecordOrphan, GatewayInv, CursorOK, LoopLabels
  <2>2. call[k].cur \in ActionId /\ Status(call[k].cur) # "NONE"
    BY <1>1, <2>1, KernelTypes DEF LoopLeft
  <2>3. /\ MarkCompensated(call[k].cur) \/ MarkFailed(call[k].cur)
        /\ UNCHANGED <<nrows, world>>
    BY <1>9 DEF RecordUndone, RecordOrphan, MarkCompensationFailed
  <2>4. QED
    BY <1>4, <2>2, <2>3
<1>10. CASE Work(k)
  <2>1. CASE LogRefused(k) \/ ToolError(k) \/ ScanCommitted(k) \/ CompensateError(k)
              \/ RecordInDlq(k) \/ EndRollback(k)
    BY <1>2, <2>1 DEF LogRefused, ToolError, ScanCommitted, CompensateError, RecordInDlq, EndRollback
  <2>2. ~Recovery(k)
    BY <1>1 DEF Recovery, RecoverSession, FailOrphan, SettleSession, RequestOK, StepLabel, LoopLabels
  <2>3. QED
    BY <1>5, <1>6, <1>7, <1>8, <1>9, <1>10, <2>1, <2>2, NothingParked
    DEF Work, Progress, Log, Step, Rollback
<1>11. QED
  BY <1>2, <1>3, <1>10, ServerKeepsRows

(* Between the awaits of a request the kernel is idle, or about to log.    *)
LEMMA ServerPoint ==
    ASSUME McpTypeOK, NEW k \in Kernel, RequestOK(k), McpStep(k), ~Work(k)
    PROVE  /\ \/ pc'[k] = "idle"
              \/ Dispatch(k) /\ pc'[k] = "log"
           /\ pc[k] = "idle" \/ Restart(k)
<1>1. pc \in [Kernel -> Label]
  BY KernelTypes
<1>2. CASE Dispatch(k)
  BY <1>1, <1>2 DEF Dispatch, ExecuteTool, Goto, Running
<1>3. CASE Restart(k)
  BY <1>1, <1>3 DEF Restart, Crash, Return, Goto
<1>4. CASE ~Dispatch(k) /\ ~Restart(k)
  <2>1. pc' = pc
    BY <1>4 DEF McpStep, Serve, ToolsCall, AuthorizeIdle, BeginPlanning, AuthorizeTool, BeginTool,
                AlreadyAuthorized, ResetSaga, RefuseAtStepZero, AnswerFromCache, ReturnCached,
                Respond, PruneHistory, vars
  <2>2. pc[k] = "idle"
    BY <1>4 DEF McpStep, Serve, ToolsCall, Answered, AuthorizeIdle, AuthorizeTool,
                AlreadyAuthorized, ResetSaga, RefuseAtStepZero, AnswerFromCache, Respond, Running,
                PruneHistory, RequestOK
  <2>3. QED
    BY <2>1, <2>2
<1>5. QED
  BY <1>2, <1>3, <1>4

(* compensate() has run or has failed: the row is the cursor's. *)
LEMMA CompensatedRow ==
    ASSUME McpTypeOK, NEW k \in Kernel, CompensateOk(k) \/ CompensateError(k)
    PROVE  /\ call'[k].cur \in call[k].todo
           /\ call'[k].todo = call[k].todo /\ call'[k].sess = call[k].sess
           /\ CompensateOk(k) => /\ world' = [world EXCEPT ![call'[k].cur] = "undone"]
                                 /\ actions[call'[k].cur].out /\ pc'[k] = "undone"
           /\ CompensateError(k) => world' = world /\ pc'[k] = "orphan"
           /\ UNCHANGED <<actions, nrows, dlq, fsm>>
<1>1. PICK i \in call[k].todo :
         /\ call' = [call EXCEPT ![k].cur = i]
         /\ CompensateOk(k) => world' = [world EXCEPT ![i] = "undone"] /\ ~NotCompensable(k, i)
  <2>1. CASE CompensateOk(k)
    BY <2>1 DEF CompensateOk
  <2>2. CASE ~CompensateOk(k)
    BY <2>2 DEF CompensateError
  <2>3. QED
    BY <2>1, <2>2
<1>2. call'[k].cur = i /\ call'[k].todo = call[k].todo /\ call'[k].sess = call[k].sess
  BY <1>1, KernelTypes DEF Call
<1>3. QED
  BY <1>1, <1>2, KernelTypes DEF CompensateOk, CompensateError, NotCompensable, Goto

(* The loop goes on to the next row. *)
LEMMA LoopGoesOn ==
    ASSUME McpTypeOK, NEW k \in Kernel, NEW b, NextRow(k, b)
    PROVE  /\ call'[k].todo = call[k].todo \ {call[k].cur} /\ call'[k].sess = call[k].sess
           /\ pc'[k] = LoopLabel(call'[k].todo)
BY KernelTypes DEF NextRow, Goto, Call

LEMMA AtRowStep ==
    ASSUME McpTypeOK, GatewayInv, NEW k \in Kernel, McpStep(k)
    PROVE  AtRow(k)'
<1>1. /\ RequestOK(k) /\ AtRow(k) /\ \A i \in ActionId : RowShape(i)
      /\ call \in [Kernel -> Call] /\ nrows \in Nat
  BY KernelTypes DEF GatewayInv
<1>2. CASE pc'[k] \notin {"log", "execute", "commit", "fail", "undone"}
  BY <1>2 DEF AtRow
<1>3. CASE Dispatch(k)
  <2>1. PICK n \in 0 .. MaxActions :
           /\ IsNextSeq(request[k].sess, n)
           /\ call' = [call EXCEPT ![k] = NewCall("step", request[k].sess, n, request[k].key, 0)]
    BY <1>3 DEF Dispatch, ExecuteTool
  <2>2. n <= nrows
    <3>1. CASE n = 0
      BY <1>1, <3>1
    <3>2. ASSUME NEW i \in Rows(request[k].sess), actions[i].seq + 1 = n
          PROVE  n <= nrows
      <4>1. i \in ActionId /\ actions[i].session = request[k].sess /\ request[k].sess \in Session
        BY DEF Rows, McpTypeOK, Request
      <4>2. Status(i) # "NONE" /\ ~(nrows < i)
        BY <1>1, <4>1, WalAssumption DEF RowShape, NoRow
      <4>3. actions[i].seq < i /\ actions[i].seq \in Nat /\ i \in Nat
        <5>1. actions[i] \in Row /\ i \in Nat
          <6>1. actions[i] \in Row
            BY <4>1, KernelTypes
          <6>2. i \in Nat
            BY <4>1, WalAssumption DEF ActionId
          <6>3. QED
            BY <6>1, <6>2
        <5>2. QED
          BY <1>1, <4>1, <4>2, <5>1 DEF RowShape, Row
      <4>4. QED
        BY <1>1, <3>2, <4>2, <4>3
    <3>3. QED
      BY <2>1, <3>1, <3>2 DEF IsNextSeq
  <2>3. call'[k].seq = n /\ pc'[k] = "log" /\ nrows' = nrows
    BY <1>1, <1>3, <2>1, KernelTypes DEF NewCall, Dispatch, ExecuteTool, Goto
  <2>4. QED
    BY <2>2, <2>3 DEF AtRow
<1>4. CASE LogAction(k) /\ Work(k)
  <2>1. /\ nrows' = nrows + 1 /\ nrows' \in ActionId /\ call'[k].cur = nrows'
        /\ actions'[nrows'].status = "PENDING" /\ actions'[nrows'].tool = request[k].tool
        /\ pc'[k] = "execute" /\ world' = world
    <3>1. actions'[nrows'] = [session |-> request[k].sess, seq |-> call[k].seq,
                              tool |-> request[k].tool, key |-> call[k].key,
                              status |-> "PENDING", out |-> FALSE]
      BY <1>1, <1>4, LoggedRow
    <3>2. QED
      BY <1>1, <1>4, <3>1, LoggedRow
  <2>2. world[nrows'] = "absent"
    BY <1>1, <2>1 DEF RowShape
  <2>3. request' = request
    BY <1>4 DEF Work
  <2>4. QED
    BY <2>1, <2>2, <2>3 DEF AtRow, Status
<1>5. CASE Work(k)
  <2>1. request' = request
    BY <1>5 DEF Work
  <2>2. CASE ToolOk(k) \/ ToolError(k)
    <3>1. /\ pc'[k] \in {"commit", "fail"} /\ UNCHANGED <<actions, nrows, call>>
          /\ pc'[k] = "fail" => world' = world
      BY <2>2, KernelTypes DEF ToolOk, ToolError, Goto
    <3>2. pc[k] = "execute"
      BY <2>2 DEF ToolOk, ToolError
    <3>3. QED
      BY <1>1, <2>1, <3>1, <3>2 DEF AtRow, Status
  <2>3. CASE CompensateOk(k)
    <3>1. /\ call'[k].cur \in ActionId /\ pc'[k] = "undone"
          /\ world' = [world EXCEPT ![call'[k].cur] = "undone"]
      BY <2>3, CompensatedRow, KernelTypes
    <3>2. \A i \in ActionId : i = call'[k].cur => world'[i] = "undone"
      BY <3>1, KernelTypes
    <3>3. QED
      BY <3>1, <3>2 DEF AtRow
  <2>4. CASE LogRefused(k) \/ CommitStep(k) \/ EndRollback(k)
    <3>1. pc'[k] \in {"idle", "settle"}
      BY <2>4, KernelTypes
      DEF LogRefused, CommitStep, EndRollback, FinishRollback, ReturnToCaller, Return, Goto
    <3>2. QED
      BY <1>2, <3>1
  <2>5. CASE FailStep(k) \/ ScanCommitted(k) \/ CompensateError(k) \/ RecordOrphan(k)
    <3>1. pc'[k] \in {"scan", "compensate", "end", "orphan", "dlq"}
      BY <2>5, KernelTypes
      DEF FailStep, ScanCommitted, CompensateError, RecordOrphan, LoopLabel, Goto
    <3>2. QED
      BY <1>2, <3>1
  <2>6. CASE RecordUndone(k) \/ RecordInDlq(k)
    <3>1. pc'[k] \in {"compensate", "end"}
      BY <2>6, KernelTypes DEF RecordUndone, RecordInDlq, NextRow, LoopLabel, Goto
    <3>2. QED
      BY <1>2, <3>1
  <2>7. ~Recovery(k)
    BY <1>1 DEF Recovery, RecoverSession, FailOrphan, SettleSession, RequestOK, StepLabel, LoopLabels
  <2>8. QED
    BY <1>4, <1>5, <2>2, <2>3, <2>4, <2>5, <2>6, <2>7, NothingParked
    DEF Work, Progress, Log, Step, Rollback
<1>6. QED
  BY <1>1, <1>2, <1>3, <1>5, ServerPoint

LEMMA LoopLeftStep ==
    ASSUME McpTypeOK, GatewayInv, NEW k \in Kernel, McpStep(k)
    PROVE  LoopLeft(k)'
<1>1. /\ RequestOK(k) /\ AtRow(k) /\ LoopLeft(k)
      /\ actions \in [ActionId -> Row] /\ call[k].todo \subseteq ActionId
  BY KernelTypes DEF GatewayInv
<1>2. CASE pc'[k] \notin LoopLabels
  BY <1>2 DEF LoopLeft, LoopLabels
<1>3. CASE ScanCommitted(k)
  <2>1. /\ call'[k].todo = Committed(call[k].sess) /\ call'[k].sess = call[k].sess
        /\ pc'[k] = LoopLabel(Committed(call[k].sess)) /\ actions' = actions
    BY <1>3, KernelTypes DEF ScanCommitted, Goto, Call
  <2>2. Committed(call[k].sess)' = Committed(call[k].sess)
    BY <2>1 DEF Committed, WithStatus, Rows
  <2>3. QED
    BY <2>1, <2>2 DEF LoopLeft, LoopLabel, Committed, WithStatus, Rows, Status
<1>4. CASE CompensateOk(k) \/ CompensateError(k)
  <2>1. /\ call'[k].todo = call[k].todo /\ call'[k].sess = call[k].sess /\ actions' = actions
        /\ pc'[k] \in {"undone", "orphan"} /\ pc[k] \in LoopLabels
    BY <1>4, CompensatedRow DEF CompensateOk, CompensateError, LoopLabels
  <2>2. Committed(call[k].sess)' = Committed(call[k].sess)
    BY <2>1 DEF Committed, WithStatus, Rows
  <2>3. QED
    BY <1>1, <2>1, <2>2 DEF LoopLeft, Status
<1>5. CASE RecordUndone(k) \/ RecordOrphan(k)
  <2>1. call[k].cur \in call[k].todo /\ pc[k] \in LoopLabels
    BY <1>5 DEF RecordUndone, RecordOrphan, GatewayInv, CursorOK, LoopLabels
  <2>2. /\ actions'[call[k].cur].status \in {"FAILED", "COMPENSATED"}
        /\ \A j \in ActionId : /\ actions'[j].session = actions[j].session
                               /\ j # call[k].cur => actions'[j] = actions[j]
    <3>1. \A i \in ActionId : MarkFailed(i) \/ MarkCompensated(i) =>
             /\ actions'[i].status \in {"FAILED", "COMPENSATED"}
             /\ \A j \in ActionId : /\ actions'[j].session = actions[j].session
                                    /\ j # i => actions'[j] = actions[j]
      BY MarkedRow DEF Status
    <3>2. MarkFailed(call[k].cur) \/ MarkCompensated(call[k].cur)
      BY <1>5 DEF RecordUndone, RecordOrphan, MarkCompensationFailed
    <3>3. QED
      BY <1>1, <2>1, <3>1, <3>2
  <2>3. call'[k].sess = call[k].sess
    BY <1>5, LoopGoesOn DEF RecordUndone, RecordOrphan
  <2>4. Committed(call[k].sess)' = Committed(call[k].sess) \ {call[k].cur}
    BY <1>1, <2>1, <2>2, <2>3 DEF Committed, WithStatus, Rows, Status
  <2>5. \A i \in call[k].todo : Status(i)' # "NONE"
    BY <1>1, <2>1, <2>2 DEF LoopLeft, Status
  <2>6. CASE RecordUndone(k)
    <3>1. call'[k].todo = call[k].todo \ {call[k].cur} /\ pc'[k] = LoopLabel(call'[k].todo)
      BY <2>6, LoopGoesOn DEF RecordUndone
    <3>2. QED
      BY <1>1, <2>1, <2>4, <2>5, <3>1 DEF LoopLeft, LoopLabel, LoopLabels
  <2>7. CASE RecordOrphan(k)
    <3>1. call' = call /\ pc'[k] = "dlq"
      BY <2>7, KernelTypes DEF RecordOrphan, Goto
    <3>2. \A i : i = call'[k].cur => Status(i)' # "COMMITTED"
      BY <2>2, <3>1 DEF Status
    <3>3. QED
      BY <1>1, <2>1, <2>4, <2>5, <3>1, <3>2 DEF LoopLeft
  <2>8. QED
    BY <1>5, <2>6, <2>7
<1>6. CASE RecordInDlq(k)
  <2>1. /\ call'[k].todo = call[k].todo \ {call[k].cur} /\ pc'[k] = LoopLabel(call'[k].todo)
        /\ call'[k].sess = call[k].sess /\ actions' = actions /\ pc[k] = "dlq"
    BY <1>6, LoopGoesOn DEF RecordInDlq
  <2>2. Committed(call[k].sess)' = Committed(call[k].sess)
    BY <2>1 DEF Committed, WithStatus, Rows
  <2>3. call[k].cur \notin Committed(call[k].sess)
    BY <1>1, <2>1 DEF LoopLeft, Committed, WithStatus, Status
  <2>4. QED
    BY <1>1, <2>1, <2>2, <2>3 DEF LoopLeft, LoopLabel, LoopLabels, Status
<1>7. CASE Work(k)
  <2>1. CASE LogAction(k) \/ LogRefused(k) \/ ToolOk(k) \/ ToolError(k) \/ CommitStep(k)
              \/ FailStep(k) \/ EndRollback(k)
    <3>1. pc'[k] \in {"execute", "idle", "commit", "fail", "scan", "settle"}
      BY <2>1, KernelTypes
      DEF LogAction, LogRefused, ToolOk, ToolError, CommitStep, FailStep, EndRollback,
          FinishRollback, ReturnToCaller, Return, Goto
    <3>2. QED
      BY <1>2, <3>1 DEF LoopLabels
  <2>2. ~Recovery(k)
    BY <1>1 DEF Recovery, RecoverSession, FailOrphan, SettleSession, RequestOK, StepLabel, LoopLabels
  <2>3. QED
    BY <1>3, <1>4, <1>5, <1>6, <1>7, <2>1, <2>2, NothingParked DEF Work, Progress, Log, Step, Rollback
<1>8. QED
  BY <1>1, <1>2, <1>7, ServerPoint DEF LoopLabels

-----------------------------------------------------------------------------
(* The gateway's invariant. *)

LEMMA GatewayInit == McpInit => GatewayInv
<1> SUFFICES ASSUME McpInit PROVE GatewayInv
  OBVIOUS
<1>1. TypeOK /\ CursorOK
  BY WalAssumption, KernelAssumption
  DEF McpInit, Init, WalInit, TypeOK, WalTypeOK, NoRow, Row, SessionStatus, Idle, PlainState,
      AgentState, Mode, Label, NoCall, NewCall, Call, CursorOK
<1>2. McpTypeOK
  BY <1>1, GatewayAssumption DEF McpInit, McpTypeOK, Request
<1>3. \A k \in Kernel : RequestOK(k) /\ AtRow(k) /\ LoopLeft(k)
  BY DEF McpInit, Init, RequestOK, AtRow, LoopLeft, StepLabel, LoopLabels
<1>4. \A i \in ActionId : RowShape(i)
  BY DEF McpInit, Init, WalInit, RowShape, NoRow, Status
<1>5. QED
  BY <1>1, <1>2, <1>3, <1>4 DEF GatewayInv

LEMMA GatewayStep ==
    ASSUME GatewayInv, NEW k \in Kernel, McpStep(k)
    PROVE  GatewayInv'
<1>1. McpTypeOK /\ CursorOK /\ RequestOK(k)
  BY DEF GatewayInv
<1>2. McpTypeOK' /\ CursorOK'
  BY <1>1, GatewayTypeStep, KernelPartType
<1>3. RequestOK(k)' /\ AtRow(k)' /\ LoopLeft(k)'
  BY <1>1, RequestStep, AtRowStep, LoopLeftStep
<1>4. \A j \in Kernel : RequestOK(j)' /\ AtRow(j)' /\ LoopLeft(j)'
  BY <1>3, OneKernel
<1>5. \A i \in ActionId : RowShape(i)'
  BY <1>1, RowShapeStep
<1>6. QED
  BY <1>2, <1>4, <1>5 DEF GatewayInv

LEMMA GatewayStutter == GatewayInv /\ UNCHANGED mcpVars => GatewayInv'
BY DEF GatewayInv, mcpVars, vars, McpTypeOK, TypeOK, WalTypeOK, CursorOK, RequestOK, AtRow,
       LoopLeft, RowShape, Status, Committed, WithStatus, Rows

LEMMA GatewayInvariant == McpSpec => []GatewayInv
<1>1. GatewayInv /\ [McpNext]_mcpVars => GatewayInv'
  <2> SUFFICES ASSUME GatewayInv, [McpNext]_mcpVars PROVE GatewayInv'
    OBVIOUS
  <2>1. CASE UNCHANGED mcpVars
    BY <2>1, GatewayStutter
  <2>2. CASE McpNext
    BY <2>2, GatewayStep DEF McpNext, McpStep
  <2>3. QED
    BY <2>1, <2>2
<1>2. QED
  BY <1>1, GatewayInit, PTL DEF McpSpec

(* No step of the server takes a dead letter away: retention deletes rows  *)
(* and sessions, and a new saga or a restart touches no table.             *)
THEOREM LettersStay == McpSpec => LettersKept
<1>1. [McpNext]_mcpVars => [dlq \subseteq dlq']_mcpVars
  <2> SUFFICES ASSUME NEW k \in Kernel, McpStep(k)
               PROVE  dlq \subseteq dlq'
    BY DEF McpNext, McpStep
  <2>1. CASE PruneHistory(k)
    BY <2>1 DEF PruneHistory, DeleteHistory
  <2>2. CASE Work(k)
    BY <2>2 DEF Work, Progress, Log, LogAction, ParkForApproval, LogRefused, Step, ToolOk, ToolError,
                CommitStep, FailStep, Rollback, ScanCommitted, CompensateOk, CompensateError,
                RecordUndone, RecordOrphan, RecordInDlq, RecordDlq, EndRollback, Recovery,
                RecoverSession, FailOrphan, SettleSession
  <2>3. QED
    BY <2>1, <2>2, ServerKeepsRows
<1>2. QED
  BY <1>1, PTL DEF McpSpec, LettersKept

-----------------------------------------------------------------------------
(* What stands when a request has failed. *)

(* Marking the row at hand settles it; the others stay as they are. *)
LEMMA MarkedSettles ==
    ASSUME McpTypeOK, NEW k \in Kernel, NEW c \in ActionId, c = call[k].cur, UnsettledRow(k, c),
           NEW i \in ActionId, UnsettledRow(k, i),
           \/ MarkCommitted(c)
           \/ MarkCompensated(c) /\ world[c] = "undone"
           \/ MarkFailed(c) /\ world[c] = "absent"
           \/ MarkFailed(c) /\ pc'[k] = "dlq" /\ call'[k].cur = c,
           pc[k] # "dlq", UNCHANGED <<world, dlq>>
    PROVE  UnsettledRow(k, i)'
<1>1. actions \in [ActionId -> Row] /\ world \in [ActionId -> {"absent", "applied", "undone"}]
  BY KernelTypes
<1>2. CASE i = c
  <2>1. /\ Status(i)' \in {"COMMITTED", "COMPENSATED", "FAILED"}
        /\ MarkCommitted(c) => Status(i)' = "COMMITTED"
    BY <1>1, <1>2 DEF MarkCommitted, MarkCompensated, MarkFailed, Status, Row
  <2>2. \/ Status(i)' = "COMMITTED"
        \/ world'[i] # "applied"
        \/ pc'[k] = "dlq" /\ call'[k].cur = i
    BY <1>2, <2>1
  <2>3. QED
    BY <2>1, <2>2 DEF UnsettledRow
<1>3. CASE i # c
  <2>1. actions'[i] = actions[i]
    BY <1>1, <1>3 DEF MarkCommitted, MarkCompensated, MarkFailed
  <2>2. /\ Status(i) # "PENDING"
        /\ Status(i) # "NONE" /\ world[i] = "applied" => Status(i) = "COMMITTED" \/ i \in dlq
    BY <1>3 DEF UnsettledRow
  <2>3. QED
    BY <2>1, <2>2 DEF UnsettledRow, Status
<1>4. QED
  BY <1>2, <1>3

LEMMA UnsettledStep ==
    ASSUME McpTypeOK, GatewayInv, NEW k \in Kernel, McpStep(k), ~Restart(k), MaxFaults = 0,
           \A j \in ActionId : UnsettledRow(k, j), NEW i \in ActionId
    PROVE  UnsettledRow(k, i)'
<1>1. /\ UnsettledRow(k, i) /\ RequestOK(k) /\ AtRow(k) /\ LoopLeft(k) /\ RowShape(i)
      /\ actions \in [ActionId -> Row] /\ call[k].todo \subseteq ActionId
      /\ world \in [ActionId -> {"absent", "applied", "undone"}] /\ nrows \in Nat
  BY KernelTypes DEF GatewayInv
<1>2. CASE ~Work(k)
  <2>1. pc[k] = "idle"
    BY <1>1, <1>2, ServerPoint
  <2>2. CASE PruneHistory(k)
    <3>1. PICK old : DeleteHistory(old)
      BY <2>2 DEF PruneHistory
    <3>2. actions'[i] = NoRow \/ actions'[i] = actions[i]
      BY <3>1 DEF DeleteHistory
    <3>3. dlq' = dlq /\ world' = world
      BY <2>2, <3>1 DEF PruneHistory, DeleteHistory
    <3>4. QED
      BY <1>1, <2>1, <3>2, <3>3 DEF UnsettledRow, Status, NoRow
  <2>3. CASE ~PruneHistory(k)
    <3>1. UNCHANGED <<actions, world, dlq>>
      BY <1>2, <2>3, ServerKeepsRows
    <3>2. QED
      BY <1>1, <2>1, <3>1 DEF UnsettledRow, Status
  <2>4. QED
    BY <2>2, <2>3
<1>3. CASE LogAction(k)
  <2>1. /\ actions'[nrows'] = [session |-> request[k].sess, seq |-> call[k].seq,
                               tool |-> request[k].tool, key |-> call[k].key,
                               status |-> "PENDING", out |-> FALSE]
        /\ i # nrows' => actions'[i] = actions[i]
        /\ call'[k].cur = nrows' /\ nrows' = nrows + 1 /\ pc'[k] = "execute"
        /\ UNCHANGED <<world, dlq>>
    BY <1>1, <1>3, LoggedRow
  <2>2. CASE i = nrows'
    <3>1. world'[i] = "absent"
      BY <1>1, <2>1, <2>2 DEF RowShape
    <3>2. QED
      BY <2>1, <2>2, <3>1 DEF UnsettledRow, Status
  <2>3. CASE i # nrows'
    <3>1. pc[k] = "log"
      BY <1>3 DEF LogAction
    <3>2. QED
      BY <1>1, <2>1, <2>3, <3>1 DEF UnsettledRow, Status
  <2>4. QED
    BY <2>2, <2>3
<1>4. CASE ToolOk(k) \/ ToolError(k)
  <2>1. /\ pc[k] = "execute" /\ UNCHANGED <<actions, dlq, call>>
        /\ \/ pc'[k] = "fail" /\ world' = world
           \/ pc'[k] = "commit" /\ world' = [world EXCEPT ![call[k].cur] = "applied"]
    BY <1>4, KernelTypes DEF ToolOk, ToolError, Goto
  <2>2. i # call[k].cur => world'[i] = world[i]
    BY <1>1, <2>1
  <2>3. i = call[k].cur => world'[i] # "applied" \/ pc'[k] = "commit"
    BY <1>1, <2>1 DEF AtRow
  <2>4. QED
    BY <1>1, <2>1, <2>2, <2>3 DEF UnsettledRow, Status
<1>5. CASE CommitStep(k) \/ FailStep(k)
  <2>1. /\ call[k].cur \in ActionId /\ pc[k] # "dlq" /\ UNCHANGED <<world, dlq>>
        /\ \/ MarkCommitted(call[k].cur)
           \/ MarkFailed(call[k].cur) /\ world[call[k].cur] = "absent"
    <3>1. ~Fault
      BY DEF Fault, McpTypeOK, TypeOK
    <3>2. QED
      BY <1>1, <1>5, <3>1 DEF CommitStep, FailStep, AtRow
  <2>2. QED
    BY <1>1, <2>1, MarkedSettles
<1>6. CASE CompensateOk(k) \/ CompensateError(k)
  <2>1. /\ pc[k] = "compensate" /\ UNCHANGED <<actions, dlq>>
        /\ world' = world \/ world' = [world EXCEPT ![call'[k].cur] = "undone"]
    BY <1>6, CompensatedRow DEF CompensateOk, CompensateError
  <2>2. world'[i] = "applied" => world[i] = "applied"
    BY <1>1, <2>1
  <2>3. QED
    BY <1>1, <2>1, <2>2 DEF UnsettledRow, Status
<1>7. CASE RecordUndone(k) \/ RecordOrphan(k)
  <2>1. /\ call[k].cur \in ActionId /\ pc[k] # "dlq" /\ UNCHANGED <<world, dlq>>
    BY <1>1, <1>7 DEF RecordUndone, RecordOrphan, GatewayInv, CursorOK
  <2>2. \/ MarkCompensated(call[k].cur) /\ world[call[k].cur] = "undone"
        \/ MarkFailed(call[k].cur) /\ pc'[k] = "dlq" /\ call'[k].cur = call[k].cur
    <3>1. CASE RecordUndone(k)
      BY <1>1, <3>1 DEF RecordUndone, AtRow
    <3>2. CASE RecordOrphan(k)
      BY <3>2, KernelTypes DEF RecordOrphan, MarkCompensationFailed, Goto
    <3>3. QED
      BY <1>7, <3>1, <3>2
  <2>3. QED
    BY <1>1, <2>1, <2>2, MarkedSettles
<1>8. CASE RecordInDlq(k)
  BY <1>1, <1>8 DEF RecordInDlq, RecordDlq, UnsettledRow, Status
<1>9. CASE LogRefused(k) \/ ScanCommitted(k) \/ EndRollback(k)
  <2>1. pc[k] \in {"log", "scan", "end"} /\ UNCHANGED <<actions, world, dlq>>
    BY <1>9 DEF LogRefused, ScanCommitted, EndRollback
  <2>2. QED
    BY <1>1, <2>1 DEF UnsettledRow, Status
<1>10. ~Recovery(k)
  BY <1>1 DEF Recovery, RecoverSession, FailOrphan, SettleSession, RequestOK, StepLabel, LoopLabels
<1>11. QED
  BY <1>2, <1>3, <1>4, <1>5, <1>6, <1>7, <1>8, <1>9, <1>10, NothingParked
  DEF Work, Progress, Log, Step, Rollback

LEMMA EndedStep ==
    ASSUME McpTypeOK, GatewayInv, NEW k \in Kernel, McpStep(k), ~Restart(k), EndedRequest(k)
    PROVE  EndedRequest(k)'
<1>1. /\ RequestOK(k) /\ LoopLeft(k)
      /\ fsm \in [Kernel -> AgentState] /\ request \in [Kernel -> Request]
      /\ call \in [Kernel -> Call] /\ pc \in [Kernel -> Label]
  BY KernelTypes DEF GatewayInv, McpTypeOK
<1>2. CASE fsm'[k].mode # "Failed"
  BY <1>2 DEF EndedRequest
<1>3. CASE pc'[k] # "idle"
  BY <1>3 DEF EndedRequest
<1>4. CASE request'[k].phase \in {"authorize", "execute"}
  BY <1>4 DEF EndedRequest
<1>5. CASE UNCHANGED <<pc, fsm, actions>> /\ request[k].phase = "running" /\ request'[k].sess = request[k].sess
  <2>1. Committed(request[k].sess)' = Committed(request[k].sess)
    BY <1>5 DEF Committed, WithStatus, Rows
  <2>2. QED
    BY <1>5, <2>1 DEF EndedRequest
<1>6. CASE Respond(k)
  BY <1>1, <1>5, <1>6 DEF Respond, Answer, vars
<1>7. CASE RefuseAtStepZero(k)
  BY <1>1, <1>2, <1>7 DEF RefuseAtStepZero, RequestOK, Executing, vars
<1>8. CASE AnswerFromCache(k)
  <2>1. fsm'[k] = PlainState("Verifying")
    BY <1>1, <1>8 DEF AnswerFromCache, ReturnCached, CanExecuteTool, Fire, Transition, Accepts,
                      Target, Plain
  <2>2. QED
    BY <1>2, <2>1 DEF PlainState
<1>9. CASE PruneHistory(k)
  <2>1. PICK old : DeleteHistory(old)
    BY <1>9 DEF PruneHistory
  <2>2. Committed(request[k].sess)' \subseteq Committed(request[k].sess)
    BY <1>9, <2>1 DEF PruneHistory, DeleteHistory, Committed, WithStatus, Rows, NoRow
  <2>3. UNCHANGED <<pc, fsm, request>>
    BY <1>9 DEF PruneHistory
  <2>4. QED
    BY <2>2, <2>3 DEF EndedRequest
<1>10. CASE (\E t \in Tool, s \in Session, key \in Key \cup {NoKey} : ToolsCall(k, t, s, key))
             \/ AuthorizeIdle(k) \/ AuthorizeTool(k) \/ AlreadyAuthorized(k) \/ ResetSaga(k)
  <2>1. request'[k].phase \in {"authorize", "execute"}
    <3>1. CASE \E t \in Tool, s \in Session, key \in Key \cup {NoKey} : ToolsCall(k, t, s, key)
      BY <1>1, <3>1 DEF ToolsCall
    <3>2. CASE AuthorizeIdle(k) \/ ResetSaga(k)
      BY <3>2 DEF AuthorizeIdle, ResetSaga
    <3>3. CASE AuthorizeTool(k) \/ AlreadyAuthorized(k)
      <4>1. request' = [request EXCEPT ![k].phase = "execute"]
        BY <3>3 DEF AuthorizeTool, AlreadyAuthorized, Phase
      <4>2. QED
        BY <1>1, <4>1 DEF Request
    <3>4. QED
      BY <1>10, <3>1, <3>2, <3>3
  <2>2. QED
    BY <1>4, <2>1
<1>11. CASE Dispatch(k)
  BY <1>1, <1>3, <1>11 DEF Dispatch, ExecuteTool, Goto
<1>12. CASE LogRefused(k)
  <2>1. fsm' = fsm /\ fsm[k].mode = "ExecutingTool"
    BY <1>1, <1>12 DEF LogRefused, RequestOK, StepLabel, Executing
  <2>2. QED
    BY <1>2, <2>1
<1>13. CASE CommitStep(k)
  <2>1. fsm[k].mode = "ExecutingTool"
    BY <1>1, <1>13 DEF CommitStep, RequestOK, StepLabel, Executing
  <2>2. fsm'[k] = PlainState("Verifying")
    BY <1>1, <1>13, <2>1 DEF CommitStep, Fire, Transition, Accepts, Target, Plain
  <2>3. QED
    BY <1>2, <2>2 DEF PlainState
<1>14. CASE Work(k) /\ EndRollback(k)
  <2>1. Committed(request[k].sess) = {}
    BY <1>1, <1>14 DEF EndRollback, RequestOK, LoopLeft, LoopLabels
  <2>2. actions' = actions /\ request' = request
    BY <1>14 DEF EndRollback, Work
  <2>3. Committed(request[k].sess)' = Committed(request[k].sess)
    BY <2>2 DEF Committed, WithStatus, Rows
  <2>4. QED
    BY <2>1, <2>3 DEF EndedRequest
<1>15. CASE LogAction(k) \/ ToolOk(k) \/ ToolError(k) \/ FailStep(k) \/ ScanCommitted(k)
             \/ CompensateOk(k) \/ CompensateError(k) \/ RecordUndone(k) \/ RecordOrphan(k)
             \/ RecordInDlq(k)
  <2>1. pc'[k] \in {"execute", "commit", "fail", "scan", "undone", "orphan", "dlq", "compensate", "end"}
    BY <1>1, <1>15
    DEF LogAction, ToolOk, ToolError, FailStep, ScanCommitted, CompensateOk, CompensateError,
        RecordUndone, RecordOrphan, RecordInDlq, NextRow, LoopLabel, Goto
  <2>2. QED
    BY <1>3, <2>1
<1>16. ~Recovery(k)
  BY <1>1 DEF Recovery, RecoverSession, FailOrphan, SettleSession, RequestOK, StepLabel, LoopLabels
<1>17. QED
  BY <1>6, <1>7, <1>8, <1>9, <1>10, <1>11, <1>12, <1>13, <1>14, <1>15, <1>16, NothingParked
  DEF McpStep, Serve, Work, Progress, Log, Step, Rollback

LEMMA SettledStep ==
    ASSUME MaxFaults = 0, GatewayInv, SettledInv, [McpNext]_mcpVars
    PROVE  SettledInv'
<1>1. CASE UNCHANGED mcpVars
  BY <1>1 DEF SettledInv, mcpVars, vars, EndedRequest, UnsettledRow, Status, Committed, WithStatus,
              Rows
<1>2. CASE McpNext
  <2>1. PICK k \in Kernel : McpStep(k)
    BY <1>2 DEF McpNext, McpStep
  <2>2. McpTypeOK /\ crashes \in Nat
    BY KernelAssumption DEF GatewayInv, McpTypeOK, TypeOK
  <2>3. CASE Restart(k)
    <3>1. crashes' # 0
      BY <2>2, <2>3 DEF Restart, Crash
    <3>2. QED
      BY <3>1 DEF SettledInv
  <2>4. CASE ~Restart(k)
    <3>1. crashes' = crashes
      BY <2>1, <2>4
      DEF McpStep, Serve, ToolsCall, AuthorizeIdle, BeginPlanning, AuthorizeTool, BeginTool,
          AlreadyAuthorized, ResetSaga, RefuseAtStepZero, AnswerFromCache, ReturnCached, Dispatch,
          ExecuteTool, Respond, PruneHistory, vars, Work, Progress, Log, LogAction,
          ParkForApproval, LogRefused, Step, ToolOk, ToolError, CommitStep, FailStep, Rollback,
          ScanCommitted, CompensateOk, CompensateError, RecordUndone, RecordOrphan, RecordInDlq,
          EndRollback, Recovery, RecoverSession, FailOrphan, SettleSession
    <3>2. SUFFICES ASSUME crashes = 0
                   PROVE  \A j \in Kernel : /\ EndedRequest(j)'
                                            /\ \A i \in ActionId : UnsettledRow(j, i)'
      BY <3>1 DEF SettledInv
    <3>3. EndedRequest(k) /\ \A i \in ActionId : UnsettledRow(k, i)
      BY <3>2 DEF SettledInv
    <3>4. EndedRequest(k)' /\ \A i \in ActionId : UnsettledRow(k, i)'
      BY <2>1, <2>2, <2>4, <3>3, EndedStep, UnsettledStep
    <3>5. QED
      BY <3>4, OneKernel
  <2>5. QED
    BY <2>3, <2>4
<1>3. QED
  BY <1>1, <1>2

(* While no process dies and no statement fails, a request that is         *)
(* answered with the kernel in Failed has settled the session it named,    *)
(* whichever session that is, and retention changes nothing about it: the  *)
(* rollback of execute_protected is of the session of the row, and no      *)
(* other row of it is open.                                                *)
THEOREM FailedRequestsSettled ==
    ASSUME MaxFaults = 0
    PROVE  McpSpec => []FailedRequestSettled
<1>1. McpInit => SettledInv
  BY DEF McpInit, Init, WalInit, NoRow, Idle, PlainState, SettledInv, EndedRequest, UnsettledRow,
         Status
<1>2. GatewayInv /\ SettledInv /\ [McpNext]_mcpVars => SettledInv'
  BY SettledStep
<1>3. GatewayInv /\ SettledInv => FailedRequestSettled
  <2> SUFFICES ASSUME GatewayInv, SettledInv, NEW k \in Kernel, crashes = 0, Answered(k),
                      fsm[k].mode = "Failed", NEW i \in Rows(request[k].sess)
               PROVE  /\ Status(i) \in {"COMPENSATED", "FAILED"}
                      /\ world[i] = "applied" => i \in dlq
    BY DEF FailedRequestSettled
  <2>1. /\ RequestOK(k) /\ RowShape(i) /\ EndedRequest(k) /\ UnsettledRow(k, i)
        /\ i \in ActionId /\ actions[i].session = request[k].sess /\ request[k].sess \in Session
        /\ actions[i] \in Row
    BY KernelTypes DEF GatewayInv, SettledInv, Rows, McpTypeOK, Request
  <2>2. pc[k] = "idle" /\ Committed(request[k].sess) = {}
    BY <2>1 DEF Answered, RequestOK, EndedRequest
  <2>3. Status(i) \notin {"PENDING", "COMMITTED", "NONE", "PENDING_APPROVAL"}
    BY <2>1, <2>2, WalAssumption
    DEF UnsettledRow, Committed, WithStatus, Status, RowShape
  <2>4. Status(i) \in {"COMPENSATED", "FAILED"}
    BY <2>1, <2>3 DEF Status, Row, ActionStatus
  <2>5. QED
    BY <2>1, <2>2, <2>4 DEF UnsettledRow
<1>4. QED
  BY <1>1, <1>2, <1>3, GatewayInvariant, PTL DEF McpSpec

-----------------------------------------------------------------------------
(* The workspace: its steps are steps of the gateway.                      *)
USE DEF workVars

WsStep(k) ==
    \/ \E t \in Tool, s \in Session, key \in Key \cup {NoKey} : RequestWith(k, t, s, key)
    \/ ServeRequest(k) \/ Prune(k) \/ RestartServer(k)

LEMMA WorkspaceSteps ==
    ASSUME NEW k \in Kernel, WsStep(k)
    PROVE  McpStep(k)
<1>1. CASE \E t \in Tool, s \in Session, key \in Key \cup {NoKey} : RequestWith(k, t, s, key)
  BY <1>1 DEF RequestWith, McpStep
<1>2. CASE Authorize(k) \/ Reset(k) \/ Refuse(k) \/ Accept(k) \/ Reply(k)
  BY <1>2 DEF Authorize, Reset, Refuse, Accept, Reply, McpStep, Serve
<1>3. CASE Prune(k) \/ RestartServer(k)
  BY <1>3 DEF Prune, RestartServer, McpStep
<1>4. CASE LogRow(k) \/ WriteFile(k) \/ WriteFails(k) \/ Pay(k) \/ Compensate(k)
            \/ CompensateFails(k) \/ Record(k)
  <2>1. Work(k)
    BY <1>4 DEF LogRow, WriteFile, WriteFails, Pay, Compensate, CompensateFails, Record, Work,
                Progress, Step, Rollback
  <2>2. QED
    BY <2>1 DEF McpStep, Serve
<1>5. QED
  BY <1>1, <1>2, <1>3, <1>4 DEF WsStep, ServeRequest

LEMMA WorkspaceIsGateway == WsSpec => McpSpec
<1>1. WsInit => McpInit
  BY DEF WsInit
<1>2. [WsNext]_wsVars => [McpNext]_mcpVars
  <2> SUFFICES ASSUME [WsNext]_wsVars PROVE [McpNext]_mcpVars
    OBVIOUS
  <2>1. CASE UNCHANGED wsVars
    BY <2>1 DEF wsVars
  <2>2. CASE WsNext
    <3>1. PICK k \in Kernel : WsStep(k)
      BY <2>2 DEF WsNext, WsStep
    <3>2. McpStep(k)
      BY <3>1, WorkspaceSteps
    <3>3. QED
      BY <3>2 DEF McpNext, McpStep
  <2>3. QED
    BY <2>1, <2>2
<1>3. QED
  BY <1>1, <1>2, PTL DEF WsSpec, McpSpec

(* What a step leaves of a row, unless it inserts one: nothing, or its     *)
(* session and tool; and it is COMMITTED or COMPENSATED where the call was *)
(* at it.                                                                  *)
LEMMA RowHistory ==
    ASSUME GatewayInv, NEW k \in Kernel, McpStep(k), ~LogAction(k), NEW i \in ActionId
    PROVE  /\ nrows' = nrows
           /\ \/ actions'[i] = NoRow
              \/ actions'[i].tool = actions[i].tool /\ actions'[i].session = actions[i].session
           /\ Status(i)' = "COMPENSATED" =>
                 Status(i) = "COMPENSATED" \/ (pc[k] = "undone" /\ call[k].cur = i)
           /\ Status(i)' = "COMMITTED" =>
                 Status(i) = "COMMITTED" \/ (pc[k] = "commit" /\ call[k].cur = i)
<1>1. McpTypeOK /\ RequestOK(k) /\ AtRow(k) /\ actions \in [ActionId -> Row]
  BY KernelTypes DEF GatewayInv
<1>2. CASE UNCHANGED <<actions, nrows>>
  BY <1>2 DEF Status
<1>3. CASE PruneHistory(k)
  <2>1. PICK old : DeleteHistory(old)
    BY <1>3 DEF PruneHistory
  <2>2. actions'[i] = NoRow \/ actions'[i] = actions[i]
    BY <2>1 DEF DeleteHistory
  <2>3. QED
    BY <2>1, <2>2 DEF DeleteHistory, Status, NoRow
<1>4. ASSUME NEW c \in ActionId, c = call[k].cur, nrows' = nrows,
             NEW st \in {"COMMITTED", "FAILED", "COMPENSATED"},
             \/ st = "COMMITTED" /\ MarkCommitted(c) /\ pc[k] = "commit"
             \/ st = "FAILED" /\ MarkFailed(c)
             \/ st = "COMPENSATED" /\ MarkCompensated(c) /\ pc[k] = "undone"
      PROVE  /\ actions'[i].tool = actions[i].tool /\ actions'[i].session = actions[i].session
             /\ Status(i)' = "COMPENSATED" =>
                   Status(i) = "COMPENSATED" \/ (pc[k] = "undone" /\ call[k].cur = i)
             /\ Status(i)' = "COMMITTED" =>
                   Status(i) = "COMMITTED" \/ (pc[k] = "commit" /\ call[k].cur = i)
  <2>1. /\ Status(c)' = st
        /\ actions'[i].session = actions[i].session /\ actions'[i].tool = actions[i].tool
        /\ i # c => actions'[i] = actions[i]
    BY <1>1, <1>4, MarkedRow
  <2>2. CASE i = c
    BY <1>4, <2>1, <2>2 DEF Status
  <2>3. CASE i # c
    BY <2>1, <2>3 DEF Status
  <2>4. QED
    BY <2>2, <2>3
<1>5. CASE CommitStep(k) \/ FailStep(k)
  <2>1. call[k].cur \in ActionId /\ nrows' = nrows
    BY <1>1, <1>5 DEF CommitStep, FailStep, AtRow
  <2>2. CASE CommitStep(k)
    BY <1>4, <2>1, <2>2 DEF CommitStep
  <2>3. CASE FailStep(k)
    BY <1>2, <1>4, <2>1, <2>3 DEF FailStep
  <2>4. QED
    BY <1>5, <2>2, <2>3
<1>6. CASE RecordUndone(k) \/ RecordOrphan(k)
  <2>1. call[k].cur \in ActionId /\ nrows' = nrows
    BY <1>1, <1>6, KernelTypes DEF RecordUndone, RecordOrphan, GatewayInv, CursorOK
  <2>2. CASE RecordUndone(k)
    BY <1>4, <2>1, <2>2 DEF RecordUndone
  <2>3. CASE RecordOrphan(k)
    BY <1>4, <2>1, <2>3 DEF RecordOrphan, MarkCompensationFailed
  <2>4. QED
    BY <1>6, <2>2, <2>3
<1>7. CASE LogRefused(k) \/ ToolOk(k) \/ ToolError(k) \/ ScanCommitted(k) \/ CompensateOk(k)
            \/ CompensateError(k) \/ RecordInDlq(k) \/ EndRollback(k)
  BY <1>2, <1>7 DEF LogRefused, ToolOk, ToolError, ScanCommitted, CompensateOk, CompensateError,
                    RecordInDlq, EndRollback
<1>8. ~Recovery(k)
  BY <1>1 DEF Recovery, RecoverSession, FailOrphan, SettleSession, RequestOK, StepLabel, LoopLabels
<1>9. QED
  BY <1>2, <1>3, <1>5, <1>6, <1>7, <1>8, NothingParked, ServerKeepsRows
  DEF Work, Progress, Log, Step, Rollback

(* How the call comes to its points. *)
LEMMA PointHistory ==
    ASSUME GatewayInv, NEW k \in Kernel, McpStep(k)
    PROVE  /\ pc'[k] = "undone" => CompensateOk(k)
           /\ pc'[k] = "commit" => ToolOk(k)
           /\ pc'[k] = "execute" => LogAction(k)
           /\ pc'[k] = "fail" => ToolError(k)
<1>1. McpTypeOK /\ RequestOK(k) /\ pc \in [Kernel -> Label]
  BY KernelTypes DEF GatewayInv
<1>2. CASE ~Work(k)
  BY <1>1, <1>2, ServerPoint
<1>3. CASE LogAction(k) \/ ToolOk(k) \/ ToolError(k) \/ CompensateOk(k)
  BY <1>1, <1>3 DEF LogAction, ToolOk, ToolError, CompensateOk, Goto
<1>4. CASE LogRefused(k) \/ CommitStep(k) \/ FailStep(k) \/ ScanCommitted(k) \/ CompensateError(k)
            \/ RecordUndone(k) \/ RecordOrphan(k) \/ RecordInDlq(k)
  <2>1. pc'[k] \in {"idle", "scan", "end", "compensate", "orphan", "dlq"}
    BY <1>1, <1>4
    DEF LogRefused, CommitStep, FailStep, ScanCommitted, CompensateError, RecordUndone,
        RecordOrphan, RecordInDlq, NextRow, LoopLabel, Return, Goto
  <2>2. QED
    BY <2>1
<1>5. CASE EndRollback(k)
  BY <1>1, <1>5 DEF EndRollback, FinishRollback, ReturnToCaller, Return, Goto
<1>6. ~Recovery(k)
  BY <1>1 DEF Recovery, RecoverSession, FailOrphan, SettleSession, RequestOK, StepLabel, LoopLabels
<1>7. QED
  BY <1>2, <1>3, <1>4, <1>5, <1>6, NothingParked DEF Work, Progress, Log, Step, Rollback

-----------------------------------------------------------------------------
(* The kinds of a step of the workspace.                                   *)

(* Nothing happens to files, effects and targets; the payment ledger stays *)
(* with the saga, or both are new.                                         *)
Quiet(k) ==
    /\ ~LogAction(k) /\ ~ToolOk(k) /\ ~CompensateOk(k)
    /\ UNCHANGED <<disk, target, world>>
    /\ \/ ledger' = ledger /\ session_id' = session_id
       \/ ledger' = EmptyLedger /\ NewSession(k) /\ pc'[k] = "idle"

LEMMA WorkspaceKinds ==
    ASSUME GatewayInv, NEW k \in Kernel, WsStep(k)
    PROVE  \/ Quiet(k)
           \/ LogRow(k) /\ LogAction(k)
           \/ WriteFile(k) \/ WriteFails(k) \/ Pay(k) \/ Compensate(k)
<1>1. McpTypeOK /\ RequestOK(k) /\ pc \in [Kernel -> Label] /\ McpStep(k)
  BY KernelTypes, WorkspaceSteps DEF GatewayInv
<1>2. CASE (\E t \in Tool, s \in Session, key \in Key \cup {NoKey} : RequestWith(k, t, s, key))
            \/ Authorize(k) \/ Reset(k) \/ Refuse(k) \/ Accept(k) \/ Reply(k) \/ Prune(k)
            \/ RestartServer(k)
  <2>1. ~LogAction(k) /\ ~ToolOk(k) /\ ~CompensateOk(k)
    <3>1. CASE RestartServer(k)
      <4>1. pc'[k] = "idle"
        BY <1>1, <3>1 DEF RestartServer, Restart, Crash, Return, Goto
      <4>2. QED
        BY <1>1, <4>1 DEF LogAction, ToolOk, CompensateOk, Goto
    <3>2. CASE ~RestartServer(k)
      <4>1. pc[k] = "idle"
        BY <1>1, <1>2, <3>2
        DEF RequestWith, ToolsCall, Answered, Authorize, AuthorizeIdle, AuthorizeTool,
            AlreadyAuthorized, Reset, ResetSaga, Refuse, RefuseAtStepZero, Accept, AnswerFromCache,
            Dispatch, Reply, Respond, Running, Prune, PruneHistory, RequestOK
      <4>2. QED
        BY <4>1 DEF LogAction, ToolOk, CompensateOk
    <3>3. QED
      BY <3>1, <3>2
  <2>2. UNCHANGED <<disk, target, world>>
    BY <1>2
    DEF RequestWith, ToolsCall, Authorize, AuthorizeIdle, BeginPlanning, AuthorizeTool, BeginTool,
        AlreadyAuthorized, Reset, ResetSaga, Refuse, RefuseAtStepZero, Accept, AnswerFromCache,
        ReturnCached, Dispatch, ExecuteTool, Reply, Respond, Prune, PruneHistory, RestartServer,
        Restart, Crash, vars
  <2>3. CASE Reset(k) \/ RestartServer(k)
    <3>1. ledger' = EmptyLedger /\ NewSession(k)
      BY <2>3 DEF Reset, ResetSaga, RestartServer, Restart
    <3>2. pc'[k] = "idle"
      BY <1>1, <2>3 DEF Reset, ResetSaga, RequestOK, RestartServer, Restart, Crash, Return, Goto
    <3>3. QED
      BY <2>1, <2>2, <3>1, <3>2 DEF Quiet
  <2>4. CASE ~(Reset(k) \/ RestartServer(k))
    <3>1. ledger' = ledger /\ session_id' = session_id
      BY <1>2, <2>4
      DEF RequestWith, ToolsCall, Authorize, AuthorizeIdle, AuthorizeTool, AlreadyAuthorized,
          Refuse, RefuseAtStepZero, Accept, AnswerFromCache, Dispatch, Reply, Respond, Prune,
          PruneHistory
    <3>2. QED
      BY <2>1, <2>2, <3>1 DEF Quiet
  <2>5. QED
    BY <2>3, <2>4
<1>3. CASE LogRow(k) /\ ~LogAction(k)
  <2>1. LogRefused(k)
    BY <1>3, NothingParked DEF LogRow, Log
  <2>2. nrows' = nrows /\ world' = world /\ pc[k] = "log"
    BY <2>1 DEF LogRefused
  <2>3. QED
    BY <1>3, <2>2 DEF LogRow, Quiet, ToolOk, CompensateOk
<1>4. CASE CompensateFails(k) \/ Record(k)
  <2>1. UNCHANGED <<disk, target, ledger, session_id>>
    BY <1>4 DEF CompensateFails, Record
  <2>2. world' = world
    BY <1>4 DEF CompensateFails, CompensateError, Record, CommitStep, FailStep, ScanCommitted,
                RecordUndone, RecordOrphan, RecordInDlq, EndRollback
  <2>3. ~LogAction(k) /\ ~ToolOk(k)
    BY <1>4 DEF CompensateFails, CompensateError, Record, CommitStep, FailStep, ScanCommitted,
                RecordUndone, RecordOrphan, RecordInDlq, EndRollback, LogAction, ToolOk
  <2>4. ~CompensateOk(k)
    <3>1. CASE CompensateFails(k)
      BY <1>1, <3>1 DEF CompensateFails, CompensateError, CompensateOk, Goto
    <3>2. CASE Record(k)
      BY <3>2 DEF Record, CommitStep, FailStep, ScanCommitted, RecordUndone, RecordOrphan,
                  RecordInDlq, EndRollback, CompensateOk
    <3>3. QED
      BY <1>4, <3>1, <3>2
  <2>5. QED
    BY <2>1, <2>2, <2>3, <2>4 DEF Quiet
<1>5. QED
  BY <1>2, <1>3, <1>4 DEF WsStep, ServeRequest

(* The row that is inserted is about what the request said, or about a     *)
(* payment id made for it.                                                 *)
LEMMA LoggedTarget ==
    ASSUME WorkspaceInv, NEW k \in Kernel, LogRow(k), LogAction(k)
    PROVE  /\ target' = [target EXCEPT ![nrows'] = TargetOf(k)]
           /\ request[k].tool = fs_write =>
                 TargetOf(k) = FileOf[arg[k]] /\ TargetOf(k) \in File
           /\ request[k].tool = mock_pay => TargetOf(k) \in PaymentId
           /\ UNCHANGED <<disk, ledger, arg, gatewayVars>>
<1>1. /\ RequestOK(k) /\ AtRow(k) /\ McpTypeOK /\ ArgumentOK(k) /\ pc[k] = "log"
      /\ nrows \in Nat /\ call[k].seq \in Nat
  BY KernelTypes DEF WorkspaceInv, GatewayInv, WorkInv, LogAction
<1>2. arg[k] \in ArgsOf(request[k].tool) /\ request[k].tool \in Tool
  BY <1>1 DEF RequestOK, ArgumentOK
<1>3. nrows' # nrows
  <2>1. nrows' = nrows + 1
    BY DEF LogAction, InsertAction
  <2>2. QED
    BY <1>1, <2>1
<1>4. CASE request[k].tool = fs_write
  <2>1. arg[k] \in PathArg
    BY <1>2, <1>4 DEF ArgsOf
  <2>2. TargetOf(k) = FileOf[arg[k]] /\ FileOf[arg[k]] \in File
    BY <1>4, <2>1, WorkspaceAssumption DEF TargetOf, File
  <2>3. QED
    BY <1>3, <1>4, <2>2, WorkspaceAssumption DEF LogRow
<1>5. CASE request[k].tool = mock_pay
  <2>1. call[k].sess \in Session
    BY <1>1 DEF RequestOK, McpTypeOK, Request
  <2>2. call[k].seq \in 0 .. MaxActions - 1
    BY <1>1, WalAssumption DEF AtRow, LogAction, InsertAction
  <2>3. <<call[k].sess, call[k].seq>> \in PaymentId
    BY <2>1, <2>2 DEF PaymentId
  <2>4. arg[k] \in PaymentArg \cup {NoArg}
    BY <1>2, <1>5, WorkspaceAssumption DEF ArgsOf
  <2>5. TargetOf(k) = IF arg[k] = NoArg THEN <<call[k].sess, call[k].seq>> ELSE arg[k]
    BY <1>5, WorkspaceAssumption DEF TargetOf
  <2>6. TargetOf(k) \in PaymentId
    BY <2>3, <2>4, <2>5 DEF PaymentId
  <2>7. QED
    BY <1>3, <1>5, <2>6, WorkspaceAssumption DEF LogRow
<1>6. QED
  BY <1>2, <1>4, <1>5, WorkspaceAssumption

LEMMA WorkspaceTypeStep ==
    ASSUME WorkspaceInv, GatewayInv', NEW k \in Kernel, WsStep(k)
    PROVE  WorkspaceTypeOK'
<1>1. /\ arg \in [Kernel -> Argument]
      /\ target \in [ActionId -> File \cup PaymentId \cup {NoArg}]
      /\ disk \in [File -> {"absent", "foreign", "written"}]
      /\ ledger \in [PaymentId -> {"NONE", "CHARGED", "REFUNDED"}]
      /\ GatewayInv /\ RequestOK(k) /\ McpTypeOK'
  BY DEF WorkspaceInv, WorkInv, WorkspaceTypeOK, GatewayInv
<1>2. arg' \in [Kernel -> Argument]
  <2>1. CASE \E t \in Tool, s \in Session, key \in Key \cup {NoKey} : RequestWith(k, t, s, key)
    BY <1>1, <2>1 DEF RequestWith, ArgsOf, Argument
  <2>2. CASE Refuse(k) \/ Reply(k) \/ RestartServer(k)
    BY <1>1, <2>2 DEF Refuse, Reply, RestartServer, Argument
  <2>3. CASE Authorize(k) \/ Reset(k) \/ Accept(k) \/ Prune(k) \/ LogRow(k) \/ WriteFile(k)
              \/ WriteFails(k) \/ Pay(k) \/ Compensate(k) \/ CompensateFails(k) \/ Record(k)
    <3>1. arg' = arg
      BY <2>3 DEF Authorize, Reset, Accept, Prune, LogRow, WriteFile, WriteFails, Pay, Compensate,
                  CompensateFails, Record
    <3>2. QED
      BY <1>1, <3>1
  <2>4. QED
    BY <2>1, <2>2, <2>3 DEF WsStep, ServeRequest
<1>3. CASE Quiet(k)
  BY <1>1, <1>2, <1>3 DEF Quiet, WorkspaceTypeOK, EmptyLedger
<1>4. CASE LogRow(k) /\ LogAction(k)
  <2>1. TargetOf(k) \in File \cup PaymentId
    <3>1. request[k].tool \in Tool
      BY <1>1, <1>4 DEF RequestOK, LogAction
    <3>2. QED
      BY <1>4, <3>1, LoggedTarget, WorkspaceAssumption
  <2>2. target' \in [ActionId -> File \cup PaymentId \cup {NoArg}]
    BY <1>1, <1>4, <2>1, LoggedTarget
  <2>3. UNCHANGED <<disk, ledger>>
    BY <1>4, LoggedTarget
  <2>4. QED
    BY <1>1, <1>2, <2>2, <2>3 DEF WorkspaceTypeOK
<1>5. CASE WriteFile(k) \/ WriteFails(k)
  <2>1. disk' \in [File -> {"absent", "foreign", "written"}]
    BY <1>1, <1>5 DEF WriteFile, WriteFails
  <2>2. UNCHANGED <<target, ledger>>
    BY <1>5 DEF WriteFile, WriteFails
  <2>3. QED
    BY <1>1, <1>2, <2>1, <2>2 DEF WorkspaceTypeOK
<1>6. CASE Pay(k)
  <2>1. ledger' \in [PaymentId -> {"NONE", "CHARGED", "REFUNDED"}]
    BY <1>1, <1>6 DEF Pay, Charge
  <2>2. UNCHANGED <<target, disk>>
    BY <1>6 DEF Pay
  <2>3. QED
    BY <1>1, <1>2, <2>1, <2>2 DEF WorkspaceTypeOK
<1>7. CASE Compensate(k)
  <2>1. /\ disk' \in [File -> {"absent", "foreign", "written"}]
        /\ ledger' \in [PaymentId -> {"NONE", "CHARGED", "REFUNDED"}]
    BY <1>1, <1>7 DEF Compensate, RemoveFile, Refund
  <2>2. target' = target
    BY <1>7 DEF Compensate
  <2>3. QED
    BY <1>1, <1>2, <2>1, <2>2 DEF WorkspaceTypeOK
<1>8. QED
  BY <1>1, <1>3, <1>4, <1>5, <1>6, <1>7, WorkspaceKinds

(* The row at hand when a tool runs: it is the latest, open, and of the    *)
(* tool that runs.                                                         *)
LEMMA RunningRow ==
    ASSUME WorkspaceInv, NEW k \in Kernel, WriteFile(k) \/ WriteFails(k) \/ Pay(k)
    PROVE  /\ call[k].cur = nrows /\ call[k].cur \in ActionId /\ nrows \in Nat
           /\ Status(call[k].cur) = "PENDING" /\ world[call[k].cur] = "absent"
           /\ actions[call[k].cur].tool = request[k].tool
           /\ request[k].tool = fs_write => target[call[k].cur] = FileOf[arg[k]]
           /\ pc[k] = "execute" /\ request[k].phase = "running"
           /\ pc'[k] \in {"commit", "fail"}
           /\ UNCHANGED <<actions, nrows, call, fsm, target, arg, gatewayVars>>
           /\ WriteFails(k) => world' = world /\ pc'[k] = "fail"
           /\ WriteFile(k) \/ Pay(k) => world' = [world EXCEPT ![call[k].cur] = "applied"]
<1>1. /\ pc[k] = "execute" /\ UNCHANGED <<actions, nrows, call, fsm, target, arg, gatewayVars>>
      /\ \/ WriteFails(k) /\ ToolError(k)
         \/ (WriteFile(k) \/ Pay(k)) /\ ToolOk(k)
  BY DEF WriteFile, WriteFails, Pay, ToolOk, ToolError
<1>2. McpTypeOK /\ AtRow(k) /\ RequestOK(k) /\ ArgumentOK(k) /\ pc \in [Kernel -> Label] /\ nrows \in Nat
  BY KernelTypes DEF WorkspaceInv, GatewayInv, WorkInv
<1>3. pc'[k] = "commit" \/ pc'[k] = "fail"
  BY <1>1, <1>2 DEF ToolOk, ToolError, Goto
<1>4. /\ WriteFails(k) => world' = world /\ pc'[k] = "fail"
      /\ WriteFile(k) \/ Pay(k) => world' = [world EXCEPT ![call[k].cur] = "applied"]
  <2>1. CASE ToolError(k)
    <3>1. pc'[k] = "fail" /\ world' = world
      BY <1>2, <2>1 DEF ToolError, Goto
    <3>2. ~ToolOk(k)
      BY <1>2, <3>1 DEF ToolOk, Goto
    <3>3. QED
      BY <3>1, <3>2 DEF WriteFile, Pay
  <2>2. CASE ToolOk(k)
    <3>1. pc'[k] = "commit" /\ world' = [world EXCEPT ![call[k].cur] = "applied"]
      BY <1>2, <2>2 DEF ToolOk, Goto
    <3>2. ~ToolError(k)
      BY <1>2, <3>1 DEF ToolError, Goto
    <3>3. QED
      BY <3>1, <3>2 DEF WriteFails
  <2>3. QED
    BY <1>1, <2>1, <2>2
<1>5. /\ call[k].cur = nrows /\ call[k].cur \in ActionId
      /\ Status(call[k].cur) = "PENDING" /\ world[call[k].cur] = "absent"
      /\ actions[call[k].cur].tool = request[k].tool
  BY <1>1, <1>2 DEF AtRow
<1>6. /\ request[k].tool = fs_write => target[call[k].cur] = FileOf[arg[k]]
      /\ request[k].phase = "running"
  BY <1>1, <1>2 DEF ArgumentOK, RequestOK
<1>7. QED
  BY <1>1, <1>2, <1>3, <1>4, <1>5, <1>6

-----------------------------------------------------------------------------
(* The parts of the workspace's invariant.                                 *)

LEMMA ArgumentStep ==
    ASSUME WorkspaceInv, NEW k \in Kernel, WsStep(k)
    PROVE  ArgumentOK(k)'
<1>1. /\ GatewayInv /\ McpTypeOK /\ RequestOK(k) /\ AtRow(k) /\ ArgumentOK(k) /\ McpStep(k)
      /\ request \in [Kernel -> Request] /\ arg \in [Kernel -> Argument]
      /\ pc \in [Kernel -> Label]
  BY WorkspaceSteps, KernelTypes
  DEF WorkspaceInv, GatewayInv, WorkInv, WorkspaceTypeOK, McpTypeOK
<1>2. CASE \E t \in Tool, s \in Session, key \in Key \cup {NoKey} : RequestWith(k, t, s, key)
  <2> PICK t \in Tool, s \in Session, key \in Key \cup {NoKey} : RequestWith(k, t, s, key)
    BY <1>2
  <2>1. PICK a \in ArgsOf(t) : ToolsCall(k, t, s, key) /\ arg' = [arg EXCEPT ![k] = a]
    BY DEF RequestWith
  <2>2. /\ request'[k].phase = "authorize" /\ request'[k].tool = t /\ arg'[k] = a
        /\ pc'[k] = "idle"
    BY <1>1, <2>1 DEF ToolsCall, Answered, RequestOK, vars
  <2>3. QED
    BY <2>1, <2>2 DEF ArgumentOK, ArgsOf
<1>3. CASE request'[k].phase = "none" /\ pc'[k] = "idle"
  BY <1>3 DEF ArgumentOK
<1>4. CASE /\ request'[k].phase \in {"authorize", "execute"} /\ request[k].phase # "none"
           /\ request'[k].tool = request[k].tool /\ arg' = arg /\ pc'[k] = "idle"
  BY <1>1, <1>4 DEF ArgumentOK, ArgsOf
<1>5. CASE Refuse(k) \/ Reply(k) \/ RestartServer(k) \/ (Accept(k) /\ AnswerFromCache(k))
  <2>1. \E s \in Session : Answer(k, s)
    <3>1. CASE RestartServer(k)
      <4>1. session_id'[k] \in Session
        BY <1>1, <3>1 DEF RestartServer, Restart, NewSession, McpTypeOK
      <4>2. QED
        BY <3>1, <4>1 DEF RestartServer, Restart
    <3>2. CASE ~RestartServer(k)
      BY <1>1, <1>5, <3>2 DEF Refuse, RefuseAtStepZero, Reply, Respond, AnswerFromCache, Request
    <3>3. QED
      BY <3>1, <3>2
  <2>2. request'[k].phase = "none"
    BY <1>1, <2>1 DEF Answer
  <2>3. pc'[k] = "idle"
    <3>1. CASE RestartServer(k)
      BY <1>1, <3>1 DEF RestartServer, Restart, Crash, Return, Goto
    <3>2. CASE ~RestartServer(k)
      <4>1. RefuseAtStepZero(k) \/ Respond(k) \/ AnswerFromCache(k)
        BY <1>5, <3>2 DEF Refuse, Reply
      <4>2. pc' = pc
        BY <4>1 DEF RefuseAtStepZero, Respond, AnswerFromCache, ReturnCached, vars
      <4>3. pc[k] = "idle"
        BY <1>1, <4>1 DEF RefuseAtStepZero, Respond, AnswerFromCache, Running, RequestOK
      <4>4. QED
        BY <4>2, <4>3
    <3>3. QED
      BY <3>1, <3>2
  <2>4. QED
    BY <1>3, <2>2, <2>3
<1>6. CASE Authorize(k) \/ Reset(k)
  <2>1. /\ request[k].phase = "authorize" /\ arg' = arg /\ pc' = pc /\ pc[k] = "idle"
        /\ request' = request \/ request' = [request EXCEPT ![k].phase = "execute"]
    BY <1>1, <1>6 DEF Authorize, AuthorizeIdle, BeginPlanning, AuthorizeTool, BeginTool,
                      AlreadyAuthorized, Reset, ResetSaga, Phase, vars, RequestOK
  <2>2. /\ request'[k].phase \in {"authorize", "execute"}
        /\ request'[k].tool = request[k].tool
    BY <1>1, <2>1 DEF Request
  <2>3. QED
    BY <1>4, <2>1, <2>2
<1>7. CASE Accept(k) /\ Dispatch(k)
  <2>1. /\ request' = [request EXCEPT ![k].phase = "running"] /\ request[k].phase = "execute"
        /\ arg' = arg /\ pc'[k] = "log" /\ PassesGuard(k)
    BY <1>1, <1>7 DEF Accept, Dispatch, ExecuteTool, Phase, Goto
  <2>2. request'[k].phase = "running" /\ request'[k].tool = request[k].tool
    BY <1>1, <2>1 DEF Request
  <2>3. QED
    BY <1>1, <2>1, <2>2 DEF ArgumentOK, ArgsOf, PassesGuard
<1>8. CASE Prune(k)
  <2>1. UNCHANGED <<request, arg, pc, call, target>> /\ pc[k] = "idle"
    BY <1>1, <1>8 DEF Prune, PruneHistory, Answered, RequestOK
  <2>2. QED
    BY <1>1, <2>1 DEF ArgumentOK, ArgsOf, PassesGuard
<1>9. CASE LogRow(k) /\ LogAction(k)
  <2>1. /\ target' = [target EXCEPT ![nrows'] = TargetOf(k)] /\ arg' = arg /\ request' = request
        /\ request[k].tool = fs_write => TargetOf(k) = FileOf[arg[k]]
    BY <1>9, LoggedTarget DEF WorkspaceInv
  <2>2. call'[k].cur = nrows' /\ nrows' \in ActionId
    BY <1>1, <1>9, LoggedRow
  <2>3. \A c : c = call'[k].cur => target'[c] = TargetOf(k)
    BY <2>1, <2>2 DEF WorkspaceInv, WorkInv, WorkspaceTypeOK
  <2>4. QED
    BY <1>1, <2>1, <2>2, <2>3 DEF ArgumentOK, ArgsOf, PassesGuard
<1>10. CASE WriteFile(k) \/ WriteFails(k) \/ Pay(k)
  <2>1. UNCHANGED <<request, arg, target, call>> /\ pc[k] = "execute"
    BY <1>10, RunningRow
  <2>2. QED
    BY <1>1, <2>1 DEF ArgumentOK, ArgsOf, PassesGuard
<1>11. CASE Compensate(k) \/ CompensateFails(k) \/ Record(k) \/ (LogRow(k) /\ LogRefused(k))
  <2>1. UNCHANGED <<request, arg>>
    BY <1>11 DEF Compensate, CompensateFails, Record, LogRow
  <2>2. pc'[k] \notin {"execute", "commit", "fail"}
    <3>1. ~LogAction(k) /\ ~ToolOk(k) /\ ~ToolError(k)
      <4>1. CASE LogRow(k) /\ LogRefused(k)
        BY <1>1, <4>1 DEF LogRefused, LogAction, ToolOk, ToolError, Return, Goto
      <4>2. CASE Compensate(k) \/ CompensateFails(k) \/ Record(k)
        BY <4>2 DEF Compensate, CompensateOk, CompensateFails, CompensateError, Record, CommitStep,
                    FailStep, ScanCommitted, RecordUndone, RecordOrphan, RecordInDlq, EndRollback,
                    LogAction, ToolOk, ToolError
      <4>3. QED
        BY <1>11, <4>1, <4>2
    <3>2. QED
      BY <1>1, <3>1, PointHistory
  <2>3. QED
    BY <1>1, <2>1, <2>2 DEF ArgumentOK, ArgsOf, PassesGuard
<1>12. QED
  BY <1>2, <1>5, <1>6, <1>7, <1>8, <1>9, <1>10, <1>11, NothingParked
  DEF WsStep, ServeRequest, Accept, LogRow, Log

(* The rows but the one that is inserted keep what they are about. *)
LEMMA OtherRows ==
    ASSUME WorkspaceInv, NEW k \in Kernel, LogRow(k), LogAction(k), NEW i \in ActionId, i # nrows'
    PROVE  actions'[i] = actions[i] /\ target'[i] = target[i]
<1>1. McpTypeOK /\ RequestOK(k)
  BY DEF WorkspaceInv, GatewayInv
<1>2. actions'[i] = actions[i]
  BY <1>1, LoggedRow
<1>3. target'[i] = target[i]
  BY LoggedTarget DEF WorkspaceInv, WorkInv, WorkspaceTypeOK
<1>4. QED
  BY <1>2, <1>3

(* The inserted row. *)
LEMMA NewRow ==
    ASSUME WorkspaceInv, NEW k \in Kernel, LogRow(k), LogAction(k)
    PROVE  /\ nrows' = nrows + 1 /\ nrows \in Nat /\ nrows' \in ActionId
           /\ world[nrows'] = "absent" /\ world' = world
           /\ actions'[nrows'].status = "PENDING" /\ actions'[nrows'].tool = request[k].tool
           /\ target'[nrows'] = TargetOf(k)
           /\ pc'[k] = "execute"
           /\ UNCHANGED <<disk, ledger, gatewayVars, fsm>>
<1>1. McpTypeOK /\ RequestOK(k) /\ nrows \in Nat /\ \A i \in ActionId : RowShape(i)
  BY KernelTypes DEF WorkspaceInv, GatewayInv
<1>2. nrows' = nrows + 1 /\ nrows' \in ActionId /\ world' = world /\ pc'[k] = "execute" /\ fsm' = fsm
  BY <1>1, LoggedRow
<1>3. actions'[nrows'] = [session |-> request[k].sess, seq |-> call[k].seq,
                          tool |-> request[k].tool, key |-> call[k].key,
                          status |-> "PENDING", out |-> FALSE]
  BY <1>1, LoggedRow
<1>4. actions'[nrows'].status = "PENDING" /\ actions'[nrows'].tool = request[k].tool
  BY <1>3
<1>5. target'[nrows'] = TargetOf(k) /\ UNCHANGED <<disk, ledger, gatewayVars>>
  BY <1>2, LoggedTarget DEF WorkspaceInv, WorkInv, WorkspaceTypeOK
<1>6. world[nrows'] = "absent"
  BY <1>1, <1>2 DEF RowShape
<1>7. QED
  BY <1>1, <1>2, <1>4, <1>5, <1>6

LEMMA TargetStep ==
    ASSUME WorkspaceInv, NEW k \in Kernel, WsStep(k), NEW i \in ActionId
    PROVE  TargetOK(i)'
<1>1. TargetOK(i) /\ GatewayInv /\ McpStep(k) /\ RequestOK(k)
  BY WorkspaceSteps DEF WorkspaceInv, WorkInv, GatewayInv
<1>2. CASE LogRow(k) /\ LogAction(k)
  <2>1. CASE i = nrows'
    <3>1. actions'[i].tool = request[k].tool /\ target'[i] = TargetOf(k)
      BY <1>2, <2>1, NewRow
    <3>2. QED
      BY <1>2, <3>1, LoggedTarget DEF TargetOK
  <2>2. CASE i # nrows'
    BY <1>1, <1>2, <2>2, OtherRows DEF TargetOK
  <2>3. QED
    BY <2>1, <2>2
<1>3. CASE ~(LogRow(k) /\ LogAction(k))
  <2>1. ~LogAction(k) /\ target' = target
    BY <1>3, WorkspaceKinds, <1>1
    DEF Quiet, WriteFile, WriteFails, Pay, Compensate, ToolOk, ToolError, CompensateOk, LogAction
  <2>2. actions'[i] = NoRow \/ actions'[i].tool = actions[i].tool
    BY <1>1, <2>1, RowHistory
  <2>3. QED
    BY <1>1, <2>1, <2>2, WalAssumption, WorkspaceAssumption DEF TargetOK, NoRow
<1>4. QED
  BY <1>2, <1>3

(* The compensated row: its file is removed, or its payment refunded.      *)
LEMMA UndoneRow ==
    ASSUME WorkspaceInv, NEW k \in Kernel, Compensate(k)
    PROVE  /\ call'[k].cur \in ActionId /\ pc'[k] = "undone" /\ pc[k] = "compensate"
           /\ UNCHANGED <<actions, nrows, target, fsm, gatewayVars>>
           /\ world' = [world EXCEPT ![call'[k].cur] = "undone"]
           /\ \/ /\ actions[call'[k].cur].tool = fs_write
                 /\ disk' = [disk EXCEPT ![target[call'[k].cur]] = "absent"] /\ ledger' = ledger
              \/ /\ actions[call'[k].cur].tool = mock_pay
                 /\ ledger' = [ledger EXCEPT ![target[call'[k].cur]] = "REFUNDED"] /\ disk' = disk
<1>1. McpTypeOK /\ CompensateOk(k) /\ pc[k] = "compensate"
  BY DEF WorkspaceInv, GatewayInv, Compensate, CompensateOk
<1>2. QED
  BY <1>1, CompensatedRow, KernelTypes DEF Compensate, RemoveFile, Refund

LEMMA GoneStep ==
    ASSUME WorkspaceInv, NEW k \in Kernel, WsStep(k), NEW i \in ActionId
    PROVE  GoneOK(i)'
<1>1. /\ TargetOK(i) /\ GoneOK(i) /\ RowShape(i) /\ GatewayInv /\ McpStep(k) /\ RequestOK(k)
      /\ disk \in [File -> {"absent", "foreign", "written"}]
      /\ ledger \in [PaymentId -> {"NONE", "CHARGED", "REFUNDED"}]
      /\ actions \in [ActionId -> Row]
      /\ i \in Nat /\ nrows \in Nat
  BY WorkspaceSteps, KernelTypes
  DEF WorkspaceInv, WorkInv, GatewayInv, WorkspaceTypeOK, ActionId
<1>2. SUFFICES ASSUME \/ Status(i)' = "COMPENSATED"
                      \/ pc'[k] = "undone" /\ call'[k].cur = i,
                      Latest(i)'
               PROVE  Gone(i)'
  BY OneKernel DEF GoneOK
<1>3. ASSUME Status(i) = "COMPENSATED" \/ (pc[k] = "undone" /\ call[k].cur = i), Latest(i)
      PROVE  Gone(i)
  BY <1>1, <1>3 DEF GoneOK
<1>4. CASE Quiet(k)
  <2>1. nrows' = nrows /\ target' = target
    BY <1>1, <1>4, RowHistory DEF Quiet
  <2>2. Latest(i)
    BY <1>2, <2>1 DEF Latest
  <2>3. Status(i) = "COMPENSATED" \/ (pc[k] = "undone" /\ call[k].cur = i)
    BY <1>1, <1>2, <1>4, RowHistory, PointHistory DEF Quiet
  <2>4. Gone(i)
    BY <1>3, <2>2, <2>3
  <2>5. actions'[i] = NoRow \/ actions'[i].tool = actions[i].tool
    BY <1>1, <1>4, RowHistory DEF Quiet
  <2>6. QED
    BY <1>1, <1>4, <2>4, <2>5, WalAssumption, WorkspaceAssumption
    DEF Gone, Quiet, EmptyLedger, TargetOK, NoRow
<1>5. CASE LogRow(k) /\ LogAction(k)
  <2>1. /\ i # nrows' /\ Status(i)' = "COMPENSATED"
    BY <1>2, <1>5, NewRow DEF Status
  <2>2. actions'[i] = actions[i] /\ target'[i] = target[i]
    BY <1>5, <2>1, OtherRows
  <2>3. Latest(i)
    <3>1. SUFFICES ASSUME NEW j \in ActionId, j <= nrows, target[j] = target[i]
                   PROVE  j <= i
      BY DEF Latest
    <3>2. j # nrows' /\ j <= nrows'
      BY <1>5, <3>1, NewRow DEF ActionId
    <3>3. target'[j] = target'[i]
      BY <1>5, <2>2, <3>1, <3>2, OtherRows
    <3>4. QED
      BY <1>2, <3>2, <3>3 DEF Latest
  <2>4. Gone(i)
    BY <1>3, <2>1, <2>2, <2>3 DEF Status
  <2>5. UNCHANGED <<disk, ledger>>
    BY <1>5, NewRow
  <2>6. QED
    BY <2>2, <2>4, <2>5 DEF Gone
<1>6. CASE WriteFile(k) \/ WriteFails(k) \/ Pay(k)
  <2>1. /\ UNCHANGED <<actions, nrows, target>>
        /\ pc'[k] \in {"commit", "fail"}
        /\ call[k].cur = nrows /\ call[k].cur \in ActionId /\ Status(call[k].cur) = "PENDING"
    BY <1>6, RunningRow
  <2>2. Status(i) = "COMPENSATED"
    BY <1>2, <2>1 DEF Status
  <2>3. Latest(i)
    BY <1>2, <2>1 DEF Latest
  <2>4. i < call[k].cur
    BY <1>1, <2>1, <2>2 DEF RowShape, NoRow, Status
  <2>5. target[call[k].cur] # target[i]
    BY <1>1, <2>1, <2>3, <2>4 DEF Latest
  <2>6. \/ disk' = disk \/ disk' = [disk EXCEPT ![target[call[k].cur]] = "written"]
    BY <1>6 DEF WriteFile, WriteFails, Pay
  <2>7. \/ ledger' = ledger \/ Charge(k, target[call[k].cur])
    BY <1>6 DEF WriteFile, WriteFails, Pay
  <2>8. Gone(i)
    BY <1>3, <2>2, <2>3
  <2>9. actions[i].tool = fs_write => disk'[target[i]] = "absent"
    BY <1>1, <2>5, <2>6, <2>8 DEF Gone, TargetOK
  <2>10. actions[i].tool = mock_pay => ledger'[target[i]] # "CHARGED"
    BY <1>1, <2>5, <2>7, <2>8 DEF Gone, TargetOK, Charge
  <2>11. QED
    BY <2>1, <2>9, <2>10 DEF Gone
<1>7. CASE Compensate(k)
  <2>1. /\ UNCHANGED <<actions, nrows, target>>
        /\ \/ /\ actions[call'[k].cur].tool = fs_write
              /\ disk' = [disk EXCEPT ![target[call'[k].cur]] = "absent"] /\ ledger' = ledger
           \/ /\ actions[call'[k].cur].tool = mock_pay
              /\ ledger' = [ledger EXCEPT ![target[call'[k].cur]] = "REFUNDED"] /\ disk' = disk
    BY <1>7, UndoneRow
  <2>2. CASE i = call'[k].cur
    <3>1. actions[i].tool = fs_write => disk'[target[i]] = "absent"
      BY <1>1, <2>1, <2>2, WorkspaceAssumption DEF TargetOK
    <3>2. actions[i].tool = mock_pay => ledger'[target[i]] # "CHARGED"
      BY <1>1, <2>1, <2>2, WorkspaceAssumption DEF TargetOK
    <3>3. QED
      BY <2>1, <3>1, <3>2 DEF Gone
  <2>3. CASE i # call'[k].cur
    <3>1. Status(i) = "COMPENSATED" /\ Latest(i)
      BY <1>2, <2>1, <2>3 DEF Status, Latest
    <3>2. Gone(i)
      BY <1>3, <3>1
    <3>3. actions[i].tool = fs_write => disk'[target[i]] = "absent"
      BY <1>1, <2>1, <3>2 DEF Gone, TargetOK
    <3>4. actions[i].tool = mock_pay => ledger'[target[i]] # "CHARGED"
      BY <1>1, <2>1, <3>2 DEF Gone, TargetOK
    <3>5. QED
      BY <2>1, <3>3, <3>4 DEF Gone
  <2>4. QED
    BY <2>2, <2>3
<1>8. QED
  BY <1>1, <1>4, <1>5, <1>6, <1>7, WorkspaceKinds

LEMMA FileStandsStep ==
    ASSUME WorkspaceInv, NEW k \in Kernel, WsStep(k), NEW i \in ActionId
    PROVE  FileStands(i)'
<1>1. /\ TargetOK(i) /\ FileStands(i) /\ GatewayInv /\ McpStep(k) /\ RequestOK(k)
      /\ disk \in [File -> {"absent", "foreign", "written"}]
      /\ world \in [ActionId -> {"absent", "applied", "undone"}]
  BY WorkspaceSteps, KernelTypes DEF WorkspaceInv, WorkInv, GatewayInv, WorkspaceTypeOK
<1>2. SUFFICES ASSUME actions'[i].tool = fs_write,
                      \/ Status(i)' = "COMMITTED"
                      \/ pc'[k] = "commit" /\ call'[k].cur = i,
                      \A j \in ActionId : target'[j] = target'[i] => world'[j] # "undone"
               PROVE  disk'[target'[i]] = "written"
  BY OneKernel DEF FileStands
<1>3. ASSUME actions[i].tool = fs_write,
             Status(i) = "COMMITTED" \/ (pc[k] = "commit" /\ call[k].cur = i),
             \A j \in ActionId : target[j] = target[i] => world[j] # "undone"
      PROVE  disk[target[i]] = "written"
  BY <1>1, <1>3 DEF FileStands
<1>4. CASE Quiet(k)
  <2>1. Status(i) = "COMMITTED" \/ (pc[k] = "commit" /\ call[k].cur = i)
    BY <1>1, <1>2, <1>4, RowHistory, PointHistory DEF Quiet
  <2>2. actions'[i] = NoRow \/ actions'[i].tool = actions[i].tool
    BY <1>1, <1>4, RowHistory DEF Quiet
  <2>3. actions[i].tool = fs_write
    BY <1>2, <2>2, WalAssumption, WorkspaceAssumption DEF NoRow
  <2>4. QED
    BY <1>2, <1>3, <1>4, <2>1, <2>3 DEF Quiet
<1>5. CASE LogRow(k) /\ LogAction(k)
  <2>1. i # nrows' /\ Status(i)' = "COMMITTED"
    BY <1>2, <1>5, NewRow DEF Status
  <2>2. actions'[i] = actions[i] /\ target'[i] = target[i] /\ disk' = disk
    BY <1>5, <2>1, OtherRows, NewRow
  <2>3. \A j \in ActionId : target[j] = target[i] => world[j] # "undone"
    <3>1. SUFFICES ASSUME NEW j \in ActionId, target[j] = target[i]
                   PROVE  world[j] # "undone"
      OBVIOUS
    <3>2. CASE j = nrows'
      BY <1>5, <3>2, NewRow
    <3>3. CASE j # nrows'
      <4>1. target'[j] = target'[i] /\ world' = world
        BY <1>5, <2>2, <3>1, <3>3, OtherRows, NewRow
      <4>2. QED
        BY <1>2, <4>1
    <3>4. QED
      BY <3>2, <3>3
  <2>4. QED
    BY <1>2, <1>3, <2>1, <2>2, <2>3 DEF Status
<1>6. CASE WriteFile(k) \/ WriteFails(k) \/ Pay(k)
  <2>1. /\ UNCHANGED <<actions, target, call>>
        /\ call[k].cur \in ActionId /\ world[call[k].cur] = "absent" /\ pc[k] = "execute"
        /\ actions[call[k].cur].tool = request[k].tool
        /\ WriteFails(k) => world' = world /\ pc'[k] = "fail"
        /\ WriteFile(k) \/ Pay(k) => world' = [world EXCEPT ![call[k].cur] = "applied"]
    BY <1>6, RunningRow
  <2>2. \/ disk' = disk \/ disk' = [disk EXCEPT ![target[call[k].cur]] = "written"]
    BY <1>6 DEF WriteFile, WriteFails, Pay
  <2>3. CASE Status(i) = "COMMITTED"
    <3>1. \A j \in ActionId : world[j] = "undone" => world'[j] = "undone"
      BY <1>1, <1>6, <2>1
    <3>2. disk[target[i]] = "written"
      BY <1>2, <1>3, <2>1, <2>3, <3>1
    <3>3. QED
      BY <1>1, <1>2, <2>1, <2>2, <3>2 DEF TargetOK
  <2>4. CASE Status(i) # "COMMITTED"
    <3>1. pc'[k] = "commit" /\ i = call[k].cur
      BY <1>2, <2>1, <2>4 DEF Status
    <3>2. WriteFile(k)
      BY <1>2, <1>6, <2>1, <3>1, WorkspaceAssumption DEF Pay
    <3>3. disk' = [disk EXCEPT ![target[call[k].cur]] = "written"]
      BY <3>2 DEF WriteFile
    <3>4. QED
      BY <1>1, <1>2, <2>1, <3>1, <3>3 DEF TargetOK
  <2>5. QED
    BY <2>3, <2>4
<1>7. CASE Compensate(k)
  <2>1. /\ call'[k].cur \in ActionId /\ pc'[k] = "undone"
        /\ UNCHANGED <<actions, target>>
        /\ world' = [world EXCEPT ![call'[k].cur] = "undone"]
        /\ disk' = disk \/ disk' = [disk EXCEPT ![target[call'[k].cur]] = "absent"]
    BY <1>7, UndoneRow
  <2>2. \A j \in ActionId : world[j] = "undone" => world'[j] = "undone"
    BY <1>1, <2>1
  <2>3. \A c \in ActionId : c = call'[k].cur => world'[c] = "undone" /\ target[c] # target[i]
    BY <1>1, <1>2, <2>1
  <2>4. Status(i) = "COMMITTED"
    BY <1>2, <2>1 DEF Status
  <2>5. disk[target[i]] = "written"
    BY <1>2, <1>3, <2>1, <2>2, <2>4
  <2>6. QED
    BY <1>1, <1>2, <2>1, <2>3, <2>5 DEF TargetOK
<1>8. QED
  BY <1>1, <1>4, <1>5, <1>6, <1>7, WorkspaceKinds

Alive(k) == fsm[k].mode \notin {"Compensating", "Failed"}

(* A saga that has failed does not come alive again: the server starts a   *)
(* new one, or is restarted.                                               *)
LEMMA AliveHistory ==
    ASSUME GatewayInv, NEW k \in Kernel, McpStep(k), ~ResetSaga(k), ~Restart(k), Alive(k)'
    PROVE  Alive(k)
<1>1. /\ McpTypeOK /\ RequestOK(k)
      /\ fsm \in [Kernel -> AgentState] /\ pc \in [Kernel -> Label]
  BY KernelTypes DEF GatewayInv
<1>2. CASE fsm' = fsm
  BY <1>2 DEF Alive
<1>3. CASE AuthorizeIdle(k) \/ AuthorizeTool(k)
  BY <1>3 DEF AuthorizeIdle, BeginPlanning, AuthorizeTool, BeginTool, Accepts, Plain,
              StartExecution, Alive
<1>4. CASE AnswerFromCache(k)
  BY <1>4 DEF AnswerFromCache, ReturnCached, CanExecuteTool, Alive
<1>5. CASE CommitStep(k) \/ FailStep(k)
  BY <1>1, <1>5 DEF CommitStep, FailStep, RequestOK, StepLabel, Executing, Alive
<1>6. CASE Work(k) /\ EndRollback(k)
  <2>1. call[k].ret = "step" /\ fsm[k].mode = "Compensating"
    BY <1>1, <1>6 DEF EndRollback, RequestOK, StepLabel, LoopLabels
  <2>2. Fire(k, Plain("CompensationCompleted"))
    BY <1>6, <2>1 DEF EndRollback, FinishRollback, ReturnToCaller
  <2>3. fsm'[k] = PlainState("Failed")
    BY <1>1, <2>1, <2>2 DEF Fire, Transition, Accepts, Target, Plain
  <2>4. QED
    BY <2>3 DEF Alive, PlainState
<1>7. CASE LogAction(k) \/ LogRefused(k) \/ ToolOk(k) \/ ToolError(k) \/ ScanCommitted(k)
            \/ CompensateOk(k) \/ CompensateError(k) \/ RecordUndone(k) \/ RecordOrphan(k)
            \/ RecordInDlq(k)
  BY <1>2, <1>7 DEF LogAction, LogRefused, ToolOk, ToolError, ScanCommitted, CompensateOk,
                    CompensateError, RecordUndone, RecordOrphan, RecordInDlq
<1>8. ~Recovery(k)
  BY <1>1 DEF Recovery, RecoverSession, FailOrphan, SettleSession, RequestOK, StepLabel, LoopLabels
<1>9. CASE (\E t \in Tool, s \in Session, key \in Key \cup {NoKey} : ToolsCall(k, t, s, key))
            \/ AlreadyAuthorized(k) \/ RefuseAtStepZero(k) \/ Dispatch(k) \/ Respond(k)
            \/ PruneHistory(k)
  BY <1>2, <1>9 DEF ToolsCall, AlreadyAuthorized, RefuseAtStepZero, Dispatch, ExecuteTool, Respond,
                    PruneHistory, vars
<1>10. QED
  BY <1>3, <1>4, <1>5, <1>6, <1>7, <1>8, <1>9, NothingParked
  DEF McpStep, Serve, Work, Progress, Log, Step, Rollback

(* The session of a new saga has no rows yet. *)
LEMMA FreshSession ==
    ASSUME WorkspaceInv, NEW k \in Kernel, Quiet(k), McpStep(k), NewSession(k),
           NEW i \in ActionId, Status(i)' = "COMMITTED"
    PROVE  actions'[i].session # session_id'[k]
<1>1. GatewayInv /\ McpTypeOK /\ RowShape(i) /\ AtRow(k)
  BY DEF WorkspaceInv, GatewayInv
<1>2. session_id'[k] \notin minted \cup NamedSessions
  BY <1>1 DEF NewSession, McpTypeOK
<1>3. actions'[i] # NoRow
  BY DEF Status, NoRow
<1>4. actions'[i].session = actions[i].session
  BY <1>1, <1>3, RowHistory DEF Quiet
<1>5. Status(i) \in {"COMMITTED", "PENDING"}
  BY <1>1, RowHistory DEF Quiet, AtRow
<1>6. actions[i].session \in minted \cup NamedSessions
  BY <1>1, <1>5 DEF RowShape
<1>7. QED
  BY <1>2, <1>4, <1>6

LEMMA ChargesStep ==
    ASSUME WorkspaceInv, NEW k \in Kernel, WsStep(k)
    PROVE  ChargesOK(k)'
<1>1. /\ GatewayInv /\ McpTypeOK /\ RequestOK(k) /\ ChargesOK(k) /\ McpStep(k)
      /\ ledger \in [PaymentId -> {"NONE", "CHARGED", "REFUNDED"}]
      /\ session_id \in [Kernel -> minted] /\ pc \in [Kernel -> Label]
      /\ \A i \in ActionId : TargetOK(i)
  BY WorkspaceSteps, KernelTypes
  DEF WorkspaceInv, WorkInv, GatewayInv, WorkspaceTypeOK, McpTypeOK
<1>2. SUFFICES ASSUME Alive(k)'
               PROVE  /\ \A p \in PaymentId : ledger'[p] # "REFUNDED"
                      /\ \A i \in ActionId :
                            /\ actions'[i].tool = mock_pay
                            /\ \/ /\ Status(i)' = "COMMITTED"
                                  /\ actions'[i].session = session_id'[k]
                               \/ pc'[k] = "commit" /\ call'[k].cur = i
                            => ledger'[target'[i]] = "CHARGED"
  BY DEF ChargesOK, Alive
<1>3. ASSUME Alive(k)
      PROVE  /\ \A p \in PaymentId : ledger[p] # "REFUNDED"
             /\ \A i \in ActionId :
                   /\ actions[i].tool = mock_pay
                   /\ \/ Status(i) = "COMMITTED" /\ actions[i].session = session_id[k]
                      \/ pc[k] = "commit" /\ call[k].cur = i
                   => ledger[target[i]] = "CHARGED"
  BY <1>1, <1>3 DEF ChargesOK, Alive
<1>4. CASE Quiet(k) /\ ledger' = EmptyLedger /\ NewSession(k) /\ pc'[k] = "idle"
  <2>1. \A i \in ActionId : Status(i)' = "COMMITTED" => actions'[i].session # session_id'[k]
    BY <1>1, <1>4, FreshSession
  <2>2. QED
    BY <1>4, <2>1 DEF EmptyLedger
<1>5. CASE Quiet(k) /\ ledger' = ledger /\ session_id' = session_id
  <2>1. ~NewSession(k)
    BY <1>1, <1>5 DEF NewSession
  <2>2. Alive(k)
    BY <1>1, <1>2, <2>1, AliveHistory DEF ResetSaga, Restart
  <2>3. pc'[k] # "commit"
    BY <1>1, <1>5, PointHistory DEF Quiet
  <2>4. ASSUME NEW i \in ActionId, actions'[i].tool = mock_pay, Status(i)' = "COMMITTED",
               actions'[i].session = session_id[k]
        PROVE  ledger[target[i]] = "CHARGED"
    <3>1. actions'[i] # NoRow
      BY <2>4 DEF Status, NoRow
    <3>2. actions[i].tool = mock_pay /\ actions[i].session = session_id[k]
      BY <1>1, <1>5, <2>4, <3>1, RowHistory DEF Quiet
    <3>3. Status(i) = "COMMITTED" \/ (pc[k] = "commit" /\ call[k].cur = i)
      BY <1>1, <1>5, <2>4, RowHistory DEF Quiet
    <3>4. QED
      BY <1>3, <2>2, <3>2, <3>3
  <2>5. QED
    BY <1>3, <1>5, <2>2, <2>3, <2>4 DEF Quiet
<1>6. CASE LogRow(k) /\ LogAction(k)
  <2>1. UNCHANGED <<fsm, ledger, session_id>> /\ pc'[k] = "execute"
    BY <1>6, NewRow
  <2>2. Alive(k)
    BY <1>2, <2>1 DEF Alive
  <2>3. ASSUME NEW i \in ActionId, Status(i)' = "COMMITTED"
        PROVE  actions'[i] = actions[i] /\ target'[i] = target[i]
    BY <1>6, <2>3, NewRow, OtherRows DEF Status
  <2>4. QED
    BY <1>3, <2>1, <2>2, <2>3 DEF Status
<1>7. CASE WriteFile(k) \/ WriteFails(k) \/ Pay(k)
  <2>1. /\ UNCHANGED <<actions, call, fsm, target, session_id>>
        /\ actions[call[k].cur].tool = request[k].tool
        /\ pc'[k] \in {"commit", "fail"} /\ call[k].cur \in ActionId
        /\ WriteFails(k) => pc'[k] = "fail"
    BY <1>7, RunningRow
  <2>2. Alive(k)
    BY <1>2, <2>1 DEF Alive
  <2>3. CASE Pay(k)
    <3>1. Charge(k, target[call[k].cur]) /\ target[call[k].cur] \in PaymentId
      BY <1>1, <2>1, <2>3 DEF Pay, TargetOK
    <3>2. /\ \A p \in PaymentId : ledger'[p] # "REFUNDED"
          /\ \A p \in PaymentId : ledger[p] = "CHARGED" => ledger'[p] = "CHARGED"
      BY <1>1, <1>3, <2>2, <3>1 DEF Charge
    <3>3. ledger'[target[call[k].cur]] = "CHARGED"
      BY <1>1, <1>3, <2>2, <3>1 DEF Charge
    <3>4. QED
      BY <1>1, <1>3, <2>1, <2>2, <3>2, <3>3 DEF Status, TargetOK
  <2>4. CASE WriteFile(k) \/ WriteFails(k)
    <3>1. ledger' = ledger /\ actions[call[k].cur].tool # mock_pay
      BY <2>1, <2>4, WorkspaceAssumption DEF WriteFile, WriteFails
    <3>2. QED
      BY <1>3, <2>1, <2>2, <3>1 DEF Status
  <2>5. QED
    BY <1>7, <2>3, <2>4
<1>8. CASE Compensate(k)
  <2>1. fsm' = fsm /\ fsm[k].mode = "Compensating"
    BY <1>1, <1>8, UndoneRow DEF RequestOK, LoopLabels
  <2>2. QED
    BY <1>2, <2>1 DEF Alive
<1>9. QED
  BY <1>1, <1>4, <1>5, <1>6, <1>7, <1>8, WorkspaceKinds DEF Quiet

LEMMA WorkspaceInit == WsInit => WorkspaceInv
<1> SUFFICES ASSUME WsInit PROVE WorkspaceInv
  OBVIOUS
<1>1. GatewayInv /\ McpTypeOK
  BY GatewayInit DEF WsInit, GatewayInv
<1>2. WorkspaceTypeOK
  BY <1>1 DEF WsInit, WorkspaceTypeOK, Argument, EmptyLedger
<1>3. \A i \in ActionId : actions[i] = NoRow /\ Status(i) = "NONE"
  BY DEF WsInit, McpInit, Init, WalInit, NoRow, Status
<1>4. \A k \in Kernel : pc[k] = "idle" /\ request[k].phase = "none"
  BY DEF WsInit, McpInit, Init
<1>5. \A k \in Kernel : ArgumentOK(k)
  BY <1>4 DEF ArgumentOK
<1>6. \A k \in Kernel : ChargesOK(k)
  BY <1>3, <1>4 DEF WsInit, ChargesOK, EmptyLedger
<1>7. \A i \in ActionId : TargetOK(i) /\ GoneOK(i) /\ FileStands(i)
  BY <1>3, <1>4, WalAssumption, WorkspaceAssumption DEF TargetOK, GoneOK, FileStands, NoRow
<1>8. QED
  BY <1>1, <1>2, <1>5, <1>6, <1>7 DEF WorkspaceInv, WorkInv

LEMMA WorkspaceStutter == WorkspaceInv /\ UNCHANGED wsVars => WorkspaceInv'
<1> SUFFICES ASSUME WorkspaceInv, UNCHANGED wsVars PROVE WorkspaceInv'
  OBVIOUS
<1>1. GatewayInv'
  BY GatewayStutter DEF WorkspaceInv, wsVars
<1>2. WorkspaceTypeOK'
  BY <1>1 DEF WorkspaceInv, WorkInv, WorkspaceTypeOK, GatewayInv, wsVars
<1>3. \A k \in Kernel : ArgumentOK(k)' /\ ChargesOK(k)'
  BY DEF WorkspaceInv, WorkInv, ArgumentOK, ChargesOK, PassesGuard, ArgsOf, Status,
         wsVars, mcpVars, vars
<1>4. \A i \in ActionId : TargetOK(i)' /\ GoneOK(i)' /\ FileStands(i)'
  BY DEF WorkspaceInv, WorkInv, TargetOK, GoneOK, FileStands, Latest, Gone, Status,
         wsVars, mcpVars, vars
<1>5. QED
  BY <1>1, <1>2, <1>3, <1>4 DEF WorkspaceInv, WorkInv

LEMMA WorkspaceInvariant == WsSpec => []WorkspaceInv
<1>1. WorkspaceInv /\ [WsNext]_wsVars => WorkspaceInv'
  <2> SUFFICES ASSUME WorkspaceInv, [WsNext]_wsVars PROVE WorkspaceInv'
    OBVIOUS
  <2>1. CASE UNCHANGED wsVars
    BY <2>1, WorkspaceStutter
  <2>2. CASE WsNext
    <3>1. PICK k \in Kernel : WsStep(k)
      BY <2>2 DEF WsNext, WsStep
    <3>2. GatewayInv'
      BY <3>1, WorkspaceSteps, GatewayStep DEF WorkspaceInv
    <3>3. WorkspaceTypeOK'
      BY <3>1, <3>2, WorkspaceTypeStep
    <3>4. \A j \in Kernel : ArgumentOK(j)' /\ ChargesOK(j)'
      <4>1. ArgumentOK(k)' /\ ChargesOK(k)'
        BY <3>1, ArgumentStep, ChargesStep
      <4>2. QED
        BY <4>1, OneKernel
    <3>5. \A i \in ActionId : TargetOK(i)' /\ GoneOK(i)' /\ FileStands(i)'
      BY <3>1, TargetStep, GoneStep, FileStandsStep
    <3>6. QED
      BY <3>2, <3>3, <3>4, <3>5 DEF WorkspaceInv, WorkInv
  <2>3. QED
    BY <2>1, <2>2
<1>2. QED
  BY <1>1, WorkspaceInit, PTL DEF WsSpec

-----------------------------------------------------------------------------
(* The theorems about the workspace.                                       *)

(* The server's request, session and row bookkeeping, and what its tools   *)
(* act on, keep their types; what a row is about is a file or a payment id *)
(* even when the client gave none.                                         *)
THEOREM WorkspaceTypeCorrect == WsSpec => []WorkspaceTypeOK
<1>1. WorkspaceInv => WorkspaceTypeOK
  BY DEF WorkspaceInv, WorkInv
<1>2. QED
  BY <1>1, WorkspaceInvariant, PTL

(* A row COMPENSATED in the log is gone from the world when it is the last *)
(* about its file or payment: no crash, restart, new saga or retention     *)
(* brings the file or the charge back.                                     *)
THEOREM CompensatedStaysGone == WsSpec => []CompensatedIsGone
<1>1. WorkspaceInv => CompensatedIsGone
  <2> SUFFICES ASSUME WorkspaceInv, NEW i \in ActionId, Status(i) = "COMPENSATED",
                      \A j \in ActionId : target[j] = target[i] => j <= i
               PROVE  IF actions[i].tool = fs_write
                      THEN disk[target[i]] = "absent" ELSE ledger[target[i]] # "CHARGED"
    BY DEF CompensatedIsGone
  <2>1. GoneOK(i) /\ RowShape(i)
    BY DEF WorkspaceInv, WorkInv, GatewayInv
  <2>2. actions[i].tool \in {fs_write, mock_pay}
    BY <2>1, WorkspaceAssumption DEF RowShape
  <2>3. Latest(i)
    BY DEF Latest
  <2>4. Gone(i)
    BY <2>1, <2>3 DEF GoneOK
  <2>5. QED
    BY <2>2, <2>4 DEF Gone
<1>2. QED
  BY <1>1, WorkspaceInvariant, PTL

(* While the saga of the server lives, each payment its session has as     *)
(* COMMITTED is charged: the ledger a known id is looked up in never holds *)
(* a refund, for the ledger goes with the saga that failed.                *)
THEOREM ChargesStand == WsSpec => []LiveChargesStand
<1>1. WorkspaceInv => LiveChargesStand
  BY DEF WorkspaceInv, WorkInv, ChargesOK, LiveChargesStand, Committed, WithStatus, Rows, Status
<1>2. QED
  BY <1>1, WorkspaceInvariant, PTL

(* The file of a COMMITTED row stays on the disk unless a rollback undoes  *)
(* a row about the same place: a write that fails, a restart or retention  *)
(* never takes it away.                                                    *)
THEOREM CommittedFilesStand == WsSpec => []CommittedFileStands
<1>1. WorkspaceInv => CommittedFileStands
  BY DEF WorkspaceInv, WorkInv, FileStands, CommittedFileStands
<1>2. QED
  BY <1>1, WorkspaceInvariant, PTL

-----------------------------------------------------------------------------
(* The guard.  Normalize and Place go along a path component by component; *)
(* what they return is shown by induction along it.                        *)

LEMMA AppendToConcat ==
    ASSUME NEW u \in Seq(Name), NEW v \in Seq(Name), NEW c \in Name
    PROVE  Append(u \o v, c) = u \o Append(v, c)
<1>1. u \o v \in Seq(Name) /\ <<c>> \in Seq(Name)
  OBVIOUS
<1>2. Append(u \o v, c) = (u \o v) \o <<c>>
  BY <1>1, AppendIsConcat
<1>3. Append(v, c) = v \o <<c>>
  BY AppendIsConcat
<1>4. (u \o v) \o <<c>> = u \o (v \o <<c>>)
  BY <1>1, ConcatAssociative
<1>5. QED
  BY <1>2, <1>3, <1>4

LEMMA FollowType ==
    ASSUME NEW place \in Seq(Name)
    PROVE  Follow(place) \in Seq(Name)
BY PolicyAssumption DEF Follow

Rooted(path) == path \in Seq(Name) /\ Len(path) >= 1 /\ path[1] = Slash

(* The places on the way along a path. *)
Along(path, f) ==
    /\ f \in [0 .. Len(path) -> Seq(Name)]
    /\ f[0] = <<>>
    /\ \A n \in 1 .. Len(path) : f[n] = Follow(Append(f[n - 1], path[n]))

LEMMA AlongExists ==
    ASSUME NEW path \in Seq(Name)
    PROVE  \E f : Along(path, f)
<1> DEFINE N == Len(path)
           D == Seq(Name)
           b == <<>>
           F == [x \in D \X (1 .. N) |-> Follow(Append(x[1], path[x[2]]))]
<1>1. F \in [D \X (1 .. N) -> D]
  <2>1. ASSUME NEW s \in D, NEW n \in 1 .. N
        PROVE  Follow(Append(s, path[n])) \in D
    <3>1. Append(s, path[n]) \in D
      OBVIOUS
    <3>2. QED
      BY <3>1, FollowType
  <2>2. QED
    BY <2>1
<1>2. \A s \in D, n \in 1 .. N : F[<<s, n>>] = Follow(Append(s, path[n]))
  OBVIOUS
<1>3. N \in Nat /\ b \in D
  OBVIOUS
<1> HIDE DEF F, N, D, b
<1>4. PICK f : Recursion(f, N, D, b, F)
  BY <1>1, <1>3, RecursionExists
<1>5. \A n \in 1 .. N : f[n - 1] \in D
  BY <1>3, <1>4 DEF Recursion
<1>6. \A n \in 1 .. N : f[n] = Follow(Append(f[n - 1], path[n]))
  BY <1>2, <1>4, <1>5 DEF Recursion
<1>7. QED
  BY <1>4, <1>6 DEF Recursion, Along, N, D, b

LEMMA PlaceAlong ==
    ASSUME NEW path \in Seq(Name), NEW f, Along(path, f)
    PROVE  Place(path) = f[Len(path)]
<1> DEFINE G(g) == [n \in 0 .. Len(path) |->
                       IF n = 0 THEN <<>> ELSE Follow(Append(g[n - 1], path[n]))]
           at == CHOOSE g : g = G(g)
<1>1. f = G(f)
  BY DEF Along
<1>2. at = G(at)
  BY <1>1
<1>3. Place(path) = at[Len(path)]
  BY DEF Place
<1> HIDE DEF at
<1>4. \A n \in 0 .. Len(path) : at[n] = f[n]
  <2> DEFINE T == {n \in 0 .. Len(path) : at[n] # f[n]}
  <2> SUFFICES ASSUME T # {} PROVE FALSE
    OBVIOUS
  <2>1. T \in SUBSET Nat
    OBVIOUS
  <2>2. PICK n \in T : \A m \in T : n <= m
    <3> HIDE DEF T
    <3>1. QED
      BY <2>1, LeastNumber
  <2>3. n \in 0 .. Len(path) /\ at[n] # f[n]
    OBVIOUS
  <2>4. n # 0
    BY <1>2, <2>3 DEF Along
  <2>5. n - 1 \in 0 .. Len(path) /\ n - 1 \notin T
    <3> HIDE DEF T
    <3>1. QED
      BY <2>2, <2>3, <2>4
  <2>6. at[n - 1] = f[n - 1]
    BY <2>5
  <2>7. at[n] = Follow(Append(at[n - 1], path[n]))
    BY <1>2, <2>3, <2>4
  <2>8. f[n] = Follow(Append(f[n - 1], path[n]))
    BY <2>3, <2>4 DEF Along
  <2>9. QED
    BY <2>3, <2>6, <2>7, <2>8
<1>5. QED
  BY <1>3, <1>4

LEMMA PlaceOfPart ==
    ASSUME NEW path \in Seq(Name), NEW f, Along(path, f), NEW n \in 0 .. Len(path)
    PROVE  Place(SubSeq(path, 1, n)) = f[n]
<1> DEFINE part == SubSeq(path, 1, n)
           g == [i \in 0 .. n |-> f[i]]
<1>1. part \in Seq(Name) /\ Len(part) = n /\ \A i \in 1 .. n : part[i] = path[i]
  OBVIOUS
<1>2. g \in [0 .. n -> Seq(Name)] /\ g[0] = <<>>
  BY DEF Along
<1>3. \A i \in 1 .. n : g[i] = Follow(Append(g[i - 1], part[i]))
  <2> TAKE i \in 1 .. n
  <2>1. i \in 1 .. Len(path) /\ i \in 0 .. n /\ i - 1 \in 0 .. n
    OBVIOUS
  <2>2. f[i] = Follow(Append(f[i - 1], path[i]))
    BY <2>1 DEF Along
  <2>3. QED
    BY <1>1, <2>1, <2>2
<1> HIDE DEF part, g
<1>4. Along(part, g)
  BY <1>1, <1>2, <1>3 DEF Along
<1>5. Place(part) = g[n]
  BY <1>1, <1>4, PlaceAlong
<1>6. QED
  BY <1>5 DEF part, g

(* Resolving what exists of a path and keeping the rest leads where the   *)
(* file system leads: beyond the longest part that exists no link follows, *)
(* for links lead to what exists.                                          *)
LEMMA CanonicalIsPlace ==
    ASSUME NEW path \in Seq(Name), Rooted(path)
    PROVE  CanonicalIfExists(path) = Place(path)
<1> DEFINE N == Len(path)
           Last(i) == Existing(path, i) /\ \A j \in i + 1 .. N : ~Existing(path, j)
<1>1. PICK f : Along(path, f)
  BY AlongExists
<1>2. \A i \in 0 .. N : Place(SubSeq(path, 1, i)) = f[i]
  BY <1>1, PlaceOfPart
<1>3. \A i \in 1 .. N : Existing(path, i) <=> f[i] \in Entries
  BY <1>2 DEF Existing
<1>4. N \in Nat /\ 1 \in 1 .. N /\ Existing(path, 1)
  <2>1. N \in Nat /\ 1 \in 1 .. N /\ path[1] = Slash
    BY DEF Rooted
  <2>2. f[1] = Follow(Append(f[0], path[1])) /\ f[0] = <<>>
    <3>1. \A n \in 1 .. N : f[n] = Follow(Append(f[n - 1], path[n]))
      BY <1>1 DEF Along
    <3>2. f[0] = <<>> /\ 1 - 1 = 0
      BY <1>1 DEF Along
    <3> HIDE DEF N
    <3>3. QED
      BY <2>1, <3>1, <3>2
  <2>3. Append(<<>>, Slash) = <<Slash>>
    BY DEF Slash
  <2>4. f[1] = <<Slash>>
    BY <2>1, <2>2, <2>3, PolicyAssumption DEF Follow
  <2>5. QED
    BY <1>3, <2>1, <2>4, PolicyAssumption
<1>5. \E i \in 1 .. N : Last(i)
  <2> DEFINE T == {m \in 0 .. N - 1 : Existing(path, N - m)}
  <2>1. T \in SUBSET Nat /\ N - 1 \in T
    BY <1>4
  <2>2. PICK m \in T : \A k \in T : m <= k
    <3> HIDE DEF T
    <3>1. QED
      BY <2>1, LeastNumber
  <2>3. N - m \in 1 .. N /\ Existing(path, N - m)
    BY <1>4
  <2>4. ASSUME NEW j \in N - m + 1 .. N, Existing(path, j) PROVE FALSE
    <3>1. N - j \in 0 .. N - 1 /\ N - (N - j) = j /\ N - j < m
      BY <1>4, <2>3
    <3>2. N - j \in T
      BY <2>4, <3>1
    <3> HIDE DEF T
    <3>3. QED
      BY <2>2, <3>1, <3>2, <2>1
  <2>5. QED
    BY <2>3, <2>4
<1> DEFINE n == CHOOSE i \in 1 .. N : Last(i)
<1>6. n \in 1 .. N /\ Last(n)
  <2> HIDE DEF Last
  <2>1. QED
    BY <1>5
<1>7. CanonicalIfExists(path) = Place(SubSeq(path, 1, n)) \o SubSeq(path, n + 1, N)
  BY DEF CanonicalIfExists
<1> HIDE DEF n, Last
<1>8. ASSUME NEW j \in n + 1 .. N PROVE f[j] = Append(f[j - 1], path[j])
  <2>1. j \in 1 .. N /\ f[j] \notin Entries
    BY <1>3, <1>4, <1>6 DEF Last
  <2>2. f[j] = Follow(Append(f[j - 1], path[j]))
    BY <1>1, <2>1 DEF Along
  <2>3. QED
    BY <2>1, <2>2, PolicyAssumption DEF Follow
<1>9. ASSUME NEW j \in n .. N PROVE f[j] = f[n] \o SubSeq(path, n + 1, j)
  <2> DEFINE T == {i \in n .. N : f[i] # f[n] \o SubSeq(path, n + 1, i)}
  <2>1. T \in SUBSET Nat
    <3>1. \A i \in n .. N : i \in Nat
      BY <1>4, <1>6
    <3>2. QED
      BY <3>1
  <2>2. SUFFICES ASSUME T # {} PROVE FALSE
    OBVIOUS
  <2>3. PICK i \in T : \A m \in T : i <= m
    <3> HIDE DEF T
    <3>1. QED
      BY <2>1, <2>2, LeastNumber
  <2>4. i \in n .. N /\ f[i] # f[n] \o SubSeq(path, n + 1, i)
    OBVIOUS
  <2>5. \A m \in n .. N : f[m] \in Seq(Name)
    <3>1. \A m \in n .. N : m \in 0 .. N
      BY <1>4, <1>6
    <3>2. QED
      BY <1>1, <3>1 DEF Along
  <2>6. i # n
    <3>1. SubSeq(path, n + 1, n) = <<>>
      BY <1>6
    <3>2. f[n] \o <<>> = f[n]
      BY <1>6, <2>5
    <3>3. QED
      BY <2>4, <3>1, <3>2
  <2>7. i - 1 \in n .. N /\ i - 1 \notin T
    <3> HIDE DEF T
    <3>1. QED
      BY <1>4, <1>6, <2>1, <2>3, <2>4, <2>6
  <2>8. f[i - 1] = f[n] \o SubSeq(path, n + 1, i - 1)
    BY <2>7
  <2>9. SubSeq(path, n + 1, i) = Append(SubSeq(path, n + 1, i - 1), path[i])
    BY <1>6, <2>4, <2>6
  <2>10. f[i] = Append(f[i - 1], path[i])
    BY <1>8, <2>4, <2>6, <1>6
  <2>11. f[n] \in Seq(Name) /\ SubSeq(path, n + 1, i - 1) \in Seq(Name) /\ path[i] \in Name
    BY <1>4, <1>6, <2>4, <2>5, <2>6
  <2> DEFINE rest == SubSeq(path, n + 1, i - 1)
  <2>12. Append(f[n] \o rest, path[i]) = f[n] \o Append(rest, path[i])
    <3> HIDE DEF rest, T, N
    <3>1. rest \in Seq(Name)
      BY <2>11 DEF rest
    <3>2. QED
      BY <2>11, <3>1, AppendToConcat
  <2>13. Append(f[i - 1], path[i]) = f[n] \o SubSeq(path, n + 1, i)
    BY <2>8, <2>9, <2>12
  <2>14. QED
    BY <2>4, <2>10, <2>13
<1>10. N \in n .. N /\ N \in 0 .. N /\ n \in 0 .. N /\ SubSeq(path, 1, N) = path
  BY <1>4, <1>6
<1>11. QED
  BY <1>2, <1>7, <1>9, <1>10

LEMMA RootedHead ==
    ASSUME NEW path \in Seq(Name)
    PROVE  Rooted(path) <=> path # <<>> /\ Head(path) = Slash
BY DEF Rooted

LEMMA DescendFacts ==
    ASSUME NEW out \in Seq(Name), NEW c \in Name
    PROVE  /\ Descend(out, c) \in Seq(Name)
           /\ Rooted(out) => Rooted(Descend(out, c))
<1>1. Pop(out) \in Seq(Name) /\ (Rooted(out) => Rooted(Pop(out)))
  <2>1. CASE Len(out) <= 1
    BY <2>1 DEF Pop
  <2>2. CASE Len(out) > 1
    <3> DEFINE short == SubSeq(out, 1, Len(out) - 1)
    <3>1. short \in Seq(Name) /\ Len(short) = Len(out) - 1 /\ short[1] = out[1]
      BY <2>2
    <3>2. Pop(out) = short
      BY <2>2 DEF Pop
    <3> HIDE DEF short
    <3>3. QED
      BY <2>2, <3>1, <3>2 DEF Rooted
  <2>3. QED
    BY <2>1, <2>2
<1>2. Append(out, c) \in Seq(Name) /\ (Rooted(out) => Rooted(Append(out, c)))
  BY AppendProperties DEF Rooted
<1>3. QED
  BY <1>1, <1>2 DEF Descend

(* A normalised path begins where its path does: ".." never goes above the *)
(* root.                                                                   *)
LEMMA NormalizeFacts ==
    ASSUME NEW path \in Seq(Name), Rooted(path)
    PROVE  Rooted(Normalize(path))
<1> DEFINE N == Len(path)
           D == Seq(Name)
           b == <<>>
           F == [x \in D \X (1 .. N) |-> Descend(x[1], path[x[2]])]
           G(g) == [n \in 0 .. N |-> IF n = 0 THEN <<>> ELSE Descend(g[n - 1], path[n])]
           out == CHOOSE g : g = G(g)
<1>1. N \in Nat /\ b \in D /\ 1 \in 1 .. N /\ path[1] = Slash /\ \A n \in 1 .. N : path[n] \in Name
  BY DEF Rooted
<1>2. F \in [D \X (1 .. N) -> D]
  <2>1. ASSUME NEW s \in D, NEW n \in 1 .. N PROVE Descend(s, path[n]) \in D
    BY <1>1, DescendFacts
  <2>2. QED
    BY <2>1
<1>3. \A s \in D, n \in 1 .. N : F[<<s, n>>] = Descend(s, path[n])
  OBVIOUS
<1>4. Normalize(path) = out[N]
  BY DEF Normalize
<1>5. \E g : g = G(g)
  <2> HIDE DEF F, N, D, b, out
  <2>1. PICK f : Recursion(f, N, D, b, F)
    BY <1>1, <1>2, RecursionExists
  <2>2. \A n \in 1 .. N : f[n - 1] \in D
    BY <1>1, <2>1 DEF Recursion
  <2>3. \A n \in 1 .. N : f[n] = Descend(f[n - 1], path[n])
    BY <1>3, <2>1, <2>2 DEF Recursion
  <2>4. f = [n \in 0 .. N |-> f[n]] /\ f[0] = <<>>
    BY <2>1 DEF Recursion, b
  <2>5. QED
    BY <1>1, <2>3, <2>4
<1>6. out = G(out)
  BY <1>5
<1> HIDE DEF F, D, b, out
<1>7. out[0] = <<>> /\ \A n \in 1 .. N : out[n] = Descend(out[n - 1], path[n])
  BY <1>1, <1>6
<1> DEFINE T == {n \in 1 .. N : ~Rooted(out[n])}
<1>8. T = {}
  <2> SUFFICES ASSUME T # {} PROVE FALSE
    OBVIOUS
  <2>1. T \in SUBSET Nat
    OBVIOUS
  <2>2. PICK n \in T : \A m \in T : n <= m
    <3> HIDE DEF T
    <3>1. QED
      BY <2>1, LeastNumber
  <2>3. n \in 1 .. N /\ ~Rooted(out[n])
    OBVIOUS
  <2>4. CASE n = 1
    <3>1. out[1] = Descend(<<>>, Slash)
      BY <1>1, <1>7
    <3>2. Descend(<<>>, Slash) = <<Slash>>
      BY DEF Descend, Slash
    <3>3. Rooted(<<Slash>>)
      BY PolicyAssumption DEF Rooted
    <3>4. QED
      BY <2>3, <2>4, <3>1, <3>2, <3>3
  <2>5. CASE n # 1
    <3>1. n - 1 \in 1 .. N /\ n - 1 \notin T
      <4> HIDE DEF T
      <4>1. QED
        BY <1>1, <2>2, <2>3, <2>5
    <3>2. Rooted(out[n - 1]) /\ out[n - 1] \in Seq(Name)
      BY <3>1 DEF Rooted
    <3>3. out[n] = Descend(out[n - 1], path[n])
      BY <1>7, <2>3
    <3>4. QED
      BY <1>1, <2>3, <3>2, <3>3, DescendFacts
  <2>6. QED
    BY <2>4, <2>5
<1>9. N \in 1 .. N /\ N \notin T
  BY <1>1, <1>8
<1>10. QED
  BY <1>4, <1>9

LEMMA AbsoluteNormalizedFacts ==
    ASSUME NEW path \in Seq(Name)
    PROVE  Rooted(AbsoluteNormalized(path))
<1>1. CASE path # <<>> /\ Head(path) = Slash
  BY <1>1, NormalizeFacts, RootedHead DEF AbsoluteNormalized
<1>2. CASE ~(path # <<>> /\ Head(path) = Slash)
  <2> DEFINE whole == Cwd \o path
  <2>1. whole \in Seq(Name) /\ Rooted(whole)
    BY PolicyAssumption, ConcatProperties DEF Rooted
  <2>2. AbsoluteNormalized(path) = Normalize(whole)
    BY <1>2 DEF AbsoluteNormalized
  <2> HIDE DEF whole
  <2>3. QED
    BY <2>1, <2>2, NormalizeFacts
<1>3. QED
  BY <1>1, <1>2

(* The guard is sound: what it lets pass is a place below an allowed root, *)
(* by whatever spelling, through whatever links, also for a file that does *)
(* not exist yet.                                                          *)
LEMMA AccessibleInRoots ==
    ASSUME NEW path \in Seq(Name), Accessible(path)
    PROVE  InRoots(Place(AbsoluteNormalized(path)))
<1> DEFINE q == AbsoluteNormalized(path)
<1>1. PICK r \in AllowedRoots :
          StartsWith(CanonicalIfExists(q), CanonicalIfExists(AbsoluteNormalized(r)))
  BY DEF Accessible, Inside, Roots
<1>2. CanonicalIfExists(q) = Place(q)
  BY AbsoluteNormalizedFacts, CanonicalIsPlace DEF Rooted
<1>3. CanonicalIfExists(AbsoluteNormalized(r)) = Place(AbsoluteNormalized(r))
  <2>1. r \in Seq(Name)
    BY PolicyAssumption
  <2>2. QED
    BY <2>1, AbsoluteNormalizedFacts, CanonicalIsPlace DEF Rooted
<1>4. QED
  BY <1>1, <1>2, <1>3 DEF InRoots, Roots

LEMMA GuardSound == \A path \in AccessiblePath : FileOf[path] \in FileInRoots
BY AccessibleInRoots, WorkspaceAssumption DEF AccessiblePath, FileInRoots, File, FileOf

(* The tools write nowhere but in the allowed roots: the guard lets only   *)
(* paths into them pass, and no step writes a path other than the one it   *)
(* has passed, however long the call waits in between.                     *)
THEOREM WritesInRoots == WsSpec => []WritesStayInRoots
<1>1. WsInit => WritesStayInRoots
  BY DEF WsInit, WritesStayInRoots
<1>2. ASSUME WorkspaceInv, WritesStayInRoots, [WsNext]_wsVars
      PROVE  WritesStayInRoots'
  <2>1. disk \in [File -> {"absent", "foreign", "written"}]
    BY <1>2 DEF WorkspaceInv, WorkInv, WorkspaceTypeOK
  <2>2. CASE disk' = disk
    BY <1>2, <2>2 DEF WritesStayInRoots
  <2>3. ASSUME NEW k \in Kernel, WriteFile(k) \/ WriteFails(k)
        PROVE  WritesStayInRoots'
    <3>1. /\ request[k].tool = fs_write /\ request[k].phase = "running"
          /\ target[call[k].cur] = FileOf[arg[k]]
      BY <1>2, <2>3, RunningRow DEF WriteFile, WriteFails
    <3>2. arg[k] \in AccessiblePath
      BY <1>2, <3>1 DEF WorkspaceInv, WorkInv, ArgumentOK, PassesGuard
    <3>3. target[call[k].cur] \in FileInRoots
      BY <3>1, <3>2, GuardSound
    <3>4. disk' = disk \/ disk' = [disk EXCEPT ![target[call[k].cur]] = "written"]
      BY <2>3 DEF WriteFile, WriteFails
    <3>5. QED
      BY <1>2, <2>1, <3>3, <3>4 DEF WritesStayInRoots
  <2>4. ASSUME NEW k \in Kernel, Compensate(k)
        PROVE  WritesStayInRoots'
    <3>1. disk' = disk \/ \E i : disk' = [disk EXCEPT ![target[i]] = "absent"]
      BY <2>4 DEF Compensate, RemoveFile, Refund
    <3>2. QED
      BY <1>2, <2>1, <3>1 DEF WritesStayInRoots
  <2>5. ASSUME NEW k \in Kernel, WsStep(k)
        PROVE  WritesStayInRoots'
    <3>1. CASE Quiet(k) \/ (LogRow(k) /\ LogAction(k)) \/ Pay(k)
      BY <2>2, <3>1 DEF Quiet, LogRow, Pay
    <3>2. QED
      BY <1>2, <2>3, <2>4, <2>5, <3>1, WorkspaceKinds DEF WorkspaceInv
  <2>6. QED
    BY <1>2, <2>2, <2>5 DEF WsNext, WsStep, wsVars
<1>3. QED
  BY <1>1, <1>2, WorkspaceInvariant, PTL DEF WsSpec
=============================================================================
