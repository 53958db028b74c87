------------------------- MODULE PythonBridgeProofs -------------------------
(***************************************************************************)
(* The interpreter's lock and the kernel's mutex of PySagaKernel, for any  *)
(* number of threads, sessions, tools and keys: a step is logged in the    *)
(* session that is current, and what a row says of its compensation is     *)
(* what its callback did.                                                  *)
(***************************************************************************)
EXTENDS PythonBridge, SagaKernelProofs

USE DEF walVars, kernelVars, ghostVars, budgetVars, bridgeVars

(* What a thread that waits for the kernel has read is still so: it holds  *)
(* the interpreter meanwhile.                                              *)
WaitingOK(t) ==
    frame[t].at = "lock" =>
        /\ frame[t].method \in {"begin_tool", "register_tool", "execute_tool"} =>
              frame[t].tool \in Tool
        /\ frame[t].method = "execute_tool" => frame[t].sess = session_id

(* From the first statement of execute_tool to the INSERT the thread keeps *)
(* interpreter and kernel.                                                 *)
LoggingOK(k) ==
    pc[k] = "log" => gil = mutex /\ call[k].sess = session_id

(* The row of a step is PENDING until the step records its end, a rollback *)
(* is about rows of the table, and the one whose compensation it is about  *)
(* to record is undone, unless there was nothing to call.                  *)
RowAtHandOK(k) ==
    /\ pc[k] \in {"execute", "commit", "fail"} =>
          call[k].cur \in ActionId /\ Status(call[k].cur) = "PENDING"
    /\ pc[k] \in {"compensate", "undone", "orphan", "dlq"} =>
          \A i \in call[k].todo : Status(i) # "NONE"
    /\ pc[k] = "undone" =>
          \/ world[call[k].cur] = "undone"
          \/ actions[call[k].cur].tool \in NoCompensator

LastRowOK == \A i \in ActionId : nrows < i => Status(i) = "NONE"

BridgeInv ==
    /\ BridgeTypeOK /\ CursorOK /\ LastRowOK
    /\ \A t \in Thread : WaitingOK(t)
    /\ \A k \in Kernel : LoggingOK(k) /\ RowAtHandOK(k)
    /\ CompensatedMeansUndone

-----------------------------------------------------------------------------
(* The ways a step of the class moves the kernel. *)
Quiet(k) == BeginPlanning(k) \/ Complete(k) \/ \E t \in Tool : BeginTool(k, t)

Bookkeeping(k) ==
    \/ ScanCommitted(k) \/ CompensateError(k) \/ RecordUndone(k) \/ RecordOrphan(k)
    \/ RecordInDlq(k) \/ EndRollback(k) \/ CompensateOk(k)

Refused(k) == SkipCompensation(k) \/ ExecuteResultRefused(k) \/ CompensateResultRefused(k)

LEMMA OneKernel == \A j, k \in Kernel : j = k
BY BridgeAssumption

LEMMA EnterMoves ==
    ASSUME BridgeInv, NEW k \in Kernel, NEW t \in Thread, Enter(k, t)
    PROVE  \/ UNCHANGED vars
           \/ Quiet(k)
           \/ \E tool \in Tool, s \in Session, key \in Key \cup {NoKey} :
                 ReturnCached(k, tool, s, key) \/ (ExecuteTool(k, tool, s, key) /\ s = session_id)
<1> DEFINE f == frame[t]
<1>1. /\ f.at = "lock" /\ WaitingOK(t) /\ f.key \in Key \cup {NoKey}
      /\ KernelCall(k, f) \/ NoKernelCall(k, f)
  BY DEF Enter, BridgeInv, BridgeTypeOK, Frame
<1>2. CASE NoKernelCall(k, f)
  BY <1>2 DEF NoKernelCall
<1>3. CASE f.method = "begin_tool" /\ BeginTool(k, f.tool)
  BY <1>1, <1>3 DEF WaitingOK, Quiet
<1>4. CASE /\ f.method = "execute_tool"
           /\ ReturnCached(k, f.tool, f.sess, f.key) \/ ExecuteTool(k, f.tool, f.sess, f.key)
  <2>1. f.tool \in Tool /\ f.sess = session_id
    BY <1>1, <1>4 DEF WaitingOK
  <2>2. session_id \in Session
    BY DEF BridgeInv, BridgeTypeOK
  <2>3. QED
    BY <1>1, <1>4, <2>1, <2>2
<1>5. QED
  BY <1>1, <1>2, <1>3, <1>4 DEF KernelCall, Quiet

LEMMA WorkMoves ==
    ASSUME NEW k \in Kernel, NEW t \in Thread, Work(k, t)
    PROVE  Log(k) \/ Step(k) \/ Bookkeeping(k) \/ Refused(k)
BY DEF Work, Bookkeeping, Refused, CompensateRaises

(* What a step of the class does to the kernel's state. *)
LEMMA MoveKinds ==
    ASSUME BridgeInv, NEW k \in Kernel, NEW t \in Thread,
           \/ Switch(k, t) \/ NewSession(t) \/ InMethod(k, t)
           \/ \E method \in Method, tool \in Tool \cup {NoTool}, key \in Key \cup {NoKey} :
                 CallMethod(t, method, tool, key)
    PROVE  \/ UNCHANGED vars
           \/ Quiet(k)
           \/ \E tool \in Tool, s \in Session, key \in Key \cup {NoKey} :
                 ReturnCached(k, tool, s, key) \/ (ExecuteTool(k, tool, s, key) /\ s = session_id)
           \/ Log(k) \/ Step(k) \/ Bookkeeping(k) \/ Refused(k)
<1>1. CASE Enter(k, t)
  BY <1>1, EnterMoves
<1>2. CASE Work(k, t)
  BY <1>2, WorkMoves
<1>3. QED
  BY <1>1, <1>2 DEF InMethod, Switch, NewSession, CallMethod, Leave

(* The kernel's variables keep their types. *)
LEMMA RefusedType ==
    ASSUME TypeOK, CursorOK, NEW k \in Kernel, Refused(k)
    PROVE  TypeOK' /\ CursorOK'
<1>1. call[k] \in Call /\ ActionId \subseteq Nat
  BY WalAssumption DEF TypeOK, ActionId
<1>2. CASE ExecuteResultRefused(k)
  <2>1. /\ pc' = [pc EXCEPT ![k] = "fail"] /\ UNCHANGED call
        /\ world' = [world EXCEPT ![call[k].cur] = "applied"]
        /\ UNCHANGED <<walVars, fsm, ghostVars, budgetVars>>
    BY <1>2 DEF ExecuteResultRefused, Goto
  <2>2. QED
    BY <2>1 DEF TypeOK, WalTypeOK, Label, CursorOK
<1>3. CASE SkipCompensation(k) \/ CompensateResultRefused(k)
  <2>1. PICK i \in call[k].todo : /\ IsLast(i, call[k].todo)
                                  /\ call' = [call EXCEPT ![k].cur = i]
                                  /\ UNCHANGED world \/ world' = [world EXCEPT ![i] = "undone"]
    BY <1>3 DEF SkipCompensation, CompensateResultRefused
  <2>2. /\ pc' = [pc EXCEPT ![k] = "undone"] \/ pc' = [pc EXCEPT ![k] = "orphan"]
        /\ UNCHANGED <<walVars, fsm, ghostVars, budgetVars>>
    BY <1>3 DEF SkipCompensation, CompensateResultRefused, Goto
  <2>3. i \in ActionId
    BY <1>1, <2>1 DEF Call
  <2>4. [call[k] EXCEPT !.cur = i] \in Call
    BY <1>1, <2>3, CallFieldType
  <2>5. call' \in [Kernel -> Call] /\ pc' \in [Kernel -> Label]
    BY <2>1, <2>2, <2>4 DEF TypeOK, Label
  <2>6. TypeOK'
    BY <2>1, <2>2, <2>5 DEF TypeOK, WalTypeOK
  <2>7. CursorOK'
    BY <2>1, <2>2, OneKernel DEF CursorOK, TypeOK, Call
  <2>8. QED
    BY <2>6, <2>7
<1>4. QED
  BY <1>2, <1>3 DEF Refused

LEMMA KernelTypeStep ==
    ASSUME BridgeInv, NEW k \in Kernel,
           \/ UNCHANGED vars
           \/ Quiet(k)
           \/ \E tool \in Tool, s \in Session, key \in Key \cup {NoKey} :
                 ReturnCached(k, tool, s, key) \/ ExecuteTool(k, tool, s, key)
           \/ Log(k) \/ Step(k) \/ Bookkeeping(k) \/ Refused(k)
    PROVE  TypeOK' /\ CursorOK'
<1>1. TypeOK /\ CursorOK
  BY DEF BridgeInv, BridgeTypeOK
<1>2. CASE UNCHANGED vars
  BY <1>1, <1>2 DEF vars, TypeOK, WalTypeOK, CursorOK
<1>3. CASE Refused(k)
  BY <1>1, <1>3, RefusedType
<1>4. CASE Caller(k) \/ Log(k) \/ Step(k) \/ Rollback(k)
  <2>1. TypeOK'
    BY <1>1, <1>4, CallerType, LogType, StepType, RollbackType
  <2>2. CursorOK'
    BY <1>1, <1>4, CursorStep DEF Next, Progress
  <2>3. QED
    BY <2>1, <2>2
<1>5. Quiet(k) => Caller(k)
  BY DEF Quiet, Caller
<1>6. (\E tool \in Tool, s \in Session, key \in Key \cup {NoKey} :
          ReturnCached(k, tool, s, key) \/ ExecuteTool(k, tool, s, key)) => Caller(k)
  BY DEF Caller
<1>7. Bookkeeping(k) => Rollback(k)
  BY DEF Bookkeeping, Rollback
<1>8. QED
  BY <1>2, <1>3, <1>4, <1>5, <1>6, <1>7

-----------------------------------------------------------------------------
(* The two locks. *)
LocksOK ==
    /\ gil \in Thread
    /\ mutex \in Thread \cup {NoThread}
    /\ frame \in [Thread -> Frame]
    /\ \A t \in Thread : frame[t].at = "kernel" <=> mutex = t
    /\ \A t \in Thread : frame[t].at = "lock" => gil = t
    /\ session_id \in minted /\ minted \subseteq Session
    /\ registered \subseteq Tool

(* Calls of the kernel leave the interpreter's side alone. *)
LEMMA BridgeLocks ==
    ASSUME BridgeInv, NEW k \in Kernel, NEW u \in Thread,
           \/ Switch(k, u) \/ NewSession(u) \/ InMethod(k, u)
           \/ \E method \in Method, tool \in Tool \cup {NoTool}, key \in Key \cup {NoKey} :
                 CallMethod(u, method, tool, key)
    PROVE  LocksOK' /\ \A t \in Thread : WaitingOK(t)'
<1>1. LocksOK /\ (\A t \in Thread : WaitingOK(t)) /\ NoThread \notin Thread
  BY BridgeAssumption DEF BridgeInv, BridgeTypeOK, LocksOK
<1>2. CASE Switch(k, u)
  <2>1. \A t \in Thread : frame[t].at # "lock"
    BY <1>1, <1>2 DEF Switch, RunsPython, LocksOK
  <2>2. QED
    BY <1>1, <1>2, <2>1 DEF Switch, LocksOK, WaitingOK
<1>3. CASE NewSession(u)
  <2>1. \A t \in Thread : frame[t].at # "lock"
    BY <1>1, <1>3 DEF NewSession, LocksOK
  <2>2. session_id' \in minted' /\ minted' \subseteq Session
        /\ UNCHANGED <<gil, mutex, frame, registered>>
    BY <1>1, <1>3 DEF NewSession, LocksOK
  <2>3. QED
    BY <1>1, <2>1, <2>2 DEF LocksOK, WaitingOK
<1>4. ASSUME NEW method \in Method, NEW tool \in Tool \cup {NoTool}, NEW key \in Key \cup {NoKey},
             CallMethod(u, method, tool, key)
      PROVE  LocksOK' /\ \A t \in Thread : WaitingOK(t)'
  <2> DEFINE f == [at |-> "lock", method |-> method, tool |-> tool, key |-> key,
                   sess |-> IF method = "execute_tool" THEN session_id ELSE NoSession]
  <2>1. /\ gil = u /\ frame[u].at = "python" /\ frame' = [frame EXCEPT ![u] = f]
        /\ method \in {"begin_tool", "register_tool", "execute_tool"} => tool # NoTool
        /\ UNCHANGED <<gil, mutex, session_id, minted, registered>>
    BY <1>4 DEF CallMethod
  <2>2. f \in Frame
    BY <1>1 DEF LocksOK, Frame
  <2>3. frame' \in [Thread -> Frame] /\ frame'[u] = f /\ \A t \in Thread \ {u} : frame'[t] = frame[t]
    BY <1>1, <2>1, <2>2 DEF LocksOK
  <2>4. LocksOK'
    BY <1>1, <2>1, <2>3 DEF LocksOK
  <2>5. WaitingOK(u)'
    BY <2>1, <2>3 DEF WaitingOK
  <2>6. ASSUME NEW t \in Thread \ {u}
        PROVE  WaitingOK(t)'
    BY <1>1, <2>1, <2>3 DEF WaitingOK
  <2>7. QED
    BY <2>4, <2>5, <2>6
<1>5. CASE Enter(k, u)
  <2>1. /\ gil = u /\ mutex = NoThread /\ mutex' = u /\ frame[u].at = "lock"
        /\ frame' = [frame EXCEPT ![u].at = "kernel"]
        /\ UNCHANGED <<gil, session_id, minted>>
    BY <1>5 DEF Enter
  <2>2. registered' \subseteq Tool
    BY <1>1, <1>5 DEF Enter, LocksOK, WaitingOK
  <2>3. frame' \in [Thread -> Frame]
    BY <1>1, <2>1 DEF LocksOK, Frame
  <2>4. frame'[u].at = "kernel" /\ \A t \in Thread \ {u} : frame'[t] = frame[t]
    BY <1>1, <2>1 DEF LocksOK, Frame
  <2>5. LocksOK'
    BY <1>1, <2>1, <2>2, <2>3, <2>4 DEF LocksOK
  <2>6. ASSUME NEW t \in Thread
        PROVE  WaitingOK(t)'
    BY <1>1, <2>1, <2>4 DEF WaitingOK
  <2>7. QED
    BY <2>5, <2>6
<1>6. CASE Work(k, u)
  BY <1>1, <1>6 DEF Work, LocksOK, WaitingOK
<1>7. CASE Leave(k, u)
  <2>1. /\ mutex = u /\ mutex' = NoThread /\ frame' = [frame EXCEPT ![u] = InProgram]
        /\ UNCHANGED <<gil, session_id, minted, registered>>
    BY <1>7 DEF Leave
  <2>2. InProgram \in Frame /\ InProgram.at = "python"
    BY DEF InProgram, Frame, Method
  <2>3. LocksOK'
    BY <1>1, <2>1, <2>2 DEF LocksOK
  <2>4. ASSUME NEW t \in Thread
        PROVE  WaitingOK(t)'
    BY <1>1, <2>1, <2>2 DEF WaitingOK, LocksOK
  <2>5. QED
    BY <2>3, <2>4
<1>8. QED
  BY <1>2, <1>3, <1>4, <1>5, <1>6, <1>7 DEF InMethod

(* The INSERT is made under both locks: nothing but it comes between. *)
LEMMA LoggingStep ==
    ASSUME BridgeInv, NEW k \in Kernel, NEW u \in Thread,
           \/ Switch(k, u) \/ NewSession(u) \/ InMethod(k, u)
           \/ \E method \in Method, tool \in Tool \cup {NoTool}, key \in Key \cup {NoKey} :
                 CallMethod(u, method, tool, key)
    PROVE  LoggingOK(k)'
<1>1. TypeOK /\ LocksOK /\ LoggingOK(k) /\ NoThread \notin Thread
  BY BridgeAssumption DEF BridgeInv, BridgeTypeOK, LocksOK
<1>2. CASE Switch(k, u) \/ NewSession(u)
  <2>1. pc[k] # "log"
    BY <1>1, <1>2 DEF Switch, NewSession, RunsPython, InCallback, LocksOK, LoggingOK
  <2>2. QED
    BY <1>2, <2>1 DEF Switch, NewSession, LoggingOK, vars
<1>3. CASE \E method \in Method, tool \in Tool \cup {NoTool}, key \in Key \cup {NoKey} :
                 CallMethod(u, method, tool, key)
  BY <1>1, <1>3 DEF CallMethod, LoggingOK, vars
<1>4. CASE Enter(k, u)
  <2>1. gil' = u /\ mutex' = u /\ session_id' = session_id /\ pc[k] # "log"
    BY <1>1, <1>4 DEF Enter, LoggingOK, LocksOK
  <2>2. CASE UNCHANGED vars \/ Quiet(k)
    BY <2>1, <2>2 DEF LoggingOK, Quiet, BeginPlanning, Complete, BeginTool, vars
  <2>3. ASSUME NEW tool \in Tool, NEW s \in Session, NEW key \in Key \cup {NoKey},
               ReturnCached(k, tool, s, key)
        PROVE  LoggingOK(k)'
    BY <2>1, <2>3 DEF LoggingOK, ReturnCached
  <2>4. ASSUME NEW tool \in Tool, NEW s \in Session, NEW key \in Key \cup {NoKey},
               ExecuteTool(k, tool, s, key), s = session_id
        PROVE  LoggingOK(k)'
    <3>1. PICK n : call' = [call EXCEPT ![k] = NewCall("step", s, n, key, 0)]
      BY <2>4 DEF ExecuteTool
    <3>2. call'[k].sess = s
      BY <1>1, <3>1 DEF NewCall, TypeOK
    <3>3. QED
      BY <2>1, <2>4, <3>2 DEF LoggingOK
  <2>5. QED
    BY <1>4, <2>2, <2>3, <2>4, EnterMoves
<1>5. CASE Work(k, u)
  <2>1. pc'[k] # "log"
    <3>1. CASE Log(k) \/ Step(k)
      BY <1>1, <3>1 DEF Log, LogAction, ParkForApproval, LogRefused, Step, ToolOk, ToolError,
         CommitStep, FailStep, Return, Goto, TypeOK
    <3>2. CASE Bookkeeping(k)
      BY <1>1, <3>2 DEF Bookkeeping, ScanCommitted, CompensateError, RecordUndone, RecordOrphan,
         RecordInDlq, CompensateOk, NextRow, LoopLabel, EndRollback, FinishRollback,
         ReturnToCaller, Return, Goto, TypeOK
    <3>3. CASE Refused(k)
      BY <1>1, <3>3 DEF Refused, SkipCompensation, ExecuteResultRefused, CompensateResultRefused,
         Goto, TypeOK
    <3>4. QED
      BY <1>5, <3>1, <3>2, <3>3, WorkMoves
  <2>2. QED
    BY <2>1 DEF LoggingOK
<1>6. CASE Leave(k, u)
  BY <1>6 DEF Leave, LoggingOK, Running, vars
<1>7. QED
  BY <1>2, <1>3, <1>4, <1>5, <1>6 DEF InMethod

-----------------------------------------------------------------------------
(* The rows. *)
RowsOK(k) == RowAtHandOK(k) /\ LastRowOK /\ CompensatedMeansUndone

LEMMA InsertRow ==
    ASSUME BridgeInv, NEW k \in Kernel, LogAction(k) \/ ParkForApproval(k)
    PROVE  RowsOK(k)'
<1>1. /\ TypeOK /\ LastRowOK /\ CompensatedMeansUndone /\ MaxActions \in Nat
  BY WalAssumption DEF BridgeInv, BridgeTypeOK
<1> DEFINE n == nrows + 1
<1>2. PICK r : /\ r.status \in {"PENDING", "PENDING_APPROVAL"}
               /\ LogAction(k) => r.status = "PENDING"
               /\ actions' = [actions EXCEPT ![n] = r]
  BY DEF LogAction, ParkForApproval, InsertAction
<1>3. n \in ActionId /\ nrows' = n /\ nrows \in Nat /\ UNCHANGED world
  BY <1>1 DEF LogAction, ParkForApproval, InsertAction, ActionId, TypeOK, WalTypeOK
<1>4. actions'[n] = r /\ \A i \in ActionId \ {n} : actions'[i] = actions[i]
  BY <1>1, <1>2, <1>3 DEF TypeOK, WalTypeOK
<1>5. RowAtHandOK(k)'
  <2>1. CASE LogAction(k)
    <3>1. pc'[k] = "execute" /\ call'[k].cur = n
      BY <1>1, <2>1 DEF LogAction, Goto, TypeOK, Call
    <3>2. QED
      BY <1>2, <1>3, <1>4, <2>1, <3>1 DEF RowAtHandOK, Status
  <2>2. CASE ParkForApproval(k)
    BY <1>1, <2>2 DEF ParkForApproval, Return, Goto, RowAtHandOK, TypeOK
  <2>3. QED
    BY <2>1, <2>2
<1>6. LastRowOK'
  <2> SUFFICES ASSUME NEW i \in ActionId, n < i
               PROVE  Status(i)' = "NONE"
    BY <1>3 DEF LastRowOK
  <2>1. i # n /\ nrows < i
    BY <1>3 DEF ActionId
  <2>2. QED
    BY <1>1, <1>4, <2>1 DEF LastRowOK, Status
<1>7. CompensatedMeansUndone'
  <2> SUFFICES ASSUME NEW i \in ActionId, Status(i)' = "COMPENSATED"
               PROVE  world[i] = "undone" \/ actions'[i].tool \in NoCompensator
    BY <1>3 DEF CompensatedMeansUndone
  <2>1. actions'[i] = actions[i]
    BY <1>2, <1>4 DEF Status
  <2>2. QED
    BY <1>1, <2>1 DEF CompensatedMeansUndone, Status
<1>8. QED
  BY <1>5, <1>6, <1>7 DEF RowsOK

(* An UPDATE of the row at hand. *)
LEMMA MarkRow ==
    ASSUME BridgeInv, NEW c \in ActionId, Status(c) # "NONE", UNCHANGED <<nrows, world>>,
           \/ MarkCommitted(c) \/ MarkFailed(c)
           \/ /\ MarkCompensated(c)
              /\ world[c] = "undone" \/ actions[c].tool \in NoCompensator
    PROVE  /\ LastRowOK' /\ CompensatedMeansUndone'
           /\ \A i \in ActionId : Status(i) # "NONE" => Status(i)' # "NONE"
<1>1. TypeOK /\ LastRowOK /\ CompensatedMeansUndone
  BY DEF BridgeInv, BridgeTypeOK
<1>2. /\ Status(c)' \in {"COMMITTED", "FAILED", "COMPENSATED"}
      /\ actions'[c].tool = actions[c].tool
      /\ Status(c)' = "COMPENSATED" => world[c] = "undone" \/ actions[c].tool \in NoCompensator
      /\ \A i \in ActionId \ {c} : actions'[i] = actions[i]
  BY <1>1 DEF MarkCommitted, MarkFailed, MarkCompensated, Status, TypeOK, WalTypeOK, Row
<1>3. LastRowOK'
  BY <1>1, <1>2 DEF LastRowOK, Status
<1>4. CompensatedMeansUndone'
  BY <1>1, <1>2 DEF CompensatedMeansUndone, Status
<1>5. QED
  BY <1>2, <1>3, <1>4 DEF Status

LEMMA StepRow ==
    ASSUME BridgeInv, NEW k \in Kernel, Step(k)
    PROVE  RowsOK(k)'
<1>1. /\ TypeOK /\ LastRowOK /\ CompensatedMeansUndone /\ RowAtHandOK(k)
  BY DEF BridgeInv, BridgeTypeOK
<1>2. call[k].cur \in ActionId /\ Status(call[k].cur) = "PENDING"
  BY <1>1 DEF Step, ToolOk, ToolError, CommitStep, FailStep, RowAtHandOK
<1>3. CASE ToolOk(k) \/ ToolError(k)
  <2>1. /\ UNCHANGED <<walVars, call>> /\ pc'[k] \in {"commit", "fail"}
        /\ UNCHANGED world \/ world' = [world EXCEPT ![call[k].cur] = "applied"]
    BY <1>1, <1>3 DEF ToolOk, ToolError, Goto, TypeOK
  <2>2. CompensatedMeansUndone'
    BY <1>1, <1>2, <2>1 DEF CompensatedMeansUndone, Status, TypeOK
  <2>3. QED
    BY <1>1, <1>2, <2>1, <2>2 DEF RowsOK, RowAtHandOK, LastRowOK, Status
<1>4. CASE CommitStep(k)
  <2>1. pc'[k] = "idle" /\ MarkCommitted(call[k].cur) /\ UNCHANGED <<nrows, world>>
    BY <1>1, <1>4 DEF CommitStep, Return, Goto, TypeOK
  <2>2. QED
    BY <1>2, <2>1, MarkRow DEF RowsOK, RowAtHandOK
<1>5. CASE FailStep(k)
  <2>1. pc'[k] = "scan" /\ UNCHANGED <<nrows, world>>
    BY <1>1, <1>5 DEF FailStep, Goto, TypeOK
  <2>2. CASE MarkFailed(call[k].cur)
    BY <1>2, <2>1, <2>2, MarkRow DEF RowsOK, RowAtHandOK
  <2>3. CASE UNCHANGED actions
    BY <1>1, <2>1, <2>3 DEF RowsOK, RowAtHandOK, LastRowOK, CompensatedMeansUndone, Status
  <2>4. QED
    BY <1>5, <2>2, <2>3 DEF FailStep
<1>6. QED
  BY <1>3, <1>4, <1>5 DEF Step

LEMMA RollbackRow ==
    ASSUME BridgeInv, NEW k \in Kernel, Bookkeeping(k) \/ Refused(k)
    PROVE  RowsOK(k)'
<1>1. /\ TypeOK /\ LastRowOK /\ CompensatedMeansUndone /\ RowAtHandOK(k)
  BY DEF BridgeInv, BridgeTypeOK
<1>2. call[k] \in Call /\ call[k].todo \subseteq ActionId
  BY <1>1 DEF TypeOK, Call
<1>3. CASE ScanCommitted(k)
  <2>1. /\ UNCHANGED <<walVars, world>> /\ pc'[k] \in {"compensate", "end"}
        /\ call'[k].todo = Committed(call[k].sess)
    BY <1>1, <1>3 DEF ScanCommitted, Goto, LoopLabel, TypeOK, Call
  <2>2. \A i \in Committed(call[k].sess) : Status(i) # "NONE"
    BY DEF Committed, WithStatus, Status
  <2>3. QED
    BY <1>1, <2>1, <2>2 DEF RowsOK, RowAtHandOK, LastRowOK, CompensatedMeansUndone, Status
<1>4. CASE CompensateError(k)
  <2>1. /\ UNCHANGED <<walVars, world>> /\ pc'[k] = "orphan" /\ pc[k] = "compensate"
        /\ call'[k].todo = call[k].todo
    BY <1>1, <1>2, <1>4 DEF CompensateError, Goto, TypeOK, Call
  <2>2. QED
    BY <1>1, <2>1 DEF RowsOK, RowAtHandOK, LastRowOK, CompensatedMeansUndone, Status
<1>5. CASE CompensateOk(k) \/ CompensateResultRefused(k)
  <2>1. PICK i \in call[k].todo : /\ call' = [call EXCEPT ![k].cur = i]
                                  /\ world' = [world EXCEPT ![i] = "undone"]
    BY <1>5 DEF CompensateOk, CompensateResultRefused
  <2>2. /\ UNCHANGED walVars /\ pc'[k] \in {"undone", "orphan"} /\ pc[k] = "compensate"
        /\ call'[k].todo = call[k].todo /\ call'[k].cur = i
    BY <1>1, <1>2, <1>5, <2>1 DEF CompensateOk, CompensateResultRefused, Goto, TypeOK, Call
  <2>3. \A j \in ActionId : world[j] = "undone" => world'[j] = "undone"
    BY <1>1, <2>1 DEF TypeOK
  <2>4. world'[i] = "undone"
    BY <1>1, <1>2, <2>1 DEF TypeOK
  <2>5. RowAtHandOK(k)'
    BY <1>1, <2>2, <2>4 DEF RowAtHandOK, Status
  <2>6. QED
    BY <1>1, <2>2, <2>3, <2>5 DEF RowsOK, LastRowOK, CompensatedMeansUndone, Status
<1>6. CASE SkipCompensation(k)
  <2>1. PICK i \in call[k].todo : /\ IsLast(i, call[k].todo) /\ pc[k] = "compensate"
                                  /\ ~InCallback(k)
                                  /\ call' = [call EXCEPT ![k].cur = i]
    BY <1>6 DEF SkipCompensation
  <2>2. /\ UNCHANGED <<walVars, world>> /\ pc'[k] = "undone"
        /\ call'[k].todo = call[k].todo /\ call'[k].cur = i
    BY <1>1, <1>2, <1>6, <2>1 DEF SkipCompensation, Goto, TypeOK, Call
  <2>3. actions[i].tool \in NoCompensator
    BY <2>1 DEF InCallback
  <2>4. RowAtHandOK(k)'
    BY <1>1, <2>1, <2>2, <2>3 DEF RowAtHandOK, Status
  <2>5. QED
    BY <1>1, <2>2, <2>4 DEF RowsOK, LastRowOK, CompensatedMeansUndone, Status
<1>7. CASE ExecuteResultRefused(k)
  <2>1. /\ UNCHANGED <<walVars, call>> /\ pc'[k] = "fail" /\ pc[k] = "execute"
        /\ world' = [world EXCEPT ![call[k].cur] = "applied"]
    BY <1>1, <1>7 DEF ExecuteResultRefused, Goto, TypeOK
  <2>2. call[k].cur \in ActionId /\ Status(call[k].cur) = "PENDING"
    BY <1>1, <2>1 DEF RowAtHandOK
  <2>3. CompensatedMeansUndone'
    BY <1>1, <2>1, <2>2 DEF CompensatedMeansUndone, Status, TypeOK
  <2>4. QED
    BY <1>1, <2>1, <2>2, <2>3 DEF RowsOK, RowAtHandOK, LastRowOK, Status
<1>8. CASE RecordUndone(k) \/ RecordOrphan(k)
  <2> DEFINE c == call[k].cur
  <2>1. c \in call[k].todo /\ c \in ActionId /\ Status(c) # "NONE"
    BY <1>1, <1>2, <1>8 DEF RecordUndone, RecordOrphan, BridgeInv, CursorOK, RowAtHandOK
  <2>2. /\ UNCHANGED <<nrows, world>>
        /\ \/ MarkFailed(c)
           \/ /\ MarkCompensated(c)
              /\ world[c] = "undone" \/ actions[c].tool \in NoCompensator
    BY <1>1, <1>8 DEF RecordUndone, RecordOrphan, MarkCompensationFailed, RowAtHandOK
  <2>3. /\ pc'[k] \in {"compensate", "end", "dlq"} /\ pc[k] \in {"undone", "orphan"}
        /\ call'[k].todo \subseteq call[k].todo
    BY <1>1, <1>2, <1>8 DEF RecordUndone, RecordOrphan, NextRow, LoopLabel, Goto, TypeOK, Call
  <2>4. /\ LastRowOK' /\ CompensatedMeansUndone'
        /\ \A i \in ActionId : Status(i) # "NONE" => Status(i)' # "NONE"
    BY <2>1, <2>2, MarkRow
  <2>5. RowAtHandOK(k)'
    BY <1>1, <1>2, <2>3, <2>4 DEF RowAtHandOK
  <2>6. QED
    BY <2>4, <2>5 DEF RowsOK
<1>9. CASE RecordInDlq(k)
  <2>1. /\ UNCHANGED <<actions, nrows, world>> /\ pc'[k] \in {"compensate", "end"}
        /\ pc[k] = "dlq" /\ call'[k].todo \subseteq call[k].todo
    BY <1>1, <1>2, <1>9 DEF RecordInDlq, NextRow, LoopLabel, Goto, TypeOK, Call
  <2>2. QED
    BY <1>1, <2>1 DEF RowsOK, RowAtHandOK, LastRowOK, CompensatedMeansUndone, Status
<1>10. CASE EndRollback(k)
  <2>1. UNCHANGED <<actions, nrows, world>> /\ pc'[k] \in {"idle", "settle"}
    BY <1>1, <1>10 DEF EndRollback, FinishRollback, ReturnToCaller, Return, Goto, TypeOK
  <2>2. QED
    BY <1>1, <2>1 DEF RowsOK, RowAtHandOK, LastRowOK, CompensatedMeansUndone, Status
<1>11. QED
  BY <1>3, <1>4, <1>5, <1>6, <1>7, <1>8, <1>9, <1>10 DEF Bookkeeping, Refused

LEMMA CallRow ==
    ASSUME BridgeInv, NEW k \in Kernel,
           \/ UNCHANGED vars
           \/ Quiet(k)
           \/ \E tool \in Tool, s \in Session, key \in Key \cup {NoKey} :
                 ReturnCached(k, tool, s, key) \/ ExecuteTool(k, tool, s, key)
           \/ LogRefused(k)
    PROVE  RowsOK(k)'
<1>1. /\ TypeOK /\ LastRowOK /\ CompensatedMeansUndone /\ RowAtHandOK(k)
  BY DEF BridgeInv, BridgeTypeOK
<1>2. UNCHANGED <<actions, nrows, world>> /\ (pc'[k] \in {"log", "idle"} \/ UNCHANGED <<pc, call>>)
  BY <1>1 DEF Quiet, BeginPlanning, Complete, BeginTool, ReturnCached, ExecuteTool, LogRefused,
     Return, Goto, TypeOK, vars
<1>3. QED
  BY <1>1, <1>2 DEF RowsOK, RowAtHandOK, LastRowOK, CompensatedMeansUndone, Status

-----------------------------------------------------------------------------
LEMMA BridgeInvStep ==
    ASSUME BridgeInv, [PyNext]_pyVars
    PROVE  BridgeInv'
<1>1. CASE UNCHANGED pyVars
  BY <1>1 DEF pyVars, vars, BridgeInv, BridgeTypeOK, TypeOK, WalTypeOK, CursorOK, LastRowOK,
     WaitingOK, LoggingOK, RowAtHandOK, CompensatedMeansUndone, Status
<1>2. ASSUME NEW k \in Kernel, NEW t \in Thread,
             \/ Switch(k, t) \/ NewSession(t) \/ InMethod(k, t)
             \/ \E method \in Method, tool \in Tool \cup {NoTool}, key \in Key \cup {NoKey} :
                   CallMethod(t, method, tool, key)
      PROVE  BridgeInv'
  <2>1. TypeOK' /\ CursorOK'
    BY <1>2, MoveKinds, KernelTypeStep
  <2>2. LocksOK' /\ \A u \in Thread : WaitingOK(u)'
    BY <1>2, BridgeLocks
  <2>3. \A j \in Kernel : LoggingOK(j)'
    BY <1>2, LoggingStep, OneKernel
  <2>4. RowsOK(k)'
    BY <1>2, MoveKinds, InsertRow, StepRow, RollbackRow, CallRow DEF Log
  <2>5. \A j \in Kernel : RowAtHandOK(j)'
    BY <2>4, OneKernel DEF RowsOK
  <2>6. BridgeTypeOK'
    BY <2>1, <2>2 DEF BridgeTypeOK, LocksOK
  <2>7. QED
    BY <2>1, <2>2, <2>3, <2>4, <2>5, <2>6 DEF BridgeInv, RowsOK
<1>3. QED
  BY <1>1, <1>2 DEF PyNext

LEMMA BridgeInvariant == PySpec => []BridgeInv
<1>1. Init => TypeOK
  BY KernelAssumption, WalAssumption
  DEF Init, WalInit, TypeOK, WalTypeOK, NoRow, Row, SessionStatus, AgentState, Idle, PlainState,
      Mode, Label, NoCall, NewCall, Call
<1>2. PyInit => BridgeInv
  <2> SUFFICES ASSUME PyInit
               PROVE  BridgeInv
    OBVIOUS
  <2>1. BridgeTypeOK
    BY <1>1, BridgeAssumption DEF PyInit, BridgeTypeOK, InProgram, Frame, Method
  <2>2. CursorOK /\ \A k \in Kernel : LoggingOK(k) /\ RowAtHandOK(k)
    BY DEF PyInit, Init, CursorOK, LoggingOK, RowAtHandOK
  <2>3. LastRowOK /\ CompensatedMeansUndone
    BY DEF PyInit, Init, WalInit, NoRow, LastRowOK, CompensatedMeansUndone, Status
  <2>4. \A t \in Thread : WaitingOK(t)
    BY DEF PyInit, InProgram, WaitingOK
  <2>5. QED
    BY <2>1, <2>2, <2>3, <2>4 DEF BridgeInv
<1>3. QED
  BY <1>2, BridgeInvStep, PTL DEF PySpec

(* Types, and the discipline of the two locks: a thread is in the kernel   *)
(* exactly when it holds its mutex, and waits for it with the interpreter. *)
THEOREM BridgeTypeCorrect == PySpec => []BridgeTypeOK
<1>1. BridgeInv => BridgeTypeOK
  BY DEF BridgeInv
<1>2. QED
  BY <1>1, BridgeInvariant, PTL

(* No step is logged in a session that new_session has already left,       *)
(* although execute_tool reads the session under a guard that it drops     *)
(* before it locks the kernel (src/python.rs): between the two the thread  *)
(* keeps the interpreter, without which no other rotates the session.      *)
THEOREM StepsLoggedInCurrentSession == PySpec => []StepInCurrentSession
<1>1. BridgeInv => StepInCurrentSession
  BY DEF BridgeInv, LoggingOK, StepInCurrentSession
<1>2. QED
  BY <1>1, BridgeInvariant, PTL

(* A row says COMPENSATED only if its callback ran and did not raise, or   *)
(* if it has none, whatever callbacks raise or return.                     *)
THEOREM CompensatedByCallback == PySpec => []CompensatedMeansUndone
<1>1. BridgeInv => CompensatedMeansUndone
  BY DEF BridgeInv
<1>2. QED
  BY <1>1, BridgeInvariant, PTL
=============================================================================
