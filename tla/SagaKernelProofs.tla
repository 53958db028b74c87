-------------------------- MODULE SagaKernelProofs --------------------------
(***************************************************************************)
(* Theorems about SagaKernel for every value of its constants: its types,  *)
(* the truth of its ledger, and that it implements EffectLedger.           *)
(***************************************************************************)
EXTENDS SagaProperties, NaturalsInduction, WellFoundedInduction, TLAPS

-----------------------------------------------------------------------------
(* Recursion and least numbers, without an operator as a parameter.        *)

(* A nonempty set of natural numbers has a least element. *)
LEMMA LeastNumber ==
    ASSUME NEW T \in SUBSET Nat, T # {}
    PROVE  \E n \in T : \A m \in T : n <= m
<1>0. T \subseteq Nat
  OBVIOUS
<1>1. PICK n \in T : \A m \in T : <<m, n>> \notin OpToRel(<, Nat)
  BY <1>0, NatLessThanWellFounded, WFMin
<1>2. \A m \in T : ~(m < n)
  BY <1>0, <1>1 DEF OpToRel
<1>3. QED
  BY <1>0, <1>2

(* f starts with b and goes on by F.                                       *)
Recursion(f, N, D, b, F) ==
    f \in [0 .. N -> D] /\ f[0] = b /\ \A n \in 1 .. N : f[n] = F[<<f[n - 1], n>>]

(* What is defined by recursion on 0 .. N exists. *)
LEMMA RecursionExists ==
    ASSUME NEW N \in Nat, NEW D, NEW b \in D, NEW F \in [D \X (1 .. N) -> D]
    PROVE  \E f : Recursion(f, N, D, b, F)
<1> DEFINE Good(m, f) == f[0] = b /\ \A n \in 1 .. m : f[n] = F[<<f[n - 1], n>>]
           T == {m \in 0 .. N : ~\E f \in [0 .. m -> D] : Good(m, f)}
<1>1. T = {}
  <2> SUFFICES ASSUME T # {} PROVE FALSE
    OBVIOUS
  <2>1. PICK m \in T : \A i \in T : m <= i
    <3>1. T \in SUBSET Nat
      OBVIOUS
    <3> HIDE DEF T
    <3>2. QED
      BY <3>1, LeastNumber
  <2>2. m # 0
    <3> DEFINE c == [i \in 0 .. 0 |-> b]
    <3>1. c \in [0 .. 0 -> D] /\ Good(0, c)
      OBVIOUS
    <3>2. 0 \notin T
      BY <3>1
    <3> HIDE DEF T
    <3>3. QED
      BY <2>1, <3>2
  <2>3. PICK g \in [0 .. m - 1 -> D] : Good(m - 1, g)
    <3>0. m \in 0 .. N
      OBVIOUS
    <3>1. m - 1 \in 0 .. N /\ m - 1 \notin T
      <4> HIDE DEF T
      <4>1. QED
        BY <2>1, <2>2, <3>0
    <3>2. QED
      BY <3>1
  <2> DEFINE h == [i \in 0 .. m |-> IF i = m THEN F[<<g[m - 1], m>>] ELSE g[i]]
  <2>4. h \in [0 .. m -> D]
    BY <2>2, <2>3
  <2>5. Good(m, h)
    <3>1. h[0] = b
      BY <2>2, <2>3
    <3>2. ASSUME NEW n \in 1 .. m PROVE h[n] = F[<<h[n - 1], n>>]
      <4>1. CASE n = m
        BY <4>1, <2>2
      <4>2. CASE n < m
        <5>1. n \in 1 .. m - 1 /\ n \in 0 .. m /\ n - 1 \in 0 .. m /\ n - 1 # m
          BY <4>2
        <5>2. h[n] = g[n] /\ h[n - 1] = g[n - 1]
          BY <4>2, <5>1
        <5>3. QED
          BY <2>3, <5>1, <5>2
      <4>3. QED
        BY <4>1, <4>2
    <3>3. QED
      BY <3>1, <3>2
  <2>6. QED
    BY <2>4, <2>5
<1>2. N \notin T
  BY <1>1
<1>3. QED
  BY <1>2 DEF Recursion

-----------------------------------------------------------------------------
(* The state machine maps states to states. *)
LEMMA TransitionType ==
    ASSUME NEW s \in AgentState, NEW e,
           e.tool \in Tool \cup {NoTool}, e.token \in Nat
    PROVE  Transition(s, e) \in AgentState
<1>1. CASE ~Accepts(s, e)
  BY <1>1 DEF Transition
<1>2. CASE Accepts(s, e)
  BY <1>2 DEF Transition, Accepts, Target, PlainState, Executing, AgentState, Mode
<1>3. QED
  BY <1>1, <1>2

(* Constants of the model are as the declarations say. *)
USE DEF walVars, kernelVars, ghostVars, budgetVars

-----------------------------------------------------------------------------
(* Type correctness, one lemma for each group of actions. *)

LEMMA FireType ==
    ASSUME TypeOK, NEW k \in Kernel, NEW e,
           e.tool \in Tool \cup {NoTool}, e.token \in Nat, Fire(k, e)
    PROVE  fsm' \in [Kernel -> AgentState]
<1>1. Transition(fsm[k], e) \in AgentState
  BY TransitionType DEF TypeOK
<1>2. QED
  BY <1>1 DEF Fire, TypeOK

LEMMA ReturnType ==
    ASSUME TypeOK, NEW k \in Kernel, Return(k)
    PROVE  pc' \in [Kernel -> Label] /\ call' \in [Kernel -> Call]
BY WalAssumption DEF Return, Goto, NoCall, NewCall, Call, Label, TypeOK

LEMMA InsertType ==
    ASSUME WalTypeOK, NEW s \in Session \cup {NoSession}, NEW n \in Nat, NEW t \in Tool \cup {NoTool},
           NEW key \in Key \cup {NoKey}, NEW st \in ActionStatus,
           InsertAction(s, n, t, key, st), CreateSession(s), UNCHANGED dlq
    PROVE  WalTypeOK'
<1>1. [session |-> s, seq |-> n, tool |-> t, key |-> key, status |-> st, out |-> FALSE] \in Row
  BY DEF Row
<1>2. actions' \in [ActionId -> Row]
  BY <1>1 DEF InsertAction, WalTypeOK
<1>3. nrows' \in 0 .. MaxActions
  BY WalAssumption DEF InsertAction, WalTypeOK
<1>4. sessions' \in [Session -> SessionStatus]
  BY DEF CreateSession, WalTypeOK, SessionStatus
<1>5. QED
  BY <1>2, <1>3, <1>4 DEF WalTypeOK

(* The assignments to single locals keep the record a Call. *)
LEMMA CallFieldType ==
    ASSUME NEW c \in Call
    PROVE  /\ \A n \in Nat : [c EXCEPT !.cur = n] \in Call
           /\ \A T \in SUBSET ActionId :
                 /\ [c EXCEPT !.todo = T] \in Call
                 /\ \A b \in BOOLEAN : [c EXCEPT !.todo = T, !.failed = b] \in Call
                 /\ \A s \in Session : [c EXCEPT !.sess = s, !.todo = T] \in Call
           /\ \A D \in SUBSET Session : [c EXCEPT !.dangling = D] \in Call
BY DEF Call

LEMMA CallUpdateType ==
    ASSUME TypeOK, NEW k \in Kernel, NEW c \in Call, call' = [call EXCEPT ![k] = c]
    PROVE  call' \in [Kernel -> Call]
BY DEF TypeOK

LEMMA MarkType ==
    ASSUME WalTypeOK, NEW i,
           MarkFailed(i) \/ MarkCompensated(i) \/ MarkCompensationFailed(i) \/ MarkCommitted(i)
    PROVE  actions' \in [ActionId -> Row]
BY DEF WalTypeOK, MarkFailed, MarkCompensated, MarkCompensationFailed, MarkCommitted,
       Row, ActionStatus

LEMMA CallerType ==
    ASSUME TypeOK, NEW k \in Kernel, Caller(k)
    PROVE  TypeOK'
<1>1. CASE BeginPlanning(k)
  <2>1. fsm' \in [Kernel -> AgentState]
    BY <1>1, FireType DEF BeginPlanning, Plain
  <2>2. QED
    BY <1>1, <2>1 DEF BeginPlanning, TypeOK, WalTypeOK
<1>2. CASE Complete(k)
  <2>1. fsm' \in [Kernel -> AgentState]
    BY <1>2, FireType DEF Complete, Plain
  <2>2. finalised' \subseteq ActionId
    BY <1>2 DEF Complete, TypeOK, Committed, WithStatus, Rows
  <2>3. QED
    BY <1>2, <2>1, <2>2 DEF Complete, TypeOK, WalTypeOK
<1>3. CASE NewKernel(k)
  BY <1>3 DEF NewKernel, TypeOK, WalTypeOK, Idle, PlainState, AgentState, Mode
<1>4. CASE StartRecovery(k)
  BY <1>4 DEF StartRecovery, TypeOK, WalTypeOK, Goto, Label, Call, NoCall, NewCall, DanglingSessions
<1>5. ASSUME NEW t \in Tool, BeginTool(k, t)
      PROVE  TypeOK'
  <2>1. fsm' \in [Kernel -> AgentState]
    BY <1>5, FireType DEF BeginTool, StartExecution
  <2>2. QED
    BY <1>5, <2>1 DEF BeginTool, TypeOK, WalTypeOK
<1>6. ASSUME NEW t \in Tool, NEW s \in Session, NEW key \in Key \cup {NoKey},
             ReturnCached(k, t, s, key)
      PROVE  TypeOK'
  <2>1. fsm' \in [Kernel -> AgentState]
    BY <1>6, FireType DEF ReturnCached, Plain
  <2>2. QED
    BY <1>6, <2>1 DEF ReturnCached, TypeOK, WalTypeOK
<1>7. ASSUME NEW t \in Tool, NEW s \in Session, NEW key \in Key \cup {NoKey},
             ExecuteTool(k, t, s, key)
      PROVE  TypeOK'
  <2>1. /\ pc' \in [Kernel -> Label]
        /\ call' \in [Kernel -> Call]
        /\ saga' \in [Kernel -> SUBSET Session]
    BY <1>7, WalAssumption DEF ExecuteTool, TypeOK, Goto, Label, Call, NoCall, NewCall
  <2>2. QED
    BY <1>7, <2>1 DEF ExecuteTool, TypeOK, WalTypeOK
<1>8. ASSUME NEW s \in Session, ApproveAction(k, s)
      PROVE  TypeOK'
  <2>1. fsm' \in [Kernel -> AgentState]
    BY <1>8, FireType DEF ApproveAction, ApproveExecution, TypeOK, AgentState
  <2>2. call' \in [Kernel -> Call]
    <3>1. PICK i \in ActionId :
             call' = [call EXCEPT ![k] =
                        NewCall("step", s, actions[i].seq, actions[i].key, i)]
      BY <1>8 DEF ApproveAction
    <3>2. NewCall("step", s, actions[i].seq, actions[i].key, i) \in Call
      BY <3>1, WalAssumption DEF TypeOK, WalTypeOK, Row, ActionId, Call, NewCall
    <3>3. QED
      BY <3>1, <3>2, CallUpdateType
  <2>3. pc' \in [Kernel -> Label] /\ approved' \subseteq Nat
    BY <1>8 DEF ApproveAction, TypeOK, AgentState, Goto, Label
  <2>4. QED
    BY <1>8, <2>1, <2>2, <2>3 DEF ApproveAction, TypeOK, WalTypeOK
<1>9. ASSUME NEW s \in Session, RejectAction(k, s)
      PROVE  TypeOK'
  <2>1. fsm' \in [Kernel -> AgentState]
    BY <1>9, FireType DEF RejectAction, RejectExecution, TypeOK, AgentState
  <2>2. NewCall("reject", s, 0, NoKey, 0) \in Call
    BY DEF Call, NewCall
  <2>3. pc' \in [Kernel -> Label] /\ call' \in [Kernel -> Call]
    BY <1>9, <2>2 DEF RejectAction, TypeOK, Goto, Label
  <2>4. actions' \in [ActionId -> Row]
    BY <1>9, MarkType DEF RejectAction, TypeOK, WalTypeOK
  <2>5. QED
    BY <1>9, <2>1, <2>3, <2>4 DEF RejectAction, TypeOK, WalTypeOK
<1>10. QED
  BY <1>1, <1>2, <1>3, <1>4, <1>5, <1>6, <1>7, <1>8, <1>9 DEF Caller

LEMMA LogType ==
    ASSUME TypeOK, NEW k \in Kernel, Log(k)
    PROVE  TypeOK'
<1> DEFINE c == call[k]
<1>1. c.sess \in Session \cup {NoSession} /\ c.seq \in Nat /\ c.key \in Key \cup {NoKey} /\ fsm[k].tool \in Tool \cup {NoTool}
  BY DEF TypeOK, Call, AgentState
<1>2. CASE LogAction(k)
  <2>1. WalTypeOK'
    BY <1>1, <1>2, InsertType DEF LogAction, TypeOK, ActionStatus
  <2>2. pc' \in [Kernel -> Label]
    BY <1>2 DEF LogAction, TypeOK, Goto, Label
  <2>3. call' \in [Kernel -> Call]
    <3>1. nrows + 1 \in Nat /\ call[k] \in Call
      BY WalAssumption DEF TypeOK, WalTypeOK
    <3>2. [call[k] EXCEPT !.cur = nrows + 1] \in Call
      BY <3>1, CallFieldType
    <3>3. QED
      BY <1>2, <3>2, CallUpdateType DEF LogAction
  <2>4. QED
    BY <1>2, <2>1, <2>2, <2>3 DEF LogAction, TypeOK
<1>3. CASE ParkForApproval(k)
  <2>1. WalTypeOK'
    BY <1>1, <1>3, InsertType DEF ParkForApproval, TypeOK, ActionStatus
  <2>2. fsm' \in [Kernel -> AgentState]
    BY <1>1, <1>3, FireType, WalAssumption DEF ParkForApproval, RequireApproval, TypeOK, WalTypeOK
  <2>3. pc' \in [Kernel -> Label] /\ call' \in [Kernel -> Call]
    BY <1>3, ReturnType DEF ParkForApproval
  <2>4. QED
    BY <1>3, <2>1, <2>2, <2>3 DEF ParkForApproval, TypeOK
<1>4. CASE LogRefused(k)
  <2>1. sessions' \in [Session -> SessionStatus]
    BY <1>4 DEF LogRefused, CreateSession, TypeOK, WalTypeOK, SessionStatus
  <2>2. pc' \in [Kernel -> Label] /\ call' \in [Kernel -> Call]
    BY <1>4, ReturnType DEF LogRefused
  <2>3. QED
    BY <1>4, <2>1, <2>2 DEF LogRefused, TypeOK, WalTypeOK
<1>5. QED
  BY <1>2, <1>3, <1>4 DEF Log

LEMMA StepType ==
    ASSUME TypeOK, NEW k \in Kernel, Step(k)
    PROVE  TypeOK'
<1>1. CASE ToolOk(k)
  BY <1>1 DEF ToolOk, TypeOK, WalTypeOK, Goto, Label
<1>2. CASE ToolError(k)
  BY <1>2 DEF ToolError, TypeOK, WalTypeOK, Goto, Label
<1>3. CASE CommitStep(k)
  <2>1. actions' \in [ActionId -> Row]
    BY <1>3, MarkType DEF CommitStep, TypeOK
  <2>2. fsm' \in [Kernel -> AgentState]
    BY <1>3, FireType DEF CommitStep, Plain
  <2>3. pc' \in [Kernel -> Label] /\ call' \in [Kernel -> Call]
    BY <1>3, ReturnType DEF CommitStep
  <2>4. QED
    BY <1>3, <2>1, <2>2, <2>3 DEF CommitStep, TypeOK, WalTypeOK
<1>4. CASE FailStep(k)
  <2>1. actions' \in [ActionId -> Row]
    BY <1>4, MarkType DEF FailStep, TypeOK, WalTypeOK
  <2>2. fsm' \in [Kernel -> AgentState]
    BY <1>4, FireType DEF FailStep, Plain
  <2>3. pc' \in [Kernel -> Label] /\ faults' \in 0 .. MaxFaults
    BY <1>4, KernelAssumption DEF FailStep, Fault, TypeOK, Goto, Label
  <2>4. QED
    BY <1>4, <2>1, <2>2, <2>3 DEF FailStep, TypeOK, WalTypeOK
<1>5. QED
  BY <1>1, <1>2, <1>3, <1>4 DEF Step

LEMMA CallerOfRollbackType ==
    ASSUME TypeOK, NEW k \in Kernel, ReturnToCaller(k)
    PROVE  /\ fsm' \in [Kernel -> AgentState]
           /\ pc' \in [Kernel -> Label]
           /\ call' \in [Kernel -> Call]
<1>1. pc' \in [Kernel -> Label] /\ call' \in [Kernel -> Call]
  BY ReturnType DEF ReturnToCaller
<1>2. CASE call[k].ret = "step"
  <2>1. fsm' \in [Kernel -> AgentState]
    BY <1>2, FireType DEF ReturnToCaller, Plain
  <2>2. QED
    BY <1>1, <2>1
<1>3. CASE call[k].ret # "step"
  BY <1>1, <1>3 DEF ReturnToCaller, TypeOK
<1>4. QED
  BY <1>2, <1>3

LEMMA NextRowType ==
    ASSUME TypeOK, NEW k \in Kernel, NEW b \in BOOLEAN, NextRow(k, b)
    PROVE  pc' \in [Kernel -> Label] /\ call' \in [Kernel -> Call]
<1> DEFINE left == call[k].todo \ {call[k].cur}
<1>1. call[k] \in Call /\ left \in SUBSET ActionId
  BY DEF TypeOK, Call
<1>2. [call[k] EXCEPT !.todo = left, !.failed = b] \in Call
  BY <1>1, CallFieldType
<1>3. call' = [call EXCEPT ![k] = [call[k] EXCEPT !.todo = left, !.failed = b]]
  BY <1>1 DEF NextRow, TypeOK
<1>4. call' \in [Kernel -> Call]
  BY <1>2, <1>3, CallUpdateType
<1>5. pc' \in [Kernel -> Label]
  BY DEF NextRow, LoopLabel, Goto, TypeOK, Label
<1>6. QED
  BY <1>4, <1>5

LEMMA RollbackType ==
    ASSUME TypeOK, CursorOK, NEW k \in Kernel, Rollback(k)
    PROVE  TypeOK'
<1>1. CASE ScanCommitted(k)
  <2>1. call[k] \in Call /\ Committed(call[k].sess) \in SUBSET ActionId
    BY DEF TypeOK, Committed, WithStatus, Rows
  <2>2. [call[k] EXCEPT !.todo = Committed(call[k].sess), !.failed = FALSE] \in Call
    BY <2>1, CallFieldType
  <2>3. call' = [call EXCEPT ![k] =
                    [call[k] EXCEPT !.todo = Committed(call[k].sess), !.failed = FALSE]]
    BY <1>1, <2>1 DEF ScanCommitted, TypeOK
  <2>4. call' \in [Kernel -> Call]
    BY <2>2, <2>3, CallUpdateType
  <2>5. QED
    BY <1>1, <2>4 DEF ScanCommitted, TypeOK, WalTypeOK, LoopLabel, Goto, Label
<1>2. CASE CompensateOk(k)
  <2>1. PICK i \in call[k].todo :
           /\ world' = [world EXCEPT ![i] = "undone"]
           /\ call' = [call EXCEPT ![k].cur = i]
    BY <1>2 DEF CompensateOk
  <2>2. call[k] \in Call /\ i \in Nat
    BY <2>1, WalAssumption DEF TypeOK, Call, ActionId
  <2>3. [call[k] EXCEPT !.cur = i] \in Call
    BY <2>2, CallFieldType
  <2>4. call' \in [Kernel -> Call]
    BY <2>1, <2>3, CallUpdateType
  <2>5. QED
    BY <1>2, <2>1, <2>4 DEF CompensateOk, TypeOK, WalTypeOK, Goto, Label
<1>3. CASE CompensateError(k)
  <2>1. PICK i \in call[k].todo : call' = [call EXCEPT ![k].cur = i]
    BY <1>3 DEF CompensateError
  <2>2. call[k] \in Call /\ i \in Nat
    BY <2>1, WalAssumption DEF TypeOK, Call, ActionId
  <2>3. [call[k] EXCEPT !.cur = i] \in Call
    BY <2>2, CallFieldType
  <2>4. call' \in [Kernel -> Call]
    BY <2>1, <2>3, CallUpdateType
  <2>5. QED
    BY <1>3, <2>4 DEF CompensateError, TypeOK, WalTypeOK, Goto, Label
<1>4. CASE RecordUndone(k)
  <2>1. call[k].failed \in BOOLEAN
    BY DEF TypeOK, Call
  <2>2. actions' \in [ActionId -> Row]
    BY <1>4, MarkType DEF RecordUndone, TypeOK
  <2>3. QED
    BY <1>4, <2>1, <2>2, NextRowType DEF RecordUndone, TypeOK, WalTypeOK
<1>5. CASE RecordOrphan(k)
  <2>1. actions' \in [ActionId -> Row]
    BY <1>5, MarkType DEF RecordOrphan, TypeOK
  <2>2. QED
    BY <1>5, <2>1 DEF RecordOrphan, TypeOK, WalTypeOK, Goto, Label
<1>6. CASE RecordInDlq(k)
  <2>1. dlq' \subseteq ActionId
    BY <1>6 DEF RecordInDlq, RecordDlq, CursorOK, TypeOK, WalTypeOK, Call
  <2>2. QED
    BY <1>6, <2>1, NextRowType DEF RecordInDlq, TypeOK, WalTypeOK
<1>7. CASE EndRollback(k)
  <2>1. sessions' \in [Session -> SessionStatus] /\ faults' \in 0 .. MaxFaults
    BY <1>7, KernelAssumption DEF EndRollback, SetSessionStatus, Fault, TypeOK, WalTypeOK,
                                  SessionStatus
  <2>2. /\ fsm' \in [Kernel -> AgentState]
        /\ pc' \in [Kernel -> Label]
        /\ call' \in [Kernel -> Call]
    BY <1>7, CallerOfRollbackType DEF EndRollback, FinishRollback, TypeOK, Goto, Label
  <2>3. QED
    BY <1>7, <2>1, <2>2 DEF EndRollback, TypeOK, WalTypeOK
<1>8. QED
  BY <1>1, <1>2, <1>3, <1>4, <1>5, <1>6, <1>7 DEF Rollback

LEMMA RecoveryType ==
    ASSUME TypeOK, NEW k \in Kernel, Recovery(k)
    PROVE  TypeOK'
<1>1. ASSUME NEW s \in Session, RecoverSession(k, s)
      PROVE  TypeOK'
  <2>1. call[k] \in Call /\ Orphans(s) \in SUBSET ActionId
    BY DEF TypeOK, Orphans, WithStatus, Rows
  <2>2. [call[k] EXCEPT !.sess = s, !.todo = Orphans(s)] \in Call
    BY <2>1, CallFieldType
  <2>3. call' = [call EXCEPT ![k] = [call[k] EXCEPT !.sess = s, !.todo = Orphans(s)]]
    BY <1>1, <2>1 DEF RecoverSession, TypeOK
  <2>4. call' \in [Kernel -> Call]
    BY <2>2, <2>3, CallUpdateType
  <2>5. QED
    BY <1>1, <2>4 DEF RecoverSession, TypeOK, WalTypeOK, PendingLabel, Goto, Label
<1>2. CASE FailOrphan(k)
  <2>1. actions' \in [ActionId -> Row]
    BY <1>2, MarkType DEF FailOrphan, TypeOK
  <2>2. PICK i \in call[k].todo : call' = [call EXCEPT ![k].todo = @ \ {i}]
    BY <1>2 DEF FailOrphan
  <2>3. call[k] \in Call /\ call[k].todo \ {i} \in SUBSET ActionId
    BY DEF TypeOK, Call
  <2>4. [call[k] EXCEPT !.todo = call[k].todo \ {i}] \in Call
    BY <2>3, CallFieldType
  <2>5. call' \in [Kernel -> Call]
    BY <2>2, <2>4, CallUpdateType
  <2>6. QED
    BY <1>2, <2>1, <2>5 DEF FailOrphan, TypeOK, WalTypeOK, PendingLabel, Goto, Label
<1>3. CASE SettleSession(k)
  <2>1. sessions' \in [Session -> SessionStatus]
    BY <1>3 DEF SettleSession, SetSessionStatus, TypeOK, WalTypeOK, SessionStatus
  <2>2. pc' \in [Kernel -> Label] /\ call' \in [Kernel -> Call]
    <3>1. CASE Return(k)
      BY <3>1, ReturnType
    <3>2. CASE ~Return(k)
      <4>1. call[k] \in Call /\ call[k].dangling \ {call[k].sess} \in SUBSET Session
        BY DEF TypeOK, Call
      <4>2. [call[k] EXCEPT !.dangling = call[k].dangling \ {call[k].sess}] \in Call
        BY <4>1, CallFieldType
      <4>3. call' \in [Kernel -> Call]
        BY <1>3, <3>2, <4>2, CallUpdateType DEF SettleSession
      <4>4. QED
        BY <1>3, <3>2, <4>3 DEF SettleSession, Goto, TypeOK, Label
    <3>3. QED
      BY <3>1, <3>2
  <2>3. QED
    BY <1>3, <2>1, <2>2 DEF SettleSession, TypeOK, WalTypeOK
<1>4. QED
  BY <1>1, <1>2, <1>3 DEF Recovery

LEMMA FailureType ==
    ASSUME TypeOK, NEW k \in Kernel, Failure(k)
    PROVE  TypeOK'
<1>1. CASE LogFault(k)
  <2>1. sessions' \in [Session -> SessionStatus] /\ faults' \in 0 .. MaxFaults
    BY <1>1, KernelAssumption DEF LogFault, CreateSession, Fault, TypeOK, WalTypeOK, SessionStatus
  <2>2. QED
    BY <1>1, <2>1, ReturnType DEF LogFault, TypeOK, WalTypeOK
<1>2. CASE CommitFault(k)
  BY <1>2, KernelAssumption, ReturnType DEF CommitFault, Fault, TypeOK, WalTypeOK
<1>3. CASE RollbackFault(k)
  BY <1>3, KernelAssumption, CallerOfRollbackType DEF RollbackFault, Fault, TypeOK, WalTypeOK
<1>4. CASE RecoveryFault(k)
  BY <1>4, KernelAssumption, ReturnType DEF RecoveryFault, Fault, TypeOK, WalTypeOK
<1>5. CASE Crash(k)
  BY <1>5, KernelAssumption, ReturnType DEF Crash, TypeOK, WalTypeOK, Idle, PlainState, AgentState, Mode
<1>6. QED
  BY <1>1, <1>2, <1>3, <1>4, <1>5 DEF Failure

(* A step of one kernel leaves the calls of the others where they are. *)
LEMMA OthersUntouched ==
    ASSUME TypeOK, NEW k \in Kernel, Progress(k) \/ Caller(k) \/ Failure(k)
    PROVE  \A j \in Kernel \ {k} : pc'[j] = pc[j] /\ call'[j] = call[j]
<1>1. CASE Log(k) \/ Step(k)
  BY <1>1 DEF Log, Step, LogAction, ParkForApproval, LogRefused, ToolOk, ToolError, CommitStep,
              FailStep, Return, Goto, TypeOK
<1>2. CASE Rollback(k)
  <2>1. CASE ScanCommitted(k) \/ CompensateOk(k) \/ CompensateError(k) \/ RecordOrphan(k)
    BY <2>1 DEF ScanCommitted, CompensateOk, CompensateError, RecordOrphan, Goto, TypeOK
  <2>2. CASE RecordUndone(k) \/ RecordInDlq(k)
    BY <2>2 DEF RecordUndone, RecordInDlq, NextRow, Goto, TypeOK
  <2>3. CASE EndRollback(k)
    <3>1. CASE call[k].ret = "recover"
      BY <2>3, <3>1 DEF EndRollback, FinishRollback, Goto, TypeOK
    <3>2. CASE call[k].ret # "recover"
      BY <2>3, <3>2 DEF EndRollback, FinishRollback, ReturnToCaller, Return, Goto, TypeOK
    <3>3. QED
      BY <3>1, <3>2
  <2>4. QED
    BY <1>2, <2>1, <2>2, <2>3 DEF Rollback
<1>3. CASE Recovery(k)
  BY <1>3 DEF Recovery, RecoverSession, FailOrphan, SettleSession, Return, Goto, TypeOK
<1>4. CASE Caller(k)
  BY <1>4 DEF Caller, BeginPlanning, Complete, NewKernel, StartRecovery, BeginTool, ReturnCached,
              ExecuteTool, ApproveAction, RejectAction, Goto, TypeOK
<1>5. CASE Failure(k)
  BY <1>5 DEF Failure, LogFault, CommitFault, RollbackFault, RecoveryFault, Crash, ReturnToCaller,
              Return, Goto, TypeOK
<1>6. QED
  BY <1>1, <1>2, <1>3, <1>4, <1>5 DEF Progress

(* The cursor of a loop is set to a row of the list and dropped with it. *)
LEMMA CursorStep ==
    ASSUME TypeOK, CursorOK, [Next]_vars
    PROVE  CursorOK'
<1> DEFINE InLoop(j) == pc[j] \in {"undone", "orphan", "dlq"}
<1>1. CASE UNCHANGED vars
  BY <1>1 DEF vars, CursorOK
<1>2. ASSUME NEW k \in Kernel, Progress(k) \/ Caller(k) \/ Failure(k)
      PROVE  InLoop(k)' => call'[k].cur \in call'[k].todo
  <2>1. CASE Log(k) \/ Step(k)
    BY <2>1 DEF Log, Step, LogAction, ParkForApproval, LogRefused, ToolOk, ToolError, CommitStep,
                FailStep, Return, Goto, TypeOK
  <2>2. CASE ScanCommitted(k)
    BY <2>2 DEF ScanCommitted, LoopLabel, Goto, TypeOK
  <2>3. CASE CompensateOk(k) \/ CompensateError(k)
    <3>1. PICK i \in call[k].todo : call' = [call EXCEPT ![k].cur = i]
      BY <2>3 DEF CompensateOk, CompensateError
    <3>2. call'[k].cur = i /\ call'[k].todo = call[k].todo
      BY <3>1 DEF TypeOK, Call
    <3>3. QED
      BY <3>1, <3>2
  <2>4. CASE RecordUndone(k) \/ RecordInDlq(k)
    BY <2>4 DEF RecordUndone, RecordInDlq, NextRow, LoopLabel, Goto, TypeOK
  <2>5. CASE RecordOrphan(k)
    BY <2>5 DEF RecordOrphan, CursorOK, TypeOK
  <2>6. CASE EndRollback(k)
    <3>1. pc'[k] \in {"settle", "idle"}
      BY <2>6 DEF EndRollback, FinishRollback, ReturnToCaller, Return, Goto, TypeOK
    <3>2. QED
      BY <3>1
  <2>7. CASE Recovery(k)
    <3>1. pc'[k] \in {"scan", "pending", "next", "idle"}
      BY <2>7 DEF Recovery, RecoverSession, FailOrphan, SettleSession, PendingLabel, Return, Goto,
                  TypeOK
    <3>2. QED
      BY <3>1
  <2>8. CASE Caller(k)
    BY <2>8 DEF Caller, BeginPlanning, Complete, NewKernel, StartRecovery, BeginTool, ReturnCached,
                ExecuteTool, ApproveAction, RejectAction, Running, Goto, CursorOK, TypeOK
  <2>9. CASE Failure(k)
    BY <2>9 DEF Failure, LogFault, CommitFault, RollbackFault, RecoveryFault, Crash, ReturnToCaller,
                Return, Goto, TypeOK
  <2>10. QED
    BY <1>2, <2>1, <2>2, <2>3, <2>4, <2>5, <2>6, <2>7, <2>8, <2>9 DEF Progress, Rollback
<1>3. ASSUME NEW k \in Kernel, Progress(k) \/ Caller(k) \/ Failure(k)
      PROVE  CursorOK'
  BY <1>2, <1>3, OthersUntouched DEF CursorOK
<1>4. QED
  BY <1>1, <1>3 DEF Next

(* Every variable keeps its type: the codes that the text columns of the   *)
(* database and the state machine can hold, and the locals of a call.      *)
THEOREM TypeCorrect == Spec => []TypeOK
<1>1. Init => TypeOK /\ CursorOK
  BY WalAssumption, KernelAssumption
  DEF Init, WalInit, TypeOK, WalTypeOK, NoRow, Row, SessionStatus, Idle, PlainState, AgentState,
      Mode, Label, NoCall, NewCall, Call, CursorOK
<1>2. TypeOK /\ CursorOK /\ [Next]_vars => TypeOK' /\ CursorOK'
  <2> SUFFICES ASSUME TypeOK, CursorOK, [Next]_vars
               PROVE  TypeOK'
    BY CursorStep
  <2>1. CASE UNCHANGED vars
    BY <2>1 DEF vars, TypeOK, WalTypeOK
  <2>2. ASSUME NEW k \in Kernel, Progress(k)
        PROVE  TypeOK'
    BY <2>2, LogType, StepType, RollbackType, RecoveryType DEF Progress
  <2>3. ASSUME NEW k \in Kernel, Caller(k)
        PROVE  TypeOK'
    BY <2>3, CallerType
  <2>4. ASSUME NEW k \in Kernel, Failure(k)
        PROVE  TypeOK'
    BY <2>4, FailureType
  <2>5. QED
    BY <2>1, <2>2, <2>3, <2>4 DEF Next
<1>3. QED
  BY <1>1, <1>2, PTL DEF Spec

-----------------------------------------------------------------------------
(***************************************************************************)
(* LedgerTruth for every instance whose kernels have sessions of their     *)
(* own, whatever crashes, faults and concurrent recoveries do.  LedgerInv  *)
(* is the inductive invariant; the argument goes by the kernel that moves: *)
(* RowsKept is what its step guarantees to the calls of the others.        *)
(***************************************************************************)

(* A step of k keeps: outputs, once written; rows, once inserted; undone   *)
(* effects; and, of a row without output that k is not committing, the     *)
(* missing output and the effect.                                          *)
RowsKept(k) ==
    \A i \in ActionId :
        /\ actions[i].out => actions'[i].out
        /\ Status(i) # "NONE" =>
              Status(i)' # "NONE" /\ actions'[i].session = actions[i].session
        /\ actions[i].out /\ world[i] = "undone" => world'[i] = "undone"
        /\ ~actions[i].out /\ world[i] = "applied" => world'[i] = "applied"
        /\ ~actions[i].out /\ ~(pc[k] = "commit" /\ call[k].cur = i) => ~actions'[i].out
        /\ /\ ~actions[i].out /\ ~(pc[k] = "commit" /\ call[k].cur = i)
           /\ Status(i) \in {"PENDING", "PENDING_APPROVAL", "FAILED"}
           => Status(i)' \in {"PENDING", "PENDING_APPROVAL", "FAILED"}

(* The steps that touch no row. *)
LEMMA QuietRows ==
    ASSUME LedgerInv, NEW k \in Kernel, UNCHANGED <<actions, nrows, world, dlq>>
    PROVE  RowsKept(k) /\ \A i \in ActionId : RowOK(i)'
BY DEF RowsKept, LedgerInv, RowOK, Status

LEMMA InsertRows ==
    ASSUME TypeOK, LedgerInv, NEW k \in Kernel, NEW s, NEW n, NEW t, NEW key,
           NEW st \in {"PENDING", "PENDING_APPROVAL"},
           InsertAction(s, n, t, key, st), UNCHANGED <<world, dlq>>
    PROVE  RowsKept(k) /\ \A i \in ActionId : RowOK(i)'
<1>1. nrows + 1 \in ActionId /\ nrows \in Nat
  BY WalAssumption DEF InsertAction, ActionId, TypeOK, WalTypeOK
<1>2. Status(nrows + 1) = "NONE" /\ ~actions[nrows + 1].out /\ nrows + 1 \notin dlq
  BY <1>1 DEF LedgerInv, RowOK, Status
<1>3. /\ actions'[nrows + 1].status = st
      /\ ~actions'[nrows + 1].out
      /\ \A i \in ActionId \ {nrows + 1} : actions'[i] = actions[i]
  BY <1>1 DEF InsertAction, TypeOK, WalTypeOK
<1>4. RowsKept(k)
  BY <1>1, <1>2, <1>3 DEF RowsKept, Status
<1>5. ASSUME NEW i \in ActionId PROVE RowOK(i)'
  <2>1. CASE i = nrows + 1
    BY <2>1, <1>1, <1>2, <1>3 DEF RowOK, Status, LedgerInv, InsertAction
  <2>2. CASE i # nrows + 1
    <3>1. RowOK(i) /\ i \in Nat /\ nrows' = nrows + 1 /\ actions'[i] = actions[i]
      BY <2>2, <1>3, WalAssumption DEF LedgerInv, InsertAction, ActionId
    <3>2. QED
      BY <3>1, <1>1 DEF RowOK, Status
  <2>3. QED
    BY <2>1, <2>2
<1>6. QED
  BY <1>4, <1>5

(* One row gets a new status, and nothing else changes. *)
LEMMA MarkRows ==
    ASSUME TypeOK, LedgerInv, NEW k \in Kernel, NEW i \in ActionId,
           Status(i) # "NONE",
           \/ MarkFailed(i)
           \/ MarkCompensated(i) /\ actions[i].out /\ world[i] = "undone",
           UNCHANGED <<nrows, world, dlq>>
    PROVE  RowsKept(k) /\ \A j \in ActionId : RowOK(j)'
<1>1. /\ Status(i)' \in {"FAILED", "COMPENSATED"}
      /\ Status(i)' = "COMPENSATED" => actions[i].out /\ world[i] = "undone"
      /\ actions'[i].out = actions[i].out
      /\ actions'[i].session = actions[i].session
      /\ \A j \in ActionId \ {i} : actions'[j] = actions[j]
  BY DEF MarkFailed, MarkCompensated, Status, TypeOK, WalTypeOK, Row
<1>2. RowsKept(k)
  BY <1>1 DEF RowsKept, Status
<1>3. QED
  BY <1>1, <1>2 DEF RowOK, Status, LedgerInv

(* What every step does to the rows. *)
LEMMA RowsStep ==
    ASSUME TypeOK, LedgerInv, NEW k \in Kernel, Progress(k) \/ Caller(k) \/ Failure(k)
    PROVE  RowsKept(k) /\ \A i \in ActionId : RowOK(i)'
<1>1. CASE LogAction(k) \/ ParkForApproval(k)
  BY <1>1, InsertRows DEF LogAction, ParkForApproval
<1>2. CASE ToolOk(k)
  <2>1. /\ call[k].cur \in ActionId
        /\ Status(call[k].cur) \in {"PENDING", "PENDING_APPROVAL", "FAILED"}
        /\ ~actions[call[k].cur].out
    BY <1>2 DEF ToolOk, LedgerInv, StepOK
  <2>2. world' = [world EXCEPT ![call[k].cur] = "applied"] /\ UNCHANGED <<actions, nrows, dlq>>
    BY <1>2 DEF ToolOk
  <2>3. QED
    BY <2>1, <2>2 DEF RowsKept, LedgerInv, RowOK, Status, TypeOK
<1>3. CASE CommitStep(k)
  <2> DEFINE c == call[k].cur
  <2>1. /\ pc[k] = "commit"
        /\ c \in ActionId
        /\ Status(c) \in {"PENDING", "PENDING_APPROVAL", "FAILED"}
        /\ world[c] = "applied"
    BY <1>3 DEF CommitStep, LedgerInv, StepOK
  <2>2. /\ actions' = [actions EXCEPT ![c].status = "COMMITTED", ![c].out = TRUE]
        /\ UNCHANGED <<nrows, world, dlq>>
    BY <1>3 DEF CommitStep, MarkCommitted
  <2>3. /\ actions'[c].status = "COMMITTED"
        /\ actions'[c].out
        /\ actions'[c].session = actions[c].session
        /\ \A i \in ActionId \ {c} : actions'[i] = actions[i]
    <3>1. actions[c] \in Row /\ actions \in [ActionId -> Row]
      BY <2>1 DEF TypeOK, WalTypeOK
    <3>2. /\ actions'[c] = [actions[c] EXCEPT !.status = "COMMITTED", !.out = TRUE]
          /\ \A i \in ActionId \ {c} : actions'[i] = actions[i]
      BY <2>1, <2>2, <3>1
    <3>3. QED
      BY <3>1, <3>2 DEF Row
  <2>4. RowsKept(k)
    BY <2>1, <2>2, <2>3 DEF RowsKept, Status
  <2>5. ASSUME NEW i \in ActionId PROVE RowOK(i)'
    <3>1. RowOK(i) /\ RowOK(c)
      BY <2>1 DEF LedgerInv
    <3>2. QED
      BY <2>1, <2>2, <2>3, <3>1 DEF RowOK, Status
  <2>6. QED
    BY <2>4, <2>5
<1>4. CASE FailStep(k)
  <2>1. call[k].cur \in ActionId /\ Status(call[k].cur) # "NONE"
    BY <1>4 DEF FailStep, LedgerInv, StepOK
  <2>2. QED
    BY <1>4, <2>1, MarkRows, QuietRows DEF FailStep
<1>5. CASE CompensateOk(k)
  <2>1. PICK i \in call[k].todo : world' = [world EXCEPT ![i] = "undone"]
    BY <1>5 DEF CompensateOk
  <2>2. i \in ActionId /\ actions[i].out
    BY <1>5, <2>1 DEF CompensateOk, LedgerInv, LoopOK, TypeOK, Call
  <2>3. UNCHANGED <<actions, nrows, dlq>>
    BY <1>5 DEF CompensateOk
  <2>4. QED
    BY <2>1, <2>2, <2>3 DEF RowsKept, LedgerInv, RowOK, Status, TypeOK
<1>6. CASE RecordUndone(k) \/ RecordOrphan(k) \/ RecordInDlq(k)
  <2>1. call[k].cur \in call[k].todo /\ call[k].todo \subseteq ActionId
    BY <1>6 DEF RecordUndone, RecordOrphan, RecordInDlq, LedgerInv, CursorOK, TypeOK, Call
  <2>2. call[k].cur \in ActionId /\ actions[call[k].cur].out /\ Status(call[k].cur) # "NONE"
    BY <1>6, <2>1 DEF RecordUndone, RecordOrphan, RecordInDlq, LedgerInv, LoopOK, RowOK
  <2>3. CASE RecordUndone(k)
    BY <2>2, <2>3, MarkRows DEF RecordUndone, LedgerInv, LoopOK
  <2>4. CASE RecordOrphan(k)
    BY <2>2, <2>4, MarkRows DEF RecordOrphan, MarkCompensationFailed
  <2>5. CASE RecordInDlq(k)
    BY <2>2, <2>5 DEF RecordInDlq, RecordDlq, RowsKept, LedgerInv, RowOK, Status
  <2>6. QED
    BY <1>6, <2>3, <2>4, <2>5
<1>7. CASE FailOrphan(k)
  <2>1. PICK i \in call[k].todo : MarkFailed(i)
    BY <1>7 DEF FailOrphan
  <2>2. i \in ActionId /\ Status(i) # "NONE"
    BY <1>7, <2>1 DEF FailOrphan, LedgerInv, LoopOK, TypeOK, Call
  <2>3. QED
    BY <1>7, <2>1, <2>2, MarkRows DEF FailOrphan
<1>8. ASSUME NEW s \in Session, RejectAction(k, s)
      PROVE  RowsKept(k) /\ \A i \in ActionId : RowOK(i)'
  <2>1. ASSUME NEW i \in ActionId, IsPendingApproval(s, fsm[k].tool, i)
        PROVE  Status(i) # "NONE"
    BY <2>1 DEF IsPendingApproval, IsLast, WithStatus, Status
  <2>2. QED
    BY <1>8, <2>1, MarkRows, QuietRows DEF RejectAction
<1>9. CASE UNCHANGED <<actions, nrows, world, dlq>>
  BY <1>9, QuietRows
<1>10. QED
  BY <1>1, <1>2, <1>3, <1>4, <1>5, <1>6, <1>7, <1>8, <1>9
  DEF Progress, Log, LogRefused, Step, ToolError, Rollback, ScanCommitted, CompensateError,
      EndRollback, Recovery, RecoverSession, SettleSession, Caller, BeginPlanning, Complete,
      NewKernel, StartRecovery, BeginTool, ReturnCached, ExecuteTool, ApproveAction,
      Failure, LogFault, CommitFault, RollbackFault, RecoveryFault, Crash

-----------------------------------------------------------------------------
(* The calls of the other kernels stand on rows that are kept. *)
LEMMA OthersStep ==
    ASSUME DisjointSessions, TypeOK, LedgerInv, NEW k \in Kernel,
           Progress(k) \/ Caller(k) \/ Failure(k), NEW j \in Kernel \ {k}
    PROVE  StepOK(j)' /\ LoopOK(j)'
<1>1. pc'[j] = pc[j] /\ call'[j] = call[j]
  BY OthersUntouched
<1>2. RowsKept(k) /\ StepOK(j) /\ LoopOK(j)
  BY RowsStep DEF LedgerInv
<1>3. pc[j] \in {"execute", "commit", "fail"} => ~(pc[k] = "commit" /\ call[k].cur = call[j].cur)
  BY <1>2 DEF DisjointSessions, LedgerInv, StepOK
<1>4. StepOK(j)'
  BY <1>1, <1>2, <1>3 DEF StepOK, RowsKept, Status
<1>5. LoopOK(j)'
  <2>1. call[j].todo \subseteq ActionId
    BY DEF TypeOK, Call
  <2>2. pc[j] = "undone" => call[j].cur \in call[j].todo
    BY DEF LedgerInv, CursorOK
  <2>3. QED
    BY <1>1, <1>2, <2>1, <2>2 DEF LoopOK, RowsKept, Status
<1>6. QED
  BY <1>4, <1>5

(* The row of the step that moves. *)
LEMMA OwnStep ==
    ASSUME TypeOK, LedgerInv, NEW k \in Kernel, Progress(k) \/ Caller(k) \/ Failure(k)
    PROVE  StepOK(k)'
<1>1. ASSUME NEW t \in Tool, NEW s \in Session, NEW key \in Key \cup {NoKey},
             ExecuteTool(k, t, s, key)
      PROVE  StepOK(k)'
  BY <1>1 DEF ExecuteTool, MayUse, NewCall, Goto, StepOK, TypeOK
<1>2. CASE LogAction(k)
  <2>1. nrows + 1 \in ActionId
    BY <1>2, WalAssumption DEF LogAction, InsertAction, ActionId, TypeOK, WalTypeOK
  <2>2. call'[k].cur = nrows + 1 /\ call'[k].sess = call[k].sess /\ pc'[k] = "execute"
    BY <1>2 DEF LogAction, Goto, TypeOK, Call
  <2>3. /\ actions'[nrows + 1].session = call[k].sess
        /\ actions'[nrows + 1].status = "PENDING"
        /\ ~actions'[nrows + 1].out
    BY <1>2, <2>1 DEF LogAction, InsertAction, TypeOK, WalTypeOK
  <2>4. call[k].sess \in SessionsOf[k]
    BY <1>2 DEF LogAction, LedgerInv, StepOK
  <2>5. QED
    BY <2>1, <2>2, <2>3, <2>4 DEF StepOK, Status
<1>3. CASE ToolOk(k) \/ ToolError(k)
  <2>1. StepOK(k) /\ pc[k] = "execute"
    BY <1>3 DEF ToolOk, ToolError, LedgerInv
  <2>2. CASE ToolOk(k)
    BY <2>1, <2>2 DEF ToolOk, Goto, StepOK, Status, TypeOK
  <2>3. CASE ToolError(k)
    BY <2>1, <2>3 DEF ToolError, Goto, StepOK, Status, TypeOK
  <2>4. QED
    BY <1>3, <2>2, <2>3
<1>4. ASSUME NEW s \in Session, ApproveAction(k, s)
      PROVE  StepOK(k)'
  <2>1. PICK i \in ActionId :
           /\ IsPendingApproval(s, fsm[k].tool, i)
           /\ call' = [call EXCEPT ![k] = NewCall("step", s, actions[i].seq, actions[i].key, i)]
    BY <1>4 DEF ApproveAction
  <2>2. actions[i].session = s /\ Status(i) = "PENDING_APPROVAL" /\ ~actions[i].out
    BY <2>1 DEF IsPendingApproval, IsLast, WithStatus, Rows, Status, LedgerInv, RowOK
  <2>3. call'[k].sess = s /\ call'[k].cur = i /\ s \in SessionsOf[k] /\ pc'[k] = "execute"
    BY <1>4, <2>1 DEF ApproveAction, MayUse, NewCall, Goto, TypeOK
  <2>4. QED
    BY <1>4, <2>2, <2>3 DEF ApproveAction, StepOK, Status
<1>5. CASE pc'[k] \notin {"log", "execute", "commit", "fail"}
  BY <1>5 DEF StepOK
<1>6. CASE \/ ParkForApproval(k) \/ LogRefused(k) \/ CommitStep(k) \/ FailStep(k)
           \/ Recovery(k) \/ Failure(k)
  BY <1>5, <1>6 DEF ParkForApproval, LogRefused, CommitStep, FailStep, Recovery, RecoverSession,
     PendingLabel, FailOrphan, SettleSession, Failure, LogFault, CommitFault, RollbackFault,
     RecoveryFault, Crash, ReturnToCaller, Return, Goto, TypeOK
<1>7. CASE Rollback(k)
  BY <1>5, <1>7 DEF Rollback, ScanCommitted, CompensateOk, CompensateError, RecordUndone,
     RecordOrphan, RecordInDlq, NextRow, LoopLabel, EndRollback, FinishRollback, ReturnToCaller,
     Return, Goto, TypeOK
<1>8. CASE \/ BeginPlanning(k) \/ Complete(k) \/ NewKernel(k) \/ StartRecovery(k)
           \/ \E t \in Tool : BeginTool(k, t)
           \/ \E t \in Tool, s \in Session, key \in Key \cup {NoKey} : ReturnCached(k, t, s, key)
           \/ \E s \in Session : RejectAction(k, s)
  BY <1>5, <1>8 DEF BeginPlanning, Complete, NewKernel, StartRecovery, BeginTool, ReturnCached,
     RejectAction, Running, Goto, TypeOK
<1>9. QED
  BY <1>1, <1>2, <1>3, <1>4, <1>6, <1>7, <1>8 DEF Progress, Log, Step, Caller

(* The list of the loop that moves. *)
LEMMA OwnLoop ==
    ASSUME TypeOK, LedgerInv, NEW k \in Kernel, Progress(k) \/ Caller(k) \/ Failure(k)
    PROVE  LoopOK(k)'
<1> DEFINE InLoop == pc'[k] \in {"compensate", "undone", "orphan", "dlq", "pending"}
<1>1. RowsKept(k) /\ LoopOK(k) /\ call[k].todo \subseteq ActionId
  BY RowsStep DEF LedgerInv, TypeOK, Call
<1>2. CASE ScanCommitted(k)
  <2>1. call'[k].todo = Committed(call[k].sess) /\ pc'[k] \in {"end", "compensate"}
    BY <1>2 DEF ScanCommitted, LoopLabel, Goto, TypeOK, Call
  <2>2. \A i \in Committed(call[k].sess) : actions'[i].out
    BY <1>2 DEF ScanCommitted, Committed, WithStatus, Rows, LedgerInv, RowOK, Status
  <2>3. QED
    BY <2>1, <2>2 DEF LoopOK
<1>3. CASE CompensateOk(k)
  <2>1. PICK i \in call[k].todo :
           /\ world' = [world EXCEPT ![i] = "undone"]
           /\ call' = [call EXCEPT ![k].cur = i]
    BY <1>3 DEF CompensateOk
  <2>2. /\ call'[k].cur = i /\ call'[k].todo = call[k].todo
        /\ pc[k] = "compensate" /\ pc'[k] = "undone"
        /\ world'[i] = "undone"
    BY <1>1, <1>3, <2>1 DEF CompensateOk, Goto, TypeOK, Call
  <2>3. QED
    BY <1>1, <2>2 DEF LoopOK, RowsKept
<1>4. CASE CompensateError(k) \/ RecordOrphan(k)
  <2>1. /\ call'[k].todo = call[k].todo
        /\ pc[k] \in {"compensate", "orphan"} /\ pc'[k] \in {"orphan", "dlq"}
    BY <1>4 DEF CompensateError, RecordOrphan, Goto, TypeOK, Call
  <2>2. QED
    BY <1>1, <2>1 DEF LoopOK, RowsKept
<1>5. CASE RecordUndone(k) \/ RecordInDlq(k)
  <2>1. call'[k].todo \subseteq call[k].todo
    BY <1>5 DEF RecordUndone, RecordInDlq, NextRow, TypeOK, Call
  <2>2. pc[k] \in {"undone", "dlq"} /\ pc'[k] \in {"compensate", "end"}
    BY <1>5 DEF RecordUndone, RecordInDlq, NextRow, LoopLabel, Goto, TypeOK
  <2>3. QED
    BY <1>1, <2>1, <2>2 DEF LoopOK, RowsKept
<1>6. ASSUME NEW s \in Session, RecoverSession(k, s)
      PROVE  LoopOK(k)'
  <2>1. call'[k].todo = Orphans(s) /\ pc'[k] \in {"scan", "pending"} /\ UNCHANGED actions
    BY <1>6 DEF RecoverSession, PendingLabel, Goto, TypeOK, Call
  <2>2. \A i \in Orphans(s) : Status(i) # "NONE"
    BY DEF Orphans, WithStatus, Status
  <2>3. QED
    BY <2>1, <2>2 DEF LoopOK, Status
<1>7. CASE FailOrphan(k)
  <2>1. PICK i \in call[k].todo : call' = [call EXCEPT ![k].todo = @ \ {i}]
    BY <1>7 DEF FailOrphan
  <2>2. call'[k].todo \subseteq call[k].todo
    BY <2>1 DEF TypeOK, Call
  <2>3. pc[k] = "pending" /\ pc'[k] \in {"pending", "scan"}
    BY <1>7 DEF FailOrphan, PendingLabel, Goto, TypeOK
  <2>4. QED
    BY <1>1, <2>2, <2>3 DEF LoopOK, RowsKept, Status
<1>8. CASE ~InLoop
  BY <1>8 DEF LoopOK
<1>9. CASE Log(k) \/ Step(k) \/ SettleSession(k)
  BY <1>8, <1>9 DEF Log, Step, LogAction, ParkForApproval, LogRefused, ToolOk, ToolError, CommitStep,
     FailStep, SettleSession, Return, Goto, TypeOK
<1>10. CASE EndRollback(k)
  <2>1. pc'[k] \in {"settle", "idle"}
    BY <1>10 DEF EndRollback, FinishRollback, ReturnToCaller, Return, Goto, TypeOK
  <2>2. QED
    BY <1>8, <2>1
<1>11. CASE Caller(k)
  BY <1>8, <1>11 DEF Caller, BeginPlanning, Complete, NewKernel, StartRecovery, BeginTool,
     ReturnCached, ExecuteTool, ApproveAction, RejectAction, Running, Goto, TypeOK
<1>12. CASE Failure(k)
  BY <1>8, <1>12 DEF Failure, LogFault, CommitFault, RollbackFault, RecoveryFault, Crash,
     ReturnToCaller, Return, Goto, TypeOK
<1>13. QED
  BY <1>2, <1>3, <1>4, <1>5, <1>6, <1>7, <1>9, <1>10, <1>11, <1>12
  DEF Progress, Rollback, Recovery

-----------------------------------------------------------------------------
LEMMA LedgerInit == Init => LedgerInv
BY WalAssumption DEF Init, WalInit, NoRow, LedgerInv, RowOK, StepOK, LoopOK, CursorOK, Status

LEMMA LedgerStep ==
    ASSUME DisjointSessions, TypeOK, LedgerInv, [Next]_vars
    PROVE  LedgerInv'
<1>1. CASE UNCHANGED vars
  BY <1>1 DEF vars, LedgerInv, RowOK, StepOK, LoopOK, CursorOK, Status
<1>2. ASSUME NEW k \in Kernel, Progress(k) \/ Caller(k) \/ Failure(k)
      PROVE  LedgerInv'
  <2>1. \A i \in ActionId : RowOK(i)'
    BY <1>2, RowsStep
  <2>2. \A j \in Kernel : StepOK(j)' /\ LoopOK(j)'
    BY <1>2, OthersStep, OwnStep, OwnLoop
  <2>3. CursorOK'
    BY CursorStep DEF LedgerInv
  <2>4. QED
    BY <2>1, <2>2, <2>3 DEF LedgerInv
<1>3. QED
  BY <1>1, <1>2 DEF Next

(* The invariant that carries LedgerTruth holds in every reachable state.  *)
THEOREM LedgerInvariant ==
    ASSUME DisjointSessions
    PROVE  Spec => []LedgerInv
<1>1. TypeOK /\ LedgerInv /\ [Next]_vars => LedgerInv'
  BY LedgerStep
<1>2. QED
  BY <1>1, LedgerInit, TypeCorrect, PTL DEF Spec

(* The ledger never lies about the world: whatever crashes, failing        *)
(* statements and concurrent recoveries happen, a COMMITTED row did run, a *)
(* COMPENSATED row was undone, an effect never precedes its row and a dead *)
(* letter is about something that ran (mark_* and record_dlq of wal.rs).   *)
THEOREM LedgerCorrect ==
    ASSUME DisjointSessions
    PROVE  Spec => []LedgerTruth
<1>1. LedgerInv => LedgerTruth
  BY DEF LedgerInv, RowOK, LedgerTruth
<1>2. QED
  BY <1>1, LedgerInvariant, PTL

-----------------------------------------------------------------------------
(***************************************************************************)
(* SagaKernel implements EffectLedger: every step of a kernel is one step  *)
(* of the ledger of effects, or none.                                      *)
(***************************************************************************)

(* The steps of the ledger, from what a step of the kernel does to a row.  *)
LEMMA LedgerStutters ==
    ASSUME UNCHANGED <<actions, world, dlq>>
    PROVE  UNCHANGED Ledger!vars
BY DEF Ledger!vars

LEMMA LedgerOpens ==
    ASSUME TypeOK, LedgerInv, NEW s, NEW n, NEW t, NEW key,
           NEW st \in {"PENDING", "PENDING_APPROVAL"},
           InsertAction(s, n, t, key, st), UNCHANGED <<world, dlq>>
    PROVE  Ledger!Next
<1> DEFINE i == nrows + 1
<1>1. i \in ActionId /\ nrows \in Nat
  BY WalAssumption DEF InsertAction, ActionId, TypeOK, WalTypeOK
<1>2. actions[i].status = "NONE" /\ ~actions[i].out
  BY <1>1 DEF LedgerInv, RowOK, Status
<1>3. /\ actions'[i].status = st /\ actions'[i].out = FALSE
      /\ \A j \in ActionId \ {i} : actions'[j] = actions[j]
  BY <1>1 DEF InsertAction, TypeOK, WalTypeOK
<1>4. actions[i].out = FALSE
  BY <1>1, <1>2 DEF TypeOK, WalTypeOK, Row
<1>5. PICK r \in ActionId : r = i
  BY <1>1
<1>6. Ledger!Open(r)
  BY <1>2, <1>3, <1>4, <1>5 DEF Ledger!Open
<1>7. QED
  BY <1>6 DEF Ledger!Next

LEMMA LedgerGivesUp ==
    ASSUME TypeOK, NEW i \in ActionId, Status(i) # "NONE", MarkFailed(i), UNCHANGED <<world, dlq>>
    PROVE  Ledger!Next
<1>1. /\ actions'[i].status = "FAILED" /\ actions'[i].out = actions[i].out
      /\ \A j \in ActionId \ {i} : actions'[j] = actions[j]
  BY DEF MarkFailed, TypeOK, WalTypeOK, Row
<1>2. Ledger!GiveUp(i)
  BY <1>1 DEF Ledger!GiveUp, Status
<1>3. QED
  BY <1>2 DEF Ledger!Next

(* The steps of a kernel that touch a row. *)
LEMMA StepsOfStep ==
    ASSUME TypeOK, LedgerInv, NEW k \in Kernel, Step(k)
    PROVE  Ledger!Next \/ UNCHANGED Ledger!vars
<1> DEFINE c == call[k].cur
<1>1. pc[k] \in {"execute", "commit", "fail"} =>
         /\ c \in ActionId
         /\ Status(c) \in {"PENDING", "PENDING_APPROVAL", "FAILED"}
         /\ ~actions[c].out
         /\ pc[k] = "commit" => world[c] = "applied"
  BY DEF LedgerInv, StepOK
<1>2. CASE ToolOk(k)
  <2>1. Ledger!Run(c)
    BY <1>1, <1>2 DEF ToolOk, Ledger!Run, Status
  <2>2. QED
    BY <1>1, <1>2, <2>1 DEF ToolOk, Ledger!Next
<1>3. CASE ToolError(k)
  BY <1>3, LedgerStutters DEF ToolError
<1>4. CASE CommitStep(k)
  <2>1. /\ c \in ActionId /\ ~actions[c].out /\ world[c] = "applied"
        /\ UNCHANGED <<world, dlq>>
    BY <1>1, <1>4 DEF CommitStep
  <2>2. actions' = [actions EXCEPT ![c].status = "COMMITTED", ![c].out = TRUE]
    BY <1>4 DEF CommitStep, MarkCommitted
  <2>3. actions[c] \in Row /\ actions \in [ActionId -> Row]
    BY <2>1 DEF TypeOK, WalTypeOK
  <2>4. /\ actions'[c] = [actions[c] EXCEPT !.status = "COMMITTED", !.out = TRUE]
        /\ \A j \in ActionId \ {c} : actions'[j] = actions[j]
    BY <2>1, <2>2, <2>3
  <2>5. /\ actions'[c].status = "COMMITTED" /\ actions'[c].out = TRUE
        /\ \A j \in ActionId \ {c} : actions'[j] = actions[j]
    BY <2>3, <2>4 DEF Row
  <2>6. PICK i \in ActionId : i = c
    BY <2>1
  <2>7. Ledger!Confirm(i)
    BY <2>1, <2>5, <2>6 DEF Ledger!Confirm
  <2>8. QED
    BY <2>7 DEF Ledger!Next
<1>5. CASE FailStep(k)
  <2>1. c \in ActionId /\ Status(c) # "NONE" /\ UNCHANGED <<world, dlq>>
    BY <1>1, <1>5 DEF FailStep
  <2>2. QED
    BY <1>5, <2>1, LedgerGivesUp, LedgerStutters DEF FailStep
<1>6. QED
  BY <1>2, <1>3, <1>4, <1>5 DEF Step

LEMMA StepsOfRollback ==
    ASSUME TypeOK, LedgerInv, NEW k \in Kernel, Rollback(k)
    PROVE  Ledger!Next \/ UNCHANGED Ledger!vars
<1> DEFINE c == call[k].cur
<1>1. pc[k] \in {"undone", "orphan", "dlq"} =>
         /\ c \in ActionId
         /\ actions[c].out
         /\ Status(c) # "NONE"
         /\ pc[k] = "undone" => world[c] = "undone"
  <2>1. call[k].todo \subseteq ActionId
    BY DEF TypeOK, Call
  <2>2. QED
    BY <2>1 DEF LedgerInv, LoopOK, CursorOK, RowOK
<1>2. CASE CompensateOk(k)
  <2>1. PICK i \in call[k].todo : world' = [world EXCEPT ![i] = "undone"]
    BY <1>2 DEF CompensateOk
  <2>2. i \in ActionId /\ actions[i].out
    BY <1>2, <2>1 DEF CompensateOk, LedgerInv, LoopOK, TypeOK, Call
  <2>3. Ledger!Undo(i)
    BY <1>2, <2>1, <2>2 DEF CompensateOk, Ledger!Undo
  <2>4. QED
    BY <2>2, <2>3 DEF Ledger!Next
<1>3. CASE RecordUndone(k)
  <2>1. /\ c \in ActionId /\ actions[c].out /\ world[c] = "undone"
        /\ UNCHANGED <<world, dlq>>
    BY <1>1, <1>3 DEF RecordUndone
  <2>2. /\ actions'[c].status = "COMPENSATED" /\ actions'[c].out = actions[c].out
        /\ \A j \in ActionId \ {c} : actions'[j] = actions[j]
    BY <1>3, <2>1 DEF RecordUndone, MarkCompensated, TypeOK, WalTypeOK, Row
  <2>3. PICK i \in ActionId : i = c
    BY <2>1
  <2>4. Ledger!RecordUndone(i)
    BY <2>1, <2>2, <2>3 DEF Ledger!RecordUndone
  <2>5. QED
    BY <2>4 DEF Ledger!Next
<1>4. CASE RecordOrphan(k)
  BY <1>1, <1>4, LedgerGivesUp DEF RecordOrphan, MarkCompensationFailed
<1>5. CASE RecordInDlq(k)
  <2>1. Ledger!DeadLetter(c)
    BY <1>1, <1>5 DEF RecordInDlq, RecordDlq, Ledger!DeadLetter
  <2>2. QED
    BY <1>1, <1>5, <2>1 DEF RecordInDlq, Ledger!Next
<1>6. CASE ScanCommitted(k) \/ CompensateError(k) \/ EndRollback(k)
  BY <1>6, LedgerStutters DEF ScanCommitted, CompensateError, EndRollback
<1>7. QED
  BY <1>2, <1>3, <1>4, <1>5, <1>6 DEF Rollback

LEMMA StepsOfKernel ==
    ASSUME TypeOK, LedgerInv, NEW k \in Kernel, Progress(k) \/ Caller(k) \/ Failure(k)
    PROVE  Ledger!Next \/ UNCHANGED Ledger!vars
<1>1. CASE LogAction(k) \/ ParkForApproval(k)
  BY <1>1, LedgerOpens DEF LogAction, ParkForApproval
<1>2. CASE FailOrphan(k)
  <2>1. PICK i \in call[k].todo : MarkFailed(i)
    BY <1>2 DEF FailOrphan
  <2>2. i \in ActionId /\ Status(i) # "NONE"
    BY <1>2, <2>1 DEF FailOrphan, LedgerInv, LoopOK, TypeOK, Call
  <2>3. QED
    BY <1>2, <2>1, <2>2, LedgerGivesUp DEF FailOrphan
<1>3. ASSUME NEW s \in Session, RejectAction(k, s)
      PROVE  Ledger!Next \/ UNCHANGED Ledger!vars
  <2>1. ASSUME NEW i \in ActionId, IsPendingApproval(s, fsm[k].tool, i)
        PROVE  Status(i) # "NONE"
    BY <2>1 DEF IsPendingApproval, IsLast, WithStatus, Status
  <2>2. QED
    BY <1>3, <2>1, LedgerGivesUp, LedgerStutters DEF RejectAction
<1>4. CASE UNCHANGED <<actions, world, dlq>>
  BY <1>4, LedgerStutters
<1>5. QED
  BY <1>1, <1>2, <1>3, <1>4, StepsOfStep, StepsOfRollback
  DEF Progress, Log, LogRefused, Recovery, RecoverSession, SettleSession, Caller, BeginPlanning,
      Complete, NewKernel, StartRecovery, BeginTool, ReturnCached, ExecuteTool, ApproveAction,
      Failure, LogFault, CommitFault, RollbackFault, RecoveryFault, Crash

(* The engine implements the ledger of effects: a row comes before its     *)
(* effect, an execution is confirmed once and only when it happened, only  *)
(* a confirmed effect is undone, and COMPENSATED is written only of an     *)
(* effect that was undone (log_action, mark_*, record_dlq of wal.rs).      *)
THEOREM KernelImplementsLedger ==
    ASSUME DisjointSessions
    PROVE  Spec => ImplementsLedger
<1>1. Init => Ledger!Init
  BY DEF Init, WalInit, NoRow, Ledger!Init
<1>2. TypeOK /\ LedgerInv /\ [Next]_vars => [Ledger!Next]_(Ledger!vars)
  <2> SUFFICES ASSUME TypeOK, LedgerInv, [Next]_vars
               PROVE  Ledger!Next \/ UNCHANGED Ledger!vars
    OBVIOUS
  <2>1. CASE UNCHANGED vars
    BY <2>1, LedgerStutters DEF vars
  <2>2. CASE Next
    BY <2>2, StepsOfKernel DEF Next
  <2>3. QED
    BY <2>1, <2>2
<1>3. QED
  BY <1>1, <1>2, TypeCorrect, LedgerInvariant, PTL DEF Spec, ImplementsLedger, Ledger!Spec
=============================================================================
