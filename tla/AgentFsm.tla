------------------------------ MODULE AgentFsm ------------------------------
(***************************************************************************)
(* The agent state machine of src/fsm.rs as pure operators: a state is a   *)
(* record, an event is a record, and Transition is the table of            *)
(* StateMachine::transition.  The kernel (SagaKernel) owns one such state  *)
(* per AgentKernel and changes it only through Transition.                 *)
(***************************************************************************)
EXTENDS Naturals

CONSTANTS
    Tool,      \* tool names a caller can ask for
    NoTool     \* no tool named by a state or an event

Mode == {"Idle", "Planning", "ExecutingTool", "Verifying", "Compensating",
         "AwaitingApproval", "Completed", "Failed"}

(* Approval tokens are fresh UUIDs: positive numbers, 0 for "no token". *)
AgentState == [mode: Mode, tool: Tool \cup {NoTool}, token: Nat]

PlainState(m) == [mode |-> m, tool |-> NoTool, token |-> 0]

Idle == PlainState("Idle")

Executing(t) == [mode |-> "ExecutingTool", tool |-> t, token |-> 0]

(* The terminal states: no event leaves them. *)
Terminal(s) == s.mode \in {"Completed", "Failed"}

-----------------------------------------------------------------------------
(* Events.  Those that carry nothing are built by Plain. *)

Plain(kind) == [kind |-> kind, tool |-> NoTool, token |-> 0]

StartExecution(t) == [kind |-> "StartExecution", tool |-> t, token |-> 0]

RequireApproval(t, tk) == [kind |-> "RequireApproval", tool |-> t, token |-> tk]

ApproveExecution(tk) == [kind |-> "ApproveExecution", tool |-> NoTool, token |-> tk]

RejectExecution(tk) == [kind |-> "RejectExecution", tool |-> NoTool, token |-> tk]

(* The source states of each event, with the exact token match of the two  *)
(* operator decisions.                                                     *)
Accepts(s, e) ==
    \/ e.kind = "StartPlanning"         /\ s.mode = "Idle"
    \/ e.kind = "StartExecution"        /\ s.mode \in {"Planning", "Verifying"}
    \/ e.kind = "ToolSucceeded"         /\ s.mode = "ExecutingTool"
    \/ e.kind = "ToolFailed"            /\ s.mode = "ExecutingTool"
    \/ e.kind = "ValidationPassed"      /\ s.mode = "Verifying"
    \/ e.kind = "ValidationFailed"      /\ s.mode = "Verifying"
    \/ e.kind = "RequireApproval"       /\ s.mode \in {"Planning", "ExecutingTool"}
    \/ e.kind = "ApproveExecution"      /\ s.mode = "AwaitingApproval" /\ s.token = e.token
    \/ e.kind = "RejectExecution"       /\ s.mode = "AwaitingApproval" /\ s.token = e.token
    \/ e.kind = "CompensationCompleted" /\ s.mode = "Compensating"

(* The target state of an accepted event. *)
Target(s, e) ==
    CASE e.kind = "StartPlanning"    -> PlainState("Planning")
      [] e.kind = "StartExecution"   -> Executing(e.tool)
      [] e.kind = "ToolSucceeded"    -> PlainState("Verifying")
      [] e.kind = "ValidationPassed" -> PlainState("Completed")
      [] e.kind = "ApproveExecution" -> Executing(s.tool)
      [] e.kind = "RequireApproval"  ->
            [mode |-> "AwaitingApproval", tool |-> e.tool, token |-> e.token]
      [] e.kind \in {"ToolFailed", "ValidationFailed"}          -> PlainState("Compensating")
      [] e.kind \in {"RejectExecution", "CompensationCompleted"} -> PlainState("Failed")

(* StateMachine::transition: an event the table has no arm for is an error *)
(* and leaves the state as it was.                                         *)
Transition(s, e) == IF Accepts(s, e) THEN Target(s, e) ELSE s

CanExecuteTool(s, t) == s.mode = "ExecutingTool" /\ s.tool = t
=============================================================================
