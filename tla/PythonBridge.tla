---------------------------- MODULE PythonBridge -----------------------------
(***************************************************************************)
(* PySagaKernel of src/python.rs: one kernel driven from the threads of a  *)
(* Python process.  A thread that runs holds the interpreter's lock (gil); *)
(* Python code can lose it between any two bytecodes, in a tool's callback *)
(* too, while the code of this module and of the kernel never gives it up  *)
(* and blocks on the kernel's mutex with it.  The runtime of the class     *)
(* drives the kernel's future on the calling thread.                       *)
(*                                                                         *)
(* A callback calls nothing of the class: the module's documentation       *)
(* forbids it.  Python tools are never irreversible, and neither approval  *)
(* nor recovery is offered to Python.                                      *)
(***************************************************************************)
EXTENDS SagaProperties

CONSTANTS
    Thread, NoThread,
    Driver,             \* threads that call methods which lock the kernel
    NoCompensator,      \* tools registered without py_compensate
    FirstSession        \* session made by PySagaKernel::new

ASSUME BridgeAssumption ==
    /\ NoThread \notin Thread
    /\ Driver \subseteq Thread
    /\ NoCompensator \subseteq Tool
    /\ FirstSession \in Session
    /\ Irreversible = {}
    /\ \E k \in Kernel : Kernel = {k}

VARIABLES
    gil,                \* the thread that holds the interpreter
    mutex,              \* the thread that holds the kernel's mutex
    frame,              \* thread -> where it is, in which call
    session_id,         \* the current session
    minted,             \* sessions made so far
    registered          \* tools registered so far

bridgeVars == <<gil, mutex, frame, session_id, minted, registered>>
pyVars == <<vars, bridgeVars>>

Method == {"state", "begin_planning", "begin_tool", "complete", "register_tool", "execute_tool"}

(* "python" is code of the program, outside of the class; "lock" the wait  *)
(* in lock_kernel; "kernel" the rest of the method, up to its return.      *)
Frame == [at: {"python", "lock", "kernel"}, method: Method \cup {"none"},
          tool: Tool \cup {NoTool}, sess: Session \cup {NoSession}, key: Key \cup {NoKey}]

InProgram ==
    [at |-> "python", method |-> "none", tool |-> NoTool, sess |-> NoSession, key |-> NoKey]

(* A thread is in the kernel exactly when it holds the mutex, and only one *)
(* that has the interpreter waits for it.                                  *)
BridgeTypeOK ==
    /\ TypeOK
    /\ gil \in Thread
    /\ mutex \in Thread \cup {NoThread}
    /\ frame \in [Thread -> Frame]
    /\ \A t \in Thread : frame[t].at = "kernel" <=> mutex = t
    /\ \A t \in Thread : frame[t].at = "lock" => gil = t
    /\ session_id \in minted /\ minted \subseteq Session
    /\ registered \subseteq Tool

PyInit ==
    /\ Init
    /\ gil \in Thread
    /\ mutex = NoThread
    /\ frame = [t \in Thread |-> InProgram]
    /\ session_id = FirstSession
    /\ minted = {FirstSession}
    /\ registered = {}

-----------------------------------------------------------------------------
(* The kernel is at a call of a Python function. *)
InCallback(k) ==
    \/ pc[k] = "execute"
    \/ /\ pc[k] = "compensate"
       /\ \E i \in call[k].todo :
             IsLast(i, call[k].todo) /\ actions[i].tool \notin NoCompensator

\* mutant: the interpreter is released while a method waits for the kernel
RunsPythonOrWaits(k, t) ==
    \/ frame[t].at \in {"python", "lock"}
    \/ frame[t].at = "kernel" /\ InCallback(k)

RunsPython(k, t) ==
    \/ frame[t].at = "python"
    \/ frame[t].at = "kernel" /\ InCallback(k)

(* The interpreter passes to t. *)
Switch(k, t) ==
    /\ gil # t
    /\ RunsPython(k, gil) /\ RunsPython(k, t)
    /\ gil' = t
    /\ UNCHANGED <<vars, mutex, frame, session_id, minted, registered>>

(* new_session: the kernel is not told. *)
NewSession(t) ==
    /\ gil = t /\ frame[t].at = "python"
    /\ \E s \in Session \ minted : session_id' = s /\ minted' = minted \cup {s}
    /\ UNCHANGED <<vars, gil, mutex, frame, registered>>

(* A method that locks the kernel: execute_tool reads the session first.   *)
CallMethod(t, method, tool, key) ==
    /\ t \in Driver
    /\ gil = t /\ frame[t].at = "python"
    /\ method \notin {"begin_tool", "register_tool", "execute_tool"} => tool = NoTool
    /\ method \in {"begin_tool", "register_tool", "execute_tool"} => tool # NoTool
    /\ method = "execute_tool" => RoomForRow
    /\ method # "execute_tool" => key = NoKey
    /\ frame' = [frame EXCEPT ![t] =
          [at |-> "lock", method |-> method, tool |-> tool, key |-> key,
           sess |-> IF method = "execute_tool" THEN session_id ELSE NoSession]]
    /\ UNCHANGED <<vars, gil, mutex, session_id, minted, registered>>

(* What a method does once it has the kernel; execute_tool may be refused  *)
(* by the security guard whatever its state.                               *)
KernelCall(k, f) ==
    \/ f.method = "begin_planning" /\ BeginPlanning(k)
    \/ f.method = "begin_tool" /\ BeginTool(k, f.tool)
    \/ f.method = "complete" /\ Complete(k)
    \/ /\ f.method = "execute_tool"
       /\ f.tool \in registered
       /\ ReturnCached(k, f.tool, f.sess, f.key) \/ ExecuteTool(k, f.tool, f.sess, f.key)

NoKernelCall(k, f) ==
    /\ \/ f.method \in {"state", "register_tool", "execute_tool"}
       \/ f.method = "begin_planning" /\ ~Accepts(fsm[k], Plain("StartPlanning"))
       \/ f.method = "begin_tool" /\ ~Accepts(fsm[k], StartExecution(f.tool))
       \/ f.method = "complete" /\ ~Accepts(fsm[k], Plain("ValidationPassed"))
    /\ UNCHANGED vars

Enter(k, t) ==
    /\ gil = t /\ frame[t].at = "lock"
    /\ mutex = NoThread
    /\ mutex' = t
    /\ frame' = [frame EXCEPT ![t].at = "kernel"]
    /\ KernelCall(k, frame[t]) \/ NoKernelCall(k, frame[t])
    /\ registered' = IF frame[t].method = "register_tool"
                     THEN registered \cup {frame[t].tool} ELSE registered
    /\ UNCHANGED <<gil, session_id, minted>>

(* PyTool::compensate without a callback: Ok, and nothing is undone. *)
SkipCompensation(k) ==
    /\ pc[k] = "compensate" /\ ~InCallback(k)
    /\ \E i \in call[k].todo :
          /\ IsLast(i, call[k].todo)
          /\ call' = [call EXCEPT ![k].cur = i]
    /\ Goto(k, "undone")
    /\ UNCHANGED <<walVars, fsm, world, ghostVars, budgetVars>>

\* mutant: an exception of a compensation callback is dropped
ExceptionIsDropped(k) ==
    /\ pc[k] = "compensate" /\ InCallback(k)
    /\ \E i \in call[k].todo :
          /\ IsLast(i, call[k].todo)
          /\ call' = [call EXCEPT ![k].cur = i]
    /\ Goto(k, "undone")
    /\ UNCHANGED <<walVars, fsm, world, ghostVars, budgetVars>>

(* call_str: the callback raises. *)
CompensateRaises(k) == InCallback(k) /\ CompensateError(k)

(* Both callbacks must return a JSON string: what they have done stands    *)
(* when what they return is refused.                                       *)
ExecuteResultRefused(k) ==
    /\ pc[k] = "execute"
    /\ world' = [world EXCEPT ![call[k].cur] = "applied"]
    /\ Goto(k, "fail")
    /\ UNCHANGED <<walVars, fsm, call, ghostVars, budgetVars>>

CompensateResultRefused(k) ==
    /\ pc[k] = "compensate" /\ InCallback(k)
    /\ \E i \in call[k].todo :
          /\ IsLast(i, call[k].todo)
          /\ world' = [world EXCEPT ![i] = "undone"]
          /\ call' = [call EXCEPT ![k].cur = i]
    /\ Goto(k, "orphan")
    /\ UNCHANGED <<walVars, fsm, ghostVars, budgetVars>>

(* A step of the kernel under its mutex and the interpreter; a callback    *)
(* that raises makes the step fail (ToolError).                            *)
Work(k, t) ==
    /\ gil = t /\ mutex = t
    /\ \/ Log(k) \/ Step(k)
       \/ ScanCommitted(k) \/ SkipCompensation(k)
       \/ InCallback(k) /\ CompensateOk(k)
       \/ CompensateRaises(k)
       \/ ExecuteResultRefused(k) \/ CompensateResultRefused(k)
       \/ RecordUndone(k) \/ RecordOrphan(k) \/ RecordInDlq(k) \/ EndRollback(k)
    /\ UNCHANGED bridgeVars

\* mutant: the guard of the mutex outlives a saga that has ended
LeaveUnlessEnded(k, t) ==
    /\ gil = t /\ mutex = t
    /\ ~Running(k) /\ ~Terminal(fsm[k])
    /\ mutex' = NoThread
    /\ frame' = [frame EXCEPT ![t] = InProgram]
    /\ UNCHANGED <<vars, gil, session_id, minted, registered>>

(* The method returns and its guard is dropped. *)
Leave(k, t) ==
    /\ gil = t /\ mutex = t
    /\ ~Running(k)
    /\ mutex' = NoThread
    /\ frame' = [frame EXCEPT ![t] = InProgram]
    /\ UNCHANGED <<vars, gil, session_id, minted, registered>>

InMethod(k, t) == Enter(k, t) \/ Work(k, t) \/ Leave(k, t)

PyNext ==
    \E k \in Kernel, t \in Thread :
        \/ Switch(k, t) \/ NewSession(t) \/ InMethod(k, t)
        \/ \E method \in Method, tool \in Tool \cup {NoTool}, key \in Key \cup {NoKey} :
              CallMethod(t, method, tool, key)

PySpec == PyInit /\ [][PyNext]_pyVars

(* The interpreter is given to every thread that wants it, and a thread    *)
(* that is given it keeps it for a switch interval, in which it runs: so   *)
(* what it can do again and again, it does.  A callback returns.           *)
FairPython ==
    /\ PySpec
    /\ \A k \in Kernel, t \in Thread : WF_pyVars(Switch(k, t)) /\ SF_pyVars(InMethod(k, t))

-----------------------------------------------------------------------------
(* Every method returns, whatever threads beside it run and rotate.        *)
MethodsReturn == \A t \in Thread : frame[t].at # "python" ~> frame[t].at = "python"

(* No thread waits for a kernel whose owner needs what it holds itself:    *)
(* the class is "thread-safe via Mutex interno" (src/python.rs:160), and   *)
(* threads may share a kernel (SECURITY.md).                               *)
NoCircularWait ==
    \A t \in Thread : frame[t].at = "lock" /\ mutex # NoThread => gil = mutex

(* A step is never logged in a session that new_session has already left:  *)
(* the session is read before the kernel is locked, by a guard of its own. *)
StepInCurrentSession ==
    \A k \in Kernel : pc[k] = "log" => call[k].sess = session_id

(* A row says COMPENSATED only if its callback ran and did not raise, or   *)
(* if there is none: then the effect stands and nothing tells of it.       *)
CompensatedMeansUndone ==
    \A i \in ActionId :
        Status(i) = "COMPENSATED" =>
            world[i] = "undone" \/ actions[i].tool \in NoCompensator
=============================================================================
