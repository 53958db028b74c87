----------------------------- MODULE McpGateway -----------------------------
(***************************************************************************)
(* McpServer of src/mcp/mod.rs: the stdio server that owns one kernel and  *)
(* the session of its current saga, and drives the kernel for a client.    *)
(* It serves one request at a time (&mut self).                            *)
(*                                                                         *)
(* Only tools/call requests that reach the kernel or prune_history are     *)
(* actions: the others read, or return an error, and change nothing.  The  *)
(* registry has no irreversible tool (default_registry), so approve and    *)
(* reject never find a parked action and are among those.                  *)
(***************************************************************************)
EXTENDS SagaProperties

CONSTANTS
    NamedSessions,      \* sessions a client passes to agent_kernel_exec
    FirstSession        \* kernel -> session made by McpServer::new

(* One server on the database: prune_history is modelled between requests, *)
(* and never under another process's call.                                 *)
ASSUME GatewayAssumption ==
    /\ NamedSessions \subseteq Session
    /\ FirstSession \in [Kernel -> Session \ NamedSessions]
    /\ Irreversible = {}
    /\ \E k \in Kernel : Kernel = {k}

VARIABLES
    session_id,         \* kernel -> session of the server's current saga
    request,            \* kernel -> the request it serves or served last
    minted              \* sessions made by Uuid::new_v4 so far

gatewayVars == <<session_id, request, minted>>
mcpVars == <<vars, gatewayVars>>

(* "authorize" is the loop of ensure_authorized, "execute" the call of     *)
(* execute_tool, "running" the await on it, "none" the wait for a line.    *)
Request == [phase: {"none", "authorize", "execute", "running"},
            tool: Tool \cup {NoTool}, sess: Session, key: Key \cup {NoKey}]

Answered(k) == request[k].phase = "none"

McpTypeOK ==
    /\ TypeOK
    /\ session_id \in [Kernel -> minted]
    /\ request \in [Kernel -> Request]
    /\ minted \subseteq Session

McpInit ==
    /\ Init
    /\ session_id = FirstSession
    /\ request = [k \in Kernel |->
          [phase |-> "none", tool |-> NoTool, sess |-> session_id[k], key |-> NoKey]]
    /\ minted = {session_id[k] : k \in Kernel}

Phase(k, p) == request' = [request EXCEPT ![k].phase = p]

(* The line of the response is written: the session is kept as a ghost of  *)
(* the request served last.                                                *)
Answer(k, s) ==
    request' = [request EXCEPT ![k] =
        [phase |-> "none", tool |-> NoTool, sess |-> s, key |-> NoKey]]

NewSession(k) ==
    /\ \E s \in Session \ (minted \cup NamedSessions) :
          /\ session_id' = [session_id EXCEPT ![k] = s]
          /\ minted' = minted \cup {s}

(* Bound: a request or a restart that needs a new session finds one. *)
RoomForSession == Session \ (minted \cup NamedSessions) # {}

(* The states ensure_authorized has no other arm for. *)
NeedsReset(k, t) ==
    /\ fsm[k].mode \notin {"Idle", "Planning", "Verifying"}
    /\ fsm[k] # Executing(t)

-----------------------------------------------------------------------------
(* A request for fs_write or mock_pay.  Its session is read here, before   *)
(* anything else: the server's own, or through agent_kernel_exec the one   *)
(* the client names, with the key the client gives.                        *)
ToolsCall(k, t, s, key) ==
    /\ Answered(k)
    /\ RoomForRow
    /\ NeedsReset(k, t) => RoomForSession
    /\ s \in {session_id[k]} \cup NamedSessions
    /\ request' = [request EXCEPT ![k] =
          [phase |-> "authorize", tool |-> t, sess |-> s, key |-> key]]
    /\ UNCHANGED <<vars, session_id, minted>>

(* ensure_authorized, one turn of the loop at a time. *)
AuthorizeIdle(k) ==
    /\ request[k].phase = "authorize"
    /\ BeginPlanning(k)
    /\ UNCHANGED gatewayVars

AuthorizeTool(k) ==
    /\ request[k].phase = "authorize"
    /\ BeginTool(k, request[k].tool)
    /\ Phase(k, "execute")
    /\ UNCHANGED <<session_id, minted>>

AlreadyAuthorized(k) ==
    /\ request[k].phase = "authorize"
    /\ fsm[k] = Executing(request[k].tool)
    /\ Phase(k, "execute")
    /\ UNCHANGED <<vars, session_id, minted>>

\* mutant: a new session for the kernel of the old saga
ResetKeepsKernel(k) ==
    /\ request[k].phase = "authorize"
    /\ NeedsReset(k, request[k].tool)
    /\ NewSession(k)
    /\ UNCHANGED <<vars, request>>

(* reset_saga: a new kernel and a new session.  The request keeps the      *)
(* session it has read, and a saga that had not ended is dropped as it is. *)
ResetSaga(k) ==
    /\ request[k].phase = "authorize"
    /\ NeedsReset(k, request[k].tool)
    /\ NewSession(k)
    /\ fsm' = [fsm EXCEPT ![k] = Idle]
    /\ saga' = [saga EXCEPT ![k] = {}]
    /\ UNCHANGED <<walVars, pc, call, world, approved, finalised, budgetVars, request>>

(* execute_tool returns a security violation: the request is over and the  *)
(* kernel stays in ExecutingTool.                                          *)
RefuseAtStepZero(k) ==
    /\ request[k].phase = "execute"
    /\ Answer(k, request[k].sess)
    /\ UNCHANGED <<vars, session_id, minted>>

AnswerFromCache(k) ==
    /\ request[k].phase = "execute"
    /\ ReturnCached(k, request[k].tool, request[k].sess, request[k].key)
    /\ Answer(k, request[k].sess)
    /\ UNCHANGED <<session_id, minted>>

Dispatch(k) ==
    /\ request[k].phase = "execute"
    /\ ExecuteTool(k, request[k].tool, request[k].sess, request[k].key)
    /\ Phase(k, "running")
    /\ UNCHANGED <<session_id, minted>>

Work(k) ==
    /\ Progress(k)
    /\ UNCHANGED gatewayVars

Respond(k) ==
    /\ request[k].phase = "running"
    /\ ~Running(k)
    /\ Answer(k, request[k].sess)
    /\ UNCHANGED <<vars, session_id, minted>>

-----------------------------------------------------------------------------
\* mutant: the dead letters of the deleted sessions go too
DeleteHistoryAndLetters(old) ==
    /\ actions' = [i \in ActionId |-> IF actions[i].session \in old THEN NoRow ELSE actions[i]]
    /\ sessions' = [s \in Session |-> IF s \in old THEN "NONE" ELSE sessions[s]]
    /\ dlq' = {i \in dlq : actions[i].session \notin old}
    /\ UNCHANGED nrows

(* Wal::prune_history: the two DELETEs of one lock section. *)
DeleteHistory(old) ==
    /\ actions' = [i \in ActionId |-> IF actions[i].session \in old THEN NoRow ELSE actions[i]]
    /\ sessions' = [s \in Session |-> IF s \in old THEN "NONE" ELSE sessions[s]]
    /\ UNCHANGED <<nrows, dlq>>

(* kernel_prune_history.  Which recovered sessions are old enough depends  *)
(* on the client's days and on created_at: any of them may be.             *)
PruneHistory(k) ==
    /\ Answered(k)
    /\ \E old \in SUBSET {s \in Session : sessions[s] \in {"RECOVERED", "RECOVERED_WITH_DLQ"}} :
          old # {} /\ DeleteHistory(old)
    /\ UNCHANGED <<kernelVars, world, ghostVars, budgetVars, gatewayVars>>

(* The server dies and is started again.  It does not scan for dangling    *)
(* sessions when it comes up.                                              *)
Restart(k) ==
    /\ RoomForSession
    /\ Crash(k)
    /\ NewSession(k)
    /\ Answer(k, session_id'[k])

(* What the server does on its own once it has read a request. *)
Serve(k) ==
    \/ AuthorizeIdle(k) \/ AuthorizeTool(k) \/ AlreadyAuthorized(k) \/ ResetSaga(k)
    \/ RefuseAtStepZero(k) \/ AnswerFromCache(k) \/ Dispatch(k)
    \/ Work(k) \/ Respond(k)

McpNext ==
    \E k \in Kernel :
        \/ \E t \in Tool, s \in Session, key \in Key \cup {NoKey} : ToolsCall(k, t, s, key)
        \/ Serve(k) \/ PruneHistory(k) \/ Restart(k)

McpSpec == McpInit /\ [][McpNext]_mcpVars

-----------------------------------------------------------------------------
(* Every request is answered: the loop of ensure_authorized ends from any  *)
(* state a request can leave the kernel in, and so does execute_tool.      *)
RequestsAnswered == \A k \in Kernel : ~Answered(k) ~> Answered(k)

(* Retention never takes a dead letter away, whoever's rows it deletes: it *)
(* is the only trace of an effect whose compensation failed (prune_history:*)
(* UNRESOLVED entries are never touched).                                  *)
LettersKept == [][dlq \subseteq dlq']_mcpVars

(* A request that is answered with the kernel in Failed has settled the    *)
(* session it named: nothing of it is open, and what stands is a dead      *)
(* letter (execute_protected reports the rollback of that session).        *)
FailedRequestSettled ==
    \A k \in Kernel :
        crashes = 0 /\ Answered(k) /\ fsm[k].mode = "Failed" =>
            \A i \in Rows(request[k].sess) :
                /\ Status(i) \in {"COMPENSATED", "FAILED"}
                /\ world[i] = "applied" => i \in dlq
=============================================================================
