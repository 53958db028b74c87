---------------------------- MODULE McpWorkspace -----------------------------
(***************************************************************************)
(* The MCP server with what its tools act on: fs.write and mock.pay of     *)
(* src/tools/mod.rs behind the security guard of src/security/policy.rs.   *)
(* Beside McpGateway's steps this module follows the arguments of the      *)
(* calls, the files, and the payment ledger of the kernel's registry.      *)
(*                                                                         *)
(* A call without the argument "path" fails like any failed write.         *)
(***************************************************************************)
EXTENDS McpGateway, SandboxPolicy

CONSTANTS
    fs_write, mock_pay, \* the two tools of default_registry
    PathArg,            \* paths a client writes to
    PaymentArg,         \* payment ids a client gives
    NoArg               \* no payment id: one is made from session and seq

ASSUME WorkspaceAssumption ==
    /\ Tool = {fs_write, mock_pay} /\ fs_write # mock_pay
    /\ PathArg \subseteq Seq(Name)
    /\ NoArg \notin PathArg \cup PaymentArg

VARIABLES
    arg,                \* kernel -> argument of the request it serves
    target,             \* row id -> place or payment id it is about
    disk,               \* place -> the file there
    ledger              \* payment id -> status in the server's ledger

workVars == <<arg, target, disk, ledger>>
wsVars == <<mcpVars, workVars>>

Argument == PathArg \cup PaymentArg \cup {NoArg}

ArgsOf(t) == IF t = fs_write THEN PathArg ELSE PaymentArg \cup {NoArg}

(* The place fs.write acts on: the path the guard has normalised. *)
FileOf == [path \in PathArg |-> Place(AbsoluteNormalized(path))]

File == {FileOf[path] : path \in PathArg}

AccessiblePath == {path \in PathArg : Accessible(path)}

FileInRoots == {f \in File : InRoots(f)}

PaymentId == PaymentArg \cup (Session \X (0 .. MaxActions - 1))

EmptyLedger == [p \in PaymentId |-> "NONE"]

WorkspaceTypeOK ==
    /\ McpTypeOK
    /\ arg \in [Kernel -> Argument]
    /\ target \in [ActionId -> File \cup PaymentId \cup {NoArg}]
    /\ disk \in [File -> {"absent", "foreign", "written"}]
    /\ ledger \in [PaymentId -> {"NONE", "CHARGED", "REFUNDED"}]

WsInit ==
    /\ McpInit
    /\ arg = [k \in Kernel |-> NoArg]
    /\ target = [i \in ActionId |-> NoArg]
    /\ disk = [f \in File |-> IF f \in Entries THEN "foreign" ELSE "absent"]
    /\ ledger = EmptyLedger

-----------------------------------------------------------------------------
(* security_check on the request's params. *)
PassesGuard(k) == request[k].tool = fs_write => arg[k] \in AccessiblePath

RequestWith(k, t, s, key) ==
    /\ ToolsCall(k, t, s, key)
    /\ \E a \in ArgsOf(t) : arg' = [arg EXCEPT ![k] = a]
    /\ UNCHANGED <<target, disk, ledger>>

Authorize(k) ==
    /\ AuthorizeIdle(k) \/ AuthorizeTool(k) \/ AlreadyAuthorized(k)
    /\ UNCHANGED workVars

\* mutant: the new kernel keeps the registry of the old one
ResetKeepsRegistry(k) == ResetSaga(k) /\ UNCHANGED workVars

(* reset_saga: default_registry makes a payment tool with a new ledger. *)
Reset(k) ==
    /\ ResetSaga(k)
    /\ ledger' = EmptyLedger
    /\ UNCHANGED <<arg, target, disk>>

Refuse(k) ==
    /\ ~PassesGuard(k)
    /\ RefuseAtStepZero(k)
    /\ arg' = [arg EXCEPT ![k] = NoArg]
    /\ UNCHANGED <<target, disk, ledger>>

Accept(k) ==
    /\ PassesGuard(k)
    /\ AnswerFromCache(k) \/ Dispatch(k)
    /\ UNCHANGED workVars

(* The row keeps the params; a payment id that is missing there is made    *)
(* from the session and the sequence number, and stands in the output.     *)
TargetOf(k) ==
    CASE request[k].tool = fs_write -> FileOf[arg[k]]
      [] arg[k] = NoArg             -> <<call[k].sess, call[k].seq>>
      [] OTHER                      -> arg[k]

LogRow(k) ==
    /\ Log(k)
    /\ target' = IF nrows' = nrows THEN target ELSE [target EXCEPT ![nrows'] = TargetOf(k)]
    /\ UNCHANGED <<gatewayVars, arg, disk, ledger>>

(* fs.write: missing directories are made, what was there is overwritten.  *)
WriteFile(k) ==
    /\ request[k].tool = fs_write
    /\ ToolOk(k)
    /\ disk' = [disk EXCEPT ![target[call[k].cur]] = "written"]
    /\ UNCHANGED <<gatewayVars, arg, target, ledger>>

\* mutant: a write that fails removes what it was writing
FailedWriteCleansUp(k) ==
    /\ request[k].tool = fs_write
    /\ ToolError(k)
    /\ disk' = [disk EXCEPT ![target[call[k].cur]] = "absent"]
    /\ UNCHANGED <<gatewayVars, arg, target, ledger>>

(* The error may come before the file is created, or after. *)
WriteFails(k) ==
    /\ request[k].tool = fs_write
    /\ ToolError(k)
    /\ \/ UNCHANGED disk
       \/ disk' = [disk EXCEPT ![target[call[k].cur]] = "written"]
    /\ UNCHANGED <<gatewayVars, arg, target, ledger>>

(* mock.pay: an id the ledger knows is not charged again. *)
Charge(k, p) == ledger' = [ledger EXCEPT ![p] = IF @ = "NONE" THEN "CHARGED" ELSE @]

Pay(k) ==
    /\ request[k].tool = mock_pay
    /\ ToolOk(k)
    /\ Charge(k, target[call[k].cur])
    /\ UNCHANGED <<gatewayVars, arg, target, disk>>

(* fs.write's compensate; a file that is gone already is no error. *)
RemoveFile(i) ==
    /\ actions[i].tool = fs_write
    /\ disk' = [disk EXCEPT ![target[i]] = "absent"]
    /\ UNCHANGED ledger

\* mutant: the payment id is looked for in the args alone
RefundWithoutOutput(i) ==
    /\ actions[i].tool = mock_pay
    /\ ledger' = [p \in PaymentId |->
          IF p = target[i] /\ p \in PaymentArg THEN "REFUNDED" ELSE ledger[p]]
    /\ UNCHANGED disk

(* mock.pay's compensate: a new ledger learns of the id here. *)
Refund(i) ==
    /\ actions[i].tool = mock_pay
    /\ ledger' = [ledger EXCEPT ![target[i]] = "REFUNDED"]
    /\ UNCHANGED disk

Compensate(k) ==
    /\ CompensateOk(k)
    /\ RemoveFile(call'[k].cur) \/ Refund(call'[k].cur)
    /\ UNCHANGED <<gatewayVars, arg, target>>

(* Only the removal of a file can fail. *)
CompensateFails(k) ==
    /\ CompensateError(k)
    /\ actions[call'[k].cur].tool = fs_write
    /\ UNCHANGED <<gatewayVars, workVars>>

Record(k) ==
    /\ \/ CommitStep(k) \/ FailStep(k) \/ ScanCommitted(k)
       \/ RecordUndone(k) \/ RecordOrphan(k) \/ RecordInDlq(k) \/ EndRollback(k)
    /\ UNCHANGED <<gatewayVars, workVars>>

Reply(k) ==
    /\ Respond(k)
    /\ arg' = [arg EXCEPT ![k] = NoArg]
    /\ UNCHANGED <<target, disk, ledger>>

(* A deleted row takes its args with it: target keeps them as a ghost.     *)
Prune(k) == PruneHistory(k) /\ UNCHANGED workVars

(* The ledger is in the memory of the process. *)
RestartServer(k) ==
    /\ Restart(k)
    /\ arg' = [arg EXCEPT ![k] = NoArg]
    /\ ledger' = EmptyLedger
    /\ UNCHANGED <<target, disk>>

ServeRequest(k) ==
    \/ Authorize(k) \/ Reset(k) \/ Refuse(k) \/ Accept(k)
    \/ LogRow(k) \/ WriteFile(k) \/ WriteFails(k) \/ Pay(k)
    \/ Compensate(k) \/ CompensateFails(k) \/ Record(k) \/ Reply(k)

WsNext ==
    \E k \in Kernel :
        \/ \E t \in Tool, s \in Session, key \in Key \cup {NoKey} : RequestWith(k, t, s, key)
        \/ ServeRequest(k) \/ Prune(k) \/ RestartServer(k)

WsSpec == WsInit /\ [][WsNext]_wsVars

(* serve_stdio awaits the request it has read before it reads the next. *)
FairWorkspace == WsSpec /\ \A k \in Kernel : WF_wsVars(ServeRequest(k))

-----------------------------------------------------------------------------
(* When the last row about a file or a payment is COMPENSATED, the file is *)
(* not on the disk and the payment not charged, whatever spelling the      *)
(* earlier rows had, and whichever crash, restart or new saga came after.  *)
(* A write that failed later is a row of its own, and may leave its file.  *)
CompensatedIsGone ==
    \A i \in ActionId :
        /\ Status(i) = "COMPENSATED"
        /\ \A j \in ActionId : target[j] = target[i] => j <= i
        => IF actions[i].tool = fs_write
           THEN disk[target[i]] = "absent" ELSE ledger[target[i]] # "CHARGED"

(* While a saga lives, a payment its own session has as COMMITTED is       *)
(* charged: an id that is answered as known is never one that was refunded *)
(* (MockPaymentTool::execute takes either for done), because the ledger of *)
(* a saga that has rolled back is dropped with it (reset_saga).            *)
LiveChargesStand ==
    \A k \in Kernel :
        fsm[k].mode \notin {"Compensating", "Failed"} =>
            \A i \in Committed(session_id[k]) :
                actions[i].tool = mock_pay => ledger[target[i]] = "CHARGED"

(* The file of a COMMITTED row is on the disk, unless a rollback has       *)
(* undone a row that wrote the same file, by whatever spelling.            *)
CommittedFileStands ==
    \A i \in ActionId :
        /\ Status(i) = "COMMITTED" /\ actions[i].tool = fs_write
        /\ \A j \in ActionId : target[j] = target[i] => world[j] # "undone"
        => disk[target[i]] = "written"

(* The tools touch no file outside of the allowed roots, by "..", by an    *)
(* absolute path or through a link.                                        *)
WritesStayInRoots ==
    \A f \in File : disk[f] = "written" => f \in FileInRoots
=============================================================================
