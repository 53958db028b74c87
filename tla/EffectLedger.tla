---------------------------- MODULE EffectLedger ----------------------------
(***************************************************************************)
(* What the write-ahead log promises about the effects of tools, row by    *)
(* row, with no kernel, session, rollback, recovery or crash in sight.     *)
(* SagaKernel implements it (SagaProperties, SagaKernelProofs).            *)
(*                                                                         *)
(* confirmed[i] says that the output of i's execution is in the log; from  *)
(* then on, and not before, the effect of i may be undone.                 *)
(***************************************************************************)
CONSTANT Id

VARIABLES status, confirmed, effect, letters

vars == <<status, confirmed, effect, letters>>

Init ==
    /\ status = [i \in Id |-> "NONE"]
    /\ confirmed = [i \in Id |-> FALSE]
    /\ effect = [i \in Id |-> "absent"]
    /\ letters = {}

(* The row comes before the effect. *)
Open(i) ==
    /\ status[i] = "NONE"
    /\ \E st \in {"PENDING", "PENDING_APPROVAL"} : status' = [status EXCEPT ![i] = st]
    /\ UNCHANGED <<confirmed, effect, letters>>

Run(i) ==
    /\ status[i] \in {"PENDING", "PENDING_APPROVAL", "FAILED"}
    /\ ~confirmed[i]
    /\ effect' = [effect EXCEPT ![i] = "applied"]
    /\ UNCHANGED <<status, confirmed, letters>>

(* Only what is in the world is confirmed, and only once. *)
Confirm(i) ==
    /\ effect[i] = "applied"
    /\ ~confirmed[i]
    /\ status' = [status EXCEPT ![i] = "COMMITTED"]
    /\ confirmed' = [confirmed EXCEPT ![i] = TRUE]
    /\ UNCHANGED <<effect, letters>>

(* FAILED claims nothing about the effect. *)
GiveUp(i) ==
    /\ status[i] # "NONE"
    /\ status' = [status EXCEPT ![i] = "FAILED"]
    /\ UNCHANGED <<confirmed, effect, letters>>

Undo(i) ==
    /\ confirmed[i]
    /\ effect' = [effect EXCEPT ![i] = "undone"]
    /\ UNCHANGED <<status, confirmed, letters>>

RecordUndone(i) ==
    /\ confirmed[i]
    /\ effect[i] = "undone"
    /\ status' = [status EXCEPT ![i] = "COMPENSATED"]
    /\ UNCHANGED <<confirmed, effect, letters>>

DeadLetter(i) ==
    /\ confirmed[i]
    /\ letters' = letters \cup {i}
    /\ UNCHANGED <<status, confirmed, effect>>

Next ==
    \E i \in Id :
        \/ Open(i) \/ Run(i) \/ Confirm(i) \/ GiveUp(i)
        \/ Undo(i) \/ RecordUndone(i) \/ DeadLetter(i)

Spec == Init /\ [][Next]_vars
=============================================================================
