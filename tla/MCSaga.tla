------------------------------- MODULE MCSaga -------------------------------
(* Instances of SagaKernel, and of the readers of its log, for TLC. *)
EXTENDS SessionReplay, TLC

CONSTANTS k1, k2, s1, s2, write, pay, mail

(* write and pay are compensable, mail is irreversible. *)

(* Every kernel has every tool ... *)
FullRegistry == [k \in Kernel |-> Tool]

(* ... or k2 came up without pay, the tool of rows that k1 wrote. *)
LessAtK2 == [k \in Kernel |-> IF k = k2 THEN Tool \ {pay} ELSE Tool]

(* Every kernel's caller has sessions of its own ... *)
OwnSessions == [k \in Kernel |-> IF k = k1 THEN {s1} ELSE {s2}]

(* ... or k2 only scans for dangling sessions, k1's included ... *)
OnlyK1 == [k \in Kernel |-> IF k = k1 THEN Session ELSE {}]

(* ... or all sessions are within everybody's reach. *)
AllSessions == [k \in Kernel |-> Session]
=============================================================================
