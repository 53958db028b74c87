------------------------------ MODULE MCPython -------------------------------
(* Instances of PythonBridge for TLC. *)
EXTENDS PythonBridge, TLC

CONSTANTS k1, s1, s2, t1, t2, write, note

FullRegistry == [k \in Kernel |-> Tool]

AllSessions == [k \in Kernel |-> Session]
=============================================================================
