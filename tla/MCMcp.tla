------------------------------- MODULE MCMcp --------------------------------
(* Instances of McpGateway and McpWorkspace for TLC. *)
EXTENDS McpWorkspace, TLC

CONSTANTS k1, s1, s2, s3, s4, bill

FullRegistry == [k \in Kernel |-> Tool]

(* The session of the server when it comes up. *)
StartAtS1 == [k \in Kernel |-> s1]

AllSessions == [k \in Kernel |-> Session]

(* A workspace with a file, a directory, a link back to the workspace and  *)
(* a link that leaves it.                                                  *)
WorkDir == <<"/", "work">>
OnlyWorkDir == {<<".">>}
Layout == {<<"/">>, <<"/", "etc">>, WorkDir, WorkDir \o <<"sub">>, WorkDir \o <<"a">>}
Links == (WorkDir \o <<"in">> :> WorkDir) @@ (WorkDir \o <<"out">> :> <<"/", "etc">>)

(* One file of the workspace by two spellings, and paths to be refused. *)
Paths == {<<"a">>, <<"sub", ".", "..", "in", "a">>,
          <<"..", "etc", "a">>, <<"/", "etc", "a">>, <<"out", "a">>,
          <<".env", "a">>, <<"A~1">>}
(* The run about the split saga refuses no path. *)
GoodPath == {<<"a">>}

Blocked == {".env"}
Short == {"A~1"}
=============================================================================
