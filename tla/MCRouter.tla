------------------------------ MODULE MCRouter ------------------------------
(* Instances of RouterPlan for TLC: the presets, and a catalog where       *)
(* quality, cost and energy tie or disagree.                               *)
EXTENDS RouterProperties

(* Contexts at and around the windows and the memory of the presets.       *)
MCTasks == [ctx : {0, 8192, 8193, 16384, 32768, 200000, 200001},
            out : {0, 512, 2000}, quality : {0, 70, 78, 90, 91}]

MCSlos == [cost : {NoBound, -1, 0, 800, 6000}, latency : {NoBound, 900, 15000},
           mwh : {NoBound, 600, 8000}, prefer_local : BOOLEAN]

(* In GB: the weights of a preset fit into 7 and 11, not all that it needs. *)
MCVrams == {NoVram, 7, 11, 12}

MCInjected ==
    [local |-> << LocalBackend(20, "Q4", 12, 16384, 34, 280, 78),
                  LocalBackend(9, "Q6", 12, 32768, 55, 220, 78),
                  LocalBackend(27, "F16", 60, 32768, 0, 300, 90) >>,
     cloud |-> << CloudBackend(6000, 900, 300, 200000, 90),
                  CloudBackend(800, 1800, 1100, 32768, 78),
                  CloudBackend(800, 1800, 400, 32768, 78) >>]
=============================================================================
