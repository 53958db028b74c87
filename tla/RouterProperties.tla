-------------------------- MODULE RouterProperties --------------------------
(***************************************************************************)
(* What the router promises, stated on the backend it has chosen and not   *)
(* on the way it chooses.                                                  *)
(***************************************************************************)
EXTENDS RouterPlan

catalog == CatalogOf(request.vram)

task == request.task

slo == request.slo

OnLocal == answer.kind \in {"local", "fallback"}

OnCloud == answer.kind = "cloud"

Chosen == IF OnLocal THEN catalog.local[answer.position] ELSE catalog.cloud[answer.position]

(* The backend can do the task: its context window and quality suffice,    *)
(* and a local one has memory for weights, KV cache and runtime.           *)
CanRun(b, isLocal) ==
    /\ task.ctx <= b.ctx
    /\ task.quality <= b.quality
    /\ isLocal => EstimateVram(b, task) <= b.vram

(* It does so within the caller's bounds on cost, time and energy. *)
Meets(b, isLocal) ==
    /\ slo.cost # NoBound =>
          IF isLocal THEN 0 <= slo.cost ELSE Tokens(task) * b.cost <= slo.cost * Tokens(task)
    /\ slo.latency # NoBound =>
          (IF isLocal THEN (1000 * task.out) \div TokPerS(b) ELSE b.latency) <= slo.latency
    /\ slo.mwh # NoBound =>
          IF isLocal THEN 10 * b.watts * task.out <= 36 * slo.mwh * TokPerS(b)
                     ELSE b.mwh * Tokens(task) <= 1000 * slo.mwh

Local == {catalog.local[i] : i \in DOMAIN catalog.local}

Cloud == {catalog.cloud[i] : i \in DOMAIN catalog.cloud}

-----------------------------------------------------------------------------
(* No plan asks a backend for more memory, context or quality than it has, *)
(* the fallback included (the VRAM-fit and Context-fit rules of plan).     *)
NoPlanOverflows == OnLocal \/ OnCloud => CanRun(Chosen, OnLocal)

(* A plan that is not the fallback keeps every bound of the SLO.           *)
RegularPlansMeetSlo ==
    answer.kind \in {"local", "cloud"} => Meets(Chosen, OnLocal)

(* A refusal is right: no backend of either kind can run the task within   *)
(* the bounds, and without a preference not even outside of them locally.  *)
RefusalsAreRight ==
    answer = NoFeasibleBackend =>
        /\ \A b \in Local : CanRun(b, TRUE) => slo.prefer_local /\ ~Meets(b, TRUE)
        /\ \A b \in Cloud : CanRun(b, FALSE) => ~Meets(b, FALSE)

(* A caller that prefers local backends gets one whenever one can do it,   *)
(* and no better one of them could have.                                   *)
LocalFirstAndBest ==
    slo.prefer_local /\ answer # Unanswered =>
        \A b \in Local :
            CanRun(b, TRUE) /\ Meets(b, TRUE) =>
                answer.kind = "local" /\ b.quality <= Chosen.quality
=============================================================================
