----------------------------- MODULE RouterPlan -----------------------------
(***************************************************************************)
(* InferenceRouter::plan and the tool router.plan of src/router.rs: a pure *)
(* function from a catalog, a task and an SLO to a plan or an error.       *)
(*                                                                         *)
(* The f64 of the code are integers here, in units that make every product *)
(* exact: 1e-7 GB for memory, 1/100 byte per parameter, mWh, micro-dollars *)
(* per 1000 tokens.  Names, reasons and the order of equal sort keys in a  *)
(* catalog are kept as positions.                                          *)
(***************************************************************************)
EXTENDS Integers, Sequences, FiniteSets

CONSTANTS
    Tasks,              \* tasks callers ask a plan for
    Slos,               \* SLOs of those callers
    Vrams,              \* GB given with the call, or NoVram
    NoVram,
    NoBound,            \* a dimension an SLO leaves open
    Injected            \* the catalog given to RouterPlanTool::with_catalog

VARIABLES
    request,            \* the task, SLO and memory of one call
    answer              \* its plan

routerVars == <<request, answer>>

(* The values the structs can have: lengths and times are unsigned.        *)
TaskSpec == [ctx : Nat, out : Nat, quality : Int]

SloPolicy == [cost : Int \cup {NoBound}, latency : Nat \cup {NoBound},
              mwh : Int \cup {NoBound}, prefer_local : BOOLEAN]

LocalBackends == [params : Int, bytes : Nat, vram : Int, ctx : Nat,
                  tok : Int, watts : Int, quality : Int]

CloudBackends == [cost : Int, latency : Nat, mwh : Int, ctx : Nat, quality : Int]

BackendCatalog == [local : Seq(LocalBackends), cloud : Seq(CloudBackends)]

ASSUME RouterAssumption ==
    /\ NoBound \notin Int /\ NoVram \notin Int
    /\ Tasks \subseteq TaskSpec
    /\ Slos \subseteq SloPolicy
    /\ Vrams \subseteq Int \cup {NoVram}
    /\ Injected \in BackendCatalog

\* bytes_per_param, in hundredths
Quant == [F16 |-> 200, Q8 |-> 100, Q6 |-> 75, Q4 |-> 55, Iq3 |-> 42, Q2 |-> 33]

LocalBackend(params, quant, gb, ctx, tok, watts, quality) ==
    [params |-> params, bytes |-> Quant[quant], vram |-> gb * 10000000, ctx |-> ctx,
     tok |-> tok, watts |-> watts, quality |-> quality]

CloudBackend(cost, latency, mwh, ctx, quality) ==
    [cost |-> cost, latency |-> latency, mwh |-> mwh, ctx |-> ctx, quality |-> quality]

ConsumerPresets(gb) ==
    [local |-> << LocalBackend(9, "Q6", gb, 32768, 55, 220, 68),
                  LocalBackend(27, "Iq3", gb, 8192, 28, 300, 78),
                  LocalBackend(20, "Q4", gb, 16384, 34, 280, 75) >>,
     cloud |-> << CloudBackend(800, 900, 400, 200000, 80),
                  CloudBackend(6000, 1800, 1100, 200000, 90) >>]

-----------------------------------------------------------------------------
(* The estimates.  (num + den - 1) \div den is the ceiling: comparing it   *)
(* with an integer bound is comparing the exact quotient.                  *)

EstimateVram(b, task) ==
    b.params * b.bytes * 100000 + (task.ctx * b.params * 12 + 9) \div 10 + 6000000

TokPerS(b) == IF b.tok < 1 THEN 1 ELSE b.tok

LocalLatency(b, task) == (task.out * 1000) \div TokPerS(b)

(* The denominators are even. *)
Round(num, den) == (num + den \div 2) \div den

LocalMwh(b, task) == Round(b.watts * task.out * 10, 36 * TokPerS(b))

Tokens(task) == task.ctx + task.out

CloudCost(b, task) == Round(Tokens(task) * b.cost, 1000)

CloudMwh(b, task) == Round(Tokens(task) * b.mwh, 1000)

-----------------------------------------------------------------------------
(* The filters, in the order of the code. *)

Suits(b, task) == task.ctx <= b.ctx /\ b.quality >= task.quality

\* mutant: only the weights have to fit
FitsLocalWeights(b, task) == Suits(b, task) /\ b.params * b.bytes * 100000 <= b.vram

FitsLocal(b, task) == Suits(b, task) /\ EstimateVram(b, task) <= b.vram

(* A local backend costs nothing. *)
LocalWithinSlo(b, task, slo) ==
    /\ slo.latency # NoBound => LocalLatency(b, task) <= slo.latency
    /\ slo.mwh # NoBound => b.watts * task.out * 1000 <= slo.mwh * 3600 * TokPerS(b)
    /\ slo.cost # NoBound => slo.cost >= 0

CloudWithinSlo(b, task, slo) ==
    /\ slo.cost # NoBound => Tokens(task) * b.cost <= slo.cost * Tokens(task)
    /\ slo.latency # NoBound => b.latency <= slo.latency
    /\ slo.mwh # NoBound => Tokens(task) * b.mwh <= slo.mwh * 1000

LocalFeasible(catalog, task, slo) ==
    {i \in DOMAIN catalog.local :
        FitsLocal(catalog.local[i], task) /\ LocalWithinSlo(catalog.local[i], task, slo)}

\* mutant: a latency bound is meant for local backends only
CloudFeasibleAnyLatency(catalog, task, slo) ==
    {i \in DOMAIN catalog.cloud :
        Suits(catalog.cloud[i], task)
        /\ CloudWithinSlo(catalog.cloud[i], task, [slo EXCEPT !.latency = NoBound])}

CloudFeasible(catalog, task, slo) ==
    {i \in DOMAIN catalog.cloud :
        Suits(catalog.cloud[i], task) /\ CloudWithinSlo(catalog.cloud[i], task, slo)}

Fallback(catalog, task) == {i \in DOMAIN catalog.local : FitsLocal(catalog.local[i], task)}

-----------------------------------------------------------------------------
(* The choices.  Both sorts are stable: the last key is the position.      *)

\* mutant: the sort by quality is ascending
BestLocalAscending(catalog, task, S) ==
    CHOOSE i \in S : \A j \in S : catalog.local[i].quality <= catalog.local[j].quality

(* By quality, then by energy: est_wh is sorted in descending order.       *)
BestLocal(catalog, task, S) ==
    CHOOSE i \in S : \A j \in S \ {i} :
        LET p == catalog.local[i]
            q == catalog.local[j]
        IN  \/ p.quality > q.quality
            \/ /\ p.quality = q.quality
               /\ \/ LocalMwh(p, task) > LocalMwh(q, task)
                  \/ LocalMwh(p, task) = LocalMwh(q, task) /\ i < j

(* By cost, then by energy, both ascending. *)
BestCloud(catalog, task, S) ==
    CHOOSE i \in S : \A j \in S \ {i} :
        LET p == catalog.cloud[i]
            q == catalog.cloud[j]
        IN  \/ CloudCost(p, task) < CloudCost(q, task)
            \/ /\ CloudCost(p, task) = CloudCost(q, task)
               /\ \/ CloudMwh(p, task) < CloudMwh(q, task)
                  \/ CloudMwh(p, task) = CloudMwh(q, task) /\ i < j

First(S) == CHOOSE i \in S : \A j \in S : i <= j

Plan(kind, position) == [kind |-> kind, position |-> position]

NoFeasibleBackend == Plan("NO_FEASIBLE_BACKEND", 0)

\* mutant: without a preference the local backends are not looked at again
PlanWithoutFallback(catalog, task, slo) ==
    LET local == LocalFeasible(catalog, task, slo)
        cloud == CloudFeasible(catalog, task, slo)
    IN  IF slo.prefer_local /\ local # {} THEN Plan("local", BestLocal(catalog, task, local))
        ELSE IF cloud # {} THEN Plan("cloud", BestCloud(catalog, task, cloud))
        ELSE NoFeasibleBackend

PlanFor(catalog, task, slo) ==
    LET local == LocalFeasible(catalog, task, slo)
        cloud == CloudFeasible(catalog, task, slo)
        retry == Fallback(catalog, task)
    IN  IF slo.prefer_local /\ local # {} THEN Plan("local", BestLocal(catalog, task, local))
        ELSE IF cloud # {} THEN Plan("cloud", BestCloud(catalog, task, cloud))
        ELSE IF ~slo.prefer_local /\ retry # {} THEN Plan("fallback", First(retry))
        ELSE NoFeasibleBackend

-----------------------------------------------------------------------------
(* RouterPlanTool::execute.  A call that gives its memory is planned on the *)
(* presets, any other on the catalog the tool was made with.               *)
CatalogOf(vram) == IF vram = NoVram THEN Injected ELSE ConsumerPresets(vram)

Unanswered == Plan("none", 0)

RouterInit ==
    /\ request \in [task : Tasks, slo : Slos, vram : Vrams]
    /\ answer = Unanswered

Execute ==
    /\ answer = Unanswered
    /\ answer' = PlanFor(CatalogOf(request.vram), request.task, request.slo)
    /\ UNCHANGED request

RouterSpec == RouterInit /\ [][Execute]_routerVars
=============================================================================
