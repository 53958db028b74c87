---------------------------- MODULE RouterProofs ----------------------------
(***************************************************************************)
(* The promises of the router for every catalog, task and SLO.  The sorts  *)
(* of the code are choices of a best element here; what carries the proofs *)
(* is that a best element exists, in every finite list, for every order    *)
(* the sorts use.                                                          *)
(***************************************************************************)
EXTENDS RouterProperties, FiniteSetTheorems, TLAPS

(* Of positions with two integer keys one comes first, the position itself *)
(* breaking a tie of both: what a stable sort puts in front.  It is the one *)
(* with the fewest positions before it.                                    *)
LEMMA FirstOfSorted ==
    ASSUME NEW S \in SUBSET Nat, IsFiniteSet(S), S # {},
           NEW f \in [S -> Int], NEW g \in [S -> Int]
    PROVE  \E i \in S : \A j \in S \ {i} :
              \/ f[i] < f[j]
              \/ /\ f[i] = f[j]
                 /\ \/ g[i] < g[j]
                    \/ g[i] = g[j] /\ i < j
<1> DEFINE Precedes(i, j) == \/ f[i] < f[j]
                             \/ /\ f[i] = f[j]
                                /\ \/ g[i] < g[j]
                                   \/ g[i] = g[j] /\ i < j
           Before(x) == {y \in S : Precedes(y, x)}
           Sizes == {Cardinality(Before(x)) : x \in S}
<1>1. \A x \in S : ~Precedes(x, x)
  OBVIOUS
<1>2. \A x, y, z \in S : Precedes(x, y) /\ Precedes(y, z) => Precedes(x, z)
  OBVIOUS
<1>3. \A x, y \in S : x = y \/ Precedes(x, y) \/ Precedes(y, x)
  OBVIOUS
<1> HIDE DEF Precedes
<1>4. \A x \in S : IsFiniteSet(Before(x)) /\ Cardinality(Before(x)) \in Nat
  <2> TAKE x \in S
  <2>1. Before(x) \in SUBSET S
    OBVIOUS
  <2> HIDE DEF Before
  <2>2. IsFiniteSet(Before(x))
    BY <2>1, FS_Subset
  <2>3. QED
    BY <2>2, FS_CardinalityType
<1>5. Sizes \subseteq Nat /\ Sizes # {}
  <2> HIDE DEF Before
  <2>1. QED
    BY <1>4
<1>6. PICK n \in Sizes : \A m \in Sizes : <<m, n>> \notin OpToRel(<, Nat)
  <2> HIDE DEF Sizes
  <2>1. QED
    BY <1>5, NatLessThanWellFounded, WFMin
<1>7. \A z \in S : ~(Cardinality(Before(z)) < n)
  <2> HIDE DEF Before
  <2>1. \A z \in S : Cardinality(Before(z)) \in Sizes
    OBVIOUS
  <2> HIDE DEF Sizes
  <2>2. QED
    BY <1>5, <1>6, <2>1 DEF OpToRel
<1>8. PICK x \in S : n = Cardinality(Before(x))
  OBVIOUS
<1>9. Before(x) = {}
  <2> SUFFICES ASSUME NEW y \in Before(x)
               PROVE  FALSE
    OBVIOUS
  <2>1. y \in S /\ Precedes(y, x) /\ ~Precedes(y, y)
    BY <1>1
  <2>2. \A z \in S : Precedes(z, y) => Precedes(z, x)
    BY <1>2, <2>1
  <2>3. Before(y) \in SUBSET Before(x) /\ y \notin Before(y)
    BY <2>1, <2>2
  <2>4. ~(Cardinality(Before(y)) < n)
    BY <1>7, <2>1
  <2>5. IsFiniteSet(Before(x)) /\ Cardinality(Before(x)) \in Nat /\ Cardinality(Before(y)) \in Nat
    BY <1>4, <2>1
  <2> HIDE DEF Before
  <2>6. Cardinality(Before(y)) <= Cardinality(Before(x))
        /\ (Cardinality(Before(y)) = Cardinality(Before(x)) => Before(y) = Before(x))
    BY <2>3, <2>5, FS_Subset
  <2>7. Before(y) = Before(x)
    BY <1>8, <2>4, <2>5, <2>6
  <2>8. QED
    BY <2>3, <2>7
<1>10. \A y \in S \ {x} : Precedes(x, y)
  BY <1>3, <1>9
<1>11. QED
  BY <1>10 DEF Precedes

(* The positions of a sequence are finitely many naturals. *)
LEMMA Positions ==
    ASSUME NEW T, NEW s \in Seq(T), NEW S \in SUBSET DOMAIN s
    PROVE  S \in SUBSET Nat /\ IsFiniteSet(S)
<1>1. DOMAIN s = 1..Len(s) /\ Len(s) \in Nat
  OBVIOUS
<1>2. IsFiniteSet(1..Len(s))
  BY <1>1, FS_Interval
<1>3. IsFiniteSet(S)
  BY <1>1, <1>2, FS_Subset
<1>4. QED
  BY <1>1, <1>3

(* Rounding by a positive denominator gives an integer. *)
LEMMA RoundType ==
    ASSUME NEW num \in Int, NEW den \in Nat \ {0}
    PROVE  Round(num, den) \in Int
BY DEF Round

(* The energy estimate of a local backend is an integer: the tokens per    *)
(* second it divides by are at least 1.                                    *)
LEMMA LocalMwhType ==
    ASSUME NEW b \in LocalBackends, NEW t \in TaskSpec
    PROVE  TokPerS(b) \in Nat \ {0} /\ LocalMwh(b, t) \in Int
<1>1. TokPerS(b) \in Nat \ {0}
  BY DEF TokPerS, LocalBackends
<1>2. 36 * TokPerS(b) \in Nat \ {0}
  BY <1>1
<1>3. b.watts * t.out * 10 \in Int
  BY DEF LocalBackends, TaskSpec
<1>4. QED
  BY <1>1, <1>2, <1>3, RoundType DEF LocalMwh

(* The cost and energy estimates of a cloud backend are integers. *)
LEMMA CloudKeysType ==
    ASSUME NEW b \in CloudBackends, NEW t \in TaskSpec
    PROVE  Tokens(t) \in Nat /\ CloudCost(b, t) \in Int /\ CloudMwh(b, t) \in Int
<1>1. Tokens(t) \in Nat
  BY DEF Tokens, TaskSpec
<1>2. Tokens(t) * b.cost \in Int /\ Tokens(t) * b.mwh \in Int
  BY <1>1 DEF CloudBackends
<1>3. QED
  BY <1>1, <1>2, RoundType DEF CloudCost, CloudMwh

(* The sort of the local backends puts one in front that is feasible and   *)
(* of the highest quality among the feasible ones.                         *)
LEMMA BestLocalIsBest ==
    ASSUME NEW c \in BackendCatalog, NEW t \in TaskSpec,
           NEW S \in SUBSET DOMAIN c.local, S # {}
    PROVE  /\ BestLocal(c, t, S) \in S
           /\ \A j \in S : c.local[j].quality <= c.local[BestLocal(c, t, S)].quality
<1> DEFINE f == [i \in S |-> 0 - c.local[i].quality]
           g == [i \in S |-> 0 - LocalMwh(c.local[i], t)]
           InFront(i, j) == \/ c.local[i].quality > c.local[j].quality
                            \/ /\ c.local[i].quality = c.local[j].quality
                               /\ \/ LocalMwh(c.local[i], t) > LocalMwh(c.local[j], t)
                                  \/ LocalMwh(c.local[i], t) = LocalMwh(c.local[j], t) /\ i < j
<1>1. c.local \in Seq(LocalBackends)
  BY DEF BackendCatalog
<1>2. S \in SUBSET Nat /\ IsFiniteSet(S)
  BY <1>1, Positions
<1>3. \A i \in S : c.local[i] \in LocalBackends
  BY <1>1
<1>4. \A i \in S : c.local[i].quality \in Int /\ LocalMwh(c.local[i], t) \in Int
  BY <1>3, LocalMwhType DEF LocalBackends
<1>5. f \in [S -> Int] /\ g \in [S -> Int]
  BY <1>4
<1>6. PICK i \in S : \A j \in S \ {i} : \/ f[i] < f[j]
                                        \/ /\ f[i] = f[j]
                                           /\ \/ g[i] < g[j]
                                              \/ g[i] = g[j] /\ i < j
  <2> HIDE DEF f, g
  <2>1. QED
    BY <1>2, <1>5, FirstOfSorted
<1>7. \A j \in S \ {i} : InFront(i, j)
  BY <1>4, <1>6
<1>8. BestLocal(c, t, S) = CHOOSE k \in S : \A j \in S \ {k} : InFront(k, j)
  BY DEF BestLocal
<1>9. BestLocal(c, t, S) \in S /\ \A j \in S \ {BestLocal(c, t, S)} : InFront(BestLocal(c, t, S), j)
  <2> HIDE DEF InFront
  <2>1. QED
    BY <1>7, <1>8
<1>10. QED
  BY <1>4, <1>9

(* The sort of the cloud backends puts a feasible one in front. *)
LEMMA BestCloudIsFeasible ==
    ASSUME NEW c \in BackendCatalog, NEW t \in TaskSpec,
           NEW S \in SUBSET DOMAIN c.cloud, S # {}
    PROVE  BestCloud(c, t, S) \in S
<1> DEFINE f == [i \in S |-> CloudCost(c.cloud[i], t)]
           g == [i \in S |-> CloudMwh(c.cloud[i], t)]
           InFront(i, j) == \/ CloudCost(c.cloud[i], t) < CloudCost(c.cloud[j], t)
                            \/ /\ CloudCost(c.cloud[i], t) = CloudCost(c.cloud[j], t)
                               /\ \/ CloudMwh(c.cloud[i], t) < CloudMwh(c.cloud[j], t)
                                  \/ CloudMwh(c.cloud[i], t) = CloudMwh(c.cloud[j], t) /\ i < j
<1>1. c.cloud \in Seq(CloudBackends)
  BY DEF BackendCatalog
<1>2. S \in SUBSET Nat /\ IsFiniteSet(S)
  BY <1>1, Positions
<1>3. \A i \in S : c.cloud[i] \in CloudBackends
  BY <1>1
<1>4. f \in [S -> Int] /\ g \in [S -> Int]
  BY <1>3, CloudKeysType
<1>5. PICK i \in S : \A j \in S \ {i} : \/ f[i] < f[j]
                                        \/ /\ f[i] = f[j]
                                           /\ \/ g[i] < g[j]
                                              \/ g[i] = g[j] /\ i < j
  <2> HIDE DEF f, g
  <2>1. QED
    BY <1>2, <1>4, FirstOfSorted
<1>6. \A j \in S \ {i} : InFront(i, j)
  BY <1>5
<1>7. BestCloud(c, t, S) = CHOOSE k \in S : \A j \in S \ {k} : InFront(k, j)
  BY DEF BestCloud
<1>8. QED
  <2> HIDE DEF InFront
  <2>1. QED
    BY <1>6, <1>7

(* The fallback takes a backend of the list it searches. *)
LEMMA FirstIsMember ==
    ASSUME NEW T, NEW s \in Seq(T), NEW S \in SUBSET DOMAIN s, S # {}
    PROVE  First(S) \in S
<1> DEFINE zero == [i \in S |-> 0]
<1>1. S \in SUBSET Nat /\ IsFiniteSet(S)
  BY Positions
<1>2. zero \in [S -> Int] /\ \A i \in S : zero[i] = 0
  OBVIOUS
<1>3. PICK i \in S : \A j \in S \ {i} : \/ zero[i] < zero[j]
                                        \/ /\ zero[i] = zero[j]
                                           /\ \/ zero[i] < zero[j]
                                              \/ zero[i] = zero[j] /\ i < j
  <2> HIDE DEF zero
  <2>1. QED
    BY <1>1, <1>2, FirstOfSorted
<1>4. \A j \in S : i <= j
  BY <1>1, <1>2, <1>3
<1>5. QED
  BY <1>4 DEF First

-----------------------------------------------------------------------------
(* The invariant: the answer to a request is the plan for it. *)

RequestOK == request \in [task : Tasks, slo : Slos, vram : Vrams]

RouterInv == RequestOK /\ (answer = Unanswered \/ answer = PlanFor(catalog, task, slo))

(* The presets are a catalog like any other. *)
LEMMA CatalogType ==
    ASSUME NEW vram \in Vrams
    PROVE  CatalogOf(vram) \in BackendCatalog
<1>1. CASE vram = NoVram
  BY <1>1, RouterAssumption DEF CatalogOf
<1>2. CASE vram # NoVram
  <2>1. vram \in Int
    BY <1>2, RouterAssumption
  <2>2. vram * 10000000 \in Int
    BY <2>1
  <2>3. /\ LocalBackend(9, "Q6", vram, 32768, 55, 220, 68) \in LocalBackends
        /\ LocalBackend(27, "Iq3", vram, 8192, 28, 300, 78) \in LocalBackends
        /\ LocalBackend(20, "Q4", vram, 16384, 34, 280, 75) \in LocalBackends
    <3> DEFINE gb == vram * 10000000
    <3>1. gb \in Int
      BY <2>2
    <3> HIDE DEF gb
    <3>2. [params |-> 9, bytes |-> 75, vram |-> gb, ctx |-> 32768, tok |-> 55,
           watts |-> 220, quality |-> 68] \in LocalBackends
      BY <3>1 DEF LocalBackends
    <3>3. [params |-> 27, bytes |-> 42, vram |-> gb, ctx |-> 8192, tok |-> 28,
           watts |-> 300, quality |-> 78] \in LocalBackends
      BY <3>1 DEF LocalBackends
    <3>4. [params |-> 20, bytes |-> 55, vram |-> gb, ctx |-> 16384, tok |-> 34,
           watts |-> 280, quality |-> 75] \in LocalBackends
      BY <3>1 DEF LocalBackends
    <3>5. Quant["Q6"] = 75 /\ Quant["Iq3"] = 42 /\ Quant["Q4"] = 55
      BY DEF Quant
    <3>6. QED
      BY <3>2, <3>3, <3>4, <3>5 DEF LocalBackend, gb
  <2>4. /\ CloudBackend(800, 900, 400, 200000, 80) \in CloudBackends
        /\ CloudBackend(6000, 1800, 1100, 200000, 90) \in CloudBackends
    BY DEF CloudBackend, CloudBackends
  <2>5. ConsumerPresets(vram).local \in Seq(LocalBackends)
    BY <2>3 DEF ConsumerPresets
  <2>6. ConsumerPresets(vram).cloud \in Seq(CloudBackends)
    BY <2>4 DEF ConsumerPresets
  <2>7. ConsumerPresets(vram) = [local |-> ConsumerPresets(vram).local,
                                 cloud |-> ConsumerPresets(vram).cloud]
    BY DEF ConsumerPresets
  <2>8. QED
    BY <1>2, <2>5, <2>6, <2>7 DEF CatalogOf, BackendCatalog
<1>3. QED
  BY <1>1, <1>2

(* What a request may contain. *)
LEMMA RequestType ==
    ASSUME RequestOK
    PROVE  /\ task \in TaskSpec /\ slo \in SloPolicy /\ catalog \in BackendCatalog
           /\ catalog.local \in Seq(LocalBackends) /\ catalog.cloud \in Seq(CloudBackends)
<1>1. task \in Tasks /\ slo \in Slos /\ request.vram \in Vrams
  BY DEF RequestOK, task, slo
<1>2. catalog \in BackendCatalog
  BY <1>1, CatalogType DEF catalog
<1>3. QED
  BY <1>1, <1>2, RouterAssumption DEF BackendCatalog

(* The filter of the local backends, which compares estimates, is the      *)
(* caller's bounds.                                                        *)
LEMMA LocalFilter ==
    ASSUME RequestOK, NEW b \in LocalBackends
    PROVE  LocalWithinSlo(b, task, slo) <=> Meets(b, TRUE)
<1>1. task.out \in Int /\ b.watts \in Int /\ TokPerS(b) \in Int
  BY RequestType, LocalMwhType DEF TaskSpec, LocalBackends
<1>2. slo.cost \in Int \cup {NoBound} /\ slo.mwh \in Int \cup {NoBound}
  BY RequestType DEF SloPolicy
<1>3. task.out * 1000 = 1000 * task.out
  BY <1>1
<1>4. ASSUME slo.mwh \in Int
      PROVE  b.watts * task.out * 1000 <= slo.mwh * 3600 * TokPerS(b)
             <=> 10 * b.watts * task.out <= 36 * slo.mwh * TokPerS(b)
  <2> DEFINE energy == b.watts * task.out
             bound == slo.mwh * TokPerS(b)
  <2>1. energy \in Int /\ bound \in Int
    BY <1>1, <1>4
  <2>2. /\ b.watts * task.out * 1000 = 1000 * energy
        /\ 10 * b.watts * task.out = 10 * energy
    BY <1>1
  <2>3. /\ slo.mwh * 3600 * TokPerS(b) = 3600 * bound
        /\ 36 * slo.mwh * TokPerS(b) = 36 * bound
    BY <1>1, <1>4
  <2> HIDE DEF energy, bound
  <2>4. 1000 * energy <= 3600 * bound <=> 10 * energy <= 36 * bound
    BY <2>1
  <2>5. QED
    BY <2>2, <2>3, <2>4
<1>5. slo.cost # NoBound => (slo.cost >= 0 <=> 0 <= slo.cost)
  BY <1>2
<1>6. QED
  BY <1>2, <1>3, <1>4, <1>5, RouterAssumption DEF LocalWithinSlo, LocalLatency, Meets

(* So is the filter of the cloud backends. *)
LEMMA CloudFilter ==
    ASSUME RequestOK, NEW b \in CloudBackends
    PROVE  CloudWithinSlo(b, task, slo) <=> Meets(b, FALSE)
<1>1. Tokens(task) \in Int /\ b.mwh \in Int
  BY RequestType, CloudKeysType DEF CloudBackends
<1>2. slo.mwh \in Int \cup {NoBound}
  BY RequestType DEF SloPolicy
<1>3. Tokens(task) * b.mwh = b.mwh * Tokens(task)
  BY <1>1
<1>4. slo.mwh # NoBound => slo.mwh * 1000 = 1000 * slo.mwh
  BY <1>2
<1>5. QED
  BY <1>3, <1>4 DEF CloudWithinSlo, Meets

(* A local backend fits when it can run the task. *)
LEMMA LocalFits ==
    ASSUME RequestOK, NEW b \in LocalBackends
    PROVE  FitsLocal(b, task) <=> CanRun(b, TRUE)
<1>1. b.quality \in Int /\ task.quality \in Int
  BY RequestType DEF LocalBackends, TaskSpec
<1>2. QED
  BY <1>1 DEF FitsLocal, Suits, CanRun

LEMMA CloudSuits ==
    ASSUME RequestOK, NEW b \in CloudBackends
    PROVE  Suits(b, task) <=> CanRun(b, FALSE)
<1>1. b.quality \in Int /\ task.quality \in Int
  BY RequestType DEF CloudBackends, TaskSpec
<1>2. QED
  BY <1>1 DEF Suits, CanRun

(* The four plans, each with what the branches before it have ruled out.   *)
LEMMA PlanCases ==
    ASSUME RouterInv, answer # Unanswered
    PROVE  LET local == LocalFeasible(catalog, task, slo)
               cloud == CloudFeasible(catalog, task, slo)
               retry == Fallback(catalog, task)
           IN  \/ /\ slo.prefer_local /\ local # {}
                  /\ answer = Plan("local", BestLocal(catalog, task, local))
               \/ /\ ~(slo.prefer_local /\ local # {}) /\ cloud # {}
                  /\ answer = Plan("cloud", BestCloud(catalog, task, cloud))
               \/ /\ ~slo.prefer_local /\ cloud = {} /\ retry # {}
                  /\ answer = Plan("fallback", First(retry))
               \/ /\ ~(slo.prefer_local /\ local # {}) /\ cloud = {}
                  /\ ~slo.prefer_local => retry = {}
                  /\ answer = NoFeasibleBackend
<1> DEFINE local == LocalFeasible(catalog, task, slo)
           cloud == CloudFeasible(catalog, task, slo)
           retry == Fallback(catalog, task)
<1>1. answer = IF slo.prefer_local /\ local # {} THEN Plan("local", BestLocal(catalog, task, local))
               ELSE IF cloud # {} THEN Plan("cloud", BestCloud(catalog, task, cloud))
               ELSE IF ~slo.prefer_local /\ retry # {} THEN Plan("fallback", First(retry))
               ELSE NoFeasibleBackend
  BY DEF RouterInv, PlanFor
<1> HIDE DEF local, cloud, retry
<1>2. slo.prefer_local \in BOOLEAN
  BY RequestType DEF RouterInv, SloPolicy
<1>3. \/ /\ slo.prefer_local /\ local # {}
         /\ answer = Plan("local", BestLocal(catalog, task, local))
      \/ /\ ~(slo.prefer_local /\ local # {}) /\ cloud # {}
         /\ answer = Plan("cloud", BestCloud(catalog, task, cloud))
      \/ /\ ~slo.prefer_local /\ cloud = {} /\ retry # {}
         /\ answer = Plan("fallback", First(retry))
      \/ /\ ~(slo.prefer_local /\ local # {}) /\ cloud = {}
         /\ ~slo.prefer_local => retry = {}
         /\ answer = NoFeasibleBackend
  BY <1>1, <1>2
<1>4. QED
  BY <1>3 DEF local, cloud, retry

(* What each kind of plan chose. *)
LEMMA ChosenBackend ==
    ASSUME RouterInv
    PROVE  /\ answer.kind = "local" =>
                 /\ slo.prefer_local
                 /\ answer.position \in LocalFeasible(catalog, task, slo)
                 /\ \A j \in LocalFeasible(catalog, task, slo) :
                       catalog.local[j].quality <= catalog.local[answer.position].quality
           /\ answer.kind = "cloud" => answer.position \in CloudFeasible(catalog, task, slo)
           /\ answer.kind = "fallback" => answer.position \in Fallback(catalog, task)
<1> DEFINE local == LocalFeasible(catalog, task, slo)
           cloud == CloudFeasible(catalog, task, slo)
           retry == Fallback(catalog, task)
<1>1. RequestOK
  BY DEF RouterInv
<1>2. CASE answer = Unanswered
  BY <1>2 DEF Unanswered, Plan
<1>3. CASE slo.prefer_local /\ local # {} /\ answer = Plan("local", BestLocal(catalog, task, local))
  <2>1. local \in SUBSET DOMAIN catalog.local
    BY DEF LocalFeasible
  <2> HIDE DEF local
  <2>2. BestLocal(catalog, task, local) \in local
        /\ \A j \in local :
              catalog.local[j].quality <= catalog.local[BestLocal(catalog, task, local)].quality
    BY <1>1, <1>3, <2>1, RequestType, BestLocalIsBest
  <2>3. answer.kind = "local" /\ answer.position = BestLocal(catalog, task, local)
    BY <1>3 DEF Plan
  <2>4. QED
    BY <1>3, <2>2, <2>3 DEF local
<1>4. CASE cloud # {} /\ answer = Plan("cloud", BestCloud(catalog, task, cloud))
  <2>1. cloud \in SUBSET DOMAIN catalog.cloud
    BY DEF CloudFeasible
  <2> HIDE DEF cloud
  <2>2. BestCloud(catalog, task, cloud) \in cloud
    BY <1>1, <1>4, <2>1, RequestType, BestCloudIsFeasible
  <2>3. answer.kind = "cloud" /\ answer.position = BestCloud(catalog, task, cloud)
    BY <1>4 DEF Plan
  <2>4. QED
    BY <2>2, <2>3 DEF cloud
<1>5. CASE retry # {} /\ answer = Plan("fallback", First(retry))
  <2>1. retry \in SUBSET DOMAIN catalog.local
    BY DEF Fallback
  <2> HIDE DEF retry
  <2>2. First(retry) \in retry
    BY <1>1, <1>5, <2>1, RequestType, FirstIsMember
  <2>3. answer.kind = "fallback" /\ answer.position = First(retry)
    BY <1>5 DEF Plan
  <2>4. QED
    BY <2>2, <2>3 DEF retry
<1>6. CASE answer = NoFeasibleBackend
  BY <1>6 DEF NoFeasibleBackend, Plan
<1>7. QED
  BY <1>2, <1>3, <1>4, <1>5, <1>6, PlanCases

(* Only the first of the four branches can be taken when a local backend   *)
(* is preferred and feasible, and a refusal means that all have failed.    *)
LEMMA BranchOrder ==
    ASSUME RouterInv, answer # Unanswered
    PROVE  /\ slo.prefer_local /\ LocalFeasible(catalog, task, slo) # {} => answer.kind = "local"
           /\ answer = NoFeasibleBackend =>
                 /\ CloudFeasible(catalog, task, slo) = {}
                 /\ slo.prefer_local => LocalFeasible(catalog, task, slo) = {}
                 /\ ~slo.prefer_local => Fallback(catalog, task) = {}
<1>1. answer = NoFeasibleBackend => answer.kind \notin {"local", "cloud", "fallback"}
  BY DEF NoFeasibleBackend, Plan
<1>2. \A kind, i : Plan(kind, i).kind = kind
  BY DEF Plan
<1>3. QED
  BY <1>1, <1>2, PlanCases

(* The request stays, and the one answer is computed from it. *)
THEOREM RouterInvariant == RouterSpec => []RouterInv
<1>1. RouterInit => RouterInv
  BY DEF RouterInit, RouterInv, RequestOK
<1>2. RouterInv /\ [Execute]_routerVars => RouterInv'
  <2> SUFFICES ASSUME RouterInv, [Execute]_routerVars
               PROVE  RouterInv'
    OBVIOUS
  <2>1. request' = request
    BY DEF Execute, routerVars
  <2>2. catalog' = catalog /\ task' = task /\ slo' = slo
    BY <2>1 DEF catalog, task, slo
  <2>3. CASE Execute
    BY <2>1, <2>2, <2>3 DEF Execute, RouterInv, RequestOK, catalog, task, slo
  <2>4. CASE UNCHANGED routerVars
    BY <2>1, <2>2, <2>4 DEF routerVars, RouterInv, RequestOK
  <2>5. QED
    BY <2>3, <2>4
<1>3. QED
  BY <1>1, <1>2, PTL DEF RouterSpec

-----------------------------------------------------------------------------
(* No plan, the fallback included, asks a backend for more memory, context *)
(* or quality than it has: the VRAM-fit and Context-fit rules of plan, for *)
(* every catalog and every request.                                        *)
THEOREM PlansFit == RouterSpec => []NoPlanOverflows
<1>1. RouterInv => NoPlanOverflows
  <2> SUFFICES ASSUME RouterInv, OnLocal \/ OnCloud
               PROVE  CanRun(Chosen, OnLocal)
    BY DEF NoPlanOverflows
  <2>1. RequestOK
    BY DEF RouterInv
  <2>2. CASE OnLocal
    <3>1. answer.position \in Fallback(catalog, task)
      BY <2>2, ChosenBackend DEF OnLocal, LocalFeasible, Fallback
    <3>2. Chosen = catalog.local[answer.position] /\ OnLocal = TRUE
      BY <2>2 DEF Chosen, OnLocal
    <3>3. Chosen \in LocalBackends /\ FitsLocal(Chosen, task)
      BY <2>1, <3>1, <3>2, RequestType DEF Fallback
    <3>4. QED
      BY <2>1, <3>2, <3>3, LocalFits
  <2>3. CASE OnCloud
    <3>1. answer.position \in CloudFeasible(catalog, task, slo)
      BY <2>3, ChosenBackend DEF OnCloud
    <3>2. Chosen = catalog.cloud[answer.position] /\ OnLocal = FALSE
      BY <2>3 DEF Chosen, OnLocal, OnCloud
    <3>3. Chosen \in CloudBackends /\ Suits(Chosen, task)
      BY <2>1, <3>1, <3>2, RequestType DEF CloudFeasible
    <3>4. QED
      BY <2>1, <3>2, <3>3, CloudSuits
  <2>4. QED
    BY <2>2, <2>3
<1>2. QED
  BY <1>1, RouterInvariant, PTL

(* A plan that is not the fallback keeps every bound the caller gave.      *)
THEOREM PlansMeetSlo == RouterSpec => []RegularPlansMeetSlo
<1>1. RouterInv => RegularPlansMeetSlo
  <2> SUFFICES ASSUME RouterInv, answer.kind \in {"local", "cloud"}
               PROVE  Meets(Chosen, OnLocal)
    BY DEF RegularPlansMeetSlo
  <2>1. RequestOK
    BY DEF RouterInv
  <2>2. CASE answer.kind = "local"
    <3>1. answer.position \in LocalFeasible(catalog, task, slo)
      BY <2>2, ChosenBackend
    <3>2. Chosen = catalog.local[answer.position] /\ OnLocal = TRUE
      BY <2>2 DEF Chosen, OnLocal
    <3>3. Chosen \in LocalBackends /\ LocalWithinSlo(Chosen, task, slo)
      BY <2>1, <3>1, <3>2, RequestType DEF LocalFeasible
    <3>4. QED
      BY <2>1, <3>2, <3>3, LocalFilter
  <2>3. CASE answer.kind = "cloud"
    <3>1. answer.position \in CloudFeasible(catalog, task, slo)
      BY <2>3, ChosenBackend
    <3>2. Chosen = catalog.cloud[answer.position] /\ OnLocal = FALSE
      BY <2>3 DEF Chosen, OnLocal
    <3>3. Chosen \in CloudBackends /\ CloudWithinSlo(Chosen, task, slo)
      BY <2>1, <3>1, <3>2, RequestType DEF CloudFeasible
    <3>4. QED
      BY <2>1, <3>2, <3>3, CloudFilter
  <2>4. QED
    BY <2>2, <2>3
<1>2. QED
  BY <1>1, RouterInvariant, PTL

(* A refusal is right: no cloud backend does the task within the bounds,   *)
(* no local one either, and without a preference for local backends none   *)
(* has the memory and context for it at all.                               *)
THEOREM RefusalsRight == RouterSpec => []RefusalsAreRight
<1>1. RouterInv => RefusalsAreRight
  <2> SUFFICES ASSUME RouterInv, answer = NoFeasibleBackend
               PROVE  /\ \A b \in Local : CanRun(b, TRUE) => slo.prefer_local /\ ~Meets(b, TRUE)
                      /\ \A b \in Cloud : CanRun(b, FALSE) => ~Meets(b, FALSE)
    BY DEF RefusalsAreRight
  <2>1. RequestOK /\ slo.prefer_local \in BOOLEAN
    BY RequestType DEF RouterInv, SloPolicy
  <2>2. answer # Unanswered
    BY DEF NoFeasibleBackend, Unanswered, Plan
  <2>3. /\ CloudFeasible(catalog, task, slo) = {}
        /\ slo.prefer_local => LocalFeasible(catalog, task, slo) = {}
        /\ ~slo.prefer_local => Fallback(catalog, task) = {}
    BY <2>2, BranchOrder
  <2>4. ASSUME NEW b \in Local, CanRun(b, TRUE)
        PROVE  slo.prefer_local /\ ~Meets(b, TRUE)
    <3>1. PICK i \in DOMAIN catalog.local : b = catalog.local[i]
      BY <2>4 DEF Local
    <3>2. b \in LocalBackends
      BY <2>1, <3>1, RequestType
    <3>3. FitsLocal(b, task)
      BY <2>1, <2>4, <3>2, LocalFits
    <3>4. slo.prefer_local
      BY <2>1, <2>3, <3>1, <3>3 DEF Fallback
    <3>5. ~LocalWithinSlo(b, task, slo)
      BY <2>3, <3>1, <3>3, <3>4 DEF LocalFeasible
    <3>6. QED
      BY <2>1, <3>2, <3>4, <3>5, LocalFilter
  <2>5. ASSUME NEW b \in Cloud, CanRun(b, FALSE)
        PROVE  ~Meets(b, FALSE)
    <3>1. PICK i \in DOMAIN catalog.cloud : b = catalog.cloud[i]
      BY <2>5 DEF Cloud
    <3>2. b \in CloudBackends
      BY <2>1, <3>1, RequestType
    <3>3. Suits(b, task)
      BY <2>1, <2>5, <3>2, CloudSuits
    <3>4. ~CloudWithinSlo(b, task, slo)
      BY <2>3, <3>1, <3>3 DEF CloudFeasible
    <3>5. QED
      BY <2>1, <3>2, <3>4, CloudFilter
  <2>6. QED
    BY <2>4, <2>5
<1>2. QED
  BY <1>1, RouterInvariant, PTL

(* A caller that prefers local backends gets one whenever one can do the   *)
(* task within the bounds, and none of those is of a higher quality.       *)
THEOREM LocalFirst == RouterSpec => []LocalFirstAndBest
<1>1. RouterInv => LocalFirstAndBest
  <2> SUFFICES ASSUME RouterInv, slo.prefer_local, answer # Unanswered,
                      NEW b \in Local, CanRun(b, TRUE), Meets(b, TRUE)
               PROVE  answer.kind = "local" /\ b.quality <= Chosen.quality
    BY DEF LocalFirstAndBest
  <2>1. RequestOK
    BY DEF RouterInv
  <2>2. PICK i \in DOMAIN catalog.local : b = catalog.local[i]
    BY DEF Local
  <2>3. b \in LocalBackends
    BY <2>1, <2>2, RequestType
  <2>4. i \in LocalFeasible(catalog, task, slo)
    BY <2>1, <2>2, <2>3, LocalFits, LocalFilter DEF LocalFeasible
  <2>5. answer.kind = "local"
    BY <2>4, BranchOrder
  <2>6. Chosen = catalog.local[answer.position]
    BY <2>5 DEF Chosen, OnLocal
  <2>7. QED
    BY <2>2, <2>4, <2>5, <2>6, ChosenBackend
<1>2. QED
  BY <1>1, RouterInvariant, PTL
=============================================================================
