------------------------------ MODULE Scheduler ------------------------------
(***************************************************************************)
(* Placement of a node on a runner (internal/scheduler): the hard          *)
(* constraints, the weighted score, and the linear scan that keeps the     *)
(* better of two runners.  Scores are in units of 1e-4; the order in which *)
(* a Go map is summed moves a total by at most one unit of noise, and the  *)
(* comparison treats totals within eps as equal.                           *)
(***************************************************************************)
EXTENDS Integers, Sequences, FiniteSets

CONSTANTS
    SRunner,   \* the runners a pool is made of: records
    SWork,     \* the works: records with the requirements of their node
    MaxPool    \* bound: runners in a pool

VARIABLES
    sPool,     \* the slice of runners Select is called with
    sWork      \* the work it is called for

schedulerVars == <<sPool, sWork>>

\* What the scheduler reads of a runner besides its identity; the API fills none of it in.
Unsignalled == [queue |-> 0, util |-> 0, cost |-> 0, success |-> 0, hits |-> 0, region |-> "", noise |-> 0]

TrustRank(t) == CASE t = "privileged" -> 3 [] t = "standard" -> 2 [] t = "untrusted" -> 1 [] OTHER -> 0

\* An empty tier of the work is no floor.
trustMeets(runnerTrust, workTrust) == workTrust = "" \/ TrustRank(runnerTrust) >= TrustRank(workTrust)

runnerHasNetwork(r) == r.labels \cap {"network:enabled", "network:on"} # {} \/ r.netTools

\* The hard constraints in the order in which they are tried, each with the code of its rejection.
Constraints(r, w) ==
    << <<"lifecycle_not_active", r.life \in {"active", ""}>>,
       <<"os_mismatch", w.os = "" \/ w.os \in r.os>>,
       <<"cpu_insufficient", w.cpu = 0 \/ r.cpu >= w.cpu>>,
       <<"network_blocked", ~w.egress \/ runnerHasNetwork(r)>>,
       <<"trust_insufficient", trustMeets(r.trust, w.trust)>>,
       <<"tenant_mismatch", w.tenant = "" \/ r.tenant = "" \/ r.tenant = w.tenant>>,
       <<"pool_mismatch", w.pool = "" \/ w.pool \in r.pools>>,
       <<"production_requires_privileged", ~w.prod \/ r.trust = "privileged">> >>

\* "" when the runner passes, else the code of the first constraint it breaks.
hardFilter(r, w) ==
    LET broken == {i \in 1..8 : ~Constraints(r, w)[i][2]}
    IN  IF broken = {} THEN "" ELSE Constraints(r, w)[CHOOSE i \in broken : \A j \in broken : i <= j][1]

AtMost(x, n) == IF x < n THEN x ELSE n
clamp01(x) == IF x < 0 THEN 0 ELSE AtMost(x, 1000)

\* The signals, in thousandths.
cacheLocality(r, w) ==
    IF ~w.cache THEN 500 ELSE IF r.hits = 0 THEN 200 ELSE clamp01(500 + 100 * AtMost(r.hits, 5))

queuePressure(r) == clamp01(1000 - 100 * r.queue)

costScore(r, w) ==
    LET ceiling == IF w.maxCost > 0 THEN w.maxCost ELSE 1000
    IN  IF r.cost <= 0 THEN 700 ELSE IF r.cost >= ceiling THEN 500 ELSE clamp01(1000 - (1000 * r.cost) \div ceiling)

networkProximity(r, w) ==
    IF w.region = "" THEN IF "network:low_latency" \in r.labels THEN 1000 ELSE 500
    ELSE IF r.region = "" THEN 500 ELSE IF r.region = w.region THEN 1000 ELSE 0

\* The weighted sum, without the noise of its evaluation.
Score(r, w) ==
    (20 * cacheLocality(r, w) + 5 * 500 + 20 * queuePressure(r) + 15 * (1000 - clamp01(r.util))
     + 15 * costScore(r, w) + 10 * networkProximity(r, w) + 15 * clamp01(r.success)) \div 10

softScore(r, w) == Score(r, w) + r.noise

\* Faulty variant of eps: totals are compared exactly.
ExactTotals == 0

eps == 2

AbsDiff(a, b) == IF a >= b THEN a - b ELSE b - a

\* Identifiers are compared as strings; here a runner's id is its rank in that order.
runnerLess(a, b, w) ==
    LET ta == softScore(a, w)  tb == softScore(b, w)
    IN  IF AbsDiff(ta, tb) > eps THEN ta > tb
        ELSE IF a.queue # b.queue THEN a.queue < b.queue
        ELSE IF a.success # b.success THEN a.success > b.success
        ELSE a.id < b.id

NobodySelected == [id |-> 0]

\* Select: the runner chosen, how many were eligible, and the tally of rejections.
Select(pool, w) ==
    LET eligible == SelectSeq(pool, LAMBDA r : hardFilter(r, w) = "")
        codes == {hardFilter(pool[i], w) : i \in DOMAIN pool} \ {""}
        best[i \in DOMAIN eligible] == IF i > 1 /\ ~runnerLess(eligible[i], best[i - 1], w) THEN best[i - 1] ELSE eligible[i]
    IN  [selected |-> IF eligible = <<>> THEN NobodySelected ELSE best[Len(eligible)],
         eligible |-> Len(eligible),
         rejected |-> [c \in codes |-> Cardinality({i \in DOMAIN pool : hardFilter(pool[i], w) = c})]]

SchedulerInit == sPool = <<>> /\ sWork \in SWork

\* List hands out the registered runners in no particular order.
ListRunner(r) ==
    /\ Len(sPool) < MaxPool
    /\ \A i \in DOMAIN sPool : sPool[i].id # r.id
    /\ sPool' = Append(sPool, r)
    /\ UNCHANGED sWork

SchedulerNext == \E r \in SRunner : ListRunner(r)

-----------------------------------------------------------------------------
(* What Select promises. *)

\* Better by the noiseless totals, then the shorter queue, the higher success rate, the smaller id.
Preferred(a, b, w) ==
    \/ Score(a, w) > Score(b, w)
    \/ Score(a, w) = Score(b, w) /\ a.queue < b.queue
    \/ Score(a, w) = Score(b, w) /\ a.queue = b.queue /\ a.success > b.success
    \/ Score(a, w) = Score(b, w) /\ a.queue = b.queue /\ a.success = b.success /\ a.id < b.id

\* Whatever order the registry lists its runners in and however the totals were rounded, Select chooses
\* the one eligible runner preferred to all others, when totals that differ at all differ by more than
\* the noise.
SelectIgnoresOrder ==
    LET fit == {sPool[i] : i \in {j \in DOMAIN sPool : hardFilter(sPool[j], sWork) = ""}}
    IN  fit # {} => /\ Select(sPool, sWork).selected \in fit
                    /\ \A r \in fit \ {Select(sPool, sWork).selected} :
                          Preferred(Select(sPool, sWork).selected, r, sWork)

=============================================================================
