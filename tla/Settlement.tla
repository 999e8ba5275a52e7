----------------------------- MODULE Settlement -----------------------------
(***************************************************************************)
(* The settlement and evidence algorithms of internal/economic.  They are  *)
(* loops over lists, so their answers could depend on the order, on        *)
(* duplicates and on what an earlier entry left behind: each is translated *)
(* as the loop it is, and what it answers when all is well, and when it    *)
(* refuses, is compared with a definition that has no order.               *)
(* The lists grow one entry at a time, in every order.                     *)
(*                                                                         *)
(* An entry carries its flaw, the first group of checks it fails, in place *)
(* of the fields that are compared; "none" is an entry that passes.        *)
(***************************************************************************)
EXTENDS Naturals, Sequences, FiniteSets
LOCAL INSTANCE SequencesExt

CONSTANTS Legs,            \* the legs of a transaction: an asset leg, a cash leg and others
          EvidenceHash,    \* the evidence hashes of receipts
          MaxReceipts,     \* bound: receipts of a transaction
          LegCount,        \* the legs of a settlement that is simulated
          NowUnix, MaxAge, MaxSkew, MaxFutureSkew,    \* EvidenceCoherencePolicy
          ObservedAt       \* the observation times that are tried

ASSUME SettlementAssumption ==
    /\ Cardinality(Legs) >= 2 /\ MaxReceipts \in Nat /\ LegCount \in Nat \ {0, 1}
    /\ NowUnix \in Nat \ {0} /\ MaxAge \in Nat \ {0} /\ MaxSkew \in Nat /\ MaxFutureSkew \in Nat
    /\ ObservedAt \subseteq Nat

VARIABLES railReceipts,    \* of the rails, for one transaction
          legs,            \* the outcomes of the legs of a settlement, in order
          compensations,   \* the compensation steps, in order
          observations,    \* of the sources of a right
          records          \* the registry, custody and ledger records of a right

settlementVars == <<railReceipts, legs, compensations, observations, records>>

Receipt == [leg : Legs \cup {"unexpected"}, evidence : EvidenceHash,
            flaw : {"none", "unusable", "no_evidence", "mismatch"}]
LegOutcome == {"READY", "LOCKED", "COMMITTED", "FAILED", "UNKNOWN"}
Compensation == [leg : 1..LegCount, outcome : {"READY", "APPLIED", "FAILED", "UNKNOWN"}]

SourceClass == <<"registry", "custody", "representation">>
Classes == {SourceClass[i] : i \in 1..3}
\* An observation; its evidence is its own, or one that others have too.
Observation == [class : Classes, evidence : {"own"}, at : ObservedAt, replayed : BOOLEAN]
               \cup [class : Classes, evidence : {"shared"}, at : ObservedAt, replayed : {FALSE}]
               \cup [class : {"unsupported"}, evidence : {"own"}, at : {NowUnix}, replayed : {FALSE}]
RightRecord == [flaw : {"none", "identity", "mismatch", "inactive", "overclaim"}, evidence : {"none", "e1", "e2", "e3"}]

SettlementInit ==
    /\ railReceipts = <<>> /\ legs = <<>> /\ compensations = <<>> /\ observations = <<>> /\ records = <<>>

-----------------------------------------------------------------------------
(***************************************************************************)
(* CorrelateSettlementReceipts: one obligation per leg.                    *)
(***************************************************************************)

\* The body of the loop: what a receipt that is not used leaves in the maps of the legs
\* and of the evidence that were seen depends on how far it got.
CorrelateReceipt(acc, r) ==
    LET uncertain == [acc EXCEPT !.state = "UNCERTAIN"]
        legSeen == [uncertain EXCEPT !.legs = @ \cup {r.leg}]
        seen == [legSeen EXCEPT !.evidence = @ \cup {r.evidence}]
    IN CASE r.flaw = "unusable" \/ r.leg \notin Legs \/ r.leg \in acc.legs -> uncertain
         [] ~(r.flaw = "unusable" \/ r.leg \notin Legs \/ r.leg \in acc.legs)
            /\ (r.flaw = "no_evidence" \/ r.evidence \in acc.evidence) -> legSeen
         [] OTHER -> IF r.flaw = "mismatch" THEN seen
                     ELSE [seen EXCEPT !.state = acc.state, !.matched = @ \cup {r.leg}]

CorrelateSettlementReceipts(rs) ==
    LET acc == FoldLeft(CorrelateReceipt, [state |-> "CORRELATED", legs |-> {}, evidence |-> {}, matched |-> {}], rs)
    IN [state |-> IF acc.legs = Legs THEN acc.state ELSE "UNCERTAIN", matched |-> acc.matched]

AddReceipt(r) ==
    /\ Len(railReceipts) < MaxReceipts /\ railReceipts' = Append(railReceipts, r)
    /\ UNCHANGED <<legs, compensations, observations, records>>

-----------------------------------------------------------------------------
(***************************************************************************)
(* SimulateAtomicSettlement and SimulateSettlementRecovery.                *)
(***************************************************************************)

SimulateLeg(state, outcome) ==
    CASE outcome = "UNKNOWN" -> "UNCERTAIN"
      [] outcome = "FAILED" -> IF state = "UNCERTAIN" THEN state ELSE "ABORTED"
      [] outcome = "COMMITTED" -> state
      [] OTHER -> IF state \in {"UNCERTAIN", "ABORTED"} THEN state ELSE "NOT_COMMITTED"

SimulateAtomicSettlement(ls) ==
    IF \A i \in DOMAIN ls : ls[i] = "COMMITTED" THEN "SIMULATED_COMMIT"
    ELSE FoldLeft(SimulateLeg, "SIMULATED", ls)

Committed(ls) == {i \in DOMAIN ls : ls[i] = "COMMITTED"}

\* The body of the loop over the compensations: the last finding is the state, a second
\* step for a leg and a step for a leg that did not commit end it with an error.
Compensate(committed, acc, c) ==
    IF acc.state = "ERROR" \/ c.leg \in acc.seen \/ c.leg \notin committed THEN [acc EXCEPT !.state = "ERROR"]
    ELSE [seen |-> acc.seen \cup {c.leg},
          state |-> CASE c.outcome = "APPLIED" -> acc.state
                      [] c.outcome = "READY" -> "COMPENSATION_REQUIRED"
                      [] c.outcome = "FAILED" -> "COMPENSATION_FAILED"
                      [] OTHER -> "RECONCILIATION_REQUIRED"]

\* Faulty variant of Recovered: a leg without a compensation step is not looked for.
RecoveredAll(committed, acc) ==
    IF acc.state = "NO_RECOVERY_REQUIRED" THEN "SIMULATED_COMPENSATED" ELSE acc.state

\* After the loop: a committed leg without a step needs one.
Recovered(committed, acc) ==
    CASE acc.state = "ERROR" -> "ERROR"
      [] acc.state # "ERROR" /\ committed # acc.seen -> "COMPENSATION_REQUIRED"
      [] OTHER -> IF acc.state = "NO_RECOVERY_REQUIRED" THEN "SIMULATED_COMPENSATED" ELSE acc.state

\* Without the kill switch and the revoked approval, which end it before it looks.
SimulateSettlementRecovery(ls, cs) ==
    LET outcomes == {ls[i] : i \in DOMAIN ls}
    IN CASE "UNKNOWN" \in outcomes -> "RECONCILIATION_REQUIRED"
         [] "UNKNOWN" \notin outcomes /\ "FAILED" \notin outcomes -> "NO_RECOVERY_REQUIRED"
         [] "UNKNOWN" \notin outcomes /\ "FAILED" \in outcomes /\ Committed(ls) = {} -> "ABORTED_NO_COMPENSATION_REQUIRED"
         [] OTHER -> Recovered(Committed(ls),
                               FoldLeft(LAMBDA acc, c : Compensate(Committed(ls), acc, c),
                                        [seen |-> {}, state |-> "NO_RECOVERY_REQUIRED"], cs))

AddLeg(o) ==
    /\ Len(legs) < LegCount /\ compensations = <<>> /\ legs' = Append(legs, o)
    /\ UNCHANGED <<railReceipts, compensations, observations, records>>

\* Steps are only looked at when a leg failed and none is unknown.
AddCompensation(c) ==
    /\ Len(legs) = LegCount /\ Len(compensations) < LegCount
    /\ "FAILED" \in {legs[i] : i \in DOMAIN legs} /\ "UNKNOWN" \notin {legs[i] : i \in DOMAIN legs}
    /\ compensations' = Append(compensations, c)
    /\ UNCHANGED <<railReceipts, legs, observations, records>>

-----------------------------------------------------------------------------
(***************************************************************************)
(* EvaluateEvidenceCoherence and ReconcileLegalAssetRight.                 *)
(***************************************************************************)

\* A time that is missing, too far ahead or too old.
TimeFlaw(o) ==
    o.at = 0 \/ o.at > NowUnix + MaxFutureSkew \/ (o.at <= NowUnix /\ NowUnix - o.at > MaxAge)

Hash(o) == IF o.evidence = "own" THEN o.class ELSE "shared"

\* The body of the loop: the first observation of a class counts, also for the evidence
\* and the times; a time of zero does not enter oldest and newest.
Observe(acc, o) ==
    IF o.class \notin Classes \/ o.class \in acc.classes THEN [acc EXCEPT !.refresh = TRUE]
    ELSE [classes |-> acc.classes \cup {o.class},
          evidence |-> acc.evidence \cup {Hash(o)},
          times |-> acc.times \cup ({o.at} \ {0}),
          refresh |-> acc.refresh \/ Hash(o) \in acc.evidence \/ o.replayed \/ TimeFlaw(o)]

EvaluateEvidenceCoherence(os) ==
    LET acc == FoldLeft(Observe, [classes |-> {}, evidence |-> {}, times |-> {}, refresh |-> FALSE], os)
        skewed == \E s, t \in acc.times : s + MaxSkew < t
    IN IF acc.refresh \/ acc.classes # Classes \/ skewed THEN "EVIDENCE_REFRESH_REQUIRED" ELSE "TEMPORALLY_COHERENT"

AddObservation(o) ==
    /\ Len(observations) < 3 /\ observations' = Append(observations, o)
    /\ UNCHANGED <<railReceipts, legs, compensations, records>>

\* The three records in their order; an evidence hash that a record used before is a
\* failure, an invalid one is a failure and is not remembered.
ReconcileLegalAssetRight(rs) ==
    LET acc == FoldLeft(LAMBDA a, r : [seen |-> a.seen \cup ({r.evidence} \ {"none"}),
                                       ok |-> a.ok /\ r.flaw = "none" /\ r.evidence # "none"
                                                   /\ r.evidence \notin a.seen],
                        [seen |-> {}, ok |-> TRUE], rs)
    IN IF acc.ok THEN "LEGAL_RIGHT_ALIGNED" ELSE "LEGAL_RECONCILIATION_REQUIRED"

AddRecord(r) ==
    /\ Len(records) < 3 /\ records' = Append(records, r)
    /\ UNCHANGED <<railReceipts, legs, compensations, observations>>

CorrelationNext == \E r \in Receipt : AddReceipt(r)
RecoveryNext == (\E o \in LegOutcome : AddLeg(o)) \/ (\E c \in Compensation : AddCompensation(c))
CoherenceNext == \E o \in Observation : AddObservation(o)
LegalNext == \E r \in RightRecord : AddRecord(r)

-----------------------------------------------------------------------------
\* A transaction is correlated exactly when every leg has one receipt, without a flaw and
\* with evidence of its own, and there is no other receipt: in whatever order they came.
CorrelatedIsExact ==
    CorrelateSettlementReceipts(railReceipts).state = "CORRELATED" <=>
        /\ {railReceipts[i].leg : i \in DOMAIN railReceipts} = Legs
        /\ Len(railReceipts) = Cardinality(Legs)
        /\ \A i \in DOMAIN railReceipts : railReceipts[i].flaw = "none"
        /\ \A i, j \in DOMAIN railReceipts : i # j => railReceipts[i].evidence # railReceipts[j].evidence

\* The simulation and the recovery of the same legs agree: a commit needs no recovery,
\* an outcome nobody knows is reconciled, and only a failure is compensated for.
SimulationAndRecoveryAgree ==
    LET sim == SimulateAtomicSettlement(legs)
        rec == SimulateSettlementRecovery(legs, compensations)
    IN Len(legs) = LegCount =>
         /\ sim = "SIMULATED_COMMIT" => rec = "NO_RECOVERY_REQUIRED"
         /\ sim = "UNCERTAIN" => rec = "RECONCILIATION_REQUIRED"
         /\ sim = "NOT_COMMITTED" => rec = "NO_RECOVERY_REQUIRED"
         /\ sim = "ABORTED" => /\ rec # "NO_RECOVERY_REQUIRED"
                               /\ compensations = <<>> => rec # "RECONCILIATION_REQUIRED"

\* A failed settlement counts as compensated exactly when every leg that committed has one
\* compensation, which was applied.
CompensatedIsComplete ==
    Len(legs) = LegCount =>
        (SimulateSettlementRecovery(legs, compensations) = "SIMULATED_COMPENSATED" <=>
            /\ "FAILED" \in {legs[i] : i \in DOMAIN legs} /\ "UNKNOWN" \notin {legs[i] : i \in DOMAIN legs}
            /\ Committed(legs) # {} /\ Len(compensations) = Cardinality(Committed(legs))
            /\ {compensations[i].leg : i \in DOMAIN compensations} = Committed(legs)
            /\ \A i \in DOMAIN compensations : compensations[i].outcome = "APPLIED")

\* The recovery of a failed settlement is refused exactly when some step is for a leg that
\* did not commit or is the second one of its leg, wherever it stands in the list; and the
\* state that is reported otherwise is one that some leg or some step gives reason for.
RecoveryHasReason ==
    LET rec == SimulateSettlementRecovery(legs, compensations)
        steps == DOMAIN compensations
        found(o) == \E i \in steps : compensations[i].outcome = o
    IN Len(legs) = LegCount /\ "FAILED" \in Range(legs) /\ "UNKNOWN" \notin Range(legs) /\ Committed(legs) # {} =>
         /\ rec = "ERROR" <=> \/ \E i \in steps : compensations[i].leg \notin Committed(legs)
                             \/ \E i, j \in steps : i # j /\ compensations[i].leg = compensations[j].leg
         /\ rec = "RECONCILIATION_REQUIRED" => found("UNKNOWN")
         /\ rec = "COMPENSATION_FAILED" => found("FAILED")
         /\ rec = "COMPENSATION_REQUIRED" =>
              found("READY") \/ {compensations[i].leg : i \in steps} # Committed(legs)

\* The evidence of a right is coherent exactly when each source was observed once, with
\* evidence of its own and a new generation, and all times lie within the windows.
CoherentIsExact ==
    EvaluateEvidenceCoherence(observations) = "TEMPORALLY_COHERENT" <=>
        /\ Len(observations) = 3 /\ {observations[i].class : i \in 1..3} = Classes
        /\ \A i \in 1..3 :
             /\ ~observations[i].replayed
             /\ observations[i].at > 0 /\ observations[i].at <= NowUnix + MaxFutureSkew
             /\ observations[i].at + MaxAge >= NowUnix
             /\ \A j \in 1..3 : /\ observations[i].at <= observations[j].at + MaxSkew
                                /\ i # j => Hash(observations[i]) # Hash(observations[j])

\* A right is aligned exactly when its three records have no flaw and three evidences.
AlignedIsExact ==
    Len(records) = 3 =>
        (ReconcileLegalAssetRight(records) = "LEGAL_RIGHT_ALIGNED" <=>
            /\ \A i \in 1..3 : records[i].flaw = "none"
            /\ {records[i].evidence : i \in 1..3} = {"e1", "e2", "e3"})

\* The good answer of each loop (correlated, compensated, coherent, aligned) and its refusal
\* are earned by the entries, in whatever order they come, twice or in contradiction; and
\* the simulation and the recovery of the same legs agree.
VerdictsAreEarned ==
    /\ CorrelatedIsExact /\ SimulationAndRecoveryAgree /\ CompensatedIsComplete /\ RecoveryHasReason
    /\ CoherentIsExact /\ AlignedIsExact

(***************************************************************************)
(* Not so (the README discusses it): the whole answer is independent of    *)
(* the order.  Of several findings about the compensations the last one is *)
(* the state, and the legs that are matched in an uncertain transaction    *)
(* depend on which receipt of a leg, or of an evidence, came first.        *)
(***************************************************************************)
=============================================================================
