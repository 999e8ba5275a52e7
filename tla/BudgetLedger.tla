----------------------------- MODULE BudgetLedger -----------------------------
(***************************************************************************)
(* A mission's budget: the ledger and its clock (packages/workgraph:       *)
(* BudgetLedger) and the settlement of a ledger against a quittance        *)
(* (packages/billing: Settle).  Charges and bills are not negative.        *)
(* Amounts are float64: they are counted here in a unit so small that each *)
(* of them is a whole number of units, and every sum is rounded.           *)
(***************************************************************************)
EXTENDS Integers

CONSTANTS
    Ceilings,     \* the committed compute ceilings
    Charge,       \* the amounts usage is metered in
    Ulp,          \* the most a sum is rounded by
    Tol,          \* the tolerance of CanReserve, 1e-9
    MaxCharges    \* bound: charges, reservations and bills

ASSUME BudgetAssumption ==
    Ceilings \subseteq Nat /\ Charge \subseteq Nat /\ Ulp \in Nat /\ Tol \in Nat /\ MaxCharges \in Nat

VARIABLES
    bLedger,     \* the BudgetLedger; its late bills as their sum
    bUsed,       \* ghost: what was used while the clock ran
    bErr,        \* ghost: how far the roundings of what was metered can have added up
    bSettled,    \* the last Settlement, or NoSettlement
    bCharges

budgetVars == <<bLedger, bUsed, bErr, bSettled, bCharges>>

Clock == {"RUNNING", "PAUSED_WAITING_HUMAN", "STOPPED"}
NoSettlement == [consumed |-> 0, stop |-> "unsettled", clock |-> "STOPPED", late |-> 0, used |-> 0, err |-> 0]

BudgetInit ==
    /\ \E c \in Ceilings :
         bLedger = [ceiling |-> c, reserved |-> 0, consumed |-> 0, clock |-> "RUNNING", stop |-> "none", late |-> 0]
    /\ bUsed = 0 /\ bErr = 0 /\ bSettled = NoSettlement /\ bCharges = 0

Charged == bCharges < MaxCharges /\ bCharges' = bCharges + 1

\* The float64 sums of a and d.  Rounding moves a sum by Ulp at most, and never past a
\* number that is itself a float64, as a, d and the ceiling are.
Rounded(a, d) ==
    {t \in (a + d - Ulp)..(a + d + Ulp) :
        \A f \in {a, d, bLedger.ceiling} : (a + d >= f => t >= f) /\ (a + d <= f => t <= f)}

\* CanReserve, and the reservation a caller makes after it.
Reserve(d) ==
    /\ Charged
    /\ \E total \in Rounded(bLedger.reserved, d), limit \in Rounded(bLedger.ceiling, Tol) :
         /\ total <= limit
         /\ bLedger' = [bLedger EXCEPT !.reserved = total]
    /\ UNCHANGED <<bUsed, bErr, bSettled>>

\* Faulty variant of Reached: the charge that spends the budget to the last cent does not stop the clock.
Overrun(total) == total > bLedger.ceiling

\* The charge that reaches the ceiling stops the clock.
Reached(total) == total >= bLedger.ceiling

Meters == bLedger.clock = "RUNNING"

Metered(d) ==
    \E total \in Rounded(bLedger.consumed, d) :
        bLedger' = IF Reached(total)
                   THEN [bLedger EXCEPT !.consumed = bLedger.ceiling, !.clock = "STOPPED", !.stop = "compute"]
                   ELSE [bLedger EXCEPT !.consumed = total]

Consume(d) ==
    /\ Charged
    /\ IF Meters THEN Metered(d) ELSE UNCHANGED bLedger
    /\ IF bLedger.clock = "RUNNING" THEN bUsed' = bUsed + d /\ bErr' = bErr + Ulp ELSE UNCHANGED <<bUsed, bErr>>
    /\ UNCHANGED bSettled

PauseClock ==
    /\ bLedger.clock = "RUNNING"
    /\ bLedger' = [bLedger EXCEPT !.clock = "PAUSED_WAITING_HUMAN"]
    /\ UNCHANGED <<bUsed, bErr, bSettled, bCharges>>

ResumeClock ==
    /\ bLedger.clock = "PAUSED_WAITING_HUMAN"
    /\ bLedger' = [bLedger EXCEPT !.clock = "RUNNING"]
    /\ UNCHANGED <<bUsed, bErr, bSettled, bCharges>>

RecordLateBill(d) ==
    /\ Charged
    /\ \E total \in Rounded(bLedger.late, d) : bLedger' = [bLedger EXCEPT !.late = total]
    /\ UNCHANGED <<bUsed, bErr, bSettled>>

Overspent == bLedger.consumed > bLedger.ceiling

\* Settle: only while nothing meters; the quittance is for this work and carries a digest.
Settle ==
    /\ bLedger.clock \in {"STOPPED", "PAUSED_WAITING_HUMAN"}
    /\ bSettled' = [consumed |-> IF Overspent THEN bLedger.ceiling ELSE bLedger.consumed,
                    stop |-> IF Overspent THEN "compute" ELSE bLedger.stop,
                    clock |-> bLedger.clock, late |-> bLedger.late, used |-> bUsed, err |-> bErr]
    /\ UNCHANGED <<bLedger, bUsed, bErr, bCharges>>

BudgetNext ==
    \/ \E d \in Charge : Reserve(d) \/ Consume(d) \/ RecordLateBill(d)
    \/ PauseClock \/ ResumeClock \/ Settle

BudgetSpec == BudgetInit /\ [][BudgetNext]_budgetVars

BudgetTypeOK ==
    /\ bLedger \in [ceiling : Ceilings, reserved : Nat, consumed : Nat, clock : Clock, stop : {"none", "compute"},
                    late : Nat]
    /\ bSettled \in [consumed : Nat, stop : {"none", "compute", "unsettled"}, clock : Clock, late : Nat, used : Nat,
                     err : Nat]
    /\ bUsed \in Nat /\ bErr \in Nat /\ bCharges \in Nat

-----------------------------------------------------------------------------
(* What a mission's operator pays for. *)

\* The numbers a and b are at most e apart.
Within(a, b, e) == a <= b + e /\ b <= a + e

\* The ledger never charges past the ceiling.  As long as the clock is not stopped it has charged what was
\* used while the clock ran, up to the roundings of the charges so far, and something of the budget is
\* left; it is stopped exactly by a charge that reached the ceiling, again up to those roundings, and
\* then for good: pauses, approvals and late bills neither add to it nor set a spent budget going again.
\* More than the roundings it cannot be: ten charges of 0.1 sum to 0.9999999999999999, and a ceiling of
\* 1.0 does not stop the clock at the tenth.
MeteredWithinRounding ==
    /\ bLedger.consumed <= bLedger.ceiling
    /\ bLedger.clock = "STOPPED" <=> bLedger.stop = "compute"
    /\ IF bLedger.stop = "compute"
       THEN bLedger.consumed = bLedger.ceiling /\ bUsed + bErr >= bLedger.ceiling
       ELSE /\ Within(bLedger.consumed, bUsed, bErr)
            /\ bUsed > 0 => bLedger.consumed < bLedger.ceiling

\* A settlement charges what was used when it was made, up to the roundings of the charges, and never more
\* than the ceiling, whatever providers billed late.
SettlementIsClamped ==
    bSettled.stop # "unsettled" =>
        /\ bSettled.consumed <= bLedger.ceiling
        /\ IF bSettled.stop = "compute"
           THEN bSettled.consumed = bLedger.ceiling /\ bSettled.used + bSettled.err >= bLedger.ceiling
           ELSE Within(bSettled.consumed, bSettled.used, bSettled.err)

=============================================================================
