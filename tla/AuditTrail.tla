----------------------------- MODULE AuditTrail -----------------------------
(***************************************************************************)
(* The audit table (services/audit/cloud_events.go) and the reliability    *)
(* report read from it (reliability_telemetry.go).  A moment is a second   *)
(* and the digits of its fraction; the table keeps it as text, with the    *)
(* trailing zeros of the fraction dropped, and compares it as text.        *)
(***************************************************************************)
EXTENDS Naturals, Integers, Sequences, FiniteSets
LOCAL INSTANCE SequencesExt

CONSTANTS
    AMoment,       \* moments of events: [s, f], f the digits of the fraction without trailing zeros
    ADur,          \* durations of replays
    AWindow,       \* windows a report is asked for: [since, until]
    PageMax, PageDefault,    \* the largest page, and the page of a limit that is refused
    MaxRows        \* bound: rows

VARIABLE auditRows     \* work_audit_events: rows with pairwise distinct moments

auditVars == <<auditRows>>

Outcome == {"recovered", "conflict", "failure"}

\* The order of sequences of numbers.
Lex(a, b) ==
    \E i \in 1..Len(b) :
        /\ \A j \in 1..(i - 1) : j <= Len(a) /\ a[j] = b[j]
        /\ i > Len(a) \/ (i <= Len(a) /\ a[i] < b[i])

\* Faulty variant of Text: only the fraction is looked at.
TextOfFraction(m) == m.f

\* Format(RFC3339Nano), as its characters compare: a fraction opens with a point, which is below the
\* digits, and the text ends with a Z, which is above them.
Text(m) == <<m.s>> \o (IF m.f = <<>> THEN <<>> ELSE <<-1>> \o m.f) \o <<10>>

AtOrAfter(a, b) == ~Lex(Text(a), Text(b))

PageSize(limit) == IF limit <= 0 \/ limit > PageMax THEN PageDefault ELSE limit

\* The page of a query: the matching rows in the order of their text, cut to size.
Query(since, until, type, limit) ==
    LET rows == {r \in auditRows : AtOrAfter(r.at, since) /\ AtOrAfter(until, r.at) /\ r.type = type}
        page == SetToSortSeq(rows, LAMBDA a, b : Lex(Text(a.at), Text(b.at)))
    IN  SubSeq(page, 1, IF Len(page) < PageSize(limit) THEN Len(page) ELSE PageSize(limit))

AuditInit == auditRows = {}

\* Emit: one row.  A failed insert is logged, and the operation that was audited goes on without it.
Emit_(row) ==
    /\ Cardinality(auditRows) < MaxRows
    /\ \A r \in auditRows : r.at # row.at
    /\ auditRows' = auditRows \cup {row}

\* A Work moved (TransitionWork, CreateWork).
StateChanged(m) == Emit_([at |-> m, type |-> "state", outcome |-> "none", dur |-> 0])

\* An idempotent replay was answered.
recordReliabilityReplay(m, outcome, dur) == Emit_([at |-> m, type |-> "replay", outcome |-> outcome, dur |-> dur])

AuditNext ==
    \E m \in AMoment : \/ StateChanged(m)
                       \/ \E o \in Outcome, d \in ADur : recordReliabilityReplay(m, o, d)

-----------------------------------------------------------------------------
(* The report. *)

\* p in percent; the rank is rounded up.
percentileNearestRank(sorted, p) ==
    LET rank == (p * Len(sorted) + 99) \div 100
    IN  sorted[IF rank < 1 THEN 1 ELSE IF rank > Len(sorted) THEN Len(sorted) ELSE rank]

reliabilityHandler(w) ==
    LET page == Query(w.since, w.until, "replay", PageMax)
        durations == SortSeq([i \in 1..Len(page) |-> page[i].dur], <)
        counted(o) == Cardinality({i \in 1..Len(page) : page[i].outcome = o})
    IN  [truncated |-> Len(page) = PageMax,
         samples |-> Len(page),
         byOutcome |-> [o \in Outcome |-> counted(o)],
         p50 |-> IF page = <<>> THEN 0 ELSE percentileNearestRank(durations, 50),
         p95 |-> IF page = <<>> THEN 0 ELSE percentileNearestRank(durations, 95)]

-----------------------------------------------------------------------------
(* What a report is worth. *)

\* The replays in the seconds between the two that bound a window.
Inner(w) == {r \in auditRows : r.type = "replay" /\ w.since.s < r.at.s /\ r.at.s < w.until.s}
Around(w) == {r \in auditRows : r.type = "replay" /\ w.since.s <= r.at.s /\ r.at.s <= w.until.s}

\* A report that does not say it is truncated counts every replay of the seconds inside its window under
\* its outcome, and none from outside the window's seconds.
TruncationIsFlagged ==
    \A w \in AWindow :
        LET report == reliabilityHandler(w)
            of(rows, o) == Cardinality({r \in rows : r.outcome = o})
        IN  ~report.truncated =>
                \A o \in Outcome : of(Inner(w), o) <= report.byOutcome[o] /\ report.byOutcome[o] <= of(Around(w), o)

\* A page that was cut holds the oldest rows: no row that was left out is from an earlier second than one
\* on the page, so a reader that goes on from the last second of a page misses nothing.
PageIsOldest ==
    \A w \in AWindow, limit \in 0..(PageMax + 1) :
        LET page == Query(w.since, w.until, "replay", limit)
        IN  \A r \in Inner(w) : \A i \in 1..Len(page) :
                page[i].at.s > r.at.s => \E j \in 1..Len(page) : page[j] = r

\* The percentiles are durations that were seen, with at least that share of the samples at or below them,
\* and less than that share strictly below.
PercentilesAreRanks ==
    \A w \in AWindow :
        LET page == Query(w.since, w.until, "replay", PageMax)
            report == reliabilityHandler(w)
            atMost(d) == Cardinality({i \in 1..Len(page) : page[i].dur <= d})
            under(d) == Cardinality({i \in 1..Len(page) : page[i].dur < d})
            ranked(d, p) == 100 * atMost(d) >= p * Len(page) /\ 100 * under(d) < p * Len(page)
        IN  page # <<>> => ranked(report.p50, 50) /\ ranked(report.p95, 95)

\* What an operator is told of a window is exact: a page that is cut is cut at its newest end, a report that does
\* not say so is complete, and its percentiles are ranks of its samples.
ReportIsExact == PageIsOldest /\ TruncationIsFlagged /\ PercentilesAreRanks

=============================================================================
