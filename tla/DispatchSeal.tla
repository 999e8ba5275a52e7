----------------------------- MODULE DispatchSeal -----------------------------
(***************************************************************************)
(* The seal between the Runtime and WORKS: acceptances, execution contexts *)
(* and verification subjects (internal/dispatch/acceptance.go,             *)
(* services/work/store/dispatch_store.go, dispatch_v2_store.go,            *)
(* execution_context.go).                                                  *)
(*                                                                         *)
(* Callers race on one key.  A first acceptance, a contextual acceptance,  *)
(* a spend and a subject binding are one transaction each; every other     *)
(* transition loads the acceptance, changes its copy and saves the whole   *)
(* of it, with other callers in between.  A dispatch's mission, authority, *)
(* runtime dispatch, attempt, effect and causal ids are one cause.         *)
(***************************************************************************)
EXTENDS Naturals, FiniteSets

CONSTANTS DispatchKey, \* idempotency keys; an execution is named after its key
          Cause,     \* what a dispatch is about; also the name of its executor
          Caller,    \* goroutines that make one call after another
          Ctx,       \* correlation identities (bounds how many are ever minted)
          WorkRef,   \* Works
          WorkerLease, \* worker leases
          Worker,
          Subject,   \* exact git subjects
          Verifier,  \* who may judge; executors of this or another dispatch included
          Epochs,    \* authority epochs
          Ceiling,   \* the budget ceiling of a dispatch
          None       \* no record

Outcome == {"ACCEPTED", "SUCCEEDED", "FAILED", "INDETERMINATE"}

\* A row of dispatch_acceptances, and of work_execution_contexts.
Acceptance ==
    [version : {"1.0", "2.0"}, work : WorkRef \cup {None}, cause : Cause, epoch : Epochs,
     place : Worker \cup {None}, expects : Subject \cup {None}, ctx : Ctx, applied : BOOLEAN,
     spent : 0..Ceiling, revoked : BOOLEAN, outcome : Outcome, verified : BOOLEAN,
     verifier : Verifier \cup {None}, subject : Subject \cup {None}]

ContextRow ==
    [id : Ctx, prior : Ctx \cup {None}, work : WorkRef, cause : Cause, lease : WorkerLease,
     worker : Worker]

\* A work_leases row as the seal reads it.
LeaseRow == [work : WorkRef, worker : Worker, active : BOOLEAN]

ASSUME DispatchAssumption ==
    /\ None \notin Worker \cup Subject \cup WorkRef \cup Ctx \cup Cause \cup Verifier \cup Acceptance
    /\ Epochs \subseteq Nat /\ 0 \in Epochs
    /\ Ceiling \in Nat

VARIABLES acc,       \* dispatch_acceptances: the acceptance of each key, or None
          contexts,  \* work_execution_contexts: a set of contexts
          subjects,  \* dispatch_verification_subjects: the subject of each key, or None
          epoch,     \* the current authority epoch
          leases,    \* work_leases as the seal reads them
          caller     \* the calls in progress and the last answers

sealVars == <<acc, contexts, subjects, epoch, leases, caller>>

\* Between the steps of a call, or after it.
InCall == {"insert", "verdict", "save"}
Answered == {"accepted", "ok", "refused"}

\* An acceptance as Accept and AcceptV2 build it; expects is the verification subject
\* that a 1.0 dispatch names.
Candidate(version, work, cause, e, place, expects, ctx) ==
    [version |-> version, work |-> work, cause |-> cause, epoch |-> e, place |-> place,
     expects |-> expects, ctx |-> ctx, applied |-> FALSE, spent |-> 0, revoked |-> FALSE,
     outcome |-> "ACCEPTED", verified |-> FALSE, verifier |-> None, subject |-> None]

\* The fields of an acceptance that its key is bound to for good.
Identity(a) ==
    [version |-> a.version, work |-> a.work, cause |-> a.cause, epoch |-> a.epoch,
     place |-> a.place, expects |-> a.expects, ctx |-> a.ctx]

Idle == [pc |-> "ok", key |-> None, rec |-> None, replay |-> FALSE, verdict |-> None]

SealInit ==
    /\ acc = [k \in DispatchKey |-> None]
    /\ contexts = {}
    /\ subjects = [k \in DispatchKey |-> None]
    /\ epoch = 0
    /\ leases \in [WorkerLease -> [work : WorkRef, worker : Worker, active : {TRUE}]]
    /\ caller = [c \in Caller |-> Idle]

-----------------------------------------------------------------------------
\* MintCorrelationIDs: an identity no record and no call carries yet.
Fresh ==
    Ctx \ ({acc[k].ctx : k \in {j \in DispatchKey : acc[j] # None}}
           \cup {x.id : x \in contexts}
           \cup {caller[c].rec.ctx : c \in {b \in Caller : caller[b].pc \in InCall}})

Ready(c) == caller[c].pc \in Answered

\* The call of c about k goes on with record a ...
GoOn(c, k, pc, a) ==
    caller' = [caller EXCEPT ![c] = [Idle EXCEPT !.pc = pc, !.key = k, !.rec = a]]

\* ... or ends without one.
Finish(c, pc) == caller' = [caller EXCEPT ![c] = [Idle EXCEPT !.pc = pc]]

\* An acceptance call about k ends with the stored acceptance a, or is refused.  replay
\* remembers that the call repeated a dispatch that was accepted before it began.
AnswerAccept(c, k, replay, ok, a) ==
    caller' = [caller EXCEPT ![c] =
        IF ok THEN [Idle EXCEPT !.pc = "accepted", !.key = k, !.rec = Identity(a), !.replay = replay]
        ELSE [Idle EXCEPT !.pc = "refused", !.replay = replay]]

\* The comparison of Accept: same causal identity, same epoch.
SameDispatch(a, cause, e) == a.cause = cause /\ a.epoch = e

\* Faulty variant of Accept: freshness is checked before the key is resolved.
AcceptFreshFirst(c, k, cause, e, s) ==
    LET same == acc[k] # None /\ SameDispatch(acc[k], cause, e)
    IN  /\ Ready(c)
        /\ \/ e < epoch /\ AnswerAccept(c, k, same, FALSE, None)
           \/ e >= epoch /\ acc[k] # None /\ AnswerAccept(c, k, same, same, acc[k])
           \/ /\ e >= epoch /\ acc[k] = None
              /\ \E i \in Fresh :
                    GoOn(c, k, "insert", Candidate("1.0", None, cause, e, None, s, i))
        /\ UNCHANGED <<acc, contexts, subjects, epoch, leases>>

\* Accept up to the insert: a committed winner is read back whatever the epoch is by
\* now; a new dispatch must not be stale.
Accept(c, k, cause, e, s) ==
    LET same == acc[k] # None /\ SameDispatch(acc[k], cause, e)
    IN  /\ Ready(c)
        /\ \/ acc[k] # None /\ AnswerAccept(c, k, same, same, acc[k])
           \/ acc[k] = None /\ e < epoch /\ AnswerAccept(c, k, FALSE, FALSE, None)
           \/ /\ acc[k] = None /\ e >= epoch
              /\ \E i \in Fresh :
                    GoOn(c, k, "insert", Candidate("1.0", None, cause, e, None, s, i))
        /\ UNCHANGED <<acc, contexts, subjects, epoch, leases>>

\* AcceptIfAbsent and the comparison of its winner with the dispatch.
AcceptIfAbsent(c) ==
    LET k == caller[c].key
        mine == caller[c].rec
    IN  /\ caller[c].pc = "insert"
        /\ acc' = [acc EXCEPT ![k] = IF @ = None THEN mine ELSE @]
        /\ AnswerAccept(c, k, FALSE, SameDispatch(acc'[k], mine.cause, mine.epoch), acc'[k])
        /\ UNCHANGED <<contexts, subjects, epoch, leases>>

\* A row of work_execution_contexts; a lease is bound to a cause (its authority lease
\* and admission decision) at most once.
Context(id, prior, work, cause, l) ==
    [id |-> id, prior |-> prior, work |-> work, cause |-> cause, lease |-> l,
     worker |-> leases[l].worker]

ContextTaken(cause, l) == \E x \in contexts : x.cause = cause /\ x.lease = l

\* The checks a new contextual acceptance has to pass.
LeaseServes(w, l, place) ==
    /\ leases[l].active /\ leases[l].work = w
    /\ place \in {None, leases[l].worker}

\* AcceptV2: one transaction reads back the winner, or checks the worker lease and
\* the placement and inserts the acceptance together with its execution context.
AcceptV2(c, k, cause, w, l, place) ==
    LET same == /\ acc[k] # None
                /\ acc[k].version = "2.0" /\ acc[k].work = w
                /\ acc[k].cause = cause /\ acc[k].place = place
                /\ \E x \in contexts : x.id = acc[k].ctx /\ x.lease = l
        fits == LeaseServes(w, l, place) /\ ~ContextTaken(cause, l)
    IN  /\ Ready(c)
        /\ \/ /\ acc[k] # None
              /\ AnswerAccept(c, k, same, same, acc[k])
              /\ UNCHANGED <<acc, contexts>>
           \/ /\ acc[k] = None /\ ~fits
              /\ AnswerAccept(c, k, FALSE, FALSE, None)
              /\ UNCHANGED <<acc, contexts>>
           \/ /\ acc[k] = None /\ fits
              /\ \E i \in Fresh :
                   /\ acc' = [acc EXCEPT ![k] = Candidate("2.0", w, cause, 0, place, None, i)]
                   /\ contexts' = contexts \cup {Context(i, None, w, cause, l)}
              /\ AnswerAccept(c, k, FALSE, TRUE, acc'[k])
        /\ UNCHANGED <<subjects, epoch, leases>>

\* CreateExecutionContext: the lease has to belong to the Work, and need not be
\* active; a prior context has to be one of the same Work.
CreateExecutionContext(c, prior, cause, w, l) ==
    /\ Ready(c)
    /\ leases[l].work = w /\ ~ContextTaken(cause, l)
    /\ prior = None \/ \E x \in contexts : x.id = prior /\ x.work = w
    /\ \E i \in Fresh : contexts' = contexts \cup {Context(i, prior, w, cause, l)}
    /\ Finish(c, "ok")
    /\ UNCHANGED <<acc, subjects, epoch, leases>>

\* BindVerificationSubject: the first subject wins.  What it compares of the acceptance
\* never changes, so that the load and the insert are one step.
BindVerificationSubject(c, k, w, cause, s) ==
    /\ Ready(c)
    /\ acc[k] # None
    /\ acc[k].version = "2.0" /\ acc[k].work = w /\ acc[k].cause = cause
    /\ subjects' = [subjects EXCEPT ![k] = IF @ = None THEN s ELSE @]
    /\ Finish(c, IF subjects'[k] = s THEN "ok" ELSE "refused")
    /\ UNCHANGED <<acc, contexts, epoch, leases>>

-----------------------------------------------------------------------------
\* The conditions of SpendIfWithinCeiling.
Affordable(a, n) == ~a.revoked /\ a.spent <= Ceiling /\ n <= Ceiling - a.spent

\* Spend: the check and the increment are one transaction.
Spend(c, k, n) ==
    /\ Ready(c)
    /\ acc[k] # None
    /\ acc' = [acc EXCEPT ![k].spent = IF Affordable(acc[k], n) THEN @ + n ELSE @]
    /\ Finish(c, IF Affordable(acc[k], n) THEN "ok" ELSE "refused")
    /\ UNCHANGED <<contexts, subjects, epoch, leases>>

\* A call that has loaded the acceptance of k and will save a.
Load(c, k, a) ==
    /\ Ready(c)
    /\ GoOn(c, k, "save", a)
    /\ UNCHANGED <<acc, contexts, subjects, epoch, leases>>

Revoke(c, k) == acc[k] # None /\ Load(c, k, [acc[k] EXCEPT !.revoked = TRUE])

\* ApplyEffect of the accepted effect, its outcome known or not.
ApplyEffect(c, k, known) ==
    /\ acc[k] # None /\ ~acc[k].revoked /\ ~acc[k].applied
    /\ Load(c, k, IF known THEN [acc[k] EXCEPT !.applied = TRUE]
                  ELSE [acc[k] EXCEPT !.outcome = "INDETERMINATE"])

Complete(c, k, outcome) ==
    /\ acc[k] # None /\ ~acc[k].revoked
    /\ Load(c, k, [acc[k] EXCEPT !.outcome = outcome])

\* Faulty variant of RecordVerdict: the executor may judge itself.
RecordVerdictBySelf(c, k, v, s, result) ==
    /\ Ready(c)
    /\ acc[k] # None
    /\ caller' = [caller EXCEPT ![c] =
           [Idle EXCEPT !.pc = "verdict", !.key = k, !.rec = acc[k],
                        !.verdict = [verifier |-> v, subject |-> s, result |-> result]]]
    /\ UNCHANGED <<acc, contexts, subjects, epoch, leases>>

\* RecordVerdict loads the acceptance; its executor is no verifier of it ...
RecordVerdict(c, k, v, s, result) ==
    /\ Ready(c)
    /\ acc[k] # None /\ v # acc[k].cause
    /\ caller' = [caller EXCEPT ![c] =
           [Idle EXCEPT !.pc = "verdict", !.key = k, !.rec = acc[k],
                        !.verdict = [verifier |-> v, subject |-> s, result |-> result]]]
    /\ UNCHANGED <<acc, contexts, subjects, epoch, leases>>

\* ... loads the bound subject of a 2.0 acceptance, and judges the copy it loaded.
JudgeSubject(c) ==
    LET a == caller[c].rec
        v == caller[c].verdict
        expected == IF a.version = "2.0" THEN subjects[caller[c].key] ELSE a.expects
        judged == [a EXCEPT !.verified = (v.result = "ACCEPT"), !.verifier = v.verifier,
                            !.subject = v.subject]
    IN  /\ caller[c].pc = "verdict"
        /\ IF v.subject = expected /\ ~a.revoked /\ a.outcome \in {"SUCCEEDED", "FAILED"}
           THEN GoOn(c, caller[c].key, "save", judged)
           ELSE Finish(c, "refused")
        /\ UNCHANGED <<acc, contexts, subjects, epoch, leases>>

\* Save writes the whole record back.
SaveAcceptance(c) ==
    /\ caller[c].pc = "save"
    /\ acc' = [acc EXCEPT ![caller[c].key] = caller[c].rec]
    /\ Finish(c, "ok")
    /\ UNCHANGED <<contexts, subjects, epoch, leases>>

-----------------------------------------------------------------------------
\* The authority moves on; a worker lease ends.
AdvanceEpoch(e) ==
    /\ e > epoch
    /\ epoch' = e
    /\ UNCHANGED <<acc, contexts, subjects, leases, caller>>

EndLease(l) ==
    /\ leases[l].active
    /\ leases' = [leases EXCEPT ![l].active = FALSE]
    /\ UNCHANGED <<acc, contexts, subjects, epoch, caller>>

\* The calls that accept a dispatch or correlate it ...
AcceptStep(c) ==
    \/ \E k \in DispatchKey, cause \in Cause, e \in Epochs, s \in Subject : Accept(c, k, cause, e, s)
    \/ AcceptIfAbsent(c)
    \/ \E k \in DispatchKey, cause \in Cause, w \in WorkRef, l \in WorkerLease, place \in Worker \cup {None} :
         AcceptV2(c, k, cause, w, l, place)
    \/ \E prior \in Ctx \cup {None}, cause \in Cause, w \in WorkRef, l \in WorkerLease :
         CreateExecutionContext(c, prior, cause, w, l)
    \/ \E k \in DispatchKey, cause \in Cause, w \in WorkRef, s \in Subject :
         BindVerificationSubject(c, k, w, cause, s)

\* ... and the calls that move an accepted one.
TransitionStep(c) ==
    \/ \E k \in DispatchKey :
         \/ \E n \in 1..Ceiling : Spend(c, k, n)
         \/ Revoke(c, k)
         \/ \E known \in BOOLEAN : ApplyEffect(c, k, known)
         \/ \E outcome \in {"SUCCEEDED", "FAILED"} : Complete(c, k, outcome)
         \/ \E v \in Verifier, s \in Subject, result \in {"ACCEPT", "REJECT"} :
              RecordVerdict(c, k, v, s, result)
    \/ JudgeSubject(c)
    \/ SaveAcceptance(c)

SealNext ==
    \/ \E c \in Caller : AcceptStep(c) \/ TransitionStep(c)
    \/ \E e \in Epochs : AdvanceEpoch(e)
    \/ \E l \in WorkerLease : EndLease(l)

SealSpec == SealInit /\ [][SealNext]_sealVars

-----------------------------------------------------------------------------
\* Type correctness: acceptances, contexts, subjects and calls.
SealTypeOK ==
    /\ acc \in [DispatchKey -> Acceptance \cup {None}]
    /\ contexts \subseteq ContextRow
    /\ subjects \in [DispatchKey -> Subject \cup {None}]
    /\ epoch \in Epochs
    /\ leases \in [WorkerLease -> LeaseRow]
    /\ DOMAIN caller = Caller
    /\ \A c \in Caller : caller[c].pc \in InCall \cup Answered

\* A key is bound to one dispatch and one correlation identity for good, through
\* racing acceptances and through every save of a copy (AcceptIfAbsent, Save).
IdentityIsStable ==
    [][\A k \in DispatchKey : acc[k] # None =>
          acc'[k] # None /\ Identity(acc'[k]) = Identity(acc[k])]_sealVars

\* Whoever is told that its dispatch is accepted holds the identity that is stored
\* under its key: a Runtime never adopts a correlation id that lost the race
\* (Accept, AcceptIfAbsent).
AcceptedIsStored ==
    \A c \in Caller :
        caller[c].pc = "accepted" => /\ acc[caller[c].key] # None
                                     /\ caller[c].rec = Identity(acc[caller[c].key])

\* A dispatch that has been accepted is read back by every later repetition of it, with
\* the epoch advanced or the worker lease ended in between (Accept,
\* AcceptContextualIfAbsent).
ReplayIsReadBack == \A c \in Caller : caller[c].replay => caller[c].pc = "accepted"

\* A contextual acceptance and its execution context commit together, and name the
\* same Work and cause (AcceptContextualIfAbsent).
ContextIsMaterialized ==
    \A k \in DispatchKey :
        acc[k] # None /\ acc[k].version = "2.0" =>
            \E x \in contexts : x.id = acc[k].ctx /\ x.work = acc[k].work /\ x.cause = acc[k].cause

\* A placed dispatch is bound to the worker it was placed on, whichever lease and
\* context it came with (AcceptContextualIfAbsent).
PlacedWhereLeased ==
    \A k \in DispatchKey, x \in contexts :
        acc[k] # None /\ acc[k].version = "2.0" /\ x.id = acc[k].ctx =>
            acc[k].place \in {None, x.worker}

\* Nothing is verified by its executor, nor over another subject than the one bound to
\* it, whatever copies are saved over one another (RecordVerdict).
VerifiedIndependently ==
    \A k \in DispatchKey :
        acc[k] # None /\ acc[k].verified =>
            /\ acc[k].verifier \notin {None, acc[k].cause}
            /\ acc[k].subject = IF acc[k].version = "2.0" THEN subjects[k] ELSE acc[k].expects

=============================================================================
