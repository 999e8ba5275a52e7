--------------------------- MODULE EvidenceBundle ---------------------------
(***************************************************************************)
(* What is said of a finished Work: the evidence bundle (services/evidence,*)
(* GET /v1/works/{id}/evidence), the independent verdict (POST .../        *)
(* verification, outcome_verdict.go), the policy decision of an execution  *)
(* context (POST .../evidence, execution_policy_correlation.go) and the    *)
(* receipt issued on them (quittance.go).                                  *)
(*                                                                         *)
(* Producing a bundle is a sequence of reads, between which the writers of *)
(* contexts and correlations go on; the attempts, artifacts and leases it  *)
(* copies are part of what the subject stands for.  A hash is the value it *)
(* is taken of, tagged with the algorithm: it has no collisions here.      *)
(***************************************************************************)
EXTENDS Naturals, FiniteSets

CONSTANTS Get,            \* the GETs of the evidence, numbered as they arrive
          VRequest,       \* the verdict requests, likewise
          Verifier, PDR,
          MaxContexts,    \* bound: the execution contexts of the Work
          NoVerdict, NoPDR, NoInteg, NoBundle

ASSUME BundleAssumption ==
    /\ Get \subseteq Nat \ {0} /\ VRequest \subseteq Nat \ {0} /\ MaxContexts \in Nat

VARIABLES workState,   \* of the Work; a lease of it exists
          contexts,    \* how many execution contexts it has; the latest is the last
          policy,      \* work_execution_policy_correlations
          told,        \* ghost: the correlations that were answered as recorded
          outcome,     \* work_verification_verdicts
          vreq, get,
          bundles,     \* the bundles that were handed out
          receipts     \* the quittances issued

bundleVars == <<workState, contexts, policy, told, outcome, vreq, get, bundles, receipts>>

TerminalWork == {"SUCCEEDED", "FAILED", "CANCELLED"}
Verdict == [result : {"passed", "failed"}, verifier : Verifier]

\* What a bundle is about: the Work, the time of the GET, and the latest context with its policy decision.
BundleSubject == [work : TerminalWork, at : Get, ctx : 0..MaxContexts, pdr : PDR \cup {NoPDR}]

ASSUME AbsenceAssumption == NoVerdict \notin Verdict /\ NoPDR \notin PDR

BundleInit ==
    /\ workState = "RUNNING"
    /\ contexts = 0
    /\ policy = [c \in 1..MaxContexts |-> NoPDR]
    /\ told = {}
    /\ outcome = NoVerdict
    /\ vreq = [q \in VRequest |-> [pc |-> "new", verdict |-> NoVerdict]]
    /\ get = [g \in Get |-> [pc |-> "new", content |-> NoBundle, view |-> "none", verdict |-> NoVerdict]]
    /\ bundles = {} /\ receipts = {}

-----------------------------------------------------------------------------
(***************************************************************************)
(* What goes on meanwhile.                                                 *)
(***************************************************************************)

\* The Work ends, once (WorkLifecycle).
FinishWork(s) ==
    /\ workState = "RUNNING" /\ workState' = s
    /\ UNCHANGED <<contexts, policy, told, outcome, vreq, get, bundles, receipts>>

\* CreateExecutionContext: a lease of the Work is all it asks for, in whatever state the
\* lease and the Work are.
CreateExecutionContext ==
    /\ contexts < MaxContexts /\ contexts' = contexts + 1
    /\ UNCHANGED <<workState, policy, told, outcome, vreq, get, bundles, receipts>>

\* RecordExecutionPolicyCorrelation, one transaction: the context is of this Work, the
\* insert does nothing when there is a row, and a row that says something else is a
\* conflict.
RecordExecutionPolicyCorrelation(c, pdr) ==
    /\ c <= contexts
    /\ LET row == IF policy[c] = NoPDR THEN pdr ELSE policy[c]
       IN /\ policy' = [policy EXCEPT ![c] = row]
          /\ told' = IF row = pdr THEN told \cup {<<c, pdr>>} ELSE told
    /\ UNCHANGED <<workState, contexts, outcome, vreq, get, bundles, receipts>>

-----------------------------------------------------------------------------
(***************************************************************************)
(* The verdict.                                                            *)
(***************************************************************************)

VStep(q, pc) == vreq' = [vreq EXCEPT ![q].pc = pc]
VerdictUnchanged == UNCHANGED <<workState, contexts, policy, told, get, bundles, receipts>>

\* workVerificationIngestHandler: a verdict is of a terminal Work.
IngestVerdict(q, v) ==
    /\ vreq[q].pc = "new" /\ \A r \in VRequest : r < q => vreq[r].pc # "new"
    /\ vreq' = [vreq EXCEPT ![q] = [pc |-> IF workState \in TerminalWork THEN "read" ELSE "refused",
                                    verdict |-> v]]
    /\ UNCHANGED outcome /\ VerdictUnchanged

\* SaveVerificationVerdict, the read: an identical verdict is a success.
ReadVerdict(q) ==
    /\ vreq[q].pc = "read"
    /\ VStep(q, CASE outcome = NoVerdict -> "insert"
                  [] outcome = vreq[q].verdict -> "saved"
                  [] OTHER -> "conflict")
    /\ UNCHANGED outcome /\ VerdictUnchanged

\* SaveVerificationVerdict, the INSERT: a row that came in between is an error.
InsertVerdict(q) ==
    /\ vreq[q].pc = "insert"
    /\ IF outcome = NoVerdict
       THEN outcome' = vreq[q].verdict /\ VStep(q, "saved")
       ELSE VStep(q, "failed") /\ UNCHANGED outcome
    /\ VerdictUnchanged

-----------------------------------------------------------------------------
(***************************************************************************)
(* The bundle.                                                             *)
(***************************************************************************)

GetUnchanged == UNCHANGED <<workState, contexts, policy, told, outcome, vreq>>
GStep(g, pc, content) == get' = [get EXCEPT ![g].pc = pc, ![g].content = content]

\* Produce: the Work is read, and it is terminal.  Now is the time of this GET.
ReadWork(g) ==
    /\ get[g].pc = "new" /\ \A h \in Get : h < g => get[h].pc # "new"
    /\ IF workState \in TerminalWork
       THEN GStep(g, "contexts", [work |-> workState, at |-> g, ctx |-> 0, pdr |-> NoPDR])
       ELSE GStep(g, "not_terminal", NoBundle)
    /\ GetUnchanged /\ UNCHANGED <<bundles, receipts>>

\* The latest context is the one whose correlation counts.
ReadContexts(g) ==
    /\ get[g].pc = "contexts"
    /\ GStep(g, "correlation", [get[g].content EXCEPT !.ctx = contexts])
    /\ GetUnchanged /\ UNCHANGED <<bundles, receipts>>

\* executionPDRForContext.
ReadCorrelation(g) ==
    /\ get[g].pc = "correlation"
    /\ GStep(g, "sign", [get[g].content EXCEPT !.pdr = IF @ = NoPDR /\ get[g].content.ctx > 0
                                                       THEN policy[get[g].content.ctx] ELSE NoPDR])
    /\ GetUnchanged /\ UNCHANGED <<bundles, receipts>>

Digest(algorithm, subject) == <<algorithm, subject>>

\* BuildDigestSet over the subject: SHA-256, and BLAKE3 beside it.
Integrity(subject) == [primary |-> Digest("sha256", subject), alternate |-> Digest("blake3", subject)]

ASSUME EnvelopeAssumption == \A subject \in BundleSubject : Integrity(subject) # NoInteg

\* signatureMAC: over the subject and the envelope; of a bundle that has no envelope over
\* the bundle as the version before signed it.
SignatureMAC(b, key) ==
    IF b.integ = NoInteg THEN <<"hmac", key, b.subject>> ELSE <<"hmac", key, b.subject, b.integ>>

\* The identity, the envelope and the signature of a subject.
Seal(subject, key) ==
    LET b == [subject |-> subject, id |-> Digest("sha256", subject), integ |-> Integrity(subject)]
    IN [subject |-> subject, id |-> b.id, integ |-> b.integ, sig |-> SignatureMAC(b, key)]

Sign(g) ==
    /\ get[g].pc = "sign"
    /\ bundles' = bundles \cup {Seal(get[g].content, "key")}
    /\ GStep(g, "verdict", get[g].content)
    /\ GetUnchanged /\ UNCHANGED receipts

\* Faulty variant of ProjectPlatformVerification: complete provenance is a verdict.
ProjectPlatformVerificationEager(content, v) ==
    CASE content.ctx = 0 -> "none"
      [] content.ctx > 0 /\ content.pdr = NoPDR -> "provenance_gap"
      [] OTHER -> "verified"

\* projectPlatformVerification: complete provenance and the verdict together.
ProjectPlatformVerification(content, v) ==
    CASE content.ctx = 0 -> "none"
      [] content.ctx > 0 /\ content.pdr = NoPDR -> "provenance_gap"
      [] content.ctx > 0 /\ content.pdr # NoPDR /\ v = NoVerdict -> "pending"
      [] OTHER -> IF v.result = "passed" THEN "verified" ELSE "failed"

\* The handler reads the verdict when the bundle is signed (projectOutcomeVerification).
AnswerEvidence(g) ==
    /\ get[g].pc = "verdict"
    /\ get' = [get EXCEPT ![g].pc = "answered", ![g].verdict = outcome,
                          ![g].view = ProjectPlatformVerification(get[g].content, outcome)]
    /\ GetUnchanged /\ UNCHANGED <<bundles, receipts>>

\* VerifyBundle: the signature, the content-addressed id, and the envelope if there is one.
VerifyBundle(b, key) ==
    /\ b.sig = SignatureMAC(b, key)
    /\ b.id = Digest("sha256", b.subject)
    /\ b.integ = NoInteg \/ b.integ = Integrity(b.subject)

\* The switch of IssueQuittance: a passed verdict of a Work that did not succeed is refused.
Admissible(b, v) == v # NoVerdict /\ (v.result = "passed" => b.subject.work = "SUCCEEDED")

\* IssueQuittance, and derive: the id is over the bundle, the verdict and the usage.
IssueQuittance(b) ==
    /\ b \in bundles /\ Admissible(b, outcome)
    /\ receipts' = receipts \cup {[id |-> Digest("sha256", <<b.id, outcome>>), work |-> b.subject.work,
                                   result |-> outcome.result, failure |-> outcome.result = "failed"]}
    /\ GetUnchanged /\ UNCHANGED <<get, bundles>>

VerdictStep(q, verdicts) == (\E v \in verdicts : IngestVerdict(q, v)) \/ ReadVerdict(q) \/ InsertVerdict(q)

\* Verdicts of the named requests, by one verifier, with everything else going on.
BundleNext(requests) ==
    \/ \E s \in {"SUCCEEDED", "FAILED"} : FinishWork(s)
    \/ CreateExecutionContext
    \/ \E c \in 1..MaxContexts, pdr \in PDR : RecordExecutionPolicyCorrelation(c, pdr)
    \/ \E q \in requests : VerdictStep(q, {v \in Verdict : v.verifier = CHOOSE x \in Verifier : TRUE})
    \/ \E g \in Get : \/ ReadWork(g) \/ ReadContexts(g) \/ ReadCorrelation(g)
                      \/ Sign(g) \/ AnswerEvidence(g)
    \/ \E b \in bundles : IssueQuittance(b)

\* All verdict requests among themselves.
VerdictNext ==
    \/ \E s \in TerminalWork : FinishWork(s)
    \/ \E q \in VRequest : VerdictStep(q, Verdict)

BundleSpec == BundleInit /\ [][BundleNext(VRequest) \/ VerdictNext]_bundleVars

-----------------------------------------------------------------------------
\* An answer that says "verified" has a recorded policy decision for the context it
\* names, a verdict that passed, and a finished Work, although each was read at another
\* moment; and what it says stays true.
ViewIsBacked ==
    \A g \in Get :
        /\ get[g].view = "verified" =>
             /\ outcome # NoVerdict /\ outcome.result = "passed"
             /\ policy[get[g].content.ctx] = get[g].content.pdr
             /\ workState = get[g].content.work
        /\ get[g].view = "failed" => outcome # NoVerdict /\ outcome.result = "failed"

\* A verdict that was answered as saved stands, whoever sent another one at the same time.
AnsweredVerdictStands ==
    \A q \in VRequest : vreq[q].pc = "saved" => outcome = vreq[q].verdict

\* A policy decision that was answered as recorded is the one its context keeps.
AnsweredPolicyStands == \A t \in told : policy[t[1]] = t[2]

\* What a bundle about s may be made of b without the key, with the envelope or, as the version before
\* had none, stripped of it.
Rewritten(b, s) ==
    {[b EXCEPT !.subject = s], [Seal(s, "other") EXCEPT !.sig = b.sig],
     [b EXCEPT !.subject = s, !.integ = NoInteg],
     [b EXCEPT !.subject = s, !.id = Digest("sha256", s), !.integ = NoInteg]}

\* What may become of a bundle.
Damaged(b) ==
    Rewritten(b, [b.subject EXCEPT !.work = "LOST"]) \cup Rewritten(b, [b.subject EXCEPT !.ctx = @ + 1])
    \cup {[b EXCEPT !.id = Digest("blake3", b.subject)], [b EXCEPT !.integ = NoInteg], Seal(b.subject, "other")}

\* A bundle verifies exactly when it is as it was produced.
DamageIsDetected ==
    \A b \in bundles : VerifyBundle(b, "key") /\ \A d \in Damaged(b) : ~VerifyBundle(d, "key")

\* A receipt says what the standing verdict says; it says "passed" of a Work that
\* succeeded only, and names a failure otherwise.
QuittanceIsEarned ==
    \A r \in receipts :
        /\ outcome # NoVerdict /\ r.result = outcome.result
        /\ r.result = "passed" => r.work = "SUCCEEDED" /\ ~r.failure
        /\ r.result = "failed" => r.failure

\* What is handed out as evidence is backed by the records it speaks of: an answer, a
\* receipt, and a bundle that verifies.
EvidenceIsBacked == ViewIsBacked /\ QuittanceIsEarned /\ DamageIsDetected

(***************************************************************************)
(* Not so (the README discusses them): a repeated verdict is a success,    *)
(* an identical one that races with the first fails on the INSERT; one     *)
(* outcome has one receipt, every GET makes a bundle with an id of its     *)
(* own, since the id covers the time; and a verified answer is not         *)
(* followed by a gap, a context may be added to a finished Work.           *)
(***************************************************************************)
=============================================================================
