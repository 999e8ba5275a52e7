---------------------------- MODULE GoldenMission ----------------------------
(***************************************************************************)
(* Golden Missions (packages/goldenmission): runners that execute a        *)
(* mission's stage chain, the effect log they share, the journal a prefix  *)
(* leaves behind, and the resume of a crashed mission from it.  A caller   *)
(* keeps the journal it was handed; it may keep only its beginning, or     *)
(* none of it.  Reasons, pins and the shape of identifiers are left out.   *)
(***************************************************************************)
EXTENDS Naturals, Sequences

CONSTANTS
    GRunner,        \* runner objects
    GPrincipal,     \* principals; "malformed" is not one
    GMission,       \* the missions callers submit
    GVerification,  \* the verdicts callers hand in
    MaxGoldenCalls, \* bound: calls to runners
    NoRunner,
    NoMission       \* the mission of a runner that never started one

VARIABLES
    gRunner,    \* [GRunner -> NoRunner or a Runner]
    gLog,       \* EffectLog: per effect key, how often the effect was applied
    gSaved,     \* the journals callers kept
    gDone,      \* ghost: the accepted, recovered and revoked missions, and by whom
    gRan,       \* ghost: the mission identities of which a prefix was executed
    gPrefixes,  \* ghost: per effect key, how often a prefix was executed
    gOpen,      \* ghost: effect keys applied by more than executed prefixes
    gCalls

goldenVars == <<gRunner, gLog, gSaved, gDone, gRan, gPrefixes, gOpen, gCalls>>

fullChain == <<"studio", "aie", "trust-gateway", "runtime", "works", "verification">>

stageName == {fullChain[i] : i \in DOMAIN fullChain}
stageOrder == [n \in stageName |-> CHOOSE i \in DOMAIN fullChain : fullChain[i] = n]

allBranches == {"success", "refusal", "revocation", "crash-recovery", "verifier-failure"}

\* An observed stage: ids says whether every identity field it carries is the canonical one.
Stage(name, ids) == [name |-> name, ids |-> ids]

skeletonFullChain == [i \in DOMAIN fullChain |-> Stage(fullChain[i], "same")]

Mission(b, c, stages) ==
    [branch |-> b, canonical |-> c, stages |-> stages, refusedBy |-> "", revokedAfter |-> "", subject |-> ""]

\* The mission of RunSkeleton for each branch.
RunSkeleton(b, c) ==
    LET full == skeletonFullChain
    IN  CASE b = "success" -> Mission(b, c, full)
          [] b = "refusal" -> [Mission(b, c, SubSeq(full, 1, 3)) EXCEPT !.refusedBy = "trust-gateway"]
          [] b = "revocation" -> [Mission(b, c, SubSeq(full, 3, 4)) EXCEPT !.revokedAfter = "runtime"]
          [] b = "crash-recovery" -> Mission(b, c, SubSeq(full, 3, 6))
          [] b = "verifier-failure" -> Mission(b, c, <<full[3], Stage("works", "undecided"), full[6]>>)

Canonicals == {m.canonical : m \in GMission}
GKeys == {c.key : c \in Canonicals}

\* A runner and the journal it holds.
Journal == [canonical : Canonicals \cup {NoMission}, stages : Seq(STRING)]
Runner == [principal : GPrincipal, journal : Journal, recovered : BOOLEAN]

ASSUME GoldenAssumption ==
    /\ NoRunner \notin Runner /\ NoMission \notin Canonicals
    /\ \A m \in GMission : m.stages \in Seq([name : STRING, ids : {"same", "other", "undecided"}])

\* effectKey: work and action; another mission or principal may carry the same one.
effectKey(c) == c.key

validIdentity(c) == c.valid

stageNames(stages) == [i \in DOMAIN stages |-> stages[i].name]

hasStage(stages, name) == \E i \in DOMAIN stages : stages[i].name = name

Increasing(names) ==
    /\ \A i \in DOMAIN names : names[i] \in stageName
    /\ \A i, j \in DOMAIN names : i < j => stageOrder[names[i]] < stageOrder[names[j]]

\* Every field a stage carries is the canonical one, and the stages are known and in order.
CheckChain(c, stages) ==
    /\ validIdentity(c)
    /\ stages # <<>>
    /\ Increasing(stageNames(stages))
    /\ \A i \in DOMAIN stages : stages[i].ids = "same"

Reject == [decision |-> "reject", applies |-> FALSE]
Outcome_(decision, applies) == [decision |-> decision, applies |-> applies]

runRefusal(m) ==
    IF /\ m.refusedBy = "trust-gateway"
       /\ hasStage(m.stages, "trust-gateway")
       /\ ~hasStage(m.stages, "works") /\ ~hasStage(m.stages, "verification")
    THEN Outcome_("refuse", FALSE)
    ELSE Reject

runRevocation(m) ==
    IF /\ m.revokedAfter \in stageName
       /\ hasStage(m.stages, "trust-gateway")
       /\ \A i \in DOMAIN m.stages : stageOrder[m.stages[i].name] <= stageOrder[m.revokedAfter]
    THEN Outcome_("revoked", hasStage(m.stages, "works"))
    ELSE Reject

\* Run: the branches without a verdict.
Unverified(m) ==
    CASE ~CheckChain(m.canonical, m.stages) -> Reject
      [] CheckChain(m.canonical, m.stages) /\ m.branch = "refusal" -> runRefusal(m)
      [] CheckChain(m.canonical, m.stages) /\ m.branch = "revocation" -> runRevocation(m)
      [] OTHER -> Reject

runSuccess(m, v) ==
    IF stageNames(m.stages) = fullChain /\ v.verdict = "accept" THEN Outcome_("accept", TRUE) ELSE Reject

\* The journal belongs to this very mission, not merely to its work and action.
BoundTo(journal, m) == journal.canonical = m.canonical

\* Faulty variant of PreCrashApplied: the resume always applies.
NeverPreCrash(journal) == FALSE

Covers(journal) == \E i \in DOMAIN journal.stages : journal.stages[i] = "works"

\* A journal that covers works proves that the effect was applied before the crash.
PreCrashApplied(journal) == Covers(journal)

runCrashRecovery(r, m, v) ==
    IF /\ r.recovered
       /\ BoundTo(r.journal, m)
       /\ Len(r.journal.stages) \in 1..Len(m.stages)
       /\ SubSeq(stageNames(m.stages), 1, Len(r.journal.stages)) = r.journal.stages
       /\ hasStage(m.stages, "works") /\ hasStage(m.stages, "verification")
       /\ v.verdict = "accept"
    THEN Outcome_("recovered", ~PreCrashApplied(r.journal))
    ELSE Reject

validVerificationInput(v) == v.principal # "malformed" /\ v.verdict \in {"accept", "reject"}

\* The verifier is neither the runner nor the mission's principal.
Independent(r, m, v) == v.principal # r.principal /\ v.principal # m.canonical.principal

\* RunWithVerification behind its input errors.
Verified(r, m, v) ==
    IF \/ m.subject # v.subject
       \/ ~Independent(r, m, v)
       \/ v.key # m.canonical.key
       \/ ~CheckChain(m.canonical, m.stages)
    THEN Reject
    ELSE CASE m.branch \in {"refusal", "revocation"} -> Unverified(m)
           [] m.branch = "success" -> runSuccess(m, v)
           [] m.branch = "crash-recovery" -> runCrashRecovery(r, m, v)
           [] m.branch = "verifier-failure" -> Reject

NoJournal == [canonical |-> NoMission, stages |-> <<>>]

GoldenInit ==
    /\ gRunner = [r \in GRunner |-> NoRunner]
    /\ gLog = [k \in GKeys |-> 0]
    /\ gSaved = {} /\ gDone = {} /\ gRan = {} /\ gOpen = {}
    /\ gPrefixes = [k \in GKeys |-> 0]
    /\ gCalls = 0

Call == gCalls < MaxGoldenCalls /\ gCalls' = gCalls + 1

NewRunner(r, p) ==
    /\ gRunner[r] = NoRunner
    /\ p # "malformed"
    /\ gRunner' = [gRunner EXCEPT ![r] = [principal |-> p, journal |-> NoJournal, recovered |-> FALSE]]
    /\ UNCHANGED <<gLog, gSaved, gDone, gRan, gPrefixes, gOpen, gCalls>>

\* validJournal on what is left of a kept journal: a start and at least one stage, in order.
validJournal(journal) ==
    /\ journal.stages # <<>>
    /\ validIdentity(journal.canonical)
    /\ Increasing(journal.stages)

\* Recover from the first n stages of a kept journal.
Recover(r, p, journal, n) ==
    LET kept == [journal EXCEPT !.stages = SubSeq(@, 1, n)]
    IN  /\ gRunner[r] = NoRunner
        /\ p # "malformed"
        /\ validJournal(kept)
        /\ gRunner' = [gRunner EXCEPT ![r] = [principal |-> p, journal |-> kept, recovered |-> TRUE]]
        /\ gOpen' = IF Covers(journal) /\ ~Covers(kept)
                    THEN gOpen \cup {effectKey(journal.canonical)} ELSE gOpen
        /\ UNCHANGED <<gLog, gSaved, gDone, gRan, gPrefixes, gCalls>>

\* EffectLog.Apply; what it answers is looked at by nobody.
Apply(k) == gLog' = [gLog EXCEPT ![k] = @ + 1]

Settle_(r, m, v, out) ==
    /\ IF out.applies THEN Apply(effectKey(m.canonical)) ELSE gLog' = gLog
    /\ gDone' = IF out.decision \in {"accept", "recovered", "revoked"}
                THEN gDone \cup {[mission |-> m.canonical, decision |-> out.decision, verifier |-> v.principal,
                                  runner |-> gRunner[r].principal]}
                ELSE gDone
    /\ gOpen' = IF out.applies /\ ~(m.branch = "crash-recovery" /\ Covers(gRunner[r].journal))
                THEN gOpen \cup {effectKey(m.canonical)} ELSE gOpen
    /\ UNCHANGED <<gRunner, gSaved, gRan, gPrefixes>>

NoVerdict == [principal |-> "nobody"]

Run(r, m) ==
    /\ Call
    /\ gRunner[r] # NoRunner
    /\ m.branch \in allBranches
    /\ Settle_(r, m, NoVerdict, Unverified(m))

RunWithVerification(r, m, v) ==
    /\ Call
    /\ gRunner[r] # NoRunner
    /\ m.branch \in allBranches
    /\ validVerificationInput(v)
    /\ Settle_(r, m, v, Verified(gRunner[r], m, v))

\* RunPrefix up to the stage at; kept says whether the caller stored the journal it was handed.
RunPrefix(r, m, at, kept) ==
    LET done == SubSeq(m.stages, 1, at)
        journal == [canonical |-> m.canonical, stages |-> stageNames(done)]
        k == effectKey(m.canonical)
    IN  /\ Call
        /\ gRunner[r] # NoRunner
        /\ m.branch = "crash-recovery"
        /\ gRunner[r].journal = NoJournal
        /\ CheckChain(m.canonical, done)
        /\ gRunner' = [gRunner EXCEPT ![r].journal = journal]
        /\ IF hasStage(done, "works") THEN Apply(k) ELSE gLog' = gLog
        /\ gSaved' = IF kept THEN gSaved \cup {journal} ELSE gSaved
        /\ gRan' = gRan \cup {m.canonical}
        /\ gPrefixes' = [gPrefixes EXCEPT ![k] = @ + 1]
        /\ gOpen' = IF hasStage(done, "works") THEN gOpen ELSE gOpen \cup {k}
        /\ UNCHANGED gDone

\* The runner's process ends; the log and the kept journals survive.
Crash(r) ==
    /\ gRunner[r] # NoRunner
    /\ gRunner' = [gRunner EXCEPT ![r] = NoRunner]
    /\ UNCHANGED <<gLog, gSaved, gDone, gRan, gPrefixes, gOpen, gCalls>>

GoldenNext ==
    \E r \in GRunner :
        \/ \E p \in GPrincipal :
              \/ NewRunner(r, p)
              \/ \E journal \in gSaved : \E n \in DOMAIN journal.stages : Recover(r, p, journal, n)
        \/ \E m \in GMission :
              \/ Run(r, m)
              \/ \E v \in GVerification : RunWithVerification(r, m, v)
              \/ \E at \in DOMAIN m.stages, kept \in BOOLEAN : RunPrefix(r, m, at, kept)
        \/ Crash(r)

GoldenSpec == GoldenInit /\ [][GoldenNext]_goldenVars

-----------------------------------------------------------------------------
(* What the runners promise. *)

Completed == {d \in gDone : d.decision \in {"accept", "recovered"}}

\* A mission that was accepted or recovered has had its effect, also when the effect was applied
\* before a crash and only the journal tells.
CompletedHasItsEffect == \A d \in Completed : gLog[effectKey(d.mission)] >= 1

\* While only executed prefixes that reached works applied the effect of an action, and no kept journal
\* lost its works entry, the effect was applied as often as prefixes were executed: however often
\* runners crash, recover and complete, a resume adds nothing.
ResumeAppliesNothing == \A k \in GKeys \ gOpen : gLog[k] = gPrefixes[k]

\* A recovered mission is one whose own prefix was executed: a journal of another mission with the same
\* work and action never completes it.
RecoveredRanItsPrefix ==
    \A d \in gDone : d.decision = "recovered" => d.mission \in gRan

\* No mission is completed on the word of its runner or of its own principal.
VerdictIsIndependent ==
    \A d \in Completed : d.verifier # d.runner /\ d.verifier # d.mission.principal

\* An effect in the log has an executed prefix, an acceptance, a recovery or a revocation behind it:
\* rejected and refused calls leave none.
EffectIsDecided ==
    \A k \in GKeys : gLog[k] >= 1 =>
        \/ \E c \in gRan : effectKey(c) = k
        \/ \E d \in gDone : effectKey(d.mission) = k

(* Not so (the README discusses it): a completed mission's effect was applied exactly once. *)
=============================================================================
