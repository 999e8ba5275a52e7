---------------------------- MODULE MCGovernance ----------------------------
(***************************************************************************)
(* Small instances of the modules about knowledge, verification, promotion *)
(* and release.  They share no variable, so each is explored on its own:   *)
(* scene says which.                                                       *)
(***************************************************************************)
EXTENDS Brain, BrainAdmission, VerifiedState, EvidenceBundle, EvidenceRecords,
        ReleaseRings, SourcePromotion, TLC

VARIABLE scene

mcVars == <<brainVars, admissionVars, verifiedVars, bundleVars, recordVars, releaseVars,
            promotionVars, scene>>

\* A chain, a triangle with a soft and a hard side, and a cycle with a way out.
MCEdges ==
    LET soft(a, b) == [from |-> a, to |-> b, hard |-> FALSE]
        hard(a, b) == [from |-> a, to |-> b, hard |-> TRUE]
    IN {{hard(1, 2), soft(2, 3)},
        {soft(1, 2), hard(1, 3), soft(3, 2)},
        {soft(1, 2), soft(2, 1), hard(2, 3)}}

\* The contents that are promoted do not differ, each with a decision of its own.
PromotionSymmetry == Permutations(PContent)

\* What a scene does not explore stays in one state.
Pinned ==
    /\ governed = (scene = "law")
    /\ IF scene = "admission" THEN TRUE
       ELSE /\ tree = [c \in Container |-> [k \in Key |-> Absent]]
            /\ admission = [kind |-> "live_note", evidence |-> "none"]
    /\ IF scene = "verified" THEN TRUE ELSE edges = CHOOSE G \in EdgeSets : TRUE
    /\ IF scene = "records" THEN TRUE
       ELSE record = Capture("pre_action_snapshot_partial",
                             Snapshot("pre_action_snapshot_partial", CHOOSE n \in SNode : TRUE,
                                      CHOOSE a \in SAttempt : TRUE, 0, 0))
    /\ IF scene = "release" THEN TRUE
       ELSE release = [ring |-> "internal", stoppable |-> FALSE, soak |-> [x \in Ring |-> NoStamp], log |-> <<>>]
    /\ decision = [d \in Decision |-> [content |-> d, state |-> "draft"]]

MCInit ==
    /\ scene \in {"law", "brain", "mounts", "admission", "verified", "verdicts", "bundle", "records", "release", "promotion"}
    /\ Pinned
    /\ BrainInit /\ AdmissionInit /\ VerifiedInit /\ BundleInit /\ RecordsInit /\ ReleaseInit /\ PromotionInit

OthersThanBrain == UNCHANGED <<admissionVars, verifiedVars, bundleVars, recordVars, releaseVars, promotionVars, scene>>

BrainScene ==
    /\ \/ scene = "law" /\ (LawStep \/ BrainTick)
       \/ scene = "brain" /\ ((\E q \in BRequest : ObjectStep(q)) \/ BrainTick)
       \/ scene = "mounts" /\ MountStep
    /\ OthersThanBrain

AdmissionScene ==
    /\ scene = "admission" /\ AdmitStep
    /\ UNCHANGED <<brainVars, verifiedVars, bundleVars, recordVars, releaseVars, promotionVars, scene>>

VerifiedScene ==
    /\ scene = "verified" /\ VerifiedNext
    /\ UNCHANGED <<brainVars, admissionVars, bundleVars, recordVars, releaseVars, promotionVars, scene>>

EvidenceScene ==
    /\ \/ scene = "bundle" /\ BundleNext({1})
       \/ scene = "verdicts" /\ VerdictNext
    /\ UNCHANGED <<brainVars, admissionVars, verifiedVars, recordVars, releaseVars, promotionVars, scene>>

RecordsScene ==
    /\ scene = "records" /\ RecordsNext
    /\ UNCHANGED <<brainVars, admissionVars, verifiedVars, bundleVars, releaseVars, promotionVars, scene>>

ReleaseScene ==
    /\ scene = "release" /\ ReleaseNext
    /\ UNCHANGED <<brainVars, admissionVars, verifiedVars, bundleVars, recordVars, promotionVars, scene>>

PromotionScene ==
    /\ scene = "promotion" /\ PromotionNext
    /\ UNCHANGED <<brainVars, admissionVars, verifiedVars, bundleVars, recordVars, releaseVars, scene>>

MCNext ==
    \/ BrainScene \/ AdmissionScene \/ VerifiedScene \/ EvidenceScene \/ RecordsScene
    \/ ReleaseScene \/ PromotionScene

MCSpec == MCInit /\ [][MCNext]_mcVars

=============================================================================
