----------------------------- MODULE MCPlatform -----------------------------
(***************************************************************************)
(* Small instances of the golden mission, the node cache, the budget       *)
(* ledger, the publishers, the audit trail, the computer providers, the    *)
(* settlement loops, the economic sources and the artifact store.  They    *)
(* share no variable, so each is explored on its own: scene says which.    *)
(***************************************************************************)
EXTENDS GoldenMission, NodeCache, BudgetLedger, Publication, AuditTrail, Computers, Settlement, EconomicSources,
    ArtifactStore, TLC

VARIABLE scene

mcVars ==
    <<goldenVars, cacheVars, budgetVars, publicationVars, auditVars, computersVars, settlementVars, sourceVars,
      artifactVars, scene>>

-----------------------------------------------------------------------------
(* Golden missions: two that share a work and an action, and one with a malformed identity. *)

MCCanonical(mission, principal) == [mission |-> mission, principal |-> principal, key |-> "w|a", valid |-> TRUE]
C1 == MCCanonical("m1", "author")
C2 == MCCanonical("m2", "author")

MCMissions ==
    {RunSkeleton(b, C1) : b \in allBranches}
    \cup {RunSkeleton("crash-recovery", C2), Mission("success", C1, SubSeq(skeletonFullChain, 2, 6)),
          [Mission("revocation", C1, SubSeq(skeletonFullChain, 3, 5)) EXCEPT !.revokedAfter = "works"]}

MCVerifications ==
    {[principal |-> p, verdict |-> d, key |-> "w|a", subject |-> ""] :
        p \in {"runner", "author", "verifier"}, d \in {"accept", "reject"}}

-----------------------------------------------------------------------------
(* The cache: nodes that differ in one input, in inputs outside their key, in scope, and one with a secret. *)

MCNode0 ==
    [run |-> "make", env |-> "", sha |-> "", image |-> "", inputs |-> {}, local |-> FALSE, secret |-> FALSE]

MCNodes ==
    {MCNode0, [MCNode0 EXCEPT !.env = "e", !.sha = "1"],
     [MCNode0 EXCEPT !.env = "e", !.sha = "2", !.inputs = {"run"}], [MCNode0 EXCEPT !.env = "e", !.secret = TRUE],
     [MCNode0 EXCEPT !.image = "img", !.local = TRUE], [MCNode0 EXCEPT !.sha = "1"]}

-----------------------------------------------------------------------------
(* The audit trail: moments of one second whose texts and times differ in order, and whole seconds. *)

MCMoment(s, f) == [s |-> s, f |-> f]
MCMoments ==
    {MCMoment(1, <<5>>), MCMoment(2, <<>>), MCMoment(2, <<1>>), MCMoment(2, <<1, 2>>), MCMoment(3, <<>>)}
MCWindows ==
    {[since |-> MCMoment(1, <<>>), until |-> MCMoment(5, <<>>)],
     [since |-> MCMoment(2, <<1>>), until |-> MCMoment(3, <<>>)],
     [since |-> MCMoment(2, <<>>), until |-> MCMoment(2, <<1>>)]}

-----------------------------------------------------------------------------
(* Computers: one key with two specifications, labels that differ in a value, and no key. *)

MCProvision(key, org, caps, labels) == [key |-> key, org |-> org, caps |-> caps, labels |-> labels]
MCProvisions ==
    {MCProvision("k", "o", {"fs"}, <<>>), MCProvision("k", "o", {"fs", "teardown_keep"}, <<>>),
     MCProvision("k", "o", {"fs"}, "l" :> 1), MCProvision("k2", "o2", {"fs"}, "l" :> 1),
     MCProvision("k2", "o2", {"fs"}, "l" :> 2), MCProvision("", "o", {"fs"}, <<>>)}

-----------------------------------------------------------------------------

\* The runners of golden missions do not differ, and neither do the keys of a trust root.
PlatformSymmetry == Permutations(GRunner) \cup Permutations(TrustKey)

\* What a scene does not explore stays in one state.
Pinned ==
    /\ IF scene = "budget" THEN TRUE ELSE bLedger.ceiling = CHOOSE c \in Ceilings : TRUE
    /\ IF scene = "status" THEN TRUE ELSE head = CHOOSE c \in Commit : TRUE
    /\ IF scene = "hook" THEN TRUE ELSE env = [token |-> TRUE, app |-> "unset"]
    /\ IF scene = "pulse" THEN TRUE ELSE pulse = [allow |-> {}, shook |-> FALSE, wire |-> NoSig]

MCInit ==
    /\ scene \in {"golden", "cache", "budget", "status", "hook", "audit", "reference", "pulse", "correlation", "recovery",
                  "coherence", "legal", "generations", "roots", "artifacts"}
    /\ GoldenInit /\ CacheInit /\ BudgetInit /\ PublicationInit /\ AuditInit /\ ComputersInit /\ SettlementInit
    /\ SourcesInit /\ ArtifactsInit
    /\ Pinned

GoldenScene ==
    /\ scene = "golden" /\ GoldenNext
    /\ UNCHANGED <<artifactVars, cacheVars, budgetVars, publicationVars, auditVars, computersVars, settlementVars, sourceVars, scene>>

CacheScene ==
    /\ scene = "cache" /\ CacheNext
    /\ UNCHANGED <<artifactVars, goldenVars, budgetVars, publicationVars, auditVars, computersVars, settlementVars, sourceVars, scene>>

BudgetScene ==
    /\ scene = "budget" /\ BudgetNext
    /\ UNCHANGED <<artifactVars, goldenVars, cacheVars, publicationVars, auditVars, computersVars, settlementVars, sourceVars, scene>>

PublicationScene ==
    /\ \/ scene = "status" /\ ReconcilerNext
       \/ scene = "hook" /\ HookNext
    /\ UNCHANGED <<artifactVars, goldenVars, cacheVars, budgetVars, auditVars, computersVars, settlementVars, sourceVars, scene>>

AuditScene ==
    /\ scene = "audit" /\ AuditNext
    /\ UNCHANGED <<artifactVars, goldenVars, cacheVars, budgetVars, publicationVars, computersVars, settlementVars, sourceVars, scene>>

ComputersScene ==
    /\ \/ scene = "reference" /\ ReferenceNext
       \/ scene = "pulse" /\ PulseNext
    /\ UNCHANGED <<artifactVars, goldenVars, cacheVars, budgetVars, publicationVars, auditVars, settlementVars, sourceVars, scene>>

SettlementScene ==
    /\ \/ scene = "correlation" /\ CorrelationNext
       \/ scene = "recovery" /\ RecoveryNext
       \/ scene = "coherence" /\ CoherenceNext
       \/ scene = "legal" /\ LegalNext
    /\ UNCHANGED <<artifactVars, goldenVars, cacheVars, budgetVars, publicationVars, auditVars, computersVars, sourceVars, scene>>

SourcesScene ==
    /\ \/ scene = "generations" /\ GenerationsNext
       \/ scene = "roots" /\ TrustRootsNext
    /\ UNCHANGED <<artifactVars, goldenVars, cacheVars, budgetVars, publicationVars, auditVars, computersVars, settlementVars, scene>>

ArtifactsScene ==
    /\ scene = "artifacts" /\ ArtifactsNext
    /\ UNCHANGED <<goldenVars, cacheVars, budgetVars, publicationVars, auditVars, computersVars, settlementVars>>
    /\ UNCHANGED <<sourceVars, scene>>

MCNext ==
    \/ GoldenScene \/ CacheScene \/ BudgetScene \/ PublicationScene
    \/ AuditScene \/ ComputersScene \/ SettlementScene \/ SourcesScene \/ ArtifactsScene

MCSpec == MCInit /\ [][MCNext]_mcVars

=============================================================================
