------------------------------ MODULE Placement ------------------------------
(***************************************************************************)
(* Which worker gets a lease: the runner registry and its heartbeats       *)
(* (services/api/runner_register.go), runtime advertisements               *)
(* (runner_abi.go, packages/abi), and the checks a claim (leases.go,       *)
(* claim_abi_gate.go) and a placement reservation                          *)
(* (placement_reservation_v2.go) pass one after the other, each with a     *)
(* read of its own, before the store grants.  Requests of one API process  *)
(* interleave at every read and write of the registry.  A caller acts as   *)
(* the runner its token names.  Each work has one ready node.              *)
(***************************************************************************)
EXTENDS Scheduler

CONSTANTS
    PRunner,       \* runner ids, as ranks
    PWork,         \* works
    WorkView,      \* [PWork -> what the checks read of the work]
    PIdentity,     \* identities workers register with
    PRequest,      \* requests, numbered in the order of arrival
    PStale,        \* age at which a heartbeat is no longer fresh
    NoIdentity, NoRab, NoGrant, Unsent

VARIABLES
    registry,      \* "nil" until the first registration creates it
    identity,      \* runnerRegistry.byID, each with the age of its heartbeat
    rab,           \* runnerRegistry.abiByRunner
    controlKey,    \* whether the server verifies control tokens
    approved,      \* per work, whether passing evidence was recorded
    grant,        \* per work, the lease on its node
    pReq,          \* the requests
    pSeen          \* ghost: per request, what was so at some moment since it began

placementVars == <<registry, identity, rab, controlKey, approved, grant, pReq, pSeen>>

\* The laws of an advertisement: "control" comes with the token field.
LawfulRab(a) == a.control => a.token

RequiresControlToken(a) == a.token \/ a.control

\* gateClaimByRAB: nothing advertised, nothing gated; with a key the token must name this runner.
gateClaimByRAB(r, token) ==
    \/ rab[r] = NoRab
    \/ rab[r] # NoRab /\ ~RequiresControlToken(rab[r])
    \/ IF controlKey THEN token = "own" ELSE token # "none"

\* Faulty variant of runnerHasFreshHeartbeat: a draining runner counts.
FreshInAnyState(id) == id # NoIdentity /\ id.age < PStale

runnerHasFreshHeartbeat(id) == id # NoIdentity /\ id.life = "active" /\ id.age < PStale

runnerIsLivePoolMember(r, w) == runnerHasFreshHeartbeat(identity[r]) /\ WorkView[w].pool \in identity[r].pools

\* The scheduler's view of an identity: none of its dynamic signals is filled in.
runnersFromIdentities(r) ==
    [id |-> r, life |-> identity[r].life, os |-> identity[r].os, cpu |-> identity[r].cpu,
     trust |-> identity[r].trust, tenant |-> identity[r].tenant, labels |-> {},
     pools |-> identity[r].pools, netTools |-> FALSE,
     queue |-> 0, util |-> 0, cost |-> 0, success |-> 0, hits |-> 0, region |-> "", noise |-> 0]

poolRunnerMeetsWorkRequirements(r, w) ==
    identity[r] # NoIdentity /\ hardFilter(runnersFromIdentities(r), WorkView[w]) = ""

\* An unknown floor, and an empty one, is above every runner.
trustMeetsFloor(trust, floor) == TrustRank(floor) > 0 /\ TrustRank(trust) >= TrustRank(floor)

\* Evaluate: production access needs passing evidence, the floor and an active runner.
PolicyAllows(w, evidence, view) ==
    ~WorkView[w].prod \/ (evidence /\ trustMeetsFloor(view.trust, WorkView[w].trust) /\ view.life = "active")

UnknownView == [trust |-> "untrusted", life |-> "active"]
ViewOf(id) == IF id = NoIdentity THEN UnknownView ELSE [trust |-> id.trust, life |-> id.life]

-----------------------------------------------------------------------------
InFlight(q) == pReq[q] # Unsent /\ pReq[q].at \notin {"done", "refused"}
Next_(q) == pReq[q] = Unsent /\ \A p \in PRequest : p < q => pReq[p] # Unsent

\* Of a request that was refused nothing matters any more.
Refusal == [kind |-> "refused", at |-> "refused"]
Moves(q, req) == pReq' = [pReq EXCEPT ![q] = IF req.at = "refused" THEN Refusal ELSE req]
Goes(q, at) == Moves(q, [pReq[q] EXCEPT !.at = at])

NoRegistry == [r \in PRunner |-> NoIdentity]
NoRabs == [r \in PRunner |-> NoRab]

PlacementInit ==
    /\ \/ registry = "nil" /\ identity = NoRegistry
       \/ registry = "made" /\ \E in \in PIdentity :
              identity = [r \in PRunner |-> [in EXCEPT !.age = 0]]
    /\ rab = NoRabs
    /\ controlKey \in BOOLEAN
    /\ approved = [w \in PWork |-> FALSE]
    /\ grant = [w \in PWork |-> NoGrant]
    /\ pReq = [q \in PRequest |-> Unsent]
    /\ pSeen = [q \in PRequest |-> {}]

\* registerRunner: the owner, the shape, and the look at the registry pointer.
BeginRegister(q, r, in) ==
    /\ Next_(q)
    /\ Moves(q, [kind |-> "register", at |-> "look", r |-> r, in |-> in,
                 got |-> NoIdentity, nil |-> registry = "nil"])
    /\ UNCHANGED <<registry, identity, rab, controlKey, approved, grant>>

\* Whoever saw no registry makes one, also when another request has made one meanwhile; then the heartbeat
\* is stamped and the old record read.
LookUp(q) ==
    LET req == pReq[q]
        ids == IF req.nil THEN NoRegistry ELSE identity
    IN  /\ InFlight(q) /\ req.kind = "register" /\ req.at = "look"
        /\ registry' = "made"
        /\ identity' = ids
        /\ rab' = IF req.nil THEN NoRabs ELSE rab
        /\ Moves(q, [req EXCEPT !.at = "put", !.got = ids[req.r], !.in.age = 0])
        /\ UNCHANGED <<controlKey, approved, grant>>

\* The merged record: everything of the new registration, and the tenant of the old one if the new has none.
Merged(got, in) ==
    IF got # NoIdentity /\ in.tenant = "" THEN [in EXCEPT !.tenant = got.tenant] ELSE in

PutIdentity(q) ==
    LET req == pReq[q]
    IN  /\ InFlight(q) /\ req.kind = "register" /\ req.at = "put"
        /\ identity' = [identity EXCEPT ![req.r] = Merged(req.got, req.in)]
        /\ Moves(q, [kind |-> "register", at |-> "done", r |-> req.r])
        /\ UNCHANGED <<registry, rab, controlKey, approved, grant>>

\* postRunnerABI: only a registered runner advertises; then the parsed, lawful document is stored.
BeginABI(q, r, a) ==
    /\ Next_(q)
    /\ Moves(q, [kind |-> "abi", at |-> IF identity[r] # NoIdentity /\ LawfulRab(a) THEN "put" ELSE "refused",
                 r |-> r, abi |-> a])
    /\ UNCHANGED <<registry, identity, rab, controlKey, approved, grant>>

PutABI(q) ==
    LET req == pReq[q]
    IN  /\ InFlight(q) /\ req.kind = "abi" /\ req.at = "put"
        /\ rab' = [rab EXCEPT ![req.r] = req.abi]
        /\ Moves(q, [kind |-> "abi", at |-> "done", r |-> req.r])
        /\ UNCHANGED <<registry, identity, controlKey, approved, grant>>

-----------------------------------------------------------------------------
(* Claims and reservations. *)

AtCheck(q, at) == InFlight(q) /\ pReq[q].kind \in {"claim", "reserve"} /\ pReq[q].at = at
Passes(q, ok, at) == Goes(q, IF ok THEN at ELSE "refused")
RegistryKept == UNCHANGED <<registry, identity, rab, controlKey, approved>>

\* grantLease: the fields, the owner and the advertisement.
BeginClaim(q, r, w, token) ==
    /\ Next_(q)
    /\ Moves(q, [kind |-> "claim", at |-> IF gateClaimByRAB(r, token) THEN "pool" ELSE "refused",
                 r |-> r, w |-> w, token |-> token, evidence |-> FALSE, view |-> UnknownView])
    /\ RegistryKept /\ UNCHANGED grant

\* reservePlacementV2: the work, and the selected worker's record with a fresh heartbeat.
BeginReserve(q, r, w) ==
    /\ Next_(q)
    /\ Moves(q, [kind |-> "reserve", at |-> IF runnerHasFreshHeartbeat(identity[r]) THEN "pool" ELSE "refused",
                 r |-> r, w |-> w, token |-> "none", evidence |-> approved[w], view |-> ViewOf(identity[r])])
    /\ RegistryKept /\ UNCHANGED grant

\* A claim reads its work here; both ask for live membership of the work's pool.
CheckPool(q) ==
    LET req == pReq[q]
        ok == WorkView[req.w].pool = "" \/ runnerIsLivePoolMember(req.r, req.w)
    IN  /\ AtCheck(q, "pool")
        /\ Moves(q, [req EXCEPT !.at = IF ok THEN "fit" ELSE "refused",
                                !.evidence = IF req.kind = "claim" THEN approved[req.w] ELSE @])
        /\ RegistryKept /\ UNCHANGED grant

\* A claim of a work without a pool is not held against the work's requirements.
CheckFit(q) ==
    LET req == pReq[q]
    IN  /\ AtCheck(q, "fit")
        /\ Passes(q, \/ req.kind = "claim" /\ WorkView[req.w].pool = ""
                     \/ poolRunnerMeetsWorkRequirements(req.r, req.w), "policy")
        /\ RegistryKept /\ UNCHANGED grant

\* A claim's policy view is read now, a reservation's was read at its beginning.
CheckPolicy(q) ==
    LET req == pReq[q]
        view == IF req.kind = "claim" THEN ViewOf(identity[req.r]) ELSE req.view
    IN  /\ AtCheck(q, "policy")
        /\ Passes(q, PolicyAllows(req.w, req.evidence, view), "grant")
        /\ RegistryKept /\ UNCHANGED grant

\* GrantLease and GrantPlacementLease refuse a node that is leased.
Grant(q) ==
    LET req == pReq[q]
        free == grant[req.w] = NoGrant
    IN  /\ AtCheck(q, "grant")
        /\ Passes(q, free, "done")
        /\ grant' = IF free THEN [grant EXCEPT ![req.w] = q] ELSE grant
        /\ RegistryKept

\* A heartbeat interval passes, for the registry and for records under way to it.
BeatInterval ==
    /\ \E r \in PRunner : identity[r] # NoIdentity /\ identity[r].age < PStale
    /\ identity' = [r \in PRunner |-> IF identity[r] = NoIdentity THEN NoIdentity
                                      ELSE [identity[r] EXCEPT !.age = IF @ < PStale THEN @ + 1 ELSE @]]
    /\ pReq' = [q \in PRequest |->
                  IF ~(InFlight(q) /\ pReq[q].kind = "register" /\ pReq[q].at = "put") THEN pReq[q]
                  ELSE [pReq[q] EXCEPT !.in.age = IF @ < PStale THEN @ + 1 ELSE @]]
    /\ UNCHANGED <<registry, rab, controlKey, approved, grant>>

\* Passing evidence arrives for a work that asks for it.
Approve(w) ==
    /\ WorkView[w].prod /\ ~approved[w]
    /\ approved' = [approved EXCEPT ![w] = TRUE]
    /\ UNCHANGED <<registry, identity, rab, controlKey, grant, pReq>>

PlacementStep ==
    \/ \E q \in PRequest :
          \/ \E r \in PRunner :
                \/ \E in \in PIdentity : BeginRegister(q, r, in)
                \/ \E control, token \in BOOLEAN : BeginABI(q, r, [control |-> control, token |-> token])
                \/ \E w \in PWork : BeginReserve(q, r, w)
                \/ \E w \in PWork, token \in {"none", "other", "own"} : BeginClaim(q, r, w, token)
          \/ LookUp(q) \/ PutIdentity(q) \/ PutABI(q)
          \/ CheckPool(q) \/ CheckFit(q) \/ CheckPolicy(q) \/ Grant(q)
    \/ BeatInterval
    \/ \E w \in PWork : Approve(w)

\* What is so now of the runner and the work of a claim or a reservation.
FactsOf(q) ==
    LET r == pReq[q].r  w == pReq[q].w
        known == identity[r] # NoIdentity
        so == [tokenless |-> ~(rab[r] # NoRab /\ (rab[r].token \/ rab[r].control)),
               live |-> known /\ identity[r].life = "active" /\ identity[r].age < PStale,
               member |-> known /\ WorkView[w].pool \in identity[r].pools,
               fit |-> known /\ hardFilter(runnersFromIdentities(r), WorkView[w]) = "",
               trusted |-> TrustRank(ViewOf(identity[r]).trust) >= TrustRank(WorkView[w].trust)]
    IN  {fact \in DOMAIN so : so[fact]}

Watched(q) == InFlight(q) /\ pReq[q].kind \in {"claim", "reserve"}

PlacementNext ==
    /\ PlacementStep
    /\ pSeen' = [q \in PRequest |-> IF ~Watched(q) THEN pSeen[q]
                                    ELSE IF pReq'[q].at = "refused" THEN {}
                                    ELSE pSeen[q] \cup FactsOf(q)]

PlacementSpec == PlacementInit /\ [][PlacementNext]_placementVars

-----------------------------------------------------------------------------
(* What /v1/workers/ready offers, by the snapshot of the registry it takes. *)

LiveRunners == {r \in PRunner : runnerHasFreshHeartbeat(identity[r])}
LegacyEligible == {r \in PRunner : identity[r] # NoIdentity /\ identity[r].age < PStale}

\* Select over the candidates finds one; without a candidate only a work without a pool goes out, unscheduled.
Offered(w) ==
    LET candidates == IF WorkView[w].pool # "" THEN LiveRunners ELSE LegacyEligible
    IN  /\ grant[w] = NoGrant
        /\ IF candidates = {} THEN WorkView[w].pool = ""
           ELSE \E r \in candidates : hardFilter(runnersFromIdentities(r), WorkView[w]) = ""

-----------------------------------------------------------------------------
(* What the checks of a grant are worth when the registry moves under them. *)

Grants == {q \in PRequest : pReq[q] # Unsent /\ pReq[q].kind \in {"claim", "reserve"} /\ pReq[q].at = "done"}

\* A lease on pool-scoped work went to a worker that, while its request was being served, was active with
\* a fresh heartbeat, carried the pool's label and met the work's hard requirements - though perhaps not
\* all at one moment, since every check of grantLease and reservePlacementV2 reads the registry anew.
PoolLeaseWasEarned ==
    \A q \in Grants : WorkView[pReq[q].w].pool # "" => {"live", "member", "fit"} \subseteq pSeen[q]

\* A worker whose runtime advertised control throughout its claim had a control token, its own when the
\* server verifies them.
ControlClaimIsTokened ==
    \A q \in Grants :
        pReq[q].kind = "claim" /\ "tokenless" \notin pSeen[q]
            => pReq[q].token = "own" \/ (~controlKey /\ pReq[q].token # "none")

\* A lease on work with production access went to a worker of at least the work's trust class (one that is
\* not registered counts as untrusted), after passing evidence had been recorded.
ProductionLeaseIsApproved ==
    \A q \in Grants : WorkView[pReq[q].w].prod => approved[pReq[q].w] /\ "trusted" \in pSeen[q]

\* A pool-scoped work without production access is offered exactly when some worker's claim of it would
\* pass in this very state: /ready and grantLease draw the same boundary.
OfferAndGrantAgree ==
    \A w \in PWork :
        WorkView[w].pool # "" /\ ~WorkView[w].prod /\ grant[w] = NoGrant =>
            (Offered(w) <=> \E r \in PRunner : runnerIsLivePoolMember(r, w) /\ poolRunnerMeetsWorkRequirements(r, w))

\* Every check between an offer and a lease counts: the pool's, the control token's and the production policy's,
\* and /ready offers what the grant would pass.
LeaseWasEarned ==
    PoolLeaseWasEarned /\ ControlClaimIsTokened /\ ProductionLeaseIsApproved /\ OfferAndGrantAgree

=============================================================================
