---------------------------- MODULE Nodes_proofs ----------------------------
(***************************************************************************)
(* Proofs about a node that runs, for every set of runners, works,         *)
(* identities, jobs and attempts and any number of faults: the checks a    *)
(* worker passes before it gets the lease, what runs on its host and what  *)
(* is left there, and the records of what it did. The three share no       *)
(* variable; each has its own inductive invariant.                         *)
(***************************************************************************)
EXTENDS NodeExecution, Placement, EvidenceRecords, TLAPS

-----------------------------------------------------------------------------
(* The placement: a lease passed every check. *)

\* A claim or a reservation that was not refused.
Serving(q) == pReq[q] # Unsent /\ pReq[q].kind \in {"claim", "reserve"}

Tokened(q) == pReq[q].token = "own" \/ (~controlKey /\ pReq[q].token # "none")
Tokenless(r) == ~(rab[r] # NoRab /\ (rab[r].token \/ rab[r].control))
Trusts(trust, w) == TrustRank(trust) >= TrustRank(WorkView[w].trust)

\* What a request is made of.
RequestShape(q) ==
    /\ pReq[q] # Unsent => {"kind", "at"} \subseteq DOMAIN pReq[q]
    /\ Serving(q) =>
         /\ DOMAIN pReq[q] = {"kind", "at", "r", "w", "token", "evidence", "view"}
         /\ pReq[q].at \in {"pool", "fit", "policy", "grant", "done"}
         /\ pReq[q].r \in PRunner /\ pReq[q].w \in PWork /\ pReq[q].evidence \in BOOLEAN

\* What the checks passed so far have seen: each was so at a moment since the request began, or, for what is read
\* as the request begins, is so still.
Earned(q) ==
    Serving(q) =>
        LET req == pReq[q]
        IN  /\ WorkView[req.w].pool # "" /\ req.at # "pool" => {"live", "member"} \subseteq pSeen[q]
            /\ WorkView[req.w].pool # "" /\ req.at \notin {"pool", "fit"} => "fit" \in pSeen[q]
            /\ req.kind = "claim" =>
                 Tokened(q) \/ "tokenless" \in pSeen[q] \/ (req.at # "done" /\ Tokenless(req.r))
            /\ req.evidence => approved[req.w]
            /\ req.kind = "reserve" /\ req.at \in {"pool", "fit", "policy"} /\ Trusts(req.view.trust, req.w) =>
                 "trusted" \in pSeen[q] \/ Trusts(ViewOf(identity[req.r]).trust, req.w)
            /\ WorkView[req.w].prod /\ req.at \in {"grant", "done"} => approved[req.w] /\ "trusted" \in pSeen[q]

PlacementInv ==
    /\ approved \in [PWork -> BOOLEAN]
    /\ DOMAIN pReq = PRequest /\ DOMAIN pSeen = PRequest
    /\ \A q \in PRequest : RequestShape(q) /\ Earned(q)

-----------------------------------------------------------------------------
\* The facts of a request by their names.
LEMMA FactsAre ==
    ASSUME NEW q
    PROVE  LET r == pReq[q].r  w == pReq[q].w IN
           /\ "tokenless" \in FactsOf(q) <=> Tokenless(r)
           /\ "live" \in FactsOf(q) <=> runnerHasFreshHeartbeat(identity[r])
           /\ "member" \in FactsOf(q) <=> identity[r] # NoIdentity /\ WorkView[w].pool \in identity[r].pools
           /\ "fit" \in FactsOf(q) <=> poolRunnerMeetsWorkRequirements(r, w)
           /\ "trusted" \in FactsOf(q) <=> Trusts(ViewOf(identity[r]).trust, w)
  BY Zenon DEF FactsOf, Tokenless, runnerHasFreshHeartbeat, poolRunnerMeetsWorkRequirements, Trusts

\* What was seen stays seen, and what is so now of a request in flight will have been seen.
LEMMA SeenGrows ==
    ASSUME PlacementInv, PlacementNext, NEW q \in PRequest, Serving(q), pReq'[q].at # "refused"
    PROVE  pSeen[q] \subseteq pSeen'[q] /\ (pReq[q].at # "done" => FactsOf(q) \subseteq pSeen'[q])
<1>1. pSeen'[q] = IF ~Watched(q) THEN pSeen[q]
                  ELSE IF pReq'[q].at = "refused" THEN {}
                  ELSE pSeen[q] \cup FactsOf(q)
  BY Zenon DEF PlacementNext
<1>2. pReq[q].at # "done" => Watched(q)
  BY Zenon DEF Watched, InFlight, Serving, PlacementInv, RequestShape
<1> QED BY Zenon, <1>1, <1>2

\* A request keeps what it earned while others take their steps.
LEMMA OthersKeep ==
    ASSUME PlacementInv, PlacementNext, NEW q \in PRequest, pReq'[q] = pReq[q],
           UNCHANGED controlKey, \A w \in PWork : approved[w] => approved'[w]
    PROVE  RequestShape(q)' /\ Earned(q)'
<1>1. RequestShape(q) /\ Earned(q)
  BY Zenon DEF PlacementInv
<1>2. RequestShape(q)'
  BY Zenon, <1>1 DEF RequestShape, Serving
<1>3. CASE ~Serving(q)
  BY Zenon, <1>2, <1>3 DEF Earned, Serving
<1>4. CASE Serving(q)
  <2>1. pSeen[q] \subseteq pSeen'[q] /\ (pReq[q].at # "done" => FactsOf(q) \subseteq pSeen'[q])
    BY Zenon, <1>1, <1>4, SeenGrows DEF RequestShape
  <2>2. Tokened(q)' <=> Tokened(q)
    BY Zenon DEF Tokened
  <2>3. pReq[q].w \in PWork
    BY Zenon, <1>1, <1>4 DEF RequestShape
  <2> QED BY Zenon, <1>1, <1>2, <1>4, <2>1, <2>2, <2>3, FactsAre DEF Earned, Serving
<1> QED BY Zenon, <1>3, <1>4

\* Of a request that is not for a lease nothing is asked, nor of a refused one.
LEMMA NotServing ==
    ASSUME NEW q \in PRequest, pReq'[q].kind \notin {"claim", "reserve"}, {"kind", "at"} \subseteq DOMAIN pReq'[q]
    PROVE  RequestShape(q)' /\ Earned(q)'
  BY Zenon DEF RequestShape, Earned, Serving

\* What Moves makes of the requests.
LEMMA MovesOne ==
    ASSUME PlacementInv, NEW q \in PRequest, NEW req, Moves(q, req)
    PROVE  /\ DOMAIN pReq' = PRequest
           /\ \A p \in PRequest \ {q} : pReq'[p] = pReq[p]
           /\ req.at = "refused" => pReq'[q] = Refusal
           /\ req.at # "refused" => pReq'[q] = req
  BY Zenon DEF Moves, PlacementInv

\* The first request has earned nothing.
LEMMA InitPlacement == PlacementInit => PlacementInv
  BY Zenon DEF PlacementInit, PlacementInv, RequestShape, Earned, Serving

\* A check that fails refuses the request.
LEMMA RefusedKeeps ==
    ASSUME NEW q \in PRequest, pReq'[q] = Refusal
    PROVE  RequestShape(q)' /\ Earned(q)'
  BY NotServing DEF Refusal

\* A new claim has passed the gate of the advertisement.
LEMMA ClaimBegins ==
    ASSUME PlacementInv, NEW q \in PRequest, NEW r \in PRunner, NEW w \in PWork, NEW token,
           BeginClaim(q, r, w, token)
    PROVE  RequestShape(q)' /\ Earned(q)'
<1> DEFINE req == [kind |-> "claim", at |-> IF gateClaimByRAB(r, token) THEN "pool" ELSE "refused",
                   r |-> r, w |-> w, token |-> token, evidence |-> FALSE, view |-> UnknownView]
<1>1. Moves(q, req)
  BY Zenon DEF BeginClaim
<1>2. /\ DOMAIN req = {"kind", "at", "r", "w", "token", "evidence", "view"}
      /\ req.kind = "claim" /\ req.r = r /\ req.w = w /\ req.token = token
      /\ gateClaimByRAB(r, token) => req.at = "pool"
      /\ ~gateClaimByRAB(r, token) => req.at = "refused"
  BY Zenon
<1>3. req.evidence = FALSE
  BY Zenon
<1>4. rab' = rab /\ controlKey' = controlKey
  BY Zenon DEF BeginClaim, RegistryKept
<1> HIDE DEF req
<1>5. CASE ~gateClaimByRAB(r, token)
  BY Zenon, <1>1, <1>2, <1>5, MovesOne, RefusedKeeps
<1>6. CASE gateClaimByRAB(r, token)
  <2>1. pReq'[q] = req
    BY Zenon, <1>1, <1>2, <1>6, MovesOne
  <2>2. Tokenless(r)' \/ Tokened(q)'
    BY Zenon, <1>2, <1>4, <1>6, <2>1 DEF gateClaimByRAB, RequiresControlToken, Tokenless, Tokened
  <2>3. RequestShape(q)'
    BY <1>2, <1>3, <1>6, <2>1, Zenon DEF RequestShape
  <2> QED BY Zenon, <1>2, <1>3, <1>6, <2>1, <2>2, <2>3 DEF Earned
<1> QED BY Zenon, <1>5, <1>6

\* A new reservation has the worker's record and the work's evidence as they are.
LEMMA ReserveBegins ==
    ASSUME PlacementInv, NEW q \in PRequest, NEW r \in PRunner, NEW w \in PWork, BeginReserve(q, r, w)
    PROVE  RequestShape(q)' /\ Earned(q)'
<1> DEFINE req == [kind |-> "reserve", at |-> "pool", r |-> r, w |-> w, token |-> "none",
                   evidence |-> approved[w], view |-> ViewOf(identity[r])]
<1>1. pReq'[q] = IF runnerHasFreshHeartbeat(identity[r]) THEN req ELSE Refusal
  BY MovesOne DEF BeginReserve
<1>2. CASE ~runnerHasFreshHeartbeat(identity[r])
  BY <1>1, <1>2, NotServing DEF Refusal
<1>3. CASE runnerHasFreshHeartbeat(identity[r])
  <2>1. identity' = identity /\ approved' = approved
    BY Zenon DEF BeginReserve, RegistryKept
  <2>2. approved[w] \in BOOLEAN
    BY Zenon DEF PlacementInv
  <2>3. RequestShape(q)'
    BY <1>1, <1>3, <2>2 DEF RequestShape
  <2> QED BY <1>1, <1>3, <2>1, <2>3 DEF Earned
<1> QED BY Zenon, <1>2, <1>3

\* A check that passes moves the request on and sees what is so; what it had is not lost.
LEMMA CheckKeeps ==
    ASSUME PlacementInv, PlacementNext, NEW q \in PRequest, Serving(q), pReq[q].at # "done",
           RegistryKept, NEW at \in {"fit", "policy", "grant", "done"}, NEW ev \in BOOLEAN,
           pReq'[q] = [pReq[q] EXCEPT !.at = at, !.evidence = ev],
           ev => approved[pReq[q].w],
           LET req == pReq[q] IN
             /\ WorkView[req.w].pool # "" => {"live", "member"} \subseteq pSeen'[q]
             /\ WorkView[req.w].pool # "" /\ at # "fit" => "fit" \in pSeen'[q]
             /\ at \in {"fit", "policy"} => req.at \in {"pool", "fit"}
             /\ WorkView[req.w].prod /\ at \in {"grant", "done"} => approved[req.w] /\ "trusted" \in pSeen'[q]
    PROVE  RequestShape(q)' /\ Earned(q)'
<1>1. RequestShape(q) /\ Earned(q)
  BY Zenon DEF PlacementInv
<1>2. /\ DOMAIN pReq'[q] = DOMAIN pReq[q] /\ pReq'[q].at = at /\ pReq'[q].evidence = ev
      /\ pReq'[q].kind = pReq[q].kind /\ pReq'[q].r = pReq[q].r /\ pReq'[q].w = pReq[q].w
      /\ pReq'[q].token = pReq[q].token /\ pReq'[q].view = pReq[q].view
  BY Zenon, <1>1 DEF RequestShape
<1>3. RequestShape(q)'
  BY Zenon, <1>1, <1>2 DEF RequestShape, Serving
<1>4. pSeen[q] \subseteq pSeen'[q] /\ FactsOf(q) \subseteq pSeen'[q]
  BY Zenon, <1>2, SeenGrows
<1>5. identity' = identity /\ rab' = rab /\ controlKey' = controlKey /\ approved' = approved
  BY Zenon DEF RegistryKept
<1>6. pReq[q].kind = "claim" => Tokened(q)' \/ "tokenless" \in pSeen'[q]
  BY Zenon, <1>1, <1>2, <1>4, <1>5, FactsAre DEF Earned, Tokened
<1>7. pReq[q].kind = "reserve" /\ at \in {"fit", "policy"} /\ Trusts(pReq[q].view.trust, pReq[q].w) =>
        "trusted" \in pSeen'[q]
  BY Zenon, <1>1, <1>4, FactsAre DEF Earned
<1> QED BY Zenon, <1>2, <1>3, <1>5, <1>6, <1>7 DEF Earned

\* What a check's step makes of its request: on to the next check, or refused.
LEMMA GoesOne ==
    ASSUME PlacementInv, NEW q \in PRequest, Serving(q), NEW at, Goes(q, at)
    PROVE  /\ at = "refused" => pReq'[q] = Refusal
           /\ at # "refused" => pReq'[q] = [pReq[q] EXCEPT !.at = at, !.evidence = pReq[q].evidence]
<1>1. "at" \in DOMAIN pReq[q] /\ "evidence" \in DOMAIN pReq[q]
  BY Zenon DEF PlacementInv, RequestShape
<1>2. [pReq[q] EXCEPT !.at = at, !.evidence = pReq[q].evidence] = [pReq[q] EXCEPT !.at = at]
  BY <1>1, Zenon
<1>3. [pReq[q] EXCEPT !.at = at].at = at
  BY Zenon, <1>1
<1> QED BY <1>2, <1>3, MovesOne, Zenon DEF Goes

\* The pool check sees a live member of the pool.
LEMMA PoolKeeps ==
    ASSUME PlacementInv, PlacementNext, NEW q \in PRequest, CheckPool(q)
    PROVE  RequestShape(q)' /\ Earned(q)'
<1> DEFINE req == pReq[q]
           ok == WorkView[req.w].pool = "" \/ runnerIsLivePoolMember(req.r, req.w)
           ev == IF req.kind = "claim" THEN approved[req.w] ELSE req.evidence
<1>1. Serving(q) /\ req.at = "pool" /\ RegistryKept
  BY Zenon DEF CheckPool, AtCheck, InFlight, Serving
<1>2. /\ "at" \in DOMAIN req /\ "evidence" \in DOMAIN req /\ req.w \in PWork /\ req.evidence \in BOOLEAN
      /\ req.evidence => approved[req.w]
  BY Zenon, <1>1 DEF PlacementInv, RequestShape, Earned
<1>3. CASE ~ok
  <2>1. [req EXCEPT !.at = "refused", !.evidence = ev].at = "refused"
    BY Zenon, <1>2
  <2>2. pReq'[q] = Refusal
    BY ZenonT(60), <1>3, <2>1, MovesOne DEF CheckPool
  <2> QED BY Zenon, <2>2, RefusedKeeps
<1>4. CASE ok
  <2>1. [req EXCEPT !.at = "fit", !.evidence = ev].at = "fit"
    BY Zenon, <1>2
  <2>2. pReq'[q] = [req EXCEPT !.at = "fit", !.evidence = ev]
    BY Zenon, <1>4, <2>1, MovesOne DEF CheckPool
  <2>3. ev \in BOOLEAN /\ (ev => approved[req.w])
    BY Zenon, <1>2 DEF PlacementInv
  <2>4. pReq'[q].at # "refused"
    BY Zenon, <2>1, <2>2
  <2>5. FactsOf(q) \subseteq pSeen'[q]
    BY Zenon, <1>1, <2>4, SeenGrows
  <2>6. WorkView[req.w].pool # "" => {"live", "member"} \subseteq pSeen'[q]
    BY Zenon, <1>4, <2>5, FactsAre DEF runnerIsLivePoolMember, runnerHasFreshHeartbeat
  <2> HIDE DEF ev
  <2> QED BY <1>1, <2>2, <2>3, <2>6, CheckKeeps, Zenon
<1> QED BY Zenon, <1>3, <1>4

\* The check of the requirements sees a worker that fits.
LEMMA FitKeeps ==
    ASSUME PlacementInv, PlacementNext, NEW q \in PRequest, CheckFit(q)
    PROVE  RequestShape(q)' /\ Earned(q)'
<1> DEFINE req == pReq[q]
           ok == \/ req.kind = "claim" /\ WorkView[req.w].pool = ""
                 \/ poolRunnerMeetsWorkRequirements(req.r, req.w)
<1>1. Serving(q) /\ req.at = "fit" /\ RegistryKept
  BY Zenon DEF CheckFit, AtCheck, InFlight, Serving
<1>3. CASE ~ok
  <2>1. Goes(q, "refused")
    BY Zenon, <1>3 DEF CheckFit, Passes
  <2> QED BY <1>1, <2>1, GoesOne, RefusedKeeps, Zenon
<1>4. CASE ok
  <2>0. Goes(q, "policy")
    BY Zenon, <1>4 DEF CheckFit, Passes
  <2>9. pReq'[q] = [req EXCEPT !.at = "policy", !.evidence = req.evidence]
    BY <1>1, <2>0, GoesOne, Zenon
  <2>1. "at" \in DOMAIN req /\ req.evidence \in BOOLEAN /\ Earned(q)
    BY Zenon, <1>1 DEF PlacementInv, RequestShape
  <2>2. pSeen[q] \subseteq pSeen'[q] /\ FactsOf(q) \subseteq pSeen'[q]
    BY <1>1, <2>1, <2>9, SeenGrows, Zenon
  <2>3. WorkView[req.w].pool # "" => {"live", "member", "fit"} \subseteq pSeen'[q]
    BY Zenon, <1>1, <1>4, <2>1, <2>2, FactsAre DEF Earned
  <2>4. req.evidence => approved[req.w]
    BY Zenon, <1>1, <2>1 DEF Earned
  <2> QED BY <1>1, <2>9, <2>1, <2>3, <2>4, CheckKeeps, Zenon
<1> QED BY Zenon, <1>3, <1>4

\* The policy check passes production work with evidence, to a worker of the work's trust class.
LEMMA PolicyKeeps ==
    ASSUME PlacementInv, PlacementNext, NEW q \in PRequest, CheckPolicy(q)
    PROVE  RequestShape(q)' /\ Earned(q)'
<1> DEFINE req == pReq[q]
           view == IF req.kind = "claim" THEN ViewOf(identity[req.r]) ELSE req.view
           ok == PolicyAllows(req.w, req.evidence, view)
<1>1. Serving(q) /\ req.at = "policy" /\ RegistryKept
  BY Zenon DEF CheckPolicy, AtCheck, InFlight, Serving
<1>3. CASE ~ok
  <2>1. Goes(q, "refused")
    BY Zenon, <1>3 DEF CheckPolicy, Passes
  <2> QED BY <1>1, <2>1, GoesOne, RefusedKeeps, Zenon
<1>4. CASE ok
  <2>0. Goes(q, "grant")
    BY Zenon, <1>4 DEF CheckPolicy, Passes
  <2>9. pReq'[q] = [req EXCEPT !.at = "grant", !.evidence = req.evidence]
    BY <1>1, <2>0, GoesOne, Zenon
  <2>1. "at" \in DOMAIN req /\ req.evidence \in BOOLEAN /\ Earned(q)
    BY Zenon, <1>1 DEF PlacementInv, RequestShape
  <2>2. pSeen[q] \subseteq pSeen'[q] /\ FactsOf(q) \subseteq pSeen'[q]
    BY <1>1, <2>1, <2>9, SeenGrows, Zenon
  <2>3. WorkView[req.w].pool # "" => {"live", "member", "fit"} \subseteq pSeen'[q]
    BY Zenon, <1>1, <2>1, <2>2 DEF Earned
  <2>4. req.evidence => approved[req.w]
    BY Zenon, <1>1, <2>1 DEF Earned
  <2>5. WorkView[req.w].prod => req.evidence /\ Trusts(view.trust, req.w)
    BY Zenon, <1>4 DEF PolicyAllows, trustMeetsFloor, Trusts
  <2>6. WorkView[req.w].prod => "trusted" \in pSeen'[q]
    BY Zenon, <1>1, <2>1, <2>2, <2>5, FactsAre DEF Earned, Serving
  <2> HIDE DEF view
  <2> QED BY <1>1, <2>9, <2>1, <2>3, <2>4, <2>5, <2>6, CheckKeeps, Zenon
<1> QED BY Zenon, <1>3, <1>4

\* The grant is the last step of a request that has earned it.
LEMMA GrantKeeps ==
    ASSUME PlacementInv, PlacementNext, NEW q \in PRequest, Grant(q)
    PROVE  RequestShape(q)' /\ Earned(q)'
<1> DEFINE req == pReq[q]
           ok == grant[req.w] = NoGrant
<1>1. Serving(q) /\ req.at = "grant" /\ RegistryKept
  BY Zenon DEF Grant, AtCheck, InFlight, Serving
<1>3. CASE ~ok
  <2>1. Goes(q, "refused")
    BY Zenon, <1>3 DEF Grant, Passes
  <2> QED BY <1>1, <2>1, GoesOne, RefusedKeeps, Zenon
<1>4. CASE ok
  <2>0. Goes(q, "done")
    BY Zenon, <1>4 DEF Grant, Passes
  <2>9. pReq'[q] = [req EXCEPT !.at = "done", !.evidence = req.evidence]
    BY <1>1, <2>0, GoesOne, Zenon
  <2>1. "at" \in DOMAIN req /\ req.evidence \in BOOLEAN /\ Earned(q)
    BY Zenon, <1>1 DEF PlacementInv, RequestShape
  <2>2. pSeen[q] \subseteq pSeen'[q]
    BY <1>1, <2>1, <2>9, SeenGrows, Zenon
  <2>3. /\ WorkView[req.w].pool # "" => {"live", "member", "fit"} \subseteq pSeen'[q]
        /\ WorkView[req.w].prod => approved[req.w] /\ "trusted" \in pSeen'[q]
        /\ req.evidence => approved[req.w]
    BY Zenon, <1>1, <2>1, <2>2 DEF Earned
  <2> QED BY <1>1, <2>9, <2>1, <2>3, CheckKeeps, Zenon
<1> QED BY Zenon, <1>3, <1>4

\* Every step keeps what the requests have earned.
LEMMA PlacementStepKeeps == PlacementInv /\ PlacementNext => PlacementInv'
<1> SUFFICES ASSUME PlacementInv, PlacementNext PROVE PlacementInv'
  BY Zenon
<1>0. DOMAIN pSeen' = PRequest
  BY Zenon DEF PlacementNext
<1>1. ASSUME NEW q \in PRequest, NEW req, Moves(q, req), UNCHANGED <<controlKey, approved>>,
             RequestShape(q)' /\ Earned(q)'
      PROVE  PlacementInv'
  <2>1. \A p \in PRequest \ {q} : RequestShape(p)' /\ Earned(p)'
    BY Zenon, <1>1, MovesOne, OthersKeep
  <2>2. DOMAIN pReq' = PRequest
    BY Zenon, <1>1, MovesOne
  <2> QED BY Zenon, <1>0, <1>1, <2>1, <2>2 DEF PlacementInv
<1>2. ASSUME NEW q \in PRequest, NEW r \in PRunner, NEW in, BeginRegister(q, r, in) PROVE PlacementInv'
  <2> DEFINE req == [kind |-> "register", at |-> "look", r |-> r, in |-> in,
                     got |-> NoIdentity, nil |-> registry = "nil"]
  <2>1. Moves(q, req) /\ UNCHANGED <<controlKey, approved>>
    BY Zenon, <1>2 DEF BeginRegister
  <2>2. pReq'[q] = req
    BY <2>1, MovesOne
  <2>3. RequestShape(q)' /\ Earned(q)'
    BY <2>2, NotServing
  <2> HIDE DEF req
  <2> QED BY Zenon, <1>1, <2>1, <2>3
<1>3. ASSUME NEW q \in PRequest, NEW r \in PRunner, NEW a, BeginABI(q, r, a) PROVE PlacementInv'
  <2> DEFINE req == [kind |-> "abi", at |-> IF identity[r] # NoIdentity /\ LawfulRab(a) THEN "put" ELSE "refused",
                     r |-> r, abi |-> a]
  <2>1. Moves(q, req) /\ UNCHANGED <<controlKey, approved>>
    BY Zenon, <1>3 DEF BeginABI
  <2>2. pReq'[q] = req \/ pReq'[q] = Refusal
    BY Zenon, <2>1, MovesOne
  <2>3. RequestShape(q)' /\ Earned(q)'
    BY <2>2, NotServing DEF Refusal
  <2> HIDE DEF req
  <2> QED BY Zenon, <1>1, <2>1, <2>3
<1>4. ASSUME NEW q \in PRequest, NEW r \in PRunner, NEW w \in PWork, BeginReserve(q, r, w) PROVE PlacementInv'
  BY Zenon, <1>1, <1>4, ReserveBegins DEF BeginReserve, RegistryKept
<1>5. ASSUME NEW q \in PRequest, NEW r \in PRunner, NEW w \in PWork, NEW token, BeginClaim(q, r, w, token)
      PROVE  PlacementInv'
  BY Zenon, <1>1, <1>5, ClaimBegins DEF BeginClaim, RegistryKept
<1>6. ASSUME NEW q \in PRequest, LookUp(q) PROVE PlacementInv'
  <2> DEFINE got == (IF pReq[q].nil THEN NoRegistry ELSE identity)[pReq[q].r]
             req == [pReq[q] EXCEPT !.at = "put", !.got = got, !.in.age = 0]
  <2>1. Moves(q, req) /\ UNCHANGED <<controlKey, approved>>
    BY Zenon, <1>6 DEF LookUp
  <2>2. {"kind", "at"} \subseteq DOMAIN pReq[q] /\ pReq[q].kind = "register"
    BY Zenon, <1>6 DEF LookUp, InFlight, PlacementInv, RequestShape
  <2>3. {"kind", "at"} \subseteq DOMAIN req /\ req.kind = "register" /\ req.at = "put"
    BY Zenon, <2>2
  <2> HIDE DEF req
  <2>4. pReq'[q] = req
    BY Zenon, <2>1, <2>3, MovesOne
  <2>5. RequestShape(q)' /\ Earned(q)'
    BY Zenon, <2>3, <2>4, NotServing
  <2> QED BY Zenon, <1>1, <2>1, <2>5
<1>7. ASSUME NEW q \in PRequest, PutIdentity(q) \/ PutABI(q) PROVE PlacementInv'
  <2>1. PICK kind \in {"register", "abi"} : Moves(q, [kind |-> kind, at |-> "done", r |-> pReq[q].r])
    BY Zenon, <1>7 DEF PutIdentity, PutABI
  <2>2. UNCHANGED <<controlKey, approved>>
    BY Zenon, <1>7 DEF PutIdentity, PutABI
  <2>3. pReq'[q] = [kind |-> kind, at |-> "done", r |-> pReq[q].r]
    BY <2>1, MovesOne
  <2>4. RequestShape(q)' /\ Earned(q)'
    BY <2>3, NotServing
  <2> QED BY Zenon, <1>1, <2>1, <2>2, <2>4
<1>8. ASSUME NEW q \in PRequest, CheckPool(q) PROVE PlacementInv'
  BY <1>1, <1>8, PoolKeeps, Zenon DEF CheckPool, RegistryKept
<1>9. ASSUME NEW q \in PRequest, CheckFit(q) PROVE PlacementInv'
  BY Zenon, <1>1, <1>9, FitKeeps DEF CheckFit, RegistryKept, Passes, Goes
<1>10. ASSUME NEW q \in PRequest, CheckPolicy(q) PROVE PlacementInv'
  BY Zenon, <1>1, <1>10, PolicyKeeps DEF CheckPolicy, RegistryKept, Passes, Goes
<1>11. ASSUME NEW q \in PRequest, Grant(q) PROVE PlacementInv'
  BY Zenon, <1>1, <1>11, GrantKeeps DEF Grant, RegistryKept, Passes, Goes
<1>12. ASSUME BeatInterval PROVE PlacementInv'
  <2>1. UNCHANGED <<controlKey, approved>> /\ DOMAIN pReq' = PRequest
    BY Zenon, <1>12 DEF BeatInterval
  <2>2. ASSUME NEW q \in PRequest PROVE RequestShape(q)' /\ Earned(q)'
    <3>1. CASE pReq'[q] = pReq[q]
      BY Zenon, <2>1, <3>1, OthersKeep
    <3>2. CASE pReq'[q] # pReq[q]
      <4>1. /\ pReq[q] # Unsent /\ pReq[q].kind = "register"
            /\ \E age : pReq'[q] = [pReq[q] EXCEPT !.in.age = age]
        BY <1>12, <3>2, Zenon DEF BeatInterval, InFlight
      <4>2. {"kind", "at"} \subseteq DOMAIN pReq[q]
        BY Zenon, <4>1 DEF PlacementInv, RequestShape
      <4>3. {"kind", "at"} \subseteq DOMAIN pReq'[q] /\ pReq'[q].kind = "register"
        BY Zenon, <4>1, <4>2
      <4> QED BY Zenon, <4>3, NotServing
    <3> QED BY Zenon, <3>1, <3>2
  <2> QED BY Zenon, <1>0, <2>1, <2>2 DEF PlacementInv
<1>13. ASSUME NEW w \in PWork, Approve(w) PROVE PlacementInv'
  <2>1. UNCHANGED <<controlKey, pReq>> /\ approved' = [approved EXCEPT ![w] = TRUE]
    BY Zenon, <1>13 DEF Approve
  <2>2. approved' \in [PWork -> BOOLEAN] /\ \A v \in PWork : approved[v] => approved'[v]
    BY Zenon, <2>1 DEF PlacementInv
  <2>3. \A q \in PRequest : RequestShape(q)' /\ Earned(q)'
    BY Zenon, <2>1, <2>2, OthersKeep
  <2>4. DOMAIN pReq' = PRequest
    BY Zenon, <2>1 DEF PlacementInv
  <2> QED BY Zenon, <1>0, <2>2, <2>3, <2>4 DEF PlacementInv
<1> QED
  BY <1>2, <1>3, <1>4, <1>5, <1>6, <1>7, <1>8, <1>9, <1>10, <1>11, <1>12, <1>13, Zenon DEF PlacementNext, PlacementStep

-----------------------------------------------------------------------------
\* A set of the numbers 1 to 8 has a least.
LEMMA HasLeast ==
    ASSUME NEW S \in SUBSET (1..8), S # {}
    PROVE  \E i \in S : \A j \in S : i <= j
<1>1. ASSUME NEW i \in S, \A j \in 1..8 : j < i => j \notin S
      PROVE  \E k \in S : \A j \in S : k <= j
  BY <1>1
<1>2. CASE 1 \in S
  BY <1>1, <1>2
<1>3. CASE 1 \notin S /\ 2 \in S
  BY <1>1, <1>3
<1>4. CASE 1 \notin S /\ 2 \notin S /\ 3 \in S
  BY <1>1, <1>4
<1>5. CASE 1 \notin S /\ 2 \notin S /\ 3 \notin S /\ 4 \in S
  BY <1>1, <1>5
<1>6. CASE S \cap 1..4 = {} /\ 5 \in S
  BY <1>1, <1>6
<1>7. CASE S \cap 1..5 = {} /\ 6 \in S
  BY <1>1, <1>7
<1>8. CASE S \cap 1..6 = {} /\ 7 \in S
  BY <1>1, <1>8
<1>9. CASE S \cap 1..7 = {} /\ 8 \in S
  BY <1>1, <1>9
<1>10. \E i \in 1..8 : i \in S
  BY Zenon
<1> QED BY <1>2, <1>3, <1>4, <1>5, <1>6, <1>7, <1>8, <1>9, <1>10

\* The numbers 1 to 8.
LEMMA OneToEight ==
    7 \in 1..8 /\ \A i \in 1..8 : \/ i = 1 \/ i = 2 \/ i = 3 \/ i = 4
                               \/ i = 5 \/ i = 6 \/ i = 7 \/ i = 8
  OBVIOUS

\* A runner that passes the hard constraints carries the label of the work's pool.
LEMMA PassingRunnerIsInPool ==
    ASSUME NEW r, NEW w, hardFilter(r, w) = "", w.pool # ""
    PROVE  w.pool \in r.pools
<1> DEFINE C == Constraints(r, w)
           broken == {i \in 1..8 : ~C[i][2]}
           first == CHOOSE i \in broken : \A j \in broken : i <= j
<1>1. C[7][2] = (w.pool = "" \/ w.pool \in r.pools)
  BY Zenon DEF Constraints
<1>2. /\ C[1][1] # "" /\ C[2][1] # "" /\ C[3][1] # "" /\ C[4][1] # ""
      /\ C[5][1] # "" /\ C[6][1] # "" /\ C[7][1] # "" /\ C[8][1] # ""
  BY Zenon DEF Constraints
<1> HIDE DEF C
<1>3. broken = {}
  <2> SUFFICES ASSUME broken # {} PROVE FALSE
    BY Zenon
  <2>1. \E i \in broken : \A j \in broken : i <= j
    <3>1. broken \in SUBSET (1..8)
      BY Zenon
    <3> HIDE DEF broken
    <3> QED BY Zenon, <3>1, HasLeast
  <2> HIDE DEF broken
  <2>2. first \in broken
    BY Zenon, <2>1
  <2>3. first \in 1..8
    BY Zenon, <2>2 DEF broken
  <2> HIDE DEF first
  <2>4. C[first][1] # ""
    BY <1>2, <2>3, OneToEight, Zenon
  <2>5. C[first][1] = ""
    BY Zenon DEF hardFilter, C, broken, first
  <2> QED BY Zenon, <2>4, <2>5
<1>4. C[7][2]
  BY <1>3, OneToEight, Zenon
<1> QED BY Zenon, <1>1, <1>4

\* /ready offers a pool-scoped work exactly when a claim of it would pass.
LEMMA OffersAgree == OfferAndGrantAgree
<1> SUFFICES ASSUME NEW w \in PWork, WorkView[w].pool # "", grant[w] = NoGrant
             PROVE  Offered(w) <=> \E r \in PRunner : runnerIsLivePoolMember(r, w) /\ poolRunnerMeetsWorkRequirements(r, w)
  BY Zenon DEF OfferAndGrantAgree
<1>1. Offered(w) <=> \E r \in PRunner : /\ runnerHasFreshHeartbeat(identity[r])
                                        /\ hardFilter(runnersFromIdentities(r), WorkView[w]) = ""
  BY Zenon DEF Offered, LiveRunners
<1>2. \A r : hardFilter(runnersFromIdentities(r), WorkView[w]) = "" => WorkView[w].pool \in runnersFromIdentities(r).pools
  BY Zenon, PassingRunnerIsInPool
<1>3. \A r : runnersFromIdentities(r).pools = identity[r].pools
  BY Zenon DEF runnersFromIdentities
<1>4. \A r : runnerHasFreshHeartbeat(identity[r]) => identity[r] # NoIdentity
  BY Zenon DEF runnerHasFreshHeartbeat
<1> QED BY Zenon, <1>1, <1>2, <1>3, <1>4 DEF runnerIsLivePoolMember, poolRunnerMeetsWorkRequirements

\* What a request has earned covers its lease.
LEMMA EarnedCovers == PlacementInv => LeaseWasEarned
<1> SUFFICES ASSUME PlacementInv PROVE LeaseWasEarned
  BY Zenon
<1>1. \A q \in Grants : Serving(q) /\ pReq[q].at = "done" /\ Earned(q)
  BY Zenon DEF Grants, Serving, PlacementInv
<1>2. PoolLeaseWasEarned
  BY Zenon, <1>1 DEF PoolLeaseWasEarned, Earned
<1>3. ControlClaimIsTokened
  BY Zenon, <1>1 DEF ControlClaimIsTokened, Earned, Tokened
<1>4. ProductionLeaseIsApproved
  BY Zenon, <1>1 DEF ProductionLeaseIsApproved, Earned
<1> QED BY Zenon, <1>2, <1>3, <1>4, OffersAgree DEF LeaseWasEarned

\* Nothing of the placement state is left out of what the invariant reads.
LEMMA PlacementStutters == PlacementInv /\ UNCHANGED placementVars => PlacementInv'
<1> SUFFICES ASSUME PlacementInv, UNCHANGED placementVars PROVE PlacementInv'
  BY Zenon
<1>1. identity' = identity /\ rab' = rab /\ controlKey' = controlKey /\ approved' = approved
      /\ pReq' = pReq /\ pSeen' = pSeen
  BY Zenon DEF placementVars
<1>2. ASSUME NEW q \in PRequest PROVE RequestShape(q)' /\ Earned(q)'
  BY Zenon, <1>1 DEF PlacementInv, RequestShape, Earned, Serving, Tokened, Tokenless, Trusts, ViewOf
<1> QED BY Zenon, <1>1, <1>2 DEF PlacementInv

\* Whatever registrations, heartbeats, advertisements and other requests come between the checks of grantLease
\* and of reservePlacementV2, a lease went to a worker that passed every one of them, and /v1/workers/ready
\* offers the pool-scoped work that a claim would get.
THEOREM LeasesAreEarned == PlacementSpec => []LeaseWasEarned
<1>1. PlacementInv /\ [PlacementNext]_placementVars => PlacementInv'
  BY Zenon, PlacementStepKeeps, PlacementStutters
<1> QED BY <1>1, InitPlacement, EarnedCovers, PTL DEF PlacementSpec

-----------------------------------------------------------------------------
(* The node execution: what runs, where, and what is left of it on the host. *)

\* The shape of the state, as far as the proofs need it.
NodeShape ==
    /\ DOMAIN step = Job /\ DOMAIN ctx = Job /\ DOMAIN objects = Job /\ DOMAIN head = Job
    /\ DOMAIN procs = Job /\ DOMAIN box = Job /\ DOMAIN ranAt = Job
    /\ remote \in [main : Commit, ref : Commit \cup {NoCommit}, kept : SUBSET Commit]

\* What an execution leaves on the host, wherever it stands.
LeavesClean(j) ==
    /\ j \in helpers => step[j] \in Checking \cup {"crashed"}
    /\ j \in dirs => step[j] \notin {"done", "no_source"}
    /\ j \in spaces =>
         /\ NeedsDirectory(j) /\ step[j] \in {"run", "running", "clean", "report", "done", "crashed"}
         /\ step[j] \in {"report", "done"} => j \in hit
    /\ box[j] # "none" =>
         /\ step[j] \in {"start", "wait", "remove", "report", "done", "crashed"}
         /\ step[j] \in {"report", "done"} => j \in hit \/ ctx[j] # "live"

\* A shell is started in a directory that is there, at the commit the node names.
RunsWhereLeased(j) ==
    /\ step[j] \in {"fetch", "fetch_sha", "checkout", "prepare", "run", "running"} /\ ~NeedsDirectory(j) => j \in dirs
    /\ step[j] \in {"run", "running"} /\ NeedsDirectory(j) => j \in spaces
    /\ step[j] = "idle" => head[j] = NoCommit
    /\ step[j] \in {"prepare", "run"} => head[j] = task[j].sha
    /\ procs[j] # {} => /\ step[j] \in {"running", "crashed"} /\ j \in dirs \cup spaces
                        /\ ranAt[j] = task[j].sha

\* A checkout that failed with nothing having failed was of a commit that is gone.
LostIsGone(j) == step[j] = "no_source" /\ j \notin hit /\ ctx[j] = "live" => task[j].sha \notin remote.kept

HostInv == NodeShape /\ \A j \in Job : LeavesClean(j) /\ RunsWhereLeased(j) /\ LostIsGone(j)

\* The rest of the host as a step of one job leaves it.
Apart(j) ==
    /\ step'[j] = step[j] /\ ctx'[j] = ctx[j] /\ head'[j] = head[j]
    /\ (j \in dirs' <=> j \in dirs) /\ (j \in helpers' <=> j \in helpers) /\ (j \in spaces' <=> j \in spaces)
    /\ procs'[j] = procs[j] /\ box'[j] = box[j] /\ ranAt'[j] = ranAt[j]

\* Such a step keeps the invariant when it does for its own job.
LEMMA OneJobMoves ==
    ASSUME HostInv, NodeShape', NEW i \in Job, LeavesClean(i)', RunsWhereLeased(i)', LostIsGone(i)',
           \A j \in Job \ {i} : Apart(j), hit \subseteq hit', remote' = remote, task' = task
    PROVE  HostInv'
<1> SUFFICES ASSUME NEW j \in Job, j # i PROVE LeavesClean(j)' /\ RunsWhereLeased(j)' /\ LostIsGone(j)'
  BY Zenon DEF HostInv
<1>1. LeavesClean(j)'
  BY ZenonT(60) DEF HostInv, LeavesClean, Apart, NeedsDirectory
<1>2. RunsWhereLeased(j)'
  BY DEF HostInv, RunsWhereLeased, Apart, NeedsDirectory
<1>3. LostIsGone(j)'
  BY Zenon DEF HostInv, LostIsGone, Apart
<1> QED
  BY Zenon, <1>1, <1>2, <1>3

\* Nothing runs at first.
LEMMA HostInitially == NodeInit => HostInv
BY DEF NodeInit, HostInv, NodeShape, LeavesClean, RunsWhereLeased, LostIsGone, NeedsDirectory, Checking

\* Preparing the source: the fetches, the checks with their helper, the checkout.
LEMMA SourceStep ==
    ASSUME HostInv, NEW i \in Job, BeginNode(i) \/ Clone(i) \/ FetchRef(i) \/ FetchSHA(i) \/ CheckoutSHA(i)
    PROVE  HostInv'
<1> USE DEF To, Works, Fails, CheckoutFails, NeedsDirectory
<1>1. CASE BeginNode(i)
  <2>1. NodeShape' /\ \A j \in Job \ {i} : Apart(j)
    BY Zenon, <1>1 DEF BeginNode, HostInv, NodeShape, Apart
  <2>2. LeavesClean(i)' /\ RunsWhereLeased(i)' /\ LostIsGone(i)'
    BY Zenon, <1>1 DEF BeginNode, HostInv, NodeShape, LeavesClean, RunsWhereLeased, LostIsGone, Command, Checking
  <2> QED
    BY ZenonT(60), <1>1, <2>1, <2>2, OneJobMoves DEF BeginNode
<1>2. CASE Clone(i)
  <2>1. NodeShape' /\ \A j \in Job \ {i} : Apart(j)
    BY ZenonT(60), <1>2 DEF Clone, HostInv, NodeShape, Apart
  <2>2. LeavesClean(i)' /\ RunsWhereLeased(i)' /\ LostIsGone(i)'
    BY ZenonT(200), <1>2 DEF Clone, HostInv, NodeShape, LeavesClean, RunsWhereLeased, LostIsGone, Checking
  <2>3. hit \subseteq hit' /\ remote' = remote /\ task' = task
    BY <1>2 DEF Clone
  <2> QED
    BY Zenon, <2>1, <2>2, <2>3, OneJobMoves
<1>3. CASE FetchRef(i)
  <2>1. NodeShape' /\ \A j \in Job \ {i} : Apart(j)
    BY ZenonT(60), <1>3 DEF FetchRef, HostInv, NodeShape, Apart
  <2>2. LeavesClean(i)' /\ RunsWhereLeased(i)' /\ LostIsGone(i)'
    BY ZenonT(60), <1>3 DEF FetchRef, AfterRef, HostInv, NodeShape, LeavesClean, RunsWhereLeased, LostIsGone, Checking
  <2>3. hit \subseteq hit' /\ remote' = remote /\ task' = task
    BY ZenonT(60), <1>3 DEF FetchRef
  <2> QED
    BY <2>1, <2>2, <2>3, OneJobMoves
<1>4. CASE FetchSHA(i)
  <2>1. NodeShape' /\ \A j \in Job \ {i} : Apart(j)
    BY ZenonT(60), <1>4 DEF FetchSHA, HostInv, NodeShape, Apart
  <2>2. LeavesClean(i)'
    BY <1>4 DEF FetchSHA, Asked, HostInv, NodeShape, LeavesClean, Checking
  <2>3. RunsWhereLeased(i)'
    BY ZenonT(60), <1>4 DEF FetchSHA, Asked, HostInv, NodeShape, RunsWhereLeased
  <2>4. LostIsGone(i)'
    BY <1>4 DEF FetchSHA, Asked, HostInv, NodeShape, LostIsGone
  <2>5. hit \subseteq hit' /\ remote' = remote /\ task' = task
    BY Zenon, <1>4 DEF FetchSHA
  <2> QED
    BY ZenonT(60), <2>1, <2>2, <2>3, <2>4, <2>5, OneJobMoves
<1>5. CASE CheckoutSHA(i)
  <2>1. NodeShape' /\ \A j \in Job \ {i} : Apart(j)
    BY Zenon, <1>5 DEF CheckoutSHA, HostInv, NodeShape, Apart
  <2>2. LeavesClean(i)' /\ RunsWhereLeased(i)' /\ LostIsGone(i)'
    BY ZenonT(60), <1>5 DEF CheckoutSHA, CheckedOut, Command, HostInv, NodeShape, LeavesClean, RunsWhereLeased, LostIsGone, Checking
  <2>3. hit \subseteq hit' /\ remote' = remote /\ task' = task
    BY <1>5 DEF CheckoutSHA
  <2> QED
    BY Zenon, <2>1, <2>2, <2>3, OneJobMoves
<1> QED
  BY Zenon, <1>1, <1>2, <1>3, <1>4, <1>5

\* A command on the host, from its sandbox to the report; the end of the contexts, and what git starts.
LEMMA ShellStep ==
    ASSUME HostInv, NEW i \in Job, PrepareSandbox(i) \/ StartShell(i) \/ ProcessStep(i) \/ KillShell(i) \/ CommandReturns(i) \/ CleanSandbox(i) \/ FinishNode(i) \/ Cancel(i)
           \/ LoseRun(i) \/ GitChild(i)
    PROVE  HostInv'
<1> USE DEF To, places, NeedsDirectory
<1>1. CASE PrepareSandbox(i)
  <2>1. NodeShape' /\ \A j \in Job \ {i} : Apart(j)
    BY Zenon, <1>1 DEF PrepareSandbox, CreatedWorkspace, HostInv, NodeShape, Apart
  <2>2. LeavesClean(i)'
    BY ZenonT(60), <1>1 DEF PrepareSandbox, CreatedWorkspace, HostInv, NodeShape, LeavesClean, Checking
  <2>3. RunsWhereLeased(i)'
    BY ZenonT(60), <1>1 DEF PrepareSandbox, CreatedWorkspace, HostInv, NodeShape, LeavesClean, RunsWhereLeased
  <2>4. LostIsGone(i)'
    BY Zenon, <1>1 DEF PrepareSandbox, CreatedWorkspace, HostInv, NodeShape, LostIsGone
  <2>5. hit \subseteq hit' /\ remote' = remote /\ task' = task
    BY Zenon, <1>1 DEF PrepareSandbox
  <2> QED
    BY Zenon, <2>1, <2>2, <2>3, <2>4, <2>5, OneJobMoves
<1>2. CASE StartShell(i)
  <2>1. NodeShape' /\ \A j \in Job \ {i} : Apart(j)
    BY Zenon, <1>2 DEF StartShell, HostInv, NodeShape, Apart
  <2>2. LeavesClean(i)' /\ RunsWhereLeased(i)' /\ LostIsGone(i)'
    BY ZenonT(60), <1>2 DEF StartShell, HostInv, NodeShape, LeavesClean, RunsWhereLeased, LostIsGone, Checking
  <2>3. hit \subseteq hit' /\ remote' = remote /\ task' = task
    BY <1>2 DEF StartShell
  <2> QED
    BY Zenon, <2>1, <2>2, <2>3, OneJobMoves
<1>3. CASE ProcessStep(i)
  <2>1. NodeShape' /\ \A j \in Job \ {i} : Apart(j)
    BY ZenonT(60), <1>3 DEF ProcessStep, HostInv, NodeShape, Apart
  <2>2. LeavesClean(i)' /\ RunsWhereLeased(i)' /\ LostIsGone(i)'
    BY Zenon, <1>3 DEF ProcessStep, HostInv, NodeShape, LeavesClean, RunsWhereLeased, LostIsGone, Checking
  <2>3. hit \subseteq hit' /\ remote' = remote /\ task' = task
    BY Zenon, <1>3 DEF ProcessStep
  <2> QED
    BY Zenon, <2>1, <2>2, <2>3, OneJobMoves
<1>4. CASE KillShell(i)
  <2>1. NodeShape' /\ \A j \in Job \ {i} : Apart(j)
    BY Zenon, <1>4 DEF KillShell, HostInv, NodeShape, Apart
  <2>2. LeavesClean(i)' /\ RunsWhereLeased(i)' /\ LostIsGone(i)'
    BY Zenon, <1>4 DEF KillShell, HostInv, NodeShape, LeavesClean, RunsWhereLeased, LostIsGone, Checking
  <2>3. hit \subseteq hit' /\ remote' = remote /\ task' = task
    BY Zenon, <1>4 DEF KillShell
  <2> QED
    BY Zenon, <2>1, <2>2, <2>3, OneJobMoves
<1>5. CASE CommandReturns(i)
  <2>1. NodeShape' /\ \A j \in Job \ {i} : Apart(j)
    BY ZenonT(60), <1>5 DEF CommandReturns, HostInv, NodeShape, Apart
  <2>2. LeavesClean(i)' /\ RunsWhereLeased(i)' /\ LostIsGone(i)'
    BY Zenon, <1>5 DEF CommandReturns, Drained, HostInv, NodeShape, LeavesClean, RunsWhereLeased, LostIsGone, Checking
  <2>3. hit \subseteq hit' /\ remote' = remote /\ task' = task
    BY Zenon, <1>5 DEF CommandReturns
  <2> QED
    BY Zenon, <2>1, <2>2, <2>3, OneJobMoves
<1>6. CASE CleanSandbox(i)
  <2>1. NodeShape' /\ \A j \in Job \ {i} : Apart(j)
    BY Zenon, <1>6 DEF CleanSandbox, HostInv, NodeShape, Apart
  <2>2. LeavesClean(i)' /\ RunsWhereLeased(i)' /\ LostIsGone(i)'
    BY Zenon, <1>6 DEF CleanSandbox, HostInv, NodeShape, LeavesClean, RunsWhereLeased, LostIsGone, Checking
  <2>3. hit \subseteq hit' /\ remote' = remote /\ task' = task
    BY Zenon, <1>6 DEF CleanSandbox
  <2> QED
    BY Zenon, <2>1, <2>2, <2>3, OneJobMoves
<1>7. CASE FinishNode(i)
  <2>1. NodeShape' /\ \A j \in Job \ {i} : Apart(j)
    BY ZenonT(60), <1>7 DEF FinishNode, CleanUp, HostInv, NodeShape, Apart
  <2>2. LeavesClean(i)' /\ RunsWhereLeased(i)' /\ LostIsGone(i)'
    BY Zenon, <1>7 DEF FinishNode, CleanUp, HostInv, NodeShape, LeavesClean, RunsWhereLeased, LostIsGone, Checking
  <2>3. hit \subseteq hit' /\ remote' = remote /\ task' = task
    BY Zenon, <1>7 DEF FinishNode
  <2> QED
    BY Zenon, <2>1, <2>2, <2>3, OneJobMoves
<1>8. CASE Cancel(i)
  <2>1. NodeShape' /\ \A j \in Job \ {i} : Apart(j)
    BY Zenon, <1>8 DEF Cancel, HostInv, NodeShape, Apart
  <2>2. LeavesClean(i)'
    BY ZenonT(60), <1>8 DEF Cancel, Over, HostInv, NodeShape, LeavesClean, Checking
  <2>3. RunsWhereLeased(i)'
    BY ZenonT(60), <1>8 DEF Cancel, Over, HostInv, NodeShape, LeavesClean, RunsWhereLeased
  <2>4. LostIsGone(i)'
    BY Zenon, <1>8 DEF Cancel, Over, HostInv, NodeShape, LostIsGone
  <2>5. hit \subseteq hit' /\ remote' = remote /\ task' = task
    BY Zenon, <1>8 DEF Cancel
  <2> QED
    BY Zenon, <2>1, <2>2, <2>3, <2>4, <2>5, OneJobMoves
<1>9. CASE LoseRun(i)
  <2>1. NodeShape' /\ \A j \in Job \ {i} : Apart(j)
    BY Zenon, <1>9 DEF LoseRun, HostInv, NodeShape, Apart
  <2>2. LeavesClean(i)'
    BY ZenonT(60), <1>9 DEF LoseRun, Over, HostInv, NodeShape, LeavesClean, Checking
  <2>3. RunsWhereLeased(i)'
    BY ZenonT(60), <1>9 DEF LoseRun, Over, HostInv, NodeShape, LeavesClean, RunsWhereLeased
  <2>4. LostIsGone(i)'
    BY Zenon, <1>9 DEF LoseRun, Over, HostInv, NodeShape, LostIsGone
  <2>5. hit \subseteq hit' /\ remote' = remote /\ task' = task
    BY Zenon, <1>9 DEF LoseRun
  <2> QED
    BY Zenon, <2>1, <2>2, <2>3, <2>4, <2>5, OneJobMoves
<1>10. CASE GitChild(i)
  BY ZenonT(60), <1>10 DEF GitChild, HostInv, NodeShape, LeavesClean, RunsWhereLeased, LostIsGone
<1> QED
  BY Zenon, <1>1, <1>2, <1>3, <1>4, <1>5, <1>6, <1>7, <1>8, <1>9, <1>10

\* A command in a container.
LEMMA ContainerStep ==
    ASSUME HostInv, NEW i \in Job, Pull(i) \/ CreateContainer(i) \/ StartContainer(i) \/ ContainerExits(i) \/ WaitContainer(i) \/ RemoveContainer(i)
    PROVE  HostInv'
<1> USE DEF To, Works, Fails, places, NeedsDirectory
<1>1. CASE Pull(i)
  <2>1. NodeShape' /\ \A j \in Job \ {i} : Apart(j)
    BY Zenon, <1>1 DEF Pull, HostInv, NodeShape, Apart
  <2>2. LeavesClean(i)' /\ RunsWhereLeased(i)' /\ LostIsGone(i)'
    BY ZenonT(60), <1>1 DEF Pull, HostInv, NodeShape, LeavesClean, RunsWhereLeased, LostIsGone, Checking
  <2>3. hit \subseteq hit' /\ remote' = remote /\ task' = task
    BY <1>1 DEF Pull
  <2> QED
    BY Zenon, <2>1, <2>2, <2>3, OneJobMoves
<1>2. CASE CreateContainer(i)
  <2>1. NodeShape' /\ \A j \in Job \ {i} : Apart(j)
    BY ZenonT(60), <1>2 DEF CreateContainer, HostInv, NodeShape, Apart
  <2>2. LeavesClean(i)' /\ RunsWhereLeased(i)' /\ LostIsGone(i)'
    BY ZenonT(200), <1>2 DEF CreateContainer, HostInv, NodeShape, LeavesClean, RunsWhereLeased, LostIsGone, Checking
  <2>3. hit \subseteq hit' /\ remote' = remote /\ task' = task
    BY <1>2 DEF CreateContainer
  <2> QED
    BY Zenon, <2>1, <2>2, <2>3, OneJobMoves
<1>3. CASE StartContainer(i)
  <2>1. NodeShape' /\ \A j \in Job \ {i} : Apart(j)
    BY ZenonT(60), <1>3 DEF StartContainer, HostInv, NodeShape, Apart
  <2>2. LeavesClean(i)' /\ RunsWhereLeased(i)' /\ LostIsGone(i)'
    BY ZenonT(60), <1>3 DEF StartContainer, HostInv, NodeShape, LeavesClean, RunsWhereLeased, LostIsGone, Checking
  <2>3. hit \subseteq hit' /\ remote' = remote /\ task' = task
    BY <1>3 DEF StartContainer
  <2> QED
    BY Zenon, <2>1, <2>2, <2>3, OneJobMoves
<1>4. CASE ContainerExits(i)
  <2>1. NodeShape' /\ \A j \in Job \ {i} : Apart(j)
    BY ZenonT(60), <1>4 DEF ContainerExits, HostInv, NodeShape, Apart
  <2>2. LeavesClean(i)' /\ RunsWhereLeased(i)' /\ LostIsGone(i)'
    BY Zenon, <1>4 DEF ContainerExits, HostInv, NodeShape, LeavesClean, RunsWhereLeased, LostIsGone, Checking
  <2>3. hit \subseteq hit' /\ remote' = remote /\ task' = task
    BY Zenon, <1>4 DEF ContainerExits
  <2> QED
    BY Zenon, <2>1, <2>2, <2>3, OneJobMoves
<1>5. CASE WaitContainer(i)
  <2>1. NodeShape' /\ \A j \in Job \ {i} : Apart(j)
    BY Zenon, <1>5 DEF WaitContainer, HostInv, NodeShape, Apart
  <2>2. LeavesClean(i)' /\ RunsWhereLeased(i)' /\ LostIsGone(i)'
    BY ZenonT(60), <1>5 DEF WaitContainer, HostInv, NodeShape, LeavesClean, RunsWhereLeased, LostIsGone, Checking
  <2>3. hit \subseteq hit' /\ remote' = remote /\ task' = task
    BY Zenon, <1>5 DEF WaitContainer
  <2> QED
    BY Zenon, <2>1, <2>2, <2>3, OneJobMoves
<1>6. CASE RemoveContainer(i)
  <2>1. NodeShape' /\ \A j \in Job \ {i} : Apart(j)
    BY ZenonT(60), <1>6 DEF RemoveContainer, HostInv, NodeShape, Apart
  <2>2. LeavesClean(i)' /\ RunsWhereLeased(i)' /\ LostIsGone(i)'
    BY Zenon, <1>6 DEF RemoveContainer, HostInv, NodeShape, LeavesClean, RunsWhereLeased, LostIsGone, Checking
  <2>3. hit \subseteq hit' /\ remote' = remote /\ task' = task
    BY Zenon, <1>6 DEF RemoveContainer
  <2> QED
    BY Zenon, <2>1, <2>2, <2>3, OneJobMoves
<1> QED
  BY Zenon, <1>1, <1>2, <1>3, <1>4, <1>5, <1>6

\* The death of the worker moves its jobs to nowhere and touches nothing else.
LEMMA DeathStep ==
    ASSUME HostInv, WorkerDies
    PROVE  HostInv'
<1>1. NodeShape'
  BY Zenon DEF WorkerDies, places, HostInv, NodeShape
<1> SUFFICES ASSUME NEW j \in Job PROVE LeavesClean(j)' /\ RunsWhereLeased(j)' /\ LostIsGone(j)'
  BY Zenon, <1>1 DEF HostInv
<1>2. /\ step'[j] = IF step[j] \in Over THEN step[j] ELSE "crashed"
      /\ UNCHANGED <<task, ctx, places, procs, box, remote, ranAt, hit>>
  BY ZenonT(60) DEF WorkerDies
<1> QED
  BY ZenonT(60), <1>2 DEF places, HostInv, LeavesClean, RunsWhereLeased, LostIsGone, NeedsDirectory, Over, Checking

\* The repository forgets commits, and none comes back.
LEMMA PushStep ==
    ASSUME HostInv, Push
    PROVE  HostInv'
<1>1. NodeShape' /\ remote'.kept \subseteq remote.kept
  BY ZenonT(60) DEF Push, places, HostInv, NodeShape
<1>2. UNCHANGED <<task, step, ctx, places, procs, box, ranAt, hit>>
  BY Zenon DEF Push
<1> QED
  BY <1>1, <1>2 DEF places, HostInv, LeavesClean, RunsWhereLeased, LostIsGone, NeedsDirectory

\* Every step keeps the invariant.
LEMMA HostKept == HostInv /\ [NodeNext]_nodeVars => HostInv'
<1>1. ASSUME HostInv, UNCHANGED nodeVars PROVE HostInv'
  BY <1>1 DEF nodeVars, places, HostInv, NodeShape, LeavesClean, RunsWhereLeased, LostIsGone, NeedsDirectory
<1> QED
  BY Zenon, <1>1, SourceStep, ShellStep, ContainerStep, DeathStep, PushStep DEF NodeNext, HostStep

\* The invariant holds throughout.
LEMMA HostInvariant == NodeSpec => []HostInv
BY HostInitially, HostKept, PTL DEF NodeSpec

\* However an execution ended, the checkout and the credential helper are gone; a sandbox
\* directory is left only by a failure, a container only by a failure, a lost lease, a timeout or a
\* worker that stops (PrepareSource, Prepare, Run, runDocker).
THEOREM HostsAreLeftClean == NodeSpec => []HostIsClean
<1>1. HostInv => HostIsClean
  BY Zenon DEF HostInv, LeavesClean, HostIsClean
<1> QED
  BY <1>1, HostInvariant, PTL

\* A command runs at the commit its lease names, and no process that holds its output loses
\* its directory to the cleanup (PrepareSource, Run).
THEOREM CommandsRunWhereLeased == NodeSpec => [](RanWhatWasLeased /\ RunsInItsDirectory)
<1>1. HostInv => RanWhatWasLeased /\ RunsInItsDirectory
  BY Zenon DEF HostInv, RunsWhereLeased, RanWhatWasLeased, RunsInItsDirectory
<1> QED
  BY <1>1, HostInvariant, PTL

\* A checkout that no command failed and no context ended misses its commit only if the
\* repository no longer has it (PrepareSource).
THEOREM KeptCommitsAreFound == NodeSpec => []KeptIsFound
<1>1. HostInv => KeptIsFound
  BY Zenon DEF HostInv, LostIsGone, KeptIsFound
<1> QED
  BY <1>1, HostInvariant, PTL

-----------------------------------------------------------------------------
(* The evidence records: what the digest and the seal of a record bind. *)

\* The record that was made agrees with its own details and with its two hashes; the stored one has them all.
RecordsInv ==
    /\ {"digest", "seal", "node", "attempt", "type", "result", "kind", "details"} \subseteq DOMAIN record
    /\ written.kind \in Kind
    /\ written.digest = SnapshotDigest(written.kind, written.details)
    /\ written.seal = RecomputedHash(written) /\ written.seal # NoSeal
    /\ written.details.node = written.node /\ written.details.attempt = written.attempt
    /\ DecodedIsBound

\* Two snapshots with one digest are the same snapshot, of the same kind.
LEMMA DigestIsInjective ==
    ASSUME NEW k \in Kind, NEW l \in Kind, NEW x, NEW y, SnapshotDigest(k, x) = SnapshotDigest(l, y)
    PROVE  k = l /\ x = y
  BY Zenon DEF SnapshotDigest, Kind

\* Two records with one seal have one node and one attempt.
LEMMA SealIsInjective ==
    ASSUME NEW r, NEW t, RecomputedHash(r) = RecomputedHash(t)
    PROVE  r.node = t.node /\ r.attempt = t.attempt
  BY Zenon DEF RecomputedHash

\* A record as it is captured satisfies the invariant.
LEMMA InitRecords == RecordsInit => RecordsInv
<1> SUFFICES ASSUME RecordsInit PROVE RecordsInv
  BY Zenon
<1>1. PICK kind \in Kind, n \in SNode, a \in SAttempt, retry \in Level, confidence \in Level :
        record = Capture(kind, Snapshot(kind, n, a, retry, confidence))
  BY Zenon DEF RecordsInit
<1> DEFINE snapshot == Snapshot(kind, n, a, retry, confidence)
<1>2. snapshot.node = n /\ snapshot.attempt = a
  BY Zenon DEF Snapshot
<1> HIDE DEF snapshot
<1>3. /\ {"digest", "seal", "node", "attempt", "type", "result", "kind", "details"} \subseteq DOMAIN record
      /\ record.kind = kind /\ record.digest = SnapshotDigest(kind, snapshot)
      /\ record.details = snapshot /\ record.node = snapshot.node /\ record.attempt = snapshot.attempt
      /\ record.seal = <<"sha256", n, a, "policy", "skip">> /\ record.type = "policy" /\ record.result = "skip"
  BY Zenon, <1>1, <1>2 DEF Capture, RecomputedHash, snapshot
<1>4. written = record /\ decoded.kind = "pending"
  BY Zenon DEF RecordsInit, Undecoded
<1>5. record.seal # NoSeal
  <2>1. record.seal \in {<<"sha256", m, b, "policy", result>> : m \in SNode, b \in SAttempt, result \in {"skip", "pass"}}
    BY <1>3
  <2> QED BY <2>1, SealAssumption
<1> QED BY Zenon, <1>2, <1>3, <1>4, <1>5 DEF RecordsInv, RecomputedHash, DecodedIsBound, Kind

\* However the record comes back and whatever is read of it.
LEMMA NextRecords == RecordsInv /\ [RecordsNext]_recordVars => RecordsInv'
<1> SUFFICES ASSUME RecordsInv, [RecordsNext]_recordVars PROVE RecordsInv'
  BY Zenon
<1>1. CASE UNCHANGED recordVars
  BY Zenon, <1>1 DEF recordVars, RecordsInv, RecomputedHash, SnapshotDigest, DecodedIsBound
<1>2. CASE Alter
  <2>1. DOMAIN record' = DOMAIN record /\ decoded' = decoded /\ decoded.kind = "pending" /\ written' = written
    BY Zenon, <1>2 DEF Alter
  <2> QED BY Zenon, <2>1 DEF RecordsInv, RecomputedHash, SnapshotDigest, DecodedIsBound, Kind
<1>3. ASSUME NEW kind \in Kind, Decode(kind) PROVE RecordsInv'
  <2> DEFINE x == Reads(kind, record.details)
  <2>1. record' = record /\ written' = written
    BY Zenon, <1>3 DEF Decode
  <2> SUFFICES DecodedIsBound'
    BY Zenon, <2>1 DEF RecordsInv, RecomputedHash, SnapshotDigest
  <2>2. CASE ~Decodes(record, kind)
    <3>1. decoded'.kind = "refused"
      BY Zenon, <1>3, <2>2 DEF Decode, Undecoded
    <3> QED BY Zenon, <3>1 DEF DecodedIsBound, Kind
  <2>3. CASE Decodes(record, kind)
    <3>1. decoded'.kind = kind /\ decoded'.snapshot = x
      BY Zenon, <1>3, <2>3 DEF Decode
    <3>2. x.node = record.node /\ x.attempt = record.attempt
      BY Zenon, <2>3 DEF Reads, Decodes
    <3> HIDE DEF x
    <3>3. ASSUME record.digest = written.digest
          PROVE  kind = written.kind /\ x = written.details
      <4>1. SnapshotDigest(kind, x) = SnapshotDigest(written.kind, written.details)
        BY Zenon, <2>3, <3>3 DEF Decodes, RecordsInv, x
      <4> QED BY <4>1, DigestIsInjective DEF RecordsInv
    <3>4. ASSUME record.seal = written.seal
          PROVE  record.node = written.node /\ record.attempt = written.attempt
      <4>1. RecomputedHash(record) = RecomputedHash(written)
        BY Zenon, <2>3, <3>4 DEF Decodes, VerifyEvidence, RecordsInv
      <4> QED BY Zenon, <4>1, SealIsInjective
    <3> QED BY Zenon, <2>1, <3>1, <3>2, <3>3, <3>4 DEF RecordsInv, DecodedIsBound
  <2> QED BY Zenon, <2>2, <2>3
<1> QED BY Zenon, <1>1, <1>2, <1>3 DEF RecordsNext

\* Whatever one part of a stored record after another became, its digest and its seal included: what decodes under
\* the digest that was written is the snapshot that was captured, and what decodes under the seal that was written is
\* of the sealed node and attempt (DecodePreActionSnapshot, RecomputedHash).
THEOREM DecodedSnapshotsAreBound == RecordsSpec => []DecodedIsBound
<1>1. RecordsInv => DecodedIsBound
  BY Zenon DEF RecordsInv
<1> QED BY <1>1, InitRecords, NextRecords, PTL DEF RecordsSpec

=============================================================================
