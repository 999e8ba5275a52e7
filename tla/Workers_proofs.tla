--------------------------- MODULE Workers_proofs ---------------------------
(***************************************************************************)
(* Proofs about the workers that run nodes under the leases of the core,   *)
(* for every set of Works, nodes and workers, any dependencies between     *)
(* nodes, and any number of attempts and faults. The inductive invariant   *)
(* of the lease core carries over: every step of a worker is a step of the *)
(* core or leaves it alone.                                                *)
(***************************************************************************)
EXTENDS WorkerFleet, Leases_proofs

-----------------------------------------------------------------------------
(* The workers. *)

\* A worker holds a lease exactly while it executes an item, and the row is there.
Holding ==
    \A k \in Worker : /\ pc[k] = "idle" <=> held[k] = NoLease
                      /\ held[k] # NoLease => lease[held[k]] # "NONE"

\* No two workers execute the same attempt.
HeldApart == \A k1, k2 \in Worker : held[k1] # NoLease /\ held[k1] = held[k2] => k1 = k2

\* While a command may still start or run, its attempt has not been reported a success.
NotYetReported ==
    \A k \in Worker : pc[k] \in {"prepare", "run"} => attempt[held[k]] # "succeeded"

\* A worker about to report exit code 0 has seen the command succeed.
ReportsTruth == \A k \in Worker : pc[k] = "report" /\ exit[k] = 0 => proc[held[k]] = "ok"

\* An offer, however old, is of a node all of whose needs have succeeded.
OffersReady == \A k \in Worker : \A j \in offers[k] : Needs[j[2]] \subseteq Succeeded(j[1])

FleetInv ==
    /\ FleetTypeOK
    /\ IInv
    /\ Holding
    /\ HeldApart
    /\ NotYetReported
    /\ ReportsTruth
    /\ SuccessIsReal
    /\ OffersReady
    /\ NeedsFirst

-----------------------------------------------------------------------------
\* A row that exists stays.
GrantedStays == \A l \in Lease : lease[l] # "NONE" => lease'[l] # "NONE"

\* Steps that insert no lease, and steps that record no success.
NoGrant == \A l \in Lease : lease'[l] # "NONE" => lease[l] # "NONE"

NoSuccess == \A l \in Lease : attempt'[l] = "succeeded" => attempt[l] = "succeeded"

\* Whatever a step of the lease core does, rows and results stay.
LEMMA CoreStep ==
    ASSUME IInv, [Next]_vars
    PROVE  /\ IInv' /\ GrantedStays
           /\ \A w : Succeeded(w) \subseteq Succeeded(w)'
<1>1. IInv' BY Zenon, NextIInv
<1>2. ASSUME NEW l \in Lease, lease[l] # "NONE" PROVE lease'[l] # "NONE"
  <2>1. CASE lease[l] \in TerminalLease BY Zenon, <1>2, <2>1, SettledStep
  <2>2. CASE lease[l] = "ACTIVE"
    <3> USE <2>2
    <3>1. ASSUME NEW k \in Lease, LeaseRequest(k) PROVE lease'[l] # "NONE"
      BY Zenon, <3>1 DEF LeaseRequest, GrantLease, GrantPlacementLease, InsertLease, RenewLease, ReleaseLease,
          RevokeLease, TransitionLeaseAttempt, CompleteLease, IInv, TypeOK
    <3>2. ASSUME NEW k \in Lease, LeaseExpires(k) \/ Handler(k) \/ AbandonCompletion(k)
          PROVE  lease'[l] # "NONE"
      BY Zenon, <3>2 DEF LeaseExpires, Handler, AppendResults, ReadWork, ReadAttempts, FinalizeWork,
          AbandonCompletion
    <3>3. ASSUME NEW w \in Work, WorkRequest(w) PROVE lease'[l] # "NONE"
      BY Zenon, <3>3 DEF WorkRequest, QueueWork, CancelWork, SuspendWork, CascadeSuspendWork,
          ResumeFromCheckpoint
    <3>4. ASSUME NEW k \in Lease, ReapLease(k) PROVE lease'[l] # "NONE"
      BY Zenon, <3>4 DEF ReapLease, IInv, TypeOK
    <3>5. CASE ListExpiredLeases \/ CrashAPI \/ UNCHANGED vars
      BY Zenon, <3>5 DEF ListExpiredLeases, CrashAPI, vars
    <3> QED BY Zenon, <3>1, <3>2, <3>3, <3>4, <3>5 DEF Next, Service, Failure, Reaper
  <2> QED BY Zenon, <1>2, <2>1, <2>2 DEF IInv, TypeOK, LeaseStatus, TerminalLease
<1>3. ASSUME NEW l \in Lease, attempt[l] \in {"succeeded", "failed"} PROVE attempt'[l] = attempt[l]
  <2>1. lease[l] \in TerminalLease
    BY Zenon, <1>3 DEF IInv, TypeOK, ActiveIffRunning, RowsPaired, LeaseStatus, TerminalLease
  <2> QED BY Zenon, <2>1, SettledStep
<1>4. ResultsKept BY Zenon, <1>3 DEF ResultsKept
<1>5. \A w : Succeeded(w) \subseteq Succeeded(w)' BY Zenon, <1>4, ResultsGrow
<1> QED BY Zenon, <1>1, <1>2, <1>5 DEF GrantedStays

\* The requests of the control plane grant nothing and report nothing.
LEMMA ControlIsQuiet ==
    ASSUME IInv,
           \/ \E l \in Lease : Handler(l) \/ LeaseExpires(l) \/ RenewLease(l) \/ ReleaseLease(l)
           \/ \E w \in Work : WorkRequest(w)
           \/ Reaper
           \/ Failure
           \/ UNCHANGED vars
    PROVE  NoGrant /\ NoSuccess
<1> DEFINE Quiet == NoGrant /\ NoSuccess
<1>1. ASSUME UNCHANGED <<lease, attempt>> PROVE Quiet BY Z3T(60), <1>1 DEF NoGrant, NoSuccess
<1>2. ASSUME NEW l \in Lease, Handler(l) \/ LeaseExpires(l) \/ RenewLease(l) PROVE Quiet
  BY Zenon, <1>1, <1>2 DEF Handler, AppendResults, ReadWork, ReadAttempts, FinalizeWork, LeaseExpires, RenewLease
<1>3. ASSUME NEW l \in Lease, ReleaseLease(l) PROVE Quiet
  BY Zenon, <1>3 DEF ReleaseLease, TransitionLeaseAttempt, NoGrant, NoSuccess, IInv, TypeOK
<1>4. ASSUME NEW w \in Work, WorkRequest(w) PROVE Quiet
  BY Zenon, <1>1, <1>4 DEF WorkRequest, QueueWork, CancelWork, SuspendWork, CascadeSuspendWork,
      ResumeFromCheckpoint
<1>5. ASSUME NEW l \in Lease, ReapLease(l) PROVE Quiet
  BY ZenonT(60), <1>5 DEF ReapLease, MarkAttemptCancelled, NoGrant, NoSuccess, IInv, TypeOK, ListsGranted
<1>6. ASSUME ListExpiredLeases \/ Failure \/ UNCHANGED vars PROVE Quiet
  BY Zenon, <1>1, <1>6 DEF ListExpiredLeases, Failure, CrashAPI, AbandonCompletion, vars
<1> HIDE DEF Quiet
<1>7. Quiet BY Zenon, <1>2, <1>3, <1>4, <1>5, <1>6 DEF Reaper
<1> QED BY Zenon, <1>7 DEF Quiet

\* A step of the control plane beneath the workers.
LEMMA CoreMoves ==
    ASSUME FleetInv, [Next]_vars, NoGrant, NoSuccess,
           UNCHANGED <<offers, held, pc, kill, exit, proc>>, faults' \in 0..MaxFaults
    PROVE  FleetInv'
<1>1. /\ IInv' /\ GrantedStays
      /\ \A w : Succeeded(w) \subseteq Succeeded(w)'
  BY Zenon, CoreStep DEF FleetInv
<1>2. FleetTypeOK' BY Zenon, <1>1 DEF FleetInv, FleetTypeOK, IInv
<1>3. Holding' /\ HeldApart' /\ ReportsTruth'
  BY ZenonT(60), <1>1 DEF FleetInv, FleetTypeOK, Holding, HeldApart, ReportsTruth, GrantedStays
<1>4. NotYetReported'
  BY Zenon DEF FleetInv, FleetTypeOK, Holding, NotYetReported, NoSuccess
<1>5. SuccessIsReal' BY Zenon DEF FleetInv, SuccessIsReal, NoSuccess
<1>6. OffersReady' BY Zenon, <1>1 DEF FleetInv, OffersReady
<1>7. NeedsFirst' BY Zenon, <1>1 DEF FleetInv, NeedsFirst, NoGrant
<1> QED BY Zenon, <1>1, <1>2, <1>3, <1>4, <1>5, <1>6, <1>7 DEF FleetInv

\* The other workers do not move with k.
OthersStay(k) ==
    \A b \in Worker \ {k} : /\ pc'[b] = pc[b] /\ held'[b] = held[b]
                            /\ exit'[b] = exit[b] /\ offers'[b] = offers[b]

\* Only a worker whose command may start or run decides what becomes of it.
OwnCommand(k) ==
    \A l \in Lease : proc'[l] = proc[l] \/ (l = held[k] /\ pc[k] \in {"prepare", "run"})

\* A step of worker k that claims nothing, learns of no node and records no success.
LEMMA WorkerMoves ==
    ASSUME FleetInv, [Next]_vars, NoGrant, NoSuccess, NEW k \in Worker, FleetTypeOK',
           OthersStay(k), OwnCommand(k),
           offers'[k] \subseteq offers[k], held'[k] \in {held[k], NoLease},
           pc'[k] = "idle" <=> held'[k] = NoLease,
           pc'[k] \in {"prepare", "run"} => pc[k] \in {"prepare", "run"},
           pc'[k] = "report" /\ exit'[k] = 0 => proc'[held[k]] = "ok"
    PROVE  FleetInv'
<1>1. /\ IInv' /\ GrantedStays
      /\ \A w : Succeeded(w) \subseteq Succeeded(w)'
  BY Zenon, CoreStep DEF FleetInv
<1>2. Holding'
  BY <1>1 DEF FleetInv, FleetTypeOK, Holding, GrantedStays, OthersStay
<1>3. HeldApart' BY DEF FleetInv, HeldApart, OthersStay
<1>4. NotYetReported'
  BY DEF FleetInv, FleetTypeOK, Holding, NotYetReported, NoSuccess, OthersStay
<1>5. ReportsTruth'
  <2> SUFFICES ASSUME NEW b \in Worker, pc'[b] = "report", exit'[b] = 0 PROVE proc'[held'[b]] = "ok"
    BY Zenon DEF ReportsTruth
  <2>1. CASE b = k BY Zenon, <2>1
  <2>2. CASE b # k
    <3>1. pc[b] = "report" /\ exit[b] = 0 /\ held'[b] = held[b] BY Zenon, <2>2 DEF OthersStay
    <3>2. proc[held[b]] = "ok" /\ held[b] # NoLease /\ held[b] \in Lease
      BY ZenonT(60), <3>1 DEF FleetInv, FleetTypeOK, ReportsTruth, Holding
    <3>3. held[b] # held[k] BY Zenon, <2>2, <3>2 DEF FleetInv, HeldApart
    <3> QED BY Zenon, <3>1, <3>2, <3>3 DEF OwnCommand
  <2> QED BY Zenon, <2>1, <2>2
<1>6. SuccessIsReal'
  BY Zenon DEF FleetInv, SuccessIsReal, NotYetReported, NoSuccess, OwnCommand
<1>7. OffersReady'
  BY Zenon, <1>1 DEF FleetInv, OffersReady, OthersStay
<1>8. NeedsFirst' BY Zenon, <1>1 DEF FleetInv, NeedsFirst, NoGrant
<1> QED BY Zenon, <1>1, <1>2, <1>3, <1>4, <1>5, <1>6, <1>7, <1>8 DEF FleetInv

-----------------------------------------------------------------------------
\* A claim of an offered node names a lease.
LEMMA OfferNamesLease ==
    ASSUME FleetInv, NEW k \in Worker, NEW j \in offers[k], NEW i \in 1..MaxAttempts
    PROVE  <<j[1], j[2], i>> \in Lease /\ WorkOf(<<j[1], j[2], i>>) = j[1] /\ NodeOf(<<j[1], j[2], i>>) = j[2]
<1>1. j \in Work \X Node BY Zenon DEF FleetInv, FleetTypeOK
<1> QED BY Zenon, <1>1 DEF Lease, WorkOf, NodeOf

\* A poll offers nodes all of whose needs have succeeded.
LEMMA PollKeeps ==
    ASSUME FleetInv, NEW k \in Worker, Poll(k)
    PROVE  FleetInv'
<1> DEFINE ready == {j \in Work \X Node :
                       j[2] \in ReadyNodes(state[j[1]], Needs, Succeeded(j[1]), InFlight(j[1]),
                                           Leased(j[1]))}
<1>1. offers' = [offers EXCEPT ![k] = ready] /\ UNCHANGED <<vars, held, pc, kill, exit, proc, faults>>
  BY Zenon DEF Poll
<1>2. ready \subseteq Work \X Node BY Zenon
<1>3. \A j \in ready : Needs[j[2]] \subseteq Succeeded(j[1]) BY Zenon DEF ReadyNodes
<1> HIDE DEF ready
<1>4. offers' \in [Worker -> SUBSET (Work \X Node)] BY Zenon, <1>1, <1>2 DEF FleetInv, FleetTypeOK
<1>5. \A w : Succeeded(w)' = Succeeded(w) BY Zenon, <1>1 DEF vars, Succeeded
<1>6. OffersReady' BY Zenon, <1>1, <1>3, <1>5 DEF FleetInv, FleetTypeOK, OffersReady
<1>7. IInv' BY Zenon, <1>1, NextIInv DEF FleetInv
<1>8. FleetTypeOK' BY Zenon, <1>1, <1>4, <1>7 DEF FleetInv, FleetTypeOK, IInv
<1>9. Holding' /\ HeldApart' /\ NotYetReported' /\ ReportsTruth' /\ SuccessIsReal'
  BY Zenon, <1>1 DEF FleetInv, Holding, HeldApart, NotYetReported, ReportsTruth, SuccessIsReal, vars
<1>10. NeedsFirst' BY Zenon, <1>1, <1>5 DEF FleetInv, NeedsFirst, vars
<1> QED BY Zenon, <1>6, <1>7, <1>8, <1>9, <1>10 DEF FleetInv

\* A grant inserts the row of one lease, and no result.
LEMMA GrantInserts ==
    ASSUME IInv, NEW l \in Lease, GrantLease(l)
    PROVE  /\ [Next]_vars /\ NoSuccess /\ attempt'[l] # "succeeded"
           /\ lease[l] = "NONE" /\ lease'[l] = "ACTIVE"
           /\ \A m \in Lease \ {l} : lease'[m] = lease[m]
<1>1. [Next]_vars BY Zenon DEF Next, Service, LeaseRequest
<1>2. /\ NoSuccess /\ attempt'[l] # "succeeded"
      /\ lease[l] = "NONE" /\ lease'[l] = "ACTIVE"
      /\ \A m \in Lease \ {l} : lease'[m] = lease[m]
  BY Zenon DEF GrantLease, InsertLease, NoSuccess, IInv, TypeOK
<1> QED BY Zenon, <1>1, <1>2

\* The lease of an offered node is granted: its needs have succeeded, and no worker
\* holds it yet.
LEMMA ClaimGranted ==
    ASSUME FleetInv, NEW k \in Worker, NEW j \in offers[k], NEW i \in 1..MaxAttempts,
           pc[k] = "idle", GrantLease(<<j[1], j[2], i>>),
           offers' = [offers EXCEPT ![k] = @ \ {j}], UNCHANGED <<kill, exit, proc>>,
           \/ /\ held' = [held EXCEPT ![k] = <<j[1], j[2], i>>]
              /\ pc' = [pc EXCEPT ![k] = "prepare"] /\ UNCHANGED faults
           \/ Fault("lost_claim") /\ UNCHANGED <<held, pc>>
    PROVE  FleetInv'
<1> DEFINE l == <<j[1], j[2], i>>
<1>1. l \in Lease /\ WorkOf(l) = j[1] /\ NodeOf(l) = j[2] BY Zenon, OfferNamesLease
<1>2. /\ [Next]_vars /\ NoSuccess /\ attempt'[l] # "succeeded"
      /\ lease[l] = "NONE" /\ lease'[l] = "ACTIVE"
      /\ \A m \in Lease \ {l} : lease'[m] = lease[m]
  BY Z3T(60), <1>1, GrantInserts DEF FleetInv
<1>3. /\ IInv' /\ GrantedStays
      /\ \A w : Succeeded(w) \subseteq Succeeded(w)'
  BY Zenon, <1>2, CoreStep DEF FleetInv
<1>4. Needs[NodeOf(l)] \subseteq Succeeded(WorkOf(l)) BY Zenon, <1>1 DEF FleetInv, OffersReady
<1>5. \/ held' = [held EXCEPT ![k] = l] /\ pc' = [pc EXCEPT ![k] = "prepare"] /\ UNCHANGED faults
      \/ Fault("lost_claim") /\ UNCHANGED <<held, pc>>
  BY Zenon
<1> HIDE DEF l
<1>6. /\ offers' \in [Worker -> SUBSET (Work \X Node)]
      /\ \A b \in Worker : offers'[b] \subseteq offers[b]
  BY Zenon DEF FleetInv, FleetTypeOK
<1>7. FleetTypeOK'
  BY Z3T(60), <1>1, <1>3, <1>5, <1>6, FaultsAssumption DEF FleetInv, FleetTypeOK, IInv, WorkerPC, Fault
<1>8. \A b \in Worker : held[b] # l
  BY ZenonT(60), <1>1, <1>2, NoLeaseAssumption DEF FleetInv, FleetTypeOK, Holding
<1>9. /\ \A b \in Worker \ {k} : held'[b] = held[b] /\ pc'[b] = pc[b]
      /\ (held'[k] = l /\ pc'[k] = "prepare") \/ (held'[k] = held[k] /\ pc'[k] = pc[k])
  BY Z3T(60), <1>5 DEF FleetInv, FleetTypeOK
<1>10. Holding' BY SMTT(60), <1>1, <1>2, <1>3, <1>9, NoLeaseAssumption DEF FleetInv, FleetTypeOK, Holding, GrantedStays
<1>11. HeldApart' BY Z3T(60), <1>8, <1>9 DEF FleetInv, HeldApart
<1>12. NotYetReported'
  BY Z3T(60), <1>2, <1>9 DEF FleetInv, FleetTypeOK, Holding, NotYetReported, NoSuccess
<1>13. ReportsTruth' BY Zenon, <1>9 DEF FleetInv, ReportsTruth
<1>14. SuccessIsReal' BY Zenon, <1>2 DEF FleetInv, SuccessIsReal, NoSuccess
<1>15. OffersReady' BY Zenon, <1>3, <1>6 DEF FleetInv, OffersReady
<1>16. NeedsFirst'
  <2> SUFFICES ASSUME NEW m \in Lease, lease'[m] # "NONE"
               PROVE  Needs[NodeOf(m)] \subseteq Succeeded(WorkOf(m))'
    BY ZenonT(60) DEF NeedsFirst
  <2>1. CASE m = l BY Z3T(60), <1>3, <1>4, <2>1
  <2>2. CASE m # l BY Zenon, <1>2, <1>3, <2>2 DEF FleetInv, NeedsFirst
  <2> QED BY Zenon, <2>1, <2>2
<1> QED BY Zenon, <1>3, <1>7, <1>10, <1>11, <1>12, <1>13, <1>14, <1>15, <1>16 DEF FleetInv

\* Whatever becomes of the request or its answer, a claim keeps the invariant.
LEMMA ClaimKeeps ==
    ASSUME FleetInv, NEW k \in Worker, NEW j \in offers[k], Claim(k, j)
    PROVE  FleetInv'
<1>1. ASSUME NEW i \in 1..MaxAttempts, GrantLease(<<j[1], j[2], i>>),
             \/ /\ held' = [held EXCEPT ![k] = <<j[1], j[2], i>>]
                /\ pc' = [pc EXCEPT ![k] = "prepare"] /\ UNCHANGED <<proc, faults>>
             \/ Fault("lost_claim") /\ UNCHANGED <<held, pc, proc>>
      PROVE  FleetInv'
  BY ZenonT(60), <1>1, ClaimGranted DEF Claim
<1>2. CASE /\ UNCHANGED faults \/ Fault("lost_claim")
           /\ UNCHANGED <<vars, held, pc, proc>>
  <2>1. offers' = [offers EXCEPT ![k] = @ \ {j}] /\ UNCHANGED <<kill, exit>> BY Zenon DEF Claim
  <2>2. NoGrant /\ NoSuccess BY Zenon, <1>2 DEF NoGrant, NoSuccess, vars
  <2>3. IInv' BY Zenon, <1>2, NextIInv DEF FleetInv
  <2>4. /\ offers' \in [Worker -> SUBSET (Work \X Node)] /\ offers'[k] \subseteq offers[k]
        /\ \A b \in Worker \ {k} : offers'[b] = offers[b]
    BY Zenon, <2>1 DEF FleetInv, FleetTypeOK
  <2>5. FleetTypeOK'
    BY Z3T(60), <1>2, <2>1, <2>3, <2>4, FaultsAssumption DEF FleetInv, FleetTypeOK, IInv, Fault
  <2>6. OthersStay(k) BY Zenon, <1>2, <2>1, <2>4 DEF OthersStay
  <2>7. OwnCommand(k) BY Zenon, <1>2 DEF OwnCommand
  <2>8. /\ held'[k] = held[k] /\ pc'[k] = pc[k] /\ exit'[k] = exit[k] /\ proc' = proc
    BY Zenon, <1>2, <2>1
  <2>9. pc[k] = "idle" /\ held[k] = NoLease BY Zenon DEF Claim, FleetInv, Holding
  <2> QED BY ZenonT(60), <1>2, <2>2, <2>4, <2>5, <2>6, <2>7, <2>8, <2>9, WorkerMoves
<1> QED BY Zenon, <1>1, <1>2 DEF Claim

\* An item in execution has a lease.
LEMMA HeldIsLease ==
    ASSUME FleetInv, NEW k \in Worker, pc[k] # "idle"
    PROVE  held[k] \in Lease
BY Z3T(60) DEF FleetInv, FleetTypeOK, Holding

\* A heartbeat moves no worker.
LEMMA HeartbeatKeeps ==
    ASSUME FleetInv, NEW k \in Worker, Heartbeat(k)
    PROVE  FleetInv'
<1>1. held[k] \in Lease BY Zenon, HeldIsLease DEF Heartbeat
<1>2. UNCHANGED <<offers, held, pc, exit, proc>> /\ kill' \in {kill, kill \cup {k}} /\ faults' \in 0..MaxFaults
  BY FaultsAssumption DEF Heartbeat, Fault, FleetInv, FleetTypeOK
<1>3. RenewLease(held[k]) \/ UNCHANGED vars BY Zenon DEF Heartbeat
<1>4. [Next]_vars BY Zenon, <1>1, <1>3 DEF Next, Service, LeaseRequest
<1>5. NoGrant /\ NoSuccess BY Zenon, <1>1, <1>3, ControlIsQuiet DEF FleetInv
<1>6. IInv' BY Zenon, <1>4, NextIInv DEF FleetInv
<1>7. FleetTypeOK' BY Zenon, <1>2, <1>6 DEF FleetInv, FleetTypeOK, IInv
<1>8. OthersStay(k) /\ OwnCommand(k) BY Z3T(60), <1>2 DEF OthersStay, OwnCommand
<1>9. pc[k] # "idle" /\ held[k] # NoLease /\ pc[k] \in {"prepare", "run"}
  BY Zenon DEF Heartbeat, FleetInv, Holding
<1> QED BY Z3T(60), <1>2, <1>4, <1>5, <1>7, <1>8, <1>9, WorkerMoves

\* A step of the execution that leaves the lease core alone.
LEMMA ExecutionKeeps ==
    ASSUME FleetInv, NEW k \in Worker, pc[k] \in {"prepare", "run"}, UNCHANGED <<vars, offers, held, kill>>,
           NEW to \in WorkerPC \ {"idle"}, pc' = [pc EXCEPT ![k] = to],
           NEW code \in {0, 1, NoArtifact}, exit' = [exit EXCEPT ![k] = code],
           NEW p \in ProcStatus, proc' = [proc EXCEPT ![held[k]] = p],
           faults' \in 0..MaxFaults, to = "report" /\ code = 0 => p = "ok"
    PROVE  FleetInv'
<1>1. held[k] \in Lease /\ held[k] # NoLease BY Zenon, HeldIsLease, NoLeaseAssumption
<1>2. [Next]_vars BY Zenon
<1>3. NoGrant /\ NoSuccess BY Zenon DEF NoGrant, NoSuccess, vars
<1>4. IInv' BY Zenon, <1>2, NextIInv DEF FleetInv
<1>5. /\ pc' \in [Worker -> WorkerPC] /\ exit' \in [Worker -> {0, 1, NoArtifact}]
      /\ proc' \in [Lease -> ProcStatus]
  BY Zenon, <1>1 DEF FleetInv, FleetTypeOK
<1>6. FleetTypeOK' BY Zenon, <1>4, <1>5 DEF FleetInv, FleetTypeOK, IInv
<1>7. pc'[k] = to /\ exit'[k] = code /\ proc'[held[k]] = p
  BY Zenon, <1>1 DEF FleetInv, FleetTypeOK
<1>8. OthersStay(k) BY Zenon DEF OthersStay, FleetInv, FleetTypeOK
<1>9. OwnCommand(k) BY Zenon, <1>1 DEF OwnCommand, FleetInv, FleetTypeOK
<1>10. /\ offers'[k] \subseteq offers[k] /\ held'[k] \in {held[k], NoLease}
       /\ pc'[k] = "idle" <=> held'[k] = NoLease
       /\ pc'[k] \in {"prepare", "run"} => pc[k] \in {"prepare", "run"}
       /\ pc'[k] = "report" /\ exit'[k] = 0 => proc'[held[k]] = "ok"
  BY ZenonT(60), <1>1, <1>7
<1> QED BY ZenonT(60), <1>2, <1>3, <1>6, <1>8, <1>9, <1>10, WorkerMoves

\* Start, Skip, Exit, DockerUnavailable, Kill and KilledReturns are such steps.
LEMMA CommandKeeps ==
    ASSUME FleetInv, NEW k \in Worker, Start(k) \/ Skip(k) \/ Exit(k) \/ DockerUnavailable(k)
           \/ Kill(k) \/ KilledReturns(k)
    PROVE  FleetInv'
<1>1. pc[k] \in {"prepare", "run"} /\ UNCHANGED <<vars, offers, held, kill>>
  BY Z3T(60) DEF Start, Skip, Exit, DockerUnavailable, Kill, KilledReturns
<1>2. held[k] \in Lease BY Z3T(60), <1>1, HeldIsLease
<1>3. faults' \in 0..MaxFaults
  BY Z3T(60), FaultsAssumption DEF Start, Skip, Exit, DockerUnavailable, Kill, KilledReturns, Fault,
     FleetInv, FleetTypeOK
<1>4. CASE Start(k)
  <2>1. PICK code \in {0, 1, NoArtifact} : code = exit[k] BY Zenon DEF FleetInv, FleetTypeOK
  <2>2. exit' = [exit EXCEPT ![k] = code] BY Zenon, <1>4, <2>1 DEF Start, FleetInv, FleetTypeOK
  <2>3. CASE pc' = [pc EXCEPT ![k] = "run"] /\ proc' = [proc EXCEPT ![held[k]] = "running"]
    <3>1. "run" \in WorkerPC \ {"idle"} /\ "running" \in ProcStatus BY Zenon DEF WorkerPC, ProcStatus
    <3>2. "run" = "report" /\ code = 0 => "running" = "ok" BY Zenon
    <3> QED BY ZenonT(60), <1>1, <1>3, <2>2, <2>3, <3>1, <3>2, ExecutionKeeps
  <2>4. CASE pc' = [pc EXCEPT ![k] = "panicked"] /\ UNCHANGED proc
    <3>1. PICK p \in ProcStatus : p = proc[held[k]] BY Zenon, <1>2 DEF FleetInv, FleetTypeOK
    <3>2. proc' = [proc EXCEPT ![held[k]] = p] BY Zenon, <1>2, <2>4, <3>1 DEF FleetInv, FleetTypeOK
    <3>3. "panicked" \in WorkerPC \ {"idle"} BY Zenon DEF WorkerPC
    <3>4. "panicked" = "report" /\ code = 0 => p = "ok" BY Zenon
    <3> QED BY ZenonT(60), <1>1, <1>3, <2>2, <2>4, <3>2, <3>3, <3>4, ExecutionKeeps
  <2> QED BY Zenon, <1>4, <2>3, <2>4 DEF Start
<1>5. CASE Skip(k) \/ Exit(k) \/ DockerUnavailable(k)
  <2>1. PICK code \in {0, 1, NoArtifact}, p \in {"ok", "failed", "killed"} :
          /\ exit' = [exit EXCEPT ![k] = code] /\ proc' = [proc EXCEPT ![held[k]] = p]
          /\ code = 0 => p = "ok"
    BY <1>5 DEF Skip, Exit, DockerUnavailable, NoArtifact
  <2>2. pc' = [pc EXCEPT ![k] = "report"] BY Zenon, <1>5 DEF Skip, Exit, DockerUnavailable
  <2> QED BY ZenonT(60), <1>1, <1>3, <2>1, <2>2, ExecutionKeeps DEF WorkerPC, ProcStatus
<1>6. CASE Kill(k)
  <2>1. PICK code \in {0, 1, NoArtifact} : code = exit[k] BY Zenon DEF FleetInv, FleetTypeOK
  <2>2. /\ exit' = [exit EXCEPT ![k] = code] /\ pc' = [pc EXCEPT ![k] = "run"]
        /\ proc' = [proc EXCEPT ![held[k]] = "killed"]
    BY Zenon, <1>6, <2>1 DEF Kill, FleetInv, FleetTypeOK
  <2>3. "run" \in WorkerPC \ {"idle"} /\ "killed" \in ProcStatus BY Zenon DEF WorkerPC, ProcStatus
  <2>4. "run" = "report" /\ code = 0 => "killed" = "ok" BY Zenon
  <2> QED BY ZenonT(60), <1>1, <1>3, <2>2, <2>3, <2>4, ExecutionKeeps
<1>7. CASE KilledReturns(k)
  <2>1. /\ exit' = [exit EXCEPT ![k] = 1] /\ pc' = [pc EXCEPT ![k] = "report"]
        /\ proc' = [proc EXCEPT ![held[k]] = "killed"]
    BY Zenon, <1>2, <1>7 DEF KilledReturns, FleetInv, FleetTypeOK
  <2>2. "report" \in WorkerPC \ {"idle"} /\ "killed" \in ProcStatus BY Zenon DEF WorkerPC, ProcStatus
  <2>3. 1 \in {0, 1, NoArtifact} /\ ("report" = "report" /\ 1 = 0 => "killed" = "ok") OBVIOUS
  <2> QED BY ZenonT(60), <1>1, <1>3, <2>1, <2>2, <2>3, ExecutionKeeps
<1> QED BY Z3T(60), <1>4, <1>5, <1>6, <1>7

\* What a completion that is applied does to the rows (CompleteLease).
LEMMA CompletionRows ==
    ASSUME NEW l, NEW code, CompleteLease(l, code)
    PROVE  /\ lease[l] = "ACTIVE" /\ lease' = [lease EXCEPT ![l] = "RELEASED"]
           /\ attempt' = [attempt EXCEPT ![l] = IF code = 0 THEN "succeeded" ELSE "failed"]
BY Zenon DEF CompleteLease

\* A completion that is applied records a success for a command that succeeded.
LEMMA ReportApplied ==
    ASSUME FleetInv, NEW k \in Worker, pc[k] = "report", exit[k] \in {0, 1}, [Next]_vars,
           NEW l \in Lease, l = held[k], l # NoLease,
           lease[l] = "ACTIVE", lease' = [lease EXCEPT ![l] = "RELEASED"],
           attempt' = [attempt EXCEPT ![l] = IF exit[k] = 0 THEN "succeeded" ELSE "failed"],
           UNCHANGED <<offers, held, kill, exit, proc>>,
           NEW to \in {"await", "release"}, pc' = [pc EXCEPT ![k] = to], faults' \in 0..MaxFaults
    PROVE  FleetInv'
<1>1. /\ IInv' /\ GrantedStays
      /\ \A w : Succeeded(w) \subseteq Succeeded(w)'
  BY Zenon, CoreStep DEF FleetInv
<1>2. /\ \A m \in Lease \ {l} : attempt'[m] = attempt[m]
      /\ attempt'[l] = "succeeded" => exit[k] = 0
      /\ NoGrant
  BY ZenonT(60) DEF FleetInv, IInv, TypeOK, NoGrant
<1>3. pc' \in [Worker -> WorkerPC] /\ pc'[k] = to /\ \A b \in Worker \ {k} : pc'[b] = pc[b]
  BY Z3T(60) DEF FleetInv, FleetTypeOK, WorkerPC
<1>4. FleetTypeOK' BY ZenonT(60), <1>1, <1>3 DEF FleetInv, FleetTypeOK, IInv
<1>5. Holding'
  BY <1>1, <1>3 DEF FleetInv, FleetTypeOK, Holding, GrantedStays
<1>6. HeldApart' BY ZenonT(60) DEF FleetInv, HeldApart
<1>7. NotYetReported'
  <2> SUFFICES ASSUME NEW b \in Worker, pc'[b] \in {"prepare", "run"} PROVE attempt'[held[b]] # "succeeded"
    BY Zenon DEF NotYetReported
  <2>1. b # k /\ pc[b] \in {"prepare", "run"} BY Z3T(60), <1>3
  <2>2. held[b] \in Lease /\ held[b] # l BY Z3T(60), <2>1, HeldIsLease DEF FleetInv, HeldApart
  <2> QED BY Z3T(60), <1>2, <2>1, <2>2 DEF FleetInv, NotYetReported
<1>8. ReportsTruth' BY Z3T(60), <1>3 DEF FleetInv, ReportsTruth
<1>9. SuccessIsReal' BY <1>2 DEF FleetInv, SuccessIsReal, ReportsTruth
<1>10. OffersReady' BY Z3T(60), <1>1 DEF FleetInv, OffersReady
<1>11. NeedsFirst' BY Z3T(60), <1>1, <1>2 DEF FleetInv, NeedsFirst, NoGrant
<1> QED BY ZenonT(60), <1>1, <1>4, <1>5, <1>6, <1>7, <1>8, <1>9, <1>10, <1>11 DEF FleetInv

\* A report is applied, refused or lost; what comes next is the answer or the release.
LEMMA ReportKeeps ==
    ASSUME FleetInv, NEW k \in Worker, Report(k)
    PROVE  FleetInv'
<1>1. pc[k] = "report" /\ UNCHANGED <<offers, held, kill, exit, proc>> BY Zenon DEF Report
<1>2. faults' \in 0..MaxFaults BY Z3T(60), FaultsAssumption DEF Report, Fault, FleetInv, FleetTypeOK
<1>3. CASE exit[k] # NoArtifact /\ CompleteLease(held[k], exit[k])
  <2>1. PICK to \in {"await", "release"} : pc' = [pc EXCEPT ![k] = to] BY Zenon DEF Report
  <2>2. PICK l \in Lease : l = held[k] /\ l # NoLease BY Zenon, <1>1, HeldIsLease, NoLeaseAssumption
  <2>3. exit[k] \in {0, 1} BY Zenon, <1>3 DEF FleetInv, FleetTypeOK
  <2>4. CompleteLease(l, exit[k]) BY Zenon, <1>3, <2>2
  <2>5. [Next]_vars BY Zenon, <2>3, <2>4 DEF Next, Service, LeaseRequest
  <2>6. /\ lease[l] = "ACTIVE" /\ lease' = [lease EXCEPT ![l] = "RELEASED"]
        /\ attempt' = [attempt EXCEPT ![l] = IF exit[k] = 0 THEN "succeeded" ELSE "failed"]
    BY ZenonT(60), <2>4, CompletionRows
  <2> QED BY ZenonT(60), <1>1, <1>2, <2>1, <2>2, <2>3, <2>5, <2>6, ReportApplied
<1>4. CASE UNCHANGED vars /\ pc' = [pc EXCEPT ![k] = "release"]
  <2>1. NoGrant /\ NoSuccess BY Zenon, <1>4 DEF NoGrant, NoSuccess, vars
  <2>2. IInv' BY Zenon, <1>4, NextIInv DEF FleetInv
  <2>3. pc' \in [Worker -> WorkerPC] /\ pc'[k] = "release" /\ \A b \in Worker \ {k} : pc'[b] = pc[b]
    BY ZenonT(60), <1>4 DEF FleetInv, FleetTypeOK, WorkerPC
  <2>4. FleetTypeOK' BY Z3T(60), <1>1, <1>2, <2>2, <2>3 DEF FleetInv, FleetTypeOK, IInv
  <2>5. OthersStay(k) /\ OwnCommand(k) BY Z3T(60), <1>1, <2>3 DEF OthersStay, OwnCommand
  <2>6. held[k] # NoLease BY ZenonT(60), <1>1 DEF FleetInv, Holding
  <2>7. offers'[k] \subseteq offers[k] /\ held'[k] = held[k] BY Z3T(60), <1>1
  <2> QED BY ZenonT(60), <1>4, <2>1, <2>3, <2>4, <2>5, <2>6, <2>7, WorkerMoves
<1> QED BY Z3T(60), <1>3, <1>4 DEF Report

\* A worker that turns to its next item, or is started again, with whatever became of
\* its command and its request.
LEMMA NextItemKeeps ==
    ASSUME FleetInv, NEW k \in Worker, NextItem(k), [Next]_vars, NoGrant, NoSuccess,
           NEW left \in SUBSET offers[k], offers' = [offers EXCEPT ![k] = left],
           faults' \in 0..MaxFaults, proc' \in [Lease -> ProcStatus], OwnCommand(k)
    PROVE  FleetInv'
<1>1. IInv' BY Zenon, NextIInv DEF FleetInv
<1>2. /\ pc' \in [Worker -> WorkerPC] /\ held' \in [Worker -> Lease \cup {NoLease}]
      /\ kill' \in SUBSET Worker /\ exit' \in [Worker -> {0, 1, NoArtifact}]
      /\ offers' \in [Worker -> SUBSET (Work \X Node)]
  BY Zenon DEF NextItem, FleetInv, FleetTypeOK, WorkerPC
<1>3. FleetTypeOK' BY Zenon, <1>1, <1>2 DEF FleetTypeOK, IInv
<1>4. pc'[k] = "idle" /\ held'[k] = NoLease /\ offers'[k] = left
  BY Zenon DEF NextItem, FleetInv, FleetTypeOK
<1>5. OthersStay(k) BY Zenon DEF NextItem, FleetInv, FleetTypeOK, OthersStay
<1> QED BY ZenonT(60), <1>3, <1>4, <1>5, WorkerMoves

\* The answer of the completion, or the fallback release.
LEMMA ReportedOrReleaseKeeps ==
    ASSUME FleetInv, NEW k \in Worker, Reported(k) \/ Release(k)
    PROVE  FleetInv'
<1>1. NextItem(k) /\ UNCHANGED <<offers, proc>> BY Zenon DEF Reported, Release
<1>2. held[k] \in Lease BY ZenonT(60), HeldIsLease DEF Reported, Release
<1>3. faults' \in 0..MaxFaults
  BY FaultsAssumption DEF Reported, Release, Fault, FleetInv, FleetTypeOK
<1>4. UNCHANGED vars \/ ReleaseLease(held[k]) BY Zenon DEF Reported, Release
<1>5. [Next]_vars BY Zenon, <1>2, <1>4 DEF Next, Service, LeaseRequest
<1>6. NoGrant /\ NoSuccess BY Zenon, <1>2, <1>4, ControlIsQuiet DEF FleetInv
<1>7. offers' = [offers EXCEPT ![k] = offers[k]] BY Zenon, <1>1 DEF FleetInv, FleetTypeOK
<1>8. proc' \in [Lease -> ProcStatus] /\ OwnCommand(k) BY Zenon, <1>1 DEF FleetInv, FleetTypeOK, OwnCommand
<1> QED BY ZenonT(60), <1>1, <1>3, <1>5, <1>6, <1>7, <1>8, NextItemKeeps

\* The worker dies or is terminated.
LEMMA WorkerFaultKeeps ==
    ASSUME FleetInv, NEW k \in Worker, WorkerFault(k)
    PROVE  FleetInv'
<1>1. NextItem(k) /\ offers' = [offers EXCEPT ![k] = {}]
  BY Zenon DEF WorkerFault, Crash, Terminate, CrashAwaiting
<1>2. faults' \in 0..MaxFaults
  BY FaultsAssumption DEF WorkerFault, Crash, Terminate, CrashAwaiting, Fault, FleetInv, FleetTypeOK
<1>3. pc[k] # "idle" BY ZenonT(60) DEF WorkerFault, Crash, Terminate, CrashAwaiting
<1>4. held[k] \in Lease BY Z3T(60), <1>3, HeldIsLease
<1>5. UNCHANGED vars \/ AbandonCompletion(held[k])
  BY Zenon DEF WorkerFault, Crash, Terminate, CrashAwaiting
<1>6. [Next]_vars BY Zenon, <1>4, <1>5 DEF Next, Failure
<1>7. NoGrant /\ NoSuccess BY Z3T(60), <1>4, <1>5, ControlIsQuiet DEF FleetInv, Failure
<1>8. proc' = proc \/ (pc[k] = "run" /\ proc' = [proc EXCEPT ![held[k]] = "killed"])
  BY Zenon DEF WorkerFault, Crash, Terminate, CrashAwaiting
<1>9. proc' \in [Lease -> ProcStatus] BY Z3T(60), <1>4, <1>8 DEF FleetInv, FleetTypeOK, ProcStatus
<1>10. OwnCommand(k) BY Z3T(60), <1>4, <1>8 DEF OwnCommand, FleetInv, FleetTypeOK
<1> QED BY ZenonT(60), <1>1, <1>2, <1>6, <1>7, <1>9, <1>10, NextItemKeeps

-----------------------------------------------------------------------------
\* Every request of a worker is a request of the lease core, for a lease that exists.
LEMMA WorkerUsesCore ==
    ASSUME FleetInv, NEW k \in Worker, WorkerStep(k) \/ WorkerFault(k)
    PROVE  [Next]_vars
<1>1. ASSUME NEW j \in offers[k], Claim(k, j) PROVE [Next]_vars
  <2>1. CASE UNCHANGED vars BY Zenon, <2>1
  <2>2. ASSUME NEW i \in 1..MaxAttempts, GrantLease(<<j[1], j[2], i>>) PROVE [Next]_vars
    <3>1. <<j[1], j[2], i>> \in Lease BY Z3T(60), OfferNamesLease
    <3> QED BY Zenon, <2>2, <3>1 DEF Next, Service, LeaseRequest
  <2> QED BY ZenonT(60), <1>1, <2>1, <2>2 DEF Claim
<1>2. CASE Poll(k) \/ Start(k) \/ Skip(k) \/ Exit(k) \/ DockerUnavailable(k) \/ Kill(k)
          \/ KilledReturns(k) \/ Reported(k) \/ Crash(k) \/ Terminate(k)
  BY Zenon, <1>2 DEF Poll, Start, Skip, Exit, DockerUnavailable, Kill, KilledReturns, Reported, Crash, Terminate
<1>3. CASE Heartbeat(k) \/ Report(k) \/ Release(k) \/ CrashAwaiting(k)
  <2>1. held[k] \in Lease BY ZenonT(60), <1>3, HeldIsLease DEF Heartbeat, Report, Release, CrashAwaiting
  <2>2. \/ UNCHANGED vars \/ RenewLease(held[k]) \/ ReleaseLease(held[k]) \/ AbandonCompletion(held[k])
        \/ \E code \in {0, 1} : CompleteLease(held[k], code)
    BY Zenon, <1>3 DEF Heartbeat, Report, Release, CrashAwaiting, FleetInv, FleetTypeOK
  <2> QED BY Z3T(60), <2>1, <2>2 DEF Next, Service, Failure, LeaseRequest
<1> QED BY ZenonT(60), <1>1, <1>2, <1>3 DEF WorkerStep, WorkerFault

\* What goes on beneath the workers.
LEMMA CoreAlone ==
    ASSUME FleetInv, (\E l \in Lease : Expiry(l)) \/ ControlPlane \/ HandlerFault \/ UNCHANGED allVars
    PROVE  FleetInv' /\ [Next]_vars
<1>1. UNCHANGED <<offers, held, pc, kill, exit, proc>> /\ faults' \in 0..MaxFaults
  BY FaultsAssumption
  DEF Expiry, ControlPlane, HandlerFault, allVars, workerVars, Fault, FleetInv, FleetTypeOK
<1>2. \/ \E l \in Lease : Handler(l) \/ LeaseExpires(l) \/ RenewLease(l) \/ ReleaseLease(l)
      \/ \E w \in Work : WorkRequest(w)
      \/ Reaper \/ Failure \/ UNCHANGED vars
  BY Zenon DEF Expiry, ControlPlane, HandlerFault, allVars
<1>3. NoGrant /\ NoSuccess BY Zenon, <1>2, ControlIsQuiet DEF FleetInv
<1>4. [Next]_vars BY Zenon, <1>2 DEF Next, Service, LeaseRequest
<1> QED BY Z3T(60), <1>1, <1>3, <1>4, CoreMoves

\* The first states.
LEMMA FleetInitially == FleetInit => FleetInv
<1> SUFFICES ASSUME FleetInit PROVE FleetInv BY Zenon
<1>1. IInv BY Zenon, InitIInv DEF FleetInit
<1>2. FleetTypeOK
  BY Z3T(60), <1>1, FaultsAssumption DEF FleetInit, FleetTypeOK, IInv, WorkerPC, ProcStatus
<1>3. Holding /\ HeldApart /\ NotYetReported /\ ReportsTruth /\ OffersReady
  BY Z3T(60) DEF FleetInit, Holding, HeldApart, NotYetReported, ReportsTruth, OffersReady
<1>4. SuccessIsReal /\ NeedsFirst BY Zenon DEF FleetInit, Init, SuccessIsReal, NeedsFirst
<1> QED BY Zenon, <1>1, <1>2, <1>3, <1>4 DEF FleetInv

\* Every step of the fleet keeps the invariant, and is a step of the lease core or none.
LEMMA FleetKept == FleetInv /\ [FleetNext]_allVars => FleetInv' /\ [Next]_vars
<1> SUFFICES ASSUME FleetInv, [FleetNext]_allVars PROVE FleetInv' /\ [Next]_vars BY Zenon
<1>1. ASSUME NEW k \in Worker, WorkerStep(k) \/ WorkerFault(k) PROVE FleetInv' /\ [Next]_vars
  <2>1. [Next]_vars BY Z3T(60), <1>1, WorkerUsesCore
  <2>2. FleetInv'
    BY ZenonT(60), <1>1, PollKeeps, ClaimKeeps, HeartbeatKeeps, CommandKeeps, ReportKeeps, ReportedOrReleaseKeeps,
       WorkerFaultKeeps
    DEF WorkerStep
  <2> QED BY Zenon, <2>1, <2>2
<1>2. CASE (\E l \in Lease : Expiry(l)) \/ ControlPlane \/ HandlerFault \/ UNCHANGED allVars
  BY Zenon, <1>2, CoreAlone
<1> QED BY Zenon, <1>1, <1>2 DEF FleetNext

\* The inductive invariant of the fleet holds throughout.
LEMMA FleetInvariant == FleetSpec => []FleetInv
<1>1. FleetInv /\ [FleetNext]_allVars => FleetInv' BY Zenon, FleetKept
<1> QED BY FleetInitially, <1>1, PTL DEF FleetSpec

-----------------------------------------------------------------------------
\* A node recorded as succeeded did succeed, under the very lease it is recorded for,
\* through kills, crashes, lost answers and late reports (execute, CompleteLease).
THEOREM RecordedSuccessIsReal == FleetSpec => []SuccessIsReal
<1>1. FleetInv => SuccessIsReal BY Zenon DEF FleetInv
<1> QED BY <1>1, FleetInvariant, PTL

\* No node is leased before all it needs has succeeded, whatever graph and however old
\* the offer (tick, ReadyNodes).
THEOREM DependenciesComeFirst == FleetSpec => []NeedsFirst
<1>1. FleetInv => NeedsFirst BY Zenon DEF FleetInv
<1> QED BY <1>1, FleetInvariant, PTL

\* The workers implement the clients of the lease core: whatever they, their faults and
\* the control plane do is a behaviour of LeaseStore (execute, heartbeatLoop).
THEOREM FleetRunsOnLeaseCore == FleetSpec => Spec
<1>1. FleetInit => Init BY Zenon DEF FleetInit
<1>2. FleetInv /\ [FleetNext]_allVars => [Next]_vars BY Zenon, FleetKept
<1> QED BY <1>1, <1>2, FleetInvariant, PTL DEF FleetSpec, Spec

\* What is promised of the lease core holds with the workers on it: one ACTIVE lease a
\* node, and the lifecycle of a Work that clients are promised (GrantLease, UpdateState).
THEOREM FleetKeepsLifecycle == FleetSpec => []OneActiveLease /\ ImplementsLifecycle
BY FleetRunsOnLeaseCore, LeaseExclusion, Refinement, PTL

=============================================================================
