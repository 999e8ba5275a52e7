----------------------------- MODULE LeaseStore -----------------------------
(***************************************************************************)
(* The lease core of the control plane: services/work/store/leases.go and  *)
(* placement_lease.go, the Work transitions of store.go and the lease      *)
(* reaper of services/api/leases.go.                                       *)
(*                                                                         *)
(* The writer pool of the store has one connection, so a write transaction *)
(* is one action.  CompleteLease does more than its transaction: it goes   *)
(* on, statement by statement, to append artifacts and evidence, to read   *)
(* the Work back and to finalize it.  Those statements interleave with     *)
(* every other request and are actions of their own, driven by fin[l], the *)
(* program counter of the handler that completed lease l.  The reaper too  *)
(* lists first and revokes later.                                          *)
(*                                                                         *)
(* A lease row and its attempt row are inserted together and share one     *)
(* identifier here: <<w, n, i>> is the i-th lease of node n of Work w.     *)
(* The clock is abstracted to the set overdue of the ACTIVE leases whose   *)
(* expires_at has passed.                                                  *)
(***************************************************************************)
EXTENDS WorkGraph, Naturals, FiniteSets
LOCAL INSTANCE TLC

CONSTANTS Work,         \* the Works, every one of them with the nodes of Node
          Node,         \* the nodes of a Work's graph
          Mission,      \* the Works that carry a mission contract
          MaxAttempts,  \* bound: the leases a node may be granted
          MaxLeases,    \* bound: the leases granted in all
          BatchLimit    \* ReaperConfig.BatchLimit

\* The nodes are interchangeable.
NodeSymmetry == Permutations(Node)

ASSUME MissionAssumption == Mission \subseteq Work

ASSUME MaxAttemptsAssumption == MaxAttempts \in Nat \ {0}

ASSUME MaxLeasesAssumption == MaxLeases \in Nat

ASSUME BatchLimitAssumption == BatchLimit \in Nat \ {0}

VARIABLES state,    \* works.state
          lease,    \* work_leases.status, "NONE" before the row exists
          attempt,  \* work_attempts.status, "none" before the row exists
          overdue,  \* the ACTIVE leases with expires_at < now
          fin,      \* where the CompleteLease handler of a lease stands
          seen,     \* that handler's w.State, read by GetWork
          reap      \* the reaper's list of leases left to revoke

vars == <<state, lease, attempt, overdue, fin, seen, reap>>

Lease == Work \X Node \X (1..MaxAttempts)

WorkOf(l) == l[1]

NodeOf(l) == l[2]

HandlerPC == {"idle", "append", "read", "attempts", "fail", "verify", "succeed"}

Paused == MissionOnlyState

Active(w, n) == {l \in Lease : WorkOf(l) = w /\ NodeOf(l) = n /\ lease[l] = "ACTIVE"}

Succeeded(w) == {NodeOf(l) : l \in {k \in Lease : WorkOf(k) = w /\ attempt[k] = "succeeded"}}

Failed(w) == {NodeOf(l) : l \in {k \in Lease : WorkOf(k) = w /\ attempt[k] = "failed"}}

InFlight(w) == {NodeOf(l) : l \in {k \in Lease : WorkOf(k) = w /\ attempt[k] = "running"}}

Leased(w) == {NodeOf(l) : l \in {k \in Lease : WorkOf(k) = w /\ lease[k] = "ACTIVE"}}

Init ==
    /\ state = [w \in Work |-> "CREATED"]
    /\ lease = [l \in Lease |-> "NONE"]
    /\ attempt = [l \in Lease |-> "none"]
    /\ overdue = {}
    /\ fin = [l \in Lease |-> "idle"]
    /\ seen = [l \in Lease |-> "CREATED"]
    /\ reap = {}

-----------------------------------------------------------------------------
\* The statements of the grant transactions that insert the attempt and the lease.
InsertLease(l) ==
    /\ lease[l] = "NONE"
    /\ Cardinality({k \in Lease : lease[k] # "NONE"}) < MaxLeases
    /\ \A i \in 1..MaxAttempts : i < l[3] => lease[<<l[1], l[2], i>>] # "NONE"
    /\ lease' = [lease EXCEPT ![l] = "ACTIVE"]
    /\ attempt' = [attempt EXCEPT ![l] = "running"]
    /\ UNCHANGED <<overdue, fin, seen, reap>>

\* Faulty variant of GrantLease: no look for an ACTIVE lease of the node.
GrantLeaseUnchecked(l) ==
    /\ state[WorkOf(l)] \notin TerminalState \cup Paused
    /\ InsertLease(l)
    /\ state' = IF state[WorkOf(l)] = "QUEUED"
                THEN [state EXCEPT ![WorkOf(l)] = "RUNNING"] ELSE state

\* Faulty variant of GrantLease: any Work that is not over is set running.
GrantLeaseThaws(l) ==
    /\ state[WorkOf(l)] \notin TerminalState
    /\ Active(WorkOf(l), NodeOf(l)) = {}
    /\ InsertLease(l)
    /\ state' = [state EXCEPT ![WorkOf(l)] = "RUNNING"]

\* POST /v1/leases/grant: the worker's own claim of a node.
GrantLease(l) ==
    /\ state[WorkOf(l)] \notin TerminalState \cup Paused
    /\ Active(WorkOf(l), NodeOf(l)) = {}
    /\ InsertLease(l)
    /\ state' = IF state[WorkOf(l)] = "QUEUED"
                THEN [state EXCEPT ![WorkOf(l)] = "RUNNING"] ELSE state

\* The Runtime placement grant: CREATED -> QUEUED -> RUNNING in one transaction.
GrantPlacementLease(l) ==
    /\ state[WorkOf(l)] \in {"CREATED", "QUEUED"}
    /\ Active(WorkOf(l), NodeOf(l)) = {}
    /\ InsertLease(l)
    /\ state' = [state EXCEPT ![WorkOf(l)] = "RUNNING"]

\* expires_at of an ACTIVE lease passes.
LeaseExpires(l) ==
    /\ lease[l] = "ACTIVE"
    /\ l \notin overdue
    /\ overdue' = overdue \cup {l}
    /\ UNCHANGED <<state, lease, attempt, fin, seen, reap>>

\* POST /v1/leases/{id}/heartbeat.
RenewLease(l) ==
    /\ lease[l] = "ACTIVE"
    /\ overdue' = overdue \ {l}
    /\ UNCHANGED <<state, lease, attempt, fin, seen, reap>>

\* MarkAttemptCancelled on the attempts att: only a running attempt changes.
MarkAttemptCancelled(att, l) ==
    IF att[l] = "running" THEN [att EXCEPT ![l] = "cancelled"] ELSE att

\* Faulty variant of TransitionLeaseAttempt: a release that comes late is applied to a settled lease.
TransitionLeaseAttemptLate(l, to) ==
    /\ lease[l] # "NONE"
    /\ lease' = [lease EXCEPT ![l] = to]
    /\ attempt' = [attempt EXCEPT ![l] = "cancelled"]
    /\ overdue' = overdue \ {l}
    /\ UNCHANGED <<state, fin, seen>>

\* The rows after transitionLeaseAttempt(l, to, "cancelled").
TransitionLeaseAttempt(l, to) ==
    /\ lease[l] # "NONE"
    /\ ValidateLeaseTransition(lease[l], to)
    /\ lease' = [lease EXCEPT ![l] = to]
    /\ attempt' = [attempt EXCEPT ![l] = "cancelled"]
    /\ overdue' = overdue \ {l}
    /\ UNCHANGED <<state, fin, seen>>

ReleaseLease(l) == TransitionLeaseAttempt(l, "RELEASED") /\ UNCHANGED reap

RevokeLease(l) == TransitionLeaseAttempt(l, "REVOKED") /\ UNCHANGED reap

-----------------------------------------------------------------------------
\* CompleteLease: the transaction.
CompleteLease(l, exitCode) ==
    /\ lease[l] = "ACTIVE"
    /\ lease' = [lease EXCEPT ![l] = "RELEASED"]
    /\ attempt' = [attempt EXCEPT ![l] = IF exitCode = 0 THEN "succeeded" ELSE "failed"]
    /\ overdue' = overdue \ {l}
    /\ fin' = [fin EXCEPT ![l] = "append"]
    /\ UNCHANGED <<state, seen, reap>>

\* AppendArtifact and AppendEvidence, after the commit.
AppendResults(l) ==
    /\ fin[l] = "append"
    /\ fin' = [fin EXCEPT ![l] = "read"]
    /\ UNCHANGED <<state, lease, attempt, overdue, seen, reap>>

\* GetWork reads the works row ...
ReadWork(l) ==
    /\ fin[l] = "read"
    /\ seen' = [seen EXCEPT ![l] = state[WorkOf(l)]]
    /\ fin' = [fin EXCEPT ![l] = "attempts"]
    /\ UNCHANGED <<state, lease, attempt, overdue, reap>>

\* Faulty variant of ReadAttempts: one node's success passes for all of them.
ReadAttemptsAnyOK(l) ==
    /\ fin[l] = "attempts"
    /\ fin' = [fin EXCEPT ![l] = IF Failed(WorkOf(l)) # {} THEN "fail"
                                ELSE IF Succeeded(WorkOf(l)) # {} THEN "verify" ELSE "idle"]
    /\ seen' = [seen EXCEPT ![l] = "CREATED"]
    /\ UNCHANGED <<state, lease, attempt, overdue, reap>>

\* ... and then, in another query, the attempts; the handler decides on the two.
ReadAttempts(l) ==
    LET w == WorkOf(l)
        anyFailed == Failed(w) # {}
        allOK == Succeeded(w) = Node
    IN  /\ fin[l] = "attempts"
        /\ \/ anyFailed /\ fin' = [fin EXCEPT ![l] = "fail"]
           \/ ~anyFailed /\ allOK /\ seen[l] = "RUNNING" /\ fin' = [fin EXCEPT ![l] = "verify"]
           \/ ~anyFailed /\ ~(allOK /\ seen[l] = "RUNNING") /\ fin' = [fin EXCEPT ![l] = "idle"]
        /\ seen' = [seen EXCEPT ![l] = "CREATED"]
        /\ UNCHANGED <<state, lease, attempt, overdue, reap>>

\* The state after UpdateState(w, to); a refused transition leaves it alone.
UpdateState(w, to) ==
    IF CanTransition(state[w], to) THEN [state EXCEPT ![w] = to] ELSE state

\* The handler logs a refused transition and goes on with the next statement.
FinalizeWork(l) ==
    /\ \/ fin[l] = "fail" /\ state' = UpdateState(WorkOf(l), "FAILED")
                          /\ fin' = [fin EXCEPT ![l] = "idle"]
       \/ fin[l] = "verify" /\ state' = UpdateState(WorkOf(l), "VERIFYING")
                            /\ fin' = [fin EXCEPT ![l] = "succeed"]
       \/ fin[l] = "succeed" /\ state' = UpdateState(WorkOf(l), "SUCCEEDED")
                             /\ fin' = [fin EXCEPT ![l] = "idle"]
    /\ UNCHANGED <<lease, attempt, overdue, seen, reap>>

\* An append fails, or the request's context is cancelled: the handler returns
\* early and nobody takes up what is left of it.
AbandonCompletion(l) ==
    /\ fin[l] # "idle"
    /\ fin' = [fin EXCEPT ![l] = "idle"]
    /\ seen' = [seen EXCEPT ![l] = "CREATED"]
    /\ UNCHANGED <<state, lease, attempt, overdue, reap>>

-----------------------------------------------------------------------------
\* reapOnce: ListExpiredLeases ...
ListExpiredLeases ==
    /\ reap = {}
    /\ overdue # {}
    /\ reap' \in {S \in SUBSET overdue :
                    \/ S = overdue /\ Cardinality(S) <= BatchLimit
                    \/ Cardinality(S) = BatchLimit}
    /\ UNCHANGED <<state, lease, attempt, overdue, fin, seen>>

\* Faulty variant of ReapLease: the attempt of a revoked lease stays running.
ReapLeaseOnly(l) ==
    /\ l \in reap
    /\ reap' = reap \ {l}
    /\ lease' = IF lease[l] = "ACTIVE" THEN [lease EXCEPT ![l] = "REVOKED"] ELSE lease
    /\ overdue' = overdue \ {l}
    /\ UNCHANGED <<state, attempt, fin, seen>>

\* ... then, lease by lease, RevokeLease and MarkAttemptCancelled; a refused
\* revoke is skipped.
ReapLease(l) ==
    /\ l \in reap
    /\ reap' = reap \ {l}
    /\ IF ValidateLeaseTransition(lease[l], "REVOKED")
       THEN /\ lease' = [lease EXCEPT ![l] = "REVOKED"]
            /\ attempt' = MarkAttemptCancelled([attempt EXCEPT ![l] = "cancelled"], l)
            /\ overdue' = overdue \ {l}
       ELSE UNCHANGED <<lease, attempt, overdue>>
    /\ UNCHANGED <<state, fin, seen>>

-----------------------------------------------------------------------------
\* POST /v1/works/{id}/queue, and the queue step of POST /v1/works.
QueueWork(w) ==
    /\ CanTransition(state[w], "QUEUED")
    /\ state' = UpdateState(w, "QUEUED")
    /\ UNCHANGED <<lease, attempt, overdue, fin, seen, reap>>

\* POST /v1/works/{id}/cancel.
CancelWork(w) ==
    /\ CanTransition(state[w], "CANCELLED")
    /\ state' = UpdateState(w, "CANCELLED")
    /\ UNCHANGED <<lease, attempt, overdue, fin, seen, reap>>

\* SuspendWork: the leases of the Work are left alone.
SuspendWork(w, to) ==
    /\ to \in {"WAITING_HUMAN", "SUSPENDED"}
    /\ ValidateTransition(state[w], to, w \in Mission)
    /\ state' = [state EXCEPT ![w] = to]
    /\ UNCHANGED <<lease, attempt, overdue, fin, seen, reap>>

SuspendableState == {"CREATED", "PLANNING", "QUEUED", "RUNNING", "VERIFYING", "BLOCKED"}

\* The revoke cascade of a device: any active mission state, the table or not.
CascadeSuspendWork(w) ==
    /\ w \in Mission
    /\ state[w] \in SuspendableState
    /\ state' = [state EXCEPT ![w] = "SUSPENDED"]
    /\ UNCHANGED <<lease, attempt, overdue, fin, seen, reap>>

\* ResumeFromCheckpoint; every suspend leaves a checkpoint behind.
ResumeFromCheckpoint(w) ==
    /\ w \in Mission
    /\ state[w] \in {"SUSPENDED", "WAITING_HUMAN"}
    /\ state' = UpdateState(w, "RUNNING")
    /\ UNCHANGED <<lease, attempt, overdue, fin, seen, reap>>

\* The API process dies: its handlers and the reaper's list are gone.
CrashAPI ==
    /\ reap # {} \/ \E l \in Lease : fin[l] # "idle"
    /\ fin' = [l \in Lease |-> "idle"]
    /\ seen' = [l \in Lease |-> "CREATED"]
    /\ reap' = {}
    /\ UNCHANGED <<state, lease, attempt, overdue>>

-----------------------------------------------------------------------------
Handler(l) == AppendResults(l) \/ ReadWork(l) \/ ReadAttempts(l) \/ FinalizeWork(l)

Reaper == ListExpiredLeases \/ \E l \in Lease : ReapLease(l)

LeaseRequest(l) ==
    \/ GrantLease(l) \/ GrantPlacementLease(l)
    \/ RenewLease(l) \/ ReleaseLease(l) \/ RevokeLease(l)
    \/ \E exitCode \in {0, 1} : CompleteLease(l, exitCode)

WorkRequest(w) ==
    \/ QueueWork(w) \/ CancelWork(w)
    \/ \E to \in MissionOnlyState : SuspendWork(w, to)
    \/ CascadeSuspendWork(w) \/ ResumeFromCheckpoint(w)

\* Everything but failures.
Service ==
    \/ \E l \in Lease : LeaseRequest(l) \/ LeaseExpires(l) \/ Handler(l)
    \/ \E w \in Work : WorkRequest(w)
    \/ Reaper

Failure == CrashAPI \/ \E l \in Lease : AbandonCompletion(l)

Next == Service \/ Failure

Spec == Init /\ [][Next]_vars

-----------------------------------------------------------------------------
\* Every column holds a value its schema and its readers know: a Work state, a lease
\* status, an attempt status (works, work_leases, work_attempts).
TypeOK ==
    /\ state \in [Work -> State]
    /\ lease \in [Lease -> LeaseStatus \cup {"NONE"}]
    /\ attempt \in [Lease -> AttemptStatus \cup {"none"}]
    /\ overdue \in SUBSET Lease
    /\ fin \in [Lease -> HandlerPC]
    /\ seen \in [Lease -> State]
    /\ reap \in SUBSET Lease

\* A node is leased to one worker at a time, whatever races: two claims, a claim
\* and a placement, a claim and the reaper (GrantLease, GrantPlacementLease).
OneActiveLease ==
    \A l1, l2 \in Lease :
        /\ lease[l1] = "ACTIVE" /\ lease[l2] = "ACTIVE"
        /\ WorkOf(l1) = WorkOf(l2) /\ NodeOf(l1) = NodeOf(l2)
        => l1 = l2

\* The two rows of a claim never disagree: an attempt is running exactly as long
\* as its lease is ACTIVE, so a reaped, released or completed node is free again
\* (transitionLeaseAttempt, CompleteLease, reapOnce).
ActiveIffRunning ==
    \A l \in Lease : (lease[l] = "ACTIVE") <=> (attempt[l] = "running")

\* A settled row stays as it is: no late completion, release, revocation or reaper
\* pass rewrites a lease that has ended or the outcome of its attempt.
SettledStaysSettled ==
    [][\A l \in Lease :
          lease[l] \in TerminalLease =>
              lease'[l] = lease[l] /\ attempt'[l] = attempt[l]]_vars

\* The freeze law of GrantLease: a paused mission goes on only by a resume.  No
\* claim, placement, completion or queue request sets it going again.
PauseEndsByResume ==
    [][\A w \in Work :
          state[w] \in Paused /\ state'[w] \notin Paused =>
              state'[w] \in TerminalState \/ ResumeFromCheckpoint(w)]_vars

\* The lease core implements the lifecycle clients are promised: a Work is verified
\* and succeeds only when every node has a successful attempt, and fails only when
\* one has failed, although the handlers decide on stale reads.
Lifecycle ==
    INSTANCE WorkLifecycle WITH done <- [w \in Work |-> Succeeded(w)],
                                broken <- [w \in Work |-> Failed(w)]

ImplementsLifecycle == Lifecycle!Spec

=============================================================================
