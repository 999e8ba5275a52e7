--------------------------- MODULE MissionCheckpoint ---------------------------
(***************************************************************************)
(* Suspend and governed resume of one mission: SuspendWork, the revoke     *)
(* cascade, the handoff table, and the resume endpoint with its receipts   *)
(* (store.go, link_suspend.go, events_bridge.go, resume_reconciliation.go, *)
(* services/api/work_resume.go and work_bridge.go).                        *)
(*                                                                         *)
(* A suspend is one transaction.  A resume is a chain of single statements *)
(* of its own each: look up the receipt, read the state, read the latest   *)
(* checkpoint and compare its hash with the approved one, and then in the  *)
(* store the state and the checkpoint once more before the transition, and *)
(* at last the receipt.  Requests interleave at every one of them.         *)
(***************************************************************************)
EXTENDS WorkGraph, Naturals, Sequences

CONSTANTS Payload,         \* handoff payloads; a payload stands for its hash too
          CascadePayload,  \* the payload of revokeCascadeHandoff for the device
          Aware,           \* the payloads that carry a verification checkpoint
          Request,         \* resume requests
          Key,             \* idempotency keys
          NoKey,           \* the key of a request not yet made
          MaxPauses        \* bound: how often the mission is suspended

ASSUME PayloadAssumption == CascadePayload \in Payload \ Aware /\ Aware \subseteq Payload

ASSUME KeyAssumption == NoKey \notin Key

ASSUME MaxPausesAssumption == MaxPauses \in Nat

VARIABLES state,     \* works.state of the mission
          handoffs,  \* work_handoffs by created_at: <<to_state, payload>>
          receipts,  \* work_resume_receipts: the approved payload by key
          req,       \* the resume requests
          pauses,    \* what each suspend so far recorded: <<to_state, payload>>
          ended      \* the pause a request's transition ended, 0 for none

vars == <<state, handoffs, receipts, req, pauses, ended>>

Resumable == {"SUSPENDED", "WAITING_HUMAN"}

Checkpoint == Resumable \X Payload

RequestPC == {"new", "lookup", "state", "bind", "reconcile", "read", "check", "update", "record",
              "ok", "replayed", "refused", "gone"}

\* The receipt of a key that has none.
NoReceipt == "none"

Init ==
    /\ state = "CREATED"
    /\ handoffs = <<>>
    /\ receipts = [k \in Key |-> NoReceipt]
    /\ req = [r \in Request |-> [pc |-> "new", key |-> NoKey, hash |-> CascadePayload,
                                 seen |-> "CREATED"]]
    /\ pauses = <<>>
    /\ ended = [r \in Request |-> 0]

LatestHandoff == handoffs[Len(handoffs)]

-----------------------------------------------------------------------------
\* Queueing, grants, finalization and cancel: none of them ends a pause but by
\* ending the mission.
Advance(to) ==
    /\ to \in {"QUEUED", "RUNNING", "VERIFYING", "SUCCEEDED", "FAILED", "CANCELLED"}
    /\ CanTransition(state, to)
    /\ state \in MissionOnlyState => to \in TerminalState
    /\ state' = to
    /\ UNCHANGED <<handoffs, receipts, req, pauses, ended>>

\* The statements SuspendWork and cascadeSuspendWork share: the state and, unless
\* the table has the same checkpoint already, the handoff.
RecordHandoff(to, p) ==
    /\ Len(pauses) < MaxPauses
    /\ state' = to
    /\ handoffs' = IF \E i \in 1..Len(handoffs) : handoffs[i] = <<to, p>>
                   THEN handoffs ELSE Append(handoffs, <<to, p>>)
    /\ pauses' = Append(pauses, <<to, p>>)
    /\ UNCHANGED <<receipts, req, ended>>

\* POST /v1/works/{id}/suspend.
SuspendWork(to, p) ==
    /\ to \in Resumable
    /\ ValidateTransition(state, to, TRUE)
    /\ RecordHandoff(to, p)

SuspendableState == {"CREATED", "PLANNING", "QUEUED", "RUNNING", "VERIFYING", "BLOCKED"}

\* SuspendMissionsForDevice: RUNNING and VERIFYING go through SuspendWork, the
\* other active states through cascadeSuspendWork.
CascadeSuspendWork ==
    /\ state \in SuspendableState
    /\ RecordHandoff("SUSPENDED", CascadePayload)

-----------------------------------------------------------------------------
\* Request r answers with answer, or goes on at pc.
Goto(r, pc) == req' = [req EXCEPT ![r].pc = pc]

\* POST /v1/works/{id}/resume with an approval of checkpoint hash.
Begin(r, key, hash) ==
    /\ req[r].pc = "new"
    /\ req' = [req EXCEPT ![r] = [pc |-> "lookup", key |-> key, hash |-> hash,
                                  seen |-> "CREATED"]]
    /\ UNCHANGED <<state, handoffs, receipts, pauses, ended>>

\* The receipt of the key: the same approval is replayed, another one refused.  A
\* lookup that fails counts as no receipt.
LookupReceipt(r) ==
    LET receipt == receipts[req[r].key]
    IN  /\ req[r].pc = "lookup"
        /\ \/ Goto(r, "state")
           \/ receipt = req[r].hash /\ Goto(r, "replayed")
           \/ receipt \notin {NoReceipt, req[r].hash} /\ Goto(r, "refused")
        /\ UNCHANGED <<state, handoffs, receipts, pauses, ended>>

\* The handler's GetWork.
CheckState(r) ==
    /\ req[r].pc = "state"
    /\ Goto(r, IF state \in Resumable THEN "bind" ELSE "refused")
    /\ UNCHANGED <<state, handoffs, receipts, pauses, ended>>

\* The latest checkpoint must be the approved one; a verification-aware one needs
\* a trusted observation of the world, which may be missing.
BindCheckpoint(r) ==
    /\ req[r].pc = "bind"
    /\ \/ /\ handoffs # <<>> /\ LatestHandoff[2] = req[r].hash
          /\ IF req[r].hash \in Aware THEN Goto(r, "reconcile") \/ Goto(r, "refused")
                                      ELSE Goto(r, "read")
       \/ (handoffs = <<>> \/ LatestHandoff[2] # req[r].hash) /\ Goto(r, "refused")
    /\ UNCHANGED <<state, handoffs, receipts, pauses, ended>>

\* ResumeFromCheckpointReconciled: the checkpoint once more, and the observation
\* reconciled against it; a stale or invalidated subject refuses the resume.
Reconcile(r) ==
    /\ req[r].pc = "reconcile"
    /\ \/ LatestHandoff[2] = req[r].hash /\ Goto(r, "read")
       \/ Goto(r, "refused")
    /\ UNCHANGED <<state, handoffs, receipts, pauses, ended>>

\* resumeFromCheckpoint: GetWork ...
ReadState(r) ==
    /\ req[r].pc = "read"
    /\ \/ state \in Resumable /\ req' = [req EXCEPT ![r].pc = "check", ![r].seen = state]
       \/ state \notin Resumable /\ Goto(r, "refused")
    /\ UNCHANGED <<state, handoffs, receipts, pauses, ended>>

\* ... LatestHandoffRecord: the checkpoint is for the state just read, on the
\* verification-aware path it is still the approved one, and on the plain path it
\* is not verification-aware ...
CheckHandoff(r) ==
    LET ok == /\ LatestHandoff[1] = req[r].seen
              /\ IF req[r].hash \in Aware THEN LatestHandoff[2] = req[r].hash
                                          ELSE LatestHandoff[2] \notin Aware
    IN  /\ req[r].pc = "check"
        /\ Goto(r, IF ok THEN "update" ELSE "refused")
        /\ UNCHANGED <<state, handoffs, receipts, pauses, ended>>

\* Faulty variant of UpdateToRunning: the table is asked about the state read before.
UpdateToRunningStale(r) ==
    /\ req[r].pc = "update"
    /\ state' = "RUNNING"
    /\ ended' = [ended EXCEPT ![r] = Len(pauses)]
    /\ Goto(r, "record") \/ Goto(r, "refused")
    /\ UNCHANGED <<handoffs, receipts, pauses>>

\* ... and UpdateStateEventful to RUNNING.  When the journal record fails the
\* transition has happened all the same and the request is refused.
UpdateToRunning(r) ==
    /\ req[r].pc = "update"
    /\ \/ /\ CanTransition(state, "RUNNING")
          /\ state' = "RUNNING"
          /\ ended' = [ended EXCEPT ![r] = Len(pauses)]
          /\ Goto(r, "record") \/ Goto(r, "refused")
       \/ ~CanTransition(state, "RUNNING") /\ Goto(r, "refused") /\ UNCHANGED <<state, ended>>
    /\ UNCHANGED <<handoffs, receipts, pauses>>

\* RecordResumeReceipt: a key that has a receipt keeps it.
RecordReceipt(r) ==
    /\ req[r].pc = "record"
    /\ receipts' = IF receipts[req[r].key] = NoReceipt
                   THEN [receipts EXCEPT ![req[r].key] = req[r].hash] ELSE receipts
    /\ Goto(r, "ok")
    /\ UNCHANGED <<state, handoffs, pauses, ended>>

\* The API process dies or the client hangs up: the request is gone.
AbandonRequest(r) ==
    /\ req[r].pc \notin {"new", "ok", "replayed", "refused", "gone"}
    /\ Goto(r, "gone")
    /\ UNCHANGED <<state, handoffs, receipts, pauses, ended>>

-----------------------------------------------------------------------------
ResumeStep(r) ==
    \/ \E key \in Key, hash \in Payload : Begin(r, key, hash)
    \/ LookupReceipt(r) \/ CheckState(r) \/ BindCheckpoint(r) \/ Reconcile(r)
    \/ ReadState(r) \/ CheckHandoff(r) \/ UpdateToRunning(r) \/ RecordReceipt(r)

Next ==
    \/ \E to \in State : Advance(to)
    \/ \E to \in Resumable, p \in Payload : SuspendWork(to, p)
    \/ CascadeSuspendWork
    \/ \E r \in Request : ResumeStep(r) \/ AbandonRequest(r)

Spec == Init /\ [][Next]_vars

-----------------------------------------------------------------------------
\* Handoffs are recorded for the paused states only, and rows and requests keep
\* their types (work_handoffs, work_resume_receipts).
TypeOK ==
    /\ state \in State
    /\ handoffs \in Seq(Checkpoint)
    /\ receipts \in [Key -> Payload \cup {NoReceipt}]
    /\ req \in [Request -> [pc : RequestPC, key : Key \cup {NoKey}, hash : Payload, seen : State]]
    /\ pauses \in Seq(Checkpoint)
    /\ ended \in [Request -> Nat]

\* ADR-0010, "a suspend without a handoff cannot happen": the checkpoint of the pause
\* a mission is in is in the table, also when the insert was skipped as a duplicate
\* (SuspendWork, cascadeSuspendWork).
PauseHasCheckpoint ==
    state \in Resumable =>
        /\ pauses # <<>>
        /\ pauses[Len(pauses)][1] = state
        /\ \E i \in 1..Len(handoffs) : handoffs[i] = pauses[Len(pauses)]

\* A pause is ended by one approval at most: of two resume requests that passed
\* every check before the transition, one is refused (UpdateState).
OneResumePerPause ==
    \A r, s \in Request : ended[r] = ended[s] /\ ended[r] # 0 => r = s

\* A resume only follows an approval of a checkpoint that really was recorded for
\* this mission (BindCheckpoint).
ApprovedWasRecorded ==
    \A r \in Request : ended[r] # 0 => \E i \in 1..Len(handoffs) : handoffs[i][2] = req[r].hash

-----------------------------------------------------------------------------
\* The resume endpoint's comment: a checkpoint mismatch is "never a silent resume from
\* a stale/different checkpoint".
ResumesWhatWasApproved ==
    \A r \in Request : ended[r] # 0 => pauses[ended[r]][2] = req[r].hash

=============================================================================
