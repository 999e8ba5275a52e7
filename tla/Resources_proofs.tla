-------------------------- MODULE Resources_proofs --------------------------
(***************************************************************************)
(* Proofs about what a Work uses and what it leaves behind, for any number *)
(* of requests, pauses, connections, charges, computers, artifacts and     *)
(* crashes: the shutdown of the API, the checkpoint a mission Work is      *)
(* resumed from, the budget it is charged to, the computer providers, and  *)
(* the artifacts. The five share no variable; each has its own inductive   *)
(* invariant.                                                              *)
(***************************************************************************)
EXTENDS ApiShutdown, MissionCheckpoint, BudgetLedger, Computers, ArtifactStore, TLAPS

-----------------------------------------------------------------------------
(* The shutdown of the API. *)

\* How far the shutdown is says which handlers can still run: a server that was shut
\* down accepts nothing, a server whose Shutdown returned in time has no handler, and
\* the artifact directory is closed at the very end of a clean drain.
ShutdownInv ==
    /\ ShutdownTypeOK
    /\ stage # "up" => "http" \notin listening
    /\ stage \notin {"up", "http"} => listening = {}
    /\ drained /\ stage \notin {"up", "http"} => Busy("http") = {}
    /\ drained /\ stage \notin {"up", "http", "mtls"} => Busy("mtls") = {}
    /\ ~artifacts => drained /\ stage = "stopped"

\* Every step of a handler, a publish goroutine or main keeps it.
LEMMA ShutdownKept == ShutdownInv /\ [ShutdownNext]_shutdownVars => ShutdownInv'
<1> SUFFICES ASSUME ShutdownInv, [ShutdownNext]_shutdownVars PROVE ShutdownInv'
  BY Zenon
<1> USE DEF ShutdownInv, ShutdownTypeOK, Busy, Listener, HandlerStage, Stage
<1>1. ASSUME NEW c \in Conn, NEW l \in Listener, Accept(c, l) PROVE ShutdownInv'
  BY Zenon, <1>1 DEF Accept
<1>2. ASSUME NEW c \in Conn, Serve(c) PROVE ShutdownInv'
  BY <1>2 DEF Serve, HandlerGoto
<1>3. ASSUME NEW c \in Conn, CheckGate(c) PROVE ShutdownInv'
  BY <1>3 DEF CheckGate, HandlerGoto
<1>4. ASSUME NEW c \in Conn, AddPublish(c) PROVE ShutdownInv'
  BY <1>4 DEF AddPublish, HandlerGoto
<1>5. ASSUME NEW c \in Conn, PublishDone(c) PROVE ShutdownInv'
  BY Zenon, <1>5 DEF PublishDone
<1>6. CASE Signal
  BY Zenon, <1>6 DEF Signal
<1>7. CASE ShutdownServer("http", "mtls")
  BY Zenon, <1>7 DEF ShutdownServer
<1>8. CASE ShutdownServer("mtls", "gate")
  <2>1. CASE Busy("mtls") = {} /\ UNCHANGED drained
    BY Zenon, <1>8, <2>1 DEF ShutdownServer
  <2>2. CASE ~drained'
    BY Zenon, <1>8, <2>2 DEF ShutdownServer
  <2> QED
    BY Zenon, <1>8, <2>1, <2>2 DEF ShutdownServer
<1>9. CASE CloseGate \/ WaitPublisher
  <2>1. CASE CloseGate
    BY Zenon, <2>1 DEF CloseGate
  <2>2. CASE WaitPublisher
    BY Zenon, <2>2 DEF WaitPublisher
  <2> QED
    BY Zenon, <1>9, <2>1, <2>2
<1>10. CASE CloseArtifactRoot
  BY Zenon, <1>10 DEF CloseArtifactRoot
<1>11. CASE UNCHANGED shutdownVars
  BY Zenon, <1>11 DEF shutdownVars
<1> QED
  BY ZenonT(60), <1>1, <1>2, <1>3, <1>4, <1>5, <1>6, <1>7, <1>8, <1>9, <1>10, <1>11 DEF ShutdownNext, ShutdownStep

\* The inductive invariant holds in every state of a shutdown.
LEMMA ShutdownInvariant == ShutdownSpec => []ShutdownInv
<1>1. ShutdownInit => ShutdownInv
  <2> SUFFICES ASSUME ShutdownInit PROVE ShutdownInv
    BY Zenon
  <2>1. ShutdownTypeOK
    BY Zenon DEF ShutdownInit, ShutdownTypeOK, Listener, HandlerStage, Stage
  <2> QED
    BY Zenon, <2>1 DEF ShutdownInit, ShutdownInv
<1> QED
  BY <1>1, ShutdownKept, PTL DEF ShutdownSpec

\* However many connections hang, no handler runs once the artifact directory is closed
\* (main, CloseArtifactRoot).
THEOREM ArtifactsOutliveHandlers == ShutdownSpec => []ClosedAfterLastHandler
<1>1. ShutdownInv => ClosedAfterLastHandler
  BY Zenon DEF ShutdownInv, ClosedAfterLastHandler
<1> QED
  BY <1>1, ShutdownInvariant, PTL

\* After a clean drain nothing is added to the WaitGroup that main waits for
\* (publisher_hook.go, WaitPublisher).
THEOREM CleanDrainIsFinal == ShutdownSpec => []NoAddAfterCleanDrain
<1>1. ShutdownInv => NoAddAfterCleanDrain
  BY Zenon DEF ShutdownInv, ShutdownTypeOK, NoAddAfterCleanDrain, Busy, Listener
<1> QED
  BY <1>1, ShutdownInvariant, PTL

-----------------------------------------------------------------------------
(* Suspend and resume: one approval per pause, and a resume that stands on it. *)

\* A mission that has been paused is past the states that lead up to RUNNING.
PausedOnce == pauses # <<>> => state \notin {"CREATED", "PLANNING", "QUEUED", "BLOCKED"}

\* The pauses that were ended are pauses there were, and the current one is not
\* among them.
EndedPauses ==
    \A r \in Request :
        /\ ended[r] <= Len(pauses)
        /\ ended[r] = Len(pauses) /\ ended[r] # 0 => state \notin Resumable

Recorded(p) == \E i \in 1..Len(handoffs) : handoffs[i][2] = p

\* A request past BindCheckpoint approves a checkpoint of the table.
BoundRequests ==
    \A r \in Request :
        req[r].pc \in {"reconcile", "read", "check", "update", "record"} => Recorded(req[r].hash)

\* Every handoff was written by a suspend.
HandoffsFromPauses == handoffs # <<>> => pauses # <<>>

\* A request that has not begun has resumed nothing.
NewRequests == \A r \in Request : req[r].pc = "new" => ended[r] = 0

IInv ==
    /\ TypeOK
    /\ PauseHasCheckpoint
    /\ OneResumePerPause
    /\ ApprovedWasRecorded
    /\ PausedOnce
    /\ EndedPauses
    /\ BoundRequests
    /\ HandoffsFromPauses
    /\ NewRequests

\* A mission without pauses, handoffs and requests satisfies the invariant.
THEOREM InitIInv == Init => IInv
BY PayloadAssumption
DEF Init, IInv, TypeOK, PauseHasCheckpoint, OneResumePerPause, ApprovedWasRecorded, PausedOnce,
    EndedPauses, BoundRequests, HandoffsFromPauses, NewRequests, State, Resumable, RequestPC,
    Checkpoint, NoReceipt

\* Advance changes nothing but the state, and never into or within a pause.
LEMMA AdvanceIInv ==
    ASSUME IInv, NEW to \in State, Advance(to)
    PROVE  IInv'
<1>1. state' = to /\ to \notin Resumable /\ UNCHANGED <<handoffs, receipts, req, pauses, ended>>
  BY Zenon DEF Advance, Resumable
<1>2. to \notin {"CREATED", "PLANNING", "BLOCKED"} BY Zenon DEF Advance
<1>3. to = "QUEUED" => state \in {"CREATED", "PLANNING"}
  BY DEF Advance, CanTransition, ValidTransitions
<1>4. TypeOK' BY Zenon, <1>1 DEF IInv, TypeOK
<1>5. PauseHasCheckpoint' /\ PausedOnce' /\ HandoffsFromPauses' /\ NewRequests'
  BY Zenon, <1>1, <1>2, <1>3 DEF IInv, PauseHasCheckpoint, PausedOnce, HandoffsFromPauses, NewRequests
<1>6. EndedPauses' /\ OneResumePerPause'
  BY Zenon, <1>1 DEF IInv, EndedPauses, OneResumePerPause
<1>7. ApprovedWasRecorded' /\ BoundRequests'
  BY Zenon, <1>1 DEF IInv, ApprovedWasRecorded, BoundRequests, Recorded
<1> QED BY Zenon, <1>4, <1>5, <1>6, <1>7 DEF IInv

\* A suspend adds a pause, and its checkpoint unless the table has it.
LEMMA RecordHandoffIInv ==
    ASSUME IInv, NEW to \in Resumable, NEW p \in Payload, RecordHandoff(to, p)
    PROVE  IInv'
<1> DEFINE c == <<to, p>>
<1>1. c \in Checkpoint BY Zenon DEF Checkpoint
<1>2. handoffs \in Seq(Checkpoint) /\ pauses \in Seq(Checkpoint) BY Zenon DEF IInv, TypeOK
<1>3. /\ pauses' \in Seq(Checkpoint) /\ Len(pauses') = Len(pauses) + 1
      /\ pauses'[Len(pauses')] = c
  BY <1>1, <1>2 DEF RecordHandoff
<1>4. /\ handoffs' \in Seq(Checkpoint)
      /\ \E i \in 1..Len(handoffs') : handoffs'[i] = c
      /\ \A i \in 1..Len(handoffs) : i \in 1..Len(handoffs') /\ handoffs'[i] = handoffs[i]
  <2>1. CASE \E i \in 1..Len(handoffs) : handoffs[i] = c
    BY Zenon, <1>2, <2>1 DEF RecordHandoff
  <2>2. CASE ~ \E i \in 1..Len(handoffs) : handoffs[i] = c
    <3>1. handoffs' = Append(handoffs, c) BY Zenon, <2>2 DEF RecordHandoff
    <3>2. Len(handoffs') = Len(handoffs) + 1 /\ handoffs'[Len(handoffs) + 1] = c
      BY <1>1, <1>2, <3>1
    <3>3. handoffs' \in Seq(Checkpoint) BY <1>1, <1>2, <3>1
    <3>4. Len(handoffs) \in Nat BY <1>2
    <3>5. \E i \in 1..Len(handoffs') : handoffs'[i] = c BY <3>2, <3>4
    <3>6. ASSUME NEW i \in 1..Len(handoffs)
          PROVE  i \in 1..Len(handoffs') /\ handoffs'[i] = handoffs[i]
      <4>1. i \in 1..Len(handoffs') BY <3>2, <3>4
      <4>2. handoffs'[i] = handoffs[i] BY <1>1, <1>2, <3>1, <3>4
      <4> QED BY Zenon, <4>1, <4>2
    <3> QED BY Zenon, <3>3, <3>5, <3>6
  <2> QED BY Zenon, <2>1, <2>2
<1>5. state' = to /\ UNCHANGED <<receipts, req, ended>> BY Zenon DEF RecordHandoff
<1>6. TypeOK' BY Zenon, <1>3, <1>4, <1>5 DEF IInv, TypeOK, State, Resumable
<1>7. PauseHasCheckpoint' /\ PausedOnce' /\ HandoffsFromPauses' /\ NewRequests'
  BY <1>2, <1>3, <1>4, <1>5
  DEF IInv, PauseHasCheckpoint, PausedOnce, HandoffsFromPauses, NewRequests, Resumable
<1>8. EndedPauses' /\ OneResumePerPause'
  BY <1>2, <1>3, <1>5 DEF EndedPauses, OneResumePerPause, IInv, TypeOK
<1>9. ApprovedWasRecorded' /\ BoundRequests'
  BY SMTT(60), <1>4, <1>5 DEF ApprovedWasRecorded, BoundRequests, Recorded, IInv
<1> QED BY Zenon, <1>6, <1>7, <1>8, <1>9 DEF IInv

\* A step of a request that changes nothing but the request itself, and does not take
\* it past BindCheckpoint.
LEMMA RequestIInv ==
    ASSUME IInv, NEW r \in Request, NEW pc \in RequestPC \ {"new"}, NEW seen \in State,
           UNCHANGED <<state, handoffs, pauses, ended>>,
           receipts' \in [Key -> Payload \cup {NoReceipt}],
           req' = [req EXCEPT ![r].pc = pc, ![r].seen = seen],
           pc \in {"reconcile", "read", "check", "update", "record"} => Recorded(req[r].hash)
    PROVE  IInv'
<1>1. /\ req' \in [Request -> [pc : RequestPC, key : Key \cup {NoKey}, hash : Payload, seen : State]]
      /\ req'[r].pc = pc
      /\ \A q \in Request : req'[q].hash = req[q].hash
      /\ \A q \in Request \ {r} : req'[q].pc = req[q].pc
  BY ZenonT(60) DEF IInv, TypeOK
<1>2. TypeOK' BY <1>1 DEF IInv, TypeOK
<1>3. PauseHasCheckpoint' /\ PausedOnce' /\ HandoffsFromPauses' /\ EndedPauses' /\ OneResumePerPause'
  BY Zenon DEF IInv, PauseHasCheckpoint, PausedOnce, HandoffsFromPauses, EndedPauses, OneResumePerPause
<1>4. ApprovedWasRecorded' BY <1>1 DEF IInv, ApprovedWasRecorded
<1>5. BoundRequests' BY <1>1 DEF IInv, BoundRequests, Recorded
<1>6. NewRequests' BY Zenon, <1>1 DEF IInv, NewRequests
<1> QED BY Zenon, <1>2, <1>3, <1>4, <1>5, <1>6 DEF IInv

\* Goto leaves what the request has read as it is.
LEMMA GotoIInv ==
    ASSUME IInv, NEW r \in Request, NEW pc \in RequestPC \ {"new"}, Goto(r, pc),
           UNCHANGED <<state, handoffs, pauses, ended>>,
           receipts' \in [Key -> Payload \cup {NoReceipt}],
           pc \in {"reconcile", "read", "check", "update", "record"} => Recorded(req[r].hash)
    PROVE  IInv'
<1>1. req[r].seen \in State /\ req' = [req EXCEPT ![r].pc = pc, ![r].seen = req[r].seen]
  BY Zenon DEF IInv, TypeOK, Goto
<1> QED BY Zenon, <1>1, RequestIInv

\* A new request has approved nothing yet.
LEMMA BeginIInv ==
    ASSUME IInv, NEW r \in Request, NEW key \in Key, NEW hash \in Payload, Begin(r, key, hash)
    PROVE  IInv'
<1>1. /\ req' \in [Request -> [pc : RequestPC, key : Key \cup {NoKey}, hash : Payload, seen : State]]
      /\ req'[r].pc = "lookup" /\ ended[r] = 0
      /\ \A q \in Request \ {r} : req'[q] = req[q]
      /\ UNCHANGED <<state, handoffs, receipts, pauses, ended>>
  BY Zenon DEF Begin, IInv, TypeOK, NewRequests, State, RequestPC
<1>2. TypeOK' BY Zenon, <1>1 DEF IInv, TypeOK
<1>3. PauseHasCheckpoint' /\ PausedOnce' /\ HandoffsFromPauses' /\ EndedPauses' /\ OneResumePerPause'
  BY Zenon, <1>1
  DEF IInv, PauseHasCheckpoint, PausedOnce, HandoffsFromPauses, EndedPauses, OneResumePerPause
<1>4. ApprovedWasRecorded' BY ZenonT(60), <1>1 DEF IInv, ApprovedWasRecorded
<1>5. BoundRequests' BY <1>1 DEF IInv, BoundRequests, Recorded
<1>6. NewRequests' BY Zenon, <1>1 DEF IInv, NewRequests
<1> QED BY Zenon, <1>2, <1>3, <1>4, <1>5, <1>6 DEF IInv

\* The transition to RUNNING ends the pause the mission is in, and no other request
\* has ended it.
LEMMA UpdateIInv ==
    ASSUME IInv, NEW r \in Request, NEW pc \in {"record", "refused"}, req[r].pc = "update",
           CanTransition(state, "RUNNING"), state' = "RUNNING",
           ended' = [ended EXCEPT ![r] = Len(pauses)], Goto(r, pc),
           UNCHANGED <<handoffs, receipts, pauses>>
    PROVE  IInv'
<1>1. /\ req' \in [Request -> [pc : RequestPC, key : Key \cup {NoKey}, hash : Payload, seen : State]]
      /\ req'[r].pc = pc
      /\ \A q \in Request : req'[q].hash = req[q].hash
      /\ \A q \in Request \ {r} : req'[q].pc = req[q].pc
  BY ZenonT(60) DEF IInv, TypeOK, Goto, RequestPC
<1>2. Recorded(req[r].hash) BY DEF IInv, BoundRequests
<1>3. pauses # <<>> BY <1>2 DEF IInv, TypeOK, Recorded, HandoffsFromPauses
<1>4. state \in Resumable
  BY <1>3 DEF IInv, PausedOnce, CanTransition, ValidTransitions, Resumable
<1>5. Len(pauses) \in Nat \ {0} BY <1>3 DEF IInv, TypeOK
<1>6. /\ ended' \in [Request -> Nat] /\ ended'[r] = Len(pauses)
      /\ \A q \in Request \ {r} : ended'[q] = ended[q]
      /\ \A q \in Request : ended[q] # Len(pauses) /\ ended[q] <= Len(pauses)
  BY <1>4, <1>5 DEF IInv, TypeOK, EndedPauses
<1>7. TypeOK' BY Zenon, <1>1, <1>6 DEF IInv, TypeOK, State
<1>8. PauseHasCheckpoint' /\ PausedOnce' /\ HandoffsFromPauses'
  BY Zenon DEF IInv, PauseHasCheckpoint, PausedOnce, HandoffsFromPauses, Resumable
<1>9. EndedPauses' BY <1>5, <1>6 DEF EndedPauses, Resumable
<1>10. OneResumePerPause' BY Zenon, <1>6 DEF IInv, OneResumePerPause
<1>11. ApprovedWasRecorded' BY <1>1, <1>2, <1>6 DEF IInv, ApprovedWasRecorded, Recorded
<1>12. BoundRequests' BY ZenonT(60), <1>1, <1>2 DEF IInv, BoundRequests, Recorded
<1>13. NewRequests' BY ZenonT(60), <1>1, <1>6 DEF IInv, NewRequests
<1> QED BY Zenon, <1>7, <1>8, <1>9, <1>10, <1>11, <1>12, <1>13 DEF IInv

\* Every step preserves the invariant.
THEOREM NextIInv == IInv /\ [Next]_vars => IInv'
<1> SUFFICES ASSUME IInv, [Next]_vars PROVE IInv'
  BY Zenon
<1> USE DEF RequestPC
<1>1. CASE UNCHANGED vars
  BY ZenonT(60), <1>1 DEF vars, IInv, TypeOK, PauseHasCheckpoint, OneResumePerPause, ApprovedWasRecorded,
     PausedOnce, EndedPauses, BoundRequests, Recorded, HandoffsFromPauses, NewRequests
<1>2. CASE \E to \in State : Advance(to) BY Zenon, <1>2, AdvanceIInv
<1>3. CASE \E to \in Resumable, p \in Payload : SuspendWork(to, p)
  BY Zenon, <1>3, RecordHandoffIInv DEF SuspendWork
<1>4. CASE CascadeSuspendWork
  BY Zenon, <1>4, RecordHandoffIInv, PayloadAssumption DEF CascadeSuspendWork, Resumable
<1>5. ASSUME NEW r \in Request, ResumeStep(r) \/ AbandonRequest(r) PROVE IInv'
  <2>1. receipts \in [Key -> Payload \cup {NoReceipt}] /\ req[r].hash \in Payload
    BY Zenon DEF IInv, TypeOK
  <2>2. CASE \E key \in Key, hash \in Payload : Begin(r, key, hash) BY Zenon, <2>2, BeginIInv
  <2>3. CASE LookupReceipt(r) BY Zenon, <2>1, <2>3, GotoIInv DEF LookupReceipt
  <2>4. CASE CheckState(r) BY Zenon, <2>1, <2>4, GotoIInv DEF CheckState
  <2>5. CASE BindCheckpoint(r)
    <3>1. CASE handoffs # <<>> /\ LatestHandoff[2] = req[r].hash
      <4>0. handoffs \in Seq(Checkpoint) BY Zenon DEF IInv, TypeOK
      <4>a. Len(handoffs) \in 1..Len(handoffs) BY <3>1, <4>0
      <4>1. Recorded(req[r].hash) BY Zenon, <3>1, <4>a DEF Recorded, LatestHandoff
      <4> QED BY Zenon, <2>1, <2>5, <4>1, GotoIInv DEF BindCheckpoint
    <3>2. CASE handoffs = <<>> \/ LatestHandoff[2] # req[r].hash
      BY Zenon, <2>1, <2>5, <3>2, GotoIInv DEF BindCheckpoint
    <3> QED BY Zenon, <3>1, <3>2
  <2>6. CASE Reconcile(r)
    <3>1. Recorded(req[r].hash) BY Zenon, <2>6 DEF Reconcile, IInv, BoundRequests
    <3> QED BY Zenon, <2>1, <2>6, <3>1, GotoIInv DEF Reconcile
  <2>7. CASE ReadState(r)
    <3>1. Recorded(req[r].hash) BY Zenon, <2>7 DEF ReadState, IInv, BoundRequests
    <3>2. state \in State BY Zenon DEF IInv, TypeOK
    <3>3. CASE Goto(r, "refused") BY Zenon, <2>1, <2>7, <3>3, GotoIInv DEF ReadState
    <3>4. CASE req' = [req EXCEPT ![r].pc = "check", ![r].seen = state]
      BY Zenon, <2>1, <2>7, <3>1, <3>2, <3>4, RequestIInv DEF ReadState
    <3> QED BY Zenon, <2>7, <3>3, <3>4 DEF ReadState
  <2>8. CASE CheckHandoff(r)
    <3>1. Recorded(req[r].hash) BY Zenon, <2>8 DEF CheckHandoff, IInv, BoundRequests
    <3>2. Goto(r, "update") \/ Goto(r, "refused") BY Zenon, <2>8 DEF CheckHandoff
    <3> QED BY Zenon, <2>1, <2>8, <3>1, <3>2, GotoIInv DEF CheckHandoff
  <2>9. CASE UpdateToRunning(r)
    <3>1. CASE CanTransition(state, "RUNNING") BY Zenon, <2>9, <3>1, UpdateIInv DEF UpdateToRunning
    <3>2. CASE ~CanTransition(state, "RUNNING")
      BY Zenon, <2>1, <2>9, <3>2, GotoIInv DEF UpdateToRunning
    <3> QED BY Zenon, <3>1, <3>2
  <2>10. CASE RecordReceipt(r)
    <3>1. receipts' \in [Key -> Payload \cup {NoReceipt}] BY Zenon, <2>1, <2>10 DEF RecordReceipt
    <3> QED BY Zenon, <2>10, <3>1, GotoIInv DEF RecordReceipt
  <2>11. CASE AbandonRequest(r) BY Zenon, <2>1, <2>11, GotoIInv DEF AbandonRequest
  <2> QED
    BY Zenon, <1>5, <2>2, <2>3, <2>4, <2>5, <2>6, <2>7, <2>8, <2>9, <2>10, <2>11 DEF ResumeStep
<1> QED BY Zenon, <1>1, <1>2, <1>3, <1>4, <1>5 DEF Next

\* The inductive invariant holds throughout.
THEOREM Invariance == Spec => []IInv
BY InitIInv, NextIInv, PTL DEF Spec

\* The checkpoint of the current pause is always in work_handoffs, whatever suspends,
\* cascades and resumes went before.
THEOREM SuspendKeepsHandoff == Spec => []PauseHasCheckpoint
<1>1. IInv => PauseHasCheckpoint BY Zenon DEF IInv
<1> QED BY <1>1, Invariance, PTL

\* Concurrent approvals never end one pause twice.
THEOREM ApprovalExclusion == Spec => []OneResumePerPause
<1>1. IInv => OneResumePerPause BY Zenon DEF IInv
<1> QED BY <1>1, Invariance, PTL

\* No resume without an approval of a checkpoint the mission really had.
THEOREM ApprovalGrounded == Spec => []ApprovedWasRecorded
<1>1. IInv => ApprovedWasRecorded BY Zenon DEF IInv
<1> QED BY <1>1, Invariance, PTL

-----------------------------------------------------------------------------
(* The budget: a mission pays for what it used, up to the rounding of its charges and up to its ceiling. *)

\* The ledger and its settlement together; each conjunct of MeteredWithinRounding needs the others.
BudgetInv == BudgetTypeOK /\ MeteredWithinRounding /\ SettlementIsClamped

\* An untouched ledger satisfies it.
LEMMA BudgetInitially == BudgetInit => BudgetInv
<1> SUFFICES ASSUME BudgetInit PROVE BudgetInv
  BY Zenon
<1>1. PICK c \in Ceilings :
        bLedger = [ceiling |-> c, reserved |-> 0, consumed |-> 0, clock |-> "RUNNING", stop |-> "none", late |-> 0]
  BY Zenon DEF BudgetInit
<1>2. c \in Nat
  BY Zenon, BudgetAssumption
<1>3. BudgetTypeOK
  BY <1>1 DEF BudgetInit, BudgetTypeOK, NoSettlement, Clock
<1> QED
  BY <1>1, <1>2, <1>3 DEF BudgetInit, BudgetInv, MeteredWithinRounding, SettlementIsClamped, NoSettlement, Within

\* A rounded sum is a natural number, at most Ulp off, and reaches the ceiling when the exact sum does.
LEMMA RoundedSum ==
  ASSUME BudgetTypeOK, NEW a \in Nat, NEW d \in Nat, NEW t \in Rounded(a, d)
  PROVE  t \in Nat /\ Within(t, a + d, Ulp) /\ t >= a
  BY BudgetAssumption DEF Rounded, Within, BudgetTypeOK

\* The charge of Consume, as the ghost counts it: metered up to a rounding below the ceiling, cut off at it.
LEMMA ConsumeKeeps ==
  ASSUME BudgetInv, NEW d \in Charge, Consume(d)
  PROVE  BudgetInv'
<1> USE BudgetAssumption
<1> d \in Nat
  BY Zenon
<1>1. bSettled' = bSettled /\ bCharges' = bCharges + 1
  BY Zenon DEF Consume, Charged
<1>2. CASE bLedger.clock # "RUNNING"
  <2>1. bLedger' = bLedger /\ bUsed' = bUsed /\ bErr' = bErr
    BY Zenon, <1>2 DEF Consume, Meters
  <2> QED
    BY <1>1, <2>1 DEF BudgetInv, BudgetTypeOK, MeteredWithinRounding, SettlementIsClamped, Within
<1>3. CASE bLedger.clock = "RUNNING"
  <2>1. Metered(d) /\ bUsed' = bUsed + d /\ bErr' = bErr + Ulp
    BY Zenon, <1>3 DEF Consume, Meters
  <2>2. PICK total \in Rounded(bLedger.consumed, d) :
          bLedger' = IF Reached(total)
                     THEN [bLedger EXCEPT !.consumed = bLedger.ceiling, !.clock = "STOPPED", !.stop = "compute"]
                     ELSE [bLedger EXCEPT !.consumed = total]
    BY Zenon, <2>1 DEF Metered
  <2>3. bLedger.consumed \in Nat /\ bLedger.ceiling \in Nat /\ bUsed \in Nat /\ bErr \in Nat
    BY Zenon DEF BudgetInv, BudgetTypeOK
  <2>4. total \in Nat /\ Within(total, bLedger.consumed + d, Ulp) /\ total >= bLedger.consumed
    BY Zenon, <2>2, <2>3, RoundedSum DEF BudgetInv
  <2>5. bLedger.stop # "compute" /\ Within(bLedger.consumed, bUsed, bErr)
    BY Zenon, <1>3 DEF BudgetInv, MeteredWithinRounding
  <2>6. Within(total, bUsed', bErr') /\ bUsed' \in Nat /\ bErr' \in Nat
    BY <2>1, <2>3, <2>4, <2>5 DEF Within
  <2>7. bLedger'.ceiling = bLedger.ceiling /\ bSettled'.stop = bSettled.stop
    BY Zenon, <1>1, <2>2 DEF BudgetInv, BudgetTypeOK
  <2>8. SettlementIsClamped'
    BY Zenon, <1>1, <2>7 DEF BudgetInv, SettlementIsClamped
  <2>9. CASE Reached(total)
    <3>1. bLedger' = [bLedger EXCEPT !.consumed = bLedger.ceiling, !.clock = "STOPPED", !.stop = "compute"]
      BY Zenon, <2>2, <2>9
    <3>6. bLedger' = [ceiling |-> bLedger.ceiling, reserved |-> bLedger.reserved, consumed |-> bLedger.ceiling,
                      clock |-> "STOPPED", stop |-> "compute", late |-> bLedger.late]
      BY Zenon, <3>1 DEF BudgetInv, BudgetTypeOK
    <3>7. bLedger.ceiling \in Ceilings /\ bLedger.reserved \in Nat /\ bLedger.late \in Nat /\ bCharges' \in Nat
      BY <1>1 DEF BudgetInv, BudgetTypeOK
    <3>2. BudgetTypeOK'
      BY Zenon, <1>1, <2>3, <2>6, <3>6, <3>7 DEF BudgetInv, BudgetTypeOK, Clock
    <3>3. bLedger'.consumed = bLedger.ceiling /\ bLedger'.clock = "STOPPED" /\ bLedger'.stop = "compute"
      BY Zenon, <3>1 DEF BudgetInv, BudgetTypeOK
    <3>8. total >= bLedger.ceiling /\ total <= bUsed' + bErr'
      BY Zenon, <2>6, <2>9 DEF Reached, Within
    <3>4. bUsed' + bErr' >= bLedger.ceiling
      <4>1. (\A m, n \in Nat : m + n \in Nat) /\ (\A m, n, k \in Nat : m >= k /\ m <= n => n >= k)
        OBVIOUS
      <4>2. bUsed' + bErr' \in Nat
        BY Zenon, <2>6, <4>1
      <4> QED
        BY Zenon, <2>3, <2>4, <3>8, <4>1, <4>2
    <3>5. MeteredWithinRounding'
      BY <2>3, <2>7, <3>3, <3>4 DEF MeteredWithinRounding
    <3> QED
      BY Zenon, <2>8, <3>2, <3>5 DEF BudgetInv
  <2>10. CASE ~Reached(total)
    <3>1. bLedger' = [bLedger EXCEPT !.consumed = total]
      BY Zenon, <2>2, <2>10
    <3>2. BudgetTypeOK'
      BY <1>1, <2>4, <2>6, <3>1 DEF BudgetInv, BudgetTypeOK
    <3>3. bLedger'.consumed = total /\ bLedger'.clock = bLedger.clock /\ bLedger'.stop = bLedger.stop
      BY Zenon, <3>1 DEF BudgetInv, BudgetTypeOK
    <3>4. total < bLedger.ceiling
      BY <2>3, <2>4, <2>10 DEF Reached
    <3>5. MeteredWithinRounding'
      BY <1>3, <2>3, <2>4, <2>5, <2>6, <2>7, <3>3, <3>4 DEF MeteredWithinRounding
    <3> QED
      BY Zenon, <2>8, <3>2, <3>5 DEF BudgetInv
  <2> QED
    BY Zenon, <2>9, <2>10
<1> QED
  BY Zenon, <1>2, <1>3

\* Settle reads the ledger and changes nothing of it.
LEMMA SettleKeeps ==
  ASSUME BudgetInv, Settle
  PROVE  BudgetInv'
<1>1. bLedger' = bLedger /\ bUsed' = bUsed /\ bErr' = bErr /\ bCharges' = bCharges
  BY Zenon DEF Settle
<1>6. bLedger.consumed \in Nat /\ bLedger.ceiling \in Nat
  BY Zenon, BudgetAssumption DEF BudgetInv, BudgetTypeOK
<1>7. bLedger.consumed <= bLedger.ceiling
  BY Zenon DEF BudgetInv, MeteredWithinRounding
<1>2. ~Overspent
  BY <1>6, <1>7 DEF Overspent
<1>3. bSettled' = [consumed |-> bLedger.consumed, stop |-> bLedger.stop, clock |-> bLedger.clock,
                   late |-> bLedger.late, used |-> bUsed, err |-> bErr]
  BY Zenon, <1>2 DEF Settle
<1>4. BudgetTypeOK' /\ MeteredWithinRounding'
  BY Zenon, <1>1, <1>3 DEF BudgetInv, BudgetTypeOK, MeteredWithinRounding
<1>5. SettlementIsClamped'
  BY Zenon, <1>1, <1>3 DEF BudgetInv, MeteredWithinRounding, SettlementIsClamped
<1> QED
  BY Zenon, <1>4, <1>5 DEF BudgetInv

\* Reservations and late bills leave the ceiling, what was consumed, the clock and the stop alone.
LEMMA OthersKeep ==
  ASSUME BudgetInv, NEW d \in Charge, Reserve(d) \/ RecordLateBill(d)
  PROVE  BudgetInv'
<1> USE BudgetAssumption
<1> d \in Nat
  BY Zenon
<1>1. /\ bUsed' = bUsed /\ bErr' = bErr /\ bSettled' = bSettled /\ bCharges' \in Nat
      /\ \E total \in Nat : bLedger' \in {[bLedger EXCEPT !.reserved = total], [bLedger EXCEPT !.late = total]}
  <2>1. bLedger.reserved \in Nat /\ bLedger.late \in Nat /\ bCharges \in Nat /\ BudgetTypeOK
    BY Zenon DEF BudgetInv, BudgetTypeOK
  <2>2. CASE Reserve(d)
    <3>1. PICK total \in Rounded(bLedger.reserved, d) : bLedger' = [bLedger EXCEPT !.reserved = total]
      BY Zenon, <2>2 DEF Reserve
    <3>2. total \in Nat
      BY Zenon, <2>1, RoundedSum
    <3> QED
      BY <2>1, <2>2, <3>1, <3>2 DEF Reserve, Charged
  <2>3. CASE RecordLateBill(d)
    <3>1. PICK total \in Rounded(bLedger.late, d) : bLedger' = [bLedger EXCEPT !.late = total]
      BY Zenon, <2>3 DEF RecordLateBill
    <3>2. total \in Nat
      BY Zenon, <2>1, RoundedSum
    <3> QED
      BY <2>1, <2>3, <3>1, <3>2 DEF RecordLateBill, Charged
  <2> QED
    BY Zenon, <2>2, <2>3
<1>2. PICK total \in Nat : bLedger' \in {[bLedger EXCEPT !.reserved = total], [bLedger EXCEPT !.late = total]}
  BY Zenon, <1>1
<1>3. BudgetTypeOK'
  BY <1>1, <1>2 DEF BudgetInv, BudgetTypeOK
<1>4. /\ bLedger'.ceiling = bLedger.ceiling /\ bLedger'.consumed = bLedger.consumed
      /\ bLedger'.stop = bLedger.stop /\ bLedger'.clock = bLedger.clock
  BY Zenon, <1>2 DEF BudgetInv, BudgetTypeOK
<1> QED
  BY Zenon, <1>1, <1>3, <1>4 DEF BudgetInv, MeteredWithinRounding, SettlementIsClamped

\* Every operation on the ledger keeps it.
LEMMA BudgetInductive == BudgetInv /\ [BudgetNext]_budgetVars => BudgetInv'
<1> SUFFICES ASSUME BudgetInv, [BudgetNext]_budgetVars
             PROVE  BudgetInv'
  BY Zenon
<1>1. ASSUME NEW d \in Charge, Consume(d)
      PROVE  BudgetInv'
  BY Zenon, <1>1, ConsumeKeeps
<1>2. ASSUME NEW d \in Charge, Reserve(d) \/ RecordLateBill(d)
      PROVE  BudgetInv'
  BY Zenon, <1>2, OthersKeep
<1>3. CASE PauseClock \/ ResumeClock
  <2>1. /\ bUsed' = bUsed /\ bErr' = bErr /\ bSettled' = bSettled /\ bCharges' = bCharges
        /\ bLedger' \in {[bLedger EXCEPT !.clock = "PAUSED_WAITING_HUMAN"], [bLedger EXCEPT !.clock = "RUNNING"]}
        /\ bLedger.clock # "STOPPED"
    BY Zenon, <1>3 DEF PauseClock, ResumeClock
  <2>2. BudgetTypeOK' /\ bLedger'.clock # "STOPPED"
    BY Zenon, <2>1 DEF BudgetInv, BudgetTypeOK, Clock
  <2>3. bLedger'.ceiling = bLedger.ceiling /\ bLedger'.consumed = bLedger.consumed /\ bLedger'.stop = bLedger.stop
    BY Zenon, <2>1 DEF BudgetInv, BudgetTypeOK
  <2> QED
    BY Zenon, <2>1, <2>2, <2>3 DEF BudgetInv, MeteredWithinRounding, SettlementIsClamped
<1>4. CASE Settle
  BY Zenon, <1>4, SettleKeeps
<1>5. CASE UNCHANGED budgetVars
  BY Zenon, <1>5 DEF budgetVars, BudgetInv, BudgetTypeOK, MeteredWithinRounding, SettlementIsClamped
<1> QED
  BY Zenon, <1>1, <1>2, <1>3, <1>4, <1>5 DEF BudgetNext

\* Whatever the ceiling, the charges and the rounding of each sum: the ledger stays at or below the ceiling,
\* is off from what was used while the clock ran by no more than the roundings of the charges add up to,
\* and the clock is stopped exactly by the charge that reached the ceiling (Consume, PauseClock, ResumeClock).
THEOREM BudgetIsMetered == BudgetSpec => []MeteredWithinRounding
<1>1. BudgetInv => MeteredWithinRounding
  BY Zenon DEF BudgetInv
<1> QED
  BY <1>1, BudgetInitially, BudgetInductive, PTL DEF BudgetSpec

\* Whatever was billed late: a settlement charges the use it settles, up to the roundings, and never more
\* than the ceiling (billing.Settle).
THEOREM SettlementIsBounded == BudgetSpec => []SettlementIsClamped
<1>1. BudgetInv => SettlementIsClamped
  BY Zenon DEF BudgetInv
<1> QED
  BY <1>1, BudgetInitially, BudgetInductive, PTL DEF BudgetSpec

-----------------------------------------------------------------------------
(* The computer providers: one key, one computer; torn down is down; the adapter's grant. *)

\* What the reference provider keeps of a key outlives the computer: a computer that is
\* there or was there has its key bound, and one that is gone is not there again.
ComputersInv ==
    /\ keySpecs \in [SKeys -> {Sig(s) : s \in PSpec} \cup {NoSig}]
    /\ \A h \in handed :
         /\ h.spec \in PSpec /\ h.id = IdOf(h.spec)
         /\ h.spec.key # "" => keySpecs[h.spec.key] = Sig(h.spec)
    /\ \A c \in computers \cup down : c.key # "" => c.key \in SKeys /\ keySpecs[c.key] # NoSig
    /\ \A e \in execs : e.id.key # "" => ~e.stale
    /\ TornDownStaysDown

\* Provisioning binds a free key for good, and a repeat adds nothing.
LEMMA ProvisionKeeps ==
    ASSUME ComputersInv, NEW s \in PSpec, Provision(s)
    PROVE ComputersInv'
<1> USE ProviderAssumption DEF ComputersInv
<1> DEFINE fresh == s.key = "" \/ keySpecs[s.key] = NoSig
<1>1. /\ s.key \in SKeys /\ Sig(s) \in {Sig(t) : t \in PSpec} /\ Sig(s) # NoSig
      /\ IdOf(s).key = s.key /\ IdOf(s).sig = Sig(s)
  BY Zenon DEF SKeys, IdOf
<1>2. ~fresh => keySpecs[s.key] = Sig(s)
  BY ZenonT(60) DEF Provision, Replayed
<1>3. /\ computers' = IF fresh THEN computers \cup {IdOf(s)} ELSE computers
      /\ keySpecs' = IF s.key # "" THEN [keySpecs EXCEPT ![s.key] = Sig(s)] ELSE keySpecs
      /\ \E b : handed' = handed \cup {[spec |-> s, id |-> IdOf(s), live |-> b]}
  BY Zenon, <1>1, <1>2 DEF Provision, Replayed, IdOf
<1>4. ran' = ran /\ down' = down /\ execs' = execs
  BY Zenon DEF Provision
<1>5. keySpecs' \in [SKeys -> {Sig(t) : t \in PSpec} \cup {NoSig}]
  BY Zenon, <1>1, <1>3
<1>6. /\ s.key # "" => keySpecs'[s.key] = Sig(s)
      /\ \A k \in SKeys : keySpecs[k] # NoSig => keySpecs'[k] = keySpecs[k]
  BY Zenon, <1>1, <1>2, <1>3
<1>7. \A h \in handed' :
        /\ h.spec \in PSpec /\ h.id = IdOf(h.spec)
        /\ h.spec.key # "" => keySpecs'[h.spec.key] = Sig(h.spec)
  <2> SUFFICES ASSUME NEW h \in handed'
               PROVE /\ h.spec \in PSpec /\ h.id = IdOf(h.spec)
                     /\ h.spec.key # "" => keySpecs'[h.spec.key] = Sig(h.spec)
    BY Zenon
  <2>1. CASE h \in handed
    <3>1. h.spec \in PSpec /\ h.spec.key \in SKeys /\ Sig(h.spec) # NoSig
      BY Zenon, <2>1 DEF SKeys
    <3> QED
      BY Zenon, <2>1, <3>1, <1>6
  <2>2. CASE h \notin handed
    <3>1. PICK b : h = [spec |-> s, id |-> IdOf(s), live |-> b]
      BY Zenon, <2>2, <1>3
    <3>2. h.spec = s /\ h.id = IdOf(s)
      BY Zenon, <3>1
    <3> QED
      BY Zenon, <3>2, <1>6
  <2> QED
    BY Zenon, <2>1, <2>2
<1>8. \A c \in computers' \cup down' : c.key # "" => c.key \in SKeys /\ keySpecs'[c.key] # NoSig
  BY Zenon, <1>1, <1>3, <1>4, <1>6
<1>9. \A c \in computers' : c.key # "" => c \notin down'
  BY Zenon, <1>1, <1>3, <1>4 DEF TornDownStaysDown
<1> QED
  BY Zenon, <1>4, <1>5, <1>7, <1>8, <1>9 DEF TornDownStaysDown

\* Exec finds a computer that is there, so none that was torn down.
LEMMA LookUpKeeps ==
    ASSUME ComputersInv, NEW id, NEW org, NEW cap, LookUpComputer(id, org, cap)
    PROVE ComputersInv'
<1>1. UNCHANGED <<computers, keySpecs, handed, ran, down>> /\ id \in computers
  BY Zenon DEF LookUpComputer, Holds
<1>2. id.key # "" => id \notin down
  BY Zenon, <1>1 DEF ComputersInv, TornDownStaysDown
<1> DEFINE b == id \in down
<1>3. b \in BOOLEAN /\ (b <=> id \in down)
  OBVIOUS
<1>4. execs' = execs \cup {[id |-> id, cap |-> cap, org |-> org, at |-> "found", stale |-> b]}
  BY Zenon DEF LookUpComputer
<1> HIDE DEF b
<1>5. \A e \in execs' : e.id.key # "" => ~e.stale
  <2>1. ASSUME NEW e \in execs PROVE e.id.key # "" => ~e.stale
    BY Zenon DEF ComputersInv
  <2> DEFINE new == [id |-> id, cap |-> cap, org |-> org, at |-> "found", stale |-> b]
  <2>2. new.id = id /\ new.stale = b
    BY Zenon
  <2>3. new.id.key # "" => ~new.stale
    BY Zenon, <1>2, <1>3, <2>2
  <2> QED
    BY Zenon, <1>4, <2>1, <2>3
<1> QED
  BY Zenon, <1>1, <1>5 DEF ComputersInv, TornDownStaysDown

\* The command that begins is the one that was looked up.
LEMMA RunKeeps ==
    ASSUME ComputersInv, NEW e \in execs, RunCommand(e)
    PROVE ComputersInv'
<1>1. UNCHANGED <<computers, keySpecs, handed, down>>
  BY Zenon DEF RunCommand
<1> DEFINE new == [e EXCEPT !.at = "running"]
           old == [id |-> e.id, stale |-> e.stale]
<1>2. execs' = (execs \ {e}) \cup {new} /\ ran' = ran \cup {old}
  BY Zenon DEF RunCommand
<1>3. new.id = e.id /\ new.stale = e.stale /\ old.id = e.id /\ old.stale = e.stale
  BY SMT
<1>4. e.id.key # "" => ~e.stale
  BY Zenon DEF ComputersInv
<1> HIDE DEF new, old
<1>5. \A x \in execs' : x.id.key # "" => ~x.stale
  BY Zenon, <1>2, <1>3, <1>4 DEF ComputersInv
<1>6. \A x \in ran' : x.id.key # "" => ~x.stale
  BY Zenon, <1>2, <1>3, <1>4 DEF ComputersInv, TornDownStaysDown
<1> QED
  BY Zenon, <1>1, <1>5, <1>6 DEF ComputersInv, TornDownStaysDown

\* Every step of the reference provider keeps it.
LEMMA ComputersKept == ComputersInv /\ [ReferenceNext]_computersVars => ComputersInv'
<1> SUFFICES ASSUME ComputersInv, [ReferenceNext]_computersVars PROVE ComputersInv'
  BY Zenon
<1> USE DEF ComputersInv, TornDownStaysDown
<1>1. CASE UNCHANGED computersVars
  BY Zenon, <1>1 DEF computersVars, referenceVars
<1>2. ASSUME NEW offer, Handshake(offer) PROVE ComputersInv'
  BY Zenon, <1>2 DEF Handshake
<1>3. ASSUME NEW h \in handed, NEW org, NEW mode, Teardown(h.id, org, mode) PROVE ComputersInv'
  BY Zenon, <1>3 DEF Teardown, Holds, ForgetOnTeardown
<1>4. ASSUME NEW e, EndExec(e) PROVE ComputersInv'
  BY Zenon, <1>4 DEF EndExec
<1> HIDE DEF ComputersInv, TornDownStaysDown
<1> QED
  BY Zenon, <1>1, <1>2, <1>3, <1>4, ProvisionKeeps, LookUpKeeps, RunKeeps DEF ReferenceNext

\* It holds in every state of the reference provider.
LEMMA ComputersInvariant == ReferenceSpec => []ComputersInv
<1>1. ComputersInit => ComputersInv
  BY Zenon DEF ComputersInit, ComputersInv, TornDownStaysDown
<1> QED
  BY <1>1, ComputersKept, PTL DEF ReferenceSpec

\* Every answer under a key names one computer, made for the tenant and with the
\* capabilities of every request that was answered, for any set of requests (Provision).
THEOREM KeysNameOneComputer == ReferenceSpec => []KeyIsOneComputer
<1>1. ComputersInv => KeyIsOneComputer
  <2> SUFFICES ASSUME ComputersInv PROVE KeyIsOneComputer
    BY Zenon
  <2>1. ASSUME NEW h \in handed PROVE h.id = [key |-> h.spec.key, sig |-> Sig(h.spec)]
    BY Zenon DEF ComputersInv, IdOf
  <2>2. ASSUME NEW h \in handed PROVE h.id.sig.org = h.spec.org /\ h.id.sig.caps = h.spec.caps
    <3>1. h.id.sig = Sig(h.spec)
      <4>1. h.id = [key |-> h.spec.key, sig |-> Sig(h.spec)]
        BY Zenon, <2>1
      <4> QED
        BY <4>1
    <3>2. Sig(h.spec).org = h.spec.org /\ Sig(h.spec).caps = h.spec.caps
      BY Zenon DEF Sig
    <3> QED
      BY Zenon, <3>1, <3>2
  <2>3. ASSUME NEW h \in handed, NEW g \in handed, h.spec.key = g.spec.key, h.spec.key # "" PROVE h.id = g.id
    <3>1. Sig(h.spec) = Sig(g.spec)
      BY Zenon, <2>3 DEF ComputersInv
    <3> QED
      BY Zenon, <2>1, <2>3, <3>1
  <2> QED
    BY Zenon, <2>2, <2>3 DEF KeyIsOneComputer
<1> QED
  BY <1>1, ComputersInvariant, PTL

\* A computer with a key that was torn down is not there again, whatever is provisioned,
\* and no call of Exec that comes after the teardown begins a command on it (Exec, Teardown).
THEOREM TeardownIsFinal == ReferenceSpec => []TornDownStaysDown
<1>1. ComputersInv => TornDownStaysDown
  BY Zenon DEF ComputersInv
<1> QED
  BY <1>1, ComputersInvariant, PTL

\* What the adapter asks the daemon for.
PulsePath == {"handshake", "provision", "exec", "snapshot", "teardown"}

\* What the adapter asked for last, within the configuration.
PulseInv ==
    /\ pulse \in [allow : SUBSET {"fs", "browser"}, shook : BOOLEAN,
                  wire : {NoSig} \cup [path : PulsePath, caps : SUBSET Cap, shook : BOOLEAN]]
    /\ WireIsGranted

\* One request of the adapter, with its last request recorded.
LEMMA PulseCalls ==
    ASSUME PulseInv, NEW path \in PulsePath, NEW caps \in SUBSET Cap, call(path, caps),
           path \in {"provision", "exec"} => pulse.shook /\ caps \subseteq grantedCaps
    PROVE PulseInv'
<1>1. PICK ok \in BOOLEAN :
        pulse' = [pulse EXCEPT !.wire = [path |-> path, caps |-> caps, shook |-> pulse.shook],
                               !.shook = @ \/ (path = "handshake" /\ ok)]
    BY Zenon DEF call
<1>2. pulse'.allow = pulse.allow /\ pulse'.wire = [path |-> path, caps |-> caps, shook |-> pulse.shook]
    BY Zenon, <1>1 DEF PulseInv
<1>3. pulse' \in [allow : SUBSET {"fs", "browser"}, shook : BOOLEAN,
                  wire : {NoSig} \cup [path : PulsePath, caps : SUBSET Cap, shook : BOOLEAN]]
    BY Zenon, <1>1 DEF PulseInv
<1>4. grantedCaps' = grantedCaps
    BY Zenon, <1>2 DEF grantedCaps
<1> QED
    BY <1>2, <1>3, <1>4 DEF PulseInv, WireIsGranted

\* The adapter forwards nothing but what its configuration grants, and only after a
\* handshake, for every configuration (PulseAdapter).
THEOREM AdapterStaysWithinGrant == PulseSpec => []WireIsGranted
<1>1. ComputersInit => PulseInv
  BY Zenon DEF ComputersInit, PulseInv, WireIsGranted
<1>2. PulseInv /\ [PulseNext]_computersVars => PulseInv'
  <2> SUFFICES ASSUME PulseInv, [PulseNext]_computersVars PROVE PulseInv'
    BY Zenon
  <2>1. CASE UNCHANGED computersVars
    BY Zenon, <2>1 DEF computersVars, PulseInv, WireIsGranted, grantedCaps
  <2>2. CASE PulseHandshake \/ PulseSnapshot
    <3>1. /\ {} \in SUBSET Cap /\ {"handshake", "snapshot"} \subseteq PulsePath
          /\ "handshake" \notin {"provision", "exec"} /\ "snapshot" \notin {"provision", "exec"}
      BY Zenon DEF PulsePath
    <3> QED
      BY Zenon, <2>2, <3>1, PulseCalls DEF PulseHandshake, PulseSnapshot
  <2>3. ASSUME NEW caps \in {{}, {"fs"}, {"browser", "shell"}, {"snap"}}, PulseProvision(caps) PROVE PulseInv'
    <3>1. caps \in SUBSET Cap /\ "provision" \in PulsePath
      BY Zenon DEF Cap, PulsePath
    <3>2. pulse.shook /\ caps \subseteq grantedCaps /\ call("provision", caps)
      BY Zenon, <2>3 DEF PulseProvision
    <3> QED
      BY Zenon, <3>1, <3>2, PulseCalls
  <2>4. ASSUME NEW cap \in Cap, PulseExec(cap) PROVE PulseInv'
    <3>1. {cap} \in SUBSET Cap /\ "exec" \in PulsePath
      BY Zenon DEF PulsePath
    <3>2. pulse.shook /\ {cap} \subseteq grantedCaps /\ call("exec", {cap})
      BY Zenon, <2>4 DEF PulseExec, PulseMayExec
    <3> QED
      BY Zenon, <3>1, <3>2, PulseCalls
  <2>5. ASSUME NEW mode, PulseTeardown(mode) PROVE PulseInv'
    <3>1. {} \in SUBSET Cap /\ "teardown" \notin {"provision", "exec"} /\ "teardown" \in PulsePath
      BY Zenon DEF PulsePath
    <3> QED
      BY Zenon, <2>5, <3>1, PulseCalls DEF PulseTeardown
  <2> QED
    BY Zenon, <2>1, <2>2, <2>3, <2>4, <2>5 DEF PulseNext
<1>3. PulseInv => WireIsGranted
  BY Zenon DEF PulseInv
<1> QED
  BY <1>1, <1>2, <1>3, PTL DEF PulseSpec

-----------------------------------------------------------------------------
(* The artifact store: what is attached is stored, whatever crashes. *)

Bytes == Content \cup {Nothing, Torn}
Place == {"running", "writing", "sending", "verify", "look", "open", "sync", "rename", "complete", "completed",
          "refused", "lost"}
Holding == {"look", "open", "sync", "rename", "complete"}

\* The types the argument needs.
ArtifactTypes ==
    /\ lease \in [Attempt -> {"none", "active", "over"}]
    /\ report \in [Attempt -> [at : Place, log : Bytes, sent : BOOLEAN, bytes : Bytes]]
    /\ temp \in [Attempt -> Bytes]
    /\ cas \in [Content -> Bytes]
    /\ attached \subseteq Content

\* A request that passed the verification holds the content whose digest it names; a file that is about to be renamed
\* is complete; and a request that is about to complete has its content stored.
RequestHolds(a) ==
    /\ report[a].at # "running" => report[a].log \in Content
    /\ report[a].at \in Holding => report[a].bytes = report[a].log
    /\ report[a].at = "rename" => temp[a] = report[a].log
    /\ report[a].at = "complete" => cas[report[a].log] = report[a].log \/ report[a].log \in damaged

ArtifactInv ==
    /\ ArtifactTypes
    /\ \A a \in Attempt : RequestHolds(a)
    /\ StoredIsWhole /\ AttachedIsStored /\ ServedIsAttached

\* The empty store satisfies the invariant.
LEMMA ArtifactInitially == ArtifactsInit => ArtifactInv
BY MarksAreNoContent DEF ArtifactsInit, ArtifactInv, ArtifactTypes, RequestHolds, StoredIsWhole, AttachedIsStored,
    ServedIsAttached, NoReport, NoAnswer, Bytes, Place, Holding

\* Every step keeps the invariant.
LEMMA ArtifactStep == ArtifactInv /\ [ArtifactsNext]_artifactVars => ArtifactInv'
<1> SUFFICES ASSUME ArtifactInv, [ArtifactsNext]_artifactVars PROVE ArtifactInv'
  BY Zenon
<1> USE MarksAreNoContent DEF ArtifactInv, ArtifactTypes, RequestHolds, StoredIsWhole, AttachedIsStored, ServedIsAttached,
    Bytes, Place, Holding
<1>0. ASSUME NEW a \in Attempt, report[a].at # "running", RefuseReport(a),
             UNCHANGED <<shared, cas, attached, answer, damaged, harm>>
      PROVE ArtifactInv'
  <2>1. ArtifactTypes'
    BY <1>0 DEF RefuseReport, Go
  <2>2. ASSUME NEW b \in Attempt PROVE RequestHolds(b)'
    <3>1. CASE b = a
      BY <1>0, <3>1 DEF RefuseReport, Go
    <3>2. CASE b # a
      <4>1. report'[b] = report[b] /\ temp'[b] = temp[b]
        BY Zenon, <1>0, <3>2 DEF RefuseReport, Go
      <4> QED
        BY Zenon, <1>0, <4>1
    <3> QED
      BY Zenon, <3>1, <3>2
  <2>3. StoredIsWhole' /\ AttachedIsStored' /\ ServedIsAttached'
    BY Zenon, <1>0
  <2> QED
    BY Zenon, <2>1, <2>2, <2>3
<1>1. ASSUME NEW a \in Attempt, LeaseAttempt(a) PROVE ArtifactInv'
  BY Zenon, <1>1 DEF LeaseAttempt, AttemptAt
<1>2. ASSUME NEW a \in Attempt, LoseLease(a) PROVE ArtifactInv'
  BY ZenonT(60), <1>2 DEF LoseLease, AttemptAt
<1>3. ASSUME NEW a \in Attempt, WriteLog(a) PROVE ArtifactInv'
  BY <1>3 DEF WriteLog, AttemptAt
<1>4. ASSUME NEW a \in Attempt, FillLog(a) PROVE ArtifactInv'
  BY <1>4 DEF FillLog, AttemptAt, Go
<1>5. ASSUME NEW a \in Attempt, CheckLease(a) PROVE ArtifactInv'
  <2>1. CASE lease[a] = "active"
    <3>0. /\ report' = [report EXCEPT ![a].at = "verify"] /\ UNCHANGED <<lease, temp>>
          /\ UNCHANGED <<shared, cas, attached, answer, damaged, harm>>
      BY Zenon, <1>5, <2>1 DEF CheckLease, Go
    <3>1. ArtifactTypes' /\ StoredIsWhole' /\ AttachedIsStored' /\ ServedIsAttached'
      BY <3>0
    <3>2. ASSUME NEW b \in Attempt PROVE RequestHolds(b)'
      <4>1. CASE b = a
        BY <1>5, <2>1, <4>1 DEF CheckLease, AttemptAt, Go
      <4>2. CASE b # a
        <5>1. report'[b] = report[b]
          BY Zenon, <1>5, <2>1, <4>2 DEF CheckLease, Go
        <5> QED
          BY ZenonT(60), <1>5, <2>1, <5>1 DEF CheckLease
      <4> QED
        BY Zenon, <4>1, <4>2
    <3> QED
      BY Zenon, <3>1, <3>2
  <2>2. CASE lease[a] # "active"
    BY Zenon, <1>0, <1>5, <2>2 DEF CheckLease, AttemptAt
  <2> QED
    BY Zenon, <2>1, <2>2
<1>6. ASSUME NEW a \in Attempt, VerifyContent(a) PROVE ArtifactInv'
  BY SMTT(30), <1>6 DEF VerifyContent, AttemptAt, Go, RefuseReport, MatchesDigest, Supplied
<1>7. ASSUME NEW a \in Attempt, LookForContent(a) PROVE ArtifactInv'
  <2>1. CASE StoredAlready(a) /\ Go(a, "complete") /\ UNCHANGED <<lease, temp>>
    BY <1>7, <2>1 DEF LookForContent, AttemptAt, Go, StoredAlready, Path
  <2>2. CASE Go(a, "open") /\ UNCHANGED <<lease, temp>>
    BY <1>7, <2>2 DEF LookForContent, AttemptAt, Go
  <2>3. CASE RefuseReport(a)
    BY Zenon, <1>0, <1>7, <2>3 DEF LookForContent, AttemptAt
  <2> QED
    BY Zenon, <1>7, <2>1, <2>2, <2>3 DEF LookForContent
<1>8. ASSUME NEW a \in Attempt, OpenTemp(a) PROVE ArtifactInv'
  BY <1>8 DEF OpenTemp, AttemptAt, Go
<1>9. ASSUME NEW a \in Attempt, SyncTemp(a) PROVE ArtifactInv'
  BY SMTT(30), <1>9 DEF SyncTemp, AttemptAt, Go, RefuseReport
<1>10. ASSUME NEW a \in Attempt, RenameTemp(a) PROVE ArtifactInv'
  <2>1. CASE /\ cas' = [cas EXCEPT ![report[a].log] = temp[a]]
             /\ temp' = [temp EXCEPT ![a] = Nothing]
             /\ Go(a, "complete") /\ UNCHANGED lease
    BY <1>10, <2>1 DEF RenameTemp, AttemptAt, Go
  <2>2. CASE /\ Path(a) = report[a].bytes
             /\ temp' = [temp EXCEPT ![a] = Nothing]
             /\ Go(a, "complete") /\ UNCHANGED <<cas, lease>>
    BY <1>10, <2>2 DEF RenameTemp, AttemptAt, Go, Path
  <2>3. CASE RefuseReport(a) /\ UNCHANGED cas
    BY Zenon, <1>0, <1>10, <2>3 DEF RenameTemp, AttemptAt
  <2> QED
    BY Zenon, <1>10, <2>1, <2>2, <2>3 DEF RenameTemp
<1>11. ASSUME NEW a \in Attempt, CompleteWithArtifact(a) PROVE ArtifactInv'
  BY SMTT(60), <1>11 DEF CompleteWithArtifact, AttemptAt, Go, RefuseReport, MayComplete
<1>12. ASSUME NEW c \in Content, ServeArtifact(c) PROVE ArtifactInv'
  BY Zenon, <1>12 DEF ServeArtifact, ReadVerified, NoAnswer
<1>13. ASSUME NEW c \in Content, DamageFile(c) PROVE ArtifactInv'
  BY <1>13 DEF DamageFile
<1>14. CASE StopStore
  BY <1>14 DEF StopStore, AttemptAt
<1>15. CASE UNCHANGED artifactVars
  BY Zenon, <1>15 DEF artifactVars
<1> QED
  BY Zenon, <1>1, <1>2, <1>3, <1>4, <1>5, <1>6, <1>7, <1>8, <1>9, <1>10, <1>11, <1>12, <1>13, <1>14, <1>15 DEF ArtifactsNext, AttemptReports

\* The invariant holds in every reachable state.
LEMMA ArtifactInvariant == ArtifactsSpec => []ArtifactInv
BY ArtifactInitially, ArtifactStep, PTL DEF ArtifactsSpec

\* However many attempts race, whatever a worker does to the canonical file while it is read, and whenever the control
\* plane dies, a content-addressed name that the disk did not damage holds the whole content or nothing.
THEOREM StoreHoldsWholeContents == ArtifactsSpec => []StoredIsWhole
<1>1. ArtifactInv => StoredIsWhole
  BY Zenon DEF ArtifactInv
<1> QED
  BY <1>1, ArtifactInvariant, PTL

\* An attached artifact that the disk did not damage is stored, so completion never names bytes that are not there.
THEOREM AttachedStaysStored == ArtifactsSpec => []AttachedIsStored
<1>1. ArtifactInv => AttachedIsStored
  BY Zenon DEF ArtifactInv
<1> QED
  BY <1>1, ArtifactInvariant, PTL

\* Whatever the disk did to a file, a read that succeeds returns the content that was attached to the Work.
THEOREM ReadsReturnAttached == ArtifactsSpec => []ServedIsAttached
<1>1. ArtifactInv => ServedIsAttached
  BY Zenon DEF ArtifactInv
<1> QED
  BY <1>1, ArtifactInvariant, PTL

\* Only the completion of a lease that is still active attaches an artifact, and it ends that lease.
THEOREM OnlyActiveLeaseAttaches == ArtifactsSpec => AttachedWasLeased
<1> DEFINE Attaching == \A c \in attached' \ attached :
             \E a \in Attempt : lease[a] = "active" /\ lease'[a] = "over" /\ report[a].log = c
<1>1. ArtifactInv /\ [ArtifactsNext]_artifactVars => [Attaching]_artifactVars
  <2> SUFFICES ASSUME ArtifactInv, ArtifactsNext PROVE Attaching
    BY Zenon
  <2>1. ASSUME NEW a \in Attempt, CompleteWithArtifact(a) PROVE Attaching
    BY Zenon, <2>1 DEF CompleteWithArtifact, MayComplete, ArtifactInv, ArtifactTypes
  <2>2. CASE attached' = attached
    BY Zenon, <2>2
  <2>3. (\E a \in Attempt : CompleteWithArtifact(a)) \/ attached' = attached
    BY Zenon DEF ArtifactsNext, AttemptReports, LeaseAttempt, LoseLease, WriteLog, FillLog, CheckLease, VerifyContent,
      LookForContent, OpenTemp, SyncTemp, RenameTemp, ServeArtifact, DamageFile, StopStore
  <2> QED
    BY Zenon, <2>1, <2>2, <2>3
<1> QED
  BY <1>1, ArtifactInvariant, PTL DEF ArtifactsSpec, AttachedWasLeased

=============================================================================
