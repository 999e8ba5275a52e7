--------------------------- MODULE Leases_proofs ----------------------------
(***************************************************************************)
(* Proofs about leases and what is published of them, for every set of     *)
(* Works, nodes and commits and any number of attempts, handlers and       *)
(* events: the lease core with its refinement of the lifecycle of a Work,  *)
(* and the commit statuses. The two share no variable; each has its own    *)
(* inductive invariant.                                                    *)
(***************************************************************************)
EXTENDS LeaseStore, Publication, TLAPS

-----------------------------------------------------------------------------
(* Facts about sequences. *)

\* A sequence is a function on 1 to its length.
LEMMA LenProperties ==
    ASSUME NEW S, NEW seq \in Seq(S)
    PROVE  Len(seq) \in Nat /\ seq \in [1..Len(seq) -> S] /\ DOMAIN seq = 1..Len(seq)
  OBVIOUS

\* The empty sequence is the one of length 0.
LEMMA EmptySeq ==
    ASSUME NEW S
    PROVE  /\ << >> \in Seq(S) /\ Len(<< >>) = 0
           /\ \A seq \in Seq(S) : seq # << >> => Len(seq) \in Nat \ {0}
  OBVIOUS

\* What Append makes of a sequence.
LEMMA AppendProperties ==
    ASSUME NEW S, NEW seq \in Seq(S), NEW elt \in S
    PROVE  /\ Append(seq, elt) \in Seq(S) /\ Append(seq, elt) # << >>
           /\ Len(Append(seq, elt)) = Len(seq) + 1
           /\ \A i \in 1..Len(seq) : Append(seq, elt)[i] = seq[i]
           /\ Append(seq, elt)[Len(seq) + 1] = elt
  OBVIOUS

-----------------------------------------------------------------------------
(* The lease core. *)

\* The parts of a lease identifier.
LEMMA LeaseParts ==
    ASSUME NEW l \in Lease
    PROVE  WorkOf(l) \in Work /\ NodeOf(l) \in Node
BY Zenon DEF Lease, WorkOf, NodeOf

\* Results are never taken back by a step.
ResultsKept ==
    \A k \in Lease : attempt[k] \in {"succeeded", "failed"} => attempt'[k] = attempt[k]

\* What a handler concluded from the results of a Work stays true.
LEMMA ResultsGrow ==
    ASSUME ResultsKept, NEW w
    PROVE  /\ Succeeded(w) \subseteq Succeeded(w)'
           /\ Failed(w) \subseteq Failed(w)'
           /\ Succeeded(w)' \subseteq Node
BY Zenon, LeaseParts DEF Succeeded, Failed, ResultsKept

\* The inductive invariant.
RowsPaired == \A l \in Lease : (lease[l] = "NONE") <=> (attempt[l] = "none")

HandlersSure ==
    \A l \in Lease :
        /\ fin[l] = "fail" => Failed(WorkOf(l)) # {}
        /\ fin[l] \in {"verify", "succeed"} => Succeeded(WorkOf(l)) = Node

ListsGranted ==
    /\ \A l \in overdue : lease[l] = "ACTIVE"
    /\ \A l \in reap : lease[l] # "NONE"

IInv ==
    /\ TypeOK
    /\ OneActiveLease
    /\ ActiveIffRunning
    /\ RowsPaired
    /\ HandlersSure
    /\ ListsGranted

\* An empty database satisfies the invariant.
THEOREM InitIInv == Init => IInv
BY LeaseParts DEF Init, IInv, TypeOK, OneActiveLease, ActiveIffRunning, RowsPaired, HandlersSure,
    ListsGranted, State, LeaseStatus, AttemptStatus, HandlerPC

\* A lease can be ended only while it is ACTIVE.
LEMMA EndsActive ==
    ASSUME TypeOK, NEW l \in Lease, NEW to \in TerminalLease,
           lease[l] # "NONE", ValidateLeaseTransition(lease[l], to)
    PROVE  lease[l] = "ACTIVE"
BY Zenon DEF TypeOK, ValidateLeaseTransition, LeaseStatus, TerminalLease

-----------------------------------------------------------------------------
\* The actions that only change the state of a Work.
LEMMA WorkRequestIInv ==
    ASSUME IInv, NEW w \in Work, WorkRequest(w)
    PROVE  IInv'
<1>1. state' \in [Work -> State] /\ UNCHANGED <<lease, attempt, overdue, fin, seen, reap>>
  BY DEF WorkRequest, QueueWork, CancelWork, SuspendWork, CascadeSuspendWork,
      ResumeFromCheckpoint, UpdateState, IInv, TypeOK, State
<1>2. \A v : Succeeded(v)' = Succeeded(v) /\ Failed(v)' = Failed(v)
  BY Zenon, <1>1 DEF Succeeded, Failed
<1> QED
  BY Zenon, <1>1, <1>2 DEF IInv, TypeOK, OneActiveLease, ActiveIffRunning, RowsPaired, HandlersSure,
      ListsGranted

\* The actions of the handlers of CompleteLease, and their loss.
LEMMA HandlerIInv ==
    ASSUME IInv, NEW l \in Lease, Handler(l) \/ AbandonCompletion(l)
    PROVE  IInv'
<1>1. UNCHANGED <<lease, attempt, overdue, reap>>
  BY Zenon DEF Handler, AppendResults, ReadWork, ReadAttempts, FinalizeWork, AbandonCompletion
<1>2. \A v : Succeeded(v)' = Succeeded(v) /\ Failed(v)' = Failed(v)
  BY Zenon, <1>1 DEF Succeeded, Failed
<1>3. state' \in [Work -> State] /\ seen' \in [Lease -> State]
  BY LeaseParts DEF Handler, AppendResults, ReadWork, ReadAttempts, FinalizeWork, AbandonCompletion,
      UpdateState, IInv, TypeOK, State
<1>4. fin' \in [Lease -> HandlerPC]
  BY DEF Handler, AppendResults, ReadWork, ReadAttempts, FinalizeWork, AbandonCompletion, IInv, TypeOK,
      HandlerPC
<1>5. HandlersSure'
  <2> SUFFICES ASSUME NEW k \in Lease
               PROVE  /\ fin'[k] = "fail" => Failed(WorkOf(k)) # {}
                      /\ fin'[k] \in {"verify", "succeed"} => Succeeded(WorkOf(k)) = Node
    BY Zenon, <1>2 DEF HandlersSure
  <2>1. CASE k # l
    BY Zenon, <2>1 DEF Handler, AppendResults, ReadWork, ReadAttempts, FinalizeWork, AbandonCompletion, IInv,
        TypeOK, HandlersSure
  <2>2. CASE k = l
    BY Zenon, <2>2 DEF Handler, AppendResults, ReadWork, ReadAttempts, FinalizeWork, AbandonCompletion, IInv,
        TypeOK, HandlersSure
  <2> QED BY Zenon, <2>1, <2>2
<1> QED
  BY Zenon, <1>1, <1>3, <1>4, <1>5 DEF IInv, TypeOK, OneActiveLease, ActiveIffRunning, RowsPaired,
      ListsGranted

\* A grant: the new lease is the only ACTIVE one of its node.
LEMMA GrantIInv ==
    ASSUME IInv, NEW l \in Lease, GrantLease(l) \/ GrantPlacementLease(l)
    PROVE  IInv'
<1>1. /\ lease[l] = "NONE" /\ Active(WorkOf(l), NodeOf(l)) = {}
      /\ lease' = [lease EXCEPT ![l] = "ACTIVE"]
      /\ attempt' = [attempt EXCEPT ![l] = "running"]
      /\ UNCHANGED <<overdue, fin, seen, reap>>
  BY Zenon DEF GrantLease, GrantPlacementLease, InsertLease
<1>2. TypeOK'
  <2>1. state' \in [Work -> State]
    BY ZenonT(60), LeaseParts DEF GrantLease, GrantPlacementLease, IInv, TypeOK, State
  <2> QED BY ZenonT(60), <1>1, <2>1 DEF IInv, TypeOK, LeaseStatus, AttemptStatus
<1>3. OneActiveLease'
  BY Zenon, <1>1 DEF IInv, TypeOK, OneActiveLease, Active
<1>4. ActiveIffRunning' /\ RowsPaired' /\ ListsGranted'
  BY Zenon, <1>1 DEF IInv, TypeOK, ActiveIffRunning, RowsPaired, ListsGranted
<1>5. HandlersSure'
  <2>1. ResultsKept
    BY Zenon, <1>1 DEF IInv, TypeOK, RowsPaired, ResultsKept
  <2> QED BY Zenon, <1>1, <2>1, ResultsGrow DEF IInv, HandlersSure
<1> QED BY Zenon, <1>2, <1>3, <1>4, <1>5 DEF IInv

\* An end: an ACTIVE lease takes a final status, its attempt an outcome.
LEMMA EndIInv ==
    ASSUME IInv, NEW l \in Lease, lease[l] = "ACTIVE",
           NEW to \in TerminalLease, NEW result \in {"succeeded", "failed", "cancelled"},
           lease' = [lease EXCEPT ![l] = to],
           attempt' = [attempt EXCEPT ![l] = result],
           overdue' = overdue \ {l}, reap' \in SUBSET reap,
           fin' \in {fin, [fin EXCEPT ![l] = "append"]},
           UNCHANGED <<state, seen>>
    PROVE  IInv'
<1>1. TypeOK'
  BY Zenon DEF IInv, TypeOK, LeaseStatus, TerminalLease, AttemptStatus, HandlerPC
<1>2. OneActiveLease' /\ ActiveIffRunning' /\ RowsPaired' /\ ListsGranted'
  BY DEF IInv, TypeOK, OneActiveLease, ActiveIffRunning, RowsPaired, ListsGranted, TerminalLease
<1>3. HandlersSure'
  <2>1. ResultsKept
    BY Zenon DEF IInv, TypeOK, ActiveIffRunning, ResultsKept
  <2>2. \A k \in Lease : fin'[k] = fin[k] \/ fin'[k] = "append"
    BY Zenon DEF IInv, TypeOK
  <2> SUFFICES ASSUME NEW k \in Lease
               PROVE  /\ fin'[k] = "fail" => Failed(WorkOf(k))' # {}
                      /\ fin'[k] \in {"verify", "succeed"} => Succeeded(WorkOf(k))' = Node
    BY Zenon DEF HandlersSure
  <2>3. /\ Succeeded(WorkOf(k)) \subseteq Succeeded(WorkOf(k))'
        /\ Failed(WorkOf(k)) \subseteq Failed(WorkOf(k))'
        /\ Succeeded(WorkOf(k))' \subseteq Node
    BY Zenon, <2>1, ResultsGrow
  <2> QED BY Zenon, <2>2, <2>3 DEF IInv, HandlersSure
<1> QED BY Zenon, <1>1, <1>2, <1>3 DEF IInv

\* Every step preserves the invariant.
THEOREM NextIInv == IInv /\ [Next]_vars => IInv'
<1> SUFFICES ASSUME IInv, [Next]_vars PROVE IInv'
  BY Zenon
<1>1. ASSUME NEW l \in Lease, GrantLease(l) \/ GrantPlacementLease(l) PROVE IInv'
  BY Zenon, <1>1, GrantIInv
<1>2. ASSUME NEW l \in Lease, RenewLease(l) \/ LeaseExpires(l) PROVE IInv'
  <2>1. UNCHANGED <<state, lease, attempt, fin, seen, reap>>
    BY Zenon, <1>2 DEF RenewLease, LeaseExpires
  <2>2. overdue' \in SUBSET Lease /\ \A k \in overdue' : lease[k] = "ACTIVE"
    BY Zenon, <1>2 DEF RenewLease, LeaseExpires, IInv, TypeOK, ListsGranted
  <2>3. \A v : Succeeded(v)' = Succeeded(v) /\ Failed(v)' = Failed(v)
    BY Zenon, <2>1 DEF Succeeded, Failed
  <2> QED BY Zenon, <2>1, <2>2, <2>3 DEF IInv, TypeOK, OneActiveLease, ActiveIffRunning, RowsPaired,
      HandlersSure, ListsGranted
<1>3. ASSUME NEW l \in Lease, ReleaseLease(l) \/ RevokeLease(l) PROVE IInv'
  <2>1. PICK to \in {"RELEASED", "REVOKED"} : TransitionLeaseAttempt(l, to) /\ UNCHANGED reap
    BY Zenon, <1>3 DEF ReleaseLease, RevokeLease
  <2>2. lease[l] = "ACTIVE" /\ to \in TerminalLease
    BY Zenon, <2>1, EndsActive DEF IInv, TransitionLeaseAttempt, TerminalLease
  <2> QED BY Zenon, <2>1, <2>2, EndIInv DEF TransitionLeaseAttempt
<1>4. ASSUME NEW l \in Lease, NEW exitCode \in {0, 1}, CompleteLease(l, exitCode) PROVE IInv'
  BY Zenon, <1>4, EndIInv DEF CompleteLease, TerminalLease
<1>5. ASSUME NEW l \in Lease, Handler(l) \/ AbandonCompletion(l) PROVE IInv'
  BY Zenon, <1>5, HandlerIInv
<1>6. ASSUME NEW w \in Work, WorkRequest(w) PROVE IInv'
  BY Zenon, <1>6, WorkRequestIInv
<1>7. CASE ListExpiredLeases
  <2>1. UNCHANGED <<state, lease, attempt, overdue, fin, seen>> /\ reap' \in SUBSET overdue
    BY Zenon, <1>7 DEF ListExpiredLeases
  <2>2. \A v : Succeeded(v)' = Succeeded(v) /\ Failed(v)' = Failed(v)
    BY Zenon, <2>1 DEF Succeeded, Failed
  <2> QED BY Zenon, <2>1, <2>2 DEF IInv, TypeOK, OneActiveLease, ActiveIffRunning, RowsPaired,
      HandlersSure, ListsGranted
<1>8. ASSUME NEW l \in Lease, ReapLease(l) PROVE IInv'
  <2>1. CASE ValidateLeaseTransition(lease[l], "REVOKED")
    <3>1. lease[l] = "ACTIVE"
      BY Zenon, <1>8, <2>1, EndsActive DEF ReapLease, IInv, ListsGranted, TerminalLease
    <3>2. attempt' = [attempt EXCEPT ![l] = "cancelled"]
      BY Zenon, <1>8, <2>1 DEF ReapLease, MarkAttemptCancelled, IInv, TypeOK
    <3> QED BY Zenon, <1>8, <2>1, <3>1, <3>2, EndIInv DEF ReapLease, TerminalLease
  <2>2. CASE ~ValidateLeaseTransition(lease[l], "REVOKED")
    <3>1. UNCHANGED <<state, lease, attempt, overdue, fin, seen>> /\ reap' \in SUBSET reap
      BY Zenon, <1>8, <2>2 DEF ReapLease
    <3>2. \A v : Succeeded(v)' = Succeeded(v) /\ Failed(v)' = Failed(v)
      BY Zenon, <3>1 DEF Succeeded, Failed
    <3> QED BY Zenon, <3>1, <3>2 DEF IInv, TypeOK, OneActiveLease, ActiveIffRunning, RowsPaired,
        HandlersSure, ListsGranted
  <2> QED BY Zenon, <2>1, <2>2
<1>9. CASE CrashAPI
  <2>1. \A v : Succeeded(v)' = Succeeded(v) /\ Failed(v)' = Failed(v)
    BY Zenon, <1>9 DEF CrashAPI, Succeeded, Failed
  <2> QED BY <1>9, <2>1 DEF CrashAPI, IInv, TypeOK, OneActiveLease, ActiveIffRunning, RowsPaired,
      HandlersSure, ListsGranted, HandlerPC, State
<1>10. CASE UNCHANGED vars
  <2>1. \A v : Succeeded(v)' = Succeeded(v) /\ Failed(v)' = Failed(v)
    BY Zenon, <1>10 DEF vars, Succeeded, Failed
  <2> QED BY Zenon, <1>10, <2>1 DEF vars, IInv, TypeOK, OneActiveLease, ActiveIffRunning, RowsPaired,
      HandlersSure, ListsGranted
<1> QED
  BY Zenon, <1>1, <1>2, <1>3, <1>4, <1>5, <1>6, <1>7, <1>8, <1>9, <1>10
  DEF Next, Service, Failure, Reaper, LeaseRequest

\* The inductive invariant holds throughout: the rows of a claim agree, a handler of
\* CompleteLease past its reads concluded something that is still true, and the
\* reaper only lists leases that were granted.
THEOREM Invariance == Spec => []IInv
BY InitIInv, NextIInv, PTL DEF Spec

\* Every row, handler and reaper list has a value of its type, for any number of
\* Works, nodes and attempts and any batch limit.
THEOREM TypeCorrect == Spec => []TypeOK
<1>1. IInv => TypeOK BY Zenon DEF IInv
<1> QED BY <1>1, Invariance, PTL

\* GrantLease and GrantPlacementLease never leave two ACTIVE leases on a node,
\* whatever requests, reaper passes and crashes come between.
THEOREM LeaseExclusion == Spec => []OneActiveLease
<1>1. IInv => OneActiveLease BY Zenon DEF IInv
<1> QED BY <1>1, Invariance, PTL

\* An attempt is running exactly as long as its lease is ACTIVE: complete, release,
\* revoke and reap always settle the two rows together.
THEOREM RowsAgree == Spec => []ActiveIffRunning
<1>1. IInv => ActiveIffRunning BY Zenon DEF IInv
<1> QED BY <1>1, Invariance, PTL

-----------------------------------------------------------------------------
\* Only the holder of an ACTIVE lease's row changes it: whatever a step does to a
\* lease or its attempt, the lease was not yet settled.
LEMMA SettledStep ==
    ASSUME IInv, [Next]_vars, NEW l \in Lease, lease[l] \in TerminalLease
    PROVE  lease'[l] = lease[l] /\ attempt'[l] = attempt[l]
<1> DEFINE Same == lease'[l] = lease[l] /\ attempt'[l] = attempt[l]
<1>1. ASSUME NEW k \in Lease, LeaseRequest(k) PROVE Same
  <2>1. k # l \/ UNCHANGED <<lease, attempt>>
    BY Zenon, <1>1 DEF LeaseRequest, GrantLease, GrantPlacementLease, InsertLease, RenewLease, ReleaseLease,
        RevokeLease, TransitionLeaseAttempt, CompleteLease, ValidateLeaseTransition, TerminalLease
  <2>2. CASE k # l
    BY Zenon, <1>1, <2>2 DEF LeaseRequest, GrantLease, GrantPlacementLease, InsertLease, RenewLease,
        ReleaseLease, RevokeLease, TransitionLeaseAttempt, CompleteLease, IInv, TypeOK
  <2> QED BY Zenon, <2>1, <2>2
<1>2. ASSUME NEW k \in Lease, LeaseExpires(k) \/ Handler(k) \/ AbandonCompletion(k) PROVE Same
  BY Zenon, <1>2 DEF LeaseExpires, Handler, AppendResults, ReadWork, ReadAttempts, FinalizeWork,
      AbandonCompletion
<1>3. ASSUME NEW w \in Work, WorkRequest(w) PROVE Same
  BY Zenon, <1>3 DEF WorkRequest, QueueWork, CancelWork, SuspendWork, CascadeSuspendWork,
      ResumeFromCheckpoint
<1>4. ASSUME NEW k \in Lease, ReapLease(k) PROVE Same
  BY Zenon, <1>4 DEF ReapLease, MarkAttemptCancelled, ValidateLeaseTransition, IInv, TypeOK
<1>5. CASE ListExpiredLeases \/ CrashAPI \/ UNCHANGED vars
  BY Zenon, <1>5 DEF ListExpiredLeases, CrashAPI, vars
<1> QED
  BY Zenon, <1>1, <1>2, <1>3, <1>4, <1>5 DEF Next, Service, Failure, Reaper

\* No late completion, release, revocation or reaper pass rewrites a settled lease
\* or the outcome of its attempt.
THEOREM SettledIsFinal == Spec => SettledStaysSettled
<1>1. IInv /\ [Next]_vars =>
        [\A l \in Lease :
            lease[l] \in TerminalLease => lease'[l] = lease[l] /\ attempt'[l] = attempt[l]]_vars
  BY Zenon, SettledStep
<1> QED BY <1>1, Invariance, PTL DEF Spec, SettledStaysSettled

\* What a step does to the state of a Work that is paused.
LEMMA PausedStep ==
    ASSUME IInv, [Next]_vars, NEW w \in Work, state[w] \in Paused
    PROVE  \/ state'[w] \in Paused
           \/ state'[w] \in TerminalState
           \/ ResumeFromCheckpoint(w)
<1> DEFINE Goal == \/ state'[w] \in Paused \/ state'[w] \in TerminalState
                   \/ ResumeFromCheckpoint(w)
<1> USE DEF Paused, MissionOnlyState, TerminalState
<1>1. ASSUME NEW l \in Lease, LeaseRequest(l) PROVE Goal
  <2>1. WorkOf(l) = w => UNCHANGED state
    BY Zenon, <1>1 DEF LeaseRequest, GrantLease, GrantPlacementLease, RenewLease, ReleaseLease, RevokeLease,
        TransitionLeaseAttempt, CompleteLease
  <2>2. WorkOf(l) # w => state'[w] = state[w]
    BY Zenon, <1>1, LeaseParts DEF LeaseRequest, GrantLease, GrantPlacementLease, RenewLease, ReleaseLease,
        RevokeLease, TransitionLeaseAttempt, CompleteLease, IInv, TypeOK
  <2> QED BY Zenon, <2>1, <2>2
<1>2. ASSUME NEW l \in Lease, Handler(l) PROVE Goal
  <2>1. CASE FinalizeWork(l)
    BY <2>1, LeaseParts DEF FinalizeWork, UpdateState, CanTransition, ValidTransitions, IInv, TypeOK
  <2>2. CASE ~FinalizeWork(l)
    BY Zenon, <1>2, <2>2 DEF Handler, AppendResults, ReadWork, ReadAttempts
  <2> QED BY ZenonT(60), <2>1, <2>2
<1>3. ASSUME NEW v \in Work, WorkRequest(v) PROVE Goal
  <2>1. CASE v # w
    BY Zenon, <1>3, <2>1 DEF WorkRequest, QueueWork, CancelWork, SuspendWork, CascadeSuspendWork,
        ResumeFromCheckpoint, UpdateState, IInv, TypeOK
  <2>2. CASE v = w
    BY ZenonT(60), <1>3, <2>2 DEF WorkRequest, QueueWork, CancelWork, SuspendWork, CascadeSuspendWork,
        UpdateState, CanTransition, ValidTransitions, SuspendableState, IInv, TypeOK
  <2> QED BY Zenon, <2>1, <2>2
<1>4. ASSUME NEW l \in Lease, LeaseExpires(l) \/ AbandonCompletion(l) \/ ReapLease(l) PROVE Goal
  BY Zenon, <1>4 DEF LeaseExpires, AbandonCompletion, ReapLease
<1>5. CASE ListExpiredLeases \/ CrashAPI \/ UNCHANGED vars
  BY Zenon, <1>5 DEF ListExpiredLeases, CrashAPI, vars
<1> QED
  BY Zenon, <1>1, <1>2, <1>3, <1>4, <1>5 DEF Next, Service, Failure, Reaper

\* A paused mission is set going again by ResumeFromCheckpoint and by nothing else:
\* no grant, placement, queue request or finalization does it.
THEOREM FreezeLaw == Spec => PauseEndsByResume
<1>1. IInv /\ [Next]_vars =>
        [\A w \in Work :
            state[w] \in Paused /\ state'[w] \notin Paused =>
                state'[w] \in TerminalState \/ ResumeFromCheckpoint(w)]_vars
  BY Zenon, PausedStep
<1> QED BY <1>1, Invariance, PTL DEF Spec, PauseEndsByResume

-----------------------------------------------------------------------------
\* How the results of the Works change when an open attempt gets status s.
LEMMA AttemptUpdate ==
    ASSUME TypeOK, NEW l \in Lease, attempt[l] \notin {"succeeded", "failed"}, NEW s,
           attempt' = [attempt EXCEPT ![l] = s], NEW w
    PROVE  /\ Succeeded(w)' = IF s = "succeeded" /\ WorkOf(l) = w
                              THEN Succeeded(w) \cup {NodeOf(l)} ELSE Succeeded(w)
           /\ Failed(w)' = IF s = "failed" /\ WorkOf(l) = w
                           THEN Failed(w) \cup {NodeOf(l)} ELSE Failed(w)
<1>1. \A k \in Lease : attempt'[k] = IF k = l THEN s ELSE attempt[k]
  BY Zenon DEF TypeOK
<1>2. Succeeded(w)' = {NodeOf(k) : k \in {j \in Lease : WorkOf(j) = w /\ attempt'[j] = "succeeded"}}
  BY Zenon DEF Succeeded
<1>3. Failed(w)' = {NodeOf(k) : k \in {j \in Lease : WorkOf(j) = w /\ attempt'[j] = "failed"}}
  BY Zenon DEF Failed
<1> QED BY Zenon, <1>1, <1>2, <1>3 DEF Succeeded, Failed

\* Opening or cancelling an attempt reports nothing.
LEMMA QuietUpdate ==
    ASSUME TypeOK, NEW l \in Lease, attempt[l] \notin {"succeeded", "failed"},
           NEW s \in {"running", "cancelled"}, attempt' = [attempt EXCEPT ![l] = s]
    PROVE  \A w \in Work : Succeeded(w)' = Succeeded(w) /\ Failed(w)' = Failed(w)
<1> TAKE w \in Work
<1> QED BY Zenon, AttemptUpdate

\* A step that leaves the attempts alone, or opens or cancels one, reports nothing.
LEMMA NothingReported ==
    ASSUME \A w \in Work : Succeeded(w)' = Succeeded(w) /\ Failed(w)' = Failed(w)
    PROVE  /\ [w \in Work |-> Succeeded(w)]' = [w \in Work |-> Succeeded(w)]
           /\ [w \in Work |-> Failed(w)]' = [w \in Work |-> Failed(w)]
BY Zenon

\* An empty database is an initial state of the lifecycle.
LEMMA LifecycleInit == Init => Lifecycle!Init
BY DEF Init, Lifecycle!Init, Succeeded, Failed

\* The table of the abstract specification is the table of the concrete one.
LEMMA SameTable ==
    ASSUME NEW from, NEW to, NEW isMission
    PROVE  Lifecycle!ValidateTransition(from, to, isMission)
               <=> ValidateTransition(from, to, isMission)
BY Zenon DEF Lifecycle!ValidateTransition, ValidateTransition, Lifecycle!CanTransition, CanTransition,
    Lifecycle!ValidTransitions, ValidTransitions, Lifecycle!TerminalState, TerminalState,
    Lifecycle!MissionOnlyState, MissionOnlyState

\* A permitted change of state that reports nothing and, if it is a verdict, is
\* backed by results, is a Move.
LEMMA MoveStep ==
    ASSUME NEW w \in Work, NEW to \in State,
           \A v \in Work : Succeeded(v)' = Succeeded(v) /\ Failed(v)' = Failed(v),
           ValidateTransition(state[w], to, w \in Mission),
           to \in {"VERIFYING", "SUCCEEDED"} => Succeeded(w) = Node,
           to = "FAILED" => Failed(w) # {},
           state' = [state EXCEPT ![w] = to]
    PROVE  Lifecycle!Next
<1>1. Lifecycle!Move(w, to)
  BY Zenon, SameTable, NothingReported DEF Lifecycle!Move
<1> QED BY Zenon, <1>1 DEF Lifecycle!Next, Lifecycle!State, State

\* A grant moves a QUEUED Work to RUNNING, places a CREATED one, or changes nothing.
LEMMA GrantRefines ==
    ASSUME IInv, NEW l \in Lease, GrantLease(l) \/ GrantPlacementLease(l)
    PROVE  [Lifecycle!Next]_(Lifecycle!vars)
<1> DEFINE w == WorkOf(l)
<1>1. \A v \in Work : Succeeded(v)' = Succeeded(v) /\ Failed(v)' = Failed(v)
  <2>1. attempt[l] \notin {"succeeded", "failed"} /\ attempt' = [attempt EXCEPT ![l] = "running"]
    BY Zenon DEF GrantLease, GrantPlacementLease, InsertLease, IInv, RowsPaired
  <2> QED BY Zenon, <2>1, QuietUpdate DEF IInv
<1>2. CASE state[w] = "QUEUED"
  <2>1. state' = [state EXCEPT ![w] = "RUNNING"]
    BY Zenon, <1>2 DEF GrantLease, GrantPlacementLease
  <2>2. ValidateTransition(state[w], "RUNNING", w \in Mission)
    BY Zenon, <1>2 DEF ValidateTransition, CanTransition, ValidTransitions, TerminalState, MissionOnlyState
  <2> QED BY Zenon, <1>1, <2>1, <2>2, MoveStep, LeaseParts DEF State
<1>3. CASE state[w] # "QUEUED" /\ GrantLease(l)
  BY Zenon, <1>1, <1>3, NothingReported DEF GrantLease, Lifecycle!vars
<1>4. CASE state[w] # "QUEUED" /\ GrantPlacementLease(l)
  <2>1. Lifecycle!Place(w)
    BY Zenon, <1>1, <1>4, NothingReported DEF GrantPlacementLease, Lifecycle!Place
  <2> QED BY Zenon, <2>1, LeaseParts DEF Lifecycle!Next
<1> QED BY Zenon, <1>2, <1>3, <1>4

\* The transaction of CompleteLease reports the success or the failure of one node.
LEMMA CompleteRefines ==
    ASSUME IInv, NEW l \in Lease, NEW exitCode \in {0, 1}, CompleteLease(l, exitCode)
    PROVE  Lifecycle!Next
<1> DEFINE s == IF exitCode = 0 THEN "succeeded" ELSE "failed"
<1>1. attempt[l] = "running" /\ attempt' = [attempt EXCEPT ![l] = s] /\ UNCHANGED state
  BY Zenon DEF CompleteLease, IInv, ActiveIffRunning
<1>2. \A w \in Work :
        /\ Succeeded(w)' = IF s = "succeeded" /\ WorkOf(l) = w
                           THEN Succeeded(w) \cup {NodeOf(l)} ELSE Succeeded(w)
        /\ Failed(w)' = IF s = "failed" /\ WorkOf(l) = w
                        THEN Failed(w) \cup {NodeOf(l)} ELSE Failed(w)
  BY Zenon, <1>1, AttemptUpdate DEF IInv
<1>3. CASE exitCode = 0
  <2>1. /\ [w \in Work |-> Succeeded(w)]' =
              [[w \in Work |-> Succeeded(w)] EXCEPT ![WorkOf(l)] = @ \cup {NodeOf(l)}]
        /\ [w \in Work |-> Failed(w)]' = [w \in Work |-> Failed(w)]
    BY Zenon, <1>2, <1>3, LeaseParts
  <2>2. Lifecycle!Succeed(WorkOf(l), NodeOf(l))
    BY Zenon, <1>1, <2>1 DEF Lifecycle!Succeed
  <2> QED BY Zenon, <2>2, LeaseParts DEF Lifecycle!Next
<1>4. CASE exitCode # 0
  <2>1. /\ [w \in Work |-> Failed(w)]' =
              [[w \in Work |-> Failed(w)] EXCEPT ![WorkOf(l)] = @ \cup {NodeOf(l)}]
        /\ [w \in Work |-> Succeeded(w)]' = [w \in Work |-> Succeeded(w)]
    BY Zenon, <1>2, <1>4, LeaseParts
  <2>2. Lifecycle!Break(WorkOf(l), NodeOf(l))
    BY Zenon, <1>1, <2>1 DEF Lifecycle!Break
  <2> QED BY Zenon, <2>2, LeaseParts DEF Lifecycle!Next
<1> QED BY Zenon, <1>3, <1>4

\* A handler's verdict is backed by results although its reads are old.
LEMMA HandlerRefines ==
    ASSUME IInv, NEW l \in Lease, Handler(l)
    PROVE  [Lifecycle!Next]_(Lifecycle!vars)
<1> DEFINE w == WorkOf(l)
<1>1. \A v \in Work : Succeeded(v)' = Succeeded(v) /\ Failed(v)' = Failed(v)
  BY Zenon DEF Handler, AppendResults, ReadWork, ReadAttempts, FinalizeWork, Succeeded, Failed
<1>2. CASE UNCHANGED state
  BY Zenon, <1>1, <1>2, NothingReported DEF Lifecycle!vars
<1>3. CASE state' # state
  <2>1. FinalizeWork(l)
    BY Zenon, <1>3 DEF Handler, AppendResults, ReadWork, ReadAttempts
  <2>2. PICK to \in {"FAILED", "VERIFYING", "SUCCEEDED"} :
            /\ state' = UpdateState(w, to)
            /\ to = "FAILED" => fin[l] = "fail"
            /\ to \in {"VERIFYING", "SUCCEEDED"} => fin[l] \in {"verify", "succeed"}
    BY Zenon, <2>1 DEF FinalizeWork
  <2>3. CanTransition(state[w], to) /\ state' = [state EXCEPT ![w] = to]
    BY Zenon, <1>3, <2>2 DEF UpdateState
  <2>4. ValidateTransition(state[w], to, w \in Mission)
    BY Zenon, <2>3 DEF ValidateTransition, MissionOnlyState
  <2>5. /\ to = "FAILED" => Failed(w) # {}
        /\ to \in {"VERIFYING", "SUCCEEDED"} => Succeeded(w) = Node
    BY Zenon, <2>2 DEF IInv, HandlersSure
  <2> QED BY ZenonT(60), <1>1, <2>3, <2>4, <2>5, MoveStep, LeaseParts DEF State
<1> QED BY Zenon, <1>2, <1>3

\* Queue, cancel, suspend, cascade and resume follow the table, or stop a mission.
LEMMA WorkRequestRefines ==
    ASSUME IInv, NEW w \in Work, WorkRequest(w)
    PROVE  [Lifecycle!Next]_(Lifecycle!vars)
<1>1. \A v \in Work : Succeeded(v)' = Succeeded(v) /\ Failed(v)' = Failed(v)
  BY Z3T(60) DEF WorkRequest, QueueWork, CancelWork, SuspendWork, CascadeSuspendWork, ResumeFromCheckpoint,
      Succeeded, Failed
<1>2. ASSUME NEW to \in {"QUEUED", "CANCELLED", "RUNNING"}, CanTransition(state[w], to),
             state' = UpdateState(w, to)
      PROVE  Lifecycle!Next
  BY Zenon, <1>1, <1>2, MoveStep DEF UpdateState, ValidateTransition, MissionOnlyState, State
<1>3. CASE QueueWork(w) \/ CancelWork(w)
  BY Zenon, <1>2, <1>3 DEF QueueWork, CancelWork
<1>4. CASE ResumeFromCheckpoint(w)
  <2>1. CanTransition(state[w], "RUNNING")
    BY Z3T(60), <1>4 DEF ResumeFromCheckpoint, CanTransition, ValidTransitions, TerminalState
  <2> QED BY Zenon, <1>2, <1>4, <2>1 DEF ResumeFromCheckpoint
<1>5. ASSUME NEW to \in MissionOnlyState, SuspendWork(w, to) PROVE Lifecycle!Next
  BY Zenon, <1>1, <1>5, MoveStep DEF SuspendWork, State
<1>6. CASE CascadeSuspendWork(w)
  <2>1. Lifecycle!Stop(w)
    BY Zenon, <1>1, <1>6, NothingReported DEF CascadeSuspendWork, SuspendableState, Lifecycle!Stop,
        Lifecycle!TerminalState, Lifecycle!MissionOnlyState
  <2> QED BY Zenon, <2>1 DEF Lifecycle!Next
<1> QED BY Zenon, <1>3, <1>4, <1>5, <1>6 DEF WorkRequest

\* Ending a lease without a result changes neither the state nor the results.
LEMMA CancelledReportsNothing ==
    ASSUME IInv, NEW l \in Lease, ReleaseLease(l) \/ RevokeLease(l) \/ ReapLease(l)
    PROVE  UNCHANGED Lifecycle!vars
<1>1. \/ attempt' = attempt
      \/ attempt[l] \notin {"succeeded", "failed"} /\ attempt' = [attempt EXCEPT ![l] = "cancelled"]
  BY Zenon DEF ReleaseLease, RevokeLease, ReapLease, TransitionLeaseAttempt, MarkAttemptCancelled,
      ValidateLeaseTransition, IInv, TypeOK, ActiveIffRunning, RowsPaired, LeaseStatus, TerminalLease,
      ListsGranted
<1>2. \A v \in Work : Succeeded(v)' = Succeeded(v) /\ Failed(v)' = Failed(v)
  <2>1. CASE attempt' = attempt
    BY Zenon, <2>1 DEF Succeeded, Failed
  <2>2. CASE attempt' # attempt
    BY Zenon, <1>1, <2>2, QuietUpdate DEF IInv
  <2> QED BY Zenon, <2>1, <2>2
<1>3. UNCHANGED state
  BY Zenon DEF ReleaseLease, RevokeLease, ReapLease, TransitionLeaseAttempt
<1> QED BY Zenon, <1>2, <1>3, NothingReported DEF Lifecycle!vars

\* Every step of the lease core is a step of the lifecycle, or none.
THEOREM LifecycleStep == IInv /\ [Next]_vars => [Lifecycle!Next]_(Lifecycle!vars)
<1> SUFFICES ASSUME IInv, [Next]_vars PROVE [Lifecycle!Next]_(Lifecycle!vars)
  BY Zenon
<1>1. ASSUME NEW l \in Lease, GrantLease(l) \/ GrantPlacementLease(l)
      PROVE  [Lifecycle!Next]_(Lifecycle!vars)
  BY Zenon, <1>1, GrantRefines
<1>2. ASSUME NEW l \in Lease, NEW exitCode \in {0, 1}, CompleteLease(l, exitCode)
      PROVE  Lifecycle!Next
  BY Zenon, <1>2, CompleteRefines
<1>3. ASSUME NEW l \in Lease, ReleaseLease(l) \/ RevokeLease(l) \/ ReapLease(l)
      PROVE  UNCHANGED Lifecycle!vars
  BY Zenon, <1>3, CancelledReportsNothing
<1>4. ASSUME NEW l \in Lease, Handler(l)
      PROVE  [Lifecycle!Next]_(Lifecycle!vars)
  BY Zenon, <1>4, HandlerRefines
<1>5. ASSUME NEW w \in Work, WorkRequest(w)
      PROVE  [Lifecycle!Next]_(Lifecycle!vars)
  BY Zenon, <1>5, WorkRequestRefines
<1>6. ASSUME NEW l \in Lease, RenewLease(l) \/ LeaseExpires(l) \/ AbandonCompletion(l)
      PROVE  UNCHANGED Lifecycle!vars
  BY <1>6 DEF RenewLease, LeaseExpires, AbandonCompletion, Lifecycle!vars, Succeeded, Failed
<1>7. CASE ListExpiredLeases \/ CrashAPI \/ UNCHANGED vars
  BY Zenon, <1>7 DEF ListExpiredLeases, CrashAPI, vars, Lifecycle!vars, Succeeded, Failed
<1> QED
  BY Zenon, <1>1, <1>2, <1>3, <1>4, <1>5, <1>6, <1>7
  DEF Next, Service, Failure, Reaper, LeaseRequest

\* The lease core implements the lifecycle promised to clients: SUCCEEDED only with
\* a successful attempt of every node, FAILED only with a failed one, although
\* CompleteLease decides on reads that other requests have overtaken.
THEOREM Refinement == Spec => ImplementsLifecycle
BY LifecycleInit, LifecycleStep, Invariance, PTL DEF Spec, ImplementsLifecycle, Lifecycle!Spec

-----------------------------------------------------------------------------
(* The publishers: the head shows the attempt that runs for it. *)

(* What a Work sends. *)

\* An attempt has one commit, begins with a queued event, and comes with all its events after
\* the attempts before it; in the present attempt every event but the last has a successor.
EmissionInv ==
    /\ emitted \subseteq LifecycleEvent
    /\ running = NoStatus => emitted = {}
    /\ running # NoStatus => running \in emitted
    /\ \A e \in emitted : e.attempt <= running.attempt /\ e.at <= running.at
    /\ \A e, f \in emitted : /\ e.attempt = f.attempt => e.sha = f.sha
                             /\ e.attempt < f.attempt => e.at < f.at
    /\ \A e \in emitted : \E f \in emitted : f.attempt = e.attempt /\ f.state = "queued"
    /\ \A e \in emitted : e.attempt = running.attempt /\ e # running =>
         \E f \in emitted : f.attempt = e.attempt /\ f.at >= e.at /\ LifecycleCanTransition(e.state, f.state)

\* The commit that the present event was accepted for shows it; what another one shows is
\* of no later attempt.
ShownInv ==
    /\ head \in Commit
    /\ accepted # NoStatus => accepted \in emitted
    /\ status \in [Commit -> CommitStatus \cup {NoStatus}]
    /\ \A c \in Commit : status[c] # NoStatus => accepted # NoStatus /\ status[c].attempt <= accepted.attempt
    /\ accepted # NoStatus =>
         status[accepted.sha] = [conclusion |-> GitHubStatusState(accepted.state), attempt |-> accepted.attempt]

ReconcilerInv == EmissionInv /\ ShownInv

\* An event of the present attempt that follows its last one.
LEMMA MoveRunEmits ==
    ASSUME EmissionInv, NEW to \in LifecycleState, MoveRun(to)
    PROVE EmissionInv'
<1> DEFINE e == [running EXCEPT !.state = to, !.at = @ + 1]
<1>1. running \in emitted /\ running \in LifecycleEvent /\ LifecycleCanTransition(running.state, to)
  BY Zenon DEF MoveRun, EmissionInv
<1>2. emitted' = emitted \cup {e} /\ running' = e
  BY Zenon DEF MoveRun, Emit
<1>3. /\ e \in LifecycleEvent /\ e.attempt = running.attempt /\ e.sha = running.sha /\ e.state = to
      /\ e.at = running.at + 1 /\ running.at \in Nat /\ running.attempt \in Nat
  <2>1. running.at \in Nat /\ running.attempt \in Nat /\ running.at + 1 \in Nat
    BY <1>1 DEF LifecycleEvent
  <2>2. e \in LifecycleEvent
    BY Zenon, <1>1, <2>1 DEF LifecycleEvent
  <2>3. e.attempt = running.attempt /\ e.sha = running.sha /\ e.state = to
    BY Zenon, <1>1 DEF LifecycleEvent
  <2>4. e.at = running.at + 1
    BY Zenon, <1>1 DEF LifecycleEvent
  <2> QED
    BY Zenon, <2>1, <2>2, <2>3, <2>4
<1> HIDE DEF e
<1>4. \A f \in emitted : f.at \in Nat /\ f.attempt \in Nat /\ f.attempt <= running.attempt /\ f.at <= running.at
  BY Zenon DEF EmissionInv, LifecycleEvent
<1>5. emitted' \subseteq LifecycleEvent /\ running' # NoStatus /\ running' \in emitted'
  BY Zenon, <1>2, <1>3, PublicationAssumption DEF EmissionInv
<1>6. \A f \in emitted' : f.attempt <= running'.attempt /\ f.at <= running'.at
  BY <1>2, <1>3, <1>4
<1>7. \A f \in emitted : /\ f.attempt = e.attempt => f.sha = e.sha
                         /\ f.attempt < e.attempt => f.at < e.at
                         /\ ~(e.attempt < f.attempt)
  BY <1>1, <1>3, <1>4 DEF EmissionInv
<1>8. \A f, g \in emitted' : /\ f.attempt = g.attempt => f.sha = g.sha
                             /\ f.attempt < g.attempt => f.at < g.at
  BY <1>2, <1>3, <1>7 DEF EmissionInv
<1>9. \A f \in emitted' : \E g \in emitted' : g.attempt = f.attempt /\ g.state = "queued"
  BY <1>1, <1>2, <1>3 DEF EmissionInv
<1>10. ASSUME NEW f \in emitted', f.attempt = running'.attempt, f # running'
       PROVE \E g \in emitted' : g.attempt = f.attempt /\ g.at >= f.at /\ LifecycleCanTransition(f.state, g.state)
  <2>1. f \in emitted /\ f.attempt = running.attempt
    BY Zenon, <1>2, <1>3, <1>10
  <2>2. CASE f = running
    <3>1. e \in emitted' /\ e.attempt = f.attempt /\ e.at >= f.at /\ LifecycleCanTransition(f.state, e.state)
      BY <1>1, <1>2, <1>3, <2>2
    <3> QED
      BY Zenon, <3>1
  <2>3. CASE f # running
    BY Zenon, <1>2, <2>1, <2>3 DEF EmissionInv
  <2> QED
    BY Zenon, <2>2, <2>3
<1> QED
  BY Zenon, <1>5, <1>6, <1>8, <1>9, <1>10 DEF EmissionInv

\* The queued event of a new attempt.
LEMMA BeginAttemptEmits ==
    ASSUME EmissionInv, head \in Commit, BeginAttempt
    PROVE EmissionInv'
<1> DEFINE e == [attempt |-> IF running = NoStatus THEN 1 ELSE running.attempt + 1, sha |-> head, state |-> "queued",
                 at |-> IF running = NoStatus THEN 1 ELSE running.at + 1]
<1>1. emitted' = emitted \cup {e} /\ running' = e
  BY Zenon DEF BeginAttempt, Emit
<1>2. running # NoStatus => running \in emitted /\ running.attempt \in Nat /\ running.at \in Nat
  BY Zenon DEF EmissionInv, LifecycleEvent
<1>3. /\ e \in LifecycleEvent /\ e.sha = head /\ e.state = "queued" /\ e.attempt \in Nat /\ e.at \in Nat
      /\ running # NoStatus => e.attempt = running.attempt + 1 /\ e.at = running.at + 1
  BY <1>2 DEF LifecycleEvent, LifecycleState
<1> HIDE DEF e
<1>4. \A f \in emitted : f.at \in Nat /\ f.attempt \in Nat /\ f.attempt < e.attempt /\ f.at < e.at
  <2> TAKE f \in emitted
  <2>1. running # NoStatus /\ f.at \in Nat /\ f.attempt \in Nat /\ f.attempt <= running.attempt /\ f.at <= running.at
    BY Zenon DEF EmissionInv, LifecycleEvent
  <2> QED
    BY <1>2, <1>3, <2>1
<1>5. emitted' \subseteq LifecycleEvent /\ running' # NoStatus /\ running' \in emitted'
  BY Zenon, <1>1, <1>3, PublicationAssumption DEF EmissionInv
<1>6. \A f \in emitted' : f.attempt <= running'.attempt /\ f.at <= running'.at
  BY <1>1, <1>3, <1>4
<1>7. \A f, g \in emitted' : /\ f.attempt = g.attempt => f.sha = g.sha
                             /\ f.attempt < g.attempt => f.at < g.at
  BY <1>1, <1>3, <1>4 DEF EmissionInv
<1>8. \A f \in emitted' : \E g \in emitted' : g.attempt = f.attempt /\ g.state = "queued"
  BY Zenon, <1>1, <1>3 DEF EmissionInv
<1>9. \A f \in emitted' : f.attempt = running'.attempt => f = running'
  BY <1>1, <1>3, <1>4
<1> QED
  BY Zenon, <1>5, <1>6, <1>7, <1>8, <1>9 DEF EmissionInv

\* An event that is applied follows the accepted one.
LEMMA AppliedFollows ==
    ASSUME EmissionInv, ShownInv, NEW e \in emitted, ReconcileStatus(accepted, e, head) = "apply"
    PROVE /\ e.sha = head
          /\ accepted = NoStatus => e.state = "queued"
          /\ accepted # NoStatus =>
               /\ accepted.attempt < e.attempt => e.state = "queued"
               /\ ~(accepted.attempt < e.attempt) =>
                    accepted.attempt = e.attempt /\ LifecycleCanTransition(accepted.state, e.state)
<1>1. e.attempt \in Nat /\ e.at \in Nat
  BY Zenon DEF EmissionInv, LifecycleEvent
<1>2. accepted # NoStatus => accepted.attempt \in Nat /\ accepted.at \in Nat
  BY Zenon DEF EmissionInv, ShownInv, LifecycleEvent
<1>3. e.sha = head
  BY Zenon DEF ReconcileStatus
<1>4. CASE accepted = NoStatus
  BY Zenon, <1>3, <1>4 DEF ReconcileStatus
<1>5. CASE accepted # NoStatus
  <2>1. ~Older(accepted, e)
    BY Zenon, <1>3, <1>5 DEF ReconcileStatus
  <2>2. CASE accepted.attempt < e.attempt
    BY Zenon, <1>1, <1>2, <1>3, <1>5, <2>1, <2>2 DEF ReconcileStatus
  <2>3. CASE ~(accepted.attempt < e.attempt)
    <3>1. accepted.attempt = e.attempt /\ ~(e.attempt > accepted.attempt)
      BY <1>1, <1>2, <1>5, <2>1, <2>3 DEF Older
    <3> QED
      BY Zenon, <1>3, <1>5, <2>1, <3>1 DEF ReconcileStatus
  <2> QED
    BY Zenon, <1>3, <1>5, <2>2, <2>3
<1> QED
  BY Zenon, <1>3, <1>4, <1>5

\* The event is accepted and shown on its commit.
LEMMA PublishLifecycleShows ==
    ASSUME EmissionInv, ShownInv, NEW e \in emitted, PublishLifecycle(e)
    PROVE EmissionInv' /\ ShownInv'
<1> DEFINE s == [conclusion |-> GitHubStatusState(e.state), attempt |-> e.attempt]
<1>1. accepted' = e /\ status' = [status EXCEPT ![e.sha] = s] /\ UNCHANGED <<head, heads, emitted, running>>
  BY Zenon DEF PublishLifecycle
<1>2. e \in LifecycleEvent /\ e.sha \in Commit /\ e.attempt \in Nat
  BY Zenon DEF EmissionInv, LifecycleEvent
<1>3. s \in CommitStatus /\ s.attempt = e.attempt
  BY Zenon, <1>2 DEF CommitStatus, GitHubStatusState
<1>4. accepted # NoStatus => accepted.attempt \in Nat /\ accepted.attempt <= e.attempt
  <2>1. ReconcileStatus(accepted, e, head) = "apply"
    BY Zenon DEF PublishLifecycle
  <2>2. accepted # NoStatus => accepted.attempt \in Nat
    BY Zenon DEF ShownInv, EmissionInv, LifecycleEvent
  <2> QED
    BY <1>2, <2>1, <2>2, AppliedFollows
<1>5. EmissionInv'
  BY Zenon, <1>1 DEF EmissionInv
<1> HIDE DEF s
<1>6. status' \in [Commit -> CommitStatus \cup {NoStatus}] /\ status'[e.sha] = s
  BY Zenon, <1>1, <1>2, <1>3 DEF ShownInv
<1>7. \A c \in Commit : c # e.sha => status'[c] = status[c]
  BY Zenon, <1>1 DEF ShownInv
<1>8. e # NoStatus
  BY Zenon, <1>2, PublicationAssumption
<1>9. \A c \in Commit : status'[c] # NoStatus => status'[c].attempt <= e.attempt
  <2> SUFFICES ASSUME NEW c \in Commit, status'[c] # NoStatus PROVE status'[c].attempt <= e.attempt
    BY Zenon
  <2>1. CASE c = e.sha
    BY <1>2, <1>3, <1>6, <2>1
  <2>2. CASE c # e.sha
    <3>1. status[c] # NoStatus /\ status'[c] = status[c] /\ status[c].attempt <= accepted.attempt /\ accepted # NoStatus
      BY Zenon, <1>7, <2>2 DEF ShownInv
    <3>2. status[c] \in CommitStatus /\ status[c].attempt \in Nat
      BY Zenon, <3>1 DEF ShownInv, CommitStatus
    <3> QED
      BY <1>2, <1>4, <3>1, <3>2
  <2> QED
    BY Zenon, <2>1, <2>2
<1> QED
  BY Zenon, <1>1, <1>5, <1>6, <1>8, <1>9 DEF ShownInv, s

\* Every step of the reconciler and of what it hears keeps both.
LEMMA ReconcilerKeeps == ReconcilerInv /\ [ReconcilerNext]_publicationVars => ReconcilerInv'
<1> SUFFICES ASSUME ReconcilerInv, [ReconcilerNext]_publicationVars PROVE ReconcilerInv'
  BY Zenon
<1>1. EmissionInv /\ ShownInv
  BY Zenon DEF ReconcilerInv
<1>2. CASE UNCHANGED publicationVars
  BY Zenon, <1>1, <1>2 DEF publicationVars, ReconcilerInv, EmissionInv, ShownInv
<1>3. ASSUME NEW to \in LifecycleState, MoveRun(to) PROVE ReconcilerInv'
  <2>1. EmissionInv'
    BY Zenon, <1>1, <1>3, MoveRunEmits
  <2>2. emitted \subseteq emitted' /\ head' = head /\ accepted' = accepted /\ status' = status
    BY Zenon, <1>3 DEF MoveRun, Emit
  <2> QED
    BY Zenon, <1>1, <2>1, <2>2 DEF ReconcilerInv, ShownInv
<1>4. CASE BeginAttempt
  <2>1. EmissionInv'
    BY Zenon, <1>1, <1>4, BeginAttemptEmits DEF ShownInv
  <2>2. emitted \subseteq emitted' /\ head' = head /\ accepted' = accepted /\ status' = status
    BY Zenon, <1>4 DEF BeginAttempt, Emit
  <2> QED
    BY Zenon, <1>1, <2>1, <2>2 DEF ReconcilerInv, ShownInv
<1>5. ASSUME NEW c \in Commit, Push(c) PROVE ReconcilerInv'
  BY Zenon, <1>1, <1>5 DEF Push, ReconcilerInv, EmissionInv, ShownInv
<1>6. ASSUME NEW e \in emitted, PublishLifecycle(e) PROVE ReconcilerInv'
  BY Zenon, <1>1, <1>6, PublishLifecycleShows DEF ReconcilerInv
<1> QED
  BY Zenon, <1>2, <1>3, <1>4, <1>5, <1>6 DEF ReconcilerNext

\* They hold in every state.
LEMMA ReconcilerInvariant == ReconcilerSpec => []ReconcilerInv
<1>1. PublicationInit => ReconcilerInv
  BY Zenon DEF PublicationInit, ReconcilerInv, EmissionInv, ShownInv
<1> QED
  BY <1>1, ReconcilerKeeps, PTL DEF ReconcilerSpec

\* Once no event that was sent would be applied any more, the head shows the state of the
\* attempt that runs for it (ReconcileStatus, PublishLifecycle): the queued event of the
\* attempt, and the successor of any event but the last, would have been.
THEOREM HeadsAreReported == ReconcilerSpec => []HeadIsReported
<1>1. ReconcilerInv => HeadIsReported
  <2> SUFFICES ASSUME ReconcilerInv, running # NoStatus, running.sha = head,
                      \A e \in emitted : ReconcileStatus(accepted, e, head) # "apply"
               PROVE status[head] = [conclusion |-> GitHubStatusState(running.state), attempt |-> running.attempt]
    BY Zenon DEF HeadIsReported
  <2>1. EmissionInv /\ ShownInv /\ running \in emitted
    BY Zenon DEF ReconcilerInv, EmissionInv
  <2>2. PICK q \in emitted : q.attempt = running.attempt /\ q.state = "queued"
    BY Zenon, <2>1 DEF EmissionInv
  <2>3. q.sha = head
    BY Zenon, <2>1, <2>2 DEF EmissionInv
  <2>4. accepted # NoStatus
    BY Zenon, <2>2, <2>3 DEF ReconcileStatus
  <2>5. accepted \in emitted /\ accepted.attempt \in Nat /\ accepted.at \in Nat /\ q.attempt \in Nat /\ q.at \in Nat
    BY Zenon, <2>1, <2>4 DEF ShownInv, EmissionInv, LifecycleEvent
  <2>6. accepted.attempt = running.attempt
    <3>1. accepted.attempt <= q.attempt
      BY Zenon, <2>1, <2>2, <2>5 DEF EmissionInv
    <3>2. ASSUME accepted.attempt < q.attempt PROVE FALSE
      <4>1. accepted.at < q.at
        BY Zenon, <2>1, <2>2, <2>5, <3>2 DEF EmissionInv
      <4>2. ~Older(accepted, q) /\ q.attempt > accepted.attempt
        BY <2>5, <3>2, <4>1 DEF Older
      <4>3. ReconcileStatus(accepted, q, head) = "apply"
        BY Zenon, <2>2, <2>3, <2>4, <4>2 DEF ReconcileStatus
      <4> QED
        BY Zenon, <2>2, <4>3
    <3> QED
      BY <2>2, <2>5, <3>1, <3>2
  <2>7. accepted.sha = head
    BY Zenon, <2>1, <2>5, <2>6 DEF EmissionInv
  <2>8. accepted = running
    <3> SUFFICES ASSUME accepted # running PROVE FALSE
      BY Zenon
    <3>1. PICK f \in emitted : /\ f.attempt = accepted.attempt /\ f.at >= accepted.at
                               /\ LifecycleCanTransition(accepted.state, f.state)
      BY Zenon, <2>1, <2>5, <2>6 DEF EmissionInv
    <3>2. f.sha = head /\ f.at \in Nat
      BY Zenon, <2>1, <2>5, <2>7, <3>1 DEF EmissionInv, LifecycleEvent
    <3>3. ~Older(accepted, f) /\ ~(f.attempt > accepted.attempt)
      BY <2>5, <3>1, <3>2 DEF Older
    <3>4. f.state # accepted.state
      BY Zenon, <3>1 DEF LifecycleCanTransition, Terminal
    <3>5. ReconcileStatus(accepted, f, head) = "apply"
      BY Zenon, <2>4, <3>1, <3>2, <3>3, <3>4 DEF ReconcileStatus
    <3> QED
      BY Zenon, <3>1, <3>5
  <2> QED
    BY Zenon, <2>1, <2>4, <2>7, <2>8 DEF ShownInv
<1> QED
  BY <1>1, ReconcilerInvariant, PTL

\* A conclusion on a commit is only replaced by a later attempt (ReconcileStatus).
THEOREM ConclusionsAreFinal == ReconcilerSpec => ConclusionIsFinal
<1> DEFINE Final == \A c \in Commit :
               status[c] # NoStatus /\ status[c].conclusion # "pending" /\ status'[c] # status[c]
                   => status'[c].attempt > status[c].attempt
<1>1. ASSUME ReconcilerInv, [ReconcilerNext]_publicationVars PROVE [Final]_publicationVars
  <2>1. ASSUME status' = status PROVE Final
    BY Zenon, <2>1
  <2>2. ASSUME NEW e \in emitted, PublishLifecycle(e) PROVE Final
    <3> SUFFICES ASSUME NEW c \in Commit, status[c] # NoStatus, status[c].conclusion # "pending", status'[c] # status[c]
                 PROVE status'[c].attempt > status[c].attempt
      BY Zenon
    <3>1. EmissionInv /\ ShownInv
      BY Zenon, <1>1 DEF ReconcilerInv
    <3>2. e.sha \in Commit /\ e.attempt \in Nat
      BY Zenon, <3>1 DEF EmissionInv, LifecycleEvent
    <3>3. c = e.sha /\ status'[c] = [conclusion |-> GitHubStatusState(e.state), attempt |-> e.attempt]
      BY Zenon, <2>2, <3>1, <3>2 DEF PublishLifecycle, ShownInv
    <3>4. status'[c].attempt = e.attempt
      BY <3>3
    <3>5. /\ accepted # NoStatus /\ status[c].attempt <= accepted.attempt
          /\ accepted \in emitted /\ accepted.attempt \in Nat /\ status[c].attempt \in Nat
      BY Zenon, <3>1 DEF ShownInv, EmissionInv, LifecycleEvent, CommitStatus
    <3>6. CASE accepted.attempt < e.attempt
      BY <3>2, <3>4, <3>5, <3>6
    <3>7. CASE ~(accepted.attempt < e.attempt)
      <4>1. accepted.attempt = e.attempt /\ LifecycleCanTransition(accepted.state, e.state)
        BY Zenon, <2>2, <3>1, <3>5, <3>7, AppliedFollows DEF PublishLifecycle
      <4>2. accepted.sha = c
        BY Zenon, <3>1, <3>3, <3>5, <4>1 DEF EmissionInv
      <4>3. status[c].conclusion = GitHubStatusState(accepted.state)
        BY <3>1, <3>5, <4>2 DEF ShownInv
      <4>4. GitHubStatusState(accepted.state) = "pending"
        BY Zenon, <4>1 DEF LifecycleCanTransition, GitHubStatusState, Terminal
      <4> QED
        BY Zenon, <4>3, <4>4
    <3> QED
      BY Zenon, <3>6, <3>7
  <2>3. ASSUME NEW to \in LifecycleState, MoveRun(to) PROVE status' = status
    BY Zenon, <2>3 DEF MoveRun, Emit
  <2>4. ASSUME BeginAttempt PROVE status' = status
    BY Zenon, <2>4 DEF BeginAttempt, Emit
  <2>5. ASSUME NEW c \in Commit, Push(c) PROVE status' = status
    BY Zenon, <2>5 DEF Push
  <2> HIDE DEF Final
  <2> QED
    BY Zenon, <1>1, <2>1, <2>2, <2>3, <2>4, <2>5 DEF ReconcilerNext
<1> QED
  BY <1>1, ReconcilerInvariant, PTL DEF ReconcilerSpec, ConclusionIsFinal


\* The accepted event is the last of the trail.
TrailInv ==
    /\ trail \in Seq(LifecycleEvent)
    /\ accepted = NoStatus => trail = <<>>
    /\ accepted # NoStatus => trail # <<>> /\ trail[Len(trail)] = accepted
    /\ TrailIsLawful

\* The trail grows by an event that follows its last one.
LEMMA TrailGrows ==
    ASSUME ReconcilerInv, TrailInv, NEW e \in emitted, PublishLifecycle(e)
    PROVE TrailInv'
<1> DEFINE n == Len(trail)
<1>1. EmissionInv /\ ShownInv /\ e \in LifecycleEvent /\ e.attempt \in Nat
  BY Zenon DEF ReconcilerInv, EmissionInv, LifecycleEvent
<1>2. accepted' = e /\ trail' = Append(trail, e) /\ ReconcileStatus(accepted, e, head) = "apply"
  BY Zenon DEF PublishLifecycle
<1>3. trail \in Seq(LifecycleEvent) /\ n \in Nat /\ (trail # <<>> => n >= 1) /\ (trail = <<>> => n = 0)
  BY LenProperties, EmptySeq DEF TrailInv
<1>4. /\ trail' \in Seq(LifecycleEvent) /\ Len(trail') = n + 1 /\ trail'[n + 1] = e
      /\ \A i \in 1..n : trail'[i] = trail[i]
  BY <1>1, <1>2, <1>3, AppendProperties
<1>5. trail' # <<>> /\ trail'[Len(trail')] = e /\ e # NoStatus
  BY <1>1, <1>3, <1>4, EmptySeq, PublicationAssumption
<1> DEFINE Lawful(t, i) ==
             IF i = 1 \/ t[IF i = 1 THEN 1 ELSE i - 1].attempt < t[i].attempt THEN t[i].state = "queued"
             ELSE /\ t[i - 1].attempt = t[i].attempt
                  /\ \/ t[i - 1].state = "queued" /\ t[i].state \in {"running", "failure", "cancelled"}
                     \/ t[i - 1].state = "running" /\ t[i].state \in Terminal
<1>6. \A i \in 1..n : Lawful(trail, i)
  BY Zenon DEF TrailInv, TrailIsLawful
<1>7. Lawful(trail', n + 1)
  <2>1. CASE accepted = NoStatus
    <3>1. n = 0 /\ e.state = "queued"
      BY Zenon, <1>1, <1>2, <1>3, <2>1, AppliedFollows DEF TrailInv
    <3> QED
      BY <1>4, <3>1
  <2>2. CASE accepted # NoStatus
    <3>1. n >= 1 /\ n + 1 # 1 /\ (n + 1) - 1 = n /\ trail'[n] = accepted
      BY <1>3, <1>4, <2>2 DEF TrailInv
    <3>2. /\ accepted.attempt < e.attempt => e.state = "queued"
          /\ ~(accepted.attempt < e.attempt) =>
               accepted.attempt = e.attempt /\ LifecycleCanTransition(accepted.state, e.state)
      BY Zenon, <1>1, <1>2, <2>2, AppliedFollows
    <3> QED
      BY Zenon, <1>4, <3>1, <3>2 DEF LifecycleCanTransition
  <2> QED
    BY Zenon, <2>1, <2>2
<1>8. \A i \in 1..n : Lawful(trail', i)
  <2> TAKE i \in 1..n
  <2>1. trail'[i] = trail[i] /\ (i # 1 => trail'[i - 1] = trail[i - 1]) /\ trail'[1] = trail[1]
    BY <1>3, <1>4
  <2>2. Lawful(trail, i)
    BY Zenon, <1>6
  <2> QED
    BY Zenon, <2>1, <2>2
<1>9. \A i \in 1..Len(trail') : Lawful(trail', i)
  <2> HIDE DEF Lawful
  <2>1. \A i \in 1..Len(trail') : i = n + 1 \/ i \in 1..n
    BY <1>3, <1>4
  <2> QED
    BY Zenon, <1>7, <1>8, <2>1
<1>10. TrailIsLawful'
  BY Zenon, <1>9 DEF TrailIsLawful
<1> QED
  BY Zenon, <1>2, <1>4, <1>5, <1>10 DEF TrailInv

\* The accepted events of an attempt are a lawful course from queued on, and attempts are
\* accepted in their order, whatever arrives late or again (ReconcileStatus).
THEOREM TrailsAreLawful == ReconcilerSpec => []TrailIsLawful
<1>1. PublicationInit => TrailInv
  <2> SUFFICES ASSUME PublicationInit PROVE TrailInv
    BY Zenon
  <2>1. trail = <<>> /\ Len(trail) = 0 /\ trail \in Seq(LifecycleEvent)
    BY Zenon, EmptySeq DEF PublicationInit
  <2>2. 1..Len(trail) = {}
    BY <2>1
  <2> QED
    BY Zenon, <2>1, <2>2 DEF PublicationInit, TrailInv, TrailIsLawful
<1>2. ReconcilerInv /\ TrailInv /\ [ReconcilerNext]_publicationVars => TrailInv'
  <2> SUFFICES ASSUME ReconcilerInv, TrailInv, [ReconcilerNext]_publicationVars PROVE TrailInv'
    BY Zenon
  <2>1. ASSUME UNCHANGED <<accepted, trail>> PROVE TrailInv'
    BY Zenon, <2>1 DEF TrailInv, TrailIsLawful
  <2>2. CASE UNCHANGED publicationVars
    BY Zenon, <2>1, <2>2 DEF publicationVars
  <2>3. ASSUME NEW to \in LifecycleState, MoveRun(to) PROVE TrailInv'
    BY Zenon, <2>1, <2>3 DEF MoveRun, Emit
  <2>4. CASE BeginAttempt
    BY Zenon, <2>1, <2>4 DEF BeginAttempt, Emit
  <2>5. ASSUME NEW c \in Commit, Push(c) PROVE TrailInv'
    BY Zenon, <2>1, <2>5 DEF Push
  <2>6. ASSUME NEW e \in emitted, PublishLifecycle(e) PROVE TrailInv'
    BY Zenon, <2>6, TrailGrows
  <2> QED
    BY Zenon, <2>2, <2>3, <2>4, <2>5, <2>6 DEF ReconcilerNext
<1>3. TrailInv => TrailIsLawful
  BY Zenon DEF TrailInv
<1> QED
  BY <1>1, <1>2, <1>3, ReconcilerInvariant, PTL DEF ReconcilerSpec

(* The hook. *)

\* What is or will be posted of a Work is how it ended.
HookInv ==
    /\ outcome \in [EndedWork -> {"SUCCEEDED", "FAILED", "CANCELLED", NoStatus}]
    /\ posting \subseteq WorkOutcome
    /\ workStatus \in WorkOutcome \cup {NoStatus}
    /\ \A p \in posting : p.conclusion = "success" => outcome[p.work] = "SUCCEEDED"
    /\ SuccessIsEarned

\* A commit that shows success had a Work that succeeded on it, whichever publication comes
\* last (maybePublishOnTerminal, Publish, Republish).
THEOREM PostedSuccessIsEarned == HookSpec => []SuccessIsEarned
<1>1. PublicationInit => HookInv
  BY Zenon DEF PublicationInit, HookInv, SuccessIsEarned
<1>2. HookInv /\ [HookNext]_publicationVars => HookInv'
  <2> SUFFICES ASSUME HookInv, [HookNext]_publicationVars PROVE HookInv'
    BY Zenon
  <2>1. CASE UNCHANGED publicationVars
    BY Zenon, <2>1 DEF publicationVars, HookInv, SuccessIsEarned
  <2>2. ASSUME NEW w \in EndedWork, NEW s \in {"SUCCEEDED", "FAILED", "CANCELLED"}, maybePublishOnTerminal(w, s)
        PROVE HookInv'
    <3> DEFINE p == [work |-> w, conclusion |-> Conclusion(s)]
    <3>1. /\ outcome[w] \in {NoStatus, s} /\ outcome' = [outcome EXCEPT ![w] = s]
          /\ posting' \subseteq posting \cup {p} /\ workStatus' = workStatus
      BY Zenon, <2>2 DEF maybePublishOnTerminal
    <3>2. p \in WorkOutcome /\ p.work = w /\ (p.conclusion = "success" => s = "SUCCEEDED")
      BY Zenon DEF WorkOutcome, Conclusion
    <3> HIDE DEF p
    <3>3. outcome' \in [EndedWork -> {"SUCCEEDED", "FAILED", "CANCELLED", NoStatus}] /\ outcome'[w] = s
      BY Zenon, <3>1 DEF HookInv
    <3>4. \A v \in EndedWork : outcome[v] = "SUCCEEDED" => outcome'[v] = "SUCCEEDED"
      BY Zenon, <3>1, PublicationAssumption DEF HookInv
    <3>5. \A r \in posting' : r \in WorkOutcome /\ (r.conclusion = "success" => outcome'[r.work] = "SUCCEEDED")
      BY <3>1, <3>2, <3>3, <3>4 DEF HookInv, WorkOutcome
    <3>6. SuccessIsEarned'
      BY Zenon, <3>1, <3>4 DEF HookInv, SuccessIsEarned, WorkOutcome
    <3> QED
      BY Zenon, <3>1, <3>3, <3>5, <3>6 DEF HookInv
  <2>3. ASSUME NEW w \in EndedWork, Republish(w) PROVE HookInv'
    <3> DEFINE p == [work |-> w, conclusion |-> IF outcome[w] = "SUCCEEDED" THEN "success" ELSE "failure"]
    <3>1. workStatus' = p /\ UNCHANGED <<outcome, posting>>
      BY Zenon, <2>3 DEF Republish
    <3>2. p \in WorkOutcome /\ p.work = w /\ (p.conclusion = "success" => outcome[w] = "SUCCEEDED")
      BY Zenon DEF WorkOutcome
    <3> HIDE DEF p
    <3> QED
      BY Zenon, <3>1, <3>2 DEF HookInv, SuccessIsEarned
  <2>4. ASSUME NEW p \in posting, NEW delivered \in BOOLEAN, Publish(p, delivered) PROVE HookInv'
    <3>1. posting' \subseteq posting /\ outcome' = outcome /\ workStatus' \in {p, workStatus}
      BY Zenon, <2>4 DEF Publish
    <3> QED
      BY Zenon, <3>1 DEF HookInv, SuccessIsEarned
  <2> QED
    BY Zenon, <2>1, <2>2, <2>3, <2>4 DEF HookNext
<1>3. HookInv => SuccessIsEarned
  BY Zenon DEF HookInv
<1> QED
  BY <1>1, <1>2, <1>3, PTL DEF HookSpec

=============================================================================
