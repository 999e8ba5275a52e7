------------------------------ MODULE WorkGraph ------------------------------
(***************************************************************************)
(* The domain rules of packages/workgraph: the states of a Work, the       *)
(* transition table, the lease state machine and the ready-node function.  *)
(* Nothing here has state; the store, the API and the worker apply it.     *)
(***************************************************************************)

\* The states of a Work.
State == {"CREATED", "PLANNING", "QUEUED", "RUNNING", "VERIFYING",
          "WAITING_HUMAN", "SUSPENDED", "BUDGET_EXHAUSTED",
          "SUCCEEDED", "FAILED", "CANCELLED", "BLOCKED"}

\* The states a Work never leaves.
TerminalState == {"SUCCEEDED", "FAILED", "CANCELLED"}

\* The states only a mission Work may enter; all three of them are pauses.
MissionOnlyState == {"WAITING_HUMAN", "SUSPENDED", "BUDGET_EXHAUSTED"}

\* validTransitions: a state with no row has no successor but CANCELLED.
ValidTransitions ==
    UNION {{"CREATED"} \X {"PLANNING", "QUEUED", "CANCELLED", "FAILED", "BLOCKED"},
           {"PLANNING"} \X {"QUEUED", "FAILED", "BLOCKED", "CANCELLED"},
           {"QUEUED"} \X {"RUNNING", "CANCELLED", "FAILED", "BLOCKED"},
           {"RUNNING"} \X {"VERIFYING", "FAILED", "CANCELLED", "WAITING_HUMAN",
                           "SUSPENDED", "BUDGET_EXHAUSTED"},
           {"VERIFYING"} \X {"SUCCEEDED", "FAILED", "CANCELLED", "WAITING_HUMAN",
                             "SUSPENDED"},
           {"WAITING_HUMAN"} \X {"RUNNING", "FAILED", "BLOCKED", "CANCELLED"},
           {"SUSPENDED"} \X {"RUNNING", "WAITING_HUMAN", "FAILED", "BLOCKED", "CANCELLED"},
           {"BUDGET_EXHAUSTED"} \X {"SUSPENDED", "FAILED", "CANCELLED"}}

CanTransition(from, to) ==
    /\ from \notin TerminalState
    /\ to = "CANCELLED" \/ <<from, to>> \in ValidTransitions

\* Work.ValidateTransition: the table, and the mission-only states need a mission.
ValidateTransition(from, to, isMission) ==
    /\ CanTransition(from, to)
    /\ to \in MissionOnlyState => isMission

-----------------------------------------------------------------------------
\* The statuses of a lease row; EXPIRED is declared by the code and never written.
LeaseStatus == {"ACTIVE", "EXPIRED", "REVOKED", "RELEASED"}

TerminalLease == {"EXPIRED", "REVOKED", "RELEASED"}

ValidateLeaseTransition(from, to) ==
    /\ from # to
    /\ from \notin TerminalLease
    /\ to \in TerminalLease

\* The statuses of an attempt row.
AttemptStatus == {"running", "succeeded", "failed", "cancelled"}

-----------------------------------------------------------------------------
\* Faulty variant of ReadyNodes: a dependency in flight counts as met.
ReadyNodesEager(st, needs, succeeded, inFlight, activeLeases) ==
    {n \in DOMAIN needs :
        /\ st \in {"QUEUED", "RUNNING"}
        /\ n \notin succeeded \cup inFlight \cup activeLeases
        /\ needs[n] \subseteq succeeded \cup inFlight}

\* The ready nodes of a Work in state st with dependency function needs, given
\* the nodes that have succeeded, the nodes with a running attempt and the nodes
\* with an ACTIVE lease.
ReadyNodes(st, needs, succeeded, inFlight, activeLeases) ==
    {n \in DOMAIN needs :
        /\ st \in {"QUEUED", "RUNNING"}
        /\ n \notin succeeded \cup inFlight \cup activeLeases
        /\ needs[n] \subseteq succeeded}

=============================================================================
