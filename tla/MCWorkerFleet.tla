---------------------------- MODULE MCWorkerFleet ----------------------------
(***************************************************************************)
(* Small instances of WorkerFleet: one Work of one node, or of two nodes   *)
(* with or without an edge between them.                                   *)
(***************************************************************************)
EXTENDS WorkerFleet

CONSTANTS n1, n2

NoNeeds == [n \in Node |-> {}]

Chain == [n \in Node |-> IF n = n2 THEN {n1} ELSE {}]

-----------------------------------------------------------------------------
(* The fairness of the code's scheduling. *)

\* The heartbeat goroutine ticks and the kill goroutine is scheduled.  Nothing is
\* assumed about the command or the processes it starts: they may run for ever.
HeartbeatSpec ==
    FleetSpec /\ \A k \in Worker : WF_allVars(Heartbeat(k)) /\ WF_allVars(Kill(k))

\* A worker that is up renews its lease every 10 of 25 seconds and reports within
\* the time left: only a lease nobody holds runs out.
OrphanExpiry(l) == (\A k \in Worker : held[k] # l) /\ Expiry(l)

LiveNext ==
    \/ \E k \in Worker : WorkerStep(k) \/ WorkerFault(k)
    \/ \E l \in Lease : OrphanExpiry(l)
    \/ ControlPlane
    \/ HandlerFault

\* Workers go through their loop, a panicked worker is restarted, handlers and the
\* reaper run on, time passes.  Commands end: the deadline of runCommand sees to the
\* shell, and what the shell leaves behind is assumed to let go of its output, for
\* which cmd.Run waits without a limit.
LiveSpec ==
    /\ FleetInit /\ [][LiveNext]_allVars
    /\ \A k \in Worker : WF_allVars(WorkerStep(k)) /\ WF_allVars(pc[k] = "panicked" /\ Crash(k))
    /\ \A l \in Lease : /\ WF_allVars(Handler(l) /\ UNCHANGED workerVars)
                         /\ WF_allVars(ReapLease(l) /\ UNCHANGED workerVars)
                         /\ WF_allVars(OrphanExpiry(l))
    /\ WF_allVars(ListExpiredLeases /\ UNCHANGED workerVars)

-----------------------------------------------------------------------------
(* What must happen, and what comments of the code say. *)

\* The kill guarantee of the worker: the shell that runs a command whose lease is no
\* longer ACTIVE is killed or over, however long it would run (heartbeatLoop,
\* runCommand).  It ends there: the processes the shell has started are not killed,
\* and execute waits for as long as one of them holds the shell's output.
LostLeaseKillsShell ==
    \A k \in Worker :
        (pc[k] = "run" /\ lease[held[k]] # "ACTIVE")
            ~> (pc[k] # "run" \/ proc[held[k]] = "killed")

\* A queued Work comes to an end, although workers die while they run its nodes,
\* grants are lost and heartbeats fail.
QueuedWorkEnds == \A w \in Work : state[w] = "QUEUED" ~> state[w] \in TerminalState

-----------------------------------------------------------------------------
\* CompleteLease's comment: "if all nodes in the work have a successful attempt and
\* the work is RUNNING, it transitions to VERIFYING then SUCCEEDED".
CompleteWorkIsFinalized ==
    \A w \in Work :
        (state[w] = "RUNNING" /\ Succeeded(w) = Node) ~> state[w] # "RUNNING"

\* runCommand's comment: "When killCh fires, the subprocess is killed and
\* LeaseLost=true is set".
KillNeverPanics == \A k \in Worker : pc[k] # "panicked"

=============================================================================
