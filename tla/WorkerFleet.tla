----------------------------- MODULE WorkerFleet -----------------------------
(***************************************************************************)
(* The workers (internal/worker/worker.go) running against the lease core. *)
(*                                                                         *)
(* A worker polls for ready nodes, then works through the items of that    *)
(* one answer: it claims a node, prepares and runs the command while a     *)
(* heartbeat goroutine renews the lease, reports the exit code and, if     *)
(* that fails, releases the lease.  Every request is an HTTP call that may *)
(* get lost on the way in, or be applied and have its answer lost.         *)
(***************************************************************************)
EXTENDS LeaseStore

CONSTANTS Worker,     \* the worker processes
          Needs,      \* the dependencies of each node
          NoLease,    \* a worker between two items
          Faults,     \* the kinds of fault that may happen, see FaultKind
          MaxFaults   \* bound: the faults that happen in all

FaultKind == {"lost_claim", "lost_beat", "lost_report", "crash_running", "crash_reporting",
              "sigterm", "docker", "handler"}

ASSUME NeedsAssumption == Needs \in [Node -> SUBSET Node]

ASSUME FaultsAssumption == Faults \subseteq FaultKind /\ MaxFaults \in Nat

ASSUME NoLeaseAssumption == NoLease \notin Lease

VARIABLES offers,  \* the items of the last poll a worker has not got to yet
          held,    \* the lease of the item a worker is executing
          pc,      \* where execute stands
          kill,    \* the workers whose killCh is closed
          exit,    \* the exit code a worker will report
          proc,    \* what became of the command run under a lease
          faults   \* the faults so far

workerVars == <<offers, held, pc, kill, exit, proc, faults>>

allVars == <<vars, workerVars>>

WorkerPC == {"idle", "prepare", "run", "report", "await", "release", "panicked"}

ProcStatus == {"none", "running", "ok", "failed", "killed"}

\* The exit code 0 of a completion that has no artifact to show for it.
NoArtifact == 2

FleetInit ==
    /\ Init
    /\ offers = [k \in Worker |-> {}]
    /\ held = [k \in Worker |-> NoLease]
    /\ pc = [k \in Worker |-> "idle"]
    /\ kill = {}
    /\ exit = [k \in Worker |-> 0]
    /\ proc = [l \in Lease |-> "none"]
    /\ faults = 0

Fault(kind) ==
    /\ kind \in Faults
    /\ faults < MaxFaults
    /\ faults' = faults + 1

-----------------------------------------------------------------------------
\* tick: GET /v1/workers/ready.
Poll(k) ==
    LET ready == {j \in Work \X Node :
                    j[2] \in ReadyNodes(state[j[1]], Needs, Succeeded(j[1]), InFlight(j[1]),
                                        Leased(j[1]))}
    IN  /\ pc[k] = "idle"
        /\ offers[k] = {}
        /\ ready # {}
        /\ offers' = [offers EXCEPT ![k] = ready]
        /\ UNCHANGED <<vars, held, pc, kill, exit, proc, faults>>

\* GrantLease refuses a claim of node j[2] of Work j[1].
ClaimRefused(j) ==
    \/ state[j[1]] \in TerminalState \cup Paused
    \/ Active(j[1], j[2]) # {}

\* execute: POST /v1/leases/grant for the next item.  An error of any kind skips
\* the item, also when the lease was granted and only the answer was lost.
Claim(k, j) ==
    /\ pc[k] = "idle"
    /\ j \in offers[k]
    /\ offers' = [offers EXCEPT ![k] = @ \ {j}]
    /\ UNCHANGED <<kill, exit>>
    /\ \/ \E i \in 1..MaxAttempts :
            LET l == <<j[1], j[2], i>>
            IN  /\ GrantLease(l)
                /\ \/ /\ held' = [held EXCEPT ![k] = l]
                      /\ pc' = [pc EXCEPT ![k] = "prepare"]
                      /\ UNCHANGED <<proc, faults>>
                   \/ Fault("lost_claim") /\ UNCHANGED <<held, pc, proc>>
       \/ /\ (ClaimRefused(j) /\ UNCHANGED faults) \/ Fault("lost_claim")
          /\ UNCHANGED <<vars, held, pc, proc>>

\* Faulty variant of Heartbeat: a refused heartbeat is tried again at the next tick.
HeartbeatIgnoresConflict(k) ==
    /\ pc[k] \in {"prepare", "run"}
    /\ k \notin kill
    /\ UNCHANGED <<offers, held, pc, exit, proc, kill, faults>>
    /\ RenewLease(held[k])

\* heartbeatLoop: POST /v1/leases/{id}/heartbeat.  Any error closes killCh and ends
\* the loop; the loop also ends with the command.
Heartbeat(k) ==
    /\ pc[k] \in {"prepare", "run"}
    /\ k \notin kill
    /\ UNCHANGED <<offers, held, pc, exit, proc>>
    /\ \/ RenewLease(held[k]) /\ UNCHANGED <<kill, faults>>
       \/ RenewLease(held[k]) /\ Fault("lost_beat") /\ kill' = kill \cup {k}
       \/ /\ (lease[held[k]] # "ACTIVE" /\ UNCHANGED faults) \/ Fault("lost_beat")
          /\ kill' = kill \cup {k}
          /\ UNCHANGED vars

\* Source checkout, cache lookup and sandbox preparation are over: the command
\* starts.  runCommand starts the goroutine that waits on killCh before cmd.Run;
\* when killCh is closed already, that goroutine calls cmd.Process.Kill on a
\* process that may not exist yet, and the worker panics.
Start(k) ==
    /\ pc[k] = "prepare"
    /\ \/ /\ pc' = [pc EXCEPT ![k] = "run"]
          /\ proc' = [proc EXCEPT ![held[k]] = "running"]
       \/ k \in kill /\ pc' = [pc EXCEPT ![k] = "panicked"] /\ UNCHANGED proc
    /\ UNCHANGED <<vars, offers, held, kill, exit, faults>>

\* The checkout, the secrets or the sandbox failed, or the cache had the result:
\* the command is not started at all.
Skip(k) ==
    /\ pc[k] = "prepare"
    /\ \/ /\ exit' = [exit EXCEPT ![k] = 1]
          /\ proc' = [proc EXCEPT ![held[k]] = "failed"]
       \/ /\ exit' = [exit EXCEPT ![k] = 0]
          /\ proc' = [proc EXCEPT ![held[k]] = "ok"]
    /\ pc' = [pc EXCEPT ![k] = "report"]
    /\ UNCHANGED <<vars, offers, held, kill, faults>>

\* The command ends by itself or at its deadline.  A success is still reported as
\* a failure when its log cannot be published, or when killCh was closed: leaseLost
\* is written by one goroutine and read by another without synchronisation.
Exit(k) ==
    /\ pc[k] = "run"
    /\ proc[held[k]] = "running"
    /\ \/ /\ proc' = [proc EXCEPT ![held[k]] = "ok"]
          /\ exit' \in {[exit EXCEPT ![k] = code] : code \in {0, 1}}
       \/ /\ proc' = [proc EXCEPT ![held[k]] = "failed"]
          /\ exit' = [exit EXCEPT ![k] = 1]
    /\ pc' = [pc EXCEPT ![k] = "report"]
    /\ UNCHANGED <<vars, offers, held, kill, faults>>

\* runDocker could not run the container: the status is "failed", the exit code 0.
DockerUnavailable(k) ==
    /\ pc[k] = "run"
    /\ proc[held[k]] = "running"
    /\ Fault("docker")
    /\ proc' = [proc EXCEPT ![held[k]] = "failed"]
    /\ exit' = [exit EXCEPT ![k] = NoArtifact]
    /\ pc' = [pc EXCEPT ![k] = "report"]
    /\ UNCHANGED <<vars, offers, held, kill>>

\* killCh is closed: the goroutine of runCommand kills the shell, and the shell alone.
Kill(k) ==
    /\ pc[k] = "run"
    /\ k \in kill
    /\ proc[held[k]] = "running"
    /\ proc' = [proc EXCEPT ![held[k]] = "killed"]
    /\ UNCHANGED <<vars, offers, held, pc, kill, exit, faults>>

\* Faulty variant of KilledReturns: the exit code of the result keeps its zero value.
KilledReportsZero(k) ==
    /\ pc[k] = "run"
    /\ proc[held[k]] = "killed"
    /\ exit' = [exit EXCEPT ![k] = 0]
    /\ pc' = [pc EXCEPT ![k] = "report"]
    /\ UNCHANGED <<vars, offers, held, kill, proc, faults>>

\* cmd.Run returns once every process the shell has started has let go of its output;
\* the result is exit code -1.
KilledReturns(k) ==
    /\ pc[k] = "run"
    /\ proc[held[k]] = "killed"
    /\ exit' = [exit EXCEPT ![k] = 1]
    /\ pc' = [pc EXCEPT ![k] = "report"]
    /\ UNCHANGED <<vars, offers, held, kill, proc, faults>>

\* POST /v1/leases/{id}/complete.  The handler refuses an exit code of 0 without an
\* artifact, and the store a lease that is not ACTIVE; otherwise the answer comes
\* when the handler is through.
Report(k) ==
    /\ pc[k] = "report"
    /\ UNCHANGED <<offers, held, kill, exit, proc>>
    /\ \/ /\ exit[k] # NoArtifact
          /\ CompleteLease(held[k], exit[k])
          /\ \/ pc' = [pc EXCEPT ![k] = "await"] /\ UNCHANGED faults
             \/ pc' = [pc EXCEPT ![k] = "release"] /\ Fault("lost_report")
       \/ /\ \/ (exit[k] = NoArtifact \/ lease[held[k]] # "ACTIVE") /\ UNCHANGED faults
             \/ Fault("lost_report")
          /\ pc' = [pc EXCEPT ![k] = "release"]
          /\ UNCHANGED vars

\* The worker turns to its next item.
NextItem(k) ==
    /\ pc' = [pc EXCEPT ![k] = "idle"]
    /\ held' = [held EXCEPT ![k] = NoLease]
    /\ kill' = kill \ {k}
    /\ exit' = [exit EXCEPT ![k] = 0]

Reported(k) ==
    /\ pc[k] = "await"
    /\ fin[held[k]] = "idle"
    /\ NextItem(k)
    /\ UNCHANGED <<vars, offers, proc, faults>>

\* The fallback release after a failed report; its result is ignored.
Release(k) ==
    /\ pc[k] = "release"
    /\ NextItem(k)
    /\ UNCHANGED <<offers, proc>>
    /\ \/ ReleaseLease(held[k]) /\ UNCHANGED faults
       \/ /\ (lease[held[k]] # "ACTIVE" /\ UNCHANGED faults) \/ Fault("lost_report")
          /\ UNCHANGED vars

\* The worker process dies, with the command it runs, and is started again.
Crash(k) ==
    /\ \/ pc[k] \in {"prepare", "run"} /\ Fault("crash_running")
       \/ pc[k] \in {"report", "release"} /\ Fault("crash_reporting")
       \/ pc[k] = "panicked" /\ UNCHANGED faults
    /\ NextItem(k)
    /\ offers' = [offers EXCEPT ![k] = {}]
    /\ proc' = IF pc[k] = "run" THEN [proc EXCEPT ![held[k]] = "killed"] ELSE proc
    /\ UNCHANGED vars

\* SIGTERM cancels the context of Run: the command is killed, and the completion and
\* the release that execute goes on to send fail with the same context.
Terminate(k) ==
    /\ pc[k] \in {"prepare", "run"}
    /\ Fault("sigterm")
    /\ NextItem(k)
    /\ offers' = [offers EXCEPT ![k] = {}]
    /\ proc' = IF pc[k] = "run" THEN [proc EXCEPT ![held[k]] = "killed"] ELSE proc
    /\ UNCHANGED vars

\* The worker goes away while the completion handler runs: the request's context
\* is cancelled and the handler stops where it is.
CrashAwaiting(k) ==
    /\ pc[k] = "await"
    /\ Fault("crash_reporting")
    /\ NextItem(k)
    /\ offers' = [offers EXCEPT ![k] = {}]
    /\ UNCHANGED proc
    /\ AbandonCompletion(held[k])

-----------------------------------------------------------------------------
WorkerStep(k) ==
    \/ Poll(k) \/ \E j \in offers[k] : Claim(k, j)
    \/ Heartbeat(k) \/ Start(k) \/ Skip(k)
    \/ Exit(k) \/ DockerUnavailable(k) \/ Kill(k) \/ KilledReturns(k)
    \/ Report(k) \/ Reported(k) \/ Release(k)

WorkerFault(k) == Crash(k) \/ Terminate(k) \/ CrashAwaiting(k)

ControlPlane ==
    /\ \/ \E l \in Lease : Handler(l)
       \/ \E w \in Work : WorkRequest(w)
       \/ Reaper
    /\ UNCHANGED workerVars

Expiry(l) == LeaseExpires(l) /\ UNCHANGED workerVars

HandlerFault ==
    /\ Fault("handler")
    /\ Failure
    /\ UNCHANGED <<offers, held, pc, kill, exit, proc>>

FleetNext ==
    \/ \E k \in Worker : WorkerStep(k) \/ WorkerFault(k)
    \/ \E l \in Lease : Expiry(l)
    \/ ControlPlane
    \/ HandlerFault

FleetSpec == FleetInit /\ [][FleetNext]_allVars

-----------------------------------------------------------------------------
\* A worker holds a lease of the store or none, and reports an exit code the handler
\* of the completion knows (execute).
FleetTypeOK ==
    /\ TypeOK
    /\ offers \in [Worker -> SUBSET (Work \X Node)]
    /\ held \in [Worker -> Lease \cup {NoLease}]
    /\ pc \in [Worker -> WorkerPC]
    /\ kill \in SUBSET Worker
    /\ exit \in [Worker -> {0, 1, NoArtifact}]
    /\ proc \in [Lease -> ProcStatus]
    /\ faults \in 0..MaxFaults

\* A node the control plane records as succeeded did succeed, under the very lease
\* it is recorded for: no kill, crash, lost answer or late report of another
\* attempt turns into a success (execute, CompleteLease).
SuccessIsReal == \A l \in Lease : attempt[l] = "succeeded" => proc[l] = "ok"

\* A node is only ever leased after all it needs has succeeded, although workers
\* claim from offers that are many steps old and GrantLease does not look at the
\* graph (tick, ReadyNodes).
NeedsFirst ==
    \A l \in Lease : lease[l] # "NONE" => Needs[NodeOf(l)] \subseteq Succeeded(WorkOf(l))

=============================================================================
