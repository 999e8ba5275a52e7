------------------------------ MODULE MCEstate ------------------------------
(***************************************************************************)
(* Small instances of the workspaces, of the enrolment of workers and of   *)
(* the execution of a node on its host.  They share no variable, so each   *)
(* is explored on its own: scene says which.                               *)
(***************************************************************************)
EXTENDS Workspaces, RunnerEnrollment, NodeExecution, TLC

VARIABLE scene

mcVars == <<workspaceVars, enrollVars, nodeVars, scene>>

\* One key with two intents.
MCNames == {<<"k", "a">>, <<"k", "b">>}

\* One worker with the shared secret and one with a client certificate.
MCCredential == ("w1" :> "secret") @@ ("w2" :> "cert")

\* What a scene does not explore stays in one state.
PinnedTask == [sha |-> NoCommit, token |-> FALSE, image |-> FALSE]
Pinned ==
    /\ IF scene = "workspaces" THEN TRUE ELSE host = "github"
    /\ IF scene = "enrolment" THEN TRUE ELSE eMode = "disabled"
    /\ IF scene = "node" THEN TRUE
       ELSE task = [j \in Job |-> PinnedTask] /\ remote = [main |-> "k1", ref |-> "k1", kept |-> Commit]

MCInit ==
    /\ scene \in {"workspaces", "enrolment", "node"}
    /\ Pinned
    /\ WorkspacesInit /\ EnrollInit /\ NodeInit

WorkspaceScene(act) == scene = "workspaces" /\ act /\ UNCHANGED <<enrollVars, nodeVars, scene>>
EnrolmentScene(act) == scene = "enrolment" /\ act /\ UNCHANGED <<workspaceVars, nodeVars, scene>>
NodeScene(act) == scene = "node" /\ act /\ UNCHANGED <<workspaceVars, enrollVars, scene>>

MCNext ==
    \/ WorkspaceScene(WorkspacesNext) \/ EnrolmentScene(EnrollNext)
    \/ NodeScene(NodeNext)

\* A worker's loop goes on, and its ticker for heartbeats is served again and again although the other one
\* competes with it.  The execution of a node goes on.
MCFairness ==
    /\ \A w \in EWorker : WF_mcVars(EnrolmentScene(WorkerStep(w))) /\ SF_mcVars(EnrolmentScene(Beat(w)))
    /\ \A j \in Job : WF_mcVars(NodeScene(HostStep(j)))

MCSpec == MCInit /\ [][MCNext]_mcVars /\ MCFairness

=============================================================================
