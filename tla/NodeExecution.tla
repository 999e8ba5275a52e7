---------------------------- MODULE NodeExecution ----------------------------
(***************************************************************************)
(* One leased node on a worker's host: source.Checkout brings the exact    *)
(* commit, runCommand runs the shell in a sandbox directory, or runDocker  *)
(* drives a container through the docker CLI, and everything is taken away *)
(* again.  The worker's own context may end at any moment; a lost lease or *)
(* the timeout end the run of the command only, and nothing of the         *)
(* checkout: killCh and the deadline are looked at by runCommand and       *)
(* runDocker.  A git or docker command whose context ended fails; one that *)
(* has started a process with its output open returns after that process.  *)
(* The repository's host and the docker daemon are external.               *)
(***************************************************************************)
EXTENDS Naturals, FiniteSets

CONSTANTS
    Job,          \* leased nodes executed on this host
    Commit,       \* commits of the repository
    MaxBlips,     \* bound: commands and file operations that fail
    MaxPushes,    \* bound: changes of the remote repository
    NoCommit

VARIABLES
    task,         \* per job: the commit it names or NoCommit, whether there is a token, whether an image
    step,         \* per job: where its execution is
    ctx,          \* per job: "live"; "lost": killCh closed or deadline passed; "dead": the worker's context ended
    objects, head,          \* per job: commits in its clone, and what is checked out
    dirs, helpers, spaces,  \* on disk: checkouts, credential helpers, sandbox directories
    procs,        \* per job: its shell, and a descendant that kept the shell's output open
    kin,          \* the jobs whose git command has started a process that holds its output
    box,          \* per job: its container
    remote,       \* the repository: default branch, the ref the job names, and the commits it still serves
    ranAt,        \* ghost: per job the commit its command ran at
    hit, blips, pushes      \* ghost: jobs something failed for; bounds

places == <<objects, head, dirs, helpers, spaces>>
nodeVars == <<task, step, ctx, places, procs, kin, box, remote, ranAt, hit, blips, pushes>>

Checking == {"clone", "clone_open", "fetch", "fetch_sha", "checkout"}
Over == {"idle", "done", "no_source", "crashed"}

NodeInit ==
    /\ task \in [Job -> [sha : Commit \cup {NoCommit}, token : BOOLEAN, image : BOOLEAN]]
    /\ step = [j \in Job |-> "idle"] /\ ctx = [j \in Job |-> "live"]
    /\ objects = [j \in Job |-> {}] /\ head = [j \in Job |-> NoCommit]
    /\ dirs = {} /\ helpers = {} /\ spaces = {}
    /\ procs = [j \in Job |-> {}] /\ kin = {} /\ box = [j \in Job |-> "none"]
    /\ remote \in [main : Commit, ref : Commit, kept : {Commit}]
    /\ ranAt = [j \in Job |-> NoCommit] /\ hit = {} /\ blips = 0 /\ pushes = 0

To(j, s) == step' = [step EXCEPT ![j] = s]

\* A command ends well; or it fails, for a reason of its own or because its context ended.
Works(j) == ctx[j] = "live" /\ UNCHANGED <<hit, blips>>
Fails(j) ==
    \/ ctx[j] # "live" /\ UNCHANGED <<hit, blips>>
    \/ blips < MaxBlips /\ blips' = blips + 1 /\ hit' = hit \cup {j}

Command(j) == IF task[j].image THEN "pull" ELSE "prepare"

\* With a token the directory and the helper script come before the clone.
BeginNode(j) ==
    /\ step[j] = "idle"
    /\ To(j, IF task[j].sha = NoCommit THEN Command(j) ELSE "clone")
    /\ LET mine == IF task[j].sha # NoCommit /\ task[j].token THEN {j} ELSE {}
       IN  dirs' = dirs \cup mine /\ helpers' = helpers \cup mine
    /\ UNCHANGED <<task, ctx, objects, head, spaces, procs, kin, box, remote, ranAt, hit, blips, pushes>>

\* The transport of a clone or fetch, and whatever else git starts: killing git does not end it.
GitChild(j) ==
    /\ step[j] \in Checking
    /\ \/ ctx[j] = "live" /\ j \notin kin /\ kin' = kin \cup {j}
       \/ j \in kin /\ kin' = kin \ {j}
    /\ UNCHANGED <<task, step, ctx, places, procs, box, remote, ranAt, hit, blips, pushes>>

\* CombinedOutput returns when git has ended and everybody who held its output has let go of it.
GitReturns(j) == j \notin kin

\* Every error return of Checkout takes the directory away; the deferred Remove takes the helper.
CheckoutFails(j) ==
    /\ To(j, "no_source")
    /\ dirs' = dirs \ {j} /\ helpers' = helpers \ {j}

\* The shallow clone holds the tip of the default branch.  With a token a failed clone is tried again without it.
Clone(j) ==
    /\ step[j] \in {"clone", "clone_open"} /\ GitReturns(j)
    /\ \/ /\ Works(j) /\ To(j, "fetch")
          /\ objects' = [objects EXCEPT ![j] = {remote.main}]
          /\ head' = [head EXCEPT ![j] = remote.main]
          /\ dirs' = dirs \cup {j} /\ UNCHANGED helpers
       \/ /\ Fails(j)
          /\ IF step[j] = "clone" /\ task[j].token THEN To(j, "clone_open") /\ UNCHANGED <<dirs, helpers>> ELSE CheckoutFails(j)
          /\ UNCHANGED <<objects, head>>
    /\ UNCHANGED <<task, ctx, spaces, procs, kin, box, remote, ranAt, pushes>>

\* fetchExactSource: the ref is a hint; when it did not bring the commit, the commit itself is asked for.
AfterRef(j, got) == IF task[j].sha \in got THEN "checkout" ELSE "fetch_sha"

FetchRef(j) ==
    /\ step[j] = "fetch" /\ GitReturns(j)
    /\ \/ /\ task[j].sha \in objects[j] /\ To(j, "checkout")
          /\ UNCHANGED <<objects, hit, blips>>
       \/ /\ task[j].sha \notin objects[j] /\ remote.ref # NoCommit /\ Works(j)
          /\ objects' = [objects EXCEPT ![j] = @ \cup {remote.ref}]
          /\ To(j, AfterRef(j, objects'[j]))
       \/ /\ task[j].sha \notin objects[j]
          /\ IF remote.ref = NoCommit THEN UNCHANGED <<hit, blips>> ELSE Fails(j)
          /\ To(j, AfterRef(j, objects[j])) /\ UNCHANGED objects
    /\ UNCHANGED <<task, ctx, head, dirs, helpers, spaces, procs, kin, box, remote, ranAt, pushes>>

\* What the second fetch names.
Asked(j) == task[j].sha

FetchSHA(j) ==
    /\ step[j] = "fetch_sha" /\ GitReturns(j)
    /\ \/ /\ Asked(j) \in remote.kept /\ Works(j)
          /\ objects' = [objects EXCEPT ![j] = @ \cup {Asked(j)}]
          /\ IF task[j].sha \in objects'[j]
             THEN To(j, "checkout") /\ UNCHANGED <<dirs, helpers>>
             ELSE CheckoutFails(j)
          /\ UNCHANGED head
       \/ /\ IF Asked(j) \in remote.kept THEN Fails(j) ELSE UNCHANGED <<hit, blips>>
          /\ CheckoutFails(j) /\ UNCHANGED <<objects, head>>
    /\ UNCHANGED <<task, ctx, spaces, procs, kin, box, remote, ranAt, pushes>>

\* The detached checkout of the commit, and the comparison of HEAD with it.
CheckedOut(j) == task[j].sha

CheckoutSHA(j) ==
    /\ step[j] = "checkout" /\ GitReturns(j)
    /\ \/ /\ Works(j) /\ To(j, Command(j))
          /\ head' = [head EXCEPT ![j] = CheckedOut(j)]
          /\ helpers' = helpers \ {j} /\ UNCHANGED <<objects, dirs>>
       \/ Fails(j) /\ CheckoutFails(j) /\ UNCHANGED <<objects, head>>
    /\ UNCHANGED <<task, ctx, spaces, procs, kin, box, remote, ranAt, pushes>>

-----------------------------------------------------------------------------
(* A command on the host *)

\* workerSandboxManifest: a node with a source runs in its checkout, one without gets a fresh directory.
NeedsDirectory(j) == task[j].sha = NoCommit

CreatedWorkspace(j) == IF NeedsDirectory(j) THEN spaces \cup {j} ELSE spaces

\* sandbox.Prepare: the fresh directory stays behind when the shared scratch directory cannot be made afterwards.
PrepareSandbox(j) ==
    /\ step[j] = "prepare"
    /\ \/ To(j, "run") /\ UNCHANGED <<hit, blips>>
       \/ /\ blips < MaxBlips /\ blips' = blips + 1 /\ hit' = hit \cup {j}
          /\ To(j, "report")
    /\ spaces' = CreatedWorkspace(j)
    /\ UNCHANGED <<task, ctx, objects, head, dirs, helpers, procs, kin, box, remote, ranAt, pushes>>

\* cmd.Run does not start a process when the deadline has passed or the worker stops; it does when only killCh is closed.
StartShell(j) ==
    /\ step[j] = "run"
    /\ \/ /\ ctx[j] # "dead"
          /\ procs' = [procs EXCEPT ![j] = {"shell"}]
          /\ ranAt' = [ranAt EXCEPT ![j] = head[j]]
          /\ To(j, "running")
       \/ ctx[j] # "live" /\ To(j, "clean") /\ UNCHANGED <<procs, ranAt>>
    /\ UNCHANGED <<task, ctx, places, kin, box, remote, hit, blips, pushes>>

\* The shell starts a process that holds its output; the shell ends, or is killed with the context; the other ends.
ProcessStep(j) ==
    /\ \/ "shell" \in procs[j] /\ procs' = [procs EXCEPT ![j] = @ \cup {"child"}]
       \/ \E q \in procs[j] : procs' = [procs EXCEPT ![j] = @ \ {q}]
    /\ procs' # procs
    /\ UNCHANGED <<task, step, ctx, places, kin, box, remote, ranAt, hit, blips, pushes>>

KillShell(j) ==
    /\ ctx[j] # "live" /\ "shell" \in procs[j]
    /\ procs' = [procs EXCEPT ![j] = @ \ {"shell"}]
    /\ UNCHANGED <<task, step, ctx, places, kin, box, remote, ranAt, hit, blips, pushes>>

\* Wait returns when the shell has ended and everybody who held its output has let go of it.
Drained(j) == procs[j] = {}

CommandReturns(j) ==
    /\ step[j] = "running" /\ Drained(j) /\ To(j, "clean")
    /\ UNCHANGED <<task, ctx, places, procs, kin, box, remote, ranAt, hit, blips, pushes>>

\* prepared.Cleanup removes the working directory, which may be the checkout.
CleanSandbox(j) ==
    /\ step[j] = "clean" /\ To(j, "report")
    /\ IF NeedsDirectory(j)
       THEN spaces' = spaces \ {j} /\ UNCHANGED dirs
       ELSE dirs' = dirs \ {j} /\ UNCHANGED spaces
    /\ UNCHANGED <<task, ctx, objects, head, helpers, procs, kin, box, remote, ranAt, hit, blips, pushes>>

-----------------------------------------------------------------------------
(* A command in a container *)

\* docker info, pull and inspect.
Pull(j) ==
    /\ step[j] = "pull"
    /\ \/ Works(j) /\ To(j, "create")
       \/ Fails(j) /\ To(j, "report")
    /\ UNCHANGED <<task, ctx, places, procs, kin, box, remote, ranAt, pushes>>

\* A create that is killed may have made the container, whose id is not known then.
CreateContainer(j) ==
    /\ step[j] = "create"
    /\ \/ Works(j) /\ To(j, "start") /\ box' = [box EXCEPT ![j] = "created"]
       \/ Fails(j) /\ To(j, "report") /\ \E b \in {"none", "created"} : box' = [box EXCEPT ![j] = b]
    /\ UNCHANGED <<task, ctx, places, procs, kin, remote, ranAt, pushes>>

StartContainer(j) ==
    /\ step[j] = "start"
    /\ \/ Works(j) /\ To(j, "wait") /\ box' = [box EXCEPT ![j] = "running"]
       \/ Fails(j) /\ To(j, "remove") /\ \E b \in {"created", "running"} : box' = [box EXCEPT ![j] = b]
    /\ UNCHANGED <<task, ctx, places, procs, kin, remote, ranAt, pushes>>

\* The command in the container ends by itself; nothing here makes it.
ContainerExits(j) ==
    /\ box[j] = "running" /\ box' = [box EXCEPT ![j] = "exited"]
    /\ UNCHANGED <<task, step, ctx, places, procs, kin, remote, ranAt, hit, blips, pushes>>

\* Faulty variant of WaitContainer: only the end of the container ends the wait.
WaitContainerExit(j) ==
    /\ step[j] = "wait" /\ To(j, "remove") /\ box[j] = "exited"
    /\ UNCHANGED <<task, ctx, places, procs, kin, box, remote, ranAt, hit, blips, pushes>>

\* docker wait, then logs and inspect, whose errors are ignored.
WaitContainer(j) ==
    /\ step[j] = "wait" /\ To(j, "remove")
    /\ \/ box[j] = "exited" /\ Works(j)
       \/ Fails(j)
    /\ UNCHANGED <<task, ctx, places, procs, kin, box, remote, ranAt, pushes>>

\* docker rm -f under the context of the run: errors are ignored.
RemoveContainer(j) ==
    /\ step[j] = "remove" /\ To(j, "report")
    /\ \/ Works(j) /\ box' = [box EXCEPT ![j] = "none"]
       \/ Fails(j) /\ UNCHANGED box
    /\ UNCHANGED <<task, ctx, places, procs, kin, remote, ranAt, pushes>>

-----------------------------------------------------------------------------

\* Faulty variant of CleanUp: the checkout is left to the sandbox, which knows nothing of containers.
CleanUpNothing(j) == dirs

\* Source.Cleanup, deferred until the result is reported.
CleanUp(j) == dirs \ {j}

FinishNode(j) ==
    /\ step[j] = "report" /\ To(j, "done")
    /\ dirs' = CleanUp(j)
    /\ UNCHANGED <<task, ctx, objects, head, helpers, spaces, procs, kin, box, remote, ranAt, hit, blips, pushes>>

\* The lease is lost or the timeout passes, as far as the code notices: while the command is prepared or runs.  A lease
\* lost during the checkout is noticed after it.
LoseRun(j) ==
    /\ step[j] \notin Over \cup Checking \cup {"report"} /\ ctx[j] = "live"
    /\ ctx' = [ctx EXCEPT ![j] = "lost"]
    /\ UNCHANGED <<task, step, places, procs, kin, box, remote, ranAt, hit, blips, pushes>>

\* The worker stops: the context of Run ends, and with it every context made of it.
Cancel(j) ==
    /\ step[j] \notin Over /\ ctx[j] # "dead"
    /\ ctx' = [ctx EXCEPT ![j] = "dead"]
    /\ UNCHANGED <<task, step, places, procs, kin, box, remote, ranAt, hit, blips, pushes>>

\* The worker's process is killed; nothing looks for what it left when it starts again.
WorkerDies ==
    /\ blips < MaxBlips /\ blips' = blips + 1
    /\ \E j \in Job : step[j] \notin Over
    /\ step' = [j \in Job |-> IF step[j] \in Over THEN step[j] ELSE "crashed"]
    /\ UNCHANGED <<task, ctx, places, procs, kin, box, remote, ranAt, hit, pushes>>

\* A push moves the default branch or the ref, the ref is deleted, or a commit nobody names is forgotten.
Push ==
    /\ pushes < MaxPushes /\ pushes' = pushes + 1
    /\ \/ \E k \in remote.kept : remote' = [remote EXCEPT !.main = k]
       \/ \E k \in remote.kept \cup {NoCommit} : remote' = [remote EXCEPT !.ref = k]
       \/ \E k \in remote.kept \ {remote.main, remote.ref} : remote' = [remote EXCEPT !.kept = @ \ {k}]
    /\ remote' # remote
    /\ UNCHANGED <<task, step, ctx, places, procs, kin, box, ranAt, hit, blips>>

HostStep(j) ==
    \/ BeginNode(j) \/ Clone(j) \/ FetchRef(j) \/ FetchSHA(j) \/ CheckoutSHA(j)
    \/ PrepareSandbox(j) \/ StartShell(j) \/ KillShell(j) \/ CommandReturns(j) \/ CleanSandbox(j)
    \/ Pull(j) \/ CreateContainer(j) \/ StartContainer(j) \/ WaitContainer(j) \/ RemoveContainer(j)
    \/ FinishNode(j)

NodeNext ==
    \/ \E j \in Job : HostStep(j) \/ GitChild(j) \/ ProcessStep(j) \/ ContainerExits(j) \/ LoseRun(j) \/ Cancel(j)
    \/ WorkerDies \/ Push

NodeSpec == NodeInit /\ [][NodeNext]_nodeVars

-----------------------------------------------------------------------------
(* Properties *)

\* Whatever was pushed between the lease and the checkout, a command that names a commit runs at that commit.
RanWhatWasLeased == \A j \in Job : procs[j] # {} => ranAt[j] = task[j].sha

\* A checkout fails only if a command failed, the context ended, or the repository no longer has the commit: a ref that
\* vanished or moved is no reason.
KeptIsFound == \A j \in Job :
    step[j] = "no_source" /\ j \notin hit /\ ctx[j] = "live" => task[j].sha \notin remote.kept

\* However the execution ended, the checkout and the credential helper are gone; the helper is gone before the command
\* runs; a sandbox directory is left only by a failure; a container only by a failure or a context that ended.
HostIsClean == \A j \in Job :
    /\ step[j] \in {"done", "no_source"} =>
        /\ j \notin dirs
        /\ j \in spaces => j \in hit
        /\ box[j] # "none" => j \in hit \/ ctx[j] # "live"
    /\ j \in helpers => step[j] \in Checking \cup {"crashed"}

\* No process of the command that still holds its output loses its directory to the cleanup.
RunsInItsDirectory == \A j \in Job : procs[j] # {} => j \in dirs \cup spaces

\* When the worker stops, or the lease of a running command is lost, or its time is over, the execution ends, unless a
\* process that survived the shell or git holds the output that is waited for: no other wait (for the command, for its
\* container, for a fetch) outlasts the context it is under.
CancelledEnds == \A j \in Job : ctx[j] # "live" ~> step[j] \in Over \/ "child" \in procs[j] \/ j \in kin

(* Not so (the README discusses it):
   ContainerIsGone      Run removes its container before it returns
   CrashLeavesNothing   directories and containers of a killed worker are taken away some day
   KilledEnds           the end of the context ends the execution, whatever the command or git started
   LostLeaseEnds        a lease lost during the checkout ends the checkout                                 *)
=============================================================================
