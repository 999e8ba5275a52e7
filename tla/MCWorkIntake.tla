---------------------------- MODULE MCWorkIntake ----------------------------
(***************************************************************************)
(* Small instances of WorkIntake, Scheduler and Placement.  The creation   *)
(* requests, the webhook requests, the selection of a runner and the       *)
(* placement of a node share no variable that matters to the others, so    *)
(* each is explored on its own: scene says which.                          *)
(***************************************************************************)
EXTENDS WorkIntake, Placement, TLC

VARIABLE scene

mcVars == <<intakeVars, schedulerVars, placementVars, scene>>

\* A deployment with a generous limit, and one with another default and a strict one.
Deployments == {[default |-> 2, max |-> 2], [default |-> 1, max |-> 1]}

\* Requests of one kind do not differ.
RequestSymmetry == Permutations(Client) \cup Permutations(Receiver)

-----------------------------------------------------------------------------
(* Selection: three runners, some within rounding of each other, and a work with and without a cache. *)

BaseRunner ==
    [id |-> 1, life |-> "active", os |-> {"linux"}, cpu |-> 2, trust |-> "standard", tenant |-> "", labels |-> {},
     pools |-> {}, netTools |-> FALSE] @@ Unsignalled

MCRunnersOf(i) ==
    LET b == [BaseRunner EXCEPT !.id = i]
    IN  UNION {{[b EXCEPT !.noise = n], [b EXCEPT !.noise = n, !.labels = {"network:low_latency"}],
                [b EXCEPT !.noise = n, !.queue = 8, !.hits = 5], [b EXCEPT !.noise = n, !.success = 500]} : n \in -1..1}
        \cup {[b EXCEPT !.life = "draining"]}

MCSRunner == UNION {MCRunnersOf(i) : i \in 1..3}

MCWork0 ==
    [os |-> "linux", cpu |-> 1, egress |-> FALSE, trust |-> "", tenant |-> "", pool |-> "", prod |-> FALSE,
     cache |-> TRUE, region |-> "", maxCost |-> 0]

MCSWork == {MCWork0, [MCWork0 EXCEPT !.cache = FALSE]}

-----------------------------------------------------------------------------
(* Placement: one runner that fits, a draining one, one that does not fit; a pooled and a production work. *)

MCIdentity0 ==
    [life |-> "active", trust |-> "standard", pools |-> {"p"}, os |-> {"linux"}, cpu |-> 2, tenant |-> "", age |-> 0]

MCIdentities ==
    {MCIdentity0, [MCIdentity0 EXCEPT !.life = "draining"],
     [MCIdentity0 EXCEPT !.os = {"macos"}, !.trust = "untrusted", !.tenant = "t"]}

MCWorkView ==
    ("pooled" :> [MCWork0 EXCEPT !.pool = "p"]) @@ ("open" :> [MCWork0 EXCEPT !.prod = TRUE, !.trust = "standard"])

-----------------------------------------------------------------------------

\* What a scene does not explore stays in one state.
Pinned ==
    /\ IF scene = "select" THEN TRUE ELSE sWork = MCWork0
    /\ IF scene = "placement" THEN TRUE ELSE registry = "nil" /\ identity = NoRegistry /\ ~controlKey
    /\ IF scene \in {"clients", "receivers"} THEN TRUE
       ELSE policy = (CHOOSE d \in Deployment : TRUE) /\ \A w \in WorkId : rows[w] = NoWork

MCInit ==
    /\ scene \in {"clients", "receivers", "select", "placement"}
    /\ IntakeInit /\ SchedulerInit /\ PlacementInit
    /\ Pinned

ClientScene ==
    /\ scene = "clients"
    /\ \/ \E c \in Client : ClientStep(c)
       \/ \E w \in WorkId, to \in {"QUEUED", "CANCELLED"} : AdvanceRow(w, to)
       \/ \E d \in Deployment : Deploy(d)
    /\ UNCHANGED <<schedulerVars, placementVars, scene>>

ReceiverScene ==
    /\ scene = "receivers"
    /\ \/ \E h \in Receiver : ReceiverStep(h)
       \/ \E d \in Deployment : Deploy(d)
    /\ UNCHANGED <<schedulerVars, placementVars, scene>>

SelectScene ==
    /\ scene = "select"
    /\ SchedulerNext
    /\ UNCHANGED <<intakeVars, placementVars, scene>>

PlacementScene ==
    /\ scene = "placement"
    /\ PlacementNext
    /\ UNCHANGED <<intakeVars, schedulerVars, scene>>

MCNext == ClientScene \/ ReceiverScene \/ SelectScene \/ PlacementScene

MCSpec == MCInit /\ [][MCNext]_mcVars

=============================================================================
