------------------------------ MODULE MCLedgers ------------------------------
(***************************************************************************)
(* Small instances of the records that approvals hang on: the checkpoints  *)
(* of missions and the seal of dispatches.  They share no variable, so     *)
(* each is explored on its own, the seal in two ways: scene says which.    *)
(***************************************************************************)
EXTENDS MissionCheckpoint, DispatchSeal, TLC

VARIABLE scene

mcVars == <<vars, sealVars, scene>>

\* Which Work and worker the lease names matters to acceptance alone.
Pinned ==
    IF scene = "accepting" THEN TRUE
    ELSE leases = CHOOSE f \in [WorkerLease -> [work : WorkRef, worker : Worker, active : {TRUE}]] : TRUE

MCInit ==
    /\ scene \in {"checkpoint", "accepting", "moving"}
    /\ Init /\ SealInit
    /\ Pinned

CheckpointScene == scene = "checkpoint" /\ Next /\ UNCHANGED <<sealVars, scene>>

\* Callers that race to accept, correlate and bind.
Accepting ==
    /\ scene = "accepting"
    /\ \/ \E c \in Caller : AcceptStep(c)
       \/ \E e \in Epochs : AdvanceEpoch(e)
       \/ \E l \in WorkerLease : EndLease(l)

\* Callers that move one dispatch of either version, accepted first, while its lease and the epoch stand still.
Moving ==
    /\ scene = "moving"
    /\ \E c \in Caller :
         \/ /\ \A k \in DispatchKey : acc[k] = None
            /\ \E k \in DispatchKey, l \in WorkerLease, cause \in Cause, s \in Subject :
                 \/ Accept(c, k, cause, 0, s)
                 \/ AcceptV2(c, k, cause, leases[l].work, l, None)
         \/ AcceptIfAbsent(c)
         \/ \E k \in DispatchKey, cause \in Cause, w \in WorkRef, s \in Subject :
              BindVerificationSubject(c, k, w, cause, s)
         \/ TransitionStep(c)

SealScene == (Accepting \/ Moving) /\ UNCHANGED <<vars, scene>>

MCNext == CheckpointScene \/ SealScene

MCSpec == MCInit /\ [][MCNext]_mcVars

\* The seal tells its callers, contexts, subjects and causes apart by name only.
Symmetric == Permutations(Caller) \cup Permutations(Ctx) \cup Permutations(Subject) \cup Permutations(Cause)

=============================================================================
