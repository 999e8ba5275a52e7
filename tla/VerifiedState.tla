---------------------------- MODULE VerifiedState ----------------------------
(***************************************************************************)
(* The verification lifecycle of the subjects a mission rests on, and what *)
(* a changed world does to it (packages/verifiedstate).  Reconcile is a    *)
(* worklist over typed dependency edges that may form cycles: its rounds   *)
(* are steps here, so that its termination is a property, and its outcome  *)
(* is compared with a definition over paths.                               *)
(***************************************************************************)
EXTENDS Naturals, Sequences, FiniteSets

CONSTANTS VSubject,      \* the nodes; naturals, so that sort.Strings has an order
          Fingerprint,   \* what a verification attests
          OtherPrint,    \* what a changed subject reads as
          NoPrint,       \* no fingerprint yet, or absent from a snapshot
          NoSnapshot,
          EdgeSets       \* the graphs considered: sets of [from, to, hard]

ASSUME VerifiedAssumption ==
    /\ VSubject \subseteq Nat /\ Cardinality(VSubject) \in Nat
    /\ NoPrint \notin Fingerprint
    /\ \A G \in EdgeSets : \A e \in G : {e.from, e.to} \subseteq VSubject /\ e.from # e.to /\ e.hard \in BOOLEAN

VARIABLES edges,     \* Graph.outgoing
          vnode,     \* the state and the fingerprint of each subject
          proof,     \* the subjects that carry a verification reference
          saved,     \* the last snapshot, and the nodes of the graph when it is a checkpoint
          severity,  \* Reconcile: 0, 1 = STALE, 2 = INVALIDATED
          queue,     \* Reconcile: the subjects to propagate from
          origins,   \* Reconcile: the subjects that changed or are missing
          phase      \* "idle" or "reconciling"

verifiedVars == <<edges, vnode, proof, saved, severity, queue, origins, phase>>

\* NewGraph: edges between known subjects, no self-loop; cycles are allowed.
VerifiedInit ==
    /\ edges \in EdgeSets
    /\ vnode = [s \in VSubject |-> [state |-> "UNKNOWN", print |-> NoPrint]]
    /\ proof = {}
    /\ saved = NoSnapshot
    /\ severity = [s \in VSubject |-> 0]
    /\ queue = <<>> /\ origins = {}
    /\ phase = "idle"

ReconcileUnchanged == UNCHANGED <<edges, saved, severity, queue, origins, phase>>

\* BeginCandidate: a verified subject is not overwritten.
BeginCandidate(s) ==
    /\ phase = "idle" /\ vnode[s].state \in {"UNKNOWN", "STALE", "INVALIDATED", "REJECTED"}
    /\ vnode' = [vnode EXCEPT ![s].state = "CANDIDATE"]
    /\ proof' = proof \ {s}
    /\ ReconcileUnchanged

\* Verify: the only path to VERIFIED.
Verify(s, print) ==
    /\ phase = "idle" /\ vnode[s].state = "CANDIDATE"
    /\ vnode' = [vnode EXCEPT ![s] = [state |-> "VERIFIED", print |-> print]]
    /\ proof' = proof \cup {s}
    /\ ReconcileUnchanged

\* Reject: the fingerprint of an earlier verification stays.
Reject(s) ==
    /\ phase = "idle" /\ vnode[s].state = "CANDIDATE"
    /\ vnode' = [vnode EXCEPT ![s].state = "REJECTED"]
    /\ UNCHANGED proof /\ ReconcileUnchanged

\* CanCanonicalize.
CanCanonicalize(ids) ==
    ids # {} /\ \A s \in ids : vnode[s].state = "VERIFIED" /\ vnode[s].print # NoPrint /\ s \in proof

\* Snapshot: every subject of it has a fingerprint, verified or not.
TakeSnapshot(ids) ==
    /\ phase = "idle" /\ ids # {} /\ \A s \in ids : vnode[s].print # NoPrint
    /\ saved' = [prints |-> [s \in ids |-> vnode[s].print], canonical |-> FALSE]
    /\ UNCHANGED <<edges, vnode, proof, severity, queue, origins, phase>>

\* Checkpoint.Validate: the whole graph is verified, a part of it is monitored.
NewCheckpoint(ids) ==
    /\ phase = "idle" /\ ids # {} /\ CanCanonicalize(VSubject)
    /\ saved' = [prints |-> [s \in ids |-> vnode[s].print], canonical |-> TRUE,
                 nodes |-> vnode]
    /\ UNCHANGED <<edges, vnode, proof, severity, queue, origins, phase>>

\* The subjects of the snapshot that read otherwise now, and the ones that are gone.
Changed(prints, current) == {s \in DOMAIN prints : current[s] \notin {NoPrint, prints[s]}}
Missing(prints, current) == {s \in DOMAIN prints : current[s] = NoPrint}

\* sort.Strings: S as a sequence, in ascending order (there is one).
Ascending(S) ==
    {seq \in UNION {[1..n -> S] : n \in 0..Cardinality(VSubject)} :
        /\ \A i, j \in DOMAIN seq : i < j => seq[i] < seq[j]
        /\ \A s \in S : \E i \in DOMAIN seq : seq[i] = s}

\* Graph.Reconcile with a fresh observation: the roots are stale.  Checkpoint.Reconcile
\* does it on the graph the checkpoint holds, which a takeover continues with.
BeginReconcile(current) ==
    /\ phase = "idle" /\ saved # NoSnapshot
    /\ phase' = "reconciling"
    /\ \E c \in Ascending(Changed(saved.prints, current)), m \in Ascending(Missing(saved.prints, current)) :
         queue' = c \o m
    /\ origins' = Changed(saved.prints, current) \cup Missing(saved.prints, current)
    /\ severity' = [s \in VSubject |-> IF s \in origins' THEN 1 ELSE 0]
    /\ vnode' = IF saved.canonical THEN saved.nodes ELSE vnode
    /\ proof' = IF saved.canonical THEN VSubject ELSE proof
    /\ UNCHANGED <<edges, saved>>

\* Faulty variant of Reached: a soft edge weakens what it carries.
ReachedSoft(from, to) ==
    LET between == {e \in edges : e.from = from /\ e.to = to}
    IN IF between = {} THEN 0 ELSE IF \E e \in between : e.hard THEN 2 ELSE 1

\* The strongest severity that subject "from" passes on to "to".
Reached(from, to) ==
    LET between == {e \in edges : e.from = from /\ e.to = to}
    IN IF between = {} THEN 0 ELSE IF severity[from] = 2 \/ \E e \in between : e.hard THEN 2 ELSE 1

\* One round of the worklist: what gets worse is queued.  Parallel edges count once.
Propagate ==
    /\ phase = "reconciling" /\ queue # <<>>
    /\ LET from == Head(queue)
           worse == {s \in VSubject : Reached(from, s) > severity[s]}
       IN /\ severity' = [s \in VSubject |-> IF s \in worse THEN Reached(from, s) ELSE severity[s]]
          /\ \E next \in Ascending(worse) : queue' = Tail(queue) \o next
    /\ UNCHANGED <<edges, vnode, proof, saved, origins, phase>>

\* The states are written; fingerprints and references stay.
EndReconcile ==
    /\ phase = "reconciling" /\ queue = <<>>
    /\ vnode' = [s \in VSubject |->
                   [vnode[s] EXCEPT !.state = CASE severity[s] = 0 -> @
                                                [] severity[s] = 1 -> "STALE"
                                                [] OTHER -> "INVALIDATED"]]
    /\ severity' = [s \in VSubject |-> 0]
    /\ origins' = {}
    /\ phase' = "idle"
    /\ UNCHANGED <<edges, proof, saved, queue>>

VerifiedNext ==
    \/ \E s \in VSubject :
         BeginCandidate(s) \/ Reject(s) \/ \E print \in Fingerprint : Verify(s, print)
    \/ \E ids \in SUBSET VSubject : TakeSnapshot(ids) \/ NewCheckpoint(ids)
    \/ \E current \in [VSubject -> Fingerprint \cup {OtherPrint, NoPrint}] : BeginReconcile(current)
    \/ Propagate \/ EndReconcile

VerifiedSpec == VerifiedInit /\ [][VerifiedNext]_verifiedVars

-----------------------------------------------------------------------------
\* The subjects reachable from S along edges of G, S included.
Closure(S, G) ==
    {s \in VSubject :
        \A T \in SUBSET VSubject :
            /\ S \subseteq T
            /\ \A e \in G : e.from \in T => e.to \in T
            => s \in T}

\* The impact of a reconciliation is exact: a subject is INVALIDATED when a path from
\* what changed leads over a hard edge to it, STALE when only soft paths do, and
\* untouched otherwise, whatever the order of the worklist and the cycles of the graph.
ImpactIsExact ==
    phase = "reconciling" /\ queue = <<>> =>
        LET touched == Closure(origins, edges)
            beyond == {e.to : e \in {f \in edges : f.hard /\ f.from \in touched}}
        IN \A s \in VSubject : severity[s] = CASE s \in Closure(beyond, edges) -> 2
                                             [] s \in touched \ Closure(beyond, edges) -> 1
                                             [] OTHER -> 0

\* A subject is verified while it carries the reference and the fingerprint that made it
\* so, and it loses VERIFIED through a reconciliation only.
VerifiedIsProven ==
    [][\A s \in VSubject :
         /\ vnode'[s].state = "VERIFIED" => s \in proof' /\ vnode'[s].print # NoPrint
         /\ vnode[s].state = "VERIFIED" /\ vnode'[s].state # "VERIFIED" => phase = "reconciling" /\ severity[s] > 0]_verifiedVars

=============================================================================
