-------------------------- MODULE Assurance_proofs --------------------------
(***************************************************************************)
(* Proofs about what later steps rely on, for any number of subjects,      *)
(* dependency edges, contexts, verdicts, decisions, nodes and releases:    *)
(* what a change leaves verified, the evidence bundles, the results the    *)
(* node cache keeps, and the release rings. The four share no variable;    *)
(* each has its own inductive invariant.                                   *)
(***************************************************************************)
EXTENDS VerifiedState, EvidenceBundle, NodeCache, ReleaseRings, TLAPS

-----------------------------------------------------------------------------
(* Facts about sequences. *)

\* The empty sequence is the one of length 0.
LEMMA EmptySeq ==
    ASSUME NEW S
    PROVE  /\ << >> \in Seq(S) /\ Len(<< >>) = 0
           /\ \A seq \in Seq(S) : seq # << >> => Len(seq) \in Nat \ {0}
  OBVIOUS

\* What Append makes of a sequence.
LEMMA AppendProperties ==
    ASSUME NEW S, NEW seq \in Seq(S), NEW elt \in S
    PROVE  /\ Append(seq, elt) \in Seq(S) /\ Append(seq, elt) # << >>
           /\ Len(Append(seq, elt)) = Len(seq) + 1
           /\ \A i \in 1..Len(seq) : Append(seq, elt)[i] = seq[i]
           /\ Append(seq, elt)[Len(seq) + 1] = elt
  OBVIOUS

-----------------------------------------------------------------------------
(* The verified state: a reconciliation is exact, and what is verified was proven. *)

\* The subjects a queue holds.
Items(q) == {q[i] : i \in 1..Len(q)}

\* What the edges make of the changed subjects: all they reach, and what lies beyond a hard edge.
Touched == Closure(origins, edges)
Beyond == {e.to : e \in {f \in edges : f.hard /\ f.from \in Touched}}

VState == {"UNKNOWN", "CANDIDATE", "VERIFIED", "REJECTED", "STALE", "INVALIDATED"}
VNodes == [VSubject -> [state : VState, print : Fingerprint \cup {NoPrint}]]

\* The values of the variables.  A checkpoint holds a graph that is verified as a whole.
VerifiedShape ==
    /\ edges \in EdgeSets
    /\ vnode \in VNodes
    /\ proof \subseteq VSubject
    /\ severity \in [VSubject -> {0, 1, 2}]
    /\ queue \in Seq(VSubject)
    /\ origins \subseteq VSubject
    /\ phase \in {"idle", "reconciling"}
    /\ saved # NoSnapshot =>
         /\ DOMAIN saved.prints \subseteq VSubject
         /\ saved.canonical \in BOOLEAN
         /\ saved.canonical =>
              saved.nodes \in VNodes /\ \A s \in VSubject : saved.nodes[s].state = "VERIFIED" /\ saved.nodes[s].print # NoPrint

\* Verified subjects have their proof.
Proven == \A s \in VSubject : vnode[s].state = "VERIFIED" => s \in proof /\ vnode[s].print # NoPrint

\* Complete: what an edge carries from a subject that is not waiting in the queue has arrived.
\* Sound: nothing is touched that no path reaches.
WorklistInv ==
    phase = "reconciling" =>
        /\ \A s \in origins : severity[s] # 0
        /\ \A s \in Items(queue) : severity[s] # 0
        /\ \A e \in edges : severity[e.from] # 0 /\ e.from \notin Items(queue) =>
             /\ severity[e.to] # 0
             /\ e.hard \/ severity[e.from] = 2 => severity[e.to] = 2
        /\ \A s \in VSubject : severity[s] # 0 => s \in Touched
        /\ \A s \in VSubject : severity[s] = 2 => s \in Closure(Beyond, edges)

VerifiedInv == VerifiedShape /\ Proven /\ WorklistInv

-----------------------------------------------------------------------------
\* A set is part of its closure.
LEMMA ClosureContains ==
    ASSUME NEW S \in SUBSET VSubject, NEW G PROVE S \subseteq Closure(S, G)
  BY Zenon DEF Closure

\* No edge leads out of a closure.
LEMMA ClosureIsClosed ==
    ASSUME NEW S \in SUBSET VSubject, NEW G, NEW e \in G, e.from \in Closure(S, G), e.to \in VSubject
    PROVE  e.to \in Closure(S, G)
  BY Zenon DEF Closure

\* A closure is the least set of its kind.
LEMMA ClosureIsLeast ==
    ASSUME NEW S \in SUBSET VSubject, NEW G, NEW T \in SUBSET VSubject, S \subseteq T,
           \A e \in G : e.from \in T => e.to \in T
    PROVE  Closure(S, G) \subseteq T
  BY Zenon DEF Closure

\* The edges of a graph lie between its subjects.
LEMMA EdgesAreSubjects ==
    ASSUME edges \in EdgeSets, NEW e \in edges
    PROVE  e.from \in VSubject /\ e.to \in VSubject /\ e.hard \in BOOLEAN
  BY Zenon, VerifiedAssumption

\* An ascending sequence of S is a sequence, and lists S.
LEMMA AscendingLists ==
    ASSUME NEW S \in SUBSET VSubject, NEW seq \in Ascending(S)
    PROVE  seq \in Seq(VSubject) /\ Items(seq) = S
<1>1. PICK n \in Nat : seq \in [1..n -> S] /\ DOMAIN seq = 1..n
  BY VerifiedAssumption DEF Ascending
<1>3. seq \in Seq(S) /\ Len(seq) = n
  BY <1>1
<1>4. seq \in Seq(VSubject)
  BY <1>3, <1>1
<1>5. Items(seq) = S
  BY Zenon, <1>3, <1>1 DEF Items, Ascending
<1> QED BY Zenon, <1>4, <1>5

\* What a queue holds when another one is put behind it.
LEMMA ItemsOfConcat ==
    ASSUME NEW q \in Seq(VSubject), NEW r \in Seq(VSubject)
    PROVE  q \o r \in Seq(VSubject) /\ Items(q \o r) = Items(q) \cup Items(r)
<1>1. /\ q \o r \in Seq(VSubject) /\ Len(q \o r) = Len(q) + Len(r)
      /\ \A i \in 1..Len(q) : (q \o r)[i] = q[i]
      /\ \A i \in 1..Len(r) : (q \o r)[Len(q) + i] = r[i]
  OBVIOUS
<1>2. ASSUME NEW x \in Items(q \o r) PROVE x \in Items(q) \cup Items(r)
  <2>1. PICK i \in 1..Len(q \o r) : x = (q \o r)[i]
    BY Zenon DEF Items
  <2>2. CASE i <= Len(q)
    BY <1>1, <2>1, <2>2 DEF Items
  <2>3. CASE ~(i <= Len(q))
    <3>1. i - Len(q) \in 1..Len(r) /\ i = Len(q) + (i - Len(q))
      BY <1>1, <2>1, <2>3
    <3> QED BY Zenon, <3>1, <1>1, <2>1 DEF Items
  <2> QED BY Zenon, <2>2, <2>3
<1>3. ASSUME NEW x \in Items(q) PROVE x \in Items(q \o r)
  BY <1>1 DEF Items
<1>4. ASSUME NEW x \in Items(r) PROVE x \in Items(q \o r)
  <2>1. PICK i \in 1..Len(r) : x = r[i]
    BY Zenon DEF Items
  <2>2. Len(q) + i \in 1..Len(q \o r)
    BY <1>1, <2>1
  <2> QED BY <1>1, <2>1, <2>2, Zenon DEF Items
<1> QED BY Zenon, <1>1, <1>2, <1>3, <1>4

\* What a queue holds when its head is taken.
LEMMA ItemsOfTail ==
    ASSUME NEW q \in Seq(VSubject), q # <<>>
    PROVE  /\ Tail(q) \in Seq(VSubject) /\ Head(q) \in VSubject /\ Head(q) \in Items(q)
           /\ Items(q) = {Head(q)} \cup Items(Tail(q))
<1>1. /\ Tail(q) \in Seq(VSubject) /\ Head(q) \in VSubject /\ Head(q) = q[1]
      /\ Len(Tail(q)) = Len(q) - 1 /\ Len(q) \in Nat \ {0}
      /\ \A i \in 1..Len(Tail(q)) : Tail(q)[i] = q[i + 1]
  OBVIOUS
<1>2. ASSUME NEW x \in Items(q) PROVE x = Head(q) \/ x \in Items(Tail(q))
  <2>1. PICK i \in 1..Len(q) : x = q[i]
    BY Zenon DEF Items
  <2>2. CASE i = 1
    BY Zenon, <1>1, <2>1, <2>2
  <2>3. CASE i # 1
    <3>1. i - 1 \in 1..Len(Tail(q)) /\ i = (i - 1) + 1
      BY <1>1, <2>1, <2>3
    <3> QED BY Zenon, <3>1, <1>1, <2>1 DEF Items
  <2> QED BY Zenon, <2>2, <2>3
<1>3. Head(q) \in Items(q)
  BY <1>1 DEF Items
<1>4. ASSUME NEW x \in Items(Tail(q)) PROVE x \in Items(q)
  <2>1. PICK i \in 1..Len(Tail(q)) : x = Tail(q)[i]
    BY Zenon DEF Items
  <2>2. i + 1 \in 1..Len(q)
    BY <1>1, <2>1
  <2> QED BY Zenon, <1>1, <2>1, <2>2 DEF Items
<1> QED BY Zenon, <1>1, <1>2, <1>3, <1>4

-----------------------------------------------------------------------------
\* What a round passes on: nothing without an edge, and the strongest of the edges.
LEMMA ReachedFacts ==
    ASSUME VerifiedShape, NEW from \in VSubject, NEW to \in VSubject
    PROVE  /\ Reached(from, to) \in {0, 1, 2}
           /\ Reached(from, to) # 0 => \E e \in edges : e.from = from /\ e.to = to
           /\ Reached(from, to) = 2 =>
                \E e \in edges : e.from = from /\ e.to = to /\ (e.hard \/ severity[from] = 2)
           /\ \A e \in edges : e.from = from /\ e.to = to =>
                Reached(from, to) # 0 /\ (e.hard \/ severity[from] = 2 => Reached(from, to) = 2)
<1> DEFINE between == {e \in edges : e.from = from /\ e.to = to}
<1>1. CASE between = {}
  <2>1. Reached(from, to) = 0
    BY Zenon, <1>1 DEF Reached
  <2> QED BY <1>1, <2>1
<1>2. CASE between # {} /\ (severity[from] = 2 \/ \E e \in between : e.hard)
  <2>1. Reached(from, to) = 2
    BY Zenon, <1>2 DEF Reached
  <2> QED BY <1>2, <2>1
<1>3. CASE between # {} /\ ~(severity[from] = 2 \/ \E e \in between : e.hard)
  <2>1. Reached(from, to) = 1
    BY Zenon, <1>3 DEF Reached
  <2> QED BY <1>3, <2>1
<1> QED BY Zenon, <1>1, <1>2, <1>3

\* The beyond is made of subjects.
LEMMA BeyondIsSubjects == VerifiedShape => Beyond \subseteq VSubject /\ Touched \subseteq VSubject
  BY EdgesAreSubjects DEF Beyond, Touched, Closure, VerifiedShape

\* An empty graph of unknown subjects satisfies the invariant (NewGraph).
LEMMA InitVerified == VerifiedInit => VerifiedInv
  BY DEF VerifiedInit, VerifiedInv, VerifiedShape, Proven, WorklistInv, VNodes, VState

\* Outside a reconciliation the worklist has nothing to keep.
LEMMA KeepsIdle ==
    ASSUME VerifiedInv, ReconcileUnchanged, phase = "idle", vnode' \in VNodes, proof' \subseteq VSubject, Proven'
    PROVE  VerifiedInv'
  BY Zenon DEF VerifiedInv, VerifiedShape, ReconcileUnchanged, WorklistInv

\* BeginCandidate, Verify, Reject.
LEMMA LifecycleKeeps ==
    ASSUME VerifiedInv, NEW s \in VSubject,
           BeginCandidate(s) \/ Reject(s) \/ \E print \in Fingerprint : Verify(s, print)
    PROVE  VerifiedInv'
<1> USE VerifiedAssumption DEF VNodes, VState
<1>1. CASE BeginCandidate(s)
  <2>1. vnode' \in VNodes /\ proof' \subseteq VSubject /\ Proven'
    BY Zenon, <1>1 DEF BeginCandidate, VerifiedInv, VerifiedShape, Proven
  <2> QED BY Zenon, <1>1, <2>1, KeepsIdle DEF BeginCandidate
<1>2. CASE Reject(s)
  <2>1. vnode' \in VNodes /\ proof' \subseteq VSubject /\ Proven'
    BY Zenon, <1>2 DEF Reject, VerifiedInv, VerifiedShape, Proven
  <2> QED BY Zenon, <1>2, <2>1, KeepsIdle DEF Reject
<1>3. ASSUME NEW print \in Fingerprint, Verify(s, print) PROVE VerifiedInv'
  <2>1. vnode' \in VNodes /\ proof' \subseteq VSubject /\ Proven'
    BY Zenon, <1>3 DEF Verify, VerifiedInv, VerifiedShape, Proven
  <2> QED BY Zenon, <1>3, <2>1, KeepsIdle DEF Verify
<1> QED BY Zenon, <1>1, <1>2, <1>3

\* Snapshot and Checkpoint.Validate.
LEMMA SnapshotKeeps ==
    ASSUME VerifiedInv, NEW ids \in SUBSET VSubject, TakeSnapshot(ids) \/ NewCheckpoint(ids)
    PROVE  VerifiedInv'
<1>1. UNCHANGED <<edges, vnode, proof, severity, queue, origins, phase>> /\ phase = "idle"
  BY Zenon DEF TakeSnapshot, NewCheckpoint
<1>2. CASE TakeSnapshot(ids)
  <2>1. DOMAIN saved'.prints \subseteq VSubject /\ saved'.canonical = FALSE
    BY Zenon, <1>2 DEF TakeSnapshot
  <2> QED BY <1>1, <2>1, Zenon DEF VerifiedInv, VerifiedShape, Proven, WorklistInv
<1>3. CASE NewCheckpoint(ids)
  <2>1. DOMAIN saved'.prints \subseteq VSubject /\ saved'.canonical = TRUE /\ saved'.nodes = vnode
    BY Zenon, <1>3 DEF NewCheckpoint
  <2>2. \A s \in VSubject : vnode[s].state = "VERIFIED" /\ vnode[s].print # NoPrint
    BY Zenon, <1>3 DEF NewCheckpoint, CanCanonicalize
  <2> QED BY <1>1, <2>1, <2>2, Zenon DEF VerifiedInv, VerifiedShape, Proven, WorklistInv
<1> QED BY Zenon, <1>2, <1>3

\* A reconciliation begins with the changed and the missing subjects, all of them queued.
LEMMA BeginKeeps ==
    ASSUME VerifiedInv, NEW current, BeginReconcile(current)
    PROVE  VerifiedInv'
<1> DEFINE changed == Changed(saved.prints, current)
           missing == Missing(saved.prints, current)
<1>1. changed \in SUBSET VSubject /\ missing \in SUBSET VSubject
  BY Zenon DEF VerifiedInv, VerifiedShape, BeginReconcile, Changed, Missing
<1>2. PICK c \in Ascending(changed), m \in Ascending(missing) : queue' = c \o m
  BY Zenon DEF BeginReconcile
<1>3. c \in Seq(VSubject) /\ Items(c) = changed /\ m \in Seq(VSubject) /\ Items(m) = missing
  BY <1>1, <1>2, AscendingLists, Zenon
<1>4. origins' = changed \cup missing
  BY Zenon DEF BeginReconcile
<1> HIDE DEF changed, missing
<1>5. queue' \in Seq(VSubject) /\ Items(queue') = origins' /\ origins' \subseteq VSubject
  BY Zenon, <1>1, <1>2, <1>3, <1>4, ItemsOfConcat
<1>6. /\ severity' = [s \in VSubject |-> IF s \in origins' THEN 1 ELSE 0]
      /\ edges' = edges /\ saved' = saved /\ phase' = "reconciling"
  BY Zenon DEF BeginReconcile
<1>7. vnode' \in VNodes /\ proof' \subseteq VSubject /\ Proven'
  BY Zenon DEF BeginReconcile, VerifiedInv, VerifiedShape, Proven
<1>8. VerifiedShape'
  BY Zenon, <1>5, <1>6, <1>7 DEF VerifiedInv, VerifiedShape
<1>9. origins' \subseteq Touched'
  BY Zenon, <1>5, ClosureContains DEF Touched
<1>10. WorklistInv'
  BY <1>5, <1>6, <1>9, EdgesAreSubjects DEF WorklistInv, VerifiedInv, VerifiedShape
<1> QED BY Zenon, <1>7, <1>8, <1>10 DEF VerifiedInv

\* A round of the worklist keeps it complete and sound.
LEMMA PropagateKeeps ==
    ASSUME VerifiedInv, Propagate
    PROVE  VerifiedInv'
<1> DEFINE from == Head(queue)
           worse == {s \in VSubject : Reached(from, s) > severity[s]}
<1>1. from \in VSubject /\ from \in Items(queue) /\ Tail(queue) \in Seq(VSubject)
      /\ Items(queue) = {from} \cup Items(Tail(queue))
  BY Zenon, ItemsOfTail DEF Propagate, VerifiedInv, VerifiedShape
<1>2. PICK next \in Ascending(worse) : queue' = Tail(queue) \o next
  BY Zenon DEF Propagate
<1>3. next \in Seq(VSubject) /\ Items(next) = worse
  BY Zenon, <1>2, AscendingLists
<1>4. /\ severity' = [s \in VSubject |-> IF s \in worse THEN Reached(from, s) ELSE severity[s]]
      /\ edges' = edges /\ vnode' = vnode /\ proof' = proof /\ saved' = saved /\ origins' = origins
      /\ phase' = phase /\ phase = "reconciling"
  BY Zenon DEF Propagate
<1>5. queue' \in Seq(VSubject) /\ Items(queue') = Items(Tail(queue)) \cup worse
  BY ZenonT(60), <1>1, <1>2, <1>3, ItemsOfConcat
<1>6. \A s \in VSubject : /\ severity[s] \in {0, 1, 2} /\ Reached(from, s) \in {0, 1, 2}
                          /\ s \in worse <=> Reached(from, s) > severity[s]
  BY <1>1, ReachedFacts DEF VerifiedInv, VerifiedShape
<1> HIDE DEF worse, from
<1>7. \A s \in VSubject : /\ severity'[s] \in {0, 1, 2}
                          /\ s \notin worse => severity'[s] = severity[s]
                          /\ s \in worse => severity'[s] = Reached(from, s) /\ severity'[s] # 0
                          /\ severity[s] # 0 => severity'[s] # 0
                          /\ severity[s] = 2 => severity'[s] = 2
                          /\ Reached(from, s) # 0 => severity'[s] # 0
                          /\ Reached(from, s) = 2 => severity'[s] = 2
  BY <1>4, <1>6
<1>8. VerifiedShape'
  BY Zenon, <1>4, <1>5, <1>7 DEF VerifiedInv, VerifiedShape
<1>9. /\ severity[from] # 0 /\ from \in Touched
      /\ severity[from] = 2 => from \in Closure(Beyond, edges)
  BY Zenon, <1>1, <1>4 DEF VerifiedInv, WorklistInv
<1>10. Touched' = Touched /\ Beyond' = Beyond /\ Closure(Beyond, edges)' = Closure(Beyond, edges)
  BY ZenonT(60), <1>4 DEF Touched, Beyond, Closure
<1>11. \A s \in origins' : severity'[s] # 0
  BY Zenon, <1>4, <1>7 DEF VerifiedInv, WorklistInv, VerifiedShape
<1>12. \A s \in Items(queue') : severity'[s] # 0
  <2>1. Items(Tail(queue)) \subseteq VSubject /\ worse \subseteq VSubject
    BY <1>1 DEF Items, worse
  <2> QED BY Zenon, <2>1, <1>1, <1>4, <1>5, <1>7 DEF VerifiedInv, WorklistInv
<1>13. ASSUME NEW e \in edges, severity'[e.from] # 0, e.from \notin Items(queue')
       PROVE  severity'[e.to] # 0 /\ (e.hard \/ severity'[e.from] = 2 => severity'[e.to] = 2)
  <2>1. e.from \in VSubject /\ e.to \in VSubject
    BY Zenon, EdgesAreSubjects DEF VerifiedInv, VerifiedShape
  <2>2. e.from \notin worse /\ severity'[e.from] = severity[e.from]
    BY Zenon, <1>5, <1>7, <1>13, <2>1
  <2>3. CASE e.from = from
    <3>1. Reached(from, e.to) # 0 /\ (e.hard \/ severity[from] = 2 => Reached(from, e.to) = 2)
      BY ZenonT(60), <2>1, <2>3, ReachedFacts DEF VerifiedInv
    <3> QED BY Zenon, <3>1, <2>1, <2>2, <2>3, <1>7
  <2>4. CASE e.from # from
    <3>1. e.from \notin Items(queue)
      BY Zenon, <2>4, <1>1, <1>5, <1>13
    <3>2. severity[e.to] # 0 /\ (e.hard \/ severity[e.from] = 2 => severity[e.to] = 2)
      BY Zenon, <3>1, <2>2, <1>13, <1>4 DEF VerifiedInv, WorklistInv
    <3> QED BY Zenon, <3>2, <2>1, <2>2, <1>7
  <2> QED BY Zenon, <2>3, <2>4
<1>14. ASSUME NEW s \in VSubject, severity'[s] # 0 PROVE s \in Touched
  <2>1. CASE s \notin worse
    BY Zenon, <2>1, <1>7, <1>14, <1>4 DEF VerifiedInv, WorklistInv
  <2>2. CASE s \in worse
    <3>1. PICK e \in edges : e.from = from /\ e.to = s
      BY <2>2, <1>1, <1>7, ReachedFacts DEF VerifiedInv
    <3> QED BY Zenon, <3>1, <1>9, ClosureIsClosed DEF Touched, VerifiedInv, VerifiedShape
  <2> QED BY Zenon, <2>1, <2>2
<1>15. ASSUME NEW s \in VSubject, severity'[s] = 2 PROVE s \in Closure(Beyond, edges)
  <2>1. CASE s \notin worse
    BY Zenon, <2>1, <1>7, <1>15, <1>4 DEF VerifiedInv, WorklistInv
  <2>2. CASE s \in worse
    <3>1. PICK e \in edges : e.from = from /\ e.to = s /\ (e.hard \/ severity[from] = 2)
      BY <2>2, <1>1, <1>7, <1>15, ReachedFacts DEF VerifiedInv
    <3>2. Beyond \in SUBSET VSubject
      BY Zenon, BeyondIsSubjects DEF VerifiedInv
    <3>3. CASE e.hard
      <4>1. s \in Beyond
        BY Zenon, <3>1, <3>3, <1>9 DEF Beyond
      <4> QED BY Zenon, <4>1, <3>2, ClosureContains
    <3>4. CASE severity[from] = 2
      BY Zenon, <3>1, <3>2, <3>4, <1>9, ClosureIsClosed
    <3> QED BY Zenon, <3>1, <3>3, <3>4
  <2> QED BY Zenon, <2>1, <2>2
<1>16. WorklistInv'
  BY Zenon, <1>4, <1>10, <1>11, <1>12, <1>13, <1>14, <1>15 DEF WorklistInv
<1>17. Proven'
  BY Zenon, <1>4 DEF VerifiedInv, Proven
<1> QED BY Zenon, <1>8, <1>16, <1>17 DEF VerifiedInv

\* The states are written: a verified subject was verified before and is untouched.
LEMMA EndKeeps ==
    ASSUME VerifiedInv, EndReconcile
    PROVE  VerifiedInv'
<1>1. \A s \in VSubject : vnode'[s] \in [state : VState, print : Fingerprint \cup {NoPrint}]
  BY ZenonT(60) DEF EndReconcile, VerifiedInv, VerifiedShape, VNodes, VState
<1>2. vnode' \in VNodes
  BY Zenon, <1>1 DEF EndReconcile, VNodes
<1>3. Proven'
  BY ZenonT(60) DEF EndReconcile, VerifiedInv, VerifiedShape, VNodes, Proven
<1>4. VerifiedShape' /\ WorklistInv'
  BY Zenon, <1>2 DEF EndReconcile, VerifiedInv, VerifiedShape, WorklistInv
<1> QED BY Zenon, <1>3, <1>4 DEF VerifiedInv

\* Every step keeps the invariant.
LEMMA NextVerified == VerifiedInv /\ [VerifiedNext]_verifiedVars => VerifiedInv'
<1> SUFFICES ASSUME VerifiedInv, [VerifiedNext]_verifiedVars PROVE VerifiedInv'
  BY Zenon
<1>1. CASE UNCHANGED verifiedVars
  <2>1. Touched' = Touched /\ Beyond' = Beyond /\ Closure(Beyond, edges)' = Closure(Beyond, edges)
    BY Zenon, <1>1 DEF verifiedVars, Touched, Beyond, Closure
  <2>2. VerifiedShape' /\ Proven'
    BY Zenon, <1>1 DEF verifiedVars, VerifiedInv, VerifiedShape, Proven
  <2>3. WorklistInv'
    BY Zenon, <1>1, <2>1 DEF verifiedVars, VerifiedInv, WorklistInv, Items
  <2> QED BY Zenon, <2>2, <2>3 DEF VerifiedInv
<1>2. CASE VerifiedNext
  BY Zenon, <1>2, LifecycleKeeps, SnapshotKeeps, BeginKeeps, PropagateKeeps, EndKeeps DEF VerifiedNext
<1> QED BY Zenon, <1>1, <1>2

\* The invariant holds throughout.
LEMMA VerifiedInvariance == VerifiedSpec => []VerifiedInv
  BY InitVerified, NextVerified, PTL DEF VerifiedSpec

-----------------------------------------------------------------------------
\* On every graph, with cycles or not: when the worklist is empty, a subject is INVALIDATED exactly
\* if a path from what changed leads over a hard edge to it, and STALE exactly if only soft paths do (Reconcile).
THEOREM ReconciliationIsExact == VerifiedSpec => []ImpactIsExact
<1>1. VerifiedInv => ImpactIsExact
  <2> SUFFICES ASSUME VerifiedInv, phase = "reconciling", queue = <<>>
               PROVE  \A s \in VSubject : severity[s] = CASE s \in Closure(Beyond, edges) -> 2
                                                         [] s \in Touched \ Closure(Beyond, edges) -> 1
                                                         [] OTHER -> 0
    BY Zenon DEF ImpactIsExact, Touched, Beyond
  <2> DEFINE T1 == {s \in VSubject : severity[s] # 0}
             T2 == {s \in VSubject : severity[s] = 2}
  <2>1. Items(queue) = {}
    BY DEF Items
  <2>2. \A e \in edges : severity[e.from] # 0 => severity[e.to] # 0 /\ (e.hard \/ severity[e.from] = 2 => severity[e.to] = 2)
    BY Zenon, <2>1 DEF VerifiedInv, WorklistInv
  <2>3. \A e \in edges : e.from \in VSubject /\ e.to \in VSubject
    BY Zenon, EdgesAreSubjects DEF VerifiedInv, VerifiedShape
  <2>4. Touched = T1
    <3>1. origins \in SUBSET VSubject /\ origins \subseteq T1 /\ T1 \in SUBSET VSubject /\ \A e \in edges : e.from \in T1 => e.to \in T1
      BY Zenon, <2>2, <2>3 DEF VerifiedInv, VerifiedShape, WorklistInv
    <3>2. Touched \subseteq T1
      BY <3>1, ClosureIsLeast, Zenon DEF Touched
    <3> QED BY Zenon, <3>2 DEF VerifiedInv, WorklistInv
  <2>5. Closure(Beyond, edges) = T2
    <3>1. Beyond \in SUBSET VSubject /\ T2 \in SUBSET VSubject
      BY Zenon, BeyondIsSubjects DEF VerifiedInv
    <3>2. Beyond \subseteq T2
      BY Zenon, <2>2, <2>3, <2>4 DEF Beyond
    <3>3. \A e \in edges : e.from \in T2 => e.to \in T2
      BY <2>2, <2>3
    <3>4. Closure(Beyond, edges) \subseteq T2
      BY <3>1, <3>2, <3>3, ClosureIsLeast, Zenon
    <3> QED BY Zenon, <3>4 DEF VerifiedInv, WorklistInv
  <2>6. severity \in [VSubject -> {0, 1, 2}]
    BY Zenon DEF VerifiedInv, VerifiedShape
  <2> QED BY Zenon, <2>4, <2>5, <2>6
<1> QED BY <1>1, VerifiedInvariance, PTL

\* A subject is VERIFIED only with a reference and a fingerprint, and loses it only to a reconciliation
\* that reaches it, also when a takeover goes on from a checkpoint (Verify, Reconcile).
THEOREM VerificationIsKept == VerifiedSpec => VerifiedIsProven
<1> DEFINE Kept == \A s \in VSubject :
         /\ vnode'[s].state = "VERIFIED" => s \in proof' /\ vnode'[s].print # NoPrint
         /\ vnode[s].state = "VERIFIED" /\ vnode'[s].state # "VERIFIED" => phase = "reconciling" /\ severity[s] > 0
<1>1. VerifiedInv /\ VerifiedInv' /\ [VerifiedNext]_verifiedVars => [Kept]_verifiedVars
  <2> SUFFICES ASSUME VerifiedInv, VerifiedInv', VerifiedNext, NEW s \in VSubject,
                      vnode[s].state = "VERIFIED", vnode'[s].state # "VERIFIED"
               PROVE  phase = "reconciling" /\ severity[s] > 0
    BY Zenon DEF VerifiedInv, Proven
  <2> USE DEF VNodes
  <2>1. ASSUME NEW t \in VSubject, BeginCandidate(t) PROVE FALSE
    BY Zenon, <2>1 DEF BeginCandidate, VerifiedInv, VerifiedShape
  <2>2. ASSUME NEW t \in VSubject, Reject(t) PROVE FALSE
    BY Zenon, <2>2 DEF Reject, VerifiedInv, VerifiedShape
  <2>3. ASSUME NEW t \in VSubject, NEW print \in Fingerprint, Verify(t, print) PROVE FALSE
    BY Zenon, <2>3 DEF Verify, VerifiedInv, VerifiedShape
  <2>4. ASSUME NEW ids \in SUBSET VSubject, TakeSnapshot(ids) \/ NewCheckpoint(ids) PROVE FALSE
    BY Zenon, <2>4 DEF TakeSnapshot, NewCheckpoint
  <2>5. ASSUME NEW current, BeginReconcile(current) PROVE FALSE
    BY Zenon, <2>5 DEF BeginReconcile, VerifiedInv, VerifiedShape
  <2>6. CASE Propagate
    BY Zenon, <2>6 DEF Propagate
  <2>7. CASE EndReconcile
    BY <2>7 DEF EndReconcile, VerifiedInv, VerifiedShape
  <2> QED BY Zenon, <2>1, <2>2, <2>3, <2>4, <2>5, <2>6, <2>7 DEF VerifiedNext
<1>2. VerifiedInv /\ VerifiedInv' /\ [VerifiedNext]_verifiedVars => [Kept]_verifiedVars
  BY Zenon, <1>1
<1> QED BY <1>2, VerifiedInvariance, PTL DEF VerifiedSpec, VerifiedIsProven

-----------------------------------------------------------------------------
(* The evidence bundles: what they say was recorded. *)

\* A GET, and where it is.
GetRecord ==
    [pc : {"new", "not_terminal", "contexts", "correlation", "sign", "verdict", "answered"},
     content : BundleSubject \cup {NoBundle},
     view : {"none", "provenance_gap", "pending", "verified", "failed"},
     verdict : Verdict \cup {NoVerdict}]

\* The values of the variables, read by read.
BundleShape ==
    /\ workState \in {"RUNNING"} \cup TerminalWork
    /\ contexts \in 0..MaxContexts
    /\ policy \in [1..MaxContexts -> PDR \cup {NoPDR}]
    /\ outcome \in Verdict \cup {NoVerdict}
    /\ vreq \in [VRequest -> [pc : {"new", "refused", "read", "insert", "saved", "conflict", "failed"},
                              verdict : Verdict \cup {NoVerdict}]]
    /\ get \in [Get -> GetRecord]

\* A verdict under way is one.
VerdictsAreMeant == \A q \in VRequest : vreq[q].pc \notin {"new", "refused"} => vreq[q].verdict \in Verdict

\* What a GET has read so far is still so when it goes on: the Work has ended for good, and a policy decision stays.
ReadsStand ==
    \A g \in Get : get[g].pc \notin {"new", "not_terminal"} =>
        /\ get[g].content \in BundleSubject
        /\ workState = get[g].content.work
        /\ get[g].content.pdr # NoPDR => get[g].content.ctx # 0 /\ policy[get[g].content.ctx] = get[g].content.pdr
        /\ get[g].pc = "contexts" => get[g].content.pdr = NoPDR

\* Nothing is said before the answer, and an answer rests on a decision and on the standing verdict.
AnswersRest ==
    \A g \in Get :
        /\ get[g].view # "none" => get[g].pc = "answered"
        /\ get[g].view = "verified" => get[g].content.pdr # NoPDR /\ outcome # NoVerdict /\ outcome.result = "passed"
        /\ get[g].view = "failed" => outcome # NoVerdict /\ outcome.result = "failed"

\* Every bundle is the sealed subject of some GET.
BundlesAreSealed == \A b \in bundles : \E subject \in BundleSubject : b = Seal(subject, "key")

ToldAreContexts == \A t \in told : t[1] \in 1..MaxContexts /\ t[2] \in PDR

BundleInv ==
    /\ BundleShape /\ VerdictsAreMeant /\ ReadsStand /\ AnswersRest /\ BundlesAreSealed /\ ToldAreContexts
    /\ QuittanceIsEarned /\ AnsweredVerdictStands /\ AnsweredPolicyStands

-----------------------------------------------------------------------------
\* A signature covers the key and the subject, with an envelope or without.
LEMMA SignatureCovers ==
    ASSUME NEW b, NEW c, NEW k, NEW l, SignatureMAC(b, k) = SignatureMAC(c, l)
    PROVE  k = l /\ b.subject = c.subject /\ (b.integ = NoInteg <=> c.integ = NoInteg)
  BY Zenon DEF SignatureMAC

\* The parts of a sealed subject.
LEMMA SealParts ==
    ASSUME NEW s, NEW k
    PROVE  LET b == Seal(s, k) IN /\ b = [subject |-> s, id |-> Digest("sha256", s), integ |-> Integrity(s), sig |-> b.sig]
                                  /\ b.sig = SignatureMAC(b, k)
  BY Zenon DEF Seal, SignatureMAC

\* A sealed subject verifies, and nothing verifies that it may become.
LEMMA SealIsTight ==
    ASSUME NEW subject \in BundleSubject
    PROVE  LET b == Seal(subject, "key")
           IN VerifyBundle(b, "key") /\ \A d \in Damaged(b) : ~VerifyBundle(d, "key")
<1> DEFINE b == Seal(subject, "key")
<1>1. /\ b = [subject |-> subject, id |-> Digest("sha256", subject), integ |-> Integrity(subject), sig |-> b.sig]
      /\ b.sig = SignatureMAC(b, "key")
  BY Zenon, SealParts
<1> HIDE DEF b
<1>2. b.subject = subject /\ b.id = Digest("sha256", subject) /\ b.integ = Integrity(subject)
  BY <1>1
<1>3. VerifyBundle(b, "key")
  BY Zenon, <1>1, <1>2 DEF VerifyBundle
<1>4. b.integ # NoInteg
  BY Zenon, <1>2, EnvelopeAssumption
<1>5. ASSUME NEW d, d.sig = b.sig, d.subject # b.subject PROVE ~VerifyBundle(d, "key")
  BY <1>1, <1>5, SignatureCovers DEF VerifyBundle
<1>6. [b.subject EXCEPT !.work = "LOST"] # subject /\ [b.subject EXCEPT !.ctx = @ + 1] # subject
  BY <1>2, BundleAssumption DEF BundleSubject, TerminalWork
<1>7. ASSUME NEW s, s # subject, NEW d \in Rewritten(b, s) PROVE ~VerifyBundle(d, "key")
  <2>1. d.sig = b.sig /\ d.subject = s
    <3>1. CASE d = [b EXCEPT !.subject = s]
      BY Zenon, <1>1, <3>1
    <3>2. CASE d = [Seal(s, "other") EXCEPT !.sig = b.sig]
      BY <3>2, SealParts
    <3>3. CASE d = [b EXCEPT !.subject = s, !.integ = NoInteg]
      BY Zenon, <1>1, <3>3
    <3>4. CASE d = [b EXCEPT !.subject = s, !.id = Digest("sha256", s), !.integ = NoInteg]
      BY Zenon, <1>1, <3>4
    <3> QED BY Zenon, <1>7, <3>1, <3>2, <3>3, <3>4 DEF Rewritten
  <2> QED BY Zenon, <1>2, <1>5, <1>7, <2>1
<1>8. ~VerifyBundle([b EXCEPT !.id = Digest("blake3", b.subject)], "key")
  <2> DEFINE d == [b EXCEPT !.id = Digest("blake3", b.subject)]
  <2>1. d.id = Digest("blake3", subject) /\ d.subject = subject
    BY <1>1
  <2> QED BY <2>1 DEF VerifyBundle, Digest
<1>9. ~VerifyBundle([b EXCEPT !.integ = NoInteg], "key")
  <2> DEFINE d == [b EXCEPT !.integ = NoInteg]
  <2>1. d.integ = NoInteg /\ d.sig = b.sig
    BY Zenon, <1>1
  <2> HIDE DEF d
  <2> QED BY <1>1, <1>4, <2>1, SignatureCovers DEF VerifyBundle, d
<1>10. ~VerifyBundle(Seal(subject, "other"), "key")
  <2>1. Seal(subject, "other").sig = SignatureMAC(Seal(subject, "other"), "other")
    BY Zenon, SealParts
  <2> QED BY <2>1, SignatureCovers DEF VerifyBundle
<1>11. ASSUME NEW d \in Damaged(b) PROVE ~VerifyBundle(d, "key")
  <2>1. CASE d \in Rewritten(b, [b.subject EXCEPT !.work = "LOST"]) \cup Rewritten(b, [b.subject EXCEPT !.ctx = @ + 1])
    BY Zenon, <1>6, <1>7, <2>1
  <2>2. CASE d \in {[b EXCEPT !.id = Digest("blake3", b.subject)], [b EXCEPT !.integ = NoInteg], Seal(b.subject, "other")}
    BY ZenonT(60), <1>2, <1>8, <1>9, <1>10, <2>2
  <2> QED BY <1>11, <2>1, <2>2, Zenon DEF Damaged
<1> QED BY Zenon, <1>3, <1>11 DEF b

-----------------------------------------------------------------------------
\* A Work that runs, with nothing said of it, satisfies the invariant.
LEMMA InitBundle == BundleInit => BundleInv
  BY BundleAssumption
     DEF BundleInit, BundleInv, BundleShape, VerdictsAreMeant, ReadsStand, AnswersRest, BundlesAreSealed,
         ToldAreContexts, GetRecord, QuittanceIsEarned, AnsweredVerdictStands, AnsweredPolicyStands

\* The Work ends once, so no GET has read another end.
LEMMA FinishKeeps ==
    ASSUME BundleInv, NEW s \in TerminalWork, FinishWork(s)
    PROVE  BundleInv'
<1>1. \A g \in Get : get[g].pc \in {"new", "not_terminal"} /\ get[g].view = "none"
  BY Zenon DEF FinishWork, BundleInv, BundleShape, ReadsStand, AnswersRest, BundleSubject, TerminalWork
<1>2. BundleShape' /\ VerdictsAreMeant' /\ BundlesAreSealed' /\ ToldAreContexts' /\ AnswersRest'
  BY Zenon DEF FinishWork, BundleInv, BundleShape, VerdictsAreMeant, BundlesAreSealed, ToldAreContexts, AnswersRest
<1>3. ReadsStand'
  BY Zenon, <1>1 DEF FinishWork, ReadsStand
<1>4. QuittanceIsEarned' /\ AnsweredVerdictStands' /\ AnsweredPolicyStands'
  BY Zenon DEF FinishWork, BundleInv, QuittanceIsEarned, AnsweredVerdictStands, AnsweredPolicyStands
<1> QED BY Zenon, <1>2, <1>3, <1>4 DEF BundleInv

\* A context may come at any time.
LEMMA ContextKeeps ==
    ASSUME BundleInv, CreateExecutionContext
    PROVE  BundleInv'
<1>1. BundleShape'
  BY BundleAssumption DEF CreateExecutionContext, BundleInv, BundleShape
<1>2. UNCHANGED <<workState, policy, told, outcome, vreq, get, bundles, receipts>>
  BY Zenon DEF CreateExecutionContext
<1> QED BY <1>1, <1>2, Zenon
        DEF BundleInv, VerdictsAreMeant, ReadsStand, AnswersRest, BundlesAreSealed, ToldAreContexts,
            QuittanceIsEarned, AnsweredVerdictStands, AnsweredPolicyStands

\* A policy decision is written once.
LEMMA CorrelationKeeps ==
    ASSUME BundleInv, NEW c \in 1..MaxContexts, NEW pdr \in PDR, RecordExecutionPolicyCorrelation(c, pdr)
    PROVE  BundleInv'
<1> DEFINE row == IF policy[c] = NoPDR THEN pdr ELSE policy[c]
<1>1. /\ policy' = [policy EXCEPT ![c] = row]
      /\ told' = IF row = pdr THEN told \cup {<<c, pdr>>} ELSE told
      /\ UNCHANGED <<workState, contexts, outcome, vreq, get, bundles, receipts>>
  BY Zenon DEF RecordExecutionPolicyCorrelation
<1>2. policy \in [1..MaxContexts -> PDR \cup {NoPDR}] /\ row \in PDR
  BY Zenon DEF BundleInv, BundleShape
<1>3. \A d \in 1..MaxContexts : policy[d] # NoPDR => policy'[d] = policy[d]
  BY Zenon, <1>1, <1>2
<1>4. BundleShape'
  BY Zenon, <1>1, <1>2 DEF BundleInv, BundleShape
<1>5. ReadsStand'
  <2>1. \A s \in BundleSubject : s.ctx \in 0..MaxContexts BY Zenon DEF BundleSubject
  <2>2. \A d \in 0..MaxContexts : d # 0 => d \in 1..MaxContexts BY BundleAssumption
  <2>3. get' = get /\ workState' = workState /\ ReadsStand BY Zenon, <1>1 DEF BundleInv
  <2> QED BY ZenonT(60), <1>3, <2>1, <2>2, <2>3 DEF ReadsStand
<1>7. AnsweredPolicyStands' /\ ToldAreContexts'
  <2>1. \A t \in told : t[1] \in 1..MaxContexts /\ t[2] \in PDR /\ policy[t[1]] = t[2]
    BY Zenon DEF BundleInv, AnsweredPolicyStands, ToldAreContexts
  <2>2. \A t \in told : policy'[t[1]] = t[2]
    BY Zenon, <1>3, <2>1, AbsenceAssumption
  <2>3. row = pdr => policy'[c] = pdr
    BY Zenon, <1>1, <1>2
  <2> QED BY <1>1, <2>1, <2>2, <2>3 DEF AnsweredPolicyStands, ToldAreContexts
<1>8. VerdictsAreMeant' /\ AnswersRest' /\ BundlesAreSealed' /\ QuittanceIsEarned' /\ AnsweredVerdictStands'
  BY Zenon, <1>1 DEF BundleInv, VerdictsAreMeant, AnswersRest, BundlesAreSealed, QuittanceIsEarned, AnsweredVerdictStands
<1> QED BY Zenon, <1>4, <1>5, <1>7, <1>8 DEF BundleInv

\* The requests of a verdict: the first INSERT stands.
LEMMA VerdictKeeps ==
    ASSUME BundleInv, NEW q \in VRequest, NEW verdicts \in SUBSET Verdict, VerdictStep(q, verdicts)
    PROVE  BundleInv'
<1>1. UNCHANGED <<workState, contexts, policy, told, get, bundles, receipts>>
  BY Zenon DEF VerdictStep, IngestVerdict, ReadVerdict, InsertVerdict, VerdictUnchanged
<1>2. BundleShape' /\ VerdictsAreMeant' /\ (outcome # NoVerdict => outcome' = outcome) /\ AnsweredVerdictStands'
  <2>1. CASE \E v \in verdicts : IngestVerdict(q, v)
    BY <1>1, <2>1 DEF IngestVerdict, BundleInv, BundleShape, VerdictsAreMeant, AnsweredVerdictStands
  <2>2. CASE ReadVerdict(q)
    BY ZenonT(60), <1>1, <2>2 DEF ReadVerdict, VStep, BundleInv, BundleShape, VerdictsAreMeant, AnsweredVerdictStands
  <2>3. CASE InsertVerdict(q)
    <3>1. vreq[q].verdict \in Verdict
      BY Zenon, <2>3 DEF InsertVerdict, BundleInv, VerdictsAreMeant
    <3>2. outcome = NoVerdict => \A p \in VRequest : vreq[p].pc # "saved"
      BY Zenon, AbsenceAssumption DEF BundleInv, AnsweredVerdictStands, VerdictsAreMeant
    <3> QED BY <1>1, <2>3, <3>1, <3>2 DEF InsertVerdict, VStep, BundleInv, BundleShape, VerdictsAreMeant, AnsweredVerdictStands
  <2> QED BY Zenon, <2>1, <2>2, <2>3 DEF VerdictStep
<1>3. AnswersRest' /\ QuittanceIsEarned'
  BY Zenon, <1>1, <1>2 DEF BundleInv, AnswersRest, QuittanceIsEarned
<1>4. ReadsStand' /\ BundlesAreSealed' /\ ToldAreContexts' /\ AnsweredPolicyStands'
  BY Zenon, <1>1 DEF BundleInv, ReadsStand, BundlesAreSealed, ToldAreContexts, AnsweredPolicyStands
<1> QED BY Zenon, <1>2, <1>3, <1>4 DEF BundleInv

\* The reads of a GET, its signature and its answer.
LEMMA GetKeeps ==
    ASSUME BundleInv, NEW g \in Get,
           ReadWork(g) \/ ReadContexts(g) \/ ReadCorrelation(g) \/ Sign(g) \/ AnswerEvidence(g)
    PROVE  BundleInv'
<1>1. UNCHANGED <<workState, contexts, policy, told, outcome, vreq, receipts>>
  BY Zenon DEF ReadWork, ReadContexts, ReadCorrelation, Sign, AnswerEvidence, GetUnchanged
<1>2. VerdictsAreMeant' /\ ToldAreContexts' /\ QuittanceIsEarned' /\ AnsweredVerdictStands' /\ AnsweredPolicyStands'
  BY Zenon, <1>1 DEF BundleInv, VerdictsAreMeant, ToldAreContexts, QuittanceIsEarned, AnsweredVerdictStands, AnsweredPolicyStands
<1>3. get \in [Get -> GetRecord]
  BY Zenon DEF BundleInv, BundleShape
<1> DEFINE Later == {"contexts", "correlation", "sign", "verdict", "answered"}
<1>4. ASSUME NEW pc \in {"not_terminal"} \cup Later, NEW content \in BundleSubject \cup {NoBundle},
             GStep(g, pc, content), get[g].pc # "answered", pc # "answered",
             pc # "not_terminal" => /\ content \in BundleSubject /\ workState = content.work
                                    /\ content.pdr # NoPDR => content.ctx # 0 /\ policy[content.ctx] = content.pdr
                                    /\ pc = "contexts" => content.pdr = NoPDR
      PROVE  BundleShape' /\ ReadsStand' /\ AnswersRest'
  <2>1. /\ \A h \in Get \ {g} : get'[h] = get[h]
        /\ get'[g].pc = pc /\ get'[g].content = content /\ get'[g].view = get[g].view
    BY ZenonT(60), <1>3, <1>4 DEF GStep, GetRecord
  <2>2. BundleShape'
    <3>1. [get[g] EXCEPT !.pc = pc, !.content = content] \in GetRecord
      BY <1>3, <1>4, ZenonT(60) DEF GetRecord
    <3>2. get' = [get EXCEPT ![g] = [get[g] EXCEPT !.pc = pc, !.content = content]]
      BY <1>4, Zenon DEF GStep
    <3>3. get' \in [Get -> GetRecord]
      BY Zenon, <1>3, <3>1, <3>2
    <3> QED BY Zenon, <1>1, <3>3 DEF BundleInv, BundleShape
  <2>3. ReadsStand'
    BY SMTT(60), <1>1, <1>4, <2>1 DEF BundleInv, ReadsStand
  <2>4. AnswersRest'
    BY <1>1, <1>4, <2>1 DEF BundleInv, AnswersRest
  <2> QED BY Zenon, <2>2, <2>3, <2>4
<1>5. CASE ReadWork(g)
  <2>1. bundles' = bundles
    BY Zenon, <1>5 DEF ReadWork
  <2>2. CASE workState \in TerminalWork
    <3> DEFINE content == [work |-> workState, at |-> g, ctx |-> 0, pdr |-> NoPDR]
    <3>1. GStep(g, "contexts", content) /\ get[g].pc # "answered"
      BY Zenon, <1>5, <2>2 DEF ReadWork
    <3>2. content \in BundleSubject /\ content.work = workState /\ content.pdr = NoPDR
      BY <2>2, BundleAssumption DEF BundleSubject
    <3> HIDE DEF content
    <3>3. BundleShape' /\ ReadsStand' /\ AnswersRest'
      BY Zenon, <1>4, <3>1, <3>2
    <3> QED BY Zenon, <1>2, <2>1, <3>3 DEF BundleInv, BundlesAreSealed
  <2>3. CASE workState \notin TerminalWork
    <3>1. GStep(g, "not_terminal", NoBundle) /\ get[g].pc # "answered"
      BY Zenon, <1>5, <2>3 DEF ReadWork
    <3>2. BundleShape' /\ ReadsStand' /\ AnswersRest'
      BY Zenon, <1>4, <3>1
    <3> QED BY Zenon, <1>2, <2>1, <3>2 DEF BundleInv, BundlesAreSealed
  <2> QED BY Zenon, <2>2, <2>3
<1> DEFINE old == get[g].content
<1>6. get[g].pc \in Later =>
        /\ old \in BundleSubject /\ workState = old.work
        /\ old.pdr # NoPDR => old.ctx # 0 /\ policy[old.ctx] = old.pdr
  BY Zenon DEF BundleInv, ReadsStand
<1>7. CASE ReadContexts(g)
  <2> DEFINE content == [old EXCEPT !.ctx = contexts]
  <2>1. GStep(g, "correlation", content) /\ get[g].pc = "contexts" /\ bundles' = bundles
    BY Zenon, <1>7 DEF ReadContexts
  <2>2. old.pdr = NoPDR
    BY Zenon, <2>1 DEF BundleInv, ReadsStand
  <2>3. content \in BundleSubject /\ content.work = workState /\ content.pdr = NoPDR
    BY Zenon, <1>6, <2>1, <2>2 DEF BundleSubject, BundleInv, BundleShape
  <2> HIDE DEF content
  <2>4. BundleShape' /\ ReadsStand' /\ AnswersRest'
    BY Zenon, <1>4, <2>1, <2>3
  <2> QED BY Zenon, <1>2, <2>1, <2>4 DEF BundleInv, BundlesAreSealed
<1>8. CASE ReadCorrelation(g)
  <2> DEFINE pdr == IF old.pdr = NoPDR /\ old.ctx > 0 THEN policy[old.ctx] ELSE NoPDR
             content == [old EXCEPT !.pdr = pdr]
  <2>1. GStep(g, "sign", content) /\ get[g].pc = "correlation" /\ bundles' = bundles
    BY Zenon, <1>8 DEF ReadCorrelation
  <2>2. old \in BundleSubject /\ workState = old.work
    BY Zenon, <1>6, <2>1
  <2>3. old.ctx \in 0..MaxContexts /\ policy \in [1..MaxContexts -> PDR \cup {NoPDR}]
    BY ZenonT(60), <2>2 DEF BundleSubject, BundleInv, BundleShape
  <2>4. pdr \in PDR \cup {NoPDR} /\ (pdr # NoPDR => old.ctx # 0 /\ policy[old.ctx] = pdr)
    BY <2>3, BundleAssumption
  <2> HIDE DEF pdr
  <2>5. content \in BundleSubject /\ content.work = workState /\ content.pdr = pdr /\ content.ctx = old.ctx
    BY Zenon, <2>2, <2>4 DEF BundleSubject
  <2> HIDE DEF content
  <2>6. BundleShape' /\ ReadsStand' /\ AnswersRest'
    BY Zenon, <1>4, <2>1, <2>4, <2>5
  <2> QED BY Zenon, <1>2, <2>1, <2>6 DEF BundleInv, BundlesAreSealed
<1>9. CASE Sign(g)
  <2>1. GStep(g, "verdict", old) /\ get[g].pc = "sign" /\ bundles' = bundles \cup {Seal(old, "key")}
    BY Zenon, <1>9 DEF Sign
  <2>2. BundleShape' /\ ReadsStand' /\ AnswersRest'
    BY Zenon, <1>4, <1>6, <2>1
  <2>3. BundlesAreSealed'
    BY Zenon, <1>6, <2>1 DEF BundleInv, BundlesAreSealed
  <2> QED BY Zenon, <1>2, <2>2, <2>3 DEF BundleInv
<1>10. CASE AnswerEvidence(g)
  <2> DEFINE view == ProjectPlatformVerification(old, outcome)
  <2>1. /\ get[g].pc = "verdict" /\ bundles' = bundles
        /\ get' = [get EXCEPT ![g].pc = "answered", ![g].verdict = outcome, ![g].view = view]
    BY Zenon, <1>10 DEF AnswerEvidence
  <2>2. old \in BundleSubject /\ old.ctx \in Nat /\ outcome \in Verdict \cup {NoVerdict}
    BY <1>6, <2>1, BundleAssumption DEF BundleSubject, BundleInv, BundleShape
  <2>3. /\ view \in {"none", "provenance_gap", "pending", "verified", "failed"}
        /\ view = "verified" => old.pdr # NoPDR /\ outcome # NoVerdict /\ outcome.result = "passed"
        /\ view = "failed" => outcome # NoVerdict /\ outcome.result = "failed"
    BY <2>2 DEF ProjectPlatformVerification, Verdict
  <2> HIDE DEF view
  <2>4. /\ \A h \in Get \ {g} : get'[h] = get[h]
        /\ get'[g].pc = "answered" /\ get'[g].content = old /\ get'[g].view = view
    BY Zenon, <1>3, <2>1 DEF GetRecord
  <2>5. BundleShape'
    <3>1. [get[g] EXCEPT !.pc = "answered", !.verdict = outcome, !.view = view] \in GetRecord
      BY <1>3, <2>2, <2>3, ZenonT(60) DEF GetRecord
    <3>2. get' = [get EXCEPT ![g] = [get[g] EXCEPT !.pc = "answered", !.verdict = outcome, !.view = view]]
      BY <2>1, Zenon
    <3>3. get' \in [Get -> GetRecord]
      BY Zenon, <1>3, <3>1, <3>2
    <3> QED BY Zenon, <1>1, <3>3 DEF BundleInv, BundleShape
  <2> HIDE DEF old
  <2>6. ReadsStand'
    <3> SUFFICES ASSUME NEW h \in Get, get'[h].pc \notin {"new", "not_terminal"}
                 PROVE  /\ get'[h].content \in BundleSubject
                        /\ workState = get'[h].content.work
                        /\ get'[h].content.pdr # NoPDR =>
                             get'[h].content.ctx # 0 /\ policy[get'[h].content.ctx] = get'[h].content.pdr
                        /\ get'[h].pc = "contexts" => get'[h].content.pdr = NoPDR
      BY Zenon, <1>1 DEF ReadsStand
    <3>1. CASE h = g
      BY Zenon, <1>6, <2>1, <2>4, <3>1
    <3>2. CASE h # g
      BY Zenon, <2>4, <3>2 DEF BundleInv, ReadsStand
    <3> QED BY Zenon, <3>1, <3>2
  <2>7. AnswersRest'
    BY Zenon, <1>1, <2>3, <2>4 DEF BundleInv, AnswersRest
  <2> QED BY Zenon, <1>2, <2>1, <2>5, <2>6, <2>7 DEF BundleInv, BundlesAreSealed
<1> QED BY Zenon, <1>5, <1>7, <1>8, <1>9, <1>10

\* A receipt is issued on the verdict that stands.
LEMMA QuittanceKeeps ==
    ASSUME BundleInv, NEW b \in bundles, IssueQuittance(b)
    PROVE  BundleInv'
<1>1. UNCHANGED <<workState, contexts, policy, told, outcome, vreq, get, bundles>>
  BY Zenon DEF IssueQuittance, GetUnchanged
<1> DEFINE r == [id |-> Digest("sha256", <<b.id, outcome>>), work |-> b.subject.work,
                 result |-> outcome.result, failure |-> outcome.result = "failed"]
<1>2. receipts' = receipts \cup {r} /\ outcome # NoVerdict /\ (outcome.result = "passed" => b.subject.work = "SUCCEEDED")
  BY Zenon DEF IssueQuittance, Admissible
<1>3. r.result = outcome.result /\ r.work = b.subject.work /\ r.failure = (outcome.result = "failed")
  BY Zenon
<1> HIDE DEF r
<1>4. QuittanceIsEarned'
  BY <1>1, <1>2, <1>3, Zenon DEF BundleInv, QuittanceIsEarned
<1>5. BundleShape' /\ VerdictsAreMeant' /\ ReadsStand' /\ AnswersRest' /\ BundlesAreSealed' /\ ToldAreContexts'
      /\ AnsweredVerdictStands' /\ AnsweredPolicyStands'
  BY Zenon, <1>1 DEF BundleInv, BundleShape, VerdictsAreMeant, ReadsStand, AnswersRest, BundlesAreSealed, ToldAreContexts,
              AnsweredVerdictStands, AnsweredPolicyStands
<1> QED BY Zenon, <1>4, <1>5 DEF BundleInv

\* Every step keeps the invariant.
LEMMA NextBundle == BundleInv /\ [BundleNext(VRequest) \/ VerdictNext]_bundleVars => BundleInv'
<1> SUFFICES ASSUME BundleInv, [BundleNext(VRequest) \/ VerdictNext]_bundleVars PROVE BundleInv'
  BY Zenon
<1>1. CASE UNCHANGED bundleVars
  BY ZenonT(60), <1>1 DEF bundleVars, BundleInv, BundleShape, VerdictsAreMeant, ReadsStand, AnswersRest, BundlesAreSealed, ToldAreContexts,
              QuittanceIsEarned, AnsweredVerdictStands, AnsweredPolicyStands
<1>2. CASE VerdictNext
  BY Zenon, <1>2, FinishKeeps, VerdictKeeps DEF VerdictNext
<1>3. CASE BundleNext(VRequest)
  <2>1. CASE \E s \in {"SUCCEEDED", "FAILED"} : FinishWork(s)
    BY Zenon, <2>1, FinishKeeps DEF TerminalWork
  <2>2. CASE CreateExecutionContext
    BY Zenon, <2>2, ContextKeeps
  <2>3. CASE \E c \in 1..MaxContexts, pdr \in PDR : RecordExecutionPolicyCorrelation(c, pdr)
    BY Zenon, <2>3, CorrelationKeeps
  <2>4. CASE \E q \in VRequest : VerdictStep(q, {v \in Verdict : v.verifier = CHOOSE x \in Verifier : TRUE})
    BY Zenon, <2>4, VerdictKeeps
  <2>5. CASE \E g \in Get : ReadWork(g) \/ ReadContexts(g) \/ ReadCorrelation(g) \/ Sign(g) \/ AnswerEvidence(g)
    BY Zenon, <2>5, GetKeeps
  <2>6. CASE \E b \in bundles : IssueQuittance(b)
    BY Zenon, <2>6, QuittanceKeeps
  <2> QED BY Zenon, <1>3, <2>1, <2>2, <2>3, <2>4, <2>5, <2>6 DEF BundleNext
<1> QED BY Zenon, <1>1, <1>2, <1>3

\* The invariant holds throughout.
LEMMA BundleInvariance == BundleSpec => []BundleInv
  BY InitBundle, NextBundle, PTL DEF BundleSpec

\* For any number of GETs, verdicts and contexts: what an answer, a receipt or a bundle says is backed by records
\* that stand, although each was read at another moment, and a bundle verifies only as it was produced
\* (Produce, IssueQuittance, VerifyBundle).
THEOREM EvidenceStaysBacked == BundleSpec => []EvidenceIsBacked
<1>1. BundleInv => ViewIsBacked
  BY Zenon DEF BundleInv, ReadsStand, AnswersRest, ViewIsBacked
<1>2. BundleInv => DamageIsDetected
  BY Zenon, SealIsTight DEF BundleInv, BundlesAreSealed, DamageIsDetected
<1>3. BundleInv => EvidenceIsBacked
  BY Zenon, <1>1, <1>2 DEF BundleInv, EvidenceIsBacked
<1> QED BY <1>3, BundleInvariance, PTL

\* A verdict or a policy decision that was answered as recorded stands, whoever sends another one
\* (SaveVerificationVerdict, RecordExecutionPolicyCorrelation).
THEOREM AnsweredRecordsStand == BundleSpec => [](AnsweredVerdictStands /\ AnsweredPolicyStands)
<1>1. BundleInv => AnsweredVerdictStands /\ AnsweredPolicyStands
  BY Zenon DEF BundleInv
<1> QED BY <1>1, BundleInvariance, PTL

-----------------------------------------------------------------------------
(* The node cache: the replays of a key are replays of one run. *)

\* The run a hit shows is the one the cache records for the key.
IsTheEntry(x) ==
    LET e == cacheOf[KeyFromNode(x.node)]
    IN  e # NoEntry /\ e.node = x.ran /\ e.worker = x.by

\* An entry is an accepted result of a node with its very key; what a worker replays or
\* has replayed is the entry, which is still there.
CacheInv ==
    /\ cacheOf \in [Keys -> CacheEntry \cup {NoEntry}]
    /\ cAt \in [CWorker -> Execution \cup {Idle_}]
    /\ \A k \in Keys : cacheOf[k] # NoEntry =>
         KeyFromNode(cacheOf[k].node) = k /\ UsesCache(cacheOf[k].node) /\ cacheOf[k].accepted
    /\ \A w \in CWorker : cAt[w] # Idle_ =>
         /\ cAt[w].at \in {"look", "put"} => UsesCache(cAt[w].node)
         /\ cAt[w].at = "put" => cAt[w].ok
         /\ cAt[w].at \in {"look", "run"} => ~cAt[w].hit
         /\ cAt[w].hit => UsesCache(cAt[w].node) /\ IsTheEntry(cAt[w])
    /\ \A r \in cReplays :
         /\ r.node \in CNode /\ UsesCache(r.node) /\ IsTheEntry(r)

\* What a worker that takes a step must show of what it does next.
DoesSoundly(do) ==
    /\ do \in Execution
    /\ do.at \in {"look", "put"} => UsesCache(do.node)
    /\ do.at = "put" => do.ok
    /\ do.at \in {"look", "run"} => ~do.hit
    /\ do.hit => UsesCache(do.node) /\ IsTheEntry(do)

\* A step that changes what one worker does, and no entry.
LEMMA WorkerMoves ==
    ASSUME CacheInv, NEW w \in CWorker, NEW do, do = Idle_ \/ DoesSoundly(do), GoesTo(w, do),
           cacheOf' = cacheOf, cReplays' = cReplays
    PROVE CacheInv'
<1>1. do \in Execution \cup {Idle_}
  BY Zenon DEF DoesSoundly
<1>2. cAt' \in [CWorker -> Execution \cup {Idle_}] /\ cAt'[w] = do
  BY Zenon, <1>1 DEF GoesTo, CacheInv
<1>3. \A v \in CWorker : v # w => cAt'[v] = cAt[v]
  BY Zenon DEF GoesTo, CacheInv
<1> QED
  BY Zenon, <1>2, <1>3 DEF CacheInv, DoesSoundly, IsTheEntry

\* What a busy worker does.
LEMMA BusyDoes ==
    ASSUME CacheInv, NEW w \in CWorker, cAt[w] # Idle_
    PROVE DoesSoundly(cAt[w]) /\ KeyFromNode(cAt[w].node) \in Keys
<1>1. cAt[w] \in Execution /\ cAt[w].node \in CNode
  BY Zenon DEF CacheInv, Execution
<1> QED
  BY Zenon, <1>1 DEF CacheInv, DoesSoundly, Keys

\* A lease was granted.
LEMMA TakeKeeps ==
    ASSUME CacheInv, NEW w \in CWorker, NEW n \in CNode, Take(w, n)
    PROVE CacheInv'
<1> DEFINE do == Doing(IF UsesCache(n) THEN "look" ELSE "run", n)
<1>1. /\ do.at = (IF UsesCache(n) THEN "look" ELSE "run") /\ do.node = n /\ do.hit = FALSE
      /\ do \in Execution
  BY Zenon DEF Doing, Execution
<1>2. DoesSoundly(do)
  <2> HIDE DEF do
  <2> QED
    BY Zenon, <1>1 DEF DoesSoundly
<1>3. GoesTo(w, do) /\ cacheOf' = cacheOf /\ cReplays' = cReplays
  BY Zenon DEF Take
<1> HIDE DEF do
<1> QED
  BY Zenon, <1>2, <1>3, WorkerMoves

\* The lookup answers with an entry of the node's key.
LEMMA CacheLookupKeeps ==
    ASSUME CacheInv, NEW w \in CWorker, NEW answered \in BOOLEAN, CacheLookup(w, answered)
    PROVE CacheInv'
<1> DEFINE do == cAt[w]
           e == cacheOf[KeyFromNode(do.node)]
<1>1. DoesSoundly(do) /\ do.at = "look" /\ KeyFromNode(do.node) \in Keys
  BY Zenon, BusyDoes DEF CacheLookup, Busy
<1>2. do \in Execution /\ UsesCache(do.node)
  BY Zenon, <1>1 DEF DoesSoundly
<1>3. cacheOf' = cacheOf /\ cReplays' = cReplays
  BY Zenon DEF CacheLookup
<1>4. CASE answered /\ e # NoEntry
  <2> DEFINE new == [do EXCEPT !.at = "complete", !.hit = TRUE, !.ok = TRUE, !.ran = e.node, !.by = e.worker]
  <2>1. GoesTo(w, new)
    BY Zenon, <1>4 DEF CacheLookup
  <2>2. e \in CacheEntry /\ KeyFromNode(e.node) = KeyFromNode(do.node)
    BY Zenon, <1>1, <1>4 DEF CacheInv
  <2>3. e.node \in CNode /\ e.worker \in CWorker
    BY Zenon, <2>2 DEF CacheEntry
  <2>4. /\ new \in Execution
        /\ new.at = "complete" /\ new.node = do.node /\ new.ran = e.node /\ new.by = e.worker
    BY Zenon, <1>2, <2>3 DEF Execution
  <2>5. DoesSoundly(new)
    <3> HIDE DEF new
    <3> QED
      BY Zenon, <1>2, <1>4, <2>4 DEF DoesSoundly, IsTheEntry
  <2> HIDE DEF new
  <2> QED
    BY Zenon, <1>3, <2>1, <2>5, WorkerMoves
<1>5. CASE ~(answered /\ e # NoEntry)
  <2> DEFINE new == [do EXCEPT !.at = "run"]
  <2>1. GoesTo(w, new)
    BY Zenon, <1>5 DEF CacheLookup
  <2>2. /\ new \in Execution
        /\ new.at = "run" /\ new.node = do.node /\ new.ran = do.ran /\ new.hit = do.hit
    BY Zenon, <1>2 DEF Execution
  <2>3. DoesSoundly(new)
    <3> HIDE DEF new
    <3> QED
      BY Zenon, <1>1, <2>2 DEF DoesSoundly
  <2> HIDE DEF new
  <2> QED
    BY Zenon, <1>3, <2>1, <2>3, WorkerMoves
<1> QED
  BY Zenon, <1>4, <1>5

\* The node is run.
LEMMA RunNodeKeeps ==
    ASSUME CacheInv, NEW w \in CWorker, NEW ok \in BOOLEAN, RunNode(w, ok)
    PROVE CacheInv'
<1> DEFINE do == cAt[w]
           new == [do EXCEPT !.at = "complete", !.ok = ok, !.by = w]
<1>1. DoesSoundly(do) /\ do.at = "run"
  BY Zenon, BusyDoes DEF RunNode, Busy
<1>2. GoesTo(w, new) /\ cacheOf' = cacheOf /\ cReplays' = cReplays
  BY Zenon DEF RunNode
<1>3. /\ new \in Execution
      /\ new.at = "complete" /\ new.node = do.node /\ new.ran = do.ran /\ new.hit = do.hit
  BY Zenon, <1>1 DEF DoesSoundly, Execution
<1>4. DoesSoundly(new)
  <2> HIDE DEF new
  <2> QED
    BY Zenon, <1>1, <1>3 DEF DoesSoundly
<1> HIDE DEF new
<1> QED
  BY Zenon, <1>2, <1>4, WorkerMoves

\* The completion, and the replay it records.
LEMMA CompleteLeaseKeeps ==
    ASSUME CacheInv, NEW w \in CWorker, NEW yes \in BOOLEAN, CompleteLease(w, yes)
    PROVE CacheInv'
<1> DEFINE do == cAt[w]
           new == [do EXCEPT !.at = "put", !.ok = yes]
           to == IF PutsAfter(do, yes) THEN new ELSE Idle_
<1>1. DoesSoundly(do)
  BY Zenon, BusyDoes DEF CompleteLease, Busy
<1>2. GoesTo(w, to) /\ cacheOf' = cacheOf
  BY Zenon DEF CompleteLease
<1>3. /\ new \in Execution
      /\ new.at = "put" /\ new.node = do.node /\ new.hit = do.hit /\ new.ok = yes
  BY Zenon, <1>1 DEF DoesSoundly, Execution
<1>4. PutsAfter(do, yes) => DoesSoundly(new)
  <2> HIDE DEF new
  <2> QED
    BY Zenon, <1>1, <1>3 DEF DoesSoundly, PutsAfter
<1>5. to \in Execution \cup {Idle_} /\ (to = Idle_ \/ DoesSoundly(to))
  <2> HIDE DEF new
  <2> QED
    BY Zenon, <1>3, <1>4
<1>6. cAt' \in [CWorker -> Execution \cup {Idle_}] /\ cAt'[w] = to /\ \A v \in CWorker : v # w => cAt'[v] = cAt[v]
  <2> HIDE DEF to
  <2> QED
    BY Zenon, <1>2, <1>5 DEF GoesTo, CacheInv
<1>7. \A r \in cReplays' : r.node \in CNode /\ UsesCache(r.node) /\ IsTheEntry(r)
  <2> DEFINE added == [node |-> do.node, ran |-> do.ran, on |-> w, by |-> do.by]
  <2>1. cReplays' = IF yes /\ do.hit THEN cReplays \cup {added} ELSE cReplays
    BY Zenon DEF CompleteLease
  <2>2. added.node = do.node /\ added.ran = do.ran /\ added.by = do.by /\ do.node \in CNode
    BY Zenon, <1>1 DEF DoesSoundly, Execution
  <2> HIDE DEF added
  <2> QED
    BY Zenon, <1>1, <2>1, <2>2 DEF DoesSoundly, CacheInv, IsTheEntry
<1> HIDE DEF to
<1> QED
  BY Zenon, <1>2, <1>5, <1>6, <1>7 DEF CacheInv, DoesSoundly, IsTheEntry

\* The entry of an accepted run is stored under the key of its node, unless there is one.
LEMMA CachePutKeeps ==
    ASSUME CacheInv, NEW w \in CWorker, NEW delivered \in BOOLEAN, CachePut(w, delivered)
    PROVE CacheInv' /\ \A k \in Keys : cacheOf[k] # NoEntry => cacheOf'[k] = cacheOf[k]
<1> DEFINE do == cAt[w]
           k0 == KeyFromNode(do.node)
           e == [node |-> do.node, worker |-> w, accepted |-> do.ok]
<1>1. DoesSoundly(do) /\ do.at = "put" /\ k0 \in Keys
  BY Zenon, BusyDoes DEF CachePut, Busy
<1>2. do.node \in CNode /\ UsesCache(do.node) /\ do.ok
  BY Zenon, <1>1 DEF DoesSoundly, Execution
<1>3. cacheOf' = cacheOf \/ cacheOf' = [cacheOf EXCEPT ![k0] = IF cacheOf[k0] = NoEntry THEN e ELSE cacheOf[k0]]
  BY Zenon DEF CachePut, Insert
<1>4. GoesTo(w, Idle_) /\ cReplays' = cReplays
  BY Zenon DEF CachePut
<1>5. e \in CacheEntry /\ e.node = do.node /\ e.accepted
  BY Zenon, <1>1, <1>2 DEF DoesSoundly, Execution, CacheEntry
<1> HIDE DEF e
<1>6. cacheOf' \in [Keys -> CacheEntry \cup {NoEntry}]
  BY <1>1, <1>3, <1>5 DEF CacheInv
<1>7. \A k \in Keys : cacheOf'[k] = cacheOf[k] \/ (k = k0 /\ cacheOf[k] = NoEntry /\ cacheOf'[k] = e)
  BY Zenon, <1>1, <1>3 DEF CacheInv
<1>8. \A k \in Keys : cacheOf'[k] # NoEntry =>
        KeyFromNode(cacheOf'[k].node) = k /\ UsesCache(cacheOf'[k].node) /\ cacheOf'[k].accepted
  BY Zenon, <1>2, <1>5, <1>7 DEF CacheInv
<1>9. cAt' \in [CWorker -> Execution \cup {Idle_}] /\ cAt'[w] = Idle_ /\ \A v \in CWorker : v # w => cAt'[v] = cAt[v]
  BY Zenon, <1>4 DEF GoesTo, CacheInv
<1>10. ASSUME NEW x, x.node \in CNode, IsTheEntry(x) PROVE IsTheEntry(x)'
  <2>1. KeyFromNode(x.node) \in Keys
    BY Zenon, <1>10 DEF Keys
  <2> QED
    BY Zenon, <1>7, <1>10, <2>1 DEF IsTheEntry
<1>11. \A r \in cReplays' : r.node \in CNode /\ UsesCache(r.node) /\ IsTheEntry(r)'
  BY Zenon, <1>4, <1>10 DEF CacheInv
<1>12. \A v \in CWorker : cAt[v] # Idle_ => cAt[v].node \in CNode
  BY Zenon DEF CacheInv, Execution
<1>13. \A v \in CWorker : cAt'[v] # Idle_ /\ cAt'[v].hit => UsesCache(cAt'[v].node) /\ IsTheEntry(cAt[v])' /\ cAt'[v] = cAt[v]
  BY Zenon, <1>9, <1>10, <1>12 DEF CacheInv
<1> QED
  BY Zenon, <1>4, <1>6, <1>7, <1>8, <1>9, <1>11, <1>13 DEF CacheInv, IsTheEntry

\* Every step of the workers keeps it.
LEMMA CacheKept == CacheInv /\ [CacheNext]_cacheVars => CacheInv'
<1> SUFFICES ASSUME CacheInv, [CacheNext]_cacheVars PROVE CacheInv'
  BY Zenon
<1>1. CASE UNCHANGED cacheVars
  BY Zenon, <1>1 DEF cacheVars, CacheInv, IsTheEntry
<1> QED
  BY Zenon, <1>1, TakeKeeps, CacheLookupKeeps, RunNodeKeeps, CompleteLeaseKeeps, CachePutKeeps DEF CacheNext

\* It holds in every state.
LEMMA CacheInvariant == CacheSpec => []CacheInv
<1>1. CacheInit => CacheInv
  BY Zenon DEF CacheInit, CacheInv
<1> QED
  BY <1>1, CacheKept, PTL DEF CacheSpec

\* For every set of nodes and workers: all replays of a key show the one run the cache
\* records for it, of a node that agrees with the replaying one on every field of the key,
\* a field left out counting as empty (KeyFromNode, Put, execute).
THEOREM ReplaysAgree == CacheSpec => []ReplayIsTheKeysRun
<1>1. CacheInv => ReplayIsTheKeysRun
  <2> SUFFICES ASSUME CacheInv, NEW r \in cReplays
               PROVE  IsTheEntry(r) /\ \A f \in KeyFields : KeyValue(r.node, f) = KeyValue(r.ran, f)
    BY Zenon DEF ReplayIsTheKeysRun, IsTheEntry
  <2>1. IsTheEntry(r) /\ KeyFromNode(r.node) \in Keys
    BY Zenon DEF CacheInv, Keys
  <2>2. KeyFromNode(r.ran) = KeyFromNode(r.node)
    BY Zenon, <2>1 DEF CacheInv, IsTheEntry
  <2>3. ASSUME NEW n
        PROVE  /\ KeyFromNode(n).run = KeyValue(n, "run") /\ KeyFromNode(n).env = KeyValue(n, "env")
               /\ KeyFromNode(n).sha = KeyValue(n, "sha")
    <3>1. /\ KeyFromNode(n).run = IF "run" \in Allowed(n) THEN n.run ELSE ""
          /\ KeyFromNode(n).env = IF "env" \in Allowed(n) THEN n.env ELSE ""
          /\ KeyFromNode(n).sha = IF "sha" \in Allowed(n) THEN n.sha ELSE ""
      BY Zenon DEF KeyFromNode
    <3>2. \A f \in KeyFields : f \in Allowed(n) <=> n.inputs = {} \/ f \in n.inputs
      BY Zenon DEF Allowed
    <3>3. "run" \in KeyFields /\ "env" \in KeyFields /\ "sha" \in KeyFields
      BY Zenon DEF KeyFields
    <3> QED
      BY Zenon, <3>1, <3>2, <3>3 DEF KeyValue
  <2>4. \A f \in KeyFields : KeyValue(r.node, f) = KeyValue(r.ran, f)
    BY Zenon, <2>2, <2>3 DEF KeyFields
  <2> QED
    BY Zenon, <2>1, <2>4
<1> QED
  BY <1>1, CacheInvariant, PTL

\* Whatever is stored was accepted before, and no node with secrets left it or is
\* answered from it (execute).
THEOREM OnlyAcceptedIsCached == CacheSpec => [](CachedIsAccepted /\ SecretsAreNotCached)
<1>1. CacheInv => CachedIsAccepted /\ SecretsAreNotCached
  BY Zenon DEF CacheInv, CachedIsAccepted, SecretsAreNotCached, Entries, UsesCache
<1> QED
  BY <1>1, CacheInvariant, PTL

\* The first entry of a key stays, whichever workers race to store theirs (CachePut).
THEOREM FirstEntryStays == CacheSpec => EntryIsStable
<1>1. ASSUME CacheInv, [CacheNext]_cacheVars
      PROVE [\A k \in Keys : cacheOf[k] # NoEntry => cacheOf'[k] = cacheOf[k]]_cacheVars
  <2>1. CASE UNCHANGED cacheVars
    BY Zenon, <2>1
  <2>2. ASSUME NEW w \in CWorker, NEW yes \in BOOLEAN, CachePut(w, yes)
        PROVE \A k \in Keys : cacheOf[k] # NoEntry => cacheOf'[k] = cacheOf[k]
    BY Zenon, <1>1, <2>2, CachePutKeeps
  <2>3. ASSUME NEW w \in CWorker, NEW yes \in BOOLEAN, CacheLookup(w, yes) \/ RunNode(w, yes) \/ CompleteLease(w, yes)
        PROVE cacheOf' = cacheOf
    BY Zenon, <2>3 DEF CacheLookup, RunNode, CompleteLease
  <2>4. ASSUME NEW w \in CWorker, NEW n \in CNode, Take(w, n) PROVE cacheOf' = cacheOf
    BY Zenon, <2>4 DEF Take
  <2> QED
    BY Zenon, <1>1, <2>1, <2>2, <2>3, <2>4 DEF CacheNext
<1> QED
  BY <1>1, CacheInvariant, PTL DEF CacheSpec, EntryIsStable

-----------------------------------------------------------------------------
(* The release rings: stable is entered from a soaked beta. *)

\* The rings and their places.
LEMMA RingNumbers ==
    /\ Ring = {"internal", "alpha", "beta", "stable"}
    /\ RingIndex("internal") = 1 /\ RingIndex("alpha") = 2 /\ RingIndex("beta") = 3 /\ RingIndex("stable") = 4
<1>1. \A i \in 1..4 : i \in {1, 2, 3, 4}
  OBVIOUS
<1>2. /\ RingOrder[1] = "internal" /\ RingOrder[2] = "alpha" /\ RingOrder[3] = "beta" /\ RingOrder[4] = "stable"
  BY Zenon DEF RingOrder
<1>3. Ring = {"internal", "alpha", "beta", "stable"}
  BY <1>1, <1>2 DEF Ring
<1>4. ASSUME NEW k \in 1..4 PROVE RingIndex(RingOrder[k]) = k
  <2>1. \A i \in 1..4 : RingOrder[i] = RingOrder[k] => i = k
    BY Zenon, <1>1, <1>2
  <2> QED
    BY Zenon, <2>1 DEF RingIndex
<1>5. 1 \in 1..4 /\ 2 \in 1..4 /\ 3 \in 1..4 /\ 4 \in 1..4
  OBVIOUS
<1> QED
  BY Zenon, <1>2, <1>3, <1>4, <1>5

Move == Ring \X Ring \X Nat
ReleaseRecord == [ring : Ring, stoppable : BOOLEAN, soak : [Ring -> Nat \cup {NoStamp}], log : Seq(Move)]

\* The stamp of beta is the time of the last entry into beta, whichever way it was entered.
SoakInv == release \in ReleaseRecord /\ rnow \in Nat /\ inBeta = release.soak["beta"]

\* A release that moved is in the ring it moved to, with the stamp of that move.
LEMMA MovedRelease ==
    ASSUME release \in ReleaseRecord, NEW target \in Ring, NEW at \in Nat, NEW log \in Seq(Move),
           release' = [release EXCEPT !.ring = target, !.soak[target] = at, !.log = log]
    PROVE  /\ release' \in ReleaseRecord /\ release'.ring = target /\ release'.log = log
           /\ release'.soak[target] = at /\ \A r \in Ring \ {target} : release'.soak[r] = release.soak[r]
BY Zenon DEF ReleaseRecord

\* Advance: to the next ring, with a new stamp; to stable only after the soak.
LEMMA AdvanceStep ==
    ASSUME SoakInv, NEW target \in Ring, NEW at \in Nat, NEW frozen, Advance(target, at, frozen)
    PROVE  /\ SoakInv' /\ release'.ring = target /\ release'.log = release.log /\ Valid(release')
           /\ RingIndex(target) = RingIndex(release.ring) + 1
           /\ target = "stable" => Soaked(release, at) /\ release'.soak["stable"] = at
<1>1. release' = [release EXCEPT !.ring = target, !.soak[target] = at] /\ release \in ReleaseRecord
  BY Zenon DEF Advance, SoakInv
<1>2. release' = [release EXCEPT !.ring = target, !.soak[target] = at, !.log = release.log]
  BY Zenon, <1>1 DEF ReleaseRecord
<1>3. release.log \in Seq(Move) /\ release.soak \in [Ring -> Nat \cup {NoStamp}]
  BY Zenon, <1>1 DEF ReleaseRecord
<1>4. /\ release' \in ReleaseRecord /\ release'.ring = target /\ release'.log = release.log
      /\ release'.soak[target] = at /\ \A r \in Ring \ {target} : release'.soak[r] = release.soak[r]
  BY ZenonT(60), <1>1, <1>2, <1>3, MovedRelease
<1>5. inBeta' = (IF target = "beta" THEN at ELSE inBeta) /\ rnow' = rnow /\ "beta" \in Ring
  BY Zenon, RingNumbers DEF Advance
<1>6. SoakInv'
  BY Zenon, <1>4, <1>5 DEF SoakInv
<1> QED
  BY Zenon, <1>4, <1>6 DEF Advance

\* Revert: to a lower ring, with a new stamp.
LEMMA RevertStep ==
    ASSUME SoakInv, NEW target \in Ring, Revert(target)
    PROVE  /\ SoakInv' /\ release'.ring = target /\ release'.log = Append(release.log, <<release.ring, target, rnow>>)
           /\ Valid(release') /\ RingIndex(target) < RingIndex(release.ring)
<1> DEFINE log == Append(release.log, <<release.ring, target, rnow>>)
<1>1. release' = [release EXCEPT !.ring = target, !.soak[target] = rnow, !.log = log] /\ release \in ReleaseRecord /\ rnow \in Nat
  BY Zenon DEF Revert, SoakInv
<1>2. release.log \in Seq(Move) /\ <<release.ring, target, rnow>> \in Move
  BY Zenon, <1>1 DEF ReleaseRecord, Move
<1>3. log \in Seq(Move)
  BY Zenon, <1>2, AppendProperties
<1> HIDE DEF log
<1>4. /\ release' \in ReleaseRecord /\ release'.ring = target /\ release'.log = log
      /\ release'.soak[target] = rnow /\ \A r \in Ring \ {target} : release'.soak[r] = release.soak[r]
  BY Zenon, <1>1, <1>3, MovedRelease
<1>5. inBeta' = (IF target = "beta" THEN rnow ELSE inBeta) /\ rnow' = rnow /\ "beta" \in Ring
  BY Zenon, RingNumbers DEF Revert
<1>6. SoakInv'
  BY Zenon, <1>1, <1>4, <1>5 DEF SoakInv
<1> QED
  BY Zenon, <1>4, <1>6 DEF Revert, log

\* Nothing has been released at first.
LEMMA SoakInitially == ReleaseInit => SoakInv
<1> SUFFICES ASSUME ReleaseInit PROVE SoakInv
  BY Zenon
<1>1. <<>> \in Seq(Move)
  BY Zenon, EmptySeq
<1>2. PICK r \in Ring, k \in BOOLEAN :
        release = [ring |-> r, stoppable |-> k, soak |-> [x \in Ring |-> NoStamp], log |-> <<>>]
  BY DEF ReleaseInit
<1>3. release \in ReleaseRecord /\ release.soak["beta"] = NoStamp
  BY Zenon, <1>1, <1>2, RingNumbers DEF ReleaseRecord
<1> QED
  BY Zenon, <1>3 DEF ReleaseInit, SoakInv

\* Every step keeps the stamp, and enters stable from a soaked beta only.
LEMMA SoakKept ==
    ASSUME SoakInv, [ReleaseNext]_releaseVars
    PROVE  /\ SoakInv'
           /\ release'.ring = "stable" /\ release.ring # "stable" =>
                /\ release.ring = "beta"
                /\ inBeta # NoStamp /\ release'.soak["stable"] - inBeta >= BetaSoakHours
           /\ release' # release =>
                /\ Valid(release')
                /\ \/ RingIndex(release'.ring) = RingIndex(release.ring) + 1 /\ release'.log = release.log
                   \/ /\ RingIndex(release'.ring) < RingIndex(release.ring)
                      /\ release'.log = Append(release.log, <<release.ring, release'.ring, rnow>>)
<1> DEFINE Goal == /\ SoakInv'
                   /\ release'.ring = "stable" /\ release.ring # "stable" =>
                        /\ release.ring = "beta"
                        /\ inBeta # NoStamp /\ release'.soak["stable"] - inBeta >= BetaSoakHours
                   /\ release' # release =>
                        /\ Valid(release')
                        /\ \/ RingIndex(release'.ring) = RingIndex(release.ring) + 1 /\ release'.log = release.log
                           \/ /\ RingIndex(release'.ring) < RingIndex(release.ring)
                              /\ release'.log = Append(release.log, <<release.ring, release'.ring, rnow>>)
<1>0. release.ring \in Ring
  BY Zenon DEF SoakInv, ReleaseRecord
<1>1. ASSUME NEW target \in Ring, NEW at \in {rnow - 1, rnow}, NEW frozen \in BOOLEAN, at >= 0, Advance(target, at, frozen)
      PROVE  Goal
  <2>1. at \in Nat
    BY <1>1 DEF SoakInv
  <2>2. /\ SoakInv' /\ release'.ring = target /\ release'.log = release.log /\ Valid(release')
        /\ RingIndex(target) = RingIndex(release.ring) + 1
        /\ target = "stable" => Soaked(release, at) /\ release'.soak["stable"] = at
    BY Zenon, <1>1, <2>1, AdvanceStep
  <2>3. target = "stable" => release.ring = "beta"
    BY <1>0, <2>2, RingNumbers
  <2>4. target = "stable" => inBeta # NoStamp /\ at - inBeta >= BetaSoakHours
    BY Zenon, <2>2, <2>3 DEF Soaked, SoakInv
  <2> QED
    BY Zenon, <2>2, <2>3, <2>4
<1>2. ASSUME NEW target \in Ring, Revert(target)
      PROVE  Goal
  <2>1. /\ SoakInv' /\ release'.ring = target /\ release'.log = Append(release.log, <<release.ring, target, rnow>>)
        /\ Valid(release') /\ RingIndex(target) < RingIndex(release.ring)
    BY Zenon, <1>2, RevertStep
  <2>2. target # "stable"
    BY <1>0, <2>1, RingNumbers
  <2> QED
    BY Zenon, <2>1, <2>2
<1>3. CASE ReleaseTick \/ UNCHANGED releaseVars
  BY <1>3 DEF ReleaseTick, releaseVars, SoakInv
<1> QED
  BY Zenon, <1>1, <1>2, <1>3 DEF ReleaseNext

\* The invariant holds throughout.
LEMMA SoakInvariant == ReleaseSpec => []SoakInv
<1>1. SoakInv /\ [ReleaseNext]_releaseVars => SoakInv'
  BY Zenon, SoakKept
<1> QED
  BY <1>1, SoakInitially, PTL DEF ReleaseSpec

\* For every soak time: a release enters stable from beta only, after the full soak
\* since it last came into beta, also when a revert brought it there (Advance).
THEOREM StableComesFromSoakedBeta == ReleaseSpec => StableIsSoaked
<1>1. SoakInv /\ [ReleaseNext]_releaseVars =>
        [release'.ring = "stable" /\ release.ring # "stable" =>
           /\ release.ring = "beta"
           /\ inBeta # NoStamp /\ release'.soak["stable"] - inBeta >= BetaSoakHours]_releaseVars
  BY Zenon, SoakKept
<1> QED
  BY <1>1, SoakInvariant, PTL DEF ReleaseSpec, StableIsSoaked

\* Every move is one step up or a logged step down, and what leaves internal can be
\* stopped (Advance, Revert, Validate).
THEOREM RingMovesAreLawful == ReleaseSpec => MovesAreLawful
<1>1. SoakInv /\ [ReleaseNext]_releaseVars =>
        [release' # release =>
           /\ release'.ring # "internal" => release'.stoppable
           /\ \/ RingIndex(release'.ring) = RingIndex(release.ring) + 1 /\ release'.log = release.log
              \/ /\ RingIndex(release'.ring) < RingIndex(release.ring)
                 /\ release'.log = Append(release.log, <<release.ring, release'.ring, rnow>>)]_releaseVars
  BY Zenon, SoakKept DEF Valid
<1> QED
  BY <1>1, SoakInvariant, PTL DEF ReleaseSpec, MovesAreLawful

=============================================================================
