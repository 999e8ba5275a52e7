--------------------------- MODULE BrainAdmission ---------------------------
(***************************************************************************)
(* The admission gate of the knowledge namespace (Admit, packages/brain/   *)
(* governance.go): the kind of the content, the shape of the evidence it   *)
(* cites, and the scan of the whole content tree for keys that claim       *)
(* personal context or authority.                                          *)
(*                                                                         *)
(* The content is a graph: a Go value may hold a pointer, map or slice     *)
(* that leads back to an ancestor, and one value may be held twice.  A     *)
(* container maps its keys to nothing, to a scalar, or to a container; the *)
(* index of a slice is a key that claims nothing.                          *)
(***************************************************************************)
EXTENDS Naturals, FiniteSets

CONSTANTS Container,      \* the containers of the content
          Root,           \* the outermost one
          PlainKey, PersonalMarker, AuthorityMarker,   \* disjoint sets of keys
          Absent, Scalar

ASSUME AdmissionAssumption ==
    /\ Root \in Container
    /\ PersonalMarker \cap AuthorityMarker = {}
    /\ PlainKey \cap (PersonalMarker \cup AuthorityMarker) = {}

VARIABLES tree,      \* the content of the admission
          admission, \* the kind and the evidence it claims
          verdict    \* what Admit answered

admissionVars == <<tree, admission, verdict>>

Key == PlainKey \cup PersonalMarker \cup AuthorityMarker

\* KnowledgeKind, and one kind that is not.
DurableKind == {"settled_evidence", "quittance", "promoted_know_how"}

\* The evidence of an admission: none, one without the shape evidence:<layer>/<id>, and
\* two layers of it.
EvidenceShape == {"none", "malformed", "bundle", "quittance"}

AdmissionInit ==
    /\ tree \in [Container -> [Key -> Container \cup {Absent, Scalar}]]
    /\ admission \in [kind : DurableKind \cup {"live_note"}, evidence : EvidenceShape]
    /\ verdict = "pending"

\* Faulty variant of ScanValue: the top level only.
ScanValueTop(n, markers, seen) == \E k \in markers : tree[n][k] # Absent

RECURSIVE ScanValue(_, _, _)

\* scanValue: depth first, with the ancestors in seen so that a cycle ends.
ScanValue(n, markers, seen) ==
    /\ n \notin seen
    /\ \E k \in Key :
         /\ tree[n][k] # Absent
         /\ \/ k \in markers
            \/ tree[n][k] \in Container /\ ScanValue(tree[n][k], markers, seen \cup {n})

\* parseEvidenceRef.
WellShaped(evidence) == evidence \in {"bundle", "quittance"}

\* Admit: the first law that is violated answers.
Admit ==
    LET Refusals ==
          << <<admission.kind \notin DurableKind, "ErrIneligibleKind">>,
             <<admission.evidence = "none", "ErrNoEvidence">>,
             <<~WellShaped(admission.evidence), "ErrEvidenceShape">>,
             <<admission.kind = "quittance" /\ admission.evidence # "quittance", "ErrQuittanceForgery">>,
             <<ScanValue(Root, PersonalMarker, {}), "ErrPersonalContext">>,
             <<ScanValue(Root, AuthorityMarker, {}), "ErrAuthoritySubstitution">> >>
        violated == {i \in 1..6 : Refusals[i][1]}
    IN IF violated = {} THEN "admitted"
       ELSE Refusals[CHOOSE i \in violated : \A j \in violated : i <= j][2]

AdmitStep ==
    /\ verdict = "pending"
    /\ verdict' = Admit
    /\ UNCHANGED <<tree, admission>>

-----------------------------------------------------------------------------
\* The containers that are part of the content.
Held ==
    {n \in Container :
        \A S \in SUBSET Container :
            /\ Root \in S
            /\ \A m \in S, k \in Key : tree[m][k] \in Container => tree[m][k] \in S
            => n \in S}

\* Nothing is admitted that carries a marker anywhere in its content, at whatever depth
\* and through whatever sharing or cycle it is reached, or that is not of a durable kind;
\* and content without a marker is never refused for one.
AdmissionIsClean ==
    LET carries(markers) == \E n \in Held, k \in markers : tree[n][k] # Absent
    IN /\ verdict = "admitted" =>
            admission.kind \in DurableKind /\ ~carries(PersonalMarker) /\ ~carries(AuthorityMarker)
       /\ verdict = "ErrPersonalContext" => carries(PersonalMarker)
       /\ verdict = "ErrAuthoritySubstitution" => carries(AuthorityMarker) /\ ~carries(PersonalMarker)

=============================================================================
