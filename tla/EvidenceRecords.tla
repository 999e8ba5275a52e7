--------------------------- MODULE EvidenceRecords ---------------------------
(***************************************************************************)
(* The snapshots of policy and context taken before an attempt, full and   *)
(* partial, as they are carried in evidence records (services/evidence/    *)
(* preaction_snapshot.go, preaction_snapshot_partial.go), the seal of a    *)
(* record (packages/workgraph/evidence_hash.go), and the reference made of *)
(* a tool's receipt (tool_receipt.go).                                     *)
(*                                                                         *)
(* A record is carried through storage, where any part of it may come back *)
(* other than it was written.  The seal covers identity and outcome; the   *)
(* details have a digest of their own, which is stored among them and may  *)
(* be recomputed with them.  A hash is the tagged value it is taken of.    *)
(***************************************************************************)
EXTENDS Naturals, FiniteSets

CONSTANTS SNode, SAttempt, Level,   \* node and attempt ids; the values of a policy dimension
          NoSeal

\* A record without a seal is told from one with.
ASSUME SealAssumption ==
    NoSeal \notin {<<"sha256", m, b, "policy", result>> : m \in SNode, b \in SAttempt, result \in {"skip", "pass"}}

VARIABLES record,    \* the record as it is stored
          written,   \* ghost: the record as it was made
          decoded    \* what a reader makes of it

recordVars == <<record, written, decoded>>

Kind == {"pre_action_snapshot", "pre_action_snapshot_partial"}

\* What a snapshot holds: a partial one has the retry ceiling only.
Snapshot(kind, n, a, retry, confidence) ==
    IF kind = "pre_action_snapshot"
    THEN [node |-> n, attempt |-> a, retry |-> retry, confidence |-> confidence]
    ELSE [node |-> n, attempt |-> a, retry |-> retry]

\* preActionDigest and preActionPartialDigest: the partial one covers the kind as well.
SnapshotDigest(kind, snapshot) ==
    IF kind = "pre_action_snapshot" THEN <<"sha256", snapshot>> ELSE <<"sha256", kind, snapshot>>

\* RecomputedHash: identity and outcome, not the details.
RecomputedHash(r) == <<"sha256", r.node, r.attempt, r.type, r.result>>

\* Capture, and EvidenceRecord: policy/skip, sealed.
Capture(kind, snapshot) ==
    LET r == [node |-> snapshot.node, attempt |-> snapshot.attempt, type |-> "policy", result |-> "skip",
              kind |-> kind, details |-> snapshot, digest |-> SnapshotDigest(kind, snapshot)]
    IN [node |-> r.node, attempt |-> r.attempt, type |-> r.type, result |-> r.result, kind |-> r.kind,
        details |-> r.details, digest |-> r.digest, seal |-> RecomputedHash(r)]

Undecoded(why) == [kind |-> why, snapshot |-> NoSeal]

RecordsInit ==
    /\ \E kind \in Kind, n \in SNode, a \in SAttempt, retry, confidence \in Level :
         record = Capture(kind, Snapshot(kind, n, a, retry, confidence))
    /\ written = record
    /\ decoded = Undecoded("pending")

\* VerifyEvidence.
VerifyEvidence(r) ==
    CASE r.seal = NoSeal -> "unsealed"
      [] r.seal = RecomputedHash(r) -> "ok"
      [] OTHER -> "tampered"

\* What json.Unmarshal makes of the details for a kind: the fields it knows, zero for one
\* that is not there.
Reads(kind, details) ==
    IF kind = "pre_action_snapshot_partial"
    THEN [node |-> details.node, attempt |-> details.attempt, retry |-> details.retry]
    ELSE [node |-> details.node, attempt |-> details.attempt, retry |-> details.retry,
          confidence |-> IF "confidence" \in DOMAIN details THEN details.confidence ELSE 0]

\* Some part of the record is not as it was; the digest may be made to fit the details again.
Alter ==
    /\ decoded.kind = "pending"
    /\ \/ \E n \in SNode : record' = [record EXCEPT !.node = n]
       \/ \E a \in SAttempt : record' = [record EXCEPT !.attempt = a]
       \/ \E result \in {"skip", "pass"} : record' = [record EXCEPT !.result = result]
       \/ \E kind \in Kind : record' = [record EXCEPT !.kind = kind]
       \/ \E retry \in Level : record' = [record EXCEPT !.details.retry = retry]
       \/ \E n \in SNode : record' = [record EXCEPT !.details.node = n]
       \/ \E a \in SAttempt : record' = [record EXCEPT !.details.attempt = a]
       \/ record' = [record EXCEPT !.digest = SnapshotDigest(record.kind, Reads(record.kind, record.details))]
       \/ record' = [record EXCEPT !.seal = NoSeal]
    /\ UNCHANGED <<written, decoded>>

\* DecodePreActionSnapshot and DecodePreActionSnapshotPartial.
Decodes(r, kind) ==
    /\ r.type = "policy" /\ r.result = "skip" /\ r.kind = kind
    /\ VerifyEvidence(r) # "tampered"
    /\ r.digest = SnapshotDigest(kind, Reads(kind, r.details))
    /\ r.details.node = r.node /\ r.details.attempt = r.attempt

Decode(kind) ==
    /\ decoded.kind = "pending"
    /\ decoded' = IF Decodes(record, kind) THEN [kind |-> kind, snapshot |-> Reads(kind, record.details)]
                  ELSE Undecoded("refused")
    /\ UNCHANGED <<record, written>>

RecordsNext == Alter \/ \E kind \in Kind : Decode(kind)

RecordsSpec == RecordsInit /\ [][RecordsNext]_recordVars

-----------------------------------------------------------------------------
\* What each of the two hashes binds.  A snapshot decoded from a record whose digest came back as it was written is
\* the one that was captured, of its kind, its node and its attempt, whatever else became of the record and its seal.
\* One decoded from a record whose seal came back as it was written is of the node and the attempt that were sealed,
\* even if the details and the digest were rewritten together.
DecodedIsBound ==
    decoded.kind \in Kind =>
        /\ record.digest = written.digest =>
             /\ decoded.snapshot = written.details /\ decoded.kind = written.kind
             /\ <<record.node, record.attempt>> = <<written.node, written.attempt>>
        /\ record.seal = written.seal =>
             <<decoded.snapshot.node, decoded.snapshot.attempt>> = <<written.node, written.attempt>>

(***************************************************************************)
(* Not so (the README discusses it): the seal binds the details.           *)
(***************************************************************************)
=============================================================================
