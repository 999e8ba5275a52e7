---------------------------- MODULE ArtifactStore ----------------------------
(***************************************************************************)
(* What a finished node leaves: the worker writes its log to the canonical *)
(* file <work>/<node>.log of its own host (writeArtifact), sends digest    *)
(* and bytes with the completion of the lease, and the control plane       *)
(* places the bytes in a content-addressed store before it completes the   *)
(* lease (persistWorkerArtifact, persistCASBytes).  Reads re-hash what is  *)
(* on disk.  One node is attempted several times; a worker that lost its   *)
(* lease may still be writing when the next attempt runs.                  *)
(*                                                                         *)
(* A digest is a perfect hash, so a content stands for its own digest, and *)
(* Torn for every content that nobody computed a digest of.                *)
(***************************************************************************)
EXTENDS Naturals, FiniteSets

CONSTANTS
    Attempt,      \* attempts of the node, each under a lease of its own
    Content,      \* logs a run may produce
    MaxDamage,    \* bound: files damaged on disk, and crashes of the control plane
    Nothing, Torn

ASSUME MarksAreNoContent == Nothing \notin Content /\ Torn \notin Content /\ Nothing # Torn

VARIABLES
    lease,        \* per attempt: "none", "active" or "over"
    report,       \* per attempt: where its worker, then its request, is; the log; whether its bytes
                  \* are sent; and the bytes the request holds once they are verified
    shared,       \* the canonical file: whose it is and what is in it
    temp,         \* per attempt: its temporary file
    cas,          \* per digest: what the content-addressed path holds
    attached,     \* digests attached to the Work
    answer,       \* the last answer to a read
    damaged, harm \* ghost: digests whose file was damaged; damage and crashes so far

artifactVars == <<lease, report, shared, temp, cas, attached, answer, damaged, harm>>

NoReport == [at |-> "running", log |-> Nothing, sent |-> TRUE, bytes |-> Nothing]
NoAnswer == [status |-> "none", digest |-> Nothing, bytes |-> Nothing]

ArtifactsInit ==
    /\ lease = [a \in Attempt |-> "none"]
    /\ report = [a \in Attempt |-> NoReport]
    /\ shared = [by |-> Nothing, bytes |-> Nothing]
    /\ temp = [a \in Attempt |-> Nothing]
    /\ cas = [c \in Content |-> Nothing]
    /\ attached = {} /\ answer = NoAnswer /\ damaged = {} /\ harm = 0

AttemptAt(a, places) == report[a].at \in places
Go(a, place) == report' = [report EXCEPT ![a].at = place]

\* External (the lease store): one active lease of the node at a time, which may be taken away at any moment.
LeaseAttempt(a) ==
    /\ lease[a] = "none" /\ \A b \in Attempt : lease[b] # "active"
    /\ lease' = [lease EXCEPT ![a] = "active"]
    /\ UNCHANGED <<report, shared, temp, cas, attached, answer, damaged, harm>>

LoseLease(a) ==
    /\ lease[a] = "active"
    /\ lease' = [lease EXCEPT ![a] = "over"]
    /\ UNCHANGED <<report, shared, temp, cas, attached, answer, damaged, harm>>

\* writeArtifact: the file of an earlier attempt is unlinked and a new one created; it is filled afterwards.
\* On the control plane's own host this is the file a request without bytes refers to.
WriteLog(a) ==
    /\ lease[a] # "none" /\ AttemptAt(a, {"running"})
    /\ \E c \in Content, sent \in BOOLEAN :
        /\ report' = [report EXCEPT ![a] = [at |-> "writing", log |-> c, sent |-> sent, bytes |-> Nothing]]
        /\ shared' = IF sent THEN shared ELSE [by |-> a, bytes |-> Torn]
    /\ UNCHANGED <<lease, temp, cas, attached, answer, damaged, harm>>

\* The bytes go to the file this worker created, which may be unlinked by now.
FillLog(a) ==
    /\ AttemptAt(a, {"writing"}) /\ Go(a, "sending")
    /\ shared' = IF shared.by = a THEN [by |-> a, bytes |-> report[a].log] ELSE shared
    /\ UNCHANGED <<lease, temp, cas, attached, answer, damaged, harm>>

\* Every refusal makes the worker release its lease.  The deferred Remove takes the temporary file away.
RefuseReport(a) ==
    /\ Go(a, "refused")
    /\ temp' = [temp EXCEPT ![a] = Nothing]
    /\ lease' = [lease EXCEPT ![a] = "over"]

\* completeLease looks at the lease before it touches the artifact.
CheckLease(a) ==
    /\ AttemptAt(a, {"sending"})
    /\ IF lease[a] = "active" THEN Go(a, "verify") /\ UNCHANGED <<lease, temp>> ELSE RefuseReport(a)
    /\ UNCHANGED <<shared, cas, attached, answer, damaged, harm>>

\* The bytes a request stands for.
Supplied(a) == IF report[a].sent THEN report[a].log ELSE shared.bytes

\* The digest and the size the worker claims are those of the bytes.
MatchesDigest(a) == Supplied(a) = report[a].log

\* Once verified the request holds the bytes itself.
VerifyContent(a) ==
    /\ AttemptAt(a, {"verify"})
    /\ \/ /\ MatchesDigest(a)
          /\ report' = [report EXCEPT ![a].at = "look", ![a].bytes = Supplied(a)]
          /\ UNCHANGED <<lease, temp>>
       \/ ~MatchesDigest(a) /\ RefuseReport(a)
    /\ UNCHANGED <<shared, cas, attached, answer, damaged, harm>>

Path(a) == cas[report[a].log]

\* A file that is there already must hold the very bytes.
StoredAlready(a) == Path(a) = report[a].bytes

LookForContent(a) ==
    /\ AttemptAt(a, {"look"})
    /\ \/ StoredAlready(a) /\ Go(a, "complete") /\ UNCHANGED <<lease, temp>>
       \/ ~StoredAlready(a) /\ Path(a) = Nothing /\ Go(a, "open") /\ UNCHANGED <<lease, temp>>
       \/ ~StoredAlready(a) /\ Path(a) # Nothing /\ RefuseReport(a)
    /\ UNCHANGED <<shared, cas, attached, answer, damaged, harm>>

\* The temporary file has a random name and is created exclusively.  Until it is synced it may be short.
OpenTemp(a) ==
    /\ AttemptAt(a, {"open"}) /\ Go(a, "sync")
    /\ temp' = [temp EXCEPT ![a] = Torn]
    /\ UNCHANGED <<lease, shared, cas, attached, answer, damaged, harm>>

\* Write, Sync and Close; each may fail.
SyncTemp(a) ==
    /\ AttemptAt(a, {"sync"})
    /\ \/ Go(a, "rename") /\ temp' = [temp EXCEPT ![a] = report[a].bytes] /\ UNCHANGED lease
       \/ RefuseReport(a)
    /\ UNCHANGED <<shared, cas, attached, answer, damaged, harm>>

\* Faulty variant of RenameTemp: its error is ignored.
RenameIgnored(a) ==
    /\ AttemptAt(a, {"rename"}) /\ Go(a, "complete")
    /\ \/ cas' = [cas EXCEPT ![report[a].log] = temp[a]]
       \/ UNCHANGED cas
    /\ temp' = [temp EXCEPT ![a] = Nothing]
    /\ UNCHANGED <<lease, shared, attached, answer, damaged, harm>>

\* The rename replaces what a racing request put there.  When it fails, the same bytes under the final name will do.
RenameTemp(a) ==
    /\ AttemptAt(a, {"rename"})
    /\ \/ /\ cas' = [cas EXCEPT ![report[a].log] = temp[a]]
          /\ temp' = [temp EXCEPT ![a] = Nothing]
          /\ Go(a, "complete") /\ UNCHANGED lease
       \/ /\ Path(a) = report[a].bytes
          /\ temp' = [temp EXCEPT ![a] = Nothing]
          /\ Go(a, "complete") /\ UNCHANGED <<cas, lease>>
       \/ Path(a) # report[a].bytes /\ RefuseReport(a) /\ UNCHANGED cas
    /\ UNCHANGED <<shared, attached, answer, damaged, harm>>

\* CompleteLease looks at the lease again in its transaction.
MayComplete(a) == lease[a] = "active"

CompleteWithArtifact(a) ==
    /\ AttemptAt(a, {"complete"})
    /\ \/ /\ MayComplete(a)
          /\ attached' = attached \cup {report[a].log}
          /\ lease' = [lease EXCEPT ![a] = "over"] /\ Go(a, "completed") /\ UNCHANGED temp
       \/ ~MayComplete(a) /\ RefuseReport(a) /\ UNCHANGED attached
    /\ UNCHANGED <<shared, cas, answer, damaged, harm>>

\* readVerifiedCASArtifact.
ReadVerified(c) == cas[c] = c

\* GET of an artifact: the digest must be attached to the Work.
ServeArtifact(c) ==
    /\ answer' = CASE c \notin attached -> [NoAnswer EXCEPT !.status = "not_found", !.digest = c]
                   [] c \in attached /\ cas[c] = Nothing -> [NoAnswer EXCEPT !.status = "content_not_found", !.digest = c]
                   [] c \in attached /\ ReadVerified(c) -> [status |-> "ok", digest |-> c, bytes |-> cas[c]]
                   [] OTHER -> [NoAnswer EXCEPT !.status = "integrity_failed", !.digest = c]
    /\ answer' # answer
    /\ UNCHANGED <<lease, report, shared, temp, cas, attached, damaged, harm>>

\* The control plane dies: requests end, temporary files stay.  The leases stay active until they expire.
StopStore ==
    /\ harm < MaxDamage /\ harm' = harm + 1
    /\ report' = [a \in Attempt |->
                    IF AttemptAt(a, {"verify", "look", "open", "sync", "rename", "complete"})
                    THEN [report[a] EXCEPT !.at = "lost"] ELSE report[a]]
    /\ UNCHANGED <<lease, shared, temp, cas, attached, answer, damaged>>

\* The disk loses or changes a stored file.
DamageFile(c) ==
    /\ harm < MaxDamage /\ harm' = harm + 1
    /\ cas[c] = c /\ \E bytes \in {Nothing, Torn} : cas' = [cas EXCEPT ![c] = bytes]
    /\ damaged' = damaged \cup {c}
    /\ UNCHANGED <<lease, report, shared, temp, attached, answer>>

AttemptReports(a) ==
    \/ LeaseAttempt(a) \/ LoseLease(a) \/ WriteLog(a) \/ FillLog(a) \/ CheckLease(a) \/ VerifyContent(a)
    \/ LookForContent(a) \/ OpenTemp(a) \/ SyncTemp(a) \/ RenameTemp(a) \/ CompleteWithArtifact(a)

ArtifactsNext ==
    \/ \E a \in Attempt : AttemptReports(a)
    \/ \E c \in Content : ServeArtifact(c) \/ DamageFile(c)
    \/ StopStore

ArtifactsSpec == ArtifactsInit /\ [][ArtifactsNext]_artifactVars

-----------------------------------------------------------------------------
(* Properties *)

\* Whatever the disk did, what is answered to a read is the content somebody attached to this Work.
ServedIsAttached == answer.status = "ok" => answer.bytes = answer.digest /\ answer.digest \in attached

\* A crash at any moment, two attempts writing at once, and a worker that rewrites the canonical file while a request
\* without bytes reads it, leave nothing but whole contents under content-addressed names.
StoredIsWhole == \A c \in Content \ damaged : cas[c] \in {Nothing, c}

\* An artifact that is attached is stored: no order of two requests, and no crash between the rename and the
\* completion, leaves a Work that names bytes nobody has.
AttachedIsStored == \A c \in attached \ damaged : cas[c] = c

\* An attempt that lost its lease while its request was on the way attaches nothing: one log per finished lease.
AttachedWasLeased == [][\A c \in attached' \ attached :
                          \E a \in Attempt : lease[a] = "active" /\ lease'[a] = "over" /\ report[a].log = c]_artifactVars

(* Not so (the README discusses it):
   DamageIsRepaired   a content whose file holds other bytes can be stored again
   CrashLeavesNoTemp  a temporary file belongs to a request that is being served                                   *)
=============================================================================
