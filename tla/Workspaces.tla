----------------------------- MODULE Workspaces -----------------------------
(***************************************************************************)
(* Source workspaces (packages/workspace): Create at a Git host, with the  *)
(* credential it issues, RevokeCredential and Destroy; the registry file   *)
(* the handles are kept in; and the reaper that destroys what has expired. *)
(*                                                                         *)
(* A workspace is a branch (GitHub) or a repository (Cloudflare) that is   *)
(* named after the hash of the caller's key and the hash of the intent, so *)
(* a name is a pair <<key, intent>>, and the id of a handle, a hash of the *)
(* name and its owner, stands for the name.  Every call to the host, to    *)
(* the issuer and to the credential store is a step of its own.  It may be *)
(* refused, or take effect with its answer lost (Outcome).  Time passes by *)
(* Expire: the credential of a handle and the handle expire together.      *)
(***************************************************************************)
EXTENDS Naturals, FiniteSets

CONSTANTS WName,        \* the names <<key, intent>> callers ask for
          WRequest,     \* the calls of Create, numbered as they arrive
          MaxFaults,    \* bound: the calls that are refused or whose answer is lost, and restarts
          NoHandle

ASSUME WorkspaceAssumption ==
    WRequest \subseteq Nat \ {0} /\ MaxFaults \in Nat /\ NoHandle \notin WRequest

VARIABLES host,        \* "github" or "cloudflare"
          resources,   \* the branches or repositories there are
          tokens,      \* the live credentials; a Create issues one, it has its number
          stored,      \* the credentials in the credential store
          expired,     \* the credentials whose time is over
          wreq,        \* per Create: where it is, its name, and createdNow
          registry,    \* the file: per handle id the credential of the handle, or NoHandle
          saving,      \* the write of the file in progress, under the mutex: what, and for whom
          sweep,       \* the reaper: where it is, and the handles it still has
          faults,
          since,       \* ghost: per Create, the resources that are there since it began
          kept,        \* ghost: the answered registrations that nothing replaced or deleted
          failed       \* ghost: per Create, the calls about the baseline and the credential that did not
                       \* come back with success

workspaceVars == <<host, resources, tokens, stored, expired, wreq, registry, saving, sweep,
                   faults, since, kept, failed>>

Outcome == {"ok"} \cup (IF faults < MaxFaults THEN {"refused", "lost"} ELSE {})
Effective(o) == o # "refused"
Faulted(o) == faults' = IF o = "ok" THEN faults ELSE faults + 1

NoSave == [for |-> NoHandle, doc |-> [n \in WName |-> NoHandle], name |-> NoHandle]
Idle == [pc |-> "idle", todo |-> {}, at |-> NoHandle]

WorkspacesInit ==
    /\ host \in {"github", "cloudflare"}
    /\ resources = {} /\ tokens = {} /\ stored = {} /\ expired = {}
    /\ wreq = [q \in WRequest |-> [pc |-> "new", name |-> NoHandle, created |-> FALSE]]
    /\ registry = [n \in WName |-> NoHandle] /\ saving = NoSave
    /\ sweep = Idle
    /\ faults = 0
    /\ since = [q \in WRequest |-> {}] /\ kept = {} /\ failed = [q \in WRequest |-> {}]

WGo(q, pc) == wreq' = [wreq EXCEPT ![q].pc = pc]
Told(q, call, o) == failed' = [failed EXCEPT ![q] = IF o = "ok" THEN @ ELSE @ \cup {call}]
SetResources(R) ==
    /\ resources' = R
    /\ since' = [q \in WRequest |-> IF wreq[q].pc \in {"lookup", "post"} THEN since[q] \cap R ELSE {}]

ProcessUnchanged == UNCHANGED <<host, registry, saving, sweep, kept>>
CredentialsUnchanged == UNCHANGED <<tokens, stored, expired>>

-----------------------------------------------------------------------------
(***************************************************************************)
(* Create.                                                                 *)
(***************************************************************************)

WCreate(q, n) ==
    /\ wreq[q].pc = "new" /\ \A r \in WRequest : r < q => wreq[r].pc # "new"
    /\ wreq' = [wreq EXCEPT ![q] = [pc |-> "lookup", name |-> n, created |-> FALSE]]
    /\ since' = [since EXCEPT ![q] = resources]
    /\ CredentialsUnchanged /\ ProcessUnchanged /\ UNCHANGED <<resources, faults, failed>>

\* classifyWorkspaceRefs, findWorkspaceRepo: the name itself, another name of the key, nothing.
ClassifyWorkspaceRefs(n) ==
    CASE n \in resources -> "exact"
      [] n \notin resources /\ \E m \in resources : m[1] = n[1] -> "conflict"
      [] OTHER -> "none"

\* The listing before the creation.
Lookup(q) ==
    /\ wreq[q].pc = "lookup"
    /\ \E o \in Outcome :
         /\ WGo(q, IF o # "ok" THEN "failed"
                   ELSE CASE ClassifyWorkspaceRefs(wreq[q].name) = "exact" -> "issue"
                          [] ClassifyWorkspaceRefs(wreq[q].name) = "conflict" -> "conflict"
                          [] OTHER -> "post")
         /\ Faulted(o)
    /\ CredentialsUnchanged /\ ProcessUnchanged /\ UNCHANGED <<resources, since, failed>>

\* The creation: a name that is taken is "unavailable", like a lost answer, and the
\* listing is read again; another refusal is final.  An import at Cloudflare waits for
\* the baseline next.
Post(q) ==
    /\ wreq[q].pc = "post"
    /\ \E o \in Outcome, again \in {"relookup", "failed"} :
         LET fresh == wreq[q].name \notin resources
         IN /\ again = "failed" => o = "refused"
            /\ SetResources(IF Effective(o) THEN resources \cup {wreq[q].name} ELSE resources)
            /\ wreq' = [wreq EXCEPT ![q].pc = CASE o # "ok" \/ ~fresh -> again
                                                [] o = "ok" /\ fresh /\ host = "cloudflare" -> "baseline"
                                                [] OTHER -> "issue",
                                    ![q].created = o = "ok" /\ fresh /\ host = "github"]
            /\ Faulted(o)
    /\ CredentialsUnchanged /\ ProcessUnchanged /\ UNCHANGED failed

\* waitForCommit: found, or the import is given up (importRepo deletes it next).
WaitForCommit(q) ==
    /\ wreq[q].pc = "baseline"
    /\ \E o \in Outcome :
         /\ wreq' = [wreq EXCEPT ![q].pc = IF o = "ok" THEN "issue" ELSE "unimport",
                                 ![q].created = o = "ok"]
         /\ Faulted(o) /\ Told(q, "baseline", o)
    /\ CredentialsUnchanged /\ ProcessUnchanged /\ UNCHANGED <<resources, since>>

\* deleteRepo of importRepo.  Create goes on with the error of waitForCommit: a commit that
\* is not there is final, an unavailable host is looked at again.
Unimport(q) ==
    /\ wreq[q].pc = "unimport"
    /\ \E o \in Outcome, again \in {"relookup", "failed"} :
         /\ SetResources(IF Effective(o) THEN resources \ {wreq[q].name} ELSE resources)
         /\ WGo(q, again)
         /\ Faulted(o)
    /\ CredentialsUnchanged /\ ProcessUnchanged /\ UNCHANGED failed

\* Recovery of a creation that raced or whose answer was lost.
Relookup(q) ==
    /\ wreq[q].pc = "relookup"
    /\ \E o \in Outcome :
         /\ WGo(q, IF o # "ok" THEN "failed"
                   ELSE CASE ClassifyWorkspaceRefs(wreq[q].name) = "exact" -> "issue"
                          [] ClassifyWorkspaceRefs(wreq[q].name) = "conflict" -> "conflict"
                          [] OTHER -> "failed")
         /\ Faulted(o)
    /\ CredentialsUnchanged /\ ProcessUnchanged /\ UNCHANGED <<resources, since, failed>>

UndoFrom(q) == IF wreq[q].created THEN "undoResource" ELSE "failed"

\* mintToken, GitHubAppIssuer.Issue: without a credential the resource is rolled back.
Issue(q) ==
    /\ wreq[q].pc = "issue"
    /\ \E o \in Outcome :
         /\ tokens' = IF Effective(o) THEN tokens \cup {q} ELSE tokens
         /\ WGo(q, IF o = "ok" THEN "store" ELSE UndoFrom(q))
         /\ Faulted(o) /\ Told(q, "issue", o)
    /\ ProcessUnchanged /\ UNCHANGED <<resources, stored, expired, since>>

\* CredentialStore.Put; GitHub reads the repository next.
StoreCredential(q) ==
    /\ wreq[q].pc = "store"
    /\ \E o \in Outcome :
         /\ stored' = IF Effective(o) THEN stored \cup {q} ELSE stored
         /\ WGo(q, CASE o # "ok" -> "undoToken"
                     [] o = "ok" /\ host = "github" -> "meta"
                     [] OTHER -> "ok")
         /\ Faulted(o) /\ Told(q, "store", o)
    /\ ProcessUnchanged /\ UNCHANGED <<resources, tokens, expired, since>>

\* getRepo.
ReadRepo(q) ==
    /\ wreq[q].pc = "meta"
    /\ \E o \in Outcome :
         /\ WGo(q, IF o = "ok" THEN "ok" ELSE "undoStore")
         /\ Faulted(o)
    /\ CredentialsUnchanged /\ ProcessUnchanged /\ UNCHANGED <<resources, since, failed>>

UndoStore(q) ==
    /\ wreq[q].pc = "undoStore"
    /\ \E o \in Outcome :
         /\ stored' = IF Effective(o) THEN stored \ {q} ELSE stored
         /\ WGo(q, "undoToken")
         /\ Faulted(o) /\ Told(q, "unstore", o)
    /\ ProcessUnchanged /\ UNCHANGED <<resources, tokens, expired, since>>

\* Faulty variant of UndoToken: the roll back forgets the credential.
UndoTokenSkip(q) ==
    /\ wreq[q].pc = "undoToken" /\ WGo(q, UndoFrom(q))
    /\ CredentialsUnchanged /\ ProcessUnchanged /\ UNCHANGED <<resources, since, faults, failed>>

UndoToken(q) ==
    /\ wreq[q].pc = "undoToken"
    /\ \E o \in Outcome :
         /\ tokens' = IF Effective(o) THEN tokens \ {q} ELSE tokens
         /\ WGo(q, UndoFrom(q))
         /\ Faulted(o) /\ Told(q, "revoke", o)
    /\ ProcessUnchanged /\ UNCHANGED <<resources, stored, expired, since>>

UndoResource(q) ==
    /\ wreq[q].pc = "undoResource"
    /\ \E o \in Outcome :
         /\ SetResources(IF Effective(o) THEN resources \ {wreq[q].name} ELSE resources)
         /\ WGo(q, "failed")
         /\ Faulted(o)
    /\ CredentialsUnchanged /\ ProcessUnchanged /\ UNCHANGED failed

CreateStep(q) ==
    \/ \E n \in WName : WCreate(q, n)
    \/ Lookup(q) \/ Post(q) \/ WaitForCommit(q) \/ Unimport(q) \/ Relookup(q)
    \/ Issue(q) \/ StoreCredential(q) \/ ReadRepo(q)
    \/ UndoStore(q) \/ UndoToken(q) \/ UndoResource(q)

-----------------------------------------------------------------------------
(***************************************************************************)
(* The registry file, and RevokeCredential.                                *)
(***************************************************************************)

FileUnchanged == UNCHANGED <<registry, kept>>
Registered(n) == registry[n] # NoHandle

\* Under the mutex: load, change, and save to a temporary file.
BeginSave(who, n, handle) ==
    /\ saving = NoSave
    /\ saving' = [for |-> who, doc |-> [registry EXCEPT ![n] = handle], name |-> n]
    /\ FileUnchanged

\* The caller of Create registers the handle.
RegistryPut(q) ==
    /\ wreq[q].pc = "ok"
    /\ BeginSave(q, wreq[q].name, q) /\ WGo(q, "registering")
    /\ CredentialsUnchanged /\ UNCHANGED <<host, resources, sweep, faults, since, failed>>

SweepNext == IF sweep.todo = {} THEN Idle ELSE [sweep EXCEPT !.pc = "pick"]

\* The rename is the save; Put or Delete returns.
Rename ==
    /\ saving # NoSave
    /\ registry' = saving.doc /\ saving' = NoSave
    /\ LET others == {q \in kept : wreq[q].name # saving.name}
       IN IF saving.for \in WRequest
          THEN WGo(saving.for, "registered") /\ kept' = others \cup {saving.for} /\ UNCHANGED sweep
          ELSE sweep' = SweepNext /\ kept' = others /\ UNCHANGED wreq
    /\ CredentialsUnchanged /\ UNCHANGED <<host, resources, faults, since, failed>>

\* RevokeCredential, the host's half.  GitHub takes a dead credential for revoked and needs
\* the stored one to say which; Cloudflare does not know a dead one.
RevokeToken(q) ==
    /\ wreq[q].pc = "registered"
    /\ IF host = "github" THEN q \in stored ELSE q \in tokens
    /\ \E o \in Outcome :
         /\ tokens' = IF Effective(o) THEN tokens \ {q} ELSE tokens
         /\ WGo(q, IF o = "ok" THEN "unref" ELSE "registered")
         /\ Faulted(o) /\ Told(q, "revoke", o)
    /\ ProcessUnchanged /\ UNCHANGED <<resources, stored, expired, since>>

\* RevokeCredential, the store's half.
RevokeRef(q) ==
    /\ wreq[q].pc = "unref"
    /\ \E o \in Outcome :
         /\ stored' = IF Effective(o) THEN stored \ {q} ELSE stored
         /\ WGo(q, IF o = "ok" THEN "revoked" ELSE "registered")
         /\ Faulted(o) /\ Told(q, "unstore", o)
    /\ ProcessUnchanged /\ UNCHANGED <<resources, tokens, expired, since>>

-----------------------------------------------------------------------------
(***************************************************************************)
(* The reaper: Sweep, and the Destroy it calls.  The handles are the ones  *)
(* the list had.                                                           *)
(***************************************************************************)

SweepUnchanged == UNCHANGED <<host, wreq, registry, saving, expired, kept, failed>>

\* A sweep that finds nothing expired does nothing.
SweepList ==
    /\ sweep = Idle /\ saving = NoSave
    /\ LET due == {n \in WName : Registered(n) /\ registry[n] \in expired}
       IN due # {} /\ sweep' = [pc |-> "pick", todo |-> {<<n, registry[n]>> : n \in due}, at |-> NoHandle]
    /\ SweepUnchanged /\ UNCHANGED <<resources, tokens, stored, faults, since>>

SweepPick ==
    /\ sweep.pc = "pick"
    /\ \E h \in sweep.todo : sweep' = [pc |-> "revoke", todo |-> sweep.todo \ {h}, at |-> h]
    /\ SweepUnchanged /\ UNCHANGED <<resources, tokens, stored, faults, since>>

\* Destroy: revocation is best effort; at GitHub the credential is looked up first.
DestroyRevoke ==
    /\ sweep.pc = "revoke"
    /\ \E o \in Outcome :
         /\ tokens' = IF Effective(o) /\ (host = "cloudflare" \/ sweep.at[2] \in stored)
                      THEN tokens \ {sweep.at[2]} ELSE tokens
         /\ sweep' = [sweep EXCEPT !.pc = "delete"] /\ Faulted(o)
    /\ SweepUnchanged /\ UNCHANGED <<resources, stored, since>>

\* Destroy: the resource goes; one that is gone ends Destroy here, and the sweep takes
\* that for success.  After another failure the handle waits for the next sweep.
DestroyDelete ==
    /\ sweep.pc = "delete"
    /\ \E o \in Outcome :
         /\ SetResources(IF Effective(o) THEN resources \ {sweep.at[1]} ELSE resources)
         /\ sweep' = CASE o # "ok" -> SweepNext
                       [] o = "ok" /\ sweep.at[1] \in resources -> [sweep EXCEPT !.pc = "unstore"]
                       [] OTHER -> [sweep EXCEPT !.pc = "unregister"]
         /\ Faulted(o)
    /\ SweepUnchanged /\ UNCHANGED <<tokens, stored>>

\* Destroy: the stored credential, best effort.
DestroyUnstore ==
    /\ sweep.pc = "unstore"
    /\ \E o \in Outcome :
         /\ stored' = IF Effective(o) THEN stored \ {sweep.at[2]} ELSE stored
         /\ sweep' = [sweep EXCEPT !.pc = "unregister"] /\ Faulted(o)
    /\ SweepUnchanged /\ UNCHANGED <<resources, tokens, since>>

\* Registry.Delete of the handle's id; one that is not there was reaped.
SweepUnregister ==
    /\ sweep.pc = "unregister" /\ saving = NoSave
    /\ IF Registered(sweep.at[1])
       THEN BeginSave(NoHandle, sweep.at[1], NoHandle) /\ sweep' = [sweep EXCEPT !.pc = "saving"]
       ELSE sweep' = SweepNext /\ FileUnchanged /\ UNCHANGED saving
    /\ UNCHANGED <<host, resources, tokens, stored, expired, wreq, faults, since, failed>>

SweepStep ==
    \/ SweepList \/ SweepPick \/ DestroyRevoke \/ DestroyDelete \/ DestroyUnstore \/ SweepUnregister
    \/ Rename

\* The time of a handle is over; a Create is shorter than any credential lives.
Expire(q) ==
    /\ q \notin expired /\ wreq[q].pc \in {"ok", "registering", "registered", "unref", "revoked"} /\ expired' = expired \cup {q}
    /\ UNCHANGED <<host, resources, tokens, stored, wreq, registry, saving, sweep, faults,
                   since, kept, failed>>

Ended == {"new", "failed", "conflict", "registered", "revoked", "crashed"}

\* The process stops: what it was doing is over; the host, the store and the file remain.
WorkspaceCrash ==
    /\ faults < MaxFaults /\ faults' = faults + 1
    /\ wreq' = [q \in WRequest |-> [wreq[q] EXCEPT !.pc = IF @ \in Ended THEN @ ELSE "crashed"]]
    /\ saving' = NoSave /\ sweep' = Idle
    /\ CredentialsUnchanged /\ UNCHANGED <<host, resources, registry, since, kept, failed>>

WorkspacesNext ==
    \/ \E q \in WRequest : CreateStep(q) \/ RegistryPut(q) \/ RevokeToken(q) \/ RevokeRef(q) \/ Expire(q)
    \/ SweepStep
    \/ WorkspaceCrash

-----------------------------------------------------------------------------
\* A Create that failed leaves no live credential and none in the store, unless the call
\* that would have told of it or removed it failed itself.
FailedCreateCleansUp ==
    \A q \in WRequest : wreq[q].pc \in {"failed", "conflict"} =>
        /\ q \in tokens => failed[q] \cap {"issue", "revoke"} # {}
        /\ q \in stored => failed[q] \cap {"store", "unstore"} # {}

(***************************************************************************)
(* Not so (the README discusses them): the workspace of a handle that has  *)
(* not expired exists, the roll back of a failed Create and a sweep with   *)
(* an old list both delete what a second Create of the key has found; a    *)
(* workspace is handed out when its baseline was found, an import whose    *)
(* clean up failed is found by the second look; a sweep destroys the       *)
(* handle that is registered; a revocation can be finished, Cloudflare     *)
(* does not know a credential whose revocation lost its answer.            *)
(***************************************************************************)
=============================================================================
