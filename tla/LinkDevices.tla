---------------------------- MODULE LinkDevices ----------------------------
(***************************************************************************)
(* The WORKS-Link surface: pairing a device with a short code, the device  *)
(* tokens, the context mounts and the revocation that suspends the mounted *)
(* missions (packages/link/link.go, services/work/store/link_store.go,     *)
(* link_suspend.go, services/api/link_handler.go).                         *)
(*                                                                         *)
(* Requests are handled concurrently and each is several statements.  The  *)
(* offers live in a map of the process that no lock protects, so looking a *)
(* code up and deleting it are two steps.  Time advances in half seconds:  *)
(* a pairing is stamped exactly, but a token names it to the second.       *)
(***************************************************************************)
EXTENDS WorkGraph, Naturals, FiniteSets, SequencesExt

CONSTANTS Device, LWork, LMission,  \* the Works; the ones that are missions
          Code,                     \* pairing codes, numbered as they are drawn
          LScopes,                  \* the sets of scopes devices ask for
          Request,
          NoDevice, NoOffer,
          OfferTTL, TokenTTL,
          LMaxTime, MaxMounts       \* bounds: the clock, the mounts

Scope == {"T1_read", "T2_action"}

ASSUME LinkAssumption ==
    /\ LMission \subseteq LWork /\ Code \subseteq Nat
    /\ LScopes \subseteq SUBSET Scope \ {{}}
    /\ {OfferTTL, TokenTTL, LMaxTime, MaxMounts} \subseteq Nat

VARIABLES ldevices,   \* link_devices
          offers,     \* Service.offers
          tokens,     \* the tokens handed out
          mounts,     \* link_mounts: the time of creation of each content-addressed row
          lstate,     \* works.state
          request,    \* the requests in flight
          lnow,       \* the clock, in half seconds
          claims      \* ghost: how many times an offer was turned into a pairing

linkVars == <<ldevices, offers, tokens, mounts, lstate, request, lnow, claims>>

\* suspendableStates.
Suspendable == {"CREATED", "PLANNING", "QUEUED", "RUNNING", "VERIFYING", "BLOCKED"}

Idle == [pc |-> "idle", device |-> NoDevice, code |-> NoOffer, row |-> NoDevice, work |-> NoDevice,
         scope |-> "T1_read", owed |-> {}, todo |-> <<>>, failed |-> FALSE, at |-> 0]

Done == [Idle EXCEPT !.pc = "done"]

\* A request arrives; requests are numbered in the order of their arrival.
Arrives(q) == request[q].pc = "idle" /\ \A p \in Request : p < q => request[p].pc # "idle"

\* claimsDigest: the pairing, to the second.
ClaimsDigest(d, row) == [device |-> d, scopes |-> row.scopes, second |-> row.at \div 2]

\* Mint.
Mint(d, row) == [key |-> ClaimsDigest(d, row), until |-> row.at + TokenTTL]

\* The row of a mount: its content, and when it was made.
MountRow(d, w, scope, at) == [id |-> [device |-> d, work |-> w, scope |-> scope], at |-> at]

\* No device is paired, or each was paired a moment ago and one may have mounted a Work.
LinkInit ==
    /\ \/ ldevices = [d \in Device |-> NoDevice] /\ tokens = {} /\ mounts = <<>>
       \/ \E scopes \in LScopes :
            LET row == [scopes |-> scopes, state |-> "PAIRED", at |-> 0]
            IN /\ ldevices = [d \in Device |-> row]
               /\ tokens = {Mint(d, row) : d \in Device}
               /\ mounts \in {<<>>} \cup {<<MountRow(d, w, scope, 0)>> : d \in Device, w \in LWork, scope \in scopes}
    /\ offers = [c \in Code |-> NoOffer]
    /\ lstate = [w \in LWork |-> IF w \in LMission THEN "QUEUED" ELSE "RUNNING"]
    /\ request = [q \in Request |-> Idle]
    /\ lnow = 0
    /\ claims = [c \in Code |-> 0]

-----------------------------------------------------------------------------
(***************************************************************************)
(* Pairing.                                                                *)
(***************************************************************************)

\* gcOffers.
LiveOffers == [c \in Code |-> IF offers[c] # NoOffer /\ offers[c].until < lnow THEN NoOffer ELSE offers[c]]

Revoked(d) == ldevices[d] # NoDevice /\ ldevices[d].state = "REVOKED"

\* BeginPair: a fresh code for the scopes the device asks for; a device that is
\* revoked gets none.
BeginPair(d, scopes, c) ==
    /\ ~Revoked(d)
    /\ LiveOffers[c] = NoOffer /\ claims[c] = 0
    /\ \A b \in Code : b < c => LiveOffers[b] # NoOffer \/ claims[b] > 0
    /\ offers' = [LiveOffers EXCEPT ![c] = [device |-> d, scopes |-> scopes, until |-> lnow + OfferTTL]]
    /\ UNCHANGED <<ldevices, tokens, mounts, lstate, request, lnow, claims>>

\* ClaimPair, up to the lookup of the code: a wrong device learns nothing and the
\* offer stays.
LookupOffer(q, d, c) ==
    /\ Arrives(q)
    /\ LiveOffers[c] # NoOffer /\ LiveOffers[c].device = d
    /\ offers' = LiveOffers
    /\ request' = [request EXCEPT ![q] = [Idle EXCEPT !.pc = "claim", !.device = d, !.code = c,
                                                      !.row = LiveOffers[c].scopes]]
    /\ UNCHANGED <<ldevices, tokens, mounts, lstate, lnow, claims>>

\* The offer is deleted and the token minted for the new pairing.
ClaimOffer(q) ==
    /\ request[q].pc = "claim"
    /\ offers' = [offers EXCEPT ![request[q].code] = NoOffer]
    /\ request' = [request EXCEPT ![q].pc = "pair",
                                  ![q].row = [scopes |-> @, state |-> "PAIRED", at |-> lnow]]
    /\ UNCHANGED <<ldevices, tokens, mounts, lstate, lnow, claims>>

\* PutDevice replaces the row, whatever it has become; then the token is answered.
PutPaired(q) ==
    /\ request[q].pc = "pair"
    /\ LET d == request[q].device  row == request[q].row
       IN /\ ldevices' = [ldevices EXCEPT ![d] = row]
          /\ tokens' = tokens \cup {Mint(d, row)}
          /\ claims' = [claims EXCEPT ![request[q].code] = @ + 1]
    /\ request' = [request EXCEPT ![q] = Done]
    /\ UNCHANGED <<offers, mounts, lstate, lnow>>

-----------------------------------------------------------------------------
(***************************************************************************)
(* Authentication and mounts.                                              *)
(***************************************************************************)

\* AuthenticateToken: signed, not expired, and of the pairing in force.
AuthenticateToken(t) ==
    /\ t.until >= lnow
    /\ ldevices[t.key.device] # NoDevice
    /\ ClaimsDigest(t.key.device, ldevices[t.key.device]) = t.key

\* POST /link/v1/mounts: the token and the durable row are checked, and the mount is
\* built from the row that was read.
BeginMount(q, t, w, scope) ==
    /\ Arrives(q) /\ Len(mounts) < MaxMounts
    /\ AuthenticateToken(t)
    /\ LET row == ldevices[t.key.device]
       IN /\ row.state # "REVOKED" /\ scope \in row.scopes
          /\ request' = [request EXCEPT ![q] = [Idle EXCEPT !.pc = "mount", !.device = t.key.device,
                             !.row = row, !.work = w, !.scope = scope, !.at = lnow]]
    /\ UNCHANGED <<ldevices, offers, tokens, mounts, lstate, lnow, claims>>

\* mountIdempotencyID: the content of a mount is its identity.
RequestedMount(q) == MountRow(request[q].device, request[q].work, request[q].scope, request[q].at)

MountOf(q) == {i \in 1..Len(mounts) : mounts[i].id = RequestedMount(q).id}

\* InsertMount, an INSERT OR IGNORE.
InsertMount(q) ==
    /\ request[q].pc = "mount"
    /\ LET new == MountOf(q) = {}
       IN /\ mounts' = IF new THEN Append(mounts, RequestedMount(q)) ELSE mounts
          /\ request' = [request EXCEPT ![q].pc = IF new THEN "mounted" ELSE "replay"]
    /\ UNCHANGED <<ldevices, offers, tokens, lstate, lnow, claims>>

\* GetMount: a replay answers the stored record.
GetMount(q) ==
    /\ request[q].pc = "replay"
    /\ \E i \in MountOf(q) :
         request' = [request EXCEPT ![q].pc = "mounted", ![q].at = mounts[i].at]
    /\ UNCHANGED <<ldevices, offers, tokens, mounts, lstate, lnow, claims>>

-----------------------------------------------------------------------------
(***************************************************************************)
(* Revocation.                                                             *)
(***************************************************************************)

\* POST /link/v1/revoke authenticates without refusing a revoked device, so that a
\* repeated revocation is answered.
BeginRevoke(q, t) ==
    /\ Arrives(q)
    /\ AuthenticateToken(t)
    /\ request' = [request EXCEPT ![q] = [Idle EXCEPT !.pc = "revoke", !.device = t.key.device]]
    /\ UNCHANGED <<ldevices, offers, tokens, mounts, lstate, lnow, claims>>

\* Revoke reads the row; one that is revoked already is answered at once, with a 200 too:
\* the repetition does not run the cascade again, and does not ask how the first one went.
GetDevice(q) ==
    /\ request[q].pc = "revoke"
    /\ LET row == ldevices[request[q].device]
       IN request' = [request EXCEPT
              ![q].pc = IF row.state = "REVOKED" THEN "repeated" ELSE "putRevoked",
              ![q].row = row]
    /\ UNCHANGED <<ldevices, offers, tokens, mounts, lstate, lnow, claims>>

\* The missions device d has mounted.
Mounted(d) == {mounts[i].id.work : i \in {j \in 1..Len(mounts) : mounts[j].id.device = d}}

\* PutDevice with the row that was read, now REVOKED.  The active missions the device
\* has mounted are owed a stop (owed is a ghost).
PutRevoked(q) ==
    /\ request[q].pc = "putRevoked"
    /\ LET d == request[q].device
       IN /\ ldevices' = [ldevices EXCEPT ![d] = [request[q].row EXCEPT !.state = "REVOKED"]]
          /\ request' = [request EXCEPT ![q].pc = "list",
                             ![q].owed = {w \in Mounted(d) \cap LMission : lstate[w] \in Suspendable}]
    /\ UNCHANGED <<offers, tokens, mounts, lstate, lnow, claims>>

\* ListMountWorkIDs: each Work once, in the order of its first mount.
ListMountWorkIDs(d) ==
    LET works == [i \in 1..Len(mounts) |-> mounts[i].id]
        own == SelectSeq(works, LAMBDA id : id.device = d)
        first(i) == \A j \in 1..(i - 1) : own[j].work # own[i].work
        keep == SelectSeq([i \in 1..Len(own) |-> i], first)
    IN [i \in 1..Len(keep) |-> own[keep[i]].work]

\* SuspendMissionsForDevice lists the Works once.
ListMounts(q) ==
    /\ request[q].pc = "list"
    /\ request' = [request EXCEPT ![q].pc = "load", ![q].todo = ListMountWorkIDs(request[q].device)]
    /\ UNCHANGED <<ldevices, offers, tokens, mounts, lstate, lnow, claims>>

\* The next Work is loaded: what is no mission or not active is passed over, and the
\* state it has decides which of two transactions suspends it.
LoadMission(q) ==
    /\ request[q].pc = "load" /\ request[q].todo # <<>>
    /\ LET w == Head(request[q].todo)
       IN request' = [request EXCEPT
              ![q].pc = CASE w \notin LMission \/ lstate[w] \notin Suspendable -> "load"
                          [] lstate[w] \in {"RUNNING", "VERIFYING"} -> "suspend"
                          [] OTHER -> "cascade",
              ![q].work = w, ![q].todo = Tail(@)]
    /\ UNCHANGED <<ldevices, offers, tokens, mounts, lstate, lnow, claims>>

\* Request q goes on at pc while Work w takes a state: a mission that stops is no
\* longer owed a stop by anyone.
SetState(q, pc, w, to) ==
    /\ lstate' = [lstate EXCEPT ![w] = to]
    /\ request' = [r \in Request |->
                     [request[r] EXCEPT !.pc = IF r = q THEN pc ELSE @,
                                        !.owed = IF to \in Suspendable THEN @ ELSE @ \ {w}]]

\* SuspendWorkEventful: along the table's edges, or an error that is collected.
SuspendMission(q) ==
    /\ request[q].pc = "suspend"
    /\ IF ValidateTransition(lstate[request[q].work], "SUSPENDED", TRUE)
       THEN SetState(q, "load", request[q].work, "SUSPENDED")
       ELSE /\ request' = [request EXCEPT ![q].pc = "load", ![q].failed = TRUE]
            /\ UNCHANGED lstate
    /\ UNCHANGED <<ldevices, offers, tokens, mounts, lnow, claims>>

\* Faulty variant of CascadeSuspendWork: only the states without an edge are taken.
CascadeSuspendWorkNarrow(q) ==
    /\ request[q].pc = "cascade"
    /\ LET w == request[q].work
       IN SetState(q, "load", w, IF lstate[w] \in Suspendable \ {"RUNNING", "VERIFYING"}
                                 THEN "SUSPENDED" ELSE lstate[w])
    /\ UNCHANGED <<ldevices, offers, tokens, mounts, lnow, claims>>

\* cascadeSuspendWork: checked again under the write lock; a Work that has stopped in
\* the meantime is passed over.
CascadeSuspendWork(q) ==
    /\ request[q].pc = "cascade"
    /\ LET w == request[q].work
       IN SetState(q, "load", w, IF lstate[w] \in Suspendable THEN "SUSPENDED" ELSE lstate[w])
    /\ UNCHANGED <<ldevices, offers, tokens, mounts, lnow, claims>>

\* The revocation is answered: 200, or 500 when a suspension failed.
AnswerRevoke(q) ==
    /\ request[q].pc = "load" /\ request[q].todo = <<>>
    /\ request' = [request EXCEPT ![q].pc = IF request[q].failed THEN "cascadeFailed" ELSE "revoked"]
    /\ UNCHANGED <<ldevices, offers, tokens, mounts, lstate, lnow, claims>>

\* The client is gone: the context of its request ends the statements left.  (One that
\* ends before its first write is a request that never came.)
EndRequest(q) ==
    /\ request[q].pc \in {"pair", "list", "load", "suspend", "cascade"}
    /\ request' = [request EXCEPT ![q] = Done]
    /\ UNCHANGED <<ldevices, offers, tokens, mounts, lstate, lnow, claims>>

-----------------------------------------------------------------------------
\* The scheduler, the workers and the reviewers move the Works.
AdvanceMission(w, to) ==
    /\ lstate[w] # to /\ ValidateTransition(lstate[w], to, w \in LMission)
    /\ SetState(0, "idle", w, to)
    /\ UNCHANGED <<ldevices, offers, tokens, mounts, lnow, claims>>

LinkTick ==
    /\ lnow < LMaxTime
    /\ lnow' = lnow + 1
    /\ UNCHANGED <<ldevices, offers, tokens, mounts, lstate, request, claims>>

RevokeStep(q) ==
    \/ GetDevice(q) \/ PutRevoked(q) \/ ListMounts(q) \/ LoadMission(q)
    \/ SuspendMission(q) \/ CascadeSuspendWork(q) \/ AnswerRevoke(q)

LinkNext ==
    \/ \E d \in Device, scopes \in LScopes, c \in Code : BeginPair(d, scopes, c)
    \/ \E q \in Request :
         \/ \E d \in Device, c \in Code : LookupOffer(q, d, c)
         \/ ClaimOffer(q) \/ PutPaired(q)
         \/ \E t \in tokens :
              \/ \E w \in LWork, scope \in Scope : BeginMount(q, t, w, scope)
              \/ BeginRevoke(q, t)
         \/ InsertMount(q) \/ GetMount(q) \/ RevokeStep(q) \/ EndRequest(q)
    \/ \E w \in LMission, to \in {"RUNNING", "VERIFYING"} : AdvanceMission(w, to)
    \/ LinkTick

-----------------------------------------------------------------------------
\* The request that made a device REVOKED and was answered with 200 has stopped every
\* mission the device had mounted then, whatever moved the missions while the cascade ran
\* (Revoke, SuspendMissionsForDevice).  It says nothing of a repetition ("repeated").
RevokingAnswerStopsMissions ==
    \A q \in Request : request[q].pc = "revoked" => request[q].owed = {}

(***************************************************************************)
(* Not so (the README discusses it): every 200 to a revocation means that  *)
(* the missions have stopped.  A repetition is answered with 200 while the *)
(* first cascade is running, and after one that failed or was cut short.   *)
(***************************************************************************)
=============================================================================
