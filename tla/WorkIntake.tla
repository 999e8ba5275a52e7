----------------------------- MODULE WorkIntake -----------------------------
(***************************************************************************)
(* How Works come into being: POST /v1/works with its idempotency keys     *)
(* (services/api/api.go, work_create_idempotency.go, store.go,             *)
(* work_idempotency.go, internal/manifest/admission.go) and the GitHub     *)
(* webhook (webhook_handler.go, services/webhook/github.go).               *)
(*                                                                         *)
(* A creation is several statements with other requests in between.  The   *)
(* intent a client sends is abstracted to one field of one node, its       *)
(* timeout: 0 when it is left out, and filled in with the default of the   *)
(* deployment that admits it.  A deployment may change the default and the *)
(* greatest timeout that is admitted, and ends the requests in flight.     *)
(***************************************************************************)
EXTENDS WorkGraph, Naturals

CONSTANTS WorkId,      \* the ids a client may choose or the server generate
          Key,         \* idempotency keys
          NoKey,       \* a creation without a key
          LegacyId,    \* rows that predate the creation metadata, under LegacyKey
          LegacyKey,
          Client,      \* creation requests
          Deployment,  \* the admission policies: records of default and max
          Delivery,    \* X-GitHub-Delivery ids
          Receiver,    \* webhook requests, the repeated ones included
          NoWork,      \* no Work
          MaxTimeout   \* the greatest timeout a client asks for

Timeout == 0..MaxTimeout

\* The rows of works.
WorkRow ==
    [key : Key \cup {NoKey}, timeout : Timeout, hash : Timeout, defaults : Deployment, meta : BOOLEAN,
     queue : BOOLEAN, state : State, origin : Client \cup Delivery \cup {NoWork}]

ASSUME IntakeAssumption ==
    /\ MaxTimeout \in Nat
    /\ NoKey \notin Key /\ LegacyKey \in Key
    /\ LegacyId \subseteq WorkId
    /\ NoWork \notin WorkId \cup Delivery \cup WorkRow
    /\ Delivery # {} /\ Client \cap Delivery = {}
    /\ Deployment \subseteq [default : Timeout \ {0}, max : Timeout \ {0}]
    /\ \A d \in Deployment : d.default <= d.max

VARIABLES rows,      \* works: the row of each id, or NoWork
          policy,    \* the deployment in force
          client,    \* the creation requests
          webhooks,  \* webhooks: the work_id of each delivery, or NoWork
          receiver   \* the webhook requests

intakeVars == <<rows, policy, client, webhooks, receiver>>

ClientPC == {"new", "lookup", "create", "reread", "canonical", "repair", "queue",
             "created", "replayed", "conflict", "refused", "failed", "gone"}

ReceiverPC == {"new", "lookup", "load", "create", "record",
               "created", "duplicate", "ignored", "failed", "gone"}

\* A creation request; retry is a ghost: it repeats the submission its key was accepted for.
CreateRequest ==
    [pc : ClientPC, id : WorkId \cup {NoWork}, key : Key \cup {NoKey}, timeout : Timeout, queue : BOOLEAN,
     retry : BOOLEAN, work : WorkId \cup {NoWork}, seen : State]

\* A webhook request.
DeliveryRequest == [pc : ReceiverPC, delivery : Delivery, work : WorkId \cup {NoWork}]

Answered == {"created", "replayed", "conflict", "refused", "failed", "gone"}

Rows == {w \in WorkId : rows[w] # NoWork}

\* ValidateAndEnrich: the timeout that is persisted.
Enrich(t, d) == IF t = 0 THEN d.default ELSE t

\* canonicalCreationIntentWithDefaults: leaving a field out and giving its default
\* are one intent.
Canonical(t, d) == IF t = d.default THEN 0 ELSE t

\* A row of works.  meta says whether it has the creation metadata: the hash of the
\* intent, the defaults in force and the queue decision.
Row(key, t, d, meta, queue, state, origin) ==
    [key |-> key, timeout |-> Enrich(t, d), hash |-> Canonical(t, d), defaults |-> d,
     meta |-> meta, queue |-> queue, state |-> state, origin |-> origin]

IntakeInit ==
    /\ policy \in Deployment
    /\ \E legacy \in {{}} \cup {{w} : w \in LegacyId} :
         rows = [w \in WorkId |-> IF w \in legacy
                                  THEN Row(LegacyKey, 0, policy, FALSE, FALSE, "CREATED", NoWork)
                                  ELSE NoWork]
    /\ client = [c \in Client |-> [pc |-> "new", id |-> NoWork, key |-> NoKey, timeout |-> 0,
                                   queue |-> FALSE, retry |-> FALSE, work |-> NoWork,
                                   seen |-> "CREATED"]]
    /\ webhooks = [d \in Delivery |-> NoWork]
    /\ receiver = [h \in Receiver |-> [pc |-> "new", delivery |-> CHOOSE d \in Delivery : TRUE,
                                       work |-> NoWork]]

-----------------------------------------------------------------------------
\* The client's request goes on at pc, or answers with it.
ClientGoto(c, pc) == client' = [client EXCEPT ![c].pc = pc]

\* The request has read row w.
ClientSees(c, pc, w) ==
    client' = [client EXCEPT ![c].pc = pc, ![c].work = w, ![c].seen = rows[w].state]

\* GetWorkByIdempotencyKey.
ByKey(key) == {w \in Rows : rows[w].key = key}

\* The submission repeats the one that created the row of its key.
Repeats(key, t, queue) ==
    \E w \in ByKey(key) :
        rows[w].meta /\ client[rows[w].origin].timeout = t /\ rows[w].queue = queue

\* POST /v1/works.
BeginCreate(c, id, key, t, queue) ==
    /\ client[c].pc = "new"
    /\ client' = [client EXCEPT ![c].pc = IF key = NoKey THEN "create" ELSE "lookup",
                                ![c].id = id, ![c].key = key, ![c].timeout = t,
                                ![c].queue = queue,
                                ![c].retry = key # NoKey /\ Repeats(key, t, queue)]
    /\ UNCHANGED <<rows, policy, webhooks, receiver>>

\* replayMatchesDurableIntent: the request is compared under the defaults its key
\* was accepted with; a legacy row under the current ones.
ReplayMatches(c, w) ==
    IF rows[w].meta
    THEN /\ rows[w].hash = Canonical(client[c].timeout, rows[w].defaults)
         /\ rows[w].queue = client[c].queue
    ELSE Canonical(rows[w].timeout, policy) = Canonical(client[c].timeout, policy)

\* replayMatchesAcceptedHash.
AcceptedMatches(c, w) ==
    /\ rows[w].meta
    /\ rows[w].hash = Canonical(client[c].timeout, policy)
    /\ rows[w].queue = client[c].queue

\* Faulty variant of LookupKey: admission comes before the reconciliation.
LookupKeyAfterAdmission(c) ==
    /\ client[c].pc = "lookup"
    /\ UNCHANGED <<rows, policy, webhooks, receiver>>
    /\ \/ client[c].timeout > policy.max /\ ClientGoto(c, "refused")
       \/ client[c].timeout <= policy.max /\ ByKey(client[c].key) = {} /\ ClientGoto(c, "create")
       \/ /\ client[c].timeout <= policy.max
          /\ \E w \in ByKey(client[c].key) :
               IF ReplayMatches(c, w) THEN ClientSees(c, "repair", w) ELSE ClientGoto(c, "conflict")

\* createWork reconciles the key before it validates anything.
LookupKey(c) ==
    /\ client[c].pc = "lookup"
    /\ UNCHANGED <<rows, policy, webhooks, receiver>>
    /\ \/ ByKey(client[c].key) = {} /\ ClientGoto(c, "create")
       \/ \E w \in ByKey(client[c].key) :
            IF ReplayMatches(c, w) THEN ClientSees(c, "repair", w) ELSE ClientGoto(c, "conflict")

\* Faulty variant of CreateWork: the key is not looked for again in the transaction.
CreateWorkUnchecked(c) ==
    LET r == client[c]
    IN  /\ r.pc = "create"
        /\ UNCHANGED <<policy, webhooks, receiver>>
        /\ \/ r.timeout > policy.max /\ ClientGoto(c, "refused") /\ UNCHANGED rows
           \/ /\ r.timeout <= policy.max /\ rows[r.id] = NoWork
              /\ rows' = [rows EXCEPT ![r.id] = Row(r.key, r.timeout, policy, r.key # NoKey,
                                                    r.queue, "CREATED", c)]
              /\ client' = [client EXCEPT ![c].pc = IF r.key # NoKey THEN "canonical"
                                                    ELSE IF r.queue THEN "queue" ELSE "created",
                                          ![c].work = r.id]
           \/ /\ r.timeout <= policy.max /\ rows[r.id] # NoWork
              /\ ClientGoto(c, "failed") /\ UNCHANGED rows

\* Admission, then the transaction of CreateWork: the key is bound to another id, to
\* this id with another intent, to this id with the same, or free.  An id that is
\* taken fails the insert.
CreateWork(c) ==
    LET r == client[c]
        bound == IF r.key = NoKey THEN {} ELSE ByKey(r.key)
    IN  /\ r.pc = "create"
        /\ UNCHANGED <<policy, webhooks, receiver>>
        /\ \/ r.timeout > policy.max /\ ClientGoto(c, "refused") /\ UNCHANGED rows
           \/ /\ r.timeout <= policy.max /\ bound # {}
              /\ ClientGoto(c, IF r.id \in bound /\ AcceptedMatches(c, r.id)
                               THEN "canonical" ELSE "reread")
              /\ UNCHANGED rows
           \/ /\ r.timeout <= policy.max /\ bound = {} /\ rows[r.id] = NoWork
              /\ rows' = [rows EXCEPT ![r.id] = Row(r.key, r.timeout, policy, r.key # NoKey,
                                                    r.queue, "CREATED", c)]
              /\ client' = [client EXCEPT ![c].pc = IF r.key # NoKey THEN "canonical"
                                                    ELSE IF r.queue THEN "queue" ELSE "created",
                                          ![c].work = r.id]
           \/ /\ r.timeout <= policy.max /\ bound = {} /\ rows[r.id] # NoWork
              /\ ClientGoto(c, "failed") /\ UNCHANGED rows

\* After ErrIdempotencyConflict: the winner of the race is the answer if it is the
\* same submission.
RereadKey(c) ==
    /\ client[c].pc = "reread"
    /\ UNCHANGED <<rows, policy, webhooks, receiver>>
    /\ \E w \in ByKey(client[c].key) :
         IF AcceptedMatches(c, w) THEN ClientSees(c, "repair", w) ELSE ClientGoto(c, "conflict")

\* After the insert, "a conflicting loser can never return an unstored payload".
ReadCanonical(c) ==
    /\ client[c].pc = "canonical"
    /\ UNCHANGED <<rows, policy, webhooks, receiver>>
    /\ \/ ByKey(client[c].key) = {} /\ ClientGoto(c, "failed")
       \/ \E w \in ByKey(client[c].key) :
            IF AcceptedMatches(c, w)
            THEN ClientSees(c, IF client[c].queue THEN "repair" ELSE "created", w)
            ELSE ClientGoto(c, "conflict")

\* Faulty variant of ReconcileReplayQueue: a row in CREATED need not be repaired.
ReconcileReplayQueueLater(c) ==
    /\ client[c].pc = "repair"
    /\ ClientGoto(c, "replayed")
    /\ UNCHANGED <<rows, policy, webhooks, receiver>>

\* reconcileReplayQueue: completes a CREATED -> QUEUED transition that the accepted
\* submission asked for.  UpdateState may find that the row has moved on.
ReconcileReplayQueue(c) ==
    LET w == client[c].work
        repair == rows[w].meta /\ rows[w].queue /\ client[c].seen = "CREATED"
    IN  /\ client[c].pc = "repair"
        /\ UNCHANGED <<policy, webhooks, receiver>>
        /\ \/ repair /\ CanTransition(rows[w].state, "QUEUED")
              /\ rows' = [rows EXCEPT ![w].state = "QUEUED"] /\ ClientGoto(c, "replayed")
           \/ (repair => ~CanTransition(rows[w].state, "QUEUED"))
              /\ ClientGoto(c, "replayed") /\ UNCHANGED rows
           \/ repair /\ ClientGoto(c, "failed") /\ UNCHANGED rows

\* The queue step of a creation without a key: a failure is only logged.
AutoQueue(c) ==
    LET w == client[c].work
    IN  /\ client[c].pc = "queue"
        /\ ClientGoto(c, "created")
        /\ \/ CanTransition(rows[w].state, "QUEUED") /\ rows' = [rows EXCEPT ![w].state = "QUEUED"]
           \/ UNCHANGED rows
        /\ UNCHANGED <<policy, webhooks, receiver>>

\* The client hangs up: its context cancels what is left.
AbandonCreate(c) ==
    /\ client[c].pc \notin Answered \cup {"new"}
    /\ ClientGoto(c, "gone")
    /\ UNCHANGED <<rows, policy, webhooks, receiver>>

-----------------------------------------------------------------------------
ReceiverGoto(h, pc) == receiver' = [receiver EXCEPT ![h].pc = pc]

\* POST /v1/webhook/github; GitHub may deliver the same delivery again.
BeginDelivery(h, d) ==
    /\ receiver[h].pc = "new"
    /\ receiver' = [receiver EXCEPT ![h].pc = "lookup", ![h].delivery = d]
    /\ UNCHANGED <<rows, policy, client, webhooks>>

LookupDelivery(h) ==
    LET w == webhooks[receiver[h].delivery]
    IN  /\ receiver[h].pc = "lookup"
        /\ IF w # NoWork THEN receiver' = [receiver EXCEPT ![h].pc = "duplicate", ![h].work = w]
                         ELSE ReceiverGoto(h, "load")
        /\ UNCHANGED <<rows, policy, client, webhooks>>

\* ParseGitHubDelivery, ShouldCreateWork, the allow-list and workFromPipeline: the
\* event is not for us, works.yml cannot be loaded, or there is a Work to create.
LoadPipeline(h) ==
    /\ receiver[h].pc = "load"
    /\ ReceiverGoto(h, "ignored") \/ ReceiverGoto(h, "failed") \/ ReceiverGoto(h, "create")
    /\ UNCHANGED <<rows, policy, client, webhooks>>

\* CreateWork with a generated id; a Work of a webhook starts out QUEUED.
CreateFromDelivery(h) ==
    LET fresh == {w \in WorkId \ Rows : \A c \in Client : client[c].id # w}
    IN  /\ receiver[h].pc = "create"
        /\ \E w \in fresh :
             /\ rows' = [rows EXCEPT ![w] = Row(NoKey, 0, policy, FALSE, FALSE, "QUEUED",
                                                receiver[h].delivery)]
             /\ receiver' = [receiver EXCEPT ![h].pc = "record", ![h].work = w]
        /\ UNCHANGED <<policy, client, webhooks>>

\* RecordWebhookDelivery: the first record of a delivery wins; a failure is ignored.
RecordWebhookDelivery(h) ==
    LET r == receiver[h]
    IN  /\ r.pc = "record"
        /\ \/ webhooks' = [webhooks EXCEPT ![r.delivery] = IF @ = NoWork THEN r.work ELSE @]
           \/ UNCHANGED webhooks
        /\ ReceiverGoto(h, "created")
        /\ UNCHANGED <<rows, policy, client>>

AbandonDelivery(h) ==
    /\ receiver[h].pc \in {"lookup", "load", "create", "record"}
    /\ ReceiverGoto(h, "gone")
    /\ UNCHANGED <<rows, policy, client, webhooks>>

-----------------------------------------------------------------------------
\* Queueing, claiming, cancelling and finalizing elsewhere.
AdvanceRow(w, to) ==
    /\ rows[w] # NoWork
    /\ CanTransition(rows[w].state, to)
    /\ rows' = [rows EXCEPT ![w].state = to]
    /\ UNCHANGED <<policy, client, webhooks, receiver>>

\* A new version of the server: the requests in flight end.
Deploy(d) ==
    /\ d # policy
    /\ policy' = d
    /\ client' = [c \in Client |-> IF client[c].pc \in Answered \cup {"new"} THEN client[c]
                                   ELSE [client[c] EXCEPT !.pc = "gone"]]
    /\ receiver' = [h \in Receiver |-> IF receiver[h].pc \in {"lookup", "load", "create", "record"}
                                       THEN [receiver[h] EXCEPT !.pc = "gone"] ELSE receiver[h]]
    /\ UNCHANGED <<rows, webhooks>>

ClientStep(c) ==
    \/ \E id \in WorkId, key \in Key \cup {NoKey}, t \in Timeout, queue \in BOOLEAN :
         BeginCreate(c, id, key, t, queue)
    \/ LookupKey(c) \/ CreateWork(c) \/ RereadKey(c) \/ ReadCanonical(c)
    \/ ReconcileReplayQueue(c) \/ AutoQueue(c) \/ AbandonCreate(c)

ReceiverStep(h) ==
    \/ \E d \in Delivery : BeginDelivery(h, d)
    \/ LookupDelivery(h) \/ LoadPipeline(h) \/ CreateFromDelivery(h)
    \/ RecordWebhookDelivery(h) \/ AbandonDelivery(h)

IntakeNext ==
    \/ \E c \in Client : ClientStep(c)
    \/ \E h \in Receiver : ReceiverStep(h)
    \/ \E w \in WorkId, to \in {"QUEUED", "CANCELLED"} : AdvanceRow(w, to)
    \/ \E d \in Deployment : Deploy(d)

IntakeSpec == IntakeInit /\ [][IntakeNext]_intakeVars

-----------------------------------------------------------------------------
\* Type correctness: the rows, the delivery table and the two kinds of request.
IntakeTypeOK ==
    /\ rows \in [WorkId -> WorkRow \cup {NoWork}]
    /\ \A w \in Rows : rows[w].timeout # 0
    /\ policy \in Deployment
    /\ client \in [Client -> CreateRequest]
    /\ webhooks \in [Delivery -> WorkId \cup {NoWork}]
    /\ receiver \in [Receiver -> DeliveryRequest]

\* A key is bound to one Work, whatever ids and intents its users race with
\* (CreateWork).
OneWorkPerKey ==
    \A v, w \in Rows : rows[v].key = rows[w].key /\ rows[v].key # NoKey => v = w

\* An answer is persisted truth: the Work a keyed request is answered with is bound
\* to its key, and its intent and queue decision are the request's own under the
\* defaults it was accepted with (createWork, replayMatchesAcceptedHash).
AnswerIsStored ==
    \A c \in Client :
        LET r == client[c]
            row == rows[r.work]
        IN  r.pc \in {"created", "replayed"} /\ r.key # NoKey =>
                /\ row.key = r.key
                /\ row.meta => /\ row.queue = r.queue
                               /\ row.hash = Canonical(r.timeout, row.defaults)

\* A client that lost its answer and sends the same submission again recovers its
\* Work: the retry is never refused as a conflict or by an admission rule, also when
\* a deployment has changed the defaults or the rules meanwhile, and also when the
\* first request died after its insert (createWork).
RetryIsRecognized ==
    \A c \in Client : client[c].retry => client[c].pc \notin {"conflict", "refused"}

\* A keyed submission with queue that is answered as accepted is queued, also when
\* the request that created its row died before it could queue it
\* (reconcileReplayQueue).
AnsweredIsQueued ==
    \A c \in Client :
        /\ client[c].pc \in {"created", "replayed"} /\ client[c].key # NoKey /\ client[c].queue
        /\ rows[client[c].work].meta
        => rows[client[c].work].state # "CREATED"

\* The queue repair completes CREATED -> QUEUED and never moves a Work back
\* (reconcileReplayQueue, UpdateState).
NeverMovedBack ==
    [][\A w \in WorkId :
          rows[w] # NoWork /\ rows'[w] # rows[w] => CanTransition(rows[w].state, rows'[w].state)]_intakeVars

\* A delivery keeps the Work it was recorded with, and that Work was made for it:
\* every duplicate is told about the same one (RecordWebhookDelivery).
DeliveryKeepsItsWork ==
    [][\A d \in Delivery :
          webhooks[d] # NoWork =>
              webhooks'[d] = webhooks[d] /\ rows[webhooks[d]].origin = d]_intakeVars

=============================================================================
